---------------------------- MODULE MCUpstreamRPC ----------------------------
(***************************************************************************)
(* UpstreamRPC for TLC.                                                    *)
(***************************************************************************)
EXTENDS UpstreamRPC
=============================================================================
