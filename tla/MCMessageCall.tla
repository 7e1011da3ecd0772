---------------------------- MODULE MCMessageCall ----------------------------
(***************************************************************************)
(* MessageCall for TLC: a caller, two contracts that call each other, an   *)
(* address a creation may derive and a precompile, with gas scaled down so *)
(* that runs are a few opcodes long.                                       *)
(***************************************************************************)
EXTENDS MessageCall

CONSTANTS caller, alice, bob, fresh, precompile

MCInitBalance == [a \in Addr |-> IF a \in {caller, alice} THEN 1 ELSE 0]

\* All opcodes; those that only write are dearer, which keeps runs short.
Program == [op \in OpNames |->
  IF op = "PLAIN" THEN {4} ELSE IF op \in {"TSTORE", "SELFDESTRUCT", "SSTORE"} THEN {2} ELSE {1}]

=============================================================================
