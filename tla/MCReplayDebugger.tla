--------------------------- MODULE MCReplayDebugger ---------------------------
(***************************************************************************)
(* ReplayDebugger for TLC: a root contract that calls another, with a      *)
(* branch on the storage cell before, in and after the call.               *)
(***************************************************************************)
EXTENDS ReplayDebugger

I(op) == [op |-> op, callee |-> ""]
Call(c) == [op |-> "call", callee |-> c]
Breakpoint(kind, contract, pc) == [kind |-> kind, contract |-> contract, pc |-> pc]

TwoContracts ==
  [root |-> <<I("read"), Call("callee"), I("ifset"), I("require"), I("stop")>>,
   callee |-> <<I("ifset"), I("write"), I("read"), I("stop")>>]

\* A breakpoint here can match only up to the end of the last call.
UpToTheCall ==
  {Breakpoint("source", "callee", 4), Breakpoint("function", "callee", 0),
   Breakpoint("write", "", 0), Breakpoint("read", "", 0)}

\* The root goes on when its call failed, and calls again.
CallsAgain ==
  [root |-> <<Call("callee"), I("ifset"), Call("callee"), I("require"), I("stop")>>,
   callee |-> <<I("ifset"), I("revert"), I("write"), I("stop")>>]

Anywhere ==
  {Breakpoint("source", "callee", 1), Breakpoint("source", "root", 5),
   Breakpoint("call", "callee", 0), Breakpoint("write", "", 0)}
=============================================================================
