----------------------------- MODULE MCForkCalls -----------------------------
(***************************************************************************)
(* ForkCalls for TLC: an account deployed in the second of two blocks, and *)
(* a cell of a contract that was there before.                             *)
(***************************************************************************)
EXTENDS ForkCalls, TLC

TwoBlocks ==
  LET account(code) == <<1, 0, code>>
  IN <<[x \in {"contract", "cell"} |-> IF x = "cell" THEN <<1>> ELSE account(0)],
       [x \in {"contract", "cell"} |-> IF x = "cell" THEN <<1>> ELSE account(1)]>>

\* An engine that floats, one pinned to the first block, one New refuses.
DiffAndPinned == {[mode |-> "", block |-> NoBlock], [mode |-> "pinned", block |-> At(1)],
                  [mode |-> "pinned", block |-> LatestBlock]}

FirstOrNone == {At(1), Nothing}

SomeWrites == {<<"cell", 1, 2>>}
=============================================================================
