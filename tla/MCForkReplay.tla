----------------------------- MODULE MCForkReplay -----------------------------
(* Instances of ForkReplay: blocks of three transactions on two cells. *)
EXTENDS ForkReplay, TLC

Op(s, do) == [slot |-> s, do |-> do]
Tx(to, ops, ends, value) == [to |-> to, ops |-> ops, ends |-> ends, value |-> value]

MCParentState == ("a" :> 1) @@ ("b" :> 1)

\* Successful transactions, and failing ones that move value: their state is put back.
Harmless ==
  {Tx("A", <<Op("a", "inc")>>, "stop", FALSE),
   Tx("B", <<Op("b", "require"), Op("b", "inc")>>, "stop", TRUE),
   Tx("A", <<Op("b", "inc"), Op("a", "inc")>>, "revert", TRUE),
   Tx("B", <<Op("a", "set"), Op("b", "inc")>>, "invalid", TRUE)}


\* A transaction that reverts after a write and moves no value comes first.
Reverted == Tx("A", <<Op("a", "inc"), Op("b", "inc")>>, "revert", FALSE)
RevertedBlocks == {<<Reverted, tx>> : tx \in Harmless}

\* Each position has a choice.
MixedBlocks ==
  {<<first, second, third>> : first \in Harmless \cup {Reverted}, second \in Harmless,
     third \in {tx \in Harmless : tx.ends = "stop"}}
=============================================================================
