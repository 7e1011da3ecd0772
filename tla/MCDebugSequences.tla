-------------------------- MODULE MCDebugSequences --------------------------
(***************************************************************************)
(* DebugSequences for TLC.                                                 *)
(***************************************************************************)
EXTENDS DebugSequences, TLC

CallAt(base) == [kind |-> "call", base |-> base]
Replay == [kind |-> "replay", base |-> "latest"]
Memory(at, data) == [kind |-> "memory", at |-> at, data |-> data]
Slot(kind, at, value) == [kind |-> kind, at |-> at, data |-> <<value>>]

\* A call takes the writes of a replay, a replay does not take those of a call.
MixedSteps == <<Replay, CallAt("num:1"), Replay>>

TwoCalls == <<CallAt("num:1"), CallAt("num:1")>>

\* Storage overwritten, memory writes that overlap and that do not.
SomeWrites ==
  {Slot("persistent", 1, 1), Slot("persistent", 1, 2),
   Memory(2, <<1, 2>>), Memory(3, <<3>>)}

OneWrite == {Slot("persistent", 1, 1)}
\* The properties of two clients say nothing of what follows an overlap.
NotOverlapped == ~overlapped

Symmetric == Permutations(Clients)
=============================================================================
