----------------------------- MODULE SequenceRun -----------------------------
(***************************************************************************)
(* What a debug sequence promises its client: the steps are debugged one   *)
(* after the other, each after the one before it has finished, and the     *)
(* writes made while debugging a step hold in the next one as well, unless *)
(* nothing is carried.  There are no patches, sessions or requests here.   *)
(*                                                                         *)
(* One thing is not promised: a memory cell that two writes of different   *)
(* extent compete for may be carried with the value of either, or not.     *)
(***************************************************************************)
EXTENDS Integers, Functions, TLC

CONSTANTS
  Length,     \* of the sequence
  NotBegun,
  Written     \* the writes the client may make: functions from cells to values

VARIABLES
  index,      \* the step being debugged, NotBegun before the first
  fresh,      \* nothing of the step was run yet
  finished,   \* the step ran to its end
  over,       \* the whole sequence did
  carries,    \* writes are carried from step to step
  overlay,    \* the writes in force: [cell -> value]
  contested   \* the cells that writes of different extent compete for

vars == <<index, fresh, finished, over, carries, overlay, contested>>

Init ==
  /\ index = NotBegun /\ over = FALSE
  /\ overlay = [c \in {} |-> 0] /\ contested = {}
  /\ fresh = TRUE /\ finished = FALSE

Begin ==
  /\ index = NotBegun
  /\ index' = 0 /\ ~over'
  /\ UNCHANGED <<overlay, contested>>

Debugging == index # NotBegun /\ ~over

\* The step goes on, perhaps to its end.
Advance ==
  /\ Debugging
  /\ fresh' => fresh
  /\ finished => finished'
  /\ UNCHANGED <<index, over, carries, overlay, contested>>

\* The write holds from now on.
Write ==
  /\ Debugging /\ ~fresh /\ ~finished
  /\ \E w \in Written : overlay' = w @@ overlay
  /\ contested \subseteq contested'
  /\ UNCHANGED <<index, fresh, finished, over, carries>>

\* Before anything of the step was run, the client may preload other writes.
Preload ==
  /\ index # NotBegun /\ fresh
  /\ UNCHANGED <<index, fresh, finished, over, carries>>

NextStep ==
  /\ Debugging /\ finished
  /\ index' = index + 1 /\ index' < Length
  /\ IF carries
     THEN /\ contested' \subseteq contested
          /\ Restrict(overlay', DOMAIN overlay' \ contested) =
             Restrict(overlay, DOMAIN overlay \ contested)
     ELSE overlay' = [c \in {} |-> 0] /\ contested' = {}
  /\ UNCHANGED <<over, carries>>

End ==
  /\ Debugging /\ finished /\ index = Length - 1
  /\ over'
  /\ UNCHANGED <<index, fresh, finished, carries, overlay, contested>>

Next == Begin \/ Advance \/ Write \/ Preload \/ NextStep \/ End

Spec == Init /\ [][Next]_vars
=============================================================================
