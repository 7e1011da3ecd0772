--------------------------- MODULE DebuggerSession ---------------------------
(***************************************************************************)
(* What gdb.next, gdb.continue and the writes promise of one session: the  *)
(* debugger walks along one run of the program, the run it would make      *)
(* undisturbed with the writes of the session, and what it shows is the    *)
(* state of that run at its position.  There is no replaying here, no      *)
(* halting of frames and no hooks.                                         *)
(***************************************************************************)
EXTENDS Integers, Sequences

CONSTANTS
  LastStepOf(_),   \* the last step of the run with these mutations
  StateAt(_, _),   \* the state of the run with these mutations at a step
  StopsOf(_, _),   \* the steps breakpoints stop at in the run with these mutations
  Nothing          \* shown between stops

VARIABLES
  position,     \* the step the session is at, -1 before the first
  done,         \* the run is known to be over
  shown,        \* what the session shows of the state at position
  mode,         \* the command under way: "idle", "next", "continue"
  interrupt,    \* a pause is requested
  breakpoints,
  mutations     \* one [step, value] per write

vars == <<position, done, shown, mode, interrupt, breakpoints, mutations>>

NextStops == {p \in StopsOf(mutations, breakpoints) : p > position}

\* Where a command may stop.
IsTarget(p) ==
  \/ mode = "next" /\ p = position + 1
  \/ /\ mode = "continue" /\ p > position
     /\ \A q \in NextStops : p <= q
     /\ p \in NextStops \/ interrupt

IsOver ==
  \/ mode = "next" /\ position >= LastStepOf(mutations)
  \/ mode = "continue" /\ NextStops = {}

Ask ==
  /\ mode = "idle" /\ mode' \in {"next", "continue"}
  /\ shown' = Nothing /\ interrupt' = FALSE
  /\ UNCHANGED <<position, done, breakpoints, mutations>>

Pause ==
  /\ mode # "idle" /\ mode' = "idle"
  /\ position' \in 0 .. LastStepOf(mutations) /\ IsTarget(position')
  /\ shown' = StateAt(mutations, position') /\ done' = FALSE
  /\ UNCHANGED <<interrupt, breakpoints, mutations>>

Complete ==
  /\ mode # "idle" /\ mode' = "idle"
  /\ IsOver
  /\ done' = TRUE /\ position' = LastStepOf(mutations)
  /\ UNCHANGED <<shown, interrupt, breakpoints, mutations>>

\* The engine failed, or the run itself: nothing is shown.
GiveUp ==
  /\ mode # "idle" /\ mode' = "idle"
  /\ UNCHANGED <<position, done, shown, interrupt, breakpoints, mutations>>

Interrupt ==
  /\ interrupt' = TRUE
  /\ UNCHANGED <<position, done, shown, mode, breakpoints, mutations>>

SetBreakpoints ==
  /\ mode = "idle"
  /\ breakpoints' # breakpoints
  /\ UNCHANGED <<position, done, shown, mode, interrupt, mutations>>

\* A write holds from the shown step on, and is shown there.
Write ==
  /\ mode = "idle" /\ shown # Nothing
  /\ Len(mutations') = Len(mutations) + 1
  /\ SubSeq(mutations', 1, Len(mutations)) = mutations
  /\ mutations'[Len(mutations')].step = position
  /\ shown' = StateAt(mutations', position)
  /\ UNCHANGED <<position, done, mode, interrupt, breakpoints>>

Init ==
  /\ position = -1 /\ ~done /\ shown = Nothing /\ mode = "idle" /\ ~interrupt
  /\ breakpoints = {} /\ mutations = <<>>

Next ==
  Ask \/ Pause \/ Complete \/ GiveUp \/ Interrupt \/ SetBreakpoints \/ Write

Spec == Init /\ [][Next]_vars
=============================================================================
