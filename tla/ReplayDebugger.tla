---------------------------- MODULE ReplayDebugger ----------------------------
(***************************************************************************)
(* One debugging session of the JSON-RPC server: gdb.next and gdb.continue *)
(* (replaySession), breakpoints, writes, and gdb.pause from another        *)
(* request.  There is no paused program: every command runs the whole      *)
(* program again from its first step, hooks stop it by halting the frame   *)
(* they fire in, and the mutations of the session are redone on the way.   *)
(*                                                                         *)
(* The program is a constant: frames that call one another, read, write    *)
(* and branch on one storage cell.                                         *)
(***************************************************************************)
EXTENDS Integers, Sequences, FiniteSets

CONSTANTS
  Program,      \* the contracts: [contract -> its instructions]
  Root,         \* the contract the transaction or call enters
  Values,       \* the values of the storage cell
  BreakpointChoices,  \* the breakpoints the user may set
  MaxWrites,    \* bound: writes per session
  MaxSteps,     \* bound: no run is longer
  Pausing       \* the user may ask for pauses

Ops == {"plain", "read", "write", "ifset", "call", "require", "revert", "stop"}
Instr == [op: Ops, callee: DOMAIN Program \cup {""}]

ASSUME ProgramAssumption ==
  /\ Root \in DOMAIN Program
  /\ \A c \in DOMAIN Program :
       /\ Program[c] \in Seq(Instr)
       /\ Len(Program[c]) > 0
       /\ Program[c][Len(Program[c])].op \in {"stop", "revert"}
       /\ \A i \in 1 .. Len(Program[c]) :
            /\ Program[c][i].op = "call" <=> Program[c][i].callee # ""
            /\ Program[c][i].op = "ifset" => i + 2 <= Len(Program[c])

ASSUME BoundAssumption ==
  {0, 1} \subseteq Values /\ MaxWrites \in Nat /\ MaxSteps \in Nat /\ Pausing \in BOOLEAN

VARIABLES
  \* ReplaySession
  position,        \* Position
  done,            \* Done
  current,         \* Current: the pause shown to the client
  pendingPause,    \* PendingPause
  breakpoints,     \* Breakpoints
  mutations,       \* Mutations: one [step, value] per write
  pauseRequested,  \* PauseRequested
  running,         \* ExecutionRunning
  \* the goroutine of gdb.next or gdb.continue
  mode,            \* "idle", "next", "continue"
  machine,         \* the engine: its frames, its cell, and how the last frame ended
  seen,            \* debugStepHook.seen
  \* the goroutine of gdb.pause
  pauser,          \* "idle", "asked": it saw the session running, "waiting"
  \* history
  firstPause       \* the first pause captured in this run

session == <<position, done, current, breakpoints, mutations>>
run == <<pendingPause, machine, seen, firstPause>>
vars == <<session, run, pauseRequested, running, mode, pauser>>

NoPause == [step |-> -1]

-----------------------------------------------------------------------------
(* The engine, as far as the debugger sees it.                             *)

Activation(contract, cell) == [contract |-> contract, pc |-> 1, saved |-> cell]

Start == [frames |-> <<Activation(Root, 0)>>, cell |-> 0, ok |-> TRUE]

\* What a new command runs on.  Variant with a bug: the storage the previous
\* run left behind.
PreparedReused == [Start EXCEPT !.cell = machine.cell]

Prepared == Start

Ended(m) == m.frames = <<>>
Top(m) == m.frames[Len(m.frames)]
InstrAt(m) == Program[Top(m).contract][Top(m).pc]
Popped(m) == SubSeq(m.frames, 1, Len(m.frames) - 1)

Jump(m, n) == [m EXCEPT !.frames[Len(m.frames)].pc = @ + n]

\* Variant with a bug: a halt only skips the instruction.
FailSkips(m) == [Jump(m, 1) EXCEPT !.ok = FALSE]

\* The innermost frame fails: what it wrote is undone, its caller goes on.
Fail(m) == [frames |-> Popped(m), cell |-> Top(m).saved, ok |-> FALSE]

Exec(m) ==
  LET instr == InstrAt(m)
      onward == Jump(m, 1)
  IN CASE instr.op \in {"plain", "read"} -> onward
       [] instr.op = "write" -> [onward EXCEPT !.cell = 1]
       [] instr.op = "ifset" -> IF m.cell # 0 THEN onward ELSE Jump(m, 2)
       [] instr.op = "call" ->
            [onward EXCEPT !.frames = Append(@, Activation(instr.callee, m.cell))]
       [] instr.op = "require" -> IF m.ok THEN onward ELSE Fail(m)
       [] instr.op = "revert" -> Fail(m)
       [] instr.op = "stop" -> [m EXCEPT !.frames = Popped(m), !.ok = TRUE]

\* applyMutations: the writes recorded for this step, the last one wins.
Applied(m, step, muts) ==
  LET due == {i \in 1 .. Len(muts) : muts[i].step = step}
  IN IF due = {} THEN m
     ELSE [m EXCEPT !.cell = muts[CHOOSE i \in due : \A j \in due : j <= i].value]

-----------------------------------------------------------------------------
(* Where the hooks stop.                                                   *)

\* matchRootFunctionBreakpoint and matchSourceBreakpoint, before the
\* instruction runs.
StepMatches(m, bps) ==
  \E b \in bps : /\ b.contract = Top(m).contract
                 /\ \/ b.kind = "source" /\ b.pc = Top(m).pc
                    \/ b.kind = "function" /\ Top(m).pc = 1

\* newCallHook and newStorageHook, while the instruction runs.
AccessMatches(m, bps) ==
  LET instr == InstrAt(m)
  IN \E b \in bps :
       \/ /\ instr.op = "call" /\ b.kind \in {"call", "function"}
          /\ b.contract = instr.callee
       \/ instr.op \in {"read", "write"} /\ b.kind = instr.op

\* Variant with a bug: the step after the position is passed over too.
StopsLate(m) ==
  /\ seen > position + 1
  /\ mode = "next" \/ pauseRequested \/ StepMatches(m, breakpoints)
                   \/ AccessMatches(m, breakpoints)

\* Variant with a bug: steps already shown are not passed over.
StopsAgain(m) ==
  \/ mode = "next" /\ seen = position + 1
  \/ mode = "continue" /\ pauseRequested
  \/ StepMatches(m, breakpoints) \/ AccessMatches(m, breakpoints)

\* Does a hook halt at this step?  next does not look at pause requests.
Stops(m) ==
  /\ seen > position
  /\ \/ mode = "next" /\ seen = position + 1
     \/ mode = "continue" /\ pauseRequested
     \/ StepMatches(m, breakpoints)
     \/ AccessMatches(m, breakpoints)

capturePause(m) == [step |-> seen, shown |-> m]

\* LastStep: the step hook sets it each time it counts.
lastStep == seen - 1

-----------------------------------------------------------------------------
(* The requests of the client, one at a time.                              *)

SetBreakpoint(b) ==
  /\ mode = "idle"
  /\ b \notin breakpoints
  /\ breakpoints' = breakpoints \cup {b}
  /\ UNCHANGED <<position, done, current, mutations, run, pauseRequested, running,
                 mode, pauser>>

DeleteBreakpoint(b) ==
  /\ mode = "idle"
  /\ b \in breakpoints
  /\ breakpoints' = breakpoints \ {b}
  /\ UNCHANGED <<position, done, current, mutations, run, pauseRequested, running,
                 mode, pauser>>

\* Variant with a bug: the write is recorded for the step after.
WriteStepAfter == position + 1

WriteStep == position

\* writeStorage: recorded, and shown in the current pause.
WriteStorage(value) ==
  /\ mode = "idle"
  /\ current # NoPause
  /\ Len(mutations) < MaxWrites
  /\ mutations' = Append(mutations, [step |-> WriteStep, value |-> value])
  /\ current' = [current EXCEPT !.shown.cell = value]
  /\ UNCHANGED <<position, done, breakpoints, run, pauseRequested, running, mode, pauser>>

\* The first half of replaySession; a prepareSession that fails changes
\* nothing.
Advance(command) ==
  /\ mode = "idle"
  /\ mode' = command
  /\ machine' = Prepared
  /\ seen' = 0
  /\ pendingPause' = NoPause /\ current' = NoPause /\ firstPause' = NoPause
  /\ pauseRequested' = FALSE
  /\ running' = TRUE
  /\ UNCHANGED <<position, done, breakpoints, mutations, pauser>>

-----------------------------------------------------------------------------
(* ExecutePreparedCall, one instruction at a time.                         *)

Executing == mode # "idle" /\ running /\ ~Ended(machine) /\ seen <= MaxSteps

RunsOn ==
  /\ Executing
  /\ LET m == Applied(machine, seen, mutations)
     IN ~Stops(m) /\ machine' = Exec(m)
  /\ seen' = seen + 1
  /\ UNCHANGED <<session, pendingPause, firstPause, pauseRequested, running, mode, pauser>>

\* A hook answers ActionHalt: that ends the frame it fired in, with all its
\* gas.  Only when that is the outermost frame does the run end here.
Halts ==
  /\ Executing
  /\ LET m == Applied(machine, seen, mutations)
     IN /\ Stops(m)
        /\ machine' = Fail(m)
        /\ pendingPause' = capturePause(m)
        /\ firstPause' = IF firstPause = NoPause THEN capturePause(m) ELSE firstPause
  /\ seen' = seen + 1
  /\ UNCHANGED <<session, pauseRequested, running, mode, pauser>>

\* After a frame was halted its callers have less gas than in the real run:
\* any of them may run out of it before the hooks of its next step.
Starves ==
  /\ Executing
  /\ firstPause # NoPause
  /\ machine' = Fail(machine)
  /\ UNCHANGED <<session, pendingPause, seen, firstPause, pauseRequested, running,
                 mode, pauser>>

Returns ==
  /\ mode # "idle" /\ running /\ Ended(machine)
  /\ running' = FALSE
  /\ UNCHANGED <<session, run, pauseRequested, mode, pauser>>

\* A failing upstream panics outside EVM.Run (fees, top-level value): the
\* HTTP server drops the request, the flag stays.
Panics ==
  /\ mode # "idle" /\ running
  /\ seen = 0 \/ Ended(machine)
  /\ mode' = "idle"
  /\ UNCHANGED <<session, run, pauseRequested, running, pauser>>

\* The rest of replaySession, after ExecutionRunning.Store(false).
Settle ==
  /\ mode # "idle" /\ ~running
  /\ mode' = "idle"
  /\ \/ /\ pendingPause # NoPause
        /\ current' = pendingPause
        /\ position' = pendingPause.step
        /\ done' = FALSE
     \/ /\ pendingPause = NoPause /\ ~machine.ok
        /\ UNCHANGED <<current, position, done>>
     \/ /\ pendingPause = NoPause /\ machine.ok
        /\ current' = NoPause
        /\ position' = lastStep
        /\ done' = TRUE
  /\ UNCHANGED <<breakpoints, mutations, run, pauseRequested, running, pauser>>

-----------------------------------------------------------------------------
(* pauseSession: another request, concurrent with all of the above.        *)

PauseAsked ==
  /\ Pausing
  /\ pauser = "idle" /\ running
  /\ pauser' = "asked"
  /\ UNCHANGED <<session, run, pauseRequested, running, mode>>

PauseStored ==
  /\ pauser = "asked"
  /\ pauser' = "waiting"
  /\ pauseRequested' = TRUE
  /\ UNCHANGED <<session, run, running, mode>>

PauseAnswered ==
  /\ pauser = "waiting" /\ ~running
  /\ pauser' = "idle"
  /\ UNCHANGED <<session, run, pauseRequested, running, mode>>

\* Cancelled, or five seconds have passed.
PauseGivenUp ==
  /\ pauser = "waiting" /\ running
  /\ pauser' = "idle"
  /\ UNCHANGED <<session, run, pauseRequested, running, mode>>

-----------------------------------------------------------------------------

Init ==
  /\ position = -1 /\ done = FALSE
  /\ current = NoPause /\ pendingPause = NoPause /\ firstPause = NoPause
  /\ breakpoints = {} /\ mutations = <<>>
  /\ pauseRequested = FALSE /\ running = FALSE
  /\ mode = "idle"
  /\ machine = [Start EXCEPT !.frames = <<>>]
  /\ seen = 0
  /\ pauser = "idle"

Requests ==
  \/ \E b \in BreakpointChoices : SetBreakpoint(b) \/ DeleteBreakpoint(b)
  \/ \E value \in Values : WriteStorage(value)
  \/ \E command \in {"next", "continue"} : Advance(command)

Engine == RunsOn \/ Halts \/ Starves \/ Returns \/ Panics \/ Settle

Pauses == PauseAsked \/ PauseStored \/ PauseAnswered \/ PauseGivenUp

Next == Requests \/ Engine \/ Pauses

Spec == Init /\ [][Next]_vars

-----------------------------------------------------------------------------
(* The run the program makes without a debugger, with the session's writes *)
(* in place: its state before each step.                                   *)

After(m, step, muts) ==
  IF Ended(m) THEN m
  ELSE LET next == Exec(m)
       IN IF Ended(next) THEN next ELSE Applied(next, step, muts)

Undisturbed(muts) ==
  LET state[i \in 0 .. MaxSteps] ==
        IF i = 0 THEN Applied(Start, 0, muts) ELSE After(state[i - 1], i, muts)
  IN state

StateAt(muts, step) == Undisturbed(muts)[step]

LastStepOf(muts) ==
  LET state == Undisturbed(muts)
  IN Cardinality({i \in 0 .. MaxSteps : ~Ended(state[i])}) - 1

StopsOf(muts, bps) ==
  LET state == Undisturbed(muts)
  IN {i \in 0 .. MaxSteps :
        ~Ended(state[i]) /\ (StepMatches(state[i], bps) \/ AccessMatches(state[i], bps))}

Shown == IF current = NoPause THEN NoPause ELSE current.shown

Debug == INSTANCE DebuggerSession WITH
  Nothing <- NoPause, shown <- Shown, interrupt <- pauseRequested

-----------------------------------------------------------------------------
(* Properties.                                                             *)

FrameOK(f) ==
  /\ f.contract \in DOMAIN Program
  /\ f.pc \in 1 .. Len(Program[f.contract])
  /\ f.saved \in Values

MachineOK(m) ==
  /\ \A i \in 1 .. Len(m.frames) : FrameOK(m.frames[i])
  /\ m.cell \in Values /\ m.ok \in BOOLEAN

PauseOK(p) == p # NoPause => p.step \in 0 .. MaxSteps /\ MachineOK(p.shown)

\* Every variable keeps its type: no frame runs past its code, and no run,
\* disturbed or not, is longer than the bound.
TypeOK ==
  /\ position \in -1 .. MaxSteps /\ done \in BOOLEAN
  /\ PauseOK(current) /\ PauseOK(pendingPause) /\ PauseOK(firstPause)
  /\ breakpoints \subseteq BreakpointChoices
  /\ \A i \in 1 .. Len(mutations) :
       mutations[i].step \in 0 .. MaxSteps /\ mutations[i].value \in Values
  /\ pauseRequested \in BOOLEAN /\ running \in BOOLEAN
  /\ mode \in {"idle", "next", "continue"}
  /\ MachineOK(machine)
  /\ seen \in 0 .. MaxSteps + 1
  /\ pauser \in {"idle", "asked", "waiting"}

\* The first pause a command captures is the right one, although the whole
\* program is run again for it: the first stop after the position (or where
\* the pause request was seen), and the state shown is the one the
\* undisturbed program is in at that step, with all writes redone.
FirstPauseIsExact ==
  firstPause # NoPause /\ mode # "idle" =>
    /\ Debug!IsTarget(firstPause.step)
    /\ firstPause.shown = StateAt(mutations, firstPause.step)

\* A session is reported done only when the undisturbed program has no stop
\* left after the position: no breakpoint is lost by running again, by the
\* steps passed over, or by a halt in an inner frame.
NothingMissed ==
  [][mode # "idle" /\ ~running /\ mode' = "idle" /\ done' /\ machine.ok
       => Debug!IsOver]_vars

\* Every stop lies ahead of the one before, even when a later pause of the
\* same run replaces the first.
EveryStopIsAhead ==
  [][current' # NoPause /\ mode # "idle" => position' > position]_vars

\* The session walks along one run: the undisturbed one, write by write.
WalksTheRun == Debug!Spec
=============================================================================
