------------------------- MODULE ReplayDebuggerProofs -------------------------
(***************************************************************************)
(* ReplayDebugger for every program, breakpoint and write: a debugger that *)
(* runs everything again for each command stops where the undisturbed run  *)
(* would have been stopped, shows that run's state, and makes progress     *)
(* with each stop.                                                         *)
(*                                                                         *)
(* The undisturbed run is a recursive function of the step.  What it is at *)
(* each step is shown by induction in the form of SetInduction.            *)
(***************************************************************************)
EXTENDS ReplayDebugger, FiniteSetTheorems, TLAPS

\* While a command is under way nothing is shown, and whatever pause has
\* been captured so far, the first or one that replaced it, lies ahead.
PausesAhead ==
  mode # "idle" =>
    /\ current = NoPause
    /\ pendingPause # NoPause => pendingPause.step > position

-----------------------------------------------------------------------------

\* The invariant holds when the session starts: no command is under way.
LEMMA InitPausesAhead == Init => PausesAhead
BY DEF Init, PausesAhead

\* Every action keeps it: a hook captures a pause only past the position, and
\* the position moves only when the command ends.
LEMMA NextPausesAhead == PausesAhead /\ [Next]_vars => PausesAhead'
<1> SUFFICES ASSUME PausesAhead, [Next]_vars PROVE PausesAhead'
  OBVIOUS
<1>1. ASSUME NEW b \in BreakpointChoices, SetBreakpoint(b) \/ DeleteBreakpoint(b)
      PROVE PausesAhead'
  BY <1>1 DEF PausesAhead, SetBreakpoint, DeleteBreakpoint
<1>2. ASSUME NEW value \in Values, WriteStorage(value) PROVE PausesAhead'
  BY <1>2 DEF PausesAhead, WriteStorage
<1>3. ASSUME NEW command \in {"next", "continue"}, Advance(command) PROVE PausesAhead'
  BY <1>3 DEF PausesAhead, Advance
<1>4. CASE RunsOn
  BY <1>4 DEF PausesAhead, RunsOn, session
<1>5. CASE Halts
  <2> DEFINE m == Applied(machine, seen, mutations)
  <2>1. seen > position
    BY <1>5 DEF Halts, Stops
  <2>2. pendingPause'.step = seen
    BY <1>5 DEF Halts, capturePause
  <2>3. mode # "idle" /\ mode' = mode /\ position' = position /\ current' = current
    BY <1>5 DEF Halts, Executing, session
  <2> QED BY <2>1, <2>2, <2>3 DEF PausesAhead
<1>6. CASE Starves
  BY <1>6 DEF PausesAhead, Starves, session
<1>7. CASE Returns \/ Panics
  BY <1>7 DEF PausesAhead, Returns, Panics, session, run
<1>8. CASE Settle
  BY <1>8 DEF PausesAhead, Settle
<1>9. CASE Pauses
  BY <1>9 DEF PausesAhead, Pauses, PauseAsked, PauseStored, PauseAnswered, PauseGivenUp,
              session, run
<1>10. CASE UNCHANGED vars
  BY <1>10 DEF PausesAhead, vars, session, run
<1> QED
  BY <1>1, <1>2, <1>3, <1>4, <1>5, <1>6, <1>7, <1>8, <1>9, <1>10
     DEF Next, Requests, Engine

\* PausesAhead holds in every reachable state of a session.
THEOREM Invariance == Spec => []PausesAhead
BY InitPausesAhead, NextPausesAhead, PTL DEF Spec

-----------------------------------------------------------------------------

\* The step that settles a command shows a pause only past the position.
LEMMA StopIsAhead ==
  PausesAhead /\ [Next]_vars =>
    (current' # NoPause /\ mode # "idle" => position' > position)
<1> SUFFICES ASSUME PausesAhead, [Next]_vars, current' # NoPause, mode # "idle"
             PROVE position' > position
  OBVIOUS
<1>1. current = NoPause
  BY DEF PausesAhead
<1>2. CASE Settle
  BY <1>1, <1>2 DEF PausesAhead, Settle
<1>3. CASE Requests
  BY <1>3 DEF Requests, SetBreakpoint, DeleteBreakpoint, WriteStorage, Advance
<1>4. CASE RunsOn \/ Halts \/ Starves \/ Returns \/ Panics
  <2> current' = current
    BY <1>4 DEF RunsOn, Halts, Starves, Returns, Panics, session
  <2> QED BY <1>1
<1>5. CASE Pauses \/ UNCHANGED vars
  <2> current' = current
    BY <1>5 DEF Pauses, PauseAsked, PauseStored, PauseAnswered, PauseGivenUp, vars, session
  <2> QED BY <1>1
<1> QED
  BY <1>2, <1>3, <1>4, <1>5 DEF Next, Engine

\* Whatever the program, the breakpoints, the writes and the pause requests,
\* each stop of a session is at a later step than the position before it.
THEOREM StopsAreAhead == Spec => EveryStopIsAhead
<1>1. PausesAhead /\ [Next]_vars =>
        [current' # NoPause /\ mode # "idle" => position' > position]_vars
  BY StopIsAhead
<1> QED
  BY <1>1, Invariance, PTL DEF Spec, EveryStopIsAhead

-----------------------------------------------------------------------------
(* Induction over the steps of a run.                                      *)

\* Induction over the naturals, for a set in place of a predicate: the
\* successor maps the elements of S up to m into themselves, so it would be
\* onto, but nothing is mapped to 0.
LEMMA SetInduction ==
  ASSUME NEW S, 0 \in S, \A n \in Nat : n \in S => n + 1 \in S
  PROVE  Nat \subseteq S
<1> SUFFICES ASSUME NEW m \in Nat, m \notin S PROVE FALSE
  OBVIOUS
<1> DEFINE T == {k \in 0 .. m : k \in S}
           f == [k \in T |-> k + 1]
<1>1. IsFiniteSet(T)
  <2>1. IsFiniteSet(0 .. m)
    BY FS_Interval
  <2>2. T \in SUBSET (0 .. m)
    OBVIOUS
  <2> HIDE DEF T
  <2> QED BY <2>1, <2>2, FS_Subset
<1>2. f \in [T -> T]
  <2> SUFFICES ASSUME NEW k \in T PROVE k + 1 \in T
    OBVIOUS
  <2> k \in Nat /\ k \in S /\ k <= m /\ k # m
    OBVIOUS
  <2> QED OBVIOUS
<1>3. f \in Injection(T, T)
  BY <1>2 DEF Injection, IsInjective
<1>4. f \in Surjection(T, T)
  BY <1>1, <1>3, FS_Injection
<1>5. 0 \in T
  OBVIOUS
<1>6. \E k \in T : f[k] = 0
  BY <1>4, <1>5 DEF Surjection
<1> QED
  BY <1>6

\* A set of indices has a last one.
LEMMA LastExists ==
  ASSUME NEW n \in Nat, NEW D \in SUBSET (1 .. n), D # {}
  PROVE  \E i \in D : \A j \in D : j <= i
<1> DEFINE HasLast(E) == \E i \in E : \A j \in E : j <= i
           S == {k \in Nat : \A E \in SUBSET (1 .. k) : E # {} => HasLast(E)}
<1>1. 0 \in S
  <2> 1 .. 0 = {}
    OBVIOUS
  <2> QED OBVIOUS
<1>2. ASSUME NEW k \in Nat, k \in S PROVE k + 1 \in S
  <2> SUFFICES ASSUME NEW E \in SUBSET (1 .. k + 1), E # {} PROVE HasLast(E)
    OBVIOUS
  <2>1. CASE k + 1 \in E
    <3> \A j \in E : j <= k + 1
      OBVIOUS
    <3> QED BY <2>1
  <2>2. CASE k + 1 \notin E
    <3>1. E \in SUBSET (1 .. k)
      <4> SUFFICES ASSUME NEW e \in E PROVE e \in 1 .. k
        OBVIOUS
      <4> e \in 1 .. k + 1 /\ e # k + 1
        BY <2>2
      <4> QED OBVIOUS
    <3> QED BY <1>2, <3>1
  <2> QED BY <2>1, <2>2
<1>3. Nat \subseteq S
  <2> HIDE DEF S
  <2> QED BY <1>1, <1>2, SetInduction
<1> QED
  BY <1>3

-----------------------------------------------------------------------------

Activations ==
  {f \in [contract : DOMAIN Program, pc : Nat, saved : Values] :
     f.pc \in 1 .. Len(Program[f.contract])}

Machines == [frames : Seq(Activations), cell : Values, ok : BOOLEAN]

Writings == [step : 0 .. MaxSteps, value : Values]

\* The write applyMutations redoes at a step, if any, is one of the list.
LEMMA AppliedIs ==
  ASSUME NEW m \in Machines, NEW step, NEW muts \in Seq(Writings)
  PROVE  /\ Applied(m, step, muts) \in Machines
         /\ Applied(m, step, muts).frames = m.frames
         /\ Applied(m, step, muts).ok = m.ok
<1> DEFINE due == {i \in 1 .. Len(muts) : muts[i].step = step}
           last == CHOOSE i \in due : \A j \in due : j <= i
<1>1. CASE due = {}
  BY <1>1 DEF Applied
<1>2. CASE due # {}
  <2>1. Len(muts) \in Nat /\ due \in SUBSET (1 .. Len(muts))
    OBVIOUS
  <2>2. \E i \in due : \A j \in due : j <= i
    <3> HIDE DEF due
    <3> QED BY <1>2, <2>1, LastExists
  <2>3. last \in due
    <3> HIDE DEF due
    <3> QED BY <2>2
  <2>4. muts[last] \in Writings
    BY <2>3
  <2>5. muts[last].value \in Values
    BY <2>4 DEF Writings
  <2>6. Applied(m, step, muts) = [m EXCEPT !.cell = muts[last].value]
    BY <1>2 DEF Applied
  <2> HIDE DEF last
  <2> QED BY <2>5, <2>6 DEF Machines
<1> QED
  BY <1>1, <1>2

\* An instruction leaves every frame inside its code and the cell among the
\* values.
LEMMA TopIs ==
  ASSUME NEW m \in Machines, ~Ended(m)
  PROVE  /\ Len(m.frames) \in Nat \ {0}
         /\ Top(m) \in Activations
         /\ Top(m).contract \in DOMAIN Program
         /\ Program[Top(m).contract] \in Seq(Instr)
         /\ Top(m).pc \in 1 .. Len(Program[Top(m).contract])
         /\ InstrAt(m) \in Instr
         /\ InstrAt(m).op \notin {"stop", "revert"} =>
              Top(m).pc + 1 \in 1 .. Len(Program[Top(m).contract])
         /\ InstrAt(m).op = "ifset" =>
              Top(m).pc + 2 \in 1 .. Len(Program[Top(m).contract])
         /\ InstrAt(m).op = "call" => InstrAt(m).callee \in DOMAIN Program
         /\ Popped(m) \in Seq(Activations)
         /\ Top(m).saved \in Values
<1>1. m.frames \in Seq(Activations) /\ m.frames # <<>>
  BY DEF Machines, Ended
<1>2. Len(m.frames) \in Nat \ {0}
  BY <1>1
<1>3. Top(m) \in Activations
  BY <1>1, <1>2 DEF Top
<1>4. /\ Top(m).contract \in DOMAIN Program /\ Top(m).saved \in Values
      /\ Top(m).pc \in 1 .. Len(Program[Top(m).contract])
  BY <1>3 DEF Activations
<1>5. Program[Top(m).contract] \in Seq(Instr)
  BY <1>4, ProgramAssumption
<1>6. InstrAt(m) \in Instr
  BY <1>4, <1>5 DEF InstrAt
<1>7. Popped(m) \in Seq(Activations)
  BY <1>1, <1>2 DEF Popped
<1>8. InstrAt(m).op \notin {"stop", "revert"} => Top(m).pc # Len(Program[Top(m).contract])
  BY <1>4, ProgramAssumption DEF InstrAt
<1>9. InstrAt(m).op = "ifset" => Top(m).pc + 2 <= Len(Program[Top(m).contract])
  BY <1>4, ProgramAssumption DEF InstrAt
<1>10. InstrAt(m).op = "call" => InstrAt(m).callee # ""
  BY <1>4, ProgramAssumption DEF InstrAt
<1>11. InstrAt(m).callee \in DOMAIN Program \cup {""}
  BY <1>6 DEF Instr
<1>12. Len(Program[Top(m).contract]) \in Nat
  BY <1>5
<1>13. InstrAt(m).op \notin {"stop", "revert"} =>
              Top(m).pc + 1 \in 1 .. Len(Program[Top(m).contract])
  <2> DEFINE l == Len(Program[Top(m).contract])  p == Top(m).pc
  <2> HIDE DEF l, p
  <2>1. l \in Nat /\ p \in 1 .. l
    BY <1>4, <1>12 DEF l, p
  <2>2. p # l => p + 1 \in 1 .. l
    BY <2>1
  <2> QED BY <1>8, <2>2 DEF l, p
<1>14. InstrAt(m).op = "ifset" =>
              Top(m).pc + 2 \in 1 .. Len(Program[Top(m).contract])
  <2> DEFINE l == Len(Program[Top(m).contract])  p == Top(m).pc
  <2> HIDE DEF l, p
  <2>1. l \in Nat /\ p \in 1 .. l
    BY <1>4, <1>12 DEF l, p
  <2>2. p + 2 <= l => p + 2 \in 1 .. l
    BY <2>1
  <2> QED BY <1>9, <2>2 DEF l, p
<1> QED
  BY <1>2, <1>3, <1>4, <1>5, <1>6, <1>7, <1>10, <1>11, <1>13, <1>14

\* A jump inside the code of the innermost frame.
LEMMA JumpIs ==
  ASSUME NEW m \in Machines, ~Ended(m), NEW n \in Nat,
         Top(m).pc + n \in 1 .. Len(Program[Top(m).contract])
  PROVE  /\ Jump(m, n) \in Machines
         /\ Jump(m, n).cell = m.cell
<1> DEFINE f == [Top(m) EXCEPT !.pc = @ + n]
           k == Len(m.frames)
<1>1. f \in Activations
  <2>1. Top(m) \in Activations
    BY TopIs
  <2>2. /\ f.contract = Top(m).contract /\ f.saved = Top(m).saved
        /\ f.pc = Top(m).pc + n
    BY <2>1 DEF Activations
  <2>3. f \in [contract : DOMAIN Program, pc : Nat, saved : Values]
    BY <2>1 DEF Activations
  <2> HIDE DEF f
  <2> QED BY <2>2, <2>3 DEF Activations
<1>2. m.frames \in Seq(Activations) /\ k \in Nat \ {0}
  BY TopIs DEF Machines
<1>3. Jump(m, n) = [m EXCEPT !.frames = [m.frames EXCEPT ![k] = f]]
  BY <1>2 DEF Jump, Top, Machines
<1>4. [m.frames EXCEPT ![k] = f] \in Seq(Activations)
  <2> HIDE DEF f
  <2> QED BY <1>1, <1>2
<1> HIDE DEF f, k
<1> QED
  BY <1>3, <1>4 DEF Machines

\* The innermost frame fails.
LEMMA FailIs ==
  ASSUME NEW m \in Machines, ~Ended(m)
  PROVE  Fail(m) \in Machines
BY TopIs DEF Fail, Machines

\* Every instruction.
LEMMA ExecIs ==
  ASSUME NEW m \in Machines, ~Ended(m)
  PROVE  Exec(m) \in Machines
<1> DEFINE instr == InstrAt(m)
<1>1. instr \in Instr /\ instr.op \in Ops
  BY TopIs DEF Instr
<1>2. Fail(m) \in Machines
  BY FailIs
<1>3. instr.op \notin {"stop", "revert"} => Jump(m, 1) \in Machines
  BY TopIs, JumpIs
<1>4. instr.op = "ifset" => Jump(m, 2) \in Machines
  BY TopIs, JumpIs
<1>5. CASE instr.op \in {"plain", "read"}
  BY <1>3, <1>5 DEF Exec
<1>6. CASE instr.op = "write"
  <2>1. Jump(m, 1) \in Machines
    BY <1>3, <1>6
  <2>2. 1 \in Values
    BY BoundAssumption
  <2>3. Exec(m) = [Jump(m, 1) EXCEPT !.cell = 1]
    BY <1>6 DEF Exec
  <2> QED BY <2>1, <2>2, <2>3 DEF Machines
<1>7. CASE instr.op = "ifset"
  BY <1>3, <1>4, <1>7 DEF Exec
<1>8. CASE instr.op = "call"
  <2> DEFINE j == Jump(m, 1)
  <2>1. j \in Machines
    BY <1>3, <1>8
  <2>2. Activation(instr.callee, m.cell) \in Activations
    <3>1. instr.callee \in DOMAIN Program
      BY <1>8, TopIs
    <3>2. 1 \in 1 .. Len(Program[instr.callee])
      <4> Program[instr.callee] \in Seq(Instr) /\ Len(Program[instr.callee]) > 0
        BY <3>1, ProgramAssumption
      <4> QED OBVIOUS
    <3>3. m.cell \in Values
      BY DEF Machines
    <3> QED BY <3>1, <3>2, <3>3 DEF Activation, Activations
  <2>3. Exec(m) = [j EXCEPT !.frames = Append(j.frames, Activation(instr.callee, m.cell))]
    BY <1>8, <2>1 DEF Exec, Machines
  <2>4. Append(j.frames, Activation(instr.callee, m.cell)) \in Seq(Activations)
    <3> HIDE DEF j
    <3> QED BY <2>1, <2>2 DEF Machines
  <2> HIDE DEF j
  <2> QED BY <2>1, <2>3, <2>4 DEF Machines
<1>9. CASE instr.op = "require"
  BY <1>2, <1>3, <1>9 DEF Exec
<1>10. CASE instr.op = "revert"
  BY <1>2, <1>10 DEF Exec
<1>11. CASE instr.op = "stop"
  <2>1. Exec(m) = [m EXCEPT !.frames = Popped(m), !.ok = TRUE]
    BY <1>11 DEF Exec
  <2> QED BY <2>1, TopIs DEF Machines
<1> QED
  BY <1>1, <1>5, <1>6, <1>7, <1>8, <1>9, <1>10, <1>11 DEF Ops

-----------------------------------------------------------------------------

Captured == [step : 0 .. MaxSteps, shown : Machines]

\* The types, with the machine a record of activations, and what they rest
\* on: a pause is only shown between commands, at the position.
Typed ==
  /\ position \in -1 .. MaxSteps /\ done \in BOOLEAN
  /\ current \in Captured \cup {NoPause}
  /\ pendingPause \in Captured \cup {NoPause}
  /\ firstPause \in Captured \cup {NoPause}
  /\ current # NoPause => mode = "idle" /\ position = current.step
  /\ breakpoints \subseteq BreakpointChoices
  /\ mutations \in Seq(Writings)
  /\ pauseRequested \in BOOLEAN /\ running \in BOOLEAN
  /\ mode \in {"idle", "next", "continue"}
  /\ machine \in Machines
  /\ seen \in 0 .. MaxSteps + 1
  /\ pauser \in {"idle", "asked", "waiting"}

\* A captured pause is not the empty one.
LEMMA CapturedIs ==
  ASSUME NEW p \in Captured
  PROVE  p # NoPause /\ p.step \in 0 .. MaxSteps /\ p.shown \in Machines
BY DEF Captured, NoPause

\* What a new command runs on.
LEMMA StartIs == Start \in Machines /\ ~Ended(Start)
<1>1. Root \in DOMAIN Program /\ Len(Program[Root]) > 0 /\ Program[Root] \in Seq(Instr)
  BY ProgramAssumption
<1>2. 1 \in 1 .. Len(Program[Root])
  BY <1>1
<1>3. 0 \in Values
  BY BoundAssumption
<1>4. Activation(Root, 0) \in Activations
  BY <1>1, <1>2, <1>3 DEF Activation, Activations
<1> HIDE DEF Activation
<1>5. <<Activation(Root, 0)>> \in Seq(Activations) /\ <<Activation(Root, 0)>> # <<>>
  BY <1>4
<1> QED
  BY <1>3, <1>5 DEF Start, Machines, Ended

\* The types hold when the session starts.
LEMMA InitTyped == Init => Typed
<1> SUFFICES ASSUME Init PROVE Typed
  OBVIOUS
<1>1. machine \in Machines
  <2>1. machine = [Start EXCEPT !.frames = <<>>]
    BY DEF Init
  <2>2. <<>> \in Seq(Activations)
    OBVIOUS
  <2> HIDE DEF Start
  <2> QED BY <2>1, <2>2, StartIs DEF Machines
<1>2. MaxSteps \in Nat
  BY BoundAssumption
<1>3. mutations \in Seq(Writings)
  BY DEF Init
<1>4. position \in -1 .. MaxSteps /\ seen \in 0 .. MaxSteps + 1
  <2> position = -1 /\ seen = 0
    BY DEF Init
  <2> QED BY <1>2
<1>6. done \in BOOLEAN /\ pauseRequested \in BOOLEAN /\ running \in BOOLEAN
  BY DEF Init
<1>5. /\ current = NoPause /\ pendingPause = NoPause /\ firstPause = NoPause
      /\ breakpoints = {} /\ mode = "idle" /\ pauser = "idle"
  BY DEF Init
<1> QED
  BY <1>1, <1>3, <1>4, <1>5, <1>6 DEF Typed

\* What a hook reads before the instruction runs: the machine with the
\* writes redone that belong to the step.
LEMMA RedoneIs ==
  ASSUME Typed, ~Ended(machine)
  PROVE  /\ Applied(machine, seen, mutations) \in Machines
         /\ ~Ended(Applied(machine, seen, mutations))
BY AppliedIs DEF Typed, Ended

\* Every action keeps the types.
LEMMA NextTyped == Typed /\ [Next]_vars => Typed'
<1> SUFFICES ASSUME Typed, [Next]_vars PROVE Typed'
  OBVIOUS
<1> USE BoundAssumption
<1>1. ASSUME NEW b \in BreakpointChoices, SetBreakpoint(b) \/ DeleteBreakpoint(b)
      PROVE Typed'
  BY <1>1 DEF Typed, SetBreakpoint, DeleteBreakpoint, run
<1>2. ASSUME NEW value \in Values, WriteStorage(value) PROVE Typed'
  <2>1. current \in Captured /\ mode = "idle" /\ position = current.step
    BY <1>2 DEF Typed, WriteStorage
  <2>2. current.step \in 0 .. MaxSteps /\ current.shown \in Machines
    BY <2>1, CapturedIs
  <2>3. [step |-> position, value |-> value] \in Writings
    BY <2>1, <2>2 DEF Writings
  <2>4. mutations' \in Seq(Writings)
    <3> mutations' = Append(mutations, [step |-> position, value |-> value])
      BY <1>2 DEF WriteStorage, WriteStep
    <3> HIDE DEF Writings
    <3> QED BY <2>3 DEF Typed
  <2> DEFINE s == [current.shown EXCEPT !.cell = value]
  <2>5. s \in Machines
    BY <2>2 DEF Machines
  <2>6. current' = [current EXCEPT !.shown = s]
    BY <1>2, <2>1, <2>2 DEF WriteStorage, Captured, Machines
  <2>7. current' \in Captured /\ current'.step = current.step
    <3> HIDE DEF s
    <3> QED BY <2>1, <2>5, <2>6 DEF Captured
  <2> QED BY <1>2, <2>1, <2>4, <2>7 DEF Typed, WriteStorage, run
<1>3. ASSUME NEW command \in {"next", "continue"}, Advance(command) PROVE Typed'
  <2>1. machine' \in Machines
    BY <1>3, StartIs DEF Advance, Prepared
  <2>2. seen' \in 0 .. MaxSteps + 1
    BY <1>3 DEF Advance
  <2>3. /\ current' = NoPause /\ pendingPause' = NoPause /\ firstPause' = NoPause
        /\ mode' \in {"next", "continue"} /\ running' = TRUE /\ pauseRequested' = FALSE
        /\ UNCHANGED <<position, done, breakpoints, mutations, pauser>>
    BY <1>3 DEF Advance
  <2> QED BY <2>1, <2>2, <2>3 DEF Typed
<1>4. CASE RunsOn
  <2>1. machine' \in Machines
    BY <1>4, RedoneIs, ExecIs DEF RunsOn, Executing
  <2>2. seen' \in 0 .. MaxSteps + 1
    BY <1>4 DEF RunsOn, Executing, Typed
  <2> QED BY <1>4, <2>1, <2>2 DEF Typed, RunsOn, session
<1>5. CASE Halts
  <2> DEFINE m == Applied(machine, seen, mutations)
  <2>1. m \in Machines /\ ~Ended(m)
    BY <1>5, RedoneIs DEF Halts, Executing
  <2>2. machine' \in Machines
    BY <1>5, <2>1, FailIs DEF Halts
  <2>3. seen' \in 0 .. MaxSteps + 1 /\ seen \in 0 .. MaxSteps
    BY <1>5 DEF Halts, Executing, Typed
  <2>4. capturePause(m) \in Captured
    <3> HIDE DEF m
    <3> QED BY <2>1, <2>3 DEF capturePause, Captured
  <2>5. pendingPause' \in Captured /\ firstPause' \in Captured \cup {NoPause}
    <3> HIDE DEF capturePause
    <3> QED BY <1>5, <2>4 DEF Halts, Typed
  <2> QED BY <1>5, <2>2, <2>3, <2>5 DEF Typed, Halts, session
<1>6. CASE Starves
  <2>1. machine' \in Machines
    BY <1>6, FailIs DEF Starves, Executing, Typed
  <2> QED BY <1>6, <2>1 DEF Typed, Starves, session
<1>7. CASE Returns \/ Panics
  BY <1>7 DEF Typed, Returns, Panics, session, run
<1>8. CASE Settle
  <2>1. pendingPause # NoPause => pendingPause.step \in 0 .. MaxSteps
    BY CapturedIs DEF Typed
  <2>2. lastStep \in -1 .. MaxSteps
    BY DEF Typed, lastStep
  <2>3. position' \in -1 .. MaxSteps
    BY <1>8, <2>1, <2>2 DEF Settle, Typed
  <2>4. current = NoPause /\ mode' = "idle"
    BY <1>8 DEF Settle, Typed
  <2>5. current' # NoPause => position' = current'.step
    BY <1>8, <2>4 DEF Settle
  <2>6. current' \in Captured \cup {NoPause} /\ done' \in BOOLEAN
    BY <1>8, <2>4 DEF Settle, Typed
  <2> QED BY <1>8, <2>3, <2>4, <2>5, <2>6 DEF Typed, Settle, run
<1>9. CASE Pauses
  BY <1>9 DEF Typed, Pauses, PauseAsked, PauseStored, PauseAnswered, PauseGivenUp,
              session, run
<1>10. CASE UNCHANGED vars
  BY <1>10 DEF Typed, vars, session, run
<1> QED
  BY <1>1, <1>2, <1>3, <1>4, <1>5, <1>6, <1>7, <1>8, <1>9, <1>10
     DEF Next, Requests, Engine

\* The types hold in every reachable state.
LEMMA TypedInvariance == Spec => []Typed
BY InitTyped, NextTyped, PTL DEF Spec

\* A machine of the proofs is one of TypeOK.
LEMMA MachinesAreOK ==
  ASSUME NEW m \in Machines
  PROVE  MachineOK(m)
<1>1. m.cell \in Values /\ m.ok \in BOOLEAN /\ m.frames \in Seq(Activations)
  BY DEF Machines
<1>2. ASSUME NEW i \in 1 .. Len(m.frames) PROVE FrameOK(m.frames[i])
  <2> m.frames[i] \in Activations
    BY <1>1
  <2> QED BY DEF FrameOK, Activations
<1> QED
  BY <1>1, <1>2 DEF MachineOK

\* No frame runs past its code, whatever the program, the session's writes
\* and the frames the hooks halt, and the pauses and the writes recorded
\* name steps of runs.
THEOREM TypeCorrect == Spec => []TypeOK
<1>1. ASSUME Typed PROVE TypeOK
  <2>1. ASSUME NEW p \in Captured \cup {NoPause} PROVE PauseOK(p)
    BY CapturedIs, MachinesAreOK DEF PauseOK
  <2>2. PauseOK(current) /\ PauseOK(pendingPause) /\ PauseOK(firstPause)
    BY <1>1, <2>1 DEF Typed
  <2>3. MachineOK(machine)
    BY <1>1, MachinesAreOK DEF Typed
  <2>4. ASSUME NEW i \in 1 .. Len(mutations)
        PROVE mutations[i].step \in 0 .. MaxSteps /\ mutations[i].value \in Values
    <3> mutations[i] \in Writings
      BY <1>1 DEF Typed
    <3> QED BY DEF Writings
  <2> QED BY <1>1, <2>2, <2>3, <2>4 DEF Typed, TypeOK
<1> QED
  BY <1>1, TypedInvariance, PTL

-----------------------------------------------------------------------------

\* The undisturbed run is what its recursive definition says: there is such
\* a function on every interval 0 .. n, by induction on n.
LEMMA UndisturbedIs ==
  ASSUME NEW muts
  PROVE  Undisturbed(muts) =
           [i \in 0 .. MaxSteps |->
              IF i = 0 THEN Applied(Start, 0, muts)
              ELSE After(Undisturbed(muts)[i - 1], i, muts)]
<1> DEFINE First == Applied(Start, 0, muts)
           Later(m, i) == After(m, i, muts)
<1> HIDE DEF First, Later
<1> DEFINE Runs(f, n) == f = [i \in 0 .. n |-> IF i = 0 THEN First ELSE Later(f[i - 1], i)]
           S == {n \in Nat : \E f : Runs(f, n)}
<1>1. 0 \in S
  <2> DEFINE f == [i \in 0 .. 0 |-> First]
  <2>1. f = [i \in 0 .. 0 |-> IF i = 0 THEN First ELSE Later(f[i - 1], i)]
    OBVIOUS
  <2> HIDE DEF f
  <2> QED BY <2>1
<1>2. ASSUME NEW n \in Nat, n \in S PROVE n + 1 \in S
  <2>1. PICK f : Runs(f, n)
    BY <1>2
  <2> DEFINE g == [i \in 0 .. n + 1 |-> IF i = n + 1 THEN Later(f[n], n + 1) ELSE f[i]]
  <2>2. ASSUME NEW i \in 0 .. n + 1
        PROVE  g[i] = IF i = 0 THEN First ELSE Later(g[i - 1], i)
    <3>1. CASE i = n + 1
      <4> g[i] = Later(f[n], n + 1) /\ i - 1 = n /\ g[n] = f[n] /\ i # 0
        BY <3>1
      <4> HIDE DEF g
      <4> QED BY <3>1
    <3>2. CASE i # n + 1
      <4>1. i \in 0 .. n
        BY <3>2
      <4>2. g[i] = f[i]
        BY <3>2
      <4>3. f[i] = IF i = 0 THEN First ELSE Later(f[i - 1], i)
        BY <2>1, <4>1
      <4>4. i # 0 => g[i - 1] = f[i - 1]
        BY <4>1
      <4> HIDE DEF g
      <4> QED BY <4>2, <4>3, <4>4
    <3> QED BY <3>1, <3>2
  <2>3. g = [i \in 0 .. n + 1 |-> g[i]]
    OBVIOUS
  <2>4. Runs(g, n + 1)
    <3> HIDE DEF g
    <3> QED BY <2>2, <2>3
  <2> HIDE DEF g, Runs
  <2> QED BY <2>4
<1>3. MaxSteps \in S
  <2> HIDE DEF S
  <2> QED BY <1>1, <1>2, SetInduction, BoundAssumption
<1>4. \E f : Runs(f, MaxSteps)
  BY <1>3
<1>5. Undisturbed(muts) =
        CHOOSE f : f = [i \in 0 .. MaxSteps |->
                          IF i = 0 THEN First ELSE Later(f[i - 1], i)]
  BY DEF Undisturbed, First, Later
<1>6. Undisturbed(muts) = CHOOSE f : Runs(f, MaxSteps)
  BY <1>5
<1>7. Runs(Undisturbed(muts), MaxSteps)
  <2> HIDE DEF Runs
  <2> QED BY <1>4, <1>6
<1> QED
  BY <1>7 DEF First, Later

\* The first state of the undisturbed run.
LEMMA StateZero ==
  ASSUME NEW muts
  PROVE  StateAt(muts, 0) = Applied(Start, 0, muts)
<1> DEFINE f == Undisturbed(muts)
<1>1. f = [i \in 0 .. MaxSteps |->
              IF i = 0 THEN Applied(Start, 0, muts) ELSE After(f[i - 1], i, muts)]
  BY UndisturbedIs
<1>2. 0 \in 0 .. MaxSteps
  BY BoundAssumption
<1> HIDE DEF f
<1> QED BY <1>1, <1>2 DEF StateAt, f

\* The state after each step of it.
LEMMA StateNext ==
  ASSUME NEW muts, NEW i \in Nat, i < MaxSteps
  PROVE  StateAt(muts, i + 1) = After(StateAt(muts, i), i + 1, muts)
<1> DEFINE f == Undisturbed(muts)
<1>1. f = [j \in 0 .. MaxSteps |->
              IF j = 0 THEN Applied(Start, 0, muts) ELSE After(f[j - 1], j, muts)]
  BY UndisturbedIs
<1>2. i + 1 \in 0 .. MaxSteps /\ i + 1 # 0 /\ (i + 1) - 1 = i
  BY BoundAssumption
<1> HIDE DEF f
<1>3. f[i + 1] = After(f[(i + 1) - 1], i + 1, muts)
  BY <1>1, <1>2
<1> QED BY <1>2, <1>3 DEF StateAt, f

\* The run is a run of machines, and once it has ended it stays as it is.
LEMMA StateIsMachine ==
  ASSUME NEW muts \in Seq(Writings), NEW n \in 0 .. MaxSteps
  PROVE  StateAt(muts, n) \in Machines
<1> DEFINE S == {i \in Nat : i <= MaxSteps => StateAt(muts, i) \in Machines}
<1>1. 0 \in S
  BY StateZero, StartIs, AppliedIs
<1>2. ASSUME NEW i \in Nat, i \in S PROVE i + 1 \in S
  <2> SUFFICES ASSUME i + 1 <= MaxSteps PROVE StateAt(muts, i + 1) \in Machines
    OBVIOUS
  <2> DEFINE m == StateAt(muts, i)
  <2>1. m \in Machines
    BY <1>2, BoundAssumption
  <2>2. StateAt(muts, i + 1) = After(m, i + 1, muts)
    BY StateNext, BoundAssumption
  <2> HIDE DEF m
  <2>3. ~Ended(m) => Exec(m) \in Machines
    BY <2>1, ExecIs
  <2>4. ~Ended(m) => Applied(Exec(m), i + 1, muts) \in Machines
    BY <2>3, AppliedIs
  <2> QED BY <2>1, <2>2, <2>3, <2>4 DEF After
<1>3. Nat \subseteq S
  <2> HIDE DEF S
  <2> QED BY <1>1, <1>2, SetInduction
<1> QED
  BY <1>3, BoundAssumption

\* A run that has ended has ended for good.
LEMMA EndIsTheEnd ==
  ASSUME NEW muts, NEW n \in Nat, NEW k \in Nat, n <= k, k <= MaxSteps,
         Ended(StateAt(muts, n))
  PROVE  Ended(StateAt(muts, k))
<1> DEFINE S == {i \in Nat : n + i <= MaxSteps => Ended(StateAt(muts, n + i))}
<1>1. 0 \in S
  OBVIOUS
<1>2. ASSUME NEW i \in Nat, i \in S PROVE i + 1 \in S
  <2> SUFFICES ASSUME n + (i + 1) <= MaxSteps PROVE Ended(StateAt(muts, n + (i + 1)))
    OBVIOUS
  <2>1. PICK j \in Nat : j = n + i
    OBVIOUS
  <2>2. Ended(StateAt(muts, j)) /\ j < MaxSteps /\ n + (i + 1) = j + 1
    BY <1>2, <2>1, BoundAssumption
  <2>3. StateAt(muts, j + 1) = StateAt(muts, j)
    BY <2>2, StateNext DEF After
  <2> QED BY <2>2, <2>3
<1>3. Nat \subseteq S
  <2> HIDE DEF S
  <2> QED BY <1>1, <1>2, SetInduction
<1>4. k - n \in S /\ n + (k - n) = k
  BY <1>3
<1> QED
  BY <1>4

-----------------------------------------------------------------------------

\* Until a hook halts, the run under way is the undisturbed one, it has come
\* past no stop that lies ahead of the position, and a single step not
\* beyond the next one.
Follows ==
  mode # "idle" /\ firstPause = NoPause =>
    /\ pendingPause = NoPause
    /\ mode = "next" => seen <= position + 1
    /\ \A q \in 0 .. seen - 1 :
         /\ ~Ended(StateAt(mutations, q))
         /\ q > position => q \notin StopsOf(mutations, breakpoints)
    /\ seen <= MaxSteps /\ ~Ended(machine) =>
         StateAt(mutations, seen) = Applied(machine, seen, mutations)
    /\ seen <= MaxSteps /\ Ended(machine) => Ended(StateAt(mutations, seen))

Target(p) ==
  \/ mode = "next" /\ p = position + 1
  \/ /\ mode = "continue" /\ p > position
     /\ \A q \in StopsOf(mutations, breakpoints) : q > position => p <= q
     /\ p \in StopsOf(mutations, breakpoints) \/ pauseRequested

\* What the first halt captures stays where the command should have stopped.
Exact(p) ==
  /\ Target(p.step)
  /\ p.shown = StateAt(mutations, p.step)
  /\ ~Ended(p.shown)

Captures ==
  mode # "idle" /\ firstPause # NoPause => pendingPause # NoPause /\ Exact(firstPause)

\* Target is where DebuggerSession lets a command stop.
LEMMA TargetIs == \A p : Debug!IsTarget(p) <=> Target(p)
BY DEF Debug!IsTarget, Debug!NextStops, Target

\* The stops of the undisturbed run are what the hooks match.
LEMMA StopsAre ==
  ASSUME NEW muts, NEW bps, NEW q \in 0 .. MaxSteps
  PROVE  q \in StopsOf(muts, bps) <=>
           /\ ~Ended(StateAt(muts, q))
           /\ \/ StepMatches(StateAt(muts, q), bps)
              \/ AccessMatches(StateAt(muts, q), bps)
BY DEF StopsOf, StateAt

\* The step the hooks are about to see is that of the undisturbed run.
LEMMA SeenIs ==
  ASSUME Typed, Follows, Executing, firstPause = NoPause
  PROVE  /\ seen \in 0 .. MaxSteps /\ seen \in Nat
         /\ StateAt(mutations, seen) = Applied(machine, seen, mutations)
         /\ Applied(machine, seen, mutations) \in Machines
         /\ ~Ended(Applied(machine, seen, mutations))
         /\ seen \in StopsOf(mutations, breakpoints) <=>
              \/ StepMatches(Applied(machine, seen, mutations), breakpoints)
              \/ AccessMatches(Applied(machine, seen, mutations), breakpoints)
<1>1. seen \in 0 .. MaxSteps /\ seen \in Nat
  BY BoundAssumption DEF Typed, Executing
<1>2. StateAt(mutations, seen) = Applied(machine, seen, mutations)
  BY <1>1, BoundAssumption DEF Follows, Executing
<1>3. Applied(machine, seen, mutations) \in Machines /\ ~Ended(Applied(machine, seen, mutations))
  BY RedoneIs DEF Executing
<1> QED
  BY <1>1, <1>2, <1>3, StopsAre

\* A step that no hook halts keeps to the undisturbed run.
LEMMA RunsOnFollows ==
  ASSUME Typed, Follows, RunsOn, firstPause = NoPause
  PROVE  Follows'
<1> DEFINE m == Applied(machine, seen, mutations)
<1>1. Executing /\ ~Stops(m) /\ machine' = Exec(m) /\ seen' = seen + 1
  BY DEF RunsOn
<1>2. UNCHANGED <<position, mutations, breakpoints, pendingPause, firstPause, mode>>
  BY DEF RunsOn, session
<1>3. /\ seen \in 0 .. MaxSteps /\ seen \in Nat /\ StateAt(mutations, seen) = m
      /\ m \in Machines /\ ~Ended(m)
      /\ seen \in StopsOf(mutations, breakpoints) <=>
           StepMatches(m, breakpoints) \/ AccessMatches(m, breakpoints)
  BY <1>1, SeenIs
<1>4. position \in Int /\ mode # "idle" /\ MaxSteps \in Nat
  BY <1>1, BoundAssumption DEF Typed, Executing
<1> HIDE DEF m
<1>5. seen > position => seen \notin StopsOf(mutations, breakpoints)
  BY <1>1, <1>3 DEF Stops
<1>6. mode = "next" => seen' <= position + 1
  <2> SUFFICES ASSUME mode = "next" PROVE seen + 1 <= position + 1
    BY <1>1
  <2>1. seen <= position + 1
    BY <1>4 DEF Follows
  <2>2. ~(seen > position /\ seen = position + 1)
    BY <1>1 DEF Stops
  <2> QED BY <1>3, <1>4, <2>1, <2>2
<1>7. ASSUME NEW q \in 0 .. seen' - 1
      PROVE  /\ ~Ended(StateAt(mutations, q))
             /\ q > position => q \notin StopsOf(mutations, breakpoints)
  <2>1. CASE q = seen
    BY <1>3, <1>5, <2>1
  <2>2. CASE q # seen
    <3> q \in 0 .. seen - 1
      BY <1>1, <1>3, <2>2
    <3> QED BY <1>4 DEF Follows
  <2> QED BY <2>1, <2>2
<1>8. seen' <= MaxSteps => StateAt(mutations, seen') = After(m, seen', mutations)
  BY <1>1, <1>3, <1>4, StateNext
<1>9. After(m, seen', mutations) =
        IF Ended(machine') THEN machine' ELSE Applied(machine', seen', mutations)
  BY <1>1, <1>3 DEF After
<1>10. /\ seen' <= MaxSteps /\ ~Ended(machine)' =>
            StateAt(mutations, seen') = Applied(machine', seen', mutations)
       /\ seen' <= MaxSteps /\ Ended(machine)' => Ended(StateAt(mutations, seen'))
  BY <1>8, <1>9
<1>11. pendingPause' = NoPause
  BY <1>2, <1>4 DEF Follows
<1>12. \A q : StateAt(mutations', q) = StateAt(mutations, q)
  BY <1>2
<1> QED
  BY <1>2, <1>6, <1>7, <1>10, <1>11, <1>12 DEF Follows

\* The first halt of a run is where the command should stop.
LEMMA HaltsExact ==
  ASSUME Typed, Follows, Halts, firstPause = NoPause
  PROVE  Captures'
<1> DEFINE m == Applied(machine, seen, mutations)
<1>1. Executing /\ Stops(m) /\ pendingPause' = capturePause(m) /\ firstPause' = capturePause(m)
  BY DEF Halts
<1>2. UNCHANGED <<position, mutations, breakpoints, pauseRequested, mode>>
  BY DEF Halts, session
<1>3. /\ seen \in 0 .. MaxSteps /\ seen \in Nat /\ StateAt(mutations, seen) = m
      /\ m \in Machines /\ ~Ended(m)
      /\ seen \in StopsOf(mutations, breakpoints) <=>
           StepMatches(m, breakpoints) \/ AccessMatches(m, breakpoints)
  BY <1>1, SeenIs
<1>4. /\ position \in Int /\ mode \in {"next", "continue"} /\ MaxSteps \in Nat
      /\ firstPause = NoPause
  BY <1>1, BoundAssumption DEF Typed, Executing
<1> HIDE DEF m
<1>5. firstPause'.step = seen /\ firstPause'.shown = m
  BY <1>1 DEF capturePause
<1>6. pendingPause' # NoPause
  <2> pendingPause'.step = seen /\ NoPause.step = -1
    BY <1>1 DEF capturePause, NoPause
  <2> QED BY <1>3
<1>7. seen > position
  BY <1>1 DEF Stops
<1>8. CASE mode = "next"
  <2> seen <= position + 1
    BY <1>4, <1>8 DEF Follows
  <2> QED BY <1>2, <1>3, <1>4, <1>5, <1>6, <1>7, <1>8 DEF Captures, Exact, Target
<1>9. CASE mode = "continue"
  <2>1. ASSUME NEW q \in StopsOf(mutations, breakpoints), q > position PROVE seen <= q
    <3> q \in 0 .. MaxSteps
      BY DEF StopsOf
    <3> q \in 0 .. seen - 1 => q \notin StopsOf(mutations, breakpoints)
      BY <1>4, <2>1 DEF Follows
    <3> QED BY <1>3, <2>1
  <2>2. seen \in StopsOf(mutations, breakpoints) \/ pauseRequested
    BY <1>1, <1>3, <1>9 DEF Stops
  <2>3. Target(seen)
    BY <1>7, <1>9, <2>1, <2>2 DEF Target
  <2>4. Target(firstPause.step)'
    BY <1>2, <1>5, <2>3 DEF Target
  <2>5. Exact(firstPause)'
    BY <1>2, <1>3, <1>5, <2>4 DEF Exact
  <2> QED BY <1>6, <2>5 DEF Captures
<1> QED
  BY <1>4, <1>8, <1>9

Exactness == Typed /\ PausesAhead /\ Follows /\ Captures

\* The invariant holds when the session starts.
LEMMA InitExactness == Init => Exactness
BY InitTyped, InitPausesAhead DEF Init, Exactness, Follows, Captures

\* Between the first halt and the end of the command nothing moves the
\* target; a pause request only makes more of a target.
LEMMA CapturesStays ==
  ASSUME Captures, firstPause # NoPause, firstPause' = firstPause,
         pendingPause # NoPause => pendingPause' # NoPause,
         pauseRequested => pauseRequested',
         UNCHANGED <<position, mutations, breakpoints, mode>>
  PROVE  Captures' /\ Follows'
<1>1. ASSUME NEW p, Target(p) PROVE Target(p)'
  BY <1>1 DEF Target
<1>2. Exact(firstPause) => Exact(firstPause)'
  BY <1>1 DEF Exact, Target
<1> QED
  BY <1>2 DEF Captures, Follows

\* Nor does anything change while the run rests.
LEMMA FollowsStays ==
  ASSUME Follows, firstPause = NoPause,
         UNCHANGED <<position, mutations, breakpoints, mode, machine, seen, pendingPause,
                     firstPause>>
  PROVE  Captures' /\ Follows'
BY DEF Captures, Follows

\* A new command starts at the first step of the undisturbed run.
LEMMA AdvanceFollows ==
  ASSUME Typed, NEW command \in {"next", "continue"}, Advance(command)
  PROVE  Captures' /\ Follows'
<1>1. /\ machine' = Start /\ seen' = 0 /\ firstPause' = NoPause /\ pendingPause' = NoPause
      /\ UNCHANGED <<position, mutations, breakpoints>>
  BY DEF Advance, Prepared
<1>2. position \in Int /\ position >= -1
  BY BoundAssumption DEF Typed
<1>3. StateAt(mutations, 0) = Applied(Start, 0, mutations) /\ ~Ended(Start)
  BY StateZero, StartIs
<1>4. seen' <= position + 1 /\ 0 .. seen' - 1 = {}
  BY <1>1, <1>2
<1> QED
  BY <1>1, <1>3, <1>4 DEF Captures, Follows

\* Every action keeps the invariant.
LEMMA NextExactness == Exactness /\ [Next]_vars => Exactness'
<1> SUFFICES ASSUME Typed, PausesAhead, Follows, Captures, [Next]_vars
             PROVE Captures' /\ Follows'
  BY NextTyped, NextPausesAhead DEF Exactness
<1>1. CASE mode' = "idle"
  BY <1>1 DEF Captures, Follows
<1>2. ASSUME NEW b \in BreakpointChoices, SetBreakpoint(b) \/ DeleteBreakpoint(b)
      PROVE mode' = "idle"
  BY <1>2 DEF SetBreakpoint, DeleteBreakpoint
<1>3. ASSUME NEW value \in Values, WriteStorage(value) PROVE mode' = "idle"
  BY <1>3 DEF WriteStorage
<1>4. ASSUME NEW command \in {"next", "continue"}, Advance(command)
      PROVE Captures' /\ Follows'
  BY <1>4, AdvanceFollows
<1>5. CASE RunsOn
  <2>1. CASE firstPause = NoPause
    <3> firstPause' = NoPause
      BY <1>5, <2>1 DEF RunsOn
    <3> QED BY <1>5, <2>1, RunsOnFollows DEF Captures
  <2>2. CASE firstPause # NoPause
    <3> UNCHANGED <<position, mutations, breakpoints, mode, pauseRequested, firstPause,
                    pendingPause>>
      BY <1>5 DEF RunsOn, session
    <3> QED BY <2>2, CapturesStays
  <2> QED BY <2>1, <2>2
<1>6. CASE Halts
  <2>1. firstPause' # NoPause /\ pendingPause' # NoPause
    <3> DEFINE m == Applied(machine, seen, mutations)
    <3> HIDE DEF m
    <3>1. capturePause(m).step = seen
      BY DEF capturePause
    <3>2. seen \in Nat
      BY BoundAssumption DEF Typed
    <3>3. capturePause(m) # NoPause
      BY <3>1, <3>2 DEF NoPause
    <3> QED BY <1>6, <3>3 DEF Halts, m
  <2>2. CASE firstPause = NoPause
    BY <1>6, <2>1, <2>2, HaltsExact DEF Follows
  <2>3. CASE firstPause # NoPause
    <3> /\ UNCHANGED <<position, mutations, breakpoints, mode, pauseRequested>>
        /\ firstPause' = firstPause
      BY <1>6, <2>3 DEF Halts, session
    <3> QED BY <2>1, <2>3, CapturesStays
  <2> QED BY <2>2, <2>3
<1>7. CASE Starves
  <2> /\ UNCHANGED <<position, mutations, breakpoints, mode, pauseRequested, firstPause,
                     pendingPause>>
      /\ firstPause # NoPause
    BY <1>7 DEF Starves, session
  <2> QED BY CapturesStays
<1>8. CASE Returns \/ Pauses \/ UNCHANGED vars
  <2>1. UNCHANGED <<position, mutations, breakpoints, mode, machine, seen, pendingPause,
                    firstPause>>
    BY <1>8 DEF Returns, Pauses, PauseAsked, PauseStored, PauseAnswered, PauseGivenUp,
                vars, session, run
  <2>2. pauseRequested => pauseRequested'
    BY <1>8 DEF Returns, Pauses, PauseAsked, PauseStored, PauseAnswered, PauseGivenUp,
                vars, session, run
  <2> QED BY <2>1, <2>2, CapturesStays, FollowsStays
<1>9. CASE Panics \/ Settle
  BY <1>1, <1>9 DEF Panics, Settle
<1> QED
  BY <1>1, <1>2, <1>3, <1>4, <1>5, <1>6, <1>7, <1>8, <1>9 DEF Next, Requests, Engine

\* The invariant behind all that follows.
THEOREM ExactInvariance == Spec => []Exactness
BY InitExactness, NextExactness, PTL DEF Spec

\* The first pause a command captures is the right one, for every program,
\* position, breakpoint and write: the first stop after the position, or the
\* step where a pause request was seen, with the state the undisturbed
\* program has there.
THEOREM FirstPauses == Spec => []FirstPauseIsExact
<1>1. Exactness => FirstPauseIsExact
  <2> SUFFICES ASSUME Captures, firstPause # NoPause, mode # "idle"
               PROVE  /\ Debug!IsTarget(firstPause.step)
                      /\ firstPause.shown = StateAt(mutations, firstPause.step)
    BY DEF Exactness, FirstPauseIsExact
  <2> QED BY TargetIs DEF Captures, Exact
<1> QED
  BY <1>1, ExactInvariance, PTL

-----------------------------------------------------------------------------

\* The last step of a run that has ended, and of one that has not.
LEMMA LastStepIs ==
  ASSUME NEW muts, NEW n \in 0 .. MaxSteps + 1,
         \A q \in 0 .. n - 1 : ~Ended(StateAt(muts, q)),
         n <= MaxSteps => Ended(StateAt(muts, n))
  PROVE  LastStepOf(muts) = n - 1
<1> DEFINE live == {i \in 0 .. MaxSteps : ~Ended(StateAt(muts, i))}
<1>1. LastStepOf(muts) = Cardinality(live) - 1
  BY DEF LastStepOf, StateAt
<1>2. MaxSteps \in Nat /\ n \in Nat
  BY BoundAssumption
<1>3. ASSUME NEW i \in 0 .. MaxSteps PROVE ~Ended(StateAt(muts, i)) <=> i \in 0 .. n - 1
  <2>1. CASE i < n
    BY <1>2, <2>1
  <2>2. CASE n <= i
    BY <1>2, <2>2, EndIsTheEnd
  <2> QED BY <1>2, <2>1, <2>2
<1>4. live = 0 .. n - 1
  BY <1>2, <1>3
<1>5. Cardinality(0 .. n - 1) = n
  BY <1>2, FS_Interval
<1> QED
  BY <1>1, <1>2, <1>4, <1>5

\* A step of a run is not beyond its last step.
LEMMA LiveIsNotLast ==
  ASSUME NEW muts, NEW n \in 0 .. MaxSteps, ~Ended(StateAt(muts, n))
  PROVE  n \in 0 .. LastStepOf(muts)
<1> DEFINE live == {i \in 0 .. MaxSteps : ~Ended(StateAt(muts, i))}
<1>1. LastStepOf(muts) = Cardinality(live) - 1
  BY DEF LastStepOf, StateAt
<1>2. MaxSteps \in Nat /\ n \in Nat
  BY BoundAssumption
<1>3. 0 .. n \subseteq live
  BY <1>2, EndIsTheEnd
<1>4. IsFiniteSet(live)
  <2> live \in SUBSET (0 .. MaxSteps)
    OBVIOUS
  <2> IsFiniteSet(0 .. MaxSteps)
    BY <1>2, FS_Interval
  <2> HIDE DEF live
  <2> QED BY FS_Subset
<1>5. Cardinality(0 .. n) = n + 1
  BY <1>2, FS_Interval
<1> HIDE DEF live
<1>6. Cardinality(0 .. n) <= Cardinality(live)
  BY <1>3, <1>4, FS_Subset
<1>7. Cardinality(live) \in Nat
  BY <1>4, FS_CardinalityType
<1> QED
  BY <1>1, <1>2, <1>5, <1>6, <1>7

\* A run that ended and that no hook halted: there was nothing to stop at.
LEMMA OverIs ==
  ASSUME Exactness, mode # "idle", firstPause = NoPause, Ended(machine)
  PROVE  Debug!IsOver /\ LastStepOf(mutations) = lastStep
<1>1. seen \in 0 .. MaxSteps + 1 /\ MaxSteps \in Nat /\ position \in Int
  BY BoundAssumption DEF Exactness, Typed
<1>2. /\ mode = "next" => seen <= position + 1
      /\ \A q \in 0 .. seen - 1 :
           /\ ~Ended(StateAt(mutations, q))
           /\ q > position => q \notin StopsOf(mutations, breakpoints)
      /\ seen <= MaxSteps => Ended(StateAt(mutations, seen))
  BY DEF Exactness, Follows
<1>3. LastStepOf(mutations) = seen - 1
  BY <1>1, <1>2, LastStepIs
<1>4. CASE mode = "next"
  BY <1>1, <1>2, <1>3, <1>4 DEF Debug!IsOver, lastStep
<1>5. CASE mode = "continue"
  <2>1. ASSUME NEW q \in StopsOf(mutations, breakpoints) PROVE ~(q > position)
    <3>1. q \in 0 .. MaxSteps /\ ~Ended(StateAt(mutations, q))
      BY DEF StopsOf, StateAt
    <3>2. q < seen
      BY <1>1, <1>2, <3>1, EndIsTheEnd
    <3> QED BY <1>1, <1>2, <3>1, <3>2
  <2> QED BY <1>3, <1>5, <2>1 DEF Debug!IsOver, Debug!NextStops, lastStep
<1> QED
  BY <1>4, <1>5 DEF Exactness, Typed

\* A command settles only after its run has returned.
Settled == mode # "idle" /\ ~running => Ended(machine)

\* That holds in every reachable state.
LEMMA SettledInvariance == Spec => []Settled
<1>1. Init => Settled
  BY DEF Init, Settled
<1>2. Settled /\ [Next]_vars => Settled'
  <2> SUFFICES ASSUME Settled, [Next]_vars PROVE Settled'
    OBVIOUS
  <2>1. CASE Requests
    BY <2>1 DEF Requests, Settled, SetBreakpoint, DeleteBreakpoint, WriteStorage, Advance
  <2>2. CASE RunsOn \/ Halts \/ Starves
    BY <2>2 DEF Settled, RunsOn, Halts, Starves, Executing
  <2>3. CASE Returns
    BY <2>3 DEF Settled, Returns, run, Ended
  <2>4. CASE Panics \/ Settle
    BY <2>4 DEF Settled, Panics, Settle
  <2>5. CASE Pauses \/ UNCHANGED vars
    <3> UNCHANGED <<mode, running, machine>>
      BY <2>5 DEF Pauses, PauseAsked, PauseStored, PauseAnswered, PauseGivenUp, vars,
                  session, run
    <3> QED BY DEF Settled, Ended
  <2> QED BY <2>1, <2>2, <2>3, <2>4, <2>5 DEF Next, Engine
<1> QED
  BY <1>1, <1>2, PTL DEF Spec

\* A session is done only when the undisturbed program has no stop left
\* after the position, for every program, breakpoint and write.
THEOREM NothingIsMissed == Spec => NothingMissed
<1>1. Exactness /\ Settled /\ [Next]_vars =>
        [mode # "idle" /\ ~running /\ mode' = "idle" /\ done' /\ machine.ok
           => Debug!IsOver]_vars
  <2> SUFFICES ASSUME Exactness, Settled, [Next]_vars, mode # "idle", ~running,
                      mode' = "idle", done', machine.ok
               PROVE Debug!IsOver
    OBVIOUS
  <2>1. Settle
    BY DEF Next, Requests, Engine, Pauses, SetBreakpoint, DeleteBreakpoint, WriteStorage,
           Advance, RunsOn, Halts, Starves, Executing, Returns, Panics, PauseAsked,
           PauseStored, PauseAnswered, PauseGivenUp, vars
  <2>2. pendingPause = NoPause
    BY <2>1 DEF Settle
  <2>3. firstPause = NoPause
    BY <2>2 DEF Exactness, Captures
  <2>4. Ended(machine)
    BY DEF Settled
  <2> QED BY <2>3, <2>4, OverIs
<1> QED
  BY <1>1, ExactInvariance, SettledInvariance, PTL DEF Spec, NothingMissed

-----------------------------------------------------------------------------
(* The refinement of DebuggerSession.                                      *)

\* A write for a later step does not change what is redone at a step, and
\* a write for the step itself is the one that counts.
LEMMA AppendedIs ==
  ASSUME NEW m \in Machines, NEW muts \in Seq(Writings), NEW w \in Writings
  PROVE  /\ \A step : step # w.step =>
              Applied(m, step, Append(muts, w)) = Applied(m, step, muts)
         /\ Applied(m, w.step, Append(muts, w)) = [m EXCEPT !.cell = w.value]
<1>1. PICK n \in Nat : n = Len(muts)
  OBVIOUS
<1> DEFINE more == Append(muts, w)
<1>2. /\ Len(more) = n + 1 /\ more[n + 1] = w
      /\ \A i \in 1 .. n : more[i] = muts[i]
  BY <1>1
<1> DEFINE due(step) == {i \in 1 .. n : muts[i].step = step}
           now(step) == {i \in 1 .. n + 1 : more[i].step = step}
<1> HIDE DEF more
<1>3. ASSUME NEW step, step # w.step
      PROVE Applied(m, step, more) = Applied(m, step, muts)
  <2>1. now(step) = due(step)
    BY <1>2, <1>3
  <2> DEFINE j == CHOOSE i \in due(step) : \A k \in due(step) : k <= i
  <2>2. due(step) # {} => j \in 1 .. n
    <3>1. due(step) \in SUBSET (1 .. n)
      OBVIOUS
    <3> HIDE DEF due
    <3>2. due(step) # {} => \E i \in due(step) : \A k \in due(step) : k <= i
      BY <3>1, LastExists
    <3> QED BY <3>1, <3>2
  <2>3. Applied(m, step, more) =
          IF now(step) = {} THEN m
          ELSE [m EXCEPT !.cell =
                  more[CHOOSE i \in now(step) : \A k \in now(step) : k <= i].value]
    BY <1>2 DEF Applied
  <2>4. Applied(m, step, muts) =
          IF due(step) = {} THEN m ELSE [m EXCEPT !.cell = muts[j].value]
    BY <1>1 DEF Applied
  <2>5. Applied(m, step, more) =
          IF due(step) = {} THEN m ELSE [m EXCEPT !.cell = more[j].value]
    <3> HIDE DEF now, due
    <3> QED BY <2>1, <2>3
  <2>6. due(step) # {} => more[j] = muts[j]
    <3> HIDE DEF due, j
    <3> QED BY <1>2, <2>2
  <2> HIDE DEF due, j
  <2> QED BY <2>4, <2>5, <2>6
<1>4. Applied(m, w.step, more) = [m EXCEPT !.cell = w.value]
  <2>1. n + 1 \in now(w.step)
    BY <1>2
  <2>2. \A i \in now(w.step) : i \in Nat /\ i <= n + 1
    OBVIOUS
  <2>3. Applied(m, w.step, more) =
          IF now(w.step) = {} THEN m
          ELSE [m EXCEPT !.cell =
                  more[CHOOSE i \in now(w.step) : \A k \in now(w.step) : k <= i].value]
    BY <1>2 DEF Applied
  <2> HIDE DEF now
  <2>4. (CHOOSE i \in now(w.step) : \A k \in now(w.step) : k <= i) = n + 1
    BY <2>1, <2>2
  <2> QED BY <1>2, <2>1, <2>3, <2>4
<1> QED
  BY <1>3, <1>4 DEF more

\* A write at a step of the run changes the run from that step on, where it
\* is shown.
LEMMA WriteShows ==
  ASSUME NEW muts \in Seq(Writings), NEW w \in Writings, ~Ended(StateAt(muts, w.step))
  PROVE  StateAt(Append(muts, w), w.step) = [StateAt(muts, w.step) EXCEPT !.cell = w.value]
<1>1. PICK p \in Nat : p = w.step /\ p <= MaxSteps
  BY BoundAssumption DEF Writings
<1> DEFINE more == Append(muts, w)
<1>2. more \in Seq(Writings) /\ MaxSteps \in Nat
  BY BoundAssumption
<1>3. ASSUME NEW m \in Machines
      PROVE /\ \A i : i # p => Applied(m, i, more) = Applied(m, i, muts)
            /\ Applied(m, p, more) = [m EXCEPT !.cell = w.value]
            /\ [Applied(m, p, muts) EXCEPT !.cell = w.value] = [m EXCEPT !.cell = w.value]
  <2>1. \A i : i # w.step => Applied(m, i, more) = Applied(m, i, muts)
    BY AppendedIs
  <2>2. Applied(m, w.step, more) = [m EXCEPT !.cell = w.value]
    BY AppendedIs
  <2>3. [Applied(m, p, muts) EXCEPT !.cell = w.value] = [m EXCEPT !.cell = w.value]
    <3>1. PICK a \in Machines : a = Applied(m, p, muts) /\ a.frames = m.frames /\ a.ok = m.ok
      BY AppliedIs
    <3>2. [a EXCEPT !.cell = w.value] = [m EXCEPT !.cell = w.value]
      BY <3>1 DEF Machines
    <3> QED BY <3>1, <3>2
  <2> HIDE DEF more
  <2> QED BY <1>1, <2>1, <2>2, <2>3
<1> HIDE DEF more
<1>4. ASSUME NEW i \in Nat, i < p PROVE StateAt(more, i) = StateAt(muts, i)
  <2> DEFINE S == {k \in Nat : k < p => StateAt(more, k) = StateAt(muts, k)}
  <2>1. 0 \in S
    <3>1. StateAt(more, 0) = Applied(Start, 0, more) /\ StateAt(muts, 0) = Applied(Start, 0, muts)
      BY StateZero
    <3>2. Start \in Machines
      BY StartIs
    <3>3. 0 # p => Applied(Start, 0, more) = Applied(Start, 0, muts)
      <4> HIDE DEF Start
      <4> QED BY <1>3, <3>2
    <3> HIDE DEF Start
    <3> QED BY <1>1, <3>1, <3>3
  <2>2. ASSUME NEW k \in Nat, k \in S PROVE k + 1 \in S
    <3> SUFFICES ASSUME k + 1 < p PROVE StateAt(more, k + 1) = StateAt(muts, k + 1)
      OBVIOUS
    <3>1. PICK m : m = StateAt(muts, k)
      OBVIOUS
    <3>2. StateAt(more, k) = m /\ m \in Machines
      BY <1>1, <1>2, <2>2, <3>1, StateIsMachine
    <3>3. /\ StateAt(muts, k + 1) = After(m, k + 1, muts)
          /\ StateAt(more, k + 1) = After(m, k + 1, more)
      BY <1>1, <1>2, <3>1, <3>2, StateNext
    <3>4. ~Ended(m) => Exec(m) \in Machines
      BY <3>2, ExecIs
    <3>5. ~Ended(m) => Applied(Exec(m), k + 1, more) = Applied(Exec(m), k + 1, muts)
      <4>1. PICK n \in Nat : n = k + 1
        OBVIOUS
      <4>2. n # p
        BY <1>1, <4>1
      <4> QED BY <1>3, <3>4, <4>1, <4>2
    <3> QED BY <3>3, <3>5 DEF After
  <2>3. Nat \subseteq S
    <3> HIDE DEF S
    <3> QED BY <2>1, <2>2, SetInduction
  <2> QED BY <1>4, <2>3
<1>5. CASE p = 0
  <2>1. StateAt(more, p) = Applied(Start, p, more) /\ StateAt(muts, p) = Applied(Start, p, muts)
    BY <1>5, StateZero
  <2> QED BY <1>1, <1>3, <2>1, StartIs DEF more
<1>6. CASE p # 0
  <2>1. PICK k \in Nat : k + 1 = p
    BY <1>6
  <2>2. PICK m : m = StateAt(muts, k)
    OBVIOUS
  <2>3. StateAt(more, k) = m /\ m \in Machines /\ k < MaxSteps
    BY <1>1, <1>2, <1>4, <2>1, <2>2, StateIsMachine
  <2>4. StateAt(muts, p) = After(m, p, muts) /\ StateAt(more, p) = After(m, p, more)
    BY <2>1, <2>2, <2>3, StateNext
  <2>5. ~Ended(m) /\ ~Ended(Exec(m))
    BY <1>1, <2>4 DEF After
  <2>6. StateAt(muts, p) = Applied(Exec(m), p, muts) /\ StateAt(more, p) = Applied(Exec(m), p, more)
    BY <2>4, <2>5 DEF After
  <2>7. Exec(m) \in Machines
    BY <2>3, <2>5, ExecIs
  <2> QED BY <1>1, <1>3, <2>6, <2>7 DEF more
<1> QED
  BY <1>5, <1>6

-----------------------------------------------------------------------------

\* No hook of an outer frame captures another pause after the first: the
\* callers of a frame a hook halted meet no stop any more.
FirstPauseStands == mode # "idle" => pendingPause = firstPause

\* What is shown is the undisturbed run at the position.
ShownExact ==
  current # NoPause =>
    current.shown = StateAt(mutations, position) /\ ~Ended(current.shown)

\* What DebuggerSession sees of the pause shown.
LEMMA ShownIs ==
  ASSUME Typed
  PROVE  /\ current = NoPause => Shown = NoPause
         /\ current # NoPause => Shown = current.shown /\ Shown # NoPause
<1>1. current # NoPause => current.shown \in Machines
  BY CapturedIs DEF Typed
<1>2. ASSUME NEW m \in Machines PROVE m # NoPause
  <2>1. "frames" \in DOMAIN m
    BY DEF Machines
  <2>2. "frames" \notin DOMAIN NoPause
    BY DEF NoPause
  <2> QED BY <2>1, <2>2
<1> HIDE DEF NoPause
<1> QED
  BY <1>1, <1>2 DEF Shown

\* A write: what is shown is edited, and the run with the write is the run
\* without it, edited at that step.
LEMMA WriteWalks ==
  ASSUME Exactness, ShownExact, NEW value \in Values, WriteStorage(value)
  PROVE  ShownExact' /\ Debug!Write
<1> DEFINE w == [step |-> position, value |-> value]
<1>1. Typed /\ current # NoPause /\ mode = "idle" /\ position = current.step
  BY DEF Exactness, Typed, WriteStorage
<1>2. current \in Captured
  BY <1>1 DEF Typed
<1>3. position \in 0 .. MaxSteps /\ current.shown \in Machines
  BY <1>1, <1>2, CapturedIs
<1>4. w \in Writings /\ w.step = position /\ w.value = value
  BY <1>3 DEF Writings
<1>5. mutations' = Append(mutations, w) /\ mutations \in Seq(Writings)
  BY <1>1 DEF WriteStorage, WriteStep, Typed
<1>6. /\ current' = [current EXCEPT !.shown = [current.shown EXCEPT !.cell = value]]
      /\ UNCHANGED <<position, done, mode, pauseRequested, breakpoints>>
  BY <1>2, <1>3 DEF WriteStorage, Captured, Machines, run
<1> HIDE DEF w
<1>7. current.shown = StateAt(mutations, position) /\ ~Ended(current.shown)
  BY <1>1 DEF ShownExact
<1>8. StateAt(Append(mutations, w), position) = [StateAt(mutations, position) EXCEPT !.cell = value]
  <2>1. StateAt(Append(mutations, w), w.step) = [StateAt(mutations, w.step) EXCEPT !.cell = w.value]
    BY <1>4, <1>5, <1>7, WriteShows
  <2> QED BY <1>4, <2>1
<1>9. PICK e : e = [current.shown EXCEPT !.cell = value]
  OBVIOUS
<1>10. e \in Machines /\ ~Ended(e)
  BY <1>3, <1>7, <1>9 DEF Machines, Ended
<1>11. current' \in Captured /\ current'.shown = e /\ current' # NoPause
  <2>1. current' = [current EXCEPT !.shown = e]
    BY <1>6, <1>9
  <2>2. current' \in Captured /\ current'.shown = e
    BY <1>2, <1>10, <2>1 DEF Captured
  <2> QED BY <2>2, CapturedIs
<1>12. StateAt(mutations', position') = e
  BY <1>5, <1>6, <1>7, <1>8, <1>9
<1>13. ShownExact'
  BY <1>10, <1>11, <1>12 DEF ShownExact
<1>14. Shown # NoPause /\ Shown' = e
  <2>1. Shown # NoPause
    BY <1>1, ShownIs
  <2>2. Shown' = e
    BY <1>11 DEF Shown
  <2> QED BY <2>1, <2>2
<1>15. /\ Len(mutations') = Len(mutations) + 1
       /\ SubSeq(mutations', 1, Len(mutations)) = mutations
       /\ mutations'[Len(mutations')].step = position
  <2>1. PICK n \in Nat : n = Len(mutations)
    BY <1>5
  <2>2. Len(mutations') = n + 1 /\ mutations'[n + 1] = w
    BY <1>4, <1>5, <2>1
  <2>3. SubSeq(mutations', 1, n) = mutations
    BY <1>4, <1>5, <2>1
  <2> QED BY <1>4, <2>1, <2>2, <2>3
<1> QED
  BY <1>1, <1>6, <1>12, <1>13, <1>14, <1>15 DEF Debug!Write

\* The end of a command: it stops at its target, is complete, or failed.
LEMMA SettleWalks ==
  ASSUME Exactness, Settled, FirstPauseStands, Settle
  PROVE  ShownExact' /\ (Debug!Pause \/ Debug!Complete \/ Debug!GiveUp)
<1>1. /\ mode # "idle" /\ mode' = "idle" /\ current = NoPause
      /\ UNCHANGED <<breakpoints, mutations, pauseRequested>>
      /\ Ended(machine)
  BY DEF Settle, Settled, Exactness, PausesAhead, run
<1>2. Shown = NoPause
  BY <1>1, ShownIs DEF Exactness
<1>3. CASE pendingPause # NoPause
  <2>1. firstPause = pendingPause /\ Exact(firstPause)
    BY <1>1, <1>3 DEF FirstPauseStands, Exactness, Captures
  <2>2. current' = firstPause /\ position' = firstPause.step /\ done' = FALSE
    BY <1>3, <2>1 DEF Settle
  <2>3. firstPause \in Captured
    BY <1>3, <2>1 DEF Exactness, Typed
  <2>4. firstPause.step \in 0 .. MaxSteps /\ firstPause # NoPause
    BY <2>3, CapturedIs
  <2>5. firstPause.step \in 0 .. LastStepOf(mutations)
    BY <2>1, <2>4, LiveIsNotLast DEF Exact
  <2>6. Debug!IsTarget(firstPause.step)
    BY <2>1, TargetIs DEF Exact
  <2>7. Shown' = firstPause.shown
    BY <2>2, <2>4 DEF Shown
  <2>8. Debug!Pause
    BY <1>1, <2>1, <2>2, <2>5, <2>6, <2>7 DEF Debug!Pause, Exact
  <2>9. ShownExact'
    BY <1>1, <2>1, <2>2 DEF ShownExact, Exact
  <2> QED BY <2>8, <2>9
<1>4. CASE pendingPause = NoPause
  <2>1. firstPause = NoPause
    BY <1>1, <1>4 DEF FirstPauseStands
  <2>2. CASE ~machine.ok
    <3>1. UNCHANGED <<current, position, done>>
      BY <1>4, <2>2 DEF Settle
    <3> QED BY <1>1, <3>1 DEF Debug!GiveUp, ShownExact, Shown
  <2>3. CASE machine.ok
    <3>1. current' = NoPause /\ position' = lastStep /\ done' = TRUE
      BY <1>4, <2>3 DEF Settle
    <3>2. Debug!IsOver /\ LastStepOf(mutations) = lastStep
      BY <1>1, <2>1, OverIs
    <3>3. Shown' = Shown
      BY <1>2, <3>1 DEF Shown
    <3>4. Debug!Complete
      BY <1>1, <3>1, <3>2, <3>3 DEF Debug!Complete
    <3> QED BY <3>1, <3>4 DEF ShownExact
  <2> QED BY <2>2, <2>3
<1> QED
  BY <1>3, <1>4

\* Every step is one of DebuggerSession's, or none it sees.
LEMMA StepWalks ==
  ASSUME Exactness, Settled, FirstPauseStands, ShownExact, [Next]_vars
  PROVE  ShownExact' /\ [Debug!Next]_(Debug!vars)
<1>1. ASSUME NEW b \in BreakpointChoices, SetBreakpoint(b) \/ DeleteBreakpoint(b)
      PROVE ShownExact' /\ Debug!Next
  <2>1. /\ mode = "idle" /\ breakpoints' # breakpoints
        /\ UNCHANGED <<position, done, current, mutations, pauseRequested, mode>>
    BY <1>1 DEF SetBreakpoint, DeleteBreakpoint
  <2>2. Debug!SetBreakpoints
    BY <2>1 DEF Debug!SetBreakpoints, Shown
  <2> QED BY <2>1, <2>2 DEF ShownExact, Debug!Next
<1>2. ASSUME NEW value \in Values, WriteStorage(value) PROVE ShownExact' /\ Debug!Next
  BY <1>2, WriteWalks DEF Debug!Next
<1>3. ASSUME NEW command \in {"next", "continue"}, Advance(command)
      PROVE ShownExact' /\ Debug!Next
  <2>1. /\ mode = "idle" /\ mode' \in {"next", "continue"} /\ current' = NoPause
        /\ pauseRequested' = FALSE
        /\ UNCHANGED <<position, done, breakpoints, mutations>>
    BY <1>3 DEF Advance
  <2>2. Debug!Ask
    BY <2>1 DEF Debug!Ask, Shown
  <2> QED BY <2>1, <2>2 DEF ShownExact, Debug!Next
<1>4. CASE RunsOn \/ Halts \/ Starves \/ Returns \/ UNCHANGED vars
  <2>1. UNCHANGED <<position, done, current, breakpoints, mutations, mode, pauseRequested>>
    BY <1>4 DEF RunsOn, Halts, Starves, Returns, vars, session
  <2> QED BY <2>1 DEF ShownExact, Shown, Debug!vars
<1>5. CASE Panics
  <2>1. /\ mode # "idle" /\ mode' = "idle"
        /\ UNCHANGED <<position, done, current, breakpoints, mutations, pauseRequested>>
    BY <1>5 DEF Panics, session
  <2>2. Debug!GiveUp
    BY <2>1 DEF Debug!GiveUp, Shown
  <2> QED BY <2>1, <2>2 DEF ShownExact, Debug!Next
<1>6. CASE Settle
  BY <1>6, SettleWalks DEF Debug!Next
<1>7. CASE Pauses
  <2>1. UNCHANGED <<position, done, current, breakpoints, mutations, mode>>
    BY <1>7 DEF Pauses, PauseAsked, PauseStored, PauseAnswered, PauseGivenUp, session
  <2>2. pauseRequested' = TRUE \/ pauseRequested' = pauseRequested
    BY <1>7 DEF Pauses, PauseAsked, PauseStored, PauseAnswered, PauseGivenUp
  <2>3. CASE pauseRequested' = TRUE
    BY <2>1, <2>3 DEF ShownExact, Debug!Interrupt, Debug!Next, Shown
  <2>4. CASE pauseRequested' = pauseRequested
    BY <2>1, <2>4 DEF ShownExact, Debug!vars, Shown
  <2> QED BY <2>2, <2>3, <2>4
<1> QED
  BY <1>1, <1>2, <1>3, <1>4, <1>5, <1>6, <1>7 DEF Next, Requests, Engine

\* As long as the first pause of each run stands, the session implements
\* DebuggerSession: it walks along one run of the program, the undisturbed
\* one with the writes of the session, for every program, breakpoint, write
\* and pause request.  The condition is the one the code needs: a halt ends
\* the innermost frame only, and a pause that a caller's hook captures later
\* replaces the first with a step of a run that never happens.
THEOREM WalksWhilePausesStand == Spec /\ []FirstPauseStands => WalksTheRun
<1>1. Init => Debug!Init
  BY DEF Init, Debug!Init, Shown
<1>2. Init => ShownExact
  BY DEF Init, ShownExact
<1>3. Exactness /\ Settled /\ FirstPauseStands /\ ShownExact /\ [Next]_vars =>
        ShownExact' /\ [Debug!Next]_(Debug!vars)
  BY StepWalks
<1> QED
  BY <1>1, <1>2, <1>3, ExactInvariance, SettledInvariance, PTL
     DEF Spec, WalksTheRun, Debug!Spec

-----------------------------------------------------------------------------

\* A program whose contracts call nobody.
OneFrame == \A c \in DOMAIN Program : \A i \in 1 .. Len(Program[c]) : Program[c][i].op # "call"

\* Then a halt ends the run with the frame it fires in.
Flat ==
  /\ Len(machine.frames) <= 1
  /\ FirstPauseStands
  /\ mode # "idle" /\ firstPause # NoPause => Ended(machine)

\* Without calls there is never a second frame.
LEMMA FlatFrames ==
  ASSUME OneFrame, NEW m \in Machines, ~Ended(m), Len(m.frames) <= 1
  PROVE  Len(Exec(m).frames) <= 1 /\ Ended(Fail(m))
<1>1. Len(m.frames) = 1 /\ m.frames \in Seq(Activations)
  <2>1. PICK k \in Nat \ {0} : k = Len(m.frames)
    BY TopIs
  <2>2. m.frames \in Seq(Activations)
    BY DEF Machines
  <2>3. k <= 1
    BY <2>1
  <2>4. k = 1
    BY <2>3
  <2> QED BY <2>1, <2>2, <2>4
<1>2. Popped(m) = <<>>
  BY <1>1 DEF Popped
<1>3. InstrAt(m).op # "call" /\ InstrAt(m).op \in Ops
  BY TopIs DEF OneFrame, InstrAt, Instr
<1>4. Len(Jump(m, 1).frames) = 1 /\ Len(Jump(m, 2).frames) = 1
  BY <1>1 DEF Jump, Machines
<1>5. Fail(m).frames = <<>> /\ Ended(Fail(m))
  BY <1>2 DEF Fail, Ended
<1>6. CASE InstrAt(m).op \in {"plain", "read", "ifset"}
  <2>1. Exec(m) = Jump(m, 1) \/ Exec(m) = Jump(m, 2)
    BY <1>6 DEF Exec
  <2>2. Len(Exec(m).frames) = 1
    BY <1>4, <2>1
  <2> QED BY <1>5, <2>2
<1>7. CASE InstrAt(m).op = "write"
  <2>1. PICK j : j = Jump(m, 1)
    OBVIOUS
  <2>2. Exec(m) = [j EXCEPT !.cell = 1]
    BY <1>7, <2>1 DEF Exec
  <2>3. j \in Machines
    BY <1>7, <2>1, TopIs, JumpIs
  <2>4. Exec(m).frames = j.frames
    BY <2>2, <2>3 DEF Machines
  <2>5. Len(Exec(m).frames) = 1
    BY <1>4, <2>1, <2>4
  <2> QED BY <1>5, <2>5 DEF Ended
<1>8. CASE InstrAt(m).op \in {"require", "revert"}
  <2>1. Exec(m) = Jump(m, 1) \/ Exec(m) = Fail(m)
    BY <1>8 DEF Exec
  <2>2. Len(Fail(m).frames) = 0
    BY <1>5
  <2>3. Len(Exec(m).frames) \in {0, 1}
    BY <1>4, <2>1, <2>2
  <2>4. ASSUME NEW k \in {0, 1} PROVE k <= 1
    OBVIOUS
  <2> QED BY <1>5, <2>3, <2>4
<1>9. CASE InstrAt(m).op = "stop"
  <2> Exec(m) = [m EXCEPT !.frames = Popped(m), !.ok = TRUE]
    BY <1>9 DEF Exec
  <2> Exec(m).frames = <<>>
    BY <1>2 DEF Machines
  <2> QED BY <1>5 DEF Ended
<1> QED
  BY <1>3, <1>5, <1>6, <1>7, <1>8, <1>9 DEF Ops, Ended

\* For contracts that call nobody the condition always holds: sessions of
\* such programs walk along the undisturbed run, unconditionally.
THEOREM OneFrameWalks == OneFrame /\ Spec => WalksTheRun
<1> SUFFICES ASSUME OneFrame PROVE Spec => WalksTheRun
  OBVIOUS
<1>1. Init => Flat
  BY DEF Init, Flat, FirstPauseStands, Start
<1>2. ASSUME Typed, Flat, [Next]_vars PROVE Flat'
  <2>1. CASE Requests
    <3>1. CASE machine' = machine /\ mode' = "idle"
      BY <1>2, <3>1 DEF Flat, FirstPauseStands
    <3>2. CASE machine' = Start /\ firstPause' = NoPause /\ pendingPause' = NoPause
      BY <3>2 DEF Start, Flat, FirstPauseStands
    <3> QED BY <2>1, <3>1, <3>2
            DEF Requests, SetBreakpoint, DeleteBreakpoint, WriteStorage, Advance, Prepared, run
  <2>2. CASE RunsOn
    <3>1. PICK m : m = Applied(machine, seen, mutations)
      OBVIOUS
    <3>2. m \in Machines /\ ~Ended(m) /\ m.frames = machine.frames
      BY <1>2, <2>2, <3>1, RedoneIs, AppliedIs DEF RunsOn, Executing, Typed
    <3>3. Len(machine'.frames) <= 1
      BY <1>2, <2>2, <3>1, <3>2, FlatFrames DEF RunsOn, Flat
    <3> QED BY <1>2, <2>2, <3>3 DEF Flat, FirstPauseStands, RunsOn, Executing
  <2>3. CASE Halts
    <3>1. PICK m : m = Applied(machine, seen, mutations)
      OBVIOUS
    <3>2. m \in Machines /\ ~Ended(m) /\ m.frames = machine.frames
      BY <1>2, <2>3, <3>1, RedoneIs, AppliedIs DEF Halts, Executing, Typed
    <3>3. Ended(machine')
      BY <1>2, <2>3, <3>1, <3>2, FlatFrames DEF Halts, Flat
    <3>4. firstPause = NoPause
      BY <1>2, <2>3 DEF Flat, Halts, Executing
    <3>5. firstPause' = pendingPause'
      BY <2>3, <3>4 DEF Halts
    <3> QED BY <3>3, <3>5 DEF Flat, FirstPauseStands, Ended
  <2>4. CASE Starves
    BY <1>2, <2>4 DEF Starves, Executing, Flat
  <2>5. CASE Returns \/ Pauses \/ UNCHANGED vars
    <3> UNCHANGED <<machine, mode, firstPause, pendingPause>>
      BY <2>5 DEF Returns, Pauses, PauseAsked, PauseStored, PauseAnswered, PauseGivenUp,
                  vars, session, run
    <3> QED BY <1>2 DEF Flat, FirstPauseStands, Ended
  <2>6. CASE Panics \/ Settle
    <3> machine' = machine /\ mode' = "idle"
      BY <2>6 DEF Panics, Settle, run
    <3> QED BY <1>2 DEF Flat, FirstPauseStands
  <2> QED BY <1>2, <2>1, <2>2, <2>3, <2>4, <2>5, <2>6 DEF Next, Engine
<1>3. Typed /\ Flat /\ [Next]_vars => Flat'
  BY <1>2
<1>4. Flat => FirstPauseStands
  BY DEF Flat
<1> QED
  BY <1>1, <1>3, <1>4, TypedInvariance, WalksWhilePausesStand, PTL DEF Spec
=============================================================================
