---------------------------- MODULE EditorAdapter ----------------------------
(***************************************************************************)
(* The debug adapter of the editor plugin (plugin/src/dap and the process  *)
(* manager): the requests of the editor for one debug session, and what    *)
(* they send to the server.                                                *)
(*                                                                         *)
(* A request is an async function.  Its task is the list of what it has    *)
(* still to do, calls and the code between them.  JavaScript runs one task *)
(* at a time up to its next await; at each, any other may go on.           *)
(*                                                                         *)
(* The server is taken at its word (DebuggerSession; what ReplayDebugger   *)
(* finds wrong with it is left aside): next goes one step further, continue*)
(* to the next stop.  A call may fail, before or after it was carried out. *)
(***************************************************************************)
EXTENDS Integers, Sequences, FiniteSets

CONSTANTS
  Program,      \* the steps of a run: [pc, place, code, depth, enters, calls]
  Plans,        \* what the editor asks for: [file, lines, functions]
  Launches,     \* configurations: [autoStart, stopOnEntry, bundle, autoLoad, steps, call]
  MaxTasks,     \* bound: requests in flight
  MaxEdits,     \* bound: requests that set breakpoints
  MaxResumes,   \* bound: requests that step or continue
  MaxFailures,  \* bound: calls that fail and exits of the process
  MaxProbes,    \* probes of the server until it is given up (15 s)
  MaxTries,     \* continues of an auto-run (8)
  MaxInstructions  \* instructions of a line step (512, 1024, 2048)

ASSUME ProgramAssumption == Len(Program) > 0
ASSUME BoundAssumption ==
  {MaxTasks, MaxEdits, MaxResumes, MaxFailures, MaxProbes, MaxTries, MaxInstructions}
    \subseteq Nat

Files == {plan.file : plan \in Plans}
Codes == {Program[i].code : i \in DOMAIN Program}
Root == Program[1].code

VARIABLES
  launch,    \* the configuration of the launch
  \* InspethctDebugSession
  tasks,     \* the requests in flight
  js,        \* the task that runs, 0 between two turns
  runtime,   \* runtime is set
  pending,   \* pendingBreakpoints
  phase,     \* of the launch: "new", "launching", "launched", "failed"
  shown,     \* the last event: "running", "stopped", "terminated"
  client,    \* the fields of InspethctRuntime
  \* DbgserverProcessManager
  process,   \* "none", "starting", "serving", "exited"
  managed,   \* the session's entry of managed is there
  sessions,  \* the sessions of the server, one for each step of a sequence
  budget,    \* what the bounds leave
  \* history
  disturbed, \* files whose breakpoints were applied twice at once or in part
  promised,  \* the stops ahead when the launch began to run undisturbed
  firstStop  \* the position of the stop the launch ended with, 0: none

serverVars == <<process, managed, sessions>>
history == <<disturbed, promised, firstStop>>
vars == <<launch, tasks, js, runtime, pending, phase, shown, client, serverVars, budget, history>>

-----------------------------------------------------------------------------
(* The server.                                                             *)

NoPause == [reason |-> "none"]
NoPlace == <<>>
Id(kind, f, x) == <<kind, f, x>>

NewSession == [breakpoints |-> {}, bundles |-> {}, auto |-> FALSE, position |-> 0,
               done |-> FALSE, current |-> NoPause]

Known(session) == session.bundles \cup (IF session.auto THEN Codes \ {Root} ELSE {})

\* The reason to stop at a step, the step's hook before those of its accesses.
StopAt(session, i) ==
  LET step == Program[i]
      Wants(x) == \E f \in Files : Id("function", f, x) \in session.breakpoints
  IN IF step.pc = 0 /\ Wants(step.enters) THEN "function_breakpoint"
     ELSE IF /\ step.place # NoPlace /\ step.code \in Known(session)
             /\ Id("source", step.place[1], step.place[2]) \in session.breakpoints
       THEN "source_breakpoint"
     ELSE IF Wants(step.calls) THEN "call_breakpoint" ELSE "none"

Pause(session, i, reason) ==
  [reason |-> reason, at |-> i, pc |-> Program[i].pc, code |-> Program[i].code,
   depth |-> Program[i].depth,
   place |-> IF Program[i].code \in Known(session) THEN Program[i].place ELSE NoPlace]

PausedAt(session, i, reason) ==
  IF i > Len(Program)
  THEN [session EXCEPT !.position = Len(Program), !.done = TRUE, !.current = NoPause]
  ELSE [session EXCEPT !.position = i, !.done = FALSE, !.current = Pause(session, i, reason)]

NextStop(session) ==
  LET ahead == {i \in session.position + 1 .. Len(Program) : StopAt(session, i) # "none"}
  IN IF ahead = {} THEN Len(Program) + 1 ELSE CHOOSE i \in ahead : \A j \in ahead : i <= j

Continued(session) ==
  LET i == NextStop(session)
  IN PausedAt(session, i, IF i > Len(Program) THEN "" ELSE StopAt(session, i))

\* describeSession
State(session) ==
  [done |-> session.done, current |-> session.current, bundles |-> session.bundles]

-----------------------------------------------------------------------------
(* Tasks.                                                                  *)

NoCall == [session |-> -1]
Idle == [kind |-> "idle", todo |-> <<>>, call |-> NoCall]
Do(op) == [op |-> op]
Call(m, x) == [op |-> "call", method |-> m, arg |-> x]
Await == Do("await")
EndTry == Do("endtry")

Todo(t) == tasks[t].todo
At(t, op) == js = t /\ Todo(t) # <<>> /\ Head(Todo(t)).op = op

\* The task goes on with other things before the rest.
Instead(t, ops) == tasks' = [tasks EXCEPT ![t].todo = ops \o Tail(@)]
Done(t) == Instead(t, <<>>)

OpsOf(t, f) == {k \in DOMAIN Todo(t) : "file" \in DOMAIN Todo(t)[k] /\ Todo(t)[k].file = f}
Applying(t, f) == OpsOf(t, f) # {}
OthersApplying(t, f) == \E u \in DOMAIN tasks \ {t} : Applying(u, f)

Underway == {f \in Files : \E t \in DOMAIN tasks : Applying(t, f)}

Calls(m, ids, f) ==
  [k \in DOMAIN ids |-> [op |-> "call", method |-> m, arg |-> ids[k], file |-> f]]

Resumed == <<Do("progress"), Do("maybeAutoLoad")>>
nextInstruction == <<Call("gdb.next", {})>> \o Resumed
continue == <<Call("gdb.continue", {})>> \o Resumed

loadSourceBundle(codes) ==
  <<Call("gdb.loadSourceBundle", codes), [op |-> "reapplyAll", seen |-> {}], EndTry>>

HasSourceLocation(state) == state.current # NoPause /\ state.current.place # NoPlace
callDepth(state) == IF state.current = NoPause THEN 0 ELSE state.current.depth

Tasks == DOMAIN tasks
Throwing(t) ==
  LET todo == Todo(t)
      ends == {k \in DOMAIN todo : todo[k] = EndTry}
      end == CHOOSE k \in ends : \A l \in ends : k <= l
  IN IF ends # {}
     THEN [tasks EXCEPT ![t].todo = SubSeq(todo, end + 1, Len(todo)), ![t].call = NoCall]
     ELSE [tasks EXCEPT ![t] = Idle]
Uncaught(t) == \A k \in DOMAIN Todo(t) : Todo(t)[k] # EndTry

stop ==
  /\ managed' = FALSE
  /\ process' = IF managed THEN "exited" ELSE process

\* An error goes to the nearest catch, or fails the request.  A failed launch
\* stops the server process.
Throw(t) ==
  /\ tasks' = Throwing(t)
  /\ js' = IF Uncaught(t) THEN 0 ELSE t
  /\ IF Uncaught(t) /\ tasks[t].kind = "launch"
     THEN /\ phase' = "failed"
          /\ IF runtime THEN stop ELSE UNCHANGED <<process, managed>>
     ELSE UNCHANGED <<phase, process, managed>>

-----------------------------------------------------------------------------
(* The requests of the editor.                                             *)

Start(t, kind, todo) ==
  /\ js = 0 /\ tasks[t] = Idle
  /\ \A u \in Tasks : u < t => tasks[u] # Idle
  /\ tasks' = [tasks EXCEPT ![t] = [kind |-> kind, todo |-> todo, call |-> NoCall]]
  /\ js' = IF Head(todo) = Await THEN 0 ELSE t
  /\ promised' = {}

\* It waits for the end of the configuration, five seconds at most.  A session
\* on one call makes its first step when it starts.
launchRequest(t) ==
  /\ phase = "new" /\ phase' = "launching"
  /\ Start(t, "launch", <<Await, Do("create"), Do("resolveEndpoint"),
        Call("dbgserver.capabilities", {}), Call("gdb.start", {})>>
      \o (IF launch.call THEN <<Call("gdb.next", {})>> ELSE <<>>)
      \o <<Do("configureAutoMatch"), Do("maybeAutoLoad"), [op |-> "applyPending", seen |-> {}],
           Do("prime"), [op |-> "autoRun", try |-> 1], Do("answer")>>)
  /\ UNCHANGED <<runtime, pending, shown, client, serverVars, budget, disturbed, firstStop>>

\* The plan is built from the text of the file first.
setBreakPointsRequest(t, plan) ==
  /\ shown # "terminated" /\ budget.edits > 0
  /\ budget' = [budget EXCEPT !.edits = @ - 1]
  /\ Start(t, "edit", <<Await, [op |-> "plan", file |-> plan.file, plan |-> plan]>>)
  /\ disturbed' = disturbed \cup
       (IF OthersApplying(t, plan.file) THEN {plan.file} ELSE {})
  /\ UNCHANGED <<runtime, pending, phase, shown, client, serverVars, firstStop>>

stepRequest(t, how) ==
  /\ shown = "stopped" /\ budget.resumes > 0
  /\ budget' = [budget EXCEPT !.resumes = @ - 1]
  /\ shown' = "running"
  /\ Start(t, "resume",
           (IF how = "continue" THEN continue ELSE <<[op |-> "step", how |-> how]>>)
             \o <<Do("answer")>>)
  /\ UNCHANGED <<runtime, pending, phase, client, serverVars, disturbed, firstStop>>

pauseRequest(t) ==
  /\ phase = "launched" /\ shown = "running"
  /\ \A u \in Tasks : tasks[u].kind # "pause"
  /\ Start(t, "pause", <<Call("gdb.pause", {}), Do("answer")>>)
  /\ UNCHANGED <<runtime, pending, phase, shown, client, serverVars, budget, disturbed, firstStop>>

disconnectRequest ==
  /\ js = 0 /\ phase # "new" /\ shown # "terminated"
  /\ shown' = "terminated"
  /\ IF runtime THEN stop ELSE UNCHANGED <<process, managed>>
  /\ UNCHANGED <<tasks, js, runtime, pending, phase, client, sessions, budget, history>>

-----------------------------------------------------------------------------
(* Calls.                                                                  *)

\* The session is the one known when the call is made.
Send(t) ==
  /\ At(t, "call")
  /\ tasks' = [tasks EXCEPT ![t].call = [session |-> client.session]]
  /\ js' = 0
  /\ UNCHANGED <<runtime, pending, phase, shown, client, serverVars, budget, history>>

Waiting(t) == tasks[t].call # NoCall /\ "reply" \notin DOMAIN tasks[t].call
Serving == process = "serving" \/ ~launch.autoStart

\* deleteBreakpoint fails on an unknown breakpoint; a session without an
\* identifier is unknown.
Accepted(method, arg, s) ==
  CASE method \in {"dbgserver.capabilities", "gdb.start", "gdb.nextStepSession"} -> TRUE
    [] method = "gdb.deleteBreakpoint" -> s # 0 /\ arg \in sessions[s].breakpoints
    [] OTHER -> s # 0

Effect(method, arg, session) ==
  CASE method = "gdb.next" -> PausedAt(session, session.position + 1, "step")
    [] method = "gdb.continue" -> Continued(session)
    [] method = "gdb.loadSourceBundle" -> [session EXCEPT !.bundles = @ \cup arg]
    [] method = "gdb.configureAutoMatch" -> [session EXCEPT !.auto = TRUE]
    [] method = "gdb.setBreakpoint" -> [session EXCEPT !.breakpoints = @ \cup {arg}]
    [] method = "gdb.deleteBreakpoint" -> [session EXCEPT !.breakpoints = @ \ {arg}]
    [] OTHER -> session

\* The sessions after a call.  A pause asked for while a continue runs may
\* stop it before its next stop.
Pausing == \E u \in Tasks : Waiting(u) /\ tasks[u].kind = "pause"
After(method, arg, s) ==
  IF method = "gdb.start" \/ (method = "gdb.nextStepSession" /\ Len(sessions) < launch.steps)
  THEN {Append(sessions, NewSession)}
  ELSE IF s = 0 THEN {sessions}
  ELSE IF method = "gdb.continue" /\ Pausing
  THEN {[sessions EXCEPT ![s] = Continued(@)]} \cup
         {[sessions EXCEPT ![s] = PausedAt(@, i, "pause")] :
            i \in {j \in DOMAIN Program : sessions[s].position < j /\ j < NextStop(sessions[s])}}
  ELSE {[sessions EXCEPT ![s] = Effect(method, arg, @)]}

\* pause waits for the continue to end.
Served(t) ==
  /\ js = 0 /\ Waiting(t) /\ Serving
  /\ LET method == Head(Todo(t)).method
         arg == Head(Todo(t)).arg
         s == tasks[t].call.session
     IN /\ Accepted(method, arg, s)
        /\ method = "gdb.pause" =>
             ~\E u \in Tasks : Waiting(u) /\ Head(Todo(u)).method = "gdb.continue"
        /\ \E after \in After(method, arg, s) :
             /\ sessions' = after
             /\ tasks' = [tasks EXCEPT ![t].call =
                  [reply |-> IF method \in {"gdb.start", "gdb.nextStepSession"} THEN Len(after)
                             ELSE IF s = 0 THEN 0 ELSE State(after[s]),
                   ended |-> method = "gdb.nextStepSession" /\ after = sessions]]
  /\ UNCHANGED <<js, runtime, pending, phase, shown, client, process, managed, budget, history>>

\* The server rejects the call, does not answer, or answers too late.
Fails(t) ==
  /\ js = 0 /\ tasks[t].call # NoCall
  /\ LET call == tasks[t].call
         op == Head(Todo(t))
         refused == Waiting(t) /\ (~Serving \/ ~Accepted(op.method, op.arg, call.session))
     IN /\ refused \/ budget.failures > 0
        /\ budget' = [budget EXCEPT !.failures = IF refused THEN @ ELSE @ - 1]
        /\ Throw(t)
        /\ disturbed' = disturbed \cup
             (IF "file" \in DOMAIN op /\ client.session # 0 THEN {op.file} ELSE {})
        /\ promised' = IF "file" \in DOMAIN op THEN {} ELSE promised
  /\ UNCHANGED <<runtime, pending, shown, client, sessions, firstStop>>

\* The answer comes: the task goes on with the state the server sent.
Take(t) ==
  /\ js = 0 /\ tasks[t].call # NoCall /\ ~Waiting(t)
  /\ js' = t
  /\ LET method == Head(Todo(t)).method
         call == tasks[t].call
         moved == method = "gdb.nextStepSession" /\ ~call.ended
     IN /\ tasks' = [tasks EXCEPT ![t].call = NoCall, ![t].todo =
             (IF moved THEN (IF launch.bundle = {} THEN <<>> ELSE loadSourceBundle(launch.bundle))
                            \o <<[op |-> "reapplyAll", seen |-> {}]>>
              ELSE <<>>) \o Tail(@)]
        /\ client' =
             CASE method = "gdb.start" \/ moved ->
                    [client EXCEPT !.session = call.reply, !.autoLoaded = {},
                                   !.last = State(NewSession)]
               [] method = "gdb.nextStepSession" /\ call.ended ->
                    [client EXCEPT !.last = [@ EXCEPT !.done = TRUE, !.current = NoPause]]
               [] method \in {"gdb.next", "gdb.continue", "gdb.pause", "gdb.loadSourceBundle"} ->
                    [client EXCEPT !.last = call.reply]
               [] OTHER -> client
        /\ disturbed' = IF moved THEN disturbed \cup client.known \cup Underway ELSE disturbed
  /\ UNCHANGED <<runtime, pending, phase, shown, serverVars, budget, promised, firstStop>>

-----------------------------------------------------------------------------
(* What a task does between its calls.                                     *)

\* A file is read, or the configuration is done, or the time is up.
Awaited(t) ==
  /\ js = 0 /\ Todo(t) # <<>> /\ Head(Todo(t)) = Await
  /\ js' = t
  /\ Done(t)
  /\ UNCHANGED <<runtime, pending, phase, shown, client, serverVars, budget, history>>

Ends(t) ==
  /\ js = t /\ Todo(t) = <<>>
  /\ js' = 0
  /\ tasks' = [tasks EXCEPT ![t] = Idle]
  /\ UNCHANGED <<runtime, pending, phase, shown, client, serverVars, budget, history>>

create(t) ==
  /\ At(t, "create")
  /\ runtime' = TRUE
  /\ Done(t)
  /\ UNCHANGED <<js, pending, phase, shown, client, serverVars, budget, history>>

\* The process manager spawns the server; there is one launch for each key.
resolveEndpoint(t) ==
  /\ At(t, "resolveEndpoint")
  /\ IF launch.autoStart
     THEN /\ process' = "starting" /\ managed' = TRUE
          /\ Instead(t, <<[op |-> "probe", left |-> MaxProbes], Do("connect")>>)
     ELSE Instead(t, <<Do("connect")>>) /\ UNCHANGED <<process, managed>>
  /\ UNCHANGED <<js, runtime, pending, phase, shown, client, sessions, budget, history>>

\* waitUntilReady: is the process still there?  Then ask it.
probe(t) ==
  /\ At(t, "probe")
  /\ LET left == Head(Todo(t)).left
     IN IF ~managed \/ process = "exited" \/ left = 0 THEN Throw(t)
        ELSE /\ Instead(t, <<[op |-> "probing", left |-> left]>>)
             /\ js' = 0
             /\ UNCHANGED <<phase, process, managed>>
  /\ UNCHANGED <<runtime, pending, shown, client, sessions, budget, history>>

probed(t) ==
  /\ js = 0 /\ Todo(t) # <<>> /\ Head(Todo(t)).op = "probing"
  /\ js' = t
  /\ IF process = "serving" THEN Done(t)
     ELSE Instead(t, <<[op |-> "probe", left |-> Head(Todo(t)).left - 1]>>)
  /\ UNCHANGED <<runtime, pending, phase, shown, client, serverVars, budget, history>>

connect(t) ==
  /\ At(t, "connect")
  /\ client' = [client EXCEPT !.rpc = TRUE]
  /\ Done(t)
  /\ UNCHANGED <<js, runtime, pending, phase, shown, serverVars, budget, history>>

\* The session has started; neither failing stops the launch.
configureAutoMatch(t) ==
  /\ At(t, "configureAutoMatch")
  /\ Instead(t, <<Call("gdb.configureAutoMatch", {}), EndTry>>
                \o IF launch.bundle = {} THEN <<>> ELSE loadSourceBundle(launch.bundle))
  /\ UNCHANGED <<js, runtime, pending, phase, shown, client, serverVars, budget, history>>

setFileBreakpoints(f, asked) ==
  [k \in 1..2 |-> LET kind == <<"source", "function">>[k]
                  IN [op |-> "set", file |-> f, kind |-> kind, asked |-> asked[kind]]]

AskedBy(plan) == [source |-> plan.lines, function |-> plan.functions]

plan(t) ==
  /\ At(t, "plan")
  /\ LET new == Head(Todo(t)).plan
     IN /\ pending' = [f \in DOMAIN pending \cup {new.file} |->
                         IF f = new.file THEN new ELSE pending[f]]
        /\ Instead(t, IF runtime THEN setFileBreakpoints(new.file, AskedBy(new)) ELSE <<>>)
  /\ UNCHANGED <<js, runtime, phase, shown, client, serverVars, budget, history>>

\* As a bug would have it: the new ones first.
DeletesLast(f, old, new) ==
  Calls("gdb.setBreakpoint", new, f) \o Calls("gdb.deleteBreakpoint", old, f)

\* What was set before is deleted, then the new ones are set.
Exchange(f, old, new) ==
  Calls("gdb.deleteBreakpoint", old, f) \o Calls("gdb.setBreakpoint", new, f)

\* setSourceBreakpoints and setFunctionBreakpoints: the identifiers are kept
\* when all is done.
setBreakpoints(t) ==
  /\ At(t, "set")
  /\ LET op == Head(Todo(t))
         new == [k \in DOMAIN op.asked |-> Id(op.kind, op.file, op.asked[k])]
     IN IF client.rpc
        THEN /\ client' = [client EXCEPT !.asked[op.file][op.kind] = op.asked]
             /\ Instead(t, Exchange(op.file, client.ids[op.file][op.kind], new)
                  \o <<[op |-> "keep", file |-> op.file, kind |-> op.kind, ids |-> new]>>)
             /\ disturbed' = disturbed \cup
                  (IF OthersApplying(t, op.file) THEN {op.file} ELSE {})
             /\ UNCHANGED <<js, phase, process, managed>>
        ELSE Throw(t) /\ UNCHANGED <<client, disturbed>>
  /\ UNCHANGED <<runtime, pending, shown, sessions, budget, promised, firstStop>>

keepIds(t) ==
  /\ At(t, "keep")
  /\ LET op == Head(Todo(t))
     IN client' = [client EXCEPT !.ids[op.file][op.kind] = op.ids,
                     !.known = IF op.kind = "source" THEN @ \cup {op.file} ELSE @]
  /\ Done(t)
  /\ UNCHANGED <<js, runtime, pending, phase, shown, serverVars, budget, history>>

\* The files whose breakpoints were set, as they are found when their turn
\* comes; a file without any is left alone.
reapplyBreakpoints(t) ==
  /\ At(t, "reapplyAll")
  /\ LET seen == Head(Todo(t)).seen
     IN IF client.known \subseteq seen THEN Done(t)
        ELSE \E f \in client.known \ seen :
               LET asked == client.asked[f]
               IN Instead(t, (IF asked.source = <<>> /\ asked.function = <<>> THEN <<>>
                              ELSE setFileBreakpoints(f, asked))
                             \o <<[op |-> "reapplyAll", seen |-> seen \cup {f}]>>)
  /\ UNCHANGED <<js, runtime, pending, phase, shown, client, serverVars, budget, history>>

applyPending(t) ==
  /\ At(t, "applyPending")
  /\ LET seen == Head(Todo(t)).seen
     IN IF DOMAIN pending \subseteq seen THEN Done(t)
        ELSE \E f \in DOMAIN pending \ seen :
               Instead(t, setFileBreakpoints(f, AskedBy(pending[f]))
                          \o <<[op |-> "applyPending", seen |-> seen \cup {f}]>>)
  /\ UNCHANGED <<js, runtime, pending, phase, shown, client, serverVars, budget, history>>

\* The source of the code the session stands in is looked for once.
maybeAutoLoadForCurrent(t) ==
  /\ At(t, "maybeAutoLoad")
  /\ LET code == client.last.current.code
     IN IF ~launch.autoLoad \/ client.last.current = NoPause \/ code \in client.autoLoaded
        THEN Done(t) /\ UNCHANGED client
        ELSE /\ client' = [client EXCEPT !.autoLoaded = @ \cup {code}]
             /\ Instead(t, IF code \in client.last.bundles THEN <<>> ELSE loadSourceBundle({code}))
  /\ UNCHANGED <<js, runtime, pending, phase, shown, serverVars, budget, history>>

\* A step of a sequence is over: the next has a session of its own.
handleSequenceProgress(t) ==
  /\ At(t, "progress")
  /\ Instead(t, IF launch.steps > 0 /\ client.last.done
                THEN <<Call("gdb.nextStepSession", {})>> ELSE <<>>)
  /\ UNCHANGED <<js, runtime, pending, phase, shown, client, serverVars, budget, history>>

\* next, stepIn, stepOut: from a line of source, instructions until another.
step(t) ==
  /\ At(t, "step")
  /\ Instead(t, nextInstruction \o
       (IF ~HasSourceLocation(client.last) THEN <<>>
        ELSE <<[op |-> "stepOn", how |-> Head(Todo(t)).how, left |-> MaxInstructions,
                start |-> client.last.current.place, depth |-> callDepth(client.last)]>>))
  /\ UNCHANGED <<js, runtime, pending, phase, shown, client, serverVars, budget, history>>

Arrived(op) ==
  LET moved == HasSourceLocation(client.last) /\ client.last.current.place # op.start
      depth == callDepth(client.last)
  IN \/ client.last.done \/ client.last.current = NoPause
     \/ client.last.current.reason # "step"
     \/ op.how = "next" /\ (moved \/ ~HasSourceLocation(client.last))
     \/ op.how = "stepIn" /\ (moved \/ (depth > op.depth /\ HasSourceLocation(client.last)))
     \/ op.how = "stepOut" /\ (depth < op.depth \/ (op.depth = 0 /\ moved))

stepOn(t) ==
  /\ At(t, "stepOn")
  /\ LET op == Head(Todo(t))
     IN IF op.left = 1 \/ Arrived(op) THEN Done(t)
        ELSE Instead(t, nextInstruction \o <<[op EXCEPT !.left = @ - 1]>>)
  /\ UNCHANGED <<js, runtime, pending, phase, shown, client, serverVars, budget, history>>

-----------------------------------------------------------------------------
(* The launch runs to the first breakpoint.                                *)

\* An initial state without a pause is primed by a step.
prime(t) ==
  /\ At(t, "prime")
  /\ Instead(t, IF client.last.current = NoPause /\ ~client.last.done
                THEN <<[op |-> "step", how |-> "next"]>> ELSE <<>>)
  /\ UNCHANGED <<js, runtime, pending, phase, shown, client, serverVars, budget, history>>

hasConfiguredFunctionBreakpoints == \E f \in DOMAIN pending : pending[f].functions # <<>>

\* As a bug would have it: at any pc.
SkipsAnySource(reason, pc) ==
  hasConfiguredFunctionBreakpoints /\ reason \in {"source_breakpoint", "call_breakpoint"}

\* Stops passed over when there are function breakpoints to come.
shouldSkipInitialBreakpoint(reason, pc) ==
  /\ hasConfiguredFunctionBreakpoints
  /\ \/ reason = "source_breakpoint" /\ pc = 0
     \/ reason = "call_breakpoint"

samePausePoint(a, b) ==
  /\ ~a.done /\ ~b.done
  /\ a.current.reason = b.current.reason
  /\ a.current # NoPause => a.current.pc = b.current.pc

\* What is ahead when the run begins, unless another request is in flight.
StopsAhead ==
  LET s == sessions[client.session]
  IN IF \E u, v \in Tasks : u # v /\ tasks[u] # Idle /\ tasks[v] # Idle THEN {}
     ELSE {i \in s.position + 1 .. Len(Program) :
             LET reason == StopAt(s, i)
             IN reason # "none" /\ ~(/\ hasConfiguredFunctionBreakpoints
                                     /\ \/ reason = "source_breakpoint" /\ Program[i].pc = 0
                                        \/ reason = "call_breakpoint")}

autoRunToBreakpoint(t) ==
  /\ At(t, "autoRun")
  /\ LET last == client.last
         try == Head(Todo(t)).try
         again == [op |-> "autoRun", try |-> try + 1]
     IN /\ promised' = IF try = 1 /\ ~launch.stopOnEntry /\ ~last.done THEN StopsAhead ELSE promised
        /\ Instead(t,
             IF launch.stopOnEntry \/ last.done \/ try > MaxTries THEN <<>>
             ELSE IF last.current # NoPause
                     /\ shouldSkipInitialBreakpoint(last.current.reason, last.current.pc)
               THEN continue \o <<again>>
             ELSE IF last.current # NoPause /\ last.current.reason # "step" THEN <<>>
             ELSE continue \o <<[op |-> "compare", before |-> last], again>>)
  /\ UNCHANGED <<js, runtime, pending, phase, shown, client, serverVars, budget,
                 disturbed, firstStop>>

compare(t) ==
  /\ At(t, "compare")
  /\ Instead(t, IF samePausePoint(Head(Todo(t)).before, client.last)
                THEN <<[op |-> "step", how |-> "next"]>> ELSE <<>>)
  /\ UNCHANGED <<js, runtime, pending, phase, shown, client, serverVars, budget, history>>

\* The response, and the event that the program stopped or ended.
answer(t) ==
  /\ At(t, "answer")
  /\ LET over == client.last.done /\ client.last.current = NoPause
     IN /\ shown' = IF over \/ shown = "terminated" THEN "terminated" ELSE "stopped"
        /\ IF tasks[t].kind = "launch"
           THEN /\ phase' = "launched"
                /\ firstStop' = IF over \/ client.session > 1 THEN Len(Program) + 1
                                ELSE client.last.current.at
           ELSE UNCHANGED <<phase, firstStop>>
  /\ Done(t)
  /\ UNCHANGED <<js, runtime, pending, client, serverVars, budget, disturbed, promised>>

-----------------------------------------------------------------------------
\* The process comes up, or ends: the port is taken, the upstream refused.
ServerComesUp ==
  /\ js = 0 /\ process = "starting" /\ process' = "serving"
  /\ UNCHANGED <<tasks, js, runtime, pending, phase, shown, client, managed, sessions,
                 budget, history>>

ServerExits ==
  /\ js = 0 /\ process \in {"starting", "serving"} /\ process' = "exited"
  /\ budget.failures > 0 /\ budget' = [budget EXCEPT !.failures = @ - 1]
  /\ UNCHANGED <<tasks, js, runtime, pending, phase, shown, client, managed, sessions, history>>

Init ==
  /\ launch \in Launches
  /\ tasks = [t \in 1..MaxTasks |-> Idle]
  /\ js = 0
  /\ runtime = FALSE
  /\ pending = <<>>
  /\ phase = "new" /\ shown = "running"
  /\ client = [rpc |-> FALSE, session |-> 0, last |-> State(NewSession), autoLoaded |-> {},
               known |-> {}, asked |-> [f \in Files |-> [source |-> <<>>, function |-> <<>>]],
               ids |-> [f \in Files |-> [source |-> <<>>, function |-> <<>>]]]
  /\ process = "none" /\ managed = FALSE
  /\ sessions = <<>>
  /\ budget = [edits |-> MaxEdits, resumes |-> MaxResumes, failures |-> MaxFailures]
  /\ disturbed = {} /\ promised = {} /\ firstStop = 0

Requests(t) ==
  \/ launchRequest(t) \/ pauseRequest(t)
  \/ \E p \in Plans : setBreakPointsRequest(t, p)
  \/ \E how \in {"next", "stepIn", "stepOut", "continue"} : stepRequest(t, how)

Network(t) == Send(t) \/ Served(t) \/ Fails(t) \/ Take(t)

Code(t) ==
  \/ Awaited(t) \/ Ends(t) \/ create(t) \/ resolveEndpoint(t) \/ probe(t) \/ probed(t)
  \/ connect(t) \/ configureAutoMatch(t) \/ plan(t) \/ setBreakpoints(t) \/ keepIds(t)
  \/ reapplyBreakpoints(t) \/ applyPending(t) \/ maybeAutoLoadForCurrent(t)
  \/ handleSequenceProgress(t) \/ step(t) \/ stepOn(t) \/ prime(t)
  \/ autoRunToBreakpoint(t) \/ compare(t) \/ answer(t)

Next ==
  /\ \/ \E t \in Tasks : Requests(t) \/ Network(t) \/ Code(t)
     \/ disconnectRequest \/ ServerComesUp \/ ServerExits
  /\ UNCHANGED launch

Spec == Init /\ [][Next]_vars

-----------------------------------------------------------------------------
\* README.md: "Source breakpoints synced from VS Code editor".  When nothing
\* is in flight the server has the breakpoints of the last plan of each file,
\* no more and no less, however edits, the launch, loaded bundles and failed
\* requests followed one another; a file is excepted whose breakpoints were
\* applied by two requests at once, in part, or before a sequence moved on.
BreakpointsAreThePlans ==
  phase = "launched" /\ (\A t \in Tasks : tasks[t] = Idle) =>
    \A f \in DOMAIN pending \ disturbed :
      LET Ids(kind, asked) == {Id(kind, f, asked[k]) : k \in DOMAIN asked}
      IN {b \in sessions[client.session].breakpoints : b[2] = f}
           = Ids("source", pending[f].lines) \cup Ids("function", pending[f].functions)

\* A launch that does not stop on entry shows the first stop after the step
\* it primes the session with: none is lost to skipped stops, to sources
\* loaded on the way, to breakpoints set again meanwhile, to retries.
LaunchFindsTheFirstStop ==
  firstStop # 0 => \A i \in promised : firstStop <= i
=============================================================================
