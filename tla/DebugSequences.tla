--------------------------- MODULE DebugSequences ---------------------------
(***************************************************************************)
(* The debug server with several clients: sequences of sessions            *)
(* (gdb.startSequenceSession, gdb.nextStepSession), the state patches that *)
(* carry writes from one session to the next, and the commands that        *)
(* advance a session.  Server.mu only guards the three maps: a handler     *)
(* reads and writes a session or the sequence without it, and the handlers *)
(* of two clients interleave wherever one of them runs a program or looks  *)
(* at a record the other writes.                                           *)
(*                                                                         *)
(* ReplayDebugger says how one command finds its pause.  Here a run is one *)
(* step: it stops somewhere after the position, ends, or fails.            *)
(***************************************************************************)
EXTENDS Integers, Sequences, FiniteSets, SequencesExt, Functions

CONSTANTS
  Clients,
  Steps,         \* the steps of the sequence: <<[kind, base], ...>>
  CarryModes,    \* the values of stateCarry a client may ask for
  Writes,        \* the writes a client may make: [kind, at, data]
  Imports,       \* the merge modes of gdb.importStatePatch a client uses
  MaxLength,     \* bound: the steps of one program
  MaxWrites,     \* bound: the mutations of one session
  MaxSessions,   \* bound: sessions
  Recent,        \* bound: clients address the active or one of the last sessions
  MaxPatches,    \* bound: patches
  MaxFailures    \* bound: requests that fail for want of the upstream node

StepSpec == [kind : {"call", "replay"}, base : STRING]
Mutable == [kind : {"persistent", "transient", "memory"}, at : Nat, data : Seq(Nat)]

ASSUME SequenceAssumption ==
  /\ Steps \in Seq(StepSpec) /\ Len(Steps) > 0
  /\ CarryModes \subseteq {"mutation-only", "full", "none"}
  /\ Writes \subseteq Mutable
  /\ \A w \in Writes : w.data # <<>> /\ (w.kind # "memory" => Len(w.data) = 1)
  /\ Imports \subseteq {"append", "replace"}
  /\ {MaxLength, MaxWrites, MaxSessions, Recent, MaxPatches, MaxFailures} \subseteq Nat

VARIABLES
  sessions,    \* Server.sessions, by number
  patches,     \* Server.patches, by number
  sequence,    \* the sequence, NoSequence before it is published
  client,      \* the request each client waits for
  failures,    \* requests that failed so far
  overlapped   \* history: two handlers worked on one session or the sequence

vars == <<sessions, patches, sequence, client, failures, overlapped>>

NoPause == [step |-> -1, reason |-> "none"]
NoSequence == [index |-> -1, active |-> 0, done |-> FALSE, lastCompleted |-> 0,
               exported |-> <<>>, carry |-> "none"]
\* No request is under way.
Idle == [at |-> "idle", session |-> 0, all |-> FALSE, last |-> -1, then |-> "reply",
         outcome |-> "ended", index |-> 0, patch |-> 0, carry |-> "none"]

Update(c, record) == client' = [client EXCEPT ![c] = record]

-----------------------------------------------------------------------------
(* State patches.                                                          *)

\* sessionBaseBlock: CacheKey names a tag "tag:latest", so only replays have
\* the base "latest" that importStatePatch lets pass.
sessionBaseBlock(s) == IF s.kind = "call" THEN s.base ELSE "latest"

LastAt(writes, at) ==
  writes[CHOOSE i \in DOMAIN writes :
           writes[i].at = at /\ \A j \in DOMAIN writes : writes[j].at = at => j <= i]

\* Variant with a bug: the first write of a slot stays.
CompactFirst(writes) ==
  LET places == SetToSortSeq({writes[i].at : i \in DOMAIN writes}, <)
  IN [i \in DOMAIN places |->
        writes[CHOOSE j \in DOMAIN writes :
                 writes[j].at = places[i] /\ \A k \in 1 .. j - 1 : writes[k].at # places[i]]]

\* compactStorageWrites, compactMemoryWrites: the last write of each slot or
\* offset, in the order of the slots or offsets.
Compact(writes) ==
  LET places == SetToSortSeq({writes[i].at : i \in DOMAIN writes}, <)
  IN [i \in DOMAIN places |-> LastAt(writes, places[i])]

OfKind(mutations, kind) == SelectSeq(mutations, LAMBDA m : m.kind = kind)

PatchScope(scope) ==
  CASE scope = "all" -> {"persistent", "transient", "memory"}
    [] scope = "storage" -> {"persistent"}
    [] scope = "accesses" -> {}
    [] OTHER -> {scope}

\* exportStatePatch: what patchMutations will make of it is kept here, the
\* writes without the step they were made at.
Export(s, scope) ==
  LET part(kind) == IF kind \in PatchScope(scope)
                    THEN Compact(OfKind(s.mutations, kind)) ELSE <<>>
      writes == part("persistent") \o part("transient") \o part("memory")
  IN [base |-> sessionBaseBlock(s),
      writes |-> [i \in DOMAIN writes |-> [writes[i] EXCEPT !.step = 0]]]

BaseMismatch(s, patch) ==
  /\ patch.base # "latest"
  /\ patch.base # sessionBaseBlock(s)

\* importStatePatch refuses these.
Refused(s, ids) ==
  \/ s.position >= 0
  \/ \E i \in DOMAIN ids : ids[i] \notin DOMAIN patches \/ BaseMismatch(s, patches[ids[i]])

Merged(s, ids, merge) ==
  (IF merge = "replace" THEN <<>> ELSE s.mutations)
    \o FlattenSeq([i \in DOMAIN ids |-> patches[ids[i]].writes])

-----------------------------------------------------------------------------
(* Sessions.                                                               *)

\* How the run of a program ends is found out by running it, and is open
\* again after a write.
Open == [last |-> -2, reverts |-> FALSE]

EndsAfter(step) == [last : step .. MaxLength - 1, reverts : BOOLEAN]

\* startCallSession, startReplaySession; a replay knows its trace already.
NewSession(spec, traced) ==
  [kind |-> spec.kind, base |-> spec.base, position |-> -1, done |-> ~traced,
   traced |-> traced, current |-> NoPause, pending |-> NoPause, lastStep |-> -1,
   mutations |-> <<>>,
   end |-> IF traced THEN Open ELSE [last |-> -1, reverts |-> FALSE]]

\* A program without steps never gets to the writes.
Rewritten(s, mutations) ==
  [s EXCEPT !.mutations = mutations, !.end = IF @.last = -1 /\ ~@.reverts THEN @ ELSE Open]

Finished(s) == s.end # Open /\ ~s.end.reverts

Addressed ==
  {s \in DOMAIN sessions : s > Len(sessions) - Recent \/ s = sequence.active}

Busy(s) == \E c \in Clients : client[c].at \in {"run", "settle"} /\ client[c].session = s

\* advanceSession: the request, up to the first run.
Advance(c, s, all) ==
  /\ client[c] = Idle
  /\ \/ /\ ~sessions[s].traced
        /\ sessions' = [sessions EXCEPT ![s].done = TRUE]
        /\ UNCHANGED client
     \/ /\ sessions[s].traced
        /\ Update(c, [Idle EXCEPT !.at = "begin", !.session = s, !.all = all])
        /\ UNCHANGED sessions
  /\ UNCHANGED <<patches, sequence, failures, overlapped>>

\* replaySession up to the execution.
Begin(c) ==
  /\ client[c].at = "begin"
  /\ LET s == client[c].session
     IN /\ sessions' = [sessions EXCEPT ![s].pending = NoPause, ![s].current = NoPause,
                                        ![s].lastStep = -1]
        /\ overlapped' = (overlapped \/ Busy(s))
  /\ Update(c, [client[c] EXCEPT !.at = "run"])
  /\ UNCHANGED <<patches, sequence, failures>>

\* prepareSession needs the upstream node; the handler replies with an error.
Unavailable(c) ==
  /\ client[c].at \in {"begin", "start"}
  /\ failures < MaxFailures
  /\ failures' = failures + 1
  /\ Update(c, Idle)
  /\ UNCHANGED <<sessions, patches, sequence, overlapped>>

\* Variant with a bug: the last stop is shown again.
StopsAgain(s, all) ==
  {[step |-> q, reason |-> "breakpoint"] :
     q \in {p \in 0 .. MaxLength - 1 : p >= s.position /\ (s.end = Open \/ p <= s.end.last)}}

\* Where a run may stop: next at the next step at the latest, continue
\* perhaps nowhere.
StopsOf(s, all) ==
  {[step |-> q, reason |-> IF ~all /\ q = s.position + 1 THEN "step" ELSE "breakpoint"] :
     q \in s.position + 1 .. (IF s.end = Open THEN MaxLength - 1 ELSE s.end.last)}

\* A hook halts the run.  Its error is errReplayPause, or, when the callers
\* of the halted frame went on, whatever the outermost frame ended with.
RunStops(c) ==
  /\ client[c].at = "run"
  /\ LET s == sessions[client[c].session]
     IN \E stop \in StopsOf(s, client[c].all), outcome \in {"halted", "failed"} :
          /\ sessions' = [sessions EXCEPT ![client[c].session] =
                            [s EXCEPT !.pending = stop, !.lastStep = stop.step]]
          /\ Update(c, [client[c] EXCEPT !.at = "settle", !.outcome = outcome])
  /\ UNCHANGED <<patches, sequence, failures, overlapped>>

Ends(s) ==
  IF s.end # Open THEN {s.end}
  ELSE EndsAfter(IF s.kind = "replay" /\ s.position < 0 THEN 0 ELSE s.position)

RunEnds(c) ==
  /\ client[c].at = "run"
  /\ LET s == sessions[client[c].session]
     IN \E end \in Ends(s) :
          /\ client[c].all \/ end.last <= s.position
          /\ sessions' = [sessions EXCEPT ![client[c].session] =
                            [s EXCEPT !.lastStep = end.last, !.end = end]]
          /\ Update(c, [client[c] EXCEPT !.at = "settle",
                                         !.outcome = IF end.reverts THEN "failed"
                                                     ELSE "ended"])
  /\ UNCHANGED <<patches, sequence, failures, overlapped>>

\* What replaySession publishes.  Variant with a bug: a failed run counts as
\* completed.
SettledAnyway(s, outcome) ==
  IF s.pending # NoPause
  THEN [s EXCEPT !.current = s.pending, !.position = s.pending.step, !.done = FALSE]
  ELSE [s EXCEPT !.current = NoPause, !.position = s.lastStep, !.done = TRUE]

Settled(s, outcome) ==
  IF s.pending # NoPause
  THEN [s EXCEPT !.current = s.pending, !.position = s.pending.step, !.done = FALSE]
  ELSE IF outcome = "failed" THEN s
  ELSE [s EXCEPT !.current = NoPause, !.position = s.lastStep, !.done = TRUE]

\* What the handler does after replaySession: reply, go on with a continue
\* that was stopped by a plain step, or go on with the sequence.
AfterRun(request, s, failed) ==
  LET stepped == request.all /\ ~s.done /\ s.current.reason = "step"
  IN IF failed THEN Idle
     ELSE IF request.then = "carry" THEN [request EXCEPT !.at = "carry"]
     ELSE IF stepped /\ s.current.step > request.last
     THEN [request EXCEPT !.at = "begin", !.last = s.current.step]
     ELSE Idle

Settle(c) ==
  /\ client[c].at = "settle"
  /\ LET s == sessions[client[c].session]
         settled == Settled(s, client[c].outcome)
         failed == client[c].outcome = "failed" /\ s.pending = NoPause
     IN /\ sessions' = [sessions EXCEPT ![client[c].session] = settled]
        /\ Update(c, AfterRun(client[c], settled, failed))
  /\ UNCHANGED <<patches, sequence, failures, overlapped>>

\* writeStorage, writeMemory.
Write(c, s, w) ==
  /\ client[c] = Idle
  /\ sessions[s].current # NoPause
  /\ Len(sessions[s].mutations) < MaxWrites
  /\ LET mutation == [step |-> sessions[s].position, kind |-> w.kind, at |-> w.at,
                      data |-> w.data]
     IN sessions' = [sessions EXCEPT ![s] = Rewritten(@, Append(@.mutations, mutation))]
  /\ UNCHANGED <<patches, sequence, client, failures, overlapped>>

\* gdb.exportStatePatch and gdb.importStatePatch from a client.
ExportPatch(c, s, scope) ==
  /\ client[c] = Idle
  /\ Imports # {} /\ Len(patches) < MaxPatches
  /\ patches' = Append(patches, Export(sessions[s], scope))
  /\ UNCHANGED <<sessions, sequence, client, failures, overlapped>>

ImportPatch(c, s, ids, merge) ==
  /\ client[c] = Idle
  /\ ids # <<>> /\ ~Refused(sessions[s], ids)
  /\ LET mutations == Merged(sessions[s], ids, merge)
     IN /\ Len(mutations) <= MaxWrites
        /\ sessions' = [sessions EXCEPT ![s] = Rewritten(@, mutations)]
  /\ overlapped' = (overlapped \/ Busy(s))
  /\ UNCHANGED <<patches, sequence, client, failures>>

-----------------------------------------------------------------------------
(* Sequences.                                                              *)

\* The clients whose request works on the sequence.
Stepping == {c \in Clients : /\ client[c] # Idle
                             /\ \/ client[c].at \in {"start", "carry", "publish"}
                                \/ client[c].then = "carry"}

\* startSequenceStep: a call waits before its first step; a replay that has
\* steps is stepped once, and is past the point where writes can be imported.
StartStep(c, index, request) ==
  LET spec == Steps[index + 1]
      s == Len(sessions) + 1
  IN /\ Len(sessions) < MaxSessions
     /\ \E traced \in IF spec.kind = "call" THEN {TRUE} ELSE BOOLEAN :
          /\ sessions' = Append(sessions, NewSession(spec, traced))
          /\ Update(c, [request EXCEPT
                           !.at = IF spec.kind = "replay" /\ traced THEN "begin" ELSE "carry",
                           !.session = s, !.then = "carry", !.index = index])

\* gdb.startSequenceSession.
StartSequence(c, requested) ==
  /\ client[c] = Idle
  /\ sequence = NoSequence /\ Stepping = {}
  /\ StartStep(c, 0, [Idle EXCEPT !.carry = IF requested = "full" THEN "mutation-only"
                                            ELSE requested])
  /\ UNCHANGED <<patches, sequence, failures, overlapped>>

\* Variant with a bug: a step that is paused is left as well.
CompletedOrPaused(id) == sessions[id].done \/ sessions[id].current # NoPause

Completed(id) == sessions[id].done

\* nextStepSession up to the export: the active session must be done, and
\* its writes become a patch.
NextStep(c) ==
  /\ client[c] = Idle
  /\ sequence # NoSequence /\ ~sequence.done
  /\ Completed(sequence.active)
  /\ Len(sessions) < MaxSessions \/ sequence.index + 1 = Len(Steps)
  /\ IF sequence.carry = "none"
     THEN /\ Update(c, [Idle EXCEPT !.at = "start"])
          /\ sequence' = [sequence EXCEPT !.lastCompleted = sequence.active]
          /\ UNCHANGED patches
     ELSE /\ Len(patches) < MaxPatches
          /\ patches' = Append(patches, Export(sessions[sequence.active], "all"))
          /\ Update(c, [Idle EXCEPT !.at = "start", !.patch = Len(patches')])
          /\ sequence' = [sequence EXCEPT !.lastCompleted = sequence.active,
                                          !.exported = Append(@, Len(patches'))]
  /\ overlapped' = (overlapped \/ Stepping # {})
  /\ UNCHANGED <<sessions, failures>>

\* The index is read now, after the export.
StartNext(c) ==
  /\ client[c].at = "start"
  /\ sequence.index + 1 < Len(Steps)
  /\ StartStep(c, sequence.index + 1, client[c])
  /\ UNCHANGED <<patches, sequence, failures, overlapped>>

EndSequence(c) ==
  /\ client[c].at = "start"
  /\ sequence.index + 1 >= Len(Steps)
  /\ sequence' = [sequence EXCEPT !.done = TRUE, !.active = 0]
  /\ Update(c, Idle)
  /\ UNCHANGED <<sessions, patches, failures, overlapped>>

\* importPatchesIntoSession with merge "append".
CarryOver(c) ==
  /\ client[c].at = "carry"
  /\ LET s == client[c].session
         ids == <<client[c].patch>>
     IN /\ \/ /\ client[c].patch = 0
              /\ Update(c, [client[c] EXCEPT !.at = "publish"])
              /\ UNCHANGED sessions
           \/ /\ client[c].patch # 0 /\ Refused(sessions[s], ids)
              /\ Update(c, Idle)
              /\ UNCHANGED sessions
           \/ /\ client[c].patch # 0 /\ ~Refused(sessions[s], ids)
              /\ Update(c, [client[c] EXCEPT !.at = "publish"])
              /\ sessions' = [sessions EXCEPT ![s] =
                                Rewritten(@, Merged(@, ids, "append"))]
        /\ overlapped' = (overlapped \/ Busy(s))
  /\ UNCHANGED <<patches, sequence, failures>>

\* The sequence is stored; only then can it be asked for.
Publish(c) ==
  /\ client[c].at = "publish"
  /\ sequence' =
       IF sequence = NoSequence
       THEN [NoSequence EXCEPT !.index = 0, !.active = client[c].session,
                               !.carry = client[c].carry]
       ELSE [sequence EXCEPT !.index = client[c].index, !.active = client[c].session]
  /\ Update(c, Idle)
  /\ UNCHANGED <<sessions, patches, failures, overlapped>>

-----------------------------------------------------------------------------

Init ==
  /\ sessions = <<>> /\ patches = <<>> /\ sequence = NoSequence
  /\ client = [c \in Clients |-> Idle]
  /\ failures = 0 /\ overlapped = FALSE

Requests(c) ==
  \/ \E carry \in CarryModes : StartSequence(c, carry)
  \/ NextStep(c)
  \/ \E s \in Addressed :
       \/ \E all \in BOOLEAN : Advance(c, s, all)
       \/ \E w \in Writes : Write(c, s, w)
       \/ \E scope \in {"all", "storage", "memory"} : ExportPatch(c, s, scope)
       \/ \E merge \in Imports, p \in DOMAIN patches : ImportPatch(c, s, <<p>>, merge)

Handlers(c) ==
  \/ Begin(c) \/ RunStops(c) \/ RunEnds(c) \/ Settle(c)
  \/ StartNext(c) \/ EndSequence(c) \/ CarryOver(c) \/ Publish(c)

Next == \E c \in Clients : Requests(c) \/ Handlers(c) \/ Unavailable(c)

Spec == Init /\ [][Next]_vars

\* The handlers are goroutines, and a client keeps asking: it starts the
\* sequence, continues the active session, and asks for the next step.
Drive(c) ==
  sequence # NoSequence /\ ~sequence.done /\ ~Completed(sequence.active)
    /\ Advance(c, sequence.active, TRUE)

FairSpec ==
  /\ Spec
  /\ \A c \in Clients : /\ WF_vars(Handlers(c)) /\ SF_vars(Drive(c)) /\ SF_vars(NextStep(c))

-----------------------------------------------------------------------------
(* What is in force: the mutations of a session, as they are redone.       *)

Covered(m) == {<<m.kind, m.at + i - 1>> : i \in DOMAIN m.data}

AsFunction(m) == [c \in Covered(m) |-> m.data[c[2] - m.at + 1]]

InForce(mutations) ==
  FoldLeft(LAMBDA overlay, m : AsFunction(m) @@ overlay, [c \in {} |-> 0], mutations)

\* Cells of writes that overlap but do not cover the same cells.
Contested(mutations) ==
  LET covers == {Covered(mutations[i]) : i \in DOMAIN mutations}
  IN UNION {a \in covers : \E b \in covers : a \cap b # {} /\ a # b}

Begun == sequence # NoSequence

\* The session that stands for the step being debugged.
Active == sessions[IF sequence.done THEN sequence.lastCompleted ELSE sequence.active]

Run == INSTANCE SequenceRun WITH
  Length <- Len(Steps), NotBegun <- -1, Written <- {AsFunction(w) : w \in Writes},
  index <- sequence.index,
  fresh <- IF Begun THEN Active.position < 0 ELSE TRUE,
  finished <- IF Begun THEN Active.done ELSE FALSE,
  over <- sequence.done, carries <- sequence.carry # "none",
  overlay <- IF Begun THEN InForce(Active.mutations) ELSE [c \in {} |-> 0],
  contested <- IF Begun THEN Contested(Active.mutations) ELSE {}

-----------------------------------------------------------------------------
(* Properties.                                                             *)

\* As long as no two handlers worked on one session or on the sequence, the
\* sequence goes from step to step without leaving one out, and neither
\* leaves a step nor ends before the program of the step was run to its end:
\* whatever other clients write, export, import and advance meanwhile.
StepsInOrder ==
  [][~overlapped' /\ Begun /\ sequence' # sequence
       => /\ sequence'.index # sequence.index =>
               /\ sequence'.index = sequence.index + 1
               /\ Finished(sessions[sequence.active])
          /\ sequence'.done =>
               /\ sequence'.index = Len(Steps) - 1
               /\ Finished(sessions[sequence.active])]_vars

\* Sessions that no one advances twice at once are done only when their
\* program really ended.
DoneIsHonest ==
  ~overlapped => \A s \in DOMAIN sessions : sessions[s].done => Finished(sessions[s])

\* A sequence of one client is the sequence of SequenceRun: patches carry
\* exactly the writes in force, over exports, compaction and imports.
CarriesWrites == Run!Spec

\* What keeps a driven sequence from ending: a step whose program fails, or
\* a patch the next step refuses because it is a replay, which is stepped as
\* soon as it is created, or has another base.
Blocked ==
  \/ Begun /\ Active.end.reverts
  \/ /\ Begun /\ sequence.carry # "none" /\ sequence.index + 1 < Len(Steps)
     /\ LET next == Steps[sequence.index + 2]
        IN next.kind = "replay" \/ BaseMismatch(next, [base |-> sessionBaseBlock(Active)])

\* A client that continues the active session and asks for the next step
\* gets to the end of the sequence, unless it meets one of these.
SequenceEnds == Begun ~> sequence.done \/ Blocked
=============================================================================
