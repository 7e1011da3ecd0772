------------------------ MODULE DebugSequencesProofs ------------------------
(***************************************************************************)
(* Debug sequences, for any number of clients, any steps, writes, imports  *)
(* and failures: as long as no two handlers work on one session or on the  *)
(* sequence, a session that is done ran its program to the end, and a      *)
(* sequence leaves a step only after its session was done.  The sessions   *)
(* promise nothing beyond that: their handlers take no lock across a run,  *)
(* and two of them at once overwrite each other.                           *)
(***************************************************************************)
EXTENDS DebugSequences, TLAPS

\* The end of a session that was never traced.
Untouched == [last |-> -1, reverts |-> FALSE]

\* What is needed of a sequence whose elements have no common type.
IsSequence(q) == q \in Seq({q[i] : i \in DOMAIN q})

\* The fields of a session, of a request and of the debug sequence.
SessionFields ==
  {"kind", "base", "position", "done", "traced", "current", "pending", "lastStep",
   "mutations", "end"}

RequestFields ==
  {"at", "session", "all", "last", "then", "outcome", "index", "patch", "carry"}

SequenceFields == {"index", "active", "done", "lastCompleted", "exported", "carry"}

\* A handler that has started a run and not yet settled its session.
Running(c) == client[c].at \in {"run", "settle"}

\* No two handlers work on one session or on the sequence.
Alone ==
  /\ \A c, d \in Clients :
       Running(c) /\ Running(d) /\ client[c].session = client[d].session => c = d
  /\ \A c, d \in Stepping : c = d

\* A session is done with the end of its program known, at its last step,
\* and shows nothing that could still be written to.
SessionSound(s) ==
  /\ DOMAIN s = SessionFields
  /\ s.position \in -1 .. MaxLength - 1 /\ s.lastStep \in -1 .. MaxLength - 1
  /\ s.pending.step \in -1 .. MaxLength - 1
  /\ s.end \in {Open} \cup EndsAfter(-1)
  /\ s.done \in BOOLEAN /\ s.traced \in BOOLEAN
  /\ s.done => /\ s.end # Open /\ ~s.end.reverts
               /\ s.position = s.end.last /\ s.current = NoPause
  /\ ~s.traced => s.done /\ s.end = Untouched

\* A run under way, and the session it is of.
RunSound(q, s) ==
  /\ s.traced
  /\ s.current = NoPause
  /\ q.at = "run" => s.pending = NoPause
  /\ q.at = "settle" =>
       /\ q.outcome = "ended" => /\ s.pending = NoPause /\ s.end # Open
                                 /\ ~s.end.reverts /\ s.lastStep = s.end.last
       /\ q.outcome = "halted" => s.pending # NoPause
       /\ s.done => q.outcome = "ended"

\* A request that works on the sequence: the step it leaves is done.
StepSound(q) ==
  /\ q.at = "start" => Begun
  /\ q.then = "carry" => /\ q.index = (IF Begun THEN sequence.index + 1 ELSE 0)
                         /\ q.index \in 0 .. Len(Steps) - 1
  /\ (q.at = "start" \/ q.then = "carry") /\ Begun =>
       ~sequence.done /\ sessions[sequence.active].done

\* A request fits what its client is at.
RequestOK(q) ==
  /\ DOMAIN q = RequestFields
  /\ q.at \in {"idle", "begin", "run", "settle", "start", "carry", "publish"}
  /\ q.then \in {"reply", "carry"} /\ q.outcome \in {"ended", "halted", "failed"}
  /\ q.at = "idle" => q = Idle
  /\ q.at \in {"begin", "run", "settle", "carry", "publish"} =>
       q.session \in DOMAIN sessions
  /\ q.at = "begin" => sessions[q.session].traced
  /\ q.at \in {"carry", "publish"} => q.then = "carry"

\* The sequence names a step, and while it goes on a session.
SequenceOK ==
  /\ DOMAIN sequence = SequenceFields
  /\ Begun => /\ sequence.index \in 0 .. Len(Steps) - 1
              /\ sequence.done \in BOOLEAN
              /\ ~sequence.done => sequence.active \in DOMAIN sessions

\* The inductive invariant, for one client, and in all.
ClientOK(c) ==
  /\ RequestOK(client[c])
  /\ StepSound(client[c])
  /\ Running(c) => RunSound(client[c], sessions[client[c].session])

Sound ==
  /\ Alone
  /\ IsSequence(sessions)
  /\ \A s \in DOMAIN sessions : SessionSound(sessions[s])
  /\ SequenceOK
  /\ DOMAIN client = Clients
  /\ \A c \in Clients : ClientOK(c)

OneAtATime == ~overlapped => Sound

-----------------------------------------------------------------------------

\* Facts of sequences that the provers lack for elements of any kind.
LEMMA SequenceIs ==
  ASSUME NEW q, IsSequence(q)
  PROVE  /\ Len(q) \in Nat
         /\ DOMAIN q = 1 .. Len(q)
BY DEF IsSequence

LEMMA AppendIs ==
  ASSUME NEW q, IsSequence(q), NEW x
  PROVE  /\ IsSequence(Append(q, x))
         /\ Len(Append(q, x)) = Len(q) + 1
         /\ DOMAIN Append(q, x) = 1 .. Len(q) + 1
         /\ \A i \in DOMAIN q : Append(q, x)[i] = q[i]
         /\ Append(q, x)[Len(q) + 1] = x
<1> DEFINE S == {q[i] : i \in DOMAIN q} \cup {x}
           r == Append(q, x)
<1>1. q \in Seq(S)
  <2>1. q \in Seq({q[i] : i \in DOMAIN q})
    BY DEF IsSequence
  <2>2. DOMAIN q = 1 .. Len(q) /\ Len(q) \in Nat
    BY SequenceIs
  <2>3. \A i \in 1 .. Len(q) : q[i] \in S
    BY <2>2
  <2> HIDE DEF S
  <2> QED BY <2>1, <2>2, <2>3
<1>2. x \in S
  OBVIOUS
<1> HIDE DEF S
<1>3. /\ r \in Seq(S) /\ Len(r) = Len(q) + 1 /\ r[Len(q) + 1] = x
      /\ \A i \in 1 .. Len(q) : r[i] = q[i]
  BY <1>1, <1>2
<1>4. DOMAIN r = 1 .. Len(q) + 1 /\ DOMAIN q = 1 .. Len(q) /\ Len(q) \in Nat
  BY <1>1, <1>3
<1>5. r \in Seq({r[i] : i \in DOMAIN r})
  <2> DEFINE T == {r[i] : i \in DOMAIN r}
  <2>1. \A i \in 1 .. Len(r) : r[i] \in T
    BY <1>3, <1>4
  <2> HIDE DEF T, r
  <2> QED BY <1>3, <2>1 DEF T
<1> QED
  BY <1>3, <1>4, <1>5 DEF IsSequence

LEMMA ExceptIs ==
  ASSUME NEW q, IsSequence(q), NEW t \in DOMAIN q, NEW x
  PROVE  /\ IsSequence([q EXCEPT ![t] = x])
         /\ DOMAIN [q EXCEPT ![t] = x] = DOMAIN q
         /\ [q EXCEPT ![t] = x][t] = x
         /\ \A i \in DOMAIN q : i # t => [q EXCEPT ![t] = x][i] = q[i]
<1> DEFINE r == [q EXCEPT ![t] = x]
           T == {r[i] : i \in DOMAIN r}
<1>1. Len(q) \in Nat /\ DOMAIN q = 1 .. Len(q) /\ DOMAIN r = DOMAIN q
  BY SequenceIs
<1>2. \A i \in 1 .. Len(q) : r[i] \in T
  BY <1>1
<1>3. r = [i \in 1 .. Len(q) |-> r[i]]
  BY <1>1
<1>4. r \in Seq(T)
  <2> HIDE DEF r, T
  <2> QED BY <1>1, <1>2, <1>3
<1> QED
  BY <1>1, <1>4 DEF IsSequence

\* What every step of one client has to keep.
LEMMA StepKeeps ==
  ASSUME Sound, NEW c \in Clients,
         DOMAIN client' = Clients,
         \A d \in Clients \ {c} : client'[d] = client[d],
         IsSequence(sessions'),
         DOMAIN sessions \subseteq DOMAIN sessions',
         \A s \in DOMAIN sessions :
           /\ sessions'[s].traced = sessions[s].traced
           /\ sessions[s].done => sessions'[s].done,
         \A s \in DOMAIN sessions' : SessionSound(sessions'[s]),
         \A d \in Clients \ {c} : Running(d) =>
           sessions'[client[d].session] = sessions[client[d].session],
         SequenceOK',
         sequence' = sequence \/ \A d \in Stepping : d = c,
         ClientOK(c)',
         Running(c)' =>
           \A d \in Clients \ {c} : Running(d) => client[d].session # client'[c].session,
         c \in Stepping' => \A d \in Stepping : d = c
  PROVE  Sound'
<1>1. ASSUME NEW d \in Clients \ {c} PROVE ClientOK(d)'
  <2> DEFINE q == client[d]
  <2>1. client'[d] = q /\ ClientOK(d)
    BY DEF Sound
  <2> HIDE DEF q
  <2>2. RequestOK(q)
    BY <2>1 DEF ClientOK, q
  <2>3. RequestOK(q)'
    <3>1. DOMAIN q = RequestFields /\ q.at \in {"idle", "begin", "run", "settle", "start", "carry", "publish"}
          /\ q.then \in {"reply", "carry"} /\ q.outcome \in {"ended", "halted", "failed"}
          /\ (q.at = "idle" => q = Idle)
          /\ (q.at \in {"carry", "publish"} => q.then = "carry")
      BY <2>2 DEF RequestOK
    <3>2. q.at \in {"begin", "run", "settle", "carry", "publish"} => q.session \in DOMAIN sessions'
      BY <2>2 DEF RequestOK
    <3>3. q.at = "begin" => sessions'[q.session].traced
      BY <2>2 DEF RequestOK
    <3> QED BY <2>1, <3>1, <3>2, <3>3 DEF RequestOK, q
  <2>4. StepSound(q)'
    <3>1. StepSound(q) /\ SequenceOK
      BY <2>1 DEF ClientOK, q, Sound
    <3>2. CASE sequence' = sequence
      <4>1. Begun' = Begun
        BY <3>2 DEF Begun
      <4>2. Begun /\ ~sequence.done => sequence.active \in DOMAIN sessions
        BY <3>1 DEF SequenceOK
      <4>3. Begun /\ ~sequence.done /\ sessions[sequence.active].done =>
              sessions'[sequence.active].done
        BY <4>2
      <4> QED BY <2>1, <3>1, <3>2, <4>1, <4>3 DEF StepSound, q
    <3>3. CASE \A e \in Stepping : e = c
      <4>1. d \notin Stepping
        BY <3>3
      <4>2. q.at # "start" /\ q.then # "carry"
        <5>1. q # Idle => q.at # "start" /\ q.then # "carry"
          BY <4>1 DEF Stepping, q
        <5>2. q = Idle => q.at # "start" /\ q.then # "carry"
          BY DEF Idle
        <5> QED BY <5>1, <5>2
      <4> QED BY <2>1, <4>2 DEF StepSound, q
    <3> QED BY <3>2, <3>3
  <2>5. Running(d)' <=> Running(d)
    BY <2>1 DEF Running, q
  <2>6. Running(d) => RunSound(q, sessions[q.session])'
    <3> SUFFICES ASSUME Running(d) PROVE RunSound(q, sessions[q.session])'
      OBVIOUS
    <3>1. RunSound(q, sessions[q.session])
      BY <2>1 DEF ClientOK, q
    <3>2. sessions'[q.session] = sessions[q.session]
      BY DEF q
    <3> QED BY <2>1, <3>1, <3>2 DEF RunSound, q
  <2> QED BY <2>1, <2>3, <2>4, <2>5, <2>6 DEF ClientOK, RequestOK, StepSound, q
<1>2. Alone'
  <2>1. ASSUME NEW d \in Clients, NEW e \in Clients, Running(d)', Running(e)',
               client'[d].session = client'[e].session
        PROVE d = e
    <3>1. CASE d # c /\ e # c
      <4> Running(d) /\ Running(e) /\ client[d].session = client[e].session
        BY <2>1, <3>1 DEF Running
      <4> QED BY DEF Sound, Alone
    <3>2. CASE d = c /\ e # c
      <4> Running(e) /\ client'[e] = client[e]
        BY <2>1, <3>2 DEF Running
      <4> QED BY <2>1, <3>2
    <3>3. CASE e = c /\ d # c
      <4> Running(d) /\ client'[d] = client[d]
        BY <2>1, <3>3 DEF Running
      <4> QED BY <2>1, <3>3
    <3> QED BY <3>1, <3>2, <3>3
  <2>2. ASSUME NEW d \in Clients \ {c}, d \in Stepping' PROVE d \in Stepping
    BY <2>2 DEF Stepping
  <2>3. ASSUME NEW d \in Stepping', NEW e \in Stepping' PROVE d = e
    <3>1. d \in Clients /\ e \in Clients
      BY DEF Stepping
    <3>2. CASE d # c /\ e # c
      BY <2>2, <3>1, <3>2 DEF Sound, Alone
    <3>3. CASE d = c /\ e # c
      BY <2>2, <2>3, <3>1, <3>3
    <3>4. CASE e = c /\ d # c
      BY <2>2, <2>3, <3>1, <3>4
    <3> QED BY <3>2, <3>3, <3>4
  <2> QED BY <2>1, <2>3 DEF Alone
<1> QED
  BY <1>1, <1>2 DEF Sound

-----------------------------------------------------------------------------

\* A step of a client replaces its own request only.
LEMMA UpdateIs ==
  ASSUME Sound, NEW c \in Clients, NEW r, Update(c, r)
  PROVE  /\ DOMAIN client' = Clients /\ client'[c] = r
         /\ \A d \in Clients \ {c} : client'[d] = client[d]
BY DEF Sound, Update

\* One session is replaced by a sound one.
LEMMA TouchIs ==
  ASSUME Sound, NEW t \in DOMAIN sessions, NEW r,
         sessions' = [sessions EXCEPT ![t] = r],
         SessionSound(r), r.traced = sessions[t].traced, sessions[t].done => r.done
  PROVE  /\ IsSequence(sessions')
         /\ DOMAIN sessions' = DOMAIN sessions
         /\ sessions'[t] = r
         /\ \A s \in DOMAIN sessions :
              /\ s # t => sessions'[s] = sessions[s]
              /\ sessions'[s].traced = sessions[s].traced
              /\ sessions[s].done => sessions'[s].done
         /\ \A s \in DOMAIN sessions' : SessionSound(sessions'[s])
<1>1. /\ IsSequence(sessions') /\ DOMAIN sessions' = DOMAIN sessions /\ sessions'[t] = r
      /\ \A i \in DOMAIN sessions : i # t => sessions'[i] = sessions[i]
  BY ExceptIs DEF Sound
<1>2. \A s \in DOMAIN sessions : SessionSound(sessions[s])
  BY DEF Sound
<1> QED
  BY <1>1, <1>2

\* A client that is idle promises nothing.
LEMMA IdleOK ==
  ASSUME NEW c \in Clients, client'[c] = Idle
  PROVE  /\ ClientOK(c)' /\ ~Running(c)' /\ c \notin Stepping'
BY DEF ClientOK, RequestOK, StepSound, Running, Stepping, Idle, RequestFields

\* A request that keeps its place in the sequence keeps what it relies on.
LEMMA StepSoundStays ==
  ASSUME Sound, NEW q, StepSound(q), NEW r, r.then = q.then, r.index = q.index,
         r.at # "start", sequence' = sequence,
         \A s \in DOMAIN sessions : sessions[s].done => sessions'[s].done
  PROVE  StepSound(r)'
<1>1. Begun' = Begun
  BY DEF Begun
<1>2. Begun /\ ~sequence.done => sequence.active \in DOMAIN sessions
  BY DEF Sound, SequenceOK
<1> QED
  BY <1>1, <1>2 DEF StepSound

\* The sequence is sound as long as it does not change.
LEMMA SequenceStays ==
  ASSUME Sound, sequence' = sequence, DOMAIN sessions \subseteq DOMAIN sessions'
  PROVE  SequenceOK'
<1>1. Begun' = Begun
  BY DEF Begun
<1> QED
  BY <1>1 DEF Sound, SequenceOK

\* What a write, or the import of a patch, leaves of a session.
LEMMA RewrittenIs ==
  ASSUME NEW s, SessionSound(s), NEW m, s.done => s.position < 0
  PROVE  /\ SessionSound(Rewritten(s, m))
         /\ Rewritten(s, m).traced = s.traced /\ Rewritten(s, m).done = s.done
<1> DEFINE e == IF s.end.last = -1 /\ ~s.end.reverts THEN s.end ELSE Open
           r == Rewritten(s, m)
<1>1. DOMAIN s = SessionFields
  BY DEF SessionSound
<1>2. r = [s EXCEPT !.mutations = m, !.end = e]
  BY <1>1 DEF Rewritten, SessionFields
<1>3. e \in {Open} \cup EndsAfter(-1)
  BY DEF SessionSound
<1>4. s.done => e = s.end
  <2> SUFFICES ASSUME s.done PROVE e = s.end
    OBVIOUS
  <2>1. s.end.last = s.position /\ s.position \in -1 .. MaxLength - 1 /\ s.position < 0
    BY DEF SessionSound
  <2>2. MaxLength \in Nat
    BY SequenceAssumption
  <2>3. s.end.last = -1 /\ ~s.end.reverts
    BY <2>1, <2>2 DEF SessionSound
  <2> QED BY <2>3
<1> HIDE DEF e, r
<1>5. /\ DOMAIN r = SessionFields /\ r.end = e
      /\ r.position = s.position /\ r.lastStep = s.lastStep /\ r.pending = s.pending
      /\ r.done = s.done /\ r.traced = s.traced /\ r.current = s.current
  BY <1>1, <1>2 DEF SessionFields
<1>6. SessionSound(r)
  BY <1>3, <1>4, <1>5 DEF SessionSound
<1> QED
  BY <1>5, <1>6 DEF r

-----------------------------------------------------------------------------

\* An idle client's request that touches one session nobody runs, or none.
LEMMA AdvanceSound ==
  ASSUME Sound, NEW c \in Clients, NEW s \in DOMAIN sessions, NEW all,
         Advance(c, s, all)
  PROVE  Sound'
<1>1. client[c] = Idle /\ sequence' = sequence
  BY DEF Advance
<1>2. SessionSound(sessions[s])
  BY DEF Sound
<1>3. CASE ~sessions[s].traced
  <2>1. sessions' = [sessions EXCEPT ![s].done = TRUE] /\ client' = client
    BY <1>3 DEF Advance
  <2> DEFINE r == [sessions[s] EXCEPT !.done = TRUE]
  <2>2. sessions' = [sessions EXCEPT ![s] = r]
    BY <2>1 DEF Sound
  <2>3. SessionSound(r) /\ r.traced = sessions[s].traced /\ r.done
    BY <1>2, <1>3 DEF SessionSound, SessionFields
  <2> HIDE DEF r
  <2>4. /\ IsSequence(sessions') /\ DOMAIN sessions' = DOMAIN sessions
        /\ \A t \in DOMAIN sessions :
             /\ t # s => sessions'[t] = sessions[t]
             /\ sessions'[t].traced = sessions[t].traced
             /\ sessions[t].done => sessions'[t].done
        /\ \A t \in DOMAIN sessions' : SessionSound(sessions'[t])
    BY <2>2, <2>3, TouchIs
  <2>5. ASSUME NEW d \in Clients \ {c}, Running(d)
        PROVE sessions'[client[d].session] = sessions[client[d].session]
    <3>1. /\ client[d].session \in DOMAIN sessions
          /\ RunSound(client[d], sessions[client[d].session])
      BY <2>5 DEF Sound, ClientOK, RequestOK, Running
    <3> QED BY <1>3, <2>4, <3>1 DEF RunSound
  <2>6. ClientOK(c)' /\ ~Running(c)' /\ c \notin Stepping'
    BY <1>1, <2>1, IdleOK
  <2>7. SequenceOK'
    BY <1>1, <2>4, SequenceStays
  <2> QED BY <1>1, <2>1, <2>4, <2>5, <2>6, <2>7, StepKeeps DEF Sound
<1>4. CASE sessions[s].traced
  <2> DEFINE r == [Idle EXCEPT !.at = "begin", !.session = s, !.all = all]
  <2>1. Update(c, r) /\ sessions' = sessions
    BY <1>4 DEF Advance
  <2>2. /\ DOMAIN client' = Clients /\ client'[c] = r
        /\ \A d \in Clients \ {c} : client'[d] = client[d]
    <3> HIDE DEF r
    <3> QED BY <2>1, UpdateIs
  <2>3. /\ DOMAIN r = RequestFields /\ r.at = "begin" /\ r.session = s /\ r.then = "reply"
        /\ r.outcome = "ended"
    BY DEF Idle, RequestFields
  <2> HIDE DEF r
  <2>4. ClientOK(c)' /\ ~Running(c)' /\ c \notin Stepping'
    BY <1>4, <2>1, <2>2, <2>3 DEF ClientOK, RequestOK, StepSound, Running, Stepping
  <2>5. SequenceOK'
    BY <1>1, <2>1, SequenceStays
  <2> QED BY <1>1, <2>1, <2>2, <2>4, <2>5, StepKeeps DEF Sound
<1> QED
  BY <1>3, <1>4

\* A session is written to, or patched, by a client that is idle.
LEMMA RewriteSound ==
  ASSUME Sound, NEW c \in Clients, client[c] = Idle, NEW s \in DOMAIN sessions, NEW m,
         sessions' = [sessions EXCEPT ![s] = Rewritten(sessions[s], m)],
         sessions[s].done => sessions[s].position < 0,
         \A d \in Clients : Running(d) => client[d].session # s,
         UNCHANGED <<sequence, client>>
  PROVE  Sound'
<1> DEFINE r == Rewritten(sessions[s], m)
<1>1. SessionSound(sessions[s])
  BY DEF Sound
<1>2. SessionSound(r) /\ r.traced = sessions[s].traced /\ r.done = sessions[s].done
  BY <1>1, RewrittenIs
<1> HIDE DEF r
<1>3. /\ IsSequence(sessions') /\ DOMAIN sessions' = DOMAIN sessions
      /\ \A t \in DOMAIN sessions :
           /\ t # s => sessions'[t] = sessions[t]
           /\ sessions'[t].traced = sessions[t].traced
           /\ sessions[t].done => sessions'[t].done
      /\ \A t \in DOMAIN sessions' : SessionSound(sessions'[t])
  BY <1>2, TouchIs DEF r
<1>4. ASSUME NEW d \in Clients \ {c}, Running(d)
      PROVE sessions'[client[d].session] = sessions[client[d].session]
  <2> client[d].session \in DOMAIN sessions
    BY <1>4 DEF Sound, ClientOK, RequestOK, Running
  <2> QED BY <1>3, <1>4
<1>5. ClientOK(c)' /\ ~Running(c)' /\ c \notin Stepping'
  BY IdleOK
<1>6. SequenceOK'
  BY <1>3, SequenceStays
<1> QED
  BY <1>3, <1>4, <1>5, <1>6, StepKeeps DEF Sound

LEMMA WriteSound ==
  ASSUME Sound, NEW c \in Clients, NEW s \in DOMAIN sessions, NEW w, Write(c, s, w)
  PROVE  Sound'
<1>1. PICK m : sessions' = [sessions EXCEPT ![s] = Rewritten(sessions[s], m)]
  BY DEF Write
<1>2. client[c] = Idle /\ sessions[s].current # NoPause /\ UNCHANGED <<sequence, client>>
  BY DEF Write
<1>3. ~sessions[s].done
  BY <1>2 DEF Sound, SessionSound
<1>4. \A d \in Clients : Running(d) => client[d].session # s
  BY <1>2 DEF Sound, ClientOK, RunSound
<1> QED
  BY <1>1, <1>2, <1>3, <1>4, RewriteSound

LEMMA ImportSound ==
  ASSUME Sound, NEW c \in Clients, NEW s \in DOMAIN sessions, NEW ids, NEW merge,
         ImportPatch(c, s, ids, merge), ~overlapped'
  PROVE  Sound'
<1>1. PICK m : sessions' = [sessions EXCEPT ![s] = Rewritten(sessions[s], m)]
  BY DEF ImportPatch
<1>2. client[c] = Idle /\ UNCHANGED <<sequence, client>> /\ ~Busy(s)
  BY DEF ImportPatch
<1>3. sessions[s].position < 0
  <2>1. ~(sessions[s].position >= 0)
    BY DEF ImportPatch, Refused
  <2>2. sessions[s].position \in Int
    BY SequenceAssumption DEF Sound, SessionSound
  <2> QED BY <2>1, <2>2
<1>4. \A d \in Clients : Running(d) => client[d].session # s
  BY <1>2 DEF Busy, Running
<1> QED
  BY <1>1, <1>2, <1>3, <1>4, RewriteSound

-----------------------------------------------------------------------------

\* A handler that works on the session of its request, which nobody else
\* runs, and keeps its place in the sequence.
LEMMA WorkSound ==
  ASSUME Sound, NEW c \in Clients, NEW t \in DOMAIN sessions, NEW r, NEW q,
         sessions' = [sessions EXCEPT ![t] = r],
         SessionSound(r), r.traced = sessions[t].traced, sessions[t].done => r.done,
         Update(c, q), sequence' = sequence,
         \A d \in Clients \ {c} : Running(d) => client[d].session # t,
         RequestOK(q)', StepSound(q)',
         q.at \in {"run", "settle"} => q.session = t /\ RunSound(q, r),
         q.at \in {"start", "carry", "publish"} \/ q.then = "carry" => c \in Stepping
  PROVE  Sound'
<1>1. /\ IsSequence(sessions') /\ DOMAIN sessions' = DOMAIN sessions /\ sessions'[t] = r
      /\ \A s \in DOMAIN sessions :
           /\ s # t => sessions'[s] = sessions[s]
           /\ sessions'[s].traced = sessions[s].traced
           /\ sessions[s].done => sessions'[s].done
      /\ \A s \in DOMAIN sessions' : SessionSound(sessions'[s])
  BY TouchIs
<1>2. /\ DOMAIN client' = Clients /\ client'[c] = q
      /\ \A d \in Clients \ {c} : client'[d] = client[d]
  BY UpdateIs
<1>3. ASSUME NEW d \in Clients \ {c}, Running(d)
      PROVE sessions'[client[d].session] = sessions[client[d].session]
  <2> client[d].session \in DOMAIN sessions
    BY <1>3 DEF Sound, ClientOK, RequestOK, Running
  <2> QED BY <1>1, <1>3
<1>4. Running(c)' <=> q.at \in {"run", "settle"}
  BY <1>2 DEF Running
<1>5. ClientOK(c)'
  <2>1. RequestOK(client[c])' /\ StepSound(client[c])'
    BY <1>2 DEF RequestOK, StepSound
  <2>2. Running(c)' => RunSound(client[c], sessions[client[c].session])'
    BY <1>1, <1>2, <1>4 DEF RunSound
  <2> QED BY <2>1, <2>2 DEF ClientOK
<1>6. SequenceOK'
  BY <1>1, SequenceStays
<1>7. Running(c)' =>
        \A d \in Clients \ {c} : Running(d) => client[d].session # client'[c].session
  BY <1>2, <1>4
<1>8. c \in Stepping' => \A d \in Stepping : d = c
  <2> c \in Stepping' => c \in Stepping
    BY <1>2 DEF Stepping
  <2> QED BY DEF Sound, Alone
<1> QED
  BY <1>1, <1>2, <1>3, <1>5, <1>6, <1>7, <1>8, StepKeeps

\* A request that is given up.
LEMMA GivenUpSound ==
  ASSUME Sound, NEW c \in Clients, Update(c, Idle), UNCHANGED <<sessions, sequence>>
  PROVE  Sound'
<1>1. /\ DOMAIN client' = Clients /\ client'[c] = Idle
      /\ \A d \in Clients \ {c} : client'[d] = client[d]
  BY UpdateIs
<1>2. ClientOK(c)' /\ ~Running(c)' /\ c \notin Stepping'
  BY <1>1, IdleOK
<1>3. SequenceOK'
  BY SequenceStays
<1> QED
  BY <1>1, <1>2, <1>3, StepKeeps DEF Sound

\* A client that is not idle.
LEMMA BusyIs ==
  ASSUME Sound, NEW c \in Clients, NEW s, (Running(c) /\ client[c].session = s) \/ ~Busy(s)
  PROVE  \A d \in Clients \ {c} : Running(d) => client[d].session # s
BY DEF Sound, Alone, Busy, Running

\* What is known of a client's request.
LEMMA ClientIs ==
  ASSUME Sound, NEW c \in Clients
  PROVE  /\ RequestOK(client[c]) /\ StepSound(client[c])
         /\ client[c].at \in {"start", "carry", "publish"} \/ client[c].then = "carry"
              => c \in Stepping
<1>1. RequestOK(client[c]) /\ StepSound(client[c])
  BY DEF Sound, ClientOK
<1>2. client[c].at \in {"start", "carry", "publish"} \/ client[c].then = "carry"
        => client[c] # Idle
  BY DEF Idle
<1> QED
  BY <1>1, <1>2 DEF Stepping

\* A handler begins a run, or answers at once.
LEMMA BeginSound ==
  ASSUME Sound, NEW c \in Clients, Begin(c), ~overlapped'
  PROVE  Sound'
<1>1. PICK q : q = client[c]
  OBVIOUS
<1>2. PICK t : t = q.session
  OBVIOUS
<1>3. PICK n : n = [q EXCEPT !.at = "run"]
  OBVIOUS
<1>4. PICK r : r = [sessions[t] EXCEPT !.pending = NoPause, !.current = NoPause,
                                       !.lastStep = -1]
  OBVIOUS
<1>5. /\ q.at = "begin" /\ Update(c, n) /\ sequence' = sequence /\ ~Busy(t)
      /\ sessions' = [sessions EXCEPT ![t].pending = NoPause, ![t].current = NoPause,
                                      ![t].lastStep = -1]
  BY <1>1, <1>2, <1>3 DEF Begin
<1>6. RequestOK(q) /\ StepSound(q)
  BY <1>1, ClientIs
<1>7. t \in DOMAIN sessions /\ sessions[t].traced
  BY <1>2, <1>5, <1>6 DEF RequestOK
<1>8. SessionSound(sessions[t]) /\ IsSequence(sessions)
  BY <1>7 DEF Sound
<1>9. sessions' = [sessions EXCEPT ![t] = r]
  BY <1>4, <1>5, <1>7, <1>8
<1>10. /\ SessionSound(r) /\ r.traced = sessions[t].traced /\ r.done = sessions[t].done
       /\ r.pending = NoPause /\ r.current = NoPause
  BY <1>4, <1>8, SequenceAssumption DEF SessionSound, SessionFields, NoPause
<1>11. /\ DOMAIN n = RequestFields /\ n.at = "run" /\ n.session = t /\ n.then = q.then
       /\ n.index = q.index /\ n.outcome = q.outcome
  BY <1>2, <1>3, <1>6 DEF RequestOK, RequestFields
<1>12. /\ DOMAIN sessions' = DOMAIN sessions
       /\ \A s \in DOMAIN sessions : sessions[s].done => sessions'[s].done
  BY <1>7, <1>9, <1>10, TouchIs
<1>13. RequestOK(n)'
  BY <1>6, <1>7, <1>11, <1>12 DEF RequestOK
<1>14. StepSound(n)'
  <2>1. n.at # "start"
    BY <1>11
  <2> QED BY <1>5, <1>6, <1>11, <1>12, <2>1, StepSoundStays
<1>15. RunSound(n, r)
  BY <1>7, <1>10, <1>11 DEF RunSound
<1>16. \A d \in Clients \ {c} : Running(d) => client[d].session # t
  BY <1>5, BusyIs
<1>17. n.at \in {"start", "carry", "publish"} \/ n.then = "carry" => c \in Stepping
  BY <1>1, <1>11, ClientIs
<1> QED
  BY <1>5, <1>7, <1>9, <1>10, <1>11, <1>13, <1>14, <1>15, <1>16, <1>17, WorkSound

\* What is known of a run under way, and the common part of its steps.
LEMMA RunIs ==
  ASSUME Sound, NEW c \in Clients, Running(c)
  PROVE  /\ client[c].session \in DOMAIN sessions
         /\ SessionSound(sessions[client[c].session])
         /\ RunSound(client[c], sessions[client[c].session])
         /\ \A d \in Clients \ {c} : Running(d) => client[d].session # client[c].session
<1>1. ClientOK(c)
  BY DEF Sound
<1>2. client[c].session \in DOMAIN sessions
  BY <1>1 DEF ClientOK, RequestOK, Running
<1> QED
  BY <1>1, <1>2, BusyIs DEF ClientOK, Sound

\* A run goes one step on, or stops, ends or fails.
LEMMA RunStepSound ==
  ASSUME Sound, NEW c \in Clients, NEW q, q = client[c], q.at = "run",
         NEW r, NEW outcome,
         outcome \in {"ended", "halted", "failed"},
         sessions' = [sessions EXCEPT ![q.session] = r],
         NEW n, n = [q EXCEPT !.at = "settle", !.outcome = outcome],
         Update(c, n), sequence' = sequence,
         SessionSound(r), r.traced = sessions[q.session].traced,
         r.done = sessions[q.session].done, r.current = NoPause,
         outcome = "ended" => /\ r.pending = NoPause /\ r.end # Open
                              /\ ~r.end.reverts /\ r.lastStep = r.end.last,
         outcome = "halted" => r.pending # NoPause,
         r.done => outcome = "ended"
  PROVE  Sound'
<1>1. RequestOK(q) /\ StepSound(q) /\ Running(c)
  BY ClientIs DEF Running
<1>2. PICK t : t = q.session
  OBVIOUS
<1>3. t \in DOMAIN sessions /\ sessions[t].traced
  BY <1>1, <1>2, RunIs DEF RunSound
<1>4. /\ DOMAIN n = RequestFields /\ n.at = "settle" /\ n.session = t /\ n.then = q.then
      /\ n.index = q.index /\ n.outcome = outcome
  BY <1>1, <1>2 DEF RequestOK, RequestFields
<1>5. /\ DOMAIN sessions' = DOMAIN sessions
      /\ \A s \in DOMAIN sessions : sessions[s].done => sessions'[s].done
  BY <1>2, <1>3, TouchIs
<1>6. RequestOK(n)'
  BY <1>1, <1>2, <1>3, <1>4, <1>5 DEF RequestOK
<1>7. StepSound(n)'
  <2>1. n.at # "start"
    BY <1>4
  <2> QED BY <1>1, <1>4, <1>5, <2>1, StepSoundStays
<1>8. RunSound(n, r)
  BY <1>2, <1>3, <1>4 DEF RunSound
<1>9. \A d \in Clients \ {c} : Running(d) => client[d].session # t
  BY <1>1, <1>2, RunIs
<1>10. n.at \in {"start", "carry", "publish"} \/ n.then = "carry" => c \in Stepping
  BY <1>4, ClientIs
<1>11. sessions' = [sessions EXCEPT ![t] = r] /\ r.traced = sessions[t].traced
       /\ r.done = sessions[t].done
  BY <1>2
<1>12. n.at \in {"run", "settle"} => n.session = t /\ RunSound(n, r)
  BY <1>4, <1>8
<1>13. SessionSound(r) /\ (sessions[t].done => r.done)
  BY <1>11
<1>14. Update(c, n) /\ sequence' = sequence
  OBVIOUS
<1> QED
  BY <1>3, <1>6, <1>7, <1>9, <1>10, <1>11, <1>12, <1>13, <1>14, WorkSound, ZenonT(30)

-----------------------------------------------------------------------------

LEMMA RunStopsSound ==
  ASSUME Sound, NEW c \in Clients, RunStops(c)
  PROVE  Sound'
<1>1. PICK q : q = client[c]
  OBVIOUS
<1>2. PICK s : s = sessions[q.session]
  OBVIOUS
<1>3. PICK stop \in StopsOf(s, q.all), outcome \in {"halted", "failed"} :
        /\ sessions' = [sessions EXCEPT ![q.session] =
                           [s EXCEPT !.pending = stop, !.lastStep = stop.step]]
        /\ Update(c, [q EXCEPT !.at = "settle", !.outcome = outcome])
  BY <1>1, <1>2 DEF RunStops
<1>4. q.at = "run" /\ sequence' = sequence
  BY <1>1 DEF RunStops
<1>5. SessionSound(s) /\ RunSound(q, s) /\ q.session \in DOMAIN sessions
  BY <1>1, <1>2, <1>4, RunIs DEF Running
<1>6. PICK p \in s.position + 1 .. (IF s.end = Open THEN MaxLength - 1 ELSE s.end.last) :
        stop.step = p
  BY DEF StopsOf
<1>7. MaxLength \in Nat /\ s.position \in -1 .. MaxLength - 1
  BY <1>5, SequenceAssumption DEF SessionSound
<1>8. s.end # Open => s.end.last \in -1 .. MaxLength - 1
  BY <1>5 DEF SessionSound, EndsAfter
<1>9. stop.step \in 0 .. MaxLength - 1
  BY <1>6, <1>7, <1>8
<1>10. ~s.done
  <2> SUFFICES ASSUME s.done PROVE FALSE
    OBVIOUS
  <2>1. s.end # Open /\ s.position = s.end.last
    BY <1>5 DEF SessionSound
  <2> QED BY <1>6, <1>7, <2>1
<1>11. stop # NoPause
  <2>1. stop.step >= 0
    BY <1>7, <1>9
  <2> QED BY <2>1 DEF NoPause
<1>12. PICK r : r = [s EXCEPT !.pending = stop, !.lastStep = stop.step]
  OBVIOUS
<1>13. /\ DOMAIN r = SessionFields /\ r.pending = stop /\ r.lastStep = stop.step
       /\ r.position = s.position /\ r.end = s.end /\ r.done = s.done
       /\ r.traced = s.traced /\ r.current = s.current
  BY <1>5, <1>12 DEF SessionSound, SessionFields
<1>14. stop.step \in -1 .. MaxLength - 1
  BY <1>7, <1>9
<1>15. SessionSound(r) /\ r.current = NoPause
  BY <1>5, <1>10, <1>13, <1>14 DEF SessionSound, RunSound
<1>16. PICK n : n = [q EXCEPT !.at = "settle", !.outcome = outcome]
  OBVIOUS
<1>17. outcome \in {"ended", "halted", "failed"} /\ outcome # "ended"
  OBVIOUS
<1>18. Update(c, n) /\ sessions' = [sessions EXCEPT ![q.session] = r]
  BY <1>3, <1>12, <1>16
<1> QED
  BY <1>1, <1>2, <1>4, <1>10, <1>11, <1>13, <1>15, <1>16, <1>17, <1>18, RunStepSound

LEMMA RunEndsSound ==
  ASSUME Sound, NEW c \in Clients, RunEnds(c)
  PROVE  Sound'
<1>1. PICK q : q = client[c]
  OBVIOUS
<1>2. PICK s : s = sessions[q.session]
  OBVIOUS
<1>3. PICK end \in Ends(s) :
        /\ sessions' = [sessions EXCEPT ![q.session] =
                           [s EXCEPT !.lastStep = end.last, !.end = end]]
        /\ Update(c, [q EXCEPT !.at = "settle",
                               !.outcome = IF end.reverts THEN "failed" ELSE "ended"])
  BY <1>1, <1>2 DEF RunEnds
<1>4. q.at = "run" /\ sequence' = sequence
  BY <1>1 DEF RunEnds
<1>5. SessionSound(s) /\ RunSound(q, s) /\ q.session \in DOMAIN sessions
  BY <1>1, <1>2, <1>4, RunIs DEF Running
<1>6. MaxLength \in Nat /\ s.position \in -1 .. MaxLength - 1
  BY <1>5, SequenceAssumption DEF SessionSound
<1>7. /\ end \in EndsAfter(-1) /\ end # Open /\ end.last \in -1 .. MaxLength - 1
      /\ s.end # Open => end = s.end
  <2>1. CASE s.end # Open
    <3>1. end = s.end
      BY <2>1 DEF Ends
    <3>2. end \in EndsAfter(-1)
      BY <1>5, <2>1, <3>1 DEF SessionSound
    <3> QED BY <2>1, <3>1, <3>2 DEF EndsAfter
  <2>2. CASE s.end = Open
    <3>1. PICK k : k = IF s.kind = "replay" /\ s.position < 0 THEN 0 ELSE s.position
      OBVIOUS
    <3>2. end \in EndsAfter(k)
      BY <2>2, <3>1 DEF Ends
    <3>3. k \in Int /\ k >= -1
      BY <1>6, <3>1
    <3>4. end.last \in k .. MaxLength - 1 /\ end.reverts \in BOOLEAN
          /\ end = [last |-> end.last, reverts |-> end.reverts]
      BY <3>2 DEF EndsAfter
    <3>5. end.last \in -1 .. MaxLength - 1
      BY <1>6, <3>3, <3>4
    <3>6. end \in EndsAfter(-1)
      BY <3>4, <3>5 DEF EndsAfter
    <3>7. end # Open
      <4>1. end.last # -2
        BY <1>6, <3>5
      <4> QED BY <4>1 DEF Open
    <3> QED BY <2>2, <3>5, <3>6, <3>7
  <2> QED BY <2>1, <2>2
<1>8. PICK outcome : outcome = IF end.reverts THEN "failed" ELSE "ended"
  OBVIOUS
<1>9. PICK r : r = [s EXCEPT !.lastStep = end.last, !.end = end]
  OBVIOUS
<1>10. /\ DOMAIN r = SessionFields /\ r.pending = s.pending /\ r.lastStep = end.last
       /\ r.position = s.position /\ r.end = end /\ r.done = s.done
       /\ r.traced = s.traced /\ r.current = s.current
  BY <1>5, <1>9 DEF SessionSound, SessionFields
<1>11. s.done => end = s.end
  BY <1>5, <1>7 DEF SessionSound
<1>12. SessionSound(r)
  <2>1. s.done => r.end # Open /\ ~r.end.reverts /\ r.position = r.end.last /\ r.current = NoPause
    BY <1>5, <1>10, <1>11 DEF SessionSound
  <2> QED BY <1>5, <1>7, <1>10, <2>1 DEF SessionSound, RunSound
<1>13. /\ r.current = NoPause /\ r.pending = NoPause
       /\ r.done => outcome = "ended"
  BY <1>4, <1>5, <1>8, <1>10, <1>11 DEF RunSound, SessionSound
<1>14. /\ outcome \in {"ended", "halted", "failed"} /\ outcome # "halted"
       /\ outcome = "ended" => ~end.reverts
  BY <1>8
<1>15. PICK n : n = [q EXCEPT !.at = "settle", !.outcome = outcome]
  OBVIOUS
<1>16. Update(c, n) /\ sessions' = [sessions EXCEPT ![q.session] = r]
  BY <1>3, <1>8, <1>9, <1>15
<1> QED
  BY <1>1, <1>2, <1>4, <1>7, <1>10, <1>12, <1>13, <1>14, <1>15, <1>16, RunStepSound

\* A session keeps what a run relies on.
LEMMA SameIs ==
  ASSUME Sound, NEW t \in DOMAIN sessions
  PROVE  [sessions EXCEPT ![t] = sessions[t]] = sessions
<1>1. IsSequence(sessions)
  BY DEF Sound
<1>2. sessions \in Seq({sessions[i] : i \in DOMAIN sessions})
  BY <1>1 DEF IsSequence
<1>3. sessions = [i \in DOMAIN sessions |-> sessions[i]]
  BY <1>2
<1> QED
  BY <1>3

\* The handler writes the outcome of its run back into the session.
LEMMA SettledSound ==
  ASSUME NEW s, SessionSound(s), NEW q, q.at = "settle", RunSound(q, s),
         q.outcome \in {"ended", "halted", "failed"}
  PROVE  /\ SessionSound(Settled(s, q.outcome))
         /\ Settled(s, q.outcome).traced = s.traced
         /\ s.done => Settled(s, q.outcome).done
<1>1. CASE s.pending # NoPause
  <2>1. PICK r : r = [s EXCEPT !.current = s.pending, !.position = s.pending.step,
                               !.done = FALSE]
    OBVIOUS
  <2>2. Settled(s, q.outcome) = r
    BY <1>1, <2>1 DEF Settled
  <2>3. /\ DOMAIN r = SessionFields /\ r.pending = s.pending /\ r.lastStep = s.lastStep
        /\ r.position = s.pending.step /\ r.end = s.end /\ ~r.done
        /\ r.done = FALSE /\ r.traced = s.traced
    BY <2>1 DEF SessionSound, SessionFields
  <2>4. ~s.done /\ s.traced
    BY <1>1 DEF RunSound
  <2>5. SessionSound(r)
    BY <2>3, <2>4 DEF SessionSound
  <2> QED BY <2>2, <2>3, <2>4, <2>5
<1>2. CASE s.pending = NoPause /\ q.outcome = "failed"
  <2>1. Settled(s, q.outcome) = s
    BY <1>2 DEF Settled
  <2> QED BY <2>1
<1>3. CASE s.pending = NoPause /\ q.outcome # "failed"
  <2>1. PICK r : r = [s EXCEPT !.current = NoPause, !.position = s.lastStep, !.done = TRUE]
    OBVIOUS
  <2>2. Settled(s, q.outcome) = r
    BY <1>3, <2>1 DEF Settled
  <2>3. /\ DOMAIN r = SessionFields /\ r.pending = s.pending /\ r.lastStep = s.lastStep
        /\ r.position = s.lastStep /\ r.end = s.end /\ r.done /\ r.done = TRUE
        /\ r.current = NoPause /\ r.traced = s.traced
    BY <2>1 DEF SessionSound, SessionFields
  <2>4. s.traced /\ s.end # Open /\ ~s.end.reverts /\ s.lastStep = s.end.last
    BY <1>3 DEF RunSound
  <2>5. SessionSound(r)
    BY <2>3, <2>4 DEF SessionSound
  <2> QED BY <2>2, <2>3, <2>5
<1> QED
  BY <1>1, <1>2, <1>3

LEMMA SettleSound ==
  ASSUME Sound, NEW c \in Clients, Settle(c)
  PROVE  Sound'
<1>1. PICK q : q = client[c]
  OBVIOUS
<1>2. PICK t : t = q.session
  OBVIOUS
<1>3. PICK s : s = sessions[t]
  OBVIOUS
<1>4. PICK r : r = Settled(s, q.outcome)
  OBVIOUS
<1>5. PICK failed : failed = (q.outcome = "failed" /\ s.pending = NoPause)
  OBVIOUS
<1>6. PICK n : n = AfterRun(q, r, failed)
  OBVIOUS
<1>7. /\ q.at = "settle" /\ sequence' = sequence
      /\ sessions' = [sessions EXCEPT ![t] = r] /\ Update(c, n)
  BY <1>1, <1>2, <1>3, <1>4, <1>5, <1>6 DEF Settle
<1>8. RequestOK(q) /\ StepSound(q) /\ Running(c)
  BY <1>1, <1>7, ClientIs DEF Running
<1>9. t \in DOMAIN sessions /\ SessionSound(s) /\ RunSound(q, s)
  BY <1>1, <1>2, <1>3, <1>8, RunIs
<1>10. SessionSound(r) /\ r.traced = s.traced /\ (s.done => r.done)
  <2>1. q.outcome \in {"ended", "halted", "failed"}
    BY <1>8 DEF RequestOK
  <2> QED BY <1>4, <1>7, <1>9, <2>1, SettledSound
<1>11. sessions[t].traced /\ r.traced = sessions[t].traced /\ (sessions[t].done => r.done)
  BY <1>3, <1>9, <1>10 DEF RunSound
<1>12. /\ DOMAIN sessions' = DOMAIN sessions /\ sessions'[t] = r
       /\ \A x \in DOMAIN sessions : sessions[x].done => sessions'[x].done
  BY <1>7, <1>9, <1>10, <1>11, TouchIs
<1>13. \/ n = Idle
       \/ q.then = "carry" /\ n = [q EXCEPT !.at = "carry"]
       \/ q.then # "carry" /\ n = [q EXCEPT !.at = "begin", !.last = r.current.step]
  BY <1>6 DEF AfterRun
<1>14. \A d \in Clients \ {c} : Running(d) => client[d].session # t
  BY <1>1, <1>2, <1>8, RunIs
<1>15. CASE n = Idle
  <2>1. RequestOK(n)' /\ StepSound(n)' /\ n.at = "idle" /\ n.then = "reply"
    BY <1>15 DEF RequestOK, StepSound, Idle, RequestFields
  <2> QED BY <1>7, <1>9, <1>10, <1>11, <1>14, <2>1, WorkSound
<1>16. CASE q.then = "carry" /\ n = [q EXCEPT !.at = "carry"]
  <2>1. /\ DOMAIN n = RequestFields /\ n.at = "carry" /\ n.session = t /\ n.then = "carry"
        /\ n.index = q.index /\ n.outcome = q.outcome
    BY <1>2, <1>8, <1>16 DEF RequestOK, RequestFields
  <2>2. RequestOK(n)'
    BY <1>8, <1>9, <1>12, <2>1 DEF RequestOK
  <2>3. StepSound(n)'
    <3>1. n.at # "start" /\ n.then = q.then
      BY <1>16, <2>1
    <3> QED BY <1>7, <1>8, <1>12, <2>1, <3>1, StepSoundStays
  <2>4. c \in Stepping
    BY <1>1, <1>16, ClientIs
  <2>5. n.at \notin {"run", "settle"}
    BY <2>1
  <2> QED BY <1>7, <1>9, <1>10, <1>11, <1>14, <2>2, <2>3, <2>4, <2>5, WorkSound
<1>17. CASE q.then # "carry" /\ n = [q EXCEPT !.at = "begin", !.last = r.current.step]
  <2>1. /\ DOMAIN n = RequestFields /\ n.at = "begin" /\ n.session = t /\ n.then = q.then
        /\ n.index = q.index /\ n.outcome = q.outcome
    BY <1>2, <1>8, <1>17 DEF RequestOK, RequestFields
  <2>2. RequestOK(n)'
    BY <1>8, <1>9, <1>11, <1>12, <2>1 DEF RequestOK
  <2>3. StepSound(n)'
    <3>1. n.at # "start"
      BY <2>1
    <3> QED BY <1>7, <1>8, <1>12, <2>1, <3>1, StepSoundStays
  <2>4. n.at \notin {"run", "settle", "start", "carry", "publish"} /\ n.then # "carry"
    BY <1>17, <2>1
  <2> QED BY <1>7, <1>9, <1>10, <1>11, <1>14, <2>2, <2>3, <2>4, WorkSound
<1> QED
  BY <1>13, <1>15, <1>16, <1>17

LEMMA UnavailableSound ==
  ASSUME Sound, NEW c \in Clients, Unavailable(c)
  PROVE  Sound'
<1>1. Update(c, Idle) /\ UNCHANGED <<sessions, sequence>>
  BY DEF Unavailable
<1> QED
  BY <1>1, GivenUpSound

LEMMA UnchangedSound ==
  ASSUME Sound, UNCHANGED <<sessions, sequence, client>>
  PROVE  Sound'
<1>1. Alone'
  BY DEF Sound, Alone, Stepping, Running
<1>2. IsSequence(sessions)' /\ (\A s \in DOMAIN sessions : SessionSound(sessions[s]))'
  BY DEF Sound, IsSequence, SessionSound
<1>3. SequenceOK' /\ (DOMAIN client = Clients)'
  BY DEF Sound, SequenceOK, Begun
<1>4. (\A c \in Clients : ClientOK(c))'
  BY DEF Sound, ClientOK, RequestOK, StepSound, Begun, Running, RunSound
<1> QED
  BY <1>1, <1>2, <1>3, <1>4 DEF Sound

-----------------------------------------------------------------------------

\* The session of a step: a replay without steps is done from the start.
LEMMA NewSessionIs ==
  ASSUME NEW spec, NEW traced \in BOOLEAN
  PROVE  /\ SessionSound(NewSession(spec, traced))
         /\ NewSession(spec, traced).traced = traced
<1>1. MaxLength \in Nat
  BY SequenceAssumption
<1>2. CASE traced = TRUE
  <2>1. PICK r : r = NewSession(spec, traced)
    OBVIOUS
  <2>2. /\ DOMAIN r = SessionFields /\ r.position = -1 /\ r.lastStep = -1
        /\ r.pending = NoPause /\ r.current = NoPause
        /\ r.done = FALSE /\ r.traced = TRUE /\ r.end = Open
    BY <1>2, <2>1 DEF NewSession, SessionFields
  <2>3. NoPause.step = -1 /\ -1 \in -1 .. MaxLength - 1
    BY <1>1 DEF NoPause
  <2>4. SessionSound(r)
    BY <2>2, <2>3 DEF SessionSound
  <2> QED BY <1>2, <2>1, <2>2, <2>4
<1>3. CASE traced = FALSE
  <2>1. PICK r : r = NewSession(spec, traced)
    OBVIOUS
  <2>2. /\ DOMAIN r = SessionFields /\ r.position = -1 /\ r.lastStep = -1
        /\ r.pending = NoPause /\ r.current = NoPause
        /\ r.done = TRUE /\ r.traced = FALSE /\ r.end = Untouched
    BY <1>3, <2>1 DEF NewSession, SessionFields, Untouched
  <2>3. NoPause.step = -1 /\ -1 \in -1 .. MaxLength - 1
    BY <1>1 DEF NoPause
  <2>4. /\ Untouched.last = -1 /\ ~Untouched.reverts /\ Untouched # Open
        /\ Untouched \in EndsAfter(-1)
    <3>1. Untouched.last = -1 /\ ~Untouched.reverts /\ Open.last = -2
      BY DEF Untouched, Open
    <3> QED BY <2>3, <3>1 DEF Untouched, EndsAfter
  <2>5. SessionSound(r)
    BY <2>2, <2>3, <2>4 DEF SessionSound
  <2> QED BY <1>3, <2>1, <2>2, <2>5
<1> QED
  BY <1>2, <1>3

\* The next step of a sequence is started.
LEMMA StartStepSound ==
  ASSUME Sound, NEW c \in Clients, NEW index, NEW request, StartStep(c, index, request),
         sequence' = sequence,
         DOMAIN request = RequestFields, request.outcome \in {"ended", "halted", "failed"},
         index = (IF Begun THEN sequence.index + 1 ELSE 0),
         index \in 0 .. Len(Steps) - 1,
         Begun => ~sequence.done /\ sessions[sequence.active].done,
         \A d \in Stepping : d = c
  PROVE  Sound'
<1>1. PICK spec : spec = Steps[index + 1]
  OBVIOUS
<1>2. PICK t : t = Len(sessions) + 1
  OBVIOUS
<1>3. PICK traced \in BOOLEAN :
        /\ sessions' = Append(sessions, NewSession(spec, traced))
        /\ Update(c, [request EXCEPT
                         !.at = IF spec.kind = "replay" /\ traced THEN "begin" ELSE "carry",
                         !.session = t, !.then = "carry", !.index = index])
  <2>1. (IF spec.kind = "call" THEN {TRUE} ELSE BOOLEAN) \subseteq BOOLEAN
    OBVIOUS
  <2> QED BY <1>1, <1>2, <2>1 DEF StartStep
<1>4. PICK new : new = NewSession(spec, traced)
  OBVIOUS
<1>5. SessionSound(new) /\ new.traced = traced
  BY <1>4, NewSessionIs
<1>6. PICK at : at = IF spec.kind = "replay" /\ traced THEN "begin" ELSE "carry"
  OBVIOUS
<1>7. PICK n : n = [request EXCEPT !.at = at, !.session = t, !.then = "carry",
                                   !.index = index]
  OBVIOUS
<1>8. Update(c, n) /\ sessions' = Append(sessions, new)
  BY <1>3, <1>4, <1>6, <1>7
<1>9. /\ DOMAIN n = RequestFields /\ n.at = at /\ n.session = t /\ n.then = "carry"
      /\ n.index = index /\ n.outcome = request.outcome
  BY <1>7 DEF RequestFields
<1>10. at \in {"begin", "carry"} /\ (at = "begin" => traced)
  BY <1>6
<1>11. /\ IsSequence(sessions') /\ sessions'[t] = new /\ t \in DOMAIN sessions'
       /\ DOMAIN sessions \subseteq DOMAIN sessions'
       /\ \A s \in DOMAIN sessions : sessions'[s] = sessions[s]
       /\ \A s \in DOMAIN sessions' : s \in DOMAIN sessions \/ s = t
  <2>1. IsSequence(sessions)
    BY DEF Sound
  <2>2. /\ Len(sessions) \in Nat /\ DOMAIN sessions = 1 .. Len(sessions)
    BY <2>1, SequenceIs
  <2>3. /\ IsSequence(sessions') /\ DOMAIN sessions' = 1 .. Len(sessions) + 1
        /\ \A i \in DOMAIN sessions : sessions'[i] = sessions[i]
        /\ sessions'[Len(sessions) + 1] = new
    BY <1>8, <2>1, AppendIs
  <2> QED BY <1>2, <2>2, <2>3
<1>12. /\ DOMAIN client' = Clients /\ client'[c] = n
       /\ \A d \in Clients \ {c} : client'[d] = client[d]
  BY <1>8, UpdateIs
<1>13. \A s \in DOMAIN sessions' : SessionSound(sessions'[s])
  BY <1>5, <1>11 DEF Sound
<1>14. ASSUME NEW d \in Clients \ {c}, Running(d)
       PROVE sessions'[client[d].session] = sessions[client[d].session]
  <2> client[d].session \in DOMAIN sessions
    BY <1>14 DEF Sound, ClientOK, RequestOK, Running
  <2> QED BY <1>11
<1>15. RequestOK(n)'
  <2>1. n.at \in {"begin", "carry"} /\ n.outcome \in {"ended", "halted", "failed"}
    BY <1>9, <1>10
  <2>2. n.at = "begin" => sessions'[n.session].traced
    BY <1>5, <1>9, <1>10, <1>11
  <2>3. n.session \in DOMAIN sessions'
    BY <1>9, <1>11
  <2> QED BY <1>9, <2>1, <2>2, <2>3 DEF RequestOK
<1>16. StepSound(n)'
  <2>1. Begun' = Begun
    BY DEF Begun
  <2>2. Begun => sequence.active \in DOMAIN sessions
    BY DEF Sound, SequenceOK
  <2>3. Begun => ~sequence.done /\ sessions'[sequence.active].done
    BY <1>11, <2>2
  <2>4. n.at # "start"
    BY <1>9, <1>10
  <2> QED BY <1>9, <2>1, <2>3, <2>4 DEF StepSound
<1>17. ~Running(c)'
  BY <1>9, <1>10, <1>12 DEF Running
<1>18. ClientOK(c)'
  <2>1. RequestOK(client[c])' /\ StepSound(client[c])'
    BY <1>12, <1>15, <1>16 DEF RequestOK, StepSound
  <2> QED BY <1>17, <2>1 DEF ClientOK
<1>19. SequenceOK'
  BY <1>11, SequenceStays
<1>20. \A s \in DOMAIN sessions :
         /\ sessions'[s].traced = sessions[s].traced
         /\ sessions[s].done => sessions'[s].done
  BY <1>11
<1> QED
  BY <1>11, <1>12, <1>13, <1>14, <1>17, <1>18, <1>19, <1>20, StepKeeps

LEMMA StartSequenceSound ==
  ASSUME Sound, NEW c \in Clients, NEW requested, StartSequence(c, requested)
  PROVE  Sound'
<1>1. PICK k : k = IF requested = "full" THEN "mutation-only" ELSE requested
  OBVIOUS
<1>2. PICK n : n = [Idle EXCEPT !.carry = k]
  OBVIOUS
<1>3. /\ StartStep(c, 0, n) /\ sequence = NoSequence /\ Stepping = {}
      /\ sequence' = sequence
  BY <1>1, <1>2 DEF StartSequence
<1>4. DOMAIN n = RequestFields /\ n.outcome \in {"ended", "halted", "failed"}
  BY <1>2 DEF Idle, RequestFields
<1>5. ~Begun
  BY <1>3 DEF Begun
<1>6. PICK i : i = 0
  OBVIOUS
<1>7. i = (IF Begun THEN sequence.index + 1 ELSE 0) /\ StartStep(c, i, n)
  BY <1>3, <1>5, <1>6
<1>8. i \in 0 .. Len(Steps) - 1
  BY <1>6, SequenceAssumption
<1> QED
  BY <1>3, <1>4, <1>5, <1>7, <1>8, StartStepSound

\* What is known of a client that is about to start the next step.
LEMMA StartIs ==
  ASSUME Sound, NEW c \in Clients, client[c].at = "start"
  PROVE  /\ Begun /\ sequence.done = FALSE
         /\ sequence.index \in 0 .. Len(Steps) - 1
         /\ sequence.active \in DOMAIN sessions
         /\ sessions[sequence.active].done
         /\ \A d \in Stepping : d = c
<1>1. StepSound(client[c]) /\ c \in Stepping
  BY ClientIs
<1>2. Begun /\ ~sequence.done /\ sessions[sequence.active].done
  BY <1>1 DEF StepSound
<1> QED
  BY <1>1, <1>2 DEF Sound, SequenceOK, Alone

LEMMA StartNextSound ==
  ASSUME Sound, NEW c \in Clients, StartNext(c)
  PROVE  Sound'
<1>1. PICK q : q = client[c]
  OBVIOUS
<1>2. PICK i : i = sequence.index + 1
  OBVIOUS
<1>3. /\ q.at = "start" /\ sequence.index + 1 < Len(Steps)
      /\ StartStep(c, i, q) /\ sequence' = sequence
  BY <1>1, <1>2 DEF StartNext
<1>4. /\ Begun /\ ~sequence.done /\ sequence.index \in 0 .. Len(Steps) - 1
      /\ sessions[sequence.active].done /\ \A d \in Stepping : d = c
  BY <1>1, <1>3, StartIs
<1>5. RequestOK(q)
  BY <1>1, ClientIs
<1>6. DOMAIN q = RequestFields /\ q.outcome \in {"ended", "halted", "failed"}
  BY <1>5 DEF RequestOK
<1>7. i \in 0 .. Len(Steps) - 1
  <2>1. Len(Steps) \in Nat
    BY SequenceAssumption
  <2> QED BY <1>2, <1>3, <1>4, <2>1
<1>8. i = (IF Begun THEN sequence.index + 1 ELSE 0)
  BY <1>2, <1>4
<1> QED
  BY <1>3, <1>4, <1>6, <1>7, <1>8, StartStepSound

\* A step that writes the sequence and no session.
LEMMA SequenceStepSound ==
  ASSUME Sound, NEW c \in Clients, NEW n, Update(c, n), sessions' = sessions,
         SequenceOK', RequestOK(n)', StepSound(n)', n.at \notin {"run", "settle"},
         \A d \in Stepping : d = c
  PROVE  Sound'
<1>1. /\ DOMAIN client' = Clients /\ client'[c] = n
      /\ \A d \in Clients \ {c} : client'[d] = client[d]
  BY UpdateIs
<1>2. ~Running(c)'
  BY <1>1 DEF Running
<1>3. ClientOK(c)'
  <2>1. RequestOK(client[c])' /\ StepSound(client[c])'
    BY <1>1 DEF RequestOK, StepSound
  <2> QED BY <1>2, <2>1 DEF ClientOK
<1>4. IsSequence(sessions')
  BY DEF Sound
<1> QED
  BY <1>1, <1>2, <1>3, <1>4, StepKeeps DEF Sound

\* nextStepSession leaves the step: what it changes of the sequence.
LEMMA NextStepIs ==
  ASSUME Sound, NEW c \in Clients, NextStep(c), ~overlapped'
  PROVE  /\ sessions' = sessions
         /\ sequence.index \in 0 .. Len(Steps) - 1 /\ Begun /\ Begun'
         /\ sequence'.index = sequence.index
         /\ sequence'.active = sequence.active
         /\ sequence.active \in DOMAIN sessions
         /\ sequence'.done = FALSE
         /\ DOMAIN sequence' = SequenceFields
         /\ sessions[sequence.active].done
         /\ Stepping = {}
         /\ \/ Update(c, [Idle EXCEPT !.at = "start"])
            \/ \E p : Update(c, [Idle EXCEPT !.at = "start", !.patch = p])
<1>1. /\ sequence # NoSequence /\ ~sequence.done /\ sessions[sequence.active].done
      /\ sessions' = sessions /\ Stepping = {}
  BY DEF NextStep, Completed
<1>2. /\ sequence.index \in 0 .. Len(Steps) - 1 /\ sequence.active \in DOMAIN sessions
      /\ DOMAIN sequence = SequenceFields /\ sequence.done = FALSE /\ Begun
  BY <1>1 DEF Sound, SequenceOK, Begun
<1>3. \/ sequence' = [sequence EXCEPT !.lastCompleted = sequence.active]
      \/ \E x : sequence' = [sequence EXCEPT !.lastCompleted = sequence.active,
                                             !.exported = x]
  BY DEF NextStep
<1>4. /\ DOMAIN sequence' = SequenceFields
      /\ sequence'.index = sequence.index /\ sequence'.active = sequence.active
      /\ sequence'.done = sequence.done
  BY <1>2, <1>3 DEF SequenceFields
<1>5. Begun'
  <2>1. sequence'.index # -1
    BY <1>2, <1>4, SequenceAssumption
  <2> QED BY <2>1 DEF Begun, NoSequence
<1>6. \/ Update(c, [Idle EXCEPT !.at = "start"])
      \/ \E p : Update(c, [Idle EXCEPT !.at = "start", !.patch = p])
  BY DEF NextStep
<1> QED
  BY <1>1, <1>2, <1>4, <1>5, <1>6

LEMMA NextStepSound ==
  ASSUME Sound, NEW c \in Clients, NextStep(c), ~overlapped'
  PROVE  Sound'
<1>1. /\ sessions' = sessions /\ Stepping = {}
      /\ sequence'.index \in 0 .. Len(Steps) - 1 /\ Begun'
      /\ sequence'.active \in DOMAIN sessions
      /\ sequence'.done = FALSE /\ DOMAIN sequence' = SequenceFields
      /\ sessions'[sequence'.active].done
  BY NextStepIs
<1>2. PICK n : /\ Update(c, n)
               /\ \/ n = [Idle EXCEPT !.at = "start"]
                  \/ \E p : n = [Idle EXCEPT !.at = "start", !.patch = p]
  BY NextStepIs
<1>3. DOMAIN n = RequestFields /\ n.at = "start" /\ n.then = "reply" /\ n.outcome = "ended"
  BY <1>2 DEF Idle, RequestFields
<1>4. SequenceOK'
  BY <1>1 DEF SequenceOK
<1>5. RequestOK(n)' /\ StepSound(n)'
  BY <1>1, <1>3 DEF RequestOK, StepSound
<1> QED
  BY <1>1, <1>2, <1>3, <1>4, <1>5, SequenceStepSound

\* The last step is left: the sequence is over.
LEMMA EndSequenceIs ==
  ASSUME Sound, NEW c \in Clients, EndSequence(c)
  PROVE  /\ sessions' = sessions /\ Update(c, Idle)
         /\ sequence.index = Len(Steps) - 1 /\ sequence.index \in 0 .. Len(Steps) - 1
         /\ sequence'.index = sequence.index /\ sequence'.done = TRUE
         /\ DOMAIN sequence' = SequenceFields
         /\ sequence.active \in DOMAIN sessions /\ sessions[sequence.active].done
         /\ \A d \in Stepping : d = c
<1>1. /\ client[c].at = "start" /\ sequence.index + 1 >= Len(Steps)
      /\ sequence' = [sequence EXCEPT !.done = TRUE, !.active = 0]
      /\ Update(c, Idle) /\ sessions' = sessions
  BY DEF EndSequence
<1>2. /\ sequence.index \in 0 .. Len(Steps) - 1 /\ \A d \in Stepping : d = c
      /\ sequence.active \in DOMAIN sessions /\ sessions[sequence.active].done
  BY <1>1, StartIs
<1>3. sequence.index = Len(Steps) - 1
  <2>1. Len(Steps) \in Nat
    BY SequenceAssumption
  <2> QED BY <1>1, <1>2, <2>1
<1>4. DOMAIN sequence = SequenceFields
  BY DEF Sound, SequenceOK
<1> QED
  BY <1>1, <1>2, <1>3, <1>4 DEF SequenceFields

LEMMA EndSequenceSound ==
  ASSUME Sound, NEW c \in Clients, EndSequence(c)
  PROVE  Sound'
<1>1. /\ sessions' = sessions /\ Update(c, Idle) /\ \A d \in Stepping : d = c
      /\ sequence'.index \in 0 .. Len(Steps) - 1 /\ sequence'.done = TRUE
      /\ DOMAIN sequence' = SequenceFields
  BY EndSequenceIs
<1>2. SequenceOK'
  BY <1>1 DEF SequenceOK
<1>3. PICK n : n = Idle
  OBVIOUS
<1>4. RequestOK(n)' /\ StepSound(n)' /\ n.at \notin {"run", "settle"}
  BY <1>3 DEF RequestOK, StepSound, Idle, RequestFields
<1> QED
  BY <1>1, <1>2, <1>3, <1>4, SequenceStepSound

\* The patches of the step that was left are carried over.
LEMMA CarryOverSound ==
  ASSUME Sound, NEW c \in Clients, CarryOver(c), ~overlapped'
  PROVE  Sound'
<1>1. PICK q : q = client[c]
  OBVIOUS
<1>2. PICK t : t = q.session
  OBVIOUS
<1>3. PICK n : n = [q EXCEPT !.at = "publish"]
  OBVIOUS
<1>4. q.at = "carry" /\ sequence' = sequence /\ ~Busy(t)
  BY <1>1, <1>2 DEF CarryOver
<1>5. RequestOK(q) /\ StepSound(q) /\ c \in Stepping
  BY <1>1, <1>4, ClientIs
<1>6. t \in DOMAIN sessions
  BY <1>2, <1>4, <1>5 DEF RequestOK
<1>7. SessionSound(sessions[t])
  BY <1>6 DEF Sound
<1>8. \/ Update(c, Idle) /\ sessions' = sessions
      \/ Update(c, n) /\ sessions' = sessions
      \/ /\ Update(c, n) /\ ~(sessions[t].position >= 0)
         /\ \E m : sessions' = [sessions EXCEPT ![t] = Rewritten(sessions[t], m)]
  <2>1. PICK ids : ids = <<q.patch>>
    OBVIOUS
  <2>2. \/ sessions' = sessions /\ Update(c, n)
        \/ sessions' = sessions /\ Update(c, Idle)
        \/ /\ ~Refused(sessions[t], ids) /\ Update(c, n)
           /\ sessions' = [sessions EXCEPT ![t] =
                             Rewritten(@, Merged(@, ids, "append"))]
    BY <1>1, <1>2, <1>3, <2>1 DEF CarryOver
  <2>3. ~Refused(sessions[t], ids) => ~(sessions[t].position >= 0)
    BY DEF Refused
  <2> QED BY <2>2, <2>3
<1>9. /\ DOMAIN n = RequestFields /\ n.at = "publish" /\ n.session = t /\ n.then = q.then
      /\ n.index = q.index /\ n.outcome = q.outcome
  BY <1>2, <1>3, <1>5 DEF RequestOK, RequestFields
<1>10. ASSUME NEW r, Update(c, n), sessions' = [sessions EXCEPT ![t] = r],
              SessionSound(r), r.traced = sessions[t].traced,
              sessions[t].done => r.done
       PROVE Sound'
  <2>1. /\ DOMAIN sessions' = DOMAIN sessions
        /\ \A x \in DOMAIN sessions : sessions[x].done => sessions'[x].done
    BY <1>6, <1>10, TouchIs
  <2>2. RequestOK(n)'
    <3>1. q.then = "carry"
      BY <1>4, <1>5 DEF RequestOK
    <3> QED BY <1>5, <1>6, <1>9, <2>1, <3>1 DEF RequestOK
  <2>3. StepSound(n)'
    <3>1. n.at # "start"
      BY <1>9
    <3> QED BY <1>4, <1>5, <1>9, <2>1, <3>1, StepSoundStays
  <2>4. \A d \in Clients \ {c} : Running(d) => client[d].session # t
    BY <1>4, BusyIs
  <2>5. n.at \notin {"run", "settle"}
    BY <1>9
  <2> QED BY <1>4, <1>5, <1>6, <1>10, <2>2, <2>3, <2>4, <2>5, WorkSound
<1>11. CASE Update(c, Idle) /\ sessions' = sessions
  BY <1>4, <1>11, GivenUpSound
<1>12. CASE Update(c, n) /\ sessions' = sessions
  <2>1. PICK r : r = sessions[t]
    OBVIOUS
  <2>2. [sessions EXCEPT ![t] = sessions[t]] = sessions
    BY <1>6, SameIs
  <2>3. sessions' = [sessions EXCEPT ![t] = r]
    BY <1>12, <2>1, <2>2
  <2> QED BY <1>7, <1>10, <1>12, <2>1, <2>3
<1>13. CASE /\ Update(c, n) /\ ~(sessions[t].position >= 0)
            /\ \E m : sessions' = [sessions EXCEPT ![t] = Rewritten(sessions[t], m)]
  <2>1. PICK m : sessions' = [sessions EXCEPT ![t] = Rewritten(sessions[t], m)]
    BY <1>13
  <2>2. PICK s : s = sessions[t]
    OBVIOUS
  <2>3. PICK r : r = Rewritten(s, m)
    OBVIOUS
  <2>4. SessionSound(s) /\ s.position < 0
    <3>1. s.position \in -1 .. MaxLength - 1
      BY <1>7, <2>2 DEF SessionSound
    <3> QED BY <1>7, <1>13, <2>2, <3>1, SequenceAssumption
  <2>5. SessionSound(r) /\ r.traced = s.traced /\ r.done = s.done
    BY <2>3, <2>4, RewrittenIs
  <2>6. sessions' = [sessions EXCEPT ![t] = r]
    BY <2>1, <2>2, <2>3
  <2> QED BY <1>10, <1>13, <2>2, <2>5, <2>6
<1> QED
  BY <1>8, <1>11, <1>12, <1>13

\* The step started by the request becomes the one being debugged.
LEMMA PublishIs ==
  ASSUME Sound, NEW c \in Clients, Publish(c)
  PROVE  /\ sessions' = sessions /\ Update(c, Idle)
         /\ DOMAIN sequence' = SequenceFields
         /\ sequence'.index \in 0 .. Len(Steps) - 1
         /\ sequence'.active \in DOMAIN sessions /\ sequence'.done = FALSE
         /\ Begun => /\ sequence'.index = sequence.index + 1
                     /\ sequence.active \in DOMAIN sessions
                     /\ sessions[sequence.active].done
         /\ \A d \in Stepping : d = c
<1>1. PICK q : q = client[c]
  OBVIOUS
<1>2. q.at = "publish" /\ Update(c, Idle) /\ sessions' = sessions
  BY <1>1 DEF Publish
<1>3. RequestOK(q) /\ StepSound(q) /\ c \in Stepping
  BY <1>1, <1>2, ClientIs
<1>4. q.then = "carry" /\ q.session \in DOMAIN sessions
  BY <1>2, <1>3 DEF RequestOK
<1>5. /\ q.index = (IF Begun THEN sequence.index + 1 ELSE 0)
      /\ q.index \in 0 .. Len(Steps) - 1
      /\ Begun => ~sequence.done /\ sessions[sequence.active].done
  BY <1>3, <1>4 DEF StepSound
<1>6. \A d \in Stepping : d = c
  BY <1>3 DEF Sound, Alone
<1>7. CASE ~Begun
  <2>1. \E x : sequence' = [NoSequence EXCEPT !.index = 0, !.active = q.session, !.carry = x]
    BY <1>1, <1>7 DEF Publish, Begun
  <2>2. /\ DOMAIN sequence' = SequenceFields /\ sequence'.index = 0
        /\ sequence'.active = q.session /\ sequence'.done = FALSE
    BY <2>1 DEF NoSequence, SequenceFields
  <2> QED BY <1>2, <1>4, <1>5, <1>6, <1>7, <2>2
<1>8. CASE Begun
  <2>1. sequence' = [sequence EXCEPT !.index = q.index, !.active = q.session]
    BY <1>1, <1>8 DEF Publish, Begun
  <2>2. /\ DOMAIN sequence = SequenceFields /\ sequence.done = FALSE
        /\ sequence.active \in DOMAIN sessions
    BY <1>5, <1>8 DEF Sound, SequenceOK
  <2>3. /\ DOMAIN sequence' = SequenceFields /\ sequence'.index = q.index
        /\ sequence'.active = q.session /\ sequence'.done = FALSE
    BY <2>1, <2>2 DEF SequenceFields
  <2> QED BY <1>2, <1>4, <1>5, <1>6, <1>8, <2>2, <2>3
<1> QED
  BY <1>7, <1>8

LEMMA PublishSound ==
  ASSUME Sound, NEW c \in Clients, Publish(c)
  PROVE  Sound'
<1>1. /\ sessions' = sessions /\ Update(c, Idle) /\ \A d \in Stepping : d = c
      /\ DOMAIN sequence' = SequenceFields /\ sequence'.index \in 0 .. Len(Steps) - 1
      /\ sequence'.active \in DOMAIN sessions /\ sequence'.done = FALSE
  BY PublishIs
<1>2. SequenceOK'
  BY <1>1 DEF SequenceOK
<1>3. PICK n : n = Idle
  OBVIOUS
<1>4. RequestOK(n)' /\ StepSound(n)' /\ n.at \notin {"run", "settle"}
  BY <1>3 DEF RequestOK, StepSound, Idle, RequestFields
<1> QED
  BY <1>1, <1>2, <1>3, <1>4, SequenceStepSound

-----------------------------------------------------------------------------

\* The invariant holds at the start, and every step keeps it.
LEMMA InitSound == Init => Sound
<1> SUFFICES ASSUME Init PROVE Sound
  OBVIOUS
<1>1. DOMAIN client = Clients /\ \A c \in Clients : client[c] = Idle
  BY DEF Init
<1>2. IsSequence(sessions) /\ DOMAIN sessions = {}
  BY DEF Init, IsSequence
<1>3. \A c \in Clients : ~Running(c) /\ c \notin Stepping
  BY <1>1 DEF Running, Stepping, Idle
<1>4. Alone
  <2> Stepping \subseteq Clients
    BY DEF Stepping
  <2> QED BY <1>3 DEF Alone
<1>5. SequenceOK
  BY DEF Init, SequenceOK, NoSequence, SequenceFields, Begun
<1>6. RequestOK(Idle) /\ StepSound(Idle)
  BY DEF RequestOK, StepSound, Idle, RequestFields
<1>7. \A c \in Clients : ClientOK(c)
  BY <1>1, <1>3, <1>6 DEF ClientOK
<1> QED
  BY <1>1, <1>2, <1>4, <1>5, <1>7 DEF Sound

\* Who overlapped once has overlapped for good.
LEMMA OverlappedStays ==
  ASSUME [Next]_vars, ~overlapped'
  PROVE  ~overlapped
<1>1. CASE UNCHANGED vars
  BY <1>1 DEF vars
<1>2. ASSUME NEW c \in Clients, Requests(c) \/ Handlers(c) \/ Unavailable(c)
      PROVE ~overlapped
  BY <1>2 DEF Requests, StartSequence, NextStep, Advance, Write, ExportPatch, ImportPatch,
              Handlers, Begin, RunStops, RunEnds, Settle, StartNext, EndSequence, CarryOver,
              Publish, Unavailable
<1> QED
  BY <1>1, <1>2 DEF Next

LEMMA RequestsSound ==
  ASSUME Sound, NEW c \in Clients, Requests(c), ~overlapped'
  PROVE  Sound'
<1>1. \A s \in Addressed : s \in DOMAIN sessions
  BY DEF Addressed
<1>2. ASSUME NEW carry, StartSequence(c, carry) PROVE Sound'
  BY <1>2, StartSequenceSound
<1>3. CASE NextStep(c)
  BY <1>3, NextStepSound
<1>4. ASSUME NEW s \in DOMAIN sessions, NEW all, Advance(c, s, all) PROVE Sound'
  BY <1>4, AdvanceSound
<1>5. ASSUME NEW s \in DOMAIN sessions, NEW w, Write(c, s, w) PROVE Sound'
  BY <1>5, WriteSound
<1>6. ASSUME NEW s, NEW scope, ExportPatch(c, s, scope) PROVE Sound'
  <2> UNCHANGED <<sessions, sequence, client>>
    BY <1>6 DEF ExportPatch
  <2> QED BY UnchangedSound
<1>7. ASSUME NEW s \in DOMAIN sessions, NEW ids, NEW merge, ImportPatch(c, s, ids, merge)
      PROVE Sound'
  BY <1>7, ImportSound
<1> QED
  BY <1>1, <1>2, <1>3, <1>4, <1>5, <1>6, <1>7 DEF Requests

LEMMA HandlersSound ==
  ASSUME Sound, NEW c \in Clients, Handlers(c), ~overlapped'
  PROVE  Sound'
BY BeginSound, RunStopsSound, RunEndsSound, SettleSound, StartNextSound, EndSequenceSound,
   CarryOverSound, PublishSound DEF Handlers

LEMMA StepStaysSound ==
  ASSUME OneAtATime, [Next]_vars
  PROVE  OneAtATime'
<1> SUFFICES ASSUME ~overlapped' PROVE Sound'
  BY DEF OneAtATime
<1>1. Sound
  BY OverlappedStays DEF OneAtATime
<1>2. CASE UNCHANGED vars
  <2> UNCHANGED <<sessions, sequence, client>>
    BY <1>2 DEF vars
  <2> QED BY <1>1, UnchangedSound
<1>3. ASSUME NEW c \in Clients, Requests(c) PROVE Sound'
  BY <1>1, <1>3, RequestsSound
<1>4. ASSUME NEW c \in Clients, Handlers(c) PROVE Sound'
  BY <1>1, <1>4, HandlersSound
<1>5. ASSUME NEW c \in Clients, Unavailable(c) PROVE Sound'
  BY <1>1, <1>5, UnavailableSound
<1> QED
  BY <1>2, <1>3, <1>4, <1>5 DEF Next

\* While no two handlers have worked on one session or on the sequence, a
\* session is done only with the end of its program known, a run under way
\* has the session for itself, and whoever leaves a step found it done.
THEOREM SoundWhileAlone == Spec => []OneAtATime
<1>1. Init => OneAtATime
  BY InitSound DEF OneAtATime
<1>2. OneAtATime /\ [Next]_vars => OneAtATime'
  BY StepStaysSound
<1> QED
  BY <1>1, <1>2, PTL DEF Spec

\* A session that no one advances twice at once is done only when its program
\* really ended: advanceSession and replaySession never report completion for
\* a run that was halted or failed.
THEOREM SessionsEndHonestly == Spec => []DoneIsHonest
<1>1. OneAtATime => DoneIsHonest
  BY DEF OneAtATime, Sound, SessionSound, DoneIsHonest, Finished
<1> QED
  BY <1>1, SoundWhileAlone, PTL

\* A session that is done has run its program to the end.
LEMMA DoneIsFinished ==
  ASSUME Sound, NEW s \in DOMAIN sessions, sessions[s].done
  PROVE  Finished(sessions[s])
BY DEF Sound, SessionSound, Finished

\* No request of an idle client leaves a step.
LEMMA RequestsStay ==
  ASSUME Sound, NEW c \in Clients, Requests(c), ~overlapped', Begun
  PROVE  sequence'.index = sequence.index /\ (sequence'.done => sequence' = sequence)
<1>1. CASE NextStep(c)
  BY <1>1, NextStepIs
<1>2. CASE ~NextStep(c)
  BY <1>2 DEF Requests, StartSequence, Advance, Write, ExportPatch, ImportPatch
<1> QED
  BY <1>1, <1>2

\* nextStepSession goes from step to step without leaving one out, and leaves
\* a step, or ends the sequence, only when the program of the step was run to
\* its end, whatever other clients write, export, import and advance.
THEOREM SequencesGoInOrder == Spec => StepsInOrder
<1> DEFINE InOrder ==
      ~overlapped' /\ Begun /\ sequence' # sequence
        => /\ sequence'.index # sequence.index =>
                /\ sequence'.index = sequence.index + 1
                /\ Finished(sessions[sequence.active])
           /\ sequence'.done =>
                /\ sequence'.index = Len(Steps) - 1
                /\ Finished(sessions[sequence.active])
<1>1. ASSUME OneAtATime, [Next]_vars PROVE [InOrder]_vars
  <2> SUFFICES ASSUME ~overlapped', Begun, sequence' # sequence PROVE InOrder
    OBVIOUS
  <2>1. Sound
    BY <1>1, OverlappedStays DEF OneAtATime
  <2>2. PICK c \in Clients : Requests(c) \/ Handlers(c) \/ Unavailable(c)
    BY <1>1 DEF Next, vars
  <2>3. CASE Requests(c)
    BY <2>1, <2>3, RequestsStay
  <2>4. CASE EndSequence(c)
    BY <2>1, <2>4, EndSequenceIs, DoneIsFinished
  <2>5. CASE Publish(c)
    BY <2>1, <2>5, PublishIs, DoneIsFinished
  <2>6. CASE Unavailable(c)
    BY <2>6 DEF Unavailable
  <2>7. CASE Handlers(c) /\ ~EndSequence(c) /\ ~Publish(c)
    BY <2>7 DEF Handlers, Begin, RunStops, RunEnds, Settle, StartNext, CarryOver
  <2> QED BY <2>2, <2>3, <2>4, <2>5, <2>6, <2>7
<1>2. StepsInOrder <=> [][InOrder]_vars
  BY DEF StepsInOrder
<1> QED
  BY <1>1, <1>2, SoundWhileAlone, PTL DEF Spec

=============================================================================
