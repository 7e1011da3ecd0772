-------------------------- MODULE UpstreamRPCProofs --------------------------
(***************************************************************************)
(* For any number of callers, any sizes of jobs and batches, any number of *)
(* attempts and every pattern of failures: answers reach their own calls,  *)
(* a job succeeds only when it has them all, fails only for cause, and     *)
(* costs a bounded number of requests; the limiter holds the callers to    *)
(* its rate, and the provider hands out nothing that was not sent.         *)
(***************************************************************************)
EXTENDS UpstreamRPC, FiniteSetTheorems, WellFoundedInduction, TLAPS

Fields14 == {"at", "size", "route", "next", "attempt", "until", "results", "values",
             "nulls", "strays", "fault", "row", "asked", "outcome"}

Passing == {"lost", "unavailable", "limited"}

\* The requests of a job so far: MaxAttempts for each chunk or call that is
\* behind it, and the attempts of the one under way.  A fallback counts as if
\* all chunks had been tried.
Within(job) == IF job.at = "backoff" THEN job.attempt ELSE job.attempt - 1

Bounded(job) ==
  IF job.at = "finished" THEN job.asked <= MaxAttempts * (Chunks(job.size) + job.size)
  ELSE IF job.route = "serial"
  THEN job.asked <= MaxAttempts * Chunks(job.size) + MaxAttempts * (job.next - 1) + Within(job)
  ELSE \E d \in Nat : /\ job.next = d * MaxBatchSize + 1
                      /\ job.asked <= MaxAttempts * d + Within(job)

Spent(job) ==
  IF job.route = "serial"
  THEN job.asked <= MaxAttempts * Chunks(job.size) + MaxAttempts * (job.next - 1) + job.attempt
  ELSE \E d \in Nat : /\ job.next = d * MaxBatchSize + 1
                      /\ job.asked <= MaxAttempts * d + job.attempt

\* Results stand at the calls they answer, but for the strays a single request
\* took; the calls behind are answered.
Stands(job) ==
  /\ DOMAIN job.results = 1 .. job.size
  /\ \A i \in 1 .. job.size :
        job.results[i] = IF i \in job.strays THEN Foreign
                         ELSE IF i \in job.values THEN i ELSE Unanswered
  /\ job.route # "serial" => job.strays = {}

Owns(job) ==
  /\ Stands(job)
  /\ job.at # "finished" => /\ 1 .. job.next - 1 \subseteq job.values \cup job.nulls
                            /\ job.strays \subseteq 1 .. job.next - 1
  /\ job.outcome = "ok" => job.values \cup job.nulls = 1 .. job.size

\* It counts the failures of its request in a row, waits for a repetition only
\* while there are attempts, and is given up for a passing failure only when
\* there are none.
Caused(job) ==
  /\ job.at # "finished" => job.outcome = "none" /\ job.row = Within(job)
  /\ job.at = "backoff" => job.attempt < MaxAttempts
  /\ job.outcome = "error" /\ job.fault \in Passing => job.row = MaxAttempts

JobInv(job) ==
  /\ DOMAIN job = Fields14
  /\ JobOK(job)
  /\ job.asked \in Nat
  /\ Owns(job)
  /\ Caused(job)
  /\ Bounded(job)

\* A sleeper is due one tick after now at the latest.
Sleeps(job) == job.at = "sleep" => job.until \in 0 .. now + 1

Globals ==
  /\ lastRequest \in {Never} \cup 0 .. now
  /\ batchSupported \in {"unknown", "yes", "no"}
  /\ {now, sent, faults, jobs} \subseteq Nat

\* The inductive invariant.
IInv ==
  /\ Globals
  /\ DOMAIN caller = Callers
  /\ \A c \in Callers : caller[c] = Idle \/ (JobInv(caller[c]) /\ Sleeps(caller[c]))

-----------------------------------------------------------------------------
(* Arithmetic.                                                             *)

LEMMA Sizes ==
  /\ MaxBatchSize \in Nat \ {0} /\ MaxAttempts \in Nat \ {0}
  /\ JobSizes \subseteq Nat \ {0}
BY ClientAssumption

LEMMA Products ==
  ASSUME NEW m \in Nat, NEW a \in Nat, NEW b \in Nat
  PROVE  /\ m * a \in Nat /\ m * (a + 1) = m * a + m /\ m * (a + b) = m * a + m * b
         /\ a <= b => m * a <= m * b
OBVIOUS

LEMMA ChunksCount ==
  ASSUME NEW size \in Nat \ {0}
  PROVE  /\ Chunks(size) \in Nat
         /\ \A d \in Nat : d * MaxBatchSize + 1 <= size => d + 1 <= Chunks(size)
<1> DEFINE B == MaxBatchSize
           a == size + B - 1
           q == a \div B
<1>1. B \in Nat \ {0} /\ a \in Nat
  BY Sizes
<1> HIDE DEF B, a
<1>2. q \in Nat /\ B * q <= a /\ a < B * (q + 1)
  <2>1. \A x \in Nat, y \in Nat \ {0} : x \div y \in Nat /\ y * (x \div y) <= x /\ x < y * (x \div y + 1)
    BY Z3
  <2> QED BY <1>1, <2>1
<1> HIDE DEF q
<1>3. ASSUME NEW d \in Nat, d * B + 1 <= size
      PROVE  d + 1 <= q
  <2>1. (d + 1) * B <= a
    <3>1. (d + 1) * B = d * B + B /\ d * B \in Nat
      BY <1>1
    <3> HIDE DEF B
    <3> QED BY <3>1, <1>3, <1>1 DEF a
  <2>2. (d + 1) * B < (q + 1) * B
    BY <2>1, <1>1, <1>2
  <2>3. CASE q + 1 <= d + 1
    <3>1. (q + 1) * B <= (d + 1) * B
      BY <2>3, <1>1, <1>2
    <3> QED BY <3>1, <2>2, <1>1, <1>2
  <2> QED BY <2>3, <1>2
<1> QED BY <1>2, <1>3 DEF q, a, B, Chunks

-----------------------------------------------------------------------------
(* Chunks and their responses.                                             *)

\* The calls of the request under way; a chunk that is not the last is full.
LEMMA ChunkFacts ==
  ASSUME NEW job, JobOK(job)
  PROVE  LET n == Len(Chunk(job))
         IN /\ n \in Nat \ {0} /\ job.next \in Nat \ {0} /\ job.size \in Nat \ {0}
            /\ job.next + n - 1 <= job.size
            /\ Range(Chunk(job)) = job.next .. job.next + n - 1
            /\ job.route = "serial" => n = 1
            /\ job.route # "serial" /\ job.next + n <= job.size => n = MaxBatchSize
<1>1. job.size \in Nat \ {0} /\ job.next \in 1 .. job.size
  BY Sizes DEF JobOK
<1>2. CASE job.route = "serial"
  <2>1. Chunk(job) = <<job.next>>
    BY <1>2 DEF Chunk
  <2>2. Len(Chunk(job)) = 1 /\ DOMAIN Chunk(job) = {1} /\ Chunk(job)[1] = job.next
    BY <2>1
  <2>3. Range(Chunk(job)) = {job.next}
    BY <2>2 DEF Range
  <2> QED BY <1>1, <1>2, <2>2, <2>3
<1>3. CASE job.route # "serial"
  <2> DEFINE n == IF job.next + MaxBatchSize - 1 <= job.size THEN MaxBatchSize
                  ELSE job.size - job.next + 1
  <2>1. n \in Nat \ {0} /\ job.next + n - 1 <= job.size
        /\ (job.next + n <= job.size => n = MaxBatchSize)
    BY <1>1, Sizes
  <2>2. Chunk(job) = [i \in 1 .. n |-> job.next + i - 1]
    BY <1>3 DEF Chunk
  <2> HIDE DEF n
  <2>3. Len(Chunk(job)) = n
    BY <2>1, <2>2
  <2>4. Range(Chunk(job)) = job.next .. job.next + n - 1
    <3>1. Range(Chunk(job)) = {job.next + i - 1 : i \in 1 .. n}
      BY <2>2 DEF Range
    <3>2. ASSUME NEW k \in job.next .. job.next + n - 1
          PROVE  \E i \in 1 .. n : k = job.next + i - 1
      <4>1. k - job.next + 1 \in 1 .. n /\ k = job.next + (k - job.next + 1) - 1
        BY <1>1, <2>1
      <4> QED BY <4>1
    <3>3. ASSUME NEW i \in 1 .. n
          PROVE  job.next + i - 1 \in job.next .. job.next + n - 1
      BY <1>1, <2>1
    <3> QED BY <3>1, <3>2, <3>3
  <2> QED BY <1>1, <1>3, <2>1, <2>3, <2>4
<1> QED BY <1>2, <1>3

\* What a job may have cost when it ends here.
LEMMA Limit ==
  ASSUME NEW job, JobOK(job), job.asked \in Nat, Spent(job)
  PROVE  /\ job.asked <= MaxAttempts * (Chunks(job.size) + job.size)
         /\ job.route # "serial" => job.asked <= MaxAttempts * Chunks(job.size)
<1> DEFINE M == MaxAttempts
           C == Chunks(job.size)
<1>1. /\ job.size \in Nat \ {0} /\ job.next \in 1 .. job.size /\ job.attempt \in 1 .. M
      /\ job.next - 1 \in Nat
  <2>1. job.size \in Nat \ {0} /\ job.next \in 1 .. job.size /\ job.attempt \in 1 .. M
    BY Sizes DEF JobOK
  <2> QED BY <2>1
<1>2. M \in Nat \ {0} /\ C \in Nat
      /\ \A d \in Nat : d * MaxBatchSize + 1 <= job.size => d + 1 <= C
  BY <1>1, Sizes, ChunksCount
<1> HIDE DEF M, C
<1>3. M * (C + job.size) = M * C + M * job.size /\ M * C \in Nat /\ M * job.size \in Nat
  BY <1>1, <1>2, Products
<1>4. CASE job.route = "serial"
  <2>1. M * ((job.next - 1) + 1) = M * (job.next - 1) + M /\ M * (job.next - 1) \in Nat
    BY <1>1, <1>2, Products
  <2>2. (job.next - 1) + 1 = job.next
    BY <1>1
  <2>3. M * job.next <= M * job.size
    <3>1. job.next \in Nat /\ job.size \in Nat /\ job.next <= job.size
      BY <1>1
    <3> QED BY <3>1, <1>2, Products
  <2>4. job.asked <= M * C + M * (job.next - 1) + job.attempt
    BY <1>4 DEF M, C, Spent
  <2> QED BY <1>1, <1>2, <1>3, <1>4, <2>1, <2>2, <2>3, <2>4 DEF M, C
<1>5. CASE job.route # "serial"
  <2>1. PICK d \in Nat : job.next = d * MaxBatchSize + 1 /\ job.asked <= M * d + job.attempt
    BY <1>5 DEF M, Spent
  <2>2. d + 1 <= C
    BY <2>1, <1>1, <1>2
  <2>3. M * (d + 1) = M * d + M /\ M * (d + 1) <= M * C /\ M * d \in Nat
    BY <2>2, <1>2, Products
  <2>4. job.asked <= M * C
    BY <2>1, <2>3, <1>1, <1>2
  <2> QED BY <1>3, <2>4 DEF M, C
<1> QED BY <1>4, <1>5

\* A request that was answered in full: the job goes on, or is over.
LEMMA GoOnKeeps ==
  ASSUME NEW job, DOMAIN job = Fields14, JobOK(job), job.asked \in Nat, Stands(job),
         job.at = "send", job.outcome = "none",
         1 .. job.next - 1 \cup Range(Chunk(job)) \subseteq job.values \cup job.nulls,
         job.strays \subseteq 1 .. job.next - 1 \cup Range(Chunk(job)),
         Spent(job)
  PROVE  JobInv(GoOn(job)) /\ Sleeps(GoOn(job))
<1> DEFINE n == Len(Chunk(job))
           next == job.next + n
           M == MaxAttempts
           C == Chunks(job.size)
           more == [job EXCEPT !.at = "limit", !.next = next, !.attempt = 1, !.fault = "none",
                              !.row = 0]
           over == [job EXCEPT !.at = "finished", !.outcome = "ok", !.fault = "none"]
<1>1. /\ n \in Nat \ {0} /\ job.next \in Nat \ {0} /\ job.size \in Nat \ {0}
      /\ job.next + n - 1 <= job.size
      /\ Range(Chunk(job)) = job.next .. job.next + n - 1
      /\ job.route = "serial" => n = 1
      /\ job.route # "serial" /\ job.next + n <= job.size => n = MaxBatchSize
  BY ChunkFacts
<1>2. M \in Nat \ {0} /\ C \in Nat /\ MaxBatchSize \in Nat \ {0}
      /\ \A d \in Nat : d * MaxBatchSize + 1 <= job.size => d + 1 <= C
  BY <1>1, Sizes, ChunksCount
<1>3. job.attempt \in 1 .. M
  BY DEF JobOK
<1>4. /\ 1 .. next - 1 \subseteq job.values \cup job.nulls
      /\ job.strays \subseteq 1 .. next - 1
  <2>1. \A i \in 1 .. next - 1 : i \in 1 .. job.next - 1 \/ i \in job.next .. job.next + n - 1
    BY <1>1
  <2>2. \A i : i \in 1 .. job.next - 1 \/ i \in job.next .. job.next + n - 1 => i \in 1 .. next - 1
    BY <1>1
  <2> QED BY <2>1, <2>2, <1>1
<1> HIDE DEF n, M, C
<1>5. CASE next <= job.size
  <2>1. GoOn(job) = more
    BY <1>5 DEF GoOn, n
  <2>2. /\ DOMAIN more = Fields14
        /\ more.at = "limit" /\ more.next = next /\ more.attempt = 1 /\ more.fault = "none"
        /\ more.size = job.size /\ more.route = job.route /\ more.results = job.results
        /\ more.values = job.values /\ more.nulls = job.nulls /\ more.asked = job.asked
        /\ more.outcome = "none" /\ more.strays = job.strays /\ more.row = 0
    BY DEF Fields14
  <2> HIDE DEF more
  <2>3. JobOK(more)
    BY <2>2, <1>1, <1>2, <1>5 DEF JobOK, M
  <2>4. Owns(more) /\ Caused(more)
    <3>1. Stands(more)
      BY <2>2 DEF Stands
    <3> QED BY <2>2, <3>1, <1>4 DEF Owns, Stands, Caused, Within, Passing
  <2>5. Bounded(more)
    <3>1. CASE job.route = "serial"
      <4>1. M * (next - 1) = M * (job.next - 1) + M
        <5>1. next - 1 = (job.next - 1) + 1 /\ job.next - 1 \in Nat
          BY <3>1, <1>1
        <5> QED BY <5>1, <1>2, Products
      <4>2. job.asked <= M * C + M * (job.next - 1) + job.attempt
        BY <3>1 DEF M, C, Spent
      <4>3. M * C \in Nat /\ M * (job.next - 1) \in Nat
        <5>1. job.next - 1 \in Nat
          BY <1>1
        <5> QED BY <5>1, <1>2, Products
      <4>4. job.asked <= M * C + M * (next - 1) + 0
        BY <4>1, <4>2, <4>3, <1>2, <1>3
      <4> QED BY <4>4, <2>2, <3>1 DEF Bounded, Within, M, C
    <3>2. CASE job.route # "serial"
      <4>1. PICK d \in Nat : job.next = d * MaxBatchSize + 1
                              /\ job.asked <= M * d + job.attempt
        BY <3>2 DEF M, Spent
      <4>2. next = (d + 1) * MaxBatchSize + 1
        <5>1. MaxBatchSize * (d + 1) = MaxBatchSize * d + MaxBatchSize
          BY <1>2, Products
        <5>2. n = MaxBatchSize
          BY <1>1, <1>5, <3>2
        <5> QED BY <4>1, <5>1, <5>2, <1>2
      <4>3. M * (d + 1) = M * d + M /\ M * d \in Nat
        BY <1>2, Products
      <4>4. job.asked <= M * (d + 1) + 0
        BY <4>1, <4>3, <1>2, <1>3
      <4>5. d + 1 \in Nat
        OBVIOUS
      <4> QED BY <4>2, <4>4, <4>5, <2>2, <3>2 DEF Bounded, Within, M
    <3> QED BY <3>1, <3>2
  <2> QED BY <2>1, <2>2, <2>3, <2>4, <2>5 DEF JobInv, Sleeps
<1>6. CASE ~(next <= job.size)
  <2>1. GoOn(job) = over
    BY <1>6 DEF GoOn, n
  <2>2. /\ DOMAIN over = Fields14
        /\ over.at = "finished" /\ over.next = job.next /\ over.attempt = job.attempt
        /\ over.fault = "none"
        /\ over.size = job.size /\ over.route = job.route /\ over.results = job.results
        /\ over.values = job.values /\ over.nulls = job.nulls /\ over.asked = job.asked
        /\ over.outcome = "ok" /\ over.strays = job.strays
    BY DEF Fields14
  <2> HIDE DEF over
  <2>3. JobOK(over)
    BY <2>2 DEF JobOK
  <2>4. Owns(over) /\ Caused(over)
    <3>1. 1 .. job.size \subseteq job.values \cup job.nulls
      BY <1>1, <1>4, <1>6
    <3>2. job.values \cup job.nulls = 1 .. job.size
      BY <3>1 DEF JobOK
    <3> QED BY <2>2, <3>2 DEF Owns, Stands, Caused
  <2>5. over.asked <= M * (C + job.size)
    BY <2>2, Limit DEF M, C
  <2>6. Bounded(over)
    BY <2>2, <2>5 DEF Bounded, M, C
  <2> QED BY <2>1, <2>2, <2>3, <2>4, <2>6 DEF JobInv, Sleeps
<1> QED BY <1>5, <1>6

\* The request under way counts.
LEMMA AskedFacts ==
  ASSUME NEW old, JobInv(old), old.at = "send",
         NEW job, job = [old EXCEPT !.asked = @ + 1]
  PROVE  /\ DOMAIN job = Fields14 /\ JobOK(job) /\ job.asked \in Nat /\ Owns(job)
         /\ job.at = "send" /\ job.outcome = "none" /\ Spent(job)
         /\ job.route = old.route /\ job.size = old.size /\ job.attempt = old.attempt
         /\ job.row = job.attempt - 1
<1>1. /\ DOMAIN job = Fields14
      /\ job.at = "send" /\ job.next = old.next /\ job.attempt = old.attempt
      /\ job.size = old.size /\ job.route = old.route /\ job.results = old.results
      /\ job.values = old.values /\ job.nulls = old.nulls /\ job.asked = old.asked + 1
      /\ job.outcome = old.outcome /\ job.strays = old.strays /\ job.row = old.row
  BY DEF JobInv, Fields14
<1>2. JobOK(job) /\ job.asked \in Nat /\ Owns(job) /\ job.outcome = "none"
      /\ job.row = job.attempt - 1
  BY <1>1 DEF JobInv, JobOK, Owns, Stands, Caused, Within
<1>3. Spent(job)
  <2>1. old.attempt \in 1 .. MaxAttempts /\ old.asked \in Nat /\ Bounded(old)
    BY DEF JobInv, JobOK
  <2>2. CASE old.route = "serial"
    <3> DEFINE a == MaxAttempts * Chunks(old.size)
               b == MaxAttempts * (old.next - 1)
    <3>1. old.asked <= a + b + (old.attempt - 1)
      BY <2>1, <2>2 DEF Bounded, Within
    <3>2. a \in Nat /\ b \in Nat
      <4>1. old.next - 1 \in Nat /\ old.size \in Nat \ {0}
        <5>1. old.size \in Nat \ {0} /\ old.next \in 1 .. old.size
          BY Sizes DEF JobInv, JobOK
        <5> QED BY <5>1
      <4>2. Chunks(old.size) \in Nat
        BY <4>1, ChunksCount
      <4> QED BY <4>1, <4>2, Sizes, Products
    <3> HIDE DEF a, b
    <3>3. old.asked + 1 <= a + b + old.attempt
      BY <2>1, <3>1, <3>2
    <3> QED BY <1>1, <2>2, <3>3 DEF Spent, a, b
  <2>3. CASE old.route # "serial"
    <3>1. PICK d \in Nat : /\ old.next = d * MaxBatchSize + 1
                           /\ old.asked <= MaxAttempts * d + (old.attempt - 1)
      BY <2>1, <2>3 DEF Bounded, Within
    <3> DEFINE a == MaxAttempts * d
    <3>2. a \in Nat
      BY Sizes, Products
    <3>3. old.asked <= a + (old.attempt - 1)
      BY <3>1
    <3> HIDE DEF a
    <3>4. old.asked + 1 <= a + old.attempt
      BY <2>1, <3>2, <3>3
    <3> QED BY <1>1, <2>3, <3>1, <3>4 DEF Spent, a
  <2> QED BY <2>2, <2>3
<1> QED BY <1>1, <1>2, <1>3

LEMMA LeastOf ==
  ASSUME NEW S, S \subseteq Nat, S # {}
  PROVE  \E n \in S : \A m \in S : n <= m
<1> DEFINE R == {p \in Nat \X Nat : p[1] < p[2]}
<1>1. IsWellFoundedOn(R, Nat)
  BY NatLessThanWellFounded, Zenon DEF OpToRel
<1> HIDE DEF R
<1>2. PICK n \in S : \A m \in S : ~(<<m, n>> \in R)
  BY <1>1, WFMin
<1>3. ASSUME NEW m \in S PROVE n <= m
  <2>1. n \in Nat /\ m \in Nat
    OBVIOUS
  <2>2. ~(m < n)
    BY <1>2, <2>1 DEF R
  <2> QED BY <2>1, <2>2
<1> QED
  BY <1>3

LEMMA LastOf ==
  ASSUME NEW n \in Nat, NEW S, S \subseteq 1 .. n, S # {}
  PROVE  \E k \in S : \A l \in S : l <= k
<1> DEFINE T == {n - k : k \in S}
<1>1. T \subseteq Nat /\ T # {}
  OBVIOUS
<1>2. PICK t \in T : \A u \in T : t <= u
  <2> HIDE DEF T
  <2> QED BY <1>1, LeastOf
<1>3. PICK k \in S : t = n - k
  BY <1>2
<1>4. ASSUME NEW l \in S PROVE l <= k
  <2>1. n - l \in T
    OBVIOUS
  <2>2. n - k <= n - l
    BY <1>2, <1>3, <2>1
  <2> QED BY <2>2
<1> QED BY <1>4

\* A call that got a response in a batch got one with its id; a single request
\* got the one there is, which answers it or was not asked for.
LEMMA OwnResponse ==
  ASSUME NEW job, JobOK(job), NEW fault \in {"none"} \cup Oddities,
         job.route = "serial" => fault \notin {"missing", "repeated"},
         NEW odd \in Range(Chunk(job)),
         NEW got \in Answers(job, fault, odd),
         NEW i \in Range(Chunk(job)), got[i].answer # "none"
  PROVE  got[i].id = i \/ (job.route = "serial" /\ got[i].id = Foreign)
<1> DEFINE sent_ == Responses(job, fault, odd)
<1>1. PICK responses \in SetToSeqs(sent_) : got[i] = Response(job, responses, i)
  BY DEF Answers
<1> HIDE DEF sent_
<1> DEFINE found == {k \in DOMAIN responses : job.route = "serial" \/ responses[k].id = i}
<1>2. found # {}
  BY <1>1 DEF Response, NoResponse
<1>3. responses \in [1 .. Cardinality(sent_) -> sent_]
  BY DEF SetToSeqs
<1>4. IsFiniteSet(sent_)
  <2>1. LET n == Len(Chunk(job))
        IN n \in Nat /\ job.next \in Nat /\ Range(Chunk(job)) = job.next .. job.next + n - 1
    BY ChunkFacts
  <2>2. IsFiniteSet(Range(Chunk(job)))
    <3>1. \A a, b \in Int : IsFiniteSet(a .. b)
      BY FS_Interval
    <3> QED BY <2>1, <3>1
  <2> DEFINE Own(j) == [id |-> j, answer |-> "value"]
             own == {Own(j) : j \in Range(Chunk(job))}
             foreign == {[id |-> Foreign, answer |-> "value"]}
             strange == {[id |-> odd, answer |-> a] : a \in {fault, "error"}}
  <2>3. IsFiniteSet(own)
    <3> DEFINE f == [j \in Range(Chunk(job)) |-> Own(j)]
    <3>1. f \in Surjection(Range(Chunk(job)), own)
      BY DEF Surjection
    <3> HIDE DEF f, own
    <3> QED BY <2>2, <3>1, FS_Surjection
  <2>4. IsFiniteSet(foreign) /\ IsFiniteSet(strange)
    <3> DEFINE x == [id |-> odd, answer |-> fault]
               y == [id |-> odd, answer |-> "error"]
    <3>1. strange = {x} \cup {y}
      OBVIOUS
    <3> HIDE DEF x, y
    <3>2. IsFiniteSet({x}) /\ IsFiniteSet({y})
      BY FS_Singleton
    <3>3. IsFiniteSet({x} \cup {y})
      BY <3>2, FS_Union
    <3>4. IsFiniteSet(foreign)
      BY FS_Singleton
    <3> QED BY <3>1, <3>3, <3>4
  <2>5. IsFiniteSet(own \cup foreign \cup strange)
    <3> HIDE DEF own, foreign, strange
    <3> QED BY <2>3, <2>4, FS_Union
  <2>6. sent_ \in SUBSET (own \cup foreign \cup strange)
    BY DEF sent_, Responses, Oddities
  <2> QED BY <2>5, <2>6, FS_Subset
<1>5. Cardinality(sent_) \in Nat
  BY <1>4, FS_CardinalityType
<1>6. PICK k \in found : got[i] = responses[k]
  <2>1. found \subseteq 1 .. Cardinality(sent_)
    BY <1>3
  <2>2. \E k \in found : \A l \in found : l <= k
    <3> HIDE DEF found
    <3> QED BY <1>2, <1>5, <2>1, LastOf
  <2>3. Response(job, responses, i) = responses[CHOOSE k \in found : \A l \in found : l <= k]
    BY <1>2 DEF Response
  <2> HIDE DEF found
  <2> QED BY <1>1, <2>2, <2>3
<1>7. responses[k] \in sent_
  BY <1>3
<1>8. CASE job.route = "serial"
  <2>1. Range(Chunk(job)) = {job.next}
    BY <1>8 DEF Chunk, Range
  <2>2. i = job.next /\ odd = job.next
    BY <2>1
  <2>3. \A r \in sent_ : r.id \in {job.next, Foreign}
    BY <1>8, <2>1, <2>2 DEF sent_, Responses, Oddities
  <2> QED BY <1>6, <1>7, <1>8, <2>2, <2>3
<1> QED BY <1>6, <1>8

LEMMA ReadKeeps ==
  ASSUME NEW old, JobInv(old), old.at = "send",
         NEW job, job = [old EXCEPT !.asked = @ + 1],
         NEW fault \in {"none"} \cup Oddities,
         job.route = "serial" => fault \notin {"missing", "repeated"},
         NEW odd \in Range(Chunk(job)),
         NEW got \in Answers(job, fault, odd)
  PROVE  JobInv(Read(job, got)) /\ Sleeps(Read(job, got))
<1> DEFINE chunk == Range(Chunk(job))
           bad == {i \in DOMAIN got : got[i].answer \in {"none", "error"}}
           read == {i \in DOMAIN got : \A j \in bad : i < j}
           nulls == {i \in read : got[i].answer = "null"}
           strays == {i \in read \ nulls : job.route = "serial" /\ got[i].id = Foreign}
           results == [i \in DOMAIN job.results |->
                         IF i \in read \ nulls THEN got[i].id ELSE job.results[i]]
           taken == [job EXCEPT !.results = results, !.values = @ \cup (read \ nulls),
                                !.nulls = @ \cup nulls, !.strays = @ \cup strays]
           over == [taken EXCEPT !.at = "finished", !.outcome = "error", !.fault = "answer"]
<1>1. /\ DOMAIN job = Fields14 /\ JobOK(job) /\ job.asked \in Nat /\ Owns(job)
      /\ job.at = "send" /\ job.outcome = "none" /\ Spent(job)
  BY AskedFacts
<1>2. /\ DOMAIN got = chunk /\ chunk \subseteq 1 .. job.size /\ chunk \subseteq Int
      /\ \A i \in chunk : i \notin 1 .. job.next - 1
  <2>1. LET n == Len(Chunk(job))
        IN /\ n \in Nat \ {0} /\ job.next \in Nat \ {0} /\ job.size \in Nat \ {0}
           /\ job.next + n - 1 <= job.size
           /\ Range(Chunk(job)) = job.next .. job.next + n - 1
    BY <1>1, ChunkFacts
  <2> QED BY <2>1 DEF Answers
<1>3. Read(job, got) = IF bad = {} THEN GoOn(taken) ELSE over
  BY DEF Read
<1>4. /\ read \subseteq chunk /\ nulls \subseteq read /\ strays \subseteq read \ nulls
      /\ \A i \in strays : got[i].id = Foreign
      /\ job.route # "serial" => strays = {}
  BY <1>2
<1>5. \A i \in read \ nulls : got[i].id = i \/ i \in strays
  <2> SUFFICES ASSUME NEW i \in read \ nulls PROVE got[i].id = i \/ i \in strays
    OBVIOUS
  <2>1. i \in chunk /\ i \in Int /\ \A j \in bad : i < j
    BY <1>2
  <2>2. got[i].answer # "none"
    BY <1>2, <2>1
  <2>3. got[i].id = i \/ (job.route = "serial" /\ got[i].id = Foreign)
    <3> HIDE DEF bad, read, nulls, strays, results, taken, over
    <3>1. JobOK(job) /\ (job.route = "serial" => fault \notin {"missing", "repeated"})
      BY <1>1
    <3> QED BY <2>1, <2>2, <3>1, OwnResponse
  <2> QED BY <2>3
<1>6. bad = {} => chunk \subseteq read
  BY <1>2
<1> HIDE DEF bad, read, nulls, strays, chunk
<1>7. /\ DOMAIN taken = Fields14
      /\ taken.at = "send" /\ taken.next = job.next /\ taken.attempt = job.attempt
      /\ taken.size = job.size /\ taken.route = job.route /\ taken.results = results
      /\ taken.values = job.values \cup (read \ nulls)
      /\ taken.nulls = job.nulls \cup nulls
      /\ taken.strays = job.strays \cup strays
      /\ taken.asked = job.asked /\ taken.outcome = "none"
  <2> HIDE DEF results
  <2> QED BY <1>1 DEF Fields14
<1>8. /\ DOMAIN over = Fields14
      /\ over.at = "finished" /\ over.next = taken.next /\ over.attempt = taken.attempt
      /\ over.size = taken.size /\ over.route = taken.route /\ over.results = taken.results
      /\ over.values = taken.values /\ over.nulls = taken.nulls
      /\ over.strays = taken.strays
      /\ over.asked = taken.asked /\ over.outcome = "error" /\ over.fault = "answer"
  <2> HIDE DEF taken
  <2> QED BY <1>7 DEF Fields14
<1>9. /\ DOMAIN results = 1 .. job.size
      /\ \A i \in 1 .. job.size :
            results[i] = IF i \in taken.strays THEN Foreign
                         ELSE IF i \in taken.values THEN i ELSE Unanswered
  <2>1. /\ job.strays \subseteq 1 .. job.next - 1
        /\ DOMAIN job.results = 1 .. job.size
        /\ \A i \in 1 .. job.size :
             job.results[i] = IF i \in job.strays THEN Foreign
                              ELSE IF i \in job.values THEN i ELSE Unanswered
    BY <1>1 DEF Owns, Stands
  <2> SUFFICES ASSUME NEW i \in 1 .. job.size
               PROVE  results[i] = IF i \in taken.strays THEN Foreign
                                   ELSE IF i \in taken.values THEN i ELSE Unanswered
    BY <2>1
  <2>2. CASE i \in read \ nulls
    <3>1. results[i] = got[i].id
      BY <2>1, <2>2
    <3>2. i \notin job.strays
      BY <1>2, <1>4, <2>1, <2>2
    <3>3. i \in taken.values /\ (i \in taken.strays <=> i \in strays)
      BY <1>7, <2>2, <3>2
    <3> HIDE DEF taken, results
    <3> QED BY <1>4, <1>5, <2>2, <3>1, <3>3
  <2>3. CASE i \notin read \ nulls
    <3>1. results[i] = job.results[i] /\ i \notin strays
      BY <1>4, <2>1, <2>3
    <3> QED BY <1>7, <2>1, <2>3, <3>1
  <2> QED BY <2>2, <2>3
<1> HIDE DEF taken, over, results
<1>10. JobOK(taken) /\ Spent(taken) /\ Chunk(taken) = Chunk(job)
  <2>1. JobOK(taken)
    BY <1>1, <1>2, <1>4, <1>7 DEF JobOK
  <2>2. Spent(taken)
    BY <1>1, <1>7 DEF Spent
  <2> QED BY <2>1, <2>2, <1>7 DEF Chunk
<1>11. Stands(taken)
  <2>1. taken.route # "serial" => taken.strays = {}
    BY <1>1, <1>4, <1>7 DEF Stands, Owns
  <2> QED BY <2>1, <1>7, <1>9 DEF Stands
<1>12. CASE bad = {}
  <2>1. Range(Chunk(taken)) \subseteq taken.values \cup taken.nulls
    BY <1>6, <1>7, <1>10, <1>12 DEF chunk
  <2>2. /\ 1 .. taken.next - 1 \subseteq taken.values \cup taken.nulls
        /\ taken.strays \subseteq 1 .. taken.next - 1 \cup Range(Chunk(taken))
    BY <1>1, <1>2, <1>4, <1>7, <1>10 DEF Owns, Stands, chunk
  <2>3. JobInv(GoOn(taken)) /\ Sleeps(GoOn(taken))
    <3>1. DOMAIN taken = Fields14 /\ taken.asked \in Nat /\ taken.at = "send"
          /\ taken.outcome = "none"
      BY <1>1, <1>7
    <3> QED BY <1>10, <1>11, <2>1, <2>2, <3>1, GoOnKeeps
  <2> QED BY <1>3, <1>12, <2>3
<1>13. CASE bad # {}
  <2>1. JobOK(over)
    BY <1>8, <1>10 DEF JobOK
  <2>2. Owns(over) /\ Caused(over)
    BY <1>8, <1>11 DEF Owns, Stands, Caused, Passing
  <2>3. Bounded(over)
    BY <1>1, <1>7, <1>8, <1>10, Limit DEF Bounded
  <2>4. over.asked \in Nat
    BY <1>1, <1>7, <1>8
  <2> QED BY <1>3, <1>8, <1>13, <2>1, <2>2, <2>3, <2>4 DEF JobInv, Sleeps
<1> QED BY <1>12, <1>13

-----------------------------------------------------------------------------
(* Steps.                                                                  *)

LEMMA InitHolds == Init => IInv
BY DEF Init, IInv, Globals, Never

\* A caller puts a new record, while time stands still.
LEMMA PutKeeps ==
  ASSUME IInv, NEW c \in Callers, NEW r, Put(c, r), Globals', now' = now,
         r = Idle \/ (JobInv(r) /\ Sleeps(r))
  PROVE  IInv'
<1>1. DOMAIN caller' = Callers
  BY DEF Put, IInv
<1>2. ASSUME NEW x \in Callers
      PROVE  caller'[x] = Idle \/ (JobInv(caller'[x]) /\ Sleeps(caller'[x]))
  BY DEF Put, IInv
<1>3. \A job : Sleeps(job) => Sleeps(job)'
  BY DEF Sleeps
<1> QED BY <1>1, <1>2, <1>3 DEF IInv

\* A job whose request is not under way is moved on without a change to its
\* answers, its attempt or what it has cost.
LEMMA MovedKeeps ==
  ASSUME NEW job, JobInv(job), job.at \in {"limit", "sleep"},
         NEW moved, DOMAIN moved = Fields14, moved.at \in {"sleep", "send"},
         \A f \in Fields14 \ {"at", "until"} : moved[f] = job[f]
  PROVE  JobInv(moved)
<1>1. /\ moved.next = job.next /\ moved.attempt = job.attempt
      /\ moved.size = job.size /\ moved.route = job.route /\ moved.results = job.results
      /\ moved.values = job.values /\ moved.nulls = job.nulls /\ moved.asked = job.asked
      /\ moved.outcome = job.outcome /\ moved.fault = job.fault
      /\ moved.strays = job.strays /\ moved.row = job.row
  BY DEF Fields14
<1>2. JobOK(moved) /\ moved.asked \in Nat
  BY <1>1 DEF JobInv, JobOK
<1>3. Owns(moved) /\ Caused(moved)
  BY <1>1 DEF JobInv, Owns, Stands, Caused, Within
<1>4. Bounded(moved)
  BY <1>1 DEF JobInv, Bounded, Within
<1> QED BY <1>1, <1>2, <1>3, <1>4 DEF JobInv

LEMMA PassLimitKeeps ==
  ASSUME IInv, NEW c \in Callers, PassLimit(c)
  PROVE  IInv'
<1> DEFINE job == caller[c]
           asleep == [job EXCEPT !.at = "sleep", !.until = lastRequest + 1]
           through == [job EXCEPT !.at = "send"]
<1>1. JobInv(job) /\ job.at = "limit"
  BY DEF PassLimit, IInv, Idle
<1>2. Globals' /\ now' = now
  BY DEF PassLimit, IInv, Globals
<1>3. CASE Paced /\ lastRequest # Never /\ lastRequest + 1 > now
  <2>1. Put(c, asleep)
    BY <1>3 DEF PassLimit
  <2>2. JobInv(asleep)
    <3>1. DOMAIN asleep = Fields14 /\ \A f \in Fields14 \ {"at", "until"} : asleep[f] = job[f]
      BY <1>1 DEF JobInv, Fields14
    <3>2. asleep.at = "sleep"
      BY <1>1 DEF JobInv, Fields14
    <3> HIDE DEF asleep
    <3> QED BY <1>1, <3>1, <3>2, MovedKeeps
  <2>3. Sleeps(asleep)
    <3>1. asleep.until = lastRequest + 1
      BY <1>1 DEF JobInv, Fields14
    <3>2. lastRequest + 1 \in 0 .. now + 1
      BY <1>3 DEF IInv, Globals
    <3> QED BY <3>1, <3>2 DEF Sleeps
  <2> QED BY <1>2, <2>1, <2>2, <2>3, PutKeeps
<1>4. CASE ~(Paced /\ lastRequest # Never /\ lastRequest + 1 > now)
  <2>1. Put(c, through)
    BY <1>4 DEF PassLimit
  <2>2. JobInv(through) /\ Sleeps(through)
    <3>1. DOMAIN through = Fields14 /\ \A f \in Fields14 \ {"at", "until"} : through[f] = job[f]
      BY <1>1 DEF JobInv, Fields14
    <3>2. through.at = "send"
      BY <1>1 DEF JobInv, Fields14
    <3> HIDE DEF through
    <3> QED BY <1>1, <3>1, <3>2, MovedKeeps DEF Sleeps
  <2> QED BY <1>2, <2>1, <2>2, PutKeeps
<1> QED BY <1>3, <1>4

LEMMA WakeUpKeeps ==
  ASSUME IInv, NEW c \in Callers, WakeUp(c)
  PROVE  IInv'
<1> DEFINE job == caller[c]
           awake == [job EXCEPT !.at = "send", !.until = 0]
<1>1. JobInv(job) /\ Sleeps(job) /\ job.at = "sleep"
  BY DEF WakeUp, IInv, Idle
<1>2. Globals' /\ now' = now
  BY <1>1 DEF WakeUp, Due, IInv, Globals, Sleeps
<1>3. JobInv(awake)
  <2>1. DOMAIN awake = Fields14 /\ \A f \in Fields14 \ {"at", "until"} : awake[f] = job[f]
    BY <1>1 DEF JobInv, Fields14
  <2>2. awake.at = "send"
    BY <1>1 DEF JobInv, Fields14
  <2> HIDE DEF awake
  <2> QED BY <1>1, <2>1, <2>2, MovedKeeps
<1>4. Sleeps(awake)
  BY <1>1 DEF JobInv, Fields14, Sleeps
<1>5. Put(c, awake)
  BY DEF WakeUp
<1> QED BY <1>2, <1>3, <1>4, <1>5, PutKeeps

LEMMA TickKeeps == ASSUME IInv, Tick PROVE IInv'
<1>1. Globals' /\ caller' = caller /\ now' = now + 1 /\ now \in Nat
  BY DEF Tick, IInv, Globals
<1>2. \A job : Sleeps(job) => Sleeps(job)'
  BY <1>1 DEF Sleeps
<1> QED BY <1>1, <1>2 DEF IInv

LEMMA AskKeeps ==
  ASSUME IInv, NEW c \in Callers, NEW size \in JobSizes, Ask(c, size)
  PROVE  IInv'
<1> DEFINE job == [at |-> "limit", size |-> size, route |-> Route(size), next |-> 1,
                   attempt |-> 1, until |-> 0, results |-> [i \in 1 .. size |-> Unanswered],
                   values |-> {}, nulls |-> {}, strays |-> {}, fault |-> "none",
                   row |-> 0, asked |-> 0, outcome |-> "none"]
<1>1. Put(c, job)
  BY DEF Ask
<1>2. Globals' /\ now' = now
  BY DEF Ask, IInv, Globals
<1>3. size \in Nat \ {0}
  BY Sizes
<1>4. DOMAIN job = Fields14
  BY DEF Fields14
<1>5. JobOK(job)
  BY <1>3, Sizes DEF JobOK, Route
<1>6. Owns(job) /\ Caused(job)
  BY <1>3 DEF Owns, Stands, Caused, Within, Passing
<1>7. Bounded(job)
  <2>1. CASE Route(size) = "serial"
    <3>1. MaxAttempts * Chunks(size) \in Nat /\ MaxAttempts * 0 = 0
      BY <1>3, ChunksCount, Sizes, Products
    <3> QED BY <2>1, <3>1 DEF Bounded, Within
  <2>2. CASE Route(size) # "serial"
    <3>1. 1 = 0 * MaxBatchSize + 1 /\ MaxAttempts * 0 = 0
      BY Sizes
    <3>2. job.next = 0 * MaxBatchSize + 1 /\ job.asked <= MaxAttempts * 0 + Within(job)
      BY <3>1 DEF Within
    <3> QED BY <2>2, <3>2 DEF Bounded
  <2> QED BY <2>1, <2>2
<1>8. JobInv(job) /\ Sleeps(job)
  BY <1>4, <1>5, <1>6, <1>7 DEF JobInv, Sleeps
<1> HIDE DEF job
<1> QED BY <1>1, <1>2, <1>8, PutKeeps

LEMMA AnsweredKeeps ==
  ASSUME IInv, NEW c \in Callers, Answered(c)
  PROVE  IInv'
<1> DEFINE job == [caller[c] EXCEPT !.asked = @ + 1]
           chunk == Range(Chunk(job))
<1>1. JobInv(caller[c]) /\ caller[c].at = "send"
  BY DEF Answered, IInv, Idle
<1>2. PICK fault \in {"none"} \cup (Faults \cap Oddities), odd \in chunk :
        /\ job.route = "serial" => fault \notin {"missing", "repeated"}
        /\ faults' = faults + (IF fault = "none" THEN 0 ELSE 1)
        /\ \E got \in Answers(job, fault, odd) : Put(c, Read(job, got))
  BY DEF Answered
<1>3. PICK got \in Answers(job, fault, odd) : Put(c, Read(job, got))
  BY <1>2
<1>4. Globals' /\ now' = now
  BY <1>2 DEF Answered, IInv, Globals
<1>5. JobInv(Read(job, got)) /\ Sleeps(Read(job, got))
  <2>1. fault \in {"none"} \cup Oddities
    OBVIOUS
  <2>2. job.route = "serial" => fault \notin {"missing", "repeated"}
    BY <1>2
  <2>3. odd \in Range(Chunk(job))
    OBVIOUS
  <2> HIDE DEF job, chunk
  <2>4. job = [caller[c] EXCEPT !.asked = @ + 1]
    BY DEF job
  <2> QED BY <1>1, <2>1, <2>2, <2>3, <2>4, ReadKeeps
<1> QED BY <1>3, <1>4, <1>5, PutKeeps

\* A request that will not be repeated: back to the first call, one by one, or
\* the end.
LEMMA GiveUpKeeps ==
  ASSUME NEW job, DOMAIN job = Fields14, JobOK(job), job.asked \in Nat, Owns(job),
         job.at = "send", job.outcome = "none", Spent(job),
         NEW fault, fault \in Passing => job.row + 1 = MaxAttempts
  PROVE  JobInv(GiveUp(job, fault)) /\ Sleeps(GiveUp(job, fault))
<1> DEFINE again == [job EXCEPT !.at = "limit", !.route = "serial", !.next = 1, !.attempt = 1,
                                !.fault = "none", !.row = 0]
           over == [job EXCEPT !.at = "finished", !.outcome = "error", !.fault = fault,
                               !.row = @ + 1]
<1>1. /\ job.asked <= MaxAttempts * (Chunks(job.size) + job.size)
      /\ job.route # "serial" => job.asked <= MaxAttempts * Chunks(job.size)
  BY Limit
<1>2. job.size \in Nat \ {0} /\ 1 \in 1 .. MaxAttempts /\ 1 \in 1 .. job.size
  <2>1. job.size \in Nat \ {0} /\ MaxAttempts \in Nat \ {0}
    BY Sizes DEF JobOK
  <2> QED BY <2>1
<1>3. CASE job.route = "probing" /\ Unsupported(job, fault)
  <2>1. GiveUp(job, fault) = again
    BY <1>3 DEF GiveUp
  <2>2. /\ DOMAIN again = Fields14
        /\ again.at = "limit" /\ again.next = 1 /\ again.attempt = 1 /\ again.fault = "none"
        /\ again.size = job.size /\ again.route = "serial" /\ again.results = job.results
        /\ again.values = job.values /\ again.nulls = job.nulls /\ again.asked = job.asked
        /\ again.outcome = "none" /\ again.strays = {} /\ again.row = 0
    BY <1>3 DEF Fields14, Owns, Stands
  <2> HIDE DEF again
  <2>3. JobOK(again)
    BY <1>2, <2>2 DEF JobOK
  <2>4. Owns(again) /\ Caused(again)
    BY <1>3, <2>2 DEF Owns, Stands, Caused, Within, Passing
  <2>5. Bounded(again)
    <3>1. MaxAttempts * Chunks(job.size) \in Nat /\ MaxAttempts * 0 = 0
      BY <1>2, ChunksCount, Sizes, Products
    <3>2. job.asked <= MaxAttempts * Chunks(job.size)
      BY <1>1, <1>3
    <3> QED BY <2>2, <3>1, <3>2 DEF Bounded, Within
  <2> QED BY <2>1, <2>2, <2>3, <2>4, <2>5 DEF JobInv, Sleeps
<1>4. CASE ~(job.route = "probing" /\ Unsupported(job, fault))
  <2>1. GiveUp(job, fault) = over
    BY <1>4 DEF GiveUp
  <2>2. /\ DOMAIN over = Fields14
        /\ over.at = "finished" /\ over.next = job.next /\ over.attempt = job.attempt
        /\ over.size = job.size /\ over.route = job.route /\ over.results = job.results
        /\ over.values = job.values /\ over.nulls = job.nulls /\ over.asked = job.asked
        /\ over.outcome = "error" /\ over.fault = fault
        /\ over.strays = job.strays /\ over.row = job.row + 1
    BY DEF Fields14
  <2> HIDE DEF over
  <2>3. JobOK(over)
    BY <2>2 DEF JobOK
  <2>4. Owns(over) /\ Caused(over)
    BY <2>2 DEF Owns, Stands, Caused
  <2>5. Bounded(over)
    BY <1>1, <2>2 DEF Bounded
  <2> QED BY <2>1, <2>2, <2>3, <2>4, <2>5 DEF JobInv, Sleeps
<1> QED BY <1>3, <1>4

LEMMA FailedKeeps ==
  ASSUME IInv, NEW c \in Callers, Failed(c)
  PROVE  IInv'
<1> DEFINE job == [caller[c] EXCEPT !.asked = @ + 1]
<1>1. JobInv(caller[c]) /\ caller[c].at = "send"
  BY DEF Failed, IInv, Idle
<1>2. PICK fault \in Faults :
        /\ Put(c, IF shouldRetry(fault) /\ AttemptsLeft(job)
                  THEN [job EXCEPT !.at = "backoff", !.fault = fault, !.row = @ + 1]
                  ELSE GiveUp(job, fault))
        /\ batchSupported' \in {"no", batchSupported}
  BY DEF Failed
<1>3. Globals' /\ now' = now
  BY <1>2 DEF Failed, IInv, Globals
<1>4. /\ DOMAIN job = Fields14 /\ JobOK(job) /\ job.asked \in Nat /\ Owns(job)
      /\ job.at = "send" /\ job.outcome = "none" /\ Spent(job) /\ job.row = job.attempt - 1
  BY <1>1, AskedFacts
<1>5. job.attempt \in 1 .. MaxAttempts /\ MaxAttempts \in Nat
  BY <1>4, Sizes DEF JobOK
<1> HIDE DEF job
<1>6. CASE shouldRetry(fault) /\ AttemptsLeft(job)
  <2> DEFINE waits == [job EXCEPT !.at = "backoff", !.fault = fault, !.row = @ + 1]
  <2>1. /\ DOMAIN waits = Fields14
        /\ waits.at = "backoff" /\ waits.next = job.next /\ waits.attempt = job.attempt
        /\ waits.size = job.size /\ waits.route = job.route /\ waits.results = job.results
        /\ waits.values = job.values /\ waits.nulls = job.nulls /\ waits.asked = job.asked
        /\ waits.outcome = "none" /\ waits.strays = job.strays /\ waits.row = job.row + 1
    BY <1>4 DEF Fields14
  <2> HIDE DEF waits
  <2>2. JobOK(waits)
    BY <1>4, <2>1 DEF JobOK
  <2>3. Owns(waits) /\ Caused(waits)
    BY <1>4, <1>5, <1>6, <2>1 DEF Owns, Stands, Caused, Within, AttemptsLeft
  <2>4. Bounded(waits)
    BY <1>4, <2>1 DEF Bounded, Within, Spent
  <2>5. JobInv(waits) /\ Sleeps(waits)
    BY <1>4, <2>1, <2>2, <2>3, <2>4 DEF JobInv, Sleeps
  <2>6. Put(c, waits)
    BY <1>2, <1>6 DEF waits
  <2> QED BY <1>3, <2>5, <2>6, PutKeeps
<1>7. CASE ~(shouldRetry(fault) /\ AttemptsLeft(job))
  <2>1. fault \in Passing => job.row + 1 = MaxAttempts
    <3>1. fault \in Passing => shouldRetry(fault)
      BY DEF Passing, shouldRetry, Status
    <3> QED BY <1>4, <1>5, <1>7, <3>1 DEF AttemptsLeft
  <2>2. JobInv(GiveUp(job, fault)) /\ Sleeps(GiveUp(job, fault))
    BY <1>4, <2>1, GiveUpKeeps
  <2>3. Put(c, GiveUp(job, fault))
    BY <1>2, <1>7
  <2> QED BY <1>3, <2>2, <2>3, PutKeeps
<1> QED BY <1>6, <1>7

LEMMA RetryKeeps ==
  ASSUME IInv, NEW c \in Callers, Retry(c)
  PROVE  IInv'
<1> DEFINE job == caller[c]
           again == [job EXCEPT !.at = "limit", !.attempt = @ + 1]
<1>1. JobInv(job) /\ job.at = "backoff"
  BY DEF Retry, IInv, Idle
<1>2. Globals' /\ now' = now
  BY DEF Retry, IInv, Globals
<1>3. /\ DOMAIN again = Fields14
      /\ again.at = "limit" /\ again.next = job.next /\ again.attempt = job.attempt + 1
      /\ again.size = job.size /\ again.route = job.route /\ again.results = job.results
      /\ again.values = job.values /\ again.nulls = job.nulls /\ again.asked = job.asked
      /\ again.outcome = job.outcome /\ again.strays = job.strays /\ again.row = job.row
  BY <1>1 DEF JobInv, Fields14
<1>4. Put(c, again)
  BY DEF Retry
<1> HIDE DEF again
<1>5. job.attempt \in 1 .. MaxAttempts /\ job.attempt < MaxAttempts /\ job.outcome = "none"
      /\ MaxAttempts \in Nat
  BY <1>1, Sizes DEF JobInv, JobOK, Caused
<1>6. JobOK(again)
  BY <1>1, <1>3, <1>5 DEF JobInv, JobOK
<1>7. Owns(again) /\ Caused(again)
  BY <1>1, <1>3, <1>5 DEF JobInv, Owns, Stands, Caused, Within
<1>8. Bounded(again)
  <2>1. Within(again) = Within(job)
    BY <1>1, <1>3, <1>5 DEF Within
  <2> QED BY <1>1, <1>3, <2>1 DEF JobInv, Bounded
<1>9. JobInv(again) /\ Sleeps(again)
  BY <1>1, <1>3, <1>6, <1>7, <1>8 DEF JobInv, Sleeps
<1> QED BY <1>2, <1>4, <1>9, PutKeeps

\* Attempts that were made are not more than those counted.
LEMMA BoundedIsSpent ==
  ASSUME NEW job, JobInv(job), job.at # "finished"
  PROVE  Spent(job)
<1>1. job.attempt \in 1 .. MaxAttempts /\ job.asked \in Nat /\ Bounded(job)
  BY DEF JobInv, JobOK
<1>2. Within(job) \in Int /\ Within(job) <= job.attempt
  BY <1>1, Sizes DEF Within
<1>3. CASE job.route = "serial"
  <2> DEFINE a == MaxAttempts * Chunks(job.size)
             b == MaxAttempts * (job.next - 1)
  <2>1. a \in Nat /\ b \in Nat
    <3>1. job.next - 1 \in Nat /\ job.size \in Nat \ {0}
      <4>1. job.size \in Nat \ {0} /\ job.next \in 1 .. job.size
        BY Sizes DEF JobInv, JobOK
      <4> QED BY <4>1
    <3>2. Chunks(job.size) \in Nat
      BY <3>1, ChunksCount
    <3> QED BY <3>1, <3>2, Sizes, Products
  <2>2. job.asked <= a + b + Within(job)
    BY <1>1, <1>3 DEF Bounded
  <2> HIDE DEF a, b
  <2>3. job.asked <= a + b + job.attempt
    BY <1>1, <1>2, <2>1, <2>2
  <2> QED BY <1>3, <2>3 DEF Spent, a, b
<1>4. CASE job.route # "serial"
  <2>1. PICK d \in Nat : /\ job.next = d * MaxBatchSize + 1
                         /\ job.asked <= MaxAttempts * d + Within(job)
    BY <1>1, <1>4 DEF Bounded
  <2> DEFINE a == MaxAttempts * d
  <2>2. a \in Nat /\ job.asked <= a + Within(job)
    BY <2>1, Sizes, Products
  <2> HIDE DEF a
  <2>3. job.asked <= a + job.attempt
    BY <1>1, <1>2, <2>2
  <2> QED BY <1>4, <2>1, <2>3 DEF Spent, a
<1> QED BY <1>3, <1>4

LEMMA CancelledKeeps ==
  ASSUME IInv, NEW c \in Callers, Cancelled(c)
  PROVE  IInv'
<1> DEFINE job == caller[c]
           over == [job EXCEPT !.at = "finished", !.outcome = "error", !.fault = "cancelled"]
<1>1. JobInv(job) /\ job.at \in {"limit", "send", "backoff"}
  BY DEF Cancelled, IInv, Idle
<1>2. Globals' /\ now' = now
  BY DEF Cancelled, IInv, Globals
<1>3. /\ DOMAIN over = Fields14
      /\ over.at = "finished" /\ over.next = job.next /\ over.attempt = job.attempt
      /\ over.size = job.size /\ over.route = job.route /\ over.results = job.results
      /\ over.values = job.values /\ over.nulls = job.nulls /\ over.asked = job.asked
      /\ over.outcome = "error" /\ over.fault = "cancelled" /\ over.strays = job.strays
  BY <1>1 DEF JobInv, Fields14
<1>4. Put(c, over)
  BY DEF Cancelled
<1> HIDE DEF over
<1>5. JobOK(over)
  BY <1>1, <1>3 DEF JobInv, JobOK
<1>6. Owns(over) /\ Caused(over)
  BY <1>1, <1>3 DEF JobInv, Owns, Stands, Caused, Passing
<1>7. Bounded(over)
  <2>1. job.asked <= MaxAttempts * (Chunks(job.size) + job.size)
    BY <1>1, BoundedIsSpent, Limit DEF JobInv
  <2> QED BY <1>3, <2>1 DEF Bounded
<1>8. JobInv(over) /\ Sleeps(over)
  BY <1>1, <1>3, <1>5, <1>6, <1>7 DEF JobInv, Sleeps
<1> QED BY <1>2, <1>4, <1>8, PutKeeps

LEMMA ReturnKeeps ==
  ASSUME IInv, NEW c \in Callers, Return(c)
  PROVE  IInv'
<1>1. Globals' /\ now' = now /\ Put(c, Idle)
  BY DEF Return, IInv, Globals
<1> QED BY <1>1, PutKeeps

LEMMA StepKeeps == IInv /\ [Next]_vars => IInv'
<1> SUFFICES ASSUME IInv, [Next]_vars PROVE IInv'
  OBVIOUS
<1>1. CASE Tick
  BY <1>1, TickKeeps
<1>2. ASSUME NEW c \in Callers, Work(c)
      PROVE  IInv'
  BY <1>2, PassLimitKeeps, WakeUpKeeps, AnsweredKeeps, FailedKeeps, RetryKeeps, ReturnKeeps
     DEF Work
<1>3. ASSUME NEW c \in Callers, Cancelled(c)
      PROVE  IInv'
  BY <1>3, CancelledKeeps
<1>4. ASSUME NEW c \in Callers, NEW size \in JobSizes, Ask(c, size)
      PROVE  IInv'
  BY <1>4, AskKeeps
<1>5. CASE UNCHANGED vars
  <2>1. \A job : Sleeps(job) => Sleeps(job)'
    BY <1>5 DEF vars, Sleeps
  <2> QED BY <1>5, <2>1 DEF vars, IInv, Globals
<1> QED BY <1>1, <1>2, <1>3, <1>4, <1>5 DEF Next

-----------------------------------------------------------------------------

\* The inductive invariant of the jobs holds always.
THEOREM Invariance == Spec => []IInv
<1>1. Init => IInv
  BY InitHolds
<1>2. IInv /\ [Next]_vars => IInv'
  BY StepKeeps
<1> QED BY <1>1, <1>2, PTL DEF Spec

\* Types, and no request is attempted more than MaxAttempts times.
THEOREM TypeCorrect == Spec => []TypeOK
<1>1. IInv => TypeOK
  BY DEF IInv, Globals, JobInv, TypeOK
<1> QED BY <1>1, Invariance, PTL

\* Responses in any order, twice or unasked, gaps, repeated rounds after a
\* fallback: each call has its own answer or none, but for what a single
\* request was sent instead, a job that succeeds has all of them, and none
\* costs more requests than one batched and one serial round (doBatchChunk,
\* doSingle, BatchCall).
THEOREM OwnAnswers == Spec => []AnswersAreTheirOwn
<1>1. IInv => AnswersAreTheirOwn
  <2> SUFFICES ASSUME IInv, NEW c \in Callers, caller[c] # Idle
               PROVE  LET job == caller[c]
                      IN /\ \A i \in 1 .. job.size :
                              job.results[i] = IF i \in job.strays THEN Foreign
                                               ELSE IF i \in job.values THEN i ELSE Unanswered
                         /\ job.route # "serial" => job.strays = {}
                         /\ job.outcome = "ok" => job.values \cup job.nulls = 1 .. job.size
                         /\ job.asked <= MaxAttempts * (Chunks(job.size) + job.size)
    BY DEF AnswersAreTheirOwn
  <2>1. JobInv(caller[c])
    BY DEF IInv
  <2>2. caller[c].asked <= MaxAttempts * (Chunks(caller[c].size) + caller[c].size)
    <3>1. CASE caller[c].at = "finished"
      BY <2>1, <3>1 DEF JobInv, Bounded
    <3>2. CASE caller[c].at # "finished"
      BY <2>1, <3>2, BoundedIsSpent, Limit DEF JobInv
    <3> QED BY <3>1, <3>2
  <2> QED BY <2>1, <2>2 DEF JobInv, Owns, Stands
<1> QED BY <1>1, Invariance, PTL

\* A request that got no connection, found the node unavailable or was limited
\* is given up only after it failed MaxAttempts times in a row (doWithRetry,
\* shouldRetry).  A connection cut while the body of a 200 is read is final.
THEOREM OnlyForCause == Spec => []FailsForCause
<1>1. IInv => FailsForCause
  BY DEF IInv, JobInv, Caused, Passing, FailsForCause, Idle
<1> QED BY <1>1, Invariance, PTL

-----------------------------------------------------------------------------
(* The limiter.  Every request that passed has used up a slot: a caller and *)
(* a time.  A sleeper has used its slots up to the time it is due; one      *)
(* caller holds those up to lastRequest, and it is awake unless all sleep.  *)
(* When a sleeper sets the clock back, the slots the clock was at stay with *)
(* the caller that held them, and the sleeper goes on with its own.         *)

Asleep(c) == caller[c].at = "sleep"

Sending == {c \in Callers : caller[c].at = "send"}

\* The slots used up when caller c has used those before a[c].
Slots(a) == {p \in Callers \X Nat : p[2] < a[p[1]]}

Holds(a, d) == a[d] = lastRequest + 1 /\ (~Asleep(d) \/ \A c \in Callers : Asleep(c))

Ledger(a) ==
  /\ \A c \in Callers : a[c] <= now + 1
  /\ \A c \in Callers : Asleep(c) => a[c] = caller[c].until
  /\ Callers # {} => \E d \in Callers : Holds(a, d)
  /\ sent + Cardinality(Sending) <= Cardinality(Slots(a))

Accounted == \E a \in [Callers -> Nat] : Ledger(a)

LEMMA SlotsCount ==
  ASSUME NEW n \in Nat, NEW a \in [Callers -> Nat], \A c \in Callers : a[c] <= n
  PROVE  /\ IsFiniteSet(Slots(a)) /\ Cardinality(Slots(a)) \in Nat
         /\ Cardinality(Slots(a)) <= Cardinality(Callers) * n
<1>1. IsFiniteSet(Callers)
  BY ClientAssumption
<1>2. IsFiniteSet(0 .. n - 1) /\ Cardinality(0 .. n - 1) = n
  <2>1. 0 \in Int /\ n - 1 \in Int
    OBVIOUS
  <2>2. /\ IsFiniteSet(0 .. n - 1)
        /\ Cardinality(0 .. n - 1) = IF 0 > n - 1 THEN 0 ELSE n - 1 - 0 + 1
    BY <2>1, FS_Interval
  <2> QED BY <2>2
<1> DEFINE box == Callers \X (0 .. n - 1)
<1>3. IsFiniteSet(box) /\ Cardinality(box) = Cardinality(Callers) * n
  BY <1>1, <1>2, FS_Product
<1>4. Slots(a) \in SUBSET box
  BY DEF Slots
<1> HIDE DEF box
<1>5. IsFiniteSet(Slots(a)) /\ Cardinality(Slots(a)) <= Cardinality(box)
  BY <1>3, <1>4, FS_Subset
<1> QED BY <1>3, <1>5, FS_CardinalityType

LEMMA SlotsGrow ==
  ASSUME NEW n \in Nat, NEW a \in [Callers -> Nat], NEW b \in [Callers -> Nat],
         \A c \in Callers : a[c] <= b[c] /\ b[c] <= n
  PROVE  /\ Cardinality(Slots(a)) <= Cardinality(Slots(b))
         /\ \A d \in Callers : a[d] < b[d] => Cardinality(Slots(a)) + 1 <= Cardinality(Slots(b))
<1>1. \A c \in Callers : a[c] <= n
  OBVIOUS
<1>2. IsFiniteSet(Slots(a)) /\ Cardinality(Slots(a)) \in Nat
  BY <1>1, SlotsCount
<1>3. IsFiniteSet(Slots(b)) /\ Cardinality(Slots(b)) \in Nat
  BY SlotsCount
<1>4. Slots(a) \in SUBSET Slots(b)
  BY DEF Slots
<1>5. Cardinality(Slots(a)) <= Cardinality(Slots(b))
  BY <1>3, <1>4, FS_Subset
<1>6. ASSUME NEW d \in Callers, a[d] < b[d]
      PROVE  Cardinality(Slots(a)) + 1 <= Cardinality(Slots(b))
  <2> DEFINE p == <<d, a[d]>>
  <2>1. p \notin Slots(a)
    BY DEF Slots
  <2>2. p \in Slots(b)
    BY <1>6 DEF Slots
  <2> HIDE DEF p
  <2>3. IsFiniteSet(Slots(a) \cup {p}) /\ Cardinality(Slots(a) \cup {p}) = Cardinality(Slots(a)) + 1
    BY <1>2, <2>1, FS_AddElement
  <2>4. Slots(a) \cup {p} \in SUBSET Slots(b)
    BY <1>4, <2>2
  <2>5. Cardinality(Slots(a) \cup {p}) <= Cardinality(Slots(b))
    BY <1>3, <2>4, FS_Subset
  <2> QED BY <2>3, <2>5
<1> QED BY <1>5, <1>6

\* Who is sending after a caller has moved.
LEMMA SendingMoves ==
  ASSUME NEW c \in Callers, NEW r, Put(c, r), DOMAIN caller = Callers
  PROVE  /\ Cardinality(Sending) \in Nat /\ Cardinality(Sending') \in Nat
         /\ r.at # "send" => Cardinality(Sending') <= Cardinality(Sending)
         /\ r.at # "send" /\ caller[c].at = "send"
              => Cardinality(Sending') + 1 = Cardinality(Sending)
         /\ Cardinality(Sending') <= Cardinality(Sending) + 1
<1>1. IsFiniteSet(Callers)
  BY ClientAssumption
<1>2. Sending \in SUBSET Callers /\ Sending' \in SUBSET Callers
  BY DEF Sending
<1>3. IsFiniteSet(Sending) /\ IsFiniteSet(Sending')
  BY <1>1, <1>2, FS_Subset
<1>4. Cardinality(Sending) \in Nat /\ Cardinality(Sending') \in Nat
  BY <1>3, FS_CardinalityType
<1>5. caller'[c] = r /\ \A x \in Callers \ {c} : caller'[x] = caller[x]
  BY DEF Put
<1>6. CASE r.at # "send"
  <2>1. Sending' = Sending \ {c}
    BY <1>5, <1>6 DEF Sending
  <2>2. Cardinality(Sending \ {c}) =
          IF c \in Sending THEN Cardinality(Sending) - 1 ELSE Cardinality(Sending)
    BY <1>3, FS_RemoveElement
  <2>3. caller[c].at = "send" => c \in Sending
    BY DEF Sending
  <2> QED BY <1>4, <1>6, <2>1, <2>2, <2>3
<1>7. CASE r.at = "send"
  <2>1. Sending' = Sending \cup {c}
    BY <1>5, <1>7 DEF Sending
  <2>2. Cardinality(Sending \cup {c}) =
          IF c \in Sending THEN Cardinality(Sending) ELSE Cardinality(Sending) + 1
    BY <1>3, FS_AddElement
  <2> QED BY <1>4, <1>7, <2>1, <2>2
<1> QED BY <1>6, <1>7

LEMMA InitIsAccounted == Init => Accounted
<1> SUFFICES ASSUME Init PROVE Accounted
  OBVIOUS
<1> DEFINE a == [c \in Callers |-> 0]
<1>1. a \in [Callers -> Nat] /\ Slots(a) = {}
  BY DEF Slots
<1>2. Sending = {}
  BY DEF Init, Sending, Idle
<1>3. sent + Cardinality(Sending) <= Cardinality(Slots(a))
  BY <1>1, <1>2, FS_EmptySet DEF Init
<1>4. \A c \in Callers : ~Asleep(c)
  BY DEF Init, Asleep, Idle
<1>5. \A c \in Callers : Holds(a, c)
  BY <1>4 DEF Init, Holds, Never
<1>6. \A c \in Callers : a[c] <= now + 1
  BY DEF Init
<1> HIDE DEF a
<1> QED BY <1>1, <1>3, <1>4, <1>5, <1>6 DEF Ledger, Accounted

\* What a caller does without the limiter: it neither sleeps nor wakes up, and
\* a request it sends has passed.
LEMMA OthersAreFair ==
  ASSUME IInv, Accounted, NEW c \in Callers, NEW r, Put(c, r),
         caller[c].at # "sleep", r.at \notin {"sleep", "send"},
         \/ sent' = sent
         \/ sent' = sent + 1 /\ caller[c].at = "send",
         UNCHANGED <<lastRequest, now>>
  PROVE  Accounted'
<1> PICK a \in [Callers -> Nat] : Ledger(a)
  BY DEF Accounted
<1>1. caller'[c] = r /\ \A x \in Callers \ {c} : caller'[x] = caller[x]
  BY DEF Put, IInv
<1>2. \A x \in Callers : Asleep(x)' = Asleep(x)
  BY <1>1 DEF Asleep
<1>3. \A x \in Callers : Asleep(x) => caller'[x] = caller[x]
  BY <1>1 DEF Asleep
<1>4. /\ Cardinality(Sending) \in Nat /\ Cardinality(Sending') \in Nat
      /\ Cardinality(Sending') <= Cardinality(Sending)
      /\ caller[c].at = "send" => Cardinality(Sending') + 1 = Cardinality(Sending)
  BY SendingMoves DEF IInv
<1>5. sent \in Nat /\ now \in Nat /\ Cardinality(Slots(a)) \in Nat
  BY SlotsCount DEF IInv, Globals, Ledger
<1>6. sent' + Cardinality(Sending') <= Cardinality(Slots(a))
  <2>1. sent + Cardinality(Sending) <= Cardinality(Slots(a))
    BY DEF Ledger
  <2> QED BY <1>4, <1>5, <2>1
<1>7. \A d \in Callers : Holds(a, d) => Holds(a, d)'
  BY <1>2 DEF Holds
<1>8. Ledger(a)'
  <2>1. \A x \in Callers : a[x] <= now' + 1
    BY DEF Ledger
  <2>2. \A x \in Callers : Asleep(x)' => a[x] = caller'[x].until
    BY <1>2, <1>3 DEF Ledger
  <2>3. Callers # {} => \E d \in Callers : Holds(a, d)'
    BY <1>7 DEF Ledger
  <2> QED BY <1>6, <2>1, <2>2, <2>3 DEF Ledger
<1> QED BY <1>8 DEF Accounted

LEMMA TickIsAccounted ==
  ASSUME IInv, Accounted, Tick
  PROVE  Accounted'
<1> PICK a \in [Callers -> Nat] : Ledger(a)
  BY DEF Accounted
<1>1. now \in Nat /\ now' = now + 1 /\ UNCHANGED <<lastRequest, caller, sent>>
  BY DEF Tick, IInv, Globals
<1>2. \A x \in Callers : a[x] <= now' + 1
  BY <1>1 DEF Ledger
<1>3. Sending' = Sending /\ \A x \in Callers : Asleep(x)' = Asleep(x)
  BY <1>1 DEF Sending, Asleep
<1>4. \A x \in Callers : Asleep(x)' => a[x] = caller'[x].until
  BY <1>1, <1>3 DEF Ledger
<1>5. \A d \in Callers : Holds(a, d) => Holds(a, d)'
  BY <1>1, <1>3 DEF Holds
<1>6. sent' + Cardinality(Sending') <= Cardinality(Slots(a))
  BY <1>1, <1>3 DEF Ledger
<1>7. Ledger(a)'
  <2>1. Callers # {} => \E d \in Callers : Holds(a, d)'
    BY <1>5 DEF Ledger
  <2> QED BY <1>2, <1>4, <1>6, <2>1 DEF Ledger
<1> QED BY <1>7 DEF Accounted

LEMMA PassLimitIsAccounted ==
  ASSUME Paced, IInv, Accounted, NEW c \in Callers, PassLimit(c)
  PROVE  Accounted'
<1> DEFINE job == caller[c]
           asleep == [job EXCEPT !.at = "sleep", !.until = lastRequest + 1]
           through == [job EXCEPT !.at = "send"]
<1> PICK a \in [Callers -> Nat] : Ledger(a)
  BY DEF Accounted
<1>1. job.at = "limit" /\ DOMAIN job = Fields14
  BY DEF PassLimit, IInv, Idle, JobInv
<1>2. /\ asleep.at = "sleep" /\ asleep.until = lastRequest + 1
      /\ through.at = "send"
  BY <1>1 DEF Fields14
<1>3. /\ now \in Nat /\ sent \in Nat /\ now' = now /\ sent' = sent
      /\ lastRequest \in {Never} \cup 0 .. now
  BY DEF PassLimit, IInv, Globals
<1>4. sent + Cardinality(Sending) <= Cardinality(Slots(a)) /\ Cardinality(Slots(a)) \in Nat
  BY <1>3, SlotsCount DEF Ledger
<1>5. ~Asleep(c)
  BY <1>1 DEF Asleep
<1> HIDE DEF asleep, through
<1>6. CASE lastRequest # Never /\ lastRequest + 1 > now
  <2>1. Put(c, asleep) /\ lastRequest' = lastRequest /\ lastRequest = now
    BY <1>3, <1>6 DEF PassLimit, asleep, Never
  <2>2. caller'[c] = asleep /\ \A x \in Callers \ {c} : caller'[x] = caller[x]
    BY <2>1 DEF Put, IInv
  <2>3. Asleep(c)' /\ \A x \in Callers \ {c} : Asleep(x)' = Asleep(x)
    BY <1>2, <2>2 DEF Asleep
  <2>4. /\ Cardinality(Sending) \in Nat /\ Cardinality(Sending') \in Nat
        /\ Cardinality(Sending') <= Cardinality(Sending)
    BY <1>2, <2>1, SendingMoves DEF IInv
  <2>5. PICK b \in [Callers -> Nat] :
          \A x \in Callers : b[x] = IF Asleep(x) THEN a[x] ELSE now + 1
    <3> DEFINE raised == [x \in Callers |-> IF Asleep(x) THEN a[x] ELSE now + 1]
    <3>1. raised \in [Callers -> Nat]
      BY <1>3
    <3>2. \A x \in Callers : raised[x] = IF Asleep(x) THEN a[x] ELSE now + 1
      OBVIOUS
    <3> HIDE DEF raised
    <3> QED BY <3>1, <3>2
  <2>6. \A x \in Callers : a[x] <= b[x] /\ b[x] <= now + 1
    BY <1>3, <2>5 DEF Ledger
  <2>7. Cardinality(Slots(a)) <= Cardinality(Slots(b)) /\ Cardinality(Slots(b)) \in Nat
    <3>1. now + 1 \in Nat
      BY <1>3
    <3> QED BY <2>6, <3>1, SlotsGrow, SlotsCount
  <2>8. sent' + Cardinality(Sending') <= Cardinality(Slots(b))
    BY <1>3, <1>4, <2>4, <2>7
  <2>9. ASSUME NEW x \in Callers, Asleep(x)'
        PROVE  b[x] = caller'[x].until
    <3>1. CASE x = c
      BY <1>2, <1>5, <2>1, <2>2, <2>5, <3>1
    <3>2. CASE x # c
      BY <2>2, <2>3, <2>5, <2>9, <3>2 DEF Ledger
    <3> QED BY <3>1, <3>2
  <2>10. \E d \in Callers : Holds(b, d)'
    <3>1. b[c] = lastRequest' + 1
      BY <1>5, <2>1, <2>5
    <3>2. CASE \A x \in Callers : Asleep(x)'
      BY <3>1, <3>2 DEF Holds
    <3>3. CASE \E x \in Callers : ~Asleep(x)'
      <4>1. PICK x \in Callers : ~Asleep(x)'
        BY <3>3
      <4>2. ~Asleep(x)
        BY <1>5, <2>3, <4>1
      <4>3. b[x] = lastRequest' + 1
        BY <2>1, <2>5, <4>2
      <4> QED BY <4>1, <4>3 DEF Holds
    <3> QED BY <3>2, <3>3
  <2>11. Ledger(b)'
    <3>1. \A x \in Callers : b[x] <= now' + 1
      BY <1>3, <2>6
    <3> QED BY <2>8, <2>9, <2>10, <3>1 DEF Ledger
  <2> QED BY <2>11 DEF Accounted
<1>7. CASE ~(lastRequest # Never /\ lastRequest + 1 > now)
  <2>1. Put(c, through) /\ lastRequest' = now /\ lastRequest + 1 \in Nat /\ lastRequest + 1 <= now
    BY <1>3, <1>7 DEF PassLimit, through, Never
  <2>2. caller'[c] = through /\ \A x \in Callers \ {c} : caller'[x] = caller[x]
    BY <2>1 DEF Put, IInv
  <2>3. \A x \in Callers : Asleep(x)' = Asleep(x) /\ (Asleep(x) => caller'[x] = caller[x])
    BY <1>2, <1>5, <2>2 DEF Asleep
  <2>4. /\ Cardinality(Sending) \in Nat /\ Cardinality(Sending') \in Nat
        /\ Cardinality(Sending') <= Cardinality(Sending) + 1
    BY <2>1, SendingMoves DEF IInv
  <2>5. PICK d \in Callers : Holds(a, d)
    BY DEF Ledger
  <2>6. a[d] = lastRequest + 1 /\ ~Asleep(d)
    BY <1>5, <2>5 DEF Holds
  <2>7. PICK b \in [Callers -> Nat] : b[d] = now + 1 /\ \A x \in Callers \ {d} : b[x] = a[x]
    <3>1. [a EXCEPT ![d] = now + 1] \in [Callers -> Nat]
      BY <1>3
    <3> QED BY <3>1
  <2>8. \A x \in Callers : a[x] <= b[x] /\ b[x] <= now + 1
    BY <1>3, <2>7 DEF Ledger
  <2>9. Cardinality(Slots(a)) + 1 <= Cardinality(Slots(b)) /\ Cardinality(Slots(b)) \in Nat
    <3>1. now + 1 \in Nat
      BY <1>3
    <3>2. a[d] < b[d]
      BY <1>3, <2>1, <2>6, <2>7
    <3> QED BY <2>8, <3>1, <3>2, SlotsGrow, SlotsCount
  <2>10. sent' + Cardinality(Sending') <= Cardinality(Slots(b))
    BY <1>3, <1>4, <2>4, <2>9
  <2>11. Holds(b, d)'
    BY <2>1, <2>3, <2>6, <2>7 DEF Holds
  <2>12. ASSUME NEW x \in Callers, Asleep(x)'
         PROVE  b[x] = caller'[x].until
    BY <2>3, <2>6, <2>7, <2>12 DEF Ledger
  <2>13. Ledger(b)'
    <3>1. \A x \in Callers : b[x] <= now' + 1
      BY <1>3, <2>8
    <3> QED BY <2>10, <2>11, <2>12, <3>1 DEF Ledger
  <2> QED BY <2>13 DEF Accounted
<1> QED BY <1>6, <1>7

\* The clock goes back to when the sleeper was due; the others keep the slots
\* they have used.
LEMMA WakeUpIsAccounted ==
  ASSUME IInv, Accounted, NEW c \in Callers, WakeUp(c)
  PROVE  Accounted'
<1> DEFINE job == caller[c]
           awake == [job EXCEPT !.at = "send", !.until = 0]
<1> PICK a \in [Callers -> Nat] : Ledger(a)
  BY DEF Accounted
<1>1. job.at = "sleep" /\ DOMAIN job = Fields14 /\ Sleeps(job)
  BY DEF WakeUp, IInv, Idle, JobInv
<1>2. awake.at = "send"
  BY <1>1 DEF Fields14
<1>3. /\ now \in Nat /\ sent \in Nat /\ now' = now /\ sent' = sent
      /\ job.until \in Nat /\ job.until <= now /\ lastRequest' = job.until
  BY <1>1 DEF WakeUp, Due, IInv, Globals, Sleeps
<1>4. sent + Cardinality(Sending) <= Cardinality(Slots(a)) /\ Cardinality(Slots(a)) \in Nat
  BY <1>3, SlotsCount DEF Ledger
<1>5. a[c] = job.until
  BY <1>1 DEF Asleep, Ledger
<1>6. Put(c, awake)
  BY DEF WakeUp
<1> HIDE DEF awake
<1>7. caller'[c] = awake /\ \A x \in Callers \ {c} : caller'[x] = caller[x]
  BY <1>6 DEF Put, IInv
<1>8. ~Asleep(c)' /\ \A x \in Callers \ {c} : Asleep(x)' = Asleep(x)
  BY <1>2, <1>7 DEF Asleep
<1>9. /\ Cardinality(Sending) \in Nat /\ Cardinality(Sending') \in Nat
      /\ Cardinality(Sending') <= Cardinality(Sending) + 1
  BY <1>6, SendingMoves DEF IInv
<1>10. PICK b \in [Callers -> Nat] :
         b[c] = lastRequest' + 1 /\ \A x \in Callers \ {c} : b[x] = a[x]
  <2>1. [a EXCEPT ![c] = lastRequest' + 1] \in [Callers -> Nat]
    BY <1>3
  <2> QED BY <2>1
<1>11. \A x \in Callers : a[x] <= b[x] /\ b[x] <= now + 1
  BY <1>3, <1>5, <1>10 DEF Ledger
<1>12. Cardinality(Slots(a)) + 1 <= Cardinality(Slots(b)) /\ Cardinality(Slots(b)) \in Nat
  <2>1. now + 1 \in Nat
    BY <1>3
  <2>2. a[c] < b[c]
    BY <1>3, <1>5, <1>10
  <2> QED BY <1>11, <2>1, <2>2, SlotsGrow, SlotsCount
<1>13. sent' + Cardinality(Sending') <= Cardinality(Slots(b))
  BY <1>3, <1>4, <1>9, <1>12
<1>14. Holds(b, c)'
  BY <1>8, <1>10 DEF Holds
<1>15. ASSUME NEW x \in Callers, Asleep(x)'
       PROVE  b[x] = caller'[x].until
  BY <1>7, <1>8, <1>10, <1>15 DEF Ledger
<1>16. Ledger(b)'
  <2>1. \A x \in Callers : b[x] <= now' + 1
    BY <1>3, <1>11
  <2> QED BY <1>13, <1>14, <1>15, <2>1 DEF Ledger
<1> QED BY <1>16 DEF Accounted

LEMMA AskIsAccounted ==
  ASSUME IInv, Accounted, NEW c \in Callers, NEW size \in JobSizes, Ask(c, size)
  PROVE  Accounted'
<1> PICK r : Put(c, r) /\ r.at = "limit"
  BY DEF Ask
<1>1. caller[c].at # "sleep" /\ sent' = sent /\ UNCHANGED <<lastRequest, now>>
  BY DEF Ask
<1> QED BY <1>1, OthersAreFair

LEMMA AnsweredIsAccounted ==
  ASSUME IInv, Accounted, NEW c \in Callers, Answered(c)
  PROVE  Accounted'
<1> DEFINE job == [caller[c] EXCEPT !.asked = @ + 1]
           chunk == Range(Chunk(job))
<1>1. JobInv(caller[c]) /\ caller[c].at = "send" /\ DOMAIN caller[c] = Fields14
  BY DEF Answered, IInv, Idle, JobInv
<1>2. DOMAIN job = Fields14
  BY <1>1
<1>3. PICK got : Put(c, Read(job, got))
  BY DEF Answered
<1> HIDE DEF job
<1>4. Read(job, got).at \in {"limit", "finished"}
  BY <1>2 DEF Read, GoOn, Fields14
<1>5. sent' = sent + 1 /\ UNCHANGED <<lastRequest, now>>
  BY DEF Answered
<1> QED BY <1>1, <1>3, <1>4, <1>5, OthersAreFair

LEMMA FailedIsAccounted ==
  ASSUME IInv, Accounted, NEW c \in Callers, Failed(c)
  PROVE  Accounted'
<1> DEFINE job == [caller[c] EXCEPT !.asked = @ + 1]
<1>1. caller[c].at = "send" /\ DOMAIN caller[c] = Fields14
  BY DEF Failed, IInv, Idle, JobInv
<1>2. DOMAIN job = Fields14
  BY <1>1
<1>3. PICK fault : Put(c, IF shouldRetry(fault) /\ AttemptsLeft(job)
                          THEN [job EXCEPT !.at = "backoff", !.fault = fault, !.row = @ + 1]
                          ELSE GiveUp(job, fault))
  BY DEF Failed
<1> HIDE DEF job
<1>4. PICK r : Put(c, r) /\ r.at \in {"backoff", "limit", "finished"}
  <2>1. [job EXCEPT !.at = "backoff", !.fault = fault, !.row = @ + 1].at = "backoff"
    BY <1>2 DEF Fields14
  <2>2. GiveUp(job, fault).at \in {"limit", "finished"}
    BY <1>2 DEF GiveUp, Fields14
  <2>3. CASE shouldRetry(fault) /\ AttemptsLeft(job)
    BY <1>3, <2>1, <2>3
  <2>4. CASE ~(shouldRetry(fault) /\ AttemptsLeft(job))
    BY <1>3, <2>2, <2>4
  <2> QED BY <2>3, <2>4
<1>5. sent' = sent + 1 /\ UNCHANGED <<lastRequest, now>>
  BY DEF Failed
<1> QED BY <1>1, <1>4, <1>5, OthersAreFair

LEMMA RestIsAccounted ==
  ASSUME IInv, Accounted, NEW c \in Callers, Retry(c) \/ Cancelled(c) \/ Return(c)
  PROVE  Accounted'
<1>1. caller[c].at \in {"limit", "send", "backoff", "finished"}
  BY DEF Retry, Cancelled, Return
<1>2. DOMAIN caller[c] = Fields14
  BY <1>1 DEF IInv, Idle, JobInv
<1>3. PICK r : Put(c, r) /\ r.at \in {"limit", "finished", "idle"}
  <2>1. CASE Retry(c)
    <3>1. [caller[c] EXCEPT !.at = "limit", !.attempt = @ + 1].at = "limit"
      BY <1>2 DEF Fields14
    <3> QED BY <2>1, <3>1 DEF Retry
  <2>2. CASE Cancelled(c)
    <3>1. [caller[c] EXCEPT !.at = "finished", !.outcome = "error",
                            !.fault = "cancelled"].at = "finished"
      BY <1>2 DEF Fields14
    <3> QED BY <2>2, <3>1 DEF Cancelled
  <2>3. CASE Return(c)
    BY <2>3 DEF Return, Idle
  <2> QED BY <2>1, <2>2, <2>3
<1>4. sent' = sent /\ UNCHANGED <<lastRequest, now>>
  BY DEF Retry, Cancelled, Return
<1> QED BY <1>1, <1>3, <1>4, OthersAreFair

LEMMA StepIsAccounted ==
  ASSUME Paced, IInv, Accounted, [Next]_vars
  PROVE  Accounted'
<1>1. CASE Tick
  BY <1>1, TickIsAccounted
<1>2. ASSUME NEW c \in Callers, Work(c) \/ Cancelled(c)
      PROVE  Accounted'
  BY <1>2, PassLimitIsAccounted, WakeUpIsAccounted, AnsweredIsAccounted, FailedIsAccounted, RestIsAccounted DEF Work
<1>3. ASSUME NEW c \in Callers, NEW size \in JobSizes, Ask(c, size)
      PROVE  Accounted'
  BY <1>3, AskIsAccounted
<1>4. CASE UNCHANGED vars
  BY <1>4 DEF vars, Accounted, Ledger, Holds, Asleep, Sending
<1> QED BY <1>1, <1>2, <1>3, <1>4 DEF Next

\* However many goroutines sleep in the limiter and however late they wake up
\* and set its clock back, n callers send at most n times what one may send
\* (waitRateLimit).
THEOREM RateIsBounded == Spec => []RateHolds
<1>1. CASE Paced
  <2>1. Init => Accounted
    BY InitIsAccounted
  <2>2. IInv /\ Accounted /\ [Next]_vars => Accounted'
    BY <1>1, StepIsAccounted
  <2>3. IInv /\ Accounted => RateHolds
    <3> SUFFICES ASSUME IInv, Accounted PROVE sent <= Cardinality(Callers) * (now + 1)
      BY DEF RateHolds
    <3> PICK a \in [Callers -> Nat] : Ledger(a)
      BY DEF Accounted
    <3>1. sent \in Nat /\ now + 1 \in Nat /\ Cardinality(Sending) \in Nat
      <4>1. IsFiniteSet(Sending)
        BY ClientAssumption, FS_Subset DEF Sending
      <4> QED BY <4>1, FS_CardinalityType DEF IInv, Globals
    <3>2. /\ Cardinality(Slots(a)) \in Nat
          /\ Cardinality(Slots(a)) <= Cardinality(Callers) * (now + 1)
      BY <3>1, SlotsCount DEF Ledger
    <3>3. Cardinality(Callers) * (now + 1) \in Nat
      <4>1. Cardinality(Callers) \in Nat
        BY ClientAssumption, FS_CardinalityType
      <4> QED BY <3>1, <4>1
    <3>4. sent + Cardinality(Sending) <= Cardinality(Slots(a))
      BY DEF Ledger
    <3> DEFINE all == Cardinality(Callers) * (now + 1)
    <3> HIDE DEF all
    <3>5. sent <= all
      BY <3>1, <3>2, <3>3, <3>4 DEF all
    <3> QED BY <3>5 DEF all
  <2> QED BY <2>1, <2>2, <2>3, Invariance, PTL DEF Spec
<1>2. CASE ~Paced
  <2>1. RateHolds
    BY <1>2 DEF RateHolds
  <2> QED BY <2>1, PTL
<1> QED BY <1>1, <1>2

-----------------------------------------------------------------------------
(* The provider.                                                           *)

\* Whatever stands in the fields of a result: a result that is handed out
\* names what it is about, and every value of it is the one that was sent, or
\* that one behind a zero where a digit is missing.
LEMMA NeverMisread == ASSUME NEW kind, NEW raw PROVE ~Misread(kind, raw)
<1> SUFFICES ASSUME \A f \in DOMAIN raw : Decoded(kind, raw)[f] # "error",
                    NEW f \in DOMAIN raw,
                    IF raw[f] = "absent" THEN Fields[kind][f] \in {"hash", "address"}
                    ELSE /\ Decoded(kind, raw)[f] # raw[f]
                         /\ ~(raw[f] = "odd" /\ Decoded(kind, raw)[f] = "padded")
             PROVE  FALSE
  BY DEF Misread
<1> DEFINE type == Fields[kind][f]
<1> HIDE DEF type
<1>1. Decoded(kind, raw)[f] = Parse(type, raw[f])
  BY DEF Decoded, type
<1>2. Parse(type, raw[f]) # "error"
  BY <1>1
<1>3. CASE raw[f] = "absent"
  BY <1>2, <1>3 DEF Parse, Absent, type
<1>4. CASE raw[f] # "absent"
  BY <1>1, <1>2, <1>4 DEF Parse, type
<1> QED BY <1>3, <1>4

\* A result that is null, too wide or of the wrong length is an error of the
\* call, never zero or a value nobody sent; only a digit that is missing from
\* a hash, an address or a byte string is filled in (the parse functions of
\* the provider).
THEOREM AnswersAreReadAsSent == Spec => []NothingMisread
<1>1. Init => NothingMisread
  BY DEF Init, NothingMisread
<1>2. NothingMisread /\ [Next]_vars => NothingMisread'
  <2> SUFFICES ASSUME NothingMisread, [Next]_vars PROVE NothingMisread'
    OBVIOUS
  <2>1. ASSUME NEW c \in Callers, Return(c)
        PROVE  NothingMisread'
    BY <2>1, NeverMisread DEF Return, SomeMisread, NullMisread, NothingMisread
  <2>2. ASSUME NEW c \in Callers, Work(c) \/ Cancelled(c) \/ \E size \in JobSizes : Ask(c, size),
               ~Return(c)
        PROVE  misread' = misread
    BY <2>2 DEF Work, PassLimit, WakeUp, Answered, Failed, Retry, Cancelled, Ask
  <2>3. Tick => misread' = misread
    BY DEF Tick
  <2>4. UNCHANGED vars => misread' = misread
    BY DEF vars
  <2> QED BY <2>1, <2>2, <2>3, <2>4 DEF Next, NothingMisread
<1> QED BY <1>1, <1>2, PTL DEF Spec

=============================================================================
