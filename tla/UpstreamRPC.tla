----------------------------- MODULE UpstreamRPC -----------------------------
(***************************************************************************)
(* The JSON-RPC client the fork engine reads the chain with: batches in    *)
(* chunks with a fallback to single requests, bounded retries, a rate      *)
(* limit shared by all callers, and the provider that decodes the answers. *)
(*                                                                         *)
(* A call is a number and its true answer is that number.  The node is     *)
(* external: it may fail in every way HTTP and JSON-RPC allow, drop        *)
(* responses from a batch, repeat them, change their order, and answer     *)
(* what nobody asked.                                                      *)
(***************************************************************************)
EXTENDS Integers, Sequences, FiniteSets, SequencesExt

CONSTANTS
  Callers,
  JobSizes,      \* how many calls a caller asks for at once
  Mode,          \* BatchConfig.Mode
  MaxBatchSize,  \* BatchConfig.MaxBatchSize
  MaxAttempts,   \* RetryConfig.MaxAttempts
  Paced,         \* RateLimitConfig.RequestsPerSecond is set: one request per tick
  Faults,        \* the failures the node may show
  MaxFaults,     \* bound: failures of the node
  MaxJobs,       \* bound: jobs
  MaxTime        \* bound: ticks

\* What may be wrong with the answer to one call of a request that succeeds.
Oddities == {"error", "null", "missing", "repeated", "stray"}

ASSUME ClientAssumption ==
  /\ IsFiniteSet(Callers)
  /\ JobSizes \subseteq Nat \ {0}
  /\ Mode \in {"disabled", "enabled", "probe"}
  /\ MaxBatchSize \in Nat \ {0} /\ MaxAttempts \in Nat \ {0}
  /\ Paced \in BOOLEAN
  /\ Faults \subseteq {"lost", "unavailable", "limited", "limitedText", "refused",
                       "refusedText", "cut", "object", "text"} \cup Oddities
  /\ {MaxFaults, MaxJobs, MaxTime} \subseteq Nat

VARIABLES
  \* JSONRPCClient
  lastRequest,      \* when the limiter let the last request pass, Never at first
  batchSupported,   \* batchProbeDone and batchSupported
  \* the goroutines that use it
  caller,
  now,
  \* history and bounds
  sent,             \* HTTP requests so far
  faults, jobs,
  misread           \* the provider has handed out what the node did not send

vars == <<lastRequest, batchSupported, caller, now, sent, faults, jobs, misread>>

Never == -1
Unanswered == 0
Foreign == -1     \* the id of a response nobody asked for
Idle == [at |-> "idle", outcome |-> "none"]

Put(c, record) == caller' = [caller EXCEPT ![c] = record]

-----------------------------------------------------------------------------
(* The limiter.                                                            *)

\* waitRateLimit, before the request: the lock is released while a caller
\* sleeps.
PassLimit(c) ==
  /\ caller[c].at = "limit"
  /\ IF Paced /\ lastRequest # Never /\ lastRequest + 1 > now
     THEN /\ Put(c, [caller[c] EXCEPT !.at = "sleep", !.until = lastRequest + 1])
          /\ UNCHANGED lastRequest
     ELSE /\ Put(c, [caller[c] EXCEPT !.at = "send"])
          /\ lastRequest' = IF Paced THEN now ELSE lastRequest
  /\ UNCHANGED <<batchSupported, now, sent, faults, jobs, misread>>

\* Variant with a bug: the caller is not held up until its time.
DueAtOnce(c) == TRUE

Due(c) == now >= caller[c].until

\* It wakes up some time after it is due, and sets the clock of the limiter
\* to when it was due, whatever others have done meanwhile.
WakeUp(c) ==
  /\ caller[c].at = "sleep" /\ Due(c)
  /\ lastRequest' = caller[c].until
  /\ Put(c, [caller[c] EXCEPT !.at = "send", !.until = 0])
  /\ UNCHANGED <<batchSupported, now, sent, faults, jobs, misread>>

Tick ==
  /\ now < MaxTime \/ \E c \in Callers : caller[c].at = "sleep" /\ ~Due(c)
  /\ now' = now + 1
  /\ UNCHANGED <<lastRequest, batchSupported, caller, sent, faults, jobs, misread>>

-----------------------------------------------------------------------------
(* Jobs: Call and BatchCall.                                               *)

\* The calls of the request under way.
Chunk(job) ==
  IF job.route = "serial" THEN <<job.next>>
  ELSE [i \in 1 .. (IF job.next + MaxBatchSize - 1 <= job.size THEN MaxBatchSize
                    ELSE job.size - job.next + 1) |-> job.next + i - 1]

Route(size) ==
  IF size = 1 \/ Mode = "disabled" THEN "serial"
  ELSE IF Mode = "probe" /\ batchSupported # "yes" THEN "probing"
  ELSE "batched"

Ask(c, size) ==
  /\ caller[c].at = "idle" /\ jobs < MaxJobs
  /\ jobs' = jobs + 1
  /\ Put(c, [at |-> "limit", size |-> size, route |-> Route(size), next |-> 1, attempt |-> 1,
             until |-> 0, results |-> [i \in 1 .. size |-> Unanswered], values |-> {}, nulls |-> {},
             strays |-> {}, fault |-> "none", row |-> 0, asked |-> 0, outcome |-> "none"])
  /\ UNCHANGED <<lastRequest, batchSupported, now, sent, faults, misread>>

\* The status doHTTP returns with a failure: none when there was no response,
\* and that of the response when the connection is cut while the body is read
\* (with another status, the cut is no different from that status).
Status(fault) ==
  CASE fault = "lost" -> 0
    [] fault = "unavailable" -> 500
    [] fault \in {"limited", "limitedText"} -> 429
    [] fault \in {"refused", "refusedText"} -> 400
    [] OTHER -> 200

\* shouldRetry.  A 4xx whose body is not JSON has been classified as
\* errBatchUnsupported by then.  Variant with a bug: the first error is final.
RetriesNot(fault) == FALSE

shouldRetry(fault) ==
  /\ fault \notin {"limitedText", "refusedText"}
  /\ Status(fault) \in {0, 429} \/ Status(fault) >= 500

\* Variant with a bug: one attempt too many.
AttemptsLeftOrOne(job) == job.attempt <= MaxAttempts

AttemptsLeft(job) == job.attempt < MaxAttempts

Unsupported(job, fault) ==
  \/ fault \in {"limitedText", "refusedText"}
  \/ job.route # "serial" /\ fault \in {"object", "text"}

\* A request that will not be repeated failed: a probe falls back to single
\* requests, from the first call on; everything else is reported.  Variant with
\* a bug: nobody reports it.
GiveUpUnreported(job, fault) == [job EXCEPT !.at = "unreported", !.fault = fault]

GiveUp(job, fault) ==
  IF job.route = "probing" /\ Unsupported(job, fault)
  THEN [job EXCEPT !.at = "limit", !.route = "serial", !.next = 1, !.attempt = 1,
                   !.fault = "none", !.row = 0]
  ELSE [job EXCEPT !.at = "finished", !.outcome = "error", !.fault = fault, !.row = @ + 1]

\* The next chunk or call, if there is one.
GoOn(job) ==
  LET next == job.next + Len(Chunk(job))
  IN IF next <= job.size
     THEN [job EXCEPT !.at = "limit", !.next = next, !.attempt = 1, !.fault = "none",
                      !.row = 0]
     ELSE [job EXCEPT !.at = "finished", !.outcome = "ok", !.fault = "none"]

\* The responses the node sends, each with the id of a call: of the call odd it
\* may report an error, say null or nothing, or report an error beside the
\* value; it may answer what nobody asked, of a single request instead.  (A
\* single response without a result reads like null.)
Responses(job, fault, odd) ==
  LET own == {[id |-> i, answer |-> "value"] : i \in Range(Chunk(job))}
      rest == {r \in own : r.id # odd}
      foreign == {[id |-> Foreign, answer |-> "value"]}
  IN CASE fault = "none" -> own
       [] fault = "missing" -> rest
       [] fault \in {"error", "null"} -> rest \cup {[id |-> odd, answer |-> fault]}
       [] fault = "repeated" -> own \cup {[id |-> odd, answer |-> "error"]}
       [] fault = "stray" -> (IF job.route = "serial" THEN {} ELSE own) \cup foreign

\* byID of doBatchChunk keeps the last response with an id; doSingle takes the
\* only one, whatever its id.  Variant with a bug: responses are taken in the
\* order they come.
NoResponse == [id |-> Unanswered, answer |-> "none"]

ResponseInOrder(job, responses, i) ==
  IF i - job.next + 1 \in DOMAIN responses THEN responses[i - job.next + 1] ELSE NoResponse

Response(job, responses, i) ==
  LET found == {k \in DOMAIN responses : job.route = "serial" \/ responses[k].id = i}
  IN IF found = {} THEN NoResponse
     ELSE responses[CHOOSE k \in found : \A l \in found : l <= k]

\* The answers a request can get: for each call of it a response or none, with
\* the responses in any order.
Answers(job, fault, odd) ==
  {[i \in Range(Chunk(job)) |-> Response(job, responses, i)] :
     responses \in SetToSeqs(Responses(job, fault, odd))}

\* What a job makes of the answers to its chunk.  The calls before the first
\* error or gap of the chunk have their values by then; null leaves a value
\* alone.
Read(job, got) ==
  LET bad == {i \in DOMAIN got : got[i].answer \in {"none", "error"}}
      read == {i \in DOMAIN got : \A j \in bad : i < j}
      nulls == {i \in read : got[i].answer = "null"}
      strays == {i \in read \ nulls : job.route = "serial" /\ got[i].id = Foreign}
      taken == [job EXCEPT
        !.results = [i \in DOMAIN @ |-> IF i \in read \ nulls THEN got[i].id ELSE @[i]],
        !.values = @ \cup (read \ nulls), !.nulls = @ \cup nulls, !.strays = @ \cup strays]
  IN IF bad = {} THEN GoOn(taken)
     ELSE [taken EXCEPT !.at = "finished", !.outcome = "error", !.fault = "answer"]

\* doHTTP: the node answers, in any order, and with something odd about one of
\* the calls.
Answered(c) ==
  /\ caller[c].at = "send"
  /\ sent' = sent + 1
  /\ LET job == [caller[c] EXCEPT !.asked = @ + 1]
     IN \E fault \in {"none"} \cup (Faults \cap Oddities), odd \in Range(Chunk(job)) :
          /\ job.route = "serial" => fault \notin {"missing", "repeated"}
          /\ faults' = faults + (IF fault = "none" THEN 0 ELSE 1) /\ faults' <= MaxFaults
          /\ \E got \in Answers(job, fault, odd) : Put(c, Read(job, got))
  /\ batchSupported' =
       IF caller[c].route = "probing" /\ caller'[c].outcome = "ok" THEN "yes" ELSE batchSupported
  /\ UNCHANGED <<lastRequest, now, jobs, misread>>

\* doWithRetry: the attempt failed.  The fallback repeats calls the batch
\* answered already.
Failed(c) ==
  /\ caller[c].at = "send"
  /\ faults < MaxFaults /\ faults' = faults + 1
  /\ sent' = sent + 1
  /\ \E fault \in Faults \ Oddities :
       LET job == [caller[c] EXCEPT !.asked = @ + 1]
       IN /\ Put(c, IF shouldRetry(fault) /\ AttemptsLeft(job)
                    THEN [job EXCEPT !.at = "backoff", !.fault = fault, !.row = @ + 1]
                    ELSE GiveUp(job, fault))
          /\ batchSupported' = IF job.route = "probing" /\ caller'[c].route = "serial"
                               THEN "no" ELSE batchSupported
  /\ UNCHANGED <<lastRequest, now, jobs, misread>>

\* retryDelay has passed.
Retry(c) ==
  /\ caller[c].at = "backoff"
  /\ Put(c, [caller[c] EXCEPT !.at = "limit", !.attempt = @ + 1])
  /\ UNCHANGED <<lastRequest, batchSupported, now, sent, faults, jobs, misread>>

\* The context of the request ends: seen before a sleep, and by the transport.
Cancelled(c) ==
  /\ caller[c].at \in {"limit", "send", "backoff"}
  /\ faults < MaxFaults /\ faults' = faults + 1
  /\ Put(c, [caller[c] EXCEPT !.at = "finished", !.outcome = "error", !.fault = "cancelled"])
  /\ UNCHANGED <<lastRequest, batchSupported, now, sent, jobs, misread>>

-----------------------------------------------------------------------------
(* The provider.                                                           *)

\* What may stand in a field of a result: nothing (or null), a value that
\* fits, a number beyond 64 bits, hex digits that are one too few (an odd
\* number of them) or of another length, digits after a minus sign, no hex.
Text == {"absent", "fits", "wide", "odd", "short", "signed", "garbage"}

\* The results of GetBalance ... GetTransactionReceipt and the fields of them;
\* of a list, one element.
Fields ==
  [balance |-> [value |-> "big"],
   nonce |-> [value |-> "uint64"],
   code |-> [value |-> "bytes"],
   storage |-> [value |-> "hash"],
   block |-> [number |-> "big", hash |-> "hash", parentHash |-> "hash",
              timestamp |-> "uint64", gasLimit |-> "uint64", baseFee |-> "optional big",
              blobBaseFee |-> "optional big", coinbase |-> "address",
              prevRandao |-> "optional hash"],
   transaction |-> [blockNumber |-> "optional big", hash |-> "hash",
              blockHash |-> "optional hash", from |-> "address", to |-> "optional address",
              type |-> "optional uint64", gas |-> "uint64", gasPrice |-> "big",
              blobGasFeeCap |-> "optional big", blobHashes |-> "hashes",
              accessList |-> "hashes", input |-> "bytes", nonce |-> "uint64",
              transactionIndex |-> "optional uint64", value |-> "big"],
   receipt |-> [transactionHash |-> "hash", transactionIndex |-> "uint64",
              blockHash |-> "hash", blockNumber |-> "big", from |-> "address",
              to |-> "optional address", gasUsed |-> "uint64", cumulativeGasUsed |-> "uint64",
              effectiveGasPrice |-> "optional big", contractAddress |-> "optional address",
              status |-> "optional uint64", logAddresses |-> "hashes", logTopics |-> "hashes",
              logData |-> "bytes"]]

Absent(type) ==
  CASE type \in {"hash", "address"} -> "error"
    [] type \in {"optional big", "optional uint64", "optional address"} -> "nil"
    [] OTHER -> "zero"

Numbers == {"big", "uint64", "optional big", "optional uint64"}

\* The parse functions.  A number may have any number of digits; parseHexBytes
\* puts a zero in front of an odd number of digits, so that 63 digits are
\* accepted as a hash and 39 as an address.  Variant with a bug: the high bits
\* of a number are dropped.
ParseLow64(type, text) ==
  IF text = "wide" /\ type \in {"uint64", "optional uint64"} THEN "fits"
  ELSE IF text = "absent" THEN Absent(type) ELSE text

Parse(type, text) ==
  CASE text = "absent" -> Absent(type)
    [] text = "garbage" -> "error"
    [] text = "odd" /\ type \notin Numbers -> "padded"
    [] text = "signed" /\ type \notin {"big", "optional big"} -> "error"
    [] text = "wide" /\ type \in {"uint64", "optional uint64"} -> "error"
    [] text \in {"wide", "short"} /\ type \notin Numbers \cup {"bytes"} -> "error"
    [] OTHER -> text

Decoded(kind, raw) == [f \in DOMAIN raw |-> Parse(Fields[kind][f], raw[f])]

\* Results in which all fields fit but one, and null, which leaves all absent.
Null(kind) == [f \in DOMAIN Fields[kind] |-> "absent"]

Raws(kind) ==
  LET fits == [f \in DOMAIN Fields[kind] |-> "fits"]
  IN {[fits EXCEPT ![f] = text] : f \in DOMAIN fits, text \in Text}

\* A result is handed out although a block, transaction, account or log it is
\* about is not named, or with a value that is neither the one sent nor that
\* one behind the zero its missing digit stands for.
Misread(kind, raw) ==
  LET decoded == Decoded(kind, raw)
  IN /\ \A f \in DOMAIN raw : decoded[f] # "error"
     /\ \E f \in DOMAIN raw :
          IF raw[f] = "absent" THEN Fields[kind][f] \in {"hash", "address"}
          ELSE /\ decoded[f] # raw[f]
               /\ ~(raw[f] = "odd" /\ decoded[f] = "padded")

SomeMisread == \E kind \in DOMAIN Fields : \E raw \in Raws(kind) : Misread(kind, raw)
NullMisread == \E kind \in DOMAIN Fields : Misread(kind, Null(kind))

\* The caller has its answer.  A single call is the provider's, which decodes
\* it.
Return(c) ==
  /\ caller[c].at = "finished"
  /\ Put(c, Idle)
  /\ misread' = (misread \/ /\ caller[c].outcome = "ok" /\ caller[c].size = 1
                            /\ IF caller[c].nulls # {} THEN NullMisread ELSE SomeMisread)
  /\ UNCHANGED <<lastRequest, batchSupported, now, sent, faults, jobs>>

-----------------------------------------------------------------------------

Init ==
  /\ lastRequest = Never /\ batchSupported = "unknown"
  /\ caller = [c \in Callers |-> Idle]
  /\ now = 0 /\ sent = 0 /\ faults = 0 /\ jobs = 0
  /\ misread = FALSE

Work(c) ==
  \/ PassLimit(c) \/ WakeUp(c) \/ Answered(c) \/ Failed(c)
  \/ Retry(c) \/ Return(c)

Next ==
  \/ Tick
  \/ \E c \in Callers : Work(c) \/ Cancelled(c) \/ \E size \in JobSizes : Ask(c, size)

Spec == Init /\ [][Next]_vars

\* Goroutines run, sleeps end, and every request of the HTTP client ends: it
\* has a timeout.
FairSpec == Spec /\ WF_vars(Tick) /\ \A c \in Callers : WF_vars(Work(c))

-----------------------------------------------------------------------------
(* Properties.                                                             *)

JobOK(job) ==
  /\ job.at \in {"limit", "sleep", "send", "backoff", "finished"}
  /\ job.size \in JobSizes /\ job.next \in 1 .. job.size
  /\ job.route \in {"serial", "probing", "batched"}
  /\ job.attempt \in 1 .. MaxAttempts
  /\ job.values \cup job.nulls \cup job.strays \subseteq 1 .. job.size

\* Every variable keeps its type; no request is attempted too often.
TypeOK ==
  /\ lastRequest \in {Never} \cup 0 .. now + 1
  /\ batchSupported \in {"unknown", "yes", "no"}
  /\ \A c \in Callers : caller[c] = Idle \/ JobOK(caller[c])
  /\ {now, sent, faults, jobs} \subseteq Nat

Chunks(size) == (size + MaxBatchSize - 1) \div MaxBatchSize

\* Whatever the order of responses, those that come twice or unasked, the
\* faults and the fallback: a call has no answer or its own, a job succeeds
\* only when the node answered every call of it, with a value or with null,
\* and it costs no more requests than one batched and one serial round of
\* bounded attempts.  Except that a single request takes what it gets: if that
\* is the response to another one, so be it (doSingle does not look at the id).
AnswersAreTheirOwn ==
  \A c \in Callers : caller[c] # Idle =>
    LET job == caller[c]
    IN /\ \A i \in 1 .. job.size :
            job.results[i] = IF i \in job.strays THEN Foreign
                             ELSE IF i \in job.values THEN i ELSE Unanswered
       /\ job.route # "serial" => job.strays = {}
       /\ job.outcome = "ok" => job.values \cup job.nulls = 1 .. job.size
       /\ job.asked <= MaxAttempts * (Chunks(job.size) + job.size)

\* A job that fails because no connection came about, the node was unavailable
\* or it was limited has failed so MaxAttempts times in a row: earlier chunks,
\* a fallback or a different failure in between count for nothing.  A
\* connection that is cut while the body of a 200 is read is not among these
\* failures: it is final at once.
FailsForCause ==
  \A c \in Callers :
    caller[c].outcome = "error" /\ caller[c].fault \in {"lost", "unavailable", "limited"}
      => caller[c].row = MaxAttempts

\* The limiter gives its slots to sleeping callers more than once and may be
\* set back; still n callers send at most n times what one may send.
RateHolds == Paced => sent <= Cardinality(Callers) * (now + 1)

\* What the provider hands out is what the node sent: an answer that is null
\* where a block, transaction or account should be named, a hash or address
\* that is too long or lacks more than a digit, a sign or a number beyond the
\* width of its field is an error, never zero or cut off.  (An amount, a nonce
\* or code that is absent reads as zero; a hash, address or byte string with
\* one digit missing is read with a zero in front; an amount may be negative.)
NothingMisread == ~misread

\* Every job ends: retries, fallback and pacing do not hold a caller up for
\* ever.
JobsEnd == \A c \in Callers : caller[c] # Idle ~> caller[c] = Idle

=============================================================================
