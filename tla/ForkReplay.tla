------------------------------ MODULE ForkReplay ------------------------------
(***************************************************************************)
(* Replaying a transaction that is not the first of its block: the fork    *)
(* engine runs the transactions before it against the state of the parent  *)
(* block, collects what they write under a cache key of the target's own   *)
(* (a synthetic block), and starts the target from there.  The answer says *)
(* whether it is exact.  State is read lazily, through the cache, from an  *)
(* upstream node that may fail; every request shares the cache and the     *)
(* remembered replay states.                                               *)
(*                                                                         *)
(* The chain is external: the block is any of Blocks and its receipts are  *)
(* what running it in order gives.  Balances, logs, refunds and contract   *)
(* creations are left out; storage cells stand for all state.              *)
(***************************************************************************)
EXTENDS Integers, Sequences, FiniteSets

CONSTANTS
  Clients,      \* goroutines that serve requests
  Slots,        \* storage cells
  MaxValue,     \* bound: values wrap around
  ParentState,  \* the cells in the state of the parent block
  Contracts,    \* the contracts transactions are sent to
  Blocks,       \* the blocks the chain may have: sequences of transactions
  Failing,      \* the upstream requests that may fail
  MaxRequests,  \* bound: replay requests in one behaviour
  Nothing       \* not cached, not remembered

Requests == {"list", "receipt", "code", "slot", "account"}
Values == 0 .. MaxValue
Deeds == {"read", "inc", "set", "require"}
Transactions == [to: Contracts, ops: Seq([slot: Slots, do: Deeds]),
                 ends: {"stop", "revert", "invalid"}, value: BOOLEAN]

ASSUME ReplayAssumption ==
  /\ MaxValue \in Nat \ {0} /\ MaxRequests \in Nat /\ Failing \subseteq Requests
  /\ Nothing \notin Values /\ ParentState \in [Slots -> Values]
  /\ \A block \in Blocks : block \in Seq(Transactions) /\ Len(block) > 0

VARIABLES
  block,         \* the block of the chain the transactions are in
  cache,         \* MemoryStore: what is cached under each block reference
  replayStates,  \* Engine.replayStates
  request,       \* what each goroutine is doing
  requests,      \* replay requests so far
  spoiled        \* history: targets whose reconstruction was broken off after it may
                 \* have written, was done twice at once, or kept a failed
                 \* transaction's writes

vars == <<block, cache, replayStates, request, requests, spoiled>>

-----------------------------------------------------------------------------
(* One transaction, on the cells it has loaded: [original, current].       *)

Parent == 0                      \* the reference of the parent block; t > 0 is
Refs == 0 .. Len(block)          \* the synthetic reference of transaction t
Coinbase == 0                    \* an account; t > 0 stands for those transaction t moves value
                                 \* between, the sender's and the recipient's, loaded one after
                                 \* the other

\* Variant with a bug: sums do not wrap around.
WrittenUnbounded(do, v) == IF do = "inc" THEN v + 1 ELSE IF do = "set" THEN 1 ELSE v

Written(do, v) ==
  CASE do = "inc" -> (v + 1) % (MaxValue + 1)
    [] do = "set" -> 1
    [] OTHER -> v

\* opSstore's cost; a load costs 1 as well.
Cost(cell, do) ==
  IF do \in {"inc", "set"} /\ cell.original = cell.current
    THEN IF Written(do, cell.current) = cell.current THEN 1
         ELSE IF cell.original = 0 THEN 20 ELSE 5
    ELSE 1

GasLimit == 1000

\* The machine of one run: the next instruction, its gas, the cells it loaded, how
\* it ended.
Cell == [original: Values, current: Values]
\* The mark of an absent entry is not an entry.
ASSUME MarkerAssumption == Nothing \notin Cell \cup [ref: Nat, exact: BOOLEAN]
Statuses == {"running", "stop", "revert", "invalid", "halt"}
Machine == [next: Nat \ {0}, gas: Nat, loaded: [Slots -> Cell \cup {Nothing}], status: Statuses]
NothingLoaded == [s \in Slots |-> Nothing]
Fresh == [next |-> 1, gas |-> 0, loaded |-> NothingLoaded, status |-> "running"]
Held(m) == {s \in Slots : m.loaded[s] # Nothing}

\* One instruction, on a cell that is loaded.
Step(tx, m) ==
  LET op == tx.ops[m.next]
      cell == m.loaded[op.slot]
  IN  IF op.do = "require" /\ cell.current = 0
        THEN [m EXCEPT !.status = "revert"]
        ELSE [m EXCEPT !.next = m.next + 1,
                       !.gas = m.gas + Cost(cell, op.do),
                       !.loaded[op.slot].current = Written(op.do, cell.current)]

\* The code ran to its end, or a load panicked inside EVM.Run and became StatusHalt.
Ended(m, how) ==
  [m EXCEPT !.status = how, !.gas = IF how \in {"invalid", "halt"} THEN GasLimit ELSE m.gas]

\* RevertToSnapshot drops the writes and what was loaded since the snapshot;
\* the snapshot exists only for a call that moves value.
Undone(tx, m) ==
  IF tx.value /\ m.status # "stop" THEN [m EXCEPT !.loaded = NothingLoaded] ELSE m

\* A failed transaction whose writes writeBackPreparedState will find.
KeepsWrites(m) ==
  m.status # "stop" /\ \E s \in Held(m) : m.loaded[s].original # m.loaded[s].current

-----------------------------------------------------------------------------
(* The chain.                                                              *)

Loaded(m, s, v) ==
  [m EXCEPT !.loaded[s] = [original |-> v, current |-> v]]

\* A transaction run on the full state, by a node.
Executed(tx, state) ==
  LET start == [Fresh EXCEPT !.loaded = [s \in Slots |-> [original |-> state[s], current |-> state[s]]]]
      run[n \in 0 .. Len(tx.ops)] ==
        IF n = 0 THEN start
        ELSE IF run[n-1].status = "running" THEN Step(tx, run[n-1]) ELSE run[n-1]
      last == run[Len(tx.ops)]
  IN  IF last.status = "running" THEN Ended(last, tx.ends) ELSE last

\* The state before each transaction of the block, on the chain.
ChainBefore ==
  LET after[n \in 0 .. Len(block)] ==
        IF n = 0 THEN ParentState
        ELSE LET m == Executed(block[n], after[n-1])
             IN  IF m.status = "stop" THEN [s \in Slots |-> m.loaded[s].current] ELSE after[n-1]
  IN  [t \in 1 .. Len(block) |-> after[t-1]]

Receipt(t) ==
  LET m == Executed(block[t], ChainBefore[t])
  IN  [success |-> m.status = "stop", gasUsed |-> m.gas]

\* CompareReplayToReceipt
Matches(t, m) ==
  /\ (m.status = "stop") = Receipt(t).success
  /\ m.gas = Receipt(t).gasUsed

-----------------------------------------------------------------------------
(* Requests.                                                               *)

Idle == [phase |-> "idle"]
Phases == {"list", "receipt", "code", "value", "run", "fetched", "burn", "write"}
Request == [phase: Phases,
            target: 1 .. Len(block),  \* the transaction to replay
            tx: 1 .. Len(block),      \* the one that is being prepared or run
            ref: Refs,                \* the cache key it runs against
            exact: BOOLEAN,           \* the replay state: Exact; its StateBlockRef
            stateRef: Refs,           \* is the key the target runs against
            machine: Machine,
            unwritten: SUBSET Slots,  \* writeBackPreparedState: cells still to be written
            fetched: Values]          \* ensureLoaded: the value on its way to the cache

EmptyRef == [slots |-> [s \in Slots |-> Nothing], codes |-> {}, accounts |-> {}]

Init ==
  /\ block \in Blocks
  /\ cache = [r \in Refs |-> EmptyRef]
  /\ replayStates = [t \in 1 .. Len(block) |-> Nothing]
  /\ request = [c \in Clients |-> Idle]
  /\ requests = 0
  /\ spoiled = {}

Becomes(c, r) == request' = [request EXCEPT ![c] = r]
Prior(r) == r.tx < r.target
\* Between its question and the replay state it records.
Reconstructing(r) == r # Idle /\ (Prior(r) \/ r.phase \in {"list", "receipt", "code"})
\* The cell of the instruction that is executed.
ThisSlot(r) == block[r.tx].ops[r.machine.next].slot
Executing(r) == r.machine.status = "running" /\ r.machine.next <= Len(block[r.tx].ops)

\* The target is prepared next, against the state that is known for it.
ToTarget(r) == [r EXCEPT !.phase = "code", !.tx = r.target, !.ref = r.stateRef]
\* Variant with a bug: giving up is not noted in the replay state.
GivenUpSilently(r) == ToTarget(r)

\* reconstructPriorTransactions returns nil early: the state stays the parent's.
GivenUp(r) == ToTarget([r EXCEPT !.exact = FALSE])

\* Variant with a bug: what is remembered is not used.
lookupNothing(t) == Nothing

lookupReplayState(t) == replayStates[t]

\* prepareReplayState: a remembered state, the parent's for the first transaction of
\* the block, or a reconstruction under the target's synthetic reference.
Ask(c, t) ==
  /\ request[c].phase = "idle" /\ requests < MaxRequests
  /\ LET known == lookupReplayState(t)
         r == [phase |-> "list", target |-> t, tx |-> 1, ref |-> t,
               exact |-> known = Nothing \/ known.exact,
               stateRef |-> IF known = Nothing THEN Parent ELSE known.ref,
               machine |-> Fresh, unwritten |-> {}, fetched |-> 0]
     IN  Becomes(c, IF known # Nothing \/ t = 1 THEN ToTarget(r) ELSE r)
  /\ requests' = requests + 1
  /\ spoiled' = IF \E d \in Clients : Reconstructing(request[d]) /\ request[d].target = t
                  THEN spoiled \cup {t} ELSE spoiled
  /\ UNCHANGED <<block, cache, replayStates>>

\* GetBlockTransactions
ListBlock(c) ==
  LET r == request[c] IN
  /\ r.phase = "list"
  /\ \/ Becomes(c, [r EXCEPT !.phase = "receipt"])
     \/ "list" \in Failing /\ Becomes(c, GivenUp(r))
  /\ UNCHANGED <<block, cache, replayStates, requests, spoiled>>

\* The loop of reconstructPriorTransactions: the receipt of the next transaction, or
\* the target itself, and the reconstruction is complete.
NextInBlock(c) ==
  LET r == request[c] IN
  /\ r.phase = "receipt"
  /\ \/ Prior(r) /\ Becomes(c, [r EXCEPT !.phase = "code"])
     \/ Prior(r) /\ "receipt" \in Failing /\ Becomes(c, GivenUp(r))
     \/ ~Prior(r) /\ Becomes(c, ToTarget([r EXCEPT !.stateRef = r.target]))
  /\ UNCHANGED <<block, cache, replayStates, requests, spoiled>>

\* prepareCallAgainstState resolves the code; the target's replay state is recorded
\* only when that succeeded.
Prepare(c) ==
  LET r == request[c] IN
  /\ r.phase = "code"
  /\ cache' = [cache EXCEPT ![r.ref].codes = @ \cup {block[r.tx].to}]
  /\ replayStates' = IF Prior(r) THEN replayStates
                     ELSE [replayStates EXCEPT ![r.target] = [ref |-> r.stateRef, exact |-> r.exact]]
  /\ Becomes(c, [r EXCEPT !.phase = "value", !.machine = Fresh])
  /\ UNCHANGED <<block, requests, spoiled>>

PrepareFails(c) ==
  LET r == request[c] IN
  /\ r.phase = "code" /\ "code" \in Failing /\ block[r.tx].to \notin cache[r.ref].codes
  /\ Becomes(c, IF Prior(r) THEN GivenUp(r) ELSE Idle)
  /\ spoiled' = IF Prior(r) THEN spoiled ELSE spoiled \cup {r.target}
  /\ UNCHANGED <<block, cache, replayStates, requests>>

\* forkAccountState.ensureLoaded outside EVM.Run: nothing recovers its panic, and the
\* request dies with it.  The cells already written back stay.
LoadAccount(c, account, phase) ==
  LET r == request[c] IN
  /\ cache' = [cache EXCEPT ![r.ref].accounts = @ \cup {account}]
  /\ Becomes(c, [r EXCEPT !.phase = phase])
  /\ UNCHANGED spoiled

AccountPanics(c, account) ==
  /\ "account" \in Failing /\ account \notin cache[request[c].ref].accounts
  /\ Becomes(c, Idle)
  /\ spoiled' = IF Prior(request[c]) THEN spoiled \cup {request[c].target} ELSE spoiled
  /\ UNCHANGED cache

\* applyTopLevelCallValue: SubBalance of the sender and AddBalance of the
\* recipient load their accounts; either may panic.
MoveValue(c) ==
  LET r == request[c] IN
  /\ r.phase = "value"
  /\ IF block[r.tx].value THEN LoadAccount(c, r.tx, "run") \/ AccountPanics(c, r.tx)
     ELSE Becomes(c, [r EXCEPT !.phase = "run"]) /\ UNCHANGED <<cache, spoiled>>
  /\ UNCHANGED <<block, replayStates, requests>>

\* forkStorage.ensureLoaded: the cell is seeded from the cache.
LoadCached(c) ==
  LET r == request[c] IN
  /\ r.phase = "run" /\ Executing(r)
  /\ ThisSlot(r) \notin Held(r.machine)
  /\ cache[r.ref].slots[ThisSlot(r)] # Nothing
  /\ Becomes(c, [r EXCEPT !.machine = Loaded(r.machine, ThisSlot(r), cache[r.ref].slots[ThisSlot(r)])])
  /\ UNCHANGED <<block, cache, replayStates, requests, spoiled>>

\* ... or fetched from the parent block; a failure panics and EVM.Run makes it StatusHalt.
Fetch(c) ==
  LET r == request[c] IN
  /\ r.phase = "run" /\ Executing(r)
  /\ ThisSlot(r) \notin Held(r.machine)
  /\ cache[r.ref].slots[ThisSlot(r)] = Nothing
  /\ \/ Becomes(c, [r EXCEPT !.phase = "fetched", !.fetched = ParentState[ThisSlot(r)]])
     \/ "slot" \in Failing /\ Becomes(c, [r EXCEPT !.machine = Ended(r.machine, "halt")])
  /\ UNCHANGED <<block, cache, replayStates, requests, spoiled>>

\* ... and cached, whatever the cache holds by now.
StoreFetched(c) ==
  LET r == request[c] IN
  /\ r.phase = "fetched"
  /\ cache' = [cache EXCEPT ![r.ref].slots[ThisSlot(r)] = r.fetched]
  /\ Becomes(c, [r EXCEPT !.phase = "run", !.machine = Loaded(r.machine, ThisSlot(r), r.fetched)])
  /\ UNCHANGED <<block, replayStates, requests, spoiled>>

\* An instruction on a cell that is loaded.
Execute(c) ==
  LET r == request[c] IN
  /\ r.phase = "run" /\ Executing(r)
  /\ ThisSlot(r) \in Held(r.machine)
  /\ Becomes(c, [r EXCEPT !.machine = Step(block[r.tx], r.machine)])
  /\ UNCHANGED <<block, cache, replayStates, requests, spoiled>>

\* The code ended: revertTopLevelCallValue.
Finish(c) ==
  LET r == request[c]
      m == IF r.machine.status = "running" THEN Ended(r.machine, block[r.tx].ends) ELSE r.machine
  IN
  /\ r.phase = "run" /\ ~Executing(r)
  /\ Becomes(c, [r EXCEPT !.phase = "burn", !.machine = Undone(block[r.tx], m)])
  /\ spoiled' = IF Prior(r) /\ KeepsWrites(Undone(block[r.tx], m))
                  THEN spoiled \cup {r.target} ELSE spoiled
  /\ UNCHANGED <<block, cache, replayStates, requests>>

\* applyBaseFeeBurn loads the coinbase.  The target is answered: CommitLocalWrites has
\* nothing to commit.  A prior transaction is written back, whatever its status.
Burn(c) ==
  LET r == request[c] IN
  /\ r.phase = "burn"
  /\ \/ AccountPanics(c, Coinbase)
     \/ /\ cache' = [cache EXCEPT ![r.ref].accounts = @ \cup {Coinbase}]
        /\ Becomes(c, IF Prior(r) THEN [r EXCEPT !.phase = "write", !.unwritten = Held(r.machine)]
                      ELSE Idle)
        /\ UNCHANGED spoiled
  /\ UNCHANGED <<block, replayStates, requests>>

\* Variant with a bug: the writes go to the replay state's reference, which is the parent's still.
WriteBackToState(c, s) ==
  LET r == request[c] IN
  /\ r.phase = "write" /\ s \in r.unwritten
  /\ cache' = [cache EXCEPT ![r.stateRef].slots[s] = r.machine.loaded[s].current]
  /\ Becomes(c, [r EXCEPT !.unwritten = @ \ {s}])
  /\ UNCHANGED <<block, replayStates, requests, spoiled>>

\* writeBackPreparedState: one loaded cell after the other, in the order of a map.
WriteBack(c, s) ==
  LET r == request[c] IN
  /\ r.phase = "write" /\ s \in r.unwritten
  /\ cache' = [cache EXCEPT ![r.ref].slots[s] = r.machine.loaded[s].current]
  /\ Becomes(c, [r EXCEPT !.unwritten = @ \ {s}])
  /\ UNCHANGED <<block, replayStates, requests, spoiled>>

\* CompareReplayToReceipt decides whether the reconstruction goes on.
Compare(c) ==
  LET r == request[c] IN
  /\ r.phase = "write" /\ r.unwritten = {}
  /\ Becomes(c, IF Matches(r.tx, r.machine) THEN [r EXCEPT !.phase = "receipt", !.tx = @ + 1]
                ELSE GivenUp(r))
  /\ UNCHANGED <<block, cache, replayStates, requests, spoiled>>

\* Every request was answered and no more are made.
Served ==
  /\ requests = MaxRequests /\ \A c \in Clients : request[c] = Idle
  /\ UNCHANGED vars

Next ==
  \/ Served
  \/ \E c \in Clients :
       \/ \E t \in 1 .. Len(block) : Ask(c, t)
       \/ ListBlock(c) \/ NextInBlock(c) \/ Prepare(c) \/ PrepareFails(c)
       \/ MoveValue(c) \/ LoadCached(c) \/ Fetch(c) \/ StoreFetched(c) \/ Execute(c)
       \/ Finish(c) \/ Burn(c) \/ Compare(c)
       \/ \E s \in Slots : WriteBack(c, s)

Spec == Init /\ [][Next]_vars

-----------------------------------------------------------------------------
(* Properties.                                                             *)

\* Every variable has its type.
TypeOK ==
  /\ block \in Blocks
  /\ cache \in [Refs -> [slots: [Slots -> Values \cup {Nothing}], codes: SUBSET Contracts, accounts: SUBSET Refs]]
  /\ replayStates \in [1 .. Len(block) -> [ref: Refs, exact: BOOLEAN] \cup {Nothing}]
  /\ request \in [Clients -> Request \cup {Idle}]
  /\ requests \in 0 .. MaxRequests
  /\ spoiled \subseteq 1 .. Len(block)

\* What is cached under a block of the chain is what the chain has there: neither the
\* target's run nor a reconstruction, complete or broken off, ever leaves its writes
\* under the parent block (StateBlockRef of every later request).
ParentIsUntouched ==
  \A s \in Slots : cache[Parent].slots[s] \in {Nothing, ParentState[s]}

\* The target of r runs on the state the chain had before it: every cell it loaded
\* held what the transactions before it left there, applied once and in their order.
StartsRight(r) ==
  ~Prior(r) /\ r.phase \in {"run", "burn"} =>
    \A s \in Held(r.machine) : r.machine.loaded[s].original = ChainBefore[r.target][s]

\* A replay that calls itself exact starts from the state the chain had before the
\* target, unless an earlier or concurrent request of the same target spoiled the
\* synthetic block, or a failed transaction before it did (engine.go
\* reconstructPriorTransactions).
ExactUnlessSpoiled ==
  \A c \in Clients :
    request[c] # Idle /\ request[c].exact /\ request[c].target \notin spoiled => StartsRight(request[c])

\* The same without the exception, as the package's README has it: a mid-block replay
\* whose reconstruction succeeded can be compared strictly with the receipt.
ExactIsExact ==
  \A c \in Clients : request[c] # Idle /\ request[c].exact => StartsRight(request[c])

\* What is remembered of a transaction is final: it is never called exact after it
\* was called approximate, and it starts from the same state each time, so that the
\* commands of a debug session replay one and the same run.
ReplayStateIsFinal ==
  [][\A t \in DOMAIN replayStates :
       replayStates[t] # Nothing /\ t \notin spoiled => replayStates'[t] = replayStates[t]]_vars
=============================================================================
