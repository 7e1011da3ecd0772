--------------------------- MODULE ForkReplayProofs ---------------------------
(***************************************************************************)
(* For every block, any number of concurrent requests and any upstream     *)
(* failures: the fork engine keeps its types; what it caches under the     *)
(* parent block is what the chain has there; a replay that says it is      *)
(* exact starts from the state the chain had before its target, unless the *)
(* target was spoiled; and what is remembered of a transaction is final.   *)
(***************************************************************************)
EXTENDS ForkReplay, WellFoundedInduction, TLAPS

\* What a request is doing fits its phase: while it goes through the block it works
\* under the target's synthetic reference, only prior transactions are written back,
\* and the value on its way to the cache is the parent's.
RequestFits(r) ==
  /\ r.phase \in {"list", "receipt", "write"} \/ Prior(r) => r.ref # Parent
  /\ r.phase = "list" => Prior(r)
  /\ r.phase \in {"list", "receipt"} \/ Prior(r) => r.tx <= r.target
  /\ r.phase = "write" => Prior(r) /\ r.unwritten \subseteq Held(r.machine)
  /\ r.phase = "fetched" =>
       /\ Executing(r) /\ ThisSlot(r) \in Slots
       /\ r.fetched = ParentState[ThisSlot(r)]

RequestsFit == \A c \in Clients : request[c] # Idle => RequestFits(request[c])

\* The inductive invariant.
IInv == TypeOK /\ RequestsFit /\ ParentIsUntouched

-----------------------------------------------------------------------------
(* What is known of the parts.                                             *)

LEMMA BlockFacts ==
  ASSUME TypeOK
  PROVE  /\ block \in Seq(Transactions) /\ Len(block) \in Nat \ {0}
         /\ Refs \subseteq Nat /\ Parent \in Refs /\ Coinbase \in Refs
         /\ 1 .. Len(block) \subseteq Refs
BY ReplayAssumption DEF TypeOK, Refs, Parent, Coinbase

\* Values wrap around.
LEMMA WrittenIsValue ==
  ASSUME NEW do \in Deeds, NEW v \in Values
  PROVE  Written(do, v) \in Values
<1>1. MaxValue + 1 \in Nat \ {0} /\ v + 1 \in Nat /\ 1 \in Values
  BY ReplayAssumption DEF Values
<1>2. (v + 1) % (MaxValue + 1) \in 0 .. MaxValue
  <2> DEFINE n == MaxValue + 1
  <2>1. \A a \in Nat, d \in Nat \ {0} : a % d \in 0 .. d - 1
    BY Z3
  <2>2. (v + 1) % n \in 0 .. n - 1
    BY <1>1, <2>1
  <2> QED BY <2>2, ReplayAssumption
<1> QED BY <1>1, <1>2 DEF Written, Values, Deeds

LEMMA CostIsNat ==
  ASSUME NEW cell, NEW do
  PROVE  Cost(cell, do) \in Nat
BY DEF Cost

LEMMA FreshIsMachine == Fresh \in Machine
BY DEF Fresh, Machine, NothingLoaded, Statuses

LEMMA LoadedIsMachine ==
  ASSUME NEW m \in Machine, NEW s \in Slots, NEW v \in Values
  PROVE  Loaded(m, s, v) \in Machine
BY DEF Loaded, Machine, Cell

LEMMA EndedIsMachine ==
  ASSUME NEW m \in Machine, NEW how \in Statuses
  PROVE  Ended(m, how) \in Machine
<1> DEFINE gas == IF how \in {"invalid", "halt"} THEN GasLimit ELSE m.gas
<1>1. gas \in Nat
  BY DEF Machine, GasLimit
<1>2. Ended(m, how) = [m EXCEPT !.status = how, !.gas = gas]
  BY DEF Ended
<1> HIDE DEF gas
<1> QED BY <1>1, <1>2 DEF Machine

LEMMA UndoneIsMachine ==
  ASSUME NEW m \in Machine, NEW tx
  PROVE  Undone(tx, m) \in Machine
BY DEF Undone, Machine, NothingLoaded

\* The instruction executed is one of the transaction's.
LEMMA InstructionFacts ==
  ASSUME TypeOK, NEW r \in Request, Executing(r)
  PROVE  /\ block[r.tx] \in Transactions
         /\ r.machine.next \in 1 .. Len(block[r.tx].ops)
         /\ block[r.tx].ops[r.machine.next] \in [slot: Slots, do: Deeds]
         /\ ThisSlot(r) \in Slots
<1>1. block[r.tx] \in Transactions
  BY BlockFacts DEF Request
<1>2. block[r.tx].ops \in Seq([slot: Slots, do: Deeds])
  BY <1>1 DEF Transactions
<1>3. r.machine.next \in 1 .. Len(block[r.tx].ops)
  BY <1>2 DEF Executing, Request, Machine
<1>4. block[r.tx].ops[r.machine.next] \in [slot: Slots, do: Deeds]
  <2> DEFINE ops == block[r.tx].ops
             Instructions == [slot: Slots, do: Deeds]
  <2>1. ops \in Seq(Instructions) /\ r.machine.next \in 1 .. Len(ops)
    BY <1>2, <1>3
  <2> HIDE DEF ops, Instructions
  <2>2. ops[r.machine.next] \in Instructions
    BY <2>1
  <2> QED BY <2>2 DEF ops, Instructions
<1> QED BY <1>1, <1>3, <1>4 DEF ThisSlot

LEMMA StepIsMachine ==
  ASSUME TypeOK, NEW r \in Request, Executing(r), ThisSlot(r) \in Held(r.machine)
  PROVE  Step(block[r.tx], r.machine) \in Machine
<1> DEFINE m == r.machine
           op == block[r.tx].ops[m.next]
           cell == m.loaded[op.slot]
<1>1. m \in Machine /\ op \in [slot: Slots, do: Deeds] /\ op.slot = ThisSlot(r)
  BY InstructionFacts DEF Request, ThisSlot
<1>2. cell \in Cell
  BY <1>1 DEF Held, Machine
<1>3. Written(op.do, cell.current) \in Values /\ Cost(cell, op.do) \in Nat
  BY <1>1, <1>2, WrittenIsValue, CostIsNat DEF Cell
<1>4. [cell EXCEPT !.current = Written(op.do, cell.current)] \in Cell
  BY <1>2, <1>3 DEF Cell
<1>5. Step(block[r.tx], m) =
        IF op.do = "require" /\ cell.current = 0
          THEN [m EXCEPT !.status = "revert"]
          ELSE [m EXCEPT !.next = m.next + 1, !.gas = m.gas + Cost(cell, op.do),
                         !.loaded[op.slot].current = Written(op.do, cell.current)]
  BY DEF Step
<1>6. [m EXCEPT !.status = "revert"] \in Machine
  BY <1>1 DEF Machine, Statuses
<1>7. [m EXCEPT !.next = m.next + 1, !.gas = m.gas + Cost(cell, op.do),
                !.loaded[op.slot].current = Written(op.do, cell.current)] \in Machine
  <2> DEFINE next == m.next + 1
             gas == m.gas + Cost(cell, op.do)
             slot == op.slot
             written == Written(op.do, cell.current)
             loaded == [m.loaded EXCEPT ![slot].current = written]
  <2>1. next \in Nat \ {0} /\ gas \in Nat
    BY <1>1, <1>3 DEF Machine
  <2>2. m.loaded \in [Slots -> Cell \cup {Nothing}] /\ slot \in Slots
        /\ m.loaded[slot] \in Cell /\ written \in Values
    BY <1>1, <1>2, <1>3 DEF Machine
  <2>3. loaded \in [Slots -> Cell \cup {Nothing}]
    <3> HIDE DEF m, slot, written
    <3>1. [m.loaded[slot] EXCEPT !.current = written] \in Cell
      BY <2>2 DEF Cell
    <3>2. loaded = [m.loaded EXCEPT ![slot] = [m.loaded[slot] EXCEPT !.current = written]]
      BY <2>2
    <3> QED BY <3>1, <3>2, <2>2
  <2>4. [m EXCEPT !.next = next, !.gas = gas, !.loaded = loaded] \in Machine
    <3> HIDE DEF m, next, gas, loaded
    <3> QED BY <1>1, <2>1, <2>3 DEF Machine
  <2> QED BY <1>1, <2>4 DEF Machine
<1> QED BY <1>5, <1>6, <1>7

-----------------------------------------------------------------------------
(* What a step does to the requests and to the cache.                      *)

CacheType == [Refs -> [slots: [Slots -> Values \cup {Nothing}],
                       codes: SUBSET Contracts, accounts: SUBSET Refs]]

LEMMA Unpacked ==
  ASSUME TypeOK
  PROVE  /\ cache \in CacheType /\ request \in [Clients -> Request \cup {Idle}]
         /\ replayStates \in [1 .. Len(block) -> [ref: Refs, exact: BOOLEAN] \cup {Nothing}]
         /\ requests \in 0 .. MaxRequests /\ spoiled \subseteq 1 .. Len(block)
BY DEF TypeOK, CacheType

LEMMA Packed ==
  ASSUME TypeOK, UNCHANGED block, (cache \in CacheType)',
         (request \in [Clients -> Request \cup {Idle}])',
         (replayStates \in [1 .. Len(block) -> [ref: Refs, exact: BOOLEAN] \cup {Nothing}])',
         (requests \in 0 .. MaxRequests)', (spoiled \subseteq 1 .. Len(block))'
  PROVE  TypeOK'
BY DEF TypeOK, CacheType

\* A request that is not idle has all its fields, and fits its phase.
LEMMA ActiveRequest ==
  ASSUME IInv, NEW c \in Clients, request[c].phase # "idle"
  PROVE  request[c] \in Request /\ RequestFits(request[c])
BY DEF IInv, TypeOK, RequestsFit, Idle

LEMMA IdleIsNoRequest == Idle \notin Request
BY DEF Idle, Request, Phases

LEMMA BecomesKeeps ==
  ASSUME IInv, NEW c \in Clients, NEW r \in Request \cup {Idle},
         r # Idle => RequestFits(r), Becomes(c, r), UNCHANGED block
  PROVE  (request \in [Clients -> Request \cup {Idle}])' /\ RequestsFit'
<1>1. request \in [Clients -> Request \cup {Idle}] /\ request' = [request EXCEPT ![c] = r]
  BY DEF IInv, TypeOK, Becomes
<1>2. Request' = Request
  BY DEF Request, Refs
<1>3. request' \in [Clients -> Request \cup {Idle}]
  BY <1>1
<1>4. ASSUME NEW d \in Clients, request'[d] # Idle PROVE RequestFits(request'[d])
  BY <1>1, <1>4 DEF IInv, RequestsFit
<1>5. \A q : RequestFits(q)' <=> RequestFits(q)
  BY DEF RequestFits, Prior, Executing, ThisSlot, Parent, Held
<1> QED BY <1>2, <1>3, <1>4, <1>5 DEF RequestsFit, RequestFits, Prior, Executing, ThisSlot, Parent, Held

\* The target is prepared next, whatever was done for it before.
LEMMA ToTargetFits ==
  ASSUME TypeOK, NEW r \in Request
  PROVE  ToTarget(r) \in Request /\ RequestFits(ToTarget(r)) /\ GivenUp(r) \in Request
         /\ RequestFits(GivenUp(r))
<1>1. ASSUME NEW q \in Request PROVE ToTarget(q) \in Request /\ RequestFits(ToTarget(q))
  <2> DEFINE p == ToTarget(q)
  <2>1. p \in Request
    BY <1>1 DEF ToTarget, Request, Phases
  <2>2. p.phase = "code" /\ p.tx = p.target
    BY <1>1 DEF ToTarget, Request
  <2>3. p.target \in Int
    BY <2>1, BlockFacts DEF Request
  <2>4. ~Prior(p)
    BY <2>2, <2>3 DEF Prior
  <2> HIDE DEF p
  <2>5. RequestFits(p)
    BY <2>2, <2>4 DEF RequestFits
  <2> QED BY <2>1, <2>5 DEF p
<1>2. [r EXCEPT !.exact = FALSE] \in Request
  BY DEF Request
<1> QED BY <1>1, <1>2 DEF GivenUp

LEMMA CodeCached ==
  ASSUME IInv, NEW ref \in Refs, NEW x \in Contracts, UNCHANGED block,
         cache' = [cache EXCEPT ![ref].codes = @ \cup {x}]
  PROVE  (cache \in CacheType)' /\ ParentIsUntouched'
BY Unpacked, BlockFacts, SMTT(30) DEF IInv, CacheType, ParentIsUntouched, Refs, Parent

LEMMA AccountCached ==
  ASSUME IInv, NEW ref \in Refs, NEW x \in Refs, UNCHANGED block,
         cache' = [cache EXCEPT ![ref].accounts = @ \cup {x}]
  PROVE  (cache \in CacheType)' /\ ParentIsUntouched'
BY Unpacked, BlockFacts, SMTT(30) DEF IInv, CacheType, ParentIsUntouched, Refs, Parent

LEMMA SlotCached ==
  ASSUME IInv, NEW ref \in Refs, NEW s \in Slots, NEW v \in Values, UNCHANGED block,
         ref = Parent => v = ParentState[s],
         cache' = [cache EXCEPT ![ref].slots[s] = v]
  PROVE  (cache \in CacheType)' /\ ParentIsUntouched'
<1>1. cache \in CacheType /\ Parent \in Refs /\ CacheType' = CacheType
  BY Unpacked, BlockFacts DEF IInv, CacheType, Refs
<1>2. cache[ref].slots \in [Slots -> Values \cup {Nothing}]
  BY <1>1 DEF CacheType
<1>3. [cache[ref].slots EXCEPT ![s] = v] \in [Slots -> Values \cup {Nothing}]
  BY <1>2
<1>4. cache' = [cache EXCEPT ![ref] = [cache[ref] EXCEPT !.slots = [cache[ref].slots EXCEPT ![s] = v]]]
  BY <1>1, SMTT(30) DEF CacheType
<1>5. cache' \in CacheType
  <2> DEFINE Entry == [slots: [Slots -> Values \cup {Nothing}],
                       codes: SUBSET Contracts, accounts: SUBSET Refs]
  <2>1. cache \in [Refs -> Entry] /\ CacheType = [Refs -> Entry]
    BY <1>1 DEF CacheType
  <2>2. PICK cells \in [Slots -> Values \cup {Nothing}] : cells = [cache[ref].slots EXCEPT ![s] = v]
    BY <1>3
  <2>3. cache[ref] \in Entry
    <3> HIDE DEF Entry
    <3> QED BY <2>1
  <2>4. PICK row \in Entry : row = [cache[ref] EXCEPT !.slots = cells]
    BY <2>3
  <2>5. cache' = [cache EXCEPT ![ref] = row]
    BY <1>4, <2>2, <2>4
  <2> HIDE DEF Entry
  <2> QED BY <2>1, <2>5
<1>6. \A x \in Slots : cache'[Parent].slots[x] \in {Nothing, ParentState[x]}
  <2>1. CASE ref = Parent
    BY <1>1, <1>2, <1>4, <2>1 DEF CacheType, IInv, ParentIsUntouched
  <2>2. CASE ref # Parent
    BY <1>1, <1>4, <2>2 DEF CacheType, IInv, ParentIsUntouched
  <2> QED BY <2>1, <2>2
<1> QED BY <1>1, <1>5, <1>6 DEF ParentIsUntouched, Parent

-----------------------------------------------------------------------------
(* The invariant.                                                          *)

LEMMA InitIInv == Init => IInv
<1> SUFFICES ASSUME Init PROVE IInv
  OBVIOUS
<1>1. TypeOK
  <2>1. block \in Seq(Transactions) /\ Len(block) \in Nat \ {0}
    BY ReplayAssumption DEF Init
  <2>2. requests \in 0 .. MaxRequests
    BY ReplayAssumption DEF Init
  <2> QED BY <2>1, <2>2 DEF Init, TypeOK, EmptyRef
<1>2. RequestsFit
  BY DEF Init, RequestsFit
<1>3. ParentIsUntouched
  BY DEF Init, ParentIsUntouched, EmptyRef, Refs, Parent
<1> QED BY <1>1, <1>2, <1>3 DEF IInv

\* A step that only moves a request on.
LEMMA OnlyRequest ==
  ASSUME IInv, NEW c \in Clients, NEW r \in Request \cup {Idle},
         r # Idle => RequestFits(r), Becomes(c, r), UNCHANGED <<block, cache, replayStates, requests>>,
         (spoiled \subseteq 1 .. Len(block))'
  PROVE  IInv'
<1>1. (request \in [Clients -> Request \cup {Idle}])' /\ RequestsFit'
  BY BecomesKeeps
<1>2. ParentIsUntouched'
  BY DEF IInv, ParentIsUntouched, Parent
<1>3. (cache \in CacheType)' /\ (requests \in 0 .. MaxRequests)'
      /\ (replayStates \in [1 .. Len(block) -> [ref: Refs, exact: BOOLEAN] \cup {Nothing}])'
  BY Unpacked DEF IInv, CacheType, Refs
<1>4. TypeOK'
  BY <1>1, <1>3, Packed DEF IInv
<1> QED BY <1>1, <1>2, <1>4 DEF IInv

\* A step that moves a request on and adds to the cache.
LEMMA RequestAndCache ==
  ASSUME IInv, NEW c \in Clients, NEW r \in Request \cup {Idle},
         r # Idle => RequestFits(r), Becomes(c, r), UNCHANGED <<block, replayStates, requests, spoiled>>,
         (cache \in CacheType)', ParentIsUntouched'
  PROVE  IInv'
<1>1. (request \in [Clients -> Request \cup {Idle}])' /\ RequestsFit'
  BY BecomesKeeps
<1>2. (requests \in 0 .. MaxRequests)' /\ (spoiled \subseteq 1 .. Len(block))'
      /\ (replayStates \in [1 .. Len(block) -> [ref: Refs, exact: BOOLEAN] \cup {Nothing}])'
  BY Unpacked DEF IInv, Refs
<1>3. TypeOK'
  BY <1>1, <1>2, Packed DEF IInv
<1> QED BY <1>1, <1>3 DEF IInv

LEMMA AskKeeps ==
  ASSUME IInv, NEW c \in Clients, NEW t \in 1 .. Len(block), Ask(c, t)
  PROVE  IInv'
<1> DEFINE known == lookupReplayState(t)
           r == [phase |-> "list", target |-> t, tx |-> 1, ref |-> t,
                 exact |-> known = Nothing \/ known.exact,
                 stateRef |-> IF known = Nothing THEN Parent ELSE known.ref,
                 machine |-> Fresh, unwritten |-> {}, fetched |-> 0]
           next == IF known # Nothing \/ t = 1 THEN ToTarget(r) ELSE r
<1>1. TypeOK /\ t \in Nat /\ 1 \in 1 .. Len(block) /\ Parent \in Refs /\ t \in Refs
  BY BlockFacts DEF IInv
<1>2. known = Nothing \/ known \in [ref: Refs, exact: BOOLEAN]
  BY <1>1, Unpacked DEF lookupReplayState
<1>3. r \in Request
  <2>1. (known = Nothing \/ known.exact) \in BOOLEAN
    OBVIOUS
  <2>2. (IF known = Nothing THEN Parent ELSE known.ref) \in Refs
    BY <1>1, <1>2
  <2>3. 0 \in Values
    BY ReplayAssumption DEF Values
  <2> HIDE DEF known
  <2> QED BY <1>1, <2>1, <2>2, <2>3, FreshIsMachine DEF Request, Phases
<1>4. ASSUME known = Nothing, t # 1 PROVE RequestFits(r)
  BY <1>1, <1>4 DEF RequestFits, Prior, Parent
<1>5. next \in Request /\ RequestFits(next)
  <2> HIDE DEF r, known
  <2> QED BY <1>1, <1>3, <1>4, ToTargetFits
<1>6. Becomes(c, next) /\ UNCHANGED <<block, cache, replayStates>>
      /\ requests' = requests + 1 /\ requests < MaxRequests
      /\ spoiled' \in {spoiled, spoiled \cup {t}}
  BY DEF Ask
<1> HIDE DEF next
<1>7. (request \in [Clients -> Request \cup {Idle}])' /\ RequestsFit'
  BY <1>5, <1>6, BecomesKeeps
<1>8. (requests \in 0 .. MaxRequests)' /\ (spoiled \subseteq 1 .. Len(block))'
  BY <1>1, <1>6, Unpacked, ReplayAssumption
<1>9. (cache \in CacheType)' /\ ParentIsUntouched'
      /\ (replayStates \in [1 .. Len(block) -> [ref: Refs, exact: BOOLEAN] \cup {Nothing}])'
  BY <1>1, <1>6, Unpacked DEF IInv, CacheType, Refs, ParentIsUntouched, Parent
<1> QED BY <1>1, <1>6, <1>7, <1>8, <1>9, Packed DEF IInv

LEMMA ReconstructionKeeps ==
  ASSUME IInv, NEW c \in Clients, ListBlock(c) \/ NextInBlock(c) \/ Compare(c)
  PROVE  IInv'
<1> DEFINE r == request[c]
<1>1. r.phase # "idle" /\ UNCHANGED <<block, cache, replayStates, requests, spoiled>>
  BY DEF ListBlock, NextInBlock, Compare
<1>2. r \in Request /\ RequestFits(r) /\ r # Idle
  BY <1>1, ActiveRequest, IdleIsNoRequest
<1>3. (spoiled \subseteq 1 .. Len(block))'
  BY <1>1, Unpacked DEF IInv
<1>4. r.target \in 1 .. Len(block) /\ r.tx \in 1 .. Len(block) /\ r.target \in Refs /\ r.target # Parent
      /\ Len(block) \in Nat /\ r.ref \in Refs
  BY <1>2, BlockFacts DEF Request, Parent, IInv
<1>5. SUFFICES ASSUME NEW n \in Request, RequestFits(n), Becomes(c, n) PROVE IInv'
  <2>1. GivenUp(r) \in Request /\ RequestFits(GivenUp(r))
    BY <1>2, ToTargetFits DEF IInv
  <2>2. CASE ListBlock(c)
    <3> DEFINE n == [r EXCEPT !.phase = "receipt"]
    <3>1. n \in Request
      BY <1>2 DEF Request, Phases
    <3>2. RequestFits(n)
      BY <2>2, <1>2 DEF ListBlock, RequestFits, Prior, Request
    <3>3. Becomes(c, n) \/ Becomes(c, GivenUp(r))
      BY <2>2 DEF ListBlock
    <3> QED BY <2>1, <3>1, <3>2, <3>3, <1>5
  <2>3. CASE NextInBlock(c)
    <3> DEFINE n == [r EXCEPT !.phase = "code"]
               q == [r EXCEPT !.stateRef = r.target]
    <3>1. n \in Request /\ q \in Request
      BY <1>2, <1>4 DEF Request, Phases
    <3>2. Prior(r) => RequestFits(n)
      BY <2>3, <1>2 DEF NextInBlock, RequestFits, Prior, Request
    <3>3. ToTarget(q) \in Request /\ RequestFits(ToTarget(q))
      BY <3>1, ToTargetFits DEF IInv
    <3>4. (Prior(r) /\ Becomes(c, n)) \/ Becomes(c, GivenUp(r)) \/ Becomes(c, ToTarget(q))
      BY <2>3 DEF NextInBlock
    <3> QED BY <2>1, <3>1, <3>2, <3>3, <3>4, <1>5
  <2>4. CASE Compare(c)
    <3> DEFINE n == [r EXCEPT !.phase = "receipt", !.tx = @ + 1]
    <3>1. Prior(r) /\ r.phase = "write"
      BY <2>4, <1>2 DEF Compare, RequestFits
    <3>2. r.tx + 1 \in 1 .. Len(block) /\ r.tx + 1 <= r.target
      BY <3>1, <1>4 DEF Prior
    <3>3. n \in Request
      BY <1>2, <3>2 DEF Request, Phases
    <3>4. RequestFits(n)
      BY <1>2, <3>1, <3>2 DEF RequestFits, Prior, Request
    <3>5. Becomes(c, n) \/ Becomes(c, GivenUp(r))
      BY <2>4 DEF Compare
    <3> QED BY <2>1, <3>3, <3>4, <3>5, <1>5
  <2> QED BY <2>2, <2>3, <2>4
<1> QED BY <1>1, <1>3, <1>5, OnlyRequest

LEMMA PrepareKeeps ==
  ASSUME IInv, NEW c \in Clients, Prepare(c)
  PROVE  IInv'
<1> DEFINE r == request[c]
           n == [r EXCEPT !.phase = "value", !.machine = Fresh]
           State == [ref: Refs, exact: BOOLEAN]
<1>1. r \in Request /\ RequestFits(r) /\ r.phase = "code" /\ Becomes(c, n) /\ UNCHANGED <<block, requests, spoiled>>
  BY ActiveRequest DEF Prepare
<1>2. n \in Request /\ RequestFits(n)
  BY <1>1, FreshIsMachine DEF Request, Phases, RequestFits, Prior
<1>3. r.ref \in Refs /\ block[r.tx].to \in Contracts /\ r.target \in 1 .. Len(block)
      /\ [ref |-> r.stateRef, exact |-> r.exact] \in State
  <2>1. block[r.tx] \in Transactions
    BY <1>1, BlockFacts DEF IInv, Request
  <2> QED BY <1>1, <2>1 DEF Request, Transactions
<1>4. (cache \in CacheType)' /\ ParentIsUntouched'
  BY <1>1, <1>3, CodeCached DEF Prepare
<1>5. (replayStates \in [1 .. Len(block) -> State \cup {Nothing}])'
  <2>1. replayStates' = IF Prior(r) THEN replayStates
                        ELSE [replayStates EXCEPT ![r.target] = [ref |-> r.stateRef, exact |-> r.exact]]
    BY DEF Prepare
  <2>2. replayStates \in [1 .. Len(block) -> State \cup {Nothing}] /\ State' = State
    BY <1>1, Unpacked DEF IInv, Refs
  <2> HIDE DEF State
  <2> QED BY <1>1, <1>3, <2>1, <2>2
<1>6. (requests \in 0 .. MaxRequests)' /\ (spoiled \subseteq 1 .. Len(block))'
  BY <1>1, Unpacked DEF IInv
<1>7. (request \in [Clients -> Request \cup {Idle}])' /\ RequestsFit'
  <2> HIDE DEF n
  <2> QED BY <1>1, <1>2, BecomesKeeps
<1> QED BY <1>1, <1>4, <1>5, <1>6, <1>7, Packed DEF IInv

LEMMA PrepareFailsKeeps ==
  ASSUME IInv, NEW c \in Clients, PrepareFails(c)
  PROVE  IInv'
<1> DEFINE r == request[c]
           n == IF Prior(r) THEN GivenUp(r) ELSE Idle
<1>1. r \in Request /\ Becomes(c, n) /\ UNCHANGED <<block, cache, replayStates, requests>>
      /\ spoiled' \in {spoiled, spoiled \cup {r.target}}
  BY ActiveRequest DEF PrepareFails
<1>2. n \in Request \cup {Idle} /\ (n # Idle => RequestFits(n))
  BY <1>1, ToTargetFits DEF IInv
<1>3. (spoiled \subseteq 1 .. Len(block))'
  BY <1>1, Unpacked DEF IInv, Request
<1> HIDE DEF n
<1> QED BY <1>1, <1>2, <1>3, OnlyRequest

\* An account is loaded, or the load panics.
LEMMA AccountKeeps ==
  ASSUME IInv, NEW c \in Clients, NEW account \in Refs, request[c].phase \in {"value", "burn"},
         NEW n \in Request \cup {Idle}, n # Idle => RequestFits(n),
         UNCHANGED <<block, replayStates, requests>>,
         \/ AccountPanics(c, account)
         \/ /\ cache' = [cache EXCEPT ![request[c].ref].accounts = @ \cup {account}]
            /\ Becomes(c, n) /\ UNCHANGED spoiled
  PROVE  IInv'
<1>1. request[c] \in Request
  BY ActiveRequest
<1>2. CASE AccountPanics(c, account)
  <2>1. Becomes(c, Idle) /\ UNCHANGED cache /\ spoiled' \in {spoiled, spoiled \cup {request[c].target}}
    BY <1>2 DEF AccountPanics
  <2>2. (spoiled \subseteq 1 .. Len(block))'
    BY <1>1, <2>1, Unpacked DEF IInv, Request
  <2> QED BY <2>1, <2>2, OnlyRequest
<1>3. CASE /\ cache' = [cache EXCEPT ![request[c].ref].accounts = @ \cup {account}]
           /\ Becomes(c, n) /\ UNCHANGED spoiled
  <2>1. (cache \in CacheType)' /\ ParentIsUntouched'
    BY <1>1, <1>3, AccountCached DEF Request
  <2> QED BY <1>3, <2>1, RequestAndCache
<1> QED BY <1>2, <1>3

LEMMA MoveValueKeeps ==
  ASSUME IInv, NEW c \in Clients, MoveValue(c)
  PROVE  IInv'
<1> DEFINE r == request[c]
           n == [r EXCEPT !.phase = "run"]
<1>1. r \in Request /\ RequestFits(r) /\ r.phase = "value" /\ UNCHANGED <<block, replayStates, requests>>
  BY ActiveRequest DEF MoveValue
<1>2. n \in Request /\ RequestFits(n) /\ r.tx \in Refs
  BY <1>1, BlockFacts DEF Request, Phases, RequestFits, Prior, IInv
<1>3. \/ AccountPanics(c, r.tx)
      \/ /\ cache' = [cache EXCEPT ![r.ref].accounts = @ \cup {r.tx}]
         /\ Becomes(c, n) /\ UNCHANGED spoiled
      \/ Becomes(c, n) /\ UNCHANGED <<cache, spoiled>>
  BY DEF MoveValue, LoadAccount
<1>4. CASE Becomes(c, n) /\ UNCHANGED <<cache, spoiled>>
  <2>1. (spoiled \subseteq 1 .. Len(block))'
    BY <1>1, <1>4, Unpacked DEF IInv
  <2> HIDE DEF n
  <2> QED BY <1>1, <1>2, <1>4, <2>1, OnlyRequest
<1> HIDE DEF n
<1> QED BY <1>1, <1>2, <1>3, <1>4, AccountKeeps

LEMMA BurnKeeps ==
  ASSUME IInv, NEW c \in Clients, Burn(c)
  PROVE  IInv'
<1> DEFINE r == request[c]
           w == [r EXCEPT !.phase = "write", !.unwritten = Held(r.machine)]
           n == IF Prior(r) THEN w ELSE Idle
<1>1. r \in Request /\ RequestFits(r) /\ r.phase = "burn" /\ UNCHANGED <<block, replayStates, requests>>
  BY ActiveRequest DEF Burn
<1>2. w \in Request /\ (Prior(r) => RequestFits(w))
  BY <1>1 DEF Request, Phases, RequestFits, Prior, Held
<1>3. n \in Request \cup {Idle} /\ (n # Idle => RequestFits(n))
  <2> HIDE DEF w
  <2> QED BY <1>2
<1>4. \/ AccountPanics(c, Coinbase)
      \/ /\ cache' = [cache EXCEPT ![r.ref].accounts = @ \cup {Coinbase}]
         /\ Becomes(c, n) /\ UNCHANGED spoiled
  BY DEF Burn
<1> HIDE DEF n
<1> QED BY <1>1, <1>3, <1>4, AccountKeeps, BlockFacts DEF IInv

\* A run goes on: its machine changes, nothing else.
LEMMA MachineFits ==
  ASSUME IInv, NEW r \in Request, RequestFits(r), r.phase \in {"run", "fetched"}, NEW m \in Machine
  PROVE  /\ [r EXCEPT !.machine = m] \in Request
         /\ r.phase = "run" => RequestFits([r EXCEPT !.machine = m])
         /\ [r EXCEPT !.phase = "run", !.machine = m] \in Request
         /\ RequestFits([r EXCEPT !.phase = "run", !.machine = m])
         /\ [r EXCEPT !.phase = "burn", !.machine = m] \in Request
         /\ RequestFits([r EXCEPT !.phase = "burn", !.machine = m])
BY DEF Request, Phases, RequestFits, Prior

LEMMA RunKeeps ==
  ASSUME IInv, NEW c \in Clients, LoadCached(c) \/ Fetch(c) \/ Execute(c) \/ Finish(c)
  PROVE  IInv'
<1> DEFINE r == request[c]
<1>1. r \in Request /\ RequestFits(r) /\ r.phase = "run" /\ UNCHANGED <<block, cache, replayStates, requests>>
  BY ActiveRequest DEF LoadCached, Fetch, Execute, Finish
<1>2. r.machine \in Machine /\ r.ref \in Refs /\ r.target \in 1 .. Len(block)
  BY <1>1 DEF Request
<1>3. spoiled' \in {spoiled, spoiled \cup {r.target}}
  BY DEF LoadCached, Fetch, Execute, Finish
<1>4. (spoiled \subseteq 1 .. Len(block))'
  BY <1>1, <1>2, <1>3, Unpacked DEF IInv
<1>5. CASE LoadCached(c)
  <2> DEFINE v == cache[r.ref].slots[ThisSlot(r)]
             m == Loaded(r.machine, ThisSlot(r), v)
  <2>1. ThisSlot(r) \in Slots
    BY <1>1, <1>5, InstructionFacts DEF LoadCached, IInv
  <2>2. v \in Values
    BY <1>2, <1>5, <2>1, Unpacked DEF LoadCached, IInv, CacheType
  <2>3. m \in Machine
    BY <1>2, <2>1, <2>2, LoadedIsMachine
  <2>4. Becomes(c, [r EXCEPT !.machine = m])
    BY <1>5 DEF LoadCached
  <2> HIDE DEF m
  <2> QED BY <1>1, <1>4, <2>3, <2>4, MachineFits, OnlyRequest
<1>6. CASE Fetch(c)
  <2> DEFINE m == Ended(r.machine, "halt")
             n == [r EXCEPT !.phase = "fetched", !.fetched = ParentState[ThisSlot(r)]]
  <2>1. ThisSlot(r) \in Slots /\ Executing(r)
    BY <1>1, <1>6, InstructionFacts DEF Fetch, IInv
  <2>2. m \in Machine
    BY <1>2, EndedIsMachine DEF Statuses
  <2>3. ParentState[ThisSlot(r)] \in Values
    BY <2>1, ReplayAssumption
  <2>4. n \in Request
    BY <1>1, <2>3 DEF Request, Phases
  <2>5. RequestFits(n)
    <3>1. n.phase = "fetched" /\ n.fetched = ParentState[ThisSlot(r)] /\ n.machine = r.machine
          /\ n.tx = r.tx /\ n.target = r.target /\ n.ref = r.ref
      BY <1>1 DEF Request
    <3>2. ThisSlot(n) = ThisSlot(r) /\ Executing(n) /\ (Prior(n) <=> Prior(r))
      BY <2>1, <3>1 DEF ThisSlot, Executing, Prior
    <3> HIDE DEF n
    <3> QED BY <1>1, <2>1, <3>1, <3>2 DEF RequestFits
  <2>6. Becomes(c, n) \/ Becomes(c, [r EXCEPT !.machine = m])
    BY <1>6 DEF Fetch
  <2> HIDE DEF m, n
  <2> QED BY <1>1, <1>4, <2>2, <2>4, <2>5, <2>6, MachineFits, OnlyRequest
<1>7. CASE Execute(c)
  <2> DEFINE m == Step(block[r.tx], r.machine)
  <2>1. m \in Machine
    BY <1>1, <1>7, StepIsMachine DEF Execute, IInv
  <2>2. Becomes(c, [r EXCEPT !.machine = m])
    BY <1>7 DEF Execute
  <2> HIDE DEF m
  <2> QED BY <1>1, <1>4, <2>1, <2>2, MachineFits, OnlyRequest
<1>8. CASE Finish(c)
  <2> DEFINE ended == IF r.machine.status = "running" THEN Ended(r.machine, block[r.tx].ends) ELSE r.machine
             m == Undone(block[r.tx], ended)
  <2>1. block[r.tx].ends \in Statuses
    <3>1. block[r.tx] \in Transactions
      BY <1>1, BlockFacts DEF IInv, Request
    <3> QED BY <3>1 DEF Transactions, Statuses
  <2>2. ended \in Machine
    BY <1>2, <2>1, EndedIsMachine
  <2>3. m \in Machine
    <3> HIDE DEF ended
    <3> QED BY <2>2, UndoneIsMachine
  <2>4. Becomes(c, [r EXCEPT !.phase = "burn", !.machine = m])
    BY <1>8 DEF Finish
  <2> HIDE DEF m
  <2> QED BY <1>1, <1>4, <2>3, <2>4, MachineFits, OnlyRequest
<1> QED BY <1>5, <1>6, <1>7, <1>8

LEMMA StoreFetchedKeeps ==
  ASSUME IInv, NEW c \in Clients, StoreFetched(c)
  PROVE  IInv'
<1> DEFINE r == request[c]
           m == Loaded(r.machine, ThisSlot(r), r.fetched)
           n == [r EXCEPT !.phase = "run", !.machine = m]
<1>1. r \in Request /\ RequestFits(r) /\ r.phase = "fetched" /\ UNCHANGED <<block, replayStates, requests, spoiled>>
  BY ActiveRequest DEF StoreFetched
<1>2. ThisSlot(r) \in Slots /\ r.fetched \in Values /\ r.fetched = ParentState[ThisSlot(r)]
      /\ r.ref \in Refs /\ r.machine \in Machine
  BY <1>1 DEF RequestFits, Request
<1>3. cache' = [cache EXCEPT ![r.ref].slots[ThisSlot(r)] = r.fetched] /\ Becomes(c, n)
  BY DEF StoreFetched
<1>4. (cache \in CacheType)' /\ ParentIsUntouched'
  BY <1>1, <1>2, <1>3, SlotCached
<1>5. m \in Machine
  BY <1>2, LoadedIsMachine
<1>6. n \in Request /\ RequestFits(n)
  <2> HIDE DEF m
  <2> QED BY <1>1, <1>5, MachineFits
<1> HIDE DEF n
<1> QED BY <1>1, <1>3, <1>4, <1>6, RequestAndCache

LEMMA WriteBackKeeps ==
  ASSUME IInv, NEW c \in Clients, NEW s \in Slots, WriteBack(c, s)
  PROVE  IInv'
<1> DEFINE r == request[c]
           n == [r EXCEPT !.unwritten = @ \ {s}]
           v == r.machine.loaded[s].current
<1>1. r \in Request /\ RequestFits(r) /\ r.phase = "write" /\ UNCHANGED <<block, replayStates, requests, spoiled>>
      /\ s \in r.unwritten /\ Becomes(c, n) /\ cache' = [cache EXCEPT ![r.ref].slots[s] = v]
  BY ActiveRequest DEF WriteBack
<1>2. r.ref \in Refs /\ r.ref # Parent /\ s \in Held(r.machine)
  BY <1>1 DEF Request, RequestFits
<1>3. v \in Values
  BY <1>1, <1>2 DEF Request, Machine, Held, Cell
<1>4. (cache \in CacheType)' /\ ParentIsUntouched'
  <2> HIDE DEF v
  <2> QED BY <1>1, <1>2, <1>3, SlotCached
<1>5. n \in Request /\ RequestFits(n)
  BY <1>1 DEF Request, RequestFits, Prior, Held
<1> HIDE DEF n
<1> QED BY <1>1, <1>4, <1>5, RequestAndCache

LEMMA NextIInv == IInv /\ [Next]_vars => IInv'
<1> SUFFICES ASSUME IInv, [Next]_vars PROVE IInv'
  OBVIOUS
<1>1. CASE UNCHANGED vars
  BY <1>1 DEF vars, IInv, TypeOK, RequestsFit, ParentIsUntouched, RequestFits, Request, Refs,
              Prior, Executing, ThisSlot, Held, Parent
<1>2. CASE Served
  BY <1>1, <1>2 DEF Served
<1>3. ASSUME NEW c \in Clients, NEW t \in 1 .. Len(block), Ask(c, t) PROVE IInv'
  BY <1>3, AskKeeps
<1>4. ASSUME NEW c \in Clients, ListBlock(c) \/ NextInBlock(c) \/ Compare(c) PROVE IInv'
  BY <1>4, ReconstructionKeeps
<1>5. ASSUME NEW c \in Clients, Prepare(c) \/ PrepareFails(c) PROVE IInv'
  BY <1>5, PrepareKeeps, PrepareFailsKeeps
<1>6. ASSUME NEW c \in Clients, MoveValue(c) \/ Burn(c) PROVE IInv'
  BY <1>6, MoveValueKeeps, BurnKeeps
<1>7. ASSUME NEW c \in Clients, LoadCached(c) \/ Fetch(c) \/ Execute(c) \/ Finish(c) PROVE IInv'
  BY <1>7, RunKeeps
<1>8. ASSUME NEW c \in Clients, StoreFetched(c) PROVE IInv'
  BY <1>8, StoreFetchedKeeps
<1>9. ASSUME NEW c \in Clients, NEW s \in Slots, WriteBack(c, s) PROVE IInv'
  BY <1>9, WriteBackKeeps
<1> QED BY <1>1, <1>2, <1>3, <1>4, <1>5, <1>6, <1>7, <1>8, <1>9 DEF Next

\* The invariant holds in every reachable state of the fork engine.
THEOREM Invariance == Spec => []IInv
<1>1. Init => IInv
  BY InitIInv
<1>2. IInv /\ [Next]_vars => IInv'
  BY NextIInv
<1> QED BY <1>1, <1>2, PTL DEF Spec

\* Type correctness of the fork engine's state, for every block and every number of
\* concurrent requests.
THEOREM TypeCorrect == Spec => []TypeOK
BY Invariance, PTL DEF IInv

\* What is cached under the parent block is what the chain has there, whatever is
\* replayed, broken off or run at the same time (forkengine: reconstruction writes only
\* under syntheticReplayStateBlockRef).
THEOREM ParentStaysUntouched == Spec => []ParentIsUntouched
BY Invariance, PTL DEF IInv


-----------------------------------------------------------------------------
(* Exactness.                                                              *)

\* Induction over the naturals, for a set in place of a predicate.
LEMMA SetInduction ==
  ASSUME NEW S, 0 \in S, \A n \in Nat : n \in S => n + 1 \in S
  PROVE  Nat \subseteq S
<1> SUFFICES ASSUME Nat \ S # {} PROVE FALSE
  OBVIOUS
<1> DEFINE R == {p \in Nat \X Nat : p[1] < p[2]}
<1>1. IsWellFoundedOn(R, Nat)
  BY NatLessThanWellFounded, Zenon DEF OpToRel
<1> HIDE DEF R
<1>2. Nat \ S \subseteq Nat
  OBVIOUS
<1>3. PICK n \in Nat \ S : \A m \in Nat \ S : ~(<<m, n>> \in R)
  BY <1>1, <1>2, WFMin
<1>4. n # 0 /\ n - 1 \in Nat
  OBVIOUS
<1>5. n - 1 \in S
  <2>1. <<n - 1, n>> \in R
    BY <1>4 DEF R
  <2> QED BY <1>3, <1>4, <2>1
<1> QED
  BY <1>4, <1>5

\* The machine of a node after each instruction.
NodeStart(state) ==
  [Fresh EXCEPT !.loaded = [s \in Slots |-> [original |-> state[s], current |-> state[s]]]]

NodeStep(tx, m) == IF m.status = "running" THEN Step(tx, m) ELSE m

Course(tx, state) ==
  LET run[n \in 0 .. Len(tx.ops)] ==
        IF n = 0 THEN NodeStart(state) ELSE NodeStep(tx, run[n-1])
  IN  run

\* The states of the chain after each transaction of a block.
Left(tx, state) ==
  LET m == Executed(tx, state)
  IN  IF m.status = "stop" THEN [s \in Slots |-> m.loaded[s].current] ELSE state

ChainAfter(b) ==
  LET after[n \in 0 .. Len(b)] == IF n = 0 THEN ParentState ELSE Left(b[n], after[n-1])
  IN  after

\* The state of the chain before transaction t of a block.
Before(b, t) == ChainAfter(b)[t - 1]

LEMMA CourseIs ==
  ASSUME NEW tx, NEW state, Len(tx.ops) \in Nat
  PROVE  Course(tx, state) =
           [n \in 0 .. Len(tx.ops) |->
              IF n = 0 THEN NodeStart(state) ELSE NodeStep(tx, Course(tx, state)[n - 1])]
<1> DEFINE First == NodeStart(state)
           Later(m) == NodeStep(tx, m)
<1> HIDE DEF First, Later
<1> DEFINE Runs(f, n) == f = [i \in 0 .. n |-> IF i = 0 THEN First ELSE Later(f[i - 1])]
           S == {n \in Nat : \E f : Runs(f, n)}
<1>1. 0 \in S
  <2> DEFINE f == [i \in 0 .. 0 |-> First]
  <2>1. f = [i \in 0 .. 0 |-> IF i = 0 THEN First ELSE Later(f[i - 1])]
    OBVIOUS
  <2> HIDE DEF f
  <2> QED BY <2>1
<1>2. ASSUME NEW n \in Nat, n \in S PROVE n + 1 \in S
  <2>1. PICK f : Runs(f, n)
    BY <1>2
  <2> DEFINE g == [i \in 0 .. n + 1 |-> IF i = n + 1 THEN Later(f[n]) ELSE f[i]]
  <2>2. ASSUME NEW i \in 0 .. n + 1
        PROVE  g[i] = IF i = 0 THEN First ELSE Later(g[i - 1])
    <3>1. CASE i = n + 1
      <4> g[i] = Later(f[n]) /\ i - 1 = n /\ g[n] = f[n] /\ i # 0
        BY <3>1
      <4> HIDE DEF g
      <4> QED BY <3>1
    <3>2. CASE i # n + 1
      <4>1. i \in 0 .. n
        BY <3>2
      <4>2. g[i] = f[i]
        BY <3>2
      <4>3. f[i] = IF i = 0 THEN First ELSE Later(f[i - 1])
        BY <2>1, <4>1
      <4>4. i # 0 => g[i - 1] = f[i - 1]
        BY <4>1
      <4> HIDE DEF g
      <4> QED BY <4>2, <4>3, <4>4
    <3> QED BY <3>1, <3>2
  <2>3. g = [i \in 0 .. n + 1 |-> g[i]]
    OBVIOUS
  <2>4. Runs(g, n + 1)
    <3> HIDE DEF g
    <3> QED BY <2>2, <2>3
  <2> HIDE DEF g, Runs
  <2> QED BY <2>4
<1>3. Len(tx.ops) \in S
  <2> HIDE DEF S
  <2> QED BY <1>1, <1>2, SetInduction
<1>4. \E f : Runs(f, Len(tx.ops))
  BY <1>3
<1>5. Course(tx, state) =
        CHOOSE f : f = [i \in 0 .. Len(tx.ops) |-> IF i = 0 THEN First ELSE Later(f[i - 1])]
  BY DEF Course, First, Later
<1>6. Course(tx, state) = CHOOSE f : Runs(f, Len(tx.ops))
  BY <1>5
<1>7. Runs(Course(tx, state), Len(tx.ops))
  <2> HIDE DEF Runs
  <2> QED BY <1>4, <1>6
<1> QED
  BY <1>7 DEF First, Later

LEMMA ChainAfterIs ==
  ASSUME NEW b, Len(b) \in Nat
  PROVE  ChainAfter(b) =
           [n \in 0 .. Len(b) |->
              IF n = 0 THEN ParentState ELSE Left(b[n], ChainAfter(b)[n - 1])]
<1> DEFINE Later(m, n) == Left(b[n], m)
<1> HIDE DEF Later
<1> DEFINE Runs(f, n) == f = [i \in 0 .. n |-> IF i = 0 THEN ParentState ELSE Later(f[i - 1], i)]
           S == {n \in Nat : \E f : Runs(f, n)}
<1>1. 0 \in S
  <2> DEFINE f == [i \in 0 .. 0 |-> ParentState]
  <2>1. f = [i \in 0 .. 0 |-> IF i = 0 THEN ParentState ELSE Later(f[i - 1], i)]
    OBVIOUS
  <2> HIDE DEF f
  <2> QED BY <2>1
<1>2. ASSUME NEW n \in Nat, n \in S PROVE n + 1 \in S
  <2>1. PICK f : Runs(f, n)
    BY <1>2
  <2> DEFINE g == [i \in 0 .. n + 1 |-> IF i = n + 1 THEN Later(f[n], n + 1) ELSE f[i]]
  <2>2. ASSUME NEW i \in 0 .. n + 1
        PROVE  g[i] = IF i = 0 THEN ParentState ELSE Later(g[i - 1], i)
    <3>1. CASE i = n + 1
      <4> g[i] = Later(f[n], n + 1) /\ i - 1 = n /\ g[n] = f[n] /\ i # 0
        BY <3>1
      <4> HIDE DEF g
      <4> QED BY <3>1
    <3>2. CASE i # n + 1
      <4>1. i \in 0 .. n
        BY <3>2
      <4>2. g[i] = f[i]
        BY <3>2
      <4>3. f[i] = IF i = 0 THEN ParentState ELSE Later(f[i - 1], i)
        BY <2>1, <4>1
      <4>4. i # 0 => g[i - 1] = f[i - 1]
        BY <4>1
      <4> HIDE DEF g
      <4> QED BY <4>2, <4>3, <4>4
    <3> QED BY <3>1, <3>2
  <2>3. g = [i \in 0 .. n + 1 |-> g[i]]
    OBVIOUS
  <2>4. Runs(g, n + 1)
    <3> HIDE DEF g
    <3> QED BY <2>2, <2>3
  <2> HIDE DEF g, Runs
  <2> QED BY <2>4
<1>3. Len(b) \in S
  <2> HIDE DEF S
  <2> QED BY <1>1, <1>2, SetInduction
<1>4. \E f : Runs(f, Len(b))
  BY <1>3
<1>5. ChainAfter(b) =
        CHOOSE f : f = [i \in 0 .. Len(b) |-> IF i = 0 THEN ParentState ELSE Later(f[i - 1], i)]
  BY DEF ChainAfter, Later
<1>6. ChainAfter(b) = CHOOSE f : Runs(f, Len(b))
  BY <1>5
<1>7. Runs(ChainAfter(b), Len(b))
  <2> HIDE DEF Runs
  <2> QED BY <1>4, <1>6
<1> QED
  BY <1>7 DEF Later

\* A run of a node ends where its course does.
LEMMA ExecutedIs ==
  ASSUME NEW tx, NEW state
  PROVE  Executed(tx, state) =
           LET last == Course(tx, state)[Len(tx.ops)]
           IN  IF last.status = "running" THEN Ended(last, tx.ends) ELSE last
BY DEF Executed, Course, NodeStart, NodeStep

LEMMA ChainBeforeIs ==
  ASSUME NEW t \in 1 .. Len(block)
  PROVE  ChainBefore[t] = Before(block, t)
BY DEF ChainBefore, Before, ChainAfter, Left

-----------------------------------------------------------------------------
(* A run of a node.                                                        *)

ChainStates == [Slots -> Values]

\* One instruction on a cell that is held.
LEMMA StepFacts ==
  ASSUME NEW tx \in Transactions, NEW m \in Machine, m.next \in 1 .. Len(tx.ops),
         tx.ops[m.next].slot \in Held(m)
  PROVE  LET op == tx.ops[m.next]
             cell == m.loaded[op.slot]
             n == Step(tx, m)
         IN /\ op \in [slot: Slots, do: Deeds] /\ cell \in Cell
            /\ n \in Machine
            /\ IF op.do = "require" /\ cell.current = 0
               THEN n.status = "revert" /\ n.next = m.next /\ n.loaded = m.loaded
               ELSE /\ n.status = m.status /\ n.next = m.next + 1
                    /\ n.loaded = [m.loaded EXCEPT ![op.slot] =
                                     [original |-> cell.original,
                                      current |-> Written(op.do, cell.current)]]
<1> DEFINE op == tx.ops[m.next]
           cell == m.loaded[op.slot]
           Instructions == [slot: Slots, do: Deeds]
<1>1. op \in Instructions
  <2> DEFINE ops == tx.ops
  <2>1. ops \in Seq(Instructions)
    BY DEF Transactions
  <2>2. m.next \in 1 .. Len(ops)
    OBVIOUS
  <2> HIDE DEF ops, Instructions
  <2>3. ops[m.next] \in Instructions
    BY <2>1, <2>2
  <2> QED BY <2>3 DEF ops
<1>2. op.slot \in Slots /\ op.do \in Deeds /\ cell \in Cell
  BY <1>1 DEF Held, Machine
<1>3. Written(op.do, cell.current) \in Values /\ Cost(cell, op.do) \in Nat
  BY <1>1, <1>2, WrittenIsValue, CostIsNat DEF Cell
<1>4. Step(tx, m) =
        IF op.do = "require" /\ cell.current = 0
          THEN [m EXCEPT !.status = "revert"]
          ELSE [m EXCEPT !.next = m.next + 1, !.gas = m.gas + Cost(cell, op.do),
                         !.loaded[op.slot].current = Written(op.do, cell.current)]
  BY DEF Step
<1> DEFINE next == m.next + 1
           gas == m.gas + Cost(cell, op.do)
           slot == op.slot
           written == Written(op.do, cell.current)
           put == [original |-> cell.original, current |-> written]
           loaded == [m.loaded EXCEPT ![slot] = put]
<1>5. next \in Nat \ {0} /\ gas \in Nat
  BY <1>3 DEF Machine
<1>6. put \in Cell
  BY <1>2, <1>3 DEF Cell
<1>7. m.loaded \in [Slots -> Cell \cup {Nothing}]
  BY DEF Machine
<1>8. loaded \in [Slots -> Cell \cup {Nothing}]
  BY <1>2, <1>6, <1>7
<1>9. [m.loaded EXCEPT ![slot].current = written] = loaded
  <2>1. [m.loaded[slot] EXCEPT !.current = written] = put
    <3>1. \A c \in Cell : \A w : [c EXCEPT !.current = w] = [original |-> c.original, current |-> w]
      BY DEF Cell
    <3>2. m.loaded[slot] \in Cell /\ m.loaded[slot] = cell
      BY <1>2
    <3>3. [m.loaded[slot] EXCEPT !.current = written]
            = [original |-> m.loaded[slot].original, current |-> written]
      <4> HIDE DEF written, cell, slot
      <4> QED BY <3>1, <3>2, Zenon
    <3> QED BY <3>2, <3>3, Zenon
  <2> HIDE DEF put, written, slot
  <2>2. [m.loaded EXCEPT ![slot].current = written] =
          [m.loaded EXCEPT ![slot] = [m.loaded[slot] EXCEPT !.current = written]]
    BY <1>7
  <2> QED BY <2>1, <2>2
<1>10. [m EXCEPT !.next = next, !.gas = gas, !.loaded[slot].current = written] =
         [m EXCEPT !.next = next, !.gas = gas, !.loaded = loaded]
  <2> HIDE DEF loaded, next, gas, written, slot
  <2> QED BY <1>9 DEF Machine
<1>11. LET n == [m EXCEPT !.next = next, !.gas = gas, !.loaded = loaded]
       IN n \in Machine /\ n.status = m.status /\ n.next = next /\ n.loaded = loaded
  <2> HIDE DEF loaded, next, gas
  <2> QED BY <1>5, <1>8 DEF Machine
<1>12. LET n == [m EXCEPT !.status = "revert"]
       IN n \in Machine /\ n.status = "revert" /\ n.next = m.next /\ n.loaded = m.loaded
  BY DEF Machine, Statuses
<1>13. CASE op.do = "require" /\ cell.current = 0
  <2>1. Step(tx, m) = [m EXCEPT !.status = "revert"]
    BY <1>4, <1>13
  <2> QED BY <1>1, <1>2, <1>12, <1>13, <2>1
<1>14. CASE ~(op.do = "require" /\ cell.current = 0)
  <2>1. Step(tx, m) = [m EXCEPT !.next = next, !.gas = gas, !.loaded = loaded]
    BY <1>4, <1>10, <1>14
  <2>2. Step(tx, m) \in Machine /\ Step(tx, m).status = m.status /\ Step(tx, m).next = next
        /\ Step(tx, m).loaded = loaded
    BY <1>11, <2>1
  <2> HIDE DEF loaded
  <2>3. /\ op \in [slot: Slots, do: Deeds] /\ cell \in Cell
        /\ Step(tx, m).loaded = loaded
    BY <1>1, <1>2, <2>2
  <2> QED BY <1>14, <2>2, <2>3 DEF loaded
<1> QED BY <1>13, <1>14

\* What an instruction does to a machine that holds its cell.
Moves(m, op, cell, n) ==
  IF op.do = "require" /\ cell.current = 0
  THEN n.status = "revert" /\ n.next = m.next /\ n.loaded = m.loaded
  ELSE /\ n.status = m.status /\ n.next = m.next + 1
       /\ n.loaded = [m.loaded EXCEPT ![op.slot] =
                        [original |-> cell.original, current |-> Written(op.do, cell.current)]]

LEMMA StepMoves ==
  ASSUME NEW tx \in Transactions, NEW m \in Machine, m.next \in 1 .. Len(tx.ops),
         tx.ops[m.next].slot \in Held(m)
  PROVE  /\ Step(tx, m) \in Machine
         /\ Moves(m, tx.ops[m.next], m.loaded[tx.ops[m.next].slot], Step(tx, m))
BY StepFacts DEF Moves

\* A machine of a node after n instructions holds every cell.
NodeOK(m, n) ==
  /\ m \in Machine /\ Held(m) = Slots
  /\ m.status = "running" => m.next = n + 1

LEMMA CourseOK ==
  ASSUME NEW tx \in Transactions, NEW state \in ChainStates
  PROVE  /\ Len(tx.ops) \in Nat
         /\ Course(tx, state)[0] = NodeStart(state)
         /\ \A n \in Nat : n < Len(tx.ops) =>
              Course(tx, state)[n + 1] = NodeStep(tx, Course(tx, state)[n])
         /\ \A n \in 0 .. Len(tx.ops) : NodeOK(Course(tx, state)[n], n)
<1> DEFINE L == Len(tx.ops)
           f == Course(tx, state)
           S == {n \in Nat : n <= L => NodeOK(f[n], n)}
<1>1. L \in Nat
  BY DEF Transactions
<1>2. f = [n \in 0 .. L |-> IF n = 0 THEN NodeStart(state) ELSE NodeStep(tx, f[n - 1])]
  BY <1>1, CourseIs
<1> HIDE DEF f
<1>3. f[0] = NodeStart(state)
  BY <1>1, <1>2
<1>4. ASSUME NEW n \in Nat, n < L PROVE f[n + 1] = NodeStep(tx, f[n])
  <2>1. n + 1 \in 0 .. L /\ n + 1 # 0 /\ (n + 1) - 1 = n
    BY <1>1, <1>4
  <2> QED BY <1>2, <2>1
<1>5. NodeOK(NodeStart(state), 0)
  <2>1. Nothing \notin Cell
    BY MarkerAssumption
  <2>2. [s \in Slots |-> [original |-> state[s], current |-> state[s]]] \in [Slots -> Cell]
    BY DEF ChainStates, Cell
  <2> QED BY <2>1, <2>2, FreshIsMachine DEF NodeOK, NodeStart, Machine, Held, Fresh
<1>6. ASSUME NEW n \in Nat, n \in S PROVE n + 1 \in S
  <2> SUFFICES ASSUME n + 1 <= L PROVE NodeOK(f[n + 1], n + 1)
    OBVIOUS
  <2>1. NodeOK(f[n], n) /\ n < L
    BY <1>1, <1>6
  <2>2. CASE f[n].status = "running"
    <3>1. f[n] \in Machine /\ f[n].next = n + 1 /\ Held(f[n]) = Slots
      BY <2>1, <2>2 DEF NodeOK
    <3>2. f[n].next \in 1 .. L
      BY <1>1, <3>1
    <3>3. tx.ops[f[n].next].slot \in Slots
      <4> DEFINE ops == tx.ops
                 Instructions == [slot: Slots, do: Deeds]
      <4>1. ops \in Seq(Instructions)
        BY DEF Transactions
      <4> HIDE DEF ops, Instructions
      <4>2. ops[f[n].next] \in Instructions
        BY <4>1, <3>2 DEF ops
      <4> QED BY <4>2 DEF ops, Instructions
    <3>4. f[n + 1] = Step(tx, f[n])
      BY <1>4, <2>1, <2>2 DEF NodeStep
    <3>5. tx.ops[f[n].next].slot \in Held(f[n])
      BY <3>1, <3>3
    <3> PICK m : m = f[n]
      OBVIOUS
    <3> DEFINE x == tx.ops[m.next].slot
               w == Written(tx.ops[m.next].do, m.loaded[x].current)
               put == [original |-> m.loaded[x].original, current |-> w]
    <3>6. /\ f[n + 1] \in Machine /\ m.loaded[x] \in Cell
          /\ tx.ops[m.next].do \in Deeds
          /\ \/ f[n + 1].status = "revert" /\ f[n + 1].loaded = m.loaded
             \/ f[n + 1].next = m.next + 1 /\ f[n + 1].loaded = [m.loaded EXCEPT ![x] = put]
      <4>1. m \in Machine /\ m.next \in 1 .. Len(tx.ops) /\ x \in Held(m) /\ f[n + 1] = Step(tx, m)
        BY <3>1, <3>2, <3>4, <3>5
      <4>2. /\ tx.ops[m.next] \in [slot: Slots, do: Deeds] /\ m.loaded[x] \in Cell
            /\ Step(tx, m) \in Machine
            /\ IF tx.ops[m.next].do = "require" /\ m.loaded[x].current = 0
               THEN /\ Step(tx, m).status = "revert" /\ Step(tx, m).next = m.next
                    /\ Step(tx, m).loaded = m.loaded
               ELSE /\ Step(tx, m).status = m.status /\ Step(tx, m).next = m.next + 1
                    /\ Step(tx, m).loaded = [m.loaded EXCEPT ![x] = put]
        BY <4>1, StepFacts
      <4> HIDE DEF put
      <4>3. m.loaded[x] \in Cell /\ f[n + 1] \in Machine
        BY <4>1, <4>2
      <4>4. tx.ops[m.next].do \in Deeds
        BY <4>2
      <4> HIDE DEF x
      <4>5. \/ f[n + 1].status = "revert" /\ f[n + 1].loaded = m.loaded
            \/ f[n + 1].next = m.next + 1 /\ f[n + 1].loaded = [m.loaded EXCEPT ![x] = put]
        BY <4>1, <4>2
      <4> QED BY <4>3, <4>4, <4>5
    <3>7. \A s \in Slots : f[n + 1].loaded[s] # Nothing
      <4>1. Nothing \notin Cell
        BY MarkerAssumption
      <4>2. \A s \in Slots : f[n].loaded[s] # Nothing /\ s \in DOMAIN f[n].loaded
        BY <3>1 DEF Held, Machine
      <4>3. put \in Cell
        BY <3>1, <3>6, WrittenIsValue DEF Machine, Cell
      <4>4. \/ f[n + 1].loaded = m.loaded
            \/ f[n + 1].loaded = [m.loaded EXCEPT ![x] = put]
        BY <3>6
      <4> HIDE DEF put, x
      <4> QED BY <4>1, <4>2, <4>3, <4>4
    <3> QED BY <3>1, <3>6, <3>7 DEF NodeOK, Held
  <2>3. CASE f[n].status # "running"
    BY <1>4, <2>1, <2>3 DEF NodeOK, NodeStep
  <2> QED BY <2>2, <2>3
<1>7. Nat \subseteq S
  <2>1. 0 \in S
    BY <1>3, <1>5
  <2> HIDE DEF S
  <2> QED BY <1>6, <2>1, SetInduction
<1>8. \A n \in 0 .. L : NodeOK(f[n], n)
  BY <1>7
<1> QED BY <1>1, <1>3, <1>4, <1>8 DEF f

LEMMA ExecutedOK ==
  ASSUME NEW tx \in Transactions, NEW state \in ChainStates
  PROVE  /\ Executed(tx, state) \in Machine /\ Held(Executed(tx, state)) = Slots
         /\ Left(tx, state) \in ChainStates
<1> DEFINE last == Course(tx, state)[Len(tx.ops)]
           e == Executed(tx, state)
<1>1. NodeOK(last, Len(tx.ops)) /\ Len(tx.ops) \in Nat
  BY CourseOK
<1>2. e = IF last.status = "running" THEN Ended(last, tx.ends) ELSE last
  BY ExecutedIs
<1>3. tx.ends \in Statuses
  BY DEF Transactions, Statuses
<1> HIDE DEF last
<1>4. Ended(last, tx.ends) \in Machine /\ Ended(last, tx.ends).loaded = last.loaded
  BY <1>1, <1>3, EndedIsMachine DEF NodeOK, Ended, Machine
<1> HIDE DEF e
<1>5. e \in Machine /\ Held(e) = Slots
  BY <1>1, <1>2, <1>4 DEF NodeOK, Held
<1>6. \A s \in Slots : e.loaded[s].current \in Values
  BY <1>5 DEF Held, Machine, Cell
<1>7. Left(tx, state) = IF e.status = "stop" THEN [s \in Slots |-> e.loaded[s].current] ELSE state
  BY DEF Left, e
<1> QED BY <1>5, <1>6, <1>7 DEF ChainStates, e

\* The states of the chain, one after the other.
LEMMA BeforeFacts ==
  ASSUME NEW b \in Seq(Transactions)
  PROVE  /\ Len(b) \in Nat
         /\ Before(b, 1) = ParentState
         /\ \A t \in 1 .. Len(b) : /\ Before(b, t) \in ChainStates
                                   /\ Before(b, t + 1) = Left(b[t], Before(b, t))
<1> DEFINE L == Len(b)
           f == ChainAfter(b)
           S == {n \in Nat : n <= L => f[n] \in ChainStates}
<1>1. L \in Nat
  OBVIOUS
<1>2. f = [n \in 0 .. L |-> IF n = 0 THEN ParentState ELSE Left(b[n], f[n - 1])]
  BY <1>1, ChainAfterIs
<1> HIDE DEF f
<1>3. f[0] = ParentState /\ ParentState \in ChainStates
  BY <1>1, <1>2, ReplayAssumption DEF ChainStates
<1>4. ASSUME NEW n \in Nat, n < L PROVE f[n + 1] = Left(b[n + 1], f[n])
  <2>1. n + 1 \in 0 .. L /\ n + 1 # 0 /\ (n + 1) - 1 = n
    BY <1>1, <1>4
  <2> QED BY <1>2, <2>1
<1>5. ASSUME NEW n \in Nat, n \in S PROVE n + 1 \in S
  <2> SUFFICES ASSUME n + 1 <= L PROVE f[n + 1] \in ChainStates
    OBVIOUS
  <2>1. f[n] \in ChainStates /\ n < L /\ n + 1 \in 1 .. L
    BY <1>1, <1>5
  <2>2. b[n + 1] \in Transactions
    BY <2>1
  <2> QED BY <1>4, <2>1, <2>2, ExecutedOK
<1>6. Nat \subseteq S
  <2>1. 0 \in S
    BY <1>3
  <2> HIDE DEF S
  <2> QED BY <1>5, <2>1, SetInduction
<1>7. ASSUME NEW t \in 1 .. L
      PROVE  /\ Before(b, t) \in ChainStates
             /\ Before(b, t + 1) = Left(b[t], Before(b, t))
  <2>1. t - 1 \in Nat /\ t - 1 <= L /\ t - 1 < L /\ (t - 1) + 1 = t /\ (t + 1) - 1 = t
    BY <1>1
  <2>2. f[t - 1] \in ChainStates
    BY <1>6, <2>1
  <2>3. f[(t - 1) + 1] = Left(b[(t - 1) + 1], f[t - 1])
    BY <1>4, <2>1
  <2> QED BY <2>1, <2>2, <2>3 DEF Before, f
<1>8. Before(b, 1) = ParentState
  BY <1>3 DEF Before, f
<1> QED BY <1>1, <1>7, <1>8

-----------------------------------------------------------------------------

\* Between its question and the end of the reconstruction.
Going(r) == r.phase \in {"list", "receipt"} \/ Prior(r)

\* The cells cached under a reference, with the parent's for the others, are a
\* state of the chain.
CellRight(slots, state, s) ==
  IF slots[s] = Nothing THEN state[s] = ParentState[s] ELSE slots[s] = state[s]

Right(slots, state) == \A s \in Slots : CellRight(slots, state, s)

\* Under which references a request works, and whether its answer is recorded.
Shape(r, known) ==
  IF Going(r) THEN /\ r.ref = r.target /\ r.stateRef = Parent /\ r.exact
                   /\ known = Nothing
  ELSE /\ r.ref = r.stateRef /\ r.tx = r.target
       /\ IF r.exact THEN r.ref = r.target \/ (r.ref = Parent /\ r.target = 1) ELSE r.ref = Parent
       /\ IF r.phase = "code" THEN known \in {Nothing, [ref |-> r.stateRef, exact |-> r.exact]}
          ELSE known # Nothing

\* A request works under the synthetic reference of its target or the parent's, and
\* so does what is remembered.
RefsAreOwn ==
  /\ \A c \in Clients :
       request[c] # Idle => /\ request[c].ref \in {request[c].target, Parent}
                           /\ request[c].stateRef \in {request[c].target, Parent}
  /\ \A t \in 1 .. Len(block) :
       replayStates[t] # Nothing => replayStates[t].ref \in {t, Parent}

\* What a request has cached of its synthetic block.
CacheRight(r, b, slots) ==
  IF r.phase = "write"
  THEN \A s \in Slots :
         IF s \in Held(r.machine) \ r.unwritten THEN slots[s] = r.machine.loaded[s].current
         ELSE CellRight(slots, Before(b, r.tx), s)
  ELSE r.ref = r.target => Right(slots, Before(b, r.tx))

Originals(m, state) == \A s \in Held(m) : m.loaded[s].original = state[s]

\* The machine is where the node's was, on the cells it holds; the node has not
\* changed the others.
Tracks(m, tx, state) ==
  /\ m.status # "stop"
  /\ m.status = "running" =>
       /\ m.next \in 1 .. Len(tx.ops) + 1
       /\ LET w == Course(tx, state)[m.next - 1]
          IN  /\ w.status = "running" /\ w.next = m.next
              /\ \A s \in Slots : w.loaded[s] = IF s \in Held(m) THEN m.loaded[s]
                                                ELSE [original |-> state[s], current |-> state[s]]

\* What a prior transaction left is what it left on the chain, if it succeeded,
\* and nothing otherwise.
Done(m, b, t) ==
  IF m.status = "stop"
  THEN /\ Executed(b[t], Before(b, t)).status = "stop"
       /\ \A s \in Slots : Before(b, t + 1)[s] = IF s \in Held(m) THEN m.loaded[s].current
                                                  ELSE Before(b, t)[s]
  ELSE \A s \in Held(m) : m.loaded[s].current = Before(b, t)[s]

RunRight(r, b) ==
  r.exact =>
    /\ r.phase \in {"value", "run", "fetched"} =>
         Originals(r.machine, Before(b, r.tx)) /\ Tracks(r.machine, b[r.tx], Before(b, r.tx))
    /\ r.phase = "fetched" =>
         LET s == b[r.tx].ops[r.machine.next].slot
         IN  s \notin Held(r.machine) /\ r.fetched = Before(b, r.tx)[s]
    /\ r.phase = "burn" => Originals(r.machine, Before(b, r.tx))
    /\ r.phase \in {"burn", "write"} /\ Prior(r) => Done(r.machine, b, r.tx)

RequestRight(r) ==
  r # Idle /\ r.target \notin spoiled =>
    /\ Shape(r, replayStates[r.target])
    /\ CacheRight(r, block, cache[r.target].slots)
    /\ RunRight(r, block)

\* What is remembered of a transaction, and what is cached for it when nothing is.
StateRight(t) ==
  IF replayStates[t] = Nothing
  THEN (\A c \in Clients : request[c] = Idle \/ request[c].target # t)
         => \A s \in Slots : cache[t].slots[s] = Nothing
  ELSE IF replayStates[t].exact
  THEN \/ replayStates[t].ref = t /\ Right(cache[t].slots, Before(block, t))
       \/ replayStates[t].ref = Parent /\ t = 1
  ELSE replayStates[t].ref = Parent

OneReconstructs ==
  \A c, d \in Clients :
    /\ c # d /\ Reconstructing(request[c]) /\ Reconstructing(request[d])
    /\ request[c].target = request[d].target
    => request[c].target \in spoiled

\* The inductive invariant of exactness.
Exactness ==
  /\ OneReconstructs
  /\ \A c \in Clients : RequestRight(request[c])
  /\ \A t \in (1 .. Len(block)) \ spoiled : StateRight(t)

-----------------------------------------------------------------------------
(* A run of the engine on lazily loaded cells, and the node's.             *)

LEMMA FreshTracks ==
  ASSUME NEW tx \in Transactions, NEW state \in ChainStates
  PROVE  Originals(Fresh, state) /\ Tracks(Fresh, tx, state)
<1>1. Held(Fresh) = {} /\ Fresh.next = 1 /\ Fresh.status = "running"
  BY DEF Held, Fresh, NothingLoaded
<1>2. /\ Course(tx, state)[0] = NodeStart(state) /\ Len(tx.ops) \in Nat
      /\ NodeOK(Course(tx, state)[0], 0)
  BY CourseOK
<1>3. /\ NodeStart(state).status = "running" /\ NodeStart(state).next = 1
      /\ \A s \in Slots : NodeStart(state).loaded[s] = [original |-> state[s], current |-> state[s]]
  BY DEF NodeStart, Fresh
<1>4. 1 \in 1 .. Len(tx.ops) + 1 /\ 1 - 1 = 0
  BY <1>2
<1> HIDE DEF Fresh
<1> QED BY <1>1, <1>2, <1>3, <1>4 DEF Originals, Tracks

LEMMA LoadTracks ==
  ASSUME NEW tx \in Transactions, NEW state \in ChainStates, NEW m \in Machine,
         NEW s \in Slots, s \notin Held(m), Originals(m, state), Tracks(m, tx, state)
  PROVE  /\ Originals(Loaded(m, s, state[s]), state)
         /\ Tracks(Loaded(m, s, state[s]), tx, state)
<1> DEFINE v == [original |-> state[s], current |-> state[s]]
           n == Loaded(m, s, state[s])
<1>1. /\ n.status = m.status /\ n.next = m.next
      /\ n.loaded = [m.loaded EXCEPT ![s] = v]
  BY DEF Loaded, Machine
<1>2. v \in Cell /\ v # Nothing /\ v.original = state[s]
  <2>1. v \in Cell
    BY DEF Cell, ChainStates
  <2> QED BY <2>1, MarkerAssumption
<1>3. m.loaded \in [Slots -> Cell \cup {Nothing}]
  BY DEF Machine
<1> HIDE DEF v, n
<1>4. Held(n) = Held(m) \cup {s} /\ \A x \in Slots : n.loaded[x] = IF x = s THEN v ELSE m.loaded[x]
  BY <1>1, <1>2, <1>3 DEF Held
<1>5. Originals(n, state)
  BY <1>2, <1>4 DEF Originals, Held
<1>6. Tracks(n, tx, state)
  BY <1>1, <1>4 DEF Tracks, v, Held
<1> QED BY <1>5, <1>6 DEF n

LEMMA StepTracks ==
  ASSUME NEW tx \in Transactions, NEW state \in ChainStates, NEW m \in Machine,
         m.next \in 1 .. Len(tx.ops), tx.ops[m.next].slot \in Held(m), m.status = "running",
         Originals(m, state), Tracks(m, tx, state)
  PROVE  Originals(Step(tx, m), state) /\ Tracks(Step(tx, m), tx, state)
<1> PICK n : n = Step(tx, m)
  OBVIOUS
<1> PICK k : k = m.next
  OBVIOUS
<1> PICK w : w = Course(tx, state)[k - 1]
  OBVIOUS
<1> PICK op : op = tx.ops[k]
  OBVIOUS
<1> PICK x : x = op.slot
  OBVIOUS
<1> PICK cell : cell = m.loaded[x]
  OBVIOUS
<1> PICK put : put = [original |-> cell.original, current |-> Written(op.do, cell.current)]
  OBVIOUS
<1>1. /\ op \in [slot: Slots, do: Deeds] /\ cell \in Cell
      /\ n \in Machine
      /\ IF op.do = "require" /\ cell.current = 0
         THEN n.status = "revert" /\ n.next = k /\ n.loaded = m.loaded
         ELSE n.status = m.status /\ n.next = k + 1 /\ n.loaded = [m.loaded EXCEPT ![x] = put]
  BY StepFacts
<1>2. /\ k \in 1 .. Len(tx.ops) /\ k - 1 \in 0 .. Len(tx.ops) /\ k - 1 < Len(tx.ops) /\ k - 1 \in Nat
      /\ (k - 1) + 1 = k /\ k + 1 \in 1 .. Len(tx.ops) + 1 /\ (k + 1) - 1 = k
  BY DEF Transactions
<1>3. NodeOK(w, k - 1) /\ Course(tx, state)[k] = NodeStep(tx, w)
  BY <1>2, CourseOK
<1>4. /\ w.status = "running" /\ w.next = k
      /\ \A s \in Slots : w.loaded[s] = IF s \in Held(m) THEN m.loaded[s]
                                        ELSE [original |-> state[s], current |-> state[s]]
  BY DEF Tracks
<1>5. w \in Machine /\ Held(w) = Slots /\ x \in Held(m) /\ x \in Slots /\ m.loaded \in [Slots -> Cell \cup {Nothing}]
  BY <1>3 DEF NodeOK, Held, Machine
<1>6. w.loaded[x] = cell /\ w.loaded \in [Slots -> Cell \cup {Nothing}]
  BY <1>4, <1>5 DEF Machine
<1> PICK y : y = Step(tx, w)
  OBVIOUS
<1>7. /\ y \in Machine
      /\ IF op.do = "require" /\ cell.current = 0
         THEN y.status = "revert" /\ y.next = k /\ y.loaded = w.loaded
         ELSE y.status = w.status /\ y.next = k + 1 /\ y.loaded = [w.loaded EXCEPT ![x] = put]
  <2>1. w.next \in 1 .. Len(tx.ops) /\ tx.ops[w.next].slot \in Held(w)
    BY <1>2, <1>4, <1>5
  <2>2. tx.ops[w.next] = op /\ w.loaded[op.slot] = cell
    BY <1>4, <1>6
  <2>3. y = Step(tx, w) /\ w \in Machine
    BY <1>5
  <2>4. /\ y \in Machine
        /\ IF op.do = "require" /\ cell.current = 0
           THEN y.status = "revert" /\ y.next = w.next /\ y.loaded = w.loaded
           ELSE /\ y.status = w.status /\ y.next = w.next + 1
                /\ y.loaded = [w.loaded EXCEPT ![op.slot] =
                                 [original |-> cell.original, current |-> Written(op.do, cell.current)]]
    <3>1. /\ Step(tx, w) \in Machine
          /\ Moves(w, tx.ops[w.next], w.loaded[tx.ops[w.next].slot], Step(tx, w))
      BY <2>1, <2>3, StepMoves
    <3>2. y \in Machine /\ Moves(w, op, cell, y)
      BY <2>2, <2>3, <3>1
    <3> QED BY <3>2 DEF Moves
  <2> QED BY <1>4, <2>4
<1>8. Course(tx, state)[k] = y
  BY <1>3, <1>4 DEF NodeStep
<1>9. CASE op.do = "require" /\ cell.current = 0
  <2>1. n.status = "revert" /\ n.loaded = m.loaded
    BY <1>1, <1>9
  <2>2. Originals(n, state)
    BY <2>1 DEF Originals, Held
  <2>3. Tracks(n, tx, state)
    BY <2>1 DEF Tracks
  <2> QED BY <2>2, <2>3
<1>10. CASE ~(op.do = "require" /\ cell.current = 0)
  <2>1. n.status = "running" /\ n.next = k + 1 /\ n.loaded = [m.loaded EXCEPT ![x] = put]
    BY <1>1, <1>10
  <2>2. y.status = "running" /\ y.next = k + 1 /\ y.loaded = [w.loaded EXCEPT ![x] = put]
    BY <1>4, <1>7, <1>10
  <2>3. put \in Cell /\ put # Nothing /\ put.original = cell.original
    <3>1. put \in Cell
      BY <1>1, WrittenIsValue DEF Cell
    <3> QED BY <3>1, MarkerAssumption
  <2>4. Held(n) = Held(m) /\ \A s \in Slots : n.loaded[s] = IF s = x THEN put ELSE m.loaded[s]
    <3>1. \A s \in Slots : n.loaded[s] = IF s = x THEN put ELSE m.loaded[s]
      BY <1>5, <2>1
    <3>2. m.loaded[x] # Nothing
      BY <1>5 DEF Held
    <3>3. \A s \in Slots : n.loaded[s] # Nothing <=> m.loaded[s] # Nothing
      BY <2>3, <3>1, <3>2
    <3> QED BY <3>1, <3>3 DEF Held
  <2>5. \A s \in Slots : y.loaded[s] = IF s = x THEN put ELSE w.loaded[s]
    BY <1>6, <2>2
  <2>6. Originals(n, state)
    <3>1. ASSUME NEW s \in Held(n) PROVE n.loaded[s].original = state[s]
      <4>1. s \in Slots /\ s \in Held(m)
        BY <2>4, <3>1 DEF Held
      <4>2. m.loaded[s].original = state[s]
        BY <4>1 DEF Originals
      <4>3. CASE s = x
        <5>1. n.loaded[s] = put /\ m.loaded[s] = cell
          BY <1>1, <2>4, <4>1, <4>3
        <5> QED BY <2>3, <4>2, <5>1
      <4>4. CASE s # x
        BY <2>4, <4>1, <4>2, <4>4
      <4> QED BY <4>3, <4>4
    <3> QED BY <3>1 DEF Originals
  <2>7. Tracks(n, tx, state)
    <3>1. n.next \in 1 .. Len(tx.ops) + 1 /\ Course(tx, state)[n.next - 1] = y
      BY <1>2, <1>8, <2>1
    <3>2. ASSUME NEW s \in Slots
          PROVE  y.loaded[s] = IF s \in Held(n) THEN n.loaded[s]
                               ELSE [original |-> state[s], current |-> state[s]]
      <4>1. CASE s = x
        <5>1. n.loaded[s] = put /\ y.loaded[s] = put /\ s \in Held(n)
          BY <1>5, <2>4, <2>5, <4>1
        <5> QED BY <5>1
      <4>2. CASE s # x
        <5>1. n.loaded[s] = m.loaded[s] /\ y.loaded[s] = w.loaded[s] /\ Held(n) = Held(m)
          BY <2>4, <2>5, <4>2
        <5> QED BY <1>4, <5>1
      <4> QED BY <4>1, <4>2
    <3>3. y.status = "running" /\ y.next = n.next /\ n.status = "running"
      BY <2>1, <2>2
    <3> QED BY <3>1, <3>2, <3>3 DEF Tracks
  <2> QED BY <2>6, <2>7
<1> QED BY <1>9, <1>10

\* What the engine's run of a prior transaction leaves, unless it keeps the
\* writes of a failed one.
LEMMA FinishDone ==
  ASSUME NEW b \in Seq(Transactions), NEW t \in 1 .. Len(b), NEW m \in Machine,
         ~(m.status = "running" /\ m.next <= Len(b[t].ops)),
         Originals(m, Before(b, t)), Tracks(m, b[t], Before(b, t)),
         NEW e, e = (IF m.status = "running" THEN Ended(m, b[t].ends) ELSE m),
         NEW u, u = Undone(b[t], e)
  PROVE  /\ Originals(u, Before(b, t))
         /\ ~KeepsWrites(u) => Done(u, b, t)
<1> PICK tx : tx = b[t]
  OBVIOUS
<1> PICK state : state = Before(b, t)
  OBVIOUS
<1>1. tx \in Transactions /\ state \in ChainStates /\ Before(b, t + 1) = Left(tx, state)
  BY BeforeFacts
<1>2. Len(tx.ops) \in Nat /\ tx.ends \in {"stop", "revert", "invalid"}
  BY <1>1 DEF Transactions
<1>3. e.loaded = m.loaded /\ e \in Machine
  <2>1. tx.ends \in Statuses
    BY <1>2 DEF Statuses
  <2>2. Ended(m, tx.ends).loaded = m.loaded /\ Ended(m, tx.ends) \in Machine
    BY <2>1, EndedIsMachine DEF Ended, Machine
  <2> QED BY <2>2
<1>4. u.status = e.status /\ (u.loaded = e.loaded \/ u.loaded = NothingLoaded)
      /\ (e.status = "stop" => u.loaded = e.loaded)
  BY <1>3 DEF Undone, Machine
<1>5. Originals(u, state)
  <2>1. CASE u.loaded = m.loaded
    BY <2>1 DEF Originals, Held
  <2>2. CASE u.loaded = NothingLoaded
    BY <2>2 DEF Originals, Held, NothingLoaded
  <2> QED BY <1>3, <1>4, <2>1, <2>2
<1>6. CASE e.status # "stop"
  <2> SUFFICES ASSUME ~KeepsWrites(u), NEW s \in Held(u)
               PROVE  u.loaded[s].current = state[s]
    BY <1>4, <1>5, <1>6 DEF Done
  <2>1. u.loaded[s].original = u.loaded[s].current
    BY <1>4, <1>6 DEF KeepsWrites
  <2> QED BY <1>5, <2>1 DEF Originals
<1>7. CASE e.status = "stop"
  <2>1. m.status = "running" /\ e = Ended(m, tx.ends)
    BY <1>7 DEF Tracks
  <2>2. tx.ends = "stop"
    BY <1>7, <2>1 DEF Ended, Machine
  <2>3. m.next = Len(tx.ops) + 1 /\ m.next - 1 = Len(tx.ops)
    BY <1>2, <2>1 DEF Tracks
  <2> PICK w : w = Course(tx, state)[Len(tx.ops)]
    OBVIOUS
  <2>4. /\ w.status = "running"
        /\ \A s \in Slots : w.loaded[s] = IF s \in Held(m) THEN m.loaded[s]
                                          ELSE [original |-> state[s], current |-> state[s]]
    BY <2>1, <2>3 DEF Tracks
  <2>5. Executed(tx, state) = Ended(w, "stop")
    BY <2>2, <2>4, ExecutedIs
  <2>6. w \in Machine
    <3>1. Len(tx.ops) \in 0 .. Len(tx.ops)
      BY <1>2
    <3> QED BY <1>1, <3>1, CourseOK DEF NodeOK
  <2>7. Ended(w, "stop").status = "stop" /\ Ended(w, "stop").loaded = w.loaded
    BY <2>6 DEF Ended, Machine
  <2>8. Left(tx, state) = [s \in Slots |-> w.loaded[s].current]
    BY <2>5, <2>7 DEF Left
  <2>9. u.loaded = m.loaded /\ Held(u) = Held(m) /\ u.status = "stop"
    BY <1>3, <1>4, <1>7 DEF Held
  <2>10. ASSUME NEW s \in Slots
         PROVE  Before(b, t + 1)[s] = IF s \in Held(u) THEN u.loaded[s].current ELSE Before(b, t)[s]
    <3>1. Before(b, t + 1)[s] = w.loaded[s].current
      BY <1>1, <2>8
    <3>2. CASE s \in Held(u)
      BY <2>4, <2>9, <3>1, <3>2
    <3>3. CASE s \notin Held(u)
      <4>1. w.loaded[s] = [original |-> state[s], current |-> state[s]]
        BY <2>4, <2>9, <3>3
      <4> QED BY <3>1, <3>3, <4>1
    <3> QED BY <3>2, <3>3
  <2>11. Executed(tx, state).status = "stop"
    BY <2>5, <2>7
  <2> QED BY <1>5, <2>9, <2>10, <2>11 DEF Done
<1> QED BY <1>5, <1>6, <1>7

\* A prior transaction that ended as its receipt has it left what it left on
\* the chain.
LEMMA MatchedLeft ==
  ASSUME NEW b \in Seq(Transactions), NEW t \in 1 .. Len(b), NEW m,
         Done(m, b, t), (m.status = "stop") = (Executed(b[t], Before(b, t)).status = "stop")
  PROVE  \A s \in Slots :
           Before(b, t + 1)[s] = IF s \in Held(m) THEN m.loaded[s].current ELSE Before(b, t)[s]
<1>1. CASE m.status = "stop"
  BY <1>1 DEF Done
<1>2. CASE m.status # "stop"
  <2>1. Before(b, t + 1) = Before(b, t)
    BY <1>2, BeforeFacts DEF Left
  <2> QED BY <1>2, <2>1 DEF Done
<1> QED BY <1>1, <1>2

-----------------------------------------------------------------------------
(* Steps.                                                                  *)

\* A request moves on; of the cache and of what is remembered only what belongs
\* to its target may change.
LEMMA Moved ==
  ASSUME IInv, Exactness, NEW c \in Clients, NEW r \in Request, request[c] = r,
         NEW n \in Request \cup {Idle}, Becomes(c, n), UNCHANGED block,
         n # Idle => n.target = r.target,
         Reconstructing(n) => Reconstructing(r),
         spoiled' \in {spoiled, spoiled \cup {r.target}},
         \A t \in 1 .. Len(block) :
           t # r.target => /\ cache'[t].slots = cache[t].slots
                           /\ replayStates'[t] = replayStates[t],
         NEW here, here = r.target,
         here \notin spoiled' =>
           /\ RequestRight(n)'
           /\ \A q \in Request :
                /\ q.target = here /\ RequestRight(q)
                /\ \E d \in Clients \ {c} : request[d] = q
                => RequestRight(q)'
           /\ StateRight(here)'
  PROVE  Exactness'
<1>1. request \in [Clients -> Request \cup {Idle}] /\ block \in Seq(Transactions)
      /\ here \in 1 .. Len(block)
  BY BlockFacts DEF IInv, TypeOK, Request
<1>2. request'[c] = n /\ \A d \in Clients \ {c} : request'[d] = request[d]
  BY <1>1 DEF Becomes
<1>3. spoiled \subseteq spoiled'
  OBVIOUS
<1>4. OneReconstructs'
  <2> SUFFICES ASSUME NEW d \in Clients, NEW e \in Clients, d # e,
                      Reconstructing(request[d])', Reconstructing(request[e])',
                      request'[d].target = request'[e].target
               PROVE  request'[d].target \in spoiled'
    BY DEF OneReconstructs
  <2>1. \A x \in Clients : Reconstructing(request[x])' => Reconstructing(request[x])
    BY <1>2 DEF Reconstructing, Prior
  <2>2. \A x \in Clients : Reconstructing(request[x])' => request'[x].target = request[x].target
    BY <1>2 DEF Reconstructing
  <2> QED BY <1>3, <2>1, <2>2 DEF Exactness, OneReconstructs
<1>5. ASSUME NEW d \in Clients PROVE RequestRight(request[d])'
  <2>1. CASE d = c
    <3>1. CASE here \in spoiled'
      BY <1>2, <2>1, <3>1 DEF RequestRight
    <3>2. CASE here \notin spoiled'
      BY <1>2, <2>1, <3>2 DEF RequestRight
    <3> QED BY <3>1, <3>2
  <2>2. CASE d # c
    <3> PICK q : q = request[d]
      OBVIOUS
    <3>1. RequestRight(q) /\ q = request'[d] /\ q \in Request \cup {Idle}
      BY <1>1, <1>2, <2>2 DEF Exactness
    <3>2. RequestRight(q)'
      <4>1. CASE q = Idle
        BY <4>1 DEF RequestRight
      <4>2. CASE q # Idle /\ q.target = here
        <5>1. CASE here \in spoiled'
          BY <4>2, <5>1 DEF RequestRight
        <5>2. CASE here \notin spoiled'
          BY <2>2, <3>1, <4>2, <5>2
        <5> QED BY <5>1, <5>2
      <4>3. CASE q # Idle /\ q.target # here
        <5>1. q.target \in 1 .. Len(block)
          BY <3>1, <4>3 DEF Request
        <5>2. /\ cache'[q.target].slots = cache[q.target].slots
              /\ replayStates'[q.target] = replayStates[q.target]
          BY <4>3, <5>1
        <5>3. q.target \in spoiled' <=> q.target \in spoiled
          BY <4>3
        <5> QED BY <3>1, <5>2, <5>3 DEF RequestRight
      <4> QED BY <4>1, <4>2, <4>3
    <3> QED BY <3>1, <3>2 DEF RequestRight
  <2> QED BY <2>1, <2>2
<1>6. ASSUME NEW t \in (1 .. Len(block)) \ spoiled' PROVE StateRight(t)'
  <2>1. CASE t = here
    BY <1>6, <2>1
  <2>2. CASE t # here
    <3>1. StateRight(t)
      BY <1>3 DEF Exactness
    <3>2. cache'[t].slots = cache[t].slots /\ replayStates'[t] = replayStates[t]
      BY <2>2
    <3>3. ASSUME \A d \in Clients : request'[d] = Idle \/ request'[d].target # t
          PROVE  \A d \in Clients : request[d] = Idle \/ request[d].target # t
      BY <1>2, <2>2, <3>3
    <3> QED BY <3>1, <3>2, <3>3 DEF StateRight
  <2> QED BY <2>1, <2>2
<1> QED BY <1>4, <1>5, <1>6 DEF Exactness

\* A request moves on, and nothing that belongs to its target changes.
LEMMA Quiet ==
  ASSUME IInv, Exactness, NEW c \in Clients, NEW r \in Request, request[c] = r,
         NEW n \in Request \cup {Idle}, Becomes(c, n), UNCHANGED <<block, replayStates>>,
         n # Idle => n.target = r.target,
         Reconstructing(n) => Reconstructing(r),
         spoiled' \in {spoiled, spoiled \cup {r.target}},
         \A t \in 1 .. Len(block) : cache'[t].slots = cache[t].slots,
         r.target \notin spoiled' =>
           IF n = Idle THEN replayStates[r.target] # Nothing
           ELSE /\ Shape(n, replayStates[r.target])
                /\ CacheRight(n, block, cache[r.target].slots)
                /\ RunRight(n, block)
  PROVE  Exactness'
<1> PICK here : here = r.target
  OBVIOUS
<1>1. here \in 1 .. Len(block) /\ cache'[here].slots = cache[here].slots
  BY DEF Request
<1>2. request \in [Clients -> Request \cup {Idle}]
  BY DEF IInv, TypeOK
<1>3. ASSUME here \notin spoiled'
      PROVE  /\ RequestRight(n)'
             /\ \A q \in Request :
                  /\ q.target = here /\ RequestRight(q)
                  /\ \E d \in Clients \ {c} : request[d] = q
                  => RequestRight(q)'
             /\ StateRight(here)'
  <2>1. here \notin spoiled
    BY <1>3
  <2>2. RequestRight(n)'
    BY <1>1, <1>3 DEF RequestRight
  <2>3. \A q \in Request : q.target = here /\ RequestRight(q) => RequestRight(q)'
    BY <1>1, <1>3, <2>1 DEF RequestRight
  <2>4. StateRight(here)'
    <3>1. StateRight(here)
      BY <1>1, <2>1 DEF Exactness
    <3>2. CASE replayStates[here] # Nothing
      BY <1>1, <3>1, <3>2 DEF StateRight
    <3>3. CASE replayStates[here] = Nothing
      <4>1. n # Idle /\ n.target = here /\ request'[c] = n
        BY <1>2, <1>3, <3>3 DEF Becomes
      <4> QED BY <3>3, <4>1 DEF StateRight
    <3> QED BY <3>2, <3>3
  <2> QED BY <2>2, <2>3, <2>4
<1> QED BY <1>1, <1>3, Moved

\* What is known of a request under way.
LEMMA Knows ==
  ASSUME IInv, Exactness, NEW c \in Clients, NEW r, request[c] = r, r.phase # "idle"
  PROVE  /\ r \in Request /\ r # Idle /\ RequestFits(r) /\ block \in Seq(Transactions)
         /\ r.target \in 1 .. Len(block) /\ r.tx \in 1 .. Len(block)
         /\ block[r.tx] \in Transactions /\ Before(block, r.tx) \in ChainStates
         /\ r.machine \in Machine
         /\ r.target \notin spoiled =>
              /\ Shape(r, replayStates[r.target])
              /\ CacheRight(r, block, cache[r.target].slots)
              /\ RunRight(r, block)
<1>1. r \in Request /\ RequestFits(r) /\ r # Idle
  BY ActiveRequest DEF Idle
<1>2. block \in Seq(Transactions) /\ r.target \in 1 .. Len(block) /\ r.tx \in 1 .. Len(block)
      /\ r.machine \in Machine
  BY <1>1, BlockFacts DEF IInv, Request
<1>3. block[r.tx] \in Transactions /\ Before(block, r.tx) \in ChainStates
  BY <1>2, BeforeFacts
<1>4. RequestRight(r)
  BY DEF Exactness
<1> QED BY <1>1, <1>2, <1>3, <1>4 DEF RequestRight

\* A reconstruction that is given up: the target runs on the parent's state,
\* and says that it is not exact.
LEMMA GivenUpRight ==
  ASSUME NEW r \in Request, Going(r), NEW n, n = GivenUp(r)
  PROVE  /\ n.target = r.target /\ Reconstructing(r)
         /\ \A known, b, slots :
              Shape(r, known) /\ r.target # Parent
                => Shape(n, known) /\ CacheRight(n, b, slots) /\ RunRight(n, b)
<1>1. /\ n.phase = "code" /\ n.tx = r.target /\ n.target = r.target /\ n.ref = r.stateRef
      /\ n.stateRef = r.stateRef /\ n.exact = FALSE
  BY DEF GivenUp, ToTarget, Request
<1>2. Reconstructing(r)
  BY DEF Going, Reconstructing, Idle, Request, Prior
<1>3. r.target \in Int
  BY DEF Request
<1>4. ~Going(n) /\ ~n.exact
  BY <1>1, <1>3 DEF Going, Prior
<1> SUFFICES ASSUME NEW known, NEW b, NEW slots, Shape(r, known), r.target # Parent
             PROVE  Shape(n, known) /\ CacheRight(n, b, slots) /\ RunRight(n, b)
  BY <1>1, <1>2
<1>5. r.stateRef = Parent /\ known = Nothing
  BY DEF Shape
<1>6. Shape(n, known)
  BY <1>1, <1>4, <1>5 DEF Shape
<1>7. CacheRight(n, b, slots)
  BY <1>1, <1>5 DEF CacheRight
<1>8. RunRight(n, b)
  BY <1>4 DEF RunRight
<1> QED BY <1>6, <1>7, <1>8

\* The reference of a synthetic block is not the parent's.
LEMMA TargetIsNoParent ==
  ASSUME NEW t \in 1 .. Len(block), block \in Seq(Transactions)
  PROVE  t # Parent
BY DEF Parent

LEMMA ListBlockExact ==
  ASSUME IInv, Exactness, NEW c \in Clients, ListBlock(c)
  PROVE  Exactness'
<1> PICK r : r = request[c]
  OBVIOUS
<1>1. r.phase = "list" /\ UNCHANGED <<block, cache, replayStates, spoiled>>
  BY DEF ListBlock
<1>2. /\ r \in Request /\ block \in Seq(Transactions) /\ r.target \in 1 .. Len(block)
      /\ r.target \notin spoiled =>
           /\ Shape(r, replayStates[r.target])
           /\ CacheRight(r, block, cache[r.target].slots)
  BY <1>1, Knows
<1>3. Going(r) /\ r.target # Parent /\ GivenUp(r) \in Request
  BY <1>1, <1>2, TargetIsNoParent, ToTargetFits DEF Going, IInv
<1> PICK n : n = [r EXCEPT !.phase = "receipt"]
  OBVIOUS
<1>4. /\ n \in Request /\ n.phase = "receipt" /\ n.target = r.target /\ n.tx = r.tx /\ n.ref = r.ref
      /\ n.stateRef = r.stateRef /\ n.exact = r.exact
  BY <1>2 DEF Request, Phases
<1>5. CASE Becomes(c, n)
  <2>1. Reconstructing(r)
    BY <1>1 DEF Reconstructing, Idle
  <2>2. ASSUME r.target \notin spoiled
        PROVE  /\ Shape(n, replayStates[r.target])
               /\ CacheRight(n, block, cache[r.target].slots)
               /\ RunRight(n, block)
    <3>1. Shape(n, replayStates[r.target])
      BY <1>2, <1>3, <1>4, <2>2 DEF Shape, Going
    <3>2. CacheRight(n, block, cache[r.target].slots)
      BY <1>1, <1>2, <1>4, <2>2 DEF CacheRight
    <3>3. RunRight(n, block)
      BY <1>4 DEF RunRight
    <3> QED BY <3>1, <3>2, <3>3
  <2>3. n # Idle
    BY <1>4, IdleIsNoRequest
  <2> QED BY <1>1, <1>2, <1>4, <1>5, <2>1, <2>2, <2>3, Quiet
<1>6. CASE Becomes(c, GivenUp(r))
  <2> PICK g : g = GivenUp(r)
    OBVIOUS
  <2>1. /\ g.target = r.target /\ Reconstructing(r) /\ g \in Request /\ g # Idle /\ Becomes(c, g)
        /\ r.target \notin spoiled =>
             /\ Shape(g, replayStates[r.target])
             /\ CacheRight(g, block, cache[r.target].slots)
             /\ RunRight(g, block)
    BY <1>2, <1>3, <1>6, GivenUpRight, IdleIsNoRequest
  <2> QED BY <1>1, <1>2, <2>1, Quiet
<1> QED BY <1>5, <1>6 DEF ListBlock

LEMMA NextInBlockExact ==
  ASSUME IInv, Exactness, NEW c \in Clients, NextInBlock(c)
  PROVE  Exactness'
<1> PICK r : r = request[c]
  OBVIOUS
<1>1. r.phase = "receipt" /\ UNCHANGED <<block, cache, replayStates, spoiled>>
  BY DEF NextInBlock
<1>2. /\ r \in Request /\ block \in Seq(Transactions) /\ r.target \in 1 .. Len(block)
      /\ RequestFits(r) /\ r.tx \in 1 .. Len(block)
      /\ r.target \notin spoiled =>
           /\ Shape(r, replayStates[r.target])
           /\ CacheRight(r, block, cache[r.target].slots)
           /\ RunRight(r, block)
  BY <1>1, Knows
<1>3. Going(r) /\ r.target # Parent /\ GivenUp(r) \in Request /\ Reconstructing(r)
  BY <1>1, <1>2, TargetIsNoParent, ToTargetFits DEF Going, IInv, Reconstructing, Idle
<1>4. CASE Prior(r) /\ Becomes(c, [r EXCEPT !.phase = "code"])
  <2> PICK n : n = [r EXCEPT !.phase = "code"]
    OBVIOUS
  <2>1. /\ n \in Request /\ n.phase = "code" /\ n.target = r.target /\ n.tx = r.tx /\ n.ref = r.ref
        /\ n.stateRef = r.stateRef /\ n.exact = r.exact /\ Becomes(c, n) /\ n # Idle
    BY <1>2, <1>4, IdleIsNoRequest DEF Request, Phases
  <2>2. Going(n)
    BY <1>4, <2>1 DEF Going, Prior
  <2>3. ASSUME r.target \notin spoiled
        PROVE  /\ Shape(n, replayStates[r.target])
               /\ CacheRight(n, block, cache[r.target].slots)
               /\ RunRight(n, block)
    <3>1. Shape(n, replayStates[r.target])
      BY <1>2, <1>3, <2>1, <2>2, <2>3 DEF Shape
    <3>2. CacheRight(n, block, cache[r.target].slots)
      BY <1>1, <1>2, <2>1, <2>3 DEF CacheRight
    <3>3. RunRight(n, block)
      BY <2>1 DEF RunRight
    <3> QED BY <3>1, <3>2, <3>3
  <2> QED BY <1>1, <1>2, <1>3, <2>1, <2>3, Quiet
<1>5. CASE Becomes(c, GivenUp(r))
  <2> PICK g : g = GivenUp(r)
    OBVIOUS
  <2>1. /\ g.target = r.target /\ Reconstructing(r) /\ g \in Request /\ g # Idle /\ Becomes(c, g)
        /\ r.target \notin spoiled =>
             /\ Shape(g, replayStates[r.target])
             /\ CacheRight(g, block, cache[r.target].slots)
             /\ RunRight(g, block)
    BY <1>2, <1>3, <1>5, GivenUpRight, IdleIsNoRequest
  <2> QED BY <1>1, <1>2, <2>1, Quiet
<1>6. CASE ~Prior(r) /\ Becomes(c, ToTarget([r EXCEPT !.stateRef = r.target]))
  <2> PICK q : q = [r EXCEPT !.stateRef = r.target]
    OBVIOUS
  <2> PICK n : n = ToTarget(q)
    OBVIOUS
  <2>1. q \in Request /\ q.stateRef = r.target /\ q.target = r.target /\ q.exact = r.exact
    BY <1>2 DEF Request, Refs
  <2>2. n \in Request /\ n # Idle
    BY <2>1, ToTargetFits, IdleIsNoRequest DEF IInv
  <2>3. /\ n.phase = "code" /\ n.tx = r.target /\ n.target = r.target /\ n.ref = r.target
        /\ n.stateRef = r.target /\ n.exact = r.exact
    BY <2>1 DEF ToTarget, Request
  <2>4. r.tx = r.target /\ ~Going(n)
    <3>1. r.target \in Int /\ r.tx \in Int /\ r.tx <= r.target
      BY <1>1, <1>2 DEF RequestFits
    <3> QED BY <1>6, <2>3, <3>1 DEF Prior, Going
  <2>5. ASSUME r.target \notin spoiled
        PROVE  /\ Shape(n, replayStates[r.target])
               /\ CacheRight(n, block, cache[r.target].slots)
               /\ RunRight(n, block)
    <3>1. Shape(n, replayStates[r.target])
      BY <1>2, <1>3, <2>3, <2>4, <2>5 DEF Shape
    <3>2. CacheRight(n, block, cache[r.target].slots)
      BY <1>1, <1>2, <1>3, <2>3, <2>4, <2>5 DEF CacheRight, Shape
    <3>3. RunRight(n, block)
      BY <2>3 DEF RunRight
    <3> QED BY <3>1, <3>2, <3>3
  <2>6. Becomes(c, n)
    BY <1>6
  <2> QED BY <1>1, <1>2, <1>3, <2>2, <2>3, <2>5, <2>6, Quiet
<1> QED BY <1>4, <1>5, <1>6 DEF NextInBlock

LEMMA PrepareFailsExact ==
  ASSUME IInv, Exactness, NEW c \in Clients, PrepareFails(c)
  PROVE  Exactness'
<1> PICK r : r = request[c]
  OBVIOUS
<1>1. r.phase = "code" /\ UNCHANGED <<block, cache, replayStates>>
      /\ Becomes(c, IF Prior(r) THEN GivenUp(r) ELSE Idle)
      /\ spoiled' = IF Prior(r) THEN spoiled ELSE spoiled \cup {r.target}
  BY DEF PrepareFails
<1>2. /\ r \in Request /\ block \in Seq(Transactions) /\ r.target \in 1 .. Len(block)
      /\ r.target \notin spoiled =>
           /\ Shape(r, replayStates[r.target])
           /\ CacheRight(r, block, cache[r.target].slots)
  BY <1>1, Knows
<1>3. r.target # Parent /\ GivenUp(r) \in Request
  BY <1>2, TargetIsNoParent, ToTargetFits DEF IInv
<1>4. CASE Prior(r)
  <2> PICK g : g = GivenUp(r)
    OBVIOUS
  <2>1. /\ g.target = r.target /\ Reconstructing(r) /\ g \in Request /\ g # Idle /\ Becomes(c, g)
        /\ r.target \notin spoiled =>
             /\ Shape(g, replayStates[r.target])
             /\ CacheRight(g, block, cache[r.target].slots)
             /\ RunRight(g, block)
    BY <1>1, <1>2, <1>3, <1>4, GivenUpRight, IdleIsNoRequest DEF Going
  <2> QED BY <1>1, <1>2, <1>4, <2>1, Quiet
<1>5. CASE ~Prior(r)
  <2>1. Becomes(c, Idle) /\ r.target \in spoiled' /\ ~Reconstructing(Idle)
    BY <1>1, <1>5 DEF Reconstructing
  <2> QED BY <1>1, <1>2, <1>5, <2>1, Quiet
<1> QED BY <1>4, <1>5

\* Adding to the codes and accounts of a reference leaves all cells alone.
LEMMA CellsStay ==
  ASSUME IInv, NEW ref \in Refs,
         \/ cache' = cache
         \/ \E x : cache' = [cache EXCEPT ![ref].codes = x]
         \/ \E x : cache' = [cache EXCEPT ![ref].accounts = x]
  PROVE  \A t \in 1 .. Len(block) : cache'[t].slots = cache[t].slots
<1>1. cache \in CacheType /\ 1 .. Len(block) \subseteq Refs
  BY Unpacked, BlockFacts DEF IInv
<1> QED BY <1>1 DEF CacheType

\* An account cannot be loaded, and the request dies.
LEMMA PanicExact ==
  ASSUME IInv, Exactness, NEW c \in Clients, NEW account, request[c].phase \in {"value", "burn"},
         AccountPanics(c, account), UNCHANGED <<block, replayStates>>
  PROVE  Exactness'
<1> PICK r : r = request[c]
  OBVIOUS
<1>1. /\ Becomes(c, Idle) /\ UNCHANGED cache
      /\ spoiled' = IF Prior(r) THEN spoiled \cup {r.target} ELSE spoiled
  BY DEF AccountPanics
<1>2. /\ r \in Request /\ r.target \in 1 .. Len(block)
      /\ r.target \notin spoiled => Shape(r, replayStates[r.target])
  BY Knows
<1>3. r.target \notin spoiled' => replayStates[r.target] # Nothing
  BY <1>1, <1>2 DEF Shape, Going
<1>4. ~Reconstructing(Idle)
  BY DEF Reconstructing
<1> QED BY <1>1, <1>2, <1>3, <1>4, Quiet

LEMMA MoveValueExact ==
  ASSUME IInv, Exactness, NEW c \in Clients, MoveValue(c)
  PROVE  Exactness'
<1> PICK r : r = request[c]
  OBVIOUS
<1>1. r.phase = "value" /\ UNCHANGED <<block, replayStates>>
  BY DEF MoveValue
<1>2. /\ r \in Request /\ block \in Seq(Transactions) /\ r.target \in 1 .. Len(block)
      /\ r.target \notin spoiled =>
           /\ Shape(r, replayStates[r.target])
           /\ CacheRight(r, block, cache[r.target].slots)
           /\ RunRight(r, block)
  BY <1>1, Knows
<1>3. CASE AccountPanics(c, r.tx)
  BY <1>1, <1>3, PanicExact
<1> PICK n : n = [r EXCEPT !.phase = "run"]
  OBVIOUS
<1>4. CASE /\ Becomes(c, n) /\ spoiled' = spoiled
           /\ \/ cache' = cache
              \/ cache' = [cache EXCEPT ![r.ref].accounts = @ \cup {r.tx}]
  <2>1. /\ n \in Request /\ n.phase = "run" /\ n.target = r.target /\ n.tx = r.tx /\ n.ref = r.ref
        /\ n.stateRef = r.stateRef /\ n.exact = r.exact /\ n.machine = r.machine /\ n # Idle
    BY <1>2, IdleIsNoRequest DEF Request, Phases
  <2>2. /\ Going(n) <=> Going(r)
        /\ Reconstructing(n) => Reconstructing(r)
    BY <1>1, <1>2, <2>1 DEF Going, Prior, Reconstructing, Idle
  <2>3. ASSUME r.target \notin spoiled
        PROVE  /\ Shape(n, replayStates[r.target])
               /\ CacheRight(n, block, cache[r.target].slots)
               /\ RunRight(n, block)
    <3>1. Shape(n, replayStates[r.target])
      BY <1>1, <1>2, <2>1, <2>2, <2>3 DEF Shape
    <3>2. CacheRight(n, block, cache[r.target].slots)
      BY <1>1, <1>2, <2>1, <2>3 DEF CacheRight
    <3>3. RunRight(n, block)
      BY <1>1, <1>2, <2>1, <2>3 DEF RunRight
    <3> QED BY <3>1, <3>2, <3>3
  <2>4. \A t \in 1 .. Len(block) : cache'[t].slots = cache[t].slots
    <3>1. r.ref \in Refs
      BY <1>2 DEF Request
    <3> QED BY <1>4, <3>1, CellsStay
  <2> QED BY <1>1, <1>2, <1>4, <2>1, <2>2, <2>3, <2>4, Quiet
<1> QED BY <1>3, <1>4 DEF MoveValue, LoadAccount

\* A run goes on with another machine.
LEMMA RunsOn ==
  ASSUME IInv, Exactness, NEW c \in Clients, NEW r, request[c] = r, r.phase = "run",
         NEW m \in Machine, Becomes(c, [r EXCEPT !.machine = m]),
         UNCHANGED <<block, cache, replayStates, spoiled>>,
         r.target \notin spoiled /\ r.exact =>
           Originals(m, Before(block, r.tx)) /\ Tracks(m, block[r.tx], Before(block, r.tx))
  PROVE  Exactness'
<1>1. /\ r \in Request /\ r.target \in 1 .. Len(block)
      /\ r.target \notin spoiled =>
           /\ Shape(r, replayStates[r.target])
           /\ CacheRight(r, block, cache[r.target].slots)
  BY Knows
<1> PICK n : n = [r EXCEPT !.machine = m]
  OBVIOUS
<1>2. /\ n \in Request /\ n.phase = "run" /\ n.target = r.target /\ n.tx = r.tx /\ n.ref = r.ref
      /\ n.stateRef = r.stateRef /\ n.exact = r.exact /\ n.machine = m /\ n # Idle
      /\ Becomes(c, n)
  BY <1>1, IdleIsNoRequest DEF Request, Phases
<1>3. /\ Going(n) <=> Going(r)
      /\ Reconstructing(n) => Reconstructing(r)
  BY <1>1, <1>2 DEF Going, Prior, Reconstructing, Idle
<1>4. ASSUME r.target \notin spoiled
      PROVE  /\ Shape(n, replayStates[r.target])
             /\ CacheRight(n, block, cache[r.target].slots)
             /\ RunRight(n, block)
  <2>1. Shape(n, replayStates[r.target])
    BY <1>1, <1>2, <1>3, <1>4 DEF Shape
  <2>2. CacheRight(n, block, cache[r.target].slots)
    BY <1>1, <1>2, <1>4 DEF CacheRight
  <2>3. RunRight(n, block)
    BY <1>2, <1>4 DEF RunRight
  <2> QED BY <2>1, <2>2, <2>3
<1> QED BY <1>1, <1>2, <1>3, <1>4, Quiet

\* Whether it is exact or not, a request works under its synthetic reference
\* or under the parent's; what is cached there is what the chain has.
LEMMA CachedIsRight ==
  ASSUME IInv, Exactness, NEW c \in Clients, NEW r, request[c] = r,
         r.phase \in {"run", "fetched"}, r.target \notin spoiled, r.exact, NEW s \in Slots
  PROVE  IF cache[r.ref].slots[s] = Nothing THEN Before(block, r.tx)[s] = ParentState[s]
         ELSE cache[r.ref].slots[s] = Before(block, r.tx)[s]
<1>1. /\ r \in Request /\ r.target \in 1 .. Len(block) /\ block \in Seq(Transactions)
      /\ Shape(r, replayStates[r.target])
      /\ CacheRight(r, block, cache[r.target].slots)
  BY Knows
<1>2. CASE r.ref = r.target
  BY <1>1, <1>2 DEF CacheRight, Right, CellRight
<1>3. CASE r.ref # r.target
  <2>1. r.ref = Parent /\ r.target = 1 /\ r.tx = r.target
    BY <1>1, <1>3 DEF Shape
  <2>2. Before(block, r.tx) = ParentState
    BY <1>1, <2>1, BeforeFacts
  <2>3. cache[Parent].slots[s] \in {Nothing, ParentState[s]}
    BY DEF IInv, ParentIsUntouched
  <2> QED BY <2>1, <2>2, <2>3
<1> QED BY <1>2, <1>3

LEMMA LoadCachedExact ==
  ASSUME IInv, Exactness, NEW c \in Clients, LoadCached(c)
  PROVE  Exactness'
<1> PICK r : r = request[c]
  OBVIOUS
<1> PICK s : s = ThisSlot(r)
  OBVIOUS
<1> PICK v : v = cache[r.ref].slots[s]
  OBVIOUS
<1>1. /\ r.phase = "run" /\ UNCHANGED <<block, cache, replayStates, spoiled>>
      /\ Executing(r) /\ s \notin Held(r.machine) /\ v # Nothing
      /\ Becomes(c, [r EXCEPT !.machine = Loaded(r.machine, s, v)])
  BY DEF LoadCached
<1>2. /\ r \in Request /\ r.machine \in Machine
      /\ block[r.tx] \in Transactions /\ Before(block, r.tx) \in ChainStates
      /\ r.target \notin spoiled => RunRight(r, block)
  BY <1>1, Knows
<1>3. s \in Slots
  BY <1>1, <1>2, InstructionFacts DEF IInv
<1>4. v \in Values
  <2>1. r.ref \in Refs
    BY <1>2 DEF Request
  <2> QED BY <1>1, <1>3, <2>1, Unpacked DEF IInv, CacheType
<1> PICK m : m = Loaded(r.machine, s, v)
  OBVIOUS
<1>5. m \in Machine
  BY <1>2, <1>3, <1>4, LoadedIsMachine
<1>6. ASSUME r.target \notin spoiled, r.exact
      PROVE  Originals(m, Before(block, r.tx)) /\ Tracks(m, block[r.tx], Before(block, r.tx))
  <2>1. v = Before(block, r.tx)[s]
    BY <1>1, <1>3, <1>6, CachedIsRight
  <2>2. Originals(r.machine, Before(block, r.tx)) /\ Tracks(r.machine, block[r.tx], Before(block, r.tx))
    BY <1>1, <1>2, <1>6 DEF RunRight
  <2> QED BY <1>1, <1>2, <1>3, <2>1, <2>2, LoadTracks
<1> QED BY <1>1, <1>5, <1>6, RunsOn

LEMMA FetchExact ==
  ASSUME IInv, Exactness, NEW c \in Clients, Fetch(c)
  PROVE  Exactness'
<1> PICK r : r = request[c]
  OBVIOUS
<1> PICK s : s = ThisSlot(r)
  OBVIOUS
<1>1. /\ r.phase = "run" /\ UNCHANGED <<block, cache, replayStates, spoiled>>
      /\ Executing(r) /\ s \notin Held(r.machine) /\ cache[r.ref].slots[s] = Nothing
  BY DEF Fetch
<1>2. /\ r \in Request /\ r.machine \in Machine /\ r.target \in 1 .. Len(block)
      /\ r.target \notin spoiled =>
           /\ Shape(r, replayStates[r.target])
           /\ CacheRight(r, block, cache[r.target].slots)
           /\ RunRight(r, block)
  BY <1>1, Knows
<1>3. s \in Slots
  BY <1>1, <1>2, InstructionFacts DEF IInv
<1>4. CASE Becomes(c, [r EXCEPT !.phase = "fetched", !.fetched = ParentState[s]])
  <2> PICK n : n = [r EXCEPT !.phase = "fetched", !.fetched = ParentState[s]]
    OBVIOUS
  <2>1. /\ n \in Request /\ n.phase = "fetched" /\ n.target = r.target /\ n.tx = r.tx /\ n.ref = r.ref
        /\ n.stateRef = r.stateRef /\ n.exact = r.exact /\ n.machine = r.machine /\ n # Idle
        /\ n.fetched = ParentState[s] /\ Becomes(c, n)
    <3>1. ParentState[s] \in Values
      BY <1>3, ReplayAssumption
    <3> QED BY <1>2, <1>4, <3>1, IdleIsNoRequest DEF Request, Phases
  <2>2. /\ Going(n) <=> Going(r)
        /\ Reconstructing(n) => Reconstructing(r)
    BY <1>1, <1>2, <2>1 DEF Going, Prior, Reconstructing, Idle
  <2>3. ASSUME r.target \notin spoiled
        PROVE  /\ Shape(n, replayStates[r.target])
               /\ CacheRight(n, block, cache[r.target].slots)
               /\ RunRight(n, block)
    <3>1. Shape(n, replayStates[r.target])
      BY <1>1, <1>2, <2>1, <2>2, <2>3 DEF Shape
    <3>2. CacheRight(n, block, cache[r.target].slots)
      BY <1>1, <1>2, <2>1, <2>3 DEF CacheRight
    <3>3. ASSUME r.exact
          PROVE  ParentState[s] = Before(block, r.tx)[s]
      BY <1>1, <1>3, <2>3, <3>3, CachedIsRight
    <3>4. block[n.tx].ops[n.machine.next].slot = s
      BY <2>1 DEF ThisSlot
    <3>5. s \notin Held(n.machine)
      BY <1>1, <2>1
    <3>6. n.exact => /\ Originals(n.machine, Before(block, n.tx))
                     /\ Tracks(n.machine, block[n.tx], Before(block, n.tx))
      BY <1>1, <1>2, <2>1, <2>3 DEF RunRight
    <3>7. RunRight(n, block)
      BY <2>1, <3>3, <3>4, <3>5, <3>6 DEF RunRight
    <3> QED BY <3>1, <3>2, <3>7
  <2> QED BY <1>1, <1>2, <2>1, <2>2, <2>3, Quiet
<1>5. CASE Becomes(c, [r EXCEPT !.machine = Ended(r.machine, "halt")])
  <2> PICK m : m = Ended(r.machine, "halt")
    OBVIOUS
  <2>1. m \in Machine /\ m.loaded = r.machine.loaded /\ m.status = "halt"
    BY <1>2, EndedIsMachine, ZenonT(30) DEF Ended, Machine, Statuses
  <2>2. ASSUME r.target \notin spoiled, r.exact
        PROVE  Originals(m, Before(block, r.tx)) /\ Tracks(m, block[r.tx], Before(block, r.tx))
    <3>1. Originals(r.machine, Before(block, r.tx))
      BY <1>1, <1>2, <2>2 DEF RunRight
    <3> QED BY <2>1, <3>1 DEF Originals, Tracks, Held
  <2> QED BY <1>1, <1>5, <2>1, <2>2, RunsOn
<1> QED BY <1>4, <1>5 DEF Fetch

LEMMA ExecuteExact ==
  ASSUME IInv, Exactness, NEW c \in Clients, Execute(c)
  PROVE  Exactness'
<1> PICK r : r = request[c]
  OBVIOUS
<1> PICK m : m = Step(block[r.tx], r.machine)
  OBVIOUS
<1>1. /\ r.phase = "run" /\ UNCHANGED <<block, cache, replayStates, spoiled>>
      /\ Executing(r) /\ ThisSlot(r) \in Held(r.machine)
      /\ Becomes(c, [r EXCEPT !.machine = m])
  BY DEF Execute
<1>2. /\ r \in Request /\ r.machine \in Machine
      /\ block[r.tx] \in Transactions /\ Before(block, r.tx) \in ChainStates
      /\ r.target \notin spoiled => RunRight(r, block)
  BY <1>1, Knows
<1>3. m \in Machine
  BY <1>1, <1>2, StepIsMachine DEF IInv
<1>4. ASSUME r.target \notin spoiled, r.exact
      PROVE  Originals(m, Before(block, r.tx)) /\ Tracks(m, block[r.tx], Before(block, r.tx))
  <2>1. Originals(r.machine, Before(block, r.tx)) /\ Tracks(r.machine, block[r.tx], Before(block, r.tx))
    BY <1>1, <1>2, <1>4 DEF RunRight
  <2>2. /\ r.machine.next \in 1 .. Len(block[r.tx].ops) /\ r.machine.status = "running"
        /\ block[r.tx].ops[r.machine.next].slot \in Held(r.machine)
    BY <1>1, <1>2, InstructionFacts DEF IInv, Executing, ThisSlot
  <2> QED BY <1>2, <2>1, <2>2, StepTracks
<1> QED BY <1>1, <1>3, <1>4, RunsOn

LEMMA FinishExact ==
  ASSUME IInv, Exactness, NEW c \in Clients, Finish(c)
  PROVE  Exactness'
<1> PICK r : r = request[c]
  OBVIOUS
<1> PICK e : e = (IF r.machine.status = "running" THEN Ended(r.machine, block[r.tx].ends) ELSE r.machine)
  OBVIOUS
<1> PICK u : u = Undone(block[r.tx], e)
  OBVIOUS
<1>1. /\ r.phase = "run" /\ UNCHANGED <<block, cache, replayStates>>
      /\ ~Executing(r)
      /\ Becomes(c, [r EXCEPT !.phase = "burn", !.machine = u])
      /\ spoiled' = IF Prior(r) /\ KeepsWrites(u) THEN spoiled \cup {r.target} ELSE spoiled
  BY DEF Finish
<1>2. /\ r \in Request /\ r.machine \in Machine /\ r.target \in 1 .. Len(block)
      /\ r.tx \in 1 .. Len(block) /\ block \in Seq(Transactions) /\ block[r.tx] \in Transactions
      /\ r.target \notin spoiled =>
           /\ Shape(r, replayStates[r.target])
           /\ CacheRight(r, block, cache[r.target].slots)
           /\ RunRight(r, block)
  BY <1>1, Knows
<1>3. u \in Machine
  <2>1. block[r.tx].ends \in Statuses
    BY <1>2 DEF Transactions, Statuses
  <2>2. e \in Machine
    BY <1>2, <2>1, EndedIsMachine
  <2> QED BY <2>2, UndoneIsMachine
<1> PICK n : n = [r EXCEPT !.phase = "burn", !.machine = u]
  OBVIOUS
<1>4. /\ n \in Request /\ n.phase = "burn" /\ n.target = r.target /\ n.tx = r.tx /\ n.ref = r.ref
      /\ n.stateRef = r.stateRef /\ n.exact = r.exact /\ n.machine = u /\ n # Idle
      /\ Becomes(c, n)
  BY <1>1, <1>2, <1>3, IdleIsNoRequest DEF Request, Phases
<1>5. /\ Going(n) <=> Going(r)
      /\ Prior(n) <=> Prior(r)
      /\ Reconstructing(n) => Reconstructing(r)
  BY <1>1, <1>2, <1>4 DEF Going, Prior, Reconstructing, Idle
<1>6. ASSUME r.target \notin spoiled'
      PROVE  /\ Shape(n, replayStates[r.target])
             /\ CacheRight(n, block, cache[r.target].slots)
             /\ RunRight(n, block)
  <2>0. r.target \notin spoiled
    BY <1>1, <1>6
  <2>1. Shape(n, replayStates[r.target])
    BY <1>1, <1>2, <1>4, <1>5, <2>0 DEF Shape
  <2>2. CacheRight(n, block, cache[r.target].slots)
    BY <1>1, <1>2, <1>4, <2>0 DEF CacheRight
  <2>3. ASSUME r.exact
        PROVE  /\ Originals(u, Before(block, r.tx))
               /\ Prior(r) => Done(u, block, r.tx)
    <3>1. Originals(r.machine, Before(block, r.tx)) /\ Tracks(r.machine, block[r.tx], Before(block, r.tx))
      BY <1>1, <1>2, <2>0, <2>3 DEF RunRight
    <3>2. ~(r.machine.status = "running" /\ r.machine.next <= Len(block[r.tx].ops))
      BY <1>1 DEF Executing
    <3>3. Originals(u, Before(block, r.tx)) /\ (~KeepsWrites(u) => Done(u, block, r.tx))
      BY <1>2, <3>1, <3>2, FinishDone
    <3>4. Prior(r) => ~KeepsWrites(u)
      BY <1>1, <1>6
    <3> QED BY <3>3, <3>4
  <2>4. RunRight(n, block)
    BY <1>4, <1>5, <2>3 DEF RunRight
  <2> QED BY <2>1, <2>2, <2>4
<1>7. \A t \in 1 .. Len(block) : cache'[t].slots = cache[t].slots
  BY <1>1
<1> QED BY <1>1, <1>2, <1>4, <1>5, <1>6, <1>7, Quiet

LEMMA BurnExact ==
  ASSUME IInv, Exactness, NEW c \in Clients, Burn(c)
  PROVE  Exactness'
<1> PICK r : r = request[c]
  OBVIOUS
<1>1. r.phase = "burn" /\ UNCHANGED <<block, replayStates>>
  BY DEF Burn
<1>2. /\ r \in Request /\ r.machine \in Machine /\ r.target \in 1 .. Len(block)
      /\ r.target \notin spoiled =>
           /\ Shape(r, replayStates[r.target])
           /\ CacheRight(r, block, cache[r.target].slots)
           /\ RunRight(r, block)
  BY <1>1, Knows
<1>3. CASE AccountPanics(c, Coinbase)
  BY <1>1, <1>3, PanicExact
<1>4. CASE /\ cache' = [cache EXCEPT ![r.ref].accounts = @ \cup {Coinbase}]
           /\ Becomes(c, IF Prior(r) THEN [r EXCEPT !.phase = "write", !.unwritten = Held(r.machine)]
                         ELSE Idle)
           /\ UNCHANGED spoiled
  <2>1. \A t \in 1 .. Len(block) : cache'[t].slots = cache[t].slots
    <3>1. r.ref \in Refs
      BY <1>2 DEF Request
    <3> QED BY <1>4, <3>1, CellsStay
  <2>2. CASE Prior(r)
    <3> PICK n : n = [r EXCEPT !.phase = "write", !.unwritten = Held(r.machine)]
      OBVIOUS
    <3>1. /\ n \in Request /\ n.phase = "write" /\ n.target = r.target /\ n.tx = r.tx /\ n.ref = r.ref
          /\ n.stateRef = r.stateRef /\ n.exact = r.exact /\ n.machine = r.machine /\ n # Idle
          /\ n.unwritten = Held(r.machine) /\ Becomes(c, n)
      <4>1. Held(r.machine) \in SUBSET Slots
        BY DEF Held
      <4>2. n \in Request
        BY <1>2, <4>1 DEF Request, Phases
      <4>3. Becomes(c, n)
        BY <1>4, <2>2
      <4>4. /\ n.phase = "write" /\ n.target = r.target /\ n.tx = r.tx /\ n.ref = r.ref
            /\ n.stateRef = r.stateRef /\ n.exact = r.exact /\ n.machine = r.machine
            /\ n.unwritten = Held(r.machine)
        BY <1>2 DEF Request
      <4> QED BY <4>2, <4>3, <4>4, IdleIsNoRequest
    <3>2. /\ Going(n) /\ Going(r) /\ Prior(n)
          /\ Reconstructing(r)
      BY <1>1, <1>2, <2>2, <3>1 DEF Going, Prior, Reconstructing, Idle
    <3>3. ASSUME r.target \notin spoiled
          PROVE  /\ Shape(n, replayStates[r.target])
                 /\ CacheRight(n, block, cache[r.target].slots)
                 /\ RunRight(n, block)
      <4>1. Shape(n, replayStates[r.target])
        BY <1>1, <1>2, <3>1, <3>2, <3>3 DEF Shape
      <4>2. Right(cache[r.target].slots, Before(block, r.tx))
        BY <1>1, <1>2, <3>2, <3>3 DEF CacheRight, Shape
      <4>3. CacheRight(n, block, cache[r.target].slots)
        BY <3>1, <4>2 DEF CacheRight, Right
      <4>4. RunRight(n, block)
        BY <1>1, <1>2, <2>2, <3>1, <3>2, <3>3 DEF RunRight
      <4> QED BY <4>1, <4>3, <4>4
    <3> QED BY <1>1, <1>2, <1>4, <2>1, <3>1, <3>2, <3>3, Quiet
  <2>3. CASE ~Prior(r)
    <3>1. Becomes(c, Idle) /\ ~Reconstructing(Idle)
      BY <1>4, <2>3 DEF Reconstructing
    <3>2. r.target \notin spoiled => replayStates[r.target] # Nothing
      BY <1>1, <1>2, <2>3 DEF Shape, Going
    <3> QED BY <1>1, <1>2, <1>4, <2>1, <3>1, <3>2, Quiet
  <2> QED BY <2>2, <2>3
<1> QED BY <1>3, <1>4 DEF Burn

LEMMA CompareExact ==
  ASSUME IInv, Exactness, NEW c \in Clients, Compare(c)
  PROVE  Exactness'
<1> PICK r : r = request[c]
  OBVIOUS
<1>1. /\ r.phase = "write" /\ r.unwritten = {} /\ UNCHANGED <<block, cache, replayStates, spoiled>>
      /\ Becomes(c, IF Matches(r.tx, r.machine) THEN [r EXCEPT !.phase = "receipt", !.tx = @ + 1]
                    ELSE GivenUp(r))
  BY DEF Compare
<1>2. /\ r \in Request /\ r.machine \in Machine /\ r.target \in 1 .. Len(block) /\ RequestFits(r)
      /\ r.tx \in 1 .. Len(block) /\ block \in Seq(Transactions)
      /\ r.target \notin spoiled =>
           /\ Shape(r, replayStates[r.target])
           /\ CacheRight(r, block, cache[r.target].slots)
           /\ RunRight(r, block)
  BY <1>1, Knows
<1>3. /\ Prior(r) /\ Going(r) /\ r.target # Parent /\ GivenUp(r) \in Request /\ Reconstructing(r)
  BY <1>1, <1>2, TargetIsNoParent, ToTargetFits DEF IInv, Going, Reconstructing, Idle, RequestFits
<1>4. CASE ~Matches(r.tx, r.machine)
  <2> PICK g : g = GivenUp(r)
    OBVIOUS
  <2>1. /\ g.target = r.target /\ g \in Request /\ g # Idle /\ Becomes(c, g)
        /\ r.target \notin spoiled =>
             /\ Shape(g, replayStates[r.target])
             /\ CacheRight(g, block, cache[r.target].slots)
             /\ RunRight(g, block)
    BY <1>1, <1>2, <1>3, <1>4, GivenUpRight, IdleIsNoRequest
  <2> QED BY <1>1, <1>2, <1>3, <2>1, Quiet
<1>5. CASE Matches(r.tx, r.machine)
  <2> PICK n : n = [r EXCEPT !.phase = "receipt", !.tx = @ + 1]
    OBVIOUS
  <2>1. r.tx + 1 \in 1 .. Len(block)
    BY <1>2, <1>3 DEF Prior
  <2>2. /\ n \in Request /\ n.phase = "receipt" /\ n.target = r.target /\ n.tx = r.tx + 1
        /\ n.ref = r.ref /\ n.stateRef = r.stateRef /\ n.exact = r.exact /\ n # Idle /\ Becomes(c, n)
    BY <1>1, <1>2, <1>5, <2>1, IdleIsNoRequest DEF Request, Phases
  <2>3. ASSUME r.target \notin spoiled
        PROVE  /\ Shape(n, replayStates[r.target])
               /\ CacheRight(n, block, cache[r.target].slots)
               /\ RunRight(n, block)
    <3>1. Shape(n, replayStates[r.target])
      BY <1>2, <1>3, <2>2, <2>3 DEF Shape, Going
    <3>2. Done(r.machine, block, r.tx)
      BY <1>1, <1>2, <1>3, <2>3 DEF RunRight, Shape
    <3>3. (r.machine.status = "stop") = (Executed(block[r.tx], Before(block, r.tx)).status = "stop")
      BY <1>2, <1>5, ChainBeforeIs DEF Matches, Receipt
    <3>4. \A s \in Slots :
            Before(block, r.tx + 1)[s] = IF s \in Held(r.machine) THEN r.machine.loaded[s].current
                                         ELSE Before(block, r.tx)[s]
      BY <1>2, <3>2, <3>3, MatchedLeft
    <3> PICK slots : slots = cache[r.target].slots
      OBVIOUS
    <3>5. ASSUME NEW s \in Slots
          PROVE  CellRight(slots, Before(block, r.tx + 1), s)
      <4>1. CASE s \in Held(r.machine)
        <5>1. slots[s] = r.machine.loaded[s].current
          BY <1>1, <1>2, <2>3, <4>1 DEF CacheRight
        <5>2. slots[s] \in Values /\ slots[s] # Nothing
          BY <1>2, <4>1, <5>1, ReplayAssumption DEF Held, Machine, Cell
        <5> QED BY <3>4, <4>1, <5>1, <5>2 DEF CellRight
      <4>2. CASE s \notin Held(r.machine)
        <5>1. CellRight(slots, Before(block, r.tx), s)
          BY <1>1, <1>2, <2>3, <4>2 DEF CacheRight
        <5> QED BY <3>4, <4>2, <5>1 DEF CellRight
      <4> QED BY <4>1, <4>2
    <3>6. CacheRight(n, block, slots)
      BY <2>2, <3>5 DEF CacheRight, Right
    <3>7. RunRight(n, block)
      BY <2>2 DEF RunRight
    <3> QED BY <3>1, <3>6, <3>7
  <2> QED BY <1>1, <1>2, <1>3, <2>2, <2>3, Quiet
<1> QED BY <1>4, <1>5

\* A cell is cached under a reference.
Put(ref, s, v) == [cache EXCEPT ![ref].slots[s] = v]

LEMMA CellPut ==
  ASSUME IInv, NEW ref \in Refs, NEW s \in Slots, NEW v, cache' = Put(ref, s, v)
  PROVE  /\ \A t \in 1 .. Len(block) : t # ref => cache'[t].slots = cache[t].slots
         /\ cache'[ref].slots[s] = v
         /\ \A x \in Slots : x # s => cache'[ref].slots[x] = cache[ref].slots[x]
<1>1. cache \in CacheType /\ 1 .. Len(block) \subseteq Refs
  BY Unpacked, BlockFacts DEF IInv
<1>2. cache[ref].slots \in [Slots -> Values \cup {Nothing}] /\ DOMAIN cache = Refs
  BY <1>1 DEF CacheType
<1>3. cache' = [cache EXCEPT ![ref] = [cache[ref] EXCEPT !.slots = [cache[ref].slots EXCEPT ![s] = v]]]
  BY <1>1, SMTT(30) DEF CacheType, Put
<1>4. cache'[ref].slots = [cache[ref].slots EXCEPT ![s] = v]
  BY <1>1, <1>3, SMTT(30) DEF CacheType
<1>5. \A t \in 1 .. Len(block) : t # ref => cache'[t].slots = cache[t].slots
  BY <1>1, <1>2, <1>3
<1>6. cache'[ref].slots[s] = v /\ \A x \in Slots : x # s => cache'[ref].slots[x] = cache[ref].slots[x]
  BY <1>2, <1>4
<1> QED BY <1>5, <1>6

\* While a reconstruction is going on, nobody else is asking for the same target.
LEMMA Alone ==
  ASSUME IInv, Exactness, NEW c \in Clients, NEW d \in Clients, c # d,
         NEW r \in Request, request[c] = r, NEW q \in Request, request[d] = q,
         q.target = r.target, r.target \notin spoiled, Going(r)
  PROVE  FALSE
<1>1. r # Idle /\ q # Idle
  BY IdleIsNoRequest
<1>2. Shape(r, replayStates[r.target]) /\ Shape(q, replayStates[r.target])
  BY <1>1 DEF Exactness, RequestRight
<1>3. Going(q) \/ q.phase = "code"
  BY <1>2 DEF Shape
<1>4. Reconstructing(r) /\ Reconstructing(q)
  BY <1>1, <1>3 DEF Reconstructing, Going
<1> QED BY <1>4 DEF Exactness, OneReconstructs

LEMMA StoreFetchedExact ==
  ASSUME IInv, RefsAreOwn, Exactness, NEW c \in Clients, StoreFetched(c)
  PROVE  Exactness'
<1> PICK r : r = request[c]
  OBVIOUS
<1> PICK s : s = ThisSlot(r)
  OBVIOUS
<1> PICK m : m = Loaded(r.machine, s, r.fetched)
  OBVIOUS
<1> PICK here : here = r.target
  OBVIOUS
<1>1. /\ r.phase = "fetched" /\ UNCHANGED <<block, replayStates, spoiled>>
      /\ cache' = Put(r.ref, s, r.fetched)
      /\ Becomes(c, [r EXCEPT !.phase = "run", !.machine = m])
  BY DEF StoreFetched, Put
<1>2. /\ r \in Request /\ r.machine \in Machine /\ here \in 1 .. Len(block) /\ RequestFits(r)
      /\ block \in Seq(Transactions) /\ block[r.tx] \in Transactions
      /\ Before(block, r.tx) \in ChainStates
      /\ here \notin spoiled =>
           /\ Shape(r, replayStates[here])
           /\ CacheRight(r, block, cache[here].slots)
           /\ RunRight(r, block)
  BY <1>1, Knows
<1>3. s \in Slots /\ r.fetched = ParentState[s] /\ r.fetched \in Values /\ r.ref \in Refs
      /\ s = block[r.tx].ops[r.machine.next].slot
  BY <1>1, <1>2 DEF RequestFits, Request, ThisSlot
<1>4. m \in Machine
  BY <1>2, <1>3, LoadedIsMachine
<1> PICK n : n = [r EXCEPT !.phase = "run", !.machine = m]
  OBVIOUS
<1>5. /\ n \in Request /\ n.phase = "run" /\ n.target = here /\ n.tx = r.tx /\ n.ref = r.ref
      /\ n.stateRef = r.stateRef /\ n.exact = r.exact /\ n.machine = m /\ n # Idle
      /\ Becomes(c, n)
  BY <1>1, <1>2, <1>4, IdleIsNoRequest DEF Request, Phases
<1>6. /\ Going(n) <=> Going(r)
      /\ Reconstructing(n) => Reconstructing(r)
  BY <1>1, <1>2, <1>5 DEF Going, Prior, Reconstructing, Idle
<1>7. /\ \A t \in 1 .. Len(block) : t # r.ref => cache'[t].slots = cache[t].slots
      /\ cache'[r.ref].slots[s] = r.fetched
      /\ \A x \in Slots : x # s => cache'[r.ref].slots[x] = cache[r.ref].slots[x]
  BY <1>1, <1>3, CellPut
<1>8. here # Parent /\ (here \notin spoiled => r.ref \in {here, Parent})
  BY <1>2, TargetIsNoParent DEF Shape
\* It is the cell the chain has there.
<1>9. ASSUME here \notin spoiled, r.ref = here
      PROVE  r.exact /\ r.fetched = Before(block, r.tx)[s] /\ r.fetched # Nothing
  <2>1. r.exact
    BY <1>2, <1>8, <1>9 DEF Shape
  <2>2. r.fetched = Before(block, r.tx)[s]
    BY <1>1, <1>2, <1>3, <1>9, <2>1 DEF RunRight
  <2> QED BY <1>3, <2>1, <2>2, ReplayAssumption
<1>10. ASSUME here \notin spoiled, NEW state, r.ref = here => state[s] = r.fetched,
              NEW x \in Slots, CellRight(cache[here].slots, state, x)
       PROVE  CellRight(cache'[here].slots, state, x)
  <2>1. CASE r.ref = here
    BY <1>7, <1>9, <1>10, <2>1 DEF CellRight
  <2>2. CASE r.ref # here
    BY <1>2, <1>7, <1>10, <2>2 DEF CellRight
  <2> QED BY <2>1, <2>2
<1>11. ASSUME here \notin spoiled
       PROVE  RequestRight(n)'
  <2>1. Shape(n, replayStates'[here])
    BY <1>1, <1>2, <1>5, <1>6, <1>11 DEF Shape
  <2>2. CacheRight(n, block', cache'[here].slots)
    <3>1. r.ref = here => \A x \in Slots : CellRight(cache[here].slots, Before(block, r.tx), x)
      BY <1>1, <1>2, <1>11 DEF CacheRight, Right
    <3>2. r.ref = here => Right(cache'[here].slots, Before(block, r.tx))
      BY <1>9, <1>10, <1>11, <3>1 DEF Right
    <3> QED BY <1>1, <1>5, <3>2 DEF CacheRight
  <2>3. RunRight(n, block')
    <3> SUFFICES ASSUME r.exact
                 PROVE  Originals(m, Before(block, r.tx)) /\ Tracks(m, block[r.tx], Before(block, r.tx))
      BY <1>1, <1>5 DEF RunRight
    <3>1. r.fetched = Before(block, r.tx)[s]
      BY <1>1, <1>2, <1>3, <1>11 DEF RunRight
    <3>2. Originals(r.machine, Before(block, r.tx)) /\ Tracks(r.machine, block[r.tx], Before(block, r.tx))
      BY <1>1, <1>2, <1>11 DEF RunRight
    <3>3. s \notin Held(r.machine)
      BY <1>1, <1>2, <1>3, <1>11 DEF RunRight
    <3> QED BY <1>2, <1>3, <3>1, <3>2, <3>3, LoadTracks
  <2> QED BY <1>5, <2>1, <2>2, <2>3 DEF RequestRight
<1>12. ASSUME here \notin spoiled, ~Going(r)
       PROVE  r.tx = here /\ replayStates[here] # Nothing /\ (r.ref = here => Before(block, here)[s] = r.fetched)
  BY <1>1, <1>2, <1>9, <1>12 DEF Shape
<1>13. ASSUME here \notin spoiled, NEW q \in Request, NEW d \in Clients \ {c}, request[d] = q,
              q.target = here, RequestRight(q)
       PROVE  RequestRight(q)'
  <2>1. ~Going(r)
    BY <1>2, <1>13, Alone
  <2>2. Shape(q, replayStates[here]) /\ CacheRight(q, block, cache[here].slots) /\ RunRight(q, block)
    BY <1>13, IdleIsNoRequest DEF RequestRight
  <2>3. ~Going(q) /\ q.tx = here
    BY <1>12, <1>13, <2>1, <2>2 DEF Shape
  <2>4. q.phase # "write"
    BY <1>13, <2>3, IdleIsNoRequest DEF IInv, RequestsFit, RequestFits, Going
  <2>5. q.ref = here => Right(cache[here].slots, Before(block, here))
    BY <1>13, <2>2, <2>3, <2>4 DEF CacheRight
  <2>6. q.ref = here => Right(cache'[here].slots, Before(block, here))
    BY <1>10, <1>12, <1>13, <2>1, <2>5 DEF Right
  <2>7. CacheRight(q, block, cache'[here].slots)
    BY <1>13, <2>3, <2>4, <2>6 DEF CacheRight
  <2> QED BY <1>1, <1>13, <2>2, <2>7 DEF RequestRight
<1>14. ASSUME here \notin spoiled
       PROVE  StateRight(here)'
  <2>1. StateRight(here)
    BY <1>2, <1>14 DEF Exactness
  <2>2. CASE replayStates[here] = Nothing
    <3>1. request'[c] = n
      BY <1>5 DEF IInv, TypeOK, Becomes
    <3> QED BY <1>1, <1>5, <2>2, <3>1 DEF StateRight
  <2>3. CASE replayStates[here] # Nothing
    <3>1. ~Going(r)
      BY <1>2, <1>14, <2>3 DEF Shape
    <3>2. Right(cache[here].slots, Before(block, here)) => Right(cache'[here].slots, Before(block, here))
      BY <1>10, <1>12, <1>14, <3>1 DEF Right
    <3> QED BY <1>1, <2>1, <2>3, <3>2 DEF StateRight
  <2> QED BY <2>2, <2>3
<1>15. \A t \in 1 .. Len(block) : t # here => cache'[t].slots = cache[t].slots
  <2>1. r.ref \in {here, Parent}
    BY <1>2, IdleIsNoRequest DEF RefsAreOwn
  <2> QED BY <1>2, <1>7, <2>1, TargetIsNoParent
<1>16. here \notin spoiled' =>
         /\ RequestRight(n)'
         /\ \A q \in Request :
              /\ q.target = here /\ RequestRight(q)
              /\ \E d \in Clients \ {c} : request[d] = q
              => RequestRight(q)'
         /\ StateRight(here)'
  BY <1>1, <1>11, <1>13, <1>14
<1>17. \A t \in 1 .. Len(block) :
         t # r.target => cache'[t].slots = cache[t].slots /\ replayStates'[t] = replayStates[t]
  BY <1>1, <1>15
<1>18. spoiled' \in {spoiled, spoiled \cup {r.target}} /\ n.target = r.target
  BY <1>1, <1>5
<1>19. UNCHANGED block
  BY <1>1
<1>20. /\ request[c] = r /\ r \in Request /\ n \in Request \cup {Idle} /\ Becomes(c, n)
       /\ n # Idle => n.target = r.target
       /\ Reconstructing(n) => Reconstructing(r)
       /\ here = r.target
  BY <1>2, <1>5, <1>6
<1> QED BY <1>16, <1>17, <1>18, <1>19, <1>20, Moved

LEMMA WriteBackExact ==
  ASSUME IInv, RefsAreOwn, Exactness, NEW c \in Clients, NEW s \in Slots, WriteBack(c, s)
  PROVE  Exactness'
<1> PICK r : r = request[c]
  OBVIOUS
<1> PICK here : here = r.target
  OBVIOUS
<1>0. PICK v : v = r.machine.loaded[s].current
  OBVIOUS
<1>1. /\ r.phase = "write" /\ UNCHANGED <<block, replayStates, spoiled>> /\ s \in r.unwritten
      /\ cache' = Put(r.ref, s, v)
      /\ Becomes(c, [r EXCEPT !.unwritten = @ \ {s}])
  BY <1>0 DEF WriteBack, Put
<1>2. /\ r \in Request /\ r.machine \in Machine /\ here \in 1 .. Len(block) /\ RequestFits(r)
      /\ block \in Seq(Transactions)
      /\ here \notin spoiled =>
           /\ Shape(r, replayStates[here])
           /\ CacheRight(r, block, cache[here].slots)
           /\ RunRight(r, block)
  BY <1>1, Knows
<1>3. Prior(r) /\ Going(r) /\ s \in Held(r.machine) /\ r.ref \in Refs
  BY <1>1, <1>2 DEF RequestFits, Going, Request
<1>6. /\ \A t \in 1 .. Len(block) : t # r.ref => cache'[t].slots = cache[t].slots
      /\ cache'[r.ref].slots[s] = v
      /\ \A x \in Slots : x # s => cache'[r.ref].slots[x] = cache[r.ref].slots[x]
  BY <1>1, <1>3, CellPut
<1> PICK n : n = [r EXCEPT !.unwritten = @ \ {s}]
  OBVIOUS
<1>4. /\ n \in Request /\ n.phase = "write" /\ n.target = here /\ n.tx = r.tx /\ n.ref = r.ref
      /\ n.stateRef = r.stateRef /\ n.exact = r.exact /\ n.machine = r.machine /\ n # Idle
      /\ n.unwritten = r.unwritten \ {s} /\ Becomes(c, n)
  <2>1. r.unwritten \ {s} \in SUBSET Slots
    BY <1>2 DEF Request
  <2>2. n \in Request
    BY <1>2, <2>1 DEF Request
  <2>3. /\ n.phase = r.phase /\ n.target = r.target /\ n.tx = r.tx /\ n.ref = r.ref
        /\ n.stateRef = r.stateRef /\ n.exact = r.exact /\ n.machine = r.machine
        /\ n.unwritten = r.unwritten \ {s}
    BY <1>2 DEF Request
  <2>4. Becomes(c, n)
    BY <1>1
  <2> QED BY <1>1, <2>2, <2>3, <2>4, IdleIsNoRequest
<1>5. Going(n) /\ Reconstructing(r) /\ Prior(n)
  BY <1>2, <1>3, <1>4, IdleIsNoRequest DEF Going, Prior, Reconstructing
<1>7. r.ref \in {here, Parent} /\ here # Parent
  BY <1>2, IdleIsNoRequest, TargetIsNoParent DEF RefsAreOwn
<1>8. ASSUME here \notin spoiled PROVE RequestRight(n)'
  <2>1. r.ref = here /\ Shape(n, replayStates[here])
    BY <1>2, <1>3, <1>4, <1>5, <1>8 DEF Shape
  <2> PICK old : old = cache[here].slots
    OBVIOUS
  <2> PICK new : new = cache'[here].slots
    OBVIOUS
  <2>2. new[s] = v /\ \A x \in Slots : x # s => new[x] = old[x]
    BY <1>6, <2>1
  <2>3. \A x \in Slots :
          IF x \in Held(r.machine) \ r.unwritten THEN old[x] = r.machine.loaded[x].current
          ELSE CellRight(old, Before(block, r.tx), x)
    BY <1>1, <1>2, <1>8 DEF CacheRight
  <2>4. ASSUME NEW x \in Slots
        PROVE  IF x \in Held(n.machine) \ n.unwritten THEN new[x] = n.machine.loaded[x].current
               ELSE CellRight(new, Before(block, n.tx), x)
    <3>1. CASE x = s
      BY <1>0, <1>3, <1>4, <2>2, <3>1
    <3>2. CASE x # s
      BY <1>4, <2>2, <2>3, <3>2 DEF CellRight
    <3> QED BY <3>1, <3>2
  <2>5. CacheRight(n, block, new)
    BY <1>4, <2>4 DEF CacheRight
  <2>6. RunRight(n, block)
    BY <1>1, <1>2, <1>3, <1>4, <1>8 DEF RunRight
  <2> QED BY <1>1, <1>4, <2>1, <2>5, <2>6 DEF RequestRight
<1>9. ASSUME here \notin spoiled, NEW q \in Request, NEW d \in Clients \ {c}, request[d] = q,
             q.target = here
      PROVE  RequestRight(q)'
  BY <1>2, <1>3, <1>9, Alone
<1>10. ASSUME here \notin spoiled PROVE StateRight(here)'
  <2>1. replayStates[here] = Nothing
    BY <1>2, <1>3, <1>10 DEF Shape
  <2>2. request'[c] = n
    BY <1>4 DEF IInv, TypeOK, Becomes
  <2> QED BY <1>1, <1>4, <2>1, <2>2 DEF StateRight
<1>11. here \notin spoiled' =>
         /\ RequestRight(n)'
         /\ \A q \in Request :
              /\ q.target = here /\ RequestRight(q)
              /\ \E d \in Clients \ {c} : request[d] = q
              => RequestRight(q)'
         /\ StateRight(here)'
  BY <1>1, <1>8, <1>9, <1>10
<1>12. \A t \in 1 .. Len(block) :
         t # r.target => cache'[t].slots = cache[t].slots /\ replayStates'[t] = replayStates[t]
  BY <1>1, <1>2, <1>6, <1>7, TargetIsNoParent
<1>13. spoiled' \in {spoiled, spoiled \cup {r.target}} /\ n.target = r.target
  BY <1>1, <1>4
<1>14. UNCHANGED block
  BY <1>1
<1>15. /\ request[c] = r /\ r \in Request /\ n \in Request \cup {Idle} /\ Becomes(c, n)
       /\ n # Idle => n.target = r.target
       /\ Reconstructing(n) => Reconstructing(r)
       /\ here = r.target
  BY <1>2, <1>4, <1>5
<1> QED BY <1>11, <1>12, <1>13, <1>14, <1>15, Moved

\* The code is resolved, and the machine is a fresh one; the target's replay state
\* is recorded.
LEMMA PrepareExact ==
  ASSUME IInv, Exactness, NEW c \in Clients, Prepare(c)
  PROVE  Exactness'
<1> PICK r : r = request[c]
  OBVIOUS
<1> PICK here : here = r.target
  OBVIOUS
<1> PICK n : n = [r EXCEPT !.phase = "value", !.machine = Fresh]
  OBVIOUS
<1> PICK rec : rec = [ref |-> r.stateRef, exact |-> r.exact]
  OBVIOUS
<1>1. /\ r.phase = "code" /\ UNCHANGED <<block, spoiled>> /\ Becomes(c, n)
      /\ replayStates' = IF Prior(r) THEN replayStates ELSE [replayStates EXCEPT ![here] = rec]
      /\ cache' = [cache EXCEPT ![r.ref].codes = @ \cup {block[r.tx].to}]
  BY DEF Prepare
<1>2. /\ r \in Request /\ r # Idle /\ here \in 1 .. Len(block) /\ RequestFits(r)
      /\ block \in Seq(Transactions) /\ block[r.tx] \in Transactions
      /\ Before(block, r.tx) \in ChainStates
      /\ here \notin spoiled =>
           /\ Shape(r, replayStates[here])
           /\ CacheRight(r, block, cache[here].slots)
  BY <1>1, Knows
<1>3. \A t \in 1 .. Len(block) : cache'[t].slots = cache[t].slots
  <2>1. r.ref \in Refs
    BY <1>2 DEF Request
  <2> QED BY <1>1, <2>1, CellsStay
<1>4. /\ n \in Request /\ n.phase = "value" /\ n.target = here /\ n.tx = r.tx /\ n.ref = r.ref
      /\ n.stateRef = r.stateRef /\ n.exact = r.exact /\ n.machine = Fresh /\ n # Idle
  <2>1. n \in Request
    BY <1>2, FreshIsMachine DEF Request, Phases
  <2>2. /\ n.phase = "value" /\ n.target = here /\ n.tx = r.tx /\ n.ref = r.ref
        /\ n.stateRef = r.stateRef /\ n.exact = r.exact /\ n.machine = Fresh
    BY <1>2 DEF Request
  <2> QED BY <2>1, <2>2, IdleIsNoRequest
<1>5. /\ Going(n) <=> Prior(r)
      /\ Going(r) <=> Prior(r)
      /\ Reconstructing(r)
  BY <1>1, <1>2, <1>4 DEF Going, Prior, Reconstructing
<1>6. RunRight(n, block)
  <2>1. Originals(Fresh, Before(block, r.tx)) /\ Tracks(Fresh, block[r.tx], Before(block, r.tx))
    BY <1>2, FreshTracks
  <2> QED BY <1>4, <2>1 DEF RunRight
<1>7. ASSUME here \notin spoiled PROVE CacheRight(n, block, cache[here].slots)
  BY <1>1, <1>2, <1>4, <1>7 DEF CacheRight
<1>8. CASE Prior(r)
  <2>1. here \notin spoiled => Shape(n, replayStates[here])
    BY <1>2, <1>4, <1>5, <1>8 DEF Shape
  <2>2. UNCHANGED <<block, replayStates>> /\ spoiled' = spoiled
    BY <1>1, <1>8
  <2> QED BY <1>1, <1>2, <1>3, <1>4, <1>5, <1>6, <1>7, <2>1, <2>2, Quiet
<1>9. CASE ~Prior(r)
  <2>1. replayStates \in [1 .. Len(block) -> [ref: Refs, exact: BOOLEAN] \cup {Nothing}]
    BY Unpacked DEF IInv
  <2>2. /\ replayStates'[here] = rec
        /\ \A t \in 1 .. Len(block) : t # here => replayStates'[t] = replayStates[t]
    BY <1>1, <1>2, <1>9, <2>1
  <2>3. rec.ref = r.stateRef /\ rec.exact = r.exact /\ rec # Nothing
    <3>1. rec \in [ref: Nat, exact: BOOLEAN]
      BY <1>2, BlockFacts DEF IInv, Request
    <3> QED BY <3>1, MarkerAssumption
  <2>4. ASSUME here \notin spoiled PROVE RequestRight(n)'
    <3>1. Shape(n, rec)
      BY <1>2, <1>4, <1>5, <1>9, <2>3, <2>4 DEF Shape
    <3>2. CacheRight(n, block, cache'[here].slots)
      BY <1>2, <1>3, <1>7, <2>4
    <3> QED BY <1>1, <1>4, <1>6, <2>2, <3>1, <3>2 DEF RequestRight
  <2>5. ASSUME here \notin spoiled, NEW q \in Request, NEW d \in Clients \ {c}, request[d] = q,
               q.target = here, RequestRight(q)
        PROVE  RequestRight(q)'
    <3>1. ~Going(q)
      BY <1>2, <2>5, Alone
    <3>2. q # Idle /\ ~Reconstructing(q)
      BY <1>5, <2>5, IdleIsNoRequest DEF Exactness, OneReconstructs
    <3>3. q.phase # "code"
      BY <3>2 DEF Reconstructing
    <3>4. Shape(q, replayStates[here]) /\ CacheRight(q, block, cache[here].slots) /\ RunRight(q, block)
      BY <2>5, <3>2 DEF RequestRight
    <3>5. Shape(q, rec)
      BY <2>3, <3>1, <3>3, <3>4 DEF Shape
    <3>6. CacheRight(q, block, cache'[here].slots)
      BY <1>2, <1>3, <3>4
    <3> QED BY <1>1, <2>2, <2>5, <3>4, <3>5, <3>6 DEF RequestRight
  <2>6. ASSUME here \notin spoiled PROVE StateRight(here)'
    <3>1. /\ r.ref = r.stateRef /\ r.tx = here
          /\ IF r.exact THEN r.ref = here \/ (r.ref = Parent /\ here = 1) ELSE r.ref = Parent
      BY <1>2, <1>5, <1>9, <2>6 DEF Shape
    <3>2. r.ref = here => Right(cache'[here].slots, Before(block, here))
      BY <1>1, <1>2, <1>3, <2>6, <3>1 DEF CacheRight
    <3> QED BY <1>1, <2>2, <2>3, <3>1, <3>2 DEF StateRight
  <2>7. here \notin spoiled' =>
          /\ RequestRight(n)'
          /\ \A q \in Request :
               /\ q.target = here /\ RequestRight(q)
               /\ \E d \in Clients \ {c} : request[d] = q
               => RequestRight(q)'
          /\ StateRight(here)'
    BY <1>1, <2>4, <2>5, <2>6
  <2>8. \A t \in 1 .. Len(block) :
          t # r.target => cache'[t].slots = cache[t].slots /\ replayStates'[t] = replayStates[t]
    BY <1>3, <2>2
  <2>9. /\ request[c] = r /\ r \in Request /\ n \in Request \cup {Idle} /\ Becomes(c, n)
        /\ n # Idle => n.target = r.target
        /\ Reconstructing(n) => Reconstructing(r)
        /\ here = r.target
        /\ spoiled' \in {spoiled, spoiled \cup {r.target}}
        /\ UNCHANGED block
    BY <1>1, <1>2, <1>4, <1>5
  <2> QED BY <2>7, <2>8, <2>9, Moved
<1> QED BY <1>8, <1>9

\* A new request starts from what is known of its target; if nothing is, its synthetic
\* block is empty.
LEMMA AskExact ==
  ASSUME IInv, Exactness, NEW c \in Clients, NEW t \in 1 .. Len(block), Ask(c, t)
  PROVE  Exactness'
<1> PICK known : known = replayStates[t]
  OBVIOUS
<1> PICK r : r = [phase |-> "list", target |-> t, tx |-> 1, ref |-> t,
                  exact |-> known = Nothing \/ known.exact,
                  stateRef |-> IF known = Nothing THEN Parent ELSE known.ref,
                  machine |-> Fresh, unwritten |-> {}, fetched |-> 0]
  OBVIOUS
<1> PICK n : n = (IF known # Nothing \/ t = 1 THEN ToTarget(r) ELSE r)
  OBVIOUS
<1>1. /\ request[c].phase = "idle" /\ Becomes(c, n)
      /\ spoiled' = IF \E d \in Clients : Reconstructing(request[d]) /\ request[d].target = t
                    THEN spoiled \cup {t} ELSE spoiled
      /\ UNCHANGED <<block, cache, replayStates>>
  BY DEF Ask, lookupReplayState
<1>2. /\ request \in [Clients -> Request \cup {Idle}] /\ block \in Seq(Transactions)
      /\ Len(block) \in Nat
      /\ known \in [ref: Refs, exact: BOOLEAN] \cup {Nothing} /\ t # Parent
  BY Unpacked, BlockFacts, TargetIsNoParent DEF IInv
<1>3. request[c] = Idle
  BY <1>1, <1>2 DEF Request, Phases
<1>4. request'[c] = n /\ \A d \in Clients \ {c} : request'[d] = request[d]
  BY <1>1, <1>2 DEF Becomes
<1>5. /\ r.phase = "list" /\ r.target = t /\ r.tx = 1 /\ r.ref = t
      /\ r.exact = (known = Nothing \/ known.exact)
      /\ r.stateRef = IF known = Nothing THEN Parent ELSE known.ref
  OBVIOUS
<1>6. /\ n.target = t /\ n # Idle
      /\ IF known # Nothing \/ t = 1
         THEN n.phase = "code" /\ n.tx = t /\ n.ref = r.stateRef /\ n.stateRef = r.stateRef /\ n.exact = r.exact
         ELSE n = r
  <2>1. CASE known # Nothing \/ t = 1
    <3>1. n = [r EXCEPT !.phase = "code", !.tx = r.target, !.ref = r.stateRef]
      BY <2>1 DEF ToTarget
    <3>2. n.phase = "code" /\ n.tx = r.target /\ n.ref = r.stateRef /\ n.target = r.target
          /\ n.stateRef = r.stateRef /\ n.exact = r.exact
      BY <3>1
    <3> QED BY <1>5, <2>1, <3>2 DEF Idle
  <2>2. CASE ~(known # Nothing \/ t = 1)
    BY <1>5, <2>2 DEF Idle
  <2> QED BY <2>1, <2>2
<1> HIDE <1>5
\* Nobody else is reconstructing the target, unless it is spoiled now.
<1>7. ASSUME t \notin spoiled'
      PROVE  t \notin spoiled /\ \A d \in Clients : Reconstructing(request[d]) => request[d].target # t
  BY <1>1, <1>7
<1>8. spoiled \subseteq spoiled'
  BY <1>1
<1>9. OneReconstructs'
  <2> SUFFICES ASSUME NEW d \in Clients, NEW e \in Clients, d # e,
                      Reconstructing(request'[d]), Reconstructing(request'[e]),
                      request'[d].target = request'[e].target, request'[d].target \notin spoiled'
               PROVE  FALSE
    BY DEF OneReconstructs, Reconstructing, Prior
  <2>1. d # c /\ e # c
    BY <1>4, <1>6, <1>7
  <2> QED BY <1>4, <1>8, <2>1 DEF Exactness, OneReconstructs
<1>10. StateRight(t) \/ t \in spoiled
  BY DEF Exactness
<1>11. ASSUME t \notin spoiled', known = Nothing
       PROVE  \A s \in Slots : cache[t].slots[s] = Nothing
  <2>1. ASSUME NEW d \in Clients, request[d] # Idle, request[d].target = t PROVE FALSE
    <3>1. Shape(request[d], known)
      BY <1>7, <1>11, <2>1 DEF Exactness, RequestRight
    <3>2. Going(request[d]) \/ request[d].phase = "code"
      BY <1>11, <3>1 DEF Shape
    <3>3. Reconstructing(request[d])
      BY <2>1, <3>2 DEF Reconstructing, Going
    <3> QED BY <1>7, <1>11, <2>1, <3>3
  <2> QED BY <1>7, <1>10, <1>11, <2>1 DEF StateRight
<1>12. ASSUME t \notin spoiled' PROVE RequestRight(n)'
  <2>1. CASE known = Nothing /\ t # 1
    <3>1. /\ n.phase = "list" /\ n.target = t /\ n.tx = 1 /\ n.ref = t /\ n.exact
          /\ n.stateRef = Parent
      BY <1>5, <1>6, <2>1
    <3>2. Shape(n, known)
      BY <2>1, <3>1 DEF Shape, Going
    <3>3. Right(cache[t].slots, Before(block, 1))
      BY <1>2, <1>11, <1>12, <2>1, BeforeFacts DEF Right, CellRight
    <3>4. CacheRight(n, block, cache[t].slots)
      BY <3>1, <3>3 DEF CacheRight
    <3>5. RunRight(n, block)
      BY <3>1 DEF RunRight
    <3> QED BY <1>1, <3>1, <3>2, <3>4, <3>5 DEF RequestRight
  <2>2. CASE known # Nothing \/ t = 1
    <3>1. /\ n.phase = "code" /\ n.target = t /\ n.tx = t
          /\ n.stateRef = n.ref
          /\ n.ref = IF known = Nothing THEN Parent ELSE known.ref
          /\ n.exact = (known = Nothing \/ known.exact)
      BY <1>5, <1>6, <2>2
    <3>2. ~Going(n)
      BY <3>1 DEF Going, Prior
    <3>3. RunRight(n, block)
      BY <3>1 DEF RunRight
    <3>4. Shape(n, known) /\ CacheRight(n, block, cache[t].slots)
      <4>1. CASE known = Nothing
        <5>1. t = 1 /\ n.ref = Parent /\ n.exact
          BY <2>2, <3>1, <4>1
        <5>2. Shape(n, known)
          BY <3>1, <3>2, <4>1, <5>1 DEF Shape
        <5>3. CacheRight(n, block, cache[t].slots)
          BY <1>2, <3>1, <5>1 DEF CacheRight
        <5> QED BY <5>2, <5>3
      <4>2. CASE known # Nothing
        <5>1. known = [ref |-> n.stateRef, exact |-> n.exact]
          BY <1>2, <3>1, <4>2
        <5>2. IF n.exact
              THEN \/ n.ref = t /\ Right(cache[t].slots, Before(block, t))
                   \/ n.ref = Parent /\ t = 1
              ELSE n.ref = Parent
          BY <1>7, <1>10, <1>12, <3>1, <4>2 DEF StateRight
        <5>3. Shape(n, known)
          BY <3>1, <3>2, <4>2, <5>1, <5>2, ZenonT(30) DEF Shape
        <5>4. CacheRight(n, block, cache[t].slots)
          BY <1>2, <3>1, <5>2 DEF CacheRight
        <5> QED BY <5>3, <5>4
      <4> QED BY <4>1, <4>2
    <3> QED BY <1>1, <3>1, <3>3, <3>4 DEF RequestRight
  <2> QED BY <2>1, <2>2
<1>13. ASSUME NEW d \in Clients PROVE RequestRight(request[d])'
  <2>1. CASE d = c
    <3>1. CASE t \in spoiled'
      BY <1>4, <1>6, <2>1, <3>1 DEF RequestRight
    <3>2. CASE t \notin spoiled'
      BY <1>4, <1>12, <2>1, <3>2 DEF RequestRight
    <3> QED BY <3>1, <3>2
  <2>2. CASE d # c
    <3> PICK q : q = request[d]
      OBVIOUS
    <3>1. RequestRight(q) /\ q = request'[d]
      BY <1>4, <2>2 DEF Exactness
    <3>2. RequestRight(q)'
      BY <1>1, <1>8, <3>1 DEF RequestRight
    <3> QED BY <3>1, <3>2 DEF RequestRight
  <2> QED BY <2>1, <2>2
<1>14. ASSUME NEW u \in (1 .. Len(block)) \ spoiled' PROVE StateRight(u)'
  <2>1. StateRight(u)
    BY <1>8 DEF Exactness
  <2>2. ASSUME \A d \in Clients : request'[d] = Idle \/ request'[d].target # u
        PROVE  \A d \in Clients : request[d] = Idle \/ request[d].target # u
    BY <1>3, <1>4, <2>2
  <2> QED BY <1>1, <2>1, <2>2 DEF StateRight
<1> QED BY <1>1, <1>9, <1>13, <1>14 DEF Exactness

-----------------------------------------------------------------------------
(* Every step, and the theorems.                                           *)

\* Where a request goes on, or ends.
Follows(r, n) ==
  n # Idle => /\ n.target = r.target
              /\ n.ref \in {r.ref, r.stateRef, r.target}
              /\ n.stateRef \in {r.stateRef, r.target}

LEMMA FollowsKeepsRefs ==
  ASSUME IInv, RefsAreOwn, NEW c \in Clients, request[c].phase # "idle",
         NEW n, Becomes(c, n), Follows(request[c], n), UNCHANGED <<block, replayStates>>
  PROVE  RefsAreOwn'
<1> PICK r : r = request[c]
  OBVIOUS
<1>1. r # Idle
  BY DEF Idle
<1>2. request'[c] = n /\ \A d \in Clients \ {c} : request'[d] = request[d]
  BY DEF Becomes, IInv, TypeOK
<1>3. ASSUME NEW d \in Clients, request'[d] # Idle
      PROVE  /\ request'[d].ref \in {request'[d].target, Parent}
             /\ request'[d].stateRef \in {request'[d].target, Parent}
  <2>1. CASE d = c
    BY <1>1, <1>2, <1>3, <2>1 DEF RefsAreOwn, Follows
  <2>2. CASE d # c
    BY <1>2, <1>3, <2>2 DEF RefsAreOwn
  <2> QED BY <2>1, <2>2
<1> QED BY <1>3 DEF RefsAreOwn, Parent

\* Every other step of a request takes it on, or ends it.
LEMMA StepFollows ==
  ASSUME IInv, NEW c \in Clients,
         \/ ListBlock(c) \/ NextInBlock(c) \/ PrepareFails(c) \/ MoveValue(c) \/ LoadCached(c)
         \/ Fetch(c) \/ StoreFetched(c) \/ Execute(c) \/ Finish(c) \/ Burn(c) \/ Compare(c)
         \/ \E s \in Slots : WriteBack(c, s)
  PROVE  /\ request[c].phase # "idle" /\ UNCHANGED <<block, replayStates>>
         /\ \E n : Becomes(c, n) /\ Follows(request[c], n)
<1> PICK r : r = request[c]
  OBVIOUS
<1>1. r.phase # "idle"
  BY DEF ListBlock, NextInBlock, PrepareFails, MoveValue, LoadCached, Fetch, StoreFetched, Execute,
         Finish, Burn, Compare, WriteBack
<1>2. UNCHANGED <<block, replayStates>>
  BY DEF ListBlock, NextInBlock, PrepareFails, MoveValue, LoadCached, Fetch, StoreFetched, Execute,
         Finish, Burn, Compare, WriteBack
<1>3. r \in Request
  BY <1>1, ActiveRequest
<1>4. Follows(r, Idle)
  BY DEF Follows
<1>5. Follows(r, GivenUp(r))
  BY <1>3 DEF Follows, GivenUp, ToTarget, Request
<1>6. \A p, x : Follows(r, [r EXCEPT !.phase = p]) /\ Follows(r, [r EXCEPT !.machine = x])
  BY <1>3 DEF Follows, Request
<1>7. CASE ListBlock(c)
  BY <1>5, <1>6, <1>7 DEF ListBlock
<1>8. CASE NextInBlock(c)
  <2>1. Follows(r, ToTarget([r EXCEPT !.stateRef = r.target]))
    <3>0. PICK q : q = [r EXCEPT !.stateRef = r.target]
      OBVIOUS
    <3>1. q \in Request
      BY <1>3, <3>0 DEF Request, Refs
    <3>2. q.stateRef = r.target /\ q.target = r.target
      BY <1>3, <3>0 DEF Request
    <3>3. PICK n : n = ToTarget(q)
      OBVIOUS
    <3>4. n.target = r.target /\ n.ref = r.target /\ n.stateRef = r.target
      BY <3>1, <3>2, <3>3 DEF ToTarget, Request
    <3>5. Follows(r, n)
      BY <3>4 DEF Follows
    <3> QED BY <3>0, <3>3, <3>5
  <2> QED BY <1>5, <1>6, <1>8, <2>1 DEF NextInBlock
<1>9. CASE PrepareFails(c)
  BY <1>4, <1>5, <1>9 DEF PrepareFails
<1>10. CASE MoveValue(c)
  BY <1>4, <1>6, <1>10 DEF MoveValue, LoadAccount, AccountPanics
<1>11. CASE LoadCached(c) \/ Execute(c)
  BY <1>6, <1>11 DEF LoadCached, Execute
<1>12. CASE Fetch(c)
  <2>1. \A v : Follows(r, [r EXCEPT !.phase = "fetched", !.fetched = v])
    BY <1>3 DEF Follows, Request
  <2> QED BY <1>6, <1>12, <2>1 DEF Fetch
<1>13. CASE StoreFetched(c) \/ Finish(c)
  <2>1. \A p, m : Follows(r, [r EXCEPT !.phase = p, !.machine = m])
    BY <1>3 DEF Follows, Request
  <2> QED BY <1>13, <2>1 DEF StoreFetched, Finish
<1>14. CASE Burn(c)
  <2>1. \A w : Follows(r, [r EXCEPT !.phase = "write", !.unwritten = w])
    BY <1>3 DEF Follows, Request
  <2> QED BY <1>4, <1>14, <2>1 DEF Burn, AccountPanics
<1>15. CASE Compare(c)
  <2>1. \A x : Follows(r, [r EXCEPT !.phase = "receipt", !.tx = x])
    BY <1>3 DEF Follows, Request
  <2> QED BY <1>5, <1>15, <2>1 DEF Compare
<1>16. CASE \E s \in Slots : WriteBack(c, s)
  <2>1. \A w : Follows(r, [r EXCEPT !.unwritten = w])
    BY <1>3 DEF Follows, Request
  <2> QED BY <1>16, <2>1 DEF WriteBack
<1>17. \E n : Becomes(c, n) /\ Follows(r, n)
  BY <1>7, <1>8, <1>9, <1>10, <1>11, <1>12, <1>13, <1>14, <1>15, <1>16
<1> QED BY <1>1, <1>2, <1>17

LEMMA RefsStayOwn ==
  ASSUME IInv, RefsAreOwn, [Next]_vars
  PROVE  RefsAreOwn'
<1>1. CASE UNCHANGED vars
  BY <1>1 DEF vars, RefsAreOwn, Parent
<1>2. CASE Served
  BY <1>2 DEF Served, vars, RefsAreOwn, Parent
<1>3. ASSUME NEW c \in Clients, NEW t \in 1 .. Len(block), Ask(c, t) PROVE RefsAreOwn'
  <2> PICK known : known = replayStates[t]
    OBVIOUS
  <2> PICK r : r = [phase |-> "list", target |-> t, tx |-> 1, ref |-> t,
                    exact |-> known = Nothing \/ known.exact,
                    stateRef |-> IF known = Nothing THEN Parent ELSE known.ref,
                    machine |-> Fresh, unwritten |-> {}, fetched |-> 0]
    OBVIOUS
  <2> PICK n : n = (IF known # Nothing \/ t = 1 THEN ToTarget(r) ELSE r)
    OBVIOUS
  <2>1. Becomes(c, n) /\ UNCHANGED <<block, replayStates>>
    BY <1>3 DEF Ask, lookupReplayState
  <2>2. r.stateRef \in {t, Parent} /\ r.ref = t /\ r.target = t
    BY DEF RefsAreOwn
  <2>3. n.ref \in {t, Parent} /\ n.stateRef \in {t, Parent} /\ n.target = t
    BY <2>2 DEF ToTarget
  <2>4. request'[c] = n /\ \A d \in Clients \ {c} : request'[d] = request[d]
    BY <2>1 DEF Becomes, IInv, TypeOK
  <2> HIDE DEF RefsAreOwn
  <2>5. ASSUME NEW d \in Clients, request'[d] # Idle
        PROVE  /\ request'[d].ref \in {request'[d].target, Parent}
               /\ request'[d].stateRef \in {request'[d].target, Parent}
    <3>1. CASE d = c
      BY <2>3, <2>4, <3>1
    <3>2. CASE d # c
      BY <2>4, <2>5, <3>2 DEF RefsAreOwn
    <3> QED BY <3>1, <3>2
  <2> QED BY <2>1, <2>5 DEF RefsAreOwn, Parent
<1>4. ASSUME NEW c \in Clients, Prepare(c) PROVE RefsAreOwn'
  <2> PICK r : r = request[c]
    OBVIOUS
  <2> PICK n : n = [r EXCEPT !.phase = "value", !.machine = Fresh]
    OBVIOUS
  <2>1. /\ r.phase = "code" /\ UNCHANGED block /\ Becomes(c, n)
        /\ replayStates' = IF Prior(r) THEN replayStates
                           ELSE [replayStates EXCEPT ![r.target] = [ref |-> r.stateRef, exact |-> r.exact]]
    BY <1>4 DEF Prepare
  <2>2. r \in Request /\ r # Idle /\ r.target \in 1 .. Len(block)
    BY <2>1, Knows, ActiveRequest, IdleIsNoRequest DEF Request
  <2>3. n.ref = r.ref /\ n.stateRef = r.stateRef /\ n.target = r.target
    BY <2>2 DEF Request
  <2>4. request'[c] = n /\ \A d \in Clients \ {c} : request'[d] = request[d]
    BY <2>1 DEF Becomes, IInv, TypeOK
  <2>5. r.ref \in {r.target, Parent} /\ r.stateRef \in {r.target, Parent}
    BY <2>2 DEF RefsAreOwn
  <2>6. ASSUME NEW d \in Clients, request'[d] # Idle
        PROVE  /\ request'[d].ref \in {request'[d].target, Parent}
               /\ request'[d].stateRef \in {request'[d].target, Parent}
    <3>1. CASE d = c
      BY <2>3, <2>4, <2>5, <3>1
    <3>2. CASE d # c
      BY <2>4, <2>6, <3>2 DEF RefsAreOwn
    <3> QED BY <3>1, <3>2
  <2>7. ASSUME NEW t \in 1 .. Len(block), replayStates'[t] # Nothing
        PROVE  replayStates'[t].ref \in {t, Parent}
    <3>1. replayStates \in [1 .. Len(block) -> [ref: Refs, exact: BOOLEAN] \cup {Nothing}]
      BY Unpacked DEF IInv
    <3>2. CASE ~Prior(r) /\ t = r.target
      BY <2>1, <2>5, <3>1, <3>2
    <3>3. CASE Prior(r) \/ t # r.target
      BY <2>1, <2>7, <3>1, <3>3 DEF RefsAreOwn
    <3> QED BY <3>2, <3>3
  <2> QED BY <2>1, <2>6, <2>7 DEF RefsAreOwn, Parent
<1>5. ASSUME NEW c \in Clients,
             \/ ListBlock(c) \/ NextInBlock(c) \/ PrepareFails(c) \/ MoveValue(c) \/ LoadCached(c)
             \/ Fetch(c) \/ StoreFetched(c) \/ Execute(c) \/ Finish(c) \/ Burn(c) \/ Compare(c)
             \/ \E s \in Slots : WriteBack(c, s)
      PROVE  RefsAreOwn'
  BY <1>5, StepFollows, FollowsKeepsRefs
<1> QED BY <1>1, <1>2, <1>3, <1>4, <1>5 DEF Next

\* The invariant of exactness with the two it rests on.
Exactly == IInv /\ RefsAreOwn /\ Exactness

LEMMA InitExactly == Init => Exactly
<1> SUFFICES ASSUME Init PROVE Exactly
  OBVIOUS
<1>1. IInv
  BY InitIInv
<1>2. /\ \A c \in Clients : request[c] = Idle
      /\ \A t \in 1 .. Len(block) : replayStates[t] = Nothing
      /\ \A t \in Refs, s \in Slots : cache[t].slots[s] = Nothing
  BY DEF Init, EmptyRef
<1>3. 1 .. Len(block) \subseteq Refs
  BY <1>1, BlockFacts DEF IInv
<1>4. RefsAreOwn
  BY <1>2 DEF RefsAreOwn
<1>5. Exactness
  <2>1. OneReconstructs
    BY <1>2 DEF OneReconstructs, Reconstructing
  <2>2. \A c \in Clients : RequestRight(request[c])
    BY <1>2 DEF RequestRight
  <2>3. \A t \in (1 .. Len(block)) \ spoiled : StateRight(t)
    BY <1>2, <1>3 DEF StateRight
  <2> QED BY <2>1, <2>2, <2>3 DEF Exactness
<1> QED BY <1>1, <1>4, <1>5 DEF Exactly

LEMMA NextExactly == Exactly /\ [Next]_vars => Exactly'
<1> SUFFICES ASSUME Exactly, [Next]_vars PROVE Exactly'
  OBVIOUS
<1>1. IInv /\ RefsAreOwn /\ Exactness
  BY DEF Exactly
<1>2. IInv' /\ RefsAreOwn'
  BY <1>1, NextIInv, RefsStayOwn
<1>3. CASE UNCHANGED <<block, cache, replayStates, request, spoiled>>
  <2>1. OneReconstructs'
    BY <1>1, <1>3 DEF Exactness, OneReconstructs, Reconstructing, Prior
  <2>2. ASSUME NEW c \in Clients PROVE RequestRight(request[c])'
    BY <1>1, <1>3, <2>2 DEF Exactness, RequestRight
  <2>3. ASSUME NEW t \in (1 .. Len(block)) \ spoiled PROVE StateRight(t)'
    BY <1>1, <1>3, <2>3 DEF Exactness, StateRight
  <2>4. Exactness'
    BY <1>3, <2>1, <2>2, <2>3 DEF Exactness
  <2> QED BY <1>2, <2>4 DEF Exactly
<1>4. CASE UNCHANGED vars
  BY <1>3, <1>4 DEF vars
<1>5. CASE Served
  BY <1>3, <1>5 DEF Served, vars
<1>6. ASSUME NEW c \in Clients, NEW t \in 1 .. Len(block), Ask(c, t) PROVE Exactness'
  BY <1>1, <1>6, AskExact
<1>7. ASSUME NEW c \in Clients, ListBlock(c) \/ NextInBlock(c) \/ Prepare(c) \/ PrepareFails(c)
      PROVE  Exactness'
  BY <1>1, <1>7, ListBlockExact, NextInBlockExact, PrepareExact, PrepareFailsExact
<1>8. ASSUME NEW c \in Clients, MoveValue(c) \/ LoadCached(c) \/ Fetch(c) \/ StoreFetched(c) \/ Execute(c)
      PROVE  Exactness'
  BY <1>1, <1>8, MoveValueExact, LoadCachedExact, FetchExact, StoreFetchedExact, ExecuteExact
<1>9. ASSUME NEW c \in Clients, Finish(c) \/ Burn(c) \/ Compare(c) PROVE Exactness'
  BY <1>1, <1>9, FinishExact, BurnExact, CompareExact
<1>10. ASSUME NEW c \in Clients, NEW s \in Slots, WriteBack(c, s) PROVE Exactness'
  BY <1>1, <1>10, WriteBackExact
<1>11. CASE Next /\ ~Served
  <2>1. Exactness'
    BY <1>6, <1>7, <1>8, <1>9, <1>10, <1>11 DEF Next
  <2> QED BY <1>2, <2>1 DEF Exactly
<1> QED BY <1>4, <1>5, <1>11

\* The invariant of exactness holds in every reachable state.
THEOREM ExactInvariance == Spec => []Exactly
<1>1. Init => Exactly
  BY InitExactly
<1>2. Exactly /\ [Next]_vars => Exactly'
  BY NextExactly
<1> QED BY <1>1, <1>2, PTL DEF Spec

\* A replay that says it is exact starts from the state the chain had before its target,
\* for every block, value of the cells, number of clients and interleaving of their
\* requests, whichever upstream requests fail: unless its synthetic block was spoiled
\* (engine.go reconstructPriorTransactions, replay_trace.go CompareReplayToReceipt).
THEOREM ExactReplaysStartRight == Spec => []ExactUnlessSpoiled
<1>1. ASSUME Exactly PROVE ExactUnlessSpoiled
  <2> SUFFICES ASSUME NEW c \in Clients, request[c] # Idle, request[c].exact,
                      request[c].target \notin spoiled
               PROVE  StartsRight(request[c])
    BY DEF ExactUnlessSpoiled
  <2> PICK r : r = request[c]
    OBVIOUS
  <2> SUFFICES ASSUME ~Prior(r), r.phase \in {"run", "burn"}, NEW s \in Held(r.machine)
               PROVE  r.machine.loaded[s].original = ChainBefore[r.target][s]
    BY DEF StartsRight
  <2>1. IInv /\ Exactness
    BY <1>1 DEF Exactly
  <2>2. /\ r.target \in 1 .. Len(block)
        /\ Shape(r, replayStates[r.target]) /\ RunRight(r, block)
    BY <2>1, Knows
  <2>3. r.tx = r.target
    BY <2>2 DEF Shape, Going
  <2>4. Originals(r.machine, Before(block, r.target))
    BY <2>2, <2>3 DEF RunRight
  <2> QED BY <2>2, <2>4, ChainBeforeIs DEF Originals
<1> QED BY <1>1, ExactInvariance, PTL

\* What is remembered of a transaction is final, unless its synthetic block was spoiled:
\* the commands of a debug session replay one and the same run (replay.go
\* prepareReplayState).
THEOREM ReplayStatesAreFinal == Spec => ReplayStateIsFinal
<1>1. ASSUME Exactly, [Next]_vars, NEW t \in DOMAIN replayStates,
             replayStates[t] # Nothing, t \notin spoiled
      PROVE  replayStates'[t] = replayStates[t]
  <2>1. IInv /\ Exactness /\ t \in 1 .. Len(block)
    BY <1>1 DEF Exactly, IInv, TypeOK
  <2>2. CASE \E c \in Clients : Prepare(c)
    <3> PICK c \in Clients : Prepare(c)
      BY <2>2
    <3> PICK r : r = request[c]
      OBVIOUS
    <3>1. /\ r.phase = "code"
          /\ replayStates' = IF Prior(r) THEN replayStates
                             ELSE [replayStates EXCEPT ![r.target] = [ref |-> r.stateRef, exact |-> r.exact]]
      BY DEF Prepare
    <3>2. CASE Prior(r) \/ t # r.target
      BY <1>1, <3>1, <3>2
    <3>3. CASE ~Prior(r) /\ t = r.target
      <4>1. Shape(r, replayStates[t])
        BY <1>1, <2>1, <3>1, <3>3, Knows
      <4>2. replayStates[t] = [ref |-> r.stateRef, exact |-> r.exact]
        BY <1>1, <3>1, <3>3, <4>1 DEF Shape, Going
      <4> QED BY <1>1, <3>1, <3>3, <4>2
    <3> QED BY <3>2, <3>3
  <2>3. CASE ~\E c \in Clients : Prepare(c)
    <3>1. UNCHANGED replayStates
      BY <1>1, <2>1, <2>3, StepFollows DEF Next, Served, vars, Ask
    <3> QED BY <3>1
  <2> QED BY <2>2, <2>3
<1>2. Exactly /\ [Next]_vars =>
        [\A t \in DOMAIN replayStates :
           replayStates[t] # Nothing /\ t \notin spoiled => replayStates'[t] = replayStates[t]]_vars
  BY <1>1
<1> QED BY <1>2, ExactInvariance, PTL DEF Spec, ReplayStateIsFinal
=============================================================================
