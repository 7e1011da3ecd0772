----------------------------- MODULE MessageCall -----------------------------
(***************************************************************************)
(* One run of the engine: SimpleEngine.Run, and the message calls and      *)
(* contract creations the running bytecode makes (EVM.ExecuteMessage,      *)
(* opCallCommon, opCreate), each in a frame of its own.                    *)
(*                                                                         *)
(* The bytecode is abstract: the innermost frame takes any step its        *)
(* opcodes could take.  What is concrete is what the Go code does about    *)
(* it: which snapshots it takes and gives back, who pays and gets back     *)
(* gas, what is refused in a static context, what happens to logs, and in  *)
(* which order.                                                            *)
(***************************************************************************)
EXTENDS Integers, Sequences, FiniteSets, Functions

CONSTANTS
  Addr,          \* the accounts
  Caller,        \* the sender of the run (ExecutionConfig.Caller)
  Entry,         \* the contract the run executes (ContractAddress)
  Coinbase,      \* the account the base fee is burnt from
  Contracts,     \* the accounts that have code when the run starts
  Precompiles,   \* the accounts the precompile registry resolves
  Creatable,     \* the addresses CREATE and CREATE2 may derive
  InitBalance,   \* the balances when the run starts
  Values,        \* the amounts a message may carry
  StoreVals,     \* the values SSTORE and TSTORE may write
  CallKinds,     \* the CALL-family opcodes the bytecode uses
  Costs,         \* the gas an opcode may charge; {}: the bytecode lacks it
  PrecompileCosts,  \* the gas a precompile may require
  GasLimits,     \* the gas limits a run may be given
  GasRequests,   \* the gas operands of CALL-family opcodes
  CallDivisor,   \* 64 in maxMessageCallGas
  CallStipend,   \* GasCallStipend
  CallValueGas,  \* GasCallValue
  NewAccountGas, \* GasNewAccount
  DepositGas,    \* gas charged for storing deployed code
  IntrinsicGas,  \* intrinsicTxGas of the run's input
  BaseFee,       \* the block's base fee
  MaxDepth       \* 1024 in ExecuteMessage

OpNames == {"SSTORE", "TSTORE", "LOG", "CALL", "CREATE", "SELFDESTRUCT", "PLAIN"}

Positive == Nat \ {0}

ASSUME AddrAssumption ==
  /\ IsFiniteSet(Addr)
  /\ Caller \in Addr /\ Entry \in Addr /\ Coinbase \in Addr
  /\ Contracts \subseteq Addr /\ Precompiles \subseteq Addr /\ Creatable \subseteq Addr
  /\ Creatable \cap (Contracts \cup Precompiles) = {}
  /\ InitBalance \in [Addr -> Nat]

ASSUME ProgramAssumption ==
  /\ Values \subseteq Nat
  /\ 0 \in StoreVals
  /\ CallKinds \subseteq {"CALL", "CALLCODE", "DELEGATECALL", "STATICCALL"}

\* Every opcode that lets the frame go on charges some gas (GasCosts, gas.go).
ASSUME GasAssumption ==
  /\ Costs \in [OpNames -> SUBSET Positive]
  /\ PrecompileCosts \subseteq Nat
  /\ GasLimits \subseteq Positive
  /\ GasRequests \subseteq Nat
  /\ CallDivisor \in Positive
  /\ CallStipend \in Nat /\ CallValueGas \in Nat /\ NewAccountGas \in Nat
  /\ DepositGas \in Nat /\ IntrinsicGas \in Nat /\ BaseFee \in Nat
  /\ MaxDepth \in Positive

\* 2300 <= 9000: a value transfer pays for the stipend it hands out.
ASSUME StipendAssumption == CallStipend <= CallValueGas

VARIABLES
  acct,       \* MutableAccountState: balance, nonce, code, exists, deleted
  acctSnaps,  \* its stack of snapshots
  slots,      \* Storage: one slot per account
  slotSnaps,  \* its stack of snapshots
  transient,  \* TransientStorage, shared by all frames and never snapshotted
  frames,     \* the Go call stack of EVM.Run activations, innermost last
  phase,      \* "idle", "running", "settling", "done"
  outcome,    \* the ExecutionResult
  reported,   \* how the last frame to end was reported: the word CALL or CREATE
              \* pushes, or the Status of the result
  burned,     \* history: what applyBaseFeeBurn took
  emitted,    \* history: how many logs were emitted; a log is its number
  dropped     \* history: the logs of frames that failed

world == <<acct, slots>>
snaps == <<acctSnaps, slotSnaps>>
history == <<burned, emitted, dropped>>
vars == <<acct, acctSnaps, slots, slotSnaps, transient, frames, phase, outcome, reported, history>>

Account == [balance: Int, nonce: Nat, code: BOOLEAN, exists: BOOLEAN, deleted: BOOLEAN]
Accounts == [Addr -> Account]
Slots == [Addr -> StoreVals]

NoRevision == -1

Frame == [addr: Addr,              \* Contract().Address()
          static: BOOLEAN,         \* Contract().IsStatic()
          kind: {"root", "call", "create"},
          given: Nat,              \* msg.Gas
          gas: Nat,                \* the frame's gas meter
          accRev: Nat \cup {NoRevision},   \* accSnap, stoSnap: the revisions
          stoRev: Nat \cup {NoRevision},   \* a failure reverts to
          logs: Seq(Nat)]

Outcome == [limit: Nat, gas: Nat, logs: Seq(Nat)]

-----------------------------------------------------------------------------
(* The two stores: Snapshot appends a copy; RevertToSnapshot ignores a     *)
(* revision it does not know, else restores the copy and forgets it and    *)
(* all later ones.                                                         *)

\* Variant with a bug: the newest snapshot instead of the one asked for.
RestoredNewest(stack, current, rev) ==
  IF rev \in 0 .. Len(stack) - 1 THEN stack[Len(stack)] ELSE current

Restored(stack, current, rev) ==
  IF rev \in 0 .. Len(stack) - 1 THEN stack[rev + 1] ELSE current

\* Variant with a bug: truncating one revision too many.
TruncatedTooFar(stack, rev) ==
  IF rev \in 0 .. Len(stack) - 1 THEN SubSeq(stack, 1, rev - 1) ELSE stack

Truncated(stack, rev) ==
  IF rev \in 0 .. Len(stack) - 1 THEN SubSeq(stack, 1, rev) ELSE stack

Debit(accts, a, v) == [accts EXCEPT ![a].balance = @ - v, ![a].exists = TRUE]
Credit(accts, a, v) == [accts EXCEPT ![a].balance = @ + v, ![a].exists = TRUE]

Transfer(accts, from, to, v) ==
  IF v = 0 THEN accts ELSE Credit(Debit(accts, from, v), to, v)

IncrementNonce(accts, a) == [accts EXCEPT ![a].nonce = @ + 1, ![a].exists = TRUE]

SetCode(accts, a, code) == [accts EXCEPT ![a].code = code, ![a].exists = TRUE]

IsEmpty(a) == acct[a].balance = 0 /\ acct[a].nonce = 0 /\ ~acct[a].code

HasCodeOrNonce(a) == acct[a].nonce > 0 \/ acct[a].code

\* Variants with a bug: no nonce for the target (EIP-161); created although
\* it exists.
CreateAccountNoNonce(accts, a) ==
  [accts EXCEPT ![a].balance = IF accts[a].exists THEN @ ELSE 0, ![a].exists = TRUE]

CreateAccountAnew(accts, a) ==
  [accts EXCEPT ![a].balance = 0,
                ![a].nonce = IF @ = 0 /\ ~accts[a].code THEN 1 ELSE @,
                ![a].exists = TRUE]

\* What ExecuteMessage does to the target of a creation before the transfer.
CreateAccount(accts, a) ==
  [accts EXCEPT ![a].balance = IF accts[a].exists THEN @ ELSE 0,
                ![a].nonce = IF @ = 0 /\ ~accts[a].code THEN 1 ELSE @,
                ![a].exists = TRUE]

-----------------------------------------------------------------------------
(* Gas: EIP-150's all-but-one-64th.                                        *)

maxMessageCallGas(gas) == gas - gas \div CallDivisor

callGas(available, requested) ==
  LET max == maxMessageCallGas(available) IN IF requested > max THEN max ELSE requested

-----------------------------------------------------------------------------
(* Frames.                                                                 *)

top == frames[Len(frames)]
Callers == SubSeq(frames, 1, Len(frames) - 1)

Executing == phase = "running" /\ Len(frames) > 0

WithGas(stack, gas) == [stack EXCEPT ![Len(stack)].gas = gas]

NewFrame(addr, static, kind, gas, accRev, stoRev) ==
  [addr |-> addr, static |-> static, kind |-> kind, given |-> gas, gas |-> gas,
   accRev |-> accRev, stoRev |-> stoRev, logs |-> <<>>]

\* Variant with a bug: the callee's logs put before the caller's.
ResumedLogsFirst(returned, logs) ==
  [Callers EXCEPT ![Len(Callers)].gas = @ + returned,
                  ![Len(Callers)].logs = logs \o @]

\* The caller's frame after its callee ended: unused gas returned, logs merged.
Resumed(returned, logs) ==
  [Callers EXCEPT ![Len(Callers)].gas = @ + returned,
                  ![Len(Callers)].logs = @ \o logs]

TakeSnapshots ==
  /\ acctSnaps' = Append(acctSnaps, acct)
  /\ slotSnaps' = Append(slotSnaps, slots)

RevertSnapshots(frame) ==
  /\ acct' = Restored(acctSnaps, acct, frame.accRev)
  /\ slots' = Restored(slotSnaps, slots, frame.stoRev)
  /\ acctSnaps' = Truncated(acctSnaps, frame.accRev)
  /\ slotSnaps' = Truncated(slotSnaps, frame.stoRev)

-----------------------------------------------------------------------------
(* The run starts: applyTopLevelCallValue.  Without a value to transfer it *)
(* takes no snapshot.                                                      *)

MovesValue(value) == value # 0 /\ Caller # Entry

\* Nothing checks that a static run carries no value: the model assumes it of
\* whoever sets up the ExecutionConfig.
Begin(limit, value, static) ==
  /\ phase = "idle"
  /\ static => value = 0
  /\ MovesValue(value) => value <= acct[Caller].balance
  /\ phase' = "running"
  /\ IF MovesValue(value)
     THEN /\ TakeSnapshots
          /\ acct' = Transfer(acct, Caller, Entry, value)
          /\ frames' = <<NewFrame(Entry, static, "root", limit,
                                  Len(acctSnaps), Len(slotSnaps))>>
     ELSE /\ frames' = <<NewFrame(Entry, static, "root", limit, NoRevision, NoRevision)>>
          /\ UNCHANGED <<acct, snaps>>
  /\ outcome' = [outcome EXCEPT !.limit = limit]
  /\ UNCHANGED <<slots, transient, reported, history>>

BeginRefused(limit, value) ==
  /\ phase = "idle"
  /\ MovesValue(value) /\ value > acct[Caller].balance
  /\ phase' = "done"
  /\ outcome' = [limit |-> limit, gas |-> limit, logs |-> <<>>]
  /\ reported' = "failure"
  /\ UNCHANGED <<world, snaps, transient, frames, history>>

-----------------------------------------------------------------------------
(* Opcodes of the innermost frame that start no other frame.  An opcode    *)
(* that cannot go on (not enough gas, write protection, stack underflow, a *)
(* hook that halts) ends the frame: see FrameFails.                        *)

Charge(cost) == cost <= top.gas /\ frames' = WithGas(frames, top.gas - cost)

Plain ==
  /\ Executing
  /\ \E cost \in Costs["PLAIN"] : Charge(cost)
  /\ UNCHANGED <<world, snaps, transient, phase, outcome, reported, history>>

Sstore(value) ==
  /\ Executing
  /\ ~top.static
  /\ top.gas > CallStipend
  /\ \E cost \in Costs["SSTORE"] : Charge(cost)
  /\ slots' = [slots EXCEPT ![top.addr] = value]
  /\ UNCHANGED <<acct, snaps, transient, phase, outcome, reported, history>>

Tstore(value) ==
  /\ Executing
  /\ ~top.static
  /\ \E cost \in Costs["TSTORE"] : Charge(cost)
  /\ transient' = [transient EXCEPT ![top.addr] = value]
  /\ UNCHANGED <<world, snaps, phase, outcome, reported, history>>

\* opLog has no write-protection test: a static frame may log.
EmitLog ==
  /\ Executing
  /\ \E cost \in Costs["LOG"] :
       /\ cost <= top.gas
       /\ frames' = [frames EXCEPT ![Len(frames)].gas = @ - cost,
                                   ![Len(frames)].logs = Append(@, emitted + 1)]
  /\ emitted' = emitted + 1
  /\ UNCHANGED <<world, snaps, transient, phase, outcome, reported, burned, dropped>>

\* SELFDESTRUCT moves the balance, marks the account, and the frame goes on.
Selfdestruct(heir) ==
  /\ Executing
  /\ ~top.static
  /\ \E cost \in Costs["SELFDESTRUCT"] : Charge(cost)
  /\ LET moved == IF heir = top.addr THEN acct
                  ELSE Transfer(acct, top.addr, heir, acct[top.addr].balance)
     IN acct' = [moved EXCEPT ![top.addr].deleted = TRUE]
  /\ UNCHANGED <<slots, snaps, transient, phase, outcome, reported, history>>

-----------------------------------------------------------------------------
(* The CALL family: opCallCommon and ExecuteMessage.                       *)

Calls == {m \in [kind: CallKinds, target: Addr, value: Values,
                 access: Costs["CALL"], want: GasRequests] :
            m.value > 0 => m.kind \in {"CALL", "CALLCODE"}}

Callee(m) == IF m.kind \in {"CALLCODE", "DELEGATECALL"} THEN top.addr ELSE m.target

\* Variant with a bug: no charge for the access to the account.
OverheadNoAccess(m) ==
  (IF m.value > 0 THEN CallValueGas ELSE 0)
  + (IF m.value > 0 /\ IsEmpty(m.target) THEN NewAccountGas ELSE 0)

Overhead(m) ==
  m.access + (IF m.value > 0 THEN CallValueGas ELSE 0)
           + (IF m.value > 0 /\ IsEmpty(m.target) THEN NewAccountGas ELSE 0)

Forwarded(m) == callGas(top.gas - Overhead(m), m.want)

\* Variant with a bug: the stipend added to every call.
ChildGasAlwaysStipend(m) == Forwarded(m) + CallStipend

ChildGas(m) == Forwarded(m) + (IF m.value > 0 THEN CallStipend ELSE 0)

\* Variant with a bug: no test that the overhead is affordable.
MayCallUnpaid(m) == Executing /\ (m.value > 0 => ~top.static)

MayCall(m) ==
  /\ Executing
  /\ m.value > 0 => ~top.static
  /\ Overhead(m) <= top.gas

\* Variant with a bug: only the opcode's own static flag.
ChildStaticForgotten(m) == m.kind = "STATICCALL"

\* The callee's IsStatic: a static context is inherited whatever the opcode.
ChildStatic(m) == m.kind = "STATICCALL" \/ top.static

\* The caller's meter once ConsumeGas(extraGas + chargedChildGas) succeeded.
GasDuringCall(m) == top.gas - Overhead(m) - Forwarded(m)

Accepted(value) ==
  /\ Len(frames) < MaxDepth
  /\ value <= acct[top.addr].balance

\* Depth or balance: no snapshot is taken and all the child's gas comes back.
CallRefused(m) ==
  /\ MayCall(m)
  /\ ~Accepted(m.value)
  /\ frames' = WithGas(frames, GasDuringCall(m) + ChildGas(m))
  /\ UNCHANGED <<world, snaps, transient, phase, outcome, reported, history>>

IsLeaf(m) == m.target \in Precompiles \/ ~acct[m.target].code

\* A precompile that succeeds, or an account without code: the snapshots
\* stay, for nobody discards a snapshot that is no longer needed.
CallLeaf(m) ==
  /\ MayCall(m)
  /\ Accepted(m.value)
  /\ IsLeaf(m)
  /\ \E cost \in IF m.target \in Precompiles THEN PrecompileCosts ELSE {0} :
       /\ cost <= ChildGas(m)
       /\ frames' = WithGas(frames, GasDuringCall(m) + ChildGas(m) - cost)
  /\ TakeSnapshots
  /\ acct' = Transfer(acct, top.addr, Callee(m), m.value)
  /\ UNCHANGED <<slots, transient, phase, outcome, reported, history>>

\* A precompile that fails: its snapshots are reverted to at once.
CallLeafFails(m) ==
  /\ MayCall(m)
  /\ Accepted(m.value)
  /\ m.target \in Precompiles
  /\ frames' = WithGas(frames, GasDuringCall(m))
  /\ acct' = Restored(Append(acctSnaps, acct),
                      Transfer(acct, top.addr, Callee(m), m.value), Len(acctSnaps))
  /\ acctSnaps' = Truncated(Append(acctSnaps, acct), Len(acctSnaps))
  /\ slots' = Restored(Append(slotSnaps, slots), slots, Len(slotSnaps))
  /\ slotSnaps' = Truncated(Append(slotSnaps, slots), Len(slotSnaps))
  /\ UNCHANGED <<transient, phase, outcome, reported, history>>

\* Code to run: EVM.Run on a child state that shares everything but the
\* stack, the memory and the gas meter with the caller's.
CallStarts(m) ==
  /\ MayCall(m)
  /\ Accepted(m.value)
  /\ ~IsLeaf(m)
  /\ TakeSnapshots
  /\ acct' = Transfer(acct, top.addr, Callee(m), m.value)
  /\ frames' = Append(WithGas(frames, GasDuringCall(m)),
                      NewFrame(Callee(m), ChildStatic(m), "call",
                               ChildGas(m), Len(acctSnaps), Len(slotSnaps)))
  /\ UNCHANGED <<slots, transient, phase, outcome, reported, history>>

-----------------------------------------------------------------------------
(* CREATE and CREATE2: opCreate.                                           *)

MayCreate(cost) == Executing /\ ~top.static /\ cost <= top.gas

\* Not enough balance, or init code over the limit: only the cost is paid.
CreateRejected ==
  /\ \E cost \in Costs["CREATE"] :
       MayCreate(cost) /\ frames' = WithGas(frames, top.gas - cost)
  /\ UNCHANGED <<world, snaps, transient, phase, outcome, reported, history>>

\* The nonce is spent before the collision and the depth are looked at.
CreateRefused(addr) ==
  /\ \E cost \in Costs["CREATE"] :
       MayCreate(cost) /\ frames' = WithGas(frames, top.gas - cost)
  /\ addr # top.addr
  /\ HasCodeOrNonce(addr) \/ Len(frames) >= MaxDepth
  /\ acct' = IncrementNonce(acct, top.addr)
  /\ UNCHANGED <<slots, snaps, transient, phase, outcome, reported, history>>

CreateStarts(addr, value) ==
  /\ \E cost \in Costs["CREATE"] :
       /\ MayCreate(cost)
       /\ LET left == top.gas - cost
              child == maxMessageCallGas(left)
          IN frames' = Append(WithGas(frames, left - child),
                              NewFrame(addr, FALSE, "create", child,
                                       Len(acctSnaps), Len(slotSnaps)))
  /\ value <= acct[top.addr].balance
  /\ Len(frames) < MaxDepth
  /\ addr # top.addr /\ ~HasCodeOrNonce(addr)
  /\ LET spent == IncrementNonce(acct, top.addr) IN
       /\ acctSnaps' = Append(acctSnaps, spent)
       /\ slotSnaps' = Append(slotSnaps, slots)
       /\ acct' = Transfer(CreateAccount(spent, addr), top.addr, addr, value)
  /\ UNCHANGED <<slots, transient, phase, outcome, reported, history>>

-----------------------------------------------------------------------------
(* A frame ends, and with it the rest of opCallCommon or opCreate.         *)

InnerFrame == Executing /\ Len(frames) > 1

CallReturns ==
  /\ InnerFrame
  /\ top.kind = "call"
  /\ frames' = Resumed(top.gas, top.logs)
  /\ reported' = "success"
  /\ UNCHANGED <<world, snaps, transient, phase, outcome, history>>

\* Init code succeeded: the code it returned is stored and paid for, or it
\* is empty, or refused (0xEF, too long, deposit not affordable).  A refusal
\* clears the code and undoes nothing else.
CreateReturns ==
  /\ InnerFrame
  /\ top.kind = "create"
  /\ LET resumed == Resumed(top.gas, top.logs)
         left == resumed[Len(resumed)].gas
     IN \/ /\ DepositGas <= left
           /\ acct' = SetCode(acct, top.addr, TRUE)
           /\ frames' = WithGas(resumed, left - DepositGas)
           /\ reported' = "success"
        \/ /\ acct' = SetCode(acct, top.addr, FALSE)
           /\ frames' = resumed
           /\ reported' \in {"success", "failure"}
  /\ UNCHANGED <<slots, snaps, transient, phase, outcome, history>>

\* REVERT keeps the unused gas for the caller, any other failure burns it.
FrameFails ==
  /\ InnerFrame
  /\ \E kept \in {top.gas, 0} : frames' = Resumed(kept, <<>>)
  /\ RevertSnapshots(top)
  /\ reported' = "failure"
  /\ dropped' = dropped \cup Range(top.logs)
  /\ UNCHANGED <<transient, phase, outcome, burned, emitted>>

-----------------------------------------------------------------------------
(* The outermost frame ends: revertTopLevelCallValue, applyBaseFeeBurn.    *)

OuterFrame == Executing /\ Len(frames) = 1

RunReturns ==
  /\ OuterFrame
  /\ phase' = "settling"
  /\ frames' = <<>>
  /\ outcome' = [outcome EXCEPT !.gas = top.gas, !.logs = top.logs]
  /\ reported' = "success"
  /\ UNCHANGED <<world, snaps, transient, history>>

\* Without a snapshot the writes of a failed run stay.  The result of the
\* REVERT opcode carries the logs, that of a hook's ActionRevert does not.
RunFails ==
  /\ OuterFrame
  /\ phase' = "settling"
  /\ frames' = <<>>
  /\ RevertSnapshots(top)
  /\ \/ \E logs \in {top.logs, <<>>} :
          outcome' = [outcome EXCEPT !.gas = top.gas, !.logs = logs]
     \/ outcome' = [outcome EXCEPT !.gas = 0]
  /\ reported' = "failure"
  /\ dropped' = dropped \cup Range(top.logs)
  /\ UNCHANGED <<transient, burned, emitted>>

ChargedGas == IntrinsicGas + (outcome.limit - outcome.gas)

\* The refund counter is abstract: any amount up to the cap of a fifth.
Settle ==
  /\ phase = "settling"
  /\ phase' = "done"
  /\ \E refund \in 0 .. ChargedGas \div 5 :
       LET burn == (ChargedGas - refund) * BaseFee
       IN /\ acct' = IF burn = 0 THEN acct ELSE Debit(acct, Coinbase, burn)
          /\ burned' = burn
  /\ UNCHANGED <<slots, snaps, transient, frames, outcome, reported, emitted, dropped>>

-----------------------------------------------------------------------------

Init ==
  /\ acct = [a \in Addr |-> [balance |-> InitBalance[a], nonce |-> 0,
                             code |-> a \in Contracts,
                             exists |-> a \in Contracts \/ InitBalance[a] > 0,
                             deleted |-> FALSE]]
  /\ slots = [a \in Addr |-> 0]
  /\ acctSnaps = <<>> /\ slotSnaps = <<>>
  /\ transient = [a \in Addr |-> 0]
  /\ frames = <<>>
  /\ phase = "idle"
  /\ outcome = [limit |-> 0, gas |-> 0, logs |-> <<>>]
  /\ reported = "none"
  /\ burned = 0 /\ emitted = 0 /\ dropped = {}

\* One unit more than the caller has stands for every value it cannot pay.
StartRun ==
  \E limit \in GasLimits :
    \/ \E value \in Values, static \in BOOLEAN : Begin(limit, value, static)
    \/ BeginRefused(limit, acct[Caller].balance + 1)

Step ==
  \/ Plain
  \/ EmitLog
  \/ \E value \in StoreVals : Sstore(value) \/ Tstore(value)
  \/ \E heir \in Addr : Selfdestruct(heir)

MessageCalls ==
  \E m \in Calls :
    CallRefused(m) \/ CallLeaf(m) \/ CallLeafFails(m) \/ CallStarts(m)

Creations ==
  \/ CreateRejected
  \/ \E addr \in Creatable :
       CreateRefused(addr) \/ \E value \in Values : CreateStarts(addr, value)

EndFrame == CallReturns \/ CreateReturns \/ FrameFails

EndRun == RunReturns \/ RunFails \/ Settle

Next == StartRun \/ Step \/ MessageCalls \/ Creations \/ EndFrame \/ EndRun

\* The interpreter loop of one goroutine: it does not stop on its own.
Spec == Init /\ [][Next]_vars /\ WF_vars(Next)

-----------------------------------------------------------------------------
(* Properties.                                                             *)

\* Every variable keeps its type; in particular no gas meter goes below zero.
TypeOK ==
  /\ acct \in Accounts /\ acctSnaps \in Seq(Accounts)
  /\ slots \in Slots /\ slotSnaps \in Seq(Slots)
  /\ transient \in Slots
  /\ frames \in Seq(Frame)
  /\ phase \in {"idle", "running", "settling", "done"}
  /\ outcome \in Outcome
  /\ reported \in {"none", "success", "failure"}
  /\ burned \in Nat /\ emitted \in Nat /\ dropped \subseteq Nat

HasRevision(frame) == frame.accRev # NoRevision

\* The revision each active frame would revert to still exists in both
\* stores, and the revisions of nested frames are nested: so no callee's
\* RevertToSnapshot can take away the snapshot of a caller, although
\* snapshots that succeeded are never discarded and RevertToSnapshot
\* silently ignores a revision it does not know.
SnapshotsNested ==
  /\ Len(acctSnaps) = Len(slotSnaps)
  /\ \A i \in 1 .. Len(frames) :
       /\ frames[i].accRev = frames[i].stoRev
       /\ frames[i].accRev < Len(acctSnaps)
       /\ i > 1 => HasRevision(frames[i])
       /\ \A j \in 1 .. i - 1 : frames[j].accRev < frames[i].accRev

\* Gas is handed down and given back, never made: what a frame has left and
\* what its callee was given never exceed what the frame was given, stipends
\* included, so no run ends with more gas than its limit.
GasBounded ==
  /\ \A i \in 1 .. Len(frames) :
       frames[i].gas + (IF i < Len(frames) THEN frames[i + 1].given ELSE 0)
         <= frames[i].given
  /\ frames # <<>> => frames[1].given = outcome.limit
  /\ outcome.gas <= outcome.limit

\* While a static frame is active nothing changes accounts, storage or
\* transient storage: not the frame, not the frames it calls by whatever
\* opcode, and not the snapshots a failing frame goes back to.
StaticPurity ==
  [][(\E i \in 1 .. Len(frames) : frames[i].static) => UNCHANGED <<world, transient>>]_vars

\* The world each active call would leave behind if it failed.
Saved ==
  [i \in 1 .. Len(frames) |->
     [world |-> IF HasRevision(frames[i])
                THEN <<acctSnaps[frames[i].accRev + 1], slotSnaps[frames[i].stoRev + 1]>>
                ELSE <<>>,
      creates |-> frames[i].kind = "create"]]

Atomic == INSTANCE AtomicCalls WITH
  World <- Accounts \X Slots, Nothing <- <<>>,
  world <- world, saved <- Saved, result <- reported

\* Calls are atomic: however frames nest, fail and succeed, a call reported
\* as failed leaves the world it started from, in accounts and storage alike.
CallsAreAtomic == Atomic!Spec

Order == CHOOSE order \in Bijection(1 .. Cardinality(Addr), Addr) : TRUE

SumOver(f) ==
  LET sum[i \in 0 .. Cardinality(Addr)] == IF i = 0 THEN 0 ELSE sum[i - 1] + f[Order[i]]
  IN sum[Cardinality(Addr)]

Balances(accts) == [a \in Addr |-> accts[a].balance]

\* No call, creation, self-destruct or rollback makes or loses wei, and until
\* the base fee is burnt nobody owes any.
BalancesConserved ==
  /\ SumOver(Balances(acct)) + burned = SumOver(InitBalance)
  /\ phase # "done" => \A a \in Addr : acct[a].balance >= 0

Increasing(s) == \A i, j \in 1 .. Len(s) : i < j => s[i] < s[j]

\* A log survives exactly when no frame above its emitter failed: nothing a
\* successful callee logged is lost, nothing a failed one logged comes back,
\* and what is kept stays in the order of emission across frames.
LogsFollowFrames ==
  /\ \A i \in 1 .. Len(frames) :
       /\ Increasing(frames[i].logs)
       /\ Range(frames[i].logs) \cap dropped = {}
       /\ \A j \in i + 1 .. Len(frames) :
            \A x \in Range(frames[i].logs), y \in Range(frames[j].logs) : x < y
  /\ phase = "running" =>
       1 .. emitted = dropped \cup UNION {Range(frames[i].logs) : i \in 1 .. Len(frames)}
  /\ phase \in {"settling", "done"} /\ reported = "success" =>
       /\ Increasing(outcome.logs)
       /\ Range(outcome.logs) = (1 .. emitted) \ dropped

\* Deployed code disappears only when a frame fails: no creation, even one
\* that re-enters the address under creation, clears code that exists.
CodeIsPermanent ==
  [][\A a \in Addr : acct[a].code /\ ~acct'[a].code =>
        Len(acctSnaps') < Len(acctSnaps)]_vars

\* Every run ends: each opcode costs gas, and gas is never made.
RunEnds == (phase = "running") ~> (phase = "done")

=============================================================================
