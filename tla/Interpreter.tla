----------------------------- MODULE Interpreter -----------------------------
(***************************************************************************)
(* EVM.Run in one frame, opcode by opcode: gas is charged before hooks and *)
(* handlers, operands come off the stack, memory grows.  Calls and         *)
(* creations are the subject of MessageCall; they are left out here.       *)
(*                                                                         *)
(* A byte of code is the opcode it stands for and its value as data.  The  *)
(* words are those of Words; a uint64 counts up to OffsetMod.              *)
(***************************************************************************)
EXTENDS Words, Sequences

CONSTANTS
  Starts,      \* what frames run: sets of [code, gas, static, original, hook, action]
  Unavailable, \* the opcodes the fork does not have
  StackLimit,  \* 1024 in the code
  OffsetMod,   \* 2^64 in the code, fewer than there are words
  MaxMemory,   \* no gas limit pays for more bytes of memory
  Infinite,    \* ^uint64(0), a price no frame can pay
  Input        \* CallInput: a sequence of bytes

VARIABLES
  start,     \* the frame that runs
  pc, stack, \* the top of the stack comes first
  memory,    \* a sequence of bytes
  gas, refund,
  slots,     \* storage: original, current and transient value, warm or not
  warmed,    \* the warm addresses
  status,    \* "running" or an ExecutionStatus
  output,
  \* history
  memoryPaid,  \* gas charged for growing memory
  stored,      \* writes that succeeded, and the gas they took beside cold access
  odd          \* where the code leaves the EVM: see the properties

vars == <<start, pc, stack, memory, gas, refund, slots, warmed, status, output,
          memoryPaid, stored, odd>>

code == start.code
Op == code[pc + 1].op
Running == status = "running" /\ pc < Len(code)

ByteMod == 2 ^ ByteBits

-----------------------------------------------------------------------------
(* Tables: gas.go.                                                         *)

DupOps == {"DUP1", "DUP2"}
SwapOps == {"SWAP1", "SWAP2"}
PushOps == {"PUSH1", "PUSH2"}
LogOps == {"LOG0", "LOG1"}
CopyOps == {"CALLDATACOPY", "CODECOPY", "RETURNDATACOPY", "EXTCODECOPY"}
AccountOps == {"BALANCE", "EXTCODESIZE", "EXTCODEHASH"}

\* Reads of the transaction and the block.
ContextOps == {"ADDRESS", "ORIGIN", "CALLER", "CALLVALUE", "GASPRICE", "COINBASE", "TIMESTAMP",
               "NUMBER", "PREVRANDAO", "GASLIMIT", "CHAINID", "SELFBALANCE", "BASEFEE",
               "BLOBBASEFEE"}

\* All that push a word and pop none; PC, MSIZE and GAS read the frame.
ReadOps == ContextOps \cup {"CALLDATASIZE", "CODESIZE", "RETURNDATASIZE", "PC", "MSIZE", "GAS",
                           "PUSH0"}

Opcodes == Arithmetic \cup PushOps \cup DupOps \cup SwapOps \cup LogOps \cup CopyOps \cup AccountOps
           \cup ReadOps
           \cup {"STOP", "JUMP", "JUMPI", "JUMPDEST", "POP", "MLOAD", "MSTORE", "MSTORE8", "MCOPY",
                 "KECCAK256", "SLOAD", "SSTORE", "TLOAD", "TSTORE", "BLOCKHASH", "BLOBHASH",
                 "CALLDATALOAD", "RETURN", "REVERT", "INVALID"}

\* The number in the name of DUPn, SWAPn, PUSHn, LOGn.
Number(op) == CASE op \in {"LOG0"} -> 0
                [] op \in {"DUP1", "SWAP1", "PUSH1", "LOG1"} -> 1
                [] op \in {"DUP2", "SWAP2", "PUSH2"} -> 2

\* Variant with a bug: a table without the control opcodes.
GasCostsHoles(op) == IF op \in {"STOP", "JUMP", "JUMPI", "JUMPDEST"} THEN 0 ELSE 3

GasCosts(op) ==
  CASE op \in {"STOP", "SLOAD", "SSTORE", "RETURN", "REVERT", "INVALID", "EXTCODECOPY"} \cup AccountOps -> 0
    [] op = "JUMPDEST" -> 1
    [] op \in (ReadOps \ {"SELFBALANCE"}) \cup {"POP"} -> 2
    [] op \in {"SELFBALANCE", "MUL", "DIV", "SDIV", "MOD", "SMOD", "SIGNEXTEND", "CLZ"} -> 5
    [] op \in {"ADDMOD", "MULMOD", "JUMP"} -> 8
    [] op \in {"EXP", "JUMPI"} -> 10
    [] op = "BLOCKHASH" -> 20
    [] op = "KECCAK256" -> 30
    [] op \in {"TLOAD", "TSTORE"} -> 100
    [] op \in LogOps -> 375
    [] OTHER -> 3

\* How many words the handler takes off the stack or looks at, and how many
\* more than before there are when it is done.
Pops(op) ==
  CASE op \in Arithmetic -> Arity(op)
    [] op \in PushOps \cup ReadOps \cup {"STOP", "JUMPDEST", "INVALID"} -> 0
    [] op \in DupOps -> Number(op)
    [] op \in SwapOps -> Number(op) + 1
    [] op \in LogOps -> Number(op) + 2
    [] op \in CopyOps \cup {"MCOPY"} -> IF op = "EXTCODECOPY" THEN 4 ELSE 3
    [] op \in {"MSTORE", "MSTORE8", "SSTORE", "TSTORE", "JUMPI", "KECCAK256", "RETURN",
               "REVERT"} -> 2
    [] op \in {"POP", "MLOAD", "SLOAD", "TLOAD", "JUMP", "BLOCKHASH", "BLOBHASH",
               "CALLDATALOAD"} \cup AccountOps -> 1

\* Variant with a bug: append instead of Push where the context is read.
GrowsUnchecked(op) == op \in PushOps \cup DupOps

Grows(op) == op \in PushOps \cup ReadOps \cup DupOps

GasColdSload == 2100
GasColdAccountAccess == 2600
GasWarmAccess == 100
GasSstoreSet == 20000
GasSstoreReset == 2900
RefundSstoreClear == 4800
GasCallStipend == 2300

-----------------------------------------------------------------------------
(* Memory: memory.go.  Sums of offsets wrap around.                        *)

wordToUint64(w) == IF w < OffsetMod THEN w ELSE OffsetMod - 1

Sum64(a, b) == (a + b) % OffsetMod

wordCount(size) == (size + WordBytes - 1) \div WordBytes

\* The addition wraps around just below the end of the address space.
ceil32(size) == IF size = 0 THEN 0
                ELSE (Sum64(size, WordBytes - 1) \div WordBytes) * WordBytes

MemoryGasCost(size) ==
  IF size > MaxMemory THEN Infinite
  ELSE LET words == wordCount(size) IN words * 3 + (words * words) \div 512

\* What a frame is started with: code, less gas than the infinite price, and
\* at most one hook.
Frames == [code : Seq([op : Opcodes, value : 0 .. ByteMod - 1]), gas : 0 .. Infinite - 1,
           static : BOOLEAN, original : Word, hook : STRING,
           action : {"none", "halt", "revert", "replace"}]

\* Two bytes are the most a PUSH of the model takes.
ASSUME InterpreterAssumption ==
  /\ Starts \subseteq SUBSET Frames /\ Input \in Seq(0 .. ByteMod - 1)
  /\ WordBytes >= 2 /\ StackLimit \in Nat \ {0}
  /\ OffsetMod \in Nat \ {0} /\ OffsetMod % WordBytes = 0 /\ OffsetMod < 2 ^ WordBits
  /\ MaxMemory \in 0 .. OffsetMod \div 2
  /\ Infinite \in Nat /\ MemoryGasCost(MaxMemory) <= Infinite

\* Variant with a bug: the whole new size is charged, or only what is added.
ExpandFromZero(length, offset, size) ==
  IF size = 0 THEN 0 ELSE MemoryGasCost(ceil32(Sum64(offset, size)) - ceil32(offset))

ExpandSize(length, offset, size) ==
  LET end == Sum64(offset, size)
  IN IF size = 0 THEN 0
     ELSE IF end < offset THEN Infinite
     ELSE IF ceil32(end) > length THEN MemoryGasCost(ceil32(end)) - MemoryGasCost(length)
     ELSE 0

Resized(bytes, size) ==
  IF ceil32(size) > Len(bytes)
  THEN bytes \o [i \in 1 .. ceil32(size) - Len(bytes) |-> 0] ELSE bytes

\* The bytes Get returns: beyond the end of memory they are zero.
Get(bytes, offset, size) ==
  [i \in 1 .. size |-> IF offset + i <= Len(bytes) THEN bytes[offset + i] ELSE 0]

\* Get, and so the frame, panics: no buffer is that long.
GetFails(size) == size > MaxMemory

\* copy(m.store[offset:]) panics beyond the end; it cuts off what is too long.
SetFails(bytes, offset, size) == size > 0 /\ offset > Len(Resized(bytes, Sum64(offset, size)))

Set(bytes, offset, data) ==
  IF data = <<>> THEN bytes
  ELSE LET grown == Resized(bytes, Sum64(offset, Len(data)))
       IN [i \in 1 .. Len(grown) |->
             IF i - offset \in 1 .. Len(data) THEN data[i - offset] ELSE grown[i]]

WordOf(bytes) ==
  LET read[i \in 0 .. Len(bytes)] == IF i = 0 THEN 0 ELSE read[i - 1] * ByteMod + bytes[i]
  IN read[Len(bytes)]

BytesOf(w) == [i \in 1 .. WordBytes |-> ByteOf(w, i - 1)]

\* The CALLDATACOPY family: a piece of data, zero beyond its end.
Piece(data, offset, size) ==
  [i \in 1 .. size |-> IF offset + i <= Len(data) THEN data[offset + i] ELSE 0]

-----------------------------------------------------------------------------
(* Gas: calcDynamicGas looks at the operands before anything is checked.   *)

Offset(n) == wordToUint64(stack[n])

\* The n-th operand of a copy; EXTCODECOPY has the account before it.
CopyOperand(op, n) == Offset(IF op = "EXTCODECOPY" THEN n + 1 ELSE n)

\* The part of memory the opcode pays for: <<offset, size>>.
Touched(op) ==
  CASE op \in {"MLOAD", "MSTORE"} -> <<Offset(1), WordBytes>>
    [] op = "MSTORE8" -> <<Offset(1), 1>>
    [] op \in {"KECCAK256", "RETURN", "REVERT"} \cup LogOps -> <<Offset(1), Offset(2)>>
    [] op \in CopyOps \cup {"MCOPY"} -> <<CopyOperand(op, 1), CopyOperand(op, 3)>>
    [] OTHER -> <<0, 0>>

\* calcDynamicGas looks at two operands of LOG1 and pays for memory then.
Peeks(op) == IF op \in LogOps THEN 2 ELSE Pops(op)

MemoryGas(op) ==
  IF Len(stack) < Peeks(op) THEN 0
  ELSE ExpandSize(Len(memory), Touched(op)[1], Touched(op)[2])

PerWord(size, price) == IF size > MaxMemory THEN Infinite ELSE wordCount(size) * price

AccessGas(addr) == IF addr \in warmed THEN GasWarmAccess ELSE GasColdAccountAccess

SlotGas(slot) == IF slots[slot].warm THEN GasWarmAccess ELSE GasColdSload

ExpBytes(exponent) ==
  Cardinality({i \in 0 .. WordBytes - 1 : exponent >= 2 ^ (ByteBits * i)})

DataGas(op) ==
  IF Len(stack) < Peeks(op) THEN 0
  ELSE CASE op = "EXP" -> 50 * ExpBytes(stack[2])
         [] op = "KECCAK256" -> PerWord(Offset(2), 6)
         [] op \in CopyOps \cup {"MCOPY"} ->
              PerWord(CopyOperand(op, 3), 3) + (IF op = "EXTCODECOPY" THEN AccessGas(stack[1]) ELSE 0)
         [] op \in LogOps -> 375 * Number(op)
                             + (IF Offset(2) > MaxMemory THEN Infinite ELSE 8 * Offset(2))
         [] op \in AccountOps -> AccessGas(stack[1])
         [] op = "SLOAD" -> SlotGas(stack[1])
         [] OTHER -> 0

Total(op) == GasCosts(op) + MemoryGas(op) + DataGas(op)

-----------------------------------------------------------------------------
(* The loop.                                                               *)

End(result) == status' = result

Fail(result) ==
  /\ End(result)
  /\ UNCHANGED <<start, pc, stack, memory, refund, output, stored, odd>>

\* Past the last opcode.
EndOfCode ==
  /\ status = "running" /\ pc >= Len(code)
  /\ End("success")
  /\ UNCHANGED <<start, pc, stack, memory, gas, refund, slots, warmed, output,
                 memoryPaid, stored, odd>>

InvalidOpcode ==
  /\ Running /\ Op \in Unavailable
  /\ Fail("invalidOpcode") /\ UNCHANGED <<gas, slots, warmed, memoryPaid>>

\* Asking for the price has warmed the account, or the slot.
Warming == IF Op \in AccountOps \cup {"EXTCODECOPY"} /\ Len(stack) >= Pops(Op) THEN {stack[1]} ELSE {}
SlotsAsked ==
  IF Op = "SLOAD" /\ Len(stack) >= 1 THEN [slots EXCEPT ![stack[1]].warm = TRUE] ELSE slots

OutOfGas ==
  /\ Running /\ Op \notin Unavailable
  /\ Total(Op) > gas
  /\ gas' = 0 /\ warmed' = warmed \cup Warming /\ slots' = SlotsAsked
  /\ Fail("outOfGas") /\ UNCHANGED memoryPaid

\* ConsumeGas succeeded; the hooks are next.
Charged ==
  /\ Running /\ Op \notin Unavailable
  /\ Total(Op) <= gas
  /\ gas' = gas - Total(Op)
  /\ memoryPaid' = memoryPaid + MemoryGas(Op)
  /\ warmed' = warmed \cup Warming

Hooked == start.hook = Op

\* dispatchHooks: ActionHalt and ActionRevert end the frame.
HookEnds ==
  /\ Charged /\ Hooked /\ start.action \in {"halt", "revert"}
  /\ Fail(start.action) /\ slots' = SlotsAsked

\* ActionReplaceResult: the result is pushed, the operands stay, and pc goes
\* on by one, into the data of a PUSH.
HookReplaces ==
  /\ Charged /\ Hooked /\ start.action = "replace"
  /\ Len(stack) < StackLimit
  /\ stack' = <<1>> \o stack
  /\ pc' = pc + 1
  /\ odd' = odd \cup (IF Op \in PushOps THEN {"replaced PUSH"} ELSE {})
  /\ slots' = SlotsAsked
  /\ UNCHANGED <<start, memory, refund, status, output, stored>>

\* The stack panics, Run recovers.
StackFails ==
  /\ Charged
  /\ \/ ~Hooked /\ Len(stack) < Pops(Op) /\ Fail("stackUnderflow")
     \/ /\ IF Hooked THEN start.action = "replace" ELSE Len(stack) >= Pops(Op) /\ Grows(Op)
        /\ Len(stack) = StackLimit
        /\ Fail("stackOverflow")
  /\ slots' = SlotsAsked

\* The handler of an opcode in ops has its operands and room for its result.
Executes(ops) ==
  /\ Running /\ Op \in ops
  /\ Charged /\ ~Hooked
  /\ Len(stack) >= Pops(Op)
  /\ Grows(Op) => Len(stack) < StackLimit

Rest == SubSeq(stack, Pops(Op) + 1, Len(stack))

Pushed(word) == stack' = <<word>> \o Rest

Advance == pc' = pc + 1

Untouched == UNCHANGED <<start, status, output, odd>>

-----------------------------------------------------------------------------
(* Handlers.                                                               *)

Arithmetically ==
  /\ Executes(Arithmetic)
  /\ Pushed(Computed(Op, stack)) /\ Advance
  /\ Untouched /\ UNCHANGED <<memory, refund, slots, stored>>

\* What reads of the context push; numbers too large for a word are cut here.
Read(op) ==
  CASE op = "CALLDATASIZE" -> Len(Input)
    [] op = "CODESIZE" -> Len(code)
    [] op = "PC" -> pc
    [] op = "MSIZE" -> Len(memory)
    [] op = "GAS" -> u256(gas')
    [] op \in ContextOps -> 1
    [] op \in {"RETURNDATASIZE", "PUSH0"} -> 0

ReadContext ==
  /\ Executes(ReadOps)
  /\ stack' = <<u256(Read(Op))>> \o stack /\ Advance
  /\ Untouched /\ UNCHANGED <<memory, refund, slots, stored>>

\* Accounts that do not exist, a block that is not known, no blobs; CALLDATALOAD.
LookUp ==
  /\ Executes(AccountOps \cup {"BLOCKHASH", "BLOBHASH", "CALLDATALOAD"})
  /\ Pushed(IF Op = "CALLDATALOAD" THEN WordOf(Piece(Input, Offset(1), WordBytes)) ELSE 0)
  /\ Advance
  /\ Untouched /\ UNCHANGED <<memory, refund, slots, stored>>

\* The n bytes after a PUSHn; code that ends before them is filled up.
PushData(n) == Piece([i \in 1 .. Len(code) |-> code[i].value], pc + 1, n)

StackOp ==
  /\ Executes({"POP"} \cup PushOps \cup DupOps \cup SwapOps)
  /\ \/ Op = "POP" /\ stack' = Rest /\ Advance
     \/ /\ Op \in PushOps
        /\ stack' = <<WordOf(PushData(Number(Op)))>> \o stack
        /\ pc' = pc + 1 + Number(Op)
     \/ Op \in DupOps /\ stack' = <<stack[Number(Op)]>> \o stack /\ Advance
     \/ /\ Op \in SwapOps
        /\ stack' = [stack EXCEPT ![1] = stack[Number(Op) + 1], ![Number(Op) + 1] = stack[1]]
        /\ Advance
  /\ Untouched /\ UNCHANGED <<memory, refund, slots, stored>>

\* analyzeJumpdests: the scan skips the data of PUSHes.  Variant with a bug:
\* it does not.
AllJumpdests(bytes) == {i \in 0 .. Len(bytes) - 1 : bytes[i + 1].op = "JUMPDEST"}

Scan(bytes) ==
  LET next(i) == i + 1 + (IF bytes[i + 1].op \in PushOps THEN Number(bytes[i + 1].op) ELSE 0)
      before[i \in 0 .. Len(bytes)] == IF i = 0 THEN {0}
                           ELSE before[i - 1] \cup (IF i - 1 \in before[i - 1] THEN {next(i - 1)} ELSE {})
  IN before[Len(bytes)]

analyzeJumpdests(bytes) ==
  {i \in Scan(bytes) : i < Len(bytes) /\ bytes[i + 1].op = "JUMPDEST"}

Jump ==
  /\ Executes({"JUMP", "JUMPI", "JUMPDEST"})
  /\ LET dest == wordToUint64(stack[1])
         taken == Op = "JUMP" \/ (Op = "JUMPI" /\ stack[2] # 0)
     IN IF taken /\ dest \notin analyzeJumpdests(code)
        THEN End("invalidJump") /\ UNCHANGED <<pc, stack>>
        ELSE /\ pc' = IF taken THEN dest ELSE pc + 1
             /\ stack' = Rest
             /\ UNCHANGED status
  /\ UNCHANGED <<start, memory, refund, slots, output, stored, odd>>

\* Memory and gas part ways near the end of the address space, where the size
\* rounded up wraps around.
Wraps(offset, size) == size > 0 /\ ceil32(Sum64(offset, size)) < offset

WentOdd(what) == odd' = odd \cup what

Mload ==
  /\ Executes({"MLOAD"})
  /\ memory' = Resized(memory, Sum64(Offset(1), WordBytes))
  /\ Pushed(WordOf(Get(memory', Offset(1), WordBytes))) /\ Advance
  /\ WentOdd(IF Wraps(Offset(1), WordBytes) THEN {"wrapped read"} ELSE {})
  /\ UNCHANGED <<start, status, output, refund, slots, stored>>

\* MSTORE, MSTORE8, the copies and MCOPY: data is written to offset, or the
\* handler panics or, for RETURNDATACOPY, refuses.
Mstore(offset, data, refuses) ==
  IF refuses \/ SetFails(memory, offset, Len(data))
  THEN End("halt") /\ UNCHANGED <<memory, stack, pc>>
  ELSE memory' = Set(memory, offset, data) /\ stack' = Rest /\ Advance /\ UNCHANGED status

Store ==
  /\ Executes({"MSTORE", "MSTORE8"})
  /\ Mstore(Offset(1), IF Op = "MSTORE" THEN BytesOf(stack[2])
                       ELSE <<ByteOf(stack[2], WordBytes - 1)>>, FALSE)
  /\ UNCHANGED <<start, output, odd, refund, slots, stored>>

Source(op) ==
  CASE op = "CALLDATACOPY" -> Input
    [] op = "CODECOPY" -> [i \in 1 .. Len(code) |-> code[i].value]
    [] op \in {"RETURNDATACOPY", "EXTCODECOPY"} -> <<>>
    [] op = "MCOPY" -> memory

Copy ==
  /\ Executes(CopyOps \cup {"MCOPY"})
  /\ LET from == CopyOperand(Op, 2)
         size == CopyOperand(Op, 3)
     IN Mstore(CopyOperand(Op, 1), Piece(Source(Op), from, size),
               Op = "RETURNDATACOPY" /\ from + size > 0)
  /\ UNCHANGED <<start, output, odd, refund, slots, stored>>

\* What a hash is does not matter: here it is the first word of the data.
\* opKeccak256 resizes memory even to hash nothing, which was not charged.
Keccak ==
  /\ Executes({"KECCAK256"})
  /\ LET size == Sum64(Offset(1), Offset(2))
         grown == Resized(memory, size)
     IN IF GetFails(ceil32(size)) \/ GetFails(Offset(2))
        THEN End("halt") /\ UNCHANGED <<memory, stack, pc, odd>>
        ELSE /\ memory' = grown
             /\ Pushed(WordOf(Get(grown, Offset(1), WordBytes))) /\ Advance
             /\ WentOdd(IF Offset(2) = 0 /\ grown # memory THEN {"hash of nothing"} ELSE {})
             /\ UNCHANGED status
  /\ UNCHANGED <<start, output, refund, slots, stored>>

\* The data of a log is not kept; memory is not resized.
Log ==
  /\ Executes(LogOps)
  /\ stack' = Rest /\ Advance
  /\ Untouched /\ UNCHANGED <<memory, refund, slots, stored>>

Sload ==
  /\ Executes({"SLOAD"})
  /\ slots' = [slots EXCEPT ![stack[1]].warm = TRUE]
  /\ Pushed(slots[stack[1]].current) /\ Advance
  /\ Untouched /\ UNCHANGED <<memory, refund, stored>>

Tload ==
  /\ Executes({"TLOAD"})
  /\ Pushed(slots[stack[1]].transient) /\ Advance
  /\ Untouched /\ UNCHANGED <<memory, refund, slots, stored>>

Tstore ==
  /\ Executes({"TSTORE"})
  /\ IF start.static THEN End("halt") /\ UNCHANGED <<slots, stack, pc>>
     ELSE /\ slots' = [slots EXCEPT ![stack[1]].transient = stack[2]]
          /\ stack' = Rest /\ Advance /\ UNCHANGED status
  /\ UNCHANGED <<start, output, odd, memory, refund, stored>>

\* EIP-2200 with the prices of EIP-2929.
SstoreCost(slot, value) ==
  IF slot.original = slot.current
  THEN IF slot.current = value THEN GasWarmAccess
       ELSE IF slot.original = 0 THEN GasSstoreSet ELSE GasSstoreReset
  ELSE GasWarmAccess

\* RefundGas and DeductRefund, which stops at zero.  Variant with a bug: a
\* refund for clearing a slot is not taken back.
RefundsKept(slot, value, before) ==
  IF slot.current = value THEN before
  ELSE before
       + (IF slot.original # 0 /\ slot.current # 0 /\ value = 0 THEN RefundSstoreClear ELSE 0)
       + (IF value # slot.original THEN 0
          ELSE IF slot.original = 0 THEN GasSstoreSet - GasWarmAccess
          ELSE GasSstoreReset - GasWarmAccess)

Refunds(slot, value, before) ==
  IF slot.current = value THEN before
  ELSE LET cleared == IF slot.original # 0 /\ slot.current # 0 /\ value = 0
                      THEN before + RefundSstoreClear ELSE before
           deducted == IF slot.original # 0 /\ slot.current = 0
                       THEN IF cleared > RefundSstoreClear THEN cleared - RefundSstoreClear ELSE 0
                       ELSE cleared
       IN IF value # slot.original THEN deducted
          ELSE deducted + (IF slot.original = 0 THEN GasSstoreSet ELSE GasSstoreReset) - GasWarmAccess

\* The second charge is the handler's own.
Sstore ==
  /\ Running /\ Op = "SSTORE" /\ Op \notin Unavailable /\ ~Hooked
  /\ Len(stack) >= 2
  /\ LET slot == slots[stack[1]]
         value == stack[2]
         cost == SstoreCost(slot, value)
         total == cost + (IF slot.warm THEN 0 ELSE GasColdSload)
     IN IF start.static
        THEN End("halt") /\ UNCHANGED <<gas, stack, pc, slots, refund, stored>>
        ELSE IF gas <= GasCallStipend
        THEN End("outOfGas") /\ UNCHANGED <<gas, stack, pc, slots, refund, stored>>
        ELSE IF total > gas
        THEN /\ End("outOfGas") /\ gas' = 0
             /\ slots' = [slots EXCEPT ![stack[1]].warm = TRUE]
             /\ UNCHANGED <<stack, pc, refund, stored>>
        ELSE /\ gas' = gas - total
             /\ refund' = Refunds(slot, value, refund)
             /\ slots' = [slots EXCEPT ![stack[1]] = [slot EXCEPT !.current = value, !.warm = TRUE]]
             /\ stored' = [writes |-> stored.writes + 1, paid |-> stored.paid + cost]
             /\ stack' = Rest /\ Advance /\ UNCHANGED status
  /\ UNCHANGED <<start, memory, warmed, output, memoryPaid, odd>>

\* STOP, RETURN, REVERT and INVALID.
Finish ==
  /\ Executes({"STOP", "RETURN", "REVERT", "INVALID"})
  /\ IF Op \in {"RETURN", "REVERT"} /\ GetFails(Offset(2))
     THEN End("halt") /\ UNCHANGED output
     ELSE /\ End(CASE Op \in {"STOP", "RETURN"} -> "success"
                   [] Op = "REVERT" -> "revert"
                   [] Op = "INVALID" -> "invalidOpcode")
          /\ output' = IF Op \in {"RETURN", "REVERT"}
                       THEN Get(memory, Offset(1), Offset(2)) ELSE output
  /\ UNCHANGED <<start, pc, stack, memory, refund, slots, stored, odd>>

-----------------------------------------------------------------------------

Init ==
  /\ \E frames \in Starts : start \in frames
  /\ pc = 0 /\ stack = <<>> /\ memory = <<>>
  /\ gas = start.gas /\ refund = 0
  /\ slots = [s \in Word |-> [original |-> start.original, current |-> start.original,
                               warm |-> FALSE, transient |-> 0]]
  /\ warmed = {}
  /\ status = "running" /\ output = <<>>
  /\ memoryPaid = 0 /\ stored = [writes |-> 0, paid |-> 0] /\ odd = {}

Next ==
  \/ EndOfCode \/ InvalidOpcode \/ OutOfGas \/ HookEnds \/ HookReplaces \/ StackFails
  \/ Arithmetically \/ ReadContext \/ LookUp \/ StackOp \/ Jump
  \/ Mload \/ Store \/ Copy \/ Keccak \/ Log \/ Sload \/ Sstore \/ Tload \/ Tstore \/ Finish

Spec == Init /\ [][Next]_vars

-----------------------------------------------------------------------------
(* Properties.                                                             *)

\* Every variable keeps its type: the stack its limit, memory whole words.
TypeOK ==
  /\ \E frames \in Starts : start \in frames
  /\ pc \in Nat /\ gas \in 0 .. start.gas /\ refund \in Nat
  /\ stack \in Seq(Word) /\ Len(stack) <= StackLimit
  /\ memory \in Seq(0 .. ByteMod - 1) /\ Len(memory) % WordBytes = 0
  /\ slots \in [Word -> [original : Word, current : Word, warm : BOOLEAN, transient : Word]]
  /\ status \in {"running", "success", "revert", "halt", "outOfGas", "stackUnderflow",
                 "stackOverflow", "invalidJump", "invalidOpcode"}
  /\ memoryPaid \in Nat /\ stored \in [writes : Nat, paid : Nat]

\* What a handler is about to push is what its opcode means for the operands.
ArithmeticIsRight ==
  Running /\ Op \in Arithmetic /\ Len(stack) >= Pops(Op)
    => Right(Op, stack, Computed(Op, stack))

\* How many bytes from each one on are the data of a PUSH: the first byte of
\* code is an opcode, and so is what follows an opcode and its data.
DataLeft(bytes) ==
  LET left[i \in 0 .. Len(bytes)] ==
        IF i = 0 THEN 0
        ELSE LET last == left[i - 1]
             IN IF last > 0 THEN last - 1
                ELSE IF bytes[i].op \in PushOps THEN Number(bytes[i].op) ELSE 0
  IN left

DataBytes == {i \in 0 .. Len(code) - 1 : DataLeft(code)[i] > 0}

\* Whatever jumps are taken, data is never executed (but after a hook has
\* replaced the result of a PUSH).
DataIsNotRun == odd \cap {"replaced PUSH"} = {} => pc \notin DataBytes

\* Every byte of memory was paid for: the charges for single accesses add up
\* to the price of the whole (but after a hash of no bytes at an offset).
MemoryIsPaidUnlessHashed ==
  odd \cap {"hash of nothing"} = {} => memoryPaid >= MemoryGasCost(Len(memory))

\* What a slot's writes cost in the end depends on its first and last value
\* alone, beside a warm access for each write.
SlotPrice(slot) ==
  (IF slot.current = slot.original THEN 0
   ELSE (IF slot.original = 0 THEN GasSstoreSet ELSE GasSstoreReset) - GasWarmAccess)
  - (IF slot.original # 0 /\ slot.current = 0 THEN RefundSstoreClear ELSE 0)

SumOfWords(f) ==
  LET sum[n \in 0 .. 2 ^ WordBits] == IF n = 0 THEN 0 ELSE sum[n - 1] + f[n - 1]
  IN sum[2 ^ WordBits]

\* The refund for a slot that is cleared.
ClearRefund(slot) == IF slot.original # 0 /\ slot.current = 0 THEN RefundSstoreClear ELSE 0

\* Net metering: refunds given and taken back make detours free.  What is
\* taken back in the frame is there: DeductRefund never stops at zero.
NetMetering ==
  /\ stored.paid - refund = stored.writes * GasWarmAccess + SumOfWords([s \in Word |-> SlotPrice(slots[s])])
  /\ refund >= SumOfWords([s \in Word |-> ClearRefund(slots[s])])

\* A step that goes on and does not go forward costs gas, even when a hook
\* replaced it: a frame that loops runs out of gas.
LoopsCostGas == [][status' = "running" => gas' < gas \/ (gas' = gas /\ pc' > pc)]_vars
=============================================================================
