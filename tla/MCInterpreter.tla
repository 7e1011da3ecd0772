---------------------------- MODULE MCInterpreter ----------------------------
(***************************************************************************)
(* Frames of Interpreter: words of two bytes of two bits, six families of  *)
(* short codes.                                                            *)
(***************************************************************************)
EXTENDS Interpreter

Byte(op, value) == [op |-> op, value |-> value]
Ins(op) == <<Byte(op, 1)>>
Data(value) == Byte("STOP", value)

\* PUSH1 of a small word, PUSH2 of any.
Push1(w) == <<Byte("PUSH1", 1), Data(w)>>
Push2(w) == <<Byte("PUSH2", 1), Data(w \div 4), Data(w % 4)>>

Frame(bytes, fuel) ==
  [code |-> bytes, gas |-> fuel, static |-> FALSE, original |-> 0, hook |-> "none",
   action |-> "none"]

\* Every operand of every arithmetic opcode.
ArithmeticFrames ==
  {Frame(Push2(y) \o Push2(x) \o Ins(op), 300) : x \in Word, y \in Word, op \in Unary \cup Binary}
  \cup {Frame(Push1(z) \o Push2(y) \o Push2(x) \o Ins(op), 300) :
          x \in Word, y \in Word, z \in 0 .. 3, op \in Ternary}

\* Two accesses to memory, at offsets up to the end of the address space.
Offsets == {0, 1, 5, 6, 7}
Access(op, offset, size) ==
  CASE op = "MLOAD" -> Push2(offset) \o Ins(op)
    [] op \in {"MSTORE", "MSTORE8"} -> Push2(9) \o Push2(offset) \o Ins(op)
    [] op \in CopyOps \cup {"MCOPY"} -> Push1(size) \o Push1(1) \o Push2(offset) \o Ins(op)
    [] op = "EXTCODE" -> Push1(size) \o Push1(1) \o Push2(offset) \o Push1(2) \o Ins("EXTCODECOPY")
    [] op = "LOG1" -> Push1(1) \o Push2(size) \o Push2(offset) \o Ins(op)
    [] OTHER -> Push2(size) \o Push2(offset) \o Ins(op)
Accesses ==
  {Access(op, offset, size) :
     op \in {"MLOAD", "MSTORE", "MSTORE8", "MCOPY", "CODECOPY", "CALLDATACOPY", "RETURNDATACOPY",
             "EXTCODE", "LOG0", "LOG1", "KECCAK256", "RETURN", "REVERT"},
     offset \in Offsets, size \in {0, 1, 3}}
MemoryFrames ==
  {Frame(a \o b \o Ins("MSIZE"), 3900) : a \in Accesses, b \in Accesses}

\* Any code of four bytes; pushed data may be a JUMPDEST or an opcode.
JumpBytes == {Byte("PUSH1", 1), Byte("PUSH2", 2), Byte("JUMP", 1), Byte("JUMPI", 2),
              Byte("JUMPDEST", 3), Byte("JUMPDEST", 2), Byte("PC", 0), Byte("STOP", 3)}
JumpFrames == {Frame(bytes, 60) : bytes \in [1 .. 4 -> JumpBytes]}

Write(value) == Push1(value) \o Push1(0) \o Ins("SSTORE")
StorageFrames ==
  {[Frame(Push1(v) \o Push1(0) \o Ins("TSTORE") \o Push1(0) \o Ins(op), 1000) EXCEPT !.static = static] :
     v \in {0, 1}, op \in {"TLOAD", "TSTORE", "SLOAD"}, static \in BOOLEAN}
  \cup
  {[Frame(before \o Write(v1) \o Write(v2) \o Write(v3), fuel) EXCEPT
      !.original = original, !.static = static] :
     before \in {<<>>, Push1(0) \o Ins("SLOAD") \o Push1(1) \o Ins("SLOAD")},
     v1 \in 0 .. 2, v2 \in 0 .. 2, v3 \in 0 .. 2, fuel \in {2200, 2900, 70000},
     original \in {0, 1}, static \in BOOLEAN}

Others ==
  {Ins(op) : op \in (ReadOps \ ContextOps) \cup {"ADDRESS", "SELFBALANCE", "POP", "DUP1", "SWAP1", "CLZ", "REVERT", "INVALID", "STOP"}}
  \cup {Push1(1) \o Ins(op) :
          op \in {"DUP1", "DUP2", "SWAP1", "BALANCE", "EXTCODESIZE", "BLOCKHASH",
                  "CALLDATALOAD", "POP", "SSTORE", "EXTCODEHASH", "BLOBHASH"}}
OtherFrames ==
  {Frame(a \o b \o c \o Push1(2), 3900) : a \in Others, b \in Others, c \in Others}

HookFrames ==
  {[Frame(<<Byte("PUSH1", 1), Byte("JUMPDEST", 2)>> \o a \o Push1(3) \o b, 3000) EXCEPT
      !.hook = hook, !.action = action] :
     a \in Others, b \in Others,
     hook \in {"PUSH1", "POP", "SSTORE", "ADDRESS"}, action \in {"halt", "revert", "replace"}}

MCStarts == {ArithmeticFrames, MemoryFrames, JumpFrames, StorageFrames, OtherFrames, HookFrames}
MCInput == <<1, 2, 3>>
MCUnavailable == {"CLZ"}
=============================================================================
