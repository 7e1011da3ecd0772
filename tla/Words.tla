-------------------------------- MODULE Words --------------------------------
(***************************************************************************)
(* The 256-bit words of the engine, scaled down: a word is WordBytes bytes *)
(* of ByteBits bits.  The operators follow op_arith.go and op_cmp.go, with *)
(* integers for big.Int; the references at the end say what the opcodes    *)
(* mean.                                                                   *)
(***************************************************************************)
EXTENDS Integers, FiniteSets

CONSTANTS
  ByteBits,   \* 8 in the code
  WordBytes   \* 32 in the code

ASSUME WordsAssumption == ByteBits \in Nat \ {0} /\ WordBytes \in Nat \ {0}

WordBits == ByteBits * WordBytes
Word == 0 .. 2 ^ WordBits - 1
uint256Max == 2 ^ WordBits - 1

Bit(x, i) == (x \div 2 ^ i) % 2

\* The word whose bits are those of a set.
OfBits(set) ==
  LET low[i \in 0 .. WordBits] ==
        IF i = 0 THEN 0 ELSE low[i - 1] + (IF i - 1 \in set THEN 2 ^ (i - 1) ELSE 0)
  IN low[WordBits]

Bits(x) == {i \in 0 .. WordBits - 1 : Bit(x, i) = 1}

And(x, y) == OfBits(Bits(x) \cap Bits(y))
Or(x, y) == OfBits(Bits(x) \cup Bits(y))
Xor(x, y) == OfBits((Bits(x) \cup Bits(y)) \ (Bits(x) \cap Bits(y)))

u256(x) == x % 2 ^ WordBits

toSigned(x) == IF Bit(x, WordBits - 1) = 1 THEN x - 2 ^ WordBits ELSE x

toUnsigned(x) == IF x < 0 THEN x + 2 ^ WordBits ELSE x

Abs(x) == IF x < 0 THEN -x ELSE x

\* big.Int's Quo and Rem round towards zero.
Quo(x, y) == IF (x < 0) = (y < 0) THEN Abs(x) \div Abs(y) ELSE -(Abs(x) \div Abs(y))
Rem(x, y) == x - y * Quo(x, y)

Truth(condition) == IF condition THEN 1 ELSE 0

-----------------------------------------------------------------------------
(* Arithmetic.  The first operand is the top of the stack.                 *)

opDiv(x, y) == IF y = 0 THEN 0 ELSE u256(x \div y)
opMod(x, y) == IF y = 0 THEN 0 ELSE x % y

\* Variant with a bug: rounds down.
SdivFloor(x, y) ==
  IF y = 0 THEN 0
  ELSE LET a == toSigned(x) b == toSigned(y)
       IN u256(IF b > 0 THEN a \div b ELSE (-a) \div (-b))

opSdiv(x, y) == IF y = 0 THEN 0 ELSE toUnsigned(Quo(toSigned(x), toSigned(y)))
opSmod(x, y) == IF y = 0 THEN 0 ELSE toUnsigned(Rem(toSigned(x), toSigned(y)))

\* The sum and the product are not cut down to a word first.
opAddmod(x, y, z) == IF z = 0 THEN 0 ELSE (x + y) % z
opMulmod(x, y, z) == IF z = 0 THEN 0 ELSE (x * y) % z

opExp(base, exponent) ==
  LET power[n \in 0 .. exponent] == IF n = 0 THEN 1 ELSE u256(power[n - 1] * base)
  IN power[exponent]

opSignextend(back, x) ==
  IF back > WordBytes - 1 THEN x
  ELSE LET bitpos == back * ByteBits + ByteBits - 1
           mask == 2 ^ bitpos - 1
       IN IF Bit(x, bitpos) = 1 THEN Or(x, uint256Max - mask) ELSE And(x, mask)

-----------------------------------------------------------------------------
(* Comparison and bits.                                                    *)

\* The most significant byte is number 0.
ByteOf(x, n) == (x \div 2 ^ (ByteBits * (WordBytes - 1 - n))) % 2 ^ ByteBits

opByte(n, x) == IF n >= WordBytes THEN 0 ELSE ByteOf(x, n)
opShl(shift, x) == IF shift >= WordBits THEN 0 ELSE u256(x * 2 ^ shift)
opShr(shift, x) == IF shift >= WordBits THEN 0 ELSE x \div 2 ^ shift

\* big.Int's Rsh of a negative number rounds down.
opSar(shift, x) ==
  IF shift >= WordBits THEN IF Bit(x, WordBits - 1) = 1 THEN uint256Max ELSE 0
  ELSE toUnsigned(toSigned(x) \div 2 ^ shift)

\* The loop from the highest bit down.
opClz(x) ==
  Cardinality({i \in 0 .. WordBits - 1 : \A j \in i .. WordBits - 1 : Bit(x, j) = 0})

Unary == {"ISZERO", "NOT", "CLZ"}
Ternary == {"ADDMOD", "MULMOD"}
Binary == {"ADD", "MUL", "SUB", "DIV", "SDIV", "MOD", "SMOD", "EXP", "SIGNEXTEND", "LT", "GT",
           "SLT", "SGT", "EQ", "AND", "OR", "XOR", "BYTE", "SHL", "SHR", "SAR"}
Arithmetic == Unary \cup Binary \cup Ternary

Arity(op) == IF op \in Unary THEN 1 ELSE IF op \in Binary THEN 2 ELSE 3

\* What the handler of op pushes; args[1] was the top of the stack.
Computed(op, args) ==
  LET x == args[1]
      y == args[2]
      z == args[3]
  IN CASE op = "ADD" -> u256(x + y)
       [] op = "MUL" -> u256(x * y)
       [] op = "SUB" -> u256(x - y)
       [] op = "DIV" -> opDiv(x, y)
       [] op = "SDIV" -> opSdiv(x, y)
       [] op = "MOD" -> opMod(x, y)
       [] op = "SMOD" -> opSmod(x, y)
       [] op = "ADDMOD" -> opAddmod(x, y, z)
       [] op = "MULMOD" -> opMulmod(x, y, z)
       [] op = "EXP" -> opExp(x, y)
       [] op = "SIGNEXTEND" -> opSignextend(x, y)
       [] op = "LT" -> Truth(x < y)
       [] op = "GT" -> Truth(x > y)
       [] op = "SLT" -> Truth(toSigned(x) < toSigned(y))
       [] op = "SGT" -> Truth(toSigned(x) > toSigned(y))
       [] op = "EQ" -> Truth(x = y)
       [] op = "ISZERO" -> Truth(x = 0)
       [] op = "AND" -> And(x, y)
       [] op = "OR" -> Or(x, y)
       [] op = "XOR" -> Xor(x, y)
       [] op = "NOT" -> Xor(x, uint256Max)
       [] op = "BYTE" -> opByte(x, y)
       [] op = "SHL" -> opShl(x, y)
       [] op = "SHR" -> opShr(x, y)
       [] op = "SAR" -> opSar(x, y)
       [] op = "CLZ" -> opClz(x)

-----------------------------------------------------------------------------
(* References: a word stands for a number modulo 2^WordBits, and as a      *)
(* signed number for the one nearest to zero.                              *)

SignedWord == -(2 ^ (WordBits - 1)) .. 2 ^ (WordBits - 1) - 1

Meaning(x) == CHOOSE s \in SignedWord : (s - x) % 2 ^ WordBits = 0

Congruent(r, n) == r \in Word /\ (r - n) % 2 ^ WordBits = 0

\* n is a \div b rounded towards zero.
Truncates(n, a, b) ==
  LET rest == a - b * n
  IN Abs(rest) < Abs(b) /\ (rest = 0 \/ (rest < 0) = (a < 0))

\* What the opcodes mean: r is right for args.
Right(op, args, r) ==
  LET x == args[1]
      y == args[2]
      z == args[3]
      power == 2 ^ x
  IN CASE op \in {"ADD", "SUB", "MUL"} ->
            LET a == Meaning(x)
                b == Meaning(y)
            IN Congruent(r, IF op = "ADD" THEN a + b ELSE IF op = "SUB" THEN a - b ELSE a * b)
       [] op = "DIV" -> IF y = 0 THEN r = 0 ELSE r * y <= x /\ x < (r + 1) * y
       [] op = "MOD" -> IF y = 0 THEN r = 0 ELSE r \in 0 .. y - 1 /\ (x - r) % y = 0
       [] op = "SDIV" -> IF y = 0 THEN r = 0
                         ELSE \E n \in -(2 ^ WordBits) .. 2 ^ WordBits :
                                Truncates(n, Meaning(x), Meaning(y)) /\ Congruent(r, n)
       [] op = "SMOD" -> IF y = 0 THEN r = 0
                         ELSE \E n \in -(2 ^ WordBits) .. 2 ^ WordBits :
                                /\ Truncates(n, Meaning(x), Meaning(y))
                                /\ Congruent(r, Meaning(x) - n * Meaning(y))
       [] op = "ADDMOD" -> IF z = 0 THEN r = 0 ELSE r \in 0 .. z - 1 /\ (x + y - r) % z = 0
       [] op = "MULMOD" -> IF z = 0 THEN r = 0 ELSE r \in 0 .. z - 1 /\ (x * y - r) % z = 0
       [] op = "SIGNEXTEND" ->
            IF x >= WordBytes THEN r = y
            ELSE LET range == 2 ^ (ByteBits * (x + 1))
                 IN /\ 2 * Meaning(r) \in -range .. range - 1
                    /\ (Meaning(r) - y) % range = 0
       [] op \in {"SLT", "SGT"} ->
            r = Truth(IF op = "SLT" THEN Meaning(x) < Meaning(y) ELSE Meaning(x) > Meaning(y))
       [] op = "NOT" -> r + x = uint256Max
       [] op = "BYTE" ->
            IF x >= WordBytes THEN r = 0
            ELSE LET low == 2 ^ (ByteBits * (WordBytes - 1 - x))
                 IN r \in 0 .. 2 ^ ByteBits - 1 /\ (y \div low - r) % 2 ^ ByteBits = 0
       [] op = "SHL" -> Congruent(r, y * power)
       [] op = "SHR" -> r * power <= y /\ y < (r + 1) * power
       [] op = "SAR" -> Meaning(r) * power <= Meaning(y) /\ Meaning(y) < (Meaning(r) + 1) * power
       [] op = "CLZ" -> IF x = 0 THEN r = WordBits
                        ELSE 2 ^ WordBits <= 2 ^ (r + 1) * x /\ 2 ^ r * x < 2 ^ WordBits
       [] OTHER -> r \in Word
=============================================================================
