-------------------------- MODULE InterpreterProofs --------------------------
(***************************************************************************)
(* What is proved of Interpreter, for words of any width, any code and any *)
(* operands: types, that arithmetic is right, that loops cost gas, that    *)
(* memory is paid for, that data is not executed, and that what storage    *)
(* costs is net.                                                           *)
(***************************************************************************)
EXTENDS Interpreter, FiniteSetTheorems, SequenceTheorems, TLAPS

-----------------------------------------------------------------------------
(* Numbers.                                                                *)

\* Induction over the naturals, for a set: from its members below the first
\* number it lacks there would be an injection into themselves that misses 0.
LEMMA SetInduction ==
  ASSUME NEW S, 0 \in S, \A n \in Nat : n \in S => n + 1 \in S
  PROVE  Nat \subseteq S
<1> SUFFICES ASSUME NEW m \in Nat, m \notin S PROVE FALSE
  OBVIOUS
<1> DEFINE T == {k \in 0 .. m : k \in S}
           f == [k \in T |-> k + 1]
<1>1. IsFiniteSet(T)
  <2>1. IsFiniteSet(0 .. m)
    BY FS_Interval
  <2>2. T \in SUBSET (0 .. m)
    OBVIOUS
  <2> HIDE DEF T
  <2> QED BY <2>1, <2>2, FS_Subset
<1>2. f \in [T -> T]
  <2> SUFFICES ASSUME NEW k \in T PROVE k + 1 \in T
    OBVIOUS
  <2> k \in Nat /\ k \in S /\ k <= m /\ k # m
    OBVIOUS
  <2> QED OBVIOUS
<1>3. f \in Injection(T, T)
  BY <1>2 DEF Injection, IsInjective
<1>4. f \in Surjection(T, T)
  BY <1>1, <1>3, FS_Injection
<1>5. 0 \in T
  OBVIOUS
<1>6. \E k \in T : f[k] = 0
  BY <1>4, <1>5 DEF Surjection
<1> QED
  BY <1>6

\* Powers of two count sets.
LEMMA PowerCounts ==
  ASSUME NEW a \in Nat, NEW n \in Nat
  PROVE  /\ IsFiniteSet(SUBSET (a + 1 .. a + n)) /\ Cardinality(SUBSET (a + 1 .. a + n)) = 2 ^ n
         /\ 2 ^ n \in Nat
<1>1. IsFiniteSet(a + 1 .. a + n) /\ Cardinality(a + 1 .. a + n) = n
  <2>1. /\ IsFiniteSet(a + 1 .. a + n)
        /\ Cardinality(a + 1 .. a + n) = IF a + 1 > a + n THEN 0 ELSE (a + n) - (a + 1) + 1
    BY FS_Interval
  <2> QED BY <2>1
<1>2. /\ IsFiniteSet(SUBSET (a + 1 .. a + n))
      /\ Cardinality(SUBSET (a + 1 .. a + n)) = 2 ^ Cardinality(a + 1 .. a + n)
  BY <1>1, FS_SUBSET
<1>3. Cardinality(SUBSET (a + 1 .. a + n)) \in Nat
  BY <1>2, FS_CardinalityType
<1> QED BY <1>1, <1>2, <1>3

LEMMA PowerOfSum ==
  ASSUME NEW a \in Nat, NEW b \in Nat
  PROVE  2 ^ (a + b) = 2 ^ a * 2 ^ b
<1> DEFINE A == SUBSET (0 + 1 .. 0 + a)
           B == SUBSET (a + 1 .. a + b)
           C == SUBSET (0 + 1 .. 0 + (a + b))
           f == [p \in A \X B |-> p[1] \cup p[2]]
<1>1. /\ IsFiniteSet(A) /\ Cardinality(A) = 2 ^ a
      /\ IsFiniteSet(B) /\ Cardinality(B) = 2 ^ b
      /\ IsFiniteSet(C) /\ Cardinality(C) = 2 ^ (a + b)
  <2>1. a + b \in Nat /\ 0 \in Nat
    OBVIOUS
  <2> QED BY <2>1, PowerCounts
<1>2. IsFiniteSet(A \X B) /\ Cardinality(A \X B) = 2 ^ a * 2 ^ b
  <2> HIDE DEF A, B
  <2> QED BY <1>1, FS_Product
<1>3. f \in [A \X B -> C]
  <2> SUFFICES ASSUME NEW s \in A, NEW t \in B PROVE s \cup t \in C
    OBVIOUS
  <2> QED OBVIOUS
<1>4. ASSUME NEW p \in A \X B, NEW q \in A \X B, f[p] = f[q] PROVE p = q
  <2>1. PICK s \in A, t \in B : p = <<s, t>>
    OBVIOUS
  <2>2. PICK u \in A, v \in B : q = <<u, v>>
    OBVIOUS
  <2>3. s \cup t = u \cup v
    BY <1>4, <2>1, <2>2
  <2>4. s = u /\ t = v
    <3>1. \A x \in s \cup u : x \notin t \cup v
      <4> \A x \in s \cup u : x \in 1 .. a
        OBVIOUS
      <4> \A x \in t \cup v : x \in a + 1 .. a + b
        OBVIOUS
      <4> HIDE DEF A, B
      <4> QED OBVIOUS
    <3> HIDE DEF A, B
    <3> QED BY <2>3, <3>1
  <2> QED BY <2>1, <2>2, <2>4
<1>5. ASSUME NEW x \in C PROVE \E p \in A \X B : f[p] = x
  <2> DEFINE s == x \cap (1 .. a)
             t == x \cap (a + 1 .. a + b)
  <2>1. s \in A /\ t \in B
    OBVIOUS
  <2>2. x = s \cup t
    <3> \A e \in x : e \in 1 .. a \/ e \in a + 1 .. a + b
      OBVIOUS
    <3> QED OBVIOUS
  <2> HIDE DEF s, t, A, B
  <2>3. f[<<s, t>>] = x
    BY <2>1, <2>2
  <2> QED BY <2>1, <2>3
<1>6. f \in Bijection(A \X B, C)
  <2> HIDE DEF A, B, C, f
  <2> QED BY <1>3, <1>4, <1>5 DEF Bijection, Injection, Surjection, IsInjective
<1>7. Cardinality(C) = Cardinality(A \X B)
  <2> HIDE DEF A, B, C, f
  <2> QED BY <1>2, <1>6, FS_Bijection DEF ExistsBijection
<1> QED BY <1>1, <1>2, <1>7

LEMMA Powers ==
  /\ \A n \in Nat : 2 ^ n \in Nat /\ 2 ^ n > n /\ 2 ^ (n + 1) = 2 ^ n + 2 ^ n
  /\ 2 ^ 0 = 1 /\ 2 ^ 1 = 2
  /\ \A m, n \in Nat : m <= n => 2 ^ m <= 2 ^ n
<1>1. 2 ^ 0 = 1 /\ 2 ^ 1 = 2
  OBVIOUS
<1>2. ASSUME NEW n \in Nat PROVE 2 ^ n \in Nat /\ 2 ^ (n + 1) = 2 ^ n + 2 ^ n
  <2>1. 2 ^ n \in Nat
    BY PowerCounts
  <2>2. 2 ^ (n + 1) = 2 ^ n * 2 ^ 1
    BY PowerOfSum
  <2> QED BY <1>1, <2>1, <2>2
<1>3. \A n \in Nat : 2 ^ n > n
  <2> DEFINE S == {n \in Nat : 2 ^ n > n}
  <2>1. 0 \in S
    BY <1>1
  <2>2. \A n \in Nat : n \in S => n + 1 \in S
    BY <1>2
  <2>3. Nat \subseteq S
    <3> HIDE DEF S
    <3> QED BY <2>1, <2>2, SetInduction
  <2> QED BY <2>3
<1>4. ASSUME NEW m \in Nat, NEW n \in Nat, m <= n PROVE 2 ^ m <= 2 ^ n
  <2>1. PICK d \in Nat : n = m + d
    <3>1. n - m \in Nat /\ n = m + (n - m)
      BY <1>4
    <3> QED BY <3>1
  <2>2. 2 ^ n = 2 ^ m * 2 ^ d
    BY <2>1, PowerOfSum
  <2>3. 2 ^ m \in Nat /\ 2 ^ d \in Nat /\ 2 ^ d >= 1
    BY <1>2, <1>3
  <2>4. \A x, y \in Nat : y >= 1 => x <= x * y
    BY SMTT(20)
  <2> QED BY <2>2, <2>3, <2>4
<1> QED BY <1>1, <1>2, <1>3, <1>4

LEMMA RemainderIs ==
  ASSUME NEW x \in Nat, NEW y \in Nat, y # 0, NEW q \in Nat, NEW r \in Nat, r < y, x = y * q + r
  PROVE  x % y = r
BY SMTT(20)

LEMMA Divides ==
  /\ \A x \in Int, y \in Nat \ {0} : x \div y \in Int /\ x % y \in 0 .. y - 1
  /\ \A x, y \in Nat : y # 0 => x \div y \in 0 .. x /\ y * (x \div y) <= x /\ x < y * (x \div y) + y
  /\ \A x \in Nat, y \in Nat \ {0} : x = y * (x \div y) + (x % y)
<1>1. \A x \in Int, y \in Nat \ {0} : x \div y \in Int /\ x % y \in 0 .. y - 1
  BY SMTT(20)
<1>2. \A x, y \in Nat : y # 0 => x \div y \in 0 .. x /\ y * (x \div y) <= x /\ x < y * (x \div y) + y
  BY SMTT(20)
<1>3. ASSUME NEW x \in Nat, NEW y \in Nat \ {0} PROVE x = y * (x \div y) + (x % y)
  <2>1. PICK q \in Nat : q = x \div y
    BY <1>2
  <2>2. PICK m \in Nat : m = y * q
    BY SMTT(20)
  <2>3. m <= x /\ x < m + y
    BY <1>2, <2>1, <2>2
  <2>4. PICK r \in Nat : r < y /\ x = m + r
    <3>1. x - m \in Nat /\ x - m < y /\ x = m + (x - m)
      BY <2>3
    <3> QED BY <3>1
  <2>5. y \in Nat /\ y # 0 /\ x = y * q + r
    BY <2>2, <2>4
  <2>6. x % y = r
    BY <2>4, <2>5, RemainderIs
  <2>7. x = y * q + (x % y)
    BY <2>5, <2>6
  <2> QED BY <2>1, <2>7
<1> QED BY <1>1, <1>2, <1>3

-----------------------------------------------------------------------------
(* Recursion on numbers.                                                   *)

LEMMA Stepwise ==
  ASSUME NEW n \in Nat, NEW S, 0 \in S, \A i \in 0 .. n - 1 : i \in S => i + 1 \in S
  PROVE  0 .. n \subseteq S
<1> DEFINE T == {i \in Nat : i <= n => i \in S}
<1>1. 0 \in T
  OBVIOUS
<1>2. ASSUME NEW i \in Nat, i \in T PROVE i + 1 \in T
  BY <1>2
<1>3. Nat \subseteq T
  <2> HIDE DEF T
  <2> QED BY <1>1, <1>2, SetInduction
<1> QED BY <1>3

\* The value of f at each number is the function G[i] of the value before it.
Recursive(f, n, first, G) == f = [i \in 0 .. n |-> IF i = 0 THEN first ELSE G[i][f[i - 1]]]

LEMMA Element ==
  ASSUME NEW T, NEW s \in Seq(T), NEW i \in 1 .. Len(s)
  PROVE  s[i] \in T
OBVIOUS

\* A function by recursion on a number exists.
LEMMA Recursion ==
  ASSUME NEW n \in Nat, NEW D, NEW first \in D, NEW G \in [1 .. n -> [D -> D]]
  PROVE  \E f \in [0 .. n -> D] : Recursive(f, n, first, G)
<1> DEFINE Solves(f, k) == \A i \in 0 .. k : f[i] = IF i = 0 THEN first ELSE G[i][f[i - 1]]
           S == {k \in 0 .. n : \E f \in [0 .. k -> D] : Solves(f, k)}
<1>1. 0 \in S
  <2> DEFINE f == [i \in 0 .. 0 |-> first]
  <2>1. f \in [0 .. 0 -> D] /\ Solves(f, 0)
    OBVIOUS
  <2> HIDE DEF f, Solves
  <2> QED BY <2>1
<1>2. ASSUME NEW k \in 0 .. n - 1, k \in S PROVE k + 1 \in S
  <2>1. PICK f \in [0 .. k -> D] : Solves(f, k)
    BY <1>2
  <2> DEFINE g == [i \in 0 .. k + 1 |-> IF i = k + 1 THEN G[k + 1][f[k]] ELSE f[i]]
  <2>2. f[k] \in D /\ k + 1 \in 1 .. n /\ G[k + 1][f[k]] \in D
    OBVIOUS
  <2>3. g \in [0 .. k + 1 -> D]
    BY <2>2
  <2>4. ASSUME NEW i \in 0 .. k + 1 PROVE g[i] = IF i = 0 THEN first ELSE G[i][g[i - 1]]
    <3>1. CASE i = k + 1
      <4>1. g[i] = G[k + 1][f[k]] /\ i - 1 = k /\ g[k] = f[k] /\ i # 0
        BY <3>1
      <4> HIDE DEF g
      <4> QED BY <3>1, <4>1
    <3>2. CASE i # k + 1
      <4>1. i \in 0 .. k
        BY <3>2
      <4>2. g[i] = f[i]
        BY <3>2
      <4>3. f[i] = IF i = 0 THEN first ELSE G[i][f[i - 1]]
        BY <2>1, <4>1
      <4>4. i # 0 => g[i - 1] = f[i - 1]
        BY <4>1
      <4> HIDE DEF g
      <4> QED BY <4>2, <4>3, <4>4
    <3> QED BY <3>1, <3>2
  <2> HIDE DEF g
  <2>5. Solves(g, k + 1)
    BY <2>4
  <2>6. k + 1 \in 0 .. n
    OBVIOUS
  <2> HIDE DEF Solves
  <2> QED BY <2>3, <2>5, <2>6
<1>3. n \in S
  <2> HIDE DEF S
  <2>1. 0 .. n \subseteq S
    BY <1>1, <1>2, Stepwise
  <2> QED BY <2>1
<1>4. PICK f \in [0 .. n -> D] : Solves(f, n)
  BY <1>3
<1>5. f = [i \in 0 .. n |-> IF i = 0 THEN first ELSE G[i][f[i - 1]]]
  BY <1>4
<1> QED BY <1>5 DEF Recursive

\* The words.
LEMMA WordFacts ==
  /\ WordBits \in Nat \ {0} /\ ByteBits <= WordBits
  /\ 2 ^ WordBits \in Nat /\ 2 ^ WordBits > WordBits
  /\ Word = 0 .. 2 ^ WordBits - 1 /\ 0 \in Word /\ 1 \in Word /\ Word \subseteq Nat
  /\ \A x \in Int : u256(x) \in Word
<1>1. WordBits \in Nat \ {0} /\ ByteBits <= WordBits
  BY WordsAssumption, SMTT(20) DEF WordBits
<1>2. 2 ^ WordBits \in Nat /\ 2 ^ WordBits > WordBits
  BY <1>1, Powers
<1>3. Word = 0 .. 2 ^ WordBits - 1
  BY DEF Word
<1>4. ASSUME NEW x \in Int PROVE u256(x) \in Word
  <2>1. PICK p \in Nat \ {0} : p = 2 ^ WordBits
    BY <1>1, <1>2
  <2>2. x % p \in 0 .. p - 1
    BY Divides
  <2> QED BY <1>3, <2>1, <2>2 DEF u256
<1> QED BY <1>1, <1>2, <1>3, <1>4

\* What OfBits adds up, bit by bit.
LEMMA OfBitsLow ==
  ASSUME NEW set
  PROVE  \E low : /\ low[0] = 0 /\ OfBits(set) = low[WordBits]
                  /\ \A i \in 0 .. WordBits - 1 :
                       low[i + 1] = low[i] + (IF i \in set THEN 2 ^ i ELSE 0)
<1> DEFINE first == 0
           G == [i \in 1 .. WordBits |-> [d \in Nat |-> d + (IF i - 1 \in set THEN 2 ^ (i - 1) ELSE 0)]]
           low[i \in 0 .. WordBits] ==
             IF i = 0 THEN 0 ELSE low[i - 1] + (IF i - 1 \in set THEN 2 ^ (i - 1) ELSE 0)
<1>1. G \in [1 .. WordBits -> [Nat -> Nat]]
  <2> SUFFICES ASSUME NEW i \in 1 .. WordBits PROVE 2 ^ (i - 1) \in Nat
    OBVIOUS
  <2> QED BY Powers, WordFacts
<1>2. low = [i \in 0 .. WordBits |->
               IF i = 0 THEN 0 ELSE low[i - 1] + (IF i - 1 \in set THEN 2 ^ (i - 1) ELSE 0)]
  <2>1. PICK f \in [0 .. WordBits -> Nat] : Recursive(f, WordBits, 0, G)
    <3>1. WordBits \in Nat /\ 0 \in Nat
      BY WordFacts
    <3> HIDE DEF G
    <3> QED BY <1>1, <3>1, Recursion
  <2>2. ASSUME NEW i \in 0 .. WordBits
        PROVE  f[i] = IF i = 0 THEN 0 ELSE f[i - 1] + (IF i - 1 \in set THEN 2 ^ (i - 1) ELSE 0)
    <3>1. CASE i = 0
      BY <2>1, <3>1 DEF Recursive
    <3>2. CASE i # 0
      <4>1. i \in 1 .. WordBits /\ i - 1 \in 0 .. WordBits
        BY <3>2, WordFacts
      <4> f[i - 1] \in Nat
        <5> HIDE DEF G
        <5> QED BY <4>1
      <4>2. f[i] = G[i][f[i - 1]]
        <5> HIDE DEF G
        <5> QED BY <2>1, <3>2 DEF Recursive
      <4>3. G[i][f[i - 1]] = f[i - 1] + (IF i - 1 \in set THEN 2 ^ (i - 1) ELSE 0)
        BY <4>1
      <4> HIDE DEF G
      <4> QED BY <3>2, <4>2, <4>3
    <3> QED BY <3>1, <3>2
  <2>3. f = [i \in 0 .. WordBits |->
               IF i = 0 THEN 0 ELSE f[i - 1] + (IF i - 1 \in set THEN 2 ^ (i - 1) ELSE 0)]
    <3> HIDE DEF G
    <3> QED BY <2>2
  <2> QED BY <2>3
<1>3. OfBits(set) = low[WordBits]
  BY DEF OfBits
<1> HIDE DEF low
<1>4. low[0] = 0
  BY <1>2, WordFacts
<1>5. ASSUME NEW i \in 0 .. WordBits - 1
      PROVE  low[i + 1] = low[i] + (IF i \in set THEN 2 ^ i ELSE 0)
  <2>1. i \in Nat /\ i + 1 \in 0 .. WordBits /\ i + 1 # 0 /\ (i + 1) - 1 = i
    BY WordFacts
  <2> QED BY ONLY <1>2, <2>1
<1> QED BY <1>3, <1>4, <1>5

\* It stays below the next power of two.
LEMMA OfBitsIsWord ==
  ASSUME NEW set
  PROVE  OfBits(set) \in Word
<1>1. PICK low : /\ low[0] = 0 /\ OfBits(set) = low[WordBits]
                 /\ \A i \in 0 .. WordBits - 1 :
                      low[i + 1] = low[i] + (IF i \in set THEN 2 ^ i ELSE 0)
  BY OfBitsLow, Zenon
<1> DEFINE S == {i \in 0 .. WordBits : low[i] \in 0 .. 2 ^ i - 1}
<1>2. 0 \in S
  BY <1>1, Powers, WordFacts
<1>3. ASSUME NEW i \in 0 .. WordBits - 1, i \in S PROVE i + 1 \in S
  <2>1. i \in Nat /\ i + 1 \in 0 .. WordBits
    BY WordFacts
  <2>2. low[i + 1] = low[i] + (IF i \in set THEN 2 ^ i ELSE 0)
    BY <1>1
  <2>3. low[i] \in 0 .. 2 ^ i - 1
    BY <1>3
  <2>4. 2 ^ i \in Nat /\ 2 ^ (i + 1) = 2 ^ i + 2 ^ i
    BY <2>1, Powers
  <2>5. low[i + 1] \in 0 .. 2 ^ (i + 1) - 1
    BY <2>2, <2>3, <2>4
  <2> QED BY <2>1, <2>5
<1>4. WordBits \in S
  <2> HIDE DEF S
  <2>1. WordBits \in Nat
    BY WordFacts
  <2>2. 0 .. WordBits \subseteq S
    BY <1>2, <1>3, <2>1, Stepwise
  <2> QED BY <2>1, <2>2
<1> QED BY <1>1, <1>4, WordFacts

\* The same for exponentiation: each product is cut to a word.
LEMMA ExpIsWord ==
  ASSUME NEW base \in Word, NEW exponent \in Nat
  PROVE  opExp(base, exponent) \in Word
<1> DEFINE G == [i \in 1 .. exponent |-> [d \in Word |-> u256(d * base)]]
           power[n \in 0 .. exponent] == IF n = 0 THEN 1 ELSE u256(power[n - 1] * base)
<1>1. \A d \in Word : u256(d * base) \in Word
  <2>1. \A d \in Word : d * base \in Int
    BY WordFacts
  <2> QED BY <2>1, WordFacts
<1>2. power = [n \in 0 .. exponent |-> IF n = 0 THEN 1 ELSE u256(power[n - 1] * base)]
  <2>1. PICK f \in [0 .. exponent -> Word] : Recursive(f, exponent, 1, G)
    <3>1. G \in [1 .. exponent -> [Word -> Word]]
      BY <1>1
    <3>2. 1 \in Word
      BY WordFacts
    <3> HIDE DEF G
    <3> QED BY <3>1, <3>2, Recursion
  <2>2. ASSUME NEW n \in 0 .. exponent
        PROVE  f[n] = IF n = 0 THEN 1 ELSE u256(f[n - 1] * base)
    <3>1. CASE n = 0
      BY <2>1, <3>1 DEF Recursive
    <3>2. CASE n # 0
      <4>1. n \in 1 .. exponent /\ n - 1 \in 0 .. exponent
        BY <3>2
      <4>2. f[n - 1] \in Word
        <5> HIDE DEF G
        <5> QED BY <4>1
      <4>3. f[n] = G[n][f[n - 1]]
        <5> HIDE DEF G
        <5> QED BY <2>1, <3>2 DEF Recursive
      <4>4. G[n][f[n - 1]] = u256(f[n - 1] * base)
        BY <4>1, <4>2
      <4> HIDE DEF G
      <4> QED BY <3>2, <4>3, <4>4
    <3> QED BY <3>1, <3>2
  <2>3. f = [n \in 0 .. exponent |-> IF n = 0 THEN 1 ELSE u256(f[n - 1] * base)]
    <3> HIDE DEF G
    <3> QED BY <2>2
  <2> QED BY <2>3
<1> HIDE DEF power
<1> DEFINE S == {n \in 0 .. exponent : power[n] \in Word}
<1>3. 0 \in S
  BY <1>2, WordFacts
<1>4. ASSUME NEW n \in 0 .. exponent - 1, n \in S PROVE n + 1 \in S
  <2>1. n + 1 \in 0 .. exponent /\ n + 1 # 0 /\ (n + 1) - 1 = n
    OBVIOUS
  <2>2. power[n + 1] = u256(power[n] * base)
    BY ONLY <1>2, <2>1
  <2> QED BY <1>1, <1>4, <2>1, <2>2
<1>5. exponent \in S
  <2> HIDE DEF S
  <2>1. 0 .. exponent \subseteq S
    BY <1>3, <1>4, Stepwise
  <2> QED BY <2>1
<1>6. power[exponent] \in Word
  BY <1>5
<1> QED BY <1>6 DEF opExp, power

\* Signed words.
LEMMA SignedFacts ==
  /\ \A x \in Word : toSigned(x) \in Int /\ -(2 ^ WordBits) < toSigned(x) /\ toSigned(x) < 2 ^ WordBits
  /\ \A s \in Int : -(2 ^ WordBits) < s /\ s < 2 ^ WordBits => toUnsigned(s) \in Word
<1>1. ASSUME NEW x \in Word
      PROVE  toSigned(x) \in Int /\ -(2 ^ WordBits) < toSigned(x) /\ toSigned(x) < 2 ^ WordBits
  <2>1. CASE x = 0
    <3>1. PICK p \in Nat \ {0} : p = 2 ^ (WordBits - 1)
      <4>1. WordBits - 1 \in Nat
        BY WordFacts
      <4> QED BY <4>1, Powers
    <3>2. 0 \div p = 0
      OBVIOUS
    <3>3. Bit(x, WordBits - 1) # 1
      BY <2>1, <3>1, <3>2 DEF Bit
    <3> QED BY <2>1, <3>3, WordFacts DEF toSigned
  <2>2. CASE x # 0
    <3>1. PICK m \in Nat : m = 2 ^ WordBits
      BY WordFacts
    <3>2. x \in 1 .. m - 1
      BY <2>2, <3>1, WordFacts
    <3>3. toSigned(x) = x \/ toSigned(x) = x - m
      BY <3>1 DEF toSigned
    <3> QED BY <3>1, <3>2, <3>3
  <2> QED BY <2>1, <2>2
<1>2. ASSUME NEW s \in Int, -(2 ^ WordBits) < s, s < 2 ^ WordBits PROVE toUnsigned(s) \in Word
  BY <1>2, WordFacts DEF toUnsigned
<1> QED BY <1>1, <1>2

\* Division towards zero takes no number further from zero, and neither does
\* its remainder.
LEMMA QuoRem ==
  ASSUME NEW a \in Int, NEW b \in Int, b # 0
  PROVE  /\ Quo(a, b) \in Int /\ -Abs(a) <= Quo(a, b) /\ Quo(a, b) <= Abs(a)
         /\ Rem(a, b) \in Int /\ -Abs(a) <= Rem(a, b) /\ Rem(a, b) <= Abs(a)
<1>1. Abs(a) \in Nat /\ Abs(b) \in Nat \ {0}
  BY DEF Abs
<1>2. PICK x \in Nat, y \in Nat \ {0} : x = Abs(a) /\ y = Abs(b)
  BY <1>1
<1>3. PICK q \in Nat : q = x \div y /\ q <= x /\ y * q <= x
  <2>1. x \div y \in 0 .. x /\ y * (x \div y) <= x
    BY Divides
  <2> QED BY <2>1
<1>4. PICK m \in Nat : m = y * q
  BY SMTT(20)
<1>5. Quo(a, b) = IF (a < 0) = (b < 0) THEN q ELSE -q
  BY <1>2, <1>3 DEF Quo
<1>6. b * Quo(a, b) = IF a < 0 THEN -m ELSE m
  <2>1. b * q = IF b < 0 THEN -m ELSE m
    BY <1>2, <1>4, SMTT(20) DEF Abs
  <2>2. b * (-q) = -(b * q)
    BY SMTT(20)
  <2>3. b * q \in Int
    BY SMTT(20)
  <2> QED BY <1>5, <2>1, <2>2, <2>3
<1>7. Rem(a, b) = a - (IF a < 0 THEN -m ELSE m)
  BY <1>6 DEF Rem
<1>8. m <= x /\ q <= x
  BY <1>3, <1>4
<1> QED BY <1>2, <1>5, <1>7, <1>8 DEF Abs

LEMMA ByteOfIsWord ==
  ASSUME NEW x \in Word, NEW n \in 0 .. WordBytes - 1
  PROVE  ByteOf(x, n) \in 0 .. 2 ^ ByteBits - 1 /\ ByteOf(x, n) \in Word
<1>1. PICK e \in Nat : e = ByteBits * (WordBytes - 1 - n)
  <2>1. WordBytes - 1 - n \in Nat
    BY WordsAssumption
  <2> QED BY <2>1, WordsAssumption, SMTT(20)
<1>2. PICK p \in Nat \ {0}, b \in Nat \ {0} : p = 2 ^ e /\ b = 2 ^ ByteBits
  BY WordsAssumption, Powers
<1>3. PICK q \in Nat : q = x \div p
  <2>1. x \in Nat
    BY WordFacts
  <2>2. x \div p \in 0 .. x
    BY <2>1, Divides
  <2> QED BY <2>2
<1>4. q % b \in 0 .. b - 1
  BY Divides
<1>5. ByteOf(x, n) = q % b
  BY <1>1, <1>2, <1>3 DEF ByteOf
<1>6. 2 ^ ByteBits <= 2 ^ WordBits
  BY WordFacts, WordsAssumption, Powers
<1>7. b <= 2 ^ WordBits
  BY <1>2, <1>6
<1>8. PICK m \in Nat : m = 2 ^ WordBits
  BY WordFacts
<1>9. ByteOf(x, n) \in 0 .. b - 1 /\ ByteOf(x, n) \in 0 .. m - 1
  BY <1>4, <1>5, <1>7, <1>8
<1> QED BY <1>2, <1>8, <1>9, WordFacts

LEMMA ShiftsAreWords ==
  ASSUME NEW shift \in Nat, NEW x \in Word
  PROVE  opShl(shift, x) \in Word /\ opShr(shift, x) \in Word /\ opSar(shift, x) \in Word
<1>1. PICK p \in Nat \ {0} : p = 2 ^ shift
  BY Powers
<1>2. x \in Nat
  BY WordFacts
<1>3. x * p \in Int /\ x \div p \in 0 .. x
  <2>1. x * p \in Int
    BY <1>2, SMTT(20)
  <2>2. x \div p \in 0 .. x
    BY <1>2, Divides
  <2> QED BY <2>1, <2>2
<1>4. opShl(shift, x) \in Word
  BY <1>1, <1>3, WordFacts DEF opShl
<1>5. opShr(shift, x) \in Word
  BY <1>1, <1>3, WordFacts DEF opShr
<1>6. PICK s \in Int : s = toSigned(x) /\ -(2 ^ WordBits) < s /\ s < 2 ^ WordBits
  BY SignedFacts
<1>7. \A a \in Int : a \div p \in Int /\ (a < 0 => a <= a \div p /\ a \div p < 0)
                     /\ (a >= 0 => 0 <= a \div p /\ a \div p <= a)
  BY SMTT(30)
<1>8. toUnsigned(s \div p) \in Word
  <2>1. PICK d \in Int : d = s \div p
    BY <1>7
  <2>2. -(2 ^ WordBits) < d /\ d < 2 ^ WordBits
    <3>1. PICK m \in Nat : m = 2 ^ WordBits
      BY WordFacts
    <3>2. /\ s < 0 => s <= d /\ d < 0
          /\ s >= 0 => 0 <= d /\ d <= s
      BY <1>7, <2>1
    <3>3. -m < s /\ s < m
      BY <1>6, <3>1
    <3>4. -m < d /\ d < m
      BY <3>2, <3>3
    <3> QED BY <3>1, <3>4
  <2> QED BY <2>1, <2>2, SignedFacts
<1>9. uint256Max \in Word
  BY WordFacts DEF uint256Max
<1>10. opSar(shift, x) \in Word
  BY <1>1, <1>6, <1>8, <1>9, WordFacts DEF opSar
<1> QED BY <1>4, <1>5, <1>10

LEMMA ClzIsWord ==
  ASSUME NEW x
  PROVE  opClz(x) \in Word
<1> DEFINE zeros == {i \in 0 .. WordBits - 1 : \A j \in i .. WordBits - 1 : Bit(x, j) = 0}
<1>1. IsFiniteSet(0 .. WordBits - 1) /\ Cardinality(0 .. WordBits - 1) = WordBits
  <2>1. WordBits - 1 \in Int /\ 0 \in Int /\ ~(0 > WordBits - 1) /\ (WordBits - 1) - 0 + 1 = WordBits
    BY WordFacts
  <2> QED BY <2>1, FS_Interval
<1>2. Cardinality(zeros) <= WordBits /\ IsFiniteSet(zeros)
  <2>1. zeros \in SUBSET (0 .. WordBits - 1)
    OBVIOUS
  <2> HIDE DEF zeros
  <2> QED BY <1>1, <2>1, FS_Subset
<1>3. Cardinality(zeros) \in Nat
  BY <1>2, FS_CardinalityType
<1> QED BY <1>2, <1>3, WordFacts DEF opClz

\* Whatever the operands are, what an arithmetic opcode pushes is a word.
LEMMA ComputedIsWord ==
  ASSUME NEW op \in Arithmetic, NEW args,
         \A i \in 1 .. Arity(op) : args[i] \in Word
  PROVE  Computed(op, args) \in Word
<1>1. PICK x, y, z : x = args[1] /\ y = args[2] /\ z = args[3]
  OBVIOUS
<1>2. /\ x \in Word
      /\ op \in Binary \cup Ternary => y \in Word
      /\ op \in Ternary => z \in Word
  BY <1>1 DEF Arity, Arithmetic, Unary, Binary, Ternary
<1>3. \A n \in Word : n \in Nat /\ 0 <= n /\ n < 2 ^ WordBits
  BY WordFacts
<1> HIDE DEF Word
<1>4. CASE op \in {"ADD", "MUL", "SUB"}
  <2>1. x \in Int /\ y \in Int
    BY <1>2, <1>3, <1>4 DEF Binary
  <2>2. x + y \in Int /\ x * y \in Int /\ x - y \in Int
    BY <2>1, SMTT(20)
  <2> QED BY <1>1, <1>4, <2>2, WordFacts DEF Computed
<1>5. CASE op \in {"DIV", "MOD"}
  <2>1. x \in Nat /\ y \in Nat /\ y \in Word
    BY <1>2, <1>3, <1>5 DEF Binary
  <2>2. y # 0 => x \div y \in Int /\ x % y \in 0 .. y - 1
    BY <2>1, Divides
  <2>3. opDiv(x, y) \in Word
    BY <2>2, WordFacts DEF opDiv
  <2>4. opMod(x, y) \in Word
    BY <2>1, <2>2, <1>3, WordFacts DEF opMod
  <2> QED BY <1>1, <1>5, <2>3, <2>4 DEF Computed
<1>6. CASE op \in {"SDIV", "SMOD"}
  <2>1. x \in Word /\ y \in Word
    BY <1>2, <1>6 DEF Binary
  <2>2. opSdiv(x, y) \in Word /\ opSmod(x, y) \in Word
    <3>1. CASE y = 0
      BY <3>1, WordFacts DEF opSdiv, opSmod
    <3>2. CASE y # 0
      <4>1. PICK a \in Int, b \in Int :
              /\ a = toSigned(x) /\ b = toSigned(y)
              /\ -(2 ^ WordBits) < a /\ a < 2 ^ WordBits
        BY <2>1, SignedFacts
      <4>2. b # 0
        <5>1. y < 2 ^ WordBits /\ y \in Nat
          BY <2>1, <1>3
        <5> QED BY <4>1, <5>1, <3>2, WordFacts DEF toSigned
      <4>3. \A n \in Int : -Abs(a) <= n /\ n <= Abs(a) => toUnsigned(n) \in Word
        <5>1. \A n \in Int : -Abs(a) <= n /\ n <= Abs(a) => -(2 ^ WordBits) < n /\ n < 2 ^ WordBits
          <6>1. PICK m \in Nat : m = 2 ^ WordBits
            BY WordFacts
          <6>2. -m < a /\ a < m
            BY <4>1, <6>1
          <6>3. \A n \in Int : -Abs(a) <= n /\ n <= Abs(a) => -m < n /\ n < m
            BY <6>2 DEF Abs
          <6> QED BY <6>1, <6>3
        <5> QED BY <5>1, SignedFacts
      <4>4. toUnsigned(Quo(a, b)) \in Word /\ toUnsigned(Rem(a, b)) \in Word
        BY <4>2, <4>3, QuoRem
      <4> QED BY <3>2, <4>1, <4>4 DEF opSdiv, opSmod
    <3> QED BY <3>1, <3>2
  <2> QED BY <1>1, <1>6, <2>2 DEF Computed
<1>7. CASE op \in Ternary
  <2>1. x \in Nat /\ y \in Nat /\ z \in Nat /\ z < 2 ^ WordBits
    BY <1>2, <1>3, <1>7
  <2>2. x + y \in Int /\ x * y \in Int
    BY <2>1, SMTT(20)
  <2>3. z # 0 => (x + y) % z \in 0 .. z - 1 /\ (x * y) % z \in 0 .. z - 1
    BY <2>1, <2>2, Divides
  <2>4. opAddmod(x, y, z) \in Word /\ opMulmod(x, y, z) \in Word
    <3>1. z = 0 => opAddmod(x, y, z) = 0 /\ opMulmod(x, y, z) = 0
      BY DEF opAddmod, opMulmod
    <3>2. z # 0 => opAddmod(x, y, z) = (x + y) % z /\ opMulmod(x, y, z) = (x * y) % z
      BY DEF opAddmod, opMulmod
    <3>3. PICK m \in Nat : m = 2 ^ WordBits
      BY WordFacts
    <3>4. 0 .. z - 1 \subseteq 0 .. m - 1 /\ 0 .. m - 1 = Word /\ 0 \in Word
      BY <2>1, <3>3, WordFacts
    <3> QED BY <2>3, <3>1, <3>2, <3>4
  <2> QED BY <1>1, <1>7, <2>4 DEF Computed, Ternary
<1>8. CASE op = "EXP"
  <2>1. opExp(x, y) \in Word
    BY <1>2, <1>3, <1>8, ExpIsWord DEF Binary
  <2> QED BY <1>1, <1>8, <2>1 DEF Computed
<1>9. CASE op \in {"SIGNEXTEND", "AND", "OR", "XOR", "NOT"}
  <2>1. \A a, b : And(a, b) \in Word /\ Or(a, b) \in Word /\ Xor(a, b) \in Word
    BY OfBitsIsWord DEF And, Or, Xor
  <2>2. op = "SIGNEXTEND" => opSignextend(x, y) \in Word
    BY <1>2, <2>1 DEF opSignextend, Binary
  <2> QED BY <1>1, <1>9, <2>1, <2>2 DEF Computed
<1>10. CASE op \in {"LT", "GT", "SLT", "SGT", "EQ", "ISZERO"}
  <2>1. \A c : Truth(c) \in Word
    BY WordFacts DEF Truth
  <2> QED BY <1>1, <1>10, <2>1 DEF Computed
<1>11. CASE op = "BYTE"
  <2>1. x \in Nat /\ y \in Word
    BY <1>2, <1>3, <1>11 DEF Binary
  <2>2. ~(x >= WordBytes) => x \in 0 .. WordBytes - 1
    BY <2>1, WordsAssumption
  <2>3. opByte(x, y) \in Word
    BY <2>1, <2>2, ByteOfIsWord, WordFacts DEF opByte
  <2> QED BY <1>1, <1>11, <2>3 DEF Computed
<1>12. CASE op \in {"SHL", "SHR", "SAR"}
  <2>1. x \in Nat /\ y \in Word
    BY <1>2, <1>3, <1>12 DEF Binary
  <2> QED BY <1>1, <1>12, <2>1, ShiftsAreWords DEF Computed
<1>13. CASE op = "CLZ"
  BY <1>1, <1>13, ClzIsWord DEF Computed
<1> QED
  BY <1>4, <1>5, <1>6, <1>7, <1>8, <1>9, <1>10, <1>11, <1>12, <1>13
     DEF Arithmetic, Unary, Binary

-----------------------------------------------------------------------------
(* Arithmetic.                                                             *)

LEMMA DivisionOf ==
  ASSUME NEW x \in Int, NEW y \in Nat \ {0}
  PROVE  x = y * (x \div y) + (x % y) /\ x \div y \in Int /\ x % y \in 0 .. y - 1
BY SMTT(20)

LEMMA DivisionIs ==
  ASSUME NEW y \in Nat \ {0}, NEW q \in Int, NEW r \in 0 .. y - 1, NEW x \in Int, x = y * q + r
  PROVE  x % y = r /\ x \div y = q
BY SMTT(20)

LEMMA MultipleIs ==
  ASSUME NEW y \in Nat \ {0}, NEW k \in Int, NEW x \in Int, x = y * k
  PROVE  x % y = 0 /\ x \div y = k
BY SMTT(20)

\* Two numbers that make the same word.
SameWord(a, b) == \E k \in Int : a = b + 2 ^ WordBits * k

LEMMA SameWordIs ==
  ASSUME NEW a \in Int, NEW b \in Int
  PROVE  SameWord(a, b) <=> (a - b) % 2 ^ WordBits = 0
<1>1. PICK m \in Nat \ {0} : m = 2 ^ WordBits
  BY WordFacts
<1>2. ASSUME NEW k \in Int, a = b + m * k PROVE (a - b) % m = 0
  <2>1. PICK p \in Int : p = m * k
    BY SMTT(20)
  <2>2. a - b \in Int /\ a - b = m * k
    BY <1>2, <2>1
  <2> QED BY <2>2, MultipleIs
<1>3. ASSUME (a - b) % m = 0 PROVE \E k \in Int : a = b + m * k
  <2>1. PICK d \in Int : d = a - b
    OBVIOUS
  <2>2. d = m * (d \div m) + 0 /\ d \div m \in Int
    BY <1>3, <2>1, DivisionOf
  <2>3. PICK k \in Int : k = d \div m
    BY <2>2
  <2>4. PICK p \in Int : p = m * k
    BY SMTT(20)
  <2>5. a = b + m * k
    BY <2>1, <2>2, <2>3, <2>4
  <2> QED BY <2>5
<1> QED BY <1>1, <1>2, <1>3 DEF SameWord

LEMMA SameWordFacts ==
  /\ \A a \in Int : SameWord(a, a)
  /\ \A a, b \in Int : SameWord(a, b) => SameWord(b, a)
  /\ \A a, b, c \in Int : SameWord(a, b) /\ SameWord(b, c) => SameWord(a, c)
  /\ \A a, b, x, y \in Int : SameWord(a, x) /\ SameWord(b, y) =>
       SameWord(a + b, x + y) /\ SameWord(a - b, x - y) /\ SameWord(a * b, x * y)
<1>1. PICK m \in Nat \ {0} : m = 2 ^ WordBits
  BY WordFacts
<1>2. ASSUME NEW a \in Int PROVE \E k \in Int : a = a + m * k
  <2>1. a = a + m * 0
    BY SMTT(20)
  <2> QED BY <2>1
<1>3. ASSUME NEW a \in Int, NEW b \in Int, NEW k \in Int, a = b + m * k
      PROVE  \E l \in Int : b = a + m * l
  <2>1. -k \in Int /\ b = a + m * (-k)
    BY <1>3, SMTT(20)
  <2> QED BY <2>1
<1>4. ASSUME NEW a \in Int, NEW b \in Int, NEW c \in Int, NEW k \in Int, NEW l \in Int,
             a = b + m * k, b = c + m * l
      PROVE  \E j \in Int : a = c + m * j
  <2>1. k + l \in Int /\ a = c + m * (k + l)
    BY <1>4, SMTT(20)
  <2> QED BY <2>1
<1>6. \A a, b \in Int : SameWord(a, b) <=> \E k \in Int : a = b + m * k
  BY <1>1 DEF SameWord
<1>7. \A a, b \in Int : a + b \in Int /\ a - b \in Int /\ a * b \in Int
  BY SMTT(20)
<1>8. \A a \in Int : SameWord(a, a)
  BY <1>2, <1>6
<1>9. \A a, b \in Int : SameWord(a, b) => SameWord(b, a)
  <2> SUFFICES ASSUME NEW a \in Int, NEW b \in Int, SameWord(a, b) PROVE SameWord(b, a)
    OBVIOUS
  <2>1. PICK k \in Int : a = b + m * k
    BY <1>6
  <2>2. \E l \in Int : b = a + m * l
    BY <1>3, <2>1
  <2> QED BY <1>6, <2>2
<1>10. \A a, b, c \in Int : SameWord(a, b) /\ SameWord(b, c) => SameWord(a, c)
  <2> SUFFICES ASSUME NEW a \in Int, NEW b \in Int, NEW c \in Int, SameWord(a, b), SameWord(b, c)
               PROVE  SameWord(a, c)
    OBVIOUS
  <2>1. PICK k \in Int : a = b + m * k
    BY <1>6
  <2>2. PICK l \in Int : b = c + m * l
    BY <1>6
  <2>3. \E j \in Int : a = c + m * j
    BY <1>4, <2>1, <2>2
  <2> QED BY <1>6, <2>3
<1>11. ASSUME NEW a \in Int, NEW b \in Int, NEW x \in Int, NEW y \in Int, SameWord(a, x), SameWord(b, y)
       PROVE  SameWord(a + b, x + y) /\ SameWord(a - b, x - y) /\ SameWord(a * b, x * y)
  <2>1. PICK k \in Int : a = x + m * k
    BY <1>6, <1>11
  <2>2. PICK l \in Int : b = y + m * l
    BY <1>6, <1>11
  <2>3. k + l \in Int /\ a + b = x + y + m * (k + l)
    BY <2>1, <2>2, SMTT(20)
  <2>4. k - l \in Int /\ a - b = x - y + m * (k - l)
    BY <2>1, <2>2, SMTT(20)
  <2>5. (x + m * k) * (y + m * l) = x * y + m * (x * l + k * y + k * l * m)
    BY SMTT(20)
  <2>6. x * l + k * y + k * l * m \in Int
    BY SMTT(20)
  <2>7. a * b = x * y + m * (x * l + k * y + k * l * m)
    BY <2>1, <2>2, <2>5
  <2> QED BY <1>6, <1>7, <2>3, <2>4, <2>6, <2>7
<1> QED BY <1>8, <1>9, <1>10, <1>11

LEMMA CutIs ==
  ASSUME NEW n \in Int
  PROVE  u256(n) \in Word /\ SameWord(u256(n), n) /\ Congruent(u256(n), n)
<1>1. PICK m \in Nat \ {0} : m = 2 ^ WordBits
  BY WordFacts
<1>2. PICK q \in Int, r \in Int : r = u256(n) /\ n = m * q + r
  <2>1. n = m * (n \div m) + (n % m) /\ n \div m \in Int /\ n % m \in Int
    BY DivisionOf
  <2>2. n % m = u256(n)
    BY <1>1 DEF u256
  <2> QED BY <2>1, <2>2
<1>3. -q \in Int /\ r = n + m * (-q)
  BY <1>2, SMTT(20)
<1>4. SameWord(r, n)
  BY <1>1, <1>3 DEF SameWord
<1> QED BY <1>2, <1>4, SameWordIs, WordFacts DEF Congruent

\* Half of the words: those below are not negative.
LEMMA HalfFacts ==
  /\ 2 ^ (WordBits - 1) \in Nat \ {0}
  /\ 2 ^ WordBits = 2 ^ (WordBits - 1) + 2 ^ (WordBits - 1)
<1>1. WordBits - 1 \in Nat /\ (WordBits - 1) + 1 = WordBits
  BY WordFacts
<1>2. PICK n \in Nat : n = WordBits - 1
  BY <1>1
<1> QED BY <1>1, <1>2, Powers

LEMMA SignedIs ==
  ASSUME NEW x \in Word
  PROVE  /\ toSigned(x) = IF x < 2 ^ (WordBits - 1) THEN x ELSE x - 2 ^ WordBits
         /\ toSigned(x) \in SignedWord /\ toSigned(x) \in Int
         /\ SameWord(toSigned(x), x)
<1>1. PICK h \in Nat \ {0} : h = 2 ^ (WordBits - 1) /\ 2 ^ WordBits = h + h
  BY HalfFacts
<1>2. x \in 0 .. h + h - 1
  BY <1>1, WordFacts
<1>3. toSigned(x) = IF x < h THEN x ELSE x - (h + h)
  <2>1. CASE x < h
    <3>1. x \div h = 0
      <4>1. x = h * 0 + x /\ x \in 0 .. h - 1
        BY <1>2, <2>1, SMTT(20)
      <4> QED BY <4>1, DivisionIs
    <3>2. Bit(x, WordBits - 1) # 1
      BY <1>1, <3>1 DEF Bit
    <3> QED BY <2>1, <3>2 DEF toSigned
  <2>2. CASE ~(x < h)
    <3>1. x \div h = 1
      <4>1. PICK r \in 0 .. h - 1 : x = h + r
        <5>1. x - h \in 0 .. h - 1 /\ x = h + (x - h)
          BY <1>2, <2>2
        <5> QED BY <5>1
      <4>2. x = h * 1 + r /\ x \in Int
        BY <1>2, <4>1, SMTT(20)
      <4> QED BY <4>2, DivisionIs
    <3>2. Bit(x, WordBits - 1) = 1
      BY <1>1, <3>1 DEF Bit
    <3> QED BY <1>1, <2>2, <3>2 DEF toSigned
  <2> QED BY <2>1, <2>2
<1>4. toSigned(x) \in Int /\ toSigned(x) \in -h .. h - 1
  BY <1>2, <1>3
<1>5. SameWord(toSigned(x), x)
  <2>1. x = x + (h + h) * 0 /\ x - (h + h) = x + (h + h) * (-1)
    BY <1>2, SMTT(20)
  <2> QED BY <1>1, <1>3, <2>1 DEF SameWord
<1> QED BY <1>1, <1>3, <1>4, <1>5 DEF SignedWord

\* The signed number of a word is the only one.
LEMMA MeaningIs ==
  ASSUME NEW x \in Word, NEW s \in SignedWord, SameWord(s, x)
  PROVE  Meaning(x) = s /\ toSigned(x) = s /\ s \in Int
<1>1. PICK h \in Nat \ {0} : h = 2 ^ (WordBits - 1) /\ 2 ^ WordBits = h + h
  BY HalfFacts
<1>2. SignedWord = -h .. h - 1 /\ SignedWord \subseteq Int /\ x \in Int
  BY <1>1, WordFacts DEF SignedWord
<1>3. ASSUME NEW t \in SignedWord, SameWord(t, x) PROVE t = s
  <2>1. t \in Int /\ s \in Int /\ SameWord(t, s)
    BY <1>2, <1>3, SameWordFacts
  <2>2. PICK k \in Int : t = s + (h + h) * k
    BY <1>1, <2>1 DEF SameWord
  <2>3. PICK p \in Int : p = (h + h) * k
    BY SMTT(20)
  <2>4. -(h + h) < p /\ p < h + h
    BY <1>2, <2>1, <2>2, <2>3
  <2>5. k = 0
    <3>1. PICK m \in Nat \ {0} : m = h + h
      OBVIOUS
    <3>2. -m < m * k /\ m * k < m
      BY <2>3, <2>4, <3>1
    <3> QED BY <3>2, SMTT(20)
  <2>6. p = 0
    BY <2>3, <2>5, SMTT(20)
  <2> QED BY <2>1, <2>2, <2>3, <2>6
<1>4. \A t \in SignedWord : (t - x) % 2 ^ WordBits = 0 <=> SameWord(t, x)
  BY <1>2, SameWordIs
<1>5. Meaning(x) = s
  BY <1>3, <1>4 DEF Meaning
<1>6. toSigned(x) = s
  BY <1>3, SignedIs
<1> QED BY <1>2, <1>5, <1>6

LEMMA MeaningOf ==
  ASSUME NEW x \in Word
  PROVE  Meaning(x) = toSigned(x) /\ Meaning(x) \in Int /\ SameWord(Meaning(x), x)
BY SignedIs, MeaningIs

LEMMA UnsignedIs ==
  ASSUME NEW s \in Int, -(2 ^ WordBits) < s, s < 2 ^ WordBits
  PROVE  /\ toUnsigned(s) \in Word /\ Congruent(toUnsigned(s), s)
         /\ s \in SignedWord => Meaning(toUnsigned(s)) = s
<1>1. PICK m \in Nat \ {0} : m = 2 ^ WordBits
  BY WordFacts
<1>2. toUnsigned(s) \in Word /\ toUnsigned(s) \in Int
  <2>1. toUnsigned(s) \in Word
    BY SignedFacts, Zenon
  <2> QED BY <2>1, WordFacts
<1>3. SameWord(toUnsigned(s), s) /\ SameWord(s, toUnsigned(s))
  <2>1. s = s + m * 0 /\ s + m = s + m * 1
    BY SMTT(20)
  <2>2. SameWord(toUnsigned(s), s)
    BY <1>1, <2>1 DEF SameWord, toUnsigned
  <2> QED BY <1>2, <2>2, SameWordFacts
<1> QED BY <1>2, <1>3, SameWordIs, MeaningIs DEF Congruent

LEMMA SumsAreRight ==
  ASSUME NEW x \in Word, NEW y \in Word
  PROVE  /\ Congruent(u256(x + y), Meaning(x) + Meaning(y))
         /\ Congruent(u256(x - y), Meaning(x) - Meaning(y))
         /\ Congruent(u256(x * y), Meaning(x) * Meaning(y))
<1>1. x \in Int /\ y \in Int /\ x * y \in Int
  <2>1. x \in Int /\ y \in Int
    BY WordFacts
  <2> QED BY <2>1, SMTT(20)
<1>2. PICK a \in Int, b \in Int : a = Meaning(x) /\ b = Meaning(y) /\ SameWord(a, x) /\ SameWord(b, y)
  BY MeaningOf
<1>3. SameWord(x, a) /\ SameWord(y, b)
  BY <1>1, <1>2, SameWordFacts
<1>4. SameWord(x + y, a + b) /\ SameWord(x - y, a - b) /\ SameWord(x * y, a * b)
  BY <1>1, <1>2, <1>3, SameWordFacts
<1>5. a * b \in Int
  BY SMTT(20)
<1>6. ASSUME NEW n \in Int, NEW c \in Int, SameWord(n, c) PROVE Congruent(u256(n), c)
  <2>1. u256(n) \in Word /\ u256(n) \in Int /\ SameWord(u256(n), n)
    BY CutIs, WordFacts
  <2>2. SameWord(u256(n), c)
    BY <1>6, <2>1, SameWordFacts
  <2> QED BY <2>1, <2>2, SameWordIs DEF Congruent
<1>7. x + y \in Int /\ x - y \in Int /\ a + b \in Int /\ a - b \in Int
  BY <1>1
<1> QED BY <1>1, <1>2, <1>4, <1>5, <1>6, <1>7

LEMMA SmallIsUncut ==
  ASSUME NEW x \in Word
  PROVE  u256(x) = x
<1>1. PICK m \in Nat \ {0} : m = 2 ^ WordBits
  BY WordFacts
<1>2. x \in 0 .. m - 1 /\ x \in Int
  BY <1>1, WordFacts
<1>3. x = m * 0 + x
  BY <1>2, SMTT(20)
<1>4. x % m = x
  BY <1>2, <1>3, DivisionIs
<1> QED BY <1>1, <1>4 DEF u256

LEMMA DivIsRight ==
  ASSUME NEW x \in Word, NEW y \in Word, y # 0
  PROVE  opDiv(x, y) * y <= x /\ x < (opDiv(x, y) + 1) * y
<1>1. x \in Nat /\ y \in Nat \ {0}
  BY WordFacts
<1>2. PICK q \in Nat : q = x \div y /\ y * q <= x /\ x < y * q + y /\ q <= x
  <2>1. x \div y \in 0 .. x /\ y * (x \div y) <= x /\ x < y * (x \div y) + y
    BY <1>1, Divides
  <2> QED BY <1>1, <2>1
<1>3. q \in Word
  <2>1. PICK m \in Nat \ {0} : m = 2 ^ WordBits
    BY WordFacts
  <2>2. x <= m - 1
    BY <2>1, WordFacts
  <2>3. q \in 0 .. m - 1
    BY <1>1, <1>2, <2>2
  <2> QED BY <2>1, <2>3, WordFacts
<1>4. opDiv(x, y) = q
  BY <1>2, <1>3, SmallIsUncut DEF opDiv
<1>5. q * y = y * q /\ (q + 1) * y = y * q + y
  BY <1>1, SMTT(20)
<1> QED BY <1>2, <1>4, <1>5

LEMMA RemainderIsRight ==
  ASSUME NEW n \in Nat, NEW y \in Nat \ {0}
  PROVE  n % y \in 0 .. y - 1 /\ (n - (n % y)) % y = 0
<1>1. n = y * (n \div y) + (n % y) /\ n \div y \in Int /\ n % y \in 0 .. y - 1
  BY DivisionOf
<1>2. PICK q \in Int : q = n \div y
  BY <1>1
<1>3. PICK r \in 0 .. y - 1 : r = n % y
  BY <1>1
<1>4. n = y * q + r
  BY <1>1, <1>2, <1>3
<1>5. n - r \in Int /\ n - r = y * q
  BY <1>4, SMTT(20)
<1>6. (n - r) % y = 0
  BY <1>5, MultipleIs
<1> QED BY <1>3, <1>6

LEMMA QuoTruncates ==
  ASSUME NEW a \in Int, NEW b \in Int, b # 0
  PROVE  Truncates(Quo(a, b), a, b) /\ Rem(a, b) = a - Quo(a, b) * b
<1>1. PICK x \in Nat, y \in Nat \ {0} : x = Abs(a) /\ y = Abs(b)
  BY DEF Abs
<1>2. PICK q \in Nat : q = x \div y /\ y * q <= x /\ x < y * q + y
  <2>1. x \div y \in 0 .. x /\ y * (x \div y) <= x /\ x < y * (x \div y) + y
    BY Divides
  <2> QED BY <2>1
<1>3. PICK m \in Nat : m = y * q
  BY SMTT(20)
<1>4. Quo(a, b) = IF (a < 0) = (b < 0) THEN q ELSE -q
  BY <1>1, <1>2 DEF Quo
<1>5. b * Quo(a, b) = IF a < 0 THEN -m ELSE m
  <2>1. b * q = IF b < 0 THEN -m ELSE m
    BY <1>1, <1>3, SMTT(20) DEF Abs
  <2>2. b * (-q) = -(b * q)
    BY SMTT(20)
  <2>3. b * q \in Int
    BY SMTT(20)
  <2> QED BY <1>4, <2>1, <2>2, <2>3
<1>6. PICK n \in Int : n = Quo(a, b)
  BY <1>4
<1>7. PICK p \in Int : p = b * n /\ p = IF a < 0 THEN -m ELSE m
  BY <1>5, <1>6
<1>8. PICK rest \in Int : rest = a - p
  OBVIOUS
<1>9. Abs(rest) < Abs(b) /\ (rest = 0 \/ (rest < 0) = (a < 0))
  <2>1. m <= x /\ x < m + y
    BY <1>2, <1>3
  <2>2. CASE a < 0
    <3>1. rest = m - x
      BY <1>1, <1>7, <1>8, <2>2 DEF Abs
    <3>2. -y < rest /\ rest <= 0
      BY <2>1, <3>1
    <3>3. Abs(rest) < y
      BY <3>2 DEF Abs
    <3>4. rest = 0 \/ (rest < 0) = (a < 0)
      BY <2>2, <3>2
    <3> QED BY <1>1, <3>3, <3>4
  <2>3. CASE ~(a < 0)
    <3>1. rest = x - m
      BY <1>1, <1>7, <1>8, <2>3 DEF Abs
    <3>2. 0 <= rest /\ rest < y
      BY <2>1, <3>1
    <3>3. Abs(rest) < y
      BY <3>2 DEF Abs
    <3>4. (rest < 0) = (a < 0)
      BY <2>3, <3>2
    <3> QED BY <1>1, <3>3, <3>4
  <2> QED BY <2>2, <2>3
<1>10. rest = a - b * Quo(a, b)
  BY <1>6, <1>7, <1>8
<1>11. Rem(a, b) = a - Quo(a, b) * b
  <2>1. b * n = n * b
    BY SMTT(20)
  <2> QED BY <1>6, <2>1 DEF Rem
<1> QED BY <1>9, <1>10, <1>11 DEF Truncates

\* The quotient and the remainder of two signed words are between the words' bounds.
LEMMA SignedDivisionIsRight ==
  ASSUME NEW x \in Word, NEW y \in Word, y # 0
  PROVE  \E n \in -(2 ^ WordBits) .. 2 ^ WordBits :
           /\ Truncates(n, Meaning(x), Meaning(y))
           /\ Congruent(opSdiv(x, y), n)
           /\ Congruent(opSmod(x, y), Meaning(x) - n * Meaning(y))
<1>1. PICK m \in Nat \ {0} : m = 2 ^ WordBits
  BY WordFacts
<1>2. PICK a \in Int, b \in Int : /\ a = Meaning(x) /\ b = Meaning(y)
                                  /\ a = toSigned(x) /\ b = toSigned(y)
  BY MeaningOf
<1>3. -m < a /\ a < m
  BY <1>1, <1>2, SignedFacts
<1>4. b # 0
  <2>1. y \in 1 .. m - 1
    BY <1>1, WordFacts
  <2>2. b = y \/ b = y - m
    BY <1>1, <1>2, SignedIs
  <2> QED BY <2>1, <2>2
<1>5. PICK n \in Int, r \in Int : /\ n = Quo(a, b) /\ -Abs(a) <= n /\ n <= Abs(a)
                                  /\ r = Rem(a, b) /\ -Abs(a) <= r /\ r <= Abs(a)
  BY <1>4, QuoRem
<1>6. -m < n /\ n < m /\ -m < r /\ r < m
  BY <1>3, <1>5 DEF Abs
<1>7. opSdiv(x, y) = toUnsigned(n) /\ opSmod(x, y) = toUnsigned(r)
  BY <1>2, <1>5 DEF opSdiv, opSmod
<1>8. Congruent(toUnsigned(n), n) /\ Congruent(toUnsigned(r), r)
  BY <1>1, <1>6, UnsignedIs
<1>9. Truncates(n, a, b) /\ r = a - n * b
  BY <1>4, <1>5, QuoTruncates
<1>10. n \in -m .. m
  BY <1>6
<1> QED BY <1>1, <1>2, <1>7, <1>8, <1>9, <1>10

LEMMA ByteIsRight ==
  ASSUME NEW n \in Word, NEW x \in Word, n < WordBytes
  PROVE  LET low == 2 ^ (ByteBits * (WordBytes - 1 - n))
         IN /\ opByte(n, x) \in 0 .. 2 ^ ByteBits - 1
            /\ (x \div low - opByte(n, x)) % 2 ^ ByteBits = 0
<1>1. PICK e \in Nat : e = ByteBits * (WordBytes - 1 - n)
  <2>1. n \in Nat
    BY WordFacts
  <2>2. WordBytes - 1 - n \in Nat
    BY <2>1, WordsAssumption
  <2> QED BY <2>2, WordsAssumption, SMTT(20)
<1>2. PICK p \in Nat \ {0}, b \in Nat \ {0} : p = 2 ^ e /\ b = 2 ^ ByteBits
  BY WordsAssumption, Powers
<1>3. PICK q \in Nat : q = x \div p
  <2>1. x \in Nat
    BY WordFacts
  <2>2. x \div p \in 0 .. x
    BY <2>1, Divides
  <2> QED BY <2>2
<1>4. opByte(n, x) = q % b
  <2>1. ~(n >= WordBytes)
    BY WordsAssumption, WordFacts
  <2> QED BY <1>1, <1>2, <1>3, <2>1 DEF opByte, ByteOf
<1>5. q % b \in 0 .. b - 1 /\ (q - (q % b)) % b = 0
  BY RemainderIsRight
<1> QED BY <1>1, <1>2, <1>3, <1>4, <1>5

-----------------------------------------------------------------------------
(* Bits.                                                                   *)

\* x in binary around bit i.
LEMMA BitIs ==
  ASSUME NEW x \in Int, NEW i \in Nat, NEW k \in Int, NEW b \in {0, 1}, NEW r \in 0 .. 2 ^ i - 1,
         x = 2 ^ i * (2 * k + b) + r
  PROVE  Bit(x, i) = b
<1>1. PICK p \in Nat \ {0} : p = 2 ^ i
  BY Powers
<1>2. PICK q \in Int : q = 2 * k + b
  OBVIOUS
<1>3. x \div p = q
  BY <1>1, <1>2, DivisionIs
<1>4. q % 2 = b
  BY <1>2
<1> QED BY <1>1, <1>3, <1>4 DEF Bit

LEMMA BitOf ==
  ASSUME NEW x \in Int, NEW i \in Nat, NEW p \in Nat \ {0}, p = 2 ^ i
  PROVE  \E k \in Int, b \in {0, 1}, r \in 0 .. p - 1 :
           x = p * (2 * k + b) + r /\ Bit(x, i) = b /\ x % p = r
<1>2. x = p * (x \div p) + (x % p) /\ x \div p \in Int /\ x % p \in 0 .. p - 1
  BY DivisionOf
<1>3. PICK q \in Int : q = x \div p
  BY <1>2
<1>4. PICK r \in 0 .. p - 1 : r = x % p
  BY <1>2
<1>5. x = p * q + r
  BY <1>2, <1>3, <1>4
<1>6. PICK k \in Int, b \in {0, 1} : q = 2 * k + b /\ b = q % 2
  <2>1. q \div 2 \in Int /\ q % 2 \in {0, 1} /\ q = 2 * (q \div 2) + (q % 2)
    OBVIOUS
  <2> QED BY <2>1
<1>7. Bit(x, i) = b
  BY <1>3, <1>6 DEF Bit
<1>8. x = p * (2 * k + b) + r
  BY <1>5, <1>6
<1> QED BY <1>4, <1>7, <1>8

\* One more bit of x.
LEMMA BitStep ==
  ASSUME NEW x \in Int, NEW i \in Nat
  PROVE  x % 2 ^ (i + 1) = (x % 2 ^ i) + (IF Bit(x, i) = 1 THEN 2 ^ i ELSE 0)
<1>1. PICK p \in Nat \ {0} : p = 2 ^ i /\ 2 ^ (i + 1) = p + p
  BY Powers
<1>2. PICK k \in Int, b \in {0, 1}, r \in 0 .. p - 1 :
        x = p * (2 * k + b) + r /\ Bit(x, i) = b /\ x % p = r
  BY <1>1, BitOf, ZenonT(30)
<1>3. PICK d \in 0 .. p + p - 1 : d = r + (IF b = 1 THEN p ELSE 0)
  OBVIOUS
<1>4. x = (p + p) * k + d
  <2>1. CASE b = 0
    BY <1>2, <1>3, <2>1, SMTT(20)
  <2>2. CASE b = 1
    BY <1>2, <1>3, <2>2, SMTT(20)
  <2> QED BY <2>1, <2>2
<1>5. PICK m \in Nat \ {0} : m = p + p
  OBVIOUS
<1>6. x % m = d
  <2>1. x = m * k + d
    BY <1>4, <1>5
  <2>2. d \in 0 .. m - 1
    BY <1>3, <1>5
  <2> QED BY <2>1, <2>2, DivisionIs, Zenon
<1> QED BY <1>1, <1>2, <1>3, <1>5, <1>6

LEMMA MaskBits ==
  ASSUME NEW m \in Nat, NEW i \in Nat
  PROVE  Bit(2 ^ m - 1, i) = IF i < m THEN 1 ELSE 0
<1>1. PICK p \in Nat \ {0} : p = 2 ^ i
  BY Powers
<1>2. PICK q \in Nat \ {0} : q = 2 ^ m
  BY Powers
<1>3. CASE i < m
  <2>1. PICK n \in Nat : m = n + (i + 1)
    <3>1. m - (i + 1) \in Nat /\ m = (m - (i + 1)) + (i + 1)
      BY <1>3
    <3> QED BY <3>1
  <2>2. PICK c \in Nat \ {0} : c = 2 ^ n
    BY Powers
  <2>3. q = c * (p + p)
    <3>1. i + 1 \in Nat /\ 2 ^ (n + (i + 1)) = 2 ^ n * 2 ^ (i + 1)
      BY PowerOfSum
    <3>2. 2 ^ (i + 1) = p + p
      BY <1>1, Powers
    <3> QED BY <1>2, <2>1, <2>2, <3>1, <3>2
  <2>4. q - 1 = p * (2 * (c - 1) + 1) + (p - 1)
    BY <2>3, SMTT(20)
  <2>5. c - 1 \in Int /\ p - 1 \in 0 .. p - 1 /\ q - 1 \in Int /\ 1 \in {0, 1}
    OBVIOUS
  <2> QED BY <1>1, <1>2, <1>3, <2>4, <2>5, BitIs
<1>4. CASE ~(i < m)
  <2>1. q <= p
    BY <1>1, <1>2, <1>4, Powers
  <2>2. q - 1 \in 0 .. p - 1 /\ q - 1 \in Int /\ 0 \in Int /\ 0 \in {0, 1}
    BY <2>1
  <2>3. q - 1 = p * (2 * 0 + 0) + (q - 1)
    BY SMTT(20)
  <2> QED BY <1>1, <1>2, <1>4, <2>2, <2>3, BitIs
<1> QED BY <1>3, <1>4

\* The bits of what is left of a number to the greatest word.
LEMMA ComplementBits ==
  ASSUME NEW x \in Int, NEW i \in 0 .. WordBits - 1
  PROVE  Bit(uint256Max - x, i) = 1 - Bit(x, i)
<1>1. PICK p \in Nat \ {0} : p = 2 ^ i /\ 2 ^ (i + 1) = p + p /\ i \in Nat
  BY Powers
<1>2. PICK m \in Nat \ {0} : m = 2 ^ WordBits
  BY WordFacts
<1>3. PICK c \in Nat : m = c * (p + p)
  <2>1. PICK n \in Nat : WordBits = n + (i + 1)
    <3>1. WordBits \in Nat
      BY WordFacts
    <3>2. WordBits - (i + 1) \in Nat /\ WordBits = (WordBits - (i + 1)) + (i + 1)
      BY <3>1
    <3> QED BY <3>2
  <2>2. PICK c \in Nat : c = 2 ^ n
    BY Powers
  <2>3. i + 1 \in Nat /\ 2 ^ (n + (i + 1)) = 2 ^ n * 2 ^ (i + 1)
    BY PowerOfSum
  <2> QED BY <1>1, <1>2, <2>1, <2>2, <2>3
<1>4. PICK k \in Int, b \in {0, 1}, r \in 0 .. p - 1 :
        x = p * (2 * k + b) + r /\ Bit(x, i) = b /\ x % p = r
  BY <1>1, BitOf, ZenonT(30)
<1>5. PICK j \in Int, a \in {0, 1}, s \in 0 .. p - 1 : j = c - 1 - k /\ a = 1 - b /\ s = p - 1 - r
  <2>1. c - 1 - k \in Int /\ 1 - b \in {0, 1} /\ p - 1 - r \in 0 .. p - 1
    OBVIOUS
  <2> QED BY <2>1
<1>6. m - 1 - x = p * (2 * j + a) + s
  BY <1>3, <1>4, <1>5, SMTT(20)
<1>7. m - 1 - x \in Int
  OBVIOUS
<1>8. Bit(m - 1 - x, i) = a
  BY <1>1, <1>6, <1>7, BitIs
<1> QED BY <1>2, <1>4, <1>5, <1>8 DEF uint256Max

\* What OfBits adds up determines it.
LEMMA OfBitsIs ==
  ASSUME NEW set, NEW f, f[0] = 0,
         \A i \in 0 .. WordBits - 1 : f[i + 1] = f[i] + (IF i \in set THEN 2 ^ i ELSE 0)
  PROVE  OfBits(set) = f[WordBits]
<1>1. PICK low : /\ low[0] = 0 /\ OfBits(set) = low[WordBits]
                 /\ \A i \in 0 .. WordBits - 1 :
                      low[i + 1] = low[i] + (IF i \in set THEN 2 ^ i ELSE 0)
  BY OfBitsLow, Zenon
<1> DEFINE S == {i \in 0 .. WordBits : low[i] = f[i]}
<1>2. 0 \in S
  BY <1>1, WordFacts
<1>3. ASSUME NEW i \in 0 .. WordBits - 1, i \in S PROVE i + 1 \in S
  <2>1. i + 1 \in 0 .. WordBits
    BY WordFacts
  <2>2. low[i + 1] = f[i + 1]
    BY <1>1, <1>3, Zenon
  <2> QED BY <2>1, <2>2
<1>4. WordBits \in S
  <2> HIDE DEF S
  <2>1. WordBits \in Nat
    BY WordFacts
  <2>2. 0 .. WordBits \subseteq S
    BY <1>2, <1>3, <2>1, Stepwise
  <2> QED BY <2>1, <2>2
<1> QED BY <1>1, <1>4

\* The lowest bits of a word are what is left when it is divided.
LEMMA LowBits ==
  ASSUME NEW x \in Word
  PROVE  /\ x % 2 ^ 0 = 0 /\ x % 2 ^ WordBits = x
         /\ \A i \in 0 .. WordBits - 1 :
              /\ x % 2 ^ i \in Int
              /\ x % 2 ^ (i + 1) = (x % 2 ^ i) + (IF i \in Bits(x) THEN 2 ^ i ELSE 0)
<1>1. x \in Int
  BY WordFacts
<1>2. x % 2 ^ 0 = 0
  <2>1. x % 1 = 0
    BY <1>1
  <2> QED BY <2>1, Powers
<1>3. x % 2 ^ WordBits = x
  BY SmallIsUncut DEF u256
<1>4. ASSUME NEW i \in 0 .. WordBits - 1
      PROVE  /\ x % 2 ^ i \in Int
             /\ x % 2 ^ (i + 1) = (x % 2 ^ i) + (IF i \in Bits(x) THEN 2 ^ i ELSE 0)
  <2>1. i \in Nat
    OBVIOUS
  <2>2. PICK p \in Nat \ {0} : p = 2 ^ i
    BY <2>1, Powers
  <2>3. x % p \in Int
    BY <1>1, Divides
  <2>4. i \in Bits(x) <=> Bit(x, i) = 1
    BY DEF Bits
  <2>5. x % 2 ^ (i + 1) = (x % 2 ^ i) + (IF Bit(x, i) = 1 THEN 2 ^ i ELSE 0)
    BY <1>1, <2>1, BitStep
  <2> QED BY <2>2, <2>3, <2>4, <2>5, Zenon
<1> QED BY <1>2, <1>3, <1>4, Zenon

\* The bits of the words that opcodes use as masks.
LEMMA MasksAre ==
  /\ Bits(uint256Max) = 0 .. WordBits - 1
  /\ \A m \in Nat : m < WordBits => /\ Bits(2 ^ m - 1) = 0 .. m - 1
                                    /\ Bits(uint256Max - (2 ^ m - 1)) = m .. WordBits - 1
<1>1. \A i \in 0 .. WordBits - 1 : Bit(uint256Max, i) = 1
  BY MaskBits, WordFacts DEF uint256Max
<1>2. Bits(uint256Max) = 0 .. WordBits - 1
  BY <1>1 DEF Bits
<1>3. ASSUME NEW m \in Nat, m < WordBits
      PROVE  /\ Bits(2 ^ m - 1) = 0 .. m - 1
             /\ Bits(uint256Max - (2 ^ m - 1)) = m .. WordBits - 1
  <2>1. PICK w \in Nat : w = WordBits /\ m < w
    BY <1>3, WordFacts
  <2>2. PICK n \in Int : n = 2 ^ m - 1
    <3>1. 2 ^ m \in Nat
      BY Powers
    <3> QED BY <3>1
  <2>3. \A i \in 0 .. w - 1 : Bit(n, i) = IF i < m THEN 1 ELSE 0
    BY <2>2, MaskBits
  <2>4. \A i \in 0 .. w - 1 : Bit(uint256Max - n, i) = IF i < m THEN 0 ELSE 1
    BY <2>1, <2>3, ComplementBits
  <2>5. Bits(n) = 0 .. m - 1
    BY <2>1, <2>3 DEF Bits
  <2>6. Bits(uint256Max - n) = m .. w - 1
    BY <2>1, <2>4 DEF Bits
  <2> QED BY <2>1, <2>2, <2>5, <2>6
<1> QED BY <1>2, <1>3

LEMMA NotIsRight ==
  ASSUME NEW x \in Word
  PROVE  Xor(x, uint256Max) + x = uint256Max
<1> DEFINE set == (0 .. WordBits - 1) \ Bits(x)
           f == [i \in 0 .. WordBits |-> (2 ^ i - 1) - (x % 2 ^ i)]
<1>1. Xor(x, uint256Max) = OfBits(set)
  <2>1. (Bits(x) \cup Bits(uint256Max)) \ (Bits(x) \cap Bits(uint256Max)) = set
    BY MasksAre DEF Bits
  <2> QED BY <2>1 DEF Xor
<1>2. f[0] = 0
  BY LowBits, Powers, WordFacts
<1>3. ASSUME NEW i \in 0 .. WordBits - 1
      PROVE  f[i + 1] = f[i] + (IF i \in set THEN 2 ^ i ELSE 0)
  <2>1. i \in Nat /\ i \in 0 .. WordBits /\ i + 1 \in 0 .. WordBits
    BY WordFacts
  <2>2. PICK p \in Nat : p = 2 ^ i /\ 2 ^ (i + 1) = p + p
    BY <2>1, Powers
  <2>3. PICK r \in Int : r = x % 2 ^ i
    BY LowBits
  <2>4. x % 2 ^ (i + 1) = r + (IF i \in Bits(x) THEN p ELSE 0)
    BY <2>2, <2>3, LowBits
  <2>5. f[i] = (p - 1) - r
    BY <2>1, <2>2, <2>3
  <2>6. f[i + 1] = (p + p - 1) - (r + (IF i \in Bits(x) THEN p ELSE 0))
    BY <2>1, <2>2, <2>4
  <2>7. i \in set <=> i \notin Bits(x)
    OBVIOUS
  <2> HIDE DEF f, set
  <2> QED BY <2>2, <2>5, <2>6, <2>7
<1>4. OfBits(set) = f[WordBits]
  <2> HIDE DEF f, set
  <2> QED BY <1>2, <1>3, OfBitsIs
<1>5. f[WordBits] = uint256Max - x
  <2>1. WordBits \in 0 .. WordBits
    BY WordFacts
  <2>2. f[WordBits] = (2 ^ WordBits - 1) - (x % 2 ^ WordBits)
    BY <2>1
  <2>3. x % 2 ^ WordBits = x
    BY LowBits
  <2> HIDE DEF f
  <2> QED BY <2>2, <2>3 DEF uint256Max
<1>6. x \in Int /\ uint256Max \in Int
  BY WordFacts DEF uint256Max
<1> QED BY <1>1, <1>4, <1>5, <1>6

\* SIGNEXTEND with bit m as the sign: the lower bits are kept.
LEMMA ExtendIs ==
  ASSUME NEW x \in Word, NEW m \in Nat, m < WordBits
  PROVE  /\ Or(x, uint256Max - (2 ^ m - 1)) = (x % 2 ^ m) + 2 ^ WordBits - 2 ^ m
         /\ And(x, 2 ^ m - 1) = x % 2 ^ m
<1>1. PICK w \in Nat : w = WordBits /\ m < w /\ m \in 0 .. w - 1
  BY WordFacts
<1>2. PICK q \in Nat \ {0} : q = 2 ^ m
  BY Powers
<1>3. PICK low \in Int : low = x % 2 ^ m
  BY <1>1, LowBits
<1> DEFINE above == Bits(x) \cup (m .. WordBits - 1)
           below == Bits(x) \cap (0 .. m - 1)
           f == [i \in 0 .. WordBits |-> IF i <= m THEN x % 2 ^ i ELSE low + 2 ^ i - q]
           g == [i \in 0 .. WordBits |-> IF i <= m THEN x % 2 ^ i ELSE low]
<1>4. Or(x, uint256Max - (2 ^ m - 1)) = OfBits(above) /\ And(x, 2 ^ m - 1) = OfBits(below)
  BY MasksAre DEF Or, And
<1>5. f[0] = 0 /\ g[0] = 0
  BY <1>1, LowBits
<1>6. ASSUME NEW i \in 0 .. WordBits - 1
      PROVE  /\ f[i + 1] = f[i] + (IF i \in above THEN 2 ^ i ELSE 0)
             /\ g[i + 1] = g[i] + (IF i \in below THEN 2 ^ i ELSE 0)
  <2>1. i \in Nat /\ i \in 0 .. WordBits /\ i + 1 \in 0 .. WordBits
    BY WordFacts
  <2>2. PICK p \in Nat : p = 2 ^ i /\ 2 ^ (i + 1) = p + p
    BY <2>1, Powers
  <2>3. PICK r \in Int : r = x % 2 ^ i
    BY LowBits
  <2>4. x % 2 ^ (i + 1) = r + (IF i \in Bits(x) THEN p ELSE 0)
    BY <2>2, <2>3, LowBits
  <2>5. /\ f[i] = IF i <= m THEN r ELSE low + p - q
        /\ g[i] = IF i <= m THEN r ELSE low
    BY <2>1, <2>2, <2>3
  <2>6. /\ f[i + 1] = IF i + 1 <= m THEN r + (IF i \in Bits(x) THEN p ELSE 0) ELSE low + (p + p) - q
        /\ g[i + 1] = IF i + 1 <= m THEN r + (IF i \in Bits(x) THEN p ELSE 0) ELSE low
    BY <2>1, <2>2, <2>4
  <2>7. /\ i < m => (i \in above <=> i \in Bits(x)) /\ (i \in below <=> i \in Bits(x))
        /\ i >= m => i \in above /\ i \notin below
    BY <2>1
  <2>8. i = m => r = low /\ p = q
    BY <1>2, <1>3, <2>2, <2>3
  <2> HIDE DEF f, g, above, below
  <2>9. CASE i < m
    <3>1. i + 1 <= m /\ i <= m
      BY <2>1, <2>9
    <3> QED BY <2>2, <2>5, <2>6, <2>7, <2>9, <3>1
  <2>10. CASE i = m
    <3>1. ~(i + 1 <= m) /\ i <= m /\ i >= m
      BY <2>1, <2>10
    <3> QED BY <2>2, <2>5, <2>6, <2>7, <2>8, <2>10, <3>1
  <2>11. CASE i > m
    <3>1. ~(i + 1 <= m) /\ ~(i <= m) /\ i >= m
      BY <2>1, <2>11
    <3> QED BY <2>2, <2>5, <2>6, <2>7, <3>1
  <2> QED BY <2>1, <2>9, <2>10, <2>11
<1>7. OfBits(above) = f[WordBits] /\ OfBits(below) = g[WordBits]
  <2> HIDE DEF f, g, above, below
  <2> QED BY <1>5, <1>6, OfBitsIs
<1>8. f[WordBits] = low + 2 ^ WordBits - q /\ g[WordBits] = low
  <2>1. WordBits \in 0 .. WordBits /\ ~(WordBits <= m)
    BY <1>1
  <2> QED BY <2>1
<1> HIDE DEF f, g, above, below
<1> QED BY <1>2, <1>3, <1>4, <1>7, <1>8

LEMMA SignextendIsRight ==
  ASSUME NEW back \in Word, NEW x \in Word, back < WordBytes
  PROVE  LET range == 2 ^ (ByteBits * (back + 1))
         IN /\ 2 * Meaning(opSignextend(back, x)) \in -range .. range - 1
            /\ (Meaning(opSignextend(back, x)) - x) % range = 0
<1>1. PICK m \in Nat : m = back * ByteBits + ByteBits - 1 /\ m < WordBits /\ m + 1 = ByteBits * (back + 1)
  <2>1. back \in Nat /\ ByteBits \in Nat \ {0} /\ WordBytes \in Nat /\ back + 1 <= WordBytes
    BY WordFacts, WordsAssumption
  <2>2. back * ByteBits + ByteBits - 1 \in Nat
    BY <2>1, SMTT(20)
  <2>3. back * ByteBits + ByteBits = ByteBits * (back + 1)
    BY <2>1, SMTT(20)
  <2>4. ByteBits * (back + 1) <= ByteBits * WordBytes
    BY <2>1, SMTT(20)
  <2>5. back * ByteBits \in Int /\ ByteBits * (back + 1) \in Int /\ ByteBits * WordBytes \in Int
    BY <2>1, SMTT(20)
  <2> QED BY <2>1, <2>2, <2>3, <2>4, <2>5 DEF WordBits
<1>2. PICK q \in Nat \ {0} : q = 2 ^ m /\ 2 ^ (ByteBits * (back + 1)) = q + q
  BY <1>1, Powers
<1>3. x \in Int
  BY WordFacts
<1>4. PICK k \in Int, b \in {0, 1}, low \in 0 .. q - 1 :
        x = q * (2 * k + b) + low /\ Bit(x, m) = b /\ x % q = low
  BY <1>2, <1>3, BitOf, Zenon
<1>5. PICK h \in Nat \ {0} : h = 2 ^ (WordBits - 1) /\ 2 ^ WordBits = h + h /\ q <= h
  <2>1. m <= WordBits - 1 /\ WordBits - 1 \in Nat
    BY <1>1, WordFacts
  <2> QED BY <1>1, <1>2, <2>1, HalfFacts, Powers
<1>6. PICK s \in Int : s = IF b = 1 THEN low - q ELSE low
  <2>1. low - q \in Int /\ low \in Int
    OBVIOUS
  <2> QED BY <2>1
<1>7. opSignextend(back, x) \in Word /\ opSignextend(back, x) = IF b = 1 THEN s + (h + h) ELSE s
  <2>1. ~(back > WordBytes - 1)
    BY WordFacts, WordsAssumption
  <2>2. opSignextend(back, x) = IF Bit(x, m) = 1 THEN Or(x, uint256Max - (2 ^ m - 1)) ELSE And(x, 2 ^ m - 1)
    BY <1>1, <2>1 DEF opSignextend
  <2>3. /\ Or(x, uint256Max - (2 ^ m - 1)) = (x % q) + 2 ^ WordBits - q
        /\ And(x, 2 ^ m - 1) = x % q
    BY <1>1, <1>2, ExtendIs
  <2>4. opSignextend(back, x) = IF b = 1 THEN low + (h + h) - q ELSE low
    BY <1>4, <1>5, <2>2, <2>3
  <2>5. opSignextend(back, x) \in 0 .. h + h - 1
    BY <1>4, <1>5, <2>4
  <2> QED BY <1>5, <1>6, <2>4, <2>5, WordFacts
<1>8. Meaning(opSignextend(back, x)) = s
  <2>1. s \in SignedWord
    BY <1>4, <1>5, <1>6 DEF SignedWord
  <2>2. PICK r \in Word : r = opSignextend(back, x) /\ r \in Int /\ r = IF b = 1 THEN s + (h + h) ELSE s
    <3>1. opSignextend(back, x) \in Int
      BY <1>7, WordFacts
    <3> QED BY <1>7, <3>1, Zenon
  <2>3. \E j \in Int : s = r + (h + h) * j
    <3>1. s + (h + h) + (h + h) * (-1) = s /\ s + (h + h) * 0 = s
      BY SMTT(20)
    <3> QED BY <2>2, <3>1
  <2>4. SameWord(s, r)
    BY <1>5, <2>3 DEF SameWord
  <2> QED BY <2>1, <2>2, <2>4, MeaningIs
<1>9. 2 * s \in -(q + q) .. q + q - 1
  BY <1>6
<1>10. (s - x) % (q + q) = 0
  <2>1. PICK d \in Nat \ {0} : d = q + q
    OBVIOUS
  <2>2. s - x \in Int
    BY <1>3
  <2>3. CASE b = 0
    <3>1. -k \in Int /\ s - x = d * (-k)
      BY <1>4, <1>6, <2>1, <2>3, SMTT(20)
    <3>2. (s - x) % d = 0
      BY <2>2, <3>1, MultipleIs, Zenon
    <3> QED BY <2>1, <3>2
  <2>4. CASE b = 1
    <3>1. -1 - k \in Int /\ s - x = d * (-1 - k)
      BY <1>4, <1>6, <2>1, <2>4, SMTT(20)
    <3>2. (s - x) % d = 0
      BY <2>2, <3>1, MultipleIs, Zenon
    <3> QED BY <2>1, <3>2
  <2> QED BY <2>3, <2>4
<1> QED BY <1>2, <1>8, <1>9, <1>10

\* The loop of CLZ counts the bits above the highest one.
LEMMA ClzIsRight ==
  ASSUME NEW x \in Word
  PROVE  IF x = 0 THEN opClz(x) = WordBits
         ELSE 2 ^ WordBits <= 2 ^ (opClz(x) + 1) * x /\ 2 ^ opClz(x) * x < 2 ^ WordBits
<1> DEFINE zeros == {i \in 0 .. WordBits - 1 : \A j \in i .. WordBits - 1 : Bit(x, j) = 0}
<1>1. PICK w \in Nat \ {0} : w = WordBits
  BY WordFacts
<1>2. x \in Nat /\ x < 2 ^ WordBits
  BY WordFacts
<1>3. \A h \in 0 .. w : x < 2 ^ h => \A j \in h .. w - 1 : Bit(x, j) = 0
  <2> SUFFICES ASSUME NEW h \in 0 .. w, x < 2 ^ h, NEW j \in h .. w - 1 PROVE Bit(x, j) = 0
    OBVIOUS
  <2>1. PICK p \in Nat \ {0} : p = 2 ^ j
    BY Powers
  <2>2. x < p
    <3>1. 2 ^ h \in Nat /\ 2 ^ h <= 2 ^ j
      BY Powers
    <3> QED BY <1>2, <2>1, <3>1
  <2>3. x = p * (2 * 0 + 0) + x /\ x \in 0 .. p - 1 /\ j \in Nat /\ 0 \in Int /\ 0 \in {0, 1} /\ x \in Int
    BY <1>2, <2>2, SMTT(20)
  <2> QED BY <2>1, <2>3, BitIs
<1>4. CASE x = 0
  <2>1. x < 2 ^ 0
    BY <1>4, Powers
  <2>2. zeros = 0 .. w - 1
    <3>1. \A j \in 0 .. w - 1 : Bit(x, j) = 0
      <4>1. 0 \in 0 .. w
        OBVIOUS
      <4> QED BY <1>3, <2>1, <4>1, Zenon
    <3>2. \A i \in 0 .. w - 1 : \A j \in i .. w - 1 : j \in 0 .. w - 1
      OBVIOUS
    <3> QED BY <1>1, <3>1, <3>2
  <2>3. Cardinality(0 .. w - 1) = w
    <3>1. w - 1 \in Int /\ 0 \in Int /\ ~(0 > w - 1) /\ (w - 1) - 0 + 1 = w
      OBVIOUS
    <3> QED BY <3>1, FS_Interval
  <2> QED BY <1>1, <1>4, <2>2, <2>3 DEF opClz
<1>5. CASE x # 0
  <2> DEFINE S == {i \in 0 .. w : 2 ^ i <= x}
  <2>1. PICK h \in 0 .. w - 1 : 2 ^ h <= x /\ x < 2 ^ (h + 1)
    <3>1. 0 \in S
      BY <1>2, <1>5, Powers
    <3>2. w \notin S
      BY <1>1, <1>2, WordFacts
    <3>3. PICK h \in 0 .. w - 1 : h \in S /\ h + 1 \notin S
      <4> HIDE DEF S
      <4>1. w \in 0 .. w
        OBVIOUS
      <4> QED BY <3>1, <3>2, <4>1, Stepwise
    <3>4. h + 1 \in 0 .. w /\ 2 ^ (h + 1) \in Nat
      BY Powers
    <3> QED BY <1>2, <3>3, <3>4
  <2>2. PICK p \in Nat \ {0} : p = 2 ^ h /\ 2 ^ (h + 1) = p + p
    BY Powers
  <2>3. Bit(x, h) = 1
    <3>1. x = p * (2 * 0 + 1) + (x - p)
      BY <1>2, SMTT(20)
    <3>2. x - p \in 0 .. p - 1 /\ x \in Int /\ h \in Nat /\ 0 \in Int /\ 1 \in {0, 1}
      BY <1>2, <2>1, <2>2
    <3> QED BY <2>2, <3>1, <3>2, BitIs
  <2>4. \A j \in h + 1 .. w - 1 : Bit(x, j) = 0
    BY <1>3, <2>1
  <2>5. zeros = h + 1 .. w - 1
    <3>1. ASSUME NEW i \in 0 .. w - 1, i >= h + 1 PROVE \A j \in i .. w - 1 : Bit(x, j) = 0
      BY <2>4, <3>1
    <3>2. ASSUME NEW i \in 0 .. w - 1, ~(i >= h + 1) PROVE h \in i .. w - 1
      BY <3>2
    <3> QED BY <1>1, <2>3, <3>1, <3>2
  <2>6. PICK r \in Nat : r = opClz(x) /\ r = w - 1 - h
    <3>1. Cardinality(h + 1 .. w - 1) = w - 1 - h
      <4>1. /\ h + 1 \in Int /\ w - 1 \in Int
            /\ Cardinality(h + 1 .. w - 1) = IF h + 1 > w - 1 THEN 0 ELSE (w - 1) - (h + 1) + 1
        BY FS_Interval
      <4> QED BY <4>1
    <3>2. opClz(x) = Cardinality(h + 1 .. w - 1)
      BY <2>5 DEF opClz
    <3>3. w - 1 - h \in Nat
      OBVIOUS
    <3> QED BY <3>1, <3>2, <3>3
  <2>7. PICK c \in Nat \ {0} : c = 2 ^ r /\ 2 ^ (r + 1) = c + c
    BY Powers
  <2>8. 2 ^ WordBits = c * (p + p)
    <3>1. WordBits = r + (h + 1) /\ h + 1 \in Nat
      BY <1>1, <2>6
    <3>2. 2 ^ (r + (h + 1)) = 2 ^ r * 2 ^ (h + 1)
      BY <3>1, PowerOfSum
    <3> QED BY <2>2, <2>7, <3>1, <3>2
  <2>9. c * (p + p) <= (c + c) * x
    <3>1. PICK d \in Nat : x = p + d
      <4>1. x - p \in Nat /\ x = p + (x - p)
        BY <1>2, <2>1, <2>2
      <4> QED BY <4>1
    <3>2. (c + c) * (p + d) = c * (p + p) + (c + c) * d /\ (c + c) * d >= 0
      BY SMTT(20)
    <3>3. c * (p + p) \in Int /\ (c + c) * d \in Int
      BY SMTT(20)
    <3> QED BY <3>1, <3>2, <3>3
  <2>10. c * x < c * (p + p)
    <3>1. PICK d \in Nat \ {0} : p + p = x + d
      <4>1. p + p - x \in Nat \ {0} /\ p + p = x + (p + p - x)
        BY <1>2, <2>1, <2>2
      <4> QED BY <4>1
    <3>2. c * (x + d) = c * x + c * d /\ c * d > 0
      BY <1>2, SMTT(20)
    <3>3. c * x \in Int /\ c * d \in Int
      BY <1>2, SMTT(20)
    <3> QED BY <3>1, <3>2, <3>3
  <2> HIDE DEF zeros
  <2> QED BY <1>5, <2>6, <2>7, <2>8, <2>9, <2>10
<1> QED BY <1>4, <1>5

LEMMA LargeShift ==
  ASSUME NEW shift \in Nat, shift >= WordBits
  PROVE  \E k \in Nat \ {0} : 2 ^ shift = 2 ^ WordBits * k
<1>1. PICK n \in Nat : shift = WordBits + n /\ WordBits \in Nat
  <2>1. WordBits \in Nat
    BY WordFacts
  <2>2. shift - WordBits \in Nat /\ shift = WordBits + (shift - WordBits)
    BY <2>1
  <2> QED BY <2>1, <2>2
<1>2. PICK k \in Nat \ {0} : k = 2 ^ n
  BY Powers
<1> QED BY <1>1, <1>2, PowerOfSum

LEMMA ShlIsRight ==
  ASSUME NEW shift \in Nat, NEW x \in Word
  PROVE  Congruent(opShl(shift, x), x * 2 ^ shift)
<1>1. PICK p \in Nat \ {0} : p = 2 ^ shift
  BY Powers
<1>2. x \in Int /\ WordBits \in Nat
  BY WordFacts
<1>3. PICK n \in Int : n = x * p
  BY <1>2, SMTT(20)
<1>4. CASE shift >= WordBits
  <2>1. PICK m \in Nat \ {0} : m = 2 ^ WordBits
    BY WordFacts
  <2>2. PICK k \in Nat \ {0} : p = m * k
    BY <1>1, <1>4, <2>1, LargeShift
  <2>3. PICK j \in Int : j = -(k * x)
    BY <1>2, SMTT(20)
  <2>4. 0 - n \in Int /\ 0 - n = m * j
    BY <1>2, <1>3, <2>2, <2>3, SMTT(20)
  <2>5. (0 - n) % m = 0
    BY <2>4, MultipleIs, Zenon
  <2>6. opShl(shift, x) = 0
    BY <1>4 DEF opShl
  <2> QED BY <1>1, <1>3, <2>1, <2>5, <2>6, WordFacts DEF Congruent
<1>5. CASE ~(shift >= WordBits)
  BY <1>1, <1>3, <1>5, CutIs DEF opShl
<1> QED BY <1>4, <1>5

LEMMA ShrIsRight ==
  ASSUME NEW shift \in Nat, NEW x \in Word
  PROVE  opShr(shift, x) * 2 ^ shift <= x /\ x < (opShr(shift, x) + 1) * 2 ^ shift
<1>1. PICK p \in Nat \ {0} : p = 2 ^ shift
  BY Powers
<1>2. x \in Nat /\ x < 2 ^ WordBits /\ WordBits \in Nat /\ 2 ^ WordBits \in Nat
  BY WordFacts
<1>3. CASE shift >= WordBits
  <2>1. opShr(shift, x) = 0
    BY <1>3 DEF opShr
  <2>2. 2 ^ WordBits <= p
    BY <1>1, <1>2, <1>3, Powers
  <2>3. 0 * p = 0 /\ (0 + 1) * p = p
    BY SMTT(20)
  <2> QED BY <1>1, <1>2, <2>1, <2>2, <2>3
<1>4. CASE ~(shift >= WordBits)
  <2>1. PICK q \in Nat : q = x \div p /\ p * q <= x /\ x < p * q + p
    <3>1. x \div p \in 0 .. x /\ p * (x \div p) <= x /\ x < p * (x \div p) + p
      BY <1>2, Divides
    <3> QED BY <3>1
  <2>2. opShr(shift, x) = q
    BY <1>1, <1>4, <2>1 DEF opShr
  <2>3. q * p = p * q /\ (q + 1) * p = p * q + p
    BY SMTT(20)
  <2> QED BY <1>1, <2>1, <2>2, <2>3
<1> QED BY <1>3, <1>4

\* A shift of a signed word rounds down.
LEMMA SarIsRight ==
  ASSUME NEW shift \in Nat, NEW x \in Word
  PROVE  /\ Meaning(opSar(shift, x)) * 2 ^ shift <= Meaning(x)
         /\ Meaning(x) < (Meaning(opSar(shift, x)) + 1) * 2 ^ shift
<1>1. PICK p \in Nat \ {0} : p = 2 ^ shift
  BY Powers
<1>2. PICK h \in Nat \ {0} : h = 2 ^ (WordBits - 1) /\ 2 ^ WordBits = h + h
  BY HalfFacts
<1>3. PICK s \in Int : s = Meaning(x) /\ s = toSigned(x) /\ s \in -h .. h - 1
  <2>1. toSigned(x) \in -h .. h - 1 /\ toSigned(x) \in Int
    BY <1>2, SignedIs DEF SignedWord
  <2> QED BY <2>1, MeaningOf
<1>4. SignedWord = -h .. h - 1
  BY <1>2 DEF SignedWord
<1>5. PICK d \in Int : Meaning(opSar(shift, x)) = d /\ p * d <= s /\ s < p * d + p
  <2>1. CASE shift >= WordBits
    <3>1. h + h <= p
      BY <1>1, <1>2, <2>1, Powers, WordFacts
    <3>2. CASE Bit(x, WordBits - 1) = 1
      <4>1. s < 0
        <5>1. s = x - (h + h) /\ x \in 0 .. h + h - 1
          BY <1>2, <1>3, <3>2, WordFacts DEF toSigned
        <5> QED BY <5>1
      <4>2. opSar(shift, x) = uint256Max /\ uint256Max \in Word /\ uint256Max = h + h - 1
        BY <1>2, <2>1, <3>2, WordFacts DEF opSar, uint256Max
      <4>3. SameWord(-1, uint256Max)
        <5>1. -1 = (h + h - 1) + (h + h) * (-1)
          BY SMTT(20)
        <5> QED BY <1>2, <4>2, <5>1 DEF SameWord
      <4>4. -1 \in SignedWord
        BY <1>4
      <4>5. Meaning(opSar(shift, x)) = -1
        BY <4>2, <4>3, <4>4, MeaningIs
      <4>6. p * (-1) = -p
        BY SMTT(20)
      <4>7. p * (-1) <= s /\ s < p * (-1) + p
        BY <1>3, <3>1, <4>1, <4>6
      <4> QED BY <4>5, <4>7
    <3>3. CASE Bit(x, WordBits - 1) # 1
      <4>1. s >= 0
        BY <1>3, <3>3, WordFacts DEF toSigned
      <4>2. opSar(shift, x) = 0 /\ 0 \in Word
        BY <2>1, <3>3, WordFacts DEF opSar
      <4>3. SameWord(0, 0) /\ 0 \in SignedWord
        BY <1>4, SameWordFacts
      <4>4. Meaning(opSar(shift, x)) = 0
        BY <4>2, <4>3, MeaningIs
      <4>5. p * 0 = 0
        BY SMTT(20)
      <4>6. p * 0 <= s /\ s < p * 0 + p
        BY <1>3, <3>1, <4>1, <4>5
      <4> QED BY <4>4, <4>6
    <3> QED BY <3>2, <3>3
  <2>2. CASE ~(shift >= WordBits)
    <3>1. PICK d \in Int : d = s \div p
      BY Divides
    <3>2. p * d <= s /\ s < p * d + p
      <4>1. s = p * (s \div p) + (s % p) /\ s % p \in 0 .. p - 1
        BY DivisionOf
      <4>2. PICK r \in 0 .. p - 1 : r = s % p
        BY <4>1
      <4>3. PICK t \in Int : t = p * d
        BY SMTT(20)
      <4>4. s = t + r
        BY <3>1, <4>1, <4>2, <4>3
      <4> QED BY <4>3, <4>4
    <3>3. d \in -h .. h - 1
      <4>1. /\ s < 0 => s <= d /\ d < 0
            /\ s >= 0 => 0 <= d /\ d <= s
        BY <3>1, SMTT(30)
      <4> QED BY <1>3, <4>1
    <3>4. opSar(shift, x) = toUnsigned(d)
      BY <1>1, <1>3, <2>2, <3>1 DEF opSar
    <3>5. Meaning(toUnsigned(d)) = d
      <4>1. -(h + h) < d /\ d < h + h /\ d \in SignedWord
        BY <1>4, <3>3
      <4> QED BY <1>2, <4>1, UnsignedIs
    <3> QED BY <3>2, <3>4, <3>5
  <2> QED BY <2>1, <2>2
<1>6. d * p = p * d /\ (d + 1) * p = p * d + p
  BY SMTT(20)
<1> QED BY <1>1, <1>3, <1>5, <1>6

\* What each opcode computes and means, line by line.
LEMMA ArithmeticTable ==
  ASSUME NEW args, NEW x, NEW y, NEW z, NEW r, x = args[1], y = args[2], z = args[3]
  PROVE  /\ Computed("ADD", args) = u256(x + y) /\ Computed("SUB", args) = u256(x - y)
         /\ Computed("MUL", args) = u256(x * y)
         /\ Computed("DIV", args) = opDiv(x, y) /\ Computed("MOD", args) = opMod(x, y)
         /\ Computed("SDIV", args) = opSdiv(x, y) /\ Computed("SMOD", args) = opSmod(x, y)
         /\ Computed("ADDMOD", args) = opAddmod(x, y, z) /\ Computed("MULMOD", args) = opMulmod(x, y, z)
         /\ Computed("SIGNEXTEND", args) = opSignextend(x, y)
         /\ Computed("SLT", args) = Truth(toSigned(x) < toSigned(y))
         /\ Computed("SGT", args) = Truth(toSigned(x) > toSigned(y))
         /\ Computed("NOT", args) = Xor(x, uint256Max) /\ Computed("BYTE", args) = opByte(x, y)
         /\ Computed("SHL", args) = opShl(x, y) /\ Computed("SHR", args) = opShr(x, y)
         /\ Computed("SAR", args) = opSar(x, y) /\ Computed("CLZ", args) = opClz(x)
BY SMTT(60) DEF Computed

LEMMA MeaningTable ==
  ASSUME NEW args, NEW x, NEW y, NEW z, NEW r, x = args[1], y = args[2], z = args[3]
  PROVE  /\ Right("ADD", args, r) <=> Congruent(r, Meaning(x) + Meaning(y))
         /\ Right("SUB", args, r) <=> Congruent(r, Meaning(x) - Meaning(y))
         /\ Right("MUL", args, r) <=> Congruent(r, Meaning(x) * Meaning(y))
         /\ Right("DIV", args, r) <=> IF y = 0 THEN r = 0 ELSE r * y <= x /\ x < (r + 1) * y
         /\ Right("MOD", args, r) <=> IF y = 0 THEN r = 0 ELSE r \in 0 .. y - 1 /\ (x - r) % y = 0
         /\ Right("ADDMOD", args, r)
              <=> IF z = 0 THEN r = 0 ELSE r \in 0 .. z - 1 /\ (x + y - r) % z = 0
         /\ Right("MULMOD", args, r)
              <=> IF z = 0 THEN r = 0 ELSE r \in 0 .. z - 1 /\ (x * y - r) % z = 0
         /\ Right("SLT", args, r) <=> r = Truth(Meaning(x) < Meaning(y))
         /\ Right("SGT", args, r) <=> r = Truth(Meaning(x) > Meaning(y))
         /\ Right("NOT", args, r) <=> r + x = uint256Max
         /\ Right("SHL", args, r) <=> Congruent(r, y * 2 ^ x)
         /\ Right("SHR", args, r) <=> r * 2 ^ x <= y /\ y < (r + 1) * 2 ^ x
         /\ Right("SAR", args, r)
              <=> Meaning(r) * 2 ^ x <= Meaning(y) /\ Meaning(y) < (Meaning(r) + 1) * 2 ^ x
         /\ Right("CLZ", args, r)
              <=> IF x = 0 THEN r = WordBits
                  ELSE 2 ^ WordBits <= 2 ^ (r + 1) * x /\ 2 ^ r * x < 2 ^ WordBits
         /\ \A op \in {"EXP", "LT", "GT", "EQ", "ISZERO", "AND", "OR", "XOR"} :
              Right(op, args, r) <=> r \in Word
BY SMTT(60) DEF Right

LEMMA LongMeaningTable ==
  ASSUME NEW args, NEW x, NEW y, NEW r, x = args[1], y = args[2]
  PROVE  /\ Right("SDIV", args, r)
              <=> IF y = 0 THEN r = 0
                  ELSE \E n \in -(2 ^ WordBits) .. 2 ^ WordBits :
                         Truncates(n, Meaning(x), Meaning(y)) /\ Congruent(r, n)
         /\ Right("SMOD", args, r)
              <=> IF y = 0 THEN r = 0
                  ELSE \E n \in -(2 ^ WordBits) .. 2 ^ WordBits :
                         /\ Truncates(n, Meaning(x), Meaning(y))
                         /\ Congruent(r, Meaning(x) - n * Meaning(y))
         /\ Right("SIGNEXTEND", args, r)
              <=> IF x >= WordBytes THEN r = y
                  ELSE LET range == 2 ^ (ByteBits * (x + 1))
                       IN /\ 2 * Meaning(r) \in -range .. range - 1
                          /\ (Meaning(r) - y) % range = 0
         /\ Right("BYTE", args, r)
              <=> IF x >= WordBytes THEN r = 0
                  ELSE LET low == 2 ^ (ByteBits * (WordBytes - 1 - x))
                       IN r \in 0 .. 2 ^ ByteBits - 1 /\ (y \div low - r) % 2 ^ ByteBits = 0
BY SMTT(60) DEF Right

LEMMA ModIsRight ==
  ASSUME NEW n \in Nat, NEW y \in Word
  PROVE  IF y = 0 THEN TRUE ELSE n % y \in 0 .. y - 1 /\ (n - (n % y)) % y = 0
BY RemainderIsRight, WordFacts

\* What an arithmetic opcode pushes is what it means.
LEMMA ComputedIsRight ==
  ASSUME NEW op \in Arithmetic, NEW args, \A i \in 1 .. Arity(op) : args[i] \in Word
  PROVE  Right(op, args, Computed(op, args))
<1>1. PICK x, y, z, r : x = args[1] /\ y = args[2] /\ z = args[3] /\ r = Computed(op, args)
  OBVIOUS
<1>2. /\ x \in Word
      /\ op \in Binary \cup Ternary => y \in Word
      /\ op \in Ternary => z \in Word
  BY <1>1 DEF Arity, Arithmetic, Unary, Binary, Ternary
<1>3. \A n \in Word : n \in Nat
  BY WordFacts
<1> HIDE DEF Word
<1>4. CASE op \in {"ADD", "SUB", "MUL"}
  <2>1. x \in Word /\ y \in Word
    BY <1>2, <1>4 DEF Binary
  <2> QED BY <1>1, <1>4, <2>1, SumsAreRight, ArithmeticTable, MeaningTable, SMTT(20)
<1>5. CASE op \in {"DIV", "MOD"}
  <2>1. x \in Word /\ y \in Word /\ x \in Nat
    BY <1>2, <1>3, <1>5 DEF Binary
  <2>2. y = 0 => opDiv(x, y) = 0 /\ opMod(x, y) = 0
    BY DEF opDiv, opMod
  <2>3. y # 0 => opMod(x, y) = x % y
    BY DEF opMod
  <2>4. y # 0 => opDiv(x, y) * y <= x /\ x < (opDiv(x, y) + 1) * y
    BY <2>1, DivIsRight
  <2>5. y # 0 => x % y \in 0 .. y - 1 /\ (x - (x % y)) % y = 0
    BY <2>1, ModIsRight
  <2> QED BY <1>1, <1>5, <2>2, <2>3, <2>4, <2>5, ArithmeticTable, MeaningTable, SMTT(20)
<1>6. CASE op \in {"SDIV", "SMOD"}
  <2>1. x \in Word /\ y \in Word
    BY <1>2, <1>6 DEF Binary
  <2>2. y = 0 => opSdiv(x, y) = 0 /\ opSmod(x, y) = 0
    BY DEF opSdiv, opSmod
  <2>3. y # 0 => \E n \in -(2 ^ WordBits) .. 2 ^ WordBits :
                   /\ Truncates(n, Meaning(x), Meaning(y))
                   /\ Congruent(opSdiv(x, y), n)
                   /\ Congruent(opSmod(x, y), Meaning(x) - n * Meaning(y))
    BY <2>1, SignedDivisionIsRight, Zenon
  <2> QED BY <1>1, <1>6, <2>2, <2>3, ArithmeticTable, LongMeaningTable, SMTT(20)
<1>7. CASE op \in {"ADDMOD", "MULMOD"}
  <2>1. x \in Nat /\ y \in Nat /\ z \in Word
    BY <1>2, <1>3, <1>7 DEF Ternary
  <2>2. x + y \in Nat /\ x * y \in Nat
    BY <2>1, SMTT(20)
  <2>3. /\ z = 0 => opAddmod(x, y, z) = 0 /\ opMulmod(x, y, z) = 0
        /\ z # 0 => opAddmod(x, y, z) = (x + y) % z /\ opMulmod(x, y, z) = (x * y) % z
    BY DEF opAddmod, opMulmod
  <2>4. \A n \in Nat : z # 0 => n % z \in 0 .. z - 1 /\ (n - (n % z)) % z = 0
    BY <2>1, ModIsRight
  <2>5. z # 0 => /\ (x + y) % z \in 0 .. z - 1 /\ (x + y - ((x + y) % z)) % z = 0
                 /\ (x * y) % z \in 0 .. z - 1 /\ (x * y - ((x * y) % z)) % z = 0
    <3>1. ASSUME NEW m, m \in Nat, m = x + y, z # 0
          PROVE  (x + y) % z \in 0 .. z - 1 /\ (x + y - ((x + y) % z)) % z = 0
      <4>1. m % z \in 0 .. z - 1 /\ (m - (m % z)) % z = 0
        BY <2>4, <3>1
      <4>2. (m - (m % z)) % z = 0 <=> (x + y - ((x + y) % z)) % z = 0
        <5>1. PICK n \in Int : n = m % z
          BY <4>1
        <5>2. m - n = x + y - n
          BY <2>1, <3>1
        <5> QED BY <3>1, <5>1, <5>2, Zenon
      <4>3. m % z \in 0 .. z - 1 <=> (x + y) % z \in 0 .. z - 1
        BY <3>1, Zenon
      <4> QED BY <4>1, <4>2, <4>3, Zenon
    <3>2. ASSUME NEW m, m \in Nat, m = x * y, z # 0
          PROVE  (x * y) % z \in 0 .. z - 1 /\ (x * y - ((x * y) % z)) % z = 0
      <4>1. m % z \in 0 .. z - 1 /\ (m - (m % z)) % z = 0
        BY <2>4, <3>2
      <4>2. (m - (m % z)) % z = 0 <=> (x * y - ((x * y) % z)) % z = 0
        BY <3>2, Zenon
      <4>3. m % z \in 0 .. z - 1 <=> (x * y) % z \in 0 .. z - 1
        BY <3>2, Zenon
      <4> QED BY <4>1, <4>2, <4>3, Zenon
    <3> QED BY <2>2, <3>1, <3>2, Zenon
  <2> QED BY <1>1, <1>7, <2>3, <2>5, ArithmeticTable, MeaningTable, SMTT(20)
<1>8. CASE op = "SIGNEXTEND"
  <2>1. x \in Word /\ y \in Word
    BY <1>2, <1>8 DEF Binary
  <2>2. x >= WordBytes => opSignextend(x, y) = y
    <3>1. x >= WordBytes => x > WordBytes - 1
      BY <1>3, <2>1, WordsAssumption
    <3> QED BY <3>1 DEF opSignextend
  <2>3. ~(x >= WordBytes) => x < WordBytes
    BY <1>3, <2>1, WordsAssumption
  <2> QED BY <1>1, <1>8, <2>1, <2>2, <2>3, SignextendIsRight, ArithmeticTable, LongMeaningTable, SMTT(20)
<1>9. CASE op \in {"SLT", "SGT"}
  <2>1. x \in Word /\ y \in Word
    BY <1>2, <1>9 DEF Binary
  <2>2. Meaning(x) = toSigned(x) /\ Meaning(y) = toSigned(y)
    BY <2>1, MeaningOf
  <2> QED BY <1>1, <1>9, <2>2, ArithmeticTable, MeaningTable, SMTT(20)
<1>10. CASE op \in {"NOT", "CLZ"}
  BY <1>1, <1>2, <1>10, NotIsRight, ClzIsRight, ArithmeticTable, MeaningTable, SMTT(20)
<1>11. CASE op = "BYTE"
  <2>1. x \in Word /\ y \in Word
    BY <1>2, <1>11 DEF Binary
  <2>2. x >= WordBytes => opByte(x, y) = 0
    BY DEF opByte
  <2>3. ~(x >= WordBytes) => x < WordBytes
    BY <1>3, <2>1, WordsAssumption
  <2> QED BY <1>1, <1>11, <2>1, <2>2, <2>3, ByteIsRight, ArithmeticTable, LongMeaningTable, SMTT(20)
<1>12. CASE op \in {"SHL", "SHR", "SAR"}
  <2>1. x \in Nat /\ y \in Word
    BY <1>2, <1>3, <1>12 DEF Binary
  <2> QED BY <1>1, <1>12, <2>1, ShlIsRight, ShrIsRight, SarIsRight, ArithmeticTable, MeaningTable, SMTT(20)
<1>13. CASE op \in {"EXP", "LT", "GT", "EQ", "ISZERO", "AND", "OR", "XOR"}
  <2>1. r \in Word
    BY <1>1, ComputedIsWord
  <2> QED BY <1>1, <1>13, <2>1, MeaningTable, SMTT(20)
<1> QED
  BY <1>4, <1>5, <1>6, <1>7, <1>8, <1>9, <1>10, <1>11, <1>12, <1>13
     DEF Arithmetic, Unary, Binary, Ternary

-----------------------------------------------------------------------------
(* The price of memory.                                                    *)

ByteValues == 0 .. ByteMod - 1

LEMMA Sizes ==
  /\ WordBytes \in Nat \ {0} /\ 2 <= WordBytes /\ OffsetMod \in Nat \ {0}
  /\ OffsetMod <= 2 ^ WordBits
  /\ MaxMemory \in Nat /\ Infinite \in Nat /\ StackLimit \in Nat \ {0}
  /\ ByteMod \in Nat \ {0}
BY WordsAssumption, InterpreterAssumption, WordFacts, Powers DEF ByteMod

LEMMA DivMonotone ==
  ASSUME NEW x \in Nat, NEW y \in Nat, x <= y, NEW d \in Nat \ {0}
  PROVE  x \div d <= y \div d
<1>1. PICK p \in Nat, q \in Nat : p = x \div d /\ q = y \div d
  <2>1. x \div d \in 0 .. x /\ y \div d \in 0 .. y
    BY Divides
  <2> QED BY <2>1
<1>2. d * p <= x /\ y < d * q + d
  BY <1>1, Divides
<1>3. d * p < d * q + d
  <2>1. d * p \in Int /\ d * q + d \in Int
    BY SMTT(20)
  <2> QED BY <1>2, <2>1
<1>4. d * p < d * (q + 1)
  BY <1>3, SMTT(20)
<1>5. p < q + 1
  BY <1>4, SMTT(20)
<1> QED BY <1>1, <1>5

LEMMA WordCounts ==
  ASSUME NEW size \in Nat
  PROVE  wordCount(size) \in Nat
<1>1. PICK s \in Nat : s = size + WordBytes - 1
  BY Sizes
<1>2. s \div WordBytes \in 0 .. s
  BY Sizes, Divides
<1> QED BY <1>1, <1>2 DEF wordCount

LEMMA Paid ==
  ASSUME NEW m \in Nat
  PROVE  m * 3 + (m * m) \div 512 \in Nat
<1>1. PICK q \in Nat : q = m * m
  BY SMTT(20)
<1>2. q \div 512 \in 0 .. q
  BY Divides
<1> QED BY <1>1, <1>2

\* More memory costs no less; what no frame can pay is the most.
LEMMA CostMonotone ==
  ASSUME NEW a \in Nat, NEW b \in Nat, a <= b
  PROVE  MemoryGasCost(a) \in Nat /\ MemoryGasCost(b) \in Nat /\ MemoryGasCost(a) <= MemoryGasCost(b)
<1>1. ASSUME NEW x \in Nat, NEW y \in Nat, x <= y, y <= MaxMemory
      PROVE  MemoryGasCost(x) \in Nat /\ MemoryGasCost(x) <= MemoryGasCost(y)
  <2>1. PICK m \in Nat, n \in Nat : m = wordCount(x) /\ n = wordCount(y)
    BY WordCounts
  <2>2. m <= n
    <3>1. PICK s \in Nat, t \in Nat : s = x + WordBytes - 1 /\ t = y + WordBytes - 1 /\ s <= t
      BY <1>1, Sizes
    <3>2. s \div WordBytes <= t \div WordBytes
      BY <3>1, Sizes, DivMonotone
    <3> QED BY <2>1, <3>1, <3>2 DEF wordCount
  <2>3. PICK p \in Nat, q \in Nat : p = m * m /\ q = n * n /\ p <= q
    BY <2>2, SMTT(20)
  <2>4. p \div 512 <= q \div 512 /\ p \div 512 \in Nat /\ q \div 512 \in Nat
    <3>1. p \div 512 \in 0 .. p /\ q \div 512 \in 0 .. q
      BY Divides
    <3> QED BY <2>3, <3>1, DivMonotone
  <2>5. MemoryGasCost(x) = m * 3 + p \div 512 /\ MemoryGasCost(y) = n * 3 + q \div 512
    BY <1>1, <2>1, <2>3, Sizes DEF MemoryGasCost
  <2> QED BY <2>2, <2>4, <2>5
<1>2. \A x \in Nat : MemoryGasCost(x) \in Nat
  BY <1>1, Sizes DEF MemoryGasCost
<1>3. CASE b <= MaxMemory
  BY <1>1, <1>2, <1>3
<1>4. CASE b > MaxMemory /\ a <= MaxMemory
  <2>1. MemoryGasCost(a) <= MemoryGasCost(MaxMemory)
    BY <1>1, <1>4, Sizes
  <2>2. MemoryGasCost(MaxMemory) <= Infinite /\ MemoryGasCost(b) = Infinite
    BY <1>4, InterpreterAssumption DEF MemoryGasCost
  <2> QED BY <1>2, <2>1, <2>2, Sizes
<1>5. CASE a > MaxMemory
  <2>1. MemoryGasCost(a) = Infinite /\ MemoryGasCost(b) = Infinite
    <3>1. b > MaxMemory
      BY <1>5, Sizes
    <3> QED BY <1>5, <3>1 DEF MemoryGasCost
  <2> QED BY <2>1, Sizes
<1> QED BY <1>3, <1>4, <1>5, Sizes

LEMMA Sums ==
  ASSUME NEW a \in Nat, NEW b \in Nat
  PROVE  Sum64(a, b) \in Nat
<1>1. PICK s \in Nat, m \in Nat \ {0} : s = a + b /\ m = OffsetMod
  BY Sizes
<1>2. s % m \in 0 .. m - 1
  BY Divides
<1> QED BY <1>1, <1>2 DEF Sum64

\* A size rounded up is whole words.
LEMMA Rounded ==
  ASSUME NEW size \in Nat
  PROVE  ceil32(size) \in Nat /\ ceil32(size) % WordBytes = 0
<1>1. PICK s \in Nat : s = Sum64(size, WordBytes - 1)
  BY Sizes, Sums
<1>2. PICK q \in Nat : q = s \div WordBytes
  <2>1. s \div WordBytes \in 0 .. s
    BY Sizes, Divides
  <2> QED BY <2>1
<1>3. ceil32(size) = IF size = 0 THEN 0 ELSE q * WordBytes
  BY <1>1, <1>2 DEF ceil32
<1>4. \A n \in Nat : n * WordBytes \in Nat /\ (n * WordBytes) % WordBytes = 0
  <2> TAKE n \in Nat
  <2>1. PICK x \in Nat : x = n * WordBytes
    BY Sizes, SMTT(20)
  <2>2. x = WordBytes * n + 0
    BY <2>1, Sizes, SMTT(20)
  <2>3. x % WordBytes = 0
    BY <2>2, Sizes, RemainderIs
  <2> QED BY <2>1, <2>3
<1>5. 0 * WordBytes = 0
  BY Sizes
<1>6. 0 \in Nat /\ 0 % WordBytes = 0
  BY <1>4, <1>5
<1> QED BY <1>3, <1>4, <1>6

\* A charge for memory is never negative, and with what was paid for the
\* memory there was it pays for what there is then.
LEMMA Expansion ==
  ASSUME NEW length \in Nat, NEW offset \in Nat, NEW size \in Nat
  PROVE  /\ ExpandSize(length, offset, size) \in Nat
         /\ \/ size = 0
            \/ ExpandSize(length, offset, size) = Infinite
            \/ ceil32(Sum64(offset, size)) <= length
            \/ /\ ceil32(Sum64(offset, size)) > length
               /\ ExpandSize(length, offset, size) + MemoryGasCost(length)
                    = MemoryGasCost(ceil32(Sum64(offset, size)))
<1>1. PICK end \in Nat : end = Sum64(offset, size)
  BY Sums
<1>2. PICK c \in Nat : c = ceil32(end)
  BY Rounded
<1>3. MemoryGasCost(length) \in Nat /\ MemoryGasCost(c) \in Nat
      /\ (c > length => MemoryGasCost(length) <= MemoryGasCost(c))
  BY CostMonotone
<1>4. ExpandSize(length, offset, size) =
        IF size = 0 THEN 0
        ELSE IF end < offset THEN Infinite
        ELSE IF c > length THEN MemoryGasCost(c) - MemoryGasCost(length)
        ELSE 0
  BY <1>1, <1>2 DEF ExpandSize
<1> HIDE DEF MemoryGasCost
<1> QED BY <1>1, <1>2, <1>3, <1>4, Sizes

-----------------------------------------------------------------------------
(* Prices and bytes.                                                       *)

LEMMA PerWordIsNat ==
  ASSUME NEW size \in Nat, NEW price \in Nat
  PROVE  PerWord(size, price) \in Nat
<1>1. \A n \in Nat : n * price \in Nat
  BY SMTT(20)
<1> QED BY <1>1, WordCounts, Sizes DEF PerWord

LEMMA ExpBytesIsNat ==
  ASSUME NEW exponent
  PROVE  ExpBytes(exponent) \in Nat
<1> DEFINE used == {i \in 0 .. WordBytes - 1 : exponent >= 2 ^ (ByteBits * i)}
<1>1. IsFiniteSet(0 .. WordBytes - 1)
  <2>1. WordBytes - 1 \in Int /\ 0 \in Int
    BY Sizes
  <2> QED BY <2>1, FS_Interval
<1>2. used \in SUBSET (0 .. WordBytes - 1)
  OBVIOUS
<1>3. IsFiniteSet(used)
  <2> HIDE DEF used
  <2> QED BY <1>1, <1>2, FS_Subset
<1>4. Cardinality(used) \in Nat
  BY <1>3, FS_CardinalityType
<1> QED BY <1>4 DEF ExpBytes

LEMMA NumberIsSmall ==
  \A op \in PushOps \cup DupOps \cup SwapOps \cup LogOps : Number(op) \in 0 .. 2
BY DEF PushOps, DupOps, SwapOps, LogOps, Number

\* The table of operands, line by line.
LEMMA PopsTable ==
  /\ \A op \in Arithmetic : Pops(op) = Arity(op)
  /\ \A op \in PushOps \cup ReadOps \cup {"STOP", "JUMPDEST", "INVALID"} : Pops(op) = 0
  /\ \A op \in DupOps : Pops(op) = Number(op)
  /\ \A op \in SwapOps : Pops(op) = Number(op) + 1
  /\ \A op \in LogOps : Pops(op) = Number(op) + 2
  /\ \A op \in CopyOps \cup {"MCOPY"} : Pops(op) = IF op = "EXTCODECOPY" THEN 4 ELSE 3
  /\ \A op \in {"MSTORE", "MSTORE8", "SSTORE", "TSTORE", "JUMPI", "KECCAK256", "RETURN",
                "REVERT"} : Pops(op) = 2
  /\ \A op \in {"POP", "MLOAD", "SLOAD", "TLOAD", "JUMP", "BLOCKHASH", "BLOBHASH",
                "CALLDATALOAD"} \cup AccountOps : Pops(op) = 1
BY SMTT(60) DEF Pops, Arity, Number, Arithmetic, Unary, Binary, Ternary, PushOps, DupOps, SwapOps,
   LogOps, CopyOps, AccountOps, ReadOps, ContextOps

LEMMA PopsIsNat ==
  \A op \in Opcodes : Pops(op) \in Nat /\ Peeks(op) \in Nat /\ Peeks(op) <= Pops(op)
<1>1. \A op \in Arithmetic : Arity(op) \in Nat
  BY DEF Arity
<1> SUFFICES ASSUME NEW op \in Opcodes
             PROVE  Pops(op) \in Nat /\ (op \in LogOps => Pops(op) >= 2)
  BY DEF Peeks
<1>2. op \in LogOps => Pops(op) \in Nat /\ Pops(op) >= 2
  BY PopsTable, NumberIsSmall
<1>3. op \in DupOps \cup SwapOps => Pops(op) \in Nat
  BY PopsTable, NumberIsSmall
<1>4. op \in CopyOps \cup {"MCOPY"} => Pops(op) \in Nat
  BY PopsTable
<1>5. op \in PushOps \cup AccountOps \cup ReadOps => Pops(op) \in {0, 1}
  <2>1. op \in PushOps \cup ReadOps => Pops(op) = 0
    BY PopsTable
  <2>2. op \in AccountOps => Pops(op) = 1
    BY PopsTable
  <2> QED BY <2>1, <2>2
<1>6. op \in {"STOP", "JUMPDEST", "INVALID", "MSTORE", "MSTORE8", "SSTORE", "TSTORE", "JUMPI",
              "KECCAK256", "RETURN", "REVERT", "POP", "MLOAD", "SLOAD", "TLOAD", "JUMP",
              "BLOCKHASH", "BLOBHASH", "CALLDATALOAD"} => Pops(op) \in Nat
  BY PopsTable
<1>7. op \in Arithmetic => Pops(op) \in Nat
  BY <1>1, PopsTable
<1> QED BY <1>2, <1>3, <1>4, <1>5, <1>6, <1>7 DEF Opcodes

\* Operands are words.
LEMMA OffsetIsNat ==
  ASSUME NEW n, stack[n] \in Word
  PROVE  Offset(n) \in Nat /\ Offset(n) < OffsetMod
BY WordFacts, Sizes DEF Offset, wordToUint64

LEMMA TouchedTable ==
  /\ \A op \in {"MLOAD", "MSTORE"} : Touched(op) = <<Offset(1), WordBytes>>
  /\ Touched("MSTORE8") = <<Offset(1), 1>>
  /\ \A op \in {"KECCAK256", "RETURN", "REVERT"} \cup LogOps : Touched(op) = <<Offset(1), Offset(2)>>
  /\ \A op \in CopyOps \cup {"MCOPY"} : Touched(op) = <<CopyOperand(op, 1), CopyOperand(op, 3)>>
  /\ \A op \in Opcodes : op \notin {"MLOAD", "MSTORE", "MSTORE8", "KECCAK256", "RETURN", "REVERT",
                                   "MCOPY"} \cup LogOps \cup CopyOps
        => Touched(op) = <<0, 0>>
BY SMTT(60) DEF Touched, LogOps, CopyOps

LEMMA DataGasTable ==
  ASSUME NEW op \in Opcodes, ~(Len(stack) < Peeks(op))
  PROVE  /\ op = "EXP" => DataGas(op) = 50 * ExpBytes(stack[2])
         /\ op = "KECCAK256" => DataGas(op) = PerWord(Offset(2), 6)
         /\ op \in CopyOps \cup {"MCOPY"}
              => DataGas(op) = PerWord(CopyOperand(op, 3), 3)
                               + (IF op = "EXTCODECOPY" THEN AccessGas(stack[1]) ELSE 0)
         /\ op \in LogOps
              => DataGas(op) = 375 * Number(op)
                               + (IF Offset(2) > MaxMemory THEN Infinite ELSE 8 * Offset(2))
         /\ op \in AccountOps => DataGas(op) = AccessGas(stack[1])
         /\ op = "SLOAD" => DataGas(op) = SlotGas(stack[1])
         /\ op \notin {"EXP", "KECCAK256", "MCOPY", "SLOAD"} \cup CopyOps \cup LogOps \cup AccountOps
              => DataGas(op) = 0
BY SMTT(60) DEF DataGas, LogOps, CopyOps, AccountOps

\* With its operands on the stack an opcode touches a place in memory.
LEMMA TouchedTypes ==
  ASSUME stack \in Seq(Word), NEW op \in Opcodes, Len(stack) >= Peeks(op)
  PROVE  Touched(op)[1] \in Nat /\ Touched(op)[2] \in Nat
<1>1. \A n \in 1 .. Len(stack) : Offset(n) \in Nat
  BY OffsetIsNat
<1>2. Len(stack) \in Nat
  OBVIOUS
<1>3. CASE op \in {"MLOAD", "MSTORE", "MSTORE8"}
  <2>1. Peeks(op) >= 1
    BY <1>3, PopsTable DEF Peeks, LogOps
  <2>2. Offset(1) \in Nat
    BY <1>1, <1>2, <2>1, PopsIsNat
  <2> QED BY <1>3, <2>2, Sizes, TouchedTable
<1>4. CASE op \in {"KECCAK256", "RETURN", "REVERT"} \cup LogOps
  <2>1. Peeks(op) >= 2
    BY <1>4, PopsTable DEF Peeks
  <2>2. Offset(1) \in Nat /\ Offset(2) \in Nat
    BY <1>1, <1>2, <2>1, PopsIsNat
  <2> QED BY <1>4, <2>2, TouchedTable
<1>5. CASE op \in CopyOps \cup {"MCOPY"}
  <2>1. Peeks(op) = IF op = "EXTCODECOPY" THEN 4 ELSE 3
    BY <1>5, PopsTable DEF Peeks, LogOps, CopyOps
  <2>2. CopyOperand(op, 1) \in Nat /\ CopyOperand(op, 3) \in Nat
    BY <1>1, <1>2, <2>1 DEF CopyOperand
  <2> QED BY <1>5, <2>2, TouchedTable
<1>6. CASE op \notin {"MLOAD", "MSTORE", "MSTORE8", "KECCAK256", "RETURN", "REVERT", "MCOPY"}
                     \cup LogOps \cup CopyOps
  BY <1>6, TouchedTable
<1> QED BY <1>3, <1>4, <1>5, <1>6

LEMMA MemoryGasIsNat ==
  ASSUME stack \in Seq(Word), Len(memory) \in Nat, NEW op \in Opcodes
  PROVE  MemoryGas(op) \in Nat
<1>1. CASE Len(stack) < Peeks(op)
  BY <1>1 DEF MemoryGas
<1>2. CASE ~(Len(stack) < Peeks(op))
  <2>1. Len(stack) >= Peeks(op)
    BY <1>2, PopsIsNat
  <2>2. Touched(op)[1] \in Nat /\ Touched(op)[2] \in Nat
    BY <2>1, TouchedTypes
  <2>3. ExpandSize(Len(memory), Touched(op)[1], Touched(op)[2]) \in Nat
    BY <2>2, Expansion
  <2> QED BY <1>2, <2>3 DEF MemoryGas
<1> QED BY <1>1, <1>2

LEMMA DataGasIsNat ==
  ASSUME stack \in Seq(Word), NEW op \in Opcodes
  PROVE  DataGas(op) \in Nat
<1>1. CASE Len(stack) < Peeks(op)
  BY <1>1 DEF DataGas
<1>2. CASE ~(Len(stack) < Peeks(op))
  <2>1. Len(stack) \in Nat /\ Len(stack) >= Peeks(op)
    BY <1>2, PopsIsNat
  <2>2. \A n \in 1 .. Len(stack) : Offset(n) \in Nat
    BY OffsetIsNat
  <2> DEFINE enough == ~(Len(stack) < Peeks(op))
  <2>3. CASE op = "EXP"
    <3>1. 50 * ExpBytes(stack[2]) \in Nat
      BY ExpBytesIsNat
    <3> QED BY <1>2, <2>3, <3>1, DataGasTable
  <2>4. CASE op = "KECCAK256"
    <3>1. Peeks(op) = 2
      BY <2>4, PopsTable DEF Peeks, LogOps
    <3>2. PerWord(Offset(2), 6) \in Nat
      <4>1. Offset(2) \in Nat
        BY <2>1, <2>2, <3>1
      <4> QED BY <4>1, PerWordIsNat
    <3> QED BY <1>2, <2>4, <3>2, DataGasTable
  <2>5. CASE op \in CopyOps \cup {"MCOPY"}
    <3>1. Peeks(op) = IF op = "EXTCODECOPY" THEN 4 ELSE 3
      BY <2>5, PopsTable DEF Peeks, LogOps, CopyOps
    <3>2. CopyOperand(op, 3) \in Nat
      BY <2>1, <2>2, <3>1 DEF CopyOperand
    <3>3. PerWord(CopyOperand(op, 3), 3) \in Nat
      BY <3>2, PerWordIsNat
    <3>4. AccessGas(stack[1]) \in Nat
      BY DEF AccessGas, GasWarmAccess, GasColdAccountAccess
    <3> HIDE DEF enough
    <3>5. DataGas(op) = PerWord(CopyOperand(op, 3), 3)
                        + (IF op = "EXTCODECOPY" THEN AccessGas(stack[1]) ELSE 0)
      BY <1>2, <2>5, DataGasTable
    <3> QED BY <3>3, <3>4, <3>5
  <2>6. CASE op \in LogOps
    <3>1. Peeks(op) = 2
      BY <2>6 DEF Peeks
    <3>2. Offset(2) \in Nat
      BY <2>1, <2>2, <3>1
    <3>3. Number(op) \in Nat
      BY <2>6 DEF LogOps, Number
    <3>4. DataGas(op) = 375 * Number(op) + (IF Offset(2) > MaxMemory THEN Infinite ELSE 8 * Offset(2))
      BY <1>2, <2>6, DataGasTable
    <3> QED BY <3>2, <3>3, <3>4, Sizes
  <2>7. CASE op \in AccountOps \cup {"SLOAD"}
    <3>1. AccessGas(stack[1]) \in Nat /\ SlotGas(stack[1]) \in Nat
      BY DEF AccessGas, SlotGas, GasWarmAccess, GasColdAccountAccess, GasColdSload
    <3>2. DataGas(op) = AccessGas(stack[1]) \/ DataGas(op) = SlotGas(stack[1])
      BY <1>2, <2>7, DataGasTable
    <3> QED BY <3>1, <3>2
  <2>8. CASE op \notin {"EXP", "KECCAK256", "MCOPY", "SLOAD"} \cup CopyOps \cup LogOps \cup AccountOps
    BY <1>2, <2>8, DataGasTable
  <2> QED BY <2>3, <2>4, <2>5, <2>6, <2>7, <2>8
<1> QED BY <1>1, <1>2

LEMMA GasCostsIsNat ==
  ASSUME NEW op
  PROVE  GasCosts(op) \in Nat
BY DEF GasCosts

LEMMA TotalIsNat ==
  ASSUME stack \in Seq(Word), Len(memory) \in Nat, NEW op \in Opcodes
  PROVE  Total(op) \in Nat /\ MemoryGas(op) \in Nat /\ MemoryGas(op) <= Total(op)
         /\ GasCosts(op) <= Total(op)
BY GasCostsIsNat, MemoryGasIsNat, DataGasIsNat DEF Total

\* The bytes of a word, and less, make a word again.
LEMMA WordOfIsWord ==
  ASSUME NEW n \in 0 .. WordBytes, NEW bytes, Len(bytes) = n, \A i \in 1 .. n : bytes[i] \in ByteValues
  PROVE  WordOf(bytes) \in Word
<1> DEFINE G == [i \in 1 .. n |-> [d \in Nat |-> d * ByteMod + bytes[i]]]
           read[i \in 0 .. n] == IF i = 0 THEN 0 ELSE read[i - 1] * ByteMod + bytes[i]
<1> n \in Nat
  BY Sizes
<1>1. ByteMod \in Nat \ {0} /\ ByteMod = 2 ^ ByteBits /\ \A i \in 1 .. n : bytes[i] \in 0 .. ByteMod - 1
  BY Sizes DEF ByteMod, ByteValues
<1>2. \A d \in Nat, i \in 1 .. n : d * ByteMod + bytes[i] \in Nat
  <2>1. \A d \in Nat : d * ByteMod \in Nat
    BY <1>1, SMTT(20)
  <2>2. \A i \in 1 .. n : bytes[i] \in Nat
    BY <1>1
  <2>3. \A a \in Nat, b \in Nat : a + b \in Nat
    OBVIOUS
  <2> QED BY <2>1, <2>2, <2>3, Zenon
<1>3. read = [i \in 0 .. n |-> IF i = 0 THEN 0 ELSE read[i - 1] * ByteMod + bytes[i]]
  <2>1. PICK f \in [0 .. n -> Nat] : Recursive(f, n, 0, G)
    <3>1. G \in [1 .. n -> [Nat -> Nat]]
      BY <1>2
    <3>2. 0 \in Nat
      OBVIOUS
    <3> HIDE DEF G
    <3> QED BY <3>1, <3>2, Recursion
  <2>2. ASSUME NEW i \in 0 .. n
        PROVE  f[i] = IF i = 0 THEN 0 ELSE f[i - 1] * ByteMod + bytes[i]
    <3>1. CASE i = 0
      BY <2>1, <3>1 DEF Recursive
    <3>2. CASE i # 0
      <4>1. i \in 1 .. n /\ i - 1 \in 0 .. n
        BY <3>2
      <4>2. f[i - 1] \in Nat
        <5> HIDE DEF G
        <5> QED BY <4>1
      <4>3. f[i] = G[i][f[i - 1]]
        <5> HIDE DEF G
        <5> QED BY <2>1, <3>2 DEF Recursive
      <4>4. G[i][f[i - 1]] = f[i - 1] * ByteMod + bytes[i]
        BY <4>1, <4>2
      <4> HIDE DEF G
      <4> QED BY <3>2, <4>3, <4>4
    <3> QED BY <3>1, <3>2
  <2>3. f = [i \in 0 .. n |-> IF i = 0 THEN 0 ELSE f[i - 1] * ByteMod + bytes[i]]
    <3> HIDE DEF G
    <3> QED BY <2>2
  <2> QED BY <2>3
<1> HIDE DEF read
<1> DEFINE S == {i \in 0 .. n : read[i] \in 0 .. 2 ^ (ByteBits * i) - 1}
<1>4. \A i \in Nat : ByteBits * i \in Nat /\ ByteBits * (i + 1) = ByteBits * i + ByteBits
  BY WordsAssumption, SMTT(20)
<1>5. 0 \in S
  <2>1. read[0] = 0
    BY <1>3
  <2>2. ByteBits * 0 = 0
    BY WordsAssumption
  <2> QED BY <2>1, <2>2, Powers
<1>6. ASSUME NEW i \in 0 .. n - 1, i \in S PROVE i + 1 \in S
  <2>1. i \in Nat /\ i + 1 \in 0 .. n /\ i + 1 \in 1 .. n /\ i + 1 # 0 /\ (i + 1) - 1 = i
    OBVIOUS
  <2>2. read[i + 1] = read[i] * ByteMod + bytes[i + 1]
    BY ONLY <1>3, <2>1
  <2>3. PICK p \in Nat \ {0} : p = 2 ^ (ByteBits * i)
    BY <1>4, <2>1, Powers
  <2>4. 2 ^ (ByteBits * (i + 1)) = p * ByteMod
    <3>1. 2 ^ (ByteBits * i + ByteBits) = 2 ^ (ByteBits * i) * 2 ^ ByteBits
      BY <1>4, <2>1, WordsAssumption, PowerOfSum
    <3> QED BY <1>1, <1>4, <2>1, <2>3, <3>1
  <2>5. PICK r \in Nat, b \in Nat : r = read[i] /\ b = bytes[i + 1] /\ r <= p - 1 /\ b <= ByteMod - 1
    BY <1>1, <1>6, <2>1, <2>3
  <2>6. r * ByteMod + b \in 0 .. p * ByteMod - 1
    <3> PICK m \in Nat \ {0} : m = ByteMod
      BY <1>1
    <3>1. r * m \in Nat /\ p * m \in Nat
      BY SMTT(20)
    <3>2. r * m <= (p - 1) * m
      BY <2>5, SMTT(20)
    <3>3. (p - 1) * m = p * m - m
      BY SMTT(20)
    <3> QED BY <2>5, <3>1, <3>2, <3>3
  <2> QED BY <2>1, <2>2, <2>4, <2>5, <2>6
<1>7. n \in S
  <2> HIDE DEF S
  <2>1. 0 .. n \subseteq S
    BY <1>5, <1>6, Stepwise
  <2> QED BY <2>1
<1>8. 2 ^ (ByteBits * n) <= 2 ^ WordBits
  <2>1. ByteBits * n <= WordBits
    BY WordsAssumption, SMTT(20) DEF WordBits
  <2> QED BY <1>4, <2>1, WordFacts, Powers
<1>9. read[n] \in Word
  <2>1. PICK p \in Nat, m \in Nat : p = 2 ^ (ByteBits * n) /\ m = 2 ^ WordBits /\ p <= m
    BY <1>4, <1>8, WordFacts, Powers
  <2>2. read[n] \in 0 .. p - 1
    BY <1>7, <2>1
  <2>3. Word = 0 .. m - 1
    BY <2>1, WordFacts
  <2> QED BY <2>1, <2>2, <2>3
<1> QED BY <1>9 DEF WordOf, read

\* Pieces of memory, of code or of input are bytes.
LEMMA Bytes ==
  ASSUME NEW data \in Seq(ByteValues), NEW offset \in Nat, NEW size \in Nat
  PROVE  /\ Piece(data, offset, size) \in Seq(ByteValues) /\ Len(Piece(data, offset, size)) = size
         /\ Get(data, offset, size) \in Seq(ByteValues) /\ Len(Get(data, offset, size)) = size
<1>1. 0 \in ByteValues
  BY Sizes DEF ByteValues
<1>2. Piece(data, offset, size) \in [1 .. size -> ByteValues]
  <2> SUFFICES ASSUME NEW i \in 1 .. size
               PROVE  (IF offset + i <= Len(data) THEN data[offset + i] ELSE 0) \in ByteValues
    BY DEF Piece
  <2> QED BY <1>1
<1>3. Get(data, offset, size) = Piece(data, offset, size)
  BY DEF Get, Piece
<1> QED BY <1>2, <1>3

LEMMA BytesOfIsBytes ==
  ASSUME NEW w \in Word
  PROVE  BytesOf(w) \in Seq(ByteValues) /\ Len(BytesOf(w)) = WordBytes
<1>1. \A i \in 1 .. WordBytes : ByteOf(w, i - 1) \in ByteValues
  BY ByteOfIsWord, Sizes DEF ByteValues, ByteMod
<1> QED BY <1>1, Sizes DEF BytesOf

\* Growing and writing keep memory whole words of bytes.
LEMMA ResizedTypes ==
  ASSUME NEW bytes \in Seq(ByteValues), Len(bytes) % WordBytes = 0, NEW size \in Nat
  PROVE  /\ Resized(bytes, size) \in Seq(ByteValues)
         /\ Len(Resized(bytes, size)) % WordBytes = 0
         /\ Len(Resized(bytes, size)) = IF ceil32(size) > Len(bytes) THEN ceil32(size) ELSE Len(bytes)
<1>1. PICK c \in Nat : c = ceil32(size) /\ c % WordBytes = 0
  BY Rounded
<1>2. CASE c > Len(bytes)
  <2> DEFINE zeros == [i \in 1 .. c - Len(bytes) |-> 0]
  <2>1. 0 \in ByteValues
    BY Sizes DEF ByteValues
  <2>2. c - Len(bytes) \in Nat
    BY <1>2
  <2>3. zeros \in Seq(ByteValues) /\ Len(zeros) = c - Len(bytes)
    BY <2>1, <2>2
  <2>4. Resized(bytes, size) = bytes \o zeros
    BY <1>1, <1>2 DEF Resized
  <2> HIDE DEF zeros
  <2>5. bytes \o zeros \in Seq(ByteValues) /\ Len(bytes \o zeros) = c
    BY <1>2, <2>3
  <2> QED BY <1>1, <1>2, <2>4, <2>5
<1>3. CASE ~(c > Len(bytes))
  BY <1>1, <1>3 DEF Resized
<1> QED BY <1>2, <1>3

LEMMA SetTypes ==
  ASSUME NEW bytes \in Seq(ByteValues), Len(bytes) % WordBytes = 0, NEW offset \in Nat,
         NEW data \in Seq(ByteValues)
  PROVE  /\ Set(bytes, offset, data) \in Seq(ByteValues)
         /\ Len(Set(bytes, offset, data)) % WordBytes = 0
         /\ Len(Set(bytes, offset, data)) = IF data = <<>> THEN Len(bytes)
                                            ELSE Len(Resized(bytes, Sum64(offset, Len(data))))
<1>1. CASE data = <<>>
  BY <1>1 DEF Set
<1>2. CASE data # <<>>
  <2>1. Len(data) \in Nat
    OBVIOUS
  <2>2. PICK grown \in Seq(ByteValues) :
          grown = Resized(bytes, Sum64(offset, Len(data))) /\ Len(grown) % WordBytes = 0
    BY <2>1, Sums, ResizedTypes
  <2>3. Set(bytes, offset, data) =
          [i \in 1 .. Len(grown) |-> IF i - offset \in 1 .. Len(data) THEN data[i - offset] ELSE grown[i]]
    BY <1>2, <2>2 DEF Set
  <2>4. \A i \in 1 .. Len(grown) :
          (IF i - offset \in 1 .. Len(data) THEN data[i - offset] ELSE grown[i]) \in ByteValues
    OBVIOUS
  <2>5. Set(bytes, offset, data) \in [1 .. Len(grown) -> ByteValues]
    BY <2>3, <2>4
  <2>6. Set(bytes, offset, data) \in Seq(ByteValues) /\ Len(Set(bytes, offset, data)) = Len(grown)
    BY <2>5
  <2> QED BY <1>2, <2>2, <2>6
<1> QED BY <1>1, <1>2

-----------------------------------------------------------------------------
(* Types.                                                                  *)

Code == Seq([op : Opcodes, value : ByteValues])
Slot == [original : Word, current : Word, warm : BOOLEAN, transient : Word]
Ends == {"success", "revert", "halt", "outOfGas", "stackUnderflow", "stackOverflow",
         "invalidJump", "invalidOpcode"}

StackOK == stack \in Seq(Word) /\ Len(stack) <= StackLimit
MemoryOK == memory \in Seq(ByteValues) /\ Len(memory) % WordBytes = 0
SlotsOK == slots \in [Word -> Slot]
StatusOK == status \in Ends \cup {"running"}

LEMMA StartFacts ==
  ASSUME \E frames \in Starts : start \in frames
  PROVE  /\ code \in Code /\ start.gas \in Nat /\ start.gas < Infinite /\ start.original \in Word
         /\ start.action \in {"none", "halt", "revert", "replace"}
<1>1. start \in Frames
  BY InterpreterAssumption
<1> QED BY <1>1, Sizes DEF Frames, Code, ByteValues, code

\* Types in parts, before and after a step.
LEMMA Parts ==
  TypeOK <=> /\ \E frames \in Starts : start \in frames
             /\ pc \in Nat /\ gas \in 0 .. start.gas /\ refund \in Nat
             /\ StackOK /\ MemoryOK /\ SlotsOK /\ StatusOK /\ memoryPaid \in Nat
             /\ stored \in [writes : Nat, paid : Nat]
BY DEF TypeOK, StackOK, MemoryOK, SlotsOK, StatusOK, Slot, Ends, ByteValues

LEMMA PartsNext ==
  TypeOK' <=> /\ \E frames \in Starts : start' \in frames
              /\ pc' \in Nat /\ gas' \in 0 .. start'.gas /\ refund' \in Nat
              /\ StackOK' /\ MemoryOK' /\ SlotsOK' /\ StatusOK' /\ memoryPaid' \in Nat
              /\ stored' \in [writes : Nat, paid : Nat]
BY DEF TypeOK, StackOK, MemoryOK, SlotsOK, StatusOK, Slot, Ends, ByteValues

LEMMA Fetched ==
  ASSUME TypeOK, Running
  PROVE  Op \in Opcodes /\ pc + 1 \in 1 .. Len(code) /\ Pops(Op) \in Nat
<1>1. code \in Code /\ pc \in Nat
  BY Parts, StartFacts
<1>2. pc + 1 \in 1 .. Len(code)
  BY <1>1 DEF Running, Code
<1>3. code[pc + 1] \in [op : Opcodes, value : ByteValues]
  <2>1. code \in Seq([op : Opcodes, value : ByteValues])
    BY <1>1 DEF Code
  <2> QED BY <1>2, <2>1, Element
<1> QED BY <1>2, <1>3, PopsIsNat DEF Op

LEMMA Charging ==
  ASSUME TypeOK, Charged
  PROVE  /\ Op \in Opcodes /\ status = "running"
         /\ gas' \in 0 .. start.gas /\ gas' + Total(Op) = gas /\ GasCosts(Op) <= Total(Op)
         /\ Total(Op) \in Nat /\ gas \in Nat
         /\ memoryPaid' = memoryPaid + MemoryGas(Op) /\ memoryPaid' \in Nat
<1>1. Op \in Opcodes
  BY Fetched DEF Charged
<1>2. stack \in Seq(Word) /\ Len(memory) \in Nat
  BY Parts DEF StackOK, MemoryOK
<1>3. Total(Op) \in Nat /\ MemoryGas(Op) \in Nat /\ GasCosts(Op) <= Total(Op)
  BY <1>1, <1>2, TotalIsNat
<1>4. start.gas \in Nat /\ gas \in 0 .. start.gas /\ memoryPaid \in Nat
  BY Parts, StartFacts
<1>5. gas' = gas - Total(Op) /\ Total(Op) <= gas /\ memoryPaid' = memoryPaid + MemoryGas(Op)
  BY DEF Charged
<1> QED BY <1>1, <1>3, <1>4, <1>5 DEF Charged, Running

\* A step that is paid for keeps the types when the handler keeps its part.
LEMMA Handled ==
  ASSUME TypeOK, Charged, start' = start, stored' = stored, pc' \in Nat, refund' \in Nat,
         StackOK', MemoryOK', SlotsOK', StatusOK'
  PROVE  TypeOK'
<1>1. /\ \E frames \in Starts : start' \in frames
      /\ gas' \in 0 .. start'.gas /\ memoryPaid' \in Nat /\ stored' \in [writes : Nat, paid : Nat]
  BY Charging, Parts
<1> QED BY <1>1, PartsNext

LEMMA StackUnchanged ==
  ASSUME TypeOK, stack' = stack PROVE StackOK'
BY Parts DEF StackOK

LEMMA MemoryUnchanged ==
  ASSUME TypeOK, memory' = memory PROVE MemoryOK'
BY Parts DEF MemoryOK

LEMMA SlotsUnchanged ==
  ASSUME TypeOK, slots' = slots PROVE SlotsOK'
BY Parts DEF SlotsOK

LEMMA SlotUpdates ==
  ASSUME NEW slot \in Slot, NEW v \in Word
  PROVE  /\ [slot EXCEPT !.warm = TRUE] \in Slot
         /\ [slot EXCEPT !.transient = v] \in Slot
         /\ [slot EXCEPT !.current = v, !.warm = TRUE] \in Slot
BY DEF Slot

\* A slot whose price was asked is the same but for being warm.
LEMMA AskedIs ==
  ASSUME TypeOK, slots' = SlotsAsked
  PROVE  /\ SlotsOK'
         /\ \A s \in Word : /\ slots'[s].current = slots[s].current
                             /\ slots'[s].original = slots[s].original
<1>1. slots \in [Word -> Slot]
  BY Parts DEF SlotsOK
<1>2. CASE slots' = slots
  BY <1>2, SlotsUnchanged
<1>3. CASE slots' = [slots EXCEPT ![stack[1]].warm = TRUE] /\ stack[1] \in Word
  <2>1. PICK w \in Word : w = stack[1]
    BY <1>3
  <2>2. PICK slot \in Slot : slot = slots[w]
    BY <1>1
  <2>3. PICK after \in Slot : after = [slot EXCEPT !.warm = TRUE]
    BY WordFacts, SlotUpdates
  <2>4. after.current = slot.current /\ after.original = slot.original
    BY <2>3 DEF Slot
  <2>5. slots' = [slots EXCEPT ![w] = after]
    BY <1>3, <2>1, <2>2, <2>3
  <2> HIDE DEF Slot
  <2> QED BY <1>1, <2>2, <2>4, <2>5 DEF SlotsOK
<1>4. CASE slots' = [slots EXCEPT ![stack[1]].warm = TRUE] /\ stack[1] \notin Word
  <2>1. slots' = slots
    BY <1>1, <1>4
  <2> QED BY <2>1, SlotsUnchanged
<1> QED BY <1>2, <1>3, <1>4 DEF SlotsAsked

LEMMA StatusUnchanged ==
  ASSUME TypeOK, status' = status PROVE StatusOK'
BY Parts DEF StatusOK

\* The operands are taken off the stack.
LEMMA RestTypes ==
  ASSUME TypeOK, Pops(Op) \in Nat, Len(stack) >= Pops(Op)
  PROVE  Rest \in Seq(Word) /\ Len(Rest) = Len(stack) - Pops(Op) /\ Len(Rest) <= StackLimit
<1>1. stack \in Seq(Word) /\ Len(stack) <= StackLimit
  BY Parts DEF StackOK
<1>2. PICK n \in Nat : n = Pops(Op) /\ n <= Len(stack)
  OBVIOUS
<1>3. SubSeq(stack, n + 1, Len(stack)) \in Seq(Word)
      /\ Len(SubSeq(stack, n + 1, Len(stack))) = Len(stack) - n
  BY <1>1, <1>2
<1> QED BY <1>1, <1>2, <1>3, Sizes DEF Rest

LEMMA PopTypes ==
  ASSUME TypeOK, Pops(Op) \in Nat, Len(stack) >= Pops(Op), stack' = Rest
  PROVE  StackOK'
BY RestTypes DEF StackOK

LEMMA PushTypes ==
  ASSUME TypeOK, NEW w \in Word, Len(stack) < StackLimit, stack' = <<w>> \o stack
  PROVE  StackOK'
<1>1. stack \in Seq(Word)
  BY Parts DEF StackOK
<1>2. <<w>> \o stack \in Seq(Word) /\ Len(<<w>> \o stack) = Len(stack) + 1
  BY <1>1
<1> QED BY <1>1, <1>2, Sizes DEF StackOK

LEMMA PushedTypes ==
  ASSUME TypeOK, Pops(Op) \in Nat \ {0}, Len(stack) >= Pops(Op), NEW w \in Word, Pushed(w)
  PROVE  StackOK'
<1>1. Rest \in Seq(Word) /\ Len(Rest) = Len(stack) - Pops(Op)
  BY RestTypes
<1>2. Len(stack) \in Nat /\ Len(stack) <= StackLimit
  BY Parts DEF StackOK
<1>3. <<w>> \o Rest \in Seq(Word) /\ Len(<<w>> \o Rest) = Len(Rest) + 1
  BY <1>1
<1> QED BY <1>1, <1>2, <1>3, Sizes DEF StackOK, Pushed

LEMMA InitTypes ==
  Init => TypeOK
<1> SUFFICES ASSUME Init PROVE TypeOK
  OBVIOUS
<1>1. \E frames \in Starts : start \in frames
  BY DEF Init
<1>2. gas \in 0 .. start.gas
  BY <1>1, StartFacts DEF Init
<1>3. StackOK
  BY Sizes DEF Init, StackOK
<1>4. MemoryOK
  <2>1. 0 % WordBytes = 0
    BY Sizes
  <2> QED BY <2>1 DEF Init, MemoryOK
<1>5. SlotsOK
  <2>1. start.original \in Word /\ 0 \in Word
    BY <1>1, StartFacts, WordFacts
  <2> QED BY <2>1 DEF Init, SlotsOK, Slot
<1> QED BY <1>1, <1>2, <1>3, <1>4, <1>5, Parts DEF Init, StatusOK

\* The steps that are not a handler's.
LEMMA LoopTypes ==
  ASSUME TypeOK,
         EndOfCode \/ InvalidOpcode \/ OutOfGas \/ HookEnds \/ HookReplaces \/ StackFails
  PROVE  TypeOK'
<1>1. CASE EndOfCode \/ InvalidOpcode
  <2>1. StatusOK'
    BY <1>1 DEF EndOfCode, InvalidOpcode, Fail, End, StatusOK, Ends
  <2> QED BY <1>1, <2>1, Parts, PartsNext, StackUnchanged, MemoryUnchanged, SlotsUnchanged
          DEF EndOfCode, InvalidOpcode, Fail, End
<1>2. CASE OutOfGas
  <2>1. StatusOK'
    BY <1>2 DEF OutOfGas, Fail, End, StatusOK, Ends
  <2>2. gas' \in 0 .. start'.gas
    BY <1>2, Parts, StartFacts DEF OutOfGas, Fail
  <2> QED BY <1>2, <2>1, <2>2, Parts, PartsNext, StackUnchanged, MemoryUnchanged, AskedIs
          DEF OutOfGas, Fail, End
<1>3. CASE HookEnds
  <2>1. StatusOK'
    BY <1>3 DEF HookEnds, Fail, End, StatusOK, Ends
  <2> QED BY <1>3, <2>1, Parts, Handled, StackUnchanged, MemoryUnchanged, AskedIs
          DEF HookEnds, Fail
<1>4. CASE HookReplaces
  <2>1. StackOK'
    <3>1. 1 \in Word
      BY WordFacts
    <3> QED BY <1>4, <3>1, PushTypes DEF HookReplaces
  <2>2. pc' \in Nat /\ refund' \in Nat
    <3>1. pc' = pc + 1 /\ refund' = refund
      BY <1>4 DEF HookReplaces
    <3>2. pc \in Nat /\ refund \in Nat
      BY Parts
    <3> QED BY <3>1, <3>2
  <2> QED BY <1>4, <2>1, <2>2, Handled, MemoryUnchanged, AskedIs, StatusUnchanged
          DEF HookReplaces
<1>5. CASE StackFails
  <2>1. StatusOK'
    BY <1>5 DEF StackFails, Fail, End, StatusOK, Ends
  <2> QED BY <1>5, <2>1, Parts, Handled, StackUnchanged, MemoryUnchanged, AskedIs
          DEF StackFails, Fail
<1> QED BY <1>1, <1>2, <1>3, <1>4, <1>5

\* What a handler can rely on.
LEMMA Executed ==
  ASSUME TypeOK, NEW ops, Executes(ops)
  PROVE  /\ Charged /\ Op \in ops /\ Op \in Opcodes
         /\ Pops(Op) \in Nat /\ Len(stack) \in Nat /\ Len(stack) >= Pops(Op)
         /\ Grows(Op) => Len(stack) < StackLimit
         /\ \A n \in 1 .. Pops(Op) : stack[n] \in Word /\ Offset(n) \in Nat
         /\ pc \in Nat /\ pc + 1 \in Nat /\ refund \in Nat
<1>1. Charged /\ Op \in ops /\ Running /\ Len(stack) >= Pops(Op) /\ (Grows(Op) => Len(stack) < StackLimit)
  BY DEF Executes
<1>2. Op \in Opcodes /\ Pops(Op) \in Nat
  BY <1>1, Fetched
<1>3. stack \in Seq(Word) /\ Len(stack) \in Nat
  BY Parts DEF StackOK
<1>4. \A n \in 1 .. Pops(Op) : n \in 1 .. Len(stack)
  BY <1>1, <1>2, <1>3
<1>5. \A n \in 1 .. Pops(Op) : stack[n] \in Word
  <2> TAKE n \in 1 .. Pops(Op)
  <2> QED BY <1>3, <1>4, Element
<1>6. \A n \in 1 .. Pops(Op) : Offset(n) \in Nat
  BY <1>5, OffsetIsNat
<1>7. pc \in Nat /\ refund \in Nat
  BY Parts
<1> QED BY <1>1, <1>2, <1>3, <1>5, <1>6, <1>7

LEMMA ArithmeticallyTypes ==
  ASSUME TypeOK, Arithmetically PROVE TypeOK'
<1>1. Executes(Arithmetic)
  BY DEF Arithmetically
<1>2. Pops(Op) = Arity(Op) /\ Op \in Arithmetic
  BY <1>1, Executed, PopsTable
<1>3. Arity(Op) \in {1, 2, 3}
  BY DEF Arity
<1>4. Computed(Op, stack) \in Word
  <2>1. \A i \in 1 .. Arity(Op) : stack[i] \in Word
    BY <1>1, <1>2, Executed
  <2> QED BY <1>2, <2>1, ComputedIsWord
<1>5. StackOK'
  <2>1. Pops(Op) \in Nat \ {0} /\ Len(stack) >= Pops(Op)
    BY <1>1, <1>2, <1>3, Executed
  <2> QED BY <1>4, <2>1, PushedTypes DEF Arithmetically
<1> QED BY <1>1, <1>5, Executed, Handled, MemoryUnchanged, SlotsUnchanged, StatusUnchanged
        DEF Arithmetically, Advance, Untouched

LEMMA ReadTable ==
  /\ Read("CALLDATASIZE") = Len(Input) /\ Read("CODESIZE") = Len(code)
  /\ Read("PC") = pc /\ Read("MSIZE") = Len(memory) /\ Read("GAS") = u256(gas')
  /\ \A op \in ContextOps : Read(op) = 1
  /\ Read("RETURNDATASIZE") = 0 /\ Read("PUSH0") = 0
BY SMTT(60) DEF Read, ContextOps

LEMMA ReadContextTypes ==
  ASSUME TypeOK, ReadContext PROVE TypeOK'
<1>1. Executes(ReadOps)
  BY DEF ReadContext
<1>2. Len(Input) \in Int /\ Len(code) \in Int /\ Len(memory) \in Int /\ pc \in Int
  BY Parts, StartFacts, InterpreterAssumption DEF MemoryOK, Code
<1>3. u256(gas') \in Int
  <2>1. gas' \in Int
    BY <1>1, Executed, Charging
  <2> QED BY <2>1, WordFacts
<1>4. Read(Op) \in Int
  <2>1. Op \in ReadOps
    BY <1>1, Executed
  <2> QED BY <1>2, <1>3, <2>1, ReadTable DEF ReadOps
<1>5. StackOK'
  <2>1. Grows(Op)
    BY <1>1, Executed DEF Grows
  <2>2. Len(stack) < StackLimit /\ u256(Read(Op)) \in Word
    BY <1>1, <1>4, <2>1, Executed, WordFacts
  <2> QED BY <2>2, PushTypes DEF ReadContext
<1> QED BY <1>1, <1>5, Executed, Handled, MemoryUnchanged, SlotsUnchanged, StatusUnchanged
        DEF ReadContext, Advance, Untouched

LEMMA LookUpTypes ==
  ASSUME TypeOK, LookUp PROVE TypeOK'
<1>1. Executes(AccountOps \cup {"BLOCKHASH", "BLOBHASH", "CALLDATALOAD"})
  BY DEF LookUp
<1>2. Pops(Op) = 1 /\ Len(stack) >= 1 /\ Offset(1) \in Nat
  <2>1. Pops(Op) = 1
    <3>1. Op \in AccountOps \cup {"BLOCKHASH", "BLOBHASH", "CALLDATALOAD"}
      BY <1>1, Executed
    <3>2. Op \in AccountOps => Pops(Op) = 1
      BY PopsTable
    <3>3. Op \in {"BLOCKHASH", "BLOBHASH", "CALLDATALOAD"} => Pops(Op) = 1
      BY PopsTable
    <3> QED BY <3>1, <3>2, <3>3
  <2> QED BY <1>1, <2>1, Executed
<1>3. PICK w \in Word : Pushed(w)
  <2>1. WordOf(Piece(Input, Offset(1), WordBytes)) \in Word
    <3>1. Input \in Seq(ByteValues) /\ WordBytes \in Nat /\ WordBytes \in 0 .. WordBytes
      BY InterpreterAssumption, Sizes DEF ByteValues
    <3> DEFINE piece == Piece(Input, Offset(1), WordBytes)
    <3>2. piece \in Seq(ByteValues) /\ Len(piece) = WordBytes
      BY <1>2, <3>1, Bytes
    <3> HIDE DEF piece
    <3>3. \A i \in 1 .. WordBytes : piece[i] \in ByteValues
      BY <3>2
    <3>4. WordOf(piece) \in Word
      BY <3>1, <3>2, <3>3, WordOfIsWord
    <3> QED BY <3>4 DEF piece
  <2>2. 0 \in Word
    BY WordFacts
  <2> QED BY <2>1, <2>2 DEF LookUp
<1>4. StackOK'
  BY <1>2, <1>3, PushedTypes
<1> QED BY <1>1, <1>4, Executed, Handled, MemoryUnchanged, SlotsUnchanged, StatusUnchanged
        DEF LookUp, Advance, Untouched

\* The data of the code are bytes.
LEMMA CodeBytes ==
  ASSUME TypeOK
  PROVE  [i \in 1 .. Len(code) |-> code[i].value] \in Seq(ByteValues)
<1>1. code \in Seq([op : Opcodes, value : ByteValues])
  BY Parts, StartFacts DEF Code
<1> HIDE DEF code
<1>2. \A i \in 1 .. Len(code) : code[i].value \in ByteValues
  <2> TAKE i \in 1 .. Len(code)
  <2>1. code[i] \in [op : Opcodes, value : ByteValues]
    BY <1>1, Element
  <2> QED BY <2>1
<1>3. Len(code) \in Nat
  BY <1>1
<1> QED BY <1>2, <1>3

LEMMA PushDataIsWord ==
  ASSUME TypeOK, NEW n \in 0 .. 2
  PROVE  WordOf(PushData(n)) \in Word
<1>1. n \in 0 .. WordBytes /\ n \in Nat
  BY Sizes
<1>2. pc + 1 \in Nat
  BY Parts
<1>3. PushData(n) \in Seq(ByteValues) /\ Len(PushData(n)) = n
  BY <1>1, <1>2, CodeBytes, Bytes DEF PushData
<1>4. \A i \in 1 .. n : PushData(n)[i] \in ByteValues
  BY <1>3
<1> QED BY <1>1, <1>3, <1>4, WordOfIsWord

LEMMA StackOpTypes ==
  ASSUME TypeOK, StackOp PROVE TypeOK'
<1>1. Executes({"POP"} \cup PushOps \cup DupOps \cup SwapOps)
  BY DEF StackOp
<1>2. CASE Op = "POP" /\ stack' = Rest /\ Advance
  <2>1. StackOK'
    BY <1>1, <1>2, Executed, PopTypes
  <2>2. pc' \in Nat
    BY <1>1, <1>2, Executed DEF Advance
  <2> QED BY <1>1, <2>1, <2>2, Executed, Handled, MemoryUnchanged, SlotsUnchanged, StatusUnchanged
          DEF StackOp, Untouched
<1>3. CASE /\ Op \in PushOps
           /\ stack' = <<WordOf(PushData(Number(Op)))>> \o stack
           /\ pc' = pc + 1 + Number(Op)
  <2>1. Number(Op) \in 0 .. 2 /\ Grows(Op)
    BY <1>3, NumberIsSmall DEF Grows
  <2>2. StackOK'
    BY <1>1, <1>3, <2>1, Executed, PushDataIsWord, PushTypes
  <2>3. pc' \in Nat
    BY <1>1, <1>3, <2>1, Executed
  <2> QED BY <1>1, <2>2, <2>3, Executed, Handled, MemoryUnchanged, SlotsUnchanged, StatusUnchanged
          DEF StackOp, Untouched
<1>4. CASE Op \in DupOps /\ stack' = <<stack[Number(Op)]>> \o stack /\ Advance
  <2>1. Number(Op) \in 1 .. Pops(Op) /\ Grows(Op)
    <3>1. Number(Op) \in {1, 2}
      BY <1>4 DEF DupOps, Number
    <3>2. Pops(Op) = Number(Op)
      BY <1>4, PopsTable
    <3> QED BY <1>4, <3>1, <3>2 DEF Grows
  <2>2. stack[Number(Op)] \in Word
    BY <1>1, <2>1, Executed
  <2>3. StackOK'
    BY <1>1, <1>4, <2>1, <2>2, Executed, PushTypes
  <2>4. pc' \in Nat
    BY <1>1, <1>4, Executed DEF Advance
  <2> QED BY <1>1, <2>3, <2>4, Executed, Handled, MemoryUnchanged, SlotsUnchanged, StatusUnchanged
          DEF StackOp, Untouched
<1>5. CASE /\ Op \in SwapOps
           /\ stack' = [stack EXCEPT ![1] = stack[Number(Op) + 1], ![Number(Op) + 1] = stack[1]]
           /\ Advance
  <2>1. PICK n \in Nat : n = Number(Op) + 1 /\ Pops(Op) = n /\ n >= 1
    BY <1>5, NumberIsSmall, PopsTable
  <2>2. stack[1] \in Word /\ stack[n] \in Word
    <3>1. 1 \in 1 .. Pops(Op) /\ n \in 1 .. Pops(Op)
      BY <2>1
    <3> QED BY <1>1, <3>1, Executed
  <2>3. stack \in Seq(Word) /\ Len(stack) <= StackLimit
    BY Parts DEF StackOK
  <2>0. 1 \in 1 .. Len(stack) /\ n \in 1 .. Len(stack)
    BY <1>1, <2>1, Executed
  <2>4. PICK swapped \in Seq(Word) :
          swapped = [stack EXCEPT ![1] = stack[n]] /\ Len(swapped) = Len(stack)
    <3>1. /\ [stack EXCEPT ![1] = stack[n]] \in Seq(Word)
          /\ Len([stack EXCEPT ![1] = stack[n]]) = Len(stack)
      BY <2>2, <2>3, <2>0, ExceptSeq
    <3> QED BY <3>1
  <2>5. /\ [swapped EXCEPT ![n] = stack[1]] \in Seq(Word)
        /\ Len([swapped EXCEPT ![n] = stack[1]]) = Len(stack)
    BY <2>2, <2>4, <2>0, ExceptSeq
  <2>6. stack' = [swapped EXCEPT ![n] = stack[1]]
    BY <1>5, <2>1, <2>4
  <2>7. StackOK'
    BY <2>3, <2>5, <2>6 DEF StackOK
  <2>8. pc' \in Nat
    BY <1>1, <1>5, Executed DEF Advance
  <2> QED BY <1>1, <2>7, <2>8, Executed, Handled, MemoryUnchanged, SlotsUnchanged, StatusUnchanged
          DEF StackOp, Untouched
<1> QED BY <1>2, <1>3, <1>4, <1>5 DEF StackOp

LEMMA JumpTypes ==
  ASSUME TypeOK, Jump PROVE TypeOK'
<1>1. Executes({"JUMP", "JUMPI", "JUMPDEST"})
  BY DEF Jump
<1> DEFINE dest == wordToUint64(stack[1])
           taken == Op = "JUMP" \/ (Op = "JUMPI" /\ stack[2] # 0)
<1>2. taken => dest \in Nat
  <2>1. taken => 1 \in 1 .. Pops(Op)
    BY PopsTable
  <2>2. \A n \in 1 .. Pops(Op) : wordToUint64(stack[n]) \in Nat
    BY <1>1, Executed DEF Offset
  <2> QED BY <2>1, <2>2
<1>3. \/ status' = "invalidJump" /\ pc' = pc /\ stack' = stack
      \/ pc' = (IF taken THEN dest ELSE pc + 1) /\ stack' = Rest /\ status' = status
  BY DEF Jump, End
<1> HIDE DEF dest, taken
<1>4. pc' \in Nat
  BY <1>1, <1>2, <1>3, Executed
<1>5. StackOK'
  BY <1>1, <1>3, Executed, StackUnchanged, PopTypes
<1>6. StatusOK'
  BY <1>3, StatusUnchanged DEF StatusOK, Ends
<1> QED BY <1>1, <1>4, <1>5, <1>6, Executed, Handled, MemoryUnchanged, SlotsUnchanged DEF Jump

\* MSTORE, MSTORE8 and the copies: what Mstore leaves.
LEMMA MstoreTypes ==
  ASSUME TypeOK, NEW ops, Executes(ops), NEW offset \in Nat, NEW data \in Seq(ByteValues),
         NEW refuses, Mstore(offset, data, refuses),
         start' = start, refund' = refund, slots' = slots, stored' = stored
  PROVE  TypeOK'
<1>1. \/ status' = "halt" /\ memory' = memory /\ stack' = stack /\ pc' = pc
      \/ memory' = Set(memory, offset, data) /\ stack' = Rest /\ pc' = pc + 1 /\ status' = status
  BY DEF Mstore, End, Advance
<1>2. MemoryOK'
  <2>1. memory \in Seq(ByteValues) /\ Len(memory) % WordBytes = 0
    BY Parts DEF MemoryOK
  <2>2. /\ Set(memory, offset, data) \in Seq(ByteValues)
        /\ Len(Set(memory, offset, data)) % WordBytes = 0
    BY <2>1, SetTypes
  <2> QED BY <1>1, <2>1, <2>2 DEF MemoryOK
<1>3. StackOK'
  BY <1>1, Executed, StackUnchanged, PopTypes
<1>4. StatusOK'
  BY <1>1, StatusUnchanged DEF StatusOK, Ends
<1>5. pc' \in Nat
  BY <1>1, Executed
<1> QED BY <1>2, <1>3, <1>4, <1>5, Executed, Handled, SlotsUnchanged

LEMMA MloadTypes ==
  ASSUME TypeOK, Mload PROVE TypeOK'
<1>1. Executes({"MLOAD"})
  BY DEF Mload
<1>2. Op = "MLOAD" /\ Pops(Op) = 1 /\ Offset(1) \in Nat /\ Len(stack) >= Pops(Op)
  <2>1. Op = "MLOAD"
    BY <1>1, Executed
  <2>2. Pops(Op) = 1
    BY <2>1, PopsTable
  <2>3. 1 \in 1 .. Pops(Op)
    BY <2>2
  <2> QED BY <1>1, <2>1, <2>2, <2>3, Executed
<1>3. memory \in Seq(ByteValues) /\ Len(memory) % WordBytes = 0
  BY Parts DEF MemoryOK
<1>4. MemoryOK'
  <2>1. Sum64(Offset(1), WordBytes) \in Nat
    BY <1>2, Sizes, Sums
  <2>2. memory' = Resized(memory, Sum64(Offset(1), WordBytes))
    BY DEF Mload
  <2> QED BY <1>3, <2>1, <2>2, ResizedTypes DEF MemoryOK
<1>5. PICK w \in Word : Pushed(w)
  <2> DEFINE got == Get(memory', Offset(1), WordBytes)
  <2>1. got \in Seq(ByteValues) /\ Len(got) = WordBytes
    BY <1>2, <1>4, Sizes, Bytes DEF MemoryOK
  <2>2. Pushed(WordOf(got))
    BY DEF Mload
  <2> HIDE DEF got
  <2>3. \A i \in 1 .. WordBytes : got[i] \in ByteValues
    BY <2>1
  <2>4. WordBytes \in 0 .. WordBytes
    BY Sizes
  <2>5. WordOf(got) \in Word
    BY <2>1, <2>3, <2>4, WordOfIsWord
  <2> QED BY <2>2, <2>5
<1>6. StackOK'
  BY <1>2, <1>5, PushedTypes
<1> QED BY <1>1, <1>4, <1>6, Executed, Handled, SlotsUnchanged, StatusUnchanged DEF Mload, Advance

LEMMA StoreFacts ==
  ASSUME TypeOK, Store
  PROVE  \E data \in Seq(ByteValues) :
            /\ Mstore(Offset(1), data, FALSE) /\ Offset(1) \in Nat
            /\ Len(data) = IF Op = "MSTORE" THEN WordBytes ELSE 1
<1>1. Executes({"MSTORE", "MSTORE8"})
  BY DEF Store
<1>2. Offset(1) \in Nat /\ stack[2] \in Word
  <2>1. Pops(Op) = 2
    BY <1>1, Executed, PopsTable
  <2>2. 1 \in 1 .. Pops(Op) /\ 2 \in 1 .. Pops(Op)
    BY <2>1
  <2> QED BY <1>1, <2>2, Executed
<1>3. BytesOf(stack[2]) \in Seq(ByteValues) /\ Len(BytesOf(stack[2])) = WordBytes
  BY <1>2, BytesOfIsBytes
<1>4. <<ByteOf(stack[2], WordBytes - 1)>> \in Seq(ByteValues)
  <2>1. WordBytes - 1 \in 0 .. WordBytes - 1
    BY Sizes
  <2>2. ByteOf(stack[2], WordBytes - 1) \in ByteValues
    BY <1>2, <2>1, ByteOfIsWord DEF ByteValues, ByteMod
  <2> QED BY <2>2
<1>5. Mstore(Offset(1), IF Op = "MSTORE" THEN BytesOf(stack[2])
                        ELSE <<ByteOf(stack[2], WordBytes - 1)>>, FALSE)
  BY DEF Store
<1>6. CASE Op = "MSTORE"
  <2>1. Mstore(Offset(1), BytesOf(stack[2]), FALSE)
    BY <1>5, <1>6
  <2> QED BY <1>2, <1>3, <1>6, <2>1
<1>7. CASE Op # "MSTORE"
  <2>1. Mstore(Offset(1), <<ByteOf(stack[2], WordBytes - 1)>>, FALSE)
    BY <1>5, <1>7
  <2>2. Len(<<ByteOf(stack[2], WordBytes - 1)>>) = 1
    OBVIOUS
  <2> QED BY <1>2, <1>4, <1>7, <2>1, <2>2
<1> QED BY <1>6, <1>7

LEMMA StoreTypes ==
  ASSUME TypeOK, Store PROVE TypeOK'
<1>1. PICK data \in Seq(ByteValues) : Mstore(Offset(1), data, FALSE) /\ Offset(1) \in Nat
  BY StoreFacts
<1>2. Executes({"MSTORE", "MSTORE8"}) /\ start' = start /\ refund' = refund /\ slots' = slots /\ stored' = stored
  BY DEF Store
<1> QED BY <1>1, <1>2, MstoreTypes

LEMMA SourceTable ==
  /\ Source("CALLDATACOPY") = Input
  /\ Source("CODECOPY") = [i \in 1 .. Len(code) |-> code[i].value]
  /\ Source("RETURNDATACOPY") = <<>> /\ Source("EXTCODECOPY") = <<>>
  /\ Source("MCOPY") = memory
BY SMTT(60) DEF Source

LEMMA CopyFacts ==
  ASSUME TypeOK, Copy
  PROVE  \E data \in Seq(ByteValues), refuses \in BOOLEAN :
            Mstore(CopyOperand(Op, 1), data, refuses) /\ Len(data) = CopyOperand(Op, 3)
         /\ CopyOperand(Op, 1) \in Nat
<1>1. Executes(CopyOps \cup {"MCOPY"})
  BY DEF Copy
<1>2. Op \in CopyOps \cup {"MCOPY"}
  BY <1>1, Executed
<1>3. /\ CopyOperand(Op, 1) \in Nat /\ CopyOperand(Op, 2) \in Nat /\ CopyOperand(Op, 3) \in Nat
  <2>1. Pops(Op) = IF Op = "EXTCODECOPY" THEN 4 ELSE 3
    BY <1>2, PopsTable
  <2>2. \A n \in 1 .. Pops(Op) : Offset(n) \in Nat
    BY <1>1, Executed
  <2> QED BY <2>1, <2>2 DEF CopyOperand
<1>4. Source(Op) \in Seq(ByteValues)
  <2>1. Input \in Seq(ByteValues) /\ memory \in Seq(ByteValues) /\ <<>> \in Seq(ByteValues)
    BY Parts, InterpreterAssumption DEF MemoryOK, ByteValues
  <2>2. Op \in {"CALLDATACOPY", "CODECOPY", "RETURNDATACOPY", "EXTCODECOPY", "MCOPY"}
    BY <1>2 DEF CopyOps
  <2> QED BY <2>1, <2>2, SourceTable, CodeBytes
<1> DEFINE piece == Piece(Source(Op), CopyOperand(Op, 2), CopyOperand(Op, 3))
           refuses == Op = "RETURNDATACOPY" /\ CopyOperand(Op, 2) + CopyOperand(Op, 3) > 0
<1>5. Mstore(CopyOperand(Op, 1), piece, refuses) /\ refuses \in BOOLEAN
  BY DEF Copy
<1>6. piece \in Seq(ByteValues) /\ Len(piece) = CopyOperand(Op, 3)
  BY <1>3, <1>4, Bytes
<1> HIDE DEF piece, refuses
<1> QED BY <1>3, <1>5, <1>6

LEMMA CopyTypes ==
  ASSUME TypeOK, Copy PROVE TypeOK'
<1>1. PICK data \in Seq(ByteValues), refuses \in BOOLEAN :
        Mstore(CopyOperand(Op, 1), data, refuses) /\ CopyOperand(Op, 1) \in Nat
  BY CopyFacts
<1>2. Executes(CopyOps \cup {"MCOPY"}) /\ start' = start /\ refund' = refund /\ slots' = slots /\ stored' = stored
  BY DEF Copy
<1> QED BY <1>1, <1>2, MstoreTypes

LEMMA HashedFacts ==
  ASSUME TypeOK, Keccak
  PROVE  Pops(Op) = 2 /\ Offset(1) \in Nat /\ Offset(2) \in Nat /\ Len(stack) >= Pops(Op)
<1>1. Executes({"KECCAK256"})
  BY DEF Keccak
<1>2. Pops(Op) = 2
  BY <1>1, Executed, PopsTable
<1>3. 1 \in 1 .. Pops(Op) /\ 2 \in 1 .. Pops(Op)
  BY <1>2
<1> QED BY <1>1, <1>2, <1>3, Executed

LEMMA KeccakTypes ==
  ASSUME TypeOK, Keccak PROVE TypeOK'
<1>1. Executes({"KECCAK256"})
  BY DEF Keccak
<1>2. Pops(Op) = 2 /\ Offset(1) \in Nat /\ Offset(2) \in Nat /\ Len(stack) >= Pops(Op)
  BY HashedFacts
<1> DEFINE grown == Resized(memory, Sum64(Offset(1), Offset(2)))
           got == Get(grown, Offset(1), WordBytes)
<1>3. grown \in Seq(ByteValues) /\ Len(grown) % WordBytes = 0
  <2>1. memory \in Seq(ByteValues) /\ Len(memory) % WordBytes = 0
    BY Parts DEF MemoryOK
  <2> QED BY <1>2, <2>1, Sums, ResizedTypes
<1>4. WordOf(got) \in Word
  <2>1. got \in Seq(ByteValues) /\ Len(got) = WordBytes
    <3> HIDE DEF grown
    <3> QED BY <1>2, <1>3, Sizes, Bytes
  <2> HIDE DEF got
  <2>2. \A i \in 1 .. WordBytes : got[i] \in ByteValues
    BY <2>1
  <2>3. WordBytes \in 0 .. WordBytes
    BY Sizes
  <2> QED BY <2>1, <2>2, <2>3, WordOfIsWord
<1>5. \/ status' = "halt" /\ memory' = memory /\ stack' = stack /\ pc' = pc
      \/ memory' = grown /\ Pushed(WordOf(got)) /\ pc' = pc + 1 /\ status' = status
  BY DEF Keccak, End, Advance
<1> HIDE DEF grown, got
<1>6. MemoryOK'
  BY <1>3, <1>5, MemoryUnchanged DEF MemoryOK
<1>7. StackOK'
  BY <1>2, <1>4, <1>5, StackUnchanged, PushedTypes
<1>8. StatusOK'
  BY <1>5, StatusUnchanged DEF StatusOK, Ends
<1>9. pc' \in Nat
  BY <1>1, <1>5, Executed
<1> QED BY <1>1, <1>6, <1>7, <1>8, <1>9, Executed, Handled, SlotsUnchanged DEF Keccak

LEMMA LogTypes ==
  ASSUME TypeOK, Log PROVE TypeOK'
<1>1. Executes(LogOps)
  BY DEF Log
<1>2. StackOK'
  BY <1>1, Executed, PopTypes DEF Log
<1> QED BY <1>1, <1>2, Executed, Handled, MemoryUnchanged, SlotsUnchanged, StatusUnchanged
        DEF Log, Advance, Untouched

\* Storage and transient storage.
LEMMA SlotTypes ==
  ASSUME TypeOK, NEW s \in Word
  PROVE  /\ slots[s] \in Slot
         /\ slots[s].current \in Word /\ slots[s].transient \in Word /\ slots[s].original \in Word
BY Parts DEF SlotsOK, Slot

LEMMA SloadTypes ==
  ASSUME TypeOK, Sload PROVE TypeOK'
<1>1. Executes({"SLOAD"})
  BY DEF Sload
<1>2. Pops(Op) = 1 /\ stack[1] \in Word /\ Len(stack) >= Pops(Op)
  <2>1. Pops(Op) = 1
    BY <1>1, Executed, PopsTable
  <2>2. 1 \in 1 .. Pops(Op)
    BY <2>1
  <2> QED BY <1>1, <2>1, <2>2, Executed
<1>3. StackOK'
  BY <1>2, SlotTypes, PushedTypes DEF Sload
<1>4. SlotsOK'
  <2>1. slots \in [Word -> Slot]
    BY Parts DEF SlotsOK
  <2>2. slots' = [slots EXCEPT ![stack[1]].warm = TRUE]
    BY DEF Sload
  <2> HIDE DEF Slot
  <2>3. [slots[stack[1]] EXCEPT !.warm = TRUE] \in Slot
    BY <1>2, SlotTypes, SlotUpdates
  <2>4. slots' = [slots EXCEPT ![stack[1]] = [slots[stack[1]] EXCEPT !.warm = TRUE]]
    BY <2>2
  <2> QED BY <1>2, <2>1, <2>3, <2>4 DEF SlotsOK
<1> QED BY <1>1, <1>3, <1>4, Executed, Handled, MemoryUnchanged, StatusUnchanged
        DEF Sload, Advance, Untouched

LEMMA TloadTypes ==
  ASSUME TypeOK, Tload PROVE TypeOK'
<1>1. Executes({"TLOAD"})
  BY DEF Tload
<1>2. Pops(Op) = 1 /\ stack[1] \in Word /\ Len(stack) >= Pops(Op)
  <2>1. Pops(Op) = 1
    BY <1>1, Executed, PopsTable
  <2>2. 1 \in 1 .. Pops(Op)
    BY <2>1
  <2> QED BY <1>1, <2>1, <2>2, Executed
<1>3. StackOK'
  BY <1>2, SlotTypes, PushedTypes DEF Tload
<1> QED BY <1>1, <1>3, Executed, Handled, MemoryUnchanged, SlotsUnchanged, StatusUnchanged
        DEF Tload, Advance, Untouched

LEMMA TstoreTypes ==
  ASSUME TypeOK, Tstore PROVE TypeOK'
<1>1. Executes({"TSTORE"})
  BY DEF Tstore
<1>2. stack[1] \in Word /\ stack[2] \in Word
  <2>1. Pops(Op) = 2
    BY <1>1, Executed, PopsTable
  <2>2. 1 \in 1 .. Pops(Op) /\ 2 \in 1 .. Pops(Op)
    BY <2>1
  <2> QED BY <1>1, <2>2, Executed
<1>3. \/ status' = "halt" /\ slots' = slots /\ stack' = stack /\ pc' = pc
      \/ /\ slots' = [slots EXCEPT ![stack[1]].transient = stack[2]]
         /\ stack' = Rest /\ pc' = pc + 1 /\ status' = status
  BY DEF Tstore, End, Advance
<1>4. SlotsOK'
  <2>1. slots \in [Word -> Slot]
    BY Parts DEF SlotsOK
  <2>2. [slots[stack[1]] EXCEPT !.transient = stack[2]] \in Slot
    BY <1>2, SlotTypes DEF Slot
  <2>3. [slots EXCEPT ![stack[1]].transient = stack[2]]
          = [slots EXCEPT ![stack[1]] = [slots[stack[1]] EXCEPT !.transient = stack[2]]]
    OBVIOUS
  <2> HIDE DEF Slot
  <2>4. [slots EXCEPT ![stack[1]] = [slots[stack[1]] EXCEPT !.transient = stack[2]]] \in [Word -> Slot]
    BY <1>2, <2>1, <2>2
  <2> QED BY <1>3, <2>1, <2>3, <2>4 DEF SlotsOK
<1>5. StackOK'
  BY <1>1, <1>3, Executed, StackUnchanged, PopTypes
<1>6. StatusOK'
  BY <1>3, StatusUnchanged DEF StatusOK, Ends
<1>7. pc' \in Nat
  BY <1>1, <1>3, Executed
<1> QED BY <1>1, <1>4, <1>5, <1>6, <1>7, Executed, Handled, MemoryUnchanged DEF Tstore

LEMMA RefundsIsNat ==
  ASSUME NEW slot, NEW value, NEW before \in Nat
  PROVE  Refunds(slot, value, before) \in Nat
BY DEF Refunds, RefundSstoreClear, GasSstoreSet, GasSstoreReset, GasWarmAccess

LEMMA SstoreTypes ==
  ASSUME TypeOK, Sstore PROVE TypeOK'
<1>1. /\ stack \in Seq(Word) /\ Len(stack) \in Nat /\ Len(stack) >= 2 /\ Len(stack) <= StackLimit
      /\ gas \in 0 .. start.gas /\ start.gas \in Nat /\ pc \in Nat /\ refund \in Nat
      /\ slots \in [Word -> Slot] /\ memoryPaid \in Nat
      /\ \E frames \in Starts : start \in frames
  BY Parts, StartFacts DEF Sstore, StackOK, SlotsOK
<1>2. stack[1] \in Word /\ stack[2] \in Word
  BY <1>1, Element
<1>3. Pops(Op) = 2
  BY PopsTable DEF Sstore
<1> DEFINE slot == slots[stack[1]]
           value == stack[2]
           cost == SstoreCost(slot, value)
           total == cost + (IF slot.warm THEN 0 ELSE GasColdSload)
           warmed1 == [slots EXCEPT ![stack[1]].warm = TRUE]
           stored1 == [slots EXCEPT ![stack[1]] = [slot EXCEPT !.current = value, !.warm = TRUE]]
<1>4. \/ /\ status' \in {"halt", "outOfGas"} /\ gas' = gas /\ slots' = slots
         /\ stack' = stack /\ pc' = pc /\ refund' = refund
      \/ /\ status' = "outOfGas" /\ gas' = 0 /\ slots' = warmed1
         /\ stack' = stack /\ pc' = pc /\ refund' = refund
      \/ /\ ~(total > gas) /\ gas' = gas - total /\ refund' = Refunds(slot, value, refund)
         /\ slots' = stored1
         /\ stack' = Rest /\ pc' = pc + 1 /\ status' = status
  BY DEF Sstore, End, Advance
<1>14. stored' \in [writes : Nat, paid : Nat]
  <2>1. cost \in Nat
    BY DEF SstoreCost, GasWarmAccess, GasSstoreSet, GasSstoreReset
  <2>2. stored' = stored \/ stored' = [writes |-> stored.writes + 1, paid |-> stored.paid + cost]
    BY DEF Sstore
  <2> HIDE DEF cost
  <2> QED BY <2>1, <2>2, Parts
<1>5. start' = start /\ memory' = memory /\ memoryPaid' = memoryPaid
  BY DEF Sstore
<1>6. total \in Nat
  BY DEF SstoreCost, GasWarmAccess, GasSstoreSet, GasSstoreReset, GasColdSload
<1>7. warmed1 \in [Word -> Slot]
  <2>1. [slots[stack[1]] EXCEPT !.warm = TRUE] \in Slot
    BY <1>2, SlotTypes, SlotUpdates
  <2>2. warmed1 = [slots EXCEPT ![stack[1]] = [slots[stack[1]] EXCEPT !.warm = TRUE]]
    OBVIOUS
  <2> QED BY <1>1, <1>2, <2>1, <2>2
<1>8. stored1 \in [Word -> Slot]
  <2>1. [slot EXCEPT !.current = value, !.warm = TRUE] \in Slot
    BY <1>2, SlotTypes, SlotUpdates
  <2> HIDE DEF slot, value
  <2> QED BY <1>1, <1>2, <2>1
<1>9. Refunds(slot, value, refund) \in Nat
  BY <1>1, RefundsIsNat
<1> HIDE DEF slot, value, cost, total, warmed1, stored1
<1>10. StackOK'
  <2>1. CASE stack' = stack
    BY <2>1, StackUnchanged
  <2>2. CASE stack' = Rest
    BY <1>1, <1>3, <2>2, PopTypes
  <2> QED BY <1>4, <2>1, <2>2
<1>11. SlotsOK'
  BY <1>1, <1>4, <1>7, <1>8 DEF SlotsOK
<1>12. StatusOK'
  BY <1>4, StatusUnchanged DEF StatusOK, Ends
<1>13. gas' \in 0 .. start'.gas /\ pc' \in Nat /\ refund' \in Nat
  BY <1>1, <1>4, <1>5, <1>6, <1>9
<1> QED BY <1>1, <1>5, <1>10, <1>11, <1>12, <1>13, <1>14, PartsNext, MemoryUnchanged

LEMMA FinishTypes ==
  ASSUME TypeOK, Finish PROVE TypeOK'
<1>1. Executes({"STOP", "RETURN", "REVERT", "INVALID"})
  BY DEF Finish
<1>2. StatusOK'
  <2>1. Op \in {"STOP", "RETURN", "REVERT", "INVALID"}
    BY <1>1, Executed
  <2>2. status' = "halt" \/ status' = CASE Op \in {"STOP", "RETURN"} -> "success"
                                        [] Op = "REVERT" -> "revert"
                                        [] Op = "INVALID" -> "invalidOpcode"
    BY DEF Finish, End
  <2>3. status' \in {"halt", "success", "revert", "invalidOpcode"}
    BY <2>1, <2>2
  <2> QED BY <2>3 DEF StatusOK, Ends
<1> QED BY <1>1, <1>2, Executed, Handled, StackUnchanged, MemoryUnchanged, SlotsUnchanged DEF Finish

LEMMA StepTypes ==
  TypeOK /\ [Next]_vars => TypeOK'
<1> SUFFICES ASSUME TypeOK, [Next]_vars PROVE TypeOK'
  OBVIOUS
<1>1. CASE UNCHANGED vars
  BY <1>1, Parts, PartsNext, StackUnchanged, MemoryUnchanged, SlotsUnchanged, StatusUnchanged DEF vars
<1>2. CASE EndOfCode \/ InvalidOpcode \/ OutOfGas \/ HookEnds \/ HookReplaces \/ StackFails
  BY <1>2, LoopTypes
<1>3. CASE Arithmetically \/ ReadContext \/ LookUp \/ StackOp \/ Jump
  BY <1>3, ArithmeticallyTypes, ReadContextTypes, LookUpTypes, StackOpTypes, JumpTypes
<1>4. CASE Mload \/ Store \/ Copy \/ Keccak \/ Log
  BY <1>4, MloadTypes, StoreTypes, CopyTypes, KeccakTypes, LogTypes
<1>5. CASE Sload \/ Sstore \/ Tload \/ Tstore \/ Finish
  BY <1>5, SloadTypes, SstoreTypes, TloadTypes, TstoreTypes, FinishTypes
<1> QED BY <1>1, <1>2, <1>3, <1>4, <1>5 DEF Next

\* Whatever code runs, with operands of any width: the stack never exceeds its
\* limit and holds words, memory is whole words of bytes, gas never goes below
\* zero nor up.
THEOREM TypeCorrect ==
  Spec => []TypeOK
<1>1. Init => TypeOK
  BY InitTypes
<1>2. TypeOK /\ [Next]_vars => TypeOK'
  BY StepTypes
<1> QED BY <1>1, <1>2, PTL DEF Spec

\* For words of any width and any operands, what a handler is about to push is
\* what its opcode means: signs, carries, shifts past the width and remainders
\* of negative numbers included.
THEOREM ArithmeticStaysRight ==
  Spec => []ArithmeticIsRight
<1>1. TypeOK => ArithmeticIsRight
  <2> SUFFICES ASSUME TypeOK, Op \in Arithmetic, Len(stack) >= Pops(Op)
               PROVE  Right(Op, stack, Computed(Op, stack))
    BY DEF ArithmeticIsRight
  <2>1. stack \in Seq(Word)
    BY Parts DEF StackOK
  <2>2. Pops(Op) = Arity(Op) /\ Arity(Op) \in Nat
    BY PopsTable DEF Arity
  <2>3. \A i \in 1 .. Arity(Op) : stack[i] \in Word
    BY <2>1, <2>2
  <2> QED BY <2>3, ComputedIsRight
<1> QED BY <1>1, TypeCorrect, PTL

-----------------------------------------------------------------------------
(* Loops cost gas.                                                         *)

Costly == status' = "running" => gas' < gas \/ (gas' = gas /\ pc' > pc)

LEMMA ForwardIsCostly ==
  ASSUME TypeOK, Charged, pc' > pc
  PROVE  Costly
BY Charging DEF Costly

LEMMA PriceIsCostly ==
  ASSUME TypeOK, Charged, GasCosts(Op) > 0
  PROVE  Costly
<1>1. GasCosts(Op) \in Nat
  BY GasCostsIsNat
<1> QED BY <1>1, Charging DEF Costly

LEMMA JumpsCost ==
  GasCosts("JUMP") = 8 /\ GasCosts("JUMPI") = 10
BY SMTT(60) DEF GasCosts, LogOps, Arithmetic, Unary, Binary, Ternary, PushOps, ReadOps, ContextOps,
   DupOps, SwapOps, CopyOps, AccountOps

LEMMA JumpIsCostly ==
  ASSUME TypeOK, Jump PROVE Costly
<1>1. Executes({"JUMP", "JUMPI", "JUMPDEST"})
  BY DEF Jump
<1>2. CASE Op \in {"JUMP", "JUMPI"}
  BY <1>1, <1>2, Executed, JumpsCost, PriceIsCostly
<1>3. CASE Op = "JUMPDEST"
  <2>1. status' = "invalidJump" \/ pc' = pc + 1
    BY <1>3 DEF Jump, End
  <2>2. CASE status' = "invalidJump"
    BY <2>2 DEF Costly
  <2>3. CASE pc' = pc + 1
    <3>1. pc \in Nat
      BY Parts
    <3> QED BY <1>1, <2>3, <3>1, Executed, ForwardIsCostly
  <2> QED BY <2>1, <2>2, <2>3
<1> QED BY <1>1, <1>2, <1>3, Executed

LEMMA StackOpIsCostly ==
  ASSUME TypeOK, StackOp PROVE Costly
<1>1. Executes({"POP"} \cup PushOps \cup DupOps \cup SwapOps)
  BY DEF StackOp
<1>2. pc' = pc + 1 \/ (Op \in PushOps /\ pc' = pc + 1 + Number(Op))
  BY DEF StackOp, Advance
<1>3. pc' > pc
  <2>1. pc \in Nat /\ (Op \in PushOps => Number(Op) \in Nat)
    BY Parts, NumberIsSmall
  <2> QED BY <1>2, <2>1
<1> QED BY <1>1, <1>3, Executed, ForwardIsCostly

LEMMA SstoreIsCostly ==
  ASSUME TypeOK, Sstore PROVE Costly
<1> DEFINE slot == slots[stack[1]]
           total == SstoreCost(slot, stack[2]) + (IF slot.warm THEN 0 ELSE GasColdSload)
<1>1. status' \in {"halt", "outOfGas"} \/ (gas' = gas - total /\ pc' = pc + 1)
  BY DEF Sstore, End, Advance
<1>2. total \in Nat
  BY DEF SstoreCost, GasWarmAccess, GasSstoreSet, GasSstoreReset, GasColdSload
<1>3. gas \in Nat /\ pc \in Nat
  BY Parts, StartFacts
<1> HIDE DEF total
<1> QED BY <1>1, <1>2, <1>3 DEF Costly

LEMMA MstoreIsCostly ==
  ASSUME TypeOK, Charged, NEW offset, NEW data, NEW refuses, Mstore(offset, data, refuses)
  PROVE  Costly
<1>1. status' = "halt" \/ pc' = pc + 1
  BY DEF Mstore, End, Advance
<1>2. pc \in Nat
  BY Parts
<1>3. CASE status' = "halt"
  BY <1>3 DEF Costly
<1>4. CASE pc' = pc + 1
  BY <1>2, <1>4, ForwardIsCostly
<1> QED BY <1>1, <1>3, <1>4

LEMMA StepIsCostly ==
  ASSUME TypeOK, Next PROVE Costly
<1> pc \in Nat
  BY Parts
<1>1. CASE EndOfCode \/ InvalidOpcode \/ OutOfGas \/ HookEnds \/ StackFails
  <2>1. status' # "running"
    BY <1>1 DEF EndOfCode, InvalidOpcode, OutOfGas, HookEnds, StackFails, Fail, End
  <2> QED BY <2>1 DEF Costly
<1>2. CASE Finish
  <2>1. Op \in {"STOP", "RETURN", "REVERT", "INVALID"}
    BY <1>2, Executed DEF Finish
  <2>2. status' = "halt" \/ status' = CASE Op \in {"STOP", "RETURN"} -> "success"
                                        [] Op = "REVERT" -> "revert"
                                        [] Op = "INVALID" -> "invalidOpcode"
    BY <1>2 DEF Finish, End
  <2>3. status' # "running"
    BY <2>1, <2>2
  <2> QED BY <2>3 DEF Costly
<1>3. CASE HookReplaces \/ Arithmetically \/ ReadContext \/ LookUp \/ Mload \/ Log \/ Sload \/ Tload
  <2>1. pc' = pc + 1
    BY <1>3 DEF HookReplaces, Arithmetically, ReadContext, LookUp, Mload, Log, Sload, Tload, Advance
  <2>2. Charged
    BY <1>3 DEF HookReplaces, Arithmetically, ReadContext, LookUp, Mload, Log, Sload, Tload, Executes
  <2> QED BY <2>1, <2>2, ForwardIsCostly
<1>4. CASE Keccak \/ Tstore
  <2>1. status' = "halt" \/ pc' = pc + 1
    BY <1>4 DEF Keccak, Tstore, End, Advance
  <2>2. Charged
    BY <1>4 DEF Keccak, Tstore, Executes
  <2>3. CASE status' = "halt"
    BY <2>3 DEF Costly
  <2>4. CASE pc' = pc + 1
    BY <2>2, <2>4, ForwardIsCostly
  <2> QED BY <2>1, <2>3, <2>4
<1>5. CASE Store
  BY <1>5, MstoreIsCostly DEF Store, Executes
<1>6. CASE Copy
  BY <1>6, MstoreIsCostly DEF Copy, Executes
<1>7. CASE Jump \/ StackOp \/ Sstore
  BY <1>7, JumpIsCostly, StackOpIsCostly, SstoreIsCostly
<1> QED BY <1>1, <1>2, <1>3, <1>4, <1>5, <1>6, <1>7 DEF Next

\* Every step that goes on has cost gas or gone forward, whatever the code, the
\* hooks and the operands: a frame that loops runs out of gas.
THEOREM LoopsCost ==
  Spec => LoopsCostGas
<1>1. TypeOK /\ [Next]_vars => [Costly]_vars
  BY StepIsCostly
<1>2. Spec => [][Costly]_vars
  BY <1>1, TypeCorrect, PTL DEF Spec
<1> QED BY <1>2 DEF LoopsCostGas, Costly

-----------------------------------------------------------------------------
(* Memory is paid for.                                                     *)

PaidFor == memoryPaid >= MemoryGasCost(Len(memory))

LEMMA KeptMemoryIsPaid ==
  ASSUME TypeOK, Charged, PaidFor, Len(memory') = Len(memory)
  PROVE  PaidFor'
<1>1. Len(memory) \in Nat
  BY Parts DEF MemoryOK
<1>2. MemoryGasCost(Len(memory)) \in Nat
  BY <1>1, CostMonotone
<1>3. memoryPaid \in Nat /\ MemoryGas(Op) \in Nat /\ memoryPaid' = memoryPaid + MemoryGas(Op)
  <2>1. stack \in Seq(Word) /\ memoryPaid \in Nat
    BY Parts DEF StackOK
  <2> QED BY <1>1, <2>1, Charging, TotalIsNat
<1> QED BY <1>2, <1>3 DEF PaidFor

\* The handler grows memory by what the charge was for.
LEMMA GrownMemoryIsPaid ==
  ASSUME TypeOK, Charged, Len(stack) >= Peeks(Op), PaidFor,
         NEW offset \in Nat, NEW size \in Nat, size # 0, Touched(Op) = <<offset, size>>,
         Len(memory') = Len(Resized(memory, Sum64(offset, size)))
  PROVE  PaidFor'
<1>1. memory \in Seq(ByteValues) /\ Len(memory) % WordBytes = 0 /\ Len(memory) \in Nat
  BY Parts DEF MemoryOK
<1>2. PICK c \in Nat : c = ceil32(Sum64(offset, size))
  BY Sums, Rounded
<1>3. Len(memory') = IF c > Len(memory) THEN c ELSE Len(memory)
  BY <1>1, <1>2, Sums, ResizedTypes
<1>4. PICK charge \in Nat : charge = ExpandSize(Len(memory), offset, size)
  BY <1>1, Expansion
<1>5. MemoryGas(Op) = charge
  <2>1. Peeks(Op) \in Nat /\ Len(stack) \in Nat
    BY Charging, PopsIsNat, Parts DEF StackOK
  <2>2. ~(Len(stack) < Peeks(Op))
    BY <2>1
  <2> QED BY <1>4, <2>2 DEF MemoryGas
<1>6. charge # Infinite
  <2>1. MemoryGas(Op) <= Total(Op) /\ Total(Op) \in Nat
    BY <1>1, Charging, TotalIsNat, Parts DEF StackOK
  <2>2. Total(Op) <= gas /\ gas <= start.gas /\ start.gas < Infinite
        /\ gas \in Nat /\ start.gas \in Nat /\ Infinite \in Nat
    BY Parts, StartFacts, Sizes DEF Charged
  <2> QED BY <1>5, <2>1, <2>2
<1>7. CASE c <= Len(memory)
  <2>1. Len(memory') = Len(memory)
    BY <1>1, <1>3, <1>7
  <2> QED BY <2>1, KeptMemoryIsPaid
<1>8. CASE c > Len(memory)
  <2>1. charge + MemoryGasCost(Len(memory)) = MemoryGasCost(c)
    <3>1. \/ size = 0
          \/ ExpandSize(Len(memory), offset, size) = Infinite
          \/ ceil32(Sum64(offset, size)) <= Len(memory)
          \/ /\ ceil32(Sum64(offset, size)) > Len(memory)
             /\ ExpandSize(Len(memory), offset, size) + MemoryGasCost(Len(memory))
                  = MemoryGasCost(ceil32(Sum64(offset, size)))
      BY <1>1, Expansion
    <3>2. \/ size = 0 \/ charge = Infinite \/ c <= Len(memory)
          \/ charge + MemoryGasCost(Len(memory)) = MemoryGasCost(c)
      BY <1>2, <1>4, <3>1
    <3> QED BY <1>1, <1>6, <1>8, <3>2
  <2>2. MemoryGasCost(Len(memory)) \in Nat
    BY <1>1, CostMonotone
  <2>3. memoryPaid' = memoryPaid + charge /\ memoryPaid \in Nat
    BY <1>5, Charging, Parts
  <2>4. Len(memory') = c
    BY <1>3, <1>8
  <2> QED BY <2>1, <2>2, <2>3, <2>4 DEF PaidFor
<1> QED BY <1>1, <1>7, <1>8

LEMMA MstoreIsPaid ==
  ASSUME TypeOK, Charged, Len(stack) >= Peeks(Op), PaidFor,
         NEW offset \in Nat, NEW data \in Seq(ByteValues), NEW refuses, Mstore(offset, data, refuses),
         Touched(Op) = <<offset, Len(data)>>
  PROVE  PaidFor'
<1>1. memory' = memory \/ memory' = Set(memory, offset, data)
  BY DEF Mstore
<1>2. memory \in Seq(ByteValues) /\ Len(memory) % WordBytes = 0
  BY Parts DEF MemoryOK
<1>3. CASE memory' = memory
  BY <1>3, KeptMemoryIsPaid
<1>4. CASE memory' = Set(memory, offset, data) /\ data = <<>>
  <2>1. Len(memory') = Len(memory)
    BY <1>2, <1>4, SetTypes
  <2> QED BY <2>1, KeptMemoryIsPaid
<1>5. CASE memory' = Set(memory, offset, data) /\ data # <<>>
  <2>1. Len(memory') = Len(Resized(memory, Sum64(offset, Len(data))))
    BY <1>2, <1>5, SetTypes
  <2>2. Len(data) \in Nat /\ Len(data) # 0
    BY <1>5
  <2> QED BY <2>1, <2>2, GrownMemoryIsPaid
<1> QED BY <1>1, <1>3, <1>4, <1>5

LEMMA OddGrows ==
  [Next]_vars => odd \subseteq odd'
<1> SUFFICES ASSUME [Next]_vars PROVE odd \subseteq odd'
  OBVIOUS
<1>1. CASE UNCHANGED vars
  BY <1>1 DEF vars
<1>2. CASE EndOfCode \/ InvalidOpcode \/ OutOfGas \/ HookEnds \/ HookReplaces \/ StackFails
  BY <1>2 DEF EndOfCode, InvalidOpcode, OutOfGas, HookEnds, HookReplaces, StackFails, Fail
<1>3. CASE Arithmetically \/ ReadContext \/ LookUp \/ StackOp \/ Jump
  BY <1>3 DEF Arithmetically, ReadContext, LookUp, StackOp, Jump, Untouched
<1>4. CASE Mload \/ Store \/ Copy \/ Keccak \/ Log
  BY <1>4 DEF Mload, Store, Copy, Keccak, Log, Untouched, WentOdd
<1>5. CASE Sload \/ Sstore \/ Tload \/ Tstore \/ Finish
  BY <1>5 DEF Sload, Sstore, Tload, Tstore, Finish, Untouched
<1> QED BY <1>1, <1>2, <1>3, <1>4, <1>5 DEF Next

\* The handler has its operands, so the charge looked at them.
LEMMA HasPeeked ==
  ASSUME TypeOK, NEW ops, Executes(ops)
  PROVE  Len(stack) >= Peeks(Op) /\ Charged /\ Op \in ops /\ Op \in Opcodes
<1>1. Charged /\ Op \in ops /\ Op \in Opcodes /\ Len(stack) >= Pops(Op)
  BY Executed
<1>2. Pops(Op) \in Nat /\ Peeks(Op) \in Nat /\ Peeks(Op) <= Pops(Op)
  BY <1>1, PopsIsNat
<1>3. Len(stack) \in Nat
  BY Parts DEF StackOK
<1> QED BY <1>1, <1>2, <1>3

LEMMA MloadIsPaid ==
  ASSUME TypeOK, Mload, PaidFor PROVE PaidFor'
<1>1. Executes({"MLOAD"})
  BY DEF Mload
<1>2. Charged /\ Op = "MLOAD" /\ Len(stack) >= Peeks(Op)
  BY <1>1, HasPeeked
<1>3. Offset(1) \in Nat
  <2>1. 1 \in 1 .. Pops(Op)
    BY <1>2, PopsTable
  <2> QED BY <1>1, <2>1, Executed
<1>4. Touched(Op) = <<Offset(1), WordBytes>>
  BY <1>2, TouchedTable
<1>5. Len(memory') = Len(Resized(memory, Sum64(Offset(1), WordBytes)))
  BY DEF Mload
<1>6. WordBytes \in Nat /\ WordBytes # 0
  BY Sizes
<1> HIDE DEF Offset
<1> QED BY <1>2, <1>3, <1>4, <1>5, <1>6, GrownMemoryIsPaid

LEMMA StoreIsPaid ==
  ASSUME TypeOK, Store, PaidFor PROVE PaidFor'
<1>1. Charged /\ Op \in {"MSTORE", "MSTORE8"} /\ Len(stack) >= Peeks(Op)
  BY HasPeeked DEF Store
<1>2. PICK data \in Seq(ByteValues) :
        /\ Mstore(Offset(1), data, FALSE) /\ Offset(1) \in Nat
        /\ Len(data) = IF Op = "MSTORE" THEN WordBytes ELSE 1
  BY StoreFacts
<1>3. Touched(Op) = <<Offset(1), Len(data)>>
  BY <1>1, <1>2, TouchedTable
<1> QED BY <1>1, <1>2, <1>3, MstoreIsPaid

LEMMA CopyIsPaid ==
  ASSUME TypeOK, Copy, PaidFor PROVE PaidFor'
<1>1. Charged /\ Op \in CopyOps \cup {"MCOPY"} /\ Len(stack) >= Peeks(Op)
  BY HasPeeked DEF Copy
<1>2. PICK data \in Seq(ByteValues), refuses \in BOOLEAN :
        Mstore(CopyOperand(Op, 1), data, refuses) /\ Len(data) = CopyOperand(Op, 3)
        /\ CopyOperand(Op, 1) \in Nat
  BY CopyFacts
<1>3. Touched(Op) = <<CopyOperand(Op, 1), Len(data)>>
  BY <1>1, <1>2, TouchedTable
<1> QED BY <1>1, <1>2, <1>3, MstoreIsPaid

\* A hash of nothing that grows memory is noted, and the charge was for none.
LEMMA KeccakIsPaid ==
  ASSUME TypeOK, Keccak, PaidFor, "hash of nothing" \notin odd' PROVE PaidFor'
<1>1. Charged /\ Op = "KECCAK256" /\ Len(stack) >= Peeks(Op)
  <2>1. Charged /\ Op \in {"KECCAK256"} /\ Len(stack) >= Peeks(Op)
    BY HasPeeked DEF Keccak
  <2> QED BY <2>1
<1>2. Offset(1) \in Nat /\ Offset(2) \in Nat
  BY HashedFacts
<1> DEFINE grown == Resized(memory, Sum64(Offset(1), Offset(2)))
<1>3. \/ memory' = memory
      \/ memory' = grown /\ ~(Offset(2) = 0 /\ grown # memory)
  BY DEF Keccak, WentOdd
<1>4. Touched(Op) = <<Offset(1), Offset(2)>>
  BY <1>1, TouchedTable
<1>5. CASE memory' = memory
  BY <1>1, <1>5, KeptMemoryIsPaid
<1>6. CASE memory' = grown /\ Offset(2) # 0
  <2>1. Len(memory') = Len(Resized(memory, Sum64(Offset(1), Offset(2))))
    BY <1>6
  <2> HIDE DEF Offset, grown
  <2> QED BY <1>1, <1>2, <1>4, <1>6, <2>1, GrownMemoryIsPaid
<1> HIDE DEF grown
<1> QED BY <1>3, <1>5, <1>6

LEMMA StepIsPaid ==
  ASSUME TypeOK, [Next]_vars, MemoryIsPaidUnlessHashed PROVE MemoryIsPaidUnlessHashed'
<1> SUFFICES ASSUME "hash of nothing" \notin odd' PROVE PaidFor'
  BY DEF MemoryIsPaidUnlessHashed, PaidFor
<1>1. PaidFor
  BY OddGrows DEF MemoryIsPaidUnlessHashed, PaidFor
<1>2. CASE UNCHANGED vars \/ EndOfCode \/ InvalidOpcode \/ OutOfGas \/ Sstore
  <2>1. memory' = memory /\ memoryPaid' = memoryPaid
    BY <1>2 DEF vars, EndOfCode, InvalidOpcode, OutOfGas, Sstore, Fail
  <2> QED BY <1>1, <2>1 DEF PaidFor
<1>3. CASE \/ HookEnds \/ HookReplaces \/ StackFails \/ Arithmetically \/ ReadContext \/ LookUp
           \/ StackOp \/ Jump \/ Log \/ Sload \/ Tload \/ Tstore \/ Finish
  <2>1. Charged
    BY <1>3 DEF HookEnds, HookReplaces, StackFails, Arithmetically, ReadContext, LookUp,
       StackOp, Jump, Log, Sload, Tload, Tstore, Finish, Executes
  <2>2. memory' = memory
    BY <1>3 DEF HookEnds, HookReplaces, StackFails, Fail, Arithmetically, ReadContext, LookUp,
       StackOp, Jump, Log, Sload, Tload, Tstore, Finish
  <2> QED BY <1>1, <2>1, <2>2, KeptMemoryIsPaid
<1>4. CASE Mload \/ Store \/ Copy \/ Keccak
  BY <1>1, <1>4, MloadIsPaid, StoreIsPaid, CopyIsPaid, KeccakIsPaid
<1> QED BY <1>2, <1>3, <1>4 DEF Next

\* Whatever memory a frame has, it paid for, but after a hash of no bytes: for
\* any word size and any limit of memory.
THEOREM MemoryIsPaid ==
  Spec => []MemoryIsPaidUnlessHashed
<1>1. Init => MemoryIsPaidUnlessHashed
  <2> SUFFICES ASSUME Init PROVE memoryPaid >= MemoryGasCost(Len(memory))
    BY DEF MemoryIsPaidUnlessHashed
  <2>1. memoryPaid = 0 /\ Len(memory) = 0
    BY DEF Init
  <2>2. wordCount(0) = 0
    <3>1. PICK w \in Nat : w = WordBytes /\ w # 0
      BY Sizes
    <3>2. w - 1 \in Nat /\ w - 1 < w
      BY <3>1
    <3>3. (w - 1) \div w = 0
      BY <3>1, <3>2, Divides
    <3>4. wordCount(0) = (0 + w - 1) \div w
      BY <3>1 DEF wordCount
    <3> QED BY <3>3, <3>4
  <2>3. MemoryGasCost(0) = 0 * 3 + (0 * 0) \div 512
    BY <2>2, Sizes DEF MemoryGasCost
  <2> QED BY <2>1, <2>3
<1>2. TypeOK /\ MemoryIsPaidUnlessHashed /\ [Next]_vars => MemoryIsPaidUnlessHashed'
  BY StepIsPaid
<1> QED BY <1>1, <1>2, TypeCorrect, PTL DEF Spec

-----------------------------------------------------------------------------
(* Data is not run.                                                        *)

\* How many bytes of data follow an opcode.
DataOf(byte) == IF byte.op \in PushOps THEN Number(byte.op) ELSE 0

LEMMA DataOfIsNat ==
  ASSUME NEW byte PROVE DataOf(byte) \in Nat
BY NumberIsSmall DEF DataOf

LEMMA LeftIs ==
  ASSUME NEW bytes \in Code
  PROVE  /\ DataLeft(bytes) \in [0 .. Len(bytes) -> Nat] /\ DataLeft(bytes)[0] = 0
         /\ \A i \in 0 .. Len(bytes) - 1 :
              DataLeft(bytes)[i + 1] = IF DataLeft(bytes)[i] > 0 THEN DataLeft(bytes)[i] - 1
                                       ELSE DataOf(bytes[i + 1])
<1> DEFINE n == Len(bytes)
           next(i, last) == IF last > 0 THEN last - 1
                            ELSE IF bytes[i].op \in PushOps THEN Number(bytes[i].op) ELSE 0
           G == [i \in 1 .. n |-> [d \in Nat |-> next(i, d)]]
           left[i \in 0 .. n] == IF i = 0 THEN 0 ELSE LET last == left[i - 1] IN next(i, last)
<1>1. n \in Nat
  BY DEF Code
<1>2. \A i \in 1 .. n, d \in Nat : next(i, d) \in Nat
  BY NumberIsSmall
<1>3. PICK f \in [0 .. n -> Nat] : Recursive(f, n, 0, G)
  <2>1. G \in [1 .. n -> [Nat -> Nat]]
    BY <1>2
  <2>2. 0 \in Nat
    OBVIOUS
  <2> HIDE DEF G, n
  <2> QED BY <1>1, <2>1, <2>2, Recursion
<1>4. ASSUME NEW i \in 0 .. n
      PROVE  f[i] = IF i = 0 THEN 0 ELSE next(i, f[i - 1])
  <2>1. CASE i = 0
    BY <1>3, <2>1 DEF Recursive
  <2>2. CASE i # 0
    <3>1. i \in 1 .. n /\ i - 1 \in 0 .. n
      BY <1>1, <2>2
    <3>2. f[i - 1] \in Nat
      <4> HIDE DEF G, n
      <4> QED BY <3>1
    <3>3. f[i] = G[i][f[i - 1]]
      <4> HIDE DEF G, n
      <4> QED BY <1>3, <2>2 DEF Recursive
    <3>4. G[i][f[i - 1]] = next(i, f[i - 1])
      <4> HIDE DEF next, n
      <4> QED BY <3>1, <3>2
    <3> HIDE DEF G, n, next
    <3> QED BY <2>2, <3>3, <3>4
  <2> QED BY <2>1, <2>2
<1>5. f = [i \in 0 .. n |-> IF i = 0 THEN 0 ELSE LET last == f[i - 1] IN next(i, last)]
  <2> HIDE DEF G, n, next
  <2> QED BY <1>3, <1>4
<1>6. left = [i \in 0 .. n |-> IF i = 0 THEN 0 ELSE LET last == left[i - 1] IN next(i, last)]
  <2> HIDE DEF G
  <2> QED BY <1>5
<1>7. DataLeft(bytes) = left
  BY DEF DataLeft
<1> HIDE DEF left, G
<1>8. left[0] = 0 /\ \A i \in 0 .. n - 1 : left[i + 1] = next(i + 1, left[i])
  <2>1. left[0] = 0
    BY <1>1, <1>6
  <2>2. ASSUME NEW i \in 0 .. n - 1 PROVE left[i + 1] = next(i + 1, left[i])
    <3>1. i + 1 \in 0 .. n /\ i + 1 # 0 /\ (i + 1) - 1 = i
      BY <1>1
    <3> HIDE DEF n, next
    <3> QED BY <1>6, <3>1
  <2> QED BY <2>1, <2>2
<1>9. \A i \in 0 .. n : left[i] \in Nat
  <2> DEFINE S == {i \in 0 .. n : left[i] \in Nat}
  <2>1. 0 \in S
    BY <1>1, <1>8
  <2>2. ASSUME NEW i \in 0 .. n - 1, i \in S PROVE i + 1 \in S
    <3>1. i + 1 \in 0 .. n /\ i + 1 \in 1 .. n
      BY <1>1
    <3>2. left[i] \in Nat
      BY <2>2
    <3> HIDE DEF n, next
    <3> QED BY <1>2, <1>8, <3>1, <3>2
  <2>3. 0 .. n \subseteq S
    <3> HIDE DEF S, n
    <3> QED BY <1>1, <2>1, <2>2, Stepwise
  <2> HIDE DEF n
  <2> QED BY <2>3
<1>10. left \in [0 .. n -> Nat]
  <2> HIDE DEF n, next
  <2> QED BY <1>6, <1>9
<1>11. \A i \in 0 .. n - 1 :
         left[i + 1] = IF left[i] > 0 THEN left[i] - 1 ELSE DataOf(bytes[i + 1])
  BY <1>8 DEF DataOf
<1> HIDE DEF n, next
<1> QED BY <1>7, <1>8, <1>10, <1>11 DEF n

\* Where the scan stops, no data is left: a place further on is as far as
\* there is data.
LEMMA ScannedIsOpcode ==
  ASSUME NEW bytes \in Code, NEW p \in Scan(bytes), p < Len(bytes)
  PROVE  p \in Nat /\ DataLeft(bytes)[p] = 0
<1> DEFINE n == Len(bytes)
           left == DataLeft(bytes)
           next(i) == i + 1 + (IF bytes[i + 1].op \in PushOps THEN Number(bytes[i + 1].op) ELSE 0)
           step(i, d) == d \cup (IF i - 1 \in d THEN {next(i - 1)} ELSE {})
           G == [i \in 1 .. n |-> [d \in SUBSET Nat |-> step(i, d)]]
           before[i \in 0 .. n] == IF i = 0 THEN {0}
                                   ELSE before[i - 1] \cup (IF i - 1 \in before[i - 1] THEN {next(i - 1)} ELSE {})
<1>1. n \in Nat
  BY DEF Code
<1>2. \A i \in 0 .. n : next(i) \in Nat /\ next(i) = i + 1 + DataOf(bytes[i + 1])
  BY <1>1, NumberIsSmall DEF DataOf
<1>3. \A i \in 1 .. n, d \in SUBSET Nat : step(i, d) \in SUBSET Nat
  <2> TAKE i \in 1 .. n, d \in SUBSET Nat
  <2>1. i - 1 \in 0 .. n
    BY <1>1
  <2>2. next(i - 1) \in Nat
    <3> HIDE DEF n, next
    <3> QED BY <1>2, <2>1
  <2> HIDE DEF n, next
  <2> QED BY <2>2
<1>4. PICK f \in [0 .. n -> SUBSET Nat] : Recursive(f, n, {0}, G)
  <2>1. G \in [1 .. n -> [SUBSET Nat -> SUBSET Nat]]
    <3> HIDE DEF n, step
    <3> QED BY <1>3
  <2>2. {0} \in SUBSET Nat
    OBVIOUS
  <2> HIDE DEF G, n
  <2> QED BY <1>1, <2>1, <2>2, Recursion
<1>5. ASSUME NEW i \in 0 .. n
      PROVE  f[i] = IF i = 0 THEN {0} ELSE step(i, f[i - 1])
  <2>1. CASE i = 0
    <3> HIDE DEF G, n, step
    <3> QED BY <1>4, <2>1 DEF Recursive
  <2>2. CASE i # 0
    <3>1. i \in 1 .. n /\ i - 1 \in 0 .. n
      BY <1>1, <2>2
    <3>2. f[i - 1] \in SUBSET Nat
      <4> HIDE DEF G, n
      <4> QED BY <3>1
    <3>3. f[i] = G[i][f[i - 1]]
      <4> HIDE DEF G, n
      <4> QED BY <1>4, <2>2 DEF Recursive
    <3>4. G[i][f[i - 1]] = step(i, f[i - 1])
      <4> HIDE DEF step, n
      <4> QED BY <3>1, <3>2
    <3> HIDE DEF G, n, step
    <3> QED BY <2>2, <3>3, <3>4
  <2> QED BY <2>1, <2>2
<1>6. before = [i \in 0 .. n |-> IF i = 0 THEN {0}
                                 ELSE before[i - 1] \cup (IF i - 1 \in before[i - 1] THEN {next(i - 1)} ELSE {})]
  <2>1. f = [i \in 0 .. n |-> IF i = 0 THEN {0}
                              ELSE f[i - 1] \cup (IF i - 1 \in f[i - 1] THEN {next(i - 1)} ELSE {})]
    <3> HIDE DEF G, n, next
    <3> QED BY <1>4, <1>5
  <2> HIDE DEF G
  <2> QED BY <2>1
<1>7. Scan(bytes) = before[n]
  BY DEF Scan
<1> HIDE DEF before, G, step
<1>8. before[0] = {0} /\ \A i \in 0 .. n - 1 : before[i + 1] = before[i] \cup (IF i \in before[i] THEN {next(i)} ELSE {})
  <2>1. before[0] = {0}
    BY <1>1, <1>6
  <2>2. ASSUME NEW i \in 0 .. n - 1
        PROVE  before[i + 1] = before[i] \cup (IF i \in before[i] THEN {next(i)} ELSE {})
    <3>1. i + 1 \in 0 .. n /\ i + 1 # 0 /\ (i + 1) - 1 = i
      BY <1>1
    <3> DEFINE j == i + 1
    <3>2. j \in 0 .. n /\ j # 0 /\ j - 1 = i
      BY <3>1
    <3> HIDE DEF n, next, j
    <3>3. before[j] = before[j - 1] \cup (IF j - 1 \in before[j - 1] THEN {next(j - 1)} ELSE {})
      BY <1>6, <3>2
    <3>4. before[j] = before[i] \cup (IF i \in before[i] THEN {next(i)} ELSE {})
      BY <3>2, <3>3
    <3> QED BY <3>4 DEF j
  <2> QED BY <2>1, <2>2
<1> DEFINE Placed(i, q) == q \in Nat /\ (q <= i => left[q] = 0) /\ (q > i => left[i] = q - i)
           S == {i \in 0 .. n : \A q \in before[i] : Placed(i, q)}
<1>9. /\ \A i \in 0 .. n : left[i] \in Nat
      /\ left[0] = 0
      /\ \A i \in 0 .. n - 1 : left[i + 1] = IF left[i] > 0 THEN left[i] - 1 ELSE DataOf(bytes[i + 1])
  BY LeftIs
<1> HIDE DEF left
<1>10. 0 \in S
  BY <1>1, <1>8, <1>9
<1>11. ASSUME NEW i \in 0 .. n - 1, i \in S PROVE i + 1 \in S
  <2>1. i \in Nat /\ i + 1 \in 0 .. n /\ i \in 0 .. n /\ left[i] \in Nat /\ left[i + 1] \in Nat
    BY <1>1, <1>9
  <2>2. DataOf(bytes[i + 1]) \in Nat
    BY DataOfIsNat
  <2>3. left[i + 1] = IF left[i] > 0 THEN left[i] - 1 ELSE DataOf(bytes[i + 1])
    BY <1>9
  <2>4. ASSUME NEW q \in before[i] PROVE Placed(i + 1, q)
    <3>1. Placed(i, q)
      BY <1>11
    <3> HIDE DEF n
    <3> QED BY <2>1, <2>3, <3>1
  <2>5. ASSUME i \in before[i] PROVE Placed(i + 1, next(i))
    <3>1. left[i] = 0
      BY <1>11, <2>1, <2>5
    <3>2. left[i + 1] = DataOf(bytes[i + 1])
      BY <2>3, <3>1
    <3>3. next(i) = i + 1 + DataOf(bytes[i + 1])
      BY <1>2, <2>1
    <3> HIDE DEF n, next
    <3>4. next(i) \in Nat /\ next(i) >= i + 1
      BY <2>1, <2>2, <3>3
    <3>5. next(i) <= i + 1 => left[next(i)] = 0
      <4> SUFFICES ASSUME next(i) <= i + 1 PROVE left[next(i)] = 0
        OBVIOUS
      <4>1. next(i) = i + 1 /\ DataOf(bytes[i + 1]) = 0
        BY <2>1, <2>2, <3>3, <3>4
      <4> QED BY <3>2, <4>1
    <3>6. next(i) > i + 1 => left[i + 1] = next(i) - (i + 1)
      BY <2>1, <2>2, <3>2, <3>3
    <3> QED BY <3>4, <3>5, <3>6
  <2> HIDE DEF n, next, Placed
  <2>6. \A q \in before[i + 1] : Placed(i + 1, q)
    BY <1>8, <2>4, <2>5
  <2> QED BY <2>1, <2>6
<1>12. n \in S
  <2> HIDE DEF S, n
  <2>1. 0 .. n \subseteq S
    BY <1>1, <1>10, <1>11, Stepwise
  <2> QED BY <1>1, <2>1
<1>13. Placed(n, p)
  <2> HIDE DEF n, Placed
  <2> QED BY <1>7, <1>12
<1> QED BY <1>1, <1>13 DEF left

\* From an opcode, over its data if it has any, to an opcode.
LEMMA NextIsOpcode ==
  ASSUME NEW bytes \in Code, NEW p \in Nat, p < Len(bytes), DataLeft(bytes)[p] = 0,
         NEW q \in Nat, q = p + 1 + DataOf(bytes[p + 1]), q < Len(bytes)
  PROVE  DataLeft(bytes)[q] = 0
<1> DEFINE left == DataLeft(bytes)
<1>1. Len(bytes) \in Nat
  BY DEF Code
<1>2. \A i \in 0 .. Len(bytes) - 1 :
        left[i + 1] = IF left[i] > 0 THEN left[i] - 1 ELSE DataOf(bytes[i + 1])
  BY LeftIs
<1>3. PICK d \in 0 .. 2 : d = DataOf(bytes[p + 1])
  BY NumberIsSmall DEF DataOf
<1>4. left[p] = 0
  OBVIOUS
<1> HIDE DEF left
<1>5. left[p + 1] = d
  BY <1>1, <1>2, <1>3, <1>4
<1>6. d >= 1 => left[p + 2] = d - 1
  <2> SUFFICES ASSUME d >= 1 PROVE left[p + 2] = d - 1
    OBVIOUS
  <2>1. p + 1 \in 0 .. Len(bytes) - 1 /\ (p + 1) + 1 = p + 2
    BY <1>1, <1>3
  <2> QED BY <1>2, <1>5, <2>1
<1>7. d = 2 => left[p + 3] = 0
  <2> SUFFICES ASSUME d = 2 PROVE left[p + 3] = 0
    OBVIOUS
  <2>1. p + 2 \in 0 .. Len(bytes) - 1 /\ (p + 2) + 1 = p + 3
    BY <1>1, <1>3
  <2> QED BY <1>2, <1>6, <2>1
<1>8. left[q] = 0
  <2>1. CASE d = 0
    BY <1>3, <1>5, <2>1
  <2>2. CASE d = 1
    <3>1. q = p + 2 /\ left[p + 2] = 0
      BY <1>3, <1>6, <2>2
    <3> QED BY <3>1
  <2>3. CASE d = 2
    <3>1. q = p + 3 /\ left[p + 3] = 0
      BY <1>3, <1>7, <2>3
    <3> QED BY <3>1
  <2> QED BY <2>1, <2>2, <2>3
<1> QED BY <1>8 DEF left

\* pc is at an opcode, or past the end of the code.
AtOpcode == pc < Len(code) => DataLeft(code)[pc] = 0

LEMMA DataIsNotRunIs ==
  TypeOK => (AtOpcode <=> pc \notin DataBytes)
<1> SUFFICES ASSUME TypeOK PROVE AtOpcode <=> pc \notin DataBytes
  OBVIOUS
<1>1. code \in Code /\ pc \in Nat
  BY Parts, StartFacts
<1> HIDE DEF code
<1>2. Len(code) \in Nat
  BY <1>1 DEF Code
<1>3. DataLeft(code) \in [0 .. Len(code) -> Nat]
  BY <1>1, LeftIs
<1> QED BY <1>1, <1>2, <1>3 DEF AtOpcode, DataBytes

LEMMA ForwardIsOpcode ==
  ASSUME TypeOK, Running, AtOpcode, start' = start, pc' = pc + 1 + DataOf(code[pc + 1])
  PROVE  AtOpcode'
<1>1. code \in Code /\ pc \in Nat /\ code' = code
  BY Parts, StartFacts DEF code
<1>2. DataOf(code[pc + 1]) \in Nat
  BY DataOfIsNat
<1>3. pc' \in Nat
  BY <1>1, <1>2
<1> HIDE DEF code
<1> SUFFICES ASSUME pc' < Len(code) PROVE DataLeft(code)[pc'] = 0
  BY <1>1 DEF AtOpcode
<1> QED BY <1>1, <1>2, <1>3, NextIsOpcode DEF AtOpcode, Running

LEMMA AdvanceIsOpcode ==
  ASSUME TypeOK, Running, AtOpcode, start' = start, pc' = pc + 1, Op \notin PushOps
  PROVE  AtOpcode'
<1>1. DataOf(code[pc + 1]) = 0 /\ pc \in Nat
  BY Parts DEF DataOf, Op
<1> HIDE DEF code
<1> QED BY <1>1, ForwardIsOpcode

LEMMA JumpIsOpcode ==
  ASSUME TypeOK, Jump, AtOpcode PROVE AtOpcode'
<1> DEFINE dest == wordToUint64(stack[1])
<1>1. Executes({"JUMP", "JUMPI", "JUMPDEST"}) /\ start' = start
  BY DEF Jump
<1>2. pc' = pc \/ pc' = pc + 1 \/ (pc' = dest /\ dest \in analyzeJumpdests(code))
  BY DEF Jump
<1>3. code \in Code /\ code' = code
  BY <1>1, Parts, StartFacts DEF code
<1> HIDE DEF code, dest
<1>4. CASE pc' = pc
  BY <1>3, <1>4 DEF AtOpcode
<1>5. CASE pc' = pc + 1
  <2>1. Op \notin PushOps /\ Running
    BY <1>1 DEF Executes, PushOps
  <2> QED BY <1>1, <1>5, <2>1, AdvanceIsOpcode
<1>6. CASE pc' = dest /\ dest \in analyzeJumpdests(code)
  <2>1. DataLeft(code)[dest] = 0
    BY <1>3, <1>6, ScannedIsOpcode DEF analyzeJumpdests
  <2> QED BY <1>3, <1>6, <2>1 DEF AtOpcode
<1> QED BY <1>2, <1>4, <1>5, <1>6

LEMMA StackOpIsOpcode ==
  ASSUME TypeOK, StackOp, AtOpcode PROVE AtOpcode'
<1>1. Executes({"POP"} \cup PushOps \cup DupOps \cup SwapOps) /\ start' = start
  BY DEF StackOp, Untouched
<1>2. Running
  BY <1>1 DEF Executes
<1>3. \/ pc' = pc + 1 /\ Op \in {"POP"} \cup DupOps \cup SwapOps
      \/ pc' = pc + 1 + Number(Op) /\ Op \in PushOps
  BY DEF StackOp, Advance
<1>4. CASE pc' = pc + 1 /\ Op \in {"POP"} \cup DupOps \cup SwapOps
  <2>1. Op \notin PushOps
    BY <1>4 DEF DupOps, SwapOps, PushOps
  <2> QED BY <1>1, <1>2, <1>4, <2>1, AdvanceIsOpcode
<1>5. CASE pc' = pc + 1 + Number(Op) /\ Op \in PushOps
  <2>1. DataOf(code[pc + 1]) = Number(Op)
    BY <1>5 DEF DataOf, Op
  <2> HIDE DEF code
  <2> QED BY <1>1, <1>2, <1>5, <2>1, ForwardIsOpcode
<1> QED BY <1>3, <1>4, <1>5

LEMMA StepIsOpcode ==
  ASSUME TypeOK, [Next]_vars, AtOpcode, "replaced PUSH" \notin odd' PROVE AtOpcode'
<1>1. CASE \/ UNCHANGED vars \/ EndOfCode \/ InvalidOpcode \/ OutOfGas \/ HookEnds \/ StackFails
           \/ Finish
  <2>1. start' = start /\ pc' = pc
    BY <1>1 DEF vars, EndOfCode, InvalidOpcode, OutOfGas, HookEnds, StackFails, Finish, Fail
  <2> QED BY <2>1 DEF AtOpcode, code
<1>2. CASE HookReplaces
  <2>1. start' = start /\ pc' = pc + 1 /\ Running
    BY <1>2 DEF HookReplaces, Charged
  <2>2. Op \notin PushOps
    BY <1>2 DEF HookReplaces
  <2> QED BY <2>1, <2>2, AdvanceIsOpcode
<1>3. CASE \/ Arithmetically \/ ReadContext \/ LookUp \/ Mload \/ Store \/ Copy \/ Keccak \/ Log
           \/ Sload \/ Sstore \/ Tload \/ Tstore
  <2>1. start' = start /\ Running
    BY <1>3 DEF Arithmetically, ReadContext, LookUp, Mload, Store, Copy, Keccak, Log, Sload, Sstore,
       Tload, Tstore, Untouched, Executes
  <2>2. pc' = pc \/ pc' = pc + 1
    BY <1>3 DEF Arithmetically, ReadContext, LookUp, Mload, Store, Copy, Keccak, Log, Sload, Sstore,
       Tload, Tstore, Mstore, Advance
  <2>3. Op \in Arithmetic \cup ReadOps \cup AccountOps \cup CopyOps \cup LogOps
              \cup {"BLOCKHASH", "BLOBHASH", "CALLDATALOAD", "MLOAD", "MSTORE", "MSTORE8", "MCOPY",
                    "KECCAK256", "SLOAD", "SSTORE", "TLOAD", "TSTORE"}
    BY <1>3 DEF Arithmetically, ReadContext, LookUp, Mload, Store, Copy, Keccak, Log, Sload, Sstore,
       Tload, Tstore, Executes
  <2>4. Op \notin PushOps
    BY <2>3 DEF Arithmetic, Unary, Binary, Ternary, ReadOps, ContextOps, AccountOps, CopyOps, LogOps, PushOps
  <2>5. CASE pc' = pc
    BY <2>1, <2>5 DEF AtOpcode, code
  <2> QED BY <2>1, <2>2, <2>4, <2>5, AdvanceIsOpcode
<1>4. CASE Jump \/ StackOp
  BY <1>4, JumpIsOpcode, StackOpIsOpcode
<1> QED BY <1>1, <1>2, <1>3, <1>4 DEF Next

\* Whatever the code and wherever it jumps, the data of a PUSH is not executed,
\* unless a hook has replaced the result of a PUSH.
THEOREM DataIsNotExecuted ==
  Spec => []DataIsNotRun
<1>1. Init /\ TypeOK => DataIsNotRun
  <2> SUFFICES ASSUME Init, TypeOK PROVE AtOpcode
    BY DataIsNotRunIs DEF DataIsNotRun
  <2>1. code \in Code /\ pc = 0
    BY Parts, StartFacts DEF Init
  <2> HIDE DEF code
  <2> QED BY <2>1, LeftIs DEF AtOpcode
<1>2. TypeOK /\ TypeOK' /\ DataIsNotRun /\ [Next]_vars => DataIsNotRun'
  <2> SUFFICES ASSUME TypeOK, TypeOK', DataIsNotRun, [Next]_vars, "replaced PUSH" \notin odd'
               PROVE  (pc \notin DataBytes)'
    BY DEF DataIsNotRun
  <2>1. AtOpcode
    BY OddGrows, DataIsNotRunIs DEF DataIsNotRun
  <2>2. AtOpcode'
    BY <2>1, StepIsOpcode
  <2>3. AtOpcode' <=> (pc \notin DataBytes)'
    BY DataIsNotRunIs, PTL
  <2> QED BY <2>2, <2>3
<1> QED BY <1>1, <1>2, TypeCorrect, PTL DEF Spec

-----------------------------------------------------------------------------
(* Net metering.                                                           *)

\* What the sum adds up, word by word.
LEMMA SumIs ==
  ASSUME NEW f \in [Word -> Int]
  PROVE  \E sum \in [0 .. 2 ^ WordBits -> Int] :
           /\ sum[0] = 0 /\ \A n \in Word : sum[n + 1] = sum[n] + f[n]
           /\ SumOfWords(f) = sum[2 ^ WordBits]
<1>1. PICK m \in Nat : m = 2 ^ WordBits /\ Word = 0 .. m - 1
  BY WordFacts
<1> DEFINE G == [i \in 1 .. m |-> [d \in Int |-> d + f[i - 1]]]
           sum[n \in 0 .. m] == IF n = 0 THEN 0 ELSE sum[n - 1] + f[n - 1]
<1>2. \A i \in 1 .. m : f[i - 1] \in Int
  <2> TAKE i \in 1 .. m
  <2>1. i - 1 \in Word
    BY <1>1
  <2> QED BY <2>1
<1>3. PICK g \in [0 .. m -> Int] : Recursive(g, m, 0, G)
  <2>1. G \in [1 .. m -> [Int -> Int]]
    BY <1>2
  <2>2. 0 \in Int
    OBVIOUS
  <2> HIDE DEF G
  <2> QED BY <2>1, <2>2, Recursion
<1>4. ASSUME NEW i \in 0 .. m
      PROVE  g[i] = IF i = 0 THEN 0 ELSE g[i - 1] + f[i - 1]
  <2>1. CASE i = 0
    <3> HIDE DEF G
    <3> QED BY <1>3, <2>1 DEF Recursive
  <2>2. CASE i # 0
    <3>1. i \in 1 .. m /\ i - 1 \in 0 .. m
      BY <2>2
    <3>2. g[i - 1] \in Int
      <4> HIDE DEF G
      <4> QED BY <3>1
    <3>3. g[i] = G[i][g[i - 1]]
      <4> HIDE DEF G
      <4> QED BY <1>3, <2>2 DEF Recursive
    <3>4. G[i][g[i - 1]] = g[i - 1] + f[i - 1]
      BY <3>1, <3>2
    <3> HIDE DEF G
    <3> QED BY <2>2, <3>3, <3>4
  <2> QED BY <2>1, <2>2
<1>5. g = [n \in 0 .. m |-> IF n = 0 THEN 0 ELSE g[n - 1] + f[n - 1]]
  <2> HIDE DEF G
  <2> QED BY <1>3, <1>4
<1>6. sum = [n \in 0 .. m |-> IF n = 0 THEN 0 ELSE sum[n - 1] + f[n - 1]]
  <2> HIDE DEF G
  <2> QED BY <1>5
<1>7. SumOfWords(f) = sum[m]
  BY <1>1 DEF SumOfWords
<1> HIDE DEF G, sum
<1>8. sum[0] = 0 /\ \A n \in Word : sum[n + 1] = sum[n] + f[n]
  <2>1. sum[0] = 0
    BY <1>6
  <2>2. ASSUME NEW n \in Word PROVE sum[n + 1] = sum[n] + f[n]
    <3> DEFINE j == n + 1
    <3>1. j \in 0 .. m /\ j # 0 /\ j - 1 = n
      BY <1>1
    <3> HIDE DEF j
    <3>2. sum[j] = sum[j - 1] + f[j - 1]
      BY <1>6, <3>1
    <3> QED BY <3>1, <3>2 DEF j
  <2> QED BY <2>1, <2>2
<1>9. \A n \in 0 .. m : sum[n] \in Int
  <2> DEFINE S == {n \in 0 .. m : sum[n] \in Int}
  <2>1. 0 \in S
    BY <1>8
  <2>2. ASSUME NEW n \in 0 .. m - 1, n \in S PROVE n + 1 \in S
    <3>1. n \in Word /\ n + 1 \in 0 .. m
      BY <1>1
    <3>2. sum[n + 1] = sum[n] + f[n] /\ f[n] \in Int
      BY <1>8, <3>1
    <3> QED BY <2>2, <3>1, <3>2
  <2>3. 0 .. m \subseteq S
    <3> HIDE DEF S
    <3> QED BY <2>1, <2>2, Stepwise
  <2> QED BY <2>3
<1>10. sum \in [0 .. m -> Int]
  BY <1>6, <1>9
<1> QED BY <1>1, <1>7, <1>8, <1>10

\* One word's part of the sum changes it by as much.
LEMMA SumChanges ==
  ASSUME NEW f \in [Word -> Int], NEW s \in Word, NEW g \in [Word -> Int],
         \A w \in Word : w # s => g[w] = f[w]
  PROVE  SumOfWords(f) \in Int /\ SumOfWords(g) = SumOfWords(f) + g[s] - f[s]
<1>1. PICK m \in Nat : m = 2 ^ WordBits /\ Word = 0 .. m - 1
  BY WordFacts
<1>2. PICK a \in [0 .. m -> Int] :
        a[0] = 0 /\ (\A n \in Word : a[n + 1] = a[n] + f[n]) /\ SumOfWords(f) = a[m]
  BY <1>1, SumIs
<1>3. PICK b \in [0 .. m -> Int] :
        b[0] = 0 /\ (\A n \in Word : b[n + 1] = b[n] + g[n]) /\ SumOfWords(g) = b[m]
  BY <1>1, SumIs
<1> DEFINE S == {n \in 0 .. m : b[n] = IF n <= s THEN a[n] ELSE a[n] + g[s] - f[s]}
<1>4. 0 \in S
  BY <1>1, <1>2, <1>3
<1>5. ASSUME NEW n \in 0 .. m - 1, n \in S PROVE n + 1 \in S
  <2>1. n \in Word /\ n + 1 \in 0 .. m /\ s \in Nat
    BY <1>1
  <2>2. a[n + 1] = a[n] + f[n] /\ b[n + 1] = b[n] + g[n]
    BY <1>2, <1>3, <2>1
  <2>3. f[n] \in Int /\ g[n] \in Int /\ f[s] \in Int /\ g[s] \in Int /\ a[n] \in Int /\ b[n] \in Int
    BY <2>1
  <2>4. n # s => g[n] = f[n]
    BY <2>1
  <2>5. b[n] = IF n <= s THEN a[n] ELSE a[n] + g[s] - f[s]
    BY <1>5
  <2>6. CASE n < s
    BY <2>1, <2>2, <2>3, <2>4, <2>5, <2>6
  <2>7. CASE n = s
    BY <2>1, <2>2, <2>3, <2>5, <2>7
  <2>8. CASE n > s
    BY <2>1, <2>2, <2>3, <2>4, <2>5, <2>8, SMTT(30)
  <2> QED BY <2>1, <2>6, <2>7, <2>8
<1>6. m \in S
  <2> HIDE DEF S
  <2>1. 0 .. m \subseteq S
    BY <1>4, <1>5, Stepwise
  <2> QED BY <2>1
<1> QED BY <1>1, <1>2, <1>3, <1>6

\* No part of a sum of naturals is more than the sum.
LEMMA SumCovers ==
  ASSUME NEW f \in [Word -> Nat], NEW s \in Word
  PROVE  SumOfWords(f) \in Nat /\ f[s] <= SumOfWords(f)
<1>1. PICK m \in Nat : m = 2 ^ WordBits /\ Word = 0 .. m - 1
  BY WordFacts
<1>2. f \in [Word -> Int]
  OBVIOUS
<1>3. PICK a \in [0 .. m -> Int] :
        a[0] = 0 /\ (\A n \in Word : a[n + 1] = a[n] + f[n]) /\ SumOfWords(f) = a[m]
  BY <1>1, <1>2, SumIs
<1> DEFINE S == {n \in 0 .. m : a[n] \in Nat /\ (n > s => a[n] >= f[s])}
<1>4. 0 \in S
  BY <1>1, <1>3
<1>5. ASSUME NEW n \in 0 .. m - 1, n \in S PROVE n + 1 \in S
  <2>1. n \in Word /\ n + 1 \in 0 .. m /\ s \in Nat
    BY <1>1
  <2>2. a[n + 1] = a[n] + f[n] /\ f[n] \in Nat /\ f[s] \in Nat
    BY <1>3, <2>1
  <2>3. a[n] \in Nat /\ (n > s => a[n] >= f[s])
    BY <1>5
  <2>4. CASE n = s
    BY <2>1, <2>2, <2>3, <2>4
  <2>5. CASE n # s
    BY <2>1, <2>2, <2>3, <2>5
  <2> QED BY <2>4, <2>5
<1>6. m \in S
  <2> HIDE DEF S
  <2>1. 0 .. m \subseteq S
    BY <1>4, <1>5, Stepwise
  <2> QED BY <2>1
<1> QED BY <1>1, <1>3, <1>6

LEMMA SumOfNothing ==
  ASSUME NEW f \in [Word -> Int], \A w \in Word : f[w] = 0
  PROVE  SumOfWords(f) = 0
<1>1. PICK m \in Nat : m = 2 ^ WordBits /\ Word = 0 .. m - 1
  BY WordFacts
<1>2. PICK a \in [0 .. m -> Int] :
        a[0] = 0 /\ (\A n \in Word : a[n + 1] = a[n] + f[n]) /\ SumOfWords(f) = a[m]
  BY <1>1, SumIs
<1> DEFINE S == {n \in 0 .. m : a[n] = 0}
<1>3. 0 \in S
  BY <1>1, <1>2
<1>4. ASSUME NEW n \in 0 .. m - 1, n \in S PROVE n + 1 \in S
  <2>1. n \in Word /\ n + 1 \in 0 .. m
    BY <1>1
  <2>2. a[n + 1] = a[n] + f[n] /\ f[n] = 0 /\ a[n] = 0
    BY <1>2, <1>4, <2>1
  <2> QED BY <2>1, <2>2
<1>5. m \in S
  <2> HIDE DEF S
  <2>1. 0 .. m \subseteq S
    BY <1>3, <1>4, Stepwise
  <2> QED BY <2>1
<1> QED BY <1>2, <1>5

\* One write moves the price of its slot by what it costs beside the warm
\* access, the refund counted, and the refund for clearing with it.
LEMMA WriteIsMetered ==
  ASSUME NEW slot \in Slot, NEW value \in Word, NEW before \in Nat, before >= ClearRefund(slot),
         NEW after \in Slot, after.current = value, after.original = slot.original
  PROVE  /\ SstoreCost(slot, value) + before + SlotPrice(slot)
              = Refunds(slot, value, before) + GasWarmAccess + SlotPrice(after)
         /\ Refunds(slot, value, before) + ClearRefund(slot) >= before + ClearRefund(after)
<1>1. PICK o \in Nat, c \in Nat : o = slot.original /\ c = slot.current
  BY WordFacts DEF Slot
<1>2. value \in Nat
  BY WordFacts
<1>3. CASE c = value
  BY <1>1, <1>2, <1>3 DEF SstoreCost, SlotPrice, ClearRefund, Refunds, GasWarmAccess, GasSstoreSet,
     GasSstoreReset, RefundSstoreClear
<1>4. CASE c # value /\ o = 0
  BY <1>1, <1>2, <1>4 DEF SstoreCost, SlotPrice, ClearRefund, Refunds, GasWarmAccess, GasSstoreSet,
     GasSstoreReset, RefundSstoreClear
<1>5. CASE c # value /\ o # 0 /\ c = 0
  BY <1>1, <1>2, <1>5 DEF SstoreCost, SlotPrice, ClearRefund, Refunds, GasWarmAccess, GasSstoreSet,
     GasSstoreReset, RefundSstoreClear
<1>6. CASE c # value /\ o # 0 /\ c # 0
  BY <1>1, <1>2, <1>6 DEF SstoreCost, SlotPrice, ClearRefund, Refunds, GasWarmAccess, GasSstoreSet,
     GasSstoreReset, RefundSstoreClear
<1> QED BY <1>3, <1>4, <1>5, <1>6

Prices == [s \in Word |-> SlotPrice(slots[s])]
Clears == [s \in Word |-> ClearRefund(slots[s])]

LEMMA PricesTypes ==
  Prices \in [Word -> Int] /\ Clears \in [Word -> Nat]
BY DEF Prices, Clears, SlotPrice, ClearRefund, GasSstoreSet, GasSstoreReset, GasWarmAccess,
   RefundSstoreClear

\* A write that succeeds, to its slot; what else happens to slots leaves their
\* original and current values.
Writes(s, value) ==
  /\ s \in Word /\ value \in Word
  /\ slots' = [slots EXCEPT ![s] = [slots[s] EXCEPT !.current = value, !.warm = TRUE]]
  /\ refund' = Refunds(slots[s], value, refund)
  /\ stored' = [writes |-> stored.writes + 1, paid |-> stored.paid + SstoreCost(slots[s], value)]

Keeps ==
  /\ refund' = refund /\ stored' = stored
  /\ \A s \in Word : slots'[s].current = slots[s].current /\ slots'[s].original = slots[s].original

LEMMA StepKeepsOrWrites ==
  ASSUME TypeOK, [Next]_vars
  PROVE  Keeps \/ \E s, value \in Word : Writes(s, value)
<1>1. CASE slots' = slots /\ refund' = refund /\ stored' = stored
  BY <1>1 DEF Keeps
<1>2. CASE \/ UNCHANGED vars \/ EndOfCode \/ InvalidOpcode \/ OutOfGas \/ HookEnds \/ HookReplaces
           \/ StackFails
  <2>1. CASE UNCHANGED vars \/ EndOfCode \/ InvalidOpcode
    BY <1>1, <2>1 DEF vars, EndOfCode, InvalidOpcode, Fail
  <2>2. CASE OutOfGas \/ HookEnds \/ HookReplaces \/ StackFails
    <3>1. refund' = refund /\ stored' = stored /\ slots' = SlotsAsked
      BY <2>2 DEF OutOfGas, HookEnds, HookReplaces, StackFails, Fail
    <3> QED BY <3>1, AskedIs DEF Keeps
  <2> QED BY <1>2, <2>1, <2>2
<1>3. CASE Arithmetically \/ ReadContext \/ LookUp \/ StackOp \/ Jump \/ Mload
  BY <1>1, <1>3 DEF Arithmetically, ReadContext, LookUp, StackOp, Jump, Mload
<1>4. CASE Store \/ Copy \/ Keccak \/ Log \/ Tload \/ Finish
  BY <1>1, <1>4 DEF Store, Copy, Keccak, Log, Tload, Finish
<1>5. slots \in [Word -> Slot]
  BY Parts DEF SlotsOK
<1>6. ASSUME NEW s, slots' = [slots EXCEPT ![s].warm = TRUE], refund' = refund, stored' = stored
      PROVE  Keeps
  BY <1>5, <1>6 DEF Keeps, Slot
<1>7. CASE Sload
  BY <1>6, <1>7 DEF Sload
<1>8. CASE Tstore
  <2>1. refund' = refund /\ stored' = stored
        /\ (slots' = slots \/ slots' = [slots EXCEPT ![stack[1]].transient = stack[2]])
    BY <1>8 DEF Tstore
  <2> QED BY <1>1, <1>5, <2>1 DEF Keeps, Slot
<1>9. CASE Sstore
  <2>1. stack[1] \in Word /\ stack[2] \in Word
    <3>1. stack \in Seq(Word) /\ Len(stack) >= 2
      BY <1>9, Parts DEF Sstore, StackOK
    <3> QED BY <3>1, Element
  <2>2. \/ slots' = slots /\ refund' = refund /\ stored' = stored
        \/ slots' = [slots EXCEPT ![stack[1]].warm = TRUE] /\ refund' = refund /\ stored' = stored
        \/ /\ slots' = [slots EXCEPT ![stack[1]] = [slots[stack[1]] EXCEPT !.current = stack[2], !.warm = TRUE]]
           /\ refund' = Refunds(slots[stack[1]], stack[2], refund)
           /\ stored' = [writes |-> stored.writes + 1,
                         paid |-> stored.paid + SstoreCost(slots[stack[1]], stack[2])]
    BY <1>9 DEF Sstore
  <2> QED BY <1>1, <1>6, <2>1, <2>2 DEF Writes
<1> QED BY <1>2, <1>3, <1>4, <1>7, <1>8, <1>9 DEF Next

LEMMA MeteredIs ==
  NetMetering <=> /\ stored.paid - refund = stored.writes * GasWarmAccess + SumOfWords(Prices)
              /\ refund >= SumOfWords(Clears)
BY DEF NetMetering, Prices, Clears

LEMMA MeteredIsNext ==
  NetMetering' <=> /\ stored'.paid - refund' = stored'.writes * GasWarmAccess + SumOfWords(Prices')
               /\ refund' >= SumOfWords(Clears')
BY DEF NetMetering, Prices, Clears, GasWarmAccess, SumOfWords

LEMMA KeepsMetered ==
  ASSUME TypeOK, NetMetering, Keeps PROVE NetMetering'
<1>1. Prices' = Prices /\ Clears' = Clears
  BY DEF Keeps, Prices, Clears, SlotPrice, ClearRefund
<1> QED BY <1>1, MeteredIs, MeteredIsNext DEF Keeps

LEMMA WriteKeepsMetered ==
  ASSUME TypeOK, NetMetering, NEW s \in Word, NEW value \in Word, Writes(s, value) PROVE NetMetering'
<1> DEFINE slot == slots[s]
           after == [slot EXCEPT !.current = value, !.warm = TRUE]
<1>1. slots \in [Word -> Slot] /\ refund \in Nat /\ stored \in [writes : Nat, paid : Nat]
  BY Parts DEF SlotsOK
<1>2. slot \in Slot /\ after \in Slot /\ after.current = value /\ after.original = slot.original
  BY <1>1, SlotUpdates DEF Slot
<1>3. slots' = [slots EXCEPT ![s] = after] /\ slots'[s] = after /\ \A w \in Word : w # s => slots'[w] = slots[w]
  BY <1>1 DEF Writes
<1> HIDE DEF slot, after
<1>4. /\ Prices[s] = SlotPrice(slot) /\ Prices'[s] = SlotPrice(after)
      /\ Clears[s] = ClearRefund(slot) /\ Clears'[s] = ClearRefund(after)
      /\ \A w \in Word : w # s => Prices'[w] = Prices[w] /\ Clears'[w] = Clears[w]
  BY <1>3 DEF Prices, Clears, slot, SlotPrice, ClearRefund
<1>5. /\ Prices \in [Word -> Int] /\ Clears \in [Word -> Int] /\ Clears \in [Word -> Nat]
      /\ Prices' \in [Word -> Int] /\ Clears' \in [Word -> Int]
  BY PricesTypes DEF Prices, Clears, SlotPrice, ClearRefund, GasSstoreSet, GasSstoreReset,
     GasWarmAccess, RefundSstoreClear
<1>6. refund >= ClearRefund(slot)
  <2>1. Clears[s] <= SumOfWords(Clears) /\ SumOfWords(Clears) \in Nat /\ Clears[s] \in Nat
    BY <1>5, SumCovers
  <2> QED BY <1>1, <1>4, <2>1, MeteredIs
<1>7. PICK cost \in Nat, kept \in Nat, p \in Int, q \in Int, c \in Int, d \in Int :
        /\ cost = SstoreCost(slot, value) /\ kept = Refunds(slot, value, refund)
        /\ p = SlotPrice(slot) /\ q = SlotPrice(after) /\ c = ClearRefund(slot) /\ d = ClearRefund(after)
  <2>1. SstoreCost(slot, value) \in Nat /\ Refunds(slot, value, refund) \in Nat
    BY <1>1, RefundsIsNat DEF SstoreCost, GasWarmAccess, GasSstoreSet, GasSstoreReset
  <2> QED BY <1>4, <1>5, <2>1
<1>8. cost + refund + p = kept + GasWarmAccess + q /\ kept + c >= refund + d
  BY <1>1, <1>2, <1>6, <1>7, WriteIsMetered
<1>9. PICK a \in Int, b \in Int :
        /\ a = SumOfWords(Prices) /\ SumOfWords(Prices') = a + q - p
        /\ b = SumOfWords(Clears) /\ SumOfWords(Clears') = b + d - c
  BY <1>4, <1>5, <1>7, SumChanges
<1>10. stored'.writes = stored.writes + 1 /\ stored'.paid = stored.paid + cost /\ refund' = kept
  BY <1>7 DEF Writes, slot
<1>11. stored.paid - refund = stored.writes * GasWarmAccess + a /\ refund >= b
  BY <1>9, MeteredIs
<1>12. (stored.writes + 1) * GasWarmAccess = stored.writes * GasWarmAccess + GasWarmAccess
  BY <1>1 DEF GasWarmAccess
<1>13. PICK w \in Nat, t \in Nat : w = stored.writes * GasWarmAccess /\ t = stored.paid
  BY <1>1 DEF GasWarmAccess
<1>14. stored'.paid - refund' = stored'.writes * GasWarmAccess + SumOfWords(Prices')
  BY <1>1, <1>8, <1>9, <1>10, <1>11, <1>12, <1>13 DEF GasWarmAccess
<1>15. refund' >= SumOfWords(Clears')
  BY <1>1, <1>8, <1>9, <1>10, <1>11
<1> QED BY <1>14, <1>15, MeteredIsNext

\* What writes to a slot cost in the end, refunds counted, is decided by its
\* first and last value, for any number of writes to any number of slots; and
\* DeductRefund never stops at zero.
THEOREM MeteringIsNet ==
  Spec => []NetMetering
<1>1. Init /\ TypeOK => NetMetering
  <2> SUFFICES ASSUME Init, TypeOK PROVE NetMetering
    OBVIOUS
  <2>1. \A w \in Word : Prices[w] = 0 /\ Clears[w] = 0
    BY DEF Init, Prices, Clears, SlotPrice, ClearRefund
  <2>2. SumOfWords(Prices) = 0 /\ SumOfWords(Clears) = 0
    <3>1. Prices \in [Word -> Int] /\ Clears \in [Word -> Int]
      BY PricesTypes
    <3> QED BY <2>1, <3>1, SumOfNothing
  <2>3. stored.paid = 0 /\ stored.writes = 0 /\ refund = 0
    BY DEF Init
  <2> QED BY <2>2, <2>3, MeteredIs DEF GasWarmAccess
<1>2. TypeOK /\ NetMetering /\ [Next]_vars => NetMetering'
  BY StepKeepsOrWrites, KeepsMetered, WriteKeepsMetered
<1> QED BY <1>1, <1>2, TypeCorrect, PTL DEF Spec

=============================================================================
