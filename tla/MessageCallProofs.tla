-------------------------- MODULE MessageCallProofs --------------------------
(***************************************************************************)
(* Theorems about MessageCall, for every value of its constants: types,    *)
(* snapshots and gas; then, from the shapes of the steps, the refinement   *)
(* of AtomicCalls, the purity of static calls and the permanence of code;  *)
(* then the logs, and the wei.                                             *)
(***************************************************************************)
EXTENDS MessageCall, TLAPS, SequenceTheorems, FiniteSetTheorems

-----------------------------------------------------------------------------
(* Lemmas: gas arithmetic.                                                 *)

LEMMA DivisionBounds ==
  ASSUME NEW g \in Nat, NEW d \in Positive
  PROVE  g \div d \in Nat /\ g \div d <= g
BY DEF Positive

LEMMA ForwardedGas ==
  ASSUME NEW g \in Nat, NEW r \in Nat
  PROVE  /\ maxMessageCallGas(g) \in Nat /\ maxMessageCallGas(g) <= g
         /\ callGas(g, r) \in Nat /\ callGas(g, r) <= g
<1> DEFINE q == g \div CallDivisor
<1>1. q \in Nat /\ q <= g
  BY DivisionBounds, GasAssumption
<1>2. maxMessageCallGas(g) = g - q
  BY DEF maxMessageCallGas
<1> HIDE DEF q
<1>3. maxMessageCallGas(g) \in Nat /\ maxMessageCallGas(g) <= g
  BY <1>1, <1>2
<1> QED
  BY <1>3 DEF callGas

-----------------------------------------------------------------------------
(* Lemmas: the stack of frames.                                            *)

\* What charging gas and merging logs leave alone.
SameShape(f, g) ==
  /\ f.addr = g.addr /\ f.static = g.static /\ f.kind = g.kind
  /\ f.given = g.given /\ f.accRev = g.accRev /\ f.stoRev = g.stoRev

LEMMA WithGasFacts ==
  ASSUME NEW s \in Seq(Frame), Len(s) > 0, NEW g \in Nat
  PROVE  /\ WithGas(s, g) \in Seq(Frame)
         /\ Len(WithGas(s, g)) = Len(s)
         /\ \A i \in 1 .. Len(s) :
              /\ SameShape(WithGas(s, g)[i], s[i])
              /\ WithGas(s, g)[i].logs = s[i].logs
              /\ WithGas(s, g)[i].gas = IF i = Len(s) THEN g ELSE s[i].gas
<1> DEFINE n == Len(s)
           f == [s[n] EXCEPT !.gas = g]
<1>1. n \in 1 .. Len(s) /\ s[n] \in Frame
  OBVIOUS
<1>2. f \in Frame /\ SameShape(f, s[n]) /\ f.logs = s[n].logs /\ f.gas = g
  BY <1>1 DEF Frame, SameShape
<1>3. WithGas(s, g) = [s EXCEPT ![n] = f]
  BY DEF WithGas
<1> HIDE DEF n, f
<1>4. /\ WithGas(s, g) \in Seq(Frame) /\ Len(WithGas(s, g)) = Len(s)
      /\ \A i \in 1 .. Len(s) : WithGas(s, g)[i] = IF i = n THEN f ELSE s[i]
  BY <1>1, <1>2, <1>3, ExceptSeq
<1> QED
  BY <1>2, <1>4 DEF SameShape, n

LEMMA PopFacts ==
  ASSUME NEW S, NEW s \in Seq(S), Len(s) > 0
  PROVE  /\ SubSeq(s, 1, Len(s) - 1) \in Seq(S)
         /\ Len(SubSeq(s, 1, Len(s) - 1)) = Len(s) - 1
         /\ \A i \in 1 .. Len(s) - 1 : SubSeq(s, 1, Len(s) - 1)[i] = s[i]
<1> DEFINE n == Len(s) - 1
           t == SubSeq(s, 1, n)
<1>1. n \in Nat /\ \A i \in 1 .. n : s[i] \in S
  BY ElementOfSeq, LenProperties
<1>2. /\ t \in Seq(S) /\ Len(t) = IF 1 <= n THEN n - 1 + 1 ELSE 0
      /\ \A i \in 1 .. n - 1 + 1 : t[i] = s[1 + i - 1]
  BY <1>1, SubSeqProperties
<1> HIDE DEF n, t
<1>3. t \in Seq(S) /\ Len(t) = n /\ \A i \in 1 .. n : t[i] = s[i]
  BY <1>1, <1>2
<1> QED
  BY <1>3 DEF n, t

LEMMA ResumedFacts ==
  ASSUME frames \in Seq(Frame), Len(frames) > 1, NEW g \in Nat, NEW l \in Seq(Nat)
  PROVE  /\ Resumed(g, l) \in Seq(Frame)
         /\ Len(Resumed(g, l)) = Len(frames) - 1
         /\ \A i \in 1 .. Len(frames) - 1 :
              /\ SameShape(Resumed(g, l)[i], frames[i])
              /\ Resumed(g, l)[i].gas =
                   IF i = Len(frames) - 1 THEN frames[i].gas + g ELSE frames[i].gas
<1> DEFINE n == Len(frames) - 1
           f == [frames[n] EXCEPT !.gas = @ + g, !.logs = @ \o l]
<1>1. /\ Callers \in Seq(Frame) /\ Len(Callers) = n
      /\ \A i \in 1 .. n : Callers[i] = frames[i]
  BY PopFacts DEF Callers
<1>2. n \in 1 .. Len(Callers) /\ frames[n] \in Frame /\ Callers[n] = frames[n]
  BY <1>1
<1>a. frames[n].logs \in Seq(Nat) /\ frames[n].gas \in Nat
  BY <1>2 DEF Frame
<1>3. frames[n].logs \o l \in Seq(Nat) /\ frames[n].gas + g \in Nat
  BY <1>a, ConcatProperties
<1>4. f \in Frame /\ SameShape(f, frames[n]) /\ f.gas = frames[n].gas + g
  BY <1>2, <1>3 DEF Frame, SameShape
<1>5. Resumed(g, l) = [Callers EXCEPT ![n] = f]
  BY <1>1, <1>2 DEF Resumed
<1>6. /\ Resumed(g, l) \in Seq(Frame) /\ Len(Resumed(g, l)) = n
      /\ \A i \in 1 .. n : Resumed(g, l)[i] = IF i = n THEN f ELSE Callers[i]
  BY <1>1, <1>2, <1>4, <1>5, ExceptSeq
<1> QED
  BY <1>1, <1>4, <1>6 DEF SameShape

-----------------------------------------------------------------------------
(* Lemmas: accounts and snapshots keep their types.                        *)

LEMMA AccountOperations ==
  ASSUME NEW accts \in Accounts, NEW a \in Addr, NEW v \in Int
  PROVE  /\ Debit(accts, a, v) \in Accounts
         /\ Credit(accts, a, v) \in Accounts
         /\ IncrementNonce(accts, a) \in Accounts
         /\ CreateAccount(accts, a) \in Accounts
         /\ \A code \in BOOLEAN : SetCode(accts, a, code) \in Accounts
<1>1. accts[a] \in Account
  BY DEF Accounts
<1>2. \A r \in Account : [accts EXCEPT ![a] = r] \in Accounts
  BY DEF Accounts
<1>b. accts[a].balance \in Int /\ accts[a].balance - v \in Int /\ accts[a].balance + v \in Int
  BY <1>1 DEF Account
<1>n. accts[a].nonce \in Nat /\ accts[a].nonce + 1 \in Nat
  BY <1>1 DEF Account
<1>3. [accts[a] EXCEPT !.balance = @ - v, !.exists = TRUE] \in Account
  BY <1>1, <1>b DEF Account
<1>4. [accts[a] EXCEPT !.balance = @ + v, !.exists = TRUE] \in Account
  BY <1>1, <1>b DEF Account
<1>5. [accts[a] EXCEPT !.nonce = @ + 1, !.exists = TRUE] \in Account
  BY <1>1, <1>n DEF Account
<1>6. \A code \in BOOLEAN : [accts[a] EXCEPT !.code = code, !.exists = TRUE] \in Account
  BY <1>1 DEF Account
<1>7. [accts[a] EXCEPT !.balance = IF accts[a].exists THEN @ ELSE 0,
                       !.nonce = IF @ = 0 /\ ~accts[a].code THEN 1 ELSE @,
                       !.exists = TRUE] \in Account
  <2> DEFINE b == IF accts[a].exists THEN accts[a].balance ELSE 0
             m == IF accts[a].nonce = 0 /\ ~accts[a].code THEN 1 ELSE accts[a].nonce
  <2>1. b \in Int /\ m \in Nat
    BY <1>1, <1>n DEF Account
  <2> HIDE DEF b, m
  <2>2. [accts[a] EXCEPT !.balance = b, !.nonce = m, !.exists = TRUE] \in Account
    BY <1>1, <2>1 DEF Account
  <2> QED
    BY <2>2 DEF b, m
<1> QED
  BY <1>2, <1>3, <1>4, <1>5, <1>6, <1>7 DEF Debit, Credit, IncrementNonce, CreateAccount, SetCode

LEMMA TransferType ==
  ASSUME NEW accts \in Accounts, NEW a \in Addr, NEW b \in Addr, NEW v \in Int
  PROVE  Transfer(accts, a, b, v) \in Accounts
BY AccountOperations DEF Transfer

LEMMA RevertTypes ==
  ASSUME NEW S, NEW stack \in Seq(S), NEW current \in S, NEW rev \in Nat \cup {NoRevision}
  PROVE  /\ Restored(stack, current, rev) \in S
         /\ Truncated(stack, rev) \in Seq(S)
         /\ Len(Truncated(stack, rev)) = IF rev \in 0 .. Len(stack) - 1 THEN rev ELSE Len(stack)
         /\ \A k \in 1 .. Len(Truncated(stack, rev)) : Truncated(stack, rev)[k] = stack[k]
<1>1. Len(stack) \in Nat /\ \A k \in 1 .. Len(stack) : stack[k] \in S
  BY LenProperties, ElementOfSeq
<1>2. CASE rev \in 0 .. Len(stack) - 1
  <2>1. rev \in Nat /\ \A k \in 1 .. rev : stack[k] \in S
    BY <1>1, <1>2
  <2>2. /\ SubSeq(stack, 1, rev) \in Seq(S)
        /\ Len(SubSeq(stack, 1, rev)) = IF 1 <= rev THEN rev - 1 + 1 ELSE 0
        /\ \A k \in 1 .. rev - 1 + 1 : SubSeq(stack, 1, rev)[k] = stack[1 + k - 1]
    BY <2>1, SubSeqProperties
  <2>3. /\ Len(SubSeq(stack, 1, rev)) = rev
        /\ \A k \in 1 .. rev : SubSeq(stack, 1, rev)[k] = stack[k]
    BY <2>1, <2>2
  <2>4. stack[rev + 1] \in S
    BY <1>1, <1>2
  <2> QED
    BY <1>2, <2>2, <2>3, <2>4 DEF Restored, Truncated
<1>3. CASE ~(rev \in 0 .. Len(stack) - 1)
  BY <1>3 DEF Restored, Truncated
<1> QED
  BY <1>2, <1>3

-----------------------------------------------------------------------------
(* The inductive invariant: the properties are not inductive without what  *)
(* holds before the run starts.                                            *)

BeforeTheRun ==
  phase = "idle" =>
    /\ frames = <<>> /\ outcome.gas = 0
    /\ acctSnaps = <<>> /\ slotSnaps = <<>>

IInv == TypeOK /\ SnapshotsNested /\ GasBounded /\ BeforeTheRun

\* The three things a step does to the stack of frames.
Spends ==
  /\ frames' \in Seq(Frame)
  /\ Len(frames') = Len(frames)
  /\ \A i \in 1 .. Len(frames) :
       SameShape(frames'[i], frames[i]) /\ frames'[i].gas <= frames[i].gas

Pushes ==
  /\ frames' \in Seq(Frame)
  /\ Len(frames') = Len(frames) + 1
  /\ \A i \in 1 .. Len(frames) :
       SameShape(frames'[i], frames[i]) /\ frames'[i].gas <= frames[i].gas
  /\ LET callee == frames'[Len(frames) + 1]
     IN /\ frames'[Len(frames)].gas + callee.given <= frames[Len(frames)].gas
        /\ callee.gas = callee.given
        /\ callee.accRev = Len(acctSnaps) /\ callee.stoRev = Len(slotSnaps)

Pops ==
  /\ frames' \in Seq(Frame)
  /\ Len(frames') = Len(frames) - 1
  /\ \A i \in 1 .. Len(frames) - 1 :
       /\ SameShape(frames'[i], frames[i])
       /\ frames'[i].gas <= frames[i].gas +
            (IF i = Len(frames) - 1 THEN frames[Len(frames)].gas ELSE 0)

LEMMA FrameTypes ==
  ASSUME NEW s \in Seq(Frame), NEW i \in 1 .. Len(s)
  PROVE  /\ s[i] \in Frame
         /\ s[i].gas \in Nat /\ s[i].given \in Nat
         /\ s[i].accRev \in Nat \cup {NoRevision} /\ s[i].accRev \in Int
         /\ s[i].stoRev \in Nat \cup {NoRevision} /\ s[i].stoRev \in Int
         /\ s[i].addr \in Addr /\ s[i].logs \in Seq(Nat)
         /\ s[i].static \in BOOLEAN
<1>1. s[i] \in Frame
  BY ElementOfSeq
<1> QED
  BY <1>1 DEF Frame, NoRevision

LEMMA SpendingKeeps ==
  ASSUME IInv, Spends, Len(frames) > 0, outcome' = outcome,
         acctSnaps' \in Seq(Accounts), slotSnaps' \in Seq(Slots),
         Len(acctSnaps') = Len(slotSnaps'), Len(acctSnaps) <= Len(acctSnaps')
  PROVE  SnapshotsNested' /\ GasBounded'
<1>1. /\ frames \in Seq(Frame) /\ frames' \in Seq(Frame) /\ Len(frames') = Len(frames)
      /\ Len(frames) \in Nat /\ Len(acctSnaps) \in Nat /\ Len(acctSnaps') \in Nat
  BY LenProperties DEF IInv, TypeOK, Spends
<1>2. \A i \in 1 .. Len(frames) :
        /\ frames[i].gas \in Nat /\ frames[i].given \in Nat
        /\ frames[i].accRev \in Int /\ frames'[i].gas \in Nat
  BY <1>1, FrameTypes
<1>3. \A i \in 1 .. Len(frames) :
        /\ frames'[i].accRev = frames[i].accRev /\ frames'[i].stoRev = frames[i].stoRev
        /\ frames'[i].given = frames[i].given /\ frames'[i].gas <= frames[i].gas
  BY DEF Spends, SameShape
<1>4. SnapshotsNested'
  BY <1>1, <1>2, <1>3 DEF IInv, SnapshotsNested, HasRevision
<1>5. GasBounded'
  <2>1. frames # <<>> /\ frames' # <<>>
    BY <1>1, EmptySeq
  <2>2. \A i \in 1 .. Len(frames) - 1 : frames'[i + 1].given = frames[i + 1].given
    BY <1>1, <1>3
  <2>3. ASSUME NEW i \in 1 .. Len(frames)
        PROVE  frames'[i].gas + (IF i < Len(frames) THEN frames'[i + 1].given ELSE 0)
                 <= frames'[i].given
    <3>1. frames[i].gas + (IF i < Len(frames) THEN frames[i + 1].given ELSE 0)
            <= frames[i].given
      BY DEF IInv, GasBounded
    <3>2. CASE i < Len(frames)
      <4>1. frames[i + 1].given \in Nat
        BY <1>1, <1>2, <3>2
      <4> QED
        BY <1>1, <1>2, <1>3, <2>2, <3>1, <3>2, <4>1
    <3>3. CASE ~(i < Len(frames))
      BY <1>1, <1>2, <1>3, <3>1, <3>3
    <3> QED
      BY <3>2, <3>3
  <2>4. frames'[1].given = outcome'.limit /\ outcome'.gas <= outcome'.limit
    BY <1>1, <1>3, <2>1, SMTT(30) DEF IInv, GasBounded
  <2> QED
    BY <1>1, <2>3, <2>4, SMTT(30) DEF GasBounded
<1> QED
  BY <1>4, <1>5

LEMMA PushingKeeps ==
  ASSUME IInv, Pushes, Len(frames) > 0, outcome' = outcome,
         Len(acctSnaps') = Len(acctSnaps) + 1, Len(slotSnaps') = Len(slotSnaps) + 1
  PROVE  SnapshotsNested' /\ GasBounded'
<1> DEFINE n == Len(frames)
<1>1. /\ frames \in Seq(Frame) /\ frames' \in Seq(Frame) /\ Len(frames') = n + 1
      /\ n \in Nat /\ Len(acctSnaps) \in Nat /\ Len(slotSnaps) = Len(acctSnaps)
  BY LenProperties DEF IInv, TypeOK, Pushes, SnapshotsNested
<1>2. /\ \A i \in 1 .. n : /\ frames[i].gas \in Nat /\ frames[i].given \in Nat
                             /\ frames[i].accRev \in Int
      /\ \A i \in 1 .. n + 1 : frames'[i].gas \in Nat /\ frames'[i].given \in Nat
  BY <1>1, FrameTypes
<1>3. /\ \A i \in 1 .. n :
           /\ frames'[i].accRev = frames[i].accRev /\ frames'[i].stoRev = frames[i].stoRev
           /\ frames'[i].given = frames[i].given /\ frames'[i].gas <= frames[i].gas
      /\ frames'[n].gas + frames'[n + 1].given <= frames[n].gas
      /\ frames'[n + 1].gas = frames'[n + 1].given
      /\ frames'[n + 1].accRev = Len(acctSnaps) /\ frames'[n + 1].stoRev = Len(slotSnaps)
  BY DEF Pushes, SameShape
<1> HIDE DEF n
<1>4. SnapshotsNested'
  <2>1. \A i \in 1 .. n : /\ frames[i].accRev = frames[i].stoRev
                          /\ frames[i].accRev < Len(acctSnaps)
                          /\ i > 1 => frames[i].accRev # NoRevision
                          /\ \A j \in 1 .. i - 1 : frames[j].accRev < frames[i].accRev
    BY DEF IInv, SnapshotsNested, HasRevision, n
  <2>2. \A i \in 1 .. n + 1 : i = n + 1 \/ i \in 1 .. n
    BY <1>1
  <2>3. ASSUME NEW i \in 1 .. n
        PROVE  /\ frames'[i].accRev = frames'[i].stoRev
               /\ frames'[i].accRev < Len(acctSnaps')
               /\ i > 1 => frames'[i].accRev # NoRevision
               /\ \A j \in 1 .. i - 1 : frames'[j].accRev < frames'[i].accRev
    <3>1. \A j \in 1 .. i - 1 : j \in 1 .. n
      BY <1>1
    <3>2. \A j \in 1 .. i - 1 : frames'[j].accRev < frames'[i].accRev
      BY <1>3, <2>1, <3>1
    <3>3. frames'[i].accRev < Len(acctSnaps')
      <4>1. /\ frames[i].accRev < Len(acctSnaps) /\ frames[i].accRev \in Int
            /\ frames'[i].accRev = frames[i].accRev
        BY <1>2, <1>3, <2>1
      <4>2. Len(acctSnaps') = Len(acctSnaps) + 1
        OBVIOUS
      <4> QED
        BY <1>1, <4>1, <4>2
    <3> QED
      BY <1>3, <2>1, <3>2, <3>3
  <2>4. /\ frames'[n + 1].accRev = frames'[n + 1].stoRev
        /\ frames'[n + 1].accRev < Len(acctSnaps')
        /\ frames'[n + 1].accRev # NoRevision
        /\ \A j \in 1 .. n : frames'[j].accRev < frames'[n + 1].accRev
    <3>1. \A j \in 1 .. n : frames'[j].accRev < frames'[n + 1].accRev
      BY <1>3, <2>1
    <3> QED
      BY <1>1, <1>3, <3>1 DEF NoRevision
  <2> QED
    BY <1>1, <2>2, <2>3, <2>4 DEF SnapshotsNested, HasRevision
<1>5. GasBounded'
  <2>1. frames # <<>> /\ frames' # <<>> /\ n > 0
    BY <1>1, EmptySeq DEF n
  <2>2. ASSUME NEW i \in 1 .. n + 1
        PROVE  frames'[i].gas + (IF i < n + 1 THEN frames'[i + 1].given ELSE 0)
                 <= frames'[i].given
    <3>1. CASE i = n + 1
      BY <1>1, <1>2, <1>3, <3>1
    <3>2. CASE i = n
      <4>0. n \in 1 .. n /\ ~(n < n)
        BY <1>1, <2>1
      <4>1. frames[n].gas + 0 <= frames[n].given
        BY <4>0 DEF IInv, GasBounded, n
      <4> QED
        BY <1>1, <1>2, <1>3, <2>1, <3>2, <4>1
    <3>3. CASE i \in 1 .. n - 1
      <4>1. i \in 1 .. n /\ i < n /\ i + 1 \in 1 .. n
        BY <1>1, <3>3
      <4>2. frames[i].gas + frames[i + 1].given <= frames[i].given
        BY <4>1 DEF IInv, GasBounded, n
      <4>3. /\ frames'[i].gas <= frames[i].gas /\ frames'[i].given = frames[i].given
            /\ frames'[i + 1].given = frames[i + 1].given /\ i < n + 1
            /\ frames[i].gas \in Nat /\ frames[i].given \in Nat
            /\ frames[i + 1].given \in Nat /\ frames'[i].gas \in Nat
        BY <1>1, <1>2, <1>3, <4>1, SMTT(30)
      <4> QED
        BY <4>2, <4>3, SMTT(20)
    <3> QED
      BY <1>1, <3>1, <3>2, <3>3
  <2>3. frames'[1].given = outcome'.limit /\ outcome'.gas <= outcome'.limit
    BY <1>1, <1>3, <2>1 DEF IInv, GasBounded
  <2> QED
    BY <1>1, <2>2, <2>3 DEF GasBounded
<1> QED
  BY <1>4, <1>5

\* Either the snapshots stay, or the failed frame's are reverted to.
LEMMA PoppingKeeps ==
  ASSUME IInv, Pops, Len(frames) > 1, outcome' = outcome,
         Len(acctSnaps') = Len(slotSnaps'),
         \/ Len(acctSnaps') = Len(acctSnaps)
         \/ Len(acctSnaps') = frames[Len(frames)].accRev
  PROVE  SnapshotsNested' /\ GasBounded'
<1> DEFINE n == Len(frames)
<1>1. /\ frames \in Seq(Frame) /\ frames' \in Seq(Frame) /\ Len(frames') = n - 1
      /\ n \in Nat /\ n > 1 /\ Len(acctSnaps) \in Nat
  BY LenProperties DEF IInv, TypeOK, Pops
<1>2. /\ \A i \in 1 .. n : /\ frames[i].gas \in Nat /\ frames[i].given \in Nat
                             /\ frames[i].accRev \in Int
      /\ \A i \in 1 .. n - 1 : frames'[i].gas \in Nat
  BY <1>1, FrameTypes
<1>3. \A i \in 1 .. n - 1 :
        /\ frames'[i].accRev = frames[i].accRev /\ frames'[i].stoRev = frames[i].stoRev
        /\ frames'[i].given = frames[i].given
        /\ frames'[i].gas <= frames[i].gas + (IF i = n - 1 THEN frames[n].gas ELSE 0)
  BY DEF Pops, SameShape
<1>a. /\ Len(acctSnaps') = Len(slotSnaps')
      /\ Len(acctSnaps') = Len(acctSnaps) \/ Len(acctSnaps') = frames[n].accRev
  OBVIOUS
<1>b. \A i \in 1 .. n : /\ frames[i].accRev = frames[i].stoRev
                        /\ frames[i].accRev < Len(acctSnaps)
                        /\ i > 1 => frames[i].accRev # NoRevision
                        /\ \A j \in 1 .. i - 1 : frames[j].accRev < frames[i].accRev
  BY DEF IInv, SnapshotsNested, HasRevision
<1>c. \A i \in 1 .. n : frames[i].gas + (IF i < n THEN frames[i + 1].given ELSE 0)
                           <= frames[i].given
  BY DEF IInv, GasBounded
<1> HIDE DEF n
<1>4. SnapshotsNested'
  <2>1. ASSUME NEW i \in 1 .. n - 1
        PROVE  /\ frames'[i].accRev = frames'[i].stoRev
               /\ frames'[i].accRev < Len(acctSnaps')
               /\ i > 1 => frames'[i].accRev # NoRevision
               /\ \A j \in 1 .. i - 1 : frames'[j].accRev < frames'[i].accRev
    <3>1. i \in 1 .. n /\ n \in 1 .. n /\ \A j \in 1 .. i - 1 : j \in 1 .. n - 1 /\ j \in 1 .. n
      BY <1>1
    <3>2. \A j \in 1 .. i - 1 : frames'[j].accRev < frames'[i].accRev
      BY <1>3, <1>b, <3>1
    <3>3. frames[i].accRev < frames[n].accRev /\ frames[i].accRev < Len(acctSnaps)
      BY <1>1, <1>b, <3>1
    <3> QED
      BY <1>3, <1>a, <1>b, <3>1, <3>2, <3>3
  <2> QED
    BY <1>1, <1>a, <2>1 DEF SnapshotsNested, HasRevision
<1>5. GasBounded'
  <2>1. frames # <<>> /\ frames' # <<>>
    BY <1>1, EmptySeq DEF n
  <2>2. ASSUME NEW i \in 1 .. n - 1
        PROVE  frames'[i].gas + (IF i < n - 1 THEN frames'[i + 1].given ELSE 0)
                 <= frames'[i].given
    <3>1. CASE i = n - 1
      <4>1. i \in 1 .. n /\ i + 1 = n /\ n \in 1 .. n
        BY <1>1, <3>1
      <4>2. frames[i].gas + frames[n].given <= frames[i].given /\ frames[n].gas <= frames[n].given
        <5>1. frames[i].gas + frames[n].given <= frames[i].given
          <6>1. i < n
            BY <1>1, <4>1
          <6> QED BY <1>c, <4>1, <6>1
        <5>2. frames[n].gas + 0 <= frames[n].given
          <6>1. ~(n < n)
            BY <1>1
          <6> QED BY <1>c, <4>1, <6>1
        <5>3. frames[n].gas \in Nat
          BY <1>2, <4>1 DEF Frame
        <5> QED BY <5>1, <5>2, <5>3
      <4>3. /\ frames'[i].gas <= frames[i].gas + frames[n].gas
            /\ frames'[i].given = frames[i].given /\ ~(i < n - 1)
            /\ frames[i].gas \in Nat /\ frames[i].given \in Nat
            /\ frames[n].given \in Nat /\ frames[n].gas \in Nat /\ frames'[i].gas \in Nat
        BY <1>1, <1>2, <1>3, <3>1, <4>1
      <4>4. frames'[i].gas <= frames'[i].given
        BY <4>2, <4>3, SMTT(30)
      <4> QED
        BY <4>3, <4>4
    <3>2. CASE i < n - 1
      <4>1. i \in 1 .. n /\ i + 1 \in 1 .. n - 1 /\ i + 1 \in 1 .. n
        BY <1>1, <3>2
      <4>2. frames[i].gas + frames[i + 1].given <= frames[i].given
        BY <1>1, <1>c, <3>2, <4>1
      <4>3. /\ frames'[i].gas <= frames[i].gas + 0 /\ frames'[i].given = frames[i].given
            /\ frames'[i + 1].given = frames[i + 1].given /\ i # n - 1
            /\ frames[i].gas \in Nat /\ frames[i].given \in Nat
            /\ frames[i + 1].given \in Nat /\ frames'[i].gas \in Nat
        BY <1>1, <1>2, <1>3, <3>2, <4>1
      <4> QED
        BY <3>2, <4>2, <4>3
    <3> QED
      BY <1>1, <3>1, <3>2
  <2>3. frames'[1].given = outcome'.limit /\ outcome'.gas <= outcome'.limit
    BY <1>1, <1>3, <2>1 DEF IInv, GasBounded
  <2> QED
    BY <1>1, <2>2, <2>3 DEF GasBounded
<1> QED
  BY <1>4, <1>5

-----------------------------------------------------------------------------
(* Lemmas: the operators of the actions do these three things.             *)

LEMMA TopFacts ==
  ASSUME IInv, Len(frames) > 0
  PROVE  /\ frames \in Seq(Frame) /\ Len(frames) \in Nat /\ Len(frames) \in 1 .. Len(frames)
         /\ top \in Frame /\ top.gas \in Nat /\ top.given \in Nat /\ top.addr \in Addr
         /\ top.static \in BOOLEAN /\ top.logs \in Seq(Nat)
         /\ top.accRev \in Nat \cup {NoRevision} /\ top.stoRev \in Nat \cup {NoRevision}
<1>1. frames \in Seq(Frame) /\ Len(frames) \in Nat
  BY LenProperties DEF IInv, TypeOK
<1>2. Len(frames) \in 1 .. Len(frames)
  BY <1>1
<1> QED
  BY <1>1, <1>2, FrameTypes DEF top

LEMMA ChargingSpends ==
  ASSUME IInv, Len(frames) > 0, NEW g \in Nat, g <= top.gas, frames' = WithGas(frames, g)
  PROVE  Spends
<1>1. \A i \in 1 .. Len(frames) : frames[i].gas \in Nat
  BY FrameTypes, TopFacts
<1> QED
  BY <1>1, TopFacts, WithGasFacts, SMTT(30) DEF Spends, top

LEMMA LoggingSpends ==
  ASSUME IInv, Len(frames) > 0, NEW c \in Nat, c <= top.gas, NEW id \in Nat,
         frames' = [frames EXCEPT ![Len(frames)].gas = @ - c,
                                  ![Len(frames)].logs = Append(@, id)]
  PROVE  Spends
<1> DEFINE n == Len(frames)
           f == [frames[n] EXCEPT !.gas = @ - c, !.logs = Append(@, id)]
<1>1. /\ frames \in Seq(Frame) /\ n \in 1 .. Len(frames) /\ frames[n] \in Frame
      /\ frames[n].gas \in Nat /\ frames[n].gas - c \in Nat /\ frames[n].gas - c <= frames[n].gas
      /\ Append(frames[n].logs, id) \in Seq(Nat)
  BY TopFacts DEF top
<1>2. f \in Frame /\ SameShape(f, frames[n]) /\ f.gas <= frames[n].gas
  BY <1>1 DEF Frame, SameShape
<1>3. frames' = [frames EXCEPT ![n] = f]
  OBVIOUS
<1>4. \A i \in 1 .. Len(frames) : frames[i].gas \in Nat
  BY FrameTypes, <1>1
<1> HIDE DEF n, f
<1> DEFINE t == [frames EXCEPT ![n] = f]
<1>a. /\ t \in Seq(Frame) /\ Len(t) = Len(frames)
      /\ \A i \in 1 .. Len(frames) : t[i] = IF i = n THEN f ELSE frames[i]
  BY <1>1, <1>2, ExceptSeq
<1> HIDE DEF t
<1>5. /\ frames' \in Seq(Frame) /\ Len(frames') = Len(frames)
      /\ \A i \in 1 .. Len(frames) : frames'[i] = IF i = n THEN f ELSE frames[i]
  BY <1>3, <1>a DEF t
<1> QED
  BY <1>2, <1>4, <1>5 DEF Spends, SameShape

LEMMA CallingPushes ==
  ASSUME IInv, Len(frames) > 0,
         NEW g \in Nat, NEW c \in Nat, g + c <= top.gas,
         NEW a \in Addr, NEW st \in BOOLEAN, NEW k \in {"root", "call", "create"},
         frames' = Append(WithGas(frames, g),
                          NewFrame(a, st, k, c, Len(acctSnaps), Len(slotSnaps)))
  PROVE  Pushes
<1> DEFINE w == WithGas(frames, g)
           f == NewFrame(a, st, k, c, Len(acctSnaps), Len(slotSnaps))
<1>1. /\ w \in Seq(Frame) /\ Len(w) = Len(frames)
      /\ \A i \in 1 .. Len(frames) : /\ SameShape(w[i], frames[i])
                                     /\ w[i].gas = IF i = Len(frames) THEN g ELSE frames[i].gas
  BY WithGasFacts, TopFacts
<1>2. Len(acctSnaps) \in Nat /\ Len(slotSnaps) \in Nat
  BY LenProperties DEF IInv, TypeOK
<1>3. /\ f \in Frame /\ f.gas = c /\ f.given = c
      /\ f.accRev = Len(acctSnaps) /\ f.stoRev = Len(slotSnaps)
  BY <1>2 DEF NewFrame, Frame
<1>4. \A i \in 1 .. Len(frames) : frames[i].gas \in Nat
  BY FrameTypes, TopFacts
<1> HIDE DEF w, f
<1>5. /\ frames' \in Seq(Frame) /\ Len(frames') = Len(frames) + 1
      /\ \A i \in 1 .. Len(frames) : frames'[i] = w[i]
      /\ frames'[Len(frames) + 1] = f
  BY <1>1, <1>3, AppendProperties DEF w, f
<1>6. Len(frames) \in 1 .. Len(frames) /\ top.gas \in Nat
  BY TopFacts
<1>7. g <= frames[Len(frames)].gas /\ g + c <= frames[Len(frames)].gas
  BY <1>6 DEF top
<1>8. \A i \in 1 .. Len(frames) : w[i].gas <= frames[i].gas
  BY <1>1, <1>4, <1>7
<1>9. frames'[Len(frames)].gas + f.given <= frames[Len(frames)].gas
  BY <1>1, <1>3, <1>5, <1>6, <1>7
<1> QED
  BY <1>1, <1>3, <1>5, <1>8, <1>9 DEF Pushes

LEMMA ResumingPops ==
  ASSUME IInv, Len(frames) > 1, NEW g \in Nat, g <= top.gas, NEW l \in Seq(Nat),
         frames' = Resumed(g, l)
  PROVE  Pops
<1>0. frames \in Seq(Frame) /\ Len(frames) \in Nat
  BY LenProperties DEF IInv, TypeOK
<1>1. \A i \in 1 .. Len(frames) : frames[i].gas \in Nat
  BY FrameTypes, TopFacts
<1> DEFINE n == Len(frames) - 1
           r == Resumed(g, l)
<1>2. /\ r \in Seq(Frame) /\ Len(r) = n
      /\ \A i \in 1 .. n : /\ SameShape(r[i], frames[i])
                            /\ r[i].gas = IF i = n THEN frames[i].gas + g ELSE frames[i].gas
  BY <1>0, ResumedFacts
<1>3. n \in Nat /\ \A i \in 1 .. n : i \in 1 .. Len(frames)
  BY <1>0
<1>4. frames[Len(frames)].gas \in Nat /\ g <= frames[Len(frames)].gas
  BY <1>0, TopFacts DEF top
<1> HIDE DEF n, r
<1>5. \A i \in 1 .. n : r[i].gas <= frames[i].gas + (IF i = n THEN frames[Len(frames)].gas ELSE 0)
  BY <1>1, <1>2, <1>3, <1>4
<1> QED
  BY <1>2, <1>5 DEF Pops, n, r

LEMMA CallFacts ==
  ASSUME IInv, NEW m \in Calls, MayCall(m)
  PROVE  /\ GasDuringCall(m) \in Nat /\ ChildGas(m) \in Nat
         /\ GasDuringCall(m) + ChildGas(m) <= top.gas
         /\ Callee(m) \in Addr /\ m.value \in Nat /\ ChildStatic(m) \in BOOLEAN
         /\ top.static => m.value = 0
         /\ m.kind = "STATICCALL" => m.value = 0
<1>1. /\ m.kind \in CallKinds /\ m.target \in Addr /\ m.value \in Nat
      /\ m.access \in Nat /\ m.want \in Nat
      /\ m.value > 0 => m.kind \in {"CALL", "CALLCODE"}
  BY GasAssumption, ProgramAssumption DEF Calls, OpNames, Positive
<1>2. /\ top.gas \in Nat /\ top.addr \in Addr /\ top.static \in BOOLEAN
  BY TopFacts DEF MayCall, Executing
<1>3. CallValueGas \in Nat /\ NewAccountGas \in Nat /\ CallStipend \in Nat
  BY GasAssumption
<1>4. Overhead(m) \in Nat /\ (m.value > 0 => CallStipend <= Overhead(m))
  BY <1>1, <1>3, StipendAssumption DEF Overhead
<1>5. Overhead(m) <= top.gas /\ (m.value > 0 => ~top.static)
  BY DEF MayCall
<1>6. top.gas - Overhead(m) \in Nat
  BY <1>2, <1>4, <1>5
<1>7. Forwarded(m) \in Nat /\ Forwarded(m) <= top.gas - Overhead(m)
  BY <1>1, <1>6, ForwardedGas DEF Forwarded
<1>8. /\ GasDuringCall(m) \in Nat /\ ChildGas(m) \in Nat
      /\ GasDuringCall(m) + ChildGas(m) <= top.gas
  BY <1>1, <1>2, <1>3, <1>4, <1>7 DEF GasDuringCall, ChildGas
<1> QED
  BY <1>1, <1>2, <1>5, <1>8 DEF Callee, ChildStatic

-----------------------------------------------------------------------------
(* The invariant holds initially and every action preserves it.            *)

LEMMA InitEstablishes == Init => IInv
<1> SUFFICES ASSUME Init PROVE IInv
  OBVIOUS
<1>1. acct \in Accounts
  BY AddrAssumption DEF Init, Accounts, Account
<1>2. slots \in Slots /\ transient \in Slots
  BY ProgramAssumption DEF Init, Slots
<1>3. outcome \in Outcome
  BY EmptySeq DEF Init, Outcome
<1>4. TypeOK
  BY <1>1, <1>2, <1>3, EmptySeq DEF Init, TypeOK
<1>5. SnapshotsNested /\ GasBounded /\ BeforeTheRun
  BY EmptySeq DEF Init, SnapshotsNested, GasBounded, BeforeTheRun
<1> QED
  BY <1>4, <1>5 DEF IInv

LEMMA StartKeeps == IInv /\ StartRun => IInv'
<1> SUFFICES ASSUME IInv, NEW limit \in GasLimits, NEW value, NEW static \in BOOLEAN,
                    \/ value \in Values /\ Begin(limit, value, static)
                    \/ BeginRefused(limit, value)
             PROVE  IInv'
  BY DEF StartRun
<1>1. /\ phase = "idle" /\ frames = <<>> /\ outcome.gas = 0 /\ outcome \in Outcome
      /\ acctSnaps = <<>> /\ slotSnaps = <<>> /\ limit \in Nat
  BY GasAssumption, ProgramAssumption
     DEF IInv, BeforeTheRun, TypeOK, Begin, BeginRefused, Positive
<1>2. CASE BeginRefused(limit, value)
  <2>1. outcome' \in Outcome
    BY <1>1, <1>2, EmptySeq DEF BeginRefused, Outcome
  <2>2. TypeOK'
    BY <1>2, <2>1 DEF IInv, TypeOK, BeginRefused, world, snaps, history
  <2>3. SnapshotsNested' /\ GasBounded' /\ BeforeTheRun'
    BY <1>1, <1>2 DEF SnapshotsNested, GasBounded, BeforeTheRun, BeginRefused, snaps
  <2> QED
    BY <2>2, <2>3 DEF IInv
<1>3. CASE value \in Values /\ Begin(limit, value, static)
  <2>0. value \in Nat
    BY <1>3, ProgramAssumption
  <2>1. outcome' \in Outcome /\ outcome'.limit = limit /\ outcome'.gas = 0
    BY <1>1, <1>3 DEF Begin, Outcome
  <2> DEFINE root(rev) == NewFrame(Entry, static, "root", limit, rev, rev)
  <2>2. \A rev \in Nat \cup {NoRevision} :
          /\ root(rev) \in Frame /\ root(rev).accRev = rev /\ root(rev).stoRev = rev
          /\ root(rev).gas = limit /\ root(rev).given = limit
    BY <1>1, AddrAssumption, EmptySeq DEF NewFrame, Frame
  <2>3. CASE MovesValue(value)
    <3>1. /\ acctSnaps' = Append(acctSnaps, acct) /\ slotSnaps' = Append(slotSnaps, slots)
          /\ acct' = Transfer(acct, Caller, Entry, value) /\ frames' = <<root(0)>>
      BY <1>1, <1>3, <2>3 DEF Begin, TakeSnapshots
    <3>2. /\ acctSnaps' \in Seq(Accounts) /\ slotSnaps' \in Seq(Slots) /\ acct' \in Accounts
          /\ Len(acctSnaps') = 1 /\ Len(slotSnaps') = 1
      BY <1>1, <2>0, <3>1, AppendProperties, TransferType, AddrAssumption DEF IInv, TypeOK
    <3>3. frames' \in Seq(Frame) /\ Len(frames') = 1 /\ frames'[1] = root(0)
      BY <2>2, <3>1
    <3> HIDE DEF root
    <3>4. TypeOK'
      BY <1>3, <2>1, <3>2, <3>3 DEF IInv, TypeOK, Begin, history
    <3>5. SnapshotsNested' /\ GasBounded' /\ BeforeTheRun'
      BY <1>1, <1>3, <2>1, <2>2, <3>2, <3>3
         DEF SnapshotsNested, GasBounded, BeforeTheRun, Begin
    <3> QED
      BY <3>4, <3>5 DEF IInv
  <2>4. CASE ~MovesValue(value)
    <3>1. /\ acctSnaps' = <<>> /\ slotSnaps' = <<>> /\ acct' = acct
          /\ frames' = <<root(NoRevision)>>
      BY <1>1, <1>3, <2>4 DEF Begin, snaps
    <3>2. root(NoRevision) \in Frame
      BY <2>2
    <3>3. /\ frames' \in Seq(Frame) /\ Len(frames') = 1 /\ frames'[1] = root(NoRevision)
      BY <3>1, <3>2
    <3> HIDE DEF root
    <3>4. TypeOK'
      BY <1>3, <2>1, <3>1, <3>3, EmptySeq DEF IInv, TypeOK, Begin, history
    <3>5. SnapshotsNested' /\ GasBounded' /\ BeforeTheRun'
      BY <1>1, <1>3, <2>1, <2>2, <3>1, <3>3
         DEF SnapshotsNested, GasBounded, BeforeTheRun, Begin, NoRevision
    <3> QED
      BY <3>4, <3>5 DEF IInv
  <2> QED
    BY <2>3, <2>4
<1> QED
  BY <1>2, <1>3

\* A step of the innermost frame that only spends gas and leaves the snapshots.
LEMMA SpendingStep ==
  ASSUME IInv, Executing, Spends, UNCHANGED <<snaps, phase, outcome, reported>>,
         acct' \in Accounts, slots' \in Slots, transient' \in Slots,
         burned' \in Nat, emitted' \in Nat, dropped' \subseteq Nat
  PROVE  IInv'
<1>1. TypeOK'
  BY DEF IInv, TypeOK, Spends, snaps
<1>2. SnapshotsNested' /\ GasBounded'
  <2>1. /\ Len(frames) > 0 /\ outcome' = outcome
        /\ acctSnaps' = acctSnaps /\ slotSnaps' = slotSnaps
    BY DEF Executing, snaps
  <2>2. /\ acctSnaps' \in Seq(Accounts) /\ slotSnaps' \in Seq(Slots)
        /\ Len(acctSnaps') = Len(slotSnaps') /\ Len(acctSnaps) \in Nat
    BY <2>1, LenProperties DEF IInv, TypeOK, SnapshotsNested
  <2> QED
    BY <2>1, <2>2, SpendingKeeps
<1>3. BeforeTheRun'
  BY DEF Executing, BeforeTheRun
<1> QED
  BY <1>1, <1>2, <1>3 DEF IInv

LEMMA ChargeSpends ==
  ASSUME IInv, Executing, NEW cost \in Nat, Charge(cost)
  PROVE  Spends
<1>1. Len(frames) > 0 /\ top.gas \in Nat
  BY TopFacts DEF Executing
<1>2. top.gas - cost \in Nat /\ top.gas - cost <= top.gas
  BY <1>1 DEF Charge
<1> QED
  BY <1>1, <1>2, ChargingSpends DEF Charge

LEMMA StepKeeps == IInv /\ Step => IInv'
<1> SUFFICES ASSUME IInv, Step PROVE IInv'
  OBVIOUS
<1>0. \A op \in OpNames : Costs[op] \subseteq Nat
  BY GasAssumption DEF Positive
<1>1. CASE Plain
  <2>1. Executing /\ Spends
    BY <1>0, <1>1, ChargeSpends DEF Plain, OpNames
  <2> QED
    BY <1>1, <2>1, SpendingStep DEF Plain, IInv, TypeOK, world, history
<1>2. CASE EmitLog
  <2>1. /\ Executing /\ Len(frames) > 0 /\ emitted \in Nat
    BY <1>2 DEF EmitLog, Executing, IInv, TypeOK
  <2>2. PICK cost \in Costs["LOG"] :
          /\ cost <= top.gas
          /\ frames' = [frames EXCEPT ![Len(frames)].gas = @ - cost,
                                      ![Len(frames)].logs = Append(@, emitted + 1)]
    BY <1>2 DEF EmitLog
  <2>3. cost \in Nat /\ emitted + 1 \in Nat
    BY <1>0, <2>1 DEF OpNames
  <2>a. Spends
    BY <2>1, <2>2, <2>3, LoggingSpends
  <2>b. emitted' \in Nat
    BY <1>2, <2>3 DEF EmitLog
  <2> QED
    BY <1>2, <2>1, <2>a, <2>b, SpendingStep DEF EmitLog, IInv, TypeOK, world
<1>3. ASSUME NEW value \in StoreVals, Sstore(value) PROVE IInv'
  <2>1. Executing /\ Spends
    BY <1>0, <1>3, ChargeSpends DEF Sstore, OpNames
  <2>2. slots' \in Slots
    BY <1>3 DEF Sstore, IInv, TypeOK, Slots
  <2> QED
    BY <1>3, <2>1, <2>2, SpendingStep DEF Sstore, IInv, TypeOK, history
<1>4. ASSUME NEW value \in StoreVals, Tstore(value) PROVE IInv'
  <2>1. Executing /\ Spends
    BY <1>0, <1>4, ChargeSpends DEF Tstore, OpNames
  <2>2. transient' \in Slots
    BY <1>4 DEF Tstore, IInv, TypeOK, Slots
  <2> QED
    BY <1>4, <2>1, <2>2, SpendingStep DEF Tstore, IInv, TypeOK, world, history
<1>5. ASSUME NEW heir \in Addr, Selfdestruct(heir) PROVE IInv'
  <2>1. Executing /\ Spends
    BY <1>0, <1>5, ChargeSpends DEF Selfdestruct, OpNames
  <2> DEFINE moved == IF heir = top.addr THEN acct
                      ELSE Transfer(acct, top.addr, heir, acct[top.addr].balance)
  <2>2. top.addr \in Addr /\ acct \in Accounts /\ acct[top.addr].balance \in Int
    BY <2>1, TopFacts DEF Executing, IInv, TypeOK, Accounts, Account
  <2>3. moved \in Accounts
    BY <2>2, TransferType
  <2>4. acct' = [moved EXCEPT ![top.addr].deleted = TRUE]
    BY <1>5 DEF Selfdestruct
  <2> HIDE DEF moved
  <2>5. [moved[top.addr] EXCEPT !.deleted = TRUE] \in Account
    BY <2>2, <2>3 DEF Accounts, Account
  <2>6. acct' \in Accounts
    BY <2>2, <2>3, <2>4, <2>5 DEF Accounts
  <2> QED
    BY <1>5, <2>1, <2>6, SpendingStep DEF Selfdestruct, IInv, TypeOK, history
<1> QED
  BY <1>1, <1>2, <1>3, <1>4, <1>5 DEF Step

\* A step that takes snapshots, and pushes a frame or only spends gas.
LEMMA SnapshotsTaken ==
  ASSUME IInv, NEW a \in Accounts,
         acctSnaps' = Append(acctSnaps, a), slotSnaps' = Append(slotSnaps, slots)
  PROVE  /\ acctSnaps' \in Seq(Accounts) /\ slotSnaps' \in Seq(Slots)
         /\ Len(acctSnaps') = Len(acctSnaps) + 1 /\ Len(slotSnaps') = Len(slotSnaps) + 1
         /\ Len(acctSnaps) = Len(slotSnaps) /\ Len(acctSnaps) \in Nat
BY AppendProperties, LenProperties DEF IInv, TypeOK, SnapshotsNested

LEMMA SnapshotStep ==
  ASSUME IInv, Executing, Spends \/ Pushes, NEW a \in Accounts,
         acctSnaps' = Append(acctSnaps, a), slotSnaps' = Append(slotSnaps, slots),
         acct' \in Accounts, UNCHANGED <<slots, transient, phase, outcome, reported, history>>
  PROVE  IInv'
<1>1. /\ acctSnaps' \in Seq(Accounts) /\ slotSnaps' \in Seq(Slots)
      /\ Len(acctSnaps') = Len(acctSnaps) + 1 /\ Len(slotSnaps') = Len(slotSnaps) + 1
      /\ Len(acctSnaps) = Len(slotSnaps) /\ Len(acctSnaps) \in Nat
  BY SnapshotsTaken
<1>2. TypeOK'
  BY <1>1 DEF IInv, TypeOK, Spends, Pushes, history
<1>3. Len(frames) > 0 /\ outcome' = outcome
  BY DEF Executing
<1>4. SnapshotsNested' /\ GasBounded'
  <2>1. Len(acctSnaps') = Len(slotSnaps') /\ Len(acctSnaps) <= Len(acctSnaps')
    BY <1>1
  <2> QED
    BY <1>1, <1>3, <2>1, SpendingKeeps, PushingKeeps
<1>5. BeforeTheRun'
  BY DEF Executing, BeforeTheRun
<1> QED
  BY <1>2, <1>4, <1>5 DEF IInv

\* A message to a leaf that fails leaves the two stores as they were.
LEMMA RevertAtOnce ==
  ASSUME NEW S, NEW stack \in Seq(S), NEW before \in S, NEW after \in S
  PROVE  /\ Restored(Append(stack, before), after, Len(stack)) = before
         /\ Truncated(Append(stack, before), Len(stack)) = stack
<1> DEFINE new == Append(stack, before)
<1>1. /\ new \in Seq(S) /\ Len(new) = Len(stack) + 1 /\ Len(stack) \in Nat
      /\ new[Len(stack) + 1] = before
      /\ \A k \in 1 .. Len(stack) : new[k] = stack[k]
  BY AppendProperties, LenProperties
<1> HIDE DEF new
<1>2. Len(stack) \in 0 .. Len(new) - 1
  BY <1>1
<1>3. Restored(new, after, Len(stack)) = before
  BY <1>1, <1>2 DEF Restored
<1>4. /\ Truncated(new, Len(stack)) \in Seq(S)
      /\ Len(Truncated(new, Len(stack))) = Len(stack)
      /\ \A k \in 1 .. Len(stack) : Truncated(new, Len(stack))[k] = new[k]
  BY <1>1, <1>2, RevertTypes
<1>5. Truncated(new, Len(stack)) = stack
  BY <1>1, <1>4, SeqEqual
<1> QED
  BY <1>3, <1>5 DEF new

LEMMA MessageCallsKeep == IInv /\ MessageCalls => IInv'
<1> SUFFICES ASSUME IInv, NEW m \in Calls,
                    CallRefused(m) \/ CallLeaf(m) \/ CallLeafFails(m) \/ CallStarts(m)
             PROVE  IInv'
  BY DEF MessageCalls
<1>1. MayCall(m) /\ Executing /\ Len(frames) > 0
  BY DEF CallRefused, CallLeaf, CallLeafFails, CallStarts, MayCall, Executing
<1>2. /\ GasDuringCall(m) \in Nat /\ ChildGas(m) \in Nat
      /\ GasDuringCall(m) + ChildGas(m) <= top.gas
      /\ Callee(m) \in Addr /\ m.value \in Nat /\ ChildStatic(m) \in BOOLEAN
  BY <1>1, CallFacts
<1>3. top.gas \in Nat /\ top.addr \in Addr
  BY <1>1, TopFacts
<1>4. /\ acct \in Accounts /\ slots \in Slots
      /\ acctSnaps \in Seq(Accounts) /\ slotSnaps \in Seq(Slots)
  BY DEF IInv, TypeOK
<1>5. Transfer(acct, top.addr, Callee(m), m.value) \in Accounts
  BY <1>2, <1>3, <1>4, TransferType
<1>6. CASE CallRefused(m)
  <2>1. Spends
    BY <1>1, <1>2, <1>6, ChargingSpends DEF CallRefused
  <2> QED
    BY <1>1, <1>6, <2>1, SpendingStep DEF CallRefused, IInv, TypeOK, world, history
<1>7. CASE CallLeaf(m)
  <2>1. PICK cost \in IF m.target \in Precompiles THEN PrecompileCosts ELSE {0} :
          /\ cost <= ChildGas(m)
          /\ frames' = WithGas(frames, GasDuringCall(m) + ChildGas(m) - cost)
    BY <1>7 DEF CallLeaf
  <2>2. cost \in Nat
    BY GasAssumption
  <2>3. /\ GasDuringCall(m) + ChildGas(m) - cost \in Nat
        /\ GasDuringCall(m) + ChildGas(m) - cost <= top.gas
    BY <1>2, <1>3, <2>1, <2>2
  <2>4. Spends
    BY <1>1, <2>1, <2>3, ChargingSpends
  <2> QED
    BY <1>1, <1>4, <1>5, <1>7, <2>4, SnapshotStep DEF CallLeaf, TakeSnapshots
<1>8. CASE CallLeafFails(m)
  <2>1. GasDuringCall(m) <= top.gas /\ frames' = WithGas(frames, GasDuringCall(m))
    BY <1>2, <1>3, <1>8 DEF CallLeafFails
  <2>2. Spends
    BY <1>1, <1>2, <2>1, ChargingSpends
  <2>3. acct' = acct /\ slots' = slots /\ acctSnaps' = acctSnaps /\ slotSnaps' = slotSnaps
    BY <1>4, <1>5, <1>8, RevertAtOnce DEF CallLeafFails
  <2> QED
    BY <1>1, <1>8, <2>2, <2>3, SpendingStep DEF CallLeafFails, IInv, TypeOK, snaps, history
<1>9. CASE CallStarts(m)
  <2>1. Pushes
    BY <1>1, <1>2, <1>9, CallingPushes DEF CallStarts
  <2> QED
    BY <1>1, <1>4, <1>5, <1>9, <2>1, SnapshotStep DEF CallStarts, TakeSnapshots
<1> QED
  BY <1>6, <1>7, <1>8, <1>9

LEMMA CreationsKeep == IInv /\ Creations => IInv'
<1> SUFFICES ASSUME IInv, Creations PROVE IInv'
  OBVIOUS
<1>1. acct \in Accounts /\ Costs["CREATE"] \subseteq Nat
  BY GasAssumption DEF IInv, TypeOK, OpNames, Positive
<1>2. CASE CreateRejected
  <2>1. PICK cost \in Costs["CREATE"] : MayCreate(cost) /\ frames' = WithGas(frames, top.gas - cost)
    BY <1>2 DEF CreateRejected
  <2>2. Executing /\ Spends
    BY <1>1, <2>1, ChargeSpends DEF MayCreate, Charge
  <2> QED
    BY <1>2, <2>2, SpendingStep DEF CreateRejected, IInv, TypeOK, world, history
<1>3. ASSUME NEW addr \in Creatable, CreateRefused(addr) PROVE IInv'
  <2>1. PICK cost \in Costs["CREATE"] : MayCreate(cost) /\ frames' = WithGas(frames, top.gas - cost)
    BY <1>3 DEF CreateRefused
  <2>2. Executing /\ Spends
    BY <1>1, <2>1, ChargeSpends DEF MayCreate, Charge
  <2>3. top.addr \in Addr
    BY <2>2, TopFacts DEF Executing
  <2>4. acct' \in Accounts
    BY <1>1, <1>3, <2>3, AccountOperations DEF CreateRefused
  <2> QED
    BY <1>3, <2>2, <2>4, SpendingStep DEF CreateRefused, IInv, TypeOK, history
<1>4. ASSUME NEW addr \in Creatable, NEW value \in Values, CreateStarts(addr, value) PROVE IInv'
  <2>1. PICK cost \in Costs["CREATE"] :
          /\ MayCreate(cost)
          /\ LET left == top.gas - cost
                 child == maxMessageCallGas(left)
             IN frames' = Append(WithGas(frames, left - child),
                                 NewFrame(addr, FALSE, "create", child,
                                          Len(acctSnaps), Len(slotSnaps)))
    BY <1>4 DEF CreateStarts
  <2>2. Executing /\ Len(frames) > 0
    BY <2>1 DEF MayCreate, Executing
  <2>3. top.addr \in Addr /\ top.gas \in Nat /\ addr \in Addr /\ value \in Int
    BY <2>2, TopFacts, AddrAssumption, ProgramAssumption
  <2> DEFINE left == top.gas - cost
             child == maxMessageCallGas(left)
  <2>4. left \in Nat /\ left <= top.gas
    BY <1>1, <2>1, <2>3 DEF MayCreate
  <2>5. child \in Nat /\ child <= left
    BY <2>4, ForwardedGas
  <2>6. frames' = Append(WithGas(frames, left - child),
                         NewFrame(addr, FALSE, "create", child, Len(acctSnaps), Len(slotSnaps)))
    BY <2>1
  <2> HIDE DEF left, child
  <2>7. left - child \in Nat /\ (left - child) + child <= top.gas
    BY <2>3, <2>4, <2>5
  <2>8. Pushes
    BY <2>2, <2>3, <2>5, <2>6, <2>7, CallingPushes
  <2> DEFINE spent == IncrementNonce(acct, top.addr)
  <2>9. spent \in Accounts
    BY <1>1, <2>3, AccountOperations
  <2>10. CreateAccount(spent, addr) \in Accounts
    BY <2>3, <2>9, AccountOperations
  <2>11. acct' \in Accounts
    BY <1>4, <2>3, <2>10, TransferType DEF CreateStarts
  <2>12. acctSnaps' = Append(acctSnaps, spent) /\ slotSnaps' = Append(slotSnaps, slots)
    BY <1>4 DEF CreateStarts
  <2> HIDE DEF spent
  <2> QED
    BY <1>4, <2>2, <2>8, <2>9, <2>11, <2>12, SnapshotStep DEF CreateStarts
<1> QED
  BY <1>2, <1>3, <1>4 DEF Creations

\* A step that ends the innermost of several frames.
LEMMA PoppingStep ==
  ASSUME IInv, InnerFrame, Pops, UNCHANGED <<transient, phase, outcome>>,
         acct' \in Accounts, slots' \in Slots,
         acctSnaps' \in Seq(Accounts), slotSnaps' \in Seq(Slots),
         Len(acctSnaps') = Len(slotSnaps'),
         \/ Len(acctSnaps') = Len(acctSnaps)
         \/ Len(acctSnaps') = frames[Len(frames)].accRev,
         reported' \in {"success", "failure"},
         burned' \in Nat, emitted' \in Nat, dropped' \subseteq Nat
  PROVE  IInv'
<1>1. TypeOK'
  BY DEF IInv, TypeOK, Pops
<1>2. SnapshotsNested' /\ GasBounded'
  <2>1. Len(frames) > 1 /\ outcome' = outcome
    BY DEF InnerFrame
  <2> QED
    BY <2>1, PoppingKeeps
<1>3. BeforeTheRun'
  BY DEF InnerFrame, Executing, BeforeTheRun
<1> QED
  BY <1>1, <1>2, <1>3 DEF IInv

\* What RevertToSnapshot leaves, of the frame's own revisions.
LEMMA RevertFacts ==
  ASSUME IInv, Len(frames) > 0, RevertSnapshots(top)
  PROVE  /\ acct' \in Accounts /\ slots' \in Slots
         /\ acctSnaps' \in Seq(Accounts) /\ slotSnaps' \in Seq(Slots)
         /\ Len(acctSnaps') = Len(slotSnaps')
         /\ Len(acctSnaps') = IF top.accRev = NoRevision THEN Len(acctSnaps) ELSE top.accRev
<1>1. /\ acct \in Accounts /\ slots \in Slots
      /\ acctSnaps \in Seq(Accounts) /\ slotSnaps \in Seq(Slots)
      /\ Len(acctSnaps) = Len(slotSnaps) /\ Len(acctSnaps) \in Nat
  BY LenProperties DEF IInv, TypeOK, SnapshotsNested
<1>2. /\ Len(frames) \in 1 .. Len(frames)
      /\ top.accRev \in Nat \cup {NoRevision} /\ top.stoRev \in Nat \cup {NoRevision}
  BY TopFacts
<1>3. top.accRev = top.stoRev /\ top.accRev < Len(acctSnaps)
  BY <1>2 DEF IInv, SnapshotsNested, top
<1>4. /\ acct' = Restored(acctSnaps, acct, top.accRev)
      /\ slots' = Restored(slotSnaps, slots, top.stoRev)
      /\ acctSnaps' = Truncated(acctSnaps, top.accRev)
      /\ slotSnaps' = Truncated(slotSnaps, top.stoRev)
  BY DEF RevertSnapshots
<1>5. /\ acct' \in Accounts /\ acctSnaps' \in Seq(Accounts)
      /\ Len(acctSnaps') = IF top.accRev \in 0 .. Len(acctSnaps) - 1
                           THEN top.accRev ELSE Len(acctSnaps)
  <2>1. /\ Restored(acctSnaps, acct, top.accRev) \in Accounts
        /\ Truncated(acctSnaps, top.accRev) \in Seq(Accounts)
        /\ Len(Truncated(acctSnaps, top.accRev)) =
             IF top.accRev \in 0 .. Len(acctSnaps) - 1 THEN top.accRev ELSE Len(acctSnaps)
    BY <1>1, <1>2, RevertTypes, ZenonT(60)
  <2> QED
    BY <1>4, <2>1
<1>6. /\ slots' \in Slots /\ slotSnaps' \in Seq(Slots)
      /\ Len(slotSnaps') = IF top.stoRev \in 0 .. Len(slotSnaps) - 1
                           THEN top.stoRev ELSE Len(slotSnaps)
  <2>1. /\ Restored(slotSnaps, slots, top.stoRev) \in Slots
        /\ Truncated(slotSnaps, top.stoRev) \in Seq(Slots)
        /\ Len(Truncated(slotSnaps, top.stoRev)) =
             IF top.stoRev \in 0 .. Len(slotSnaps) - 1 THEN top.stoRev ELSE Len(slotSnaps)
    BY <1>1, <1>2, RevertTypes
  <2> QED
    BY <1>4, <2>1
<1>7. top.accRev \in 0 .. Len(acctSnaps) - 1 <=> top.accRev # NoRevision
  BY <1>1, <1>2, <1>3, SMTT(30) DEF NoRevision
<1> QED
  BY <1>1, <1>3, <1>5, <1>6, <1>7

LEMMA RangeOfLogs ==
  ASSUME NEW l \in Seq(Nat)
  PROVE  Range(l) \subseteq Nat
BY ElementOfSeq, LenProperties DEF Range

\* Paying for the deployed code leaves the creator with less than it resumed with.
LEMMA DepositPops ==
  ASSUME IInv, Len(frames) > 1, NEW g \in Nat, g <= Resumed(top.gas, top.logs)[Len(frames) - 1].gas,
         frames' = WithGas(Resumed(top.gas, top.logs), g)
  PROVE  Pops
<1> DEFINE n == Len(frames) - 1
           r == Resumed(top.gas, top.logs)
           w == WithGas(r, g)
<1>1. /\ frames \in Seq(Frame) /\ Len(frames) \in Nat /\ top.gas \in Nat /\ top.logs \in Seq(Nat)
      /\ n \in 1 .. n
  BY TopFacts
<1>2. /\ r \in Seq(Frame) /\ Len(r) = n
      /\ \A i \in 1 .. n : /\ SameShape(r[i], frames[i])
                            /\ r[i].gas = IF i = n THEN frames[i].gas + top.gas ELSE frames[i].gas
  BY <1>1, ResumedFacts
<1>3. \A i \in 1 .. n + 1 : frames[i].gas \in Nat
  BY <1>1, FrameTypes
<1>4. top = frames[n + 1] /\ Len(frames) = n + 1 /\ g <= r[n].gas
  BY <1>1 DEF top
<1> HIDE DEF n, r
<1>5. /\ w \in Seq(Frame) /\ Len(w) = n
      /\ \A i \in 1 .. n : /\ SameShape(w[i], r[i])
                            /\ w[i].gas = IF i = n THEN g ELSE r[i].gas
  BY <1>1, <1>2, WithGasFacts
<1>6. \A i \in 1 .. n : /\ SameShape(w[i], frames[i])
                         /\ w[i].gas <= frames[i].gas + (IF i = n THEN frames[n + 1].gas ELSE 0)
  <2>1. \A i \in 1 .. n : i \in 1 .. n + 1
    BY <1>1
  <2> QED
    BY <1>1, <1>2, <1>3, <1>4, <1>5, <2>1 DEF SameShape
<1>7. frames' = w
  BY DEF n, r
<1> HIDE DEF w
<1>8. \A i \in 1 .. n : SameShape(frames'[i], frames[i])
  BY <1>6, <1>7
<1> QED
  BY <1>4, <1>5, <1>6, <1>7, <1>8 DEF Pops, n

\* The end of a frame pops it.
LEMMA EndFramePops ==
  ASSUME IInv, EndFrame
  PROVE  Pops
<1>1. /\ Len(frames) > 1 /\ Len(frames) > 0 /\ Len(frames) \in Nat /\ frames \in Seq(Frame)
  <2>1. InnerFrame
    BY DEF EndFrame, CallReturns, CreateReturns, FrameFails
  <2>2. frames \in Seq(Frame) /\ Len(frames) \in Nat
    BY LenProperties DEF IInv, TypeOK
  <2> QED
    BY <2>1, <2>2 DEF InnerFrame, Executing
<1>2. top.gas \in Nat /\ top.logs \in Seq(Nat)
  BY <1>1, TopFacts
<1>4. CASE CallReturns
  BY <1>1, <1>2, <1>4, ResumingPops DEF CallReturns
<1>5. CASE CreateReturns
  <2> DEFINE r == Resumed(top.gas, top.logs)
  <2>1. /\ r \in Seq(Frame) /\ Len(r) = Len(frames) - 1 /\ Len(frames) - 1 \in 1 .. Len(r)
    <3>1. r \in Seq(Frame) /\ Len(r) = Len(frames) - 1
      BY <1>1, <1>2, ResumedFacts
    <3> HIDE DEF r
    <3> QED
      BY <1>1, <3>1
  <2>2. r[Len(r)].gas \in Nat
    BY <2>1, FrameTypes
  <2>3. CASE frames' = r
    BY <1>1, <1>2, <2>3, ResumingPops
  <2>4. CASE DepositGas <= r[Len(r)].gas /\ frames' = WithGas(r, r[Len(r)].gas - DepositGas)
    <3>1. /\ r[Len(r)].gas - DepositGas \in Nat
          /\ r[Len(r)].gas - DepositGas <= r[Len(frames) - 1].gas
      BY <2>1, <2>2, <2>4, GasAssumption
    <3> QED
      BY <1>1, <2>4, <3>1, DepositPops
  <2> QED
    BY <1>5, <2>3, <2>4 DEF CreateReturns
<1>6. CASE FrameFails
  <2>1. PICK kept \in {top.gas, 0} : frames' = Resumed(kept, <<>>)
    BY <1>6 DEF FrameFails
  <2>2. kept \in Nat /\ kept <= top.gas
    BY <1>2
  <2> QED
    BY <1>1, <2>1, <2>2, EmptySeq, ResumingPops
<1> QED
  BY <1>4, <1>5, <1>6 DEF EndFrame

LEMMA EndFrameKeeps == IInv /\ EndFrame => IInv'
<1> SUFFICES ASSUME IInv, EndFrame PROVE IInv'
  OBVIOUS
<1>1. /\ InnerFrame /\ Len(frames) > 1 /\ Len(frames) > 0
  BY DEF EndFrame, CallReturns, CreateReturns, FrameFails, InnerFrame, Executing
<1>2. /\ top.gas \in Nat /\ top.logs \in Seq(Nat) /\ top.addr \in Addr
      /\ Len(frames) \in 1 .. Len(frames)
  BY <1>1, TopFacts
<1>3. Len(acctSnaps) = Len(slotSnaps)
  BY DEF IInv, SnapshotsNested
<1>a. Pops
  BY EndFramePops
<1>4. CASE CallReturns
  BY <1>1, <1>3, <1>4, <1>a, PoppingStep DEF CallReturns, IInv, TypeOK, world, snaps, history
<1>5. CASE CreateReturns
  <2>1. acct' \in Accounts
    <3>1. PICK code \in BOOLEAN : acct' = SetCode(acct, top.addr, code)
      BY <1>5 DEF CreateReturns
    <3>2. acct \in Accounts /\ 0 \in Int
      BY DEF IInv, TypeOK
    <3> QED
      BY <1>2, <3>1, <3>2, AccountOperations
  <2>2. reported' \in {"success", "failure"}
    BY <1>5 DEF CreateReturns
  <2> QED
    BY <1>1, <1>3, <1>5, <1>a, <2>1, <2>2, PoppingStep
       DEF CreateReturns, IInv, TypeOK, snaps, history
<1>6. CASE FrameFails
  <2>4. /\ acct' \in Accounts /\ slots' \in Slots
        /\ acctSnaps' \in Seq(Accounts) /\ slotSnaps' \in Seq(Slots)
        /\ Len(acctSnaps') = Len(slotSnaps')
        /\ Len(acctSnaps') = IF top.accRev = NoRevision THEN Len(acctSnaps) ELSE top.accRev
    BY <1>1, <1>6, RevertFacts DEF FrameFails
  <2>5. Len(acctSnaps') = Len(acctSnaps) \/ Len(acctSnaps') = frames[Len(frames)].accRev
    BY <2>4 DEF top
  <2>6. dropped' \subseteq Nat
    BY <1>2, <1>6, RangeOfLogs DEF FrameFails, IInv, TypeOK
  <2>7. UNCHANGED <<transient, phase, outcome, burned, emitted>> /\ reported' = "failure"
    BY <1>6 DEF FrameFails
  <2>8. burned' \in Nat /\ emitted' \in Nat
    BY <2>7 DEF IInv, TypeOK
  <2> QED
    BY <1>1, <1>a, <2>4, <2>5, <2>6, <2>7, <2>8, PoppingStep
<1> QED
  BY <1>4, <1>5, <1>6 DEF EndFrame

LEMMA ProductOfNats ==
  ASSUME NEW x \in Nat, NEW y \in Nat
  PROVE  x * y \in Nat
OBVIOUS

LEMMA EndRunKeeps == IInv /\ EndRun => IInv'
<1> SUFFICES ASSUME IInv, EndRun PROVE IInv'
  OBVIOUS
<1>0. outcome \in Outcome /\ outcome.gas <= outcome.limit
  BY DEF IInv, TypeOK, GasBounded
<1>1. CASE RunReturns \/ RunFails
  <2>1. /\ OuterFrame /\ Len(frames) = 1 /\ Len(frames) > 0 /\ frames # <<>>
        /\ frames' = <<>> /\ phase' = "settling"
    BY <1>1, EmptySeq DEF RunReturns, RunFails, OuterFrame
  <2>2. top.gas \in Nat /\ top.logs \in Seq(Nat) /\ top = frames[1]
    BY <2>1, TopFacts DEF top
  <2>3. top.gas <= outcome.limit
    <3>1. frames[1].gas + 0 <= frames[1].given /\ frames[1].given = outcome.limit
      BY <2>1 DEF IInv, GasBounded
    <3> QED
      BY <2>2, <3>1
  <2>4. outcome' \in Outcome /\ outcome'.gas <= outcome'.limit
    <3>1. outcome.limit \in Nat
      BY <1>0 DEF Outcome
    <3>2. \A l \in Seq(Nat) :
            LET o == [outcome EXCEPT !.gas = top.gas, !.logs = l]
            IN o \in Outcome /\ o.gas <= o.limit
      BY <1>0, <2>2, <2>3 DEF Outcome
    <3>3. LET o == [outcome EXCEPT !.gas = 0] IN o \in Outcome /\ o.gas <= o.limit
      BY <1>0, <3>1 DEF Outcome
    <3>4. \/ \E l \in Seq(Nat) : outcome' = [outcome EXCEPT !.gas = top.gas, !.logs = l]
          \/ outcome' = [outcome EXCEPT !.gas = 0]
      BY <1>1, <2>2, EmptySeq DEF RunReturns, RunFails
    <3> QED
      BY <3>2, <3>3, <3>4
  <2>5. /\ acct' \in Accounts /\ slots' \in Slots
        /\ acctSnaps' \in Seq(Accounts) /\ slotSnaps' \in Seq(Slots)
        /\ Len(acctSnaps') = Len(slotSnaps')
    <3>1. CASE RunReturns
      BY <3>1 DEF RunReturns, IInv, TypeOK, SnapshotsNested, world, snaps
    <3>2. CASE RunFails
      BY <2>1, <3>2, RevertFacts DEF RunFails
    <3> QED
      BY <1>1, <3>1, <3>2
  <2>6. dropped' \subseteq Nat /\ burned' \in Nat /\ emitted' \in Nat /\ transient' \in Slots
    BY <1>1, <2>2, RangeOfLogs DEF RunReturns, RunFails, IInv, TypeOK, history
  <2>7. reported' \in {"success", "failure"}
    BY <1>1 DEF RunReturns, RunFails
  <2>8. TypeOK'
    BY <2>1, <2>4, <2>5, <2>6, <2>7, EmptySeq DEF TypeOK
  <2>9. SnapshotsNested' /\ GasBounded' /\ BeforeTheRun'
    BY <2>1, <2>4, <2>5 DEF SnapshotsNested, GasBounded, BeforeTheRun
  <2> QED
    BY <2>8, <2>9 DEF IInv
<1>2. CASE Settle
  <2>1. PICK refund \in 0 .. ChargedGas \div 5 :
          LET burn == (ChargedGas - refund) * BaseFee
          IN /\ acct' = IF burn = 0 THEN acct ELSE Debit(acct, Coinbase, burn)
             /\ burned' = burn
    BY <1>2 DEF Settle
  <2>2. ChargedGas \in Nat
    <3>1. outcome.gas \in Nat /\ outcome.limit \in Nat /\ IntrinsicGas \in Nat
      BY <1>0, GasAssumption DEF Outcome
    <3> QED
      BY <1>0, <3>1 DEF ChargedGas
  <2>3. ChargedGas - refund \in Nat
    <3>1. ChargedGas \div 5 \in Nat /\ ChargedGas \div 5 <= ChargedGas
      BY <2>2, DivisionBounds DEF Positive
    <3> QED
      BY <2>2, <3>1
  <2> DEFINE burn == (ChargedGas - refund) * BaseFee
  <2>4. burn \in Nat
    BY <2>3, GasAssumption, ProductOfNats
  <2>5. acct' = (IF burn = 0 THEN acct ELSE Debit(acct, Coinbase, burn)) /\ burned' = burn
    BY <2>1
  <2> HIDE DEF burn
  <2>6. acct' \in Accounts /\ burned' \in Nat
    BY <2>4, <2>5, AccountOperations, AddrAssumption DEF IInv, TypeOK
  <2>7. IInv'
    BY <1>2, <2>6 DEF Settle, IInv, TypeOK, SnapshotsNested, GasBounded, BeforeTheRun,
                      HasRevision, snaps
  <2> QED
    BY <2>7
<1> QED
  BY <1>1, <1>2 DEF EndRun

LEMMA StutterKeeps == IInv /\ UNCHANGED vars => IInv'
<1> SUFFICES ASSUME IInv, UNCHANGED vars PROVE IInv'
  OBVIOUS
<1>1. /\ UNCHANGED <<acct, acctSnaps, slots, slotSnaps, transient, frames>>
      /\ UNCHANGED <<phase, outcome, reported, burned, emitted, dropped>>
  BY DEF vars, history
<1> QED
  BY <1>1 DEF IInv, TypeOK, SnapshotsNested, GasBounded, BeforeTheRun, HasRevision

-----------------------------------------------------------------------------
(* Theorems.                                                               *)

\* The inductive invariant: in every reachable state of a run, whatever the
\* bytecode does and whatever the constants are.
THEOREM Invariance == Spec => []IInv
<1>1. IInv /\ [Next]_vars => IInv'
  BY StartKeeps, StepKeeps, MessageCallsKeep, CreationsKeep, EndFrameKeeps, EndRunKeeps,
     StutterKeeps DEF Next
<1> QED
  BY InitEstablishes, <1>1, PTL DEF Spec

\* Type correctness: in particular no gas meter and no nonce goes below zero.
THEOREM TypeCorrect == Spec => []TypeOK
<1>1. IInv => TypeOK
  BY DEF IInv
<1> QED
  BY Invariance, <1>1, PTL

\* Every revision a frame will revert to is in both stores, nested as the
\* frames are: opCallCommon and opCreate never ask for a revision a callee's
\* RevertToSnapshot has already dropped.
THEOREM SnapshotsStayNested == Spec => []SnapshotsNested
<1>1. IInv => SnapshotsNested
  BY DEF IInv
<1> QED
  BY Invariance, <1>1, PTL

\* No nesting of calls, stipends, refunds of unused gas and deposits makes gas.
THEOREM GasIsNeverMade == Spec => []GasBounded
<1>1. IInv => GasBounded
  BY DEF IInv
<1> QED
  BY Invariance, <1>1, PTL

-----------------------------------------------------------------------------
(* The shapes of a step.  Every action of MessageCall works in the         *)
(* innermost frame, enters a new one, leaves it, starts the run or follows *)
(* it; what the theorems below need of an action is the shape it has.      *)

\* No step but the end of a frame takes code or nonces away.
Keeps(a, b) == \A x \in Addr : b[x].code = a[x].code /\ a[x].nonce <= b[x].nonce

SnapsGrow ==
  /\ Len(acctSnaps) <= Len(acctSnaps')
  /\ \A k \in 1 .. Len(acctSnaps) :
       acctSnaps'[k] = acctSnaps[k] /\ slotSnaps'[k] = slotSnaps[k]

Works ==
  /\ Executing /\ Spends /\ SnapsGrow
  /\ UNCHANGED <<phase, reported>>
  /\ Keeps(acct, acct')
  /\ top.static => UNCHANGED <<world, transient>>

EntersCall(callee, before) ==
  /\ callee.kind = "call" /\ before = acct
  /\ top.static => callee.static
  /\ callee.static => acct' = acct

EntersCreation(callee) ==
  /\ callee.kind = "create" /\ ~callee.static /\ ~top.static
  /\ acct[callee.addr].nonce = 0 /\ ~acct[callee.addr].code
  /\ acct'[callee.addr].nonce > 0

Enters ==
  /\ Executing /\ Pushes /\ SnapsGrow
  /\ Len(acctSnaps') = Len(acctSnaps) + 1
  /\ UNCHANGED <<slots, transient, phase, reported>>
  /\ slotSnaps'[Len(acctSnaps) + 1] = slots
  /\ LET callee == frames'[Len(frames) + 1]
         before == acctSnaps'[Len(acctSnaps) + 1]
     IN /\ Keeps(acct, before) /\ Keeps(before, acct')
        /\ EntersCall(callee, before) \/ EntersCreation(callee)

LeavesCreation ==
  /\ top.kind = "create"
  /\ UNCHANGED <<slots, snaps>>
  /\ \/ acct' = SetCode(acct, top.addr, TRUE) /\ reported' = "success"
     \/ acct' = SetCode(acct, top.addr, FALSE) /\ reported' \in {"success", "failure"}

Leaves ==
  /\ Executing
  /\ Len(frames') = Len(frames) - 1
  /\ \A i \in 1 .. Len(frames) - 1 : SameShape(frames'[i], frames[i])
  /\ phase' = "running" \/ Len(frames) = 1
  /\ transient' = transient
  /\ \/ reported' = "success" /\ UNCHANGED <<world, snaps>>
     \/ LeavesCreation
     \/ reported' = "failure" /\ RevertSnapshots(top)

Begins ==
  /\ frames = <<>> /\ acctSnaps = <<>>
  /\ phase' = "running"
  /\ UNCHANGED <<slots, transient, reported>>
  /\ Keeps(acct, acct')
  /\ Len(frames') = 1
  /\ LET root == frames'[1]
     IN /\ root.kind = "root" /\ root.accRev = root.stoRev
        /\ \/ /\ root.accRev = 0 /\ ~root.static
              /\ Len(acctSnaps') = 1 /\ acctSnaps'[1] = acct /\ slotSnaps'[1] = slots
           \/ root.accRev = NoRevision /\ UNCHANGED <<acct, snaps>>

Rests ==
  /\ phase # "running" /\ phase' # "running"
  /\ UNCHANGED <<frames, slots, snaps, transient>>
  /\ Keeps(acct, acct')
  /\ \/ reported' = reported
     \/ phase = "idle" /\ reported' = "failure" /\ acct' = acct

-----------------------------------------------------------------------------
(* Lemmas: what the operations on accounts leave alone.                    *)

LEMMA KeepsReflexive ==
  ASSUME NEW a \in Accounts
  PROVE  Keeps(a, a)
<1>1. \A x \in Addr : a[x].nonce \in Nat
  BY DEF Accounts, Account
<1> QED
  BY <1>1 DEF Keeps

LEMMA KeepsTransitive ==
  ASSUME NEW a \in Accounts, NEW b \in Accounts, NEW c \in Accounts, Keeps(a, b), Keeps(b, c)
  PROVE  Keeps(a, c)
<1>1. \A x \in Addr : a[x].nonce \in Nat /\ b[x].nonce \in Nat /\ c[x].nonce \in Nat
  BY DEF Accounts, Account
<1> QED
  BY <1>1 DEF Keeps

\* Changing one account to another with the same code and no smaller nonce.
LEMMA OneAccount ==
  ASSUME NEW a \in Accounts, NEW x \in Addr, NEW r \in Account,
         r.code = a[x].code, a[x].nonce <= r.nonce
  PROVE  Keeps(a, [a EXCEPT ![x] = r])
<1>1. \A y \in Addr : a[y].nonce \in Nat /\ [a EXCEPT ![x] = r][y] = IF y = x THEN r ELSE a[y]
  BY DEF Accounts, Account
<1> QED
  BY <1>1 DEF Keeps

LEMMA OperationsKeep ==
  ASSUME NEW a \in Accounts, NEW x \in Addr, NEW v \in Int
  PROVE  /\ Keeps(a, Debit(a, x, v))
         /\ Keeps(a, Credit(a, x, v))
         /\ Keeps(a, IncrementNonce(a, x))
         /\ Keeps(a, [a EXCEPT ![x].deleted = TRUE])
<1> DEFINE less == [a[x] EXCEPT !.balance = @ - v, !.exists = TRUE]
           more == [a[x] EXCEPT !.balance = @ + v, !.exists = TRUE]
           next == [a[x] EXCEPT !.nonce = @ + 1, !.exists = TRUE]
           gone == [a[x] EXCEPT !.deleted = TRUE]
<1>1. a[x] \in Account
  BY DEF Accounts
<1>2. /\ a[x].balance - v \in Int /\ a[x].balance + v \in Int
      /\ a[x].nonce \in Nat /\ a[x].nonce + 1 \in Nat /\ a[x].nonce <= a[x].nonce + 1
  BY <1>1 DEF Account
<1>3. less \in Account /\ less.code = a[x].code /\ less.nonce = a[x].nonce
  BY <1>1, <1>2 DEF Account
<1>4. more \in Account /\ more.code = a[x].code /\ more.nonce = a[x].nonce
  BY <1>1, <1>2 DEF Account
<1>5. next \in Account /\ next.code = a[x].code /\ next.nonce = a[x].nonce + 1
  BY <1>1, <1>2 DEF Account
<1>6. gone \in Account /\ gone.code = a[x].code /\ gone.nonce = a[x].nonce
  BY <1>1, <1>2 DEF Account
<1>7. /\ Debit(a, x, v) = [a EXCEPT ![x] = less]
      /\ Credit(a, x, v) = [a EXCEPT ![x] = more]
      /\ IncrementNonce(a, x) = [a EXCEPT ![x] = next]
      /\ [a EXCEPT ![x].deleted = TRUE] = [a EXCEPT ![x] = gone]
  BY DEF Debit, Credit, IncrementNonce
<1> HIDE DEF less, more, next, gone
<1>8. a[x].nonce <= less.nonce /\ a[x].nonce <= more.nonce /\ a[x].nonce <= next.nonce
      /\ a[x].nonce <= gone.nonce
  BY <1>2, <1>3, <1>4, <1>5, <1>6
<1>9. /\ Keeps(a, [a EXCEPT ![x] = less])
      /\ Keeps(a, [a EXCEPT ![x] = more])
      /\ Keeps(a, [a EXCEPT ![x] = next])
      /\ Keeps(a, [a EXCEPT ![x] = gone])
  BY <1>3, <1>4, <1>5, <1>6, <1>8, OneAccount
<1> QED
  BY <1>7, <1>9

LEMMA TransferKeeps ==
  ASSUME NEW a \in Accounts, NEW x \in Addr, NEW y \in Addr, NEW v \in Int
  PROVE  Keeps(a, Transfer(a, x, y, v))
<1>1. CASE v = 0
  BY <1>1, KeepsReflexive DEF Transfer
<1>2. CASE v # 0
  <2>1. Debit(a, x, v) \in Accounts /\ Credit(Debit(a, x, v), y, v) \in Accounts
    BY AccountOperations
  <2>2. Keeps(a, Debit(a, x, v)) /\ Keeps(Debit(a, x, v), Credit(Debit(a, x, v), y, v))
    BY <2>1, OperationsKeep
  <2> QED
    BY <1>2, <2>1, <2>2, KeepsTransitive DEF Transfer
<1> QED
  BY <1>1, <1>2

\* A creation gives its target a nonce when it has neither nonce nor code.
LEMMA CreateAccountKeeps ==
  ASSUME NEW a \in Accounts, NEW x \in Addr
  PROVE  /\ Keeps(a, CreateAccount(a, x))
         /\ ~a[x].code => CreateAccount(a, x)[x].nonce > 0
<1> DEFINE b == IF a[x].exists THEN a[x].balance ELSE 0
           m == IF a[x].nonce = 0 /\ ~a[x].code THEN 1 ELSE a[x].nonce
           r == [a[x] EXCEPT !.balance = b, !.nonce = m, !.exists = TRUE]
<1>1. a[x] \in Account
  BY DEF Accounts
<1>2. b \in Int /\ m \in Nat /\ a[x].nonce \in Nat /\ a[x].nonce <= m
  BY <1>1 DEF Account
<1>a. ~a[x].code => m > 0
  BY <1>2
<1> HIDE DEF b, m
<1>3. r \in Account /\ r.code = a[x].code /\ r.nonce = m
  BY <1>1, <1>2 DEF Account
<1>4. CreateAccount(a, x) = [a EXCEPT ![x] = r]
  BY DEF CreateAccount, b, m
<1> HIDE DEF r
<1>5. Keeps(a, CreateAccount(a, x))
  BY <1>2, <1>3, <1>4, OneAccount
<1>6. CreateAccount(a, x)[x] = r
  BY <1>4 DEF Accounts
<1> QED
  BY <1>3, <1>5, <1>6, <1>a

LEMMA SetCodeFacts ==
  ASSUME NEW a \in Accounts, NEW x \in Addr, NEW code \in BOOLEAN, NEW y \in Addr, y # x
  PROVE  SetCode(a, x, code)[y] = a[y]
BY DEF SetCode, Accounts

-----------------------------------------------------------------------------
(* Every action has one of the shapes.                                     *)

LEMMA SnapsKept ==
  ASSUME IInv, UNCHANGED snaps
  PROVE  SnapsGrow
BY LenProperties DEF IInv, TypeOK, SnapsGrow, snaps

LEMMA SnapsTakenGrow ==
  ASSUME IInv, NEW a \in Accounts,
         acctSnaps' = Append(acctSnaps, a), slotSnaps' = Append(slotSnaps, slots)
  PROVE  /\ SnapsGrow
         /\ Len(acctSnaps') = Len(acctSnaps) + 1
         /\ acctSnaps'[Len(acctSnaps) + 1] = a /\ slotSnaps'[Len(acctSnaps) + 1] = slots
<1>1. /\ acctSnaps \in Seq(Accounts) /\ slotSnaps \in Seq(Slots) /\ slots \in Slots
      /\ Len(acctSnaps) = Len(slotSnaps) /\ Len(acctSnaps) \in Nat
  BY LenProperties DEF IInv, TypeOK, SnapshotsNested
<1>2. /\ Len(acctSnaps') = Len(acctSnaps) + 1 /\ acctSnaps'[Len(acctSnaps) + 1] = a
      /\ \A k \in 1 .. Len(acctSnaps) : acctSnaps'[k] = acctSnaps[k]
  BY <1>1, AppendProperties
<1>3. /\ slotSnaps'[Len(slotSnaps) + 1] = slots
      /\ \A k \in 1 .. Len(slotSnaps) : slotSnaps'[k] = slotSnaps[k]
  BY <1>1, AppendProperties
<1> QED
  BY <1>1, <1>2, <1>3 DEF SnapsGrow

\* The frame a call or a creation pushes.
LEMMA CallingFrame ==
  ASSUME IInv, Len(frames) > 0, NEW g \in Nat, NEW c \in Nat,
         NEW a \in Addr, NEW st \in BOOLEAN, NEW k \in {"root", "call", "create"},
         frames' = Append(WithGas(frames, g),
                          NewFrame(a, st, k, c, Len(acctSnaps), Len(slotSnaps)))
  PROVE  LET callee == frames'[Len(frames) + 1]
         IN callee.kind = k /\ callee.static = st /\ callee.addr = a /\ callee.logs = <<>>
<1> DEFINE w == WithGas(frames, g)
           f == NewFrame(a, st, k, c, Len(acctSnaps), Len(slotSnaps))
<1>1. w \in Seq(Frame) /\ Len(w) = Len(frames)
  BY WithGasFacts, TopFacts
<1>2. f.kind = k /\ f.static = st /\ f.addr = a /\ f.logs = <<>>
  BY DEF NewFrame
<1> HIDE DEF f, w
<1>3. Append(w, f)[Len(w) + 1] = f
  BY <1>1
<1>4. frames'[Len(frames) + 1] = f
  BY <1>1, <1>3 DEF f, w
<1> QED
  BY <1>2, <1>4

LEMMA StartShape == IInv /\ StartRun => Begins \/ Rests
<1> SUFFICES ASSUME IInv, NEW limit \in GasLimits, NEW value, NEW static \in BOOLEAN,
                    \/ value \in Values /\ Begin(limit, value, static)
                    \/ BeginRefused(limit, value)
             PROVE  Begins \/ Rests
  BY DEF StartRun
<1>1. /\ phase = "idle" /\ frames = <<>> /\ acctSnaps = <<>> /\ slotSnaps = <<>>
      /\ acct \in Accounts /\ slots \in Slots
  BY DEF IInv, BeforeTheRun, TypeOK, Begin, BeginRefused
<1>2. Keeps(acct, acct)
  BY <1>1, KeepsReflexive
<1>3. CASE BeginRefused(limit, value)
  BY <1>1, <1>2, <1>3 DEF Rests, BeginRefused, world, snaps
<1>4. CASE value \in Values /\ Begin(limit, value, static)
  <2>0. value \in Int
    BY <1>4, ProgramAssumption
  <2> DEFINE root(rev) == NewFrame(Entry, static, "root", limit, rev, rev)
  <2>1. \A rev : /\ root(rev).kind = "root" /\ root(rev).static = static
                 /\ root(rev).accRev = rev /\ root(rev).stoRev = rev
    BY DEF NewFrame
  <2>2. CASE MovesValue(value)
    <3>1. /\ acctSnaps' = <<acct>> /\ slotSnaps' = <<slots>>
          /\ acct' = Transfer(acct, Caller, Entry, value) /\ frames' = <<root(0)>>
          /\ static => value = 0
      BY <1>1, <1>4, <2>2 DEF Begin, TakeSnapshots
    <3>2. ~static
      BY <2>2, <3>1 DEF MovesValue
    <3>3. Keeps(acct, acct')
      BY <1>1, <2>0, <3>1, TransferKeeps, AddrAssumption
    <3> HIDE DEF root
    <3>4. Len(frames') = 1 /\ frames'[1] = root(0)
      BY <3>1
    <3>5. Len(acctSnaps') = 1 /\ acctSnaps'[1] = acct /\ slotSnaps'[1] = slots
      BY <3>1
    <3>6. phase' = "running" /\ UNCHANGED <<slots, transient, reported>>
      BY <1>4 DEF Begin
    <3>7. /\ root(0).kind = "root" /\ root(0).static = static
          /\ root(0).accRev = 0 /\ root(0).stoRev = 0
      BY <2>1
    <3> QED
      BY <1>1, <3>2, <3>3, <3>4, <3>5, <3>6, <3>7 DEF Begins
  <2>3. CASE ~MovesValue(value)
    <3>1. /\ UNCHANGED <<acct, snaps>> /\ frames' = <<root(NoRevision)>>
      BY <1>1, <1>4, <2>3 DEF Begin
    <3> HIDE DEF root
    <3>4. Len(frames') = 1 /\ frames'[1] = root(NoRevision)
      BY <3>1
    <3>6. phase' = "running" /\ UNCHANGED <<slots, transient, reported>>
      BY <1>4 DEF Begin
    <3>7. /\ root(NoRevision).kind = "root"
          /\ root(NoRevision).accRev = NoRevision /\ root(NoRevision).stoRev = NoRevision
      BY <2>1
    <3> QED
      BY <1>1, <1>2, <3>1, <3>4, <3>6, <3>7 DEF Begins
  <2> QED
    BY <2>2, <2>3
<1> QED
  BY <1>3, <1>4

LEMMA StepShape == IInv /\ Step => Works
<1> SUFFICES ASSUME IInv, Step PROVE Works
  OBVIOUS
<1>0. \A op \in OpNames : Costs[op] \subseteq Nat
  BY GasAssumption DEF Positive
<1>1. acct \in Accounts /\ Keeps(acct, acct)
  BY KeepsReflexive DEF IInv, TypeOK
<1>2. CASE Plain
  <2>1. Executing /\ Spends
    BY <1>0, <1>2, ChargeSpends DEF Plain, OpNames
  <2>2. SnapsGrow /\ UNCHANGED <<world, transient, phase, reported>>
    BY <1>2, SnapsKept DEF Plain
  <2> QED
    BY <1>1, <2>1, <2>2 DEF Works, world
<1>3. CASE EmitLog
  <2>1. Executing /\ Len(frames) > 0 /\ emitted \in Nat
    BY <1>3 DEF EmitLog, Executing, IInv, TypeOK
  <2>2. PICK cost \in Costs["LOG"] :
          /\ cost <= top.gas
          /\ frames' = [frames EXCEPT ![Len(frames)].gas = @ - cost,
                                      ![Len(frames)].logs = Append(@, emitted + 1)]
    BY <1>3 DEF EmitLog
  <2>a. cost \in Nat /\ emitted + 1 \in Nat
    BY <1>0, <2>1 DEF OpNames
  <2>3. Spends
    BY <2>1, <2>2, <2>a, LoggingSpends
  <2>4. SnapsGrow /\ UNCHANGED <<world, transient, phase, reported>>
    BY <1>3, SnapsKept DEF EmitLog
  <2> QED
    BY <1>1, <2>1, <2>3, <2>4 DEF Works, world
<1>4. ASSUME NEW value \in StoreVals, Sstore(value) PROVE Works
  <2>1. Executing /\ Spends
    BY <1>0, <1>4, ChargeSpends DEF Sstore, OpNames
  <2>2. SnapsGrow /\ UNCHANGED <<acct, phase, reported>> /\ ~top.static
    BY <1>4, SnapsKept DEF Sstore
  <2> QED
    BY <1>1, <2>1, <2>2 DEF Works
<1>5. ASSUME NEW value \in StoreVals, Tstore(value) PROVE Works
  <2>1. Executing /\ Spends
    BY <1>0, <1>5, ChargeSpends DEF Tstore, OpNames
  <2>2. SnapsGrow /\ UNCHANGED <<acct, phase, reported>> /\ ~top.static
    BY <1>5, SnapsKept DEF Tstore, world
  <2> QED
    BY <1>1, <2>1, <2>2 DEF Works
<1>6. ASSUME NEW heir \in Addr, Selfdestruct(heir) PROVE Works
  <2>1. Executing /\ Spends
    BY <1>0, <1>6, ChargeSpends DEF Selfdestruct, OpNames
  <2> DEFINE moved == IF heir = top.addr THEN acct
                      ELSE Transfer(acct, top.addr, heir, acct[top.addr].balance)
  <2>2. top.addr \in Addr /\ acct[top.addr].balance \in Int
    BY <1>1, <2>1, TopFacts DEF Executing, Accounts, Account
  <2>3. moved \in Accounts /\ Keeps(acct, moved)
    BY <1>1, <2>2, TransferType, TransferKeeps
  <2>4. acct' = [moved EXCEPT ![top.addr].deleted = TRUE]
    BY <1>6 DEF Selfdestruct
  <2> HIDE DEF moved
  <2>5. acct' \in Accounts
    <3>1. [moved[top.addr] EXCEPT !.deleted = TRUE] \in Account
      BY <2>2, <2>3 DEF Accounts, Account
    <3> QED
      BY <2>2, <2>3, <2>4, <3>1 DEF Accounts
  <2>6. Keeps(moved, acct')
    BY <2>2, <2>3, <2>4, OperationsKeep
  <2>7. Keeps(acct, acct')
    BY <1>1, <2>3, <2>5, <2>6, KeepsTransitive
  <2>8. SnapsGrow /\ UNCHANGED <<phase, reported>> /\ ~top.static
    BY <1>6, SnapsKept DEF Selfdestruct
  <2> QED
    BY <2>1, <2>7, <2>8 DEF Works
<1> QED
  BY <1>2, <1>3, <1>4, <1>5, <1>6 DEF Step

LEMMA MessageCallShape == IInv /\ MessageCalls => Works \/ Enters
<1> SUFFICES ASSUME IInv, NEW m \in Calls,
                    CallRefused(m) \/ CallLeaf(m) \/ CallLeafFails(m) \/ CallStarts(m)
             PROVE  Works \/ Enters
  BY DEF MessageCalls
<1>1. MayCall(m) /\ Executing /\ Len(frames) > 0
  BY DEF CallRefused, CallLeaf, CallLeafFails, CallStarts, MayCall, Executing
<1>2. /\ GasDuringCall(m) \in Nat /\ ChildGas(m) \in Nat
      /\ GasDuringCall(m) + ChildGas(m) <= top.gas
      /\ Callee(m) \in Addr /\ m.value \in Int /\ ChildStatic(m) \in BOOLEAN
      /\ top.static => m.value = 0
      /\ m.kind = "STATICCALL" => m.value = 0
  BY <1>1, CallFacts
<1>3. top.gas \in Nat /\ top.addr \in Addr /\ top.static \in BOOLEAN
  BY <1>1, TopFacts
<1>4. /\ acct \in Accounts /\ slots \in Slots
      /\ acctSnaps \in Seq(Accounts) /\ slotSnaps \in Seq(Slots)
      /\ Keeps(acct, acct)
  BY KeepsReflexive DEF IInv, TypeOK
<1> DEFINE moved == Transfer(acct, top.addr, Callee(m), m.value)
<1>5. moved \in Accounts /\ Keeps(acct, moved) /\ (m.value = 0 => moved = acct)
  BY <1>2, <1>3, <1>4, TransferType, TransferKeeps DEF Transfer
<1>6. CASE CallRefused(m)
  <2>1. Spends
    BY <1>1, <1>2, <1>6, ChargingSpends DEF CallRefused
  <2>2. SnapsGrow /\ UNCHANGED <<world, transient, phase, reported>>
    BY <1>6, SnapsKept DEF CallRefused
  <2> QED
    BY <1>1, <1>4, <2>1, <2>2 DEF Works, world
<1>7. CASE CallLeaf(m)
  <2>1. PICK cost \in IF m.target \in Precompiles THEN PrecompileCosts ELSE {0} :
          /\ cost <= ChildGas(m)
          /\ frames' = WithGas(frames, GasDuringCall(m) + ChildGas(m) - cost)
    BY <1>7 DEF CallLeaf
  <2>2. cost \in Nat
    BY GasAssumption
  <2>3. /\ GasDuringCall(m) + ChildGas(m) - cost \in Nat
        /\ GasDuringCall(m) + ChildGas(m) - cost <= top.gas
    BY <1>2, <1>3, <2>1, <2>2
  <2>4. Spends
    BY <1>1, <2>1, <2>3, ChargingSpends
  <2>5. SnapsGrow
    BY <1>4, <1>7, SnapsTakenGrow DEF CallLeaf, TakeSnapshots
  <2>6. acct' = moved /\ UNCHANGED <<slots, transient, phase, reported>>
    BY <1>7 DEF CallLeaf
  <2> HIDE DEF moved
  <2> QED
    BY <1>1, <1>2, <1>5, <2>4, <2>5, <2>6 DEF Works, world
<1>8. CASE CallLeafFails(m)
  <2>1. GasDuringCall(m) <= top.gas /\ frames' = WithGas(frames, GasDuringCall(m))
    BY <1>2, <1>3, <1>8 DEF CallLeafFails
  <2>2. Spends
    BY <1>1, <1>2, <2>1, ChargingSpends
  <2>3. acct' = acct /\ slots' = slots /\ acctSnaps' = acctSnaps /\ slotSnaps' = slotSnaps
    BY <1>4, <1>5, <1>8, RevertAtOnce DEF CallLeafFails
  <2>4. SnapsGrow /\ UNCHANGED <<transient, phase, reported>>
    BY <1>8, <2>3, SnapsKept DEF CallLeafFails, snaps
  <2> QED
    BY <1>1, <1>4, <2>2, <2>3, <2>4 DEF Works, world
<1>9. CASE CallStarts(m)
  <2>1. Pushes
    BY <1>1, <1>2, <1>9, CallingPushes DEF CallStarts
  <2>2. /\ SnapsGrow /\ Len(acctSnaps') = Len(acctSnaps) + 1
        /\ acctSnaps'[Len(acctSnaps) + 1] = acct /\ slotSnaps'[Len(acctSnaps) + 1] = slots
    BY <1>4, <1>9, SnapsTakenGrow DEF CallStarts, TakeSnapshots
  <2>3. acct' = moved /\ UNCHANGED <<slots, transient, phase, reported>>
    BY <1>9 DEF CallStarts
  <2>4. /\ frames'[Len(frames) + 1].kind = "call"
        /\ frames'[Len(frames) + 1].static = ChildStatic(m)
    BY <1>1, <1>2, <1>9, CallingFrame DEF CallStarts
  <2>5. /\ top.static => ChildStatic(m)
        /\ ChildStatic(m) => m.value = 0
    BY <1>2 DEF ChildStatic
  <2> HIDE DEF moved
  <2>6. EntersCall(frames'[Len(frames) + 1], acctSnaps'[Len(acctSnaps) + 1])
    BY <1>5, <2>2, <2>3, <2>4, <2>5 DEF EntersCall
  <2> QED
    BY <1>1, <1>4, <1>5, <2>1, <2>2, <2>3, <2>6 DEF Enters
<1> QED
  BY <1>6, <1>7, <1>8, <1>9

LEMMA CreationShape == IInv /\ Creations => Works \/ Enters
<1> SUFFICES ASSUME IInv, Creations PROVE Works \/ Enters
  OBVIOUS
<1>1. acct \in Accounts /\ Keeps(acct, acct) /\ Costs["CREATE"] \subseteq Nat
  BY GasAssumption, KeepsReflexive DEF IInv, TypeOK, OpNames, Positive
<1>2. CASE CreateRejected
  <2>1. PICK cost \in Costs["CREATE"] : MayCreate(cost) /\ frames' = WithGas(frames, top.gas - cost)
    BY <1>2 DEF CreateRejected
  <2>2. Executing /\ Spends
    BY <1>1, <2>1, ChargeSpends DEF MayCreate, Charge
  <2>3. SnapsGrow /\ UNCHANGED <<world, transient, phase, reported>>
    BY <1>2, SnapsKept DEF CreateRejected
  <2> QED
    BY <1>1, <2>2, <2>3 DEF Works, world
<1>3. ASSUME NEW addr \in Creatable, CreateRefused(addr) PROVE Works
  <2>1. PICK cost \in Costs["CREATE"] : MayCreate(cost) /\ frames' = WithGas(frames, top.gas - cost)
    BY <1>3 DEF CreateRefused
  <2>2. Executing /\ Spends /\ ~top.static
    BY <1>1, <2>1, ChargeSpends DEF MayCreate, Charge
  <2>3. SnapsGrow /\ UNCHANGED <<phase, reported>> /\ acct' = IncrementNonce(acct, top.addr)
    BY <1>3, SnapsKept DEF CreateRefused
  <2>a. top.addr \in Addr /\ 0 \in Int
    BY <2>2, TopFacts DEF Executing
  <2>4. Keeps(acct, acct')
    BY <1>1, <2>3, <2>a, OperationsKeep
  <2> QED
    BY <2>2, <2>3, <2>4 DEF Works
<1>4. ASSUME NEW addr \in Creatable, NEW value \in Values, CreateStarts(addr, value)
      PROVE  Enters
  <2>1. PICK cost \in Costs["CREATE"] :
          /\ MayCreate(cost)
          /\ LET left == top.gas - cost
                 child == maxMessageCallGas(left)
             IN frames' = Append(WithGas(frames, left - child),
                                 NewFrame(addr, FALSE, "create", child,
                                          Len(acctSnaps), Len(slotSnaps)))
    BY <1>4 DEF CreateStarts
  <2>2. Executing /\ Len(frames) > 0 /\ ~top.static
    BY <2>1 DEF MayCreate, Executing
  <2>3. top.addr \in Addr /\ top.gas \in Nat /\ addr \in Addr /\ value \in Int
    BY <2>2, TopFacts, AddrAssumption, ProgramAssumption
  <2> DEFINE left == top.gas - cost
             child == maxMessageCallGas(left)
  <2>4. left \in Nat /\ left <= top.gas
    BY <1>1, <2>1, <2>3 DEF MayCreate
  <2>5. child \in Nat /\ child <= left
    BY <2>4, ForwardedGas
  <2>6. frames' = Append(WithGas(frames, left - child),
                         NewFrame(addr, FALSE, "create", child, Len(acctSnaps), Len(slotSnaps)))
    BY <2>1
  <2> HIDE DEF left, child
  <2>7. left - child \in Nat /\ (left - child) + child <= top.gas
    BY <2>3, <2>4, <2>5
  <2>8. Pushes
    BY <2>2, <2>3, <2>5, <2>6, <2>7, CallingPushes
  <2>a. LET callee == frames'[Len(frames) + 1]
        IN callee.kind = "create" /\ ~callee.static /\ callee.addr = addr
    BY <2>2, <2>3, <2>5, <2>6, <2>7, CallingFrame
  <2> DEFINE spent == IncrementNonce(acct, top.addr)
             made == CreateAccount(spent, addr)
  <2>9. spent \in Accounts /\ Keeps(acct, spent)
    BY <1>1, <2>3, AccountOperations, OperationsKeep
  <2>10. acctSnaps' = Append(acctSnaps, spent) /\ slotSnaps' = Append(slotSnaps, slots)
    BY <1>4 DEF CreateStarts
  <2>11. /\ acct' = Transfer(made, top.addr, addr, value)
         /\ UNCHANGED <<slots, transient, phase, reported>>
         /\ addr # top.addr /\ ~HasCodeOrNonce(addr)
    BY <1>4 DEF CreateStarts
  <2>12. acct[addr].nonce = 0 /\ ~acct[addr].code
    BY <1>1, <2>3, <2>11 DEF HasCodeOrNonce, Accounts, Account
  <2> HIDE DEF spent
  <2>13. /\ SnapsGrow /\ Len(acctSnaps') = Len(acctSnaps) + 1
         /\ acctSnaps'[Len(acctSnaps) + 1] = spent /\ slotSnaps'[Len(acctSnaps) + 1] = slots
    BY <2>9, <2>10, SnapsTakenGrow
  <2>14. ~spent[addr].code
    BY <2>3, <2>9, <2>12 DEF Keeps
  <2>15. made \in Accounts /\ Keeps(spent, made) /\ made[addr].nonce > 0
    BY <2>3, <2>9, <2>14, CreateAccountKeeps, AccountOperations
  <2> HIDE DEF made
  <2>16. acct' \in Accounts /\ Keeps(made, acct')
    BY <2>3, <2>11, <2>15, TransferType, TransferKeeps
  <2>17. Keeps(spent, acct')
    BY <2>9, <2>15, <2>16, KeepsTransitive
  <2>18. acct'[addr].nonce > 0
    <3>1. made[addr].nonce \in Nat /\ acct'[addr].nonce \in Nat
      BY <2>3, <2>15, <2>16 DEF Accounts, Account
    <3> QED
      BY <2>3, <2>15, <2>16, <3>1 DEF Keeps
  <2>19. EntersCreation(frames'[Len(frames) + 1])
    BY <2>2, <2>12, <2>18, <2>a DEF EntersCreation
  <2> QED
    BY <2>2, <2>8, <2>9, <2>11, <2>13, <2>17, <2>19 DEF Enters
<1> QED
  BY <1>2, <1>3, <1>4 DEF Creations

\* Resuming the caller, and paying the deposit, keep the shape of the callers.
LEMMA PopsLeave ==
  ASSUME Pops
  PROVE  /\ Len(frames') = Len(frames) - 1
         /\ \A i \in 1 .. Len(frames) - 1 : SameShape(frames'[i], frames[i])
BY DEF Pops

LEMMA EndFrameShape == IInv /\ EndFrame => Leaves
<1> SUFFICES ASSUME IInv, EndFrame PROVE Leaves
  OBVIOUS
<1>1. InnerFrame /\ Executing /\ Len(frames) > 1 /\ UNCHANGED <<transient, phase>>
  BY DEF EndFrame, CallReturns, CreateReturns, FrameFails, InnerFrame
<1>a. phase' = "running"
  BY <1>1 DEF Executing
<1>2. Pops
  BY EndFramePops
<1>4. CASE CallReturns
  BY <1>1, <1>a, <1>2, <1>4, PopsLeave DEF CallReturns, Leaves
<1>5. CASE CreateReturns
  <2>1. LeavesCreation
    BY <1>5 DEF CreateReturns, LeavesCreation
  <2> QED
    BY <1>1, <1>a, <1>2, <2>1, PopsLeave DEF Leaves
<1>6. CASE FrameFails
  BY <1>1, <1>a, <1>2, <1>6, PopsLeave DEF FrameFails, Leaves
<1> QED
  BY <1>4, <1>5, <1>6 DEF EndFrame

LEMMA EndRunShape == IInv /\ EndRun => Leaves \/ Rests
<1> SUFFICES ASSUME IInv, EndRun PROVE Leaves \/ Rests
  OBVIOUS
<1>1. CASE RunReturns \/ RunFails
  <2>1. /\ Executing /\ Len(frames) = 1 /\ frames' = <<>> /\ transient' = transient
        /\ \/ reported' = "success" /\ UNCHANGED <<world, snaps>>
           \/ reported' = "failure" /\ RevertSnapshots(top)
    BY <1>1 DEF RunReturns, RunFails, OuterFrame
  <2>2. Len(frames') = Len(frames) - 1 /\ 1 .. Len(frames) - 1 = {}
    BY <2>1
  <2> QED
    BY <2>1, <2>2 DEF Leaves
<1>2. CASE Settle
  <2>1. PICK refund \in 0 .. ChargedGas \div 5 :
          LET burn == (ChargedGas - refund) * BaseFee
          IN /\ acct' = IF burn = 0 THEN acct ELSE Debit(acct, Coinbase, burn)
             /\ burned' = burn
    BY <1>2 DEF Settle
  <2> DEFINE burn == (ChargedGas - refund) * BaseFee
  <2>4. acct' = (IF burn = 0 THEN acct ELSE Debit(acct, Coinbase, burn)) /\ burned' = burn
    BY <2>1
  <2> HIDE DEF burn
  <2>b. burn \in Nat
    <3>1. IInv'
      BY <1>2, EndRunKeeps
    <3> QED
      BY <2>4, <3>1 DEF IInv, TypeOK
  <2>5. acct \in Accounts
    BY DEF IInv, TypeOK
  <2>6. Keeps(acct, acct')
    <3>1. Coinbase \in Addr /\ burn \in Int
      BY <2>b, AddrAssumption
    <3>2. Keeps(acct, acct) /\ Keeps(acct, Debit(acct, Coinbase, burn))
      BY <2>5, <3>1, KeepsReflexive, OperationsKeep
    <3> QED
      BY <2>4, <3>2
  <2>7. /\ phase = "settling" /\ phase' = "done" /\ reported' = reported
        /\ UNCHANGED <<frames, slots, snaps, transient>>
    BY <1>2 DEF Settle
  <2> QED
    BY <2>6, <2>7 DEF Rests
<1> QED
  BY <1>1, <1>2 DEF EndRun

LEMMA StepShapes ==
  IInv /\ [Next]_vars => \/ Begins \/ Works \/ Enters \/ Leaves \/ Rests \/ UNCHANGED vars
BY StartShape, StepShape, MessageCallShape, CreationShape, EndFrameShape, EndRunShape DEF Next

-----------------------------------------------------------------------------
(* Calls are atomic: the refinement of AtomicCalls.                        *)

LEMMA RunningFrames ==
  ASSUME IInv, IInv'
  PROVE  /\ frames \in Seq(Frame) /\ frames' \in Seq(Frame)
         /\ Len(frames) \in Nat /\ Len(frames') \in Nat
         /\ acctSnaps \in Seq(Accounts) /\ slotSnaps \in Seq(Slots)
         /\ acctSnaps' \in Seq(Accounts) /\ slotSnaps' \in Seq(Slots)
         /\ Len(slotSnaps) = Len(acctSnaps) /\ Len(acctSnaps) \in Nat
         /\ Len(slotSnaps') = Len(acctSnaps') /\ Len(acctSnaps') \in Nat
         /\ acct \in Accounts /\ slots \in Slots /\ acct' \in Accounts /\ slots' \in Slots
BY LenProperties DEF IInv, TypeOK, SnapshotsNested

\* The revision of a frame names a snapshot, below those of the frames above it.
LEMMA Revisions ==
  ASSUME IInv, NEW i \in 1 .. Len(frames)
  PROVE  /\ frames[i].accRev = frames[i].stoRev
         /\ HasRevision(frames[i]) => frames[i].accRev + 1 \in 1 .. Len(acctSnaps)
         /\ i > 1 => HasRevision(frames[i])
         /\ \A j \in 1 .. i - 1 : frames[j].accRev < frames[i].accRev
<1>1. /\ frames \in Seq(Frame) /\ Len(acctSnaps) \in Nat
  BY LenProperties DEF IInv, TypeOK
<1>2. frames[i].accRev \in Nat \cup {NoRevision}
  BY <1>1, FrameTypes
<1>3. frames[i].accRev < Len(acctSnaps)
  BY DEF IInv, SnapshotsNested
<1>4. HasRevision(frames[i]) => frames[i].accRev + 1 \in 1 .. Len(acctSnaps)
  BY <1>1, <1>2, <1>3 DEF HasRevision
<1> QED
  BY <1>4 DEF IInv, SnapshotsNested

\* What a failing frame finds.
LEMMA Reverted ==
  ASSUME IInv, IInv', Len(frames) > 0, RevertSnapshots(top)
  PROVE  /\ HasRevision(top) =>
              /\ acct' = acctSnaps[top.accRev + 1] /\ slots' = slotSnaps[top.accRev + 1]
              /\ Len(acctSnaps') = top.accRev /\ Len(acctSnaps') < Len(acctSnaps)
         /\ ~HasRevision(top) => UNCHANGED <<acct, slots, snaps>>
         /\ \A k \in 1 .. Len(acctSnaps') :
              acctSnaps'[k] = acctSnaps[k] /\ slotSnaps'[k] = slotSnaps[k]
<1>1. /\ acctSnaps \in Seq(Accounts) /\ slotSnaps \in Seq(Slots)
      /\ acct \in Accounts /\ slots \in Slots
      /\ Len(slotSnaps) = Len(acctSnaps) /\ Len(acctSnaps) \in Nat
      /\ Len(slotSnaps') = Len(acctSnaps')
  BY RunningFrames
<1>2. /\ Len(frames) \in 1 .. Len(frames)
      /\ top.accRev \in Nat \cup {NoRevision}
  BY TopFacts
<1>3. /\ top.stoRev = top.accRev
      /\ HasRevision(top) => top.accRev + 1 \in 1 .. Len(acctSnaps)
  BY <1>2, Revisions DEF top
<1>4. /\ acct' = Restored(acctSnaps, acct, top.accRev)
      /\ slots' = Restored(slotSnaps, slots, top.accRev)
      /\ acctSnaps' = Truncated(acctSnaps, top.accRev)
      /\ slotSnaps' = Truncated(slotSnaps, top.accRev)
  BY <1>3 DEF RevertSnapshots
<1>5. top.accRev \in 0 .. Len(acctSnaps) - 1 <=> HasRevision(top)
  BY <1>1, <1>2, <1>3, SMTT(30) DEF HasRevision, NoRevision
<1>6. /\ Len(acctSnaps') = IF top.accRev \in 0 .. Len(acctSnaps) - 1
                           THEN top.accRev ELSE Len(acctSnaps)
      /\ \A k \in 1 .. Len(acctSnaps') : acctSnaps'[k] = acctSnaps[k]
  BY <1>1, <1>2, <1>4, RevertTypes
<1>7. \A k \in 1 .. Len(slotSnaps') : slotSnaps'[k] = slotSnaps[k]
  <2>a. slotSnaps \in Seq(Slots) /\ slots \in Slots /\ top.accRev \in Nat \cup {NoRevision}
    BY <1>1, <1>2
  <2>1. \A rev \in Nat \cup {NoRevision} :
          \A k \in 1 .. Len(Truncated(slotSnaps, rev)) : Truncated(slotSnaps, rev)[k] = slotSnaps[k]
    <3> SUFFICES ASSUME NEW rev \in Nat \cup {NoRevision}
                 PROVE  \A k \in 1 .. Len(Truncated(slotSnaps, rev)) :
                          Truncated(slotSnaps, rev)[k] = slotSnaps[k]
      OBVIOUS
    <3> QED
      BY <2>a, RevertTypes
  <2> QED
    BY <1>4, <2>a, <2>1
<1>8. ASSUME HasRevision(top)
      PROVE  /\ acct' = acctSnaps[top.accRev + 1] /\ slots' = slotSnaps[top.accRev + 1]
             /\ Len(acctSnaps') = top.accRev /\ Len(acctSnaps') < Len(acctSnaps)
  <2>1. top.accRev \in 0 .. Len(acctSnaps) - 1
    BY <1>5, <1>8
  <2>2. acct' = acctSnaps[top.accRev + 1] /\ slots' = slotSnaps[top.accRev + 1]
    BY <1>1, <1>4, <2>1 DEF Restored
  <2>3. Len(acctSnaps') = top.accRev /\ Len(acctSnaps') < Len(acctSnaps)
    BY <1>1, <1>6, <2>1
  <2> QED
    BY <2>2, <2>3
<1>9. ASSUME ~HasRevision(top)
      PROVE  UNCHANGED <<acct, slots, snaps>>
  BY <1>1, <1>4, <1>5, <1>9 DEF Restored, Truncated, snaps
<1> QED
  BY <1>1, <1>6, <1>7, <1>8, <1>9

\* The world put aside for one active call.
Aside(i) ==
  [world |-> IF HasRevision(frames[i])
             THEN <<acctSnaps[frames[i].accRev + 1], slotSnaps[frames[i].stoRev + 1]>>
             ELSE <<>>,
   creates |-> frames[i].kind = "create"]

AsideTypes == [world: (Accounts \X Slots) \cup {<<>>}, creates: BOOLEAN]

LEMMA AsideType ==
  ASSUME IInv, NEW i \in 1 .. Len(frames)
  PROVE  /\ Aside(i) \in AsideTypes
         /\ Aside(i).creates <=> frames[i].kind = "create"
         /\ HasRevision(frames[i]) =>
              /\ Aside(i).world = <<acctSnaps[frames[i].accRev + 1], slotSnaps[frames[i].accRev + 1]>>
              /\ Aside(i).world \in Accounts \X Slots
         /\ ~HasRevision(frames[i]) => Aside(i).world = <<>>
<1>1. acctSnaps \in Seq(Accounts) /\ slotSnaps \in Seq(Slots) /\ Len(acctSnaps) = Len(slotSnaps)
  BY DEF IInv, TypeOK, SnapshotsNested
<1>2. /\ frames[i].accRev = frames[i].stoRev
      /\ HasRevision(frames[i]) => frames[i].accRev + 1 \in 1 .. Len(acctSnaps)
  BY Revisions
<1>3. HasRevision(frames[i]) =>
        /\ acctSnaps[frames[i].accRev + 1] \in Accounts
        /\ slotSnaps[frames[i].accRev + 1] \in Slots
  BY <1>1, <1>2, ElementOfSeq
<1> QED
  BY <1>2, <1>3 DEF Aside, AsideTypes

SavedShape ==
  /\ Saved \in Seq(AsideTypes)
  /\ Len(Saved) = Len(frames)
  /\ \A i \in 1 .. Len(frames) : Saved[i] = Aside(i) /\ Aside(i) \in AsideTypes

LEMMA SavedFacts == IInv => SavedShape
<1> SUFFICES ASSUME IInv PROVE SavedShape
  OBVIOUS
<1>1. Len(frames) \in Nat
  BY LenProperties DEF IInv, TypeOK
<1>2. Saved = [i \in 1 .. Len(frames) |-> Aside(i)]
  BY DEF Saved, Aside
<1>3. \A i \in 1 .. Len(frames) : Aside(i) \in AsideTypes
  BY AsideType
<1> QED
  BY <1>1, <1>2, <1>3 DEF SavedShape

LEMMA SavedFactsNext == IInv' => SavedShape'
BY SavedFacts, PTL

LEMMA PrefixIs ==
  ASSUME NEW S, NEW s \in Seq(S), NEW t \in Seq(S), Len(t) <= Len(s),
         \A i \in 1 .. Len(t) : s[i] = t[i]
  PROVE  SubSeq(s, 1, Len(t)) = t
<1> DEFINE u == SubSeq(s, 1, Len(t))
<1>1. Len(t) \in Nat /\ \A i \in 1 .. Len(t) : s[i] \in S
  BY LenProperties, ElementOfSeq
<1>2. /\ u \in Seq(S) /\ Len(u) = IF 1 <= Len(t) THEN Len(t) - 1 + 1 ELSE 0
      /\ \A i \in 1 .. Len(t) - 1 + 1 : u[i] = s[1 + i - 1]
  BY <1>1, SubSeqProperties
<1> HIDE DEF u
<1>3. Len(u) = Len(t) /\ \A i \in 1 .. Len(t) : u[i] = t[i]
  BY <1>1, <1>2
<1> QED
  BY <1>2, <1>3, SeqEqual DEF u

\* A frame that stays, with its snapshot, keeps what it put aside.
LEMMA AsideKept ==
  ASSUME IInv, IInv', NEW i \in 1 .. Len(frames), i \in 1 .. Len(frames'),
         SameShape(frames'[i], frames[i]),
         \A k \in 1 .. Len(acctSnaps) : k <= frames[i].accRev + 1 =>
           acctSnaps'[k] = acctSnaps[k] /\ slotSnaps'[k] = slotSnaps[k]
  PROVE  Aside(i)' = Aside(i)
<1>1. /\ frames[i].accRev = frames[i].stoRev
      /\ HasRevision(frames[i]) => frames[i].accRev + 1 \in 1 .. Len(acctSnaps)
  BY Revisions
<1>2. /\ frames'[i].accRev = frames[i].accRev /\ frames'[i].stoRev = frames[i].stoRev
      /\ frames'[i].kind = frames[i].kind
  BY DEF SameShape
<1>3. frames[i].accRev \in Int
  BY FrameTypes, RunningFrames
<1>4. HasRevision(frames[i]) =>
        /\ acctSnaps'[frames[i].accRev + 1] = acctSnaps[frames[i].accRev + 1]
        /\ slotSnaps'[frames[i].stoRev + 1] = slotSnaps[frames[i].stoRev + 1]
  BY <1>1, <1>3
<1>5. HasRevision(frames'[i]) = HasRevision(frames[i])
  BY <1>2 DEF HasRevision
<1> QED
  BY <1>2, <1>4, <1>5 DEF Aside

LEMMA RefinesInit == Init => Atomic!Init
<1> SUFFICES ASSUME Init PROVE Atomic!Init
  OBVIOUS
<1>1. acct \in Accounts /\ slots \in Slots /\ frames = <<>> /\ reported = "none"
  BY InitEstablishes DEF Init, IInv, TypeOK
<1>2. Saved = <<>>
  BY <1>1 DEF Saved
<1> QED
  BY <1>1, <1>2 DEF Atomic!Init, world

LEMMA RefinesWork ==
  ASSUME IInv, IInv', Works
  PROVE  Atomic!Work
<1>1. /\ Len(frames) > 0 /\ Len(frames') = Len(frames) /\ reported' = reported
      /\ \A i \in 1 .. Len(frames) : SameShape(frames'[i], frames[i])
      /\ \A k \in 1 .. Len(acctSnaps) : acctSnaps'[k] = acctSnaps[k] /\ slotSnaps'[k] = slotSnaps[k]
  BY DEF Works, Executing, Spends, SnapsGrow
<1>2. \A i \in 1 .. Len(frames) : Aside(i)' = Aside(i)
  BY <1>1, AsideKept
<1>3. SavedShape /\ SavedShape'
  BY SavedFacts, SavedFactsNext
<1>4. Saved' = Saved
  BY <1>1, <1>2, <1>3, SeqEqual DEF SavedShape
<1>5. world' \in Accounts \X Slots
  BY RunningFrames DEF world
<1> QED
  BY <1>1, <1>3, <1>4, <1>5 DEF Atomic!Work, Atomic!Active, SavedShape

LEMMA RefinesEnter ==
  ASSUME IInv, IInv', Enters
  PROVE  Atomic!Enter
<1>0. PICK n \in Nat, m \in Nat : n = Len(frames) /\ m = Len(acctSnaps)
  BY RunningFrames
<1>1. /\ n \in Nat /\ Len(frames') = n + 1 /\ reported' = reported /\ m \in Nat
      /\ \A i \in 1 .. n : SameShape(frames'[i], frames[i])
      /\ \A k \in 1 .. m : acctSnaps'[k] = acctSnaps[k] /\ slotSnaps'[k] = slotSnaps[k]
  BY <1>0 DEF Enters, Pushes, SnapsGrow
<1>2. \A i \in 1 .. n : Aside(i)' = Aside(i)
  BY <1>0, <1>1, AsideKept
<1>3. SavedShape /\ SavedShape'
  BY SavedFacts, SavedFactsNext
<1>4. SubSeq(Saved', 1, Len(Saved)) = Saved /\ Len(Saved') = Len(Saved) + 1
  BY <1>0, <1>1, <1>2, <1>3, PrefixIs DEF SavedShape
<1>5. /\ frames'[n + 1].accRev = m /\ frames'[n + 1].stoRev = m
      /\ slotSnaps'[m + 1] = slots
      /\ frames'[n + 1].kind = "create" \/ acctSnaps'[m + 1] = acct
  <2>1. /\ frames'[n + 1].accRev = m /\ frames'[n + 1].stoRev = Len(slotSnaps)
    BY <1>0 DEF Enters, Pushes
  <2>2. Len(slotSnaps) = m
    BY <1>0, RunningFrames
  <2> QED
    BY <1>0, <2>1, <2>2 DEF Enters, EntersCall, EntersCreation
<1>6. /\ Saved'[Len(Saved')].world = <<acctSnaps'[m + 1], slotSnaps'[m + 1]>>
      /\ Saved'[Len(Saved')].creates \/ Saved'[Len(Saved')].world = world
  <2>1. Saved'[Len(Saved')] = Aside(n + 1)'
    BY <1>1, <1>3 DEF SavedShape
  <2>2. HasRevision(frames'[n + 1])
    BY <1>1, <1>5 DEF HasRevision, NoRevision
  <2>3. /\ Aside(n + 1)'.world = <<acctSnaps'[m + 1], slotSnaps'[m + 1]>>
        /\ Aside(n + 1)'.creates = (frames'[n + 1].kind = "create")
    BY <1>5, <2>2 DEF Aside
  <2> QED
    BY <1>5, <2>1, <2>3 DEF world
<1>7. <<acctSnaps'[m + 1], slotSnaps'[m + 1]>> \in Accounts \X Slots
  <2>1. /\ acctSnaps' \in Seq(Accounts) /\ slotSnaps' \in Seq(Slots)
        /\ Len(acctSnaps') = m + 1 /\ Len(slotSnaps') = m + 1
    BY <1>0, RunningFrames DEF Enters
  <2> QED
    BY <1>1, <2>1, ElementOfSeq
<1>8. world' \in Accounts \X Slots
  BY RunningFrames DEF world
<1> QED
  BY <1>1, <1>4, <1>6, <1>7, <1>8 DEF Atomic!Enter

\* A frame that ends takes no snapshot of a frame below it.
LEMMA BelowKept ==
  ASSUME IInv, IInv', Leaves, NEW i \in 1 .. Len(frames) - 1,
         NEW k \in 1 .. Len(acctSnaps), k <= frames[i].accRev + 1
  PROVE  acctSnaps'[k] = acctSnaps[k] /\ slotSnaps'[k] = slotSnaps[k]
<1>1. /\ Len(frames) \in Nat /\ Len(frames) > 0 /\ Len(frames) \in 1 .. Len(frames)
      /\ i \in 1 .. Len(frames) /\ i \in 1 .. Len(frames) - 1 /\ top = frames[Len(frames)]
  BY RunningFrames DEF Leaves, Executing, top
<1>2. CASE UNCHANGED snaps
  BY <1>2 DEF snaps
<1>3. CASE RevertSnapshots(top)
  <2>1. frames[i].accRev < top.accRev /\ frames[i].accRev \in Int /\ top.accRev \in Int
    BY <1>1, Revisions, FrameTypes, RunningFrames
  <2>2. k <= top.accRev /\ k <= Len(acctSnaps)
    BY <2>1
  <2>3. HasRevision(top) => Len(acctSnaps') = top.accRev
    BY <1>1, <1>3, Reverted
  <2>4. ~HasRevision(top) => Len(acctSnaps') = Len(acctSnaps)
    BY <1>1, <1>3, Reverted DEF snaps
  <2>5. k \in 1 .. Len(acctSnaps')
    BY <2>2, <2>3, <2>4, RunningFrames
  <2> QED
    BY <1>1, <1>3, <2>5, Reverted
<1> QED
  BY <1>2, <1>3 DEF Leaves, LeavesCreation, snaps

LEMMA RefinesLeave ==
  ASSUME IInv, IInv', Leaves
  PROVE  Atomic!Commit \/ Atomic!RefuseCode \/ Atomic!Rollback
<1> DEFINE n == Len(frames)
<1>1. /\ n \in Nat /\ n > 0 /\ Len(frames') = n - 1 /\ n \in 1 .. n /\ top = frames[n]
      /\ \A i \in 1 .. n - 1 : SameShape(frames'[i], frames[i])
  BY RunningFrames DEF Leaves, Executing, top
<1>2. SavedShape /\ SavedShape'
  BY SavedFacts, SavedFactsNext
<1>3. /\ Atomic!Active /\ Atomic!Last = Aside(n)
      /\ Atomic!Last.creates <=> top.kind = "create"
  BY <1>1, <1>2, AsideType DEF SavedShape, Atomic!Active, Atomic!Last
<1>4. \A i \in 1 .. n - 1 : Aside(i)' = Aside(i)
  <2> SUFFICES ASSUME NEW i \in 1 .. n - 1 PROVE Aside(i)' = Aside(i)
    OBVIOUS
  <2>1. i \in 1 .. n /\ i \in 1 .. Len(frames') /\ SameShape(frames'[i], frames[i])
    BY <1>1
  <2> QED
    BY <2>1, BelowKept, AsideKept
<1>5. Saved' = Atomic!Front
  <2>1. Len(Saved') = Len(Saved) - 1 /\ Len(Saved) = n
    BY <1>1, <1>2 DEF SavedShape
  <2>2. \A i \in 1 .. Len(Saved') : Saved[i] = Saved'[i]
    BY <1>1, <1>2, <1>4, SMTT(30) DEF SavedShape
  <2>3. SubSeq(Saved, 1, Len(Saved')) = Saved'
    BY <1>1, <1>2, <2>1, <2>2, PrefixIs DEF SavedShape
  <2> QED
    BY <2>1, <2>3 DEF Atomic!Front
<1>6. world' \in Accounts \X Slots
  BY RunningFrames DEF world
<1>7. CASE reported' = "success" /\ UNCHANGED <<world, snaps>>
  BY <1>3, <1>5, <1>6, <1>7 DEF Atomic!Commit
<1>8. CASE LeavesCreation
  BY <1>3, <1>5, <1>6, <1>8 DEF LeavesCreation, Atomic!Commit, Atomic!RefuseCode
<1>9. CASE reported' = "failure" /\ RevertSnapshots(top)
  <2>1. world' = IF Atomic!Last.world = <<>> THEN world ELSE Atomic!Last.world
    <3>1. CASE HasRevision(top)
      <4>1. /\ Aside(n).world = <<acctSnaps[top.accRev + 1], slotSnaps[top.accRev + 1]>>
        BY <1>1, <3>1, AsideType
      <4>2. world' = <<acctSnaps[top.accRev + 1], slotSnaps[top.accRev + 1]>>
        BY <1>1, <1>9, <3>1, Reverted DEF world
      <4>3. \A a, b : <<a, b>> # <<>>
        OBVIOUS
      <4> QED
        BY <1>3, <4>1, <4>2, <4>3
    <3>2. CASE ~HasRevision(top)
      <4>1. Aside(n).world = <<>>
        BY <1>1, <3>2, AsideType
      <4>2. world' = world
        BY <1>1, <1>9, <3>2, Reverted DEF world
      <4> QED
        BY <1>3, <4>1, <4>2
    <3> QED
      BY <3>1, <3>2
  <2> QED
    BY <1>3, <1>5, <1>9, <2>1 DEF Atomic!Rollback
<1> QED
  BY <1>7, <1>8, <1>9 DEF Leaves

LEMMA RefinesBegin ==
  ASSUME IInv, IInv', Begins
  PROVE  Atomic!Enter \/ Atomic!EnterUnsaved
<1>1. /\ frames = <<>> /\ Len(frames) = 0 /\ Len(frames') = 1 /\ reported' = reported
      /\ Len(acctSnaps) = 0 /\ slots' = slots
  BY DEF Begins
<1>2. SavedShape /\ SavedShape'
  BY SavedFacts, SavedFactsNext
<1>3. /\ Saved = <<>> /\ Len(Saved') = 1 /\ Saved'[1] = Aside(1)' /\ Saved' = <<Saved'[1]>>
      /\ Saved' \in Seq(AsideTypes)
  <2>1. Saved \in Seq(AsideTypes) /\ Len(Saved) = 0
    BY <1>1, <1>2 DEF SavedShape
  <2>2. Saved' \in Seq(AsideTypes) /\ Len(Saved') = 1 /\ Saved'[1] = Aside(1)'
    BY <1>1, <1>2 DEF SavedShape
  <2> QED
    BY <2>1, <2>2, EmptySeq
<1>4. world' \in Accounts \X Slots /\ world \in Accounts \X Slots
  BY RunningFrames DEF world
<1>5. frames'[1].kind = "root" /\ frames'[1].accRev = frames'[1].stoRev
  BY DEF Begins
<1>6. CASE /\ frames'[1].accRev = 0 /\ Len(acctSnaps') = 1
           /\ acctSnaps'[1] = acct /\ slotSnaps'[1] = slots
  <2>1. HasRevision(frames'[1])
    BY <1>6 DEF HasRevision, NoRevision
  <2>2. Aside(1)'.world = world
    BY <1>5, <1>6, <2>1 DEF Aside, world
  <2>3. SubSeq(Saved', 1, 0) = <<>>
    BY <1>3
  <2> QED
    BY <1>1, <1>3, <1>4, <2>2, <2>3 DEF Atomic!Enter
<1>7. CASE frames'[1].accRev = NoRevision /\ UNCHANGED <<acct, snaps>>
  <2>1. ~HasRevision(frames'[1])
    BY <1>7 DEF HasRevision
  <2>2. Aside(1)' = [world |-> <<>>, creates |-> FALSE]
    BY <1>5, <2>1 DEF Aside
  <2>3. world' = world
    BY <1>1, <1>7 DEF world
  <2> QED
    BY <1>1, <1>3, <2>2, <2>3 DEF Atomic!EnterUnsaved, Atomic!Active
<1> QED
  BY <1>6, <1>7 DEF Begins

-----------------------------------------------------------------------------
(* The invariant the refinement and the properties below need beyond       *)
(* IInv: what the frames and the snapshots say of each other.              *)

\* Frames exist only while the run does.
OnlyRunning == phase # "running" => frames = <<>>

\* The world frame i goes back to is the world as it is now.
SavesThisWorld(i) ==
  HasRevision(frames[i]) =>
    /\ acctSnaps[frames[i].accRev + 1] = acct
    /\ slotSnaps[frames[i].accRev + 1] = slots

\* Frames called from a static one are static and create nothing, and what
\* they go back to is the world as it is.
StaticFrames ==
  \A i \in 1 .. Len(frames) :
    /\ frames[i].static => SavesThisWorld(i) /\ frames[i].kind # "create"
    /\ \A j \in 1 .. i : frames[j].static => frames[i].static

Fresh(accts, a) == accts[a].nonce > 0 /\ ~accts[a].code

\* An address under creation has a nonce and no code, also in every world a
\* frame above its creation goes back to, and no two creations share it.
CreationsFresh ==
  \A i \in 1 .. Len(frames) : frames[i].kind = "create" =>
    /\ Fresh(acct, frames[i].addr)
    /\ \A j \in i + 1 .. Len(frames) :
         /\ Fresh(acctSnaps[frames[j].accRev + 1], frames[i].addr)
         /\ frames[j].kind = "create" => frames[j].addr # frames[i].addr

FramesSound == IInv /\ OnlyRunning /\ StaticFrames /\ CreationsFresh

LEMMA FreshKept ==
  ASSUME NEW a \in Accounts, NEW b \in Accounts, Keeps(a, b), NEW x \in Addr, Fresh(a, x)
  PROVE  Fresh(b, x)
<1>1. a[x].nonce \in Nat /\ b[x].nonce \in Nat
  BY DEF Accounts, Account
<1> QED
  BY <1>1 DEF Fresh, Keeps

LEMMA InitSound == Init => FramesSound
<1> SUFFICES ASSUME Init PROVE FramesSound
  OBVIOUS
<1>1. frames = <<>> /\ Len(frames) = 0
  BY DEF Init
<1> QED
  BY <1>1, InitEstablishes DEF FramesSound, OnlyRunning, StaticFrames, CreationsFresh

\* What is the same of a frame that stays, and of the snapshots below it.
LEMMA StayingFrame ==
  ASSUME IInv, IInv', NEW i \in 1 .. Len(frames), SameShape(frames'[i], frames[i])
  PROVE  /\ frames[i].accRev \in Int /\ frames'[i].accRev = frames[i].accRev
         /\ frames'[i].kind = frames[i].kind /\ frames'[i].static = frames[i].static
         /\ frames'[i].addr = frames[i].addr /\ frames[i].addr \in Addr
         /\ frames[i].static \in BOOLEAN
         /\ HasRevision(frames'[i]) = HasRevision(frames[i])
         /\ HasRevision(frames[i]) => frames[i].accRev + 1 \in 1 .. Len(acctSnaps)
         /\ i > 1 => HasRevision(frames[i])
<1>1. frames[i].accRev \in Int /\ frames[i].addr \in Addr /\ frames[i].static \in BOOLEAN
  BY RunningFrames, FrameTypes
<1> QED
  BY <1>1, Revisions DEF SameShape, HasRevision

LEMMA WorksSound == FramesSound /\ IInv' /\ Works => FramesSound'
<1> SUFFICES ASSUME FramesSound, IInv', Works PROVE FramesSound'
  OBVIOUS
<1> USE DEF FramesSound
<1>1. /\ Len(frames) \in Nat /\ Len(frames) > 0 /\ Len(frames') = Len(frames)
      /\ \A i \in 1 .. Len(frames) : SameShape(frames'[i], frames[i])
      /\ \A k \in 1 .. Len(acctSnaps) : acctSnaps'[k] = acctSnaps[k] /\ slotSnaps'[k] = slotSnaps[k]
      /\ top = frames[Len(frames)] /\ phase' = "running"
      /\ acct \in Accounts /\ acct' \in Accounts
  BY RunningFrames DEF Works, Executing, Spends, SnapsGrow, top
<1>2. OnlyRunning'
  BY <1>1 DEF OnlyRunning
<1>3. StaticFrames'
  <2> SUFFICES ASSUME NEW i \in 1 .. Len(frames')
               PROVE  /\ frames'[i].static => SavesThisWorld(i)' /\ frames'[i].kind # "create"
                      /\ \A j \in 1 .. i : frames'[j].static => frames'[i].static
    BY DEF StaticFrames
  <2>1. /\ i \in 1 .. Len(frames) /\ i <= Len(frames)
        /\ \A j \in 1 .. i : j \in 1 .. Len(frames)
    BY <1>1
  <2>2. \A j \in 1 .. i : frames'[j].static => frames'[i].static
    BY <1>1, <2>1, StayingFrame DEF StaticFrames
  <2>3. ASSUME frames'[i].static
        PROVE  SavesThisWorld(i)' /\ frames'[i].kind # "create"
    <3>1. frames[i].static
      BY <1>1, <2>1, <2>3, StayingFrame
    <3>2. top.static
      BY <1>1, <2>1, <3>1 DEF StaticFrames
    <3>3. acct' = acct /\ slots' = slots
      BY <3>2 DEF Works, world
    <3>4. SavesThisWorld(i) /\ frames[i].kind # "create"
      BY <2>1, <3>1 DEF StaticFrames
    <3> QED
      BY <1>1, <2>1, <3>3, <3>4, StayingFrame DEF SavesThisWorld
  <2> QED
    BY <2>2, <2>3
<1>4. CreationsFresh'
  <2> SUFFICES ASSUME NEW i \in 1 .. Len(frames'), frames'[i].kind = "create"
               PROVE  /\ Fresh(acct', frames'[i].addr)
                      /\ \A j \in i + 1 .. Len(frames') :
                           /\ Fresh(acctSnaps'[frames'[j].accRev + 1], frames'[i].addr)
                           /\ frames'[j].kind = "create" => frames'[j].addr # frames'[i].addr
    BY DEF CreationsFresh
  <2>1. /\ i \in 1 .. Len(frames) /\ frames[i].kind = "create"
        /\ frames'[i].addr = frames[i].addr /\ frames[i].addr \in Addr
    BY <1>1, StayingFrame
  <2>2. Fresh(acct', frames'[i].addr)
    BY <1>1, <2>1, FreshKept DEF CreationsFresh, Works
  <2>3. ASSUME NEW j \in i + 1 .. Len(frames')
        PROVE  /\ Fresh(acctSnaps'[frames'[j].accRev + 1], frames'[i].addr)
               /\ frames'[j].kind = "create" => frames'[j].addr # frames'[i].addr
    <3>1. j \in 1 .. Len(frames) /\ j > 1 /\ j \in i + 1 .. Len(frames)
      BY <1>1, <2>1
    <3>2. /\ frames[j].accRev + 1 \in 1 .. Len(acctSnaps)
          /\ frames'[j].accRev = frames[j].accRev /\ frames'[j].kind = frames[j].kind
          /\ frames'[j].addr = frames[j].addr
      BY <1>1, <3>1, StayingFrame
    <3> QED
      BY <1>1, <2>1, <3>1, <3>2 DEF CreationsFresh
  <2> QED
    BY <2>2, <2>3
<1> QED
  BY <1>2, <1>3, <1>4

LEMMA EntersSound == FramesSound /\ IInv' /\ Enters => FramesSound'
<1> SUFFICES ASSUME FramesSound, IInv', Enters PROVE FramesSound'
  OBVIOUS
<1> USE DEF FramesSound
<1>0. PICK n \in Nat, m \in Nat : n = Len(frames) /\ m = Len(acctSnaps)
  BY RunningFrames
<1>1. /\ n > 0 /\ Len(frames') = n + 1 /\ n \in 1 .. n /\ top = frames[n]
      /\ \A i \in 1 .. n : SameShape(frames'[i], frames[i])
      /\ \A k \in 1 .. m : acctSnaps'[k] = acctSnaps[k] /\ slotSnaps'[k] = slotSnaps[k]
      /\ phase' = "running" /\ slots' = slots
      /\ acct \in Accounts /\ acct' \in Accounts /\ acctSnaps'[m + 1] \in Accounts
  <2>1. acctSnaps' \in Seq(Accounts) /\ Len(acctSnaps') = m + 1
    BY <1>0, RunningFrames DEF Enters
  <2>2. acctSnaps'[m + 1] \in Accounts
    BY <1>0, <2>1, ElementOfSeq
  <2> QED
    BY <1>0, <2>2, RunningFrames DEF Enters, Executing, Pushes, SnapsGrow, top
<1> DEFINE callee == frames'[n + 1]
           before == acctSnaps'[m + 1]
<1>2. /\ callee.accRev = m /\ slotSnaps'[m + 1] = slots
      /\ Keeps(acct, before) /\ Keeps(before, acct')
      /\ EntersCall(callee, before) \/ EntersCreation(callee)
  BY <1>0 DEF Enters, Pushes
<1>3. \A i \in 1 .. n : /\ frames[i].accRev \in Int /\ frames'[i].accRev = frames[i].accRev
                        /\ frames'[i].kind = frames[i].kind /\ frames'[i].static = frames[i].static
                        /\ frames'[i].addr = frames[i].addr /\ frames[i].addr \in Addr
                        /\ frames[i].static \in BOOLEAN
                        /\ HasRevision(frames'[i]) = HasRevision(frames[i])
                        /\ HasRevision(frames[i]) => frames[i].accRev + 1 \in 1 .. m
                        /\ i > 1 => HasRevision(frames[i])
  BY <1>0, <1>1, StayingFrame
<1>a. callee.addr \in Addr /\ callee.static \in BOOLEAN
  <2>1. frames' \in Seq(Frame) /\ n + 1 \in 1 .. Len(frames')
    BY <1>1, RunningFrames
  <2> QED
    BY <2>1, FrameTypes
<1>4. OnlyRunning'
  BY <1>1 DEF OnlyRunning
<1>5. StaticFrames'
  <2> SUFFICES ASSUME NEW i \in 1 .. n + 1
               PROVE  /\ frames'[i].static => SavesThisWorld(i)' /\ frames'[i].kind # "create"
                      /\ \A j \in 1 .. i : frames'[j].static => frames'[i].static
    BY <1>1 DEF StaticFrames
  <2>1. CASE i = n + 1
    <3>1. ASSUME NEW j \in 1 .. n, frames[j].static PROVE top.static
      BY <1>0, <1>1, <3>1 DEF StaticFrames
    <3>2. top.static => callee.static
      BY <1>2 DEF EntersCall, EntersCreation
    <3>3. \A j \in 1 .. i : frames'[j].static => frames'[i].static
      BY <1>3, <2>1, <3>1, <3>2
    <3>4. ASSUME callee.static
          PROVE  before = acct' /\ callee.kind # "create"
      BY <1>2, <3>4 DEF EntersCall, EntersCreation
    <3>5. callee.static => SavesThisWorld(i)'
      BY <1>1, <1>2, <2>1, <3>4 DEF SavesThisWorld
    <3> QED
      BY <2>1, <3>3, <3>4, <3>5
  <2>2. CASE i \in 1 .. n
    <3>1. \A j \in 1 .. i : j \in 1 .. n
      BY <2>2
    <3>2. \A j \in 1 .. i : frames'[j].static => frames'[i].static
      BY <1>0, <1>3, <2>2, <3>1 DEF StaticFrames
    <3>3. ASSUME frames'[i].static
          PROVE  SavesThisWorld(i)' /\ frames'[i].kind # "create"
      <4>1. frames[i].static /\ top.static
        BY <1>0, <1>1, <1>3, <2>2, <3>3 DEF StaticFrames
      <4>2. acct' = acct
        BY <1>2, <4>1 DEF EntersCall, EntersCreation
      <4>3. SavesThisWorld(i) /\ frames[i].kind # "create"
        BY <1>0, <2>2, <4>1 DEF StaticFrames
      <4> QED
        BY <1>1, <1>3, <2>2, <4>2, <4>3 DEF SavesThisWorld
    <3> QED
      BY <3>2, <3>3
  <2> QED
    BY <2>1, <2>2
<1>6. CreationsFresh'
  <2>0. Keeps(acct, acct')
    BY <1>1, <1>2, KeepsTransitive
  <2> SUFFICES ASSUME NEW i \in 1 .. n + 1, frames'[i].kind = "create"
               PROVE  /\ Fresh(acct', frames'[i].addr)
                      /\ \A j \in i + 1 .. n + 1 :
                           /\ Fresh(acctSnaps'[frames'[j].accRev + 1], frames'[i].addr)
                           /\ frames'[j].kind = "create" => frames'[j].addr # frames'[i].addr
    BY <1>1 DEF CreationsFresh
  <2>1. CASE i = n + 1
    <3>1. EntersCreation(callee)
      BY <1>2, <2>1 DEF EntersCall
    <3>2. Fresh(acct', callee.addr)
      BY <1>a, <2>0, <3>1 DEF EntersCreation, Fresh, Keeps
    <3> HIDE DEF callee, before
    <3>3. i + 1 .. n + 1 = {}
      BY <2>1
    <3> QED
      BY <2>1, <3>2, <3>3 DEF callee
  <2>2. CASE i \in 1 .. n
    <3>1. frames[i].kind = "create" /\ frames'[i].addr = frames[i].addr /\ frames[i].addr \in Addr
      BY <1>3, <2>2
    <3>2. Fresh(acct, frames[i].addr)
      BY <1>0, <2>2, <3>1 DEF CreationsFresh
    <3>3. Fresh(acct', frames[i].addr) /\ Fresh(before, frames[i].addr)
      BY <1>1, <1>2, <2>0, <3>1, <3>2, FreshKept
    <3>4. ASSUME NEW j \in i + 1 .. n + 1
          PROVE  /\ Fresh(acctSnaps'[frames'[j].accRev + 1], frames[i].addr)
                 /\ frames'[j].kind = "create" => frames'[j].addr # frames[i].addr
      <4>1. CASE j = n + 1
        <5>1. Fresh(acctSnaps'[frames'[j].accRev + 1], frames[i].addr)
          BY <1>2, <3>3, <4>1
        <5>2. callee.kind = "create" => callee.addr # frames[i].addr
          <6>1. callee.kind = "create" => acct[callee.addr].nonce = 0
            BY <1>2 DEF EntersCall, EntersCreation
          <6> QED
            BY <3>2, <6>1 DEF Fresh
        <5> QED
          BY <4>1, <5>1, <5>2
      <4>2. CASE j \in i + 1 .. n
        <5>1. j \in 1 .. n /\ j > 1
          BY <2>2, <4>2
        <5>2. frames[j].accRev + 1 \in 1 .. m
          BY <1>3, <5>1
        <5> QED
          BY <1>0, <1>1, <1>3, <2>2, <3>1, <4>2, <5>1, <5>2 DEF CreationsFresh
      <4> QED
        BY <4>1, <4>2
    <3> QED
      BY <3>1, <3>3, <3>4
  <2> QED
    BY <2>1, <2>2
<1> QED
  BY <1>4, <1>5, <1>6

LEMMA LeavesSound == FramesSound /\ IInv' /\ Leaves => FramesSound'
<1> SUFFICES ASSUME FramesSound, IInv', Leaves PROVE FramesSound'
  OBVIOUS
<1> USE DEF FramesSound
<1>0. PICK n \in Nat : n = Len(frames)
  BY RunningFrames
<1>1. /\ n > 0 /\ Len(frames') = n - 1 /\ n \in 1 .. n /\ top = frames[n]
      /\ \A i \in 1 .. n - 1 : i \in 1 .. n /\ SameShape(frames'[i], frames[i])
      /\ frames' \in Seq(Frame) /\ acct \in Accounts /\ slots \in Slots
      /\ top.addr \in Addr
  <2>1. Len(frames) > 0
    BY DEF Leaves, Executing
  <2>2. /\ Len(frames) \in Nat /\ frames' \in Seq(Frame) /\ acct \in Accounts /\ slots \in Slots
    BY RunningFrames
  <2>3. top.addr \in Addr
    BY <2>1, TopFacts
  <2>4. /\ Len(frames') = Len(frames) - 1
        /\ \A i \in 1 .. Len(frames) - 1 : SameShape(frames'[i], frames[i])
    BY DEF Leaves
  <2> QED
    BY <1>0, <2>1, <2>2, <2>3, <2>4 DEF top
<1>2. \A i \in 1 .. n - 1 :
        /\ frames[i].accRev \in Int /\ frames'[i].accRev = frames[i].accRev
        /\ frames'[i].kind = frames[i].kind /\ frames'[i].static = frames[i].static
        /\ frames'[i].addr = frames[i].addr /\ frames[i].addr \in Addr
        /\ HasRevision(frames'[i]) = HasRevision(frames[i])
        /\ HasRevision(frames[i]) => frames[i].accRev + 1 \in 1 .. Len(acctSnaps)
        /\ i > 1 => HasRevision(frames[i])
  BY <1>0, <1>1, StayingFrame
<1>3. \A i \in 1 .. n - 1 : HasRevision(frames[i]) =>
        /\ acctSnaps'[frames[i].accRev + 1] = acctSnaps[frames[i].accRev + 1]
        /\ slotSnaps'[frames[i].accRev + 1] = slotSnaps[frames[i].accRev + 1]
  <2> SUFFICES ASSUME NEW i \in 1 .. n - 1, HasRevision(frames[i])
               PROVE  /\ acctSnaps'[frames[i].accRev + 1] = acctSnaps[frames[i].accRev + 1]
                      /\ slotSnaps'[frames[i].accRev + 1] = slotSnaps[frames[i].accRev + 1]
    OBVIOUS
  <2>1. frames[i].accRev + 1 \in 1 .. Len(acctSnaps) /\ frames[i].accRev + 1 <= frames[i].accRev + 1
    BY <1>2
  <2> QED
    BY <1>0, <2>1, BelowKept
<1>a. n > 1 => HasRevision(top)
  BY <1>0, <1>1, Revisions
<1>4. OnlyRunning'
  <2>1. CASE phase' = "running"
    BY <2>1 DEF OnlyRunning
  <2>2. CASE Len(frames) = 1
    BY <1>0, <1>1, <2>2, EmptySeq DEF OnlyRunning
  <2> QED
    BY <2>1, <2>2 DEF Leaves
<1>5. StaticFrames'
  <2> SUFFICES ASSUME NEW i \in 1 .. n - 1
               PROVE  /\ frames'[i].static => SavesThisWorld(i)' /\ frames'[i].kind # "create"
                      /\ \A j \in 1 .. i : frames'[j].static => frames'[i].static
    BY <1>1 DEF StaticFrames
  <2>1. \A j \in 1 .. i : j \in 1 .. n - 1 /\ frames'[j].static => frames'[i].static
    BY <1>0, <1>1, <1>2 DEF StaticFrames
  <2>2. ASSUME frames'[i].static
        PROVE  SavesThisWorld(i)' /\ frames'[i].kind # "create"
    <3>1. frames[i].static /\ top.static
      BY <1>0, <1>1, <1>2, <2>2 DEF StaticFrames
    <3>2. SavesThisWorld(n) /\ top.kind # "create"
      BY <1>0, <1>1, <3>1 DEF StaticFrames
    <3>3. acct' = acct /\ slots' = slots
      <4>1. CASE UNCHANGED <<world, snaps>>
        BY <4>1 DEF world
      <4>2. CASE LeavesCreation
        BY <3>2, <4>2 DEF LeavesCreation
      <4>3. CASE RevertSnapshots(top)
        BY <1>0, <1>1, <3>2, <4>3, Reverted DEF SavesThisWorld
      <4> QED
        BY <4>1, <4>2, <4>3 DEF Leaves
    <3>4. SavesThisWorld(i) /\ frames[i].kind # "create"
      BY <1>0, <1>1, <3>1 DEF StaticFrames
    <3> QED
      BY <1>2, <1>3, <3>3, <3>4 DEF SavesThisWorld
  <2>3. \A j \in 1 .. i : frames'[j].static => frames'[i].static
    <3>1. \A j \in 1 .. i : j \in 1 .. n - 1
      OBVIOUS
    <3> QED
      BY <2>1, <3>1
  <2> QED
    BY <2>2, <2>3
<1>6. CreationsFresh'
  <2> SUFFICES ASSUME NEW i \in 1 .. n - 1, frames'[i].kind = "create"
               PROVE  /\ Fresh(acct', frames'[i].addr)
                      /\ \A j \in i + 1 .. n - 1 :
                           /\ Fresh(acctSnaps'[frames'[j].accRev + 1], frames'[i].addr)
                           /\ frames'[j].kind = "create" => frames'[j].addr # frames'[i].addr
    BY <1>1 DEF CreationsFresh
  <2>1. /\ frames[i].kind = "create" /\ frames'[i].addr = frames[i].addr
        /\ frames[i].addr \in Addr /\ n \in i + 1 .. n /\ n > 1 /\ i \in 1 .. n
    BY <1>1, <1>2
  <2>2. /\ Fresh(acct, frames[i].addr)
        /\ Fresh(acctSnaps[top.accRev + 1], frames[i].addr)
        /\ top.kind = "create" => top.addr # frames[i].addr
    BY <1>0, <1>1, <2>1 DEF CreationsFresh
  <2>3. Fresh(acct', frames[i].addr)
    <3>1. CASE UNCHANGED <<world, snaps>>
      BY <2>2, <3>1 DEF world
    <3>2. CASE LeavesCreation
      <4>1. PICK code \in BOOLEAN : acct' = SetCode(acct, top.addr, code)
        BY <3>2 DEF LeavesCreation
      <4>2. top.addr # frames[i].addr
        BY <2>2, <3>2 DEF LeavesCreation
      <4>3. acct'[frames[i].addr] = acct[frames[i].addr]
        BY <1>1, <2>1, <4>1, <4>2, SetCodeFacts
      <4> QED
        BY <2>2, <4>3 DEF Fresh
    <3>3. CASE RevertSnapshots(top)
      BY <1>0, <1>1, <1>a, <2>1, <2>2, <3>3, Reverted
    <3> QED
      BY <3>1, <3>2, <3>3 DEF Leaves
  <2>4. ASSUME NEW j \in i + 1 .. n - 1
        PROVE  /\ Fresh(acctSnaps'[frames'[j].accRev + 1], frames[i].addr)
               /\ frames'[j].kind = "create" => frames'[j].addr # frames[i].addr
    <3>1. j \in 1 .. n - 1 /\ j > 1 /\ j \in i + 1 .. n
      BY <1>1
    <3>2. HasRevision(frames[j])
      BY <1>2, <3>1
    <3>3. /\ frames'[j].accRev = frames[j].accRev
          /\ acctSnaps'[frames[j].accRev + 1] = acctSnaps[frames[j].accRev + 1]
          /\ frames'[j].kind = frames[j].kind /\ frames'[j].addr = frames[j].addr
      BY <1>2, <1>3, <3>1, <3>2
    <3>4. /\ Fresh(acctSnaps[frames[j].accRev + 1], frames[i].addr)
          /\ frames[j].kind = "create" => frames[j].addr # frames[i].addr
      BY <1>0, <2>1, <3>1 DEF CreationsFresh
    <3> QED
      BY <3>3, <3>4
  <2> QED
    BY <2>1, <2>3, <2>4
<1> QED
  BY <1>4, <1>5, <1>6

LEMMA BeginsSound == FramesSound /\ IInv' /\ Begins => FramesSound'
<1> SUFFICES ASSUME IInv', Begins PROVE FramesSound'
  BY DEF FramesSound
<1>1. /\ Len(frames') = 1 /\ frames'[1].kind = "root" /\ phase' = "running"
      /\ frames'[1].static => ~HasRevision(frames'[1])
  BY DEF Begins, HasRevision
<1>2. StaticFrames'
  BY <1>1 DEF StaticFrames, SavesThisWorld
<1> QED
  BY <1>1, <1>2 DEF FramesSound, OnlyRunning, CreationsFresh

LEMMA RestsSound == FramesSound /\ IInv' /\ (Rests \/ UNCHANGED vars) => FramesSound'
<1> SUFFICES ASSUME FramesSound, IInv', Rests \/ UNCHANGED vars PROVE FramesSound'
  OBVIOUS
<1>1. CASE Rests
  <2>1. frames' = <<>> /\ Len(frames') = 0
    BY <1>1 DEF Rests, FramesSound, OnlyRunning
  <2> QED
    BY <2>1 DEF FramesSound, OnlyRunning, StaticFrames, CreationsFresh
<1>2. CASE UNCHANGED vars
  BY <1>2 DEF vars, FramesSound, OnlyRunning, StaticFrames, CreationsFresh, SavesThisWorld, HasRevision
<1> QED
  BY <1>1, <1>2

LEMMA SoundStep == FramesSound /\ [Next]_vars => FramesSound' /\ IInv'
<1>1. FramesSound /\ [Next]_vars => IInv /\ IInv'
  BY StartKeeps, StepKeeps, MessageCallsKeep, CreationsKeep, EndFrameKeeps, EndRunKeeps,
     StutterKeeps DEF Next, FramesSound
<1> QED
  BY <1>1, StepShapes, WorksSound, EntersSound, LeavesSound, BeginsSound, RestsSound

\* Frames, snapshots and creations agree with each other in every reachable state.
THEOREM SoundInvariance == Spec => []FramesSound
BY InitSound, SoundStep, PTL DEF Spec

-----------------------------------------------------------------------------

\* The engine's calls implement AtomicCalls: a call reported as failed leaves the world it
\* started from, whatever nested calls failed or succeeded in it (ExecuteMessage).
THEOREM CallsStayAtomic == Spec => CallsAreAtomic
<1>1. FramesSound /\ [Next]_vars => [Atomic!Next]_(Atomic!vars)
  <2> SUFFICES ASSUME FramesSound, [Next]_vars PROVE [Atomic!Next]_(Atomic!vars)
    OBVIOUS
  <2>1. IInv /\ IInv' /\ OnlyRunning
    BY SoundStep DEF FramesSound
  <2>2. CASE Begins
    BY <2>1, <2>2, RefinesBegin DEF Atomic!Next
  <2>3. CASE Works
    BY <2>1, <2>3, RefinesWork DEF Atomic!Next
  <2>4. CASE Enters
    BY <2>1, <2>4, RefinesEnter DEF Atomic!Next
  <2>5. CASE Leaves
    BY <2>1, <2>5, RefinesLeave DEF Atomic!Next
  <2>6. CASE Rests
    <3>1. frames = <<>> /\ frames' = frames
      BY <2>1, <2>6 DEF Rests, OnlyRunning
    <3>2. Saved' = Saved /\ Len(Saved) = 0
      BY <3>1 DEF Saved
    <3>3. ~Atomic!Active
      BY <3>2 DEF Atomic!Active
    <3>4. CASE reported' = reported
      <4>1. world' \in Accounts \X Slots
        BY <2>1, RunningFrames DEF world
      <4> QED
        BY <3>2, <3>3, <3>4, <4>1 DEF Atomic!Next, Atomic!Settle
    <3>5. CASE reported' = "failure" /\ acct' = acct
      BY <2>6, <3>2, <3>3, <3>5 DEF Rests, world, Atomic!Next, Atomic!Refuse
    <3> QED
      BY <2>6, <3>4, <3>5 DEF Rests
  <2>7. CASE UNCHANGED vars
    BY <2>7 DEF vars, Atomic!vars, world, Saved, HasRevision
  <2> QED
    BY <2>1, <2>2, <2>3, <2>4, <2>5, <2>6, <2>7, StepShapes
<1> QED
  BY <1>1, RefinesInit, SoundInvariance, PTL DEF Spec, CallsAreAtomic, Atomic!Spec

\* A static call changes nothing, through whatever frames it runs (IsStatic, opCallCommon).
THEOREM StaticCallsArePure == Spec => StaticPurity
<1>1. FramesSound /\ [Next]_vars =>
        [(\E i \in 1 .. Len(frames) : frames[i].static) => UNCHANGED <<world, transient>>]_vars
  <2> SUFFICES ASSUME FramesSound, [Next]_vars, NEW i \in 1 .. Len(frames), frames[i].static
               PROVE  UNCHANGED <<world, transient>>
    OBVIOUS
  <2>1. IInv /\ IInv'
    BY SoundStep DEF FramesSound
  <2>2. /\ Len(frames) \in 1 .. Len(frames) /\ Len(frames) > 0 /\ i \in 1 .. Len(frames)
        /\ top = frames[Len(frames)]
    BY <2>1, RunningFrames DEF top
  <2>3. top.static /\ SavesThisWorld(Len(frames)) /\ top.kind # "create"
    BY <2>2 DEF FramesSound, StaticFrames
  <2>4. CASE Begins
    BY <2>2, <2>4 DEF Begins
  <2>5. CASE Works
    BY <2>3, <2>5 DEF Works
  <2>6. CASE Enters
    BY <2>3, <2>6 DEF Enters, EntersCall, EntersCreation, world
  <2>7. CASE Leaves
    <3>1. CASE UNCHANGED <<world, snaps>>
      BY <2>7, <3>1 DEF Leaves
    <3>2. CASE LeavesCreation
      BY <2>3, <3>2 DEF LeavesCreation
    <3>3. CASE RevertSnapshots(top)
      <4>1. acct' = acct /\ slots' = slots
        BY <2>1, <2>2, <2>3, <3>3, Reverted DEF SavesThisWorld
      <4> QED
        BY <2>7, <4>1 DEF Leaves, world
    <3> QED
      BY <2>7, <3>1, <3>2, <3>3 DEF Leaves
  <2>8. CASE Rests
    BY <2>2, <2>8 DEF Rests, FramesSound, OnlyRunning
  <2>9. CASE UNCHANGED vars
    BY <2>9 DEF vars, world
  <2> QED
    BY <2>1, <2>4, <2>5, <2>6, <2>7, <2>8, <2>9, StepShapes
<1> QED
  BY <1>1, SoundInvariance, PTL DEF Spec, StaticPurity

\* Only a rollback takes deployed code away: no creation, nested and re-entered as it may
\* be, clears code that exists (opCreate, deployContractCode).
THEOREM DeployedCodeStays == Spec => CodeIsPermanent
<1>1. FramesSound /\ [Next]_vars =>
        [\A a \in Addr : acct[a].code /\ ~acct'[a].code => Len(acctSnaps') < Len(acctSnaps)]_vars
  <2> SUFFICES ASSUME FramesSound, [Next]_vars, NEW a \in Addr, acct[a].code, ~acct'[a].code
               PROVE  Len(acctSnaps') < Len(acctSnaps)
    OBVIOUS
  <2>1. IInv /\ IInv'
    BY SoundStep DEF FramesSound
  <2>2. acct \in Accounts /\ acct' \in Accounts
    BY <2>1, RunningFrames
  <2>3. ~Keeps(acct, acct')
    BY DEF Keeps
  <2>4. ~Begins /\ ~Works /\ ~Rests
    BY <2>3 DEF Begins, Works, Rests
  <2>5. ASSUME Enters PROVE FALSE
    <3> DEFINE before == acctSnaps'[Len(acctSnaps) + 1]
    <3>1. Keeps(acct, before) /\ Keeps(before, acct')
      BY <2>5 DEF Enters
    <3>2. before[a].code = acct[a].code /\ acct'[a].code = before[a].code
      BY <3>1 DEF Keeps
    <3> QED
      BY <3>2
  <2>6. CASE Leaves
    <3>0. Len(frames) > 0 /\ Len(frames) \in 1 .. Len(frames) /\ top = frames[Len(frames)]
          /\ top.addr \in Addr
      BY <2>1, <2>6, RunningFrames, TopFacts DEF Leaves, Executing, top
    <3>1. CASE UNCHANGED <<world, snaps>>
      BY <3>1 DEF world
    <3>2. CASE LeavesCreation
      <4>1. ~acct[top.addr].code
        BY <3>0, <3>2 DEF FramesSound, CreationsFresh, Fresh, LeavesCreation
      <4>2. PICK code \in BOOLEAN : acct' = SetCode(acct, top.addr, code)
        BY <3>2 DEF LeavesCreation
      <4>3. acct'[a] = acct[a]
        BY <2>2, <3>0, <4>1, <4>2, SetCodeFacts
      <4> QED
        BY <4>1, <4>3
    <3>3. CASE RevertSnapshots(top)
      <4>1. HasRevision(top)
        BY <2>1, <3>0, <3>3, Reverted
      <4> QED
        BY <2>1, <3>0, <3>3, <4>1, Reverted
    <3> QED
      BY <2>6, <3>1, <3>2, <3>3 DEF Leaves
  <2>7. CASE UNCHANGED vars
    BY <2>7 DEF vars
  <2> QED
    BY <2>1, <2>4, <2>5, <2>6, <2>7, StepShapes
<1> QED
  BY <1>1, SoundInvariance, PTL DEF Spec, CodeIsPermanent

-----------------------------------------------------------------------------
(* Logs.  The logs of the active frames are a sequence of sequences; these *)
(* are the four things a step does to it.                                  *)

\* l[i] are the logs of the i-th active frame, d those of the frames that
\* failed, e the number emitted.
LogsWell(l, d, e) ==
  /\ \A i \in 1 .. Len(l) :
       /\ Increasing(l[i]) /\ Range(l[i]) \subseteq 1 .. e /\ Range(l[i]) \cap d = {}
       /\ \A j \in i + 1 .. Len(l) : \A x \in Range(l[i]), y \in Range(l[j]) : x < y
  /\ d \subseteq 1 .. e
  /\ \A x \in 1 .. e : x \in d \/ \E i \in 1 .. Len(l) : x \in Range(l[i])

LogLists == Seq(Seq(Nat))

LEMMA RangeIs ==
  ASSUME NEW s \in Seq(Nat)
  PROVE  /\ \A x : x \in Range(s) <=> \E k \in 1 .. Len(s) : s[k] = x
         /\ Range(s) \subseteq Nat
BY DEF Range

LEMMA AppendLog ==
  ASSUME NEW s \in Seq(Nat), NEW e \in Nat, Increasing(s), Range(s) \subseteq 1 .. e
  PROVE  /\ Append(s, e + 1) \in Seq(Nat)
         /\ Increasing(Append(s, e + 1))
         /\ \A x : x \in Range(Append(s, e + 1)) <=> x \in Range(s) \/ x = e + 1
<1> DEFINE t == Append(s, e + 1)
<1>1. /\ t \in Seq(Nat) /\ Len(t) = Len(s) + 1 /\ t[Len(s) + 1] = e + 1 /\ Len(s) \in Nat
      /\ \A k \in 1 .. Len(s) : t[k] = s[k] /\ s[k] \in Nat
  OBVIOUS
<1> HIDE DEF t
<1>2. \A k \in 1 .. Len(s) : s[k] < e + 1
  <2>1. \A k \in 1 .. Len(s) : s[k] \in Range(s)
    BY RangeIs
  <2> QED
    BY <2>1
<1>3. Increasing(t)
  <2> SUFFICES ASSUME NEW i \in 1 .. Len(s) + 1, NEW j \in 1 .. Len(s) + 1, i < j
               PROVE  t[i] < t[j]
    BY <1>1 DEF Increasing
  <2>1. i \in 1 .. Len(s)
    BY <1>1
  <2>2. CASE j = Len(s) + 1
    BY <1>1, <1>2, <2>1, <2>2
  <2>3. CASE j \in 1 .. Len(s)
    BY <1>1, <2>1, <2>3 DEF Increasing
  <2>4. j = Len(s) + 1 \/ j \in 1 .. Len(s)
    <3>1. Len(s) \in Nat
      BY <1>1
    <3> QED
      BY <3>1
  <2> QED
    BY <2>2, <2>3, <2>4
<1>4. \A x : x \in Range(t) <=> x \in Range(s) \/ x = e + 1
  <2>1. \A x : x \in Range(t) <=> \E k \in 1 .. Len(s) + 1 : t[k] = x
    BY <1>1, RangeIs
  <2>2. \A k \in 1 .. Len(s) + 1 : k = Len(s) + 1 \/ k \in 1 .. Len(s)
    BY <1>1
  <2>3. Len(s) + 1 \in 1 .. Len(s) + 1 /\ \A k \in 1 .. Len(s) : k \in 1 .. Len(s) + 1
    BY <1>1
  <2> QED
    BY <1>1, <2>1, <2>2, <2>3, RangeIs, SMTT(30)
<1> QED
  BY <1>1, <1>3, <1>4 DEF t

LEMMA MergedLogs ==
  ASSUME NEW s \in Seq(Nat), NEW t \in Seq(Nat), Increasing(s), Increasing(t),
         \A x \in Range(s), y \in Range(t) : x < y
  PROVE  /\ s \o t \in Seq(Nat)
         /\ Increasing(s \o t)
         /\ \A x : x \in Range(s \o t) <=> x \in Range(s) \/ x \in Range(t)
<1> DEFINE u == s \o t
<1>0. PICK m \in Nat, n \in Nat : m = Len(s) /\ n = Len(t)
  BY LenProperties
<1>1. /\ u \in Seq(Nat) /\ Len(u) = m + n /\ m \in Nat /\ n \in Nat
      /\ \A k \in 1 .. m + n : u[k] = IF k <= m THEN s[k] ELSE t[k - m]
  BY <1>0, ConcatProperties
<1>2. /\ \A k \in 1 .. m : s[k] \in Range(s) /\ s[k] \in Nat
      /\ \A k \in 1 .. n : t[k] \in Range(t) /\ t[k] \in Nat
  BY <1>0, RangeIs
<1> HIDE DEF u
<1>3. Increasing(u)
  <2> SUFFICES ASSUME NEW i \in 1 .. m + n, NEW j \in 1 .. m + n, i < j
               PROVE  u[i] < u[j]
    BY <1>1 DEF Increasing
  <2>1. CASE j <= m
    <3>1. i \in 1 .. m /\ j \in 1 .. m
      BY <1>1, <2>1
    <3>2. s[i] < s[j]
      BY <1>0, <3>1 DEF Increasing
    <3> QED
      BY <1>1, <2>1, <3>1, <3>2
  <2>2. CASE i <= m /\ j > m
    <3>1. i \in 1 .. m /\ j - m \in 1 .. n
      BY <1>1, <2>2
    <3>2. s[i] < t[j - m]
      BY <1>2, <3>1
    <3>3. u[i] = s[i] /\ u[j] = t[j - m]
      BY <1>1, <2>2, <3>1
    <3> QED
      BY <3>2, <3>3
  <2>3. CASE i > m
    <3>1. i - m \in 1 .. n /\ j - m \in 1 .. n /\ i - m < j - m /\ ~(i <= m) /\ ~(j <= m)
      BY <1>1, <2>3
    <3>2. t[i - m] < t[j - m]
      BY <1>0, <3>1 DEF Increasing
    <3> QED
      BY <1>1, <3>1, <3>2
  <2> QED
    BY <1>1, <2>1, <2>2, <2>3
<1>4. \A x : x \in Range(u) <=> x \in Range(s) \/ x \in Range(t)
  <2>1. \A x : x \in Range(u) <=> \E k \in 1 .. m + n : u[k] = x
    BY <1>1, RangeIs
  <2>2. \A k \in 1 .. m + n : k \in 1 .. m \/ (k > m /\ k - m \in 1 .. n)
    BY <1>1
  <2>3. \A k \in 1 .. m : k \in 1 .. m + n /\ u[k] = s[k]
    BY <1>1
  <2>4. \A k \in 1 .. n : k + m \in 1 .. m + n /\ u[k + m] = t[k]
    <3> SUFFICES ASSUME NEW k \in 1 .. n PROVE k + m \in 1 .. m + n /\ u[k + m] = t[k]
      OBVIOUS
    <3>1. k + m \in 1 .. m + n /\ ~(k + m <= m) /\ (k + m) - m = k
      BY <1>1
    <3> QED
      BY <1>1, <3>1
  <2>5. ASSUME NEW x, x \in Range(u) PROVE x \in Range(s) \/ x \in Range(t)
    <3>1. PICK k \in 1 .. m + n : u[k] = x
      BY <2>1, <2>5
    <3>2. CASE k \in 1 .. m
      BY <1>2, <2>3, <3>1, <3>2
    <3>3. CASE k > m /\ k - m \in 1 .. n
      <4>1. ~(k <= m) /\ u[k] = t[k - m]
        BY <1>1, <3>3
      <4> QED
        BY <1>2, <3>1, <3>3, <4>1
    <3> QED
      BY <2>2, <3>2, <3>3
  <2>6. ASSUME NEW x, x \in Range(s) PROVE x \in Range(u)
    BY <1>0, <2>1, <2>3, <2>6, RangeIs
  <2>7. ASSUME NEW x, x \in Range(t) PROVE x \in Range(u)
    <3>1. PICK k \in 1 .. n : t[k] = x
      BY <1>0, <2>7, RangeIs
    <3>2. k + m \in 1 .. m + n /\ u[k + m] = x
      BY <2>4, <3>1
    <3> QED
      BY <2>1, <3>2
  <2> QED
    BY <2>5, <2>6, <2>7
<1> QED
  BY <1>1, <1>3, <1>4 DEF u

LEMMA WellEmitted ==
  ASSUME NEW l \in LogLists, NEW k \in LogLists, NEW d, NEW e \in Nat, LogsWell(l, d, e),
         Len(l) > 0, Len(k) = Len(l), \A i \in 1 .. Len(l) - 1 : k[i] = l[i],
         k[Len(l)] = Append(l[Len(l)], e + 1)
  PROVE  LogsWell(k, d, e + 1)
<1>0. PICK n \in Nat : n = Len(l) /\ n > 0
  BY LenProperties DEF LogLists
<1>1. \A i \in 1 .. n : l[i] \in Seq(Nat)
  BY <1>0 DEF LogLists
<1>2. /\ \A i \in 1 .. n :
           /\ Increasing(l[i]) /\ Range(l[i]) \subseteq 1 .. e /\ Range(l[i]) \cap d = {}
           /\ \A j \in i + 1 .. n : \A x \in Range(l[i]), y \in Range(l[j]) : x < y
      /\ d \subseteq 1 .. e
      /\ \A x \in 1 .. e : x \in d \/ \E i \in 1 .. n : x \in Range(l[i])
  BY <1>0 DEF LogsWell
<1>3. Increasing(k[n]) /\ \A x : x \in Range(k[n]) <=> x \in Range(l[n]) \/ x = e + 1
  <2>1. n \in 1 .. n /\ l[n] \in Seq(Nat) /\ Increasing(l[n]) /\ Range(l[n]) \subseteq 1 .. e
    BY <1>0, <1>1, <1>2
  <2> QED
    BY <1>0, <2>1, AppendLog
<1>4. \A i \in 1 .. n : i = n \/ (i \in 1 .. n - 1 /\ k[i] = l[i])
  BY <1>0
<1>5. 1 .. e \subseteq 1 .. e + 1 /\ e + 1 \notin d /\ d \subseteq 1 .. e + 1
      /\ \A x \in 1 .. e + 1 : x \in 1 .. e \/ x = e + 1
  BY <1>2
<1>6. ASSUME NEW i \in 1 .. n
      PROVE  /\ Increasing(k[i]) /\ Range(k[i]) \subseteq 1 .. e + 1 /\ Range(k[i]) \cap d = {}
             /\ \A j \in i + 1 .. n : \A x \in Range(k[i]), y \in Range(k[j]) : x < y
  <2>1. Increasing(k[i]) /\ Range(k[i]) \subseteq 1 .. e + 1 /\ Range(k[i]) \cap d = {}
    <3>1. CASE i = n
      BY <1>0, <1>2, <1>3, <1>5, <3>1
    <3>2. CASE i \in 1 .. n - 1
      BY <1>0, <1>2, <1>5, <3>2
    <3> QED
      BY <1>4, <3>1, <3>2
  <2>2. ASSUME NEW j \in i + 1 .. n, NEW x \in Range(k[i]), NEW y \in Range(k[j])
        PROVE  x < y
    <3>1. i \in 1 .. n - 1 /\ k[i] = l[i] /\ j \in 1 .. n
      BY <1>0, <1>4
    <3>2. x \in 1 .. e
      BY <1>2, <3>1
    <3>3. y \in Range(l[j]) \/ y = e + 1
      BY <1>3, <1>4, <3>1
    <3> QED
      BY <1>2, <3>1, <3>2, <3>3
  <2> QED
    BY <2>1, <2>2
<1>7. ASSUME NEW x \in 1 .. e + 1
      PROVE  x \in d \/ \E i \in 1 .. n : x \in Range(k[i])
  <2>1. CASE x = e + 1
    BY <1>0, <1>3, <2>1
  <2>2. CASE x \in 1 .. e /\ x \notin d
    <3>1. PICK i \in 1 .. n : x \in Range(l[i])
      BY <1>2, <2>2
    <3> QED
      BY <1>3, <1>4, <3>1
  <2> QED
    BY <1>5, <2>1, <2>2
<1> QED
  BY <1>0, <1>5, <1>6, <1>7 DEF LogsWell

LEMMA WellEntered ==
  ASSUME NEW l \in LogLists, NEW k \in LogLists, NEW d, NEW e \in Nat, LogsWell(l, d, e),
         Len(k) = Len(l) + 1, \A i \in 1 .. Len(l) : k[i] = l[i], k[Len(l) + 1] = <<>>
  PROVE  LogsWell(k, d, e)
<1>0. PICK n \in Nat : n = Len(l)
  BY LenProperties DEF LogLists
<1>2. /\ \A i \in 1 .. n :
           /\ Increasing(l[i]) /\ Range(l[i]) \subseteq 1 .. e /\ Range(l[i]) \cap d = {}
           /\ \A j \in i + 1 .. n : \A x \in Range(l[i]), y \in Range(l[j]) : x < y
      /\ d \subseteq 1 .. e
      /\ \A x \in 1 .. e : x \in d \/ \E i \in 1 .. n : x \in Range(l[i])
  BY <1>0 DEF LogsWell
<1>3. Increasing(<<>>) /\ \A x : x \notin Range(<<>>)
  BY DEF Increasing, Range
<1>4. \A i \in 1 .. n + 1 : (i = n + 1 /\ k[i] = <<>>) \/ (i \in 1 .. n /\ k[i] = l[i])
  BY <1>0
<1>5. \A i \in 1 .. n : i \in 1 .. n + 1 /\ k[i] = l[i]
  BY <1>0
<1>6. ASSUME NEW i \in 1 .. n + 1
      PROVE  /\ Increasing(k[i]) /\ Range(k[i]) \subseteq 1 .. e /\ Range(k[i]) \cap d = {}
             /\ \A j \in i + 1 .. n + 1 : \A x \in Range(k[i]), y \in Range(k[j]) : x < y
  <2>1. Increasing(k[i]) /\ Range(k[i]) \subseteq 1 .. e /\ Range(k[i]) \cap d = {}
    BY <1>2, <1>3, <1>4
  <2>2. ASSUME NEW j \in i + 1 .. n + 1, NEW x \in Range(k[i]), NEW y \in Range(k[j])
        PROVE  x < y
    <3>1. i \in 1 .. n /\ j \in 1 .. n + 1 /\ j \in i + 1 .. n + 1
      BY <1>0
    <3>2. j \in i + 1 .. n /\ k[j] = l[j] /\ k[i] = l[i]
      BY <1>3, <1>4, <3>1
    <3> QED
      BY <1>2, <3>1, <3>2
  <2> QED
    BY <2>1, <2>2
<1>7. ASSUME NEW x \in 1 .. e
      PROVE  x \in d \/ \E i \in 1 .. n + 1 : x \in Range(k[i])
  BY <1>2, <1>5
<1> QED
  BY <1>0, <1>2, <1>6, <1>7 DEF LogsWell

LEMMA WellMerged ==
  ASSUME NEW l \in LogLists, NEW k \in LogLists, NEW d, NEW e \in Nat, LogsWell(l, d, e),
         Len(l) > 1, Len(k) = Len(l) - 1, \A i \in 1 .. Len(l) - 2 : k[i] = l[i],
         k[Len(l) - 1] = l[Len(l) - 1] \o l[Len(l)]
  PROVE  LogsWell(k, d, e)
<1>0. PICK n \in Nat : n = Len(l) - 1 /\ n > 0
  BY LenProperties DEF LogLists
<1>1. \A i \in 1 .. n + 1 : l[i] \in Seq(Nat)
  BY <1>0 DEF LogLists
<1>2. /\ \A i \in 1 .. n + 1 :
           /\ Increasing(l[i]) /\ Range(l[i]) \subseteq 1 .. e /\ Range(l[i]) \cap d = {}
           /\ \A j \in i + 1 .. n + 1 : \A x \in Range(l[i]), y \in Range(l[j]) : x < y
      /\ d \subseteq 1 .. e
      /\ \A x \in 1 .. e : x \in d \/ \E i \in 1 .. n + 1 : x \in Range(l[i])
  BY <1>0 DEF LogsWell
<1>a. n \in 1 .. n + 1 /\ n + 1 \in 1 .. n + 1 /\ n + 1 \in n + 1 .. n + 1 /\ n \in 1 .. n
      /\ Len(l) = n + 1 /\ Len(l) - 1 = n /\ Len(k) = n
  BY <1>0, LenProperties DEF LogLists
<1>b. k[n] = l[n] \o l[n + 1]
  BY <1>a
<1>3. Increasing(k[n]) /\ \A x : x \in Range(k[n]) <=> x \in Range(l[n]) \/ x \in Range(l[n + 1])
  <2>1. /\ l[n] \in Seq(Nat) /\ l[n + 1] \in Seq(Nat) /\ Increasing(l[n]) /\ Increasing(l[n + 1])
        /\ \A x \in Range(l[n]), y \in Range(l[n + 1]) : x < y
    BY <1>1, <1>2, <1>a
  <2> QED
    BY <1>b, <2>1, MergedLogs
<1>4. \A i \in 1 .. n : i = n \/ (i \in 1 .. n - 1 /\ k[i] = l[i])
  <2>1. \A i \in 1 .. n : i = n \/ i \in 1 .. n - 1
    BY <1>0
  <2>2. Len(l) - 2 = n - 1
    BY <1>a
  <2> QED
    BY <2>1, <2>2
<1>5. \A i \in 1 .. n : i \in 1 .. n + 1
  OBVIOUS
<1>6. ASSUME NEW i \in 1 .. n
      PROVE  /\ Increasing(k[i]) /\ Range(k[i]) \subseteq 1 .. e /\ Range(k[i]) \cap d = {}
             /\ \A j \in i + 1 .. n : \A x \in Range(k[i]), y \in Range(k[j]) : x < y
  <2>1. Increasing(k[i]) /\ Range(k[i]) \subseteq 1 .. e /\ Range(k[i]) \cap d = {}
    <3>1. CASE i = n
      <4>1. /\ Range(l[n]) \subseteq 1 .. e /\ Range(l[n]) \cap d = {}
            /\ Range(l[n + 1]) \subseteq 1 .. e /\ Range(l[n + 1]) \cap d = {}
        BY <1>2, <1>a
      <4> QED
        BY <1>3, <3>1, <4>1
    <3>2. CASE i \in 1 .. n - 1
      BY <1>2, <1>4, <1>5, <3>2
    <3> QED
      BY <1>4, <3>1, <3>2
  <2>2. ASSUME NEW j \in i + 1 .. n, NEW x \in Range(k[i]), NEW y \in Range(k[j])
        PROVE  x < y
    <3>1. i \in 1 .. n - 1 /\ k[i] = l[i] /\ j \in 1 .. n /\ i \in 1 .. n + 1
          /\ j \in i + 1 .. n + 1 /\ n + 1 \in i + 1 .. n + 1
      BY <1>0, <1>4
    <3>2. y \in Range(l[j]) \/ y \in Range(l[n + 1])
      BY <1>3, <1>4, <3>1
    <3> QED
      BY <1>2, <3>1, <3>2
  <2> QED
    BY <2>1, <2>2
<1>7. ASSUME NEW x \in 1 .. e, x \notin d
      PROVE  \E i \in 1 .. n : x \in Range(k[i])
  <2>1. PICK i \in 1 .. n + 1 : x \in Range(l[i])
    BY <1>2, <1>7
  <2>2. CASE i \in 1 .. n - 1
    BY <1>4, <1>5, <2>1, <2>2
  <2>3. CASE i = n \/ i = n + 1
    BY <1>3, <1>a, <2>1, <2>3
  <2>4. i \in 1 .. n - 1 \/ i = n \/ i = n + 1
    BY <1>0
  <2> QED
    BY <2>2, <2>3, <2>4
<1> QED
  BY <1>2, <1>6, <1>7, <1>a DEF LogsWell

LEMMA WellDropped ==
  ASSUME NEW l \in LogLists, NEW k \in LogLists, NEW d, NEW e \in Nat, LogsWell(l, d, e),
         Len(l) > 0, Len(k) = Len(l) - 1, \A i \in 1 .. Len(l) - 1 : k[i] = l[i]
  PROVE  LogsWell(k, d \cup Range(l[Len(l)]), e)
<1>0. PICK n \in Nat : n = Len(l) - 1
  BY LenProperties DEF LogLists
<1>a. n + 1 \in 1 .. n + 1 /\ Len(l) = n + 1 /\ Len(k) = n
  BY <1>0, LenProperties DEF LogLists
<1>1. \A i \in 1 .. n + 1 : l[i] \in Seq(Nat)
  BY <1>a DEF LogLists
<1>2. /\ \A i \in 1 .. n + 1 :
           /\ Increasing(l[i]) /\ Range(l[i]) \subseteq 1 .. e /\ Range(l[i]) \cap d = {}
           /\ \A j \in i + 1 .. n + 1 : \A x \in Range(l[i]), y \in Range(l[j]) : x < y
      /\ d \subseteq 1 .. e
      /\ \A x \in 1 .. e : x \in d \/ \E i \in 1 .. n + 1 : x \in Range(l[i])
  BY <1>a DEF LogsWell
<1>4. \A i \in 1 .. n : i \in 1 .. n + 1 /\ k[i] = l[i] /\ n + 1 \in i + 1 .. n + 1
                        /\ \A j \in i + 1 .. n : j \in i + 1 .. n + 1 /\ k[j] = l[j]
  BY <1>a
<1>6. ASSUME NEW i \in 1 .. n
      PROVE  /\ Increasing(k[i]) /\ Range(k[i]) \subseteq 1 .. e
             /\ Range(k[i]) \cap (d \cup Range(l[n + 1])) = {}
             /\ \A j \in i + 1 .. n : \A x \in Range(k[i]), y \in Range(k[j]) : x < y
  <2>1. \A x \in Range(l[i]), y \in Range(l[n + 1]) : x < y
    BY <1>2, <1>4
  <2>2. \A x \in Range(l[i]) : x \in Int
    BY <1>2, <1>4
  <2>3. Range(l[i]) \cap Range(l[n + 1]) = {}
    BY <2>1, <2>2
  <2>4. \A j \in i + 1 .. n : \A x \in Range(k[i]), y \in Range(k[j]) : x < y
    BY <1>2, <1>4
  <2> QED
    BY <1>2, <1>4, <2>3, <2>4
<1>7. ASSUME NEW x \in 1 .. e, x \notin d \cup Range(l[n + 1])
      PROVE  \E i \in 1 .. n : x \in Range(k[i])
  <2>1. PICK i \in 1 .. n + 1 : x \in Range(l[i])
    BY <1>2, <1>7
  <2>2. i \in 1 .. n
    BY <1>7, <2>1, <1>0
  <2> QED
    BY <1>4, <2>1, <2>2
<1>8. d \cup Range(l[n + 1]) \subseteq 1 .. e
  BY <1>2, <1>a
<1> QED
  BY <1>6, <1>7, <1>8, <1>a DEF LogsWell

-----------------------------------------------------------------------------
(* The logs of the active frames, and what the actions do to them.         *)

Logs == [i \in 1 .. Len(frames) |-> frames[i].logs]

LogsInvariant ==
  /\ phase = "idle" => emitted = 0 /\ dropped = {}
  /\ phase = "running" => LogsWell(Logs, dropped, emitted)
  /\ phase \in {"settling", "done"} /\ reported = "success" =>
       Increasing(outcome.logs) /\ Range(outcome.logs) = (1 .. emitted) \ dropped

LogsShape ==
  /\ Logs \in LogLists /\ Len(Logs) = Len(frames) /\ Len(frames) \in Nat
  /\ \A i \in 1 .. Len(frames) : Logs[i] = frames[i].logs /\ Logs[i] \in Seq(Nat)
  /\ emitted \in Nat

LEMMA LogsAre == IInv => LogsShape
<1> SUFFICES ASSUME IInv PROVE LogsShape
  OBVIOUS
<1>1. frames \in Seq(Frame) /\ Len(frames) \in Nat /\ emitted \in Nat
  BY LenProperties DEF IInv, TypeOK
<1>2. \A i \in 1 .. Len(frames) : frames[i].logs \in Seq(Nat)
  BY <1>1, FrameTypes
<1>3. Logs \in LogLists /\ Len(Logs) = Len(frames)
  BY <1>1, <1>2 DEF Logs, LogLists
<1> QED
  BY <1>1, <1>2, <1>3 DEF LogsShape, Logs

LEMMA LogsAreNext == IInv' => LogsShape'
BY LogsAre, PTL

\* Nothing happens to the logs.
LogsStay ==
  /\ Len(frames') = Len(frames)
  /\ \A i \in 1 .. Len(frames) : frames'[i].logs = frames[i].logs
  /\ UNCHANGED <<emitted, dropped>>

LogEmitted ==
  /\ Len(frames) > 0 /\ Len(frames') = Len(frames)
  /\ \A i \in 1 .. Len(frames) - 1 : frames'[i].logs = frames[i].logs
  /\ frames'[Len(frames)].logs = Append(frames[Len(frames)].logs, emitted + 1)
  /\ emitted' = emitted + 1 /\ dropped' = dropped

LogsEntered ==
  /\ Len(frames') = Len(frames) + 1
  /\ \A i \in 1 .. Len(frames) : frames'[i].logs = frames[i].logs
  /\ frames'[Len(frames) + 1].logs = <<>>
  /\ UNCHANGED <<emitted, dropped>>

LogsMerged ==
  /\ Len(frames) > 1 /\ Len(frames') = Len(frames) - 1
  /\ \A i \in 1 .. Len(frames) - 2 : frames'[i].logs = frames[i].logs
  /\ frames'[Len(frames) - 1].logs = frames[Len(frames) - 1].logs \o frames[Len(frames)].logs
  /\ UNCHANGED <<emitted, dropped>>

LogsDropped ==
  /\ Len(frames) > 0 /\ Len(frames') = Len(frames) - 1
  /\ \A i \in 1 .. Len(frames) - 1 : frames'[i].logs = frames[i].logs
  /\ emitted' = emitted /\ dropped' = dropped \cup Range(frames[Len(frames)].logs)

LEMMA LogSteps ==
  ASSUME IInv, IInv', LogsWell(Logs, dropped, emitted),
         LogsStay \/ LogEmitted \/ LogsEntered \/ LogsMerged \/ LogsDropped
  PROVE  LogsWell(Logs', dropped', emitted')
<1>0. LogsShape /\ LogsShape'
  BY LogsAre, LogsAreNext
<1>1. /\ Logs \in LogLists /\ Len(Logs) = Len(frames) /\ Len(frames) \in Nat
      /\ Logs' \in LogLists /\ Len(Logs') = Len(frames') /\ emitted \in Nat
      /\ \A i \in 1 .. Len(frames) : Logs[i] = frames[i].logs
      /\ \A i \in 1 .. Len(frames') : Logs'[i] = frames'[i].logs
  BY <1>0 DEF LogsShape
<1>2. CASE LogsStay
  <2>1. Logs' = Logs
    BY <1>2 DEF Logs, LogsStay
  <2> QED
    BY <1>2, <2>1 DEF LogsStay
<1>3. CASE LogEmitted
  <2>1. /\ Len(Logs) > 0 /\ Len(Logs') = Len(Logs)
        /\ \A i \in 1 .. Len(Logs) - 1 : Logs'[i] = Logs[i]
        /\ Logs'[Len(Logs)] = Append(Logs[Len(Logs)], emitted + 1)
    <3>1. /\ Len(frames) > 0 /\ Len(frames') = Len(frames)
          /\ \A i \in 1 .. Len(frames) - 1 : frames'[i].logs = frames[i].logs
          /\ frames'[Len(frames)].logs = Append(frames[Len(frames)].logs, emitted + 1)
      BY <1>3 DEF LogEmitted
    <3>2. Len(Logs) > 0 /\ Len(Logs') = Len(Logs)
      BY <1>1, <3>1
    <3>3. ASSUME NEW i \in 1 .. Len(Logs) - 1 PROVE Logs'[i] = Logs[i]
      <4>1. i \in 1 .. Len(frames) /\ i \in 1 .. Len(frames') /\ i \in 1 .. Len(frames) - 1
        BY <1>1, <3>1
      <4> QED BY <1>1, <3>1, <4>1
    <3>4. Logs'[Len(Logs)] = Append(Logs[Len(Logs)], emitted + 1)
      <4>1. Len(Logs) \in 1 .. Len(frames) /\ Len(Logs) \in 1 .. Len(frames')
        BY <1>1, <3>1
      <4> QED BY <1>1, <3>1, <4>1
    <3> QED BY <3>2, <3>3, <3>4
  <2>2. LogsWell(Logs', dropped, emitted + 1)
    BY <1>1, <2>1, WellEmitted
  <2> QED
    BY <1>3, <2>2 DEF LogEmitted
<1>4. CASE LogsEntered
  <2>1. /\ Len(Logs') = Len(Logs) + 1
        /\ \A i \in 1 .. Len(Logs) : Logs'[i] = Logs[i]
        /\ Logs'[Len(Logs) + 1] = <<>>
    BY <1>1, <1>4 DEF LogsEntered
  <2>2. LogsWell(Logs', dropped, emitted)
    BY <1>1, <2>1, WellEntered
  <2> QED
    BY <1>4, <2>2 DEF LogsEntered
<1>5. CASE LogsMerged
  <2>1. /\ Len(Logs) > 1 /\ Len(Logs') = Len(Logs) - 1
        /\ \A i \in 1 .. Len(Logs) - 2 : Logs'[i] = Logs[i]
        /\ Logs'[Len(Logs) - 1] = Logs[Len(Logs) - 1] \o Logs[Len(Logs)]
    <3>0. PICK n \in Nat : n = Len(frames)
      BY <1>1
    <3>1. /\ n > 1 /\ Len(frames') = n - 1
          /\ \A i \in 1 .. n - 2 : frames'[i].logs = frames[i].logs
          /\ frames'[n - 1].logs = frames[n - 1].logs \o frames[n].logs
      BY <1>5, <3>0 DEF LogsMerged
    <3>2. /\ n - 1 \in 1 .. n - 1 /\ n - 1 \in 1 .. n /\ n \in 1 .. n
          /\ \A i \in 1 .. n - 2 : i \in 1 .. n /\ i \in 1 .. n - 1
      BY <3>1
    <3> QED
      BY <1>1, <3>0, <3>1, <3>2
  <2>2. LogsWell(Logs', dropped, emitted)
    BY <1>1, <2>1, WellMerged
  <2> QED
    BY <1>5, <2>2 DEF LogsMerged
<1>6. CASE LogsDropped
  <2>1. /\ Len(Logs) > 0 /\ Len(Logs') = Len(Logs) - 1
        /\ \A i \in 1 .. Len(Logs) - 1 : Logs'[i] = Logs[i]
        /\ Logs[Len(Logs)] = frames[Len(frames)].logs
    BY <1>1, <1>6 DEF LogsDropped
  <2>2. LogsWell(Logs', dropped \cup Range(Logs[Len(Logs)]), emitted)
    BY <1>1, <2>1, WellDropped
  <2> QED
    BY <1>6, <2>1, <2>2 DEF LogsDropped
<1> QED
  BY <1>2, <1>3, <1>4, <1>5, <1>6

-----------------------------------------------------------------------------

LEMMA ChargingLogs ==
  ASSUME IInv, Len(frames) > 0, NEW g \in Nat, frames' = WithGas(frames, g)
  PROVE  /\ Len(frames') = Len(frames)
         /\ \A i \in 1 .. Len(frames) : frames'[i].logs = frames[i].logs
BY TopFacts, WithGasFacts

LEMMA CallingLogs ==
  ASSUME IInv, Len(frames) > 0, NEW g \in Nat, NEW c \in Nat,
         NEW a \in Addr, NEW st \in BOOLEAN, NEW k \in {"root", "call", "create"},
         frames' = Append(WithGas(frames, g),
                          NewFrame(a, st, k, c, Len(acctSnaps), Len(slotSnaps))),
         UNCHANGED <<emitted, dropped>>
  PROVE  LogsEntered
<1> DEFINE w == WithGas(frames, g)
           f == NewFrame(a, st, k, c, Len(acctSnaps), Len(slotSnaps))
<1>1. /\ w \in Seq(Frame) /\ Len(w) = Len(frames) /\ Len(frames) \in Nat
      /\ \A i \in 1 .. Len(frames) : w[i].logs = frames[i].logs
  BY WithGasFacts, TopFacts
<1>2. frames'[Len(frames) + 1].logs = <<>>
  BY CallingFrame
<1> HIDE DEF f, w
<1>3. Len(Append(w, f)) = Len(w) + 1 /\ \A i \in 1 .. Len(w) : Append(w, f)[i] = w[i]
  BY <1>1
<1>4. Len(frames') = Len(frames) + 1 /\ \A i \in 1 .. Len(frames) : frames'[i] = w[i]
  BY <1>1, <1>3 DEF f, w
<1> QED
  BY <1>1, <1>2, <1>4 DEF LogsEntered

LEMMA ResumedLogs ==
  ASSUME IInv, Len(frames) > 1, NEW g \in Nat, NEW l \in Seq(Nat)
  PROVE  /\ Len(Resumed(g, l)) = Len(frames) - 1
         /\ \A i \in 1 .. Len(frames) - 2 : Resumed(g, l)[i].logs = frames[i].logs
         /\ Resumed(g, l)[Len(frames) - 1].logs = frames[Len(frames) - 1].logs \o l
<1>0. frames \in Seq(Frame) /\ Len(frames) \in Nat
  BY LenProperties DEF IInv, TypeOK
<1> DEFINE n == Len(frames) - 1
           f == [frames[n] EXCEPT !.gas = @ + g, !.logs = @ \o l]
<1>1. /\ Callers \in Seq(Frame) /\ Len(Callers) = n
      /\ \A i \in 1 .. n : Callers[i] = frames[i]
  BY <1>0, PopFacts DEF Callers
<1>a. n \in Nat /\ Len(frames) - 2 = n - 1 /\ n \in 1 .. n
  BY <1>0
<1>2. n \in 1 .. Len(Callers) /\ frames[n] \in Frame /\ Callers[n] = frames[n]
      /\ n \in Nat /\ Len(frames) - 2 = n - 1
  BY <1>0, <1>1, <1>a
<1>3. f.logs = frames[n].logs \o l
  BY <1>2 DEF Frame
<1>5. Resumed(g, l) = [Callers EXCEPT ![n] = f]
  BY <1>1, <1>2 DEF Resumed
<1>6. Len(Resumed(g, l)) = n
  BY <1>0, ResumedFacts
<1> HIDE DEF n, f
<1>7. \A i \in 1 .. n : Resumed(g, l)[i] = IF i = n THEN f ELSE Callers[i]
  BY <1>1, <1>2, <1>5
<1>8. \A i \in 1 .. n - 1 : i \in 1 .. n /\ i # n
  BY <1>2
<1> QED
  BY <1>1, <1>2, <1>3, <1>6, <1>7, <1>8 DEF n

\* What each action does to the logs, while the run goes on.
LogsRun ==
  /\ phase = "running" /\ phase' = "running"
  /\ LogsStay \/ LogEmitted \/ LogsEntered \/ LogsMerged \/ LogsDropped

LEMMA StepLogs == IInv /\ Step => LogsRun
<1> SUFFICES ASSUME IInv, Step PROVE LogsRun
  OBVIOUS
<1>0. \A op \in OpNames : Costs[op] \subseteq Nat
  BY GasAssumption DEF Positive
<1>1. ASSUME Executing, phase' = phase, UNCHANGED <<emitted, dropped>>,
             NEW cost \in Nat, Charge(cost)
      PROVE  LogsRun
  <2>1. Len(frames) > 0 /\ phase = "running"
    BY <1>1 DEF Executing
  <2>2. top.gas - cost \in Nat /\ frames' = WithGas(frames, top.gas - cost)
    BY <1>1, <2>1, TopFacts DEF Charge
  <2>3. LogsStay
    BY <1>1, <2>1, <2>2, ChargingLogs DEF LogsStay
  <2> QED
    BY <1>1, <2>1, <2>3 DEF LogsRun
<1>2. CASE Plain
  BY <1>0, <1>1, <1>2 DEF Plain, OpNames, history
<1>3. CASE EmitLog
  <2>1. Executing /\ Len(frames) > 0
    BY <1>3 DEF EmitLog, Executing
  <2>2. PICK cost \in Costs["LOG"] :
          frames' = [frames EXCEPT ![Len(frames)].gas = @ - cost,
                                   ![Len(frames)].logs = Append(@, emitted + 1)]
    BY <1>3 DEF EmitLog
  <2> DEFINE n == Len(frames)
             f == [frames[n] EXCEPT !.gas = @ - cost, !.logs = Append(@, emitted + 1)]
  <2>3. frames \in Seq(Frame) /\ n \in 1 .. Len(frames) /\ frames[n] \in Frame /\ n \in Nat
    BY <2>1, TopFacts DEF top
  <2>4. f.logs = Append(frames[n].logs, emitted + 1)
    BY <2>3 DEF Frame
  <2>5. frames' = [frames EXCEPT ![n] = f]
    BY <2>2
  <2> HIDE DEF f
  <2>6. Len(frames') = n /\ \A i \in 1 .. n : frames'[i] = IF i = n THEN f ELSE frames[i]
    BY <2>3, <2>5
  <2>7. emitted' = emitted + 1 /\ dropped' = dropped /\ phase' = phase
    BY <1>3 DEF EmitLog
  <2>8. \A i \in 1 .. n - 1 : frames'[i] = frames[i]
    BY <2>3, <2>6
  <2>9. LogEmitted
    BY <2>1, <2>3, <2>4, <2>6, <2>7, <2>8 DEF LogEmitted
  <2> QED
    BY <2>1, <2>7, <2>9 DEF LogsRun, Executing
<1>4. ASSUME NEW value \in StoreVals, Sstore(value) PROVE LogsRun
  BY <1>0, <1>1, <1>4 DEF Sstore, OpNames, history
<1>5. ASSUME NEW value \in StoreVals, Tstore(value) PROVE LogsRun
  BY <1>0, <1>1, <1>5 DEF Tstore, OpNames, history
<1>6. ASSUME NEW heir \in Addr, Selfdestruct(heir) PROVE LogsRun
  BY <1>0, <1>1, <1>6 DEF Selfdestruct, OpNames, history
<1> QED
  BY <1>2, <1>3, <1>4, <1>5, <1>6 DEF Step

LEMMA MessageCallLogs == IInv /\ MessageCalls => LogsRun
<1> SUFFICES ASSUME IInv, NEW m \in Calls,
                    CallRefused(m) \/ CallLeaf(m) \/ CallLeafFails(m) \/ CallStarts(m)
             PROVE  LogsRun
  BY DEF MessageCalls
<1>1. /\ MayCall(m) /\ Len(frames) > 0 /\ phase = "running" /\ phase' = "running"
      /\ UNCHANGED <<emitted, dropped>>
  BY DEF CallRefused, CallLeaf, CallLeafFails, CallStarts, MayCall, Executing, history
<1>2. /\ GasDuringCall(m) \in Nat /\ ChildGas(m) \in Nat
      /\ Callee(m) \in Addr /\ ChildStatic(m) \in BOOLEAN
  BY <1>1, CallFacts
<1>3. CASE CallRefused(m)
  <2>1. GasDuringCall(m) + ChildGas(m) \in Nat
    BY <1>2
  <2>2. LogsStay
    BY <1>1, <1>3, <2>1, ChargingLogs DEF CallRefused, LogsStay
  <2> QED
    BY <1>1, <2>2 DEF LogsRun
<1>4. CASE CallLeaf(m)
  <2>1. PICK cost \in IF m.target \in Precompiles THEN PrecompileCosts ELSE {0} :
          /\ cost <= ChildGas(m)
          /\ frames' = WithGas(frames, GasDuringCall(m) + ChildGas(m) - cost)
    BY <1>4 DEF CallLeaf
  <2>2. GasDuringCall(m) + ChildGas(m) - cost \in Nat
    <3>1. cost \in Nat
      BY GasAssumption
    <3> QED
      BY <1>2, <2>1, <3>1
  <2>3. LogsStay
    BY <1>1, <2>1, <2>2, ChargingLogs DEF LogsStay
  <2> QED
    BY <1>1, <2>3 DEF LogsRun
<1>5. CASE CallLeafFails(m)
  <2>1. LogsStay
    BY <1>1, <1>2, <1>5, ChargingLogs DEF CallLeafFails, LogsStay
  <2> QED
    BY <1>1, <2>1 DEF LogsRun
<1>6. CASE CallStarts(m)
  <2>1. LogsEntered
    BY <1>1, <1>2, <1>6, CallingLogs DEF CallStarts
  <2> QED
    BY <1>1, <2>1 DEF LogsRun
<1> QED
  BY <1>3, <1>4, <1>5, <1>6

LEMMA CreationLogs == IInv /\ Creations => LogsRun
<1> SUFFICES ASSUME IInv, Creations PROVE LogsRun
  OBVIOUS
<1>1. /\ Len(frames) > 0 /\ phase = "running" /\ phase' = "running"
      /\ UNCHANGED <<emitted, dropped>> /\ top.gas \in Nat
  <2>1. Executing /\ phase' = phase /\ UNCHANGED <<emitted, dropped>>
    BY DEF Creations, CreateRejected, CreateRefused, CreateStarts, MayCreate, history
  <2> QED
    BY <2>1, TopFacts DEF Executing
<1>2. Costs["CREATE"] \subseteq Nat
  BY GasAssumption DEF OpNames, Positive
<1>3. CASE \E cost \in Costs["CREATE"] : MayCreate(cost) /\ frames' = WithGas(frames, top.gas - cost)
  <2>1. PICK cost \in Costs["CREATE"] : MayCreate(cost) /\ frames' = WithGas(frames, top.gas - cost)
    BY <1>3
  <2>2. top.gas - cost \in Nat
    BY <1>1, <1>2, <2>1 DEF MayCreate
  <2>3. LogsStay
    BY <1>1, <2>1, <2>2, ChargingLogs DEF LogsStay
  <2> QED
    BY <1>1, <2>3 DEF LogsRun
<1>4. ASSUME NEW addr \in Creatable, NEW value \in Values, CreateStarts(addr, value)
      PROVE  LogsRun
  <2>1. PICK cost \in Costs["CREATE"] :
          /\ MayCreate(cost)
          /\ LET left == top.gas - cost
                 child == maxMessageCallGas(left)
             IN frames' = Append(WithGas(frames, left - child),
                                 NewFrame(addr, FALSE, "create", child,
                                          Len(acctSnaps), Len(slotSnaps)))
    BY <1>4 DEF CreateStarts
  <2> DEFINE left == top.gas - cost
             child == maxMessageCallGas(left)
  <2>2. left \in Nat
    BY <1>1, <1>2, <2>1 DEF MayCreate
  <2>3. child \in Nat /\ child <= left
    BY <2>2, ForwardedGas
  <2>4. frames' = Append(WithGas(frames, left - child),
                         NewFrame(addr, FALSE, "create", child, Len(acctSnaps), Len(slotSnaps)))
    BY <2>1
  <2> HIDE DEF left, child
  <2>5. left - child \in Nat /\ addr \in Addr
    BY <2>2, <2>3, AddrAssumption
  <2>6. LogsEntered
    BY <1>1, <2>3, <2>4, <2>5, CallingLogs
  <2> QED
    BY <1>1, <2>6 DEF LogsRun
<1> QED
  BY <1>3, <1>4 DEF Creations, CreateRejected, CreateRefused

LEMMA EndFrameLogs == IInv /\ EndFrame => LogsRun
<1> SUFFICES ASSUME IInv, EndFrame PROVE LogsRun
  OBVIOUS
<1>1. /\ Len(frames) > 1 /\ phase = "running" /\ phase' = "running"
  BY DEF EndFrame, CallReturns, CreateReturns, FrameFails, InnerFrame, Executing
<1>2. /\ top.gas \in Nat /\ top.logs \in Seq(Nat) /\ top = frames[Len(frames)]
      /\ Len(frames) \in Nat /\ frames \in Seq(Frame) /\ Len(frames) > 0
  BY <1>1, TopFacts DEF top
<1> DEFINE r == Resumed(top.gas, top.logs)
<1>3. /\ Len(r) = Len(frames) - 1 /\ r \in Seq(Frame)
      /\ \A i \in 1 .. Len(frames) - 2 : r[i].logs = frames[i].logs
      /\ r[Len(frames) - 1].logs = frames[Len(frames) - 1].logs \o top.logs
  BY <1>1, <1>2, ResumedLogs, ResumedFacts
<1>4. CASE frames' = r /\ UNCHANGED history
  <2>1. LogsMerged
    BY <1>1, <1>2, <1>3, <1>4 DEF LogsMerged, history
  <2> QED
    BY <1>1, <2>1 DEF LogsRun
<1>5. CASE /\ DepositGas <= r[Len(r)].gas /\ frames' = WithGas(r, r[Len(r)].gas - DepositGas)
           /\ UNCHANGED history
  <2> HIDE DEF r
  <2>1. Len(r) > 0 /\ Len(r) \in 1 .. Len(r)
    BY <1>1, <1>2, <1>3
  <2>2. r[Len(r)].gas \in Nat
    BY <1>3, <2>1, FrameTypes
  <2>3. r[Len(r)].gas - DepositGas \in Nat
    BY <1>5, <2>2, GasAssumption
  <2>4. /\ Len(frames') = Len(r)
        /\ \A i \in 1 .. Len(r) : frames'[i].logs = r[i].logs
    BY <1>3, <1>5, <2>1, <2>3, WithGasFacts
  <2>5. \A i \in 1 .. Len(frames) - 2 : i \in 1 .. Len(r)
    BY <1>2, <1>3
  <2>6. LogsMerged
    BY <1>1, <1>2, <1>3, <1>5, <2>1, <2>4, <2>5 DEF LogsMerged, history
  <2> QED
    BY <1>1, <2>6 DEF LogsRun
<1>6. CASE FrameFails
  <2>1. PICK kept \in {top.gas, 0} : frames' = Resumed(kept, <<>>)
    BY <1>6 DEF FrameFails
  <2>2. kept \in Nat /\ <<>> \in Seq(Nat)
    BY <1>2, EmptySeq
  <2>3. /\ Len(frames') = Len(frames) - 1
        /\ \A i \in 1 .. Len(frames) - 2 : frames'[i].logs = frames[i].logs
        /\ frames'[Len(frames) - 1].logs = frames[Len(frames) - 1].logs \o <<>>
    BY <1>1, <2>1, <2>2, ResumedLogs
  <2>4. frames'[Len(frames) - 1].logs = frames[Len(frames) - 1].logs
    <3>1. Len(frames) - 1 \in 1 .. Len(frames)
      BY <1>1, <1>2
    <3>2. frames[Len(frames) - 1].logs \in Seq(Nat)
      BY <1>2, <3>1, FrameTypes
    <3> QED
      BY <2>3, <3>2
  <2>5. \A i \in 1 .. Len(frames) - 1 : i \in 1 .. Len(frames) - 2 \/ i = Len(frames) - 1
    BY <1>2
  <2>6. LogsDropped
    BY <1>2, <1>6, <2>3, <2>4, <2>5 DEF LogsDropped, FrameFails
  <2> QED
    BY <1>1, <2>6 DEF LogsRun
<1> QED
  BY <1>4, <1>5, <1>6 DEF EndFrame, CallReturns, CreateReturns

LEMMA StartLogs == IInv /\ LogsInvariant /\ StartRun => LogsInvariant'
<1> SUFFICES ASSUME IInv, LogsInvariant, NEW limit \in GasLimits, NEW value, NEW static \in BOOLEAN,
                    \/ value \in Values /\ Begin(limit, value, static)
                    \/ BeginRefused(limit, value)
             PROVE  LogsInvariant'
  BY DEF StartRun
<1>1. CASE BeginRefused(limit, value)
  BY <1>1 DEF BeginRefused, LogsInvariant
<1>2. CASE value \in Values /\ Begin(limit, value, static)
  <2>1. phase = "idle" /\ phase' = "running" /\ emitted' = 0 /\ dropped' = {}
    BY <1>2 DEF Begin, LogsInvariant, history
  <2>2. \A i \in 1 .. Len(frames') : frames'[i].logs = <<>>
    BY <1>2 DEF Begin, NewFrame
  <2>3. LogsShape'
    <3>1. StartRun
      BY <1>2 DEF StartRun
    <3> QED
      BY <3>1, StartKeeps, LogsAreNext
  <2>4. \A i \in 1 .. Len(Logs') : Logs'[i] = <<>>
    BY <2>2, <2>3 DEF LogsShape
  <2>5. Increasing(<<>>) /\ Range(<<>>) = {}
    BY DEF Increasing, Range
  <2>6. LogsWell(Logs', dropped', emitted')
    BY <2>1, <2>4, <2>5 DEF LogsWell
  <2> QED
    BY <2>1, <2>6 DEF LogsInvariant
<1> QED
  BY <1>1, <1>2

LEMMA EndRunLogs == IInv /\ LogsInvariant /\ EndRun => LogsInvariant'
<1> SUFFICES ASSUME IInv, LogsInvariant, EndRun PROVE LogsInvariant'
  OBVIOUS
<1>1. CASE RunReturns
  <2>1. /\ Len(frames) = 1 /\ phase = "running" /\ phase' = "settling"
        /\ top = frames[1] /\ UNCHANGED <<emitted, dropped>>
    BY <1>1 DEF RunReturns, OuterFrame, Executing, top, history
  <2>2. outcome'.logs = top.logs
    <3>1. outcome \in Outcome
      BY DEF IInv, TypeOK
    <3> QED
      BY <1>1, <3>1 DEF RunReturns, Outcome
  <2>3. LogsShape
    BY LogsAre
  <2>4. Len(Logs) = 1 /\ Logs[1] = top.logs
    BY <2>1, <2>3 DEF LogsShape
  <2>5. LogsWell(Logs, dropped, emitted)
    BY <2>1 DEF LogsInvariant
  <2>6. Increasing(top.logs) /\ Range(top.logs) = (1 .. emitted) \ dropped
    <3>1. /\ Increasing(Logs[1]) /\ Range(Logs[1]) \subseteq 1 .. emitted
          /\ Range(Logs[1]) \cap dropped = {}
          /\ \A x \in 1 .. emitted : x \in dropped \/ x \in Range(Logs[1])
      BY <2>4, <2>5 DEF LogsWell
    <3> QED
      BY <2>4, <3>1
  <2> QED
    BY <2>1, <2>2, <2>6 DEF LogsInvariant
<1>2. CASE RunFails
  BY <1>2 DEF RunFails, LogsInvariant
<1>3. CASE Settle
  BY <1>3 DEF Settle, LogsInvariant
<1> QED
  BY <1>1, <1>2, <1>3 DEF EndRun

LEMMA LogsStep == FramesSound /\ LogsInvariant /\ [Next]_vars => LogsInvariant'
<1> SUFFICES ASSUME FramesSound, LogsInvariant, [Next]_vars PROVE LogsInvariant'
  OBVIOUS
<1>1. IInv /\ IInv'
  BY SoundStep DEF FramesSound
<1>2. CASE LogsRun
  <2>1. LogsWell(Logs, dropped, emitted)
    BY <1>2 DEF LogsRun, LogsInvariant
  <2>2. LogsWell(Logs', dropped', emitted')
    BY <1>1, <1>2, <2>1, LogSteps DEF LogsRun
  <2> QED
    BY <1>2, <2>2 DEF LogsRun, LogsInvariant
<1>3. CASE UNCHANGED vars
  BY <1>3 DEF vars, history, LogsInvariant, Logs
<1> QED
  BY <1>1, <1>2, <1>3, StartLogs, StepLogs, MessageCallLogs, CreationLogs, EndFrameLogs, EndRunLogs
     DEF Next

\* A log survives exactly when no frame above its emitter failed, in the order of emission
\* (the merging of Logs in opCallCommon and opCreate).
THEOREM LogsStayWithTheirFrames == Spec => []LogsFollowFrames
<1>1. Init => LogsInvariant
  BY DEF Init, LogsInvariant
<1>2. FramesSound /\ LogsInvariant => LogsFollowFrames
  <2> SUFFICES ASSUME FramesSound, LogsInvariant PROVE LogsFollowFrames
    OBVIOUS
  <2>1. LogsShape
    BY LogsAre DEF FramesSound
  <2>2. CASE phase = "running"
    <3>1. LogsWell(Logs, dropped, emitted)
      BY <2>2 DEF LogsInvariant
    <3>2. \A i \in 1 .. Len(frames) :
            /\ Increasing(frames[i].logs) /\ Range(frames[i].logs) \subseteq 1 .. emitted
            /\ Range(frames[i].logs) \cap dropped = {}
            /\ \A j \in i + 1 .. Len(frames) :
                 \A x \in Range(frames[i].logs), y \in Range(frames[j].logs) : x < y
      BY <2>1, <3>1 DEF LogsShape, LogsWell
    <3>3. /\ dropped \subseteq 1 .. emitted
          /\ \A x \in 1 .. emitted :
               x \in dropped \/ \E i \in 1 .. Len(frames) : x \in Range(frames[i].logs)
      BY <2>1, <3>1 DEF LogsShape, LogsWell
    <3>4. 1 .. emitted = dropped \cup UNION {Range(frames[i].logs) : i \in 1 .. Len(frames)}
      BY <3>2, <3>3
    <3> QED
      BY <2>2, <3>2, <3>4 DEF LogsFollowFrames
  <2>3. CASE phase # "running"
    <3>1. frames = <<>> /\ Len(frames) = 0
      BY <2>3 DEF FramesSound, OnlyRunning
    <3> QED
      BY <2>3, <3>1 DEF LogsFollowFrames, LogsInvariant
  <2> QED
    BY <2>2, <2>3
<1> QED
  BY <1>1, <1>2, LogsStep, SoundInvariance, PTL DEF Spec

-----------------------------------------------------------------------------
(* Sums over the accounts.  For the induction along the enumeration: the   *)
(* naturals are in every set that has 0 and successors, because a finite   *)
(* set is not in bijection with a part of itself.                          *)

LEMMA SetInduction ==
  ASSUME NEW S, 0 \in S, \A n \in Nat : n \in S => n + 1 \in S
  PROVE  Nat \subseteq S
<1> SUFFICES ASSUME NEW m \in Nat, m \notin S PROVE FALSE
  OBVIOUS
<1> DEFINE T == {k \in 0 .. m : k \in S}
           f == [k \in T |-> k + 1]
<1>1. IsFiniteSet(T)
  <2>1. IsFiniteSet(0 .. m)
    BY FS_Interval
  <2>2. T \in SUBSET (0 .. m)
    OBVIOUS
  <2> HIDE DEF T
  <2> QED BY <2>1, <2>2, FS_Subset
<1>2. f \in [T -> T]
  <2> SUFFICES ASSUME NEW k \in T PROVE k + 1 \in T
    OBVIOUS
  <2> k \in Nat /\ k \in S /\ k <= m /\ k # m
    OBVIOUS
  <2> QED OBVIOUS
<1>3. f \in Injection(T, T)
  BY <1>2 DEF Injection, IsInjective
<1>4. f \in Surjection(T, T)
  BY <1>1, <1>3, FS_Injection
<1>5. 0 \in T
  OBVIOUS
<1>6. \E k \in T : f[k] = 0
  BY <1>4, <1>5 DEF Surjection
<1> QED
  BY <1>6

LEMMA Stepwise ==
  ASSUME NEW n \in Nat, NEW S, 0 \in S, \A i \in 0 .. n - 1 : i \in S => i + 1 \in S
  PROVE  0 .. n \subseteq S
<1> DEFINE T == {i \in Nat : i <= n => i \in S}
<1>1. 0 \in T
  OBVIOUS
<1>2. ASSUME NEW i \in Nat, i \in T PROVE i + 1 \in T
  BY <1>2
<1>3. Nat \subseteq T
  <2> HIDE DEF T
  <2> QED BY <1>1, <1>2, SetInduction
<1> QED BY <1>3

\* The value of f at each number is the function G[i] of the value before it.
Recursive(f, n, first, G) == f = [i \in 0 .. n |-> IF i = 0 THEN first ELSE G[i][f[i - 1]]]

\* A function by recursion on a number exists.
LEMMA Recursion ==
  ASSUME NEW n \in Nat, NEW D, NEW first \in D, NEW G \in [1 .. n -> [D -> D]]
  PROVE  \E f \in [0 .. n -> D] : Recursive(f, n, first, G)
<1> DEFINE Solves(f, k) == \A i \in 0 .. k : f[i] = IF i = 0 THEN first ELSE G[i][f[i - 1]]
           S == {k \in 0 .. n : \E f \in [0 .. k -> D] : Solves(f, k)}
<1>1. 0 \in S
  <2> DEFINE f == [i \in 0 .. 0 |-> first]
  <2>1. f \in [0 .. 0 -> D] /\ Solves(f, 0)
    OBVIOUS
  <2> HIDE DEF f, Solves
  <2> QED BY <2>1
<1>2. ASSUME NEW k \in 0 .. n - 1, k \in S PROVE k + 1 \in S
  <2>1. PICK f \in [0 .. k -> D] : Solves(f, k)
    BY <1>2
  <2> DEFINE g == [i \in 0 .. k + 1 |-> IF i = k + 1 THEN G[k + 1][f[k]] ELSE f[i]]
  <2>2. f[k] \in D /\ k + 1 \in 1 .. n /\ G[k + 1][f[k]] \in D
    OBVIOUS
  <2>3. g \in [0 .. k + 1 -> D]
    BY <2>2
  <2>4. ASSUME NEW i \in 0 .. k + 1 PROVE g[i] = IF i = 0 THEN first ELSE G[i][g[i - 1]]
    <3>1. CASE i = k + 1
      <4>1. g[i] = G[k + 1][f[k]] /\ i - 1 = k /\ g[k] = f[k] /\ i # 0
        BY <3>1
      <4> HIDE DEF g
      <4> QED BY <3>1, <4>1
    <3>2. CASE i # k + 1
      <4>1. i \in 0 .. k
        BY <3>2
      <4>2. g[i] = f[i]
        BY <3>2
      <4>3. f[i] = IF i = 0 THEN first ELSE G[i][f[i - 1]]
        BY <2>1, <4>1
      <4>4. i # 0 => g[i - 1] = f[i - 1]
        BY <4>1
      <4> HIDE DEF g
      <4> QED BY <4>2, <4>3, <4>4
    <3> QED BY <3>1, <3>2
  <2> HIDE DEF g
  <2>5. Solves(g, k + 1)
    BY <2>4
  <2>6. k + 1 \in 0 .. n
    OBVIOUS
  <2> HIDE DEF Solves
  <2> QED BY <2>3, <2>5, <2>6
<1>3. n \in S
  <2> HIDE DEF S
  <2>1. 0 .. n \subseteq S
    BY <1>1, <1>2, Stepwise
  <2> QED BY <2>1
<1>4. PICK f \in [0 .. n -> D] : Solves(f, n)
  BY <1>3
<1>5. f = [i \in 0 .. n |-> IF i = 0 THEN first ELSE G[i][f[i - 1]]]
  BY <1>4
<1> QED BY <1>5 DEF Recursive

LEMMA OrderFacts ==
  /\ Cardinality(Addr) \in Nat
  /\ Order \in [1 .. Cardinality(Addr) -> Addr]
  /\ \A a \in Addr : \E i \in 1 .. Cardinality(Addr) : Order[i] = a
  /\ \A i, j \in 1 .. Cardinality(Addr) : Order[i] = Order[j] => i = j
<1>1. PICK n \in Nat : ExistsBijection(1 .. n, Addr)
  BY AddrAssumption, FS_NatBijection
<1>2. Cardinality(Addr) = n
  BY <1>1, FS_CountingElements
<1>3. Bijection(1 .. Cardinality(Addr), Addr) # {}
  BY <1>1, <1>2 DEF ExistsBijection
<1>4. Order \in Bijection(1 .. Cardinality(Addr), Addr)
  BY <1>3 DEF Order
<1> QED BY <1>2, <1>4 DEF Bijection, Injection, IsInjective, Surjection

\* What the sum adds up, account by account.
LEMMA SumIs ==
  ASSUME NEW f \in [Addr -> Int]
  PROVE  \E sum \in [0 .. Cardinality(Addr) -> Int] :
           /\ sum[0] = 0 /\ \A i \in 1 .. Cardinality(Addr) : sum[i] = sum[i - 1] + f[Order[i]]
           /\ SumOver(f) = sum[Cardinality(Addr)]
<1>1. PICK m \in Nat : m = Cardinality(Addr)
  BY OrderFacts
<1> DEFINE G == [i \in 1 .. m |-> [d \in Int |-> d + f[Order[i]]]]
           sum[i \in 0 .. m] == IF i = 0 THEN 0 ELSE sum[i - 1] + f[Order[i]]
<1>2. \A i \in 1 .. m : f[Order[i]] \in Int
  BY <1>1, OrderFacts
<1>3. PICK g \in [0 .. m -> Int] : Recursive(g, m, 0, G)
  <2>1. G \in [1 .. m -> [Int -> Int]]
    BY <1>2
  <2>2. 0 \in Int
    OBVIOUS
  <2> HIDE DEF G
  <2> QED BY <2>1, <2>2, Recursion
<1>4. ASSUME NEW i \in 0 .. m
      PROVE  g[i] = IF i = 0 THEN 0 ELSE g[i - 1] + f[Order[i]]
  <2>1. CASE i = 0
    <3> HIDE DEF G
    <3> QED BY <1>3, <2>1 DEF Recursive
  <2>2. CASE i # 0
    <3>1. i \in 1 .. m /\ i - 1 \in 0 .. m
      BY <2>2
    <3>2. g[i - 1] \in Int
      <4> HIDE DEF G
      <4> QED BY <3>1
    <3>3. g[i] = G[i][g[i - 1]]
      <4> HIDE DEF G
      <4> QED BY <1>3, <2>2 DEF Recursive
    <3>4. G[i][g[i - 1]] = g[i - 1] + f[Order[i]]
      BY <3>1, <3>2
    <3> HIDE DEF G
    <3> QED BY <2>2, <3>3, <3>4
  <2> QED BY <2>1, <2>2
<1>5. g = [i \in 0 .. m |-> IF i = 0 THEN 0 ELSE g[i - 1] + f[Order[i]]]
  <2> HIDE DEF G
  <2> QED BY <1>3, <1>4
<1>6. sum = [i \in 0 .. m |-> IF i = 0 THEN 0 ELSE sum[i - 1] + f[Order[i]]]
  <2> HIDE DEF G
  <2> QED BY <1>5
<1>7. SumOver(f) = sum[m]
  BY <1>1 DEF SumOver
<1> HIDE DEF G, sum
<1>8. sum[0] = 0 /\ \A i \in 1 .. m : sum[i] = sum[i - 1] + f[Order[i]]
  BY <1>6
<1>9. \A i \in 0 .. m : sum[i] \in Int
  <2> DEFINE S == {i \in 0 .. m : sum[i] \in Int}
  <2>1. 0 \in S
    BY <1>8
  <2>2. ASSUME NEW i \in 0 .. m - 1, i \in S PROVE i + 1 \in S
    <3>1. i + 1 \in 1 .. m /\ (i + 1) - 1 = i
      OBVIOUS
    <3>2. sum[i + 1] = sum[i] + f[Order[i + 1]] /\ f[Order[i + 1]] \in Int
      BY <1>2, <1>8, <3>1
    <3> QED BY <2>2, <3>1, <3>2
  <2>3. 0 .. m \subseteq S
    <3> HIDE DEF S
    <3> QED BY <2>1, <2>2, Stepwise
  <2> QED BY <2>3
<1>10. sum \in [0 .. m -> Int]
  BY <1>6, <1>9
<1> QED BY <1>1, <1>7, <1>8, <1>10

\* One account's part of the sum changes it by as much.
LEMMA SumChanges ==
  ASSUME NEW f \in [Addr -> Int], NEW a \in Addr, NEW g \in [Addr -> Int],
         \A x \in Addr : x # a => g[x] = f[x]
  PROVE  SumOver(f) \in Int /\ SumOver(g) = SumOver(f) + g[a] - f[a]
<1>1. PICK m \in Nat : m = Cardinality(Addr)
  BY OrderFacts
<1>2. PICK s \in [0 .. m -> Int] :
        s[0] = 0 /\ (\A i \in 1 .. m : s[i] = s[i - 1] + f[Order[i]]) /\ SumOver(f) = s[m]
  BY <1>1, SumIs
<1>3. PICK t \in [0 .. m -> Int] :
        t[0] = 0 /\ (\A i \in 1 .. m : t[i] = t[i - 1] + g[Order[i]]) /\ SumOver(g) = t[m]
  BY <1>1, SumIs
<1>4. PICK k \in 1 .. m : Order[k] = a /\ \A i \in 1 .. m : i # k => Order[i] \in Addr /\ Order[i] # a
  BY <1>1, OrderFacts
<1> DEFINE S == {i \in 0 .. m : t[i] = IF i < k THEN s[i] ELSE s[i] + g[a] - f[a]}
<1>5. 0 \in S
  BY <1>2, <1>3
<1>6. ASSUME NEW i \in 0 .. m - 1, i \in S PROVE i + 1 \in S
  <2>1. i + 1 \in 1 .. m /\ i + 1 \in 0 .. m /\ (i + 1) - 1 = i /\ i \in 0 .. m
    OBVIOUS
  <2>2. s[i + 1] = s[i] + f[Order[i + 1]] /\ t[i + 1] = t[i] + g[Order[i + 1]]
    BY <1>2, <1>3, <2>1
  <2>3. /\ f[Order[i + 1]] \in Int /\ g[Order[i + 1]] \in Int /\ f[a] \in Int /\ g[a] \in Int
        /\ s[i] \in Int /\ t[i] \in Int
    BY <1>1, <2>1, OrderFacts
  <2>4. i + 1 # k => g[Order[i + 1]] = f[Order[i + 1]]
    BY <1>4, <2>1
  <2>5. t[i] = IF i < k THEN s[i] ELSE s[i] + g[a] - f[a]
    BY <1>6
  <2>6. CASE i + 1 < k
    BY <2>1, <2>2, <2>3, <2>4, <2>5, <2>6
  <2>7. CASE i + 1 = k
    <3>a. i < k /\ ~(i + 1 < k)
      BY <2>7
    <3>b. Order[i + 1] = a
      BY <1>4, <2>7
    <3>1. i < k /\ ~(i + 1 < k) /\ Order[i + 1] = a
      BY <3>a, <3>b
    <3>2. s[i + 1] = s[i] + f[a] /\ t[i + 1] = s[i] + g[a]
      BY <2>2, <2>3, <2>5, <3>1, SMTT(30)
    <3>3. t[i + 1] = s[i + 1] + g[a] - f[a]
      BY <2>3, <3>2
    <3> QED BY <2>1, <3>1, <3>3
  <2>8. CASE i + 1 > k
    <3>1. ~(i < k) /\ ~(i + 1 < k) /\ i + 1 # k
      BY <2>8
    <3>2. t[i] = s[i] + g[a] - f[a] /\ g[Order[i + 1]] = f[Order[i + 1]]
      BY <2>4, <2>5, <3>1
    <3>3. t[i + 1] = s[i + 1] + g[a] - f[a]
      BY <2>2, <2>3, <3>2, SMTT(30)
    <3> QED BY <2>1, <3>1, <3>3
  <2> QED BY <2>1, <2>6, <2>7, <2>8
<1>7. m \in S
  <2> HIDE DEF S
  <2>1. 0 .. m \subseteq S
    BY <1>5, <1>6, Stepwise
  <2> QED BY <2>1
<1>8. s[m] \in Int /\ t[m] = s[m] + g[a] - f[a]
  BY <1>7
<1> QED BY <1>2, <1>3, <1>8

-----------------------------------------------------------------------------
(* Wei is conserved.  The invariant also holds the accounts put aside to   *)
(* as much, and says that an account that does not exist owns nothing:     *)
(* CREATE clears the balance of such an account.                           *)

Owned(accts) ==
  \A a \in Addr : accts[a].balance >= 0 /\ (accts[a].exists \/ accts[a].balance = 0)

Sound(accts) == Owned(accts) /\ SumOver(Balances(accts)) = SumOver(InitBalance)

MoneyInv ==
  /\ phase # "done" => Sound(acct) /\ burned = 0
  /\ phase = "done" => SumOver(Balances(acct)) + burned = SumOver(InitBalance)
  /\ \A i \in 1 .. Len(acctSnaps) : Sound(acctSnaps[i])

LEMMA OneBalance ==
  ASSUME NEW accts \in Accounts, NEW a \in Addr, NEW r \in Account
  PROVE  /\ SumOver(Balances(accts)) \in Int
         /\ SumOver(Balances([accts EXCEPT ![a] = r]))
              = SumOver(Balances(accts)) + r.balance - accts[a].balance
<1> DEFINE new == [accts EXCEPT ![a] = r]
<1>1. /\ \A x \in Addr : accts[x].balance \in Int /\ new[x].balance \in Int
      /\ \A x \in Addr : x # a => new[x] = accts[x]
      /\ new[a] = r
  BY DEF Accounts, Account
<1> HIDE DEF new
<1>2. /\ Balances(accts) \in [Addr -> Int] /\ Balances(new) \in [Addr -> Int]
      /\ \A x \in Addr : x # a => Balances(new)[x] = Balances(accts)[x]
      /\ Balances(new)[a] = r.balance /\ Balances(accts)[a] = accts[a].balance
  BY <1>1 DEF Balances
<1>3. /\ SumOver(Balances(accts)) \in Int
      /\ SumOver(Balances(new)) = SumOver(Balances(accts)) + Balances(new)[a] - Balances(accts)[a]
  BY <1>2, SumChanges
<1> QED BY <1>2, <1>3 DEF new

\* A change to an account that is not to its balance.
LEMMA SameBalance ==
  ASSUME NEW accts \in Accounts, Sound(accts), NEW a \in Addr, NEW r \in Account,
         r.balance = accts[a].balance, r.exists \/ r.balance = 0
  PROVE  Sound([accts EXCEPT ![a] = r])
<1>1. /\ SumOver(Balances(accts)) \in Int
      /\ SumOver(Balances([accts EXCEPT ![a] = r]))
           = SumOver(Balances(accts)) + r.balance - accts[a].balance
  BY OneBalance
<1>2. accts[a].balance \in Int
  BY DEF Accounts, Account
<1>3. SumOver(Balances([accts EXCEPT ![a] = r])) = SumOver(InitBalance)
  <2>1. SumOver(Balances(accts)) = SumOver(InitBalance)
    BY DEF Sound
  <2> QED BY <1>1, <1>2, <2>1
<1>4. Owned([accts EXCEPT ![a] = r])
  <2>1. Owned(accts)
    BY DEF Sound
  <2> QED BY <2>1 DEF Owned, Accounts
<1> QED BY <1>3, <1>4 DEF Sound

LEMMA SoundOperations ==
  ASSUME NEW accts \in Accounts, Sound(accts), NEW a \in Addr
  PROVE  /\ Sound(IncrementNonce(accts, a))
         /\ Sound(CreateAccount(accts, a))
         /\ Sound([accts EXCEPT ![a].deleted = TRUE])
         /\ \A code \in BOOLEAN : Sound(SetCode(accts, a, code))
<1>1. /\ accts[a] \in Account /\ accts[a].nonce \in Nat /\ accts[a].nonce + 1 \in Nat
      /\ accts[a].exists \/ accts[a].balance = 0
  BY DEF Accounts, Account, Sound, Owned
<1>2. Sound(IncrementNonce(accts, a))
  <2> DEFINE r == [accts[a] EXCEPT !.nonce = @ + 1, !.exists = TRUE]
  <2>1. r \in Account /\ r.balance = accts[a].balance /\ r.exists
    BY <1>1 DEF Account
  <2>2. IncrementNonce(accts, a) = [accts EXCEPT ![a] = r]
    BY DEF IncrementNonce
  <2> HIDE DEF r
  <2> QED BY <2>1, <2>2, SameBalance
<1>3. Sound(CreateAccount(accts, a))
  <2> DEFINE b == IF accts[a].exists THEN accts[a].balance ELSE 0
             m == IF accts[a].nonce = 0 /\ ~accts[a].code THEN 1 ELSE accts[a].nonce
             r == [accts[a] EXCEPT !.balance = b, !.nonce = m, !.exists = TRUE]
  <2>1. b = accts[a].balance /\ b \in Int /\ m \in Nat
    BY <1>1 DEF Account
  <2>2. CreateAccount(accts, a) = [accts EXCEPT ![a] = r]
    BY DEF CreateAccount
  <2> HIDE DEF b, m
  <2>3. r \in Account /\ r.balance = accts[a].balance /\ r.exists
    BY <1>1, <2>1 DEF Account
  <2> HIDE DEF r
  <2> QED BY <2>2, <2>3, SameBalance
<1>4. Sound([accts EXCEPT ![a].deleted = TRUE])
  <2> DEFINE r == [accts[a] EXCEPT !.deleted = TRUE]
  <2>1. r \in Account /\ r.balance = accts[a].balance /\ (r.exists \/ r.balance = 0)
    BY <1>1 DEF Account
  <2>2. [accts EXCEPT ![a].deleted = TRUE] = [accts EXCEPT ![a] = r]
    OBVIOUS
  <2> HIDE DEF r
  <2> QED BY <2>1, <2>2, SameBalance
<1>5. ASSUME NEW code \in BOOLEAN PROVE Sound(SetCode(accts, a, code))
  <2> DEFINE r == [accts[a] EXCEPT !.code = code, !.exists = TRUE]
  <2>1. r \in Account /\ r.balance = accts[a].balance /\ r.exists
    BY <1>1 DEF Account
  <2>2. SetCode(accts, a, code) = [accts EXCEPT ![a] = r]
    BY DEF SetCode
  <2> HIDE DEF r
  <2> QED BY <2>1, <2>2, SameBalance
<1> QED BY <1>2, <1>3, <1>4, <1>5

LEMMA SoundTransfer ==
  ASSUME NEW accts \in Accounts, Sound(accts), NEW from \in Addr, NEW to \in Addr,
         NEW v \in Nat, v <= accts[from].balance
  PROVE  Sound(Transfer(accts, from, to, v))
<1>1. CASE v = 0
  BY <1>1 DEF Transfer
<1>2. CASE v # 0
  <2> DEFINE less == [accts[from] EXCEPT !.balance = @ - v, !.exists = TRUE]
             mid == [accts EXCEPT ![from] = less]
             more == [mid[to] EXCEPT !.balance = @ + v, !.exists = TRUE]
             end == [mid EXCEPT ![to] = more]
  <2>1. accts[from] \in Account /\ accts[from].balance \in Int /\ accts[from].balance - v \in Int
    BY DEF Accounts, Account
  <2>2. less \in Account /\ less.balance = accts[from].balance - v /\ less.exists
    BY <2>1 DEF Account
  <2>3. Transfer(accts, from, to, v) = end
    BY <1>2 DEF Transfer, Debit, Credit
  <2> HIDE DEF less
  <2>4. /\ mid \in Accounts /\ mid[from] = less
        /\ \A x \in Addr : x # from => mid[x] = accts[x]
    BY <2>2 DEF Accounts
  <2> HIDE DEF mid
  <2>5. mid[to] \in Account /\ mid[to].balance \in Int /\ mid[to].balance + v \in Int
    BY <2>4 DEF Accounts, Account
  <2>6. more \in Account /\ more.balance = mid[to].balance + v /\ more.exists
    BY <2>5 DEF Account
  <2> HIDE DEF more
  <2>7. end[to] = more /\ \A x \in Addr : x # to => end[x] = mid[x]
    BY <2>4 DEF Accounts
  <2>8. /\ SumOver(Balances(accts)) \in Int /\ SumOver(Balances(mid)) \in Int
        /\ SumOver(Balances(mid)) = SumOver(Balances(accts)) + less.balance - accts[from].balance
        /\ SumOver(Balances(end)) = SumOver(Balances(mid)) + more.balance - mid[to].balance
    <3>1. /\ SumOver(Balances(accts)) \in Int
          /\ SumOver(Balances(mid)) = SumOver(Balances(accts)) + less.balance - accts[from].balance
      BY <2>2, OneBalance DEF mid
    <3>2. /\ SumOver(Balances(mid)) \in Int
          /\ SumOver(Balances(end)) = SumOver(Balances(mid)) + more.balance - mid[to].balance
      BY <2>4, <2>6, OneBalance
    <3> QED BY <3>1, <3>2
  <2> HIDE DEF end
  <2>9. SumOver(Balances(end)) = SumOver(Balances(accts))
    BY <2>1, <2>2, <2>5, <2>6, <2>8
  <2>10. Owned(end)
    <3>1. Owned(accts)
      BY DEF Sound
    <3>2. less.balance >= 0
      BY <2>1, <2>2
    <3>3. \A x \in Addr : mid[x].balance >= 0 /\ (mid[x].exists \/ mid[x].balance = 0)
      BY <2>2, <2>4, <3>1, <3>2 DEF Owned
    <3>4. more.balance >= 0
      BY <2>5, <2>6, <3>3
    <3> QED BY <2>6, <2>7, <3>3, <3>4 DEF Owned
  <2> QED BY <2>3, <2>9, <2>10 DEF Sound
<1> QED BY <1>1, <1>2

\* What a step within a run must show.
LEMMA MoneyStep ==
  ASSUME MoneyInv, phase # "done", phase' # "done", burned' = burned,
         Sound(acct'), \A i \in 1 .. Len(acctSnaps') : Sound(acctSnaps'[i])
  PROVE  MoneyInv'
BY DEF MoneyInv

LEMMA SnapshotsSound ==
  ASSUME IInv, MoneyInv, NEW a \in Accounts, Sound(a), acctSnaps' = Append(acctSnaps, a)
  PROVE  \A i \in 1 .. Len(acctSnaps') : Sound(acctSnaps'[i])
<1>1. acctSnaps \in Seq(Accounts) /\ Len(acctSnaps) \in Nat
  BY LenProperties DEF IInv, TypeOK
<1>2. /\ Len(acctSnaps') = Len(acctSnaps) + 1 /\ acctSnaps'[Len(acctSnaps) + 1] = a
      /\ \A k \in 1 .. Len(acctSnaps) : acctSnaps'[k] = acctSnaps[k]
  BY <1>1, AppendProperties
<1> SUFFICES ASSUME NEW i \in 1 .. Len(acctSnaps') PROVE Sound(acctSnaps'[i])
  OBVIOUS
<1>3. i \in 1 .. Len(acctSnaps) \/ i = Len(acctSnaps) + 1
  BY <1>1, <1>2
<1> QED BY <1>2, <1>3 DEF MoneyInv

LEMMA MoneyReverted ==
  ASSUME IInv, IInv', MoneyInv, phase # "done", Len(frames) > 0, RevertSnapshots(top)
  PROVE  Sound(acct') /\ \A i \in 1 .. Len(acctSnaps') : Sound(acctSnaps'[i])
<1>1. /\ HasRevision(top) =>
           /\ acct' = acctSnaps[top.accRev + 1]
           /\ Len(acctSnaps') = top.accRev /\ Len(acctSnaps') < Len(acctSnaps)
      /\ ~HasRevision(top) => acct' = acct /\ acctSnaps' = acctSnaps
      /\ \A k \in 1 .. Len(acctSnaps') : acctSnaps'[k] = acctSnaps[k]
  BY Reverted DEF snaps
<1>2. Len(acctSnaps) \in Nat /\ Len(acctSnaps') \in Nat
  BY RunningFrames
<1>3. HasRevision(top) => top.accRev + 1 \in 1 .. Len(acctSnaps)
  <2>1. Len(frames) \in 1 .. Len(frames)
    BY TopFacts
  <2> QED BY <2>1, Revisions DEF top
<1>4. Sound(acct) /\ \A i \in 1 .. Len(acctSnaps) : Sound(acctSnaps[i])
  BY DEF MoneyInv
<1>5. CASE HasRevision(top)
  BY <1>1, <1>2, <1>3, <1>4, <1>5
<1>6. CASE ~HasRevision(top)
  BY <1>1, <1>4, <1>6
<1> QED BY <1>5, <1>6

LEMMA MoneyStart == IInv /\ MoneyInv /\ StartRun => MoneyInv'
<1> SUFFICES ASSUME IInv, MoneyInv, NEW limit \in GasLimits, NEW value, NEW static \in BOOLEAN,
                    \/ value \in Values /\ Begin(limit, value, static)
                    \/ BeginRefused(limit, value)
             PROVE  MoneyInv'
  BY DEF StartRun
<1>1. /\ phase = "idle" /\ acct \in Accounts /\ Sound(acct) /\ burned = 0
      /\ \A i \in 1 .. Len(acctSnaps) : Sound(acctSnaps[i])
  BY DEF Begin, BeginRefused, MoneyInv, IInv, TypeOK
<1>2. CASE BeginRefused(limit, value)
  <2>1. /\ phase' = "done" /\ UNCHANGED <<acct, acctSnaps, burned>>
    BY <1>2 DEF BeginRefused, world, snaps, history
  <2>2. SumOver(Balances(acct)) \in Int /\ SumOver(Balances(acct)) = SumOver(InitBalance)
    BY <1>1, OneBalance, AddrAssumption DEF Sound, Accounts
  <2>3. SumOver(Balances(acct')) + burned' = SumOver(InitBalance)
    BY <1>1, <2>1, <2>2
  <2> QED BY <1>1, <2>1, <2>3 DEF MoneyInv
<1>3. CASE value \in Values /\ Begin(limit, value, static)
  <2>1. value \in Nat /\ phase' = "running" /\ burned' = burned
    BY <1>3, ProgramAssumption DEF Begin, history
  <2>2. CASE MovesValue(value)
    <3>1. /\ acctSnaps' = Append(acctSnaps, acct) /\ value <= acct[Caller].balance
          /\ acct' = Transfer(acct, Caller, Entry, value)
      BY <1>3, <2>2 DEF Begin, TakeSnapshots
    <3>2. Sound(acct')
      BY <1>1, <2>1, <3>1, SoundTransfer, AddrAssumption
    <3>3. \A i \in 1 .. Len(acctSnaps') : Sound(acctSnaps'[i])
      BY <1>1, <3>1, SnapshotsSound
    <3> QED BY <1>1, <2>1, <3>2, <3>3, MoneyStep
  <2>3. CASE ~MovesValue(value)
    <3>1. acctSnaps' = acctSnaps /\ acct' = acct
      BY <1>3, <2>3 DEF Begin, snaps
    <3> QED BY <1>1, <2>1, <3>1, MoneyStep
  <2> QED BY <2>2, <2>3
<1> QED BY <1>2, <1>3

LEMMA MoneyOpcode == IInv /\ MoneyInv /\ Step => MoneyInv'
<1> SUFFICES ASSUME IInv, MoneyInv, Step PROVE MoneyInv'
  OBVIOUS
<1>1. /\ Executing /\ phase # "done" /\ phase' # "done" /\ burned' = burned /\ acctSnaps' = acctSnaps
  BY DEF Step, Plain, EmitLog, Sstore, Tstore, Selfdestruct, Executing, snaps, history
<1>2. acct \in Accounts /\ Sound(acct) /\ \A i \in 1 .. Len(acctSnaps) : Sound(acctSnaps[i])
  BY <1>1 DEF MoneyInv, IInv, TypeOK
<1>3. CASE acct' = acct
  BY <1>1, <1>2, <1>3, MoneyStep
<1>4. ASSUME NEW heir \in Addr, Selfdestruct(heir) PROVE MoneyInv'
  <2> DEFINE moved == IF heir = top.addr THEN acct
                      ELSE Transfer(acct, top.addr, heir, acct[top.addr].balance)
  <2>1. top.addr \in Addr
    BY <1>1, TopFacts DEF Executing
  <2>2. acct[top.addr].balance \in Nat
    <3>1. acct[top.addr].balance \in Int /\ acct[top.addr].balance >= 0
      BY <1>2, <2>1 DEF Accounts, Account, Sound, Owned
    <3> QED BY <3>1
  <2>3. moved \in Accounts /\ Sound(moved)
    BY <1>2, <2>1, <2>2, TransferType, SoundTransfer
  <2>4. acct' = [moved EXCEPT ![top.addr].deleted = TRUE]
    BY <1>4 DEF Selfdestruct
  <2> HIDE DEF moved
  <2>5. Sound(acct')
    BY <2>1, <2>3, <2>4, SoundOperations
  <2> QED BY <1>1, <1>2, <2>5, MoneyStep
<1> QED
  BY <1>3, <1>4 DEF Step, Plain, EmitLog, Sstore, Tstore, world

LEMMA MoneyMessage == IInv /\ MoneyInv /\ MessageCalls => MoneyInv'
<1> SUFFICES ASSUME IInv, MoneyInv, NEW m \in Calls,
                    CallRefused(m) \/ CallLeaf(m) \/ CallLeafFails(m) \/ CallStarts(m)
             PROVE  MoneyInv'
  BY DEF MessageCalls
<1>1. MayCall(m) /\ Executing /\ Len(frames) > 0 /\ phase # "done"
  BY DEF CallRefused, CallLeaf, CallLeafFails, CallStarts, MayCall, Executing
<1>2. phase' # "done" /\ burned' = burned
  BY <1>1 DEF CallRefused, CallLeaf, CallLeafFails, CallStarts, history
<1>3. Callee(m) \in Addr /\ m.value \in Nat /\ top.addr \in Addr
  BY <1>1, CallFacts, TopFacts
<1>4. /\ acct \in Accounts /\ acctSnaps \in Seq(Accounts) /\ Sound(acct)
      /\ \A i \in 1 .. Len(acctSnaps) : Sound(acctSnaps[i])
  BY <1>1 DEF MoneyInv, IInv, TypeOK
<1>5. CASE CallRefused(m)
  <2>1. acct' = acct /\ acctSnaps' = acctSnaps
    BY <1>5 DEF CallRefused, world, snaps
  <2> QED BY <1>1, <1>2, <1>4, <2>1, MoneyStep
<1>6. CASE CallLeafFails(m)
  <2>1. Transfer(acct, top.addr, Callee(m), m.value) \in Accounts
    BY <1>3, <1>4, TransferType
  <2>2. acct' = acct /\ acctSnaps' = acctSnaps
    BY <1>4, <1>6, <2>1, RevertAtOnce DEF CallLeafFails
  <2> QED BY <1>1, <1>2, <1>4, <2>2, MoneyStep
<1>7. CASE CallLeaf(m) \/ CallStarts(m)
  <2>1. /\ acctSnaps' = Append(acctSnaps, acct) /\ m.value <= acct[top.addr].balance
        /\ acct' = Transfer(acct, top.addr, Callee(m), m.value)
    BY <1>7 DEF CallLeaf, CallStarts, TakeSnapshots, Accepted
  <2>2. Sound(acct')
    BY <1>3, <1>4, <2>1, SoundTransfer
  <2>3. \A i \in 1 .. Len(acctSnaps') : Sound(acctSnaps'[i])
    BY <1>4, <2>1, SnapshotsSound
  <2> QED BY <1>1, <1>2, <2>2, <2>3, MoneyStep
<1> QED BY <1>5, <1>6, <1>7

LEMMA MoneyCreation == IInv /\ MoneyInv /\ Creations => MoneyInv'
<1> SUFFICES ASSUME IInv, MoneyInv, Creations PROVE MoneyInv'
  OBVIOUS
<1>1. /\ Executing /\ Len(frames) > 0 /\ phase # "done" /\ phase' # "done" /\ burned' = burned
  BY DEF Creations, CreateRejected, CreateRefused, CreateStarts, MayCreate, Executing, history
<1>2. /\ acct \in Accounts /\ Sound(acct) /\ top.addr \in Addr
      /\ \A i \in 1 .. Len(acctSnaps) : Sound(acctSnaps[i])
  BY <1>1, TopFacts DEF MoneyInv, IInv, TypeOK
<1> DEFINE spent == IncrementNonce(acct, top.addr)
<1>3. spent \in Accounts /\ Sound(spent)
  <2>1. 0 \in Int
    OBVIOUS
  <2> QED BY <1>2, <2>1, AccountOperations, SoundOperations
<1>4. CASE CreateRejected
  <2>1. acct' = acct /\ acctSnaps' = acctSnaps
    BY <1>4 DEF CreateRejected, world, snaps
  <2> QED BY <1>1, <1>2, <2>1, MoneyStep
<1>5. ASSUME NEW addr \in Creatable, CreateRefused(addr) PROVE MoneyInv'
  <2>1. acct' = spent /\ acctSnaps' = acctSnaps
    BY <1>5 DEF CreateRefused, snaps
  <2> QED BY <1>1, <1>2, <1>3, <2>1, MoneyStep
<1>6. ASSUME NEW addr \in Creatable, NEW value \in Values, CreateStarts(addr, value) PROVE MoneyInv'
  <2>1. /\ addr \in Addr /\ value \in Nat /\ addr # top.addr /\ value <= acct[top.addr].balance
        /\ acctSnaps' = Append(acctSnaps, spent)
        /\ acct' = Transfer(CreateAccount(spent, addr), top.addr, addr, value)
    BY <1>6, AddrAssumption, ProgramAssumption DEF CreateStarts
  <2>2. spent[top.addr].balance = acct[top.addr].balance
    BY <1>2 DEF IncrementNonce, Accounts, Account
  <2> HIDE DEF spent
  <2> DEFINE made == CreateAccount(spent, addr)
  <2>3. made \in Accounts /\ Sound(made)
    <3>1. 0 \in Int
      OBVIOUS
    <3> QED BY <1>3, <2>1, <3>1, AccountOperations, SoundOperations
  <2>4. made[top.addr] = spent[top.addr]
    BY <1>2, <1>3, <2>1 DEF CreateAccount, Accounts
  <2> HIDE DEF made
  <2>5. Sound(acct')
    BY <1>2, <2>1, <2>2, <2>3, <2>4, SoundTransfer DEF made
  <2>6. \A i \in 1 .. Len(acctSnaps') : Sound(acctSnaps'[i])
    BY <1>3, <2>1, SnapshotsSound
  <2> QED BY <1>1, <2>5, <2>6, MoneyStep
<1> QED BY <1>4, <1>5, <1>6 DEF Creations

LEMMA MoneyReturn == IInv /\ MoneyInv /\ EndFrame => MoneyInv'
<1> SUFFICES ASSUME IInv, MoneyInv, EndFrame PROVE MoneyInv'
  OBVIOUS
<1>1. /\ Executing /\ Len(frames) > 0 /\ phase # "done" /\ phase' # "done" /\ burned' = burned
  BY DEF EndFrame, CallReturns, CreateReturns, FrameFails, InnerFrame, Executing, history
<1>2. /\ acct \in Accounts /\ Sound(acct) /\ top.addr \in Addr
      /\ \A i \in 1 .. Len(acctSnaps) : Sound(acctSnaps[i])
  BY <1>1, TopFacts DEF MoneyInv, IInv, TypeOK
<1>3. CASE CallReturns
  <2>1. acct' = acct /\ acctSnaps' = acctSnaps
    BY <1>3 DEF CallReturns, world, snaps
  <2> QED BY <1>1, <1>2, <2>1, MoneyStep
<1>4. CASE CreateReturns
  <2>1. PICK code \in BOOLEAN : acct' = SetCode(acct, top.addr, code)
    BY <1>4 DEF CreateReturns
  <2>2. Sound(acct') /\ acctSnaps' = acctSnaps
    BY <1>2, <1>4, <2>1, SoundOperations DEF CreateReturns, snaps
  <2> QED BY <1>1, <1>2, <2>2, MoneyStep
<1>5. CASE FrameFails
  <2>1. RevertSnapshots(top) /\ IInv'
    BY <1>5, EndFrameKeeps DEF FrameFails, EndFrame
  <2> QED BY <1>1, <2>1, MoneyReverted, MoneyStep
<1> QED BY <1>3, <1>4, <1>5 DEF EndFrame

LEMMA MoneySettled == IInv /\ MoneyInv /\ EndRun => MoneyInv'
<1> SUFFICES ASSUME IInv, MoneyInv, EndRun PROVE MoneyInv'
  OBVIOUS
<1>1. /\ acct \in Accounts /\ phase # "done" /\ Sound(acct) /\ burned = 0
      /\ \A i \in 1 .. Len(acctSnaps) : Sound(acctSnaps[i])
  BY DEF EndRun, RunReturns, RunFails, Settle, OuterFrame, Executing, MoneyInv, IInv, TypeOK
<1>2. CASE RunReturns
  <2>1. acct' = acct /\ acctSnaps' = acctSnaps /\ phase' # "done" /\ burned' = burned
    BY <1>2 DEF RunReturns, world, snaps, history
  <2> QED BY <1>1, <2>1, MoneyStep
<1>3. CASE RunFails
  <2>1. /\ RevertSnapshots(top) /\ IInv' /\ Len(frames) > 0 /\ phase' # "done" /\ burned' = burned
    BY <1>3, EndRunKeeps DEF RunFails, OuterFrame, Executing, EndRun
  <2> QED BY <1>1, <2>1, MoneyReverted, MoneyStep
<1>4. CASE Settle
  <2>1. PICK burn : /\ acct' = IF burn = 0 THEN acct ELSE Debit(acct, Coinbase, burn)
                    /\ burned' = burn
    BY <1>4 DEF Settle
  <2>2. burn \in Nat
    BY <1>4, <2>1, EndRunKeeps DEF EndRun, IInv, TypeOK
  <2>3. phase' = "done" /\ acctSnaps' = acctSnaps
    BY <1>4 DEF Settle, snaps
  <2>4. SumOver(Balances(acct)) \in Int /\ SumOver(Balances(acct)) = SumOver(InitBalance)
    BY <1>1, OneBalance, AddrAssumption DEF Sound, Accounts
  <2>5. SumOver(Balances(acct')) = SumOver(Balances(acct)) - burn
    <3>1. CASE burn = 0
      BY <2>1, <2>4, <3>1
    <3>2. CASE burn # 0
      <4> DEFINE r == [acct[Coinbase] EXCEPT !.balance = @ - burn, !.exists = TRUE]
      <4>1. acct[Coinbase].balance \in Int /\ acct[Coinbase].balance - burn \in Int
        BY <1>1, <2>2, AddrAssumption DEF Accounts, Account
      <4>2. r \in Account /\ r.balance = acct[Coinbase].balance - burn
        BY <1>1, <4>1, AddrAssumption DEF Accounts, Account
      <4>3. acct' = [acct EXCEPT ![Coinbase] = r]
        BY <2>1, <3>2 DEF Debit
      <4> HIDE DEF r
      <4>4. SumOver(Balances(acct')) = SumOver(Balances(acct)) + r.balance - acct[Coinbase].balance
        BY <1>1, <4>2, <4>3, OneBalance, AddrAssumption
      <4> QED BY <2>2, <2>4, <4>1, <4>2, <4>4
    <3> QED BY <3>1, <3>2
  <2>6. SumOver(Balances(acct')) + burned' = SumOver(InitBalance)
    BY <2>1, <2>2, <2>4, <2>5
  <2> QED BY <1>1, <2>3, <2>6 DEF MoneyInv
<1> QED BY <1>2, <1>3, <1>4 DEF EndRun

\* No call, creation, self-destruct or rollback makes or loses wei (Debit and
\* Credit of the state, the snapshots of opCallCommon and opCreate), and
\* nobody owes any before the base fee is burnt.
THEOREM WeiIsConserved == Spec => []BalancesConserved
<1>1. Init => MoneyInv
  <2> SUFFICES ASSUME Init PROVE MoneyInv
    OBVIOUS
  <2>1. InitBalance \in [Addr -> Nat]
    BY AddrAssumption
  <2>2. Balances(acct) = InitBalance
    BY <2>1 DEF Init, Balances
  <2>3. Owned(acct)
    <3> SUFFICES ASSUME NEW a \in Addr
                 PROVE  acct[a].balance >= 0 /\ (acct[a].exists \/ acct[a].balance = 0)
      BY DEF Owned
    <3>1. InitBalance[a] \in Nat
      BY <2>1
    <3>2. acct[a].balance = InitBalance[a]
      BY DEF Init
    <3>3. InitBalance[a] > 0 => acct[a].exists
      BY DEF Init
    <3> QED BY <3>1, <3>2, <3>3
  <2>4. Len(acctSnaps) = 0
    BY DEF Init
  <2> QED BY <2>2, <2>3, <2>4 DEF Init, MoneyInv, Sound
<1>2. IInv /\ MoneyInv /\ [Next]_vars => MoneyInv'
  <2>1. IInv /\ MoneyInv /\ UNCHANGED vars => MoneyInv'
    BY DEF vars, history, MoneyInv
  <2> QED
    BY <2>1, MoneyStart, MoneyOpcode, MoneyMessage, MoneyCreation, MoneyReturn, MoneySettled
       DEF Next
<1>3. IInv /\ MoneyInv => BalancesConserved
  <2> SUFFICES ASSUME IInv, MoneyInv PROVE BalancesConserved
    OBVIOUS
  <2>1. acct \in Accounts
    BY DEF IInv, TypeOK
  <2>2. SumOver(Balances(acct)) \in Int
    BY <2>1, OneBalance, AddrAssumption DEF Accounts
  <2>3. CASE phase = "done"
    BY <2>3 DEF MoneyInv, BalancesConserved
  <2>4. CASE phase # "done"
    BY <2>2, <2>4 DEF MoneyInv, Sound, Owned, BalancesConserved
  <2> QED BY <2>3, <2>4
<1> QED
  BY <1>1, <1>2, <1>3, Invariance, PTL DEF Spec

=============================================================================
