--------------------------- MODULE ForkCallsProofs ---------------------------
(***************************************************************************)
(* For every chain, every number of goroutines and any upstream failures:  *)
(* what is cached under a block number is what the chain has there, and a  *)
(* call at a numbered block implements BlockCalls.                         *)
(***************************************************************************)
EXTENDS ForkCalls, TLAPS

Contents == Seq(Values)
Bases == [Things -> [now : Contents, original : Contents]]
Entries == [state : [Things -> Contents \cup {Nothing}],
            codes : [Accounts -> Values \cup {Nothing}],
            header : Heights \cup {Nothing}]

Preparing == {"block", "header", "code", "deployed"}

\* A call under way and a look-up.
Calling == [phase : Preparing \cup {"run", "load"}, ref : BlockRef, to : Accounts,
            header : Heights \cup {Nothing}, code : Values \cup {Nothing}, parts : Contents,
            thing : Things \cup {Nothing}, base : Bases, loaded : SUBSET Things,
            bases : Seq(Bases), loadeds : Seq(SUBSET Things), frames : Seq(Nat)]
Looking == [phase : {"found"}, ref : BlockRef, thing : Things, parts : Contents]

Calls == {Idle} \cup Calling \cup Looking

\* The type invariant.
TypeOK ==
  /\ engine \in [mode : {"diff", "pinned"}, block : BlockRef]
  /\ head \in Heights
  /\ cache \in [Keys -> Entries]
  /\ call \in [Clients -> Calls]
  /\ saved \in SUBSET [ref : BlockRef, entry : Entries]

\* What was cached is the chain's at block n.
IsChains(entry, n) ==
  /\ \A x \in Things : entry.state[x] \in {Nothing, Chain[n][x]}
  /\ \A a \in Accounts : entry.codes[a] \in {Nothing, Chain[n][a][CodePart]}
  /\ entry.header \in {Nothing, n}

SavedIsTheChains == \A e \in saved : e.ref.number # NoNumber => IsChains(e.entry, e.ref.number)

\* What is loaded started as the chain has it at block n.
LoadedFrom(base, loaded, n) ==
  \A x \in loaded : base[x].original = Chain[n][x] /\ base[x].now \in Value(x)

\* Every frame of the call has its snapshots, an inner frame later ones.
FramesFit(r) ==
  /\ Len(r.loadeds) = Len(r.bases)
  /\ \A i \in 1 .. Len(r.frames) : r.frames[i] < Len(r.bases)
  /\ \A i, j \in 1 .. Len(r.frames) : i < j => r.frames[i] < r.frames[j]

\* A call at block n got nothing but what the chain has there.
OnChain(r, n) ==
  /\ r.phase # "block" => r.header = n
  /\ r.phase = "deployed" => r.parts = <<Chain[n][r.to][CodePart]>>
  /\ r.phase \in {"run", "load"} => r.code = Chain[n][r.to][CodePart]
  /\ r.phase = "load" =>
       /\ r.thing \in Things \ r.loaded /\ Len(r.parts) <= Parts(r.thing)
       /\ \A i \in 1 .. Len(r.parts) : r.parts[i] = Chain[n][r.thing][i]
  /\ LoadedFrom(r.base, r.loaded, n)
  /\ \A i \in 1 .. Len(r.bases) : LoadedFrom(r.bases[i], r.loadeds[i], n)

\* Nothing is loaded and no frame was entered before the run.
NotBegun(r) == r.loaded = {} /\ r.bases = <<>> /\ r.loadeds = <<>> /\ r.frames = <<>>

CallSound(r) ==
  /\ FramesFit(r)
  /\ r.phase \in Preparing => NotBegun(r)
  /\ r.phase \in {"block", "header", "code", "run"} => r.parts = <<>>
  /\ r.phase = "load" => r.thing \in Things
  /\ r.phase = "deployed" => Len(r.parts) = 1
  /\ r.phase = "header" => r.header \in Heights
  /\ r.ref.number # NoNumber => OnChain(r, r.ref.number)

LookUpSound(r) ==
  /\ r.thing \in Accounts => Len(r.parts) = 1
  /\ r.ref.number # NoNumber =>
       r.parts = IF r.thing \in Accounts THEN <<Chain[r.ref.number][r.thing][CodePart]>>
                 ELSE Chain[r.ref.number][r.thing]

Sound(r) == (r \in Calling => CallSound(r)) /\ (r \in Looking => LookUpSound(r))

\* The inductive invariant.
IInv ==
  /\ TypeOK
  /\ CacheIsTheChains
  /\ SavedIsTheChains
  /\ \A c \in Clients : Sound(call[c])

-----------------------------------------------------------------------------
(* The chain, references and keys.                                         *)

LEMMA ChainFacts ==
  ASSUME NEW n \in Heights, NEW x \in Things
  PROVE  /\ Chain[n][x] \in Value(x) /\ Chain[n][x] \in Contents
         /\ DOMAIN Chain[n] = Things /\ Parts(x) \in {1, 3}
         /\ Len(Chain[n][x]) = Parts(x)
         /\ \A i \in 1 .. Parts(x) : Chain[n][x][i] \in Values
         /\ x \in Accounts => Parts(x) = 3 /\ Chain[n][x][CodePart] \in Values
<1>1. Chain[n][x] \in Value(x) /\ Chain[n] = [y \in Things |-> Chain[n][y]]
  BY ForkCallsAssumption
<1>2. Parts(x) \in {1, 3} /\ (x \in Accounts => Parts(x) = 3)
  BY DEF Parts
<1>3. Chain[n][x] \in [1 .. Parts(x) -> Values]
  BY <1>1 DEF Value
<1>4. Chain[n][x] \in Contents /\ Len(Chain[n][x]) = Parts(x)
  BY <1>2, <1>3 DEF Contents
<1> QED BY <1>1, <1>2, <1>3, <1>4 DEF CodePart

LEMMA Prefix ==
  ASSUME NEW S, NEW s \in Seq(S), NEW k \in 0 .. Len(s)
  PROVE  /\ SubSeq(s, 1, k) \in Seq(S) /\ Len(SubSeq(s, 1, k)) = k
         /\ \A i \in 1 .. k : SubSeq(s, 1, k)[i] = s[i] /\ s[i] \in S
OBVIOUS

LEMMA Front ==
  ASSUME NEW S, NEW s \in Seq(S), s # <<>>
  PROVE  LET f == SubSeq(s, 1, Len(s) - 1)
         IN /\ Len(s) \in Nat \ {0} /\ s[Len(s)] \in S
            /\ f \in Seq(S) /\ Len(f) = Len(s) - 1 /\ Len(f) \in Nat
            /\ \A i \in 1 .. Len(f) : f[i] = s[i]
<1>1. Len(s) \in Nat /\ Len(s) # 0
  OBVIOUS
<1>2. Len(s) - 1 \in 0 .. Len(s)
  BY <1>1
<1> QED BY <1>1, <1>2, Prefix

LEMMA Extended ==
  ASSUME NEW S, NEW s \in Seq(S), NEW v \in S
  PROVE  LET a == Append(s, v)
         IN /\ Len(s) \in Nat /\ a \in Seq(S) /\ Len(a) = Len(s) + 1
            /\ a[Len(s) + 1] = v
            /\ \A i \in 1 .. Len(s) : a[i] = s[i] /\ s[i] \in S
            /\ 1 .. Len(a) = (1 .. Len(s)) \cup {Len(s) + 1}
OBVIOUS

\* Contents of the right length are a value.
LEMMA ValueOfLength ==
  ASSUME NEW x \in Things, NEW v \in Contents, Len(v) = Parts(x)
  PROVE  v \in Value(x) /\ v = [i \in 1 .. Parts(x) |-> v[i]]
<1>1. v \in [1 .. Len(v) -> Values]
  BY DEF Contents
<1> QED BY <1>1 DEF Value

LEMMA RefFacts ==
  /\ 0 \notin Heights /\ Heights \subseteq Nat
  /\ LatestBlock \in BlockRef /\ NoBlock \in BlockRef
  /\ \A n \in Heights : At(n) \in BlockRef
  /\ \A ref \in BlockRef : Normalize(ref) \in BlockRef
<1> Len(Chain) \in Nat
  BY ForkCallsAssumption
<1>1. 0 \notin Heights /\ Heights \subseteq Nat
  BY DEF Heights
<1>2. "latest" \in Tags /\ "" \notin Tags
  BY ForkCallsAssumption
<1>3. LatestBlock \in BlockRef /\ NoBlock \in BlockRef
  BY <1>2 DEF LatestBlock, Tag, NoBlock, BlockRef
<1>4. \A n \in Heights : At(n) \in BlockRef
  BY DEF At, BlockRef
<1>5. \A ref \in BlockRef : Normalize(ref) \in BlockRef
  BY <1>3, <1>4 DEF Normalize, BlockRef
<1> QED BY <1>1, <1>3, <1>4, <1>5

LEMMA NumberKey ==
  ASSUME NEW key, NEW n, key = <<"num", n, "">>
  PROVE  key[1] = "num" /\ key[2] = n
OBVIOUS

LEMMA KeyFacts ==
  ASSUME NEW ref \in BlockRef
  PROVE  /\ CacheKey(ref) \in Keys
         /\ ref.number # NoNumber => CacheKey(ref) = <<"num", ref.number, "">>
         /\ ref.number = NoNumber => CacheKey(ref)[1] = "tag"
         /\ decodeBlockKey(CacheKey(ref)) \in BlockRef
         /\ CacheKey(decodeBlockKey(CacheKey(ref))) = CacheKey(ref)
<1>1. CacheKey(ref) \in Keys
  BY DEF Keys
<1>2. CASE ref.number # NoNumber
  <2>1. ref.number \in Heights
    BY <1>2 DEF BlockRef
  <2>2. CacheKey(ref) = <<"num", ref.number, "">>
    BY <1>2, <2>1, RefFacts DEF CacheKey, Normalize, At, NoNumber
  <2>3. decodeBlockKey(CacheKey(ref)) = At(ref.number)
    <3>1. CacheKey(ref)[1] = "num" /\ CacheKey(ref)[2] = ref.number
      BY <2>2, NumberKey
    <3> QED BY <3>1 DEF decodeBlockKey
  <2>4. CacheKey(At(ref.number)) = <<"num", ref.number, "">>
    BY <1>2 DEF CacheKey, Normalize, At
  <2> QED BY <1>1, <1>2, <2>1, <2>2, <2>3, <2>4, RefFacts
<1>3. CASE ref.number = NoNumber
  <2> DEFINE t == Normalize(ref).tag
  <2>1. Normalize(ref) = Tag(t) /\ t \in Tags
    BY <1>3, ForkCallsAssumption DEF Normalize, LatestBlock, Tag, BlockRef, NoNumber
  <2> HIDE DEF t
  <2>2. CacheKey(ref) = <<"tag", NoNumber, t>>
    BY <2>1 DEF CacheKey, Tag
  <2>3. decodeBlockKey(CacheKey(ref)) = Tag(t)
    BY <2>2 DEF decodeBlockKey
  <2>4. Tag(t) \in BlockRef /\ t # ""
    BY <2>1, ForkCallsAssumption DEF Tag, BlockRef
  <2>5. CacheKey(Tag(t)) = <<"tag", NoNumber, t>>
    BY <2>4 DEF CacheKey, Normalize, Tag
  <2>6. CacheKey(ref)[1] = "tag"
    BY <2>2
  <2> QED BY <1>1, <1>3, <2>2, <2>3, <2>4, <2>5, <2>6
<1> QED BY <1>2, <1>3

\* Two references have one key only if they name one block.
LEMMA KeysDiffer ==
  ASSUME NEW ref \in BlockRef, NEW n \in Heights, CacheKey(ref) = CacheKey(At(n))
  PROVE  ref.number = n
<1>1. At(n) \in BlockRef /\ At(n).number = n /\ n # NoNumber
  BY RefFacts DEF At, NoNumber
<1>2. CacheKey(At(n)) = <<"num", n, "">>
  BY <1>1, KeyFacts
<1>3. CacheKey(ref)[1] = "num" /\ CacheKey(ref)[2] = n
  BY <1>2, NumberKey
<1>4. ref.number # NoNumber
  BY <1>3, KeyFacts
<1>5. CacheKey(ref)[2] = ref.number
  BY <1>4, KeyFacts, NumberKey
<1> QED BY <1>3, <1>5

\* The answer of the node, and what is cached, for a numbered block are the chain's.
LEMMA CachedIsChains ==
  ASSUME TypeOK, CacheIsTheChains, NEW ref \in BlockRef
  PROVE  /\ cache[CacheKey(ref)] \in Entries /\ Answering(ref) \in Heights
         /\ ref.number # NoNumber =>
              IsChains(cache[CacheKey(ref)], ref.number) /\ Answering(ref) = ref.number
<1>1. cache[CacheKey(ref)] \in Entries
  BY KeyFacts DEF TypeOK
<1>2. Answering(ref) \in Heights
  BY DEF TypeOK, Answering, BlockRef
<1>3. ASSUME ref.number # NoNumber
      PROVE  IsChains(cache[CacheKey(ref)], ref.number)
  <2>1. ref.number \in Heights /\ CacheKey(ref) = CacheKey(At(ref.number))
    BY <1>3, KeyFacts, RefFacts DEF BlockRef, At
  <2> QED BY <2>1 DEF CacheIsTheChains, IsChains
<1> QED BY <1>1, <1>2, <1>3 DEF Answering

-----------------------------------------------------------------------------
(* The steps of one call keep it sound.                                    *)

LEMMA ZeroFacts ==
  /\ ZeroBase \in Bases
  /\ \A b \in Bases, x \in Things, v \in Contents : [b EXCEPT ![x] = Seed(v)] \in Bases
<1>1. \A v \in Contents : Seed(v) \in [now : Contents, original : Contents]
  BY DEF Seed
<1>2. ASSUME NEW x \in Things PROVE [i \in 1 .. Parts(x) |-> 0] \in Contents
  <2>1. Parts(x) \in Nat /\ 0 \in Values
    BY ForkCallsAssumption DEF Parts
  <2> QED BY <2>1 DEF Contents
<1> QED BY <1>1, <1>2 DEF ZeroBase, Bases

LEMMA ContentsFacts ==
  /\ <<>> \in Contents
  /\ \A v \in Values : <<v>> \in Contents /\ Len(<<v>>) = 1 /\ <<v>>[1] = v
  /\ \A p \in Contents, v \in Values :
       /\ Append(p, v) \in Contents /\ Len(p) \in Nat /\ Len(Append(p, v)) = Len(p) + 1
       /\ \A i \in 1 .. Len(p) : Append(p, v)[i] = p[i] /\ p[i] \in Values
       /\ Append(p, v)[Len(p) + 1] = v
BY DEF Contents

LEMMA NewCallSound ==
  ASSUME NEW ref \in BlockRef, NEW a \in Accounts
  PROVE  NewCall(ref, a) \in Calling /\ CallSound(NewCall(ref, a))
<1>1. NewCall(ref, a) \in Calling
  BY ZeroFacts DEF NewCall, Calling, Preparing, Contents
<1>2. CallSound(NewCall(ref, a))
  BY DEF NewCall, CallSound, FramesFit, NotBegun, OnChain, LoadedFrom, Preparing
<1> QED BY <1>1, <1>2

LEMMA HeadedSound ==
  ASSUME NEW r \in Calling, CallSound(r), r.phase = "block", NEW h \in Heights,
         r.ref.number # NoNumber => h = r.ref.number
  PROVE  Headed(r, h) \in Calling /\ CallSound(Headed(r, h))
<1>1. Headed(r, h) \in Calling
  BY DEF Headed, Calling, Preparing
<1>2. CallSound(Headed(r, h))
  BY DEF Headed, Calling, CallSound, FramesFit, NotBegun, OnChain, LoadedFrom, Preparing
<1> QED BY <1>1, <1>2

LEMMA CodeStepsSound ==
  ASSUME NEW r \in Calling, CallSound(r), NEW code \in Values,
         r.ref.number # NoNumber => code = Chain[r.ref.number][r.to][CodePart]
  PROVE  /\ r.phase = "header" =>
              [r EXCEPT !.phase = "code"] \in Calling /\ CallSound([r EXCEPT !.phase = "code"])
         /\ r.phase = "code" =>
              LET f == [r EXCEPT !.phase = "deployed", !.parts = <<code>>]
              IN f \in Calling /\ CallSound(f)
         /\ r.phase = "code" =>
              LET k == [r EXCEPT !.phase = "run", !.code = code]
              IN k \in Calling /\ CallSound(k)
         /\ r.phase = "deployed" =>
              LET s == [r EXCEPT !.phase = "run", !.code = code, !.parts = <<>>]
              IN s \in Calling /\ CallSound(s)
<1>1. ASSUME r.phase = "header"
      PROVE  [r EXCEPT !.phase = "code"] \in Calling /\ CallSound([r EXCEPT !.phase = "code"])
  BY <1>1 DEF Calling, CallSound, FramesFit, NotBegun, OnChain, LoadedFrom, Preparing
<1>2. ASSUME r.phase = "code"
      PROVE  LET f == [r EXCEPT !.phase = "deployed", !.parts = <<code>>]
             IN f \in Calling /\ CallSound(f)
  <2> DEFINE f == [r EXCEPT !.phase = "deployed", !.parts = <<code>>]
  <2>1. f \in Calling
    BY <1>2, ContentsFacts DEF Calling, Preparing
  <2>2. f.parts = <<code>> /\ Len(f.parts) = 1
    BY ContentsFacts DEF Calling
  <2>3. /\ f.phase = "deployed" /\ f.base = r.base /\ f.loaded = r.loaded
        /\ f.ref = r.ref /\ f.to = r.to /\ f.header = r.header
        /\ f.bases = r.bases /\ f.loadeds = r.loadeds /\ f.frames = r.frames
    BY DEF Calling
  <2> HIDE DEF f
  <2>4. CallSound(f)
    BY <1>2, <2>2, <2>3 DEF CallSound, FramesFit, NotBegun, OnChain, Preparing
  <2> QED BY <2>1, <2>4 DEF f
<1>3. ASSUME r.phase = "code"
      PROVE  LET k == [r EXCEPT !.phase = "run", !.code = code]
             IN k \in Calling /\ CallSound(k)
  <2> DEFINE k == [r EXCEPT !.phase = "run", !.code = code]
  <2>1. k \in Calling
    BY <1>3 DEF Calling
  <2>2. CallSound(k)
    BY <1>3 DEF Calling, CallSound, FramesFit, NotBegun, OnChain, LoadedFrom, Preparing
  <2> QED BY <2>1, <2>2
<1>4. ASSUME r.phase = "deployed"
      PROVE  LET s == [r EXCEPT !.phase = "run", !.code = code, !.parts = <<>>]
             IN s \in Calling /\ CallSound(s)
  <2> DEFINE s == [r EXCEPT !.phase = "run", !.code = code, !.parts = <<>>]
  <2>1. s \in Calling
    BY <1>4, ContentsFacts DEF Calling, Preparing
  <2>2. CallSound(s)
    BY <1>4 DEF Calling, CallSound, FramesFit, NotBegun, OnChain, LoadedFrom, Preparing
  <2> QED BY <2>1, <2>2
<1> QED BY <1>1, <1>2, <1>3, <1>4

LEMMA LoadedSound ==
  ASSUME NEW r \in Calling, CallSound(r), r.phase \in {"run", "load"},
         NEW x \in Things, NEW value \in Contents,
         r.ref.number # NoNumber => value = Chain[r.ref.number][x]
  PROVE  Loaded(r, x, value) \in Calling /\ CallSound(Loaded(r, x, value))
<1> DEFINE q == Loaded(r, x, value)
           b == [r.base EXCEPT ![x] = Seed(value)]
<1>1. r.base \in Bases /\ r.loaded \in SUBSET Things /\ b \in Bases
  BY ZeroFacts DEF Calling
<1>2. /\ q.phase = "run" /\ q.base = b /\ q.loaded = r.loaded \cup {x}
      /\ q.parts = <<>> /\ q.thing = Nothing
      /\ q.ref = r.ref /\ q.to = r.to /\ q.header = r.header /\ q.code = r.code
      /\ q.bases = r.bases /\ q.loadeds = r.loadeds /\ q.frames = r.frames
  BY DEF Loaded, Calling
<1>3. q \in Calling
  BY <1>1, ContentsFacts DEF Loaded, Calling
<1>4. ASSUME r.ref.number # NoNumber
      PROVE  LoadedFrom(b, r.loaded \cup {x}, r.ref.number)
  <2>1. LoadedFrom(r.base, r.loaded, r.ref.number)
    BY <1>4 DEF CallSound, OnChain
  <2>2. b[x] = Seed(value) /\ \A y \in Things \ {x} : b[y] = r.base[y]
    BY <1>1 DEF Bases
  <2>3. r.ref.number \in Heights
    BY <1>4 DEF Calling, BlockRef
  <2> QED BY <1>1, <1>4, <2>1, <2>2, <2>3, ChainFacts DEF LoadedFrom, Seed
<1> HIDE DEF q, b
<1>5. CallSound(q)
  BY <1>2, <1>4 DEF CallSound, FramesFit, OnChain, Preparing
<1> QED BY <1>3, <1>5 DEF q

LEMMA FetchSound ==
  ASSUME NEW r \in Calling, CallSound(r), NEW x \in Things
  PROVE  /\ r.phase = "run" /\ x \notin r.loaded =>
              LET q == [r EXCEPT !.phase = "load", !.thing = x]
              IN q \in Calling /\ CallSound(q)
         /\ r.phase = "load" /\ Len(r.parts) < Parts(r.thing) =>
              \A v \in Values :
                 (r.ref.number # NoNumber => v = Chain[r.ref.number][r.thing][Len(r.parts) + 1]) =>
                   LET q == [r EXCEPT !.parts = Append(@, v)]
                   IN q \in Calling /\ CallSound(q)
<1>1. ASSUME r.phase = "run", x \notin r.loaded
      PROVE  LET q == [r EXCEPT !.phase = "load", !.thing = x]
             IN q \in Calling /\ CallSound(q)
  <2> DEFINE q == [r EXCEPT !.phase = "load", !.thing = x]
  <2>1. q \in Calling
    BY <1>1 DEF Calling
  <2>2. r.parts = <<>> /\ Len(r.parts) = 0 /\ Parts(x) \in Nat
    BY <1>1 DEF CallSound, Parts
  <2>3. CallSound(q)
    BY <1>1, <2>2 DEF Calling, CallSound, FramesFit, OnChain, Preparing
  <2> QED BY <2>1, <2>3
<1>2. ASSUME r.phase = "load", Len(r.parts) < Parts(r.thing), NEW v \in Values,
             r.ref.number # NoNumber => v = Chain[r.ref.number][r.thing][Len(r.parts) + 1]
      PROVE  LET q == [r EXCEPT !.parts = Append(@, v)]
             IN q \in Calling /\ CallSound(q)
  <2> DEFINE q == [r EXCEPT !.parts = Append(@, v)]
             p == Append(r.parts, v)
  <2>1. r.parts \in Contents /\ Parts(r.thing) \in Nat
    BY DEF Calling, Parts
  <2>2. /\ p \in Contents /\ Len(p) = Len(r.parts) + 1 /\ Len(p) \in Nat /\ Len(p) <= Parts(r.thing)
        /\ \A i \in 1 .. Len(r.parts) : p[i] = r.parts[i]
        /\ p[Len(p)] = v
    BY <1>2, <2>1, ContentsFacts
  <2>3. q \in Calling
    BY <2>2 DEF Calling
  <2>4. /\ q.phase = r.phase /\ q.base = r.base /\ q.loaded = r.loaded
        /\ q.parts = p /\ q.thing = r.thing
        /\ q.ref = r.ref /\ q.to = r.to /\ q.header = r.header /\ q.code = r.code
        /\ q.bases = r.bases /\ q.loadeds = r.loadeds /\ q.frames = r.frames
    BY DEF Calling
  <2> HIDE DEF q, p
  <2>5. ASSUME r.ref.number # NoNumber
        PROVE  \A i \in 1 .. Len(p) : p[i] = Chain[r.ref.number][r.thing][i]
    <3>1. \A i \in 1 .. Len(r.parts) : r.parts[i] = Chain[r.ref.number][r.thing][i]
      BY <1>2, <2>5 DEF CallSound, OnChain
    <3>2. ASSUME NEW i \in 1 .. Len(p) PROVE p[i] = Chain[r.ref.number][r.thing][i]
      <4>1. CASE i \in 1 .. Len(r.parts)
        BY <2>2, <3>1, <4>1
      <4>2. CASE i \notin 1 .. Len(r.parts)
        <5>1. i = Len(r.parts) + 1
          BY <2>1, <2>2, <4>2, ContentsFacts
        <5> QED BY <1>2, <2>2, <2>5, <5>1
      <4> QED BY <4>1, <4>2
    <3> QED BY <3>2
  <2>6. CallSound(q)
    BY <1>2, <2>2, <2>4, <2>5 DEF CallSound, FramesFit, OnChain, Preparing
  <2> QED BY <2>3, <2>6 DEF q
<1> QED BY <1>1, <1>2

LEMMA WriteSound ==
  ASSUME NEW r \in Calling, CallSound(r), r.phase = "run", NEW x \in r.loaded,
         NEW i \in 1 .. Parts(x), NEW v \in Values
  PROVE  LET q == [r EXCEPT !.base[x].now[i] = v]
         IN q \in Calling /\ CallSound(q)
<1> DEFINE q == [r EXCEPT !.base[x].now[i] = v]
           n == [r.base[x].now EXCEPT ![i] = v]
           b == [r.base EXCEPT ![x].now[i] = v]
<1>1. x \in Things /\ r.base \in Bases /\ r.base[x] \in [now : Contents, original : Contents]
  BY DEF Calling, Bases
<1>2. n \in Contents
  <2>1. /\ Len(r.base[x].now) \in Nat
        /\ r.base[x].now \in [1 .. Len(r.base[x].now) -> Values]
    BY <1>1 DEF Contents
  <2>2. n \in [1 .. Len(r.base[x].now) -> Values]
    BY <2>1
  <2> QED BY <2>1, <2>2 DEF Contents
<1>3. /\ b[x].now = n /\ b[x].original = r.base[x].original
      /\ \A y \in Things \ {x} : b[y] = r.base[y]
  BY <1>1 DEF Bases
<1>4. b \in Bases
  <2>1. [r.base[x] EXCEPT !.now = n] \in [now : Contents, original : Contents]
    BY <1>1, <1>2
  <2>2. b = [r.base EXCEPT ![x] = [r.base[x] EXCEPT !.now = n]]
    OBVIOUS
  <2> QED BY <1>1, <2>1, <2>2 DEF Bases
<1>5. q \in Calling
  BY <1>4 DEF Calling
<1>6. /\ q.phase = r.phase /\ q.base = b /\ q.loaded = r.loaded
      /\ q.parts = r.parts /\ q.thing = r.thing
      /\ q.ref = r.ref /\ q.to = r.to /\ q.header = r.header /\ q.code = r.code
      /\ q.bases = r.bases /\ q.loadeds = r.loadeds /\ q.frames = r.frames
  BY DEF Calling
<1>7. ASSUME NEW m, LoadedFrom(r.base, r.loaded, m)
      PROVE  LoadedFrom(b, r.loaded, m)
  <2>1. r.base[x].now \in Value(x) => n \in Value(x)
    BY DEF Value
  <2>2. r.loaded \subseteq Things
    BY DEF Calling
  <2> HIDE DEF n, b
  <2> QED BY <1>1, <1>3, <1>7, <2>1, <2>2 DEF LoadedFrom
<1> HIDE DEF q, b
<1>8. CallSound(q)
  BY <1>6, <1>7 DEF CallSound, FramesFit, OnChain, Preparing
<1> QED BY <1>5, <1>8 DEF q

LEMMA SnapshotSound ==
  ASSUME NEW r \in Calling, CallSound(r), r.phase = "run"
  PROVE  /\ Snapshot(r) \in Calling /\ CallSound(Snapshot(r))
         /\ Snapshot(r).loadeds = Append(r.loadeds, r.loaded)
<1> DEFINE q == Snapshot(r)
           id == Len(r.bases)
<1>1. /\ r.bases \in Seq(Bases) /\ r.base \in Bases /\ r.loadeds \in Seq(SUBSET Things)
      /\ r.loaded \in SUBSET Things /\ r.frames \in Seq(Nat)
      /\ id \in Nat /\ Len(r.loadeds) = id
  BY DEF Calling, CallSound, FramesFit
<1>2. /\ q.phase = r.phase /\ q.base = r.base /\ q.loaded = r.loaded
      /\ q.parts = r.parts /\ q.thing = r.thing
      /\ q.ref = r.ref /\ q.to = r.to /\ q.header = r.header /\ q.code = r.code
      /\ q.bases = Append(r.bases, r.base) /\ q.loadeds = Append(r.loadeds, r.loaded)
      /\ q.frames = Append(r.frames, id)
  BY <1>1 DEF Calling, Snapshot
<1>3. q = [r EXCEPT !.bases = Append(r.bases, r.base), !.loadeds = Append(r.loadeds, r.loaded),
                    !.frames = Append(r.frames, id)]
  BY <1>1 DEF Snapshot
<1>4. /\ Append(r.bases, r.base) \in Seq(Bases)
      /\ Append(r.loadeds, r.loaded) \in Seq(SUBSET Things)
      /\ Append(r.frames, id) \in Seq(Nat)
  BY <1>1
<1>5. q \in Calling
  BY <1>3, <1>4 DEF Calling
<1> HIDE DEF q
<1>6. FramesFit(q)
  <2>1. /\ Len(q.bases) = id + 1 /\ Len(q.loadeds) = id + 1 /\ Len(q.frames) = Len(r.frames) + 1
        /\ q.frames[Len(r.frames) + 1] = id
        /\ \A i \in 1 .. Len(r.frames) : q.frames[i] = r.frames[i] /\ r.frames[i] \in Nat
        /\ Len(r.frames) \in Nat
    BY <1>1, <1>2, SMTT(30)
  <2>2. FramesFit(r)
    BY DEF CallSound
  <2>3. ASSUME NEW i \in 1 .. Len(q.frames) PROVE q.frames[i] < Len(q.bases)
    <3>1. CASE i \in 1 .. Len(r.frames)
      <4>1. r.frames[i] < id /\ r.frames[i] \in Nat /\ q.frames[i] = r.frames[i]
        BY <2>1, <2>2, <3>1 DEF FramesFit
      <4> QED BY <1>1, <2>1, <4>1
    <3>2. CASE i = Len(r.frames) + 1
      BY <1>1, <2>1, <3>2
    <3> QED BY <2>1, <3>1, <3>2
  <2>4. ASSUME NEW i \in 1 .. Len(q.frames), NEW j \in 1 .. Len(q.frames), i < j
        PROVE  q.frames[i] < q.frames[j]
    <3>1. i \in 1 .. Len(r.frames)
      BY <2>1, <2>4
    <3>2. CASE j \in 1 .. Len(r.frames)
      BY <2>1, <2>2, <2>4, <3>1, <3>2 DEF FramesFit
    <3>3. CASE j = Len(r.frames) + 1
      BY <1>1, <2>1, <2>2, <3>1, <3>3 DEF FramesFit
    <3> QED BY <2>1, <3>2, <3>3
  <2> QED BY <2>1, <2>3, <2>4 DEF FramesFit
<1>7. ASSUME r.ref.number # NoNumber PROVE OnChain(q, q.ref.number)
  <2>1. OnChain(r, r.ref.number)
    BY <1>7 DEF CallSound
  <2>2. ASSUME NEW i \in 1 .. Len(q.bases)
        PROVE  LoadedFrom(q.bases[i], q.loadeds[i], q.ref.number)
    <3>1. CASE i \in 1 .. id
      BY <1>1, <1>2, <2>1, <3>1 DEF OnChain
    <3>2. CASE i = id + 1
      BY <1>1, <1>2, <2>1, <3>2 DEF OnChain
    <3> QED BY <1>1, <1>2, <3>1, <3>2
  <2> QED BY <1>2, <2>1, <2>2 DEF OnChain
<1>8. CallSound(q)
  BY <1>2, <1>6, <1>7 DEF CallSound, Preparing
<1> QED BY <1>2, <1>5, <1>8 DEF q

LEMMA ReturnSound ==
  ASSUME NEW r \in Calling, CallSound(r), r.phase = "run", r.frames # <<>>
  PROVE  LET q == [r EXCEPT !.frames = SubSeq(@, 1, Len(@) - 1)]
         IN q \in Calling /\ CallSound(q)
<1> DEFINE f == SubSeq(r.frames, 1, Len(r.frames) - 1)
           q == [r EXCEPT !.frames = f]
<1>1. /\ f \in Seq(Nat) /\ Len(f) = Len(r.frames) - 1 /\ Len(f) \in Nat
      /\ \A i \in 1 .. Len(f) : f[i] = r.frames[i]
  BY Front DEF Calling
<1>2. q \in Calling
  BY <1>1 DEF Calling
<1>3. /\ q.phase = r.phase /\ q.base = r.base /\ q.loaded = r.loaded
      /\ q.parts = r.parts /\ q.thing = r.thing
      /\ q.ref = r.ref /\ q.to = r.to /\ q.header = r.header /\ q.code = r.code
      /\ q.bases = r.bases /\ q.loadeds = r.loadeds /\ q.frames = f
  BY DEF Calling
<1> HIDE DEF q, f
<1>4. FramesFit(q)
  <2>1. FramesFit(r) /\ Len(r.frames) \in Nat
    BY DEF CallSound, Calling
  <2>2. \A i \in 1 .. Len(f) : i \in 1 .. Len(r.frames) /\ q.frames[i] = r.frames[i]
    BY <1>1, <1>3, <2>1, SMTT(30)
  <2>3. Len(q.frames) = Len(f) /\ q.loadeds = r.loadeds /\ q.bases = r.bases
    BY <1>3
  <2> QED BY <2>1, <2>2, <2>3 DEF FramesFit
<1>5. CallSound(q)
  BY <1>3, <1>4 DEF CallSound, OnChain, Preparing
<1> QED BY <1>2, <1>5 DEF q, f

\* Going back to the snapshot of the innermost frame.
LEMMA FailedFacts ==
  ASSUME NEW r \in Calling, CallSound(r), r.frames # <<>>
  PROVE  LET id == r.frames[Len(r.frames)]
             q  == Failed(r)
         IN /\ id \in Nat /\ id < Len(r.bases) /\ Len(r.loadeds) = Len(r.bases)
            /\ q = [r EXCEPT !.base = r.bases[id + 1], !.bases = SubSeq(r.bases, 1, id),
                             !.loaded = r.loadeds[id + 1], !.loadeds = SubSeq(r.loadeds, 1, id),
                             !.phase = "run", !.thing = Nothing, !.parts = <<>>,
                             !.frames = SubSeq(r.frames, 1, Len(r.frames) - 1)]
<1> DEFINE id == r.frames[Len(r.frames)]
<1>1. /\ r.frames \in Seq(Nat) /\ Len(r.frames) \in Nat \ {0}
      /\ r.bases \in Seq(Bases) /\ r.loadeds \in Seq(SUBSET Things)
  BY DEF Calling
<1>2. id \in Nat /\ id < Len(r.bases) /\ Len(r.loadeds) = Len(r.bases)
  BY <1>1 DEF CallSound, FramesFit
<1> HIDE DEF id
<1>3. RevertToSnapshot(r, id) =
        [r EXCEPT !.base = r.bases[id + 1], !.bases = SubSeq(r.bases, 1, id),
                  !.loaded = r.loadeds[id + 1], !.loadeds = SubSeq(r.loadeds, 1, id)]
  BY <1>2 DEF RevertToSnapshot, Calling
<1> QED BY <1>2, <1>3 DEF Failed, Calling, id

LEMMA FailedSound ==
  ASSUME NEW r \in Calling, CallSound(r), r.frames # <<>>, r.phase \in {"run", "load"}
  PROVE  Failed(r) \in Calling /\ CallSound(Failed(r))
<1> DEFINE id == r.frames[Len(r.frames)]
           q == Failed(r)
           f == SubSeq(r.frames, 1, Len(r.frames) - 1)
<1>1. /\ r.frames \in Seq(Nat) /\ Len(r.frames) \in Nat \ {0}
      /\ r.bases \in Seq(Bases) /\ r.loadeds \in Seq(SUBSET Things)
      /\ id \in Nat /\ id < Len(r.bases) /\ Len(r.loadeds) = Len(r.bases)
  BY Front, FailedFacts DEF Calling
<1>2. /\ q.phase = "run" /\ q.base = r.bases[id + 1] /\ q.loaded = r.loadeds[id + 1]
      /\ q.parts = <<>> /\ q.thing = Nothing
      /\ q.ref = r.ref /\ q.to = r.to /\ q.header = r.header /\ q.code = r.code
      /\ q.bases = SubSeq(r.bases, 1, id) /\ q.loadeds = SubSeq(r.loadeds, 1, id) /\ q.frames = f
  BY FailedFacts, ZenonT(30) DEF Calling
<1>3. /\ SubSeq(r.bases, 1, id) \in Seq(Bases) /\ Len(SubSeq(r.bases, 1, id)) = id
      /\ SubSeq(r.loadeds, 1, id) \in Seq(SUBSET Things) /\ Len(SubSeq(r.loadeds, 1, id)) = id
      /\ \A i \in 1 .. id : /\ SubSeq(r.bases, 1, id)[i] = r.bases[i]
                            /\ SubSeq(r.loadeds, 1, id)[i] = r.loadeds[i]
      /\ r.bases[id + 1] \in Bases /\ r.loadeds[id + 1] \in SUBSET Things
  <2>1. id \in 0 .. Len(r.bases) /\ id \in 0 .. Len(r.loadeds) /\ id + 1 \in 1 .. Len(r.bases)
    BY <1>1
  <2> HIDE DEF id
  <2> QED BY <1>1, <2>1, Prefix
<1>4. /\ f \in Seq(Nat) /\ Len(f) = Len(r.frames) - 1 /\ Len(f) \in Nat
      /\ \A i \in 1 .. Len(f) : f[i] = r.frames[i]
  BY <1>1, Front
<1>5. q \in Calling
  <2>1. Failed(r) =
          [r EXCEPT !.base = r.bases[id + 1], !.bases = SubSeq(r.bases, 1, id),
                    !.loaded = r.loadeds[id + 1], !.loadeds = SubSeq(r.loadeds, 1, id),
                    !.phase = "run", !.thing = Nothing, !.parts = <<>>, !.frames = f]
    BY FailedFacts
  <2> HIDE DEF id, f
  <2> QED BY <2>1, <1>3, <1>4, ContentsFacts, ZenonT(30) DEF Calling
<1> HIDE DEF q, f
<1>6. FramesFit(q)
  <2>1. FramesFit(r)
    BY DEF CallSound
  <2>2. \A i \in 1 .. Len(f) : f[i] < id
    <3> SUFFICES ASSUME NEW i \in 1 .. Len(f) PROVE f[i] < id
      OBVIOUS
    <3>1. i < Len(r.frames) /\ i \in 1 .. Len(r.frames) /\ Len(r.frames) \in 1 .. Len(r.frames)
      BY <1>1, <1>4
    <3> HIDE DEF f
    <3> QED BY <1>4, <2>1, <3>1 DEF FramesFit
  <2>3. \A i, j \in 1 .. Len(f) : i < j => f[i] < f[j]
    <3> SUFFICES ASSUME NEW i \in 1 .. Len(f), NEW j \in 1 .. Len(f), i < j PROVE f[i] < f[j]
      OBVIOUS
    <3>1. i \in 1 .. Len(r.frames) /\ j \in 1 .. Len(r.frames)
      BY <1>1, <1>4
    <3> HIDE DEF f
    <3> QED BY <1>4, <2>1, <3>1 DEF FramesFit
  <2> HIDE DEF id
  <2> QED BY <1>2, <1>3, <2>2, <2>3 DEF FramesFit
<1> HIDE DEF id
<1>7. ASSUME r.ref.number # NoNumber PROVE OnChain(q, q.ref.number)
  <2>1. OnChain(r, r.ref.number)
    BY <1>7 DEF CallSound
  <2>2. LoadedFrom(r.bases[id + 1], r.loadeds[id + 1], r.ref.number)
    BY <1>1, <2>1, SMTT(30) DEF OnChain
  <2>3. \A i \in 1 .. id : LoadedFrom(r.bases[i], r.loadeds[i], r.ref.number)
    BY <1>1, <2>1 DEF OnChain
  <2> QED BY <1>2, <1>3, <2>1, <2>2, <2>3 DEF OnChain
<1>8. CallSound(q)
  BY <1>2, <1>6, <1>7 DEF CallSound, Preparing
<1> QED BY <1>5, <1>8 DEF q

-----------------------------------------------------------------------------
(* The steps of the system keep the invariant.                             *)

LEMMA PhaseFacts ==
  /\ Idle \notin Calling /\ Idle \notin Looking
  /\ \A r \in Calling : r \notin Looking
  /\ \A r \in Calls : /\ r.phase \in Preparing \cup {"run", "load"} => r \in Calling
                      /\ r.phase = "found" => r \in Looking
                      /\ r \in Calling => r.ref \in BlockRef /\ r.to \in Accounts
<1>1. \A r \in Calling : r.phase \in Preparing \cup {"run", "load"}
  BY DEF Calling
<1>2. \A r \in Looking : r.phase = "found"
  BY DEF Looking
<1>3. Idle.phase = "idle"
  BY DEF Idle
<1>4. "idle" \notin Preparing \cup {"run", "load"} /\ "found" \notin Preparing \cup {"run", "load"}
  BY DEF Preparing
<1>5. \A r \in Calling : r.ref \in BlockRef /\ r.to \in Accounts
  BY DEF Calling
<1> HIDE DEF Calling, Looking, Preparing, Idle
<1> QED BY <1>1, <1>2, <1>3, <1>4, <1>5 DEF Calls

LEMMA InCall ==
  ASSUME IInv, NEW c \in Clients, call[c].phase \in Preparing \cup {"run", "load"}
  PROVE  call[c] \in Calling /\ CallSound(call[c])
BY PhaseFacts DEF IInv, TypeOK, Sound

LEMMA CallsAreSound ==
  ASSUME NEW r
  PROVE  /\ r \in Calling /\ CallSound(r) => r \in Calls /\ Sound(r)
         /\ r \in Looking /\ LookUpSound(r) => r \in Calls /\ Sound(r)
         /\ Idle \in Calls /\ Sound(Idle)
BY PhaseFacts DEF Calls, Sound

LEMMA OnlyTheCall ==
  ASSUME IInv, NEW c \in Clients, NEW r \in Calls, Sound(r), Becomes(c, r),
         UNCHANGED <<engine, head, cache, saved>>
  PROVE  IInv'
<1>1. call' \in [Clients -> Calls] /\ \A d \in Clients : Sound(call'[d])
  BY DEF IInv, TypeOK, Becomes
<1> QED BY <1>1 DEF IInv, TypeOK, CacheIsTheChains, SavedIsTheChains

LEMMA OneEntry ==
  ASSUME IInv, NEW c \in Clients, NEW r \in Calls, Sound(r), Becomes(c, r),
         UNCHANGED <<engine, head, saved>>,
         NEW ref \in BlockRef, NEW e \in Entries,
         ref.number # NoNumber => IsChains(e, ref.number),
         cache' = [cache EXCEPT ![CacheKey(ref)] = e]
  PROVE  IInv'
<1>1. call' \in [Clients -> Calls] /\ \A d \in Clients : Sound(call'[d])
  BY DEF IInv, TypeOK, Becomes
<1>2. cache' \in [Keys -> Entries]
  BY DEF IInv, TypeOK
<1>3. CacheIsTheChains'
  <2> SUFFICES ASSUME NEW n \in Heights PROVE IsChains(cache'[CacheKey(At(n))], n)
    BY DEF CacheIsTheChains, IsChains
  <2>1. CacheKey(At(n)) \in Keys
    BY RefFacts, KeyFacts
  <2>2. CASE CacheKey(At(n)) = CacheKey(ref)
    <3>1. ref.number = n /\ ref.number # NoNumber
      BY <2>2, KeysDiffer, RefFacts DEF NoNumber
    <3> QED BY <2>1, <2>2, <3>1 DEF IInv, TypeOK
  <2>3. CASE CacheKey(At(n)) # CacheKey(ref)
    BY <2>1, <2>3 DEF IInv, TypeOK, CacheIsTheChains, IsChains
  <2> QED BY <2>2, <2>3
<1> QED BY <1>1, <1>2, <1>3 DEF IInv, TypeOK, SavedIsTheChains

LEMMA RequestFacts ==
  /\ \A param \in Params : decodeBlockRef(param) \in BlockRef
  /\ blockRefs \subseteq BlockRef
  /\ engine.block \in BlockRef =>
       \A ref \in BlockRef : resolveBlockRef(ref) \in BlockRef /\ OrDefault(ref) \in BlockRef
<1>1. \A param \in Params : decodeBlockRef(param) \in BlockRef
  BY RefFacts, ForkCallsAssumption DEF decodeBlockRef
<1>2. blockRefs \subseteq BlockRef
  BY <1>1, RefFacts DEF blockRefs
<1>3. ASSUME engine.block \in BlockRef, NEW ref \in BlockRef
      PROVE  resolveBlockRef(ref) \in BlockRef /\ OrDefault(ref) \in BlockRef
  BY <1>3, RefFacts DEF resolveBlockRef, OrDefault
<1> QED BY <1>1, <1>2, <1>3

LEMMA InitIInv == Init => IInv
<1> SUFFICES ASSUME Init PROVE IInv
  OBVIOUS
<1>1. engine \in [mode : {"diff", "pinned"}, block : BlockRef]
  <2>1. PICK cfg \in Configs : engine = New(cfg)
    BY DEF Init
  <2>2. cfg.mode \in {"", "diff", "pinned"} /\ cfg.block \in BlockRef
    BY ForkCallsAssumption
  <2>3. Normalize(cfg.block) \in BlockRef
    BY <2>2, RefFacts
  <2> QED BY <2>1, <2>2, <2>3 DEF New
<1>2. head \in Heights
  <2>1. Len(Chain) \in Nat \ {0}
    BY ForkCallsAssumption
  <2> QED BY <2>1 DEF Init, Heights
<1>3. Empty \in Entries /\ \A n \in Heights : IsChains(Empty, n)
  BY DEF Empty, Entries, IsChains
<1>4. cache \in [Keys -> Entries] /\ CacheIsTheChains
  <2>1. \A n \in Heights : cache[CacheKey(At(n))] = Empty
    BY RefFacts, KeyFacts DEF Init
  <2> QED BY <1>3, <2>1 DEF Init, CacheIsTheChains, IsChains
<1>5. \A c \in Clients : call[c] = Idle
  BY DEF Init
<1>6. call \in [Clients -> Calls] /\ \A c \in Clients : Sound(call[c])
  BY <1>5, CallsAreSound DEF Init
<1>7. saved = {}
  BY DEF Init
<1> QED BY <1>1, <1>2, <1>4, <1>6, <1>7 DEF IInv, TypeOK, SavedIsTheChains

LEMMA NextIInv == IInv /\ [Next]_vars => IInv'
<1> SUFFICES ASSUME IInv, [Next]_vars PROVE IInv'
  OBVIOUS
<1> USE DEF NoNumber
<1>1. CASE UNCHANGED vars
  BY <1>1 DEF vars, IInv, TypeOK, CacheIsTheChains, SavedIsTheChains
<1>2. CASE NewBlock
  <2>1. head' \in Heights
    <3>1. Len(Chain) \in Nat
      BY ForkCallsAssumption
    <3> QED BY <1>2, <3>1 DEF NewBlock, IInv, TypeOK, Heights
  <2> QED BY <1>2, <2>1 DEF NewBlock, IInv, TypeOK, CacheIsTheChains, SavedIsTheChains
<1>3. CASE ExportState
  <2>1. ASSUME NEW k \in Keys
        PROVE  /\ decodeBlockKey(k) \in BlockRef /\ cache[k] \in Entries
               /\ decodeBlockKey(k).number # NoNumber =>
                    IsChains(cache[k], decodeBlockKey(k).number)
    <3>1. PICK ref \in BlockRef : k = CacheKey(ref)
      BY DEF Keys
    <3>2. decodeBlockKey(k) \in BlockRef /\ CacheKey(decodeBlockKey(k)) = k
      BY <3>1, KeyFacts
    <3> QED BY <3>2, CachedIsChains DEF IInv
  <2>2. saved' = {[ref |-> decodeBlockKey(k), entry |-> cache[k]] : k \in Keys}
    BY <1>3 DEF ExportState
  <2>3. saved' \in SUBSET [ref : BlockRef, entry : Entries]
    BY <2>1, <2>2
  <2>4. SavedIsTheChains'
    BY <2>1, <2>2 DEF SavedIsTheChains
  <2> QED BY <1>3, <2>3, <2>4 DEF ExportState, IInv, TypeOK, CacheIsTheChains
<1>4. CASE ImportState
  <2> DEFINE from(k) == IF \E e \in saved : CacheKey(e.ref) = k
                        THEN (CHOOSE e \in saved : CacheKey(e.ref) = k).entry ELSE Empty
  <2>1. cache' = [k \in Keys |-> from(k)]
    BY <1>4 DEF ImportState
  <2>2. Empty \in Entries /\ \A n \in Heights : IsChains(Empty, n)
    BY DEF Empty, Entries, IsChains
  <2>3. ASSUME NEW k \in Keys
        PROVE  /\ from(k) \in Entries
               /\ \A n \in Heights : k = CacheKey(At(n)) => IsChains(from(k), n)
    <3>1. CASE \E e \in saved : CacheKey(e.ref) = k
      <4> DEFINE e == CHOOSE e \in saved : CacheKey(e.ref) = k
      <4>1. e \in saved /\ CacheKey(e.ref) = k
        BY <3>1
      <4>2. from(k) = e.entry
        BY <3>1
      <4> HIDE DEF e, from
      <4>3. e.ref \in BlockRef /\ e.entry \in Entries
        BY <4>1 DEF IInv, TypeOK
      <4>4. ASSUME NEW n \in Heights, k = CacheKey(At(n)) PROVE IsChains(from(k), n)
        <5>1. e.ref.number = n /\ n # 0
          BY <4>1, <4>3, <4>4, KeysDiffer, RefFacts
        <5> QED BY <4>1, <4>2, <5>1 DEF IInv, SavedIsTheChains
      <4> QED BY <4>2, <4>3, <4>4
    <3>2. CASE ~ \E e \in saved : CacheKey(e.ref) = k
      BY <2>2, <3>2
    <3> QED BY <3>1, <3>2
  <2> HIDE DEF from
  <2>4. cache' \in [Keys -> Entries]
    BY <2>1, <2>3
  <2>5. CacheIsTheChains'
    <3>1. \A n \in Heights : CacheKey(At(n)) \in Keys
      BY RefFacts, KeyFacts
    <3>2. \A n \in Heights : IsChains(cache'[CacheKey(At(n))], n)
      BY <2>1, <2>3, <3>1
    <3> QED BY <3>2 DEF CacheIsTheChains, IsChains
  <2> QED BY <1>4, <2>4, <2>5 DEF ImportState, IInv, TypeOK, SavedIsTheChains
<1>5. ASSUME NEW c \in Clients, NEW param \in Params, NEW a \in Accounts,
             Asks(c, decodeEthCall(param, a))
      PROVE  IInv'
  <2> DEFINE r == NewCall(resolveBlockRef(decodeBlockRef(param)), a)
  <2>1. Becomes(c, r) /\ UNCHANGED <<engine, head, cache, saved>>
    BY <1>5 DEF Asks, decodeEthCall
  <2>2. r \in Calling /\ CallSound(r)
    BY RequestFacts, NewCallSound DEF IInv, TypeOK
  <2> QED BY <2>1, <2>2, CallsAreSound, OnlyTheCall
<1>6. ASSUME NEW c \in Clients, NEW ref \in blockRefs, NEW x \in Things, LookUp(c, ref, x)
      PROVE  IInv'
  <2> DEFINE b == OrDefault(ref)
             parts == IF x \in Accounts THEN <<Chain[Answering(b)][x][CodePart]>>
                      ELSE Chain[Answering(b)][x]
             r == [phase |-> "found", ref |-> b, thing |-> x, parts |-> parts]
  <2>1. Becomes(c, r) /\ UNCHANGED <<engine, head, cache, saved>>
    BY <1>6 DEF LookUp
  <2>2. b \in BlockRef
    BY RequestFacts DEF IInv, TypeOK
  <2>3. Answering(b) \in Heights /\ (b.number # 0 => Answering(b) = b.number)
    BY <2>2, CachedIsChains DEF IInv
  <2> HIDE DEF b
  <2>4. parts \in Contents /\ (x \in Accounts => Len(parts) = 1)
    BY <2>3, ChainFacts, ContentsFacts
  <2>5. b.number # 0 =>
          parts = IF x \in Accounts THEN <<Chain[b.number][x][CodePart]>> ELSE Chain[b.number][x]
    BY <2>3
  <2> HIDE DEF parts
  <2>6. r \in Looking /\ LookUpSound(r)
    BY <2>2, <2>4, <2>5 DEF Looking, LookUpSound, parts
  <2> QED BY <2>1, <2>6, CallsAreSound, OnlyTheCall
<1>7. ASSUME NEW c \in Clients, StoreFound(c)
      PROVE  IInv'
  <2> DEFINE r == call[c]
             x == r.thing
             e == cache[CacheKey(r.ref)]
  <2>1. r \in Looking /\ LookUpSound(r)
    BY <1>7, PhaseFacts DEF StoreFound, IInv, TypeOK, Sound
  <2>2. r.ref \in BlockRef /\ x \in Things /\ r.parts \in Contents
    BY <2>1 DEF Looking
  <2>3. e \in Entries /\ (r.ref.number # 0 => IsChains(e, r.ref.number))
    BY <2>2, CachedIsChains DEF IInv
  <2>4. CacheKey(r.ref) \in Keys /\ cache \in [Keys -> Entries]
    BY <2>2, KeyFacts DEF IInv, TypeOK
  <2>5. Becomes(c, Idle) /\ cache' = Found(r, CacheKey(r.ref)) /\ UNCHANGED <<engine, head, saved>>
    BY <1>7 DEF StoreFound, Key
  <2>6. CASE x \in Accounts
    <3>1. r.parts[1] \in Values
      BY <2>1, <2>2, <2>6, ContentsFacts DEF LookUpSound, Contents
    <3>2. r.ref.number # 0 => r.ref.number \in Heights /\ r.parts = <<Chain[r.ref.number][x][CodePart]>>
      BY <2>1, <2>2, <2>6 DEF LookUpSound, BlockRef
    <3>3. r.ref.number # 0 => r.parts[1] = Chain[r.ref.number][x][CodePart]
      BY <3>2
    <3> DEFINE f == [e EXCEPT !.codes[x] = r.parts[1]]
    <3>4. f \in Entries /\ (r.ref.number # 0 => IsChains(f, r.ref.number))
      <4> DEFINE code == r.parts[1]
      <4> HIDE DEF code, e, r
      <4> QED BY <2>2, <2>3, <2>6, <3>1, <3>2, <3>3 DEF Entries, IsChains, code
    <3>5. cache' = [cache EXCEPT ![CacheKey(r.ref)] = f]
      BY <2>5, <2>6 DEF Found
    <3> HIDE DEF f, r
    <3> QED BY <2>2, <2>5, <3>4, <3>5, CallsAreSound, OneEntry
  <2>7. CASE x \notin Accounts
    <3>1. r.ref.number # 0 => r.ref.number \in Heights /\ r.parts = Chain[r.ref.number][x]
      BY <2>1, <2>2, <2>7 DEF LookUpSound, BlockRef
    <3> DEFINE f == [e EXCEPT !.state[x] = r.parts]
    <3>2. f \in Entries /\ (r.ref.number # 0 => IsChains(f, r.ref.number))
      <4> HIDE DEF e, r
      <4> QED BY <2>2, <2>3, <3>1 DEF Entries, IsChains
    <3>3. cache' = [cache EXCEPT ![CacheKey(r.ref)] = f]
      BY <2>5, <2>7 DEF Found
    <3> HIDE DEF f, r
    <3> QED BY <2>2, <2>5, <3>2, <3>3, CallsAreSound, OneEntry
  <2> QED BY <2>6, <2>7
<1>8. ASSUME NEW c \in Clients, ResolveBlock(c)
      PROVE  IInv'
  <2> DEFINE r == call[c]
             e == cache[Key(c)]
  <2>1. r \in Calling /\ CallSound(r) /\ r.phase = "block"
    BY <1>8, InCall DEF ResolveBlock, Preparing
  <2>2. r.ref \in BlockRef
    BY <2>1 DEF Calling
  <2>3. /\ e \in Entries /\ Answering(r.ref) \in Heights
        /\ r.ref.number # 0 => IsChains(e, r.ref.number) /\ Answering(r.ref) = r.ref.number
    BY <2>2, CachedIsChains DEF IInv, Key
  <2>4. ASSUME NEW h \in Heights, r.ref.number # 0 => h = r.ref.number, Becomes(c, Headed(r, h))
        PROVE  IInv'
    <3>1. Headed(r, h) \in Calling /\ CallSound(Headed(r, h))
      BY <2>1, <2>4, HeadedSound
    <3> QED BY <1>8, <2>4, <3>1, CallsAreSound, OnlyTheCall DEF ResolveBlock
  <2>5. e.header # Nothing => e.header \in Heights /\ (r.ref.number # 0 => e.header = r.ref.number)
    BY <2>3 DEF Entries, IsChains
  <2>6. \/ e.header # Nothing /\ Becomes(c, Headed(r, e.header))
        \/ Becomes(c, Headed(r, Answering(r.ref)))
        \/ Becomes(c, Idle)
    BY <1>8 DEF ResolveBlock
  <2>7. CASE Becomes(c, Idle)
    BY <1>8, <2>7, CallsAreSound, OnlyTheCall DEF ResolveBlock
  <2> HIDE DEF e, r
  <2> QED BY <2>3, <2>4, <2>5, <2>6, <2>7
<1>9. ASSUME NEW c \in Clients, StoreBlock(c)
      PROVE  IInv'
  <2> DEFINE r == call[c]
             q == [r EXCEPT !.phase = "code"]
             e == cache[CacheKey(r.ref)]
             f == [e EXCEPT !.header = r.header]
  <2>1. r \in Calling /\ CallSound(r) /\ r.phase = "header"
    BY <1>9, InCall DEF StoreBlock, Preparing
  <2>2. r.ref \in BlockRef /\ r.to \in Accounts /\ r.header \in Heights
    BY <2>1 DEF Calling, CallSound
  <2>3. r.ref.number # 0 => r.ref.number \in Heights /\ r.header = r.ref.number
    BY <2>1, <2>2 DEF CallSound, OnChain, BlockRef
  <2>4. q \in Calling /\ CallSound(q)
    <3>1. \A n \in Heights : Chain[n][r.to][CodePart] \in Values
      BY <2>2, ChainFacts DEF Things
    <3>2. 0 \in Values
      BY ForkCallsAssumption
    <3> HIDE DEF r
    <3> QED BY <2>1, <2>2, <2>3, <3>1, <3>2, CodeStepsSound
  <2>5. e \in Entries /\ (r.ref.number # 0 => IsChains(e, r.ref.number))
    BY <2>2, CachedIsChains DEF IInv
  <2>6. f \in Entries /\ (r.ref.number # 0 => IsChains(f, r.ref.number))
    BY <2>2, <2>3, <2>5 DEF Entries, IsChains
  <2>7. cache' = [cache EXCEPT ![CacheKey(r.ref)] = f]
    BY <1>9 DEF StoreBlock, Key
  <2>8. Becomes(c, q) /\ UNCHANGED <<engine, head, saved>>
    BY <1>9 DEF StoreBlock
  <2> HIDE DEF f, q, r
  <2> QED BY <2>2, <2>4, <2>6, <2>7, <2>8, CallsAreSound, OneEntry
<1>10. ASSUME NEW c \in Clients, CodeCached(c)
       PROVE  IInv'
  <2> DEFINE r == call[c]
             code == cache[CacheKey(r.ref)].codes[r.to]
             q == [r EXCEPT !.phase = "run", !.code = code]
  <2>1. r \in Calling /\ CallSound(r) /\ r.phase = "code"
    BY <1>10, InCall DEF CodeCached, Preparing
  <2>2. r.ref \in BlockRef /\ r.to \in Accounts
    BY <2>1 DEF Calling
  <2>3. code \in Values /\ (r.ref.number # 0 => code = Chain[r.ref.number][r.to][CodePart])
    <3>1. code # Nothing
      BY <1>10 DEF CodeCached, Key
    <3> QED BY <2>2, <3>1, CachedIsChains DEF IInv, Entries, IsChains
  <2>4. q \in Calling /\ CallSound(q)
    <3> HIDE DEF code, r
    <3> QED BY <2>1, <2>3, CodeStepsSound
  <2>5. Becomes(c, q) /\ UNCHANGED <<engine, head, cache, saved>>
    BY <1>10 DEF CodeCached, Key
  <2> HIDE DEF q
  <2> QED BY <2>4, <2>5, CallsAreSound, OnlyTheCall
<1>11. ASSUME NEW c \in Clients, FetchCode(c)
       PROVE  IInv'
  <2> DEFINE r == call[c]
             code == Chain[Answering(r.ref)][r.to][CodePart]
             q == [r EXCEPT !.phase = "deployed", !.parts = <<code>>]
  <2>1. r \in Calling /\ CallSound(r) /\ r.phase = "code"
    BY <1>11, InCall DEF FetchCode, Preparing
  <2>2. r.ref \in BlockRef /\ r.to \in Accounts /\ r.to \in Things
    BY <2>1 DEF Calling, Things
  <2>3. code \in Values /\ (r.ref.number # 0 => code = Chain[r.ref.number][r.to][CodePart])
    BY <2>2, CachedIsChains, ChainFacts DEF IInv
  <2>4. q \in Calling /\ CallSound(q)
    <3> HIDE DEF code, r
    <3> QED BY <2>1, <2>3, CodeStepsSound
  <2>5. (Becomes(c, q) \/ Becomes(c, Idle)) /\ UNCHANGED <<engine, head, cache, saved>>
    BY <1>11 DEF FetchCode
  <2> HIDE DEF q
  <2> QED BY <2>4, <2>5, CallsAreSound, OnlyTheCall
<1>12. ASSUME NEW c \in Clients, StoreCode(c)
       PROVE  IInv'
  <2> DEFINE r == call[c]
             code == r.parts[1]
             q == [r EXCEPT !.phase = "run", !.code = code, !.parts = <<>>]
             e == cache[CacheKey(r.ref)]
             f == [e EXCEPT !.codes[r.to] = code]
  <2>1. r \in Calling /\ CallSound(r) /\ r.phase = "deployed"
    BY <1>12, InCall DEF StoreCode, Preparing
  <2>2. r.ref \in BlockRef /\ r.to \in Accounts /\ r.to \in Things
    BY <2>1 DEF Calling, Things
  <2>3. code \in Values /\ (r.ref.number # 0 => code = Chain[r.ref.number][r.to][CodePart])
    <3>1. Len(r.parts) = 1 /\ r.parts \in Contents
      BY <2>1 DEF CallSound, Calling
    <3>2. r.ref.number # 0 => r.parts = <<Chain[r.ref.number][r.to][CodePart]>>
      BY <2>1 DEF CallSound, OnChain
    <3>3. code \in Values
      BY <3>1 DEF Contents
    <3> QED BY <3>2, <3>3
  <2>4. q \in Calling /\ CallSound(q)
    <3> HIDE DEF code, r
    <3> QED BY <2>1, <2>3, CodeStepsSound
  <2>5. e \in Entries /\ (r.ref.number # 0 => IsChains(e, r.ref.number))
    BY <2>2, CachedIsChains DEF IInv
  <2>6. f \in Entries /\ (r.ref.number # 0 => IsChains(f, r.ref.number))
    <3> HIDE DEF code, e, r
    <3> QED BY <2>2, <2>3, <2>5 DEF Entries, IsChains
  <2>7. cache' = [cache EXCEPT ![CacheKey(r.ref)] = f]
    BY <1>12 DEF StoreCode, Key
  <2>8. Becomes(c, q) /\ UNCHANGED <<engine, head, saved>>
    BY <1>12 DEF StoreCode
  <2> HIDE DEF f, q, r
  <2> QED BY <2>2, <2>4, <2>6, <2>7, <2>8, CallsAreSound, OneEntry
<1>13. ASSUME NEW c \in Clients, NEW x \in Things, LoadCached(c, x)
       PROVE  IInv'
  <2> DEFINE r == call[c]
             value == cache[CacheKey(r.ref)].state[x]
  <2>1. r \in Calling /\ CallSound(r) /\ r.phase = "run"
    BY <1>13, InCall DEF LoadCached, Preparing
  <2>2. r.ref \in BlockRef
    BY <2>1 DEF Calling
  <2>3. value \in Contents /\ (r.ref.number # 0 => value = Chain[r.ref.number][x])
    <3>1. value # Nothing
      BY <1>13 DEF LoadCached, Key
    <3> QED BY <2>2, <3>1, CachedIsChains DEF IInv, Entries, IsChains
  <2>4. Becomes(c, Loaded(r, x, value)) /\ UNCHANGED <<engine, head, cache, saved>>
    BY <1>13 DEF LoadCached, Key
  <2> HIDE DEF value, r
  <2> QED BY <2>1, <2>3, <2>4, LoadedSound, CallsAreSound, OnlyTheCall
<1>14. ASSUME NEW c \in Clients, NEW x \in Things, Load(c, x)
       PROVE  IInv'
  <2> DEFINE r == call[c]
             q == [r EXCEPT !.phase = "load", !.thing = x]
  <2>1. r \in Calling /\ CallSound(r) /\ r.phase = "run" /\ x \notin r.loaded
    BY <1>14, InCall DEF Load, Preparing
  <2>2. q \in Calling /\ CallSound(q)
    <3> HIDE DEF r
    <3> QED BY <2>1, FetchSound
  <2>3. Becomes(c, q) /\ UNCHANGED <<engine, head, cache, saved>>
    BY <1>14 DEF Load
  <2> HIDE DEF q
  <2> QED BY <2>2, <2>3, CallsAreSound, OnlyTheCall
<1>15. ASSUME NEW c \in Clients, FetchPart(c)
       PROVE  IInv'
  <2> DEFINE r == call[c]
             v == Chain[Answering(r.ref)][r.thing][Len(r.parts) + 1]
             q == [r EXCEPT !.parts = Append(@, v)]
  <2>1. /\ r \in Calling /\ CallSound(r) /\ r.phase = "load" /\ Len(r.parts) < Parts(r.thing)
        /\ Becomes(c, q) /\ UNCHANGED <<engine, head, cache, saved>>
    BY <1>15, InCall DEF FetchPart, Fetching, Preparing
  <2>2. r.ref \in BlockRef /\ r.thing \in Things /\ Len(r.parts) \in Nat /\ Parts(r.thing) \in Nat
    BY <2>1 DEF Calling, CallSound, Contents, Parts
  <2>3. v \in Values /\ (r.ref.number # 0 => v = Chain[r.ref.number][r.thing][Len(r.parts) + 1])
    <3>1. Len(r.parts) + 1 \in 1 .. Parts(r.thing)
      BY <2>1, <2>2
    <3>2. /\ Answering(r.ref) \in Heights
          /\ r.ref.number # 0 => Answering(r.ref) = r.ref.number
      BY <2>2, CachedIsChains DEF IInv
    <3> HIDE DEF r
    <3> QED BY <2>2, <3>1, <3>2, ChainFacts
  <2>4. q \in Calling /\ CallSound(q)
    <3> HIDE DEF r, v
    <3>1. r.thing \in Things
      BY <2>2
    <3> QED BY <2>1, <2>3, <3>1, FetchSound
  <2> HIDE DEF q
  <2> QED BY <2>1, <2>4, CallsAreSound, OnlyTheCall
<1>16. ASSUME NEW c \in Clients, StoreLoaded(c)
       PROVE  IInv'
  <2> DEFINE r == call[c]
             x == r.thing
             value == r.parts
             e == cache[CacheKey(r.ref)]
             codes == IF x \in Accounts /\ value[CodePart] # 0
                      THEN [e.codes EXCEPT ![x] = value[CodePart]] ELSE e.codes
             f == [e EXCEPT !.state[x] = value, !.codes = codes]
  <2>1. /\ r \in Calling /\ CallSound(r) /\ r.phase = "load" /\ Len(value) = Parts(x)
        /\ Becomes(c, Loaded(r, x, value)) /\ UNCHANGED <<engine, head, saved>>
    BY <1>16, InCall DEF StoreLoaded, Preparing
  <2>2. r.ref \in BlockRef /\ x \in Things /\ value \in Contents
    BY <2>1 DEF Calling, CallSound
  <2>3. value \in Value(x) /\ (r.ref.number # 0 => value = Chain[r.ref.number][x])
    <3>1. value \in Value(x) /\ value = [i \in 1 .. Parts(x) |-> value[i]]
      BY <2>1, <2>2, ValueOfLength
    <3>2. ASSUME r.ref.number # 0
          PROVE  value = Chain[r.ref.number][x]
      <4>1. \A i \in 1 .. Parts(x) : value[i] = Chain[r.ref.number][x][i]
        BY <2>1, <3>2 DEF CallSound, OnChain
      <4>2. Chain[r.ref.number][x] \in Value(x)
        BY <2>2, <3>2, ChainFacts DEF BlockRef
      <4> HIDE DEF r
      <4> QED BY <3>1, <4>1, <4>2 DEF Value
    <3> QED BY <3>1, <3>2
  <2>4. e \in Entries /\ (r.ref.number # 0 => IsChains(e, r.ref.number))
    BY <2>2, CachedIsChains DEF IInv
  <2>5. x \in Accounts => value[CodePart] \in Values
    <3>1. x \in Accounts => CodePart \in 1 .. Parts(x)
      BY DEF Parts, CodePart
    <3> HIDE DEF r
    <3> QED BY <2>3, <3>1 DEF Value
  <2>6. f \in Entries /\ (r.ref.number # 0 => IsChains(f, r.ref.number))
    <3> HIDE DEF e, r
    <3>1. codes \in [Accounts -> Values \cup {Nothing}]
      BY <2>4, <2>5 DEF Entries
    <3>2. f \in Entries
      <4> HIDE DEF codes
      <4> QED BY <2>2, <2>4, <3>1 DEF Entries
    <3>3. f.state = [e.state EXCEPT ![x] = value] /\ f.codes = codes /\ f.header = e.header
      <4> HIDE DEF codes
      <4> QED BY <2>4 DEF Entries
    <3>4. ASSUME r.ref.number # 0 PROVE IsChains(f, r.ref.number)
      <4>1. \A y \in Things : f.state[y] \in {Nothing, Chain[r.ref.number][y]}
        BY <2>3, <2>4, <3>3, <3>4 DEF Entries, IsChains
      <4>2. \A a \in Accounts : f.codes[a] \in {Nothing, Chain[r.ref.number][a][CodePart]}
        BY <2>3, <2>4, <3>3, <3>4 DEF Entries, IsChains
      <4> QED BY <2>4, <3>3, <3>4, <4>1, <4>2 DEF IsChains
    <3> QED BY <3>2, <3>4
  <2>7. cache' = [cache EXCEPT ![CacheKey(r.ref)] = f]
    BY <1>16 DEF StoreLoaded, Key
  <2>8. Loaded(r, x, value) \in Calling /\ CallSound(Loaded(r, x, value))
    <3> DEFINE y == x
               v == value
    <3>1. y \in Things /\ v \in Contents /\ (r.ref.number # 0 => v = Chain[r.ref.number][y])
      BY <2>2, <2>3
    <3> HIDE DEF y, v, r
    <3>2. Loaded(r, y, v) \in Calling /\ CallSound(Loaded(r, y, v))
      BY <2>1, <3>1, LoadedSound
    <3> QED BY <3>2 DEF y, v
  <2> HIDE DEF f, r
  <2> QED BY <2>1, <2>2, <2>6, <2>7, <2>8, CallsAreSound, OneEntry
<1>17. ASSUME NEW c \in Clients, LoadFails(c)
       PROVE  IInv'
  <2>1. /\ call[c] \in Calling /\ CallSound(call[c]) /\ call[c].phase = "load"
        /\ UNCHANGED <<engine, head, cache, saved>>
    BY <1>17, InCall DEF LoadFails, Fetching, Preparing
  <2>2. CASE call[c].frames = <<>>
    BY <1>17, <2>1, <2>2, CallsAreSound, OnlyTheCall DEF LoadFails
  <2>3. CASE call[c].frames # <<>>
    <3>1. Failed(call[c]) \in Calling /\ CallSound(Failed(call[c]))
      BY <2>1, <2>3, FailedSound
    <3> QED BY <1>17, <2>1, <2>3, <3>1, CallsAreSound, OnlyTheCall DEF LoadFails
  <2> QED BY <2>2, <2>3
<1>18. ASSUME NEW c \in Clients, NEW w \in Writable, Write(c, w[1], w[2], w[3])
       PROVE  IInv'
  <2> DEFINE q == [call[c] EXCEPT !.base[w[1]].now[w[2]] = w[3]]
  <2>1. /\ call[c] \in Calling /\ CallSound(call[c]) /\ call[c].phase = "run"
        /\ w[1] \in call[c].loaded /\ Becomes(c, q) /\ UNCHANGED <<engine, head, cache, saved>>
    BY <1>18, InCall DEF Write, Preparing
  <2>2. w[2] \in 1 .. Parts(w[1]) /\ w[3] \in Values
    BY ForkCallsAssumption
  <2>3. q \in Calling /\ CallSound(q)
    BY <2>1, <2>2, WriteSound
  <2> HIDE DEF q
  <2> QED BY <2>1, <2>3, CallsAreSound, OnlyTheCall
<1>19. ASSUME NEW c \in Clients, Enter(c)
       PROVE  IInv'
  <2>1. /\ call[c] \in Calling /\ CallSound(call[c]) /\ call[c].phase = "run"
        /\ Becomes(c, Snapshot(call[c])) /\ UNCHANGED <<engine, head, cache, saved>>
    BY <1>19, InCall DEF Enter, Preparing
  <2> QED BY <2>1, SnapshotSound, CallsAreSound, OnlyTheCall
<1>20. ASSUME NEW c \in Clients, Return(c)
       PROVE  IInv'
  <2> DEFINE q == [call[c] EXCEPT !.frames = SubSeq(@, 1, Len(@) - 1)]
  <2>1. /\ call[c] \in Calling /\ CallSound(call[c]) /\ call[c].phase = "run" /\ call[c].frames # <<>>
        /\ Becomes(c, q) /\ UNCHANGED <<engine, head, cache, saved>>
    BY <1>20, InCall DEF Return, Preparing
  <2>2. q \in Calling /\ CallSound(q)
    BY <2>1, ReturnSound
  <2> HIDE DEF q
  <2> QED BY <2>1, <2>2, CallsAreSound, OnlyTheCall
<1>21. ASSUME NEW c \in Clients, FrameFails(c)
       PROVE  IInv'
  <2>1. /\ call[c] \in Calling /\ CallSound(call[c]) /\ call[c].phase = "run" /\ call[c].frames # <<>>
        /\ Becomes(c, Failed(call[c])) /\ UNCHANGED <<engine, head, cache, saved>>
    BY <1>21, InCall DEF FrameFails, Preparing
  <2> QED BY <2>1, FailedSound, CallsAreSound, OnlyTheCall
<1>22. ASSUME NEW c \in Clients, Answer(c)
       PROVE  IInv'
  BY <1>22, CallsAreSound, OnlyTheCall DEF Answer
<1> QED
  BY <1>1, <1>2, <1>3, <1>4, <1>5, <1>6, <1>7, <1>8, <1>9, <1>10, <1>11, <1>12, <1>13, <1>14,
     <1>15, <1>16, <1>17, <1>18, <1>19, <1>20, <1>21, <1>22
     DEF Next

\* The inductive invariant holds of every reachable state.
THEOREM Invariance == Spec => []IInv
BY InitIInv, NextIInv, PTL DEF Spec

\* The type invariant: what the goroutines, the cache and an exported state hold is of
\* the kind the code's types say, however many frames are entered and reverted.
THEOREM TypeCorrect == Spec => []TypeOK
<1>1. IInv => TypeOK
  BY DEF IInv
<1> QED BY <1>1, Invariance, PTL

\* What MemoryStore holds under a block number is what the chain has there, whole,
\* whatever the calls, their failures, look-ups and imports did (cache.go,
\* state_adapter.go).
THEOREM CacheIsTheChainsAlways == Spec => []CacheIsTheChains
<1>1. IInv => CacheIsTheChains
  BY DEF IInv
<1> QED BY <1>1, Invariance, PTL

-----------------------------------------------------------------------------
(* The refinement: what a sound call at block n looks like to BlockCalls.  *)

States == [Things -> Contents]
SavedBy(r, n) ==
  [i \in DOMAIN r.frames |-> Seen(r.bases[r.frames[i] + 1], r.loadeds[r.frames[i] + 1], n)]

CallOf(n, a, now, saves) ==
  [phase |-> "running", header |-> n, code |-> Chain[n][a][CodePart], origin |-> Chain[n],
   now |-> now, saved |-> saves]

views == [c \in Callers |-> View(call[c])]

LEMMA SeenFacts ==
  ASSUME NEW n \in Heights, NEW base, NEW loaded, LoadedFrom(base, loaded, n)
  PROVE  /\ Seen(base, loaded, n) \in States
         /\ [x \in Things |-> IF x \in loaded THEN base[x].original ELSE Chain[n][x]] = Chain[n]
         /\ \A x \in Things : x \in loaded => Seen(base, loaded, n)[x] = base[x].now
         /\ \A x \in Things : x \notin loaded => Seen(base, loaded, n)[x] = Chain[n][x]
<1>1. \A x \in Things : Value(x) \subseteq Contents
  BY DEF Value, Contents, Parts
<1>2. Seen(base, loaded, n) \in States
  BY <1>1, ChainFacts DEF Seen, States, LoadedFrom
<1>3. Chain[n] = [x \in Things |-> Chain[n][x]]
  BY ForkCallsAssumption
<1>4. [x \in Things |-> IF x \in loaded THEN base[x].original ELSE Chain[n][x]] = Chain[n]
  BY <1>3 DEF LoadedFrom
<1> QED BY <1>2, <1>4 DEF Seen

LEMMA SavedFacts ==
  ASSUME NEW r \in Calling, CallSound(r), r.ref.number # NoNumber
  PROVE  LET n == r.ref.number
         IN /\ n \in Heights /\ LoadedFrom(r.base, r.loaded, n)
            /\ SavedBy(r, n) \in Seq(States) /\ Len(SavedBy(r, n)) = Len(r.frames)
            /\ Len(r.frames) \in Nat
            /\ \A i \in 1 .. Len(r.frames) :
                 SavedBy(r, n)[i] = Seen(r.bases[r.frames[i] + 1], r.loadeds[r.frames[i] + 1], n)
<1> DEFINE n == r.ref.number
<1>1. n \in Heights /\ OnChain(r, n) /\ FramesFit(r)
  BY DEF Calling, CallSound, BlockRef
<1>2. r.frames \in Seq(Nat) /\ Len(r.bases) \in Nat
  BY DEF Calling
<1> HIDE DEF n
<1>3. ASSUME NEW i \in 1 .. Len(r.frames)
      PROVE  Seen(r.bases[r.frames[i] + 1], r.loadeds[r.frames[i] + 1], n) \in States
  <2>1. r.frames[i] + 1 \in 1 .. Len(r.bases)
    BY <1>1, <1>2 DEF FramesFit
  <2>2. LoadedFrom(r.bases[r.frames[i] + 1], r.loadeds[r.frames[i] + 1], n)
    BY <1>1, <2>1 DEF OnChain
  <2> QED BY <1>1, <2>2, SeenFacts
<1>4. DOMAIN r.frames = 1 .. Len(r.frames) /\ Len(r.frames) \in Nat
  BY <1>2
<1>5. SavedBy(r, n) \in [1 .. Len(r.frames) -> States]
  BY <1>3, <1>4 DEF SavedBy
<1>6. SavedBy(r, n) \in Seq(States) /\ Len(SavedBy(r, n)) = Len(r.frames)
  BY <1>4, <1>5
<1>7. LoadedFrom(r.base, r.loaded, n)
  BY <1>1 DEF OnChain
<1> QED BY <1>1, <1>4, <1>6, <1>7 DEF SavedBy, n

LEMMA ViewFacts ==
  ASSUME NEW r \in Calling, CallSound(r)
  PROVE  /\ ~Running(r) \/ r.ref.number = NoNumber => View(r) = NoView
         /\ Running(r) /\ r.ref.number # NoNumber =>
              LET n == r.ref.number
              IN View(r) = CallOf(n, r.to, Seen(r.base, r.loaded, n), SavedBy(r, n))
<1>1. ASSUME ~Running(r) \/ r.ref.number = NoNumber
      PROVE  View(r) = NoView
  BY <1>1 DEF View
<1>2. ASSUME Running(r), r.ref.number # NoNumber
      PROVE  LET n == r.ref.number
             IN View(r) = CallOf(n, r.to, Seen(r.base, r.loaded, n), SavedBy(r, n))
  <2> DEFINE n == r.ref.number
  <2>1. n \in Heights /\ OnChain(r, n)
    BY <1>2 DEF Calling, CallSound, BlockRef
  <2>2. r.header = n /\ r.code = Chain[n][r.to][CodePart] /\ LoadedFrom(r.base, r.loaded, n)
    BY <1>2, <2>1 DEF OnChain, Running
  <2>3. [x \in Things |-> IF x \in r.loaded THEN r.base[x].original ELSE Chain[n][x]] = Chain[n]
    BY <2>1, <2>2, SeenFacts
  <2> QED BY <1>2, <2>2, <2>3 DEF View, CallOf, SavedBy
<1> QED BY <1>1, <1>2

LEMMA OtherViews ==
  ASSUME call \in [Clients -> Calls], NEW c \in Clients, NEW r, Becomes(c, r)
  PROVE  /\ c \notin Callers \/ View(r) = View(call[c]) => views' = views
         /\ c \in Callers => views[c] = View(call[c]) /\ views' = [views EXCEPT ![c] = View(r)]
<1>1. \A d \in Callers : call'[d] = IF d = c THEN r ELSE call[d]
  BY ForkCallsAssumption DEF Becomes
<1>2. ASSUME c \notin Callers \/ View(r) = View(call[c])
      PROVE  views' = views
  <2>1. \A d \in Callers : View(call'[d]) = View(call[d])
    BY <1>1, <1>2
  <2> QED BY <2>1 DEF views
<1>3. ASSUME c \in Callers
      PROVE  views[c] = View(call[c]) /\ views' = [views EXCEPT ![c] = View(r)]
  <2>1. \A d \in Callers : View(call'[d]) = IF d = c THEN View(r) ELSE View(call[d])
    BY <1>1
  <2> QED BY <1>3, <2>1 DEF views
<1> QED BY <1>2, <1>3

\* Sequences that agree but for the last element.
LEMMA AppendIs ==
  ASSUME NEW S, NEW s \in Seq(S), NEW t \in Seq(S), Len(t) = Len(s) + 1,
         \A i \in 1 .. Len(s) : t[i] = s[i]
  PROVE  t = Append(s, t[Len(t)]) /\ s = SubSeq(t, 1, Len(t) - 1)
<1>1. Len(s) \in Nat /\ t[Len(t)] \in S
  OBVIOUS
<1>2. t = Append(s, t[Len(t)])
  <2> DEFINE a == Append(s, t[Len(t)])
  <2>1. a \in Seq(S) /\ Len(a) = Len(t) /\ a[Len(t)] = t[Len(t)] /\ \A i \in 1 .. Len(s) : a[i] = t[i]
    BY <1>1
  <2>2. \A i \in 1 .. Len(t) : a[i] = t[i]
    <3> SUFFICES ASSUME NEW i \in 1 .. Len(t) PROVE a[i] = t[i]
      OBVIOUS
    <3>1. CASE i = Len(t)
      BY <2>1, <3>1
    <3>2. CASE i # Len(t)
      BY <1>1, <2>1, <3>2
    <3> QED BY <3>1, <3>2
  <2> HIDE DEF a
  <2> QED BY <2>1, <2>2
<1>3. s = SubSeq(t, 1, Len(t) - 1)
  <2> DEFINE b == SubSeq(t, 1, Len(t) - 1)
  <2>1. Len(t) - 1 \in 0 .. Len(t) /\ Len(t) - 1 = Len(s)
    BY <1>1
  <2>2. b \in Seq(S) /\ Len(b) = Len(s) /\ \A i \in 1 .. Len(s) : b[i] = t[i]
    BY <2>1, Prefix
  <2> HIDE DEF b
  <2>3. b = s
    BY <2>2
  <2> QED BY <2>3 DEF b
<1> QED BY <1>2, <1>3

LEMMA SameView ==
  ASSUME NEW r \in Calling, CallSound(r), NEW q \in Calling, CallSound(q),
         Running(r), Running(q), q.ref = r.ref, q.to = r.to, q.frames = r.frames,
         q.bases = r.bases, q.loadeds = r.loadeds,
         r.ref.number # NoNumber =>
           Seen(q.base, q.loaded, r.ref.number) = Seen(r.base, r.loaded, r.ref.number)
  PROVE  View(q) = View(r)
BY ViewFacts DEF SavedBy

LEMMA LoadedView ==
  ASSUME NEW r \in Calling, CallSound(r), r.phase \in {"run", "load"},
         NEW x \in Things, x \notin r.loaded, NEW value \in Contents,
         r.ref.number # NoNumber => value = Chain[r.ref.number][x]
  PROVE  View(Loaded(r, x, value)) = View(r)
<1> DEFINE q == Loaded(r, x, value)
<1>1. q \in Calling /\ CallSound(q)
  BY LoadedSound
<1>2. /\ q.phase = "run" /\ q.base = [r.base EXCEPT ![x] = Seed(value)]
      /\ q.loaded = r.loaded \cup {x} /\ q.ref = r.ref /\ q.to = r.to
      /\ q.bases = r.bases /\ q.loadeds = r.loadeds /\ q.frames = r.frames
      /\ r.base \in Bases /\ r.loaded \subseteq Things
  BY DEF Loaded, Calling
<1> HIDE DEF q
<1>3. ASSUME r.ref.number # NoNumber
      PROVE  Seen(q.base, q.loaded, r.ref.number) = Seen(r.base, r.loaded, r.ref.number)
  <2>1. q.base[x].now = value /\ \A y \in Things \ {x} : q.base[y] = r.base[y]
    BY <1>2 DEF Bases, Seed
  <2> QED BY <1>2, <1>3, <2>1 DEF Seen
<1>4. View(q) = View(r)
  BY <1>1, <1>2, <1>3, SameView DEF Running
<1> QED BY <1>4 DEF q

LEMMA StartView ==
  ASSUME NEW q \in Calling, CallSound(q), q.phase = "run", NotBegun(q)
  PROVE  \/ View(q) = NoView
         \/ \E n \in 1 .. Len(Chain), a \in Accounts : View(q) = CallOf(n, a, Chain[n], <<>>)
<1>1. CASE q.ref.number = NoNumber
  BY <1>1, ViewFacts
<1>2. CASE q.ref.number # NoNumber
  <2> DEFINE n == q.ref.number
  <2>1. n \in Heights /\ q.to \in Accounts
    BY <1>2 DEF Calling, BlockRef
  <2>2. View(q) = CallOf(n, q.to, Seen(q.base, q.loaded, n), SavedBy(q, n))
    BY <1>2, ViewFacts DEF Running
  <2>3. Seen(q.base, q.loaded, n) = Chain[n]
    <3>1. Chain[n] = [x \in Things |-> Chain[n][x]]
      BY <2>1, ForkCallsAssumption
    <3> QED BY <3>1 DEF Seen, NotBegun
  <2>4. SavedBy(q, n) = <<>>
    BY DEF SavedBy, NotBegun
  <2> HIDE DEF n
  <2> QED BY <2>1, <2>2, <2>3, <2>4 DEF Heights
<1> QED BY <1>1, <1>2

LEMMA WriteView ==
  ASSUME NEW r \in Calling, CallSound(r), r.phase = "run", NEW x \in r.loaded,
         NEW i \in 1 .. Parts(x), NEW v \in Values, r.ref.number # NoNumber
  PROVE  LET q == [r EXCEPT !.base[x].now[i] = v]
         IN /\ View(r).phase = "running" /\ x \in DOMAIN View(r).now
            /\ i \in DOMAIN View(r).now[x]
            /\ View(q) = [View(r) EXCEPT !.now[x][i] = v]
<1> DEFINE q == [r EXCEPT !.base[x].now[i] = v]
           n == r.ref.number
           now == Seen(r.base, r.loaded, n)
<1>1. q \in Calling /\ CallSound(q)
  BY WriteSound
<1>2. /\ q.phase = "run" /\ q.base = [r.base EXCEPT ![x].now[i] = v]
      /\ q.loaded = r.loaded /\ q.ref = r.ref /\ q.to = r.to
      /\ q.bases = r.bases /\ q.loadeds = r.loadeds /\ q.frames = r.frames
      /\ r.base \in Bases /\ r.loaded \subseteq Things
  BY DEF Calling
<1>3. n \in Heights /\ LoadedFrom(r.base, r.loaded, n)
  BY SavedFacts
<1>4. x \in Things /\ now \in States /\ now[x] = r.base[x].now /\ r.base[x].now \in Value(x)
  <2>1. x \in Things
    BY <1>2
  <2>2. r.base[x].now \in Value(x)
    BY <1>3 DEF LoadedFrom
  <2>3. now \in States
    BY <1>3, SeenFacts
  <2>4. now[x] = r.base[x].now
    BY <2>1 DEF Seen
  <2> QED BY <2>1, <2>2, <2>3, <2>4
<1>5. Seen(q.base, q.loaded, n) = [now EXCEPT ![x][i] = v]
  <2>1. /\ q.base[x].now = [r.base[x].now EXCEPT ![i] = v]
        /\ \A y \in Things \ {x} : q.base[y] = r.base[y]
    BY <1>2, <1>4 DEF Bases
  <2> HIDE DEF q, n
  <2>2. now \in [Things -> Contents] /\ Seen(q.base, q.loaded, n) \in [Things -> Contents]
    <3>1. n \in Heights /\ LoadedFrom(q.base, q.loaded, n)
      BY <1>1, <1>2, <1>3, SavedFacts DEF n
    <3> QED BY <1>3, <3>1, SeenFacts DEF States
  <2>3. ASSUME NEW y \in Things
        PROVE  Seen(q.base, q.loaded, n)[y] = [now EXCEPT ![x][i] = v][y]
    <3>1. CASE y = x
      BY <1>2, <1>4, <2>1, <2>2, <3>1 DEF Seen
    <3>2. CASE y # x
      BY <1>2, <1>4, <2>1, <2>2, <3>2 DEF Seen
    <3> QED BY <3>1, <3>2
  <2> HIDE DEF now
  <2>4. DOMAIN [now EXCEPT ![x][i] = v] = Things
    BY <2>2
  <2> QED BY <2>2, <2>3, <2>4
<1>6. View(r) = CallOf(n, r.to, now, SavedBy(r, n))
  BY ViewFacts DEF Running
<1>7. View(q) = CallOf(n, r.to, [now EXCEPT ![x][i] = v], SavedBy(r, n))
  <2> HIDE DEF q
  <2>1. View(q) = CallOf(n, q.to, Seen(q.base, q.loaded, n), SavedBy(q, n))
    BY <1>1, <1>2, ViewFacts DEF Running
  <2>2. SavedBy(q, n) = SavedBy(r, n)
    BY <1>2 DEF SavedBy
  <2> QED BY <1>2, <1>5, <2>1, <2>2
<1>8. x \in DOMAIN now /\ i \in DOMAIN now[x]
  BY <1>4 DEF States, Value
<1> HIDE DEF now, q, n
<1>9. /\ View(r).phase = "running" /\ View(r).now = now
      /\ View(q) = [View(r) EXCEPT !.now[x][i] = v]
  <2> DEFINE saves == SavedBy(r, n)
  <2> HIDE DEF saves
  <2>1. View(r) = CallOf(n, r.to, now, saves)
    BY <1>6 DEF saves
  <2>2. View(q) = CallOf(n, r.to, [now EXCEPT ![x][i] = v], saves)
    BY <1>7 DEF saves
  <2>3. [CallOf(n, r.to, now, saves) EXCEPT !.now[x][i] = v]
          = CallOf(n, r.to, [now EXCEPT ![x][i] = v], saves)
    BY DEF CallOf
  <2>4. CallOf(n, r.to, now, saves).phase = "running" /\ CallOf(n, r.to, now, saves).now = now
    BY DEF CallOf
  <2> QED BY <2>1, <2>2, <2>3, <2>4
<1> QED BY <1>8, <1>9 DEF q

LEMMA EnterView ==
  ASSUME NEW r \in Calling, CallSound(r), r.phase = "run", r.ref.number # NoNumber
  PROVE  /\ View(r).phase = "running"
         /\ View(Snapshot(r)) = [View(r) EXCEPT !.saved = Append(@, View(r).now)]
<1> DEFINE q == Snapshot(r)
           n == r.ref.number
           id == Len(r.bases)
           now == Seen(r.base, r.loaded, n)
<1>1. q \in Calling /\ CallSound(q)
  BY SnapshotSound
<1>2. /\ q.phase = "run" /\ q.base = r.base /\ q.loaded = r.loaded /\ q.ref = r.ref /\ q.to = r.to
      /\ q.bases = Append(r.bases, r.base) /\ q.loadeds = Append(r.loadeds, r.loaded)
      /\ q.frames = Append(r.frames, id)
  BY SnapshotSound DEF Snapshot, Calling
<1>3. /\ r.bases \in Seq(Bases) /\ r.loadeds \in Seq(SUBSET Things) /\ r.frames \in Seq(Nat)
      /\ r.base \in Bases /\ r.loaded \in SUBSET Things /\ id \in Nat /\ Len(r.loadeds) = id
      /\ FramesFit(r)
  BY DEF Calling, CallSound, FramesFit
<1> HIDE DEF q, id
<1>4. /\ q.bases[id + 1] = r.base /\ \A i \in 1 .. id : q.bases[i] = r.bases[i]
      /\ q.loadeds[id + 1] = r.loaded /\ \A i \in 1 .. id : q.loadeds[i] = r.loadeds[i]
  BY <1>2, <1>3, Extended DEF id
<1>5. /\ Len(q.frames) = Len(r.frames) + 1 /\ q.frames[Len(r.frames) + 1] = id
      /\ Len(r.frames) \in Nat
      /\ \A i \in 1 .. Len(r.frames) : q.frames[i] = r.frames[i] /\ r.frames[i] \in Nat
  BY <1>2, <1>3, Extended
<1>6. /\ n \in Heights /\ SavedBy(r, n) \in Seq(States) /\ SavedBy(q, n) \in Seq(States)
      /\ Len(SavedBy(r, n)) = Len(r.frames) /\ Len(SavedBy(q, n)) = Len(q.frames)
      /\ \A i \in 1 .. Len(r.frames) :
           SavedBy(r, n)[i] = Seen(r.bases[r.frames[i] + 1], r.loadeds[r.frames[i] + 1], n)
      /\ \A i \in 1 .. Len(q.frames) :
           SavedBy(q, n)[i] = Seen(q.bases[q.frames[i] + 1], q.loadeds[q.frames[i] + 1], n)
  BY <1>1, <1>2, SavedFacts
<1> HIDE DEF n
<1>7. ASSUME NEW i \in 1 .. Len(r.frames) PROVE SavedBy(q, n)[i] = SavedBy(r, n)[i]
  <2>1. r.frames[i] + 1 \in 1 .. id /\ i \in 1 .. Len(q.frames)
    BY <1>3, <1>5 DEF FramesFit, id
  <2>2. q.bases[r.frames[i] + 1] = r.bases[r.frames[i] + 1]
        /\ q.loadeds[r.frames[i] + 1] = r.loadeds[r.frames[i] + 1]
    BY <1>4, <2>1
  <2> QED BY <1>5, <1>6, <2>1, <2>2
<1>8. SavedBy(q, n)[Len(q.frames)] = now
  <2>1. Len(q.frames) \in 1 .. Len(q.frames) /\ q.frames[Len(q.frames)] = id
    BY <1>5
  <2> QED BY <1>4, <1>6, <2>1
<1> HIDE DEF now
<1>9. SavedBy(q, n) = Append(SavedBy(r, n), now)
  BY <1>5, <1>6, <1>7, <1>8, AppendIs
<1>10. View(r) = CallOf(n, r.to, now, SavedBy(r, n))
  BY ViewFacts DEF Running, n, now
<1>11. View(q) = CallOf(n, r.to, now, SavedBy(q, n))
  BY <1>1, <1>2, ViewFacts DEF Running, n, now
<1> DEFINE saves == SavedBy(r, n)
<1>12. View(q) = CallOf(n, r.to, now, Append(saves, now)) /\ View(r) = CallOf(n, r.to, now, saves)
  BY <1>9, <1>10, <1>11
<1> HIDE DEF saves
<1>13. /\ View(r).phase = "running" /\ View(r).now = now /\ View(r).saved = saves
       /\ [View(r) EXCEPT !.saved = Append(saves, now)] = CallOf(n, r.to, now, Append(saves, now))
  BY <1>12, SMTT(30) DEF CallOf
<1> QED BY <1>12, <1>13 DEF q

\* The frames but the last, with their snapshots.
LEMMA DroppedView ==
  ASSUME NEW r \in Calling, CallSound(r), r.ref.number # NoNumber, r.frames # <<>>,
         NEW q \in Calling, CallSound(q), q.ref = r.ref,
         q.frames = SubSeq(r.frames, 1, Len(r.frames) - 1),
         \A i \in 1 .. Len(r.frames) - 1 :
           /\ q.bases[r.frames[i] + 1] = r.bases[r.frames[i] + 1]
           /\ q.loadeds[r.frames[i] + 1] = r.loadeds[r.frames[i] + 1]
  PROVE  LET s == SavedBy(r, r.ref.number)
         IN s # <<>> /\ SavedBy(q, r.ref.number) = SubSeq(s, 1, Len(s) - 1)
<1> DEFINE n == r.ref.number
<1>1. /\ Len(r.frames) \in Nat \ {0} /\ Len(q.frames) = Len(r.frames) - 1
      /\ \A i \in 1 .. Len(q.frames) : q.frames[i] = r.frames[i]
  BY Front DEF Calling
<1>2. /\ n \in Heights /\ SavedBy(r, n) \in Seq(States) /\ SavedBy(q, n) \in Seq(States)
      /\ Len(SavedBy(r, n)) = Len(r.frames) /\ Len(SavedBy(q, n)) = Len(q.frames)
      /\ \A i \in 1 .. Len(r.frames) :
           SavedBy(r, n)[i] = Seen(r.bases[r.frames[i] + 1], r.loadeds[r.frames[i] + 1], n)
      /\ \A i \in 1 .. Len(q.frames) :
           SavedBy(q, n)[i] = Seen(q.bases[q.frames[i] + 1], q.loadeds[q.frames[i] + 1], n)
  BY SavedFacts
<1> HIDE DEF n
<1>3. ASSUME NEW i \in 1 .. Len(q.frames) PROVE SavedBy(r, n)[i] = SavedBy(q, n)[i]
  <2>1. i \in 1 .. Len(r.frames) /\ i \in 1 .. Len(r.frames) - 1
    BY <1>1
  <2> QED BY <1>1, <1>2, <2>1
<1>4. Len(SavedBy(r, n)) = Len(SavedBy(q, n)) + 1 /\ SavedBy(r, n) # <<>>
  BY <1>1, <1>2
<1>5. SavedBy(q, n) = SubSeq(SavedBy(r, n), 1, Len(SavedBy(r, n)) - 1)
  BY <1>2, <1>3, <1>4, AppendIs
<1> QED BY <1>4, <1>5 DEF n

LEMMA ReturnView ==
  ASSUME NEW r \in Calling, CallSound(r), r.phase = "run", r.frames # <<>>, r.ref.number # NoNumber
  PROVE  LET q == [r EXCEPT !.frames = SubSeq(@, 1, Len(@) - 1)]
         IN /\ View(r).phase = "running" /\ View(r).saved # <<>>
            /\ View(q) = [View(r) EXCEPT !.saved = SubSeq(@, 1, Len(@) - 1)]
<1> DEFINE q == [r EXCEPT !.frames = SubSeq(@, 1, Len(@) - 1)]
           n == r.ref.number
           now == Seen(r.base, r.loaded, n)
           saves == SavedBy(r, n)
<1>1. q \in Calling /\ CallSound(q)
  BY ReturnSound
<1>2. /\ q.phase = "run" /\ q.base = r.base /\ q.loaded = r.loaded /\ q.ref = r.ref /\ q.to = r.to
      /\ q.bases = r.bases /\ q.loadeds = r.loadeds
      /\ q.frames = SubSeq(r.frames, 1, Len(r.frames) - 1)
  BY DEF Calling
<1> HIDE DEF q
<1>3. saves # <<>> /\ SavedBy(q, n) = SubSeq(saves, 1, Len(saves) - 1)
  BY <1>1, <1>2, DroppedView
<1>4. View(r) = CallOf(n, r.to, now, saves)
  BY ViewFacts DEF Running
<1>5. View(q) = CallOf(n, r.to, now, SavedBy(q, n))
  BY <1>1, <1>2, ViewFacts DEF Running
<1> HIDE DEF n, now, saves
<1>6. /\ View(r).phase = "running" /\ View(r).saved = saves
      /\ \A s : [View(r) EXCEPT !.saved = s] = CallOf(n, r.to, now, s)
  BY <1>4 DEF CallOf
<1> QED BY <1>3, <1>5, <1>6 DEF q

LEMMA FailedView ==
  ASSUME NEW r \in Calling, CallSound(r), Running(r), r.frames # <<>>, r.ref.number # NoNumber
  PROVE  /\ View(r).phase = "running" /\ View(r).saved # <<>>
         /\ View(Failed(r)) = [View(r) EXCEPT !.now = View(r).saved[Len(View(r).saved)],
                                              !.saved = SubSeq(@, 1, Len(@) - 1)]
<1> DEFINE q == Failed(r)
           n == r.ref.number
           id == r.frames[Len(r.frames)]
           saves == SavedBy(r, n)
<1>1. q \in Calling /\ CallSound(q)
  BY FailedSound DEF Running
<1>2. /\ q.phase = "run" /\ q.base = r.bases[id + 1] /\ q.loaded = r.loadeds[id + 1]
      /\ q.ref = r.ref /\ q.to = r.to
      /\ q.bases = SubSeq(r.bases, 1, id) /\ q.loadeds = SubSeq(r.loadeds, 1, id)
      /\ q.frames = SubSeq(r.frames, 1, Len(r.frames) - 1)
  BY FailedFacts, ZenonT(30) DEF Calling
<1>3. /\ r.bases \in Seq(Bases) /\ r.loadeds \in Seq(SUBSET Things) /\ r.frames \in Seq(Nat)
      /\ id \in Nat /\ id < Len(r.bases) /\ Len(r.loadeds) = Len(r.bases)
      /\ FramesFit(r)
  BY FailedFacts DEF Calling, CallSound
<1>4. Len(r.frames) \in Nat \ {0}
  BY <1>3
<1> HIDE DEF q
<1>5. ASSUME NEW i \in 1 .. Len(r.frames) - 1
      PROVE  /\ q.bases[r.frames[i] + 1] = r.bases[r.frames[i] + 1]
             /\ q.loadeds[r.frames[i] + 1] = r.loadeds[r.frames[i] + 1]
  <2>1. r.frames[i] \in Nat /\ r.frames[i] < id
    BY <1>3, <1>4, SMTT(30) DEF FramesFit
  <2>2. id \in 0 .. Len(r.bases) /\ id \in 0 .. Len(r.loadeds) /\ r.frames[i] + 1 \in 1 .. id
    BY <1>3, <2>1
  <2> HIDE DEF id
  <2> QED BY <1>2, <1>3, <2>2, Prefix, ZenonT(30)
<1>6. saves # <<>> /\ SavedBy(q, n) = SubSeq(saves, 1, Len(saves) - 1)
  BY <1>1, <1>2, <1>5, DroppedView
<1>7. saves[Len(saves)] = Seen(q.base, q.loaded, n)
  <2>1. Len(saves) = Len(r.frames) /\ Len(r.frames) \in 1 .. Len(r.frames)
    BY <1>4, SavedFacts
  <2> QED BY <1>2, <2>1, SavedFacts
<1>8. View(r) = CallOf(n, r.to, Seen(r.base, r.loaded, n), saves)
  BY ViewFacts
<1>9. View(q) = CallOf(n, r.to, Seen(q.base, q.loaded, n), SavedBy(q, n))
  BY <1>1, <1>2, ViewFacts DEF Running
<1> HIDE DEF n, id, saves
<1> DEFINE now == Seen(r.base, r.loaded, n)
           back == Seen(q.base, q.loaded, n)
           front == SubSeq(saves, 1, Len(saves) - 1)
<1> HIDE DEF now, back
<1>10. View(r) = CallOf(n, r.to, now, saves) /\ View(q) = CallOf(n, r.to, back, front)
  BY <1>6, <1>8, <1>9 DEF now, back
<1>11. View(r).phase = "running" /\ View(r).saved = saves
  BY <1>10 DEF CallOf
<1>12. [View(r) EXCEPT !.now = back, !.saved = front] = CallOf(n, r.to, back, front)
  <2> HIDE DEF front
  <2>1. [CallOf(n, r.to, now, saves) EXCEPT !.now = back] = CallOf(n, r.to, back, saves)
    BY DEF CallOf
  <2>2. [CallOf(n, r.to, back, saves) EXCEPT !.saved = front] = CallOf(n, r.to, back, front)
    BY DEF CallOf
  <2> QED BY <1>10, <2>1, <2>2
<1>13. saves # <<>> /\ saves[Len(saves)] = back
  BY <1>6, <1>7 DEF back
<1> QED BY <1>10, <1>11, <1>12, <1>13 DEF q

\* A call that does not run looks like none.
LEMMA NotRunningView ==
  ASSUME NEW r, ~Running(r)
  PROVE  View(r) = NoView
BY DEF View

LEMMA RefinesInit == Init => Block!Init
<1>1. ~Running(Idle)
  BY DEF Idle, Running
<1>2. ASSUME Init PROVE Block!Init
  <2>1. \A c \in Callers : View(call[c]) = NoView
    BY <1>1, <1>2, NotRunningView, ForkCallsAssumption DEF Init
  <2> QED BY <2>1 DEF Block!Init, Block!NoCall, NoView
<1> QED BY <1>2

\* A step of BlockCalls, in the words of views.
LEMMA BlockSteps ==
  ASSUME NEW c \in Callers
  PROVE  /\ \A n \in 1 .. Len(Chain), a \in Accounts :
              views[c].phase # "running" /\ views' = [views EXCEPT ![c] = CallOf(n, a, Chain[n], <<>>)]
                => Block!Next
         /\ views[c].phase = "running" =>
              /\ \A x \in DOMAIN views[c].now : \A i \in DOMAIN views[c].now[x], v \in Values :
                   views' = [views EXCEPT ![c] = [views[c] EXCEPT !.now[x][i] = v]] => Block!Next
              /\ views' = [views EXCEPT ![c] =
                             [views[c] EXCEPT !.saved = Append(@, views[c].now)]] => Block!Next
              /\ views[c].saved # <<>> =>
                   /\ views' = [views EXCEPT ![c] =
                        [views[c] EXCEPT !.saved = SubSeq(@, 1, Len(@) - 1)]] => Block!Next
                   /\ views' = [views EXCEPT ![c] =
                        [views[c] EXCEPT !.now = views[c].saved[Len(views[c].saved)],
                                         !.saved = SubSeq(@, 1, Len(@) - 1)]] => Block!Next
              /\ views' = [views EXCEPT ![c] = NoView] => Block!Next
<1> USE DEF views
<1>1. ASSUME NEW n \in 1 .. Len(Chain), NEW a \in Accounts,
             views[c].phase # "running", views' = [views EXCEPT ![c] = CallOf(n, a, Chain[n], <<>>)]
      PROVE  Block!Next
  <2>1. Block!Starts(c)
    BY <1>1 DEF Block!Starts, Block!Runs, Block!Becomes, CallOf
  <2> QED BY <2>1 DEF Block!Next
<1>2. ASSUME views[c].phase = "running", NEW x \in DOMAIN views[c].now,
             NEW i \in DOMAIN views[c].now[x], NEW v \in Values,
             views' = [views EXCEPT ![c] = [views[c] EXCEPT !.now[x][i] = v]]
      PROVE  Block!Next
  <2>1. Block!Runs(c) /\ Block!Becomes(c, [views[c] EXCEPT !.now[x][i] = v])
    BY <1>2 DEF Block!Runs, Block!Becomes
  <2>2. Block!Writes(c)
    BY <1>2, <2>1, Zenon DEF Block!Writes
  <2> QED BY <2>2 DEF Block!Next
<1>3. ASSUME views[c].phase = "running",
             views' = [views EXCEPT ![c] = [views[c] EXCEPT !.saved = Append(@, views[c].now)]]
      PROVE  Block!Next
  <2>1. Block!Enters(c)
    BY <1>3 DEF Block!Enters, Block!Runs, Block!Becomes
  <2> QED BY <2>1 DEF Block!Next
<1>4. ASSUME views[c].phase = "running", views[c].saved # <<>>,
             views' = [views EXCEPT ![c] = [views[c] EXCEPT !.saved = SubSeq(@, 1, Len(@) - 1)]]
      PROVE  Block!Next
  <2>1. Block!Returns(c)
    BY <1>4 DEF Block!Returns, Block!Runs, Block!Becomes, Block!Dropped
  <2> QED BY <2>1 DEF Block!Next
<1>5. ASSUME views[c].phase = "running", views[c].saved # <<>>,
             views' = [views EXCEPT ![c] =
                        [views[c] EXCEPT !.now = views[c].saved[Len(views[c].saved)],
                                         !.saved = SubSeq(@, 1, Len(@) - 1)]]
      PROVE  Block!Next
  <2>1. Block!Fails(c)
    BY <1>5 DEF Block!Fails, Block!Runs, Block!Becomes, Block!Dropped
  <2> QED BY <2>1 DEF Block!Next
<1>6. ASSUME views[c].phase = "running", views' = [views EXCEPT ![c] = NoView]
      PROVE  Block!Next
  <2>1. Block!Ends(c)
    BY <1>6 DEF Block!Ends, Block!Runs, Block!Becomes, Block!NoCall, NoView
  <2> QED BY <2>1 DEF Block!Next
<1> QED BY <1>1, <1>2, <1>3, <1>4, <1>5, <1>6

LEMMA RefinesNext == IInv /\ [Next]_vars => Block!Next \/ views' = views
<1> SUFFICES ASSUME IInv, [Next]_vars PROVE Block!Next \/ views' = views
  OBVIOUS
<1> DEFINE Refined == Block!Next \/ views' = views
<1> USE DEF NoNumber
<1>0. call \in [Clients -> Calls] /\ NoView.phase # "running"
  BY DEF IInv, TypeOK, NoView
<1>1. CASE UNCHANGED call
  BY <1>1 DEF views
\* A goroutine that serves no call, or whose call does not run before and after the step.
<1>2. ASSUME NEW c \in Clients, NEW r, Becomes(c, r),
             c \notin Callers \/ View(r) = View(call[c])
      PROVE  Refined
  BY <1>0, <1>2, OtherViews
<1>3. ASSUME NEW c \in Clients, NEW r, Becomes(c, r), ~Running(call[c]), ~Running(r)
      PROVE  Refined
  <2>1. View(r) = View(call[c])
    BY <1>3, NotRunningView
  <2> QED BY <1>2, <1>3, <2>1
\* The end of a call.
<1>4. ASSUME NEW c \in Clients, Becomes(c, Idle)
      PROVE  Refined
  <2>1. View(Idle) = NoView
    BY NotRunningView DEF Idle, Running
  <2>2. CASE c \notin Callers \/ View(call[c]) = NoView
    BY <1>2, <1>4, <2>1, <2>2
  <2>3. CASE c \in Callers /\ View(call[c]) # NoView
    <3>1. Running(call[c])
      BY <2>3, NotRunningView
    <3>2. call[c] \in Calling /\ CallSound(call[c])
      BY <3>1, InCall DEF Running
    <3>3. View(call[c]).phase = "running"
      BY <2>3, <3>2, ViewFacts DEF CallOf
    <3> QED BY <1>0, <1>4, <2>1, <2>3, <3>3, OtherViews, BlockSteps
  <2> QED BY <2>2, <2>3
\* The start of a run.
<1>5. ASSUME NEW c \in Clients, NEW r \in Calling, CallSound(r), r.phase = "run", NotBegun(r),
             ~Running(call[c]), Becomes(c, r)
      PROVE  Refined
  <2>1. View(call[c]) = NoView
    BY <1>5, NotRunningView
  <2>2. CASE c \notin Callers \/ View(r) = NoView
    BY <1>2, <1>5, <2>1, <2>2
  <2>3. CASE c \in Callers /\ View(r) # NoView
    <3>1. PICK n \in 1 .. Len(Chain), a \in Accounts : View(r) = CallOf(n, a, Chain[n], <<>>)
      BY <1>5, <2>3, StartView
    <3>2. views[c].phase # "running" /\ views' = [views EXCEPT ![c] = CallOf(n, a, Chain[n], <<>>)]
      BY <1>0, <1>5, <2>1, <2>3, <3>1, OtherViews
    <3> QED BY <2>3, <3>2, BlockSteps
  <2> QED BY <2>2, <2>3
\* A frame that fails.
<1>6. ASSUME NEW c \in Clients, Running(call[c]), call[c].frames # <<>>, Becomes(c, Failed(call[c]))
      PROVE  Refined
  <2> DEFINE r == call[c]
  <2>1. r \in Calling /\ CallSound(r)
    BY <1>6, InCall DEF Running
  <2>2. Failed(r) \in Calling /\ CallSound(Failed(r)) /\ Failed(r).ref = r.ref
    BY <1>6, <2>1, FailedSound, FailedFacts DEF Running, Calling
  <2>3. CASE c \notin Callers
    BY <1>2, <1>6, <2>3
  <2>4. CASE r.ref.number = 0
    <3>1. View(Failed(r)) = View(r)
      BY <2>1, <2>2, <2>4, ViewFacts
    <3> QED BY <1>2, <1>6, <3>1
  <2>5. CASE c \in Callers /\ r.ref.number # 0
    <3>1. /\ View(r).phase = "running" /\ View(r).saved # <<>>
          /\ View(Failed(r)) = [View(r) EXCEPT !.now = View(r).saved[Len(View(r).saved)],
                                               !.saved = SubSeq(@, 1, Len(@) - 1)]
      BY <1>6, <2>1, <2>5, FailedView
    <3>2. views[c] = View(r) /\ views' = [views EXCEPT ![c] = View(Failed(r))]
      BY <1>0, <1>6, <2>5, OtherViews
    <3> HIDE DEF r
    <3> QED BY <2>5, <3>1, <3>2, BlockSteps
  <2> QED BY <2>3, <2>4, <2>5
<1>7. CASE UNCHANGED vars
  BY <1>1, <1>7 DEF vars
<1>8. CASE NewBlock \/ ExportState \/ ImportState
  BY <1>1, <1>8 DEF NewBlock, ExportState, ImportState
<1>9. ASSUME NEW c \in Clients, NEW param \in Params, NEW a \in Accounts,
             Asks(c, decodeEthCall(param, a))
      PROVE  Refined
  <2> DEFINE r == NewCall(resolveBlockRef(decodeBlockRef(param)), a)
  <2>1. Becomes(c, r) /\ call[c].phase = "idle"
    BY <1>9 DEF Asks, decodeEthCall
  <2>2. ~Running(call[c]) /\ ~Running(r)
    BY <2>1 DEF NewCall, Running
  <2> HIDE DEF r
  <2> QED BY <1>3, <2>1, <2>2
<1>10. ASSUME NEW c \in Clients, NEW ref \in blockRefs, NEW x \in Things, LookUp(c, ref, x)
       PROVE  Refined
  <2>1. ~Running(call[c])
    BY <1>10 DEF LookUp, Running
  <2>2. PICK r : Becomes(c, r) /\ r.phase = "found"
    BY <1>10 DEF LookUp
  <2>3. ~Running(r)
    BY <2>2 DEF Running
  <2> QED BY <1>3, <2>1, <2>2, <2>3
<1>11. ASSUME NEW c \in Clients, StoreFound(c) \/ Answer(c)
       PROVE  Refined
  BY <1>4, <1>11 DEF StoreFound, Answer
<1>12. ASSUME NEW c \in Clients, ResolveBlock(c) \/ StoreBlock(c) \/ FetchCode(c)
       PROVE  Refined
  <2>1. call[c].phase \in Preparing /\ ~Running(call[c])
    BY <1>12 DEF ResolveBlock, StoreBlock, FetchCode, Preparing, Running
  <2>2. call[c] \in Calling
    BY <2>1, InCall
  <2>3. \/ Becomes(c, Idle)
        \/ \E h : Becomes(c, Headed(call[c], h))
        \/ Becomes(c, [call[c] EXCEPT !.phase = "code"])
        \/ \E p : Becomes(c, [call[c] EXCEPT !.phase = "deployed", !.parts = p])
    BY <1>12 DEF ResolveBlock, StoreBlock, FetchCode
  <2>4. /\ \A h : ~Running(Headed(call[c], h))
        /\ ~Running([call[c] EXCEPT !.phase = "code"])
        /\ \A p : ~Running([call[c] EXCEPT !.phase = "deployed", !.parts = p])
    BY <2>2 DEF Headed, Running, Calling
  <2> QED BY <1>3, <1>4, <2>1, <2>3, <2>4
<1>13. ASSUME NEW c \in Clients, CodeCached(c) \/ StoreCode(c)
       PROVE  Refined
  <2>1. call[c].phase \in {"code", "deployed"} /\ ~Running(call[c])
    BY <1>13 DEF CodeCached, StoreCode, Running
  <2>2. call[c] \in Calling /\ CallSound(call[c])
    BY <2>1, InCall DEF Preparing
  <2>3. PICK r : /\ Becomes(c, r)
                 /\ \/ r = [call[c] EXCEPT !.phase = "run", !.code = cache[Key(c)].codes[call[c].to]]
                    \/ r = [call[c] EXCEPT !.phase = "run", !.code = call[c].parts[1], !.parts = <<>>]
    BY <1>13 DEF CodeCached, StoreCode
  <2>4. r.phase = "run" /\ NotBegun(r)
    BY <2>1, <2>2, <2>3 DEF CallSound, NotBegun, Preparing, Calling
  <2>5. r \in Calling /\ CallSound(r)
    <3>1. IInv'
      BY <1>13, NextIInv DEF Next
    <3>2. call'[c] = r
      BY <1>0, <2>3 DEF Becomes
    <3>3. r \in Calls /\ Sound(r)
      BY <3>1, <3>2 DEF IInv, TypeOK
    <3> QED BY <2>4, <3>3, PhaseFacts DEF Sound
  <2> QED BY <1>5, <2>1, <2>3, <2>4, <2>5
<1>14. ASSUME NEW c \in Clients, NEW x \in Things, LoadCached(c, x)
       PROVE  Refined
  <2> DEFINE r == call[c]
             value == cache[CacheKey(r.ref)].state[x]
  <2>1. /\ r \in Calling /\ CallSound(r) /\ r.phase = "run" /\ x \notin r.loaded
        /\ Becomes(c, Loaded(r, x, value))
    BY <1>14, InCall DEF LoadCached, Key
  <2>2. r.ref \in BlockRef
    BY <2>1 DEF Calling
  <2>3. value \in Contents /\ (r.ref.number # 0 => value = Chain[r.ref.number][x])
    <3>1. value # Nothing
      BY <1>14 DEF LoadCached, Key
    <3> QED BY <2>2, <3>1, CachedIsChains DEF IInv, Entries, IsChains
  <2> HIDE DEF value
  <2>4. View(Loaded(r, x, value)) = View(r)
    <3> HIDE DEF r
    <3> QED BY <2>1, <2>3, LoadedView
  <2> QED BY <1>2, <2>1, <2>4
<1>15. ASSUME NEW c \in Clients, StoreLoaded(c)
       PROVE  Refined
  <2> DEFINE r == call[c]
             x == r.thing
             value == r.parts
  <2>1. /\ r \in Calling /\ CallSound(r) /\ r.phase = "load" /\ Len(value) = Parts(x)
        /\ Becomes(c, Loaded(r, x, value))
    BY <1>15, InCall DEF StoreLoaded
  <2>2. x \in Things /\ value \in Contents
    BY <2>1 DEF Calling, CallSound
  <2>3. CASE r.ref.number # 0
    <3>1. x \notin r.loaded /\ r.ref.number \in Heights
      BY <2>1, <2>3 DEF CallSound, OnChain, Calling, BlockRef
    <3>2. value = [i \in 1 .. Parts(x) |-> value[i]] /\ value \in Value(x)
      BY <2>1, <2>2, ValueOfLength
    <3>3. \A i \in 1 .. Parts(x) : value[i] = Chain[r.ref.number][x][i]
      BY <2>1, <2>3 DEF CallSound, OnChain
    <3>4. Chain[r.ref.number][x] \in Value(x)
      BY <2>2, <3>1, ChainFacts
    <3>5. value = Chain[r.ref.number][x]
      <4> HIDE DEF r
      <4> QED BY <3>2, <3>3, <3>4 DEF Value
    <3> DEFINE y == x
               v == value
    <3>6. y \in Things /\ y \notin r.loaded /\ v \in Contents /\ v = Chain[r.ref.number][y]
      BY <2>2, <3>1, <3>5
    <3> HIDE DEF y, v, r
    <3>7. View(Loaded(r, y, v)) = View(r)
      BY <2>1, <3>6, LoadedView
    <3> QED BY <1>2, <2>1, <3>7 DEF y, v, r
  <2>4. CASE r.ref.number = 0
    <3> DEFINE q == Loaded(r, x, value)
    <3>1. q \in Calling /\ CallSound(q)
      <4> DEFINE y == x
                 v == value
      <4>1. y \in Things /\ v \in Contents
        BY <2>2
      <4> HIDE DEF y, v, r
      <4>2. Loaded(r, y, v) \in Calling /\ CallSound(Loaded(r, y, v))
        BY <2>1, <2>4, <4>1, LoadedSound
      <4> QED BY <4>2 DEF y, v
    <3>2. q.ref = r.ref
      BY <2>1 DEF Loaded, Calling
    <3> HIDE DEF q
    <3>3. View(q) = View(r)
      BY <2>1, <2>4, <3>1, <3>2, ViewFacts
    <3> QED BY <1>2, <2>1, <3>3 DEF q
  <2> QED BY <2>3, <2>4
<1>16. ASSUME NEW c \in Clients, NEW r, Becomes(c, r), NEW x \in Things,
              \/ Load(c, x) /\ r = [call[c] EXCEPT !.phase = "load", !.thing = x]
              \/ FetchPart(c) /\ \E p : r = [call[c] EXCEPT !.parts = p]
       PROVE  Refined
  <2> DEFINE o == call[c]
  <2>1. o \in Calling /\ CallSound(o) /\ o.phase \in {"run", "load"}
    BY <1>16, InCall DEF Load, FetchPart, Fetching
  <2>2. /\ r.phase \in {"run", "load"} /\ r.base = o.base /\ r.loaded = o.loaded
        /\ r.ref = o.ref /\ r.to = o.to
        /\ r.bases = o.bases /\ r.loadeds = o.loadeds /\ r.frames = o.frames
    BY <1>16, <2>1 DEF Calling
  <2>3. r \in Calling /\ CallSound(r)
    <3>1. IInv'
      BY <1>16, NextIInv DEF Next
    <3>2. call'[c] = r
      BY <1>0, <1>16 DEF Becomes
    <3>3. r \in Calls /\ Sound(r)
      BY <3>1, <3>2 DEF IInv, TypeOK
    <3> QED BY <2>2, <3>3, PhaseFacts DEF Sound
  <2> HIDE DEF o
  <2>4. View(r) = View(o)
    BY <2>1, <2>2, <2>3, SameView DEF Running
  <2> QED BY <1>2, <1>16, <2>4 DEF o
<1>17. ASSUME NEW c \in Clients, NEW x \in Things, Load(c, x)
       PROVE  Refined
  BY <1>16, <1>17 DEF Load
<1>18. ASSUME NEW c \in Clients, FetchPart(c)
       PROVE  Refined
  <2>1. call[c].thing \in Things
    BY <1>18, InCall DEF FetchPart, Fetching, CallSound
  <2>2. PICK p : Becomes(c, [call[c] EXCEPT !.parts = p])
    BY <1>18 DEF FetchPart
  <2> QED BY <1>16, <1>18, <2>1, <2>2
<1>19. ASSUME NEW c \in Clients, LoadFails(c)
       PROVE  Refined
  <2>1. Running(call[c])
    BY <1>19 DEF LoadFails, Fetching, Running
  <2>2. \/ Becomes(c, Idle)
        \/ call[c].frames # <<>> /\ Becomes(c, Failed(call[c]))
    BY <1>19 DEF LoadFails
  <2> QED BY <1>4, <1>6, <2>1, <2>2
<1>20. ASSUME NEW c \in Clients, FrameFails(c)
       PROVE  Refined
  BY <1>6, <1>20 DEF FrameFails, Running
<1>21. ASSUME NEW c \in Clients, NEW w \in Writable, Write(c, w[1], w[2], w[3])
       PROVE  Refined
  <2> DEFINE r == call[c]
             x == w[1]
             i == w[2]
             v == w[3]
             q == [r EXCEPT !.base[x].now[i] = v]
  <2>1. r \in Calling /\ CallSound(r) /\ r.phase = "run" /\ x \in r.loaded /\ Becomes(c, q)
    BY <1>21, InCall DEF Write
  <2>2. i \in 1 .. Parts(x) /\ v \in Values
    BY ForkCallsAssumption
  <2> HIDE DEF x, i, v
  <2>3. CASE c \notin Callers
    <3> HIDE DEF q
    <3> QED BY <1>2, <2>1, <2>3
  <2>4. CASE r.ref.number = 0
    <3>1. q \in Calling /\ CallSound(q) /\ q.ref = r.ref
      BY <2>1, <2>2, WriteSound DEF Calling
    <3> HIDE DEF q
    <3>2. View(q) = View(r)
      BY <2>1, <2>4, <3>1, ViewFacts
    <3> QED BY <1>2, <2>1, <3>2
  <2>5. CASE c \in Callers /\ r.ref.number # 0
    <3>1. /\ View(r).phase = "running" /\ x \in DOMAIN View(r).now
          /\ i \in DOMAIN View(r).now[x]
          /\ View(q) = [View(r) EXCEPT !.now[x][i] = v]
      BY <2>1, <2>2, <2>5, WriteView
    <3> HIDE DEF q
    <3>2. views[c] = View(r) /\ views' = [views EXCEPT ![c] = View(q)]
      BY <1>0, <2>1, <2>5, OtherViews
    <3> HIDE DEF r
    <3>3. /\ views[c].phase = "running" /\ x \in DOMAIN views[c].now /\ i \in DOMAIN views[c].now[x]
          /\ views' = [views EXCEPT ![c] = [views[c] EXCEPT !.now[x][i] = v]]
      BY <3>1, <3>2
    <3> QED BY <2>2, <2>5, <3>3, BlockSteps
  <2> QED BY <2>3, <2>4, <2>5
<1>22. ASSUME NEW c \in Clients, Enter(c)
       PROVE  Refined
  <2> DEFINE r == call[c]
  <2>1. r \in Calling /\ CallSound(r) /\ r.phase = "run" /\ Becomes(c, Snapshot(r))
    BY <1>22, InCall DEF Enter
  <2>2. CASE c \notin Callers
    BY <1>2, <2>1, <2>2
  <2>3. CASE r.ref.number = 0
    <3>1. Snapshot(r) \in Calling /\ CallSound(Snapshot(r)) /\ Snapshot(r).ref = r.ref
      BY <2>1, SnapshotSound DEF Snapshot, Calling
    <3>2. View(Snapshot(r)) = View(r)
      BY <2>1, <2>3, <3>1, ViewFacts
    <3> QED BY <1>2, <2>1, <3>2
  <2>4. CASE c \in Callers /\ r.ref.number # 0
    <3>1. /\ View(r).phase = "running"
          /\ View(Snapshot(r)) = [View(r) EXCEPT !.saved = Append(@, View(r).now)]
      BY <2>1, <2>4, EnterView
    <3>2. views[c] = View(r) /\ views' = [views EXCEPT ![c] = View(Snapshot(r))]
      BY <1>0, <2>1, <2>4, OtherViews
    <3> HIDE DEF r
    <3> QED BY <2>4, <3>1, <3>2, BlockSteps
  <2> QED BY <2>2, <2>3, <2>4
<1>23. ASSUME NEW c \in Clients, Return(c)
       PROVE  Refined
  <2> DEFINE r == call[c]
             q == [r EXCEPT !.frames = SubSeq(@, 1, Len(@) - 1)]
  <2>1. /\ r \in Calling /\ CallSound(r) /\ r.phase = "run" /\ r.frames # <<>>
        /\ Becomes(c, q)
    BY <1>23, InCall DEF Return
  <2>2. CASE c \notin Callers
    <3> HIDE DEF q
    <3> QED BY <1>2, <2>1, <2>2
  <2>3. CASE r.ref.number = 0
    <3>1. q \in Calling /\ CallSound(q) /\ q.ref = r.ref
      BY <2>1, ReturnSound DEF Calling
    <3> HIDE DEF q
    <3>2. View(q) = View(r)
      BY <2>1, <2>3, <3>1, ViewFacts
    <3> QED BY <1>2, <2>1, <3>2
  <2>4. CASE c \in Callers /\ r.ref.number # 0
    <3>1. /\ View(r).phase = "running" /\ View(r).saved # <<>>
          /\ View(q) = [View(r) EXCEPT !.saved = SubSeq(@, 1, Len(@) - 1)]
      BY <2>1, <2>4, ReturnView
    <3> HIDE DEF q
    <3>2. views[c] = View(r) /\ views' = [views EXCEPT ![c] = View(q)]
      BY <1>0, <2>1, <2>4, OtherViews
    <3> HIDE DEF r
    <3> QED BY <2>4, <3>1, <3>2, BlockSteps
  <2> QED BY <2>2, <2>3, <2>4
<1> QED
  BY <1>7, <1>8, <1>9, <1>10, <1>11, <1>12, <1>13, <1>14, <1>15, <1>17, <1>18, <1>19, <1>20,
     <1>21, <1>22, <1>23
     DEF Next

\* Every call at a numbered block runs on the state the chain had after that block, alone,
\* with what its frames wrote and took back: the loading, the cache, the failing node and
\* the other goroutines do not show (state_adapter.go, engine.go).
THEOREM CallsRunOnTheirBlock == Spec => RunsOnItsBlock
<1>1. Init => Block!Init
  BY RefinesInit
<1>2. IInv /\ [Next]_vars => [Block!Next]_views
  BY RefinesNext
<1> QED BY <1>1, <1>2, Invariance, PTL DEF Spec, RunsOnItsBlock, Block!Spec, views
=============================================================================
