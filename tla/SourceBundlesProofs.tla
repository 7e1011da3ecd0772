------------------------- MODULE SourceBundlesProofs -------------------------
(***************************************************************************)
(* For every set of contracts, every world, any number of clients and any  *)
(* interleaving of requests and calls: no source breakpoint waits for a    *)
(* bundle the session has, but for those named as missed, and one that     *)
(* belongs to one artifact stops the program on its line.                  *)
(***************************************************************************)
EXTENDS SourceBundles, FiniteSetTheorems, WellFoundedInduction, TLAPS

Resolved(bundle, bp) == resolveSourceBreakpointPCs(bundle, bp.file, bp.line, bp.column)

\* A breakpoint has the fields upsertBreakpoint and the resync rely on.
IsBreakpoint(bp) ==
  DOMAIN bp = {"id", "kind", "code", "file", "line", "column", "pcs", "selector", "slot",
               "missed", "misplaced"}

IsList(bps) == bps \in Seq({bps[k] : k \in DOMAIN bps})

\* A resync of the bundle is yet to come to place k.
AwaitsIn(d, k, bundle) ==
  /\ \/ d.op = "kept"
     \/ d.op \in {"resolve", "write"} /\ k \in d.next .. d.last
  /\ d.bundle = bundle

\* What a request is about to store waits only for what no bundle has.
Fresh(bp, bs) == bp.missed \/ \A a \in DOMAIN bs : ~Waits(bp, bs[a])

HandlerOK(d, bs) ==
  /\ d.op \in {"idle", "store", "found", "kept", "resolve", "write"}
  /\ d.op = "store" => DOMAIN d = {"op", "bp"} /\ IsBreakpoint(d.bp) /\ Fresh(d.bp, bs)
  /\ d.op = "write" =>
       DOMAIN d = {"op", "bundle", "enters", "next", "last", "pcs", "place"}
  /\ d.op \in {"resolve", "write"} => d.next \in Nat /\ d.last \in Nat

\* Place k of the list waits for no bundle that is not on its way to it.
Covered(k, bp, bs, ds) ==
  \A a \in DOMAIN bs :
    Waits(bp, bs[a]) => bp.missed \/ \E g \in Handlers : AwaitsIn(ds[g], k, bs[a])

\* The inductive invariant, for a list of breakpoints, the bundles and what
\* the handlers do.
Settled(bps, bs, ds) ==
  /\ IsList(bps)
  /\ \A k \in DOMAIN bps : IsBreakpoint(bps[k]) /\ Covered(k, bps[k], bs, ds)
  /\ \A g \in Handlers : HandlerOK(ds[g], bs)
  /\ ds = [g \in Handlers |-> ds[g]]

IInv == Settled(breakpoints, bundles, doing)

-----------------------------------------------------------------------------
(* Lists.                                                                  *)

LEMMA ListDomain ==
  ASSUME NEW bps, IsList(bps)
  PROVE  Len(bps) \in Nat /\ DOMAIN bps = 1 .. Len(bps)
BY DEF IsList

LEMMA SequenceFacts ==
  ASSUME NEW S, NEW s \in Seq(S)
  PROVE  /\ Len(s) \in Nat /\ DOMAIN s = 1 .. Len(s)
         /\ s = [k \in 1 .. Len(s) |-> s[k]]
         /\ \A k \in DOMAIN s : s[k] \in S
OBVIOUS

LEMMA FunctionIsList ==
  ASSUME NEW n \in Nat, NEW f, f = [k \in 1 .. n |-> f[k]]
  PROVE  IsList(f) /\ Len(f) = n
<1> DEFINE S == {f[k] : k \in DOMAIN f}
<1>1. f \in [1 .. n -> S]
  OBVIOUS
<1> HIDE DEF S
<1>2. f \in Seq(S) /\ Len(f) = n
  BY <1>1
<1> QED BY <1>2 DEF IsList, S

LEMMA AppendIsList ==
  ASSUME NEW bps, IsList(bps), NEW bp
  PROVE  /\ IsList(Append(bps, bp))
         /\ DOMAIN Append(bps, bp) = 1 .. Len(bps) + 1
         /\ \A k \in 1 .. Len(bps) : Append(bps, bp)[k] = bps[k]
         /\ Append(bps, bp)[Len(bps) + 1] = bp
<1> DEFINE S == {bps[k] : k \in DOMAIN bps} \cup {bp}
           new == Append(bps, bp)
           n == Len(bps)
<1>1. n \in Nat /\ DOMAIN bps = 1 .. n
  BY ListDomain
<1>2. bps \in Seq(S) /\ bp \in S
  <2>1. bps \in Seq({bps[k] : k \in DOMAIN bps})
    BY DEF IsList
  <2> QED BY <2>1, <1>1
<1> HIDE DEF S
<1>3. new \in Seq(S) /\ Len(new) = n + 1
  BY <1>2
<1>4. /\ DOMAIN new = 1 .. n + 1
      /\ \A k \in 1 .. n : new[k] = bps[k]
      /\ new[n + 1] = bp
  BY <1>1, <1>2, <1>3
<1>5. IsList(new)
  <2> HIDE DEF new
  <2>1. Len(new) \in Nat /\ new = [k \in 1 .. Len(new) |-> new[k]]
    BY <1>3, SequenceFacts
  <2> QED BY <2>1, FunctionIsList
<1> QED BY <1>4, <1>5

-----------------------------------------------------------------------------
(* Operations on a list.                                                   *)

\* A bundle that goes through a list of n breakpoints, d being the handler's
\* record, comes to each from "next" on.
LEMMA GoesOnAwaits ==
  ASSUME IInv, NEW g \in Handlers, NEW next \in Nat, NEW last \in Nat,
         GoesOn(g, next, last)
  PROVE  /\ doing' = [h \in Handlers |-> doing'[h]]
         /\ \A h \in Handlers : h # g => doing'[h] = doing[h]
         /\ HandlerOK(doing'[g], bundles)
         /\ \A k \in next .. last : AwaitsIn(doing'[g], k, doing[g].bundle)
<1>1. doing = [h \in Handlers |-> doing[h]]
  BY DEF IInv, Settled
<1>2. CASE next > last
  <2>1. doing' = [doing EXCEPT ![g] = Idle]
    BY <1>2 DEF GoesOn, Returns
  <2>2. doing'[g] = Idle
    BY <1>1, <2>1
  <2>3. HandlerOK(doing'[g], bundles)
    BY <2>2 DEF HandlerOK, Idle
  <2>4. next .. last = {}
    BY <1>2
  <2> QED BY <1>1, <2>1, <2>3, <2>4
<1>3. CASE ~(next > last)
  <2>1. doing' = [doing EXCEPT ![g] = Resolves(doing[g], next, last)]
    BY <1>1, <1>3 DEF GoesOn
  <2>2. PICK d : d = doing'[g]
    OBVIOUS
  <2>3. d = Resolves(doing[g], next, last)
    BY <1>1, <2>1, <2>2
  <2>4. d.op = "resolve" /\ d.bundle = doing[g].bundle /\ d.next = next /\ d.last = last
    BY <2>3 DEF Resolves
  <2>5. HandlerOK(d, bundles)
    BY <2>4 DEF HandlerOK
  <2>6. \A k \in next .. last : AwaitsIn(d, k, doing[g].bundle)
    BY <2>4 DEF AwaitsIn
  <2> QED BY <1>1, <2>1, <2>2, <2>5, <2>6
<1> QED
  BY <1>2, <1>3

\* What a handler that is not through has ahead stays ahead; with the list and
\* the bundles the same, every place stays covered, but for those passed.
LEMMA OthersCover ==
  ASSUME IInv, NEW g \in Handlers, NEW k \in DOMAIN breakpoints,
         \A h \in Handlers : h # g => doing'[h] = doing[h],
         \A b : AwaitsIn(doing[g], k, b) => AwaitsIn(doing'[g], k, b)
  PROVE  Covered(k, breakpoints[k], bundles, doing')
<1>1. Covered(k, breakpoints[k], bundles, doing)
  BY DEF IInv, Settled
<1>2. \A b : (\E h \in Handlers : AwaitsIn(doing[h], k, b))
               => \E h \in Handlers : AwaitsIn(doing'[h], k, b)
  OBVIOUS
<1> QED
  BY <1>1, <1>2 DEF Covered

\* A request for a source breakpoint without an address is kept waiting only
\* when no bundle has its line.
LEMMA NewWaits ==
  ASSUME NEW request \in BreakpointRequests, NEW bp \in NewBreakpoints(request)
  PROVE  IsBreakpoint(bp) /\ Fresh(bp, bundles)
<1>1. request.kind \in {"source", "function", "call", "storage", "memory"}
  BY RequestAssumption
<1>2. CASE request.kind = "source"
  <2> DEFINE resolving == {k \in DOMAIN bundles : PCsIn(k, request) # {}}
             keys == IF request.address = NoAddress THEN resolving
                     ELSE resolving \cap {request.address}
  <2>1. bp \in SourceBreakpoints(request)
    BY <1>2 DEF NewBreakpoints
  <2>2. CASE keys = {} /\ request.address = NoAddress
    <3>1. bp = Breakpoint(request, NoAddress, {}, 0)
      BY <2>1, <2>2 DEF SourceBreakpoints
    <3>2. \A k \in DOMAIN bundles : PCsIn(k, request) = {}
      BY <2>2
    <3> QED BY <3>1, <3>2 DEF Breakpoint, IsBreakpoint, Fresh, Waits, PCsIn
  <2>3. CASE ~(keys = {} /\ request.address = NoAddress)
    <3>1. PICK k \in keys : bp = Breakpoint(request, k, PCsIn(k, request), 0)
      BY <2>1, <2>3 DEF SourceBreakpoints
    <3>2. PCsIn(k, request) # {}
      OBVIOUS
    <3> QED BY <3>1, <3>2 DEF Breakpoint, IsBreakpoint, Fresh, Waits
  <2> QED BY <2>2, <2>3
<1>3. CASE request.kind = "storage"
  <2>1. bp \in StorageBreakpoints(request)
    BY <1>3 DEF NewBreakpoints
  <2>2. PICK code, slot : bp = Breakpoint(request, code, {}, slot)
    BY <2>1 DEF StorageBreakpoints
  <2> QED BY <1>3, <2>2 DEF Breakpoint, IsBreakpoint, Fresh, Waits
<1>4. CASE request.kind = "memory"
  <2>1. bp \in MemoryBreakpoints(request)
    BY <1>4 DEF NewBreakpoints
  <2>2. PICK code, pcs : bp = Breakpoint(request, code, pcs, 0)
    BY <2>1 DEF MemoryBreakpoints
  <2> QED BY <1>4, <2>2 DEF Breakpoint, IsBreakpoint, Fresh, Waits
<1>5. CASE request.kind \in {"function", "call"}
  <2>1. bp = Breakpoint(request, request.address, {}, 0)
    BY <1>5 DEF NewBreakpoints
  <2> QED BY <1>5, <2>1 DEF Breakpoint, IsBreakpoint, Fresh, Waits
<1> QED BY <1>1, <1>2, <1>3, <1>4, <1>5

\* The list with a breakpoint more, or another in the place of its namesake.
LEMMA UpsertIsList ==
  ASSUME IInv, NEW bp
  PROVE  /\ IsList(upsertBreakpoint(bp))
         /\ \A k \in DOMAIN upsertBreakpoint(bp) :
              \/ upsertBreakpoint(bp)[k] = bp
              \/ k \in DOMAIN breakpoints /\ upsertBreakpoint(bp)[k] = breakpoints[k]
<1> DEFINE same == {k \in DOMAIN breakpoints : breakpoints[k].id = bp.id}
           place == CHOOSE k \in same : TRUE
           n == Len(breakpoints)
<1>1. IsList(breakpoints) /\ n \in Nat /\ DOMAIN breakpoints = 1 .. n
  BY ListDomain DEF IInv, Settled
<1>2. CASE same # {}
  <2>1. PICK new : new = [breakpoints EXCEPT ![place] = bp]
    OBVIOUS
  <2>2. upsertBreakpoint(bp) = new
    BY <1>2, <2>1 DEF upsertBreakpoint
  <2> HIDE DEF place
  <2>3. /\ DOMAIN new = 1 .. n /\ new = [k \in 1 .. n |-> new[k]]
        /\ \A k \in 1 .. n : new[k] = IF k = place THEN bp ELSE breakpoints[k]
    BY <1>1, <2>1
  <2>4. IsList(new)
    BY <1>1, <2>3, FunctionIsList
  <2> QED BY <1>1, <2>2, <2>3, <2>4
<1>3. CASE same = {}
  <2>1. PICK new : new = Append(breakpoints, bp)
    OBVIOUS
  <2>2. upsertBreakpoint(bp) = new
    BY <1>3, <2>1 DEF upsertBreakpoint
  <2>3. /\ IsList(new) /\ DOMAIN new = 1 .. n + 1
        /\ \A k \in 1 .. n : new[k] = breakpoints[k]
        /\ new[n + 1] = bp
    BY <1>1, <2>1, AppendIsList
  <2>4. \A k \in 1 .. n + 1 : k \in 1 .. n \/ k = n + 1
    BY <1>1
  <2> QED BY <1>1, <2>2, <2>3, <2>4
<1> QED BY <1>2, <1>3

-----------------------------------------------------------------------------
(* The session.                                                            *)

LEMMA InitSettles == Init => IInv
<1> SUFFICES ASSUME Init PROVE IInv
  OBVIOUS
<1>1. breakpoints = <<>> /\ doing = [g \in Handlers |-> Idle]
  BY DEF Init
<1>2. IsList(breakpoints) /\ DOMAIN breakpoints = {}
  BY <1>1 DEF IsList
<1>3. \A g \in Handlers : HandlerOK(doing[g], bundles)
  BY <1>1 DEF HandlerOK, Idle
<1> QED BY <1>1, <1>2, <1>3 DEF IInv, Settled

LEMMA UnchangedSettles ==
  ASSUME IInv, UNCHANGED <<bundles, breakpoints, doing>>
  PROVE  IInv'
BY DEF IInv

\* A handler takes up another task: no bundle it had on its way is given up.
LEMMA TakesUp ==
  ASSUME IInv, NEW g \in Handlers, doing[g].op \in {"idle", "found", "store"},
         UNCHANGED <<bundles, breakpoints>>,
         NEW d, doing' = [doing EXCEPT ![g] = d], HandlerOK(d, bundles)
  PROVE  IInv'
<1>1. /\ doing' = [h \in Handlers |-> doing'[h]] /\ doing'[g] = d
      /\ \A h \in Handlers : h # g => doing'[h] = doing[h]
  BY DEF IInv, Settled
<1>2. \A k, b : ~AwaitsIn(doing[g], k, b)
  BY DEF AwaitsIn
<1>3. \A k \in DOMAIN breakpoints : Covered(k, breakpoints[k], bundles, doing')
  BY <1>1, <1>2, OthersCover
<1>4. Settled(breakpoints, bundles, doing')
  BY <1>1, <1>3 DEF IInv, Settled
<1> QED
  BY <1>4 DEF IInv

\* A bundle is kept: all of the list is ahead of it, and what requests have
\* found meanwhile is marked.
LEMMA PutSettles ==
  ASSUME IInv, NEW g \in Handlers, NEW key, doing[g].op = "found", Put(g, key),
         breakpoints' = breakpoints
  PROVE  IInv'
<1>1. PICK bundle : bundle = doing[g].bundle
  OBVIOUS
<1>2. /\ bundles' = [k \in DOMAIN bundles \cup {key} |->
                       IF k = key THEN bundle ELSE bundles[k]]
      /\ doing' = [h \in Handlers |->
                     IF h = g THEN Keeps(doing[g])
                     ELSE IF doing[h].op = "store" THEN [doing[h] EXCEPT !.bp.missed = TRUE]
                     ELSE doing[h]]
  BY <1>1 DEF Put
<1>3. AwaitsIn(doing'[g], 0, bundle) /\ doing'[g].op = "kept" /\ doing'[g].bundle = bundle
  BY <1>1, <1>2 DEF Keeps, AwaitsIn
<1>4. ASSUME NEW k \in DOMAIN breakpoints
      PROVE  Covered(k, breakpoints[k], bundles', doing')
  <2> SUFFICES ASSUME NEW a \in DOMAIN bundles', Waits(breakpoints[k], bundles'[a])
               PROVE  \/ breakpoints[k].missed
                      \/ \E h \in Handlers : AwaitsIn(doing'[h], k, bundles'[a])
    BY DEF Covered
  <2>1. CASE a = key
    <3>1. AwaitsIn(doing'[g], k, bundles'[a])
      BY <1>2, <1>3, <2>1 DEF AwaitsIn
    <3> QED BY <3>1
  <2>2. CASE a # key
    <3>1. a \in DOMAIN bundles /\ bundles'[a] = bundles[a]
      BY <1>2, <2>2
    <3>2. \/ breakpoints[k].missed
          \/ \E h \in Handlers : AwaitsIn(doing[h], k, bundles[a])
      BY <3>1 DEF IInv, Settled, Covered
    <3>3. ASSUME NEW h \in Handlers, AwaitsIn(doing[h], k, bundles[a])
          PROVE  AwaitsIn(doing'[h], k, bundles[a])
      <4>1. h # g /\ doing[h].op # "store"
        BY <3>3 DEF AwaitsIn
      <4>2. doing'[h] = doing[h]
        BY <1>2, <4>1
      <4> QED BY <3>3, <4>2
    <3> QED BY <3>1, <3>2, <3>3
  <2> QED BY <2>1, <2>2
<1>5. ASSUME NEW h \in Handlers PROVE HandlerOK(doing'[h], bundles')
  <2>1. HandlerOK(doing[h], bundles)
    BY DEF IInv, Settled
  <2>2. CASE h = g
    BY <1>3, <2>2 DEF HandlerOK
  <2>3. CASE h # g /\ doing[h].op = "store"
    <3>1. PICK d : d = doing[h]
      OBVIOUS
    <3>2. PICK bp : bp = d.bp
      OBVIOUS
    <3>3. DOMAIN d = {"op", "bp"} /\ d.op = "store" /\ IsBreakpoint(bp)
      BY <2>1, <2>3, <3>1, <3>2 DEF HandlerOK
    <3>4. doing'[h] = [d EXCEPT !.bp.missed = TRUE]
      BY <1>2, <2>3, <3>1
    <3>5. PICK d1 : d1 = doing'[h]
      OBVIOUS
    <3>6. d1 = [d EXCEPT !.bp = [bp EXCEPT !.missed = TRUE]]
      BY <3>2, <3>3, <3>4, <3>5
    <3>7. DOMAIN d1 = {"op", "bp"} /\ d1.op = "store" /\ d1.bp = [bp EXCEPT !.missed = TRUE]
      BY <3>3, <3>6
    <3>8. IsBreakpoint(d1.bp) /\ d1.bp.missed
      BY <3>3, <3>7 DEF IsBreakpoint
    <3> QED BY <3>5, <3>7, <3>8 DEF HandlerOK, Fresh
  <2>4. CASE h # g /\ doing[h].op # "store"
    <3>1. doing'[h] = doing[h]
      BY <1>2, <2>4
    <3> QED BY <2>1, <2>4, <3>1 DEF HandlerOK
  <2> QED BY <2>2, <2>3, <2>4
<1>6. doing' = [h \in Handlers |-> doing'[h]]
  BY <1>2
<1>7. Settled(breakpoints, bundles', doing')
  BY <1>4, <1>5, <1>6 DEF IInv, Settled
<1> QED
  BY <1>7 DEF IInv

\* The resync of a bundle begins: without a source map no breakpoint waits
\* for it, with one the whole list is ahead.
LEMMA BeginSettles ==
  ASSUME IInv, NEW g \in Handlers, ResyncBegins(g)
  PROVE  IInv'
<1>1. PICK n : n = Len(breakpoints)
  OBVIOUS
<1>2. n \in Nat /\ DOMAIN breakpoints = 1 .. n
  BY <1>1, ListDomain DEF IInv, Settled
<1>3. PICK last : last = IF doing[g].bundle.index THEN n ELSE 0
  OBVIOUS
<1>4. last \in Nat /\ GoesOn(g, 1, last) /\ UNCHANGED <<bundles, breakpoints>>
  BY <1>1, <1>2, <1>3 DEF ResyncBegins, session
<1>5. /\ doing' = [h \in Handlers |-> doing'[h]]
      /\ \A h \in Handlers : h # g => doing'[h] = doing[h]
      /\ HandlerOK(doing'[g], bundles)
      /\ \A k \in 1 .. last : AwaitsIn(doing'[g], k, doing[g].bundle)
  BY <1>4, GoesOnAwaits
<1>6. ASSUME NEW k \in DOMAIN breakpoints
      PROVE  Covered(k, breakpoints[k], bundles, doing')
  <2>1. CASE doing[g].bundle.index
    <3>1. \A b : AwaitsIn(doing[g], k, b) => AwaitsIn(doing'[g], k, b)
      BY <1>2, <1>3, <1>5, <2>1 DEF AwaitsIn
    <3> QED BY <1>5, <3>1, OthersCover
  <2>2. CASE ~doing[g].bundle.index
    <3> SUFFICES ASSUME NEW a \in DOMAIN bundles, Waits(breakpoints[k], bundles[a])
                 PROVE  \/ breakpoints[k].missed
                        \/ \E h \in Handlers : AwaitsIn(doing'[h], k, bundles[a])
      BY DEF Covered
    <3>1. bundles[a].index
      BY DEF Waits, resolveSourceBreakpointPCs
    <3>2. ~AwaitsIn(doing[g], k, bundles[a])
      BY <2>2, <3>1 DEF AwaitsIn
    <3>3. \/ breakpoints[k].missed
          \/ \E h \in Handlers : AwaitsIn(doing[h], k, bundles[a])
      BY DEF IInv, Settled, Covered
    <3> QED BY <1>5, <3>2, <3>3
  <2> QED BY <2>1, <2>2
<1>7. Settled(breakpoints, bundles, doing')
  BY <1>5, <1>6 DEF IInv, Settled
<1> QED
  BY <1>4, <1>7 DEF IInv

\* The resync reads a breakpoint: it has no line in the bundle, or its
\* program counters are about to be written.
LEMMA ResolveSettles ==
  ASSUME IInv, NEW g \in Handlers, Resolve(g)
  PROVE  IInv'
<1>1. PICK d : d = doing[g]
  OBVIOUS
<1>2. PICK n : n = Len(breakpoints)
  OBVIOUS
<1>3. n \in Nat /\ DOMAIN breakpoints = 1 .. n
  BY <1>2, ListDomain DEF IInv, Settled
<1>4. d.op = "resolve" /\ d.next \in Nat /\ d.last \in Nat
  BY <1>1 DEF Resolve, IInv, Settled, HandlerOK
<1>5. UNCHANGED <<bundles, breakpoints>>
  BY DEF Resolve, session
<1>6. doing = [h \in Handlers |-> doing[h]]
  BY DEF IInv, Settled
<1>7. CASE d.next > n
  <2>1. doing' = [doing EXCEPT ![g] = Idle]
    BY <1>1, <1>2, <1>7 DEF Resolve
  <2>2. /\ doing' = [h \in Handlers |-> doing'[h]] /\ doing'[g] = Idle
        /\ \A h \in Handlers : h # g => doing'[h] = doing[h]
    BY <1>6, <2>1
  <2>3. HandlerOK(Idle, bundles)
    BY DEF HandlerOK, Idle
  <2>4. ASSUME NEW k \in DOMAIN breakpoints
        PROVE  Covered(k, breakpoints[k], bundles, doing')
    <3>1. ~(k \in d.next .. d.last)
      BY <1>3, <1>4, <1>7
    <3>2. \A b : ~AwaitsIn(doing[g], k, b)
      BY <1>1, <1>4, <3>1 DEF AwaitsIn
    <3> QED BY <2>2, <3>2, OthersCover
  <2>5. Settled(breakpoints, bundles, doing')
    BY <2>2, <2>3, <2>4 DEF IInv, Settled
  <2> QED BY <1>5, <2>5 DEF IInv
<1>8. CASE ~(d.next > n)
  <2>1. PICK bp : bp = breakpoints[d.next]
    OBVIOUS
  <2>2. PICK pcs : pcs = resyncBreakpointsForBundle(d.bundle, bp)
    OBVIOUS
  <2>3. CASE pcs = {}
    <3>1. GoesOn(g, d.next + 1, d.last)
      BY <1>1, <1>2, <1>8, <2>1, <2>2, <2>3 DEF Resolve
    <3>2. d.next + 1 \in Nat
      BY <1>4
    <3>3. /\ doing' = [h \in Handlers |-> doing'[h]]
          /\ \A h \in Handlers : h # g => doing'[h] = doing[h]
          /\ HandlerOK(doing'[g], bundles)
          /\ \A k \in d.next + 1 .. d.last : AwaitsIn(doing'[g], k, d.bundle)
      BY <1>1, <1>4, <3>1, <3>2, GoesOnAwaits
    <3>4. ASSUME NEW k \in DOMAIN breakpoints
          PROVE  Covered(k, breakpoints[k], bundles, doing')
      <4>1. CASE k = d.next
        <5> SUFFICES ASSUME NEW a \in DOMAIN bundles, Waits(breakpoints[k], bundles[a])
                     PROVE  \/ breakpoints[k].missed
                            \/ \E h \in Handlers : AwaitsIn(doing'[h], k, bundles[a])
          BY DEF Covered
        <5>1. bundles[a] # d.bundle
          BY <2>1, <2>2, <2>3, <4>1 DEF Waits, resyncBreakpointsForBundle
        <5>2. ~AwaitsIn(doing[g], k, bundles[a])
          BY <1>1, <5>1 DEF AwaitsIn
        <5>3. \/ breakpoints[k].missed
              \/ \E h \in Handlers : AwaitsIn(doing[h], k, bundles[a])
          BY DEF IInv, Settled, Covered
        <5> QED BY <3>3, <5>2, <5>3
      <4>2. CASE k # d.next
        <5>1. k \in d.next .. d.last => k \in d.next + 1 .. d.last
          BY <1>3, <1>4, <4>2
        <5>2. \A b : AwaitsIn(doing[g], k, b) => AwaitsIn(doing'[g], k, b)
          BY <1>1, <1>4, <3>3, <5>1 DEF AwaitsIn
        <5> QED BY <3>3, <5>2, OthersCover
      <4> QED BY <4>1, <4>2
    <3>5. Settled(breakpoints, bundles, doing')
      BY <3>3, <3>4 DEF IInv, Settled
    <3> QED BY <1>5, <3>5 DEF IInv
  <2>4. CASE pcs # {}
    <3>1. PICK w : w = Writes(d, pcs, Place(bp))
      OBVIOUS
    <3>2. doing' = [doing EXCEPT ![g] = w]
      BY <1>1, <1>2, <1>6, <1>8, <2>1, <2>2, <2>4, <3>1 DEF Resolve
    <3>3. /\ doing' = [h \in Handlers |-> doing'[h]] /\ doing'[g] = w
          /\ \A h \in Handlers : h # g => doing'[h] = doing[h]
      BY <1>6, <3>2
    <3>4. /\ w.op = "write" /\ w.bundle = d.bundle /\ w.next = d.next /\ w.last = d.last
          /\ DOMAIN w = {"op", "bundle", "enters", "next", "last", "pcs", "place"}
      BY <3>1 DEF Writes
    <3>5. HandlerOK(w, bundles)
      BY <1>4, <3>4 DEF HandlerOK
    <3>6. \A k, b : AwaitsIn(doing[g], k, b) => AwaitsIn(doing'[g], k, b)
      BY <1>1, <1>4, <3>3, <3>4 DEF AwaitsIn
    <3>7. \A k \in DOMAIN breakpoints : Covered(k, breakpoints[k], bundles, doing')
      BY <3>3, <3>6, OthersCover
    <3>8. Settled(breakpoints, bundles, doing')
      BY <3>3, <3>5, <3>7 DEF IInv, Settled
    <3> QED BY <1>5, <3>8 DEF IInv
  <2> QED BY <2>3, <2>4
<1> QED
  BY <1>7, <1>8

\* A breakpoint whose program counters are written waits no more, or is
\* marked as missed.
LEMMA ResyncedWaits ==
  ASSUME NEW bp, IsBreakpoint(bp), NEW d
  PROVE  /\ IsBreakpoint(Resynced(bp, d))
         /\ Resynced(bp, d).missed \/ \A b : ~Waits(Resynced(bp, d), b)
<1>1. PICK new : new = Resynced(bp, d)
  OBVIOUS
<1>2. CASE d.pcs = {}
  <2>1. new = [bp EXCEPT !.missed = TRUE]
    BY <1>1, <1>2 DEF Resynced
  <2>2. IsBreakpoint(new) /\ new.missed
    BY <2>1 DEF IsBreakpoint
  <2> QED BY <1>1, <2>2
<1>3. CASE d.pcs # {}
  <2>1. PICK code : code = IF bp.code = NoAddress THEN d.bundle.codeAddress ELSE bp.code
    OBVIOUS
  <2>2. new = [bp EXCEPT !.pcs = d.pcs, !.misplaced = d.place # Place(bp), !.code = code]
    BY <1>1, <1>3, <2>1 DEF Resynced, IsBreakpoint
  <2>3. IsBreakpoint(new) /\ new.pcs = d.pcs
    BY <2>2 DEF IsBreakpoint
  <2> QED BY <1>1, <1>3, <2>3 DEF Waits
<1> QED
  BY <1>2, <1>3

LEMMA WriteSettles ==
  ASSUME IInv, NEW g \in Handlers, Write(g)
  PROVE  IInv'
<1>1. PICK d : d = doing[g]
  OBVIOUS
<1>2. PICK n : n = Len(breakpoints)
  OBVIOUS
<1>3. /\ n \in Nat /\ DOMAIN breakpoints = 1 .. n
      /\ \A k \in 1 .. n : IsBreakpoint(breakpoints[k])
  BY <1>2, ListDomain DEF IInv, Settled
<1>4. d.op = "write" /\ d.next \in Nat /\ d.last \in Nat /\ d.next + 1 \in Nat
  BY <1>1 DEF Write, IInv, Settled, HandlerOK
<1>5. /\ bundles' = bundles /\ GoesOn(g, d.next + 1, d.last)
      /\ breakpoints' = [k \in 1 .. n |-> IF k = d.next THEN Resynced(breakpoints[k], d)
                                          ELSE breakpoints[k]]
  BY <1>1, <1>3 DEF Write
<1>6. IsList(breakpoints') /\ DOMAIN breakpoints' = 1 .. n
  <2>1. breakpoints' = [k \in 1 .. n |-> breakpoints'[k]]
    BY <1>5
  <2> QED BY <1>3, <1>5, <2>1, FunctionIsList
<1>7. /\ doing' = [h \in Handlers |-> doing'[h]]
      /\ \A h \in Handlers : h # g => doing'[h] = doing[h]
      /\ HandlerOK(doing'[g], bundles)
      /\ \A k \in d.next + 1 .. d.last : AwaitsIn(doing'[g], k, d.bundle)
  BY <1>1, <1>4, <1>5, GoesOnAwaits
<1>8. ASSUME NEW k \in 1 .. n
      PROVE  IsBreakpoint(breakpoints'[k]) /\ Covered(k, breakpoints'[k], bundles, doing')
  <2>1. CASE k = d.next
    <3>1. breakpoints'[k] = Resynced(breakpoints[k], d)
      BY <1>5, <2>1
    <3> QED BY <1>3, <3>1, ResyncedWaits DEF Covered
  <2>2. CASE k # d.next
    <3>1. breakpoints'[k] = breakpoints[k]
      BY <1>5, <2>2
    <3>2. k \in d.next .. d.last => k \in d.next + 1 .. d.last
      BY <1>3, <1>4, <2>2
    <3>3. \A b : AwaitsIn(doing[g], k, b) => AwaitsIn(doing'[g], k, b)
      BY <1>1, <1>4, <1>7, <3>2 DEF AwaitsIn
    <3>4. Covered(k, breakpoints[k], bundles, doing')
      BY <1>3, <1>7, <3>3, OthersCover
    <3> QED BY <1>3, <3>1, <3>4
  <2> QED BY <2>1, <2>2
<1>9. Settled(breakpoints', bundles, doing')
  BY <1>6, <1>7, <1>8 DEF IInv, Settled
<1> QED
  BY <1>5, <1>9 DEF IInv

\* A breakpoint is stored: it has been looked up in the bundles of now, or
\* is marked.
LEMMA StoreSettles ==
  ASSUME IInv, NEW g \in Handlers, Store(g)
  PROVE  IInv'
<1>1. PICK bp : bp = doing[g].bp
  OBVIOUS
<1>2. PICK moved \in BOOLEAN :
        doing' = [h \in Handlers |->
                    IF h = g THEN Idle
                    ELSE IF moved /\ doing[h].op = "write" THEN [doing[h] EXCEPT !.pcs = {}]
                    ELSE doing[h]]
  BY DEF Store
<1>3. /\ bundles' = bundles /\ breakpoints' = upsertBreakpoint(bp)
      /\ doing[g].op = "store"
  BY <1>1 DEF Store
<1>4. IsBreakpoint(bp) /\ Fresh(bp, bundles)
  BY <1>1, <1>3 DEF IInv, Settled, HandlerOK
<1>5. /\ IsList(breakpoints')
      /\ \A k \in DOMAIN breakpoints' :
           \/ breakpoints'[k] = bp
           \/ k \in DOMAIN breakpoints /\ breakpoints'[k] = breakpoints[k]
  BY <1>3, UpsertIsList
<1>6. ASSUME NEW h \in Handlers
      PROVE  /\ HandlerOK(doing'[h], bundles)
             /\ \A k, b : AwaitsIn(doing[h], k, b) => AwaitsIn(doing'[h], k, b)
  <2>1. HandlerOK(doing[h], bundles)
    BY DEF IInv, Settled
  <2>2. CASE h = g
    <3>1. doing'[h] = Idle
      BY <1>2, <2>2
    <3> QED BY <1>3, <2>2, <3>1 DEF HandlerOK, Idle, AwaitsIn
  <2>3. CASE h # g /\ moved /\ doing[h].op = "write"
    <3>1. PICK d, d1 : d = doing[h] /\ d1 = doing'[h]
      OBVIOUS
    <3>2. d1 = [d EXCEPT !.pcs = {}]
      BY <1>2, <2>3, <3>1
    <3>3. /\ DOMAIN d = {"op", "bundle", "enters", "next", "last", "pcs", "place"}
          /\ d.op = "write" /\ d.next \in Nat /\ d.last \in Nat
      BY <2>1, <2>3, <3>1 DEF HandlerOK
    <3>4. /\ DOMAIN d1 = DOMAIN d /\ d1.op = d.op /\ d1.bundle = d.bundle
          /\ d1.next = d.next /\ d1.last = d.last
      BY <3>2, <3>3
    <3> QED BY <3>1, <3>3, <3>4 DEF HandlerOK, AwaitsIn
  <2>4. CASE h # g /\ ~(moved /\ doing[h].op = "write")
    <3>1. doing'[h] = doing[h]
      BY <1>2, <2>4
    <3> QED BY <2>1, <3>1
  <2> QED BY <2>2, <2>3, <2>4
<1>7. ASSUME NEW k \in DOMAIN breakpoints'
      PROVE  IsBreakpoint(breakpoints'[k]) /\ Covered(k, breakpoints'[k], bundles, doing')
  <2>1. CASE breakpoints'[k] = bp
    BY <1>4, <2>1 DEF Fresh, Covered
  <2>2. CASE k \in DOMAIN breakpoints /\ breakpoints'[k] = breakpoints[k]
    <3>1. IsBreakpoint(breakpoints[k]) /\ Covered(k, breakpoints[k], bundles, doing)
      BY <2>2 DEF IInv, Settled
    <3> QED BY <1>6, <2>2, <3>1 DEF Covered
  <2> QED BY <1>5, <2>1, <2>2
<1>8. doing' = [h \in Handlers |-> doing'[h]]
  BY <1>2
<1>9. Settled(breakpoints', bundles, doing')
  BY <1>5, <1>6, <1>7, <1>8 DEF Settled
<1> QED
  BY <1>3, <1>9 DEF IInv

\* The list without a breakpoint: those behind it are one place nearer, ahead
\* of a resync as before or marked.
LEMMA WithoutIs ==
  ASSUME IInv, NEW i \in 1 .. Len(breakpoints)
  PROVE  /\ IsList(Without(i)) /\ DOMAIN Without(i) = 1 .. Len(breakpoints) - 1
         /\ \A k \in DOMAIN Without(i) :
              \/ /\ k < i /\ k \in DOMAIN breakpoints /\ Without(i)[k] = breakpoints[k]
              \/ /\ k >= i /\ k + 1 \in DOMAIN breakpoints
                 /\ \E g \in Handlers : InList(g) /\ doing[g].next = k + 1
                 /\ Without(i)[k] = [breakpoints[k + 1] EXCEPT !.missed = TRUE]
              \/ /\ k >= i /\ k + 1 \in DOMAIN breakpoints
                 /\ ~\E g \in Handlers : InList(g) /\ doing[g].next = k + 1
                 /\ Without(i)[k] = breakpoints[k + 1]
<1>1. PICK n : n = Len(breakpoints)
  OBVIOUS
<1>2. n \in Nat /\ DOMAIN breakpoints = 1 .. n /\ i \in 1 .. n
  BY <1>1, ListDomain DEF IInv, Settled
<1>3. PICK new : new = Without(i)
  OBVIOUS
<1>4. /\ new = [k \in 1 .. n - 1 |-> new[k]] /\ n - 1 \in Nat
      /\ DOMAIN new = 1 .. n - 1
      /\ \A k \in 1 .. n - 1 :
           new[k] = IF k < i THEN breakpoints[k]
                    ELSE IF \E g \in Handlers : InList(g) /\ doing[g].next = k + 1
                    THEN [breakpoints[k + 1] EXCEPT !.missed = TRUE]
                    ELSE breakpoints[k + 1]
  BY <1>1, <1>2, <1>3 DEF Without
<1>5. IsList(new)
  BY <1>4, FunctionIsList
<1>6. \A k \in 1 .. n - 1 : k \in 1 .. n /\ k + 1 \in 1 .. n /\ (k < i \/ k >= i)
  BY <1>2
<1> QED
  BY <1>1, <1>2, <1>3, <1>4, <1>5, <1>6

LEMMA DeleteSettles ==
  ASSUME IInv, NEW g \in Handlers, deleteBreakpoint(g)
  PROVE  IInv'
<1>1. PICK i \in 1 .. Len(breakpoints) : breakpoints' = Without(i)
  BY DEF deleteBreakpoint
<1>2. UNCHANGED <<bundles, doing>>
  BY DEF deleteBreakpoint
<1>3. PICK n : n = Len(breakpoints)
  OBVIOUS
<1>4. /\ n \in Nat /\ DOMAIN breakpoints = 1 .. n
      /\ \A k \in 1 .. n : /\ IsBreakpoint(breakpoints[k])
                           /\ Covered(k, breakpoints[k], bundles, doing)
  BY <1>3, ListDomain DEF IInv, Settled
<1>5. /\ IsList(breakpoints') /\ DOMAIN breakpoints' = 1 .. n - 1
      /\ \A k \in DOMAIN breakpoints' :
              \/ /\ k < i /\ k \in 1 .. n /\ breakpoints'[k] = breakpoints[k]
              \/ /\ k >= i /\ k + 1 \in 1 .. n
                 /\ \E h \in Handlers : InList(h) /\ doing[h].next = k + 1
                 /\ breakpoints'[k] = [breakpoints[k + 1] EXCEPT !.missed = TRUE]
              \/ /\ k >= i /\ k + 1 \in 1 .. n
                 /\ ~\E h \in Handlers : InList(h) /\ doing[h].next = k + 1
                 /\ breakpoints'[k] = breakpoints[k + 1]
  BY <1>1, <1>3, <1>4, WithoutIs
<1>6. ASSUME NEW k \in DOMAIN breakpoints'
      PROVE  IsBreakpoint(breakpoints'[k]) /\ Covered(k, breakpoints'[k], bundles, doing)
  <2>1. CASE k \in 1 .. n /\ breakpoints'[k] = breakpoints[k]
    BY <1>4, <2>1
  <2>2. CASE /\ k + 1 \in 1 .. n
             /\ breakpoints'[k] = [breakpoints[k + 1] EXCEPT !.missed = TRUE]
    <3>1. IsBreakpoint(breakpoints[k + 1])
      BY <1>4, <2>2
    <3>2. IsBreakpoint(breakpoints'[k]) /\ breakpoints'[k].missed
      BY <2>2, <3>1 DEF IsBreakpoint
    <3> QED BY <3>2 DEF Covered
  <2>3. CASE /\ k + 1 \in 1 .. n
             /\ ~\E h \in Handlers : InList(h) /\ doing[h].next = k + 1
             /\ breakpoints'[k] = breakpoints[k + 1]
    <3>1. IsBreakpoint(breakpoints[k + 1]) /\ Covered(k + 1, breakpoints[k + 1], bundles, doing)
      BY <1>4, <2>3
    <3>2. ASSUME NEW h \in Handlers, NEW b, AwaitsIn(doing[h], k + 1, b)
          PROVE  AwaitsIn(doing[h], k, b)
      <4>1. CASE doing[h].op = "kept"
        BY <3>2, <4>1 DEF AwaitsIn
      <4>2. CASE doing[h].op # "kept"
        <5>1. doing[h].op \in {"resolve", "write"} /\ k + 1 \in doing[h].next .. doing[h].last
          BY <3>2, <4>2 DEF AwaitsIn
        <5>2. doing[h].next \in Nat /\ doing[h].last \in Nat
          BY <5>1 DEF IInv, Settled, HandlerOK
        <5>3. doing[h].next # k + 1
          BY <2>3, <5>1 DEF InList
        <5>4. k \in Nat
          BY <1>4, <1>5
        <5>5. k \in doing[h].next .. doing[h].last
          BY <5>1, <5>2, <5>3, <5>4
        <5> QED BY <3>2, <5>1, <5>5 DEF AwaitsIn
      <4> QED BY <4>1, <4>2
    <3> QED BY <2>3, <3>1, <3>2 DEF Covered
  <2> QED BY <1>5, <2>1, <2>2, <2>3
<1>7. Settled(breakpoints', bundles, doing)
  BY <1>5, <1>6 DEF IInv, Settled
<1> QED
  BY <1>2, <1>7 DEF IInv

\* The hook of a call: at most the run's handler has found a bundle.
LEMMA PreloadSettles ==
  ASSUME IInv, NEW callee, NEW code, contractPreloadHook(callee, code),
         doing[Run] = Idle, UNCHANGED <<bundles, breakpoints>>
  PROVE  IInv'
<1>1. CASE UNCHANGED doing
  BY <1>1, UnchangedSettles
<1>2. CASE ~UNCHANGED doing
  <2>1. PICK bundle : doing' = [doing EXCEPT ![Run] = Finds(bundle, code, {code})]
    BY <1>2 DEF contractPreloadHook
  <2>2. HandlerOK(Finds(bundle, code, {code}), bundles)
    BY DEF HandlerOK, Finds
  <2>3. doing[Run].op = "idle" /\ Run \in Handlers
    BY DEF Idle, Handlers
  <2> QED BY <2>1, <2>2, <2>3, TakesUp
<1> QED
  BY <1>1, <1>2

LEMMA StepSettles == IInv /\ [Next]_vars => IInv'
<1> SUFFICES ASSUME IInv, [Next]_vars PROVE IInv'
  OBVIOUS
<1> USE DEF Handlers
<1>1. ASSUME NEW g \in Clients, loadSourceBundle(g) PROVE IInv'
  <2>1. /\ doing[g] = Idle /\ UNCHANGED <<bundles, breakpoints>>
        /\ \E bundle, other, enters :
             doing' = [doing EXCEPT ![g] = Finds(bundle, other, enters)]
    BY <1>1 DEF loadSourceBundle, session
  <2>2. PICK bundle, other, enters :
          doing' = [doing EXCEPT ![g] = Finds(bundle, other, enters)]
    BY <2>1
  <2>3. HandlerOK(Finds(bundle, other, enters), bundles)
    BY DEF HandlerOK, Finds
  <2>4. doing[g].op = "idle"
    BY <2>1 DEF Idle
  <2> QED BY <2>1, <2>2, <2>3, <2>4, TakesUp
<1>2. ASSUME NEW g \in Clients, setBreakpoint(g) PROVE IInv'
  <2>1. PICK request \in BreakpointRequests : \E bp \in NewBreakpoints(request) :
          doing' = [doing EXCEPT ![g] = Stores(bp)]
    BY <1>2 DEF setBreakpoint
  <2>5. PICK bp \in NewBreakpoints(request) : doing' = [doing EXCEPT ![g] = Stores(bp)]
    BY <2>1
  <2>2. doing[g].op = "idle" /\ UNCHANGED <<bundles, breakpoints>>
    BY <1>2 DEF setBreakpoint, session, Idle
  <2>3. IsBreakpoint(bp) /\ Fresh(bp, bundles)
    BY NewWaits
  <2>4. HandlerOK(Stores(bp), bundles)
    BY <2>3 DEF HandlerOK, Stores
  <2> QED BY <2>2, <2>4, <2>5, TakesUp
<1>3. ASSUME NEW g \in Clients, Store(g) PROVE IInv'
  BY <1>3, StoreSettles
<1>4. ASSUME NEW g \in Clients, deleteBreakpoint(g) PROVE IInv'
  BY <1>4, DeleteSettles
<1>5. ASSUME NEW g \in Handlers, Keep(g) PROVE IInv'
  <2>1. /\ doing[g].op = "found" /\ breakpoints' = breakpoints
        /\ \E key : Put(g, key)
    BY <1>5 DEF Keep
  <2> QED BY <2>1, PutSettles
<1>6. ASSUME NEW g \in Handlers, ResyncBegins(g) PROVE IInv'
  BY <1>6, BeginSettles
<1>7. ASSUME NEW g \in Handlers, Resolve(g) PROVE IInv'
  BY <1>7, ResolveSettles
<1>8. ASSUME NEW g \in Handlers, Write(g) PROVE IInv'
  BY <1>8, WriteSettles
<1>9. CASE CallsContract
  <2>1. doing[Run] = Idle /\ UNCHANGED <<bundles, breakpoints>>
    BY <1>9 DEF CallsContract, session
  <2>2. \E callee, code : contractPreloadHook(callee, code)
    BY <1>9 DEF CallsContract
  <2> QED BY <2>1, <2>2, PreloadSettles
<1>10. CASE DelegatesTo
  <2>1. doing[Run] = Idle /\ UNCHANGED <<bundles, breakpoints>>
    BY <1>10 DEF DelegatesTo, session
  <2>2. \E callee, code : contractPreloadHook(callee, code)
    BY <1>10 DEF DelegatesTo
  <2> QED BY <2>1, <2>2, PreloadSettles
<1>11. CASE (\E g \in Clients : configureAutoMatch(g)) \/ Continue \/ StepStops \/ RunEnds
  <2>1. UNCHANGED <<bundles, breakpoints, doing>>
    BY <1>11 DEF configureAutoMatch, Continue, StepStops, RunEnds, session
  <2> QED BY <2>1, UnchangedSettles
<1>12. CASE UNCHANGED vars
  BY <1>12, UnchangedSettles DEF vars, session
<1> QED
  BY <1>1, <1>2, <1>3, <1>4, <1>5, <1>6, <1>7, <1>8, <1>9, <1>10, <1>11, <1>12 DEF Next

\* What the list, the bundles and the handlers keep through every request,
\* every step of a resync and every call of the program.
THEOREM Invariance == Spec => []IInv
<1>1. Init => IInv
  BY InitSettles
<1>2. IInv /\ [Next]_vars => IInv'
  BY StepSettles
<1> QED BY <1>1, <1>2, PTL DEF Spec

\* However requests, resyncs and calls of any number of clients interleave, no
\* source breakpoint waits (setSourceBreakpoint, resyncBreakpointsForBundle)
\* although a bundle of the session has its line and is not on its way to it:
\* but for those a bundle came to before they were stored, and those a resync
\* passed over when the list was cut or moved.
THEOREM NoneWaits == Spec => []NothingPending
<1>1. ASSUME IInv, NEW k \in DOMAIN breakpoints, NEW a \in DOMAIN bundles,
             Waits(breakpoints[k], bundles[a]), ~breakpoints[k].missed
      PROVE  Awaits(k, bundles[a])
  <2>1. PICK g \in Handlers : AwaitsIn(doing[g], k, bundles[a])
    BY <1>1 DEF IInv, Settled, Covered
  <2> QED BY <2>1 DEF AwaitsIn, Awaits, InList
<1>2. IInv => NothingPending
  BY <1>1 DEF NothingPending
<1> QED BY <1>2, Invariance, PTL

-----------------------------------------------------------------------------
(* Least elements.                                                         *)

\* A set of naturals has a least one.
LEMMA LeastOf ==
  ASSUME NEW S, S \subseteq Nat, S # {}
  PROVE  \E n \in S : \A m \in S : n <= m
<1> DEFINE R == {p \in Nat \X Nat : p[1] < p[2]}
<1>1. IsWellFoundedOn(R, Nat)
  BY NatLessThanWellFounded, Zenon DEF OpToRel
<1> HIDE DEF R
<1>2. PICK n \in S : \A m \in S : ~(<<m, n>> \in R)
  BY <1>1, WFMin
<1>3. ASSUME NEW m \in S PROVE n <= m
  <2>1. n \in Nat /\ m \in Nat
    OBVIOUS
  <2>2. ~(m < n)
    BY <1>2, <2>1 DEF R
  <2> QED BY <2>1, <2>2
<1> QED
  BY <1>3

\* The artifact matched is one of those that match.
LEMMA BestIsOne ==
  ASSUME NEW S, S \subseteq Contracts, S # {}
  PROVE  BestMatch(S) \in S
<1> DEFINE n(c) == Cardinality(Artifacts[c].immutables)
           Better(c, d) == \/ n(c) < n(d)
                           \/ n(c) = n(d) /\ Artifacts[c].rank <= Artifacts[d].rank
           sizes == {n(c) : c \in S}
<1>1. \A c \in S : n(c) \in Nat /\ Artifacts[c].rank \in Nat
  BY ArtifactAssumption, FS_CardinalityType
<1>2. PICK least \in sizes : \A k \in sizes : least <= k
  <2>1. sizes \subseteq Nat /\ sizes # {}
    BY <1>1
  <2> HIDE DEF sizes
  <2> QED BY <2>1, LeastOf
<1> DEFINE ranks == {Artifacts[c].rank : c \in {d \in S : n(d) = least}}
<1>3. PICK first \in ranks : \A k \in ranks : first <= k
  <2>1. ranks \subseteq Nat /\ ranks # {}
    BY <1>1, <1>2
  <2> HIDE DEF ranks
  <2> QED BY <2>1, LeastOf
<1>4. PICK c \in S : n(c) = least /\ Artifacts[c].rank = first
  BY <1>3
<1>5. ASSUME NEW d \in S PROVE Better(c, d)
  <2>1. n(c) \in Nat /\ n(d) \in Nat /\ n(c) <= n(d)
    BY <1>1, <1>2, <1>4
  <2>2. n(d) = n(c) => Artifacts[c].rank <= Artifacts[d].rank
    BY <1>3, <1>4
  <2> HIDE DEF n
  <2> QED BY <2>1, <2>2
<1>6. BestMatch(S) = CHOOSE x \in S : \A d \in S : Better(x, d)
  BY DEF BestMatch
<1> HIDE DEF Better
<1> QED
  BY <1>5, <1>6

-----------------------------------------------------------------------------
(* Types.                                                                  *)

Places == Addresses \cup {NoAddress}

\* What the records found by AutoMatchBundle are.
RecordOK(r) == r.verified => r.kept /\ r.bundle \in BundleType

Types ==
  /\ world \in Worlds /\ TypeOK
  /\ DOMAIN cache = {world.code[a] : a \in Addresses}

LEMMA BundleIs ==
  ASSUME NEW c \in Contracts, NEW a \in Places, NEW b \in Places, NEW i \in BOOLEAN
  PROVE  Bundle(c, a, b, i) \in BundleType
BY DEF Bundle, BundleType, Places

LEMMA ImplementationIs ==
  ASSUME world \in Worlds, NEW a \in Addresses, NEW other, NEW readable
  PROVE  \/ ImplementationOr(a, other, readable) = other
         \/ ImplementationOr(a, other, readable) \in Addresses
BY WorldAssumption DEF ImplementationOr

LEMMA ExplorerBundles ==
  ASSUME world \in Worlds, NEW at \in Addresses, NEW contract, NEW code \in Places
  PROVE  LoadExplorerBundle(at, contract, code) \subseteq BundleType
<1> SUFFICES ASSUME at \in DOMAIN world.verified
             PROVE  Bundle(world.verified[at], at, ImplementationOr(at, code, TRUE), TRUE)
                      \in BundleType
  BY DEF LoadExplorerBundle
<1>1. world.verified[at] \in Contracts
  BY WorldAssumption
<1>2. ImplementationOr(at, code, TRUE) \in Places /\ at \in Places
  BY ImplementationIs DEF Places
<1> QED
  BY <1>1, <1>2, BundleIs

LEMMA MatchesAre ==
  ASSUME world \in Worlds, NEW code
  PROVE  FindMatches(world.project, code) \subseteq Contracts
BY WorldAssumption DEF FindMatches

LEMMA AutoLoadBundles ==
  ASSUME world \in Worlds, NEW request \in LoadRequests, NEW address \in Addresses,
         NEW readable, NEW up
  PROVE  AutoLoadBundle(request, address, readable, up) \subseteq BundleType
<1> DEFINE asked == IF request.codeAddress # NoAddress THEN request.codeAddress ELSE address
           at == ImplementationOr(address, asked, readable)
           local == FindMatches(world.project, world.code[at])
<1>1. asked \in Addresses
  BY RequestAssumption
<1>2. at \in Addresses
  BY <1>1, ImplementationIs
<1>3. local # {} => Bundle(BestMatch(local), address, at, TRUE) \in BundleType
  <2> HIDE DEF at
  <2>1. local \subseteq Contracts
    BY MatchesAre
  <2> HIDE DEF local
  <2>2. local # {} => BestMatch(local) \in Contracts
    BY <2>1, BestIsOne
  <2> QED BY <1>2, <2>2, BundleIs DEF Places
<1>4. LoadExplorerBundle(at, request.contract, at) \subseteq BundleType
  <2> HIDE DEF at
  <2> QED BY <1>2, ExplorerBundles DEF Places
<1>5. \/ AutoLoadBundle(request, address, readable, up) = {}
      \/ /\ local # {}
         /\ AutoLoadBundle(request, address, readable, up)
              = {Bundle(BestMatch(local), address, at, TRUE)}
      \/ AutoLoadBundle(request, address, readable, up)
           = LoadExplorerBundle(at, request.contract, at)
  BY DEF AutoLoadBundle
<1> HIDE DEF at, local
<1> QED
  BY <1>3, <1>4, <1>5

LEMMA LocalBundles ==
  ASSUME world \in Worlds, NEW contract, NEW a \in Places, NEW b \in Places
  PROVE  LoadLocalProjectBundle(contract, a, b) \subseteq BundleType
<1>1. contract \in world.project => contract \in Contracts
  BY WorldAssumption
<1> QED
  BY <1>1, BundleIs DEF LoadLocalProjectBundle

LEMMA LoadedBundles ==
  ASSUME Types, NEW request \in LoadRequests, NEW readable, NEW up
  PROVE  LoadResults(request, readable, up) \subseteq BundleType
<1> DEFINE address == IF request.address # NoAddress THEN request.address ELSE targetAddr
           given(index) == Bundle(request.contract, request.address, request.codeAddress,
                                  index)
<1>1. /\ request.kind \in {"local-project", "standard-json", "manual", "explorer", "auto"}
      /\ request.contract \in Contracts \cup {NoContract}
      /\ request.address \in Places /\ request.codeAddress \in Places
  BY RequestAssumption DEF Places
<1>2. address \in Addresses /\ world \in Worlds
  BY <1>1 DEF Types, TypeOK, Places
<1>3. CASE request.kind # "auto" /\ request.contract = NoContract
  BY <1>3 DEF LoadResults
<1>4. CASE request.kind = "auto"
  <2>1. LoadResults(request, readable, up) = AutoLoadBundle(request, address, readable, up)
    BY <1>4 DEF LoadResults
  <2> HIDE DEF address
  <2> QED BY <1>2, <2>1, AutoLoadBundles
<1>5. CASE request.kind # "auto" /\ request.contract # NoContract
  <2>1. given(TRUE) \in BundleType /\ given(FALSE) \in BundleType
    BY <1>1, <1>5, BundleIs
  <2>2. LoadLocalProjectBundle(request.contract, request.address, request.codeAddress)
          \subseteq BundleType
    BY <1>1, <1>2, LocalBundles
  <2>3. LoadExplorerBundle(address, request.contract, request.codeAddress) \subseteq BundleType
    <3> HIDE DEF address
    <3> QED BY <1>1, <1>2, ExplorerBundles
  <2>4. \/ LoadResults(request, readable, up)
             = LoadLocalProjectBundle(request.contract, request.address, request.codeAddress)
        \/ LoadResults(request, readable, up) = {given(TRUE)}
        \/ LoadResults(request, readable, up) = {given(TRUE), given(FALSE)}
        \/ LoadResults(request, readable, up) = {}
        \/ LoadResults(request, readable, up)
             = LoadExplorerBundle(address, request.contract, request.codeAddress)
    BY <1>1, <1>5 DEF LoadResults
  <2> HIDE DEF given, address
  <2> QED BY <2>1, <2>2, <2>3, <2>4
<1> QED
  BY <1>3, <1>4, <1>5

\* A contract matched during the run: the bundle and the cache after.
LEMMA AutoMatches ==
  ASSUME Types, NEW address \in Addresses, NEW readable, NEW up
  PROVE  /\ AutoMatchBundle(address, readable, up).bundles \subseteq BundleType
         /\ DOMAIN AutoMatchBundle(address, readable, up).cache = DOMAIN cache
         /\ \A k \in DOMAIN cache : RecordOK(AutoMatchBundle(address, readable, up).cache[k])
<1> DEFINE at == ImplementationOr(address, address, readable)
           code == world.code[at]
           entry == address \in DOMAIN world.mapping
           pull == entry /\ world.mapping[address].pull
           mapped == IF entry
                     THEN LoadLocalProjectBundle(world.mapping[address].contract, address, at)
                     ELSE {}
           local == IF autoMatch.project THEN FindMatches(world.project, code) ELSE {}
           own == Bundle(BestMatch(local), address, at, TRUE)
           explorer == autoMatch.explorer /\ (entry => pull)
           fetched == IF up THEN LoadExplorerBundle(at, NoContract, at) ELSE {}
           Saved(found) == Outcome(found, SaveCachedBundle(code, CHOOSE b \in found : TRUE))
           Fine(o) == /\ o.bundles \subseteq BundleType
                      /\ DOMAIN o.cache = DOMAIN cache
                      /\ \A k \in DOMAIN cache : RecordOK(o.cache[k])
<1>1. world \in Worlds /\ \A k \in DOMAIN cache : RecordOK(cache[k])
  BY DEF Types, TypeOK, RecordOK
<1>2. at \in Addresses
  BY <1>1, ImplementationIs
<1>3. code \in DOMAIN cache
  <2> HIDE DEF at
  <2> QED BY <1>2 DEF Types
<1>4. mapped \subseteq BundleType /\ fetched \subseteq BundleType
  <2> HIDE DEF at
  <2>1. at \in Places /\ address \in Places
    BY <1>2 DEF Places
  <2> QED BY <1>1, <1>2, <2>1, LocalBundles, ExplorerBundles
<1>5. local # {} => own \in BundleType
  <2> HIDE DEF at, code
  <2>1. local \subseteq Contracts
    BY <1>1, MatchesAre
  <2> HIDE DEF local
  <2>2. local # {} => BestMatch(local) \in Contracts
    BY <2>1, BestIsOne
  <2> QED BY <1>2, <2>2, BundleIs DEF Places
<1>6. ASSUME NEW found, found # {}, found \subseteq BundleType PROVE Fine(Saved(found))
  <2>1. PICK bundle \in BundleType : bundle = CHOOSE b \in found : TRUE
    BY <1>6
  <2>2. RecordOK(Verified(bundle))
    BY DEF RecordOK, Verified
  <2>3. Saved(found) = Outcome(found, [cache EXCEPT ![code] = Verified(bundle)])
    BY <2>1 DEF SaveCachedBundle
  <2> HIDE DEF Saved, code
  <2> QED BY <1>1, <1>3, <1>6, <2>2, <2>3 DEF Outcome
<1>7. Fine(Outcome({}, cache))
  BY <1>1 DEF Outcome
<1>8. cache[code].verified => Fine(Outcome({cache[code].bundle}, cache))
  <2> HIDE DEF code
  <2>1. cache[code].verified => cache[code].bundle \in BundleType
    BY <1>1, <1>3 DEF RecordOK
  <2> QED BY <1>1, <2>1 DEF Outcome
<1>9. Fine(Outcome({}, MarkNotVerifiedHash(code)))
  <2>1. RecordOK(NotVerified)
    BY DEF RecordOK, NotVerified
  <2> HIDE DEF code
  <2> QED BY <1>1, <1>3, <2>1 DEF Outcome, MarkNotVerifiedHash
<1> DEFINE result == AutoMatchBundle(address, readable, up)
<1>10. \/ result = Outcome({}, cache)
       \/ mapped # {} /\ result = Saved(mapped)
       \/ cache[code].verified /\ result = Outcome({cache[code].bundle}, cache)
       \/ local # {} /\ result = Saved({own})
       \/ fetched # {} /\ result = Saved(fetched)
       \/ result = Outcome({}, MarkNotVerifiedHash(code))
  BY DEF AutoMatchBundle
<1>11. Fine(result)
  <2> HIDE DEF Fine, result, Saved, own, local, mapped, fetched, code
  <2>1. local # {} => Fine(Saved({own}))
    BY <1>5, <1>6
  <2> QED BY <1>4, <1>6, <1>7, <1>8, <1>9, <1>10, <2>1
<1> QED
  BY <1>11

\* A list of breakpoints at places.
Placed(bps) == \A k \in DOMAIN bps : bps[k].code \in Places

HandlerTyped(d) ==
  /\ d.op \in {"idle", "store", "found", "kept", "resolve", "write"}
  /\ d.op = "store" => d.bp.code \in Places
  /\ d.op \notin {"idle", "store"} => d.bundle \in BundleType /\ d.enters \subseteq Addresses
  /\ d.op = "found" => d.other \in Places

HandlersTyped == \A g \in Handlers : HandlerTyped(doing[g])

LEMMA TypesInit == Init => Types
<1> SUFFICES ASSUME Init PROVE Types
  OBVIOUS
<1>1. /\ world \in Worlds /\ DOMAIN bundles = {} /\ DOMAIN breakpoints = {}
      /\ targetAddr \in Addresses /\ codeAddr \in Addresses
      /\ matched = {} /\ entered = {}
  BY WorldAssumption DEF Init
<1>2. /\ DOMAIN cache = {world.code[a] : a \in Addresses}
      /\ \A k \in DOMAIN cache : cache[k] = NoRecord
  BY DEF Init
<1>3. ~NoRecord.verified
  BY DEF NoRecord
<1>4. \A g \in Handlers : doing[g].op = "idle"
  BY DEF Init, Idle
<1> QED
  BY <1>1, <1>2, <1>3, <1>4 DEF Types, TypeOK

\* What the rest of TypeOK is about.
Rest ==
  /\ {targetAddr, codeAddr} \cup matched \cup entered \subseteq Addresses
  /\ world \in Worlds /\ DOMAIN cache = {world.code[a] : a \in Addresses}
  /\ \A k \in DOMAIN cache : RecordOK(cache[k])

BundlesTyped ==
  /\ DOMAIN bundles \subseteq Addresses
  /\ \A k \in DOMAIN bundles : bundles[k] \in BundleType

LEMMA TypesAre == Types <=> BundlesTyped /\ Placed(breakpoints) /\ Rest /\ HandlersTyped
BY DEF Types, TypeOK, BundlesTyped, Rest, Placed, Places, RecordOK, HandlersTyped, HandlerTyped

LEMMA TypesNext ==
  ASSUME BundlesTyped', Placed(breakpoints'), Rest', HandlersTyped'
  PROVE  Types'
<1>1. (BundlesTyped /\ Placed(breakpoints) /\ Rest /\ HandlersTyped)' => Types'
  BY TypesAre, PTL
<1> QED
  BY <1>1

\* One handler takes up a task of the right type, the others go on.
LEMMA OneTyped ==
  ASSUME IInv, HandlersTyped, NEW g \in Handlers, NEW d, HandlerTyped(d),
         doing' = [doing EXCEPT ![g] = d]
  PROVE  HandlersTyped'
<1>1. doing = [h \in Handlers |-> doing[h]]
  BY DEF IInv, Settled
<1>2. \A h \in Handlers : doing'[h] = d \/ doing'[h] = doing[h]
  BY <1>1
<1> QED
  BY <1>2 DEF HandlersTyped

LEMMA IdleTyped == HandlerTyped(Idle)
BY DEF HandlerTyped, Idle

\* Further down the list, or back: the contract entered is one of the world.
LEMMA GoesOnTypes ==
  ASSUME IInv, Types, NEW g \in Handlers, doing[g].op \in {"kept", "resolve", "write"},
         NEW next, NEW last, GoesOn(g, next, last)
  PROVE  HandlersTyped' /\ entered' \subseteq Addresses
<1>1. HandlersTyped /\ Rest
  BY TypesAre
<1>2. doing[g].bundle \in BundleType /\ doing[g].enters \subseteq Addresses
  BY <1>1 DEF HandlersTyped, HandlerTyped
<1>3. CASE next > last
  <2>1. doing' = [doing EXCEPT ![g] = Idle] /\ entered' = entered \cup doing[g].enters
    BY <1>3 DEF GoesOn, Returns
  <2>2. HandlersTyped'
    BY <1>1, <2>1, OneTyped, IdleTyped
  <2> QED BY <1>1, <1>2, <2>1, <2>2 DEF Rest
<1>4. CASE ~(next > last)
  <2>1. PICK d : d = Resolves(doing[g], next, last)
    OBVIOUS
  <2>2. doing = [h \in Handlers |-> doing[h]]
    BY DEF IInv, Settled
  <2>3. doing' = [doing EXCEPT ![g] = d] /\ entered' = entered
    BY <1>4, <2>1, <2>2 DEF GoesOn
  <2>4. HandlerTyped(d)
    BY <1>2, <2>1 DEF HandlerTyped, Resolves
  <2>5. HandlersTyped'
    BY <1>1, <2>3, <2>4, OneTyped
  <2> QED BY <1>1, <2>3, <2>5 DEF Rest
<1> QED
  BY <1>3, <1>4

\* A bundle put into a session.
LEMMA PutTypes ==
  ASSUME IInv, Types, NEW g \in Handlers, doing[g].op = "found",
         NEW key \in Addresses, Put(g, key)
  PROVE  BundlesTyped' /\ HandlersTyped'
<1>1. BundlesTyped /\ HandlersTyped
  BY TypesAre
<1>2. PICK bundle : bundle = doing[g].bundle
  OBVIOUS
<1>3. bundle \in BundleType /\ doing[g].enters \subseteq Addresses
  BY <1>1, <1>2 DEF HandlersTyped, HandlerTyped
<1>4. bundles' = [k \in DOMAIN bundles \cup {key} |-> IF k = key THEN bundle ELSE bundles[k]]
  BY <1>2 DEF Put
<1>5. BundlesTyped'
  BY <1>1, <1>3, <1>4 DEF BundlesTyped
<1>6. ASSUME NEW h \in Handlers PROVE HandlerTyped(doing'[h])
  <2>1. doing'[h] = IF h = g THEN Keeps(doing[g])
                    ELSE IF doing[h].op = "store" THEN [doing[h] EXCEPT !.bp.missed = TRUE]
                    ELSE doing[h]
    BY DEF Put
  <2>2. CASE h = g
    BY <1>2, <1>3, <2>1, <2>2 DEF HandlerTyped, Keeps
  <2>3. CASE h # g /\ doing[h].op = "store"
    <3>1. PICK d, bp : d = doing[h] /\ bp = d.bp
      OBVIOUS
    <3>2. DOMAIN d = {"op", "bp"} /\ d.op = "store" /\ IsBreakpoint(bp) /\ bp.code \in Places
      BY <1>1, <2>3, <3>1 DEF IInv, Settled, HandlerOK, HandlersTyped, HandlerTyped
    <3>3. PICK bp1 : bp1 = [bp EXCEPT !.missed = TRUE]
      OBVIOUS
    <3>4. doing'[h] = [d EXCEPT !.bp = bp1]
      BY <2>1, <2>3, <3>1, <3>3
    <3>5. bp1.code = bp.code
      BY <3>2, <3>3 DEF IsBreakpoint
    <3>6. PICK d1 : d1 = doing'[h]
      OBVIOUS
    <3>7. d1.op = "store" /\ d1.bp = bp1
      BY <3>2, <3>4, <3>6
    <3> QED BY <3>2, <3>5, <3>6, <3>7 DEF HandlerTyped
  <2>4. CASE h # g /\ doing[h].op # "store"
    BY <1>1, <2>1, <2>4 DEF HandlersTyped
  <2> QED BY <2>2, <2>3, <2>4
<1> QED
  BY <1>5, <1>6 DEF HandlersTyped

LEMMA KeepTypes ==
  ASSUME IInv, Types, NEW g \in Handlers, Keep(g)
  PROVE  Types'
<1>1. BundlesTyped /\ Placed(breakpoints) /\ Rest /\ HandlersTyped
  BY TypesAre
<1>2. PICK bundle : bundle = doing[g].bundle
  OBVIOUS
<1>3. PICK key : key = IF bundle.codeAddress # NoAddress THEN bundle.codeAddress
                       ELSE IF doing[g].other # NoAddress THEN doing[g].other ELSE targetAddr
  OBVIOUS
<1>4. /\ doing[g].op = "found" /\ Put(g, key)
      /\ codeAddr' = IF g \in Clients /\ bundle.codeAddress # NoAddress
                     THEN bundle.codeAddress ELSE codeAddr
      /\ targetAddr' = IF g \in Clients /\ bundle.address # NoAddress
                       THEN bundle.address ELSE targetAddr
      /\ UNCHANGED <<world, breakpoints, matched, cache, entered>>
  BY <1>2, <1>3 DEF Keep
<1>5. bundle \in BundleType /\ doing[g].other \in Places
  BY <1>1, <1>2, <1>4 DEF HandlersTyped, HandlerTyped
<1>6. bundle.codeAddress \in Places /\ bundle.address \in Places
  BY <1>5 DEF BundleType, Places
<1>7. targetAddr \in Addresses /\ codeAddr \in Addresses
  BY <1>1 DEF Rest
<1>8. key \in Addresses
  BY <1>3, <1>5, <1>6, <1>7 DEF Places
<1>9. BundlesTyped' /\ HandlersTyped'
  BY <1>4, <1>8, PutTypes
<1>10. targetAddr' \in Addresses /\ codeAddr' \in Addresses
  BY <1>4, <1>6, <1>7 DEF Places
<1>11. Rest' /\ Placed(breakpoints')
  BY <1>1, <1>4, <1>10 DEF Rest, RecordOK
<1> QED
  BY <1>9, <1>11, TypesNext

\* A call's contract is looked for: the bundle found and the cache are typed.
LEMMA PreloadTypes ==
  ASSUME IInv, Types, NEW callee \in Addresses, NEW code \in Addresses,
         contractPreloadHook(callee, code),
         UNCHANGED <<world, bundles, breakpoints, targetAddr, codeAddr>>
  PROVE  Types'
<1>0. BundlesTyped /\ Placed(breakpoints) /\ Rest /\ HandlersTyped
  BY TypesAre
<1>1. matched' \subseteq Addresses
  BY <1>0 DEF contractPreloadHook, Rest
<1>2. /\ HandlersTyped' /\ entered' \subseteq Addresses
      /\ DOMAIN cache' = DOMAIN cache
      /\ \A k \in DOMAIN cache' : RecordOK(cache'[k])
  <2>1. CASE UNCHANGED <<doing, cache>>
    <3>1. entered' = entered \cup {code} \/ entered' = entered
      BY <2>1 DEF contractPreloadHook
    <3>2. entered' \subseteq Addresses
      BY <1>0, <3>1 DEF Rest
    <3> QED BY <1>0, <2>1, <3>2 DEF Rest, HandlersTyped, RecordOK
  <2>2. CASE ~UNCHANGED <<doing, cache>>
    <3>1. PICK readable \in BOOLEAN, up \in BOOLEAN :
            LET result == AutoMatchBundle(callee, readable, up)
            IN /\ cache' = result.cache
               /\ IF result.bundles = {}
                  THEN entered' = entered \cup {code} /\ UNCHANGED doing
                  ELSE /\ entered' = entered
                       /\ \E bundle \in result.bundles :
                            doing' = [doing EXCEPT ![Run] = Finds(bundle, code, {code})]
      BY <2>2 DEF contractPreloadHook
    <3>2. PICK result : result = AutoMatchBundle(callee, readable, up)
      OBVIOUS
    <3>3. /\ result.bundles \subseteq BundleType /\ DOMAIN result.cache = DOMAIN cache
          /\ \A k \in DOMAIN cache : RecordOK(result.cache[k])
      BY <3>2, AutoMatches
    <3>4. /\ cache' = result.cache
          /\ \/ entered' = entered \cup {code} /\ UNCHANGED doing
             \/ /\ entered' = entered
                /\ \E bundle \in result.bundles :
                     doing' = [doing EXCEPT ![Run] = Finds(bundle, code, {code})]
      BY <3>1, <3>2
    <3>5. entered' \subseteq Addresses
      BY <1>0, <3>4 DEF Rest
    <3>6. HandlersTyped'
      <4>1. CASE UNCHANGED doing
        BY <1>0, <4>1 DEF HandlersTyped
      <4>2. CASE ~UNCHANGED doing
        <5>1. PICK bundle \in result.bundles :
                doing' = [doing EXCEPT ![Run] = Finds(bundle, code, {code})]
          BY <3>4, <4>2
        <5>2. HandlerTyped(Finds(bundle, code, {code}))
          BY <3>3 DEF HandlerTyped, Finds, Places
        <5>3. Run \in Handlers
          BY DEF Handlers
        <5> QED BY <1>0, <5>1, <5>2, <5>3, OneTyped
      <4> QED BY <4>1, <4>2
    <3> QED BY <3>3, <3>4, <3>5, <3>6
  <2> QED BY <2>1, <2>2
<1>3. Rest'
  BY <1>0, <1>1, <1>2 DEF Rest, RecordOK
<1>4. BundlesTyped' /\ Placed(breakpoints')
  BY <1>0 DEF BundlesTyped
<1> QED
  BY <1>2, <1>3, <1>4, TypesNext

LEMMA NewPlaced ==
  ASSUME Types, NEW request \in BreakpointRequests, NEW bp \in NewBreakpoints(request)
  PROVE  bp.code \in Places
<1>1. /\ request.kind \in {"source", "function", "call", "storage", "memory"}
      /\ request.address \in Places /\ DOMAIN bundles \subseteq Places
      /\ NoAddress \in Places
  BY RequestAssumption DEF Places, Types, TypeOK
<1>2. ASSUME NEW code \in Places, NEW pcs, NEW slot
      PROVE  Breakpoint(request, code, pcs, slot).code \in Places
  BY DEF Breakpoint
<1>3. CASE request.kind = "source"
  <2>1. bp \in SourceBreakpoints(request)
    BY <1>3 DEF NewBreakpoints
  <2> QED BY <1>1, <1>2, <2>1 DEF SourceBreakpoints
<1>4. CASE request.kind = "storage"
  <2>1. bp \in StorageBreakpoints(request)
    BY <1>4 DEF NewBreakpoints
  <2>2. PICK slot : bp = Breakpoint(request, NoAddress, {}, slot)
    BY <2>1 DEF StorageBreakpoints
  <2> QED BY <1>1, <1>2, <2>2
<1>5. CASE request.kind = "memory"
  <2>1. bp \in MemoryBreakpoints(request)
    BY <1>5 DEF NewBreakpoints
  <2>2. resolveBundleForBreakpoint(request.address) \subseteq DOMAIN bundles
    BY DEF resolveBundleForBreakpoint
  <2>3. PICK code, pcs : code \in Places /\ bp = Breakpoint(request, code, pcs, 0)
    BY <1>1, <2>1, <2>2 DEF MemoryBreakpoints
  <2> QED BY <1>2, <2>3
<1>6. CASE request.kind \in {"function", "call"}
  <2>1. bp = Breakpoint(request, request.address, {}, 0)
    BY <1>6 DEF NewBreakpoints
  <2> QED BY <1>1, <1>2, <2>1
<1> QED
  BY <1>1, <1>3, <1>4, <1>5, <1>6

LEMMA ResyncedPlaced ==
  ASSUME NEW bp, IsBreakpoint(bp), bp.code \in Places,
         NEW d, d.bundle \in BundleType
  PROVE  Resynced(bp, d).code \in Places
<1>1. d.bundle.codeAddress \in Places
  BY DEF BundleType, Places
<1>2. PICK code : code = IF bp.code = NoAddress THEN d.bundle.codeAddress ELSE bp.code
  OBVIOUS
<1>3. \/ Resynced(bp, d) = [bp EXCEPT !.missed = TRUE]
      \/ Resynced(bp, d) = [bp EXCEPT !.pcs = d.pcs, !.misplaced = d.place # Place(bp),
                                      !.code = code]
  BY <1>2 DEF Resynced, IsBreakpoint
<1> QED
  BY <1>1, <1>2, <1>3 DEF IsBreakpoint

\* A handler on its way down the list.
LEMMA ResyncTypes ==
  ASSUME IInv, Types, NEW g \in Handlers, ResyncBegins(g) \/ Resolve(g) \/ Write(g)
  PROVE  Types'
<1>0. BundlesTyped /\ Placed(breakpoints) /\ Rest /\ HandlersTyped
  BY TypesAre
<1>1. UNCHANGED <<world, bundles, targetAddr, codeAddr, matched, cache>>
  BY DEF ResyncBegins, Resolve, Write, session
<1>2. BundlesTyped'
  BY <1>0, <1>1 DEF BundlesTyped
<1>3. HandlersTyped' /\ entered' \subseteq Addresses
  <2>1. CASE \E next, last : GoesOn(g, next, last)
    <3>1. doing[g].op \in {"kept", "resolve", "write"}
      BY DEF ResyncBegins, Resolve, Write
    <3> QED BY <2>1, <3>1, GoesOnTypes
  <2>2. CASE doing' = [doing EXCEPT ![g] = Idle] /\ entered' = entered
    <3>1. HandlersTyped'
      BY <1>0, <2>2, OneTyped, IdleTyped
    <3> QED BY <1>0, <2>2, <3>1 DEF Rest
  <2>3. CASE Resolve(g) /\ ~(\E next, last : GoesOn(g, next, last))
                        /\ ~(doing' = [doing EXCEPT ![g] = Idle])
    <3>1. PICK d : d = doing[g]
      OBVIOUS
    <3>2. doing = [h \in Handlers |-> doing[h]]
      BY DEF IInv, Settled
    <3>3. PICK w : w = Writes(d, resyncBreakpointsForBundle(d.bundle, breakpoints[d.next]),
                              Place(breakpoints[d.next]))
      OBVIOUS
    <3>4. doing' = [doing EXCEPT ![g] = w] /\ entered' = entered
      BY <2>3, <3>1, <3>2, <3>3 DEF Resolve
    <3>5. d.bundle \in BundleType /\ d.enters \subseteq Addresses
      BY <1>0, <2>3, <3>1 DEF Resolve, HandlersTyped, HandlerTyped
    <3>6. HandlerTyped(w)
      BY <3>3, <3>5 DEF HandlerTyped, Writes
    <3>7. HandlersTyped'
      BY <1>0, <3>4, <3>6, OneTyped
    <3> QED BY <1>0, <3>4, <3>7 DEF Rest
  <2>4. \/ \E next, last : GoesOn(g, next, last)
        \/ Resolve(g)
    BY DEF ResyncBegins, Write
  <2>5. Resolve(g) /\ doing' = [doing EXCEPT ![g] = Idle] =>
          \/ entered' = entered
          \/ \E next, last : GoesOn(g, next, last)
    BY DEF Resolve
  <2> QED BY <2>1, <2>2, <2>3, <2>4, <2>5
<1>4. Placed(breakpoints')
  <2>1. CASE ~Write(g)
    <3>1. breakpoints' = breakpoints
      BY <2>1 DEF ResyncBegins, Resolve, session
    <3> QED BY <1>0, <3>1
  <2>2. CASE Write(g)
    <3>1. PICK d : d = doing[g]
      OBVIOUS
    <3>2. breakpoints' = [k \in DOMAIN breakpoints |->
                            IF k = d.next THEN Resynced(breakpoints[k], d) ELSE breakpoints[k]]
      BY <2>2, <3>1 DEF Write
    <3>3. d.bundle \in BundleType
      BY <1>0, <2>2, <3>1 DEF Write, HandlersTyped, HandlerTyped
    <3>4. \A k \in DOMAIN breakpoints : IsBreakpoint(breakpoints[k])
      BY DEF IInv, Settled
    <3> QED BY <1>0, <3>2, <3>3, <3>4, ResyncedPlaced DEF Placed
  <2> QED BY <2>1, <2>2
<1>5. Rest'
  BY <1>0, <1>1, <1>3 DEF Rest, RecordOK
<1> QED
  BY <1>2, <1>3, <1>4, <1>5, TypesNext

\* Requests for breakpoints: looked up, stored and deleted.
LEMMA RequestTypes ==
  ASSUME IInv, Types, NEW g \in Clients,
         loadSourceBundle(g) \/ setBreakpoint(g) \/ Store(g) \/ deleteBreakpoint(g)
  PROVE  Types'
<1>0. /\ BundlesTyped /\ Placed(breakpoints) /\ Rest /\ HandlersTyped
      /\ g \in Handlers
  BY TypesAre DEF Handlers
<1>1. UNCHANGED <<world, bundles, targetAddr, codeAddr, matched, cache, entered>>
  BY DEF loadSourceBundle, setBreakpoint, Store, deleteBreakpoint, session
<1>2. BundlesTyped' /\ Rest'
  BY <1>0, <1>1 DEF BundlesTyped, Rest, RecordOK
<1>3. CASE loadSourceBundle(g)
  <2>1. PICK request \in LoadRequests, readable \in BOOLEAN, up \in BOOLEAN :
          \E bundle \in LoadResults(request, readable, up) :
            doing' = [doing EXCEPT ![g] = Finds(bundle, bundle.address, {})]
    BY <1>3 DEF loadSourceBundle
  <2>2. PICK bundle \in LoadResults(request, readable, up) :
          doing' = [doing EXCEPT ![g] = Finds(bundle, bundle.address, {})]
    BY <2>1
  <2>3. bundle \in BundleType
    BY LoadedBundles
  <2>4. HandlerTyped(Finds(bundle, bundle.address, {}))
    BY <2>3 DEF HandlerTyped, Finds, BundleType, Places
  <2>5. HandlersTyped'
    BY <1>0, <2>2, <2>4, OneTyped
  <2>6. breakpoints' = breakpoints
    BY <1>3 DEF loadSourceBundle, session
  <2> QED BY <1>0, <1>2, <2>5, <2>6, TypesNext
<1>4. CASE setBreakpoint(g)
  <2>1. PICK request \in BreakpointRequests : \E bp \in NewBreakpoints(request) :
          doing' = [doing EXCEPT ![g] = Stores(bp)]
    BY <1>4 DEF setBreakpoint
  <2>2. PICK bp \in NewBreakpoints(request) : doing' = [doing EXCEPT ![g] = Stores(bp)]
    BY <2>1
  <2>3. bp.code \in Places
    BY NewPlaced
  <2>4. HandlerTyped(Stores(bp))
    BY <2>3 DEF HandlerTyped, Stores
  <2>5. HandlersTyped'
    BY <1>0, <2>2, <2>4, OneTyped
  <2>6. breakpoints' = breakpoints
    BY <1>4 DEF setBreakpoint, session
  <2> QED BY <1>0, <1>2, <2>5, <2>6, TypesNext
<1>5. CASE Store(g)
  <2>1. PICK bp : bp = doing[g].bp
    OBVIOUS
  <2>2. breakpoints' = upsertBreakpoint(bp) /\ bp.code \in Places
    BY <1>0, <1>5, <2>1 DEF Store, HandlersTyped, HandlerTyped
  <2>3. Placed(breakpoints')
    BY <1>0, <2>2, UpsertIsList DEF Placed
  <2>4. PICK moved \in BOOLEAN :
          doing' = [h \in Handlers |->
                      IF h = g THEN Idle
                      ELSE IF moved /\ doing[h].op = "write" THEN [doing[h] EXCEPT !.pcs = {}]
                      ELSE doing[h]]
    BY <1>5 DEF Store
  <2>5. ASSUME NEW h \in Handlers PROVE HandlerTyped(doing'[h])
    <3>1. CASE doing'[h] = Idle
      BY <3>1, IdleTyped
    <3>2. CASE doing'[h] = doing[h]
      BY <1>0, <3>2 DEF HandlersTyped
    <3>3. CASE doing[h].op = "write" /\ doing'[h] = [doing[h] EXCEPT !.pcs = {}]
      <4>1. PICK d, d1 : d = doing[h] /\ d1 = doing'[h]
        OBVIOUS
      <4>2. DOMAIN d = {"op", "bundle", "enters", "next", "last", "pcs", "place"}
        BY <3>3, <4>1 DEF IInv, Settled, HandlerOK
      <4>3. d1.op = d.op /\ d1.bundle = d.bundle /\ d1.enters = d.enters
        BY <3>3, <4>1, <4>2
      <4> QED BY <1>0, <3>3, <4>1, <4>3 DEF HandlersTyped, HandlerTyped
    <3> QED BY <2>4, <3>1, <3>2, <3>3
  <2>6. HandlersTyped'
    BY <2>5 DEF HandlersTyped
  <2> QED BY <1>2, <2>3, <2>6, TypesNext
<1>6. CASE deleteBreakpoint(g)
  <2>1. PICK i \in 1 .. Len(breakpoints) : breakpoints' = Without(i)
    BY <1>6 DEF deleteBreakpoint
  <2>2. ASSUME NEW k \in DOMAIN breakpoints' PROVE breakpoints'[k].code \in Places
    <3>1. PICK j \in DOMAIN breakpoints :
            \/ breakpoints'[k] = breakpoints[j]
            \/ breakpoints'[k] = [breakpoints[j] EXCEPT !.missed = TRUE]
      BY <2>1, WithoutIs
    <3>2. IsBreakpoint(breakpoints[j]) /\ breakpoints[j].code \in Places
      BY <1>0 DEF IInv, Settled, Placed
    <3> QED BY <3>1, <3>2 DEF IsBreakpoint
  <2>3. HandlersTyped'
    <3>1. doing' = doing
      BY <1>6 DEF deleteBreakpoint
    <3> QED BY <1>0, <3>1 DEF HandlersTyped
  <2>4. Placed(breakpoints')
    BY <2>2 DEF Placed
  <2> QED BY <1>2, <2>3, <2>4, TypesNext
<1> QED
  BY <1>3, <1>4, <1>5, <1>6

LEMMA StepTypes ==
  ASSUME IInv, Types, [Next]_vars
  PROVE  Types'
<1>0. BundlesTyped /\ Placed(breakpoints) /\ Rest /\ HandlersTyped
  BY TypesAre
<1>1. CASE \E g \in Clients :
             loadSourceBundle(g) \/ setBreakpoint(g) \/ Store(g) \/ deleteBreakpoint(g)
  BY <1>1, RequestTypes
<1>2. CASE \E g \in Handlers : Keep(g)
  BY <1>2, KeepTypes
<1>3. CASE \E g \in Handlers : ResyncBegins(g) \/ Resolve(g) \/ Write(g)
  BY <1>3, ResyncTypes
<1>4. CASE CallsContract
  <2>1. PICK address \in Addresses : contractPreloadHook(address, address)
    BY <1>4 DEF CallsContract
  <2>2. UNCHANGED <<world, bundles, breakpoints, targetAddr, codeAddr>>
    BY <1>4 DEF CallsContract, session
  <2> QED BY <2>1, <2>2, PreloadTypes
<1>5. CASE DelegatesTo
  <2>1. PICK address \in entered :
          LET code == world.implementation[address]
          IN code # NoAddress /\ contractPreloadHook(address, code)
    BY <1>5 DEF DelegatesTo
  <2>2. PICK code : code = world.implementation[address]
    OBVIOUS
  <2>3. address \in Addresses /\ code \in Addresses
    BY <1>0, <2>1, <2>2, WorldAssumption DEF Rest
  <2>4. UNCHANGED <<world, bundles, breakpoints, targetAddr, codeAddr>>
    BY <1>5 DEF DelegatesTo, session
  <2>5. contractPreloadHook(address, code)
    BY <2>1, <2>2
  <2> QED BY <2>3, <2>4, <2>5, PreloadTypes
<1>6. CASE (\E g \in Clients : configureAutoMatch(g)) \/ RunEnds \/ UNCHANGED vars
  <2>1. UNCHANGED <<world, bundles, breakpoints, targetAddr, codeAddr, doing, matched, cache>>
        /\ entered' \in {entered, {}}
    BY <1>6 DEF configureAutoMatch, RunEnds, vars, session
  <2>2. BundlesTyped' /\ Placed(breakpoints') /\ Rest' /\ HandlersTyped'
    BY <1>0, <2>1 DEF BundlesTyped, Rest, Placed, RecordOK, HandlersTyped
  <2> QED BY <2>2, TypesNext
<1>7. CASE Continue
  <2>1. /\ UNCHANGED <<world, bundles, breakpoints, doing, matched, cache>>
        /\ entered' = {world.root} /\ targetAddr' = world.root /\ codeAddr' = world.root
    BY <1>7 DEF Continue
  <2>2. world.root \in Addresses
    BY <1>0, WorldAssumption DEF Rest
  <2>3. BundlesTyped' /\ Placed(breakpoints') /\ Rest' /\ HandlersTyped'
    BY <1>0, <2>1, <2>2 DEF BundlesTyped, Rest, Placed, RecordOK, HandlersTyped
  <2> QED BY <2>3, TypesNext
<1>8. CASE StepStops
  <2>1. /\ UNCHANGED <<world, bundles, breakpoints, targetAddr, doing, matched, cache>>
        /\ codeAddr' \in entered /\ entered' = {}
    BY <1>8 DEF StepStops
  <2>2. BundlesTyped' /\ Placed(breakpoints') /\ Rest' /\ HandlersTyped'
    BY <1>0, <2>1 DEF BundlesTyped, Rest, Placed, RecordOK, HandlersTyped
  <2> QED BY <2>2, TypesNext
<1> QED
  BY <1>1, <1>2, <1>3, <1>4, <1>5, <1>6, <1>7, <1>8 DEF Next

\* Bundles, breakpoints, the addresses of the session, the records of the
\* cache directory and what the handlers hold stay what they are: every bundle
\* is of a contract the project or the explorer knows and kept under an address.
THEOREM TypeCorrect == Spec => []TypeOK
<1>1. Init => IInv /\ Types
  BY InitSettles, TypesInit
<1>2. IInv /\ Types /\ [Next]_vars => IInv' /\ Types'
  BY StepSettles, StepTypes
<1>3. Types => TypeOK
  BY DEF Types
<1> QED
  BY <1>1, <1>2, <1>3, PTL DEF Spec

-----------------------------------------------------------------------------
(* Stops.                                                                  *)

\* What the line of a breakpoint gives in an artifact.
InArtifact(l, bp) ==
  resolveSourceBreakpointPCs(Bundle(l.contract, l.key, l.key, TRUE), bp.file, bp.line, bp.column)

\* Where the program counters of a source breakpoint come from: an artifact
\* the session has or had, unless they were found for another breakpoint; and
\* its address is one of a bundle.
Traced(bp, bs, ld) ==
  bp.kind = "source" =>
    /\ bp.code = NoAddress \/ bp.code \in DOMAIN bs
    /\ \/ bp.misplaced
       \/ bp.pcs = {}
       \/ \E l \in ld : bp.pcs = InArtifact(l, bp)

\* What a handler is about to store or to write is traced as well.
HandlerTraced(d, bs, ld) ==
  /\ d.op = "store" => Traced(d.bp, bs, ld)
  /\ d.op \in {"kept", "resolve", "write"} =>
       /\ d.bundle.codeAddress = NoAddress \/ d.bundle.codeAddress \in DOMAIN bs
       /\ \E l \in ld : l.contract = d.bundle.contract
  /\ d.op = "write" => d.pcs = {} \/ d.pcs = Resolved(d.bundle, d.place)

AllTraced ==
  /\ \A k \in DOMAIN breakpoints : Traced(breakpoints[k], bundles, loaded)
  /\ \A a \in DOMAIN bundles : [key |-> a, contract |-> bundles[a].contract] \in loaded
  /\ \A g \in Handlers : HandlerTraced(doing[g], bundles, loaded)

\* Only the artifact of a bundle matters for a line, when it has an index.
LEMMA ResolvedByArtifact ==
  ASSUME NEW bundle, NEW l, l.contract = bundle.contract, NEW bp,
         Resolved(bundle, bp) # {}
  PROVE  Resolved(bundle, bp) = InArtifact(l, bp)
<1>1. bundle.index
  BY DEF Resolved, resolveSourceBreakpointPCs
<1>2. PICK b : b = Bundle(l.contract, l.key, l.key, TRUE)
  OBVIOUS
<1>3. b.contract = bundle.contract /\ b.index
  BY <1>2 DEF Bundle
<1> QED
  BY <1>1, <1>2, <1>3 DEF Resolved, InArtifact, resolveSourceBreakpointPCs

LEMMA InitTraced == Init => AllTraced
<1> SUFFICES ASSUME Init PROVE AllTraced
  OBVIOUS
<1>1. DOMAIN breakpoints = {} /\ DOMAIN bundles = {}
  BY DEF Init
<1>2. \A g \in Handlers : doing[g].op = "idle"
  BY DEF Init, Idle
<1>3. \A g \in Handlers : HandlerTraced(doing[g], bundles, loaded)
  BY <1>2 DEF HandlerTraced
<1> QED
  BY <1>1, <1>3 DEF AllTraced

\* Bundles and what is known of them only grow.
LEMMA TracedGrows ==
  ASSUME NEW bs, NEW ld, NEW bs1, NEW ld1, DOMAIN bs \subseteq DOMAIN bs1, ld \subseteq ld1
  PROVE  /\ \A bp : Traced(bp, bs, ld) => Traced(bp, bs1, ld1)
         /\ \A d : HandlerTraced(d, bs, ld) => HandlerTraced(d, bs1, ld1)
<1>1. ASSUME NEW bp, Traced(bp, bs, ld) PROVE Traced(bp, bs1, ld1)
  BY <1>1 DEF Traced
<1>2. ASSUME NEW d, HandlerTraced(d, bs, ld) PROVE HandlerTraced(d, bs1, ld1)
  <2>1. d.op = "store" => Traced(d.bp, bs1, ld1)
    BY <1>1, <1>2 DEF HandlerTraced
  <2>2. d.op \in {"kept", "resolve", "write"} =>
          /\ d.bundle.codeAddress = NoAddress \/ d.bundle.codeAddress \in DOMAIN bs1
          /\ \E l \in ld1 : l.contract = d.bundle.contract
    BY <1>2 DEF HandlerTraced
  <2> QED BY <1>2, <2>1, <2>2 DEF HandlerTraced
<1> QED
  BY <1>1, <1>2

\* A breakpoint marked as missed is traced as before.
LEMMA MarkedTraced ==
  ASSUME NEW bp, IsBreakpoint(bp), NEW bs, NEW ld, Traced(bp, bs, ld)
  PROVE  Traced([bp EXCEPT !.missed = TRUE], bs, ld)
<1>1. PICK new : new = [bp EXCEPT !.missed = TRUE]
  OBVIOUS
<1>2. /\ new.kind = bp.kind /\ new.code = bp.code /\ new.pcs = bp.pcs
      /\ new.misplaced = bp.misplaced /\ new.file = bp.file /\ new.line = bp.line
      /\ new.column = bp.column
  BY <1>1 DEF IsBreakpoint
<1>3. \A l : InArtifact(l, new) = InArtifact(l, bp)
  BY <1>2 DEF InArtifact
<1>4. Traced(new, bs, ld)
  BY <1>2, <1>3 DEF Traced
<1> QED
  BY <1>1, <1>4

\* The list, the bundles and what is known of them stay as they are, and so
\* do the handlers but one.
LEMMA OneTraced ==
  ASSUME IInv, AllTraced, NEW g \in Handlers,
         UNCHANGED <<bundles, breakpoints, loaded>>,
         \A h \in Handlers : h # g => doing'[h] = doing[h],
         HandlerTraced(doing'[g], bundles, loaded)
  PROVE  AllTraced'
<1>1. \A h \in Handlers : HandlerTraced(doing'[h], bundles, loaded)
  BY DEF AllTraced
<1> QED
  BY <1>1 DEF AllTraced

\* Nothing is asked of a handler that is idle or has just found a bundle.
LEMMA RestingTraced ==
  ASSUME NEW bs, NEW ld
  PROVE  /\ HandlerTraced(Idle, bs, ld)
         /\ \A bundle, other, enters : HandlerTraced(Finds(bundle, other, enters), bs, ld)
BY DEF HandlerTraced, Idle, Finds

\* A handler that goes on in the list holds the bundle it held.
LEMMA GoesOnTraced ==
  ASSUME IInv, NEW bs, NEW ld, NEW g \in Handlers, HandlerTraced(doing[g], bs, ld),
         doing[g].op \in {"kept", "resolve", "write"},
         NEW next, NEW last, GoesOn(g, next, last)
  PROVE  /\ \A h \in Handlers : h # g => doing'[h] = doing[h]
         /\ HandlerTraced(doing'[g], bs, ld)
<1>1. doing = [h \in Handlers |-> doing[h]]
  BY DEF IInv, Settled
<1>2. CASE next > last
  <2>1. doing' = [doing EXCEPT ![g] = Idle]
    BY <1>2 DEF GoesOn, Returns
  <2> QED BY <1>1, <2>1, RestingTraced
<1>3. CASE ~(next > last)
  <2>1. doing' = [doing EXCEPT ![g] = Resolves(doing[g], next, last)]
    BY <1>1, <1>3 DEF GoesOn
  <2>2. PICK d : d = doing'[g]
    OBVIOUS
  <2>3. d = Resolves(doing[g], next, last)
    BY <1>1, <2>1, <2>2
  <2>4. d.op = "resolve" /\ d.bundle = doing[g].bundle
    BY <2>3 DEF Resolves
  <2>5. HandlerTraced(d, bs, ld)
    BY <2>4 DEF HandlerTraced
  <2> QED BY <1>1, <2>1, <2>2, <2>5
<1> QED
  BY <1>2, <1>3

\* A bundle is kept, under the address its code is at when it has one.
LEMMA PutTraced ==
  ASSUME IInv, AllTraced, NEW g \in Handlers, NEW key, Put(g, key),
         doing[g].bundle.codeAddress \in {NoAddress, key}, breakpoints' = breakpoints
  PROVE  AllTraced'
<1>1. PICK bundle : bundle = doing[g].bundle
  OBVIOUS
<1>2. /\ bundles' = [k \in DOMAIN bundles \cup {key} |->
                       IF k = key THEN bundle ELSE bundles[k]]
      /\ loaded' = loaded \cup {[key |-> key, contract |-> bundle.contract]}
      /\ doing' = [h \in Handlers |->
                     IF h = g THEN Keeps(doing[g])
                     ELSE IF doing[h].op = "store" THEN [doing[h] EXCEPT !.bp.missed = TRUE]
                     ELSE doing[h]]
  BY <1>1 DEF Put
<1>3. key \in DOMAIN bundles' /\ DOMAIN bundles \subseteq DOMAIN bundles'
      /\ loaded \subseteq loaded'
  BY <1>2
<1>4. \A a \in DOMAIN bundles' : [key |-> a, contract |-> bundles'[a].contract] \in loaded'
  BY <1>2 DEF AllTraced
<1>5. \A k \in DOMAIN breakpoints' : Traced(breakpoints'[k], bundles', loaded')
  BY <1>3, TracedGrows DEF AllTraced
<1>6. ASSUME NEW h \in Handlers PROVE HandlerTraced(doing'[h], bundles', loaded')
  <2>1. HandlerTraced(doing[h], bundles', loaded')
    BY <1>3, TracedGrows DEF AllTraced
  <2>2. CASE h = g
    <3>1. PICK d : d = doing'[h]
      OBVIOUS
    <3>2. d.op = "kept" /\ d.bundle = bundle
      BY <1>1, <1>2, <2>2, <3>1 DEF Keeps
    <3>3. PICK l \in loaded' : l = [key |-> key, contract |-> bundle.contract]
      BY <1>2
    <3>4. l.contract = bundle.contract
      BY <3>3
    <3>5. HandlerTraced(d, bundles', loaded')
      BY <1>1, <1>3, <3>2, <3>4 DEF HandlerTraced
    <3> QED BY <3>1, <3>5
  <2>3. CASE h # g /\ doing[h].op = "store"
    <3>1. PICK d : d = doing[h]
      OBVIOUS
    <3>2. PICK bp : bp = d.bp
      OBVIOUS
    <3>3. DOMAIN d = {"op", "bp"} /\ d.op = "store" /\ IsBreakpoint(bp)
      BY <2>3, <3>1, <3>2 DEF IInv, Settled, HandlerOK
    <3>4. doing'[h] = [d EXCEPT !.bp.missed = TRUE]
      BY <1>2, <2>3, <3>1
    <3>5. PICK d1 : d1 = doing'[h]
      OBVIOUS
    <3>6. d1 = [d EXCEPT !.bp = [bp EXCEPT !.missed = TRUE]]
      BY <3>2, <3>3, <3>4, <3>5
    <3>7. d1.op = "store" /\ d1.bp = [bp EXCEPT !.missed = TRUE]
      BY <3>3, <3>6
    <3>8. Traced(bp, bundles', loaded')
      BY <2>1, <3>1, <3>2, <3>3 DEF HandlerTraced
    <3>9. Traced(d1.bp, bundles', loaded')
      BY <3>3, <3>7, <3>8, MarkedTraced
    <3>10. HandlerTraced(d1, bundles', loaded')
      BY <3>7, <3>9 DEF HandlerTraced
    <3> QED BY <3>5, <3>10
  <2>4. CASE h # g /\ doing[h].op # "store"
    <3>1. doing'[h] = doing[h]
      BY <1>2, <2>4
    <3> QED BY <2>1, <3>1
  <2> QED BY <2>2, <2>3, <2>4
<1> QED
  BY <1>4, <1>5, <1>6 DEF AllTraced

LEMMA NewTraced ==
  ASSUME AllTraced, NEW request \in BreakpointRequests, NEW bp \in NewBreakpoints(request)
  PROVE  Traced(bp, bundles, loaded)
<1>1. request.kind \in {"source", "function", "call", "storage", "memory"}
  BY RequestAssumption
<1>2. ASSUME NEW code, NEW pcs, NEW slot
      PROVE  Breakpoint(request, code, pcs, slot).kind = request.kind
  BY DEF Breakpoint
<1>3. CASE request.kind = "source"
  <2>1. bp \in SourceBreakpoints(request)
    BY <1>3 DEF NewBreakpoints
  <2>2. \/ bp = Breakpoint(request, NoAddress, {}, 0)
        \/ \E k \in DOMAIN bundles : /\ PCsIn(k, request) # {}
                                     /\ bp = Breakpoint(request, k, PCsIn(k, request), 0)
    BY <2>1 DEF SourceBreakpoints
  <2>3. CASE bp = Breakpoint(request, NoAddress, {}, 0)
    BY <2>3 DEF Breakpoint, Traced
  <2>4. ASSUME NEW k \in DOMAIN bundles, PCsIn(k, request) # {},
               bp = Breakpoint(request, k, PCsIn(k, request), 0)
        PROVE  Traced(bp, bundles, loaded)
    <3>1. /\ bp.code = k /\ bp.pcs = PCsIn(k, request) /\ bp.file = request.file
          /\ bp.line = request.line /\ bp.column = request.column
      BY <2>4 DEF Breakpoint
    <3>2. PCsIn(k, request) = Resolved(bundles[k], bp)
      BY <3>1 DEF PCsIn, Resolved
    <3>3. PICK l \in loaded : l = [key |-> k, contract |-> bundles[k].contract]
      BY DEF AllTraced
    <3>4. l.contract = bundles[k].contract
      BY <3>3
    <3>5. Resolved(bundles[k], bp) = InArtifact(l, bp)
      BY <2>4, <3>2, <3>4, ResolvedByArtifact
    <3> QED BY <3>1, <3>2, <3>5 DEF Traced
  <2> QED BY <2>2, <2>3, <2>4
<1>4. CASE request.kind # "source"
  <2>1. bp.kind = request.kind
    <3>1. CASE request.kind = "storage"
      <4>1. bp \in StorageBreakpoints(request)
        BY <3>1 DEF NewBreakpoints
      <4>2. PICK slot : bp = Breakpoint(request, NoAddress, {}, slot)
        BY <4>1 DEF StorageBreakpoints
      <4> QED BY <1>2, <4>2
    <3>2. CASE request.kind = "memory"
      <4>1. bp \in MemoryBreakpoints(request)
        BY <3>2 DEF NewBreakpoints
      <4>2. PICK code, pcs : bp = Breakpoint(request, code, pcs, 0)
        BY <4>1 DEF MemoryBreakpoints
      <4> QED BY <1>2, <4>2
    <3>3. CASE request.kind \in {"function", "call"}
      <4>1. bp = Breakpoint(request, request.address, {}, 0)
        BY <3>3 DEF NewBreakpoints
      <4> QED BY <1>2, <4>1
    <3> QED BY <1>1, <1>4, <3>1, <3>2, <3>3
  <2> QED BY <1>4, <2>1 DEF Traced
<1> QED
  BY <1>3, <1>4

\* What a resync writes was found in its bundle, for this breakpoint or for
\* another: then it is marked.
LEMMA ResyncedTraced ==
  ASSUME NEW bp, IsBreakpoint(bp), NEW bs, NEW ld, Traced(bp, bs, ld),
         NEW d, d.op = "write", HandlerTraced(d, bs, ld)
  PROVE  Traced(Resynced(bp, d), bs, ld)
<1>1. PICK new : new = Resynced(bp, d)
  OBVIOUS
<1>2. CASE d.pcs = {}
  <2>1. new = [bp EXCEPT !.missed = TRUE]
    BY <1>1, <1>2 DEF Resynced
  <2> QED BY <1>1, <2>1, MarkedTraced
<1>3. CASE d.pcs # {}
  <2>1. PICK code : code = IF bp.code = NoAddress THEN d.bundle.codeAddress ELSE bp.code
    OBVIOUS
  <2>2. new = [bp EXCEPT !.pcs = d.pcs, !.misplaced = d.place # Place(bp), !.code = code]
    BY <1>1, <1>3, <2>1 DEF Resynced, IsBreakpoint
  <2>3. /\ new.pcs = d.pcs /\ new.misplaced = (d.place # Place(bp)) /\ new.code = code
        /\ new.kind = bp.kind /\ new.file = bp.file /\ new.line = bp.line
        /\ new.column = bp.column
    BY <2>2 DEF IsBreakpoint
  <2>4. bp.kind = "source" => code = NoAddress \/ code \in DOMAIN bs
    BY <2>1 DEF Traced, HandlerTraced
  <2>5. CASE d.place # Place(bp)
    BY <1>1, <2>3, <2>4, <2>5 DEF Traced
  <2>6. CASE d.place = Place(bp)
    <3>1. PICK l \in ld : l.contract = d.bundle.contract
      BY DEF HandlerTraced
    <3>2. PICK place : place = d.place
      OBVIOUS
    <3>3. place.file = new.file /\ place.line = new.line /\ place.column = new.column
      BY <2>3, <2>6, <3>2 DEF Place
    <3>4. d.pcs = Resolved(d.bundle, place)
      BY <1>3, <3>2 DEF HandlerTraced
    <3>5. Resolved(d.bundle, place) = Resolved(d.bundle, new)
      BY <3>3 DEF Resolved
    <3>6. d.pcs = InArtifact(l, new)
      BY <1>3, <3>1, <3>4, <3>5, ResolvedByArtifact
    <3> QED BY <1>1, <2>3, <2>4, <3>6 DEF Traced
  <2> QED BY <2>5, <2>6
<1> QED
  BY <1>2, <1>3

LEMMA ResyncTraced ==
  ASSUME IInv, AllTraced, NEW g \in Handlers, ResyncBegins(g) \/ Resolve(g) \/ Write(g)
  PROVE  AllTraced'
<1>1. PICK d : d = doing[g]
  OBVIOUS
<1>2. HandlerTraced(d, bundles, loaded) /\ d.op \in {"kept", "resolve", "write"}
  BY <1>1 DEF AllTraced, ResyncBegins, Resolve, Write
<1>3. UNCHANGED <<bundles, loaded>>
  BY DEF ResyncBegins, Resolve, Write, session
<1>4. CASE ResyncBegins(g)
  <2>1. PICK next, last : GoesOn(g, next, last)
    BY <1>4 DEF ResyncBegins
  <2>2. breakpoints' = breakpoints
    BY <1>4 DEF ResyncBegins, session
  <2>3. /\ \A h \in Handlers : h # g => doing'[h] = doing[h]
        /\ HandlerTraced(doing'[g], bundles, loaded)
    BY <1>1, <1>2, <2>1, GoesOnTraced
  <2> QED BY <1>3, <2>2, <2>3, OneTraced
<1>5. CASE Resolve(g)
  <2>1. PICK bp, pcs : bp = breakpoints[d.next] /\ pcs = resyncBreakpointsForBundle(d.bundle, bp)
    OBVIOUS
  <2>2. breakpoints' = breakpoints /\ d.op = "resolve"
    BY <1>1, <1>5 DEF Resolve, session
  <2>3. doing = [h \in Handlers |-> doing[h]]
    BY DEF IInv, Settled
  <2>4. \/ doing' = [doing EXCEPT ![g] = Idle]
        \/ GoesOn(g, d.next + 1, d.last)
        \/ pcs # {} /\ doing' = [doing EXCEPT ![g] = Writes(d, pcs, Place(bp))]
    BY <1>1, <1>5, <2>1, <2>3 DEF Resolve
  <2>5. CASE doing' = [doing EXCEPT ![g] = Idle]
    <3>1. /\ \A h \in Handlers : h # g => doing'[h] = doing[h]
          /\ doing'[g] = Idle
      BY <2>3, <2>5
    <3>2. HandlerTraced(doing'[g], bundles, loaded)
      BY <3>1, RestingTraced
    <3> QED BY <1>3, <2>2, <3>1, <3>2, OneTraced
  <2>6. CASE GoesOn(g, d.next + 1, d.last)
    <3>1. /\ \A h \in Handlers : h # g => doing'[h] = doing[h]
          /\ HandlerTraced(doing'[g], bundles, loaded)
      BY <1>1, <1>2, <2>6, GoesOnTraced
    <3> QED BY <1>3, <2>2, <3>1, OneTraced
  <2>7. CASE pcs # {} /\ doing' = [doing EXCEPT ![g] = Writes(d, pcs, Place(bp))]
    <3>1. PICK w : w = Writes(d, pcs, Place(bp))
      OBVIOUS
    <3>2. /\ \A h \in Handlers : h # g => doing'[h] = doing[h]
          /\ doing'[g] = w
      BY <2>3, <2>7, <3>1
    <3>3. w.op = "write" /\ w.bundle = d.bundle /\ w.pcs = pcs /\ w.place = Place(bp)
      BY <3>1 DEF Writes
    <3>4. pcs = Resolved(d.bundle, bp)
      BY <2>1, <2>7 DEF resyncBreakpointsForBundle, Resolved
    <3>5. Resolved(d.bundle, bp) = Resolved(w.bundle, w.place)
      <4>1. PICK place : place = Place(bp)
        OBVIOUS
      <4>2. place.file = bp.file /\ place.line = bp.line /\ place.column = bp.column
        BY <4>1 DEF Place
      <4> QED BY <3>3, <4>1, <4>2 DEF Resolved
    <3>6. HandlerTraced(w, bundles, loaded)
      BY <1>2, <3>3, <3>4, <3>5 DEF HandlerTraced
    <3> QED BY <1>3, <2>2, <3>2, <3>6, OneTraced
  <2> QED BY <2>4, <2>5, <2>6, <2>7
<1>6. CASE Write(g)
  <2>1. /\ GoesOn(g, d.next + 1, d.last) /\ d.op = "write"
        /\ breakpoints' = [k \in DOMAIN breakpoints |->
                             IF k = d.next THEN Resynced(breakpoints[k], d)
                             ELSE breakpoints[k]]
    BY <1>1, <1>6 DEF Write
  <2>2. /\ \A h \in Handlers : h # g => doing'[h] = doing[h]
        /\ HandlerTraced(doing'[g], bundles, loaded)
    BY <1>1, <1>2, <2>1, GoesOnTraced
  <2>3. \A h \in Handlers : HandlerTraced(doing'[h], bundles, loaded)
    BY <2>2 DEF AllTraced
  <2>4. ASSUME NEW k \in DOMAIN breakpoints'
        PROVE  Traced(breakpoints'[k], bundles, loaded)
    <3>1. k \in DOMAIN breakpoints
      BY <2>1
    <3>2. IsBreakpoint(breakpoints[k]) /\ Traced(breakpoints[k], bundles, loaded)
      BY <3>1 DEF IInv, Settled, AllTraced
    <3>3. Traced(Resynced(breakpoints[k], d), bundles, loaded)
      BY <1>2, <2>1, <3>2, ResyncedTraced
    <3> QED BY <2>1, <3>1, <3>2, <3>3
  <2> QED BY <1>3, <2>3, <2>4 DEF AllTraced
<1> QED
  BY <1>4, <1>5, <1>6

\* Requests for breakpoints: looked up, stored and deleted.
LEMMA RequestTraced ==
  ASSUME IInv, AllTraced, NEW g \in Clients,
         loadSourceBundle(g) \/ setBreakpoint(g) \/ Store(g) \/ deleteBreakpoint(g)
  PROVE  AllTraced'
<1>0. /\ g \in Handlers /\ UNCHANGED <<bundles, loaded>>
      /\ doing = [h \in Handlers |-> doing[h]]
  BY DEF Handlers, loadSourceBundle, setBreakpoint, Store, deleteBreakpoint, session, IInv,
         Settled
<1>1. CASE loadSourceBundle(g)
  <2>1. PICK request, readable, up :
          \E bundle \in LoadResults(request, readable, up) :
            doing' = [doing EXCEPT ![g] = Finds(bundle, bundle.address, {})]
    BY <1>1 DEF loadSourceBundle
  <2>2. PICK bundle : doing' = [doing EXCEPT ![g] = Finds(bundle, bundle.address, {})]
    BY <2>1
  <2>3. PICK d : d = Finds(bundle, bundle.address, {})
    OBVIOUS
  <2>4. doing'[g] = d /\ \A h \in Handlers : h # g => doing'[h] = doing[h]
    BY <1>0, <2>2, <2>3
  <2>5. HandlerTraced(d, bundles, loaded)
    BY <2>3, RestingTraced
  <2>6. breakpoints' = breakpoints
    BY <1>1 DEF loadSourceBundle, session
  <2> QED BY <1>0, <2>4, <2>5, <2>6, OneTraced
<1>2. CASE setBreakpoint(g)
  <2>1. PICK request \in BreakpointRequests : \E bp \in NewBreakpoints(request) :
          doing' = [doing EXCEPT ![g] = Stores(bp)]
    BY <1>2 DEF setBreakpoint
  <2>2. PICK bp \in NewBreakpoints(request) : doing' = [doing EXCEPT ![g] = Stores(bp)]
    BY <2>1
  <2>3. PICK d : d = Stores(bp)
    OBVIOUS
  <2>4. doing'[g] = d /\ \A h \in Handlers : h # g => doing'[h] = doing[h]
    BY <1>0, <2>2, <2>3
  <2>5. Traced(bp, bundles, loaded)
    BY NewTraced
  <2>6. d.op = "store" /\ d.bp = bp
    BY <2>3 DEF Stores
  <2>7. HandlerTraced(d, bundles, loaded)
    BY <2>5, <2>6 DEF HandlerTraced
  <2>8. breakpoints' = breakpoints
    BY <1>2 DEF setBreakpoint, session
  <2> QED BY <1>0, <2>4, <2>7, <2>8, OneTraced
<1>3. CASE Store(g)
  <2>1. PICK bp : bp = doing[g].bp
    OBVIOUS
  <2>2. breakpoints' = upsertBreakpoint(bp) /\ Traced(bp, bundles, loaded)
    BY <1>0, <1>3, <2>1 DEF Store, AllTraced, HandlerTraced
  <2>3. \A k \in DOMAIN breakpoints' : Traced(breakpoints'[k], bundles, loaded)
    BY <2>2, UpsertIsList DEF AllTraced
  <2>4. PICK moved \in BOOLEAN :
          doing' = [h \in Handlers |->
                      IF h = g THEN Idle
                      ELSE IF moved /\ doing[h].op = "write" THEN [doing[h] EXCEPT !.pcs = {}]
                      ELSE doing[h]]
    BY <1>3 DEF Store
  <2>5. ASSUME NEW h \in Handlers PROVE HandlerTraced(doing'[h], bundles, loaded)
    <3>1. CASE doing'[h] = Idle
      BY <3>1, RestingTraced
    <3>2. CASE doing'[h] = doing[h]
      BY <3>2 DEF AllTraced
    <3>3. CASE doing[h].op = "write" /\ doing'[h] = [doing[h] EXCEPT !.pcs = {}]
      <4>1. PICK d, d1 : d = doing[h] /\ d1 = doing'[h]
        OBVIOUS
      <4>2. DOMAIN d = {"op", "bundle", "enters", "next", "last", "pcs", "place"}
        BY <3>3, <4>1 DEF IInv, Settled, HandlerOK
      <4>3. d1.op = "write" /\ d1.bundle = d.bundle /\ d1.pcs = {}
        BY <3>3, <4>1, <4>2
      <4>4. HandlerTraced(d, bundles, loaded) /\ d.op = "write"
        BY <3>3, <4>1 DEF AllTraced
      <4>5. HandlerTraced(d1, bundles, loaded)
        BY <4>3, <4>4 DEF HandlerTraced
      <4> QED BY <4>1, <4>5
    <3> QED BY <2>4, <3>1, <3>2, <3>3
  <2> QED BY <1>0, <2>3, <2>5 DEF AllTraced
<1>4. CASE deleteBreakpoint(g)
  <2>1. PICK i \in 1 .. Len(breakpoints) : breakpoints' = Without(i)
    BY <1>4 DEF deleteBreakpoint
  <2>2. ASSUME NEW k \in DOMAIN breakpoints'
        PROVE  Traced(breakpoints'[k], bundles, loaded)
    <3>1. PICK j \in DOMAIN breakpoints :
            \/ breakpoints'[k] = breakpoints[j]
            \/ breakpoints'[k] = [breakpoints[j] EXCEPT !.missed = TRUE]
      BY <2>1, WithoutIs
    <3>2. IsBreakpoint(breakpoints[j]) /\ Traced(breakpoints[j], bundles, loaded)
      BY DEF IInv, Settled, AllTraced
    <3> QED BY <3>1, <3>2, MarkedTraced
  <2>3. doing' = doing
    BY <1>4 DEF deleteBreakpoint
  <2> QED BY <1>0, <2>2, <2>3 DEF AllTraced
<1> QED
  BY <1>1, <1>2, <1>3, <1>4

LEMMA UnchangedTraced ==
  ASSUME AllTraced, UNCHANGED <<bundles, breakpoints, loaded, doing>>
  PROVE  AllTraced'
BY DEF AllTraced, Traced, InArtifact, HandlerTraced

LEMMA PreloadTraced ==
  ASSUME IInv, AllTraced, NEW callee, NEW code, contractPreloadHook(callee, code),
         UNCHANGED <<bundles, breakpoints, loaded>>
  PROVE  AllTraced'
<1>1. CASE doing' = doing
  BY <1>1, UnchangedTraced
<1>2. CASE doing' # doing
  <2>1. PICK bundle : doing' = [doing EXCEPT ![Run] = Finds(bundle, code, {code})]
    BY <1>2 DEF contractPreloadHook
  <2>2. PICK d : d = Finds(bundle, code, {code})
    OBVIOUS
  <2>3. Run \in Handlers /\ doing = [h \in Handlers |-> doing[h]]
    BY DEF Handlers, IInv, Settled
  <2>4. doing'[Run] = d /\ \A h \in Handlers : h # Run => doing'[h] = doing[h]
    BY <2>1, <2>2, <2>3
  <2>5. HandlerTraced(d, bundles, loaded)
    BY <2>2, RestingTraced
  <2> QED BY <2>3, <2>4, <2>5, OneTraced
<1> QED
  BY <1>1, <1>2

LEMMA StepTraced ==
  ASSUME IInv, AllTraced, [Next]_vars
  PROVE  AllTraced'
<1>1. CASE \E g \in Clients :
             loadSourceBundle(g) \/ setBreakpoint(g) \/ Store(g) \/ deleteBreakpoint(g)
  BY <1>1, RequestTraced
<1>2. CASE \E g \in Handlers : Keep(g)
  <2>1. PICK g \in Handlers : Keep(g)
    BY <1>2
  <2>2. PICK key : /\ Put(g, key)
                   /\ doing[g].bundle.codeAddress \in {NoAddress, key}
    <3>1. PICK key : key = IF doing[g].bundle.codeAddress # NoAddress
                           THEN doing[g].bundle.codeAddress
                           ELSE IF doing[g].other # NoAddress THEN doing[g].other
                           ELSE targetAddr
      OBVIOUS
    <3>2. Put(g, key)
      BY <2>1, <3>1 DEF Keep
    <3> QED BY <3>1, <3>2
  <2>3. breakpoints' = breakpoints
    BY <2>1 DEF Keep
  <2> QED BY <2>2, <2>3, PutTraced
<1>3. CASE \E g \in Handlers : ResyncBegins(g) \/ Resolve(g) \/ Write(g)
  BY <1>3, ResyncTraced
<1>4. CASE CallsContract \/ DelegatesTo
  <2>1. \E callee, code : contractPreloadHook(callee, code)
    BY <1>4 DEF CallsContract, DelegatesTo
  <2>2. UNCHANGED <<bundles, breakpoints, loaded>>
    BY <1>4 DEF CallsContract, DelegatesTo, session
  <2> QED BY <2>1, <2>2, PreloadTraced
<1>5. CASE \/ (\E g \in Clients : configureAutoMatch(g))
           \/ Continue \/ StepStops \/ RunEnds \/ UNCHANGED vars
  <2>1. UNCHANGED <<bundles, breakpoints, loaded, doing>>
    BY <1>5 DEF configureAutoMatch, Continue, StepStops, RunEnds, session, vars
  <2> QED BY <2>1, UnchangedTraced
<1> QED
  BY <1>1, <1>2, <1>3, <1>4, <1>5 DEF Next

-----------------------------------------------------------------------------

\* The mapping of a program counter is the one instruction there.
LEMMA TheInstruction ==
  ASSUME NEW c \in Contracts, NEW i \in Instructions(c)
  PROVE  InstructionAtPC(c, i.pc) = i
<1>1. PICK mapping : mapping = Artifacts[c].instructions
  OBVIOUS
<1>2. PICK n \in DOMAIN mapping : i = mapping[n]
  BY <1>1 DEF Instructions
<1>3. PICK at : at = {j \in DOMAIN mapping : mapping[j].pc = i.pc}
  OBVIOUS
<1>4. at = {n}
  <2>1. \A j \in DOMAIN mapping : mapping[j].pc = mapping[n].pc => j = n
    BY <1>1, ArtifactAssumption
  <2> QED BY <1>2, <1>3, <2>1
<1>5. (CHOOSE j \in at : TRUE) = n
  BY <1>4
<1> QED
  BY <1>1, <1>2, <1>3, <1>4, <1>5 DEF InstructionAtPC

\* A line without code of its own: the first instruction after it.
LEMMA NextIsFirst ==
  ASSUME NEW c \in Contracts, NEW f, NEW line, NEW pc \in NextMapped(c, f, line)
  PROVE  \E i \in Instructions(c) :
           /\ i.pc = pc /\ i.file = f /\ i.start >= Lines[f][line]
           /\ \A j \in Instructions(c) :
                j.file = f /\ j.start >= Lines[f][line] => j.start >= i.start
<1> DEFINE after == {i \in Instructions(c) : i.file = f /\ i.start >= Lines[f][line]}
           first == {i \in after : \A j \in after : i.start <= j.start}
           pcs == {i.pc : i \in first}
           starts == {i.start : i \in after}
<1>1. \A i \in Instructions(c) : i.pc \in Nat /\ i.start \in Nat
  BY ArtifactAssumption DEF Instructions
<1>2. after # {} /\ pc = CHOOSE x \in pcs : \A i \in first : x <= i.pc
  BY DEF NextMapped
<1>3. first # {}
  <2>1. starts \subseteq Nat /\ starts # {}
    BY <1>1, <1>2
  <2> HIDE DEF starts
  <2>2. PICK least \in starts : \A k \in starts : least <= k
    BY <2>1, LeastOf
  <2>3. PICK i \in after : i.start = least
    BY <2>2 DEF starts
  <2> QED BY <2>2, <2>3 DEF starts
<1>4. pcs \subseteq Nat /\ pcs # {}
  BY <1>1, <1>3
<1>5. pc \in pcs
  <2>1. PICK least \in pcs : \A k \in pcs : least <= k
    <3> HIDE DEF pcs
    <3> QED BY <1>4, LeastOf
  <2>2. \A i \in first : least <= i.pc
    BY <2>1
  <2> HIDE DEF first, pcs
  <2> QED BY <1>2, <2>1, <2>2
<1>6. PICK i \in first : i.pc = pc
  BY <1>5
<1>7. \A j \in after : j.start >= i.start
  BY <1>1, <1>6
<1> QED
  BY <1>6, <1>7

\* The program counters of a line are on it, or the first after it.
LEMMA LinePCs ==
  ASSUME NEW l, l.contract \in Contracts, NEW bp, NEW pc \in InArtifact(l, bp)
  PROVE  AtLine(InstructionAtPC(l.contract, pc), l.contract, bp)
<1>1. PICK c \in Contracts : c = l.contract
  OBVIOUS
<1>2. PICK on : on = OnLine(c, bp.file, bp.line)
  OBVIOUS
<1>3. PICK b : b = Bundle(l.contract, l.key, l.key, TRUE)
  OBVIOUS
<1>4. b.contract = c
  BY <1>1, <1>3 DEF Bundle
<1>5. pc \in resolveSourceBreakpointPCs(b, bp.file, bp.line, bp.column)
  BY <1>3 DEF InArtifact
<1>6. on \subseteq Instructions(c)
  BY <1>2 DEF OnLine
<1>7. CASE on # {}
  <2>1. PICK i \in on : i.pc = pc
    BY <1>2, <1>4, <1>5, <1>7 DEF resolveSourceBreakpointPCs
  <2>2. InstructionAtPC(c, pc) = i
    BY <1>6, <2>1, TheInstruction
  <2>3. /\ i.file = bp.file /\ i.start >= Lines[bp.file][bp.line]
        /\ i.start < Lines[bp.file][bp.line + 1]
    BY <1>2, <2>1 DEF OnLine
  <2>4. \E x \in Instructions(c) : x \in OnLine(c, bp.file, bp.line)
    BY <1>2, <1>6, <2>1
  <2> QED BY <1>1, <2>2, <2>3, <2>4 DEF AtLine
<1>8. CASE on = {}
  <2>1. pc \in NextMapped(c, bp.file, bp.line)
    BY <1>2, <1>4, <1>5, <1>8 DEF resolveSourceBreakpointPCs
  <2>2. PICK i \in Instructions(c) :
          /\ i.pc = pc /\ i.file = bp.file /\ i.start >= Lines[bp.file][bp.line]
          /\ \A j \in Instructions(c) :
               j.file = bp.file /\ j.start >= Lines[bp.file][bp.line] => j.start >= i.start
    BY <2>1, NextIsFirst
  <2>3. InstructionAtPC(c, pc) = i
    BY <2>2, TheInstruction
  <2>4. ~\E x \in Instructions(c) : x \in OnLine(c, bp.file, bp.line)
    BY <1>2, <1>8
  <2> QED BY <1>1, <2>2, <2>3, <2>4 DEF AtLine
<1> QED
  BY <1>7, <1>8

\* The breakpoint a step stops at is one that matches there.
LEMMA FirstIsOne ==
  ASSUME IInv, NEW S, S \subseteq DOMAIN breakpoints, S # {}
  PROVE  FirstOf(S) \in S
<1>1. S \subseteq Nat
  BY ListDomain DEF IInv, Settled
<1>2. \E k \in S : \A j \in S : k <= j
  BY <1>1, LeastOf
<1> QED
  BY <1>2 DEF FirstOf

LEMMA StopIsOnTheLine ==
  ASSUME IInv, AllTraced, StepStops
  PROVE  StopsOnTheLine'
<1> SUFFICES ASSUME hit'.kind = "source", Belongs(hit.breakpoint)', ~hit'.breakpoint.misplaced
             PROVE  (\E c \in Contracts :
                       /\ strictImmutableMatch(world.code[hit.code], Artifacts[c])
                       /\ hit.shown \subseteq {InstructionAtPC(c, hit.pc)}
                       /\ AtLine(InstructionAtPC(c, hit.pc), c, hit.breakpoint))'
  BY DEF StopsOnTheLine
<1>1. PICK code \in entered, selector \in Selectors, deployed \in Contracts :
        \E i \in Instructions(deployed) :
            LET functions == matchRootFunctionBreakpoint(code, i.pc, selector)
                sources == matchSourceBreakpoint(code, i.pc)
                k == FirstOf(IF functions # {} THEN functions ELSE sources)
            IN /\ functions \cup sources # {}
               /\ hit' = [kind |-> breakpoints[k].kind, breakpoint |-> breakpoints[k],
                          code |-> code, pc |-> i.pc,
                          shown |-> {InstructionAtPC(b.contract, i.pc) :
                                       b \in {x \in bundleForCodeAddress(code) : x.index}}]
  BY DEF StepStops
<1>2. PICK pc : LET functions == matchRootFunctionBreakpoint(code, pc, selector)
                    sources == matchSourceBreakpoint(code, pc)
                    k == FirstOf(IF functions # {} THEN functions ELSE sources)
                IN /\ functions \cup sources # {}
                   /\ hit' = [kind |-> breakpoints[k].kind, breakpoint |-> breakpoints[k],
                              code |-> code, pc |-> pc,
                              shown |-> {InstructionAtPC(b.contract, pc) :
                                           b \in {x \in bundleForCodeAddress(code) : x.index}}]
  BY <1>1
<1>3. PICK functions : functions = matchRootFunctionBreakpoint(code, pc, selector)
  OBVIOUS
<1>4. PICK sources : sources = matchSourceBreakpoint(code, pc)
  OBVIOUS
<1>5. PICK k : k = FirstOf(IF functions # {} THEN functions ELSE sources)
  OBVIOUS
<1>6. PICK bp : bp = breakpoints[k]
  OBVIOUS
<1>7. /\ functions \cup sources # {}
      /\ hit' = [kind |-> bp.kind, breakpoint |-> bp, code |-> code, pc |-> pc,
                 shown |-> {InstructionAtPC(b.contract, pc) :
                              b \in {x \in bundleForCodeAddress(code) : x.index}}]
  BY <1>2, <1>3, <1>4, <1>5, <1>6
<1>8. k \in sources
  <2>1. /\ functions \subseteq DOMAIN breakpoints /\ sources \subseteq DOMAIN breakpoints
        /\ \A j \in functions : breakpoints[j].kind = "function"
    BY <1>3, <1>4 DEF matchRootFunctionBreakpoint, matchSourceBreakpoint
  <2>2. CASE functions # {}
    <3>1. k \in functions
      BY <1>5, <2>1, <2>2, FirstIsOne
    <3>2. bp.kind = "source"
      BY <1>7
    <3> QED BY <1>6, <2>1, <3>1, <3>2
  <2>3. CASE functions = {}
    <3>1. sources # {} /\ k = FirstOf(sources)
      BY <1>5, <1>7, <2>3
    <3> QED BY <2>1, <3>1, FirstIsOne
  <2> QED BY <2>2, <2>3
<1>9. /\ k \in DOMAIN breakpoints /\ bp.kind = "source" /\ bp.code \in {NoAddress, code}
      /\ pc \in bp.pcs
  BY <1>4, <1>6, <1>8 DEF matchSourceBreakpoint
<1>10. world' = world /\ loaded' = loaded
  BY DEF StepStops
<1>11. hit'.breakpoint = bp /\ hit'.code = code /\ hit'.pc = pc
  BY <1>7
<1>12. /\ bp.code # NoAddress
       /\ \E c \in Contracts :
            /\ strictImmutableMatch(world.code[bp.code], Artifacts[c])
            /\ \A l \in loaded :
                 (l.key = bp.code \/ InArtifact(l, bp) # {}) => l.contract = c
  BY <1>10, <1>11 DEF Belongs, InArtifact
<1>13. PICK c \in Contracts :
            /\ strictImmutableMatch(world.code[bp.code], Artifacts[c])
            /\ \A l \in loaded :
                 (l.key = bp.code \/ InArtifact(l, bp) # {}) => l.contract = c
  BY <1>12
<1>14. bp.code = code
  BY <1>9, <1>12
<1>15. Traced(bp, bundles, loaded)
  BY <1>6, <1>9 DEF AllTraced
<1>16. PICK l \in loaded : bp.pcs = InArtifact(l, bp)
  BY <1>9, <1>11, <1>15 DEF Traced
<1>17. l.contract = c
  BY <1>9, <1>13, <1>16
<1>18. AtLine(InstructionAtPC(c, pc), c, bp)
  BY <1>9, <1>16, <1>17, LinePCs
<1>19. code \in DOMAIN bundles
  BY <1>9, <1>12, <1>14, <1>15 DEF Traced
<1>20. bundles[code].contract = c
  <2>1. PICK own \in loaded : own = [key |-> code, contract |-> bundles[code].contract]
    BY <1>19 DEF AllTraced
  <2> QED BY <1>13, <1>14, <2>1
<1>21. bundleForCodeAddress(code) = {bundles[code]}
  BY <1>19 DEF bundleForCodeAddress
<1>22. hit'.shown \subseteq {InstructionAtPC(c, pc)}
  BY <1>7, <1>20, <1>21
<1>23. strictImmutableMatch(world.code[code], Artifacts[c])
  BY <1>13, <1>14
<1>24. /\ strictImmutableMatch(world'.code[hit'.code], Artifacts[c])
       /\ hit'.shown \subseteq {InstructionAtPC(c, hit'.pc)}
       /\ AtLine(InstructionAtPC(c, hit'.pc), c, hit'.breakpoint)
  BY <1>10, <1>11, <1>18, <1>22, <1>23
<1> QED
  BY <1>24 DEF AtLine, InstructionAtPC, strictImmutableMatch, Instructions, OnLine

\* A stop stands as long as nothing else is done.
LEMMA StopsStand ==
  ASSUME StopsOnTheLine, [Next]_vars, ~StepStops
  PROVE  StopsOnTheLine'
<1>1. CASE UNCHANGED vars
  <2>1. hit' = hit /\ world' = world /\ loaded' = loaded
    BY <1>1 DEF vars
  <2>2. Belongs(hit.breakpoint)' => Belongs(hit.breakpoint)
    BY <2>1 DEF Belongs
  <2> QED BY <2>1, <2>2 DEF StopsOnTheLine
<1>2. CASE ~UNCHANGED vars
  <2>1. hit' = NoHit
    BY <1>2 DEF Next, loadSourceBundle, setBreakpoint, Store, deleteBreakpoint, Keep,
                ResyncBegins, Resolve, Write, configureAutoMatch, Continue, CallsContract,
                DelegatesTo, RunEnds
  <2>2. hit'.kind # "source"
    BY <2>1 DEF NoHit
  <2> QED BY <2>2 DEF StopsOnTheLine
<1> QED
  BY <1>1, <1>2

\* A source breakpoint that belongs to one artifact stops the program where
\* the deployed contract is at that line, and the pause shows no other source:
\* matchSourceBreakpoint, resyncBreakpointsForBundle and bundleForCodeAddress,
\* for every project, whichever of the bundles was loaded when and however
\* requests interleave with the run; but for a breakpoint that got the program
\* counters found for another.
THEOREM StopsAreOnTheLine == Spec => []StopsOnTheLine
<1>1. Init => IInv /\ AllTraced /\ StopsOnTheLine
  <2>1. Init => StopsOnTheLine
    BY DEF Init, NoHit, StopsOnTheLine
  <2> QED BY <2>1, InitSettles, InitTraced
<1>2. IInv /\ AllTraced /\ StopsOnTheLine /\ [Next]_vars
        => IInv' /\ AllTraced' /\ StopsOnTheLine'
  BY StepSettles, StepTraced, StopIsOnTheLine, StopsStand
<1> QED
  BY <1>1, <1>2, PTL DEF Spec
=============================================================================
