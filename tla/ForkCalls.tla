------------------------------ MODULE ForkCalls ------------------------------
(***************************************************************************)
(* Calls at a block: eth_call, eth_estimateGas, trace calls and the calls  *)
(* of debug sessions, on a fork engine whose goroutines share one cache.   *)
(* A call runs on two adapters of its own (accounts, storage) that load    *)
(* what the code touches, from the cache or from an upstream node that may *)
(* fail, and that every frame snapshots and may revert.  BlockCalls says   *)
(* what all this must amount to.                                           *)
(*                                                                         *)
(* The chain is external: it only grows, and answers for a block are what  *)
(* the block left.  Replays and their write-backs are ForkReplay's.        *)
(***************************************************************************)
EXTENDS Integers, Sequences, FiniteSets

CONSTANTS
  Clients,       \* goroutines that serve requests
  Callers,       \* those that serve calls: all of them in the server
  Accounts,
  Cells,         \* storage cells
  Values,        \* of a balance, a nonce, a code (0: empty) or a cell
  Chain,         \* the state after each block of the chain
  Configs,       \* the configurations forkengine.New is asked for: [mode, block]
  Tags,          \* the block tags in use
  Params,        \* the block parameters of requests: a number, a tag or Nothing
  Failing,       \* the upstream requests that may fail
  Writable,      \* what the code may write: <<thing, part, value>>
  MaxSnapshots,  \* bound: snapshots of one call
  MaxExported,   \* bound: how many values are exported
  Nothing        \* not cached, not loaded

Things == Accounts \cup Cells
\* An account is fetched in three requests: balance, nonce, code.
Parts(x) == IF x \in Accounts THEN 3 ELSE 1
CodePart == 3
Value(x) == [1 .. Parts(x) -> Values]
Heights == 1 .. Len(Chain)
NoNumber == 0
BlockRef == [number : Heights \cup {NoNumber}, tag : Tags \cup {""}]

ASSUME ForkCallsAssumption ==
  /\ Callers \subseteq Clients
  /\ Accounts \cap Cells = {} /\ 0 \in Values
  /\ Len(Chain) \in Nat \ {0} /\ Chain = [n \in Heights |-> Chain[n]]
  /\ \A n \in Heights : /\ Chain[n] = [x \in Things |-> Chain[n][x]]
                         /\ \A x \in Things : Chain[n][x] \in Value(x)
  /\ "latest" \in Tags /\ "" \notin Tags
  /\ Params \subseteq BlockRef \cup {Nothing}
  /\ \A param \in Params \ {Nothing} : param.number = NoNumber <=> param.tag # ""
  /\ Configs \subseteq [mode : {"", "diff", "pinned"}, block : BlockRef]
  /\ Failing \subseteq {"block", "code", "state"}
  /\ \A w \in Writable : w[1] \in Things /\ w[2] \in 1 .. Parts(w[1]) /\ w[3] \in Values
  /\ MaxSnapshots \in Nat /\ MaxExported \in Nat
  /\ Nothing \notin Values \cup Heights
  /\ \A x \in Things : Nothing \notin Value(x)

VARIABLES
  engine,  \* Engine: its mode and block
  head,    \* the chain's height
  cache,   \* MemoryStore: what is cached under each key
  call,    \* what each goroutine is doing
  saved    \* an exported state: what was cached under each key, {} before

vars == <<engine, head, cache, call, saved>>

-----------------------------------------------------------------------------
(* Block references and the keys of the cache.                             *)

At(n) == [number |-> n, tag |-> ""]
Tag(t) == [number |-> NoNumber, tag |-> t]
LatestBlock == Tag("latest")

NoBlock == [number |-> NoNumber, tag |-> ""]
isZeroBlockRef(ref) == ref.number = NoNumber /\ ref.tag = ""
Valid(ref) == ref.number = NoNumber \/ ref.tag = ""

Normalize(ref) ==
  IF ref.number # NoNumber THEN At(ref.number)
  ELSE IF ref.tag = "" THEN LatestBlock ELSE ref

IsPinned(ref) == Normalize(ref).number # NoNumber

\* "num:..." and "tag:...".
CacheKey(ref) ==
  LET r == Normalize(ref)
  IN IF r.number # NoNumber THEN <<"num", r.number, "">> ELSE <<"tag", NoNumber, r.tag>>

Keys == {CacheKey(ref) : ref \in BlockRef}

decodeBlockKey(key) == IF key[1] = "num" THEN At(key[2]) ELSE Tag(key[3])

\* The configurations forkengine.New accepts.
Accepted(cfg) ==
  /\ Valid(cfg.block)
  /\ cfg.mode = "pinned" => IsPinned(cfg.block)

New(cfg) ==
  [mode |-> IF cfg.mode = "" THEN "diff" ELSE cfg.mode, block |-> Normalize(cfg.block)]

\* resolveBlockRef refuses invalid references, and in pinned mode other blocks.
Resolves(ref) ==
  /\ Valid(ref)
  /\ engine.mode = "pinned" =>
       \/ isZeroBlockRef(ref) \/ Normalize(ref) = LatestBlock
       \/ CacheKey(ref) = CacheKey(engine.block)

resolveBlockRef(ref) ==
  IF engine.mode = "pinned" \/ isZeroBlockRef(ref) THEN engine.block ELSE Normalize(ref)

\* The parameter of eth_call, eth_estimateGas and gdb.startCallSession.
decodeBlockRef(param) == IF param = Nothing THEN LatestBlock ELSE param

decodeEthCall(param, to) == [block |-> decodeBlockRef(param), to |-> to]

\* What a session's look-ups ask for: the block of its call, or none for a replay.
blockRefs == {NoBlock} \cup {decodeBlockRef(param) : param \in Params}

\* GetCodeAt and GetStorageSlot take any reference.
OrDefault(ref) == IF isZeroBlockRef(ref) THEN engine.block ELSE ref

\* The node answers for a block it has, or for its head.
Known(ref) == ref.number <= head
Answering(ref) == IF ref.number # NoNumber THEN ref.number ELSE head

-----------------------------------------------------------------------------
(* The adapters of a call: forkAccountState and forkStorage over their     *)
(* in-memory bases.                                                        *)

\* Nothing reads an account's original.
Seed(value) == [now |-> value, original |-> value]

\* The in-memory stores read as zero where nothing was seeded.
ZeroBase == [x \in Things |-> Seed([i \in 1 .. Parts(x) |-> 0])]

NewCall(ref, to) ==
  [phase |-> "block", ref |-> ref, to |-> to, header |-> Nothing, code |-> Nothing, parts |-> <<>>,
   thing |-> Nothing, base |-> ZeroBase, loaded |-> {},
   bases |-> <<>>, loadeds |-> <<>>, frames |-> <<>>]

\* ensureLoaded, after the value was found: seedAccount or Seed.
Loaded(r, x, value) ==
  [r EXCEPT !.phase = "run", !.base[x] = Seed(value), !.loaded = @ \cup {x},
            !.thing = Nothing, !.parts = <<>>]

\* Snapshot: the index is the base's; the loaded set goes to the same place.
Snapshot(r) ==
  LET id == Len(r.bases)
  IN [r EXCEPT !.bases = Append(@, r.base),
               !.loadeds = IF id = Len(@) THEN Append(@, r.loaded)
                           ELSE [@ EXCEPT ![id + 1] = r.loaded],
               !.frames = Append(@, id)]

\* Variant with a bug: what was loaded since the snapshot still counts as loaded.
RevertToSnapshotBaseOnly(r, id) ==
  [r EXCEPT !.base = r.bases[id + 1], !.bases = SubSeq(@, 1, id),
            !.loadeds = SubSeq(@, 1, id)]

RevertToSnapshot(r, id) ==
  [r EXCEPT !.base = r.bases[id + 1], !.bases = SubSeq(@, 1, id),
            !.loaded = IF id < Len(r.loadeds) THEN r.loadeds[id + 1] ELSE @,
            !.loadeds = SubSeq(@, 1, IF id < Len(@) THEN id ELSE Len(@))]

-----------------------------------------------------------------------------

Idle == [phase |-> "idle"]
Empty == [state |-> [x \in Things |-> Nothing], codes |-> [a \in Accounts |-> Nothing], header |-> Nothing]

Init ==
  /\ engine \in {New(cfg) : cfg \in {k \in Configs : Accepted(k)}}
  /\ head = 1
  /\ cache = [k \in Keys |-> Empty]
  /\ call = [c \in Clients |-> Idle]
  /\ saved = {}

Becomes(c, r) == call' = [call EXCEPT ![c] = r]
Key(c) == CacheKey(call[c].ref)

\* The chain goes on.
NewBlock ==
  /\ head < Len(Chain)
  /\ head' = head + 1
  /\ UNCHANGED <<engine, cache, call, saved>>

\* EthCall, EstimateGas, TraceCall, a command of a call session: PrepareCall.
Asks(c, req) ==
  /\ c \in Callers /\ call[c].phase = "idle" /\ Resolves(req.block)
  /\ Becomes(c, NewCall(resolveBlockRef(req.block), req.to))
  /\ UNCHANGED <<engine, head, cache, saved>>

Headed(r, header) == [r EXCEPT !.phase = "header", !.header = header]

\* ResolveBlock: from the cache or the node.
ResolveBlock(c) ==
  LET cached == cache[Key(c)].header IN
  /\ call[c].phase = "block"
  /\ \/ cached # Nothing /\ Becomes(c, Headed(call[c], cached))
     \/ /\ cached = Nothing /\ Known(call[c].ref)
        /\ Becomes(c, Headed(call[c], Answering(call[c].ref)))
     \/ /\ cached = Nothing /\ (~Known(call[c].ref) \/ "block" \in Failing)
        /\ Becomes(c, Idle)
  /\ UNCHANGED <<engine, head, cache, saved>>

\* populateBlockChainID puts the block in any case.
StoreBlock(c) ==
  /\ call[c].phase = "header"
  /\ cache' = [cache EXCEPT ![Key(c)].header = call[c].header]
  /\ Becomes(c, [call[c] EXCEPT !.phase = "code"])
  /\ UNCHANGED <<engine, head, saved>>

\* resolveCode.
CodeCached(c) ==
  /\ call[c].phase = "code"
  /\ cache[Key(c)].codes[call[c].to] # Nothing
  /\ Becomes(c, [call[c] EXCEPT !.phase = "run", !.code = cache[Key(c)].codes[call[c].to]])
  /\ UNCHANGED <<engine, head, cache, saved>>

FetchCode(c) ==
  LET a == call[c].to IN
  /\ call[c].phase = "code"
  /\ cache[Key(c)].codes[a] = Nothing
  /\ \/ Becomes(c, [call[c] EXCEPT !.phase = "deployed",
                                   !.parts = <<Chain[Answering(call[c].ref)][a][CodePart]>>])
     \/ "code" \in Failing /\ Becomes(c, Idle)
  /\ UNCHANGED <<engine, head, cache, saved>>

StoreCode(c) ==
  /\ call[c].phase = "deployed"
  /\ cache' = [cache EXCEPT ![Key(c)].codes[call[c].to] = call[c].parts[1]]
  /\ Becomes(c, [call[c] EXCEPT !.phase = "run", !.code = call[c].parts[1], !.parts = <<>>])
  /\ UNCHANGED <<engine, head, saved>>

-----------------------------------------------------------------------------
(* The run: every access loads first.                                      *)

LoadCached(c, x) ==
  /\ call[c].phase = "run" /\ x \notin call[c].loaded
  /\ cache[Key(c)].state[x] # Nothing
  /\ Becomes(c, Loaded(call[c], x, cache[Key(c)].state[x]))
  /\ UNCHANGED <<engine, head, cache, saved>>

Load(c, x) ==
  /\ call[c].phase = "run" /\ x \notin call[c].loaded
  /\ cache[Key(c)].state[x] = Nothing
  /\ Becomes(c, [call[c] EXCEPT !.phase = "load", !.thing = x])
  /\ UNCHANGED <<engine, head, cache, saved>>

Fetching(c) == call[c].phase = "load" /\ Len(call[c].parts) < Parts(call[c].thing)

\* One request: the balance, the nonce, the code, or the cell.
FetchPart(c) ==
  /\ Fetching(c)
  /\ LET next == Len(call[c].parts) + 1
     IN Becomes(c, [call[c] EXCEPT !.parts =
                      Append(@, Chain[Answering(call[c].ref)][call[c].thing][next])])
  /\ UNCHANGED <<engine, head, cache, saved>>

\* PutAccount, and PutCode when there is code; PutStorage.
StoreLoaded(c) ==
  LET x == call[c].thing
      value == call[c].parts
  IN
  /\ call[c].phase = "load" /\ Len(value) = Parts(x)
  /\ cache' = [cache EXCEPT
       ![Key(c)].state[x] = value,
       ![Key(c)].codes = IF x \in Accounts /\ value[CodePart] # 0
                         THEN [@ EXCEPT ![x] = value[CodePart]] ELSE @]
  /\ Becomes(c, Loaded(call[c], x, value))
  /\ UNCHANGED <<engine, head, saved>>

\* A frame that failed.
Failed(r) ==
  LET id == r.frames[Len(r.frames)]
  IN [RevertToSnapshot(r, id) EXCEPT !.phase = "run", !.thing = Nothing, !.parts = <<>>,
                                     !.frames = SubSeq(@, 1, Len(@) - 1)]

\* mustLoad panics: EVM.Run makes it StatusHalt of the frame, and outside of it the
\* request dies.
LoadFails(c) ==
  /\ Fetching(c) /\ "state" \in Failing
  /\ Becomes(c, IF call[c].frames = <<>> THEN Idle ELSE Failed(call[c]))
  /\ UNCHANGED <<engine, head, cache, saved>>

Write(c, x, i, value) ==
  /\ call[c].phase = "run" /\ x \in call[c].loaded
  /\ Becomes(c, [call[c] EXCEPT !.base[x].now[i] = value])
  /\ UNCHANGED <<engine, head, cache, saved>>

\* ExecuteMessage, or a top-level call that moves value.
Enter(c) ==
  /\ call[c].phase = "run" /\ Len(call[c].bases) < MaxSnapshots
  /\ Becomes(c, Snapshot(call[c]))
  /\ UNCHANGED <<engine, head, cache, saved>>

\* Its snapshots stay.
Return(c) ==
  /\ call[c].phase = "run" /\ call[c].frames # <<>>
  /\ Becomes(c, [call[c] EXCEPT !.frames = SubSeq(@, 1, Len(@) - 1)])
  /\ UNCHANGED <<engine, head, cache, saved>>

FrameFails(c) ==
  /\ call[c].phase = "run" /\ call[c].frames # <<>>
  /\ Becomes(c, Failed(call[c]))
  /\ UNCHANGED <<engine, head, cache, saved>>

\* CommitLocalWrites finds neither a creation nor an overlay nor changes.
Answer(c) ==
  /\ call[c].phase = "run" /\ call[c].frames = <<>>
  /\ Becomes(c, Idle)
  /\ UNCHANGED <<engine, head, cache, saved>>

-----------------------------------------------------------------------------
(* Look-ups of the debug server, and the transfer of the cache.            *)

\* GetCodeAt (an empty code is never found), GetStorageSlot.
LookUp(c, ref, x) ==
  LET key == CacheKey(OrDefault(ref)) IN
  /\ call[c].phase = "idle" /\ Valid(ref) /\ Known(OrDefault(ref))
  /\ IF x \in Accounts THEN cache[key].codes[x] \in {Nothing, 0} ELSE cache[key].state[x] = Nothing
  /\ Becomes(c, [phase |-> "found", ref |-> OrDefault(ref), thing |-> x,
                 parts |-> IF x \in Accounts
                           THEN <<Chain[Answering(OrDefault(ref))][x][CodePart]>>
                           ELSE Chain[Answering(OrDefault(ref))][x]])
  /\ UNCHANGED <<engine, head, cache, saved>>

Found(r, key) ==
  LET x == r.thing
  IN IF x \in Accounts THEN [cache EXCEPT ![key].codes[x] = r.parts[1]]
     ELSE [cache EXCEPT ![key].state[x] = r.parts]

\* Variant with a bug: what was found is put under the engine's block.
StoreFoundAtEngineBlock(c) ==
  /\ call[c].phase = "found"
  /\ cache' = Found(call[c], CacheKey(engine.block))
  /\ Becomes(c, Idle)
  /\ UNCHANGED <<engine, head, saved>>

StoreFound(c) ==
  /\ call[c].phase = "found"
  /\ cache' = Found(call[c], Key(c))
  /\ Becomes(c, Idle)
  /\ UNCHANGED <<engine, head, saved>>

\* What the cache holds.
Held ==
  {kx \in Keys \X Things : cache[kx[1]].state[kx[2]] # Nothing}
    \cup {ka \in Keys \X {"code"} \X Accounts : cache[ka[1]].codes[ka[3]] # Nothing}
    \cup {kh \in Keys \X {"header"} : cache[kh[1]].header # Nothing}

\* Bounds: one export, early, of MaxExported values.
ExportState ==
  /\ saved = {} /\ head = 1
  /\ Cardinality(Held) = MaxExported
  /\ saved' = {[ref |-> decodeBlockKey(k), entry |-> cache[k]] : k \in Keys}
  /\ UNCHANGED <<engine, head, cache, call>>

\* Everything cached is replaced, whoever uses it.
ImportState ==
  /\ saved # {}
  /\ cache' = [k \in Keys |->
       IF \E e \in saved : CacheKey(e.ref) = k
       THEN (CHOOSE e \in saved : CacheKey(e.ref) = k).entry ELSE Empty]
  /\ UNCHANGED <<engine, head, call, saved>>

Next ==
  \/ NewBlock \/ ExportState \/ ImportState
  \/ \E c \in Clients :
       \/ \E param \in Params, a \in Accounts : Asks(c, decodeEthCall(param, a))
       \/ \E ref \in blockRefs, x \in Things : LookUp(c, ref, x)
       \/ ResolveBlock(c) \/ StoreBlock(c) \/ CodeCached(c) \/ FetchCode(c) \/ StoreCode(c)
       \/ \E x \in Things : LoadCached(c, x) \/ Load(c, x)
       \/ FetchPart(c) \/ StoreLoaded(c) \/ LoadFails(c)
       \/ \E w \in Writable : Write(c, w[1], w[2], w[3])
       \/ Enter(c) \/ Return(c) \/ FrameFails(c) \/ Answer(c) \/ StoreFound(c)

Spec == Init /\ [][Next]_vars

-----------------------------------------------------------------------------
(* What a call sees: what it loaded, and else what it would load.          *)

Running(r) == r.phase \in {"run", "load"}

Seen(base, loaded, n) ==
  [x \in Things |-> IF x \in loaded THEN base[x].now ELSE Chain[n][x]]

NoView == [phase |-> "none"]

View(r) ==
  LET n == r.ref.number
  IN IF ~Running(r) THEN NoView
     ELSE IF n = NoNumber THEN NoView
     ELSE [phase |-> "running", header |-> r.header, code |-> r.code,
           origin |-> [x \in Things |-> IF x \in r.loaded THEN r.base[x].original ELSE Chain[n][x]],
           now |-> Seen(r.base, r.loaded, n),
           saved |-> [i \in DOMAIN r.frames |->
                        Seen(r.bases[r.frames[i] + 1], r.loadeds[r.frames[i] + 1], n)]]

Block == INSTANCE BlockCalls WITH Clients <- Callers, view <- [c \in Callers |-> View(call[c])]

-----------------------------------------------------------------------------
(* Properties.                                                             *)

\* What is cached under a block number is what the chain has there, whole: no write of
\* a call, no answer for another block and no transfer of the cache ever gets there.
CacheIsTheChains ==
  \A n \in Heights :
    LET cached == cache[CacheKey(At(n))]
    IN /\ \A x \in Things : cached.state[x] \in {Nothing, Chain[n][x]}
       /\ \A a \in Accounts : cached.codes[a] \in {Nothing, Chain[n][a][CodePart]}
       /\ cached.header \in {Nothing, n}

\* A call at a numbered block is the call of BlockCalls.
RunsOnItsBlock == Block!Spec
=============================================================================
