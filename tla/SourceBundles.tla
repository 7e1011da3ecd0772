---------------------------- MODULE SourceBundles ----------------------------
(***************************************************************************)
(* How a debug session comes to know the source of the contracts that run, *)
(* and what that does to its breakpoints (internal/jsonrpc/gdb.go with     *)
(* internal/contractmeta).                                                 *)
(*                                                                         *)
(* A bundle is an artifact (a compiled contract with its source map)       *)
(* attached to addresses.  The client loads bundles by name, from a file,  *)
(* from the explorer or by matching deployed code; while the program runs, *)
(* the hook of every call tries to match the contract called.  A source    *)
(* breakpoint set before its bundle is there waits for it: each load       *)
(* resolves the breakpoints again.                                         *)
(*                                                                         *)
(* Nothing keeps a session to one goroutine: requests of the client and    *)
(* the hook of a running program go on side by side.  A request looks its  *)
(* line up in the bundles and stores the breakpoint later; a bundle is     *)
(* kept first, then the list is gone through, each breakpoint read and     *)
(* written apart, while others delete and store.  Single loops over the    *)
(* list or the bundles are steps; what Go itself makes of a map that is    *)
(* written while it is read, a crash of the server, is left out.           *)
(*                                                                         *)
(* A code stands for what is left of the deployed bytes when the metadata  *)
(* footer is removed, and is its own hash.  A world says what is deployed  *)
(* where, what the local project compiled, what the explorer knows and     *)
(* which of the requests the clients make.                                 *)
(***************************************************************************)
EXTENDS Integers, Sequences, FiniteSets

CONSTANTS
  Addresses,
  NoAddress,
  Artifacts,      \* contract |-> [code, immutables, rank, files, instructions, slots]
  Lines,          \* file |-> the offsets its lines start at, then its length
  Worlds,         \* [root, code, implementation, project, verified, mapping, requests]
  LoadRequests,   \* [kind, contract, address, codeAddress]
  BreakpointRequests,
  AutoMatchRequests,  \* [project, explorer]
  Selectors,      \* first four bytes of a call's input
  Clients,        \* goroutines that serve requests
  Run,            \* the one the program runs in
  MaxLoads,       \* bound: bundles the client loads
  MaxBreakpoints, \* bound: breakpoints of the session
  MaxRuns         \* bound: times the client continues

ASSUME AddressAssumption == NoAddress \notin Addresses
ASSUME HandlerAssumption == Run \notin Clients

Handlers == Clients \cup {Run}

Contracts == DOMAIN Artifacts
NoContract == "no contract"
NoCode == <<>>

\* An index has one mapping for each program counter.
ASSUME ArtifactAssumption ==
  \A c \in Contracts : LET mapping == Artifacts[c].instructions IN
    /\ IsFiniteSet(Artifacts[c].immutables) /\ Artifacts[c].rank \in Nat
    /\ \A i, j \in DOMAIN mapping : mapping[i].pc = mapping[j].pc => i = j
    /\ \A i \in DOMAIN mapping : mapping[i].pc \in Nat /\ mapping[i].start \in Nat

ASSUME WorldAssumption ==
  \A w \in Worlds :
    /\ w.root \in Addresses /\ w.project \subseteq Contracts
    /\ \A a \in Addresses : w.implementation[a] \in Addresses \cup {NoAddress}
    /\ \A a \in DOMAIN w.verified : w.verified[a] \in Contracts

ASSUME RequestAssumption ==
  /\ \A request \in BreakpointRequests :
       /\ request.kind \in {"source", "function", "call", "storage", "memory"}
       /\ request.address \in Addresses \cup {NoAddress}
  /\ \A request \in LoadRequests :
       /\ request.kind \in {"local-project", "standard-json", "manual", "explorer", "auto"}
       /\ request.contract \in Contracts \cup {NoContract}
       /\ {request.address, request.codeAddress} \subseteq Addresses \cup {NoAddress}

NoHit == [kind |-> "none"]

VARIABLES
  world,
  bundles,      \* ReplaySession.Bundles: address |-> bundle
  breakpoints,  \* ReplaySession.Breakpoints
  doing,        \* handler |-> what it is in the middle of
  targetAddr,   \* ReplaySession.TargetAddr
  codeAddr,     \* ReplaySession.CodeAddr
  autoMatch,    \* ReplaySession.AutoMatchCfg
  matched,      \* ReplaySession.matchedAddresses
  cache,        \* the cache directory: code |-> record
  entered,      \* the code addresses this run has come to
  running,
  hit,          \* the breakpoint stop of the step just taken
  loaded,       \* every bundle the session ever had, with its key
  loads,        \* number of bundles the client loaded
  runs          \* number of runs

session == <<bundles, breakpoints, targetAddr, codeAddr>>
vars == <<world, session, doing, autoMatch, matched, cache, entered, running, hit,
          loaded, loads, runs>>

-----------------------------------------------------------------------------
(* The source map of an artifact.                                          *)

\* The mapping an index has for a program counter.
InstructionAtPC(c, pc) ==
  LET at == {i \in DOMAIN Artifacts[c].instructions :
                Artifacts[c].instructions[i].pc = pc}
  IN IF at = {} THEN NoContract
     ELSE Artifacts[c].instructions[CHOOSE i \in at : TRUE]

Instructions(c) ==
  {Artifacts[c].instructions[i] : i \in DOMAIN Artifacts[c].instructions}

HasLine(f, line) == line \in 1..(Len(Lines[f]) - 1)

\* The instructions whose range begins on the line and ends on it: those of
\* functions and contracts span more and would put every line at pc 0.
OnLine(c, f, line) ==
  {i \in Instructions(c) :
     /\ i.file = f
     /\ i.start >= Lines[f][line] /\ i.start < Lines[f][line + 1]
     /\ i.start + i.length <= Lines[f][line + 1]}

Narrowest(S) ==
  CHOOSE i \in S : \A j \in S :
    i.length < j.length \/ (i.length = j.length /\ i.start <= j.start)

\* The line has no code of its own: the next that has.
NextMapped(c, f, line) ==
  LET after == {i \in Instructions(c) : i.file = f /\ i.start >= Lines[f][line]}
      first == {i \in after : \A j \in after : i.start <= j.start}
  IN IF after = {} THEN {}
     ELSE {CHOOSE pc \in {i.pc : i \in first} : \A i \in first : pc <= i.pc}

\* The program counters of a line of a contract, {} when it has none.  A
\* statement emitted more than once has them all.
resolveSourceBreakpointPCs(bundle, f, line, column) ==
  IF ~bundle.index \/ f \notin Artifacts[bundle.contract].files \/ ~HasLine(f, line)
  THEN {}
  ELSE LET matches == OnLine(bundle.contract, f, line)
           wanted == {i \in matches : i.start >= Lines[f][line] + column - 1}
           best == Narrowest(IF wanted # {} THEN wanted ELSE matches)
       IN IF matches = {} THEN NextMapped(bundle.contract, f, line)
          ELSE {i.pc : i \in {j \in matches : j.start = best.start /\ j.length = best.length}}

-----------------------------------------------------------------------------
(* Bundles.                                                                *)

Bundle(contract, address, codeAddress, index) ==
  [contract |-> contract, address |-> address, codeAddress |-> codeAddress,
   index |-> index]

\* The deployed bytes are those of the artifact outside its immutables.
strictImmutableMatch(code, artifact) ==
  /\ Len(code) = Len(artifact.code)
  /\ \A i \in DOMAIN code : i \in artifact.immutables \/ code[i] = artifact.code[i]

\* All matches have the length of the code: fewest immutables, then by name.
FindMatches(project, code) ==
  {c \in project : strictImmutableMatch(code, Artifacts[c])}
BestMatch(S) ==
  CHOOSE c \in S : \A d \in S :
    LET n(x) == Cardinality(Artifacts[x].immutables)
    IN n(c) < n(d) \/ (n(c) = n(d) /\ Artifacts[c].rank <= Artifacts[d].rank)

\* The code behind an address, when its storage names an implementation and
\* the slots could be read.
ImplementationOr(address, other, readable) ==
  IF readable /\ world.implementation[address] # NoAddress
  THEN world.implementation[address] ELSE other

\* A project's artifact is loaded by its name, which must be given.
LoadLocalProjectBundle(contract, address, codeAddress) ==
  IF contract \in world.project
  THEN {Bundle(contract, address, codeAddress, TRUE)} ELSE {}

\* The verified source of an address, compiled.  When the explorer or the
\* slots name an implementation the bundle is attached to that: its source is
\* fetched too but compiled for the contract name found for the proxy, so
\* that it gives the same contract or an error, which is passed over.
LoadExplorerBundle(at, contract, codeAddress) ==
  IF at \in DOMAIN world.verified /\ contract \in {NoContract, world.verified[at]}
  THEN {Bundle(world.verified[at], at, ImplementationOr(at, codeAddress, TRUE), TRUE)}
  ELSE {}

\* The address given for the code gives way to the implementation found.  The
\* contract name asked for does not restrict the local match.
AutoLoadBundle(request, address, readable, up) ==
  LET asked == IF request.codeAddress # NoAddress THEN request.codeAddress ELSE address
      at == ImplementationOr(address, asked, readable)
      local == FindMatches(world.project, world.code[at])
  IN IF world.code[at] = NoCode THEN {}
     ELSE IF local # {} THEN {Bundle(BestMatch(local), address, at, TRUE)}
     ELSE IF up THEN LoadExplorerBundle(at, request.contract, at) ELSE {}

\* The bundles a load request may give; none is an error.  A manual bundle
\* may be an ABI alone, without an index.
LoadResults(request, readable, up) ==
  LET address == IF request.address # NoAddress THEN request.address ELSE targetAddr
      given(index) == Bundle(request.contract, request.address, request.codeAddress, index)
  IN IF request.kind # "auto" /\ request.contract = NoContract THEN {}
     ELSE CASE request.kind = "local-project" ->
                 LoadLocalProjectBundle(request.contract, request.address, request.codeAddress)
            [] request.kind = "standard-json" -> {given(TRUE)}
            [] request.kind = "manual" -> {given(TRUE), given(FALSE)}
            [] request.kind = "explorer" ->
                 IF up THEN LoadExplorerBundle(address, request.contract, request.codeAddress)
                 ELSE {}
            [] request.kind = "auto" -> AutoLoadBundle(request, address, readable, up)

-----------------------------------------------------------------------------
(* Matching the contract of a call: mapping file, cache, local project and *)
(* explorer, in this order.                                                *)

NoRecord == [verified |-> FALSE, kept |-> FALSE]
NotVerified == [verified |-> FALSE, kept |-> TRUE]
Verified(bundle) == [verified |-> TRUE, kept |-> TRUE, bundle |-> bundle]

SaveCachedBundle(code, bundle) == [cache EXCEPT ![code] = Verified(bundle)]
MarkNotVerifiedHash(code) == [cache EXCEPT ![code] = NotVerified]

\* The outcome of an attempt: the bundles found (one or none), the cache after.
Outcome(found, after) == [bundles |-> found, cache |-> after]

\* A record of the cache comes back with the addresses of the contract it was
\* written for.  A code known not to be verified is not looked for in the
\* project either.  Any failure of the explorer counts as not verified.
AutoMatchBundle(address, readable, up) ==
  LET at == ImplementationOr(address, address, readable)
      code == world.code[at]
      entry == address \in DOMAIN world.mapping
      pull == entry /\ world.mapping[address].pull
      mapped == IF entry
                THEN LoadLocalProjectBundle(world.mapping[address].contract, address, at)
                ELSE {}
      local == IF autoMatch.project THEN FindMatches(world.project, code) ELSE {}
      own == Bundle(BestMatch(local), address, at, TRUE)
      explorer == autoMatch.explorer /\ (entry => pull)
      fetched == IF up THEN LoadExplorerBundle(at, NoContract, at) ELSE {}
      Saved(found) == Outcome(found, SaveCachedBundle(code, CHOOSE b \in found : TRUE))
  IN IF code = NoCode THEN Outcome({}, cache)
     ELSE IF mapped # {} THEN Saved(mapped)
     ELSE IF cache[code].verified THEN Outcome({cache[code].bundle}, cache)
     ELSE IF cache[code].kept /\ ~(pull /\ autoMatch.explorer) THEN Outcome({}, cache)
     ELSE IF local # {} THEN Saved({own})
     ELSE IF explorer /\ fetched # {} THEN Saved(fetched)
     ELSE Outcome({}, IF explorer THEN MarkNotVerifiedHash(code) ELSE cache)

-----------------------------------------------------------------------------
(* Breakpoints.                                                            *)

\* As a bug would have it: only the breakpoints of the bundle's address.
ResyncOwn(bundle, bp) ==
  IF bp.kind # "source" \/ bp.code # bundle.codeAddress THEN {}
  ELSE resolveSourceBreakpointPCs(bundle, bp.file, bp.line, bp.column)

\* What a loaded bundle has for a breakpoint of the list, {} when it is passed
\* over; one that was resolved before is resolved again.
resyncBreakpointsForBundle(bundle, bp) ==
  IF bp.kind # "source" THEN {}
  ELSE resolveSourceBreakpointPCs(bundle, bp.file, bp.line, bp.column)

\* The bundle whose source is shown for code at an address: its own, that of
\* the session's code address, or the only one.
bundleForCodeAddress(code) ==
  IF code \in DOMAIN bundles THEN {bundles[code]}
  ELSE IF codeAddr \in DOMAIN bundles THEN {bundles[codeAddr]}
  ELSE IF Cardinality(DOMAIN bundles) = 1 THEN {bundles[k] : k \in DOMAIN bundles}
  ELSE {}

\* The key of the bundle a breakpoint with an address, or none, is meant for.
resolveBundleForBreakpoint(address) ==
  IF address # NoAddress THEN {address} \cap DOMAIN bundles
  ELSE IF Cardinality(DOMAIN bundles) = 1 THEN DOMAIN bundles
  ELSE {codeAddr} \cap DOMAIN bundles

\* A breakpoint with the name of another takes its place in the list.
upsertBreakpoint(bp) ==
  LET same == {k \in DOMAIN breakpoints : breakpoints[k].id = bp.id}
  IN IF same # {}
     THEN [breakpoints EXCEPT ![CHOOSE k \in same : TRUE] = bp]
     ELSE Append(breakpoints, bp)

\* "missed" and "misplaced" are history: a bundle came between the search and
\* the store of the breakpoint, or a resync passed it over; and its program
\* counters are those a resync found for another.
Breakpoint(request, code, pcs, slot) ==
  [id |-> request.id, kind |-> request.kind, code |-> code, file |-> request.file,
   line |-> request.line, column |-> request.column, pcs |-> pcs,
   selector |-> request.selector, slot |-> slot, missed |-> FALSE, misplaced |-> FALSE]

PCsIn(key, request) ==
  resolveSourceBreakpointPCs(bundles[key], request.file, request.line, request.column)

\* With an address: in that bundle or an error.  Without: in any bundle that
\* has the line (the map is walked in any order); in none, it waits.
SourceBreakpoints(request) ==
  LET resolving == {k \in DOMAIN bundles : PCsIn(k, request) # {}}
      keys == IF request.address = NoAddress THEN resolving
              ELSE resolving \cap {request.address}
  IN IF keys = {} /\ request.address = NoAddress
     THEN {Breakpoint(request, NoAddress, {}, 0)}
     ELSE {Breakpoint(request, k, PCsIn(k, request), 0) : k \in keys}

\* A storage breakpoint names a slot or a variable of the bundle meant.
StorageBreakpoints(request) ==
  IF request.name = "" THEN {Breakpoint(request, NoAddress, {}, request.slot)}
  ELSE {Breakpoint(request, NoAddress, {}, Artifacts[bundles[k].contract].slots[request.name]) :
          k \in {j \in resolveBundleForBreakpoint(request.address) :
                   /\ bundles[j].index
                   /\ request.name \in DOMAIN Artifacts[bundles[j].contract].slots}}

\* A memory breakpoint may be limited to the code of a line.
MemoryBreakpoints(request) ==
  IF request.file = "" THEN {Breakpoint(request, request.address, {}, 0)}
  ELSE {Breakpoint(request, k, PCsIn(k, request), 0) :
          k \in {j \in resolveBundleForBreakpoint(request.address) : PCsIn(j, request) # {}}}

NewBreakpoints(request) ==
  CASE request.kind = "source" -> SourceBreakpoints(request)
    [] request.kind = "storage" -> StorageBreakpoints(request)
    [] request.kind = "memory" -> MemoryBreakpoints(request)
    [] request.kind \in {"function", "call"} ->
         {Breakpoint(request, request.address, {}, 0)}

\* The first breakpoint of the list that matches at a step.
FirstOf(S) == CHOOSE k \in S : \A j \in S : k <= j

matchRootFunctionBreakpoint(code, pc, selector) ==
  {k \in DOMAIN breakpoints :
     /\ breakpoints[k].kind = "function" /\ pc = 0
     /\ breakpoints[k].code \in {NoAddress, code}
     /\ breakpoints[k].selector = selector}

\* As a bug would have it: in the code of any contract.
MatchAnywhere(code, pc) ==
  {k \in DOMAIN breakpoints :
     breakpoints[k].kind = "source" /\ pc \in breakpoints[k].pcs}

matchSourceBreakpoint(code, pc) ==
  {k \in DOMAIN breakpoints :
     /\ breakpoints[k].kind = "source"
     /\ breakpoints[k].code \in {NoAddress, code}
     /\ pc \in breakpoints[k].pcs}

-----------------------------------------------------------------------------
(* Handlers.  A bundle goes from "found" to "kept", then through the list:  *)
(* "resolve" is about to read the breakpoint at "next", "write" to write   *)
(* what was found for it.                                                  *)

Idle == [op |-> "idle"]

Stores(bp) == [op |-> "store", bp |-> bp]

\* "other" is the key of a bundle with no address, "enters" the code the
\* program goes on to.
Finds(bundle, other, enters) ==
  [op |-> "found", bundle |-> bundle, other |-> other, enters |-> enters]

Keeps(d) == [op |-> "kept", bundle |-> d.bundle, enters |-> d.enters]

\* The length of the list is read once.
Resolves(d, next, last) ==
  [op |-> "resolve", bundle |-> d.bundle, enters |-> d.enters, next |-> next, last |-> last]

Place(bp) == [file |-> bp.file, line |-> bp.line, column |-> bp.column]

Writes(d, pcs, place) ==
  [op |-> "write", bundle |-> d.bundle, enters |-> d.enters, next |-> d.next,
   last |-> d.last, pcs |-> pcs, place |-> place]

InList(g) == doing[g].op \in {"resolve", "write"}

\* The handler is done; the program enters the contract whose call it held up.
Returns(g) ==
  /\ doing' = [doing EXCEPT ![g] = Idle]
  /\ entered' = entered \cup doing[g].enters

GoesOn(g, next, last) ==
  IF next > last THEN Returns(g)
  ELSE /\ doing' = [doing EXCEPT ![g] = Resolves(@, next, last)]
       /\ entered' = entered

-----------------------------------------------------------------------------
\* A session on a call: its target is the root contract of the program.
Init ==
  /\ world \in Worlds
  /\ bundles = <<>> /\ breakpoints = <<>>
  /\ doing = [g \in Handlers |-> Idle]
  /\ targetAddr = world.root /\ codeAddr = world.root
  /\ autoMatch = [on |-> FALSE]
  /\ matched = {}
  /\ cache = [code \in {world.code[a] : a \in Addresses} |-> NoRecord]
  /\ entered = {}
  /\ running = FALSE
  /\ hit = NoHit
  /\ loaded = {}
  /\ loads = 0 /\ runs = 0

\* gdb.loadSourceBundle finds the bundle asked for.  The slots or the explorer
\* may not answer; an error leaves the session as it was.
loadSourceBundle(g) ==
  /\ doing[g] = Idle /\ loads < MaxLoads
  /\ \E request \in LoadRequests \cap world.requests, readable, up \in BOOLEAN :
       \E bundle \in LoadResults(request, readable, up) :
         doing' = [doing EXCEPT ![g] = Finds(bundle, bundle.address, {})]
  /\ loads' = loads + 1
  /\ hit' = NoHit
  /\ UNCHANGED <<world, session, autoMatch, matched, cache, entered, running, loaded, runs>>

\* A bundle is kept under the address its code is at, the address it is for or
\* the session's.  What a request found for its breakpoint is out of date.
Put(g, key) ==
  LET bundle == doing[g].bundle
  IN /\ bundles' = [k \in DOMAIN bundles \cup {key} |->
                      IF k = key THEN bundle ELSE bundles[k]]
     /\ loaded' = loaded \cup {[key |-> key, contract |-> bundle.contract]}
     /\ doing' = [h \in Handlers |->
                    IF h = g THEN Keeps(doing[g])
                    ELSE IF doing[h].op = "store" THEN [doing[h] EXCEPT !.bp.missed = TRUE]
                    ELSE doing[h]]

Keep(g) ==
  LET bundle == doing[g].bundle
  IN /\ doing[g].op = "found"
     /\ Put(g, IF bundle.codeAddress # NoAddress THEN bundle.codeAddress
               ELSE IF doing[g].other # NoAddress THEN doing[g].other ELSE targetAddr)
     /\ codeAddr' = IF g \in Clients /\ bundle.codeAddress # NoAddress
                    THEN bundle.codeAddress ELSE codeAddr
     /\ targetAddr' = IF g \in Clients /\ bundle.address # NoAddress
                      THEN bundle.address ELSE targetAddr
     /\ hit' = NoHit
     /\ UNCHANGED <<world, breakpoints, autoMatch, matched, cache, entered, running,
                    loads, runs>>

\* Without a source map there is nothing to resolve.
ResyncBegins(g) ==
  /\ doing[g].op = "kept"
  /\ GoesOn(g, 1, IF doing[g].bundle.index THEN Len(breakpoints) ELSE 0)
  /\ hit' = NoHit
  /\ UNCHANGED <<world, session, autoMatch, matched, cache, running, loaded, loads, runs>>

\* Past the end of a list that was cut, the goroutine panics: the request is
\* gone, or the frame of the call, which does not enter the contract.
Resolve(g) ==
  /\ doing[g].op = "resolve"
  /\ LET d == doing[g] IN
       IF d.next > Len(breakpoints)
       THEN doing' = [doing EXCEPT ![g] = Idle] /\ entered' = entered
       ELSE LET bp == breakpoints[d.next]
                pcs == resyncBreakpointsForBundle(d.bundle, bp)
            IN IF pcs = {} THEN GoesOn(g, d.next + 1, d.last)
               ELSE /\ doing' = [doing EXCEPT ![g] = Writes(@, pcs, Place(bp))]
                    /\ entered' = entered
  /\ hit' = NoHit
  /\ UNCHANGED <<world, session, autoMatch, matched, cache, running, loaded, loads, runs>>

\* The program counters go to the breakpoint that is there now; only an empty
\* address is filled in.  Those lost with the array of the list are none.
Resynced(bp, d) ==
  IF d.pcs = {} THEN [bp EXCEPT !.missed = TRUE]
  ELSE [bp EXCEPT !.pcs = d.pcs, !.misplaced = d.place # Place(bp),
                  !.code = IF @ = NoAddress THEN d.bundle.codeAddress ELSE @]

Write(g) ==
  /\ doing[g].op = "write"
  /\ breakpoints' = [k \in DOMAIN breakpoints |->
                       IF k = doing[g].next THEN Resynced(breakpoints[k], doing[g])
                       ELSE breakpoints[k]]
  /\ GoesOn(g, doing[g].next + 1, doing[g].last)
  /\ hit' = NoHit
  /\ UNCHANGED <<world, bundles, targetAddr, codeAddr, autoMatch, matched, cache, running,
                 loaded, loads, runs>>

\* gdb.setSourceBreakpoint and the requests for the other kinds look up what
\* they name.  Bound: one more breakpoint is asked for only below the limit.
setBreakpoint(g) ==
  /\ doing[g] = Idle
  /\ \E request \in BreakpointRequests \cap world.requests : \E bp \in NewBreakpoints(request) :
       /\ \/ Len(breakpoints) < MaxBreakpoints
          \/ \E k \in DOMAIN breakpoints : breakpoints[k].id = bp.id
       /\ doing' = [doing EXCEPT ![g] = Stores(bp)]
  /\ hit' = NoHit
  /\ UNCHANGED <<world, session, autoMatch, matched, cache, entered, running, loaded,
                 loads, runs>>

\* A list that grows may move to another array: what is about to be written
\* is written to the old one.
Store(g) ==
  /\ doing[g].op = "store"
  /\ breakpoints' = upsertBreakpoint(doing[g].bp)
  /\ \E moved \in IF Len(breakpoints') > Len(breakpoints) THEN BOOLEAN ELSE {FALSE} :
       doing' = [h \in Handlers |->
                   IF h = g THEN Idle
                   ELSE IF moved /\ doing[h].op = "write" THEN [doing[h] EXCEPT !.pcs = {}]
                   ELSE doing[h]]
  /\ hit' = NoHit
  /\ UNCHANGED <<world, bundles, targetAddr, codeAddr, autoMatch, matched, cache,
                 entered, running, loaded, loads, runs>>

\* No two have the same name.  The others move up in place: a resync that has
\* come to the one at "j" does not see it again.
Without(k) ==
  [j \in 1 .. Len(breakpoints) - 1 |->
     IF j < k THEN breakpoints[j]
     ELSE IF \E g \in Handlers : InList(g) /\ doing[g].next = j + 1
     THEN [breakpoints[j + 1] EXCEPT !.missed = TRUE]
     ELSE breakpoints[j + 1]]

deleteBreakpoint(g) ==
  /\ doing[g] = Idle
  /\ \E k \in 1 .. Len(breakpoints) : breakpoints' = Without(k)
  /\ hit' = NoHit
  /\ UNCHANGED <<world, bundles, targetAddr, codeAddr, doing, autoMatch, matched, cache,
                 entered, running, loaded, loads, runs>>

configureAutoMatch(g) ==
  /\ doing[g] = Idle
  /\ \E request \in AutoMatchRequests :
       autoMatch' = [on |-> TRUE, project |-> request.project,
                     explorer |-> request.explorer]
  /\ hit' = NoHit
  /\ UNCHANGED <<world, session, doing, matched, cache, entered, running, loaded,
                 loads, runs>>

\* gdb.continue: the program runs again from its start, with the addresses of
\* the session those of the root.  The client waits for it with the next one.
Continue ==
  /\ ~running /\ runs < MaxRuns
  /\ running' = TRUE /\ runs' = runs + 1
  /\ entered' = {world.root}
  /\ targetAddr' = world.root /\ codeAddr' = world.root
  /\ hit' = NoHit
  /\ UNCHANGED <<world, bundles, breakpoints, doing, autoMatch, matched, cache, loaded, loads>>

\* The hook of a call looks for the source of the callee, once for each
\* address; in a delegated call that is the contract already running, while
\* the address of the code counts as looked for as well.
contractPreloadHook(callee, code) ==
  IF ~autoMatch.on \/ callee \in matched
  THEN entered' = entered \cup {code} /\ UNCHANGED <<doing, matched, cache>>
  ELSE /\ matched' = matched \cup {callee, code}
       /\ IF code \in DOMAIN bundles
          THEN entered' = entered \cup {code} /\ UNCHANGED <<doing, cache>>
          ELSE \E readable, up \in BOOLEAN :
                 LET result == AutoMatchBundle(callee, readable, up)
                 IN /\ cache' = result.cache
                    /\ IF result.bundles = {}
                       THEN entered' = entered \cup {code} /\ UNCHANGED doing
                       ELSE /\ entered' = entered
                            /\ \E bundle \in result.bundles :
                                 doing' = [doing EXCEPT ![Run] = Finds(bundle, code, {code})]

\* The program calls a contract; a proxy goes on to its implementation.
CallsContract ==
  /\ running /\ doing[Run] = Idle
  /\ \E address \in Addresses :
       /\ world.code[address] # NoCode
       /\ contractPreloadHook(address, address)
  /\ hit' = NoHit
  /\ UNCHANGED <<world, session, autoMatch, running, loaded, loads, runs>>

DelegatesTo ==
  /\ running /\ doing[Run] = Idle
  /\ \E address \in entered : LET code == world.implementation[address] IN
       /\ code # NoAddress
       /\ contractPreloadHook(address, code)
  /\ hit' = NoHit
  /\ UNCHANGED <<world, session, autoMatch, running, loaded, loads, runs>>

\* A step of the program at a breakpoint stops the run.
StepStops ==
  /\ running /\ doing[Run] = Idle
  /\ \E code \in entered, selector \in Selectors, c \in Contracts :
       /\ strictImmutableMatch(world.code[code], Artifacts[c])
       /\ \E i \in Instructions(c) :
            LET functions == matchRootFunctionBreakpoint(code, i.pc, selector)
                sources == matchSourceBreakpoint(code, i.pc)
                k == FirstOf(IF functions # {} THEN functions ELSE sources)
            IN /\ functions \cup sources # {}
               /\ hit' = [kind |-> breakpoints[k].kind, breakpoint |-> breakpoints[k],
                          code |-> code, pc |-> i.pc,
                          shown |-> {InstructionAtPC(b.contract, i.pc) :
                                       b \in {x \in bundleForCodeAddress(code) : x.index}}]
       /\ codeAddr' = code
  /\ running' = FALSE /\ entered' = {}
  /\ UNCHANGED <<world, bundles, breakpoints, targetAddr, doing, autoMatch, matched, cache,
                 loaded, loads, runs>>

RunEnds ==
  /\ running /\ doing[Run] = Idle /\ running' = FALSE /\ entered' = {}
  /\ hit' = NoHit
  /\ UNCHANGED <<world, session, doing, autoMatch, matched, cache, loaded, loads, runs>>

Next ==
  \/ \E g \in Clients : \/ loadSourceBundle(g) \/ setBreakpoint(g) \/ Store(g)
                        \/ deleteBreakpoint(g) \/ configureAutoMatch(g)
  \/ \E g \in Handlers : Keep(g) \/ ResyncBegins(g) \/ Resolve(g) \/ Write(g)
  \/ Continue \/ CallsContract \/ DelegatesTo \/ StepStops \/ RunEnds

Spec == Init /\ [][Next]_vars

-----------------------------------------------------------------------------
BundleType ==
  [contract : Contracts, address : Addresses \cup {NoAddress},
   codeAddress : Addresses \cup {NoAddress}, index : BOOLEAN]

TypeOK ==
  /\ DOMAIN bundles \subseteq Addresses
  /\ \A k \in DOMAIN bundles : bundles[k] \in BundleType
  /\ \A k \in DOMAIN breakpoints : breakpoints[k].code \in Addresses \cup {NoAddress}
  /\ {targetAddr, codeAddr} \cup matched \cup entered \subseteq Addresses
  /\ \A code \in DOMAIN cache :
       cache[code].verified => cache[code].kept /\ cache[code].bundle \in BundleType
  /\ \A g \in Handlers : LET d == doing[g] IN
       /\ d.op \in {"idle", "store", "found", "kept", "resolve", "write"}
       /\ d.op = "store" => d.bp.code \in Addresses \cup {NoAddress}
       /\ d.op \notin {"idle", "store"} => d.bundle \in BundleType /\ d.enters \subseteq Addresses
       /\ d.op = "found" => d.other \in Addresses \cup {NoAddress}

Waits(bp, bundle) ==
  /\ bp.kind = "source" /\ bp.pcs = {}
  /\ resolveSourceBreakpointPCs(bundle, bp.file, bp.line, bp.column) # {}

\* A resync of the bundle is yet to come to this place of the list.
Awaits(k, bundle) ==
  \E g \in Handlers :
    /\ \/ doing[g].op = "kept"
       \/ InList(g) /\ k \in doing[g].next .. doing[g].last
    /\ doing[g].bundle = bundle

\* setSourceBreakpoint promises that a breakpoint without a match is resolved
\* when the contract is loaded: however requests and calls interleave, none
\* waits while a bundle of the session has its line, unless that bundle is on
\* its way down the list; but for those a bundle came to before they were
\* stored, and those a resync passed over.
NothingPending ==
  \A k \in DOMAIN breakpoints, a \in DOMAIN bundles :
    Waits(breakpoints[k], bundles[a]) =>
      breakpoints[k].missed \/ Awaits(k, bundles[a])

\* The breakpoint belongs to one artifact: of the bundles the session ever
\* had, one contract has its line, and is the one deployed at its address.
Belongs(bp) ==
  /\ bp.code # NoAddress
  /\ \E c \in Contracts :
       /\ strictImmutableMatch(world.code[bp.code], Artifacts[c])
       /\ \A l \in loaded :
            (\/ l.key = bp.code
             \/ resolveSourceBreakpointPCs(Bundle(l.contract, l.key, l.key, TRUE),
                                           bp.file, bp.line, bp.column) # {})
              => l.contract = c

\* The place a stop is at in the source of a contract is on the line, or the
\* first after it when nothing on the line has code of its own.
AtLine(place, c, bp) ==
  /\ place.file = bp.file
  /\ IF \E i \in Instructions(c) : i \in OnLine(c, bp.file, bp.line)
     THEN /\ place.start >= Lines[bp.file][bp.line]
          /\ place.start < Lines[bp.file][bp.line + 1]
     ELSE /\ place.start >= Lines[bp.file][bp.line]
          /\ \A i \in Instructions(c) :
               i.file = bp.file /\ i.start >= Lines[bp.file][bp.line]
                 => i.start >= place.start

\* A source breakpoint that belongs to one artifact stops the program where
\* the deployed contract is at that line, and the pause shows no other source;
\* whichever of the bundles was loaded when, by the client or by a call, and
\* however the list changed meanwhile, but for a breakpoint that got the
\* program counters of another.
StopsOnTheLine ==
  hit.kind = "source" /\ Belongs(hit.breakpoint) /\ ~hit.breakpoint.misplaced =>
    \E c \in Contracts :
      /\ strictImmutableMatch(world.code[hit.code], Artifacts[c])
      /\ hit.shown \subseteq {InstructionAtPC(c, hit.pc)}
      /\ AtLine(InstructionAtPC(c, hit.pc), c, hit.breakpoint)
=============================================================================
