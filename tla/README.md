# Verification of inspethct

inspethct replays and debugs Ethereum transactions. It is a Go program with an
EVM interpreter of its own, a fork engine that runs it on lazily loaded chain
state, a JSON-RPC server with gdb-like debug sessions, a command line, and an
editor plugin (a debug adapter in TypeScript). This directory holds TLA+ models
of the parts whose correctness depends on order, nesting, failure and
interleaving, the TLC runs that check them, and TLAPS proofs of the invariants
that matter most. Paths below are relative to the repository.

## The system

| Component | State it keeps | Operations | Talks to |
| --- | --- | --- | --- |
| Engine: calls, creations, frames (`internal/engine/message.go`, `op_system.go`, `engine_impl.go`, `state_impl.go`) | accounts, storage, transient storage, their snapshot stacks, logs, one gas meter per frame | `Run`, `ExecuteMessage`, CALL family, CREATE, SELFDESTRUCT, snapshot, revert | opcodes; hooks; the fork engine's stores |
| Interpreter and opcodes (`interpreter.go`, `op_*.go`, `gas.go`, `memory.go`) | pc, stack, memory, gas | one step per opcode; panics become statuses | hooks before each step and at storage accesses |
| Hooks (`hook*.go`, `access_hooks.go`, `breakpoint.go`) | registered hooks | dispatch; halt, skip, override | the debug sessions |
| Fork engine (`internal/forkengine/engine.go`, `state_adapter.go`) | remembered replay states; per run: what is loaded | prepare a call or a replay, reconstruct prior transactions, execute, write back | cache; upstream; engine |
| Fork cache (`forkengine/cache`, `overlay`) | accounts, code, cells, blocks by block reference | get, put, apply diff or overlay, export, import | shared by every request |
| Upstream client (`forkengine/upstream`) | rate-limiter clock, batching support | calls, batches, retries, fallback | an Ethereum node |
| Debug sessions (`internal/jsonrpc/gdb.go`, `server.go`) | position, pause, breakpoints, recorded writes, pause request, running flag | start, next, continue, pause, breakpoints, writes | fork engine (prepares the run anew for every command); hooks |
| Sequences and state patches (`gdb_sequence.go`, `gdb_state_patch.go`) | steps, carried patch, the step's session | create, advance to the next step, export, import | debug sessions |
| Contract metadata, source maps, variables (`contractmeta`, `srcmap`, `varpeeker`, `openchain`) | caches of lookups | resolve, match, decode | explorers, compilers; sessions ask them |
| Command line (`cmd/inspethctd`) | none of its own | serve, one-shot scripts | server, sessions |
| Plugin (`plugin/src`) | managed server process, adapter state | start, stop, launch, step, set breakpoints | the server, by JSON-RPC |

What is hard about it, and what makes each part right:

* **Nesting.** Frames take snapshots of two stores, share logs and transient
  storage, and end in many ways. A failed call must leave the world it started
  from, no matter how deep; gas must never be made; a static frame must change
  nothing; logs must survive exactly with their frames.
* **Replaying instead of pausing.** A debug session has no paused program. Each
  command runs everything again, counts steps, redoes the writes, and stops by
  making the frame of a hook fail. The pauses must lie on the one run the program
  makes, in order, none missed.
* **Partial work and shared caches.** A reconstruction of the transactions before
  the target writes into a cache that outlives it. Any upstream request may fail
  in between, and requests run concurrently. What is called exact must be exact,
  and the parent block's cache must stay the chain's.
* **Protocol between client and server.** Pause requests race with the run they
  are meant for; sequences import patches into sessions; the plugin restarts the
  server and sends its breakpoints again.
* **Timeouts and retries.** The upstream client falls back from batches to single
  calls and waits for slots of a rate limiter.

`PROJECT.json` lists every component with its status, and every hazard at its line.

## The modules and the plan

Modules, most important first. An abstract specification is named with the module that
implements it.

1. `AtomicCalls` (abstract), `MessageCall`, `MessageCallProofs`: calls, creations, frames.
2. `DebuggerSession` (abstract), `ReplayDebugger`, `ReplayDebuggerProofs`: one session.
3. `ForkReplay`, `ForkReplayProofs`: replays of transactions in the middle of a block.
4. `BlockCalls` (abstract), `ForkCalls`, `ForkCallsProofs`: calls at a block, the fork cache,
   look-ups, export and import.
5. `SequenceRun` (abstract), `DebugSequences`, `DebugSequencesProofs`: sequences of sessions,
   state patches, several clients of one server.
6. `UpstreamRPC`, `UpstreamRPCProofs`: the client of the upstream node.
7. `Words`, `Interpreter`, `InterpreterProofs`: one frame, opcode by opcode.
8. `SourceBundles`, `SourceBundlesProofs`: source bundles, auto-matching, source breakpoints.
9. `EditorAdapter`: the debug adapter of the plugin and its server process.

All of these are written and checked. What is left, in this order:

* Proofs about `EditorAdapter` (`BreakpointsAreThePlans`, `LaunchFindsTheFirstStop`).
* What the fork cache does when a run is committed: dirty tracking and overlays. A
  question to ask of it is what `applyBalanceLocked` makes of an account that was never
  loaded, since it stores the record with the balance alone.
* Contract-creation transactions in `ForkReplay`.

## MessageCall: one run of the engine

State: `acct`, `slots`, `transient` are the stores of `state_impl.go`, `acctSnaps`
and `slotSnaps` their snapshot stacks (`Snapshot` pushes, `RevertToSnapshot` truncates
and ignores a revision it does not know, as the code does); `frames` is the Go call
stack of `EVM.Run` activations, each with its revisions, gas, logs and static flag.

| Actions | Code |
| --- | --- |
| `Begin`, `BeginRefused` | `SimpleEngine.Run`, `applyTopLevelCallValue` |
| `Plain`, `Sstore`, `Tstore`, `EmitLog`, `Selfdestruct` | the interpreter loop and the opcodes that touch shared state |
| `CallRefused`, `CallLeaf`, `CallLeafFails`, `CallStarts`, `CallReturns` | `opCallCommon`, `ExecuteMessage`, precompiles and accounts without code |
| `CreateRejected`, `CreateRefused`, `CreateStarts`, `CreateReturns` | `opCreate`, `opCreate2` |
| `FrameFails`, `RunReturns`, `RunFails`, `Settle` | the ends of a frame and of the run, `applyBaseFeeBurn` |

The bytecode is abstract: the innermost frame may take any step its opcodes could
take, with any operands of the configured sets. Stack, memory and jumps are left
out, as is what a precompile computes. `Costs` gives the gas an opcode may charge;
refunds are any amount up to the cap. A run that starts static carries no value.

`AtomicCalls` has neither revisions nor gas: a call puts the world aside, and a failed
call leaves exactly that world. `CallsAreAtomic` is the refinement, with `saved` read
from the snapshot stacks. The exemptions in `AtomicCalls` are the code's: an outermost
call without value puts nothing aside, and a creation whose returned code is refused
keeps its writes.

Two readings of the code decide details. `Run` checks a top-level value against the
balance before anything is taken; one unit more than the caller has stands for every value it
cannot pay. `RevertToSnapshot` does nothing for a revision beyond the stack; the
invariant `SnapshotsNested` says that no frame ever meets this case.

## ReplayDebugger: a debug session

State: the fields of `ReplaySession` (`position`, `done`, `current`, `pendingPause`,
`breakpoints`, `mutations`, `pauseRequested`, `running`), the command's goroutine
(`mode`, `machine`, `seen`), the goroutine of `gdb.pause` (`pauser`), and a history
variable, `firstPause`. The program is a constant: contracts that call one another and
read, write and branch on one storage cell, which is enough to make a run depend on
what was written and on which calls failed.

| Actions | Code |
| --- | --- |
| `SetBreakpoint`, `DeleteBreakpoint`, `WriteStorage` | `upsertBreakpoint`, `deleteBreakpoint`, `writeStorage` |
| `Advance` | `replaySession` up to the execution; the program starts anew |
| `RunsOn`, `Halts`, `Starves`, `Returns`, `Panics` | a step without a stop; a hook that captures a pause and halts its frame; a frame that runs out of gas; the end of the execution; a panic of the state adapter |
| `Settle` | `replaySession` after the execution: publish the pause, or done, or an error |
| `PauseAsked`, `PauseStored`, `PauseAnswered`, `PauseGivenUp` | `pauseSession`, with the steps of its polling apart |

`DebuggerSession` is a debugger that walks along one run and never executes anything
twice. `WalksTheRun` maps a session to it: the state shown is the undisturbed run's
at the position, with the writes made so far. It is checked with breakpoints that can
match only up to the end of the last call, since an inner halt lets the callers go on
(the finding below); the run with breakpoints anywhere checks what still holds then.
One client at a time sends commands; the pause request is concurrent. Memory writes
are recorded and redone like storage writes and are left out.

## ForkReplay: transactions in the middle of a block

State: `cache` (what is stored under each block reference), `replayStates` (the map of
the engine) and, per goroutine, `request`: the target, the transaction being run, the
cache key it runs against, the cells it has loaded with their original and current
values, and what is still to be written back. `block` is the chain's block, chosen at
the start; its receipts and states are computed by running it in order (external).

| Actions | Code |
| --- | --- |
| `Ask` | `PrepareReplay`, `prepareReplayState` |
| `ListBlock`, `NextInBlock`, `Compare` | the loop of `reconstructPriorTransactions` |
| `Prepare`, `PrepareFails` | `prepareCallAgainstState`, `resolveCode`, `recordReplayState` |
| `MoveValue`, `Burn` | the account loads outside `EVM.Run`, whose panics nothing recovers |
| `LoadCached`, `Fetch`, `StoreFetched`, `Execute`, `Finish` | `forkStorage.ensureLoaded`, opcodes, `revertTopLevelCallValue` |
| `WriteBack` | `writeBackPreparedState`, cell by cell |

A fetch and the store into the cache are separate steps, as the cache's lock is not
held in between. The accounts of sender and recipient, loaded one after the other, are one in `MoveValue`: either
load may panic, with the same effect. Cells stand for all state: balances, nonces, logs and contract
creations are left out, and gas is what storage writes cost, which is what the receipt
comparison can tell apart. `spoiled` is a history variable: a target whose
reconstruction broke off without being remembered, overlapped with another, or
included a failed transaction that kept its writes.

## ForkCalls: calls at a block

State: `engine` (the mode and block `forkengine.New` accepted), `head` (the chain's height),
`cache` (per block key: accounts and cells, codes, the header), per goroutine its `call`, and
`saved`, an exported cache. A call runs on two adapters, for accounts and for storage, each
over an in-memory base that starts empty and is filled by what the code touches; `base`,
`loaded` and their snapshots are those, taken and dropped in pairs.

| Actions | Code |
| --- | --- |
| `NewBlock` | the chain (external) |
| `Asks` | `EthCall`, `EstimateGas`, `TraceCall`, a command of a call session: `resolveBlockRef`, `PrepareCall` |
| `ResolveBlock`, `StoreBlock` | `ResolveBlock`, `populateBlockChainID` |
| `CodeCached`, `FetchCode`, `StoreCode` | `resolveCode` |
| `LoadCached`, `Load`, `FetchPart`, `StoreLoaded`, `LoadFails` | `ensureLoaded` and `mustLoad` of `state_adapter.go` |
| `Write`, `Enter`, `Return`, `FrameFails` | the opcodes, `ExecuteMessage`, `Snapshot` and `RevertToSnapshot` |
| `Answer` | `ExecuteCall` and the commit, which has nothing to write for a call |
| `LookUp`, `StoreFound` | `GetCodeAt`, `GetStorageSlot` |
| `ExportState`, `ImportState` | the two of `cache.go` |

`BlockCalls` knows neither cache nor loading: a call has a state from the start, that of its
block, and each frame puts it aside and may bring it back. `RunsOnItsBlock` maps `ForkCalls` to
it: what was loaded is seen as it is, all else as it would be loaded. The mapping speaks
of calls at a block number only. What is cached under a tag stays for good, so that a call at
`latest` may mix blocks; the code promises nothing else. `eth_call` without a block means
`latest`, and `resolveBlockRef` puts the configured block in its place only when the mode is
pinned. The look-ups do not go through `resolveBlockRef`; `PutAccount` and `PutCode`, which
follow one another, are one step; the request for the chain's ID is left out.

## DebugSequences: steps, patches, several clients

State: the maps of `Server` (`sessions`, `patches`, one `sequence`), what each client's
handler is about to do (`client`), and `overlapped`, a history variable: two handlers
worked on the same session or on the sequence. `Server.mu` guards the maps only, so a handler
is cut into steps wherever it runs a program or reads a record another handler writes.

| Actions | Code |
| --- | --- |
| `Advance`, `Begin`, `RunStops`, `RunEnds`, `Settle`, `Unavailable` | `advanceSession` and `replaySession` of one session, with the loop of `gdb.continue` |
| `Write` | `writeStorage`, `writeMemory` |
| `ExportPatch`, `ImportPatch` | `exportStatePatch` with its scopes and compaction; `importStatePatch` with its refusals and merge modes |
| `StartSequence`, `NextStep`, `StartNext`, `EndSequence`, `CarryOver`, `Publish` | `startSequenceSession`, `nextStepSession`, `startSequenceStep`, `importPatchesIntoSession` |

Here a run is one step: it stops somewhere after the position, ends or fails.
`ReplayDebugger` says how a pause is found. A run's end is open until it was found out, and
open again after a write. `SequenceRun` has neither patches nor sessions: it is a list of
programs debugged in order with one overlay of writes. `CarriesWrites` maps the sequence to
it, with the overlay computed from the mutations of the active session. Memory writes that
overlap with different extents are the one exemption (`contested`): compaction sorts them by
offset, which may change which of them wins.

## UpstreamRPC: the client of the node

State: the limiter's `lastRequest`, `batchSupported`, and for each goroutine its job: the
route (`serial`, `probing`, `batched`), the next call, the attempt, the results so far.
`now` is a clock in ticks of the limiter.

| Actions | Code |
| --- | --- |
| `Ask`, `Return` | `Call`, `BatchCall`; the provider's methods decode the answer |
| `PassLimit`, `WakeUp`, `Tick` | `waitRateLimit`, which releases its lock while a caller sleeps |
| `Answered` | `doHTTP`, `doSingle`, `doBatchChunk` with responses in any order, gaps, responses that come twice and such nobody asked for |
| `Failed`, `Retry`, `Cancelled` | `doWithRetry`, `shouldRetry`, the fallback of `BatchCall`, the end of the request's context |

A call is a number and its true answer is that number, so that an answer in the wrong
place shows. The node is external. `Failed` decides as the code does, by the status of the failure:
a connection that is lost before there is a response has none and is retried, one that is cut while
the body of a 200 is read fails with 200 and is final (`jsonrpc.go:690`, `:771`). A batch takes the
last response with its id; a single request takes the one it gets, whatever its id (`strays`).
Decoding is modelled by classes of values: absent, fitting, too wide, one hex digit short (`odd`), of another
length, signed, no hex. `parseHexBytes` puts a zero in front of an odd number of digits, so 63 digits
pass as a hash and 39 as an address; `parseHexBig` takes a sign, `parseHexUint64Value`
does not. Decoding is evaluated when a single call returns, for every field of every result.

## Words and Interpreter: one frame

`Words` are words of `WordBytes` bytes of `ByteBits` bits each, 32 and 8 in the code; its operators
follow `op_arith.go` and `op_cmp.go` with integers for `big.Int`, and `Right` says what
each opcode means, by congruences and inequalities instead of the algorithm. `Interpreter` is
the loop of `EVM.Run` in one frame: `pc`, `stack`, `memory`, `gas`, `refund`, `slots`.

| Actions | Code |
| --- | --- |
| `EndOfCode`, `InvalidOpcode`, `OutOfGas`, `HookEnds`, `HookReplaces`, `StackFails` | the loop of `interpreter.go` around the handlers, `dispatchHooks`, and what its `recover` makes of a panic |
| `Arithmetically`, `ReadContext`, `LookUp`, `StackOp` | `op_arith.go`, `op_cmp.go`, `op_env.go`, `op_stack.go` |
| `Jump` | `JUMP`, `JUMPI`, `JUMPDEST`, `analyzeJumpdests` |
| `Mload`, `Store`, `Copy`, `Keccak`, `Log` | memory opcodes with `ExpandSize`, `ceil32`, `Resize`, `Get`, `Set` and their wrap-around |
| `Sload`, `Sstore`, `Tload`, `Tstore` | `op_storage.go` with its charges and refunds |
| `Finish` | `RETURN`, `REVERT`, `INVALID`, `STOP` |

An opcode is priced before its hooks and its operands are looked at, and pricing an SLOAD warms its slot
(`SlotsAsked`), whatever becomes of it: out of gas, ended or replaced by a hook, or a stack that fails.
Gas amounts are the code's. Offsets wrap at `OffsetMod`, as `uint64` does, which the assumption
takes to be a multiple of the size of a word and less than the words there are. DUP, SWAP, PUSH and LOG stop at 2, 2, 2 and 1. A hash is
the first word of its data. Calls, creations and SELFDESTRUCT are in `MessageCall`.

## SourceBundles: where source comes from, where a breakpoint stops

State: what a `ReplaySession` knows about sources (`bundles`, `breakpoints`, `targetAddr`,
`codeAddr`, `autoMatch`, `matched`), the disk `cache` of `contractmeta`, the run: the code
it has come to (`entered`) and the stop just made (`hit`), and for each goroutine (the clients'
and the run's) what it is in the middle of (`doing`).

| Actions | Code |
| --- | --- |
| `loadSourceBundle` | the request of that name finds its bundle: by name, file, explorer or automatically |
| `CallsContract`, `DelegatesTo` | `contractPreloadHook` with `AutoMatchBundle` finds one for a call of the program |
| `Keep` | the bundle goes to `session.Bundles`, and a request's addresses to the session |
| `ResyncBegins`, `Resolve`, `Write` | `resyncBreakpointsForBundle`, each breakpoint read and written apart |
| `setBreakpoint`, `Store` | the requests for source, function, call, storage and memory breakpoints look up what they name, then `upsertBreakpoint` |
| `deleteBreakpoint`, `configureAutoMatch` | the requests of these names |
| `Continue`, `StepStops`, `RunEnds` | a run with `matchSourceBreakpoint` and `matchRootFunctionBreakpoint` |

No lock and no look at `ExecutionRunning` keeps these handlers apart, so any of them may take
its step between two of another, also while the program runs. What that does is in the model:
a breakpoint searched before a bundle came and stored after it was resolved; `deleteBreakpoint`
moving the list up under a resync that goes by index, which then passes one over, writes to its
neighbour, or runs past the end and panics (recovered by the frame of the call, `interpreter.go:86`,
or by the HTTP server); an append that moves the list to another array under a pointer into the old.
Two history fields of a breakpoint name the outcomes: `missed` (a bundle came between its search
and its store, or a resync passed it over) and `misplaced` (it has what a resync found for
another).

Steps are coarser than the code in four places. A loop over the bundles or over the list that
only searches, filters or matches is one step. `Keep` stores the bundle and both addresses at once.
One `gdb.continue` runs at a time (two of them are in `DebugSequences`). And a Go map
read while it is written may end the whole process, which no property survives.

A code is what is left of the deployed bytes without the metadata footer, and its own hash.
An explorer that does not answer and slots that cannot be read are choices in each step. The
HTTP requests, the compiler and the parsing of its output are left out: a world says what
they would give.

## EditorAdapter: the plugin

State: `tasks` (each request of the editor is an async function; a task is the list of what
it has still to do), `js` (the task that runs; JavaScript runs one up to its next await),
the fields of `InspethctDebugSession` and `InspethctRuntime`, the process manager's `process`
and `managed`, and the `sessions` of the server.

| Actions | Code |
| --- | --- |
| `launchRequest`, `setBreakPointsRequest`, `stepRequest`, `pauseRequest`, `disconnectRequest` | `dap/session.ts` |
| `Send`, `Served`, `Fails`, `Take` | a call of `rpc`: sent, carried out, failed (before or after it was carried out), answered |
| `resolveEndpoint`, `probe`, `probed`, `connect`, `ServerComesUp`, `ServerExits` | the process manager: spawn, `waitUntilReady`, exits |
| `plan`, `setBreakpoints`, `keepIds`, `reapplyBreakpoints`, `applyPending` | breakpoints of a file: planned, deleted and set, remembered, set again |
| `step`, `stepOn`, `prime`, `autoRunToBreakpoint`, `compare`, `maybeAutoLoadForCurrent`, `handleSequenceProgress`, `answer` | stepping by lines, the launch's run to the first breakpoint, sources and sequences on the way |

A session on one call makes its first step (`gdb.next`) when it is started, before the bundles are loaded and the
launch primes the session (`runtime.ts:683`). A launch survives a failing `configureAutoMatch`, bundle or
automatic load, which are caught where they are called, and no other failure.

The server is taken at its word, as in `DebuggerSession`: `next` goes one step further,
`continue` to the next stop. The sequences the plugin could keep itself are left out, since
this server always reports a sequence session (`server.go:354`); so are the REPL, the stack
and variable views, and the download of the binary.

## What the runs check

| Run | Shows |
| --- | --- |
| `message_calls` | Types, nesting of snapshots, gas bounds, conservation of wei, logs that survive exactly with their frames, atomicity (refinement), purity of static frames, permanence of code, and that every run ends, with calls, creations, value transfers, self-destructs and every kind of failure. |
| `session_walks_one_run` | A session is a walk along one run. |
| `stops_anywhere` | The first pause of a command is exact, done means no stop is left, each stop is ahead, with breakpoints anywhere, failing frames and pause requests. |
| `replays_are_exact` | Two goroutines, all upstream failures: the parent's cache stays the chain's, what is remembered is final, and a replay called exact starts right unless its synthetic block was spoiled. |
| `calls_at_a_block` | A call at a numbered block implements `BlockCalls`, and what is cached under a number is the chain's, with failing requests, look-ups, reverts, and a cache exported and imported under running calls. |
| `sequence_carries_writes` | A sequence of one client implements `SequenceRun`: through export, compaction and import exactly the writes in force are carried. A driven sequence ends unless a program fails or a step refuses the patch. |
| `sequence_of_two_clients` | Until two handlers overlap on a session or the sequence, no step is skipped, left unfinished, or called done although its program has not ended. |
| `upstream_calls` | Each call gets its own answer or none, whatever is reordered, missing, sent twice, not asked for, or repeated by the fallback (a single request excepted that takes another's response); a failure that is retried is final only after all attempts; n callers send at most n times the rate; nothing is misread but for a missing digit, which becomes a zero; every job ends. |
| `interpreter_frames` | 68,000 frames: every arithmetic opcode is right on every operand, data is never executed, memory is paid for, refunds are net, a loop costs gas. |
| `source_lines` | Requests of a client interleaved with the calls of a run, through proxies, caches, projects and the explorer: no breakpoint waits that a bundle could resolve, unless the bundle came in the middle of storing it or passed it over; a stop is on its line and shows the deployed contract's source. In two worlds the list holds two breakpoints, of different kinds, and is shortened, extended and overwritten under a resync. |
| `editor_session` | The server ends with the breakpoints of the plans; a launch shows the first stop. |
| `reverted_prior_leaks` | Violation: a reverted prior transaction's writes stay, and the replay is called exact. |

### Bounds, and why they are enough

* `MessageCall`: four accounts: the caller, a contract that is the target and calls itself,
  one creatable address, one precompile. Gas 5 with unit costs allows
  three nested frames and work before, in and after them; the division of gas is scaled
  from 64 to 8 so that it bites at that size. Depth 4 is the limit and is reached. Deeper
  nesting adds frames that behave like these, and the nesting and gas invariants are
  proved for every size. The runs end in a final state, so deadlock is not checked.
* `ReplayDebugger`: programs of nine instructions with branches on the cell before,
  in and after a call, two writes (one with free breakpoints), `MaxSteps` longer than
  any run (the walk checks for deadlock, so no run is cut off). A write, a stop before it and a stop after it already make two diverging runs.
* `ForkReplay`: blocks of three transactions on two cells, so that a reconstruction can
  break off before, between and after prior transactions; two requests by two
  goroutines, sequential (a retry) or overlapping; values wrap at 3. The transactions
  cover a plain write, a value transfer, a revert, a failure that uses all gas,
  and a revert that keeps its writes. Each of the three exceptions in
  `ExactUnlessSpoiled` is needed: without any one of them the same run finds a violation.
* `ForkCalls`: a chain of two blocks, the second of which deploys an account, so that an answer
  for the wrong block differs; one goroutine that calls and one that looks up; calls at
  block 1 or without a block; an engine in diff mode, one pinned to block 1, and a configuration
  that `New` refuses. One snapshot, one kind of write, one export, taken at height 1 when
  exactly one value is cached: import then both restores a value and drops all others. More
  frames, callers, blocks and exports are the theorem's.
* `DebugSequences`: programs of one step, which is stopped at, ended or failed; two writes a
  session. One client, three steps (replay, call, replay) with storage writes that
  replace one another and memory writes that overlap; or two clients, a sequence of two
  calls, one write, one unreachable node. The states after an overlap are cut off by a constraint
  in the second run, as its properties speak of what precedes one. Deadlock is not checked:
  when sessions and patches are used up, clients stop.
* `UpstreamRPC`: two callers, jobs of one or three calls in batches of two (so that a
  chunk is full, a chunk is not, and a later chunk may fall back), two attempts, two faults of
  fourteen kinds, two jobs, two ticks, so that all attempts can fail, alike or differently. The mode is `probe`, from which
  jobs go on batched or singly; the others are in the proofs. When the jobs are used up nothing happens, so
  deadlock is not checked.
* `Interpreter`: words of two bytes of two bits (16 words: enough for signs, carries and
  for offsets, which wrap at 8), a stack of four,
  six families of codes: every operand, pairs of memory accesses up to the end of the address
  space, all codes of four bytes that jump or push, three writes to a slot, stack
  limits, hooks. Each frame ends, so deadlock is not checked.
* `SourceBundles`: one client and the run, which is what it takes for two handlers to get in
  each other's way; one run, one load by the client beside those of the calls, so that one bundle
  can disturb what another resolved. Four worlds have a vault at the root, a token behind a proxy and its two
  clones and a file two contracts share, and a client that sets one breakpoint, on a line of the
  clone or, in one world, on the shared file's. Two have a vault and a token, and a client that
  sets breakpoints two at a time: source and function ones in one world, source, storage and
  memory ones in the other (`call` is stored like `function`). Two are enough for a delete to move
  one under a resync and for an append to move the list. Deadlock is checked.
* `EditorAdapter`: two requests in flight, two edits of four plans for two files, one step or
  continue, one failure; a run of five steps with a call. One configuration starts the server and
  loads a bundle, one attaches and has a sequence of two steps, one debugs a single call. A session
  may end, so deadlock is not checked.

### Fairness

* `MessageCall` assumes `WF_vars(Next)`: one goroutine runs the interpreter loop, which
  neither waits nor blocks, so it takes a step as long as it can. `RunEnds` follows
  because each opcode that goes on costs gas.
* `DebugSequences` assumes weak fairness of the handlers, which are goroutines, and strong
  fairness of a client that continues the active session and asks for the next step: the
  property is about a client that keeps asking. The end of a program is a choice that, once made,
  stays until the next write, and the writes are bounded.
* `UpstreamRPC` assumes weak fairness of each caller's work (the HTTP client has a timeout, a
  sleep ends) and of time. Cancellation is never forced.

The other modules state no liveness and assume no fairness; with hooks, upstream requests and
client requests involved, the code guarantees none.

## What is proved

The theorems are proved for every value of the constants, under the named assumptions
of the modules (sizes are natural numbers, balances and costs are as the code's types
have them, every opcode that goes on costs gas, the stipend is at most the price
of a value transfer).

* `MessageCallProofs`: `IInv` is types, nested snapshots, gas bounds and `BeforeTheRun`
  (before the run starts there are no frames or snapshots and nothing was spent).
  `SnapshotsNested` needs the other parts, since what `RevertToSnapshot` truncates is decided by
  the frame's revision; `GasBounded` needs it for the frames that resume. `Invariance` gives
  `TypeCorrect`, `SnapshotsStayNested` and `GasIsNeverMade`. `FramesSound` adds three parts:
  only a run that goes on has frames beyond the one to settle; what a static frame
  would go back to is the world as it is (`StaticFrames`); an address under creation has a nonce
  and no code, also in what the frames above it put aside (`CreationsFresh`). From it follow the refinement of `AtomicCalls`, one
  action at a time (`CallsStayAtomic`), `StaticCallsArePure` and `DeployedCodeStays`. `LogsInvariant`
  says which logs belong to which open frame, and gives `LogsStayWithTheirFrames`.
  `WeiIsConserved` is `BalancesConserved` for any finite set of accounts: `MoneyInv` says that the
  total is that of the start and that no account owes any, says the same of every copy of the
  accounts that was put aside (a frame that fails brings one back), and that an account which
  does not exist owns nothing, because CREATE sets the balance of the account it makes to zero.
* `ReplayDebuggerProofs`: `PausesAhead` (during a command nothing is shown, and any pause
  captured so far is ahead of the position) gives `StopsAreAhead`. `Exactness` adds that
  the machine follows the undisturbed run until the first pause (`Follows`) and that the
  pause captured is that of the position it has (`Captures`). `FirstPauses` and
  `NothingIsMissed` follow for every program, any breakpoints and any interleaving of
  pause requests. The refinement of `DebuggerSession` is proved as far as it is true:
  `OneFrameWalks` for programs that make no calls, `WalksWhilePausesStand` for all, as
  long as the pause that is shown is the first one captured, which an inner halt can
  break (see the findings).
* `ForkReplayProofs`: `IInv` adds to types and `ParentIsUntouched` that each request
  fits its phase (`RequestFits`): while it goes through the block it works under the
  target's synthetic reference, only prior transactions are written back, and a value on
  its way to the cache is the parent's. Without the last part a fetch could overwrite the
  parent's cell; without the first a write-back could. `ParentStaysUntouched` and `TypeCorrect`
  follow. Exactness needs `Exactly`: while nothing spoils a target, at most one request
  reconstructs it (`OneReconstructs`), the cells it has cached are the
  chain's after the prior transactions done so far, and after the last of them those
  already written back are its (`CacheRight`), and the run of a transaction agrees with the node's run of it in every
  cell it loaded (`RunRight`, through `Tracks`, a simulation of the run that loads
  lazily by the one that has everything). `ExactReplaysStartRight` and `ReplayStatesAreFinal` follow
  for any blocks, any number of goroutines and any failures. One assumption is
  about the model only: the mark of an absent cache entry is not an entry.
* `ForkCallsProofs`: `IInv` is types, `CacheIsTheChains`, the same of an exported state
  (without it an import could bring anything), and of each call that its parts on the way to the
  cache are the chain's (`OnChain`) and that the snapshots its frames go back to exist in both
  adapters (`FramesFit`: the account adapter and the storage adapter count alike, also
  after a revert dropped some). It gives `CacheIsTheChains` and, step by step, the refinement of
  `BlockCalls`, for any chain, any nesting and any number of callers.
* `DebugSequencesProofs`: until two handlers overlap, `OneAtATime` says that a handler in
  the middle of its work is alone with its session or the sequence (`Alone`), what each
  session shows (`SessionSound`), what the handler has already done (`RunSound`,
  `StepSound`), and that the steps before the current one have ended (`SequenceOK`). `SoundWhileAlone`
  is its invariance; `SessionsEndHonestly` and `SequencesGoInOrder` are `DoneIsHonest` and `StepsInOrder`.
* `UpstreamRPCProofs`: `IInv` says of each job that its results are the answers of the calls it
  counts as answered, that it has those of all calls before the next one, that it
  is at its last attempt when it gave up for a failure that is retried, and how many requests
  it can have cost by now (`Bounded`: a batched job is at the start of a chunk, every
  chunk behind it cost at most `MaxAttempts`; a fallback counts as if all chunks had been
  tried). The last part is what makes the bound of `AnswersAreTheirOwn` inductive across the
  fallback, which starts with the first call again. `TypeCorrect`, `OwnAnswers` and
  `OnlyForCause` follow; `TypeOK` also needs that a sleeper is due at most a tick ahead.
  `RateIsBounded` is by counting: each request let pass uses up a pair of a caller and a
  moment. A sleeper keeps the pair of its due time, the clock is held by one caller, and a caller that sets it
  back gives up nothing another one has. It assumes finitely many callers.
  `AnswersAreReadAsSent` says for every result that what does not fit is refused, or is the value
  behind the zero its one missing digit stands for. `OnlyForCause` is about the failures
  `shouldRetry` accepts; a body that was cut is not among them.
* `SourceBundlesProofs`, for any number of clients: `IInv` relates the list to the handlers. A
  breakpoint on its way to the list waits for no bundle of the session unless it is `missed`
  (`Put` marks what was searched before); a breakpoint of the list that waits has
  a handler whose resync will still come to its place. That is disturbed by every action that
  changes the list under a handler, so each way of moving, losing and overwriting a breakpoint is a
  case of the proof. `NoneWaits` follows. `StopsAreOnTheLine` adds where program counters come from: those of a
  breakpoint, and those a handler is about to write, are what some bundle that was loaded
  has for its line. `TypeCorrect` is proved with them. They assume that a world is well-formed and that
  a contract has one mapping for each pc.
* `InterpreterProofs` is about one frame with words of any width from two bytes on, any code
  and any limits. `TypeCorrect` assumes of a world only that a frame starts with what the types
  say and less gas than the mark for "unbounded". The inductive invariants: memory is paid for
  as a whole (`PaidFor`, because the charges of growing telescope); pc is at an opcode or past the
  code (`AtOpcode`), where `ScannedIsOpcode` says that `analyzeJumpdests` steps over the data of
  each PUSH just as the loop does; `NetMetering` is inductive as it stands, because it also
  says that the refund covers the slots that are clear now, or `DeductRefund` could stop at
  zero. `LoopsCost` is an action property and needs only types. `ArithmeticStaysRight` compares,
  opcode by opcode, what a handler computes with what it means: `Meaning` picks one of the
  numbers a word can stand for and is shown to be what `toSigned` gives; words made with masks
  (`NOT`, `SIGNEXTEND`) are summed up bit by bit (`OfBitsIs`, `ExtendIs`), and the loop of `CLZ` is counted.
  Of `EXP`, the bitwise opcodes but `NOT`, and the unsigned comparisons the property, and so the
  theorem, only says that they give words.

Recursive functions (the undisturbed run, the chain's states, the sums over accounts
and slots, the scan of the code) are handled without the library's induction theorems, which take an
operator as a parameter: the set of numbers at which a claim fails has a least element, or
`SetInduction`, which follows from the cardinalities of finite sets.

Only model-checked:

* Liveness (`RunEnds`, `SequenceEnds`, `JobsEnd`), which is out of the provers' reach.
* `CarriesWrites`, whose compaction sorts by an order picked with `CHOOSE`: it needs induction
  over data.
* The two properties of `EditorAdapter`, whose tasks are lists of unlike records that each handler
  rewrites; the proof would have to follow all of them.

## Findings

One disagreement between the code and what it says is shown by a run: a reverted prior
transaction without value leaks its writes into the replay of its successors, which is called
exact (`forkengine/engine.go:701`, `engine_impl.go:129`). The same property,
`ExactIsExact`, also fails when a request dies after prior transactions were written back and is
repeated, and when two requests replay the same transaction at once; `ExactUnlessSpoiled` says that
there is no fourth way, and is proved.

Others were met while modelling. They are part of the models, and the properties say where
they stop to hold, but no run is spent on them:

* `gdb.next` is not one step (`docs/DBGSERVER.md:195` says it is): a hook's halt ends only its own
  frame, and the callers go on as if the call had failed, possibly to a later breakpoint
  (`gdb.go:439`, `interpreter.go:641`). `FirstPauseStands`, the hypothesis of
  `WalksWhilePausesStand`, leaves these runs out.
* SELFDESTRUCT only sets a mark (`op_system.go:218`) that nothing acts on; `state.go:44` says the
  account is deleted at the end of the transaction.
* `gdb.next` does not look at a pause request (`gdb.go:441`) although `server.go:359` says it can be
  interrupted.
* `gdb.pause` may answer before the pause is published, as `ExecutionRunning` is cleared
  first (`gdb.go:360`).
* KECCAK256 of no bytes at an offset grows memory that was not paid for
  (`op_crypto.go:17`); `MemoryIsPaidUnlessHashed` excepts it.
* A sequence whose next step is a replay, or a call with another base, can never import the
  patch it carries, and stays where it is (`gdb_state_patch.go:103`, `:127`). `Blocked` in
  `SequenceEnds` names these cases; a program that reverts is another.
* The explorer attaches a bundle compiled from a proxy's source to the implementation's
  address (`explorer.go:108`), and a record "not verified" keeps the local project from
  being searched (`auto_match.go:73`); a bundle found by its code is stored under the addresses of the
  contract it was first written for (`explorer_cache.go:38`). `Belongs` in `StopsOnTheLine` leaves the first out.
* The comment of `setSourceBreakpoint` (`gdb.go:1925`) says that a pending breakpoint is
  resolved when its contract is loaded. The request searches the bundles and stores the breakpoint
  with no lock in between (`gdb.go:1929`, `:1951`); a bundle that a call of the running program brings
  meanwhile is seen by neither, and the breakpoint waits for good, as the call's address counts as
  matched. `NothingPending` says that this, and a resync disturbed by a change of the list
  (`gdb.go:2118`), are the only ways, and is proved.
* Two `gdb.nextStepSession` at once may skip a step (`gdb_sequence.go:118`), and two commands for one
  session may report it done although its program has not ended (`gdb.go:310`). `StepsInOrder` and
  `DoneIsHonest` speak of what precedes such an overlap.
* A breakpoint that one bundle resolved gets the program counters of the next bundle that has its
  line too, under the address of the first (`gdb.go:2867`); `Belongs` leaves it out.
* In the upstream client: a connection cut while the body of a 200 is read is not retried although
  one that is lost earlier is (`upstream/jsonrpc.go:692`); a hash or address that lost one digit is
  accepted with a zero in front (`:911`); a single request accepts a response with any id
  (`:625`); a 429 with a body that is no JSON counts as "batching unsupported" (`:784`). `FailsForCause`, `NothingMisread`
  and `AnswersAreTheirOwn` leave the first three out by name.
* In the plugin: the next session of a sequence does not know the identifiers the reapply
  deletes first (`runtime.ts:782`); a launch primes itself with `gdb.next`, so that a stop
  at the very first step is not reported (`session.ts:101`); a disconnect while the launch waits
  leaves the server it then spawns running (`session.ts:80`, `:130`); a failed set leaves
  stale identifiers (`runtime.ts:391`); errors of a reapply after loading a bundle are
  swallowed (`runtime.ts:837`); a late answer to pause replaces a newer state
  (`runtime.ts:380`); a file's breakpoints applied by two requests at once, or in part, leave some that nobody
  deletes (`runtime.ts:391`), which `disturbed` in `BreakpointsAreThePlans` leaves out.

Hazards seen and covered by no model: a panic of the state adapter outside `EVM.Run` leaves
`ExecutionRunning` set (`gdb.go:359`); a pause shows the step as recorded before any
write (`gdb.go:643`); transient storage is not reverted when a frame fails
(`state_impl.go:358`; in `MessageCall` it is shared and kept, as in the code); a refund taken back in a
frame other than the one it was given in is clamped at zero (`gas.go:33`); the sum of gas
costs of a call is not checked for overflow (`message.go:256`); a failed load inside an
inner call is a failed call of the program (`state_adapter.go:246`); the map of replay states
is not locked (`forkengine/engine.go:776`).

## Not modelled

* Variable decoding, ABI and command-line parsing, output and the plugin's panels are
  conversions and user interface without state that later steps depend on.
* Selector lookup, explorers and compilers are input and output; what the program does with
  their answers is in `SourceBundles`.
* The parsing of compiler output, AST and storage layouts: `SourceBundles` starts from the
  parsed source map.
* In the engine: what precompiles compute, access lists of a transaction, and gas amounts of
  calls and creations (they are members of the cost sets).
* In the fork engine: contract-creation transactions, balances and logs of replays, dirty
  tracking and overlays.
* In the server: `eth_*` methods, the fields of replies, and the condition language of
  breakpoints.
* The one-shot scripts of the command line, a scripted client of the same sessions.
