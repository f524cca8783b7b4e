# Verification of nexo-plugin-sdks

TLA+ specifications of the Nexo plugin SDKs, the TLC runs that check them on
small instances, and TLAPS proofs of what matters most for every instance.
`PROJECT.json` lists components, runs, mutants, the map from definitions to
source lines, findings, hazards and theorems; this file explains them.

## The system

A plugin is a child process of the Nexo daemon. It speaks newline-delimited
JSON-RPC over stdin and stdout. Three SDKs (Python, PHP, TypeScript) implement
the same contract; a conformance kit drives all three from a mock host.

| Component | State | Operations | Interacts with |
|---|---|---|---|
| Dispatch loop (`PluginAdapter`) | in-flight handlers, `stopped`/`stop_event`, read buffer | read a line, answer `initialize`, start a handler per `broker.event` / `tool.invoke`, route replies and deltas, `shutdown`, signals, end of stdin | reads the host's frames, calls author code, writes replies, shares the pending registry |
| Host calls (`BrokerSender`, `LlmStream`) | id allocator, pending registry, one future / queue / entry per call | `publish`, `memory_recall`, `llm_complete`, `llm_complete_stream`, iteration, `final_result`, timeout, cancellation | registers entries the loop settles |
| PHP `Scheduler` | the suspended fibers | `spawn`, `tick`, `drain` | the loop ticks it, host calls suspend in it |
| TypeScript write chain | the tail promise of queued writes | `writeFrame` | broker writes only; adapter replies bypass it |
| Stdout guards | partial line, original writer, installed flag | install, write, uninstall | module state shared by all adapters of a process |
| Manifest, tools, registration | parsed manifest, declared tools, handlers | parse, validate, `declare_tools`, `on_tool` | read by `initialize` and `tool.invoke` |
| Wire, events, errors | none | encode, decode | everything |
| Conformance kit | captures, the child process | match, substitute, run a scenario | drives a fixture of each SDK |

What is hard: a reply, a timer and a cancellation race for the same call; the
registry is popped in one place and settled in another; handlers go on calling
the host while a shutdown drains them and nobody reads stdin any more; signals,
a shutdown, the end of stdin and a dying host may come in any order; a stream
has chunks, an end mark and a final reply, routed by separate frames; several
steps (encode an error, read a reply, run an author's callback) can fail half
way. What makes each component correct:

* host calls: at most one outcome, the first verdict heard; no entry left
  behind, nobody waiting that the registry does not know; chunks in order and
  complete; every call with a timeout ends;
* dispatch loop: never blocked by a handler; a shutdown acknowledged once, last,
  after all handlers and all tool replies; every way to stop ends the process
  and only when its handlers are done.

## Modules

| Module | Models | Notes |
|---|---|---|
| `HostCallContract` | what an author may rely on for a host call | abstract; implemented by `PyHostCalls`, `PhpAdapter` and `TsAdapter` |
| `GracefulStop` | what a stopping adapter promises | abstract; implemented by `PyAdapter`, `PhpAdapter` and `TsAdapter` |
| `PyHostCalls` | `broker.py`, `host.py`, and `_route_response`, `_route_delta`, `_abandon_pending` of `adapter.py` | with a host that answers at once; one action per step between two awaits |
| `PyAdapter` | `run`, `_handle_line`, the handlers, the signals of `adapter.py` | EXTENDS `PyHostCalls`, puts a pipe between host and SDK |
| `PyAdapter_proofs` | theorems about `PyHostCalls` and `PyAdapter` | the calls alone, then the loop, then the calls inside the adapter: lemmas about the calls are stated once and cited in both |
| `PhpAdapter` | `PluginAdapter.php`, `Scheduler.php`, `PendingRegistry`, `BrokerSender.php` | one thread, fibers, polling |
| `PhpAdapter_proofs` | theorems about `PhpAdapter` | |
| `TsAdapter` | `adapter.ts`, `broker.ts`, `AsyncChannel` and `LlmStream` of `host.ts` | node's turns, promises, timers, the write chain |
| `TsAdapter_proofs` | theorems about `TsAdapter` | |
| `PipeLemmas` | lemmas about a pipe: the frames in it that start a handler, counted, and the rest of a stream that it holds | used by the proofs about the three adapters |
| `LineReader` | how `run` of `adapter.py` cuts stdin into frames on asyncio's `StreamReader` | the bytes below `PyAdapter`'s frames |
| `LineReader_proofs` | theorems about `LineReader` | |
| `StdoutGuard` | `stdout_guard.py` with the adapters that install it and the frames beside it | at the grain of threads |
| `StdoutGuard_proofs` | theorems about `StdoutGuard` | |
| `MCStdoutGuard` | which threads and adapters TLC may permute | |
| `Registration` | `manifest.py`, `tools.py`; construction, `declare_tools`, `on_tool`, `initialize`, `tool.invoke` of `adapter.py` | with its theorems |
| `ConformanceMatcher` | `match_value`, `substitute_captures`, `_match_unordered`, and beside them what a match is | RECURSIVE, so model-checked only, and reached by no module with a theorem |
| `MockHost` | `run.py`, `mock_host.py`, `Proc` of `lib.py`, and any fixture at the other end of the pipes | the matcher is a constant operator (`Match`, `MatchAnyOrder`, `CapturesOf`, `FitsUnder`, `Assignable`) |
| `MockHost_proofs` | theorems about `MockHost` | for any matcher that keeps its promises |
| `MockHostScenarios` | scenarios, lines and captures for the model checker, those of the divergences below included | gives `MockHost` the matcher of `ConformanceMatcher` |
| `MCMockHost` | what TLC evaluates of that matcher before the run | the promises `MockHost_proofs` takes from it, on the run's scenarios, and its soundness on small patterns of every directive |

The constants of the SDK modules are small numbers and sets of strings, so their
configurations name the modules' own specifications; the scenarios of the
conformance kit are structures, which `MockHostScenarios` defines.

### How the state corresponds to the code

Python. `pending` is the key set of `_pending`; `fut` is the future of a call
(for a stream, `final`), with the exception or result class it holds; `chunks`
is the `asyncio.Queue` of a stream, whose end mark is `_STREAM_END`; `caller` is
where the author's coroutine is in the call; `unsent` are the streams whose
`ensure_future(_send_stream_request)` has not run. `pc` is the place of `run`:
the loop, the drain of a shutdown, `on_shutdown`, the drain of the `finally`.
Code between two awaits is one action, because asyncio does not preempt it. The
done callback that removes a task from `_inflight` is an action of its own
(`Discard`): it runs one turn of the event loop after the handler returned. The
send tasks a handler made ready run before it, since the loop is first in,
first out. The write lock is never contended (every write happens without an
await inside), so a write is part of the action that makes it. `publish` is one
such write and changes no state. `OpenStream` may fail after it registered the entry
(`_llm_params` cannot build the request): the author has an exception, no task is made, and
the entry stays until an abandon. `asyncio.wait_for` has two implementations:
`TimerCancels = FALSE` is Python 3.10/3.11 (the timer wakes the waiter, which
cancels the future if it is still unset), `TRUE` is 3.12+ (the timer cancels
the waiting task, and a reply routed before it runs is thrown away).

PHP. `buffer` is `stdinBuffer` as a sequence of lines, the last possibly a
fragment; `pc` is the place in the body of `run`; `todo` is what the current
`Scheduler::tick` has still to resume; `running` is the fiber that has the
thread. While it is not 0, only that fiber, the host, the clock and a signal
step. `reg`, `done`, `result`, `error`, `chunks` are the entries of
`PendingRegistry`; `snap` is the by-value copy that `peek` returns. `StartCallThrows` is a
stream whose parameters cannot be built after its entry was registered
(`BrokerSender.php:107-112`, the fault `"badParams"`): of kind `"unsent"`, no host ever hears of it.

TypeScript. Node runs turns: data on stdin, a timer, a signal or the end of what
an author awaits beside the SDK begins one (`TurnBegins`), and the reactions of
promises run until none is left (`Quiet`). Reactions that are ready at once run
in any order here, which includes node's first-in-first-out order: in particular
the chained write of a request may come late, behind the end of its call, the return of its
handler and the acknowledgement. When a turn is over, node ends
the process if a promise was rejected that nobody listens to (`Unhandled`,
`Crash`): the `result` of a stream before its author awaits it, or a task whose
error reply could not be encoded. `Data` hands readline the whole pipe, as one
chunk of stdin does; the loop takes `lines` one by one, also those that were
emitted before readline was closed. `pending` is the key set of the map,
`settled` the promise of a call (the `result` of a stream), `buf` and `shut` the
channel of a stream, `chain` the requests behind `writeChain`, `pc` the place of
`run` with the two drains; `killed` is a process that node ended.

Stdin, below the frames. A byte is its position in the stream; `lo` and `hi` bound
the reader's buffer. `ReadLine`, `Overrun` and `ReadEnd` are the three ways
`readline` returns or raises, each with what the loop does next; `FeedData` and
`Consume` are asyncio's flow control. The limit is `max_frame_bytes` and
64 KiB (`Slack`), the cap `max_frame_bytes` alone: between them, a line is read whole and
dropped; above the limit, `readline` throws away a part of the line.

Stdout guard. `pc` is where a thread is in `_GuardWriter.write`: CPython may hand
over to another thread at every call, so the append, the search for the newline,
the cut at the index that was found, and the write are one action each, and `idx`
is the local that may be stale. `stdout` is `sys.stdout`: the original or the
guard of an adapter. `Leave` and `Left` are the two halves of `uninstall`: the raw flush of what the buffer
holds, then its removal. Frames
go past the guard (`Bypass`), as `_write` does. An adapter is constructed when none serves,
never, after others failed or after others are over; several at a time are the fault
`"concurrent"`. `said`, `gone` and `base` are histories: what
plugin code wrote, what of it has left the guard, and how much had been written when the
guard was installed. Plugin code prints once an adapter was constructed, and on, also
when no guard is there.

Registration. A manifest is what `read_manifest` looks at; `declared`, `plain`
and `ctx` are `_declared_tools` and the two handler slots; `state`, `by` and `reply`
follow each `tool.invoke` from its checks over the detached task to its code.

Conformance kit. A JSON value is a tagged record and a pattern is a value or a
directive; `match_value` visits the keys of an object in the order of a set, so
a match has a set of results. `phase` is where `main` and `run_scenario` are, `buf` is
`Proc._buf`; a line goes through the stdout pipe in two halves, so that a read may
end within a line. `took` is a history: the frames that each step accepted or
refused. The fixture writes, reads, logs and exits as it likes. There
is no clock: a wait may time out whenever the code looks at the clock.

### The host

The host is external: it sends events, tool invocations, requests, one
shutdown, replies and deltas, in any order a pipe allows; it may answer a call
never or more than once, stream late, close stdin (within a line, for PHP) or
die. Frames the loop answers by itself are `"request"`; lines it skips
(oversized, no JSON, unknown notifications) are `"noise"`; frames that raise out
of the loop are `"fatal"`. It is assumed to read what we write.

### Author code

A handler may issue calls in any order, cancel them, iterate a stream, ask for
its final reply or drop it, return or raise. It awaits its single-shot calls
before it returns. What authors may do but a document does not foresee is gated
by the constant `AuthorFaults` (`Faults` in `TsAdapter`): the divergences below
turn it on, and so do `py_faults`, `php_stops` (callbacks that suspend, bad parameters) and
`ts_calls`, which check what holds in spite of it. A handler that fires several writes and returns without
awaiting any of them is not modelled.

## Runs

`CHECK_DEADLOCK` is off everywhere: an adapter that has exited, a set of
calls that is over, a stream that was read and a runner that is done stop.

| Run | Question | Bounds | States |
|---|---|---|---|
| `py_calls` | Do Python host calls keep the contract? | 2 calls, 2 chunks, 2 replies each, 2 abandons | 372 k |
| `py_adapter` | Does every way to stop a Python adapter end, gracefully, after all replies, without needing the host? | 2 handlers, 1 call, 2 lines in the pipe, 1 signal, 3.12 timers | 647 k |
| `py_faults` | What holds when authors and hosts misbehave? | 1 handler, 1 call, all faults | 1.2 M |
| `php_calls` | Do PHP host calls keep the contract, with fatal and other frames between? | 1 handler, 2 calls, 2 chunks | 5.0 M |
| `php_stops` | Does every way to stop end, gracefully, and is a shutdown acknowledged after all replies, with `onChunk` callbacks that suspend and streams whose parameters cannot be built? | 2 handlers, 1 call, 2 chunks, 1 signal | 1.2 M |
| `ts_adapter` | Does every way to stop a TypeScript adapter end, gracefully, and is a shutdown acknowledged when all work is done? | 2 tasks, 1 call, 2 lines in the pipe, 1 signal | 256 k |
| `ts_calls` | Do TypeScript host calls keep the contract, whatever authors do? | 1 task, 2 calls, 2 chunks, all faults | 1.6 M |
| `line_reader` | Which lines does the loop handle, and does it read to the end? | 12 bytes, cap 2, limit 3, chunks of up to 3 | 269 k |
| `stdout_guard` | What reaches the wire when threads print? | 2 threads, 2 adapters, one after the other, 2 writes of any of 5 texts, 1 frame | 1.4 M, up to symmetry |
| `registration` | Is there a handler for what was accepted, and is the catalog allowed? | 2 tools, 2 invocations | 86 k |
| `mock_host` | Are the runner's verdicts right, and does it end? | 7 scenarios, 5 lines, 3 of them per scenario | 350 k |
| `py_timeout_race` | (violation) Do Python 3.12+ timers keep the contract? | 2 calls | |

Why the bounds are enough: the calls share nothing but the registry, the id
allocator and the reader, so two calls show every interference of one with
another (an abandon that settles several, an id that was never registered, an
entry left behind next to a live one). Two handlers show the drain that waits
for one while the other still runs. Two chunks show order and loss; two replies
show the duplicate; a pipe of two lines shows a reply behind a shutdown. Twelve
bytes hold a line over the limit, whose tail is read in pieces, between lines
that fit, and more than twice the limit and a chunk, where the transport pauses.
Two threads and two writes show a search, a cut and a flush that overlap another
write; a text may be a line, a piece of one, a line with a piece behind it, or a
document over two lines; two adapters show what the first leaves behind on the wire.
`StdoutGuard_proofs` covers more writes, threads and adapters. Two invocations show one that is
checked while another's handler registers. The seven scenarios are one for each
way a scenario can go: refused for its tools, refused for a reference, newer than
the runner, skipped by some fixtures, frames in any order that need a second
try, a request whose reply needs a capture, and all directives in one pattern.
Bounds: `MaxCalls`, `MaxChunks`, `MaxAnswers`, `MaxTasks`, `PipeCap`,
`MaxSignals`, `MaxBusy` (what a TypeScript handler awaits beside the SDK),
each frame of `OneShots` once, two abandons in `PyHostCalls` (the
code runs `_abandon_pending` at most twice: proved as part of `AdapterTypes`),
`StreamBytes`, `MaxWrites`, `MaxFrames`, `MaxRequests`, `MaxOut`.

### Fairness

`LoopFairness`: the event loop runs what is ready and its timers fire (weak
fairness of the loop, the done callbacks, the send tasks, the timers and the
wake-ups), which is what asyncio and the PHP `while` loop do. Nothing makes the
host answer. `HandlerFairness`, where a run states `FairSpec`: handlers end once
the calls they wait for have ended, and they go through the streams they open.
For PHP it is strong, since a fiber that suspends by itself disables its own
return again and again. `ReaderGoesOn` is checked without it. In TypeScript the
loop's part is weak fairness of the reactions, of stdin, of the timers and of the
end of a process that node kills, and the handlers' part is that what they await
beside the SDK ends (`BusyEnds`): nothing there is disabled again and again.
`LineReader` has weak fairness of `Next`: the host writes its stream and closes
it, and the event loop runs what is ready; `ReadsOn` says that a paused transport
is never left paused. `MockHost` has it of the runner, which is one thread that
goes on, and of a fixture that reads what it is sent and writes out what it has begun.

### What the violation run shows

`py_timeout_race`: under Python 3.12+ a reply that was routed when the waiter has
not run yet is thrown away if the timer fires before it does, and the call reports a timeout; see
"findings" in `PROJECT.json`.

### Divergences without a run

The modules also state these; the code breaks each, as a run of the property
under the constants named here shows (everything else as in the configuration).
They are listed and not run, to keep the project's runs to distinct questions.

Host calls and dispatch loops, against what documents, comments or tests say:

| Property | Constants, starting from | What happens |
|---|---|---|
| `AbandonAnswersAll` (python/CHANGELOG.md:72-74) | `py_calls.cfg`, `ReplyKinds` with `"unreadable"` | an error reply that is no object, or whose code is no number, is popped and then raises (adapter.py:338): the reader goes down and the abandon misses the call |
| `FinalReplyKept` (host.py:138 "Re-awaitable") | `py_calls.cfg` | cancelling one await of `final_result` cancels the shared future; the final reply is dropped (host.py:141) |
| `FailuresAreRpcErrors` (README.md:95) | `py_calls.cfg`, `Methods = {"complete"}` | `LlmCompleteResult.from_json` raises `AttributeError` or `ValueError`, which broker.py:127 lets through |
| `ShutdownAcked` (README.md:132) | `py_adapter.cfg`, `AuthorFaults = {"lateStream"}` | a stream opened during the drain is registered behind the abandon and has no reader: the shutdown hangs (broker.py:144) |
| `AckAfterReplies` (tools.py:85-86) | `py_adapter.cfg`, `AuthorFaults = {"badDetails"}` | error data that `json` cannot encode raises inside the detached task: the tool is never answered (adapter.py:472) |
| `AckAfterReplies` (tools.py:85-86) | `py_adapter.cfg`, `AuthorFaults = {"cancelFinal"}` | awaiting a `final_result` that another await cancelled raises `CancelledError` in a tool, which is no `Exception`: never answered (adapter.py:457) |
| `StopsGracefully` (README.md:111) | `py_adapter.cfg`, `LateSignals = TRUE` | `finally` removes the signal handlers before it drains: a second SIGTERM kills the process (adapter.py:278) |
| `AckIsLast` of `TsAdapter` | `ts_adapter.cfg` | a request that waits in the write chain is written behind the acknowledgement, which goes past the chain (broker.ts:176, adapter.ts:478); in node's order this takes four or more handlers that are abandoned at once, open a stream and return |
| `AckAfterReplies` (tools.ts:112-113) | `ts_adapter.cfg`, `Faults = {"badDetails"}` | an error whose details `JSON.stringify` rejects fails the `catch` of its task: the tool is never answered (adapter.ts:464) |
| `ShutdownAcked` (CHANGELOG.md:65-66) | `ts_adapter.cfg`, `Faults = {"busyStream"}` | the shutdown abandons a stream whose author awaits something else between two chunks: nobody listens to its result yet, and node ends the process (adapter.ts:357) |
| `ShutdownAcked` (CHANGELOG.md:65-66) | `ts_adapter.cfg`, `Faults = {"dropStream"}` | so it does when the author never looks at `stream.result` (adapter.ts:357) |
| `ShutdownAcked` (CHANGELOG.md:65-66) | `ts_adapter.cfg`, `Faults = {"lateStream"}` | a stream opened during the drain is found by no abandon: the shutdown hangs (broker.ts:113) |
| `StopsGracefully` (README.md:101) | `ts_adapter.cfg`, `Faults = {"lateSignal"}` | `finally` lets go of the signals before it drains: a second SIGTERM kills the process (adapter.ts:240) |
| `EofEnds` (CHANGELOG.md:73-75) | `php_stops.cfg`, `HostEndings = {"midline"}`, `AuthorFaults = {}` | stdin that ends within a line makes the loop spin for ever (PluginAdapter.php:158) |
| `AbandonKeepsAnswers` (Host.php:219) | `php_stops.cfg` | stdin ends behind a reply: the loop breaks before the tick and `abandonAll` overwrites the answer (PluginAdapter.php:158) |
| `ImplementsContract` (Host.php:37) | `php_stops.cfg` | `onChunk` suspends, the reply lands, and the stale copy of the entry runs into the deadline (BrokerSender.php:127-130) |
| `ImplementsContract` (Host.php:37) | `php_calls.cfg`, `HostEndings = {"closes"}` or `AuthorFaults = {"chunkThrows"}` | an entry that holds a verdict is still registered when `abandonAll` runs, which overwrites it (Host.php:219) |
| `AckAfterReplies` (Tool.php:80) | `php_stops.cfg`, `AuthorFaults = {"badDetails"}` | `json_encode` fails, a blank line is written: the tool is never answered (Wire.php:71) |
| `RegistryIsCalls` (Host.php:144) | `php_stops.cfg`, `AuthorFaults = {"chunkThrows"}` | `onChunk` throws, its entry is never forgotten (BrokerSender.php:124) |
| `RegistryIsCalls` (Host.php:144) | `php_calls.cfg`, `AuthorFaults = {"badParams"}` | `llmParams` throws behind `registerStream`: likewise (BrokerSender.php:107-112) |

Stdin, stdout guard and registration:

| Property | Constants, starting from | What happens |
|---|---|---|
| `CapIsExact` (wire.py:15) | `line_reader.cfg` | the cap counts the newline: a frame of exactly `max_frame_bytes` is dropped (adapter.py:263) |
| `OnlyWhole` (python/README.md:110) | `line_reader.cfg` | of a line over the reader's limit, the tail that is left after `readline` cleared its buffer is handled as a frame (adapter.py:254-258) |
| `RacesStayClean` (stdout_guard.py:2-4) | `stdout_guard.cfg`, `MaxWrites = 4`, `MaxFrames = 0`, `Texts = {"junk", "tail", "pretty"}` | two threads: the index one has found is stale when it cuts, so a newline goes with a line and half a document reaches the wire (stdout_guard.py:80) |
| `WireClean` | `stdout_guard.cfg`, `Faults = {"concurrent"}` | the end of one adapter uninstalls the guard another relies on (stdout_guard.py:144-154; stdout-guard.ts:57 shares its state likewise) |
| `RunReleases` | `stdout_guard.cfg` | `connect_read_pipe` raises before the `try`: the guard stays (adapter.py:235) |
| `FramesArrive` (stdout_guard.py:13-15) | `stdout_guard.cfg` | the end of an adapter flushes a partial line raw (stdout_guard.py:105-107), and code that prints between two adapters has no guard: the first frame of the next adapter joins that line |
| `FramesArrive` | `stdout_guard.cfg`, `Bypass = FALSE`, `Threads = {t1}`, `Adapters = {a1}` | frames that go through the guard, as in TypeScript, join the partial line an author left (stdout-guard.ts:78) |
| `CatalogAllowed` (tools.py:33-35) | `registration.cfg`, `Swallows = TRUE` | `declare_tools` stores the tools before it checks them: code that goes on after the `ManifestError` advertises them (adapter.py:170) |
| `IdIsSlug` (manifest.py:18-19) | `registration.cfg` | `$` also matches before a final newline: `"slug\n"` is accepted (manifest.py:20) |

Conformance kit, on the module `MockHostScenarios` (`MCMockHost` assumes what some of
these break):

| Property | Constants, starting from | What happens |
|---|---|---|
| `UnorderedComplete` (lib.py:208-213) | `mock_host.cfg`, `Scenarios <- MCOneOf`, `Lines <- MCOneOfLines`, `Faults = {}` | a branch of `$one_of` that fails leaves its captures, and the next comparison with them refuses a frame that fits |
| `MatchSound` (lib.py:257) | `mock_host.cfg`, `Scenarios <- MCBool`, `Lines <- MCBoolLines`, `FitsUnder <- MCFitsStrictly` (a capture is equal to its value as JSON) | a second capture is compared with `==`: `true` passes for `1` (lib.py:190) |
| `CaughtAtLoad` (lib.py:337-338) | `Scenarios <- MCOptional` | the validator counts a capture below `$optional` as bound (lib.py:352-360): `KeyError` at run time |
| `NoLeftover` (mock_host.py:5-6) | `Scenarios <- MCLeftover` | behind an `expect_exit` nothing is drained: frames left over do not fail the scenario (mock_host.py:49) |
| `RunnerEnds` | `Scenarios <- MCFlood`, `OutRoom = 1`, `Faults = {}` | a write into the full pipe of a fixture that is itself blocked writing has no deadline (lib.py:57) |
| `AllReported` (run.py:7-10) | `mock_host.cfg` | the fixture dies while the runner writes: `BrokenPipeError` ends the runner, and the scenarios behind it are not reported (mock_host.py:46) |

Those of the Python host calls and loop, and the two threads in the guard, were also
reproduced against the SDK; the others rest on the reading of the code and the
model.

## Proofs

### The host calls of Python

`PyAdapter_proofs` proves of `PyHostCalls`, for every number of calls, chunks and answers, for
both kinds of `wait_for`, from `CallsAssumption` only:

* `CallsTypes`: `CallsTypeOK`;
* `CallsBelong`: `CallsInv`;
* `RegistryForgets`: `NoLeak`;
* `NobodyOrphaned`: `NoOrphan`, and `AbandonAnswers`: `AbandonAnswersAll`, both
  under `Readable` (no `"unreadable"` reply). The assumption is needed: the
  second is false without it (`AbandonAnswersAll` in the table above).

and, on top of them, what an author is promised:

* `IterationsEnd`: `IterationEnds`, with no further assumption;
* `StreamsAreFaithful`: `StreamFaithful`, with no further assumption;
* `CallsKeepContract`: `ImplementsContract`, under `Keeps`: the `wait_for` of
  3.10 and 3.11 and no `llm_complete`. Both are needed: run `py_timeout_race`
  shows that a 3.12 timer discards a verdict that was heard, and `llm_complete`
  may raise what is no verdict of the contract (`FailuresAreRpcErrors` above).

The argument. None of the safety properties is inductive: that a call which is
over has no entry needs that an entry implies a waiting author, which needs that
nobody but the author's own step ends the wait, for single-shot calls and
streams alike. `CallInv(i)` says how the entry, the future and the coroutine of
one call belong together; with the type invariant it is inductive (`Inductive`).
There is one lemma per action of the SDK (`RequestKeeps`, `RouteResponseKeeps`,
...), stated on the SDK's variables only (`SdkInv`), so that a module that puts
another host or a pipe around them can cite them; `SdkStep` joins them, and
`NextInv` adds the host. `NoOrphan` and `IterationEnds` are inductive relative to
that invariant. The refinement needs one fact more (`Unheard`): a future that is
unset belongs to an open call or to a stream its author let go of, so whatever
settles it is a verdict the contract may hear. Every step of `PyHostCalls` then
either only hears verdicts (`Hears`) or moves one call on and hears none
(`Moves`). That streams are faithful holds because what an author got and
what is queued for it are, put together, the host's stream from its start, and
nothing of it is missing while the entry is registered: the entry goes with the reply,
which the host sends behind the last delta.

### The dispatch loops

`PyAdapter_proofs` proves of `PyAdapter`, for every number of handlers, calls, chunks and
frames in the pipe:

* `AdapterTypes`: `TypeOK`, with no assumption on what authors, signals or the host do;
* `AckEndsOutput`: `AckIsLast`, likewise;
* `AcksAfterReplies`: `AckAfterReplies`, under `Tame`: error data can be encoded,
  and nobody cancels an await of `final_result`;
* `AdapterStopsGracefully`: `StopsGracefully`, the refinement of `GracefulStop`, when
  no signal comes behind the removal of the handlers (`~LateSignals`);

and, of the calls inside that adapter, with a pipe between them and the host, handlers
that a drain waits for, and every way to stop:

* `AdapterOrphansNobody` (`NoOrphan`) and `AdapterAbandonsAll` (`AbandonAnswersAll`), under `Readable`;
* `AdapterIterationsEnd` (`IterationEnds`) and `AdapterStreamsFaithfully` (`StreamFaithful`), with
  no further assumption;
* `AdapterKeepsContract` (`ImplementsContract`), under `Keeps`.

`TsAdapter_proofs` proves, likewise:

* `TsTypes`, `RegistryHoldsOpenCalls` (`RegistryIsOpenCalls`) and `AckEndsTheWork`
  (`AckEndsWork`: nothing replies and nothing joins the write chain behind the
  acknowledgement), with every fault of an author. That the chain has then been written is not
  claimed, and false (`AckIsLast` above);
* `AcksAfterReplies`: `AckAfterReplies`, when error details can be serialized;
* `NeverCrashes` and, with it, `AdapterStopsGracefully` (`StopsGracefully`), under
  `Gentle`: no fault but streams opened while the adapter stops.

* `StreamsAreFaithful` (`StreamFaithful`) and `CallsKeepContract`
  (`ImplementsContract`), with every fault of an author.

`PhpAdapter_proofs` proves, likewise:

* `PhpTypes` (`TypeOK`) and `AdapterStopsGracefully` (`StopsGracefully`), with no
  assumption on what authors, signals or the host do;
* `AcksAfterReplies`: `AckAfterReplies`, when error details can be encoded;
* `RegistryHoldsCalls`: `RegistryIsCalls`, when no `onChunk` callback throws and the
  parameters of every stream can be built;
* `StreamsAreFaithful`: `StreamFaithful`, with no assumption;
* `CallsKeepContract`: `ImplementsContract`, when `onChunk` neither suspends nor
  throws, the parameters of every stream can be built, and stdin does not end behind a
  line (`"closes"`);
* `AnswersAreKept`: `AbandonKeepsAnswers`, under the same conditions.

Every assumption is needed, for each a row of the table above shows the property
broken without it, with one exception: the last two theorems rest on
`RegistryIsCalls`, and take its assumption on the parameters with it. TLC finds both
properties to hold in `php_calls.cfg` with `AuthorFaults = {"badParams"}`.

The argument. What a drain has waited for is over only if nothing was started
meanwhile, and the loop starts what the host asked for: `WorkCount` bounds the
handlers that were started by the invitations that are not in the pipe any more
(the lemmas of `PipeLemmas` say how the count of the frames in a pipe changes as
it is written and read). `TasksInv` ties a handler's place to its membership in
`_inflight`, `DrainInv` says that a drain covers what is in flight and that nothing
is once it has ended. For Python the invariant of the calls (`CallsInv`, with
its lemmas) is part of it, since a step of a handler is a step of its call, and
`SendersInv` keeps a send task that has not run with a handler that is in flight:
that is why no request is written behind the acknowledgement. What the calls do inside the
adapter follows from the lemmas about the calls: every step of the adapter is one that routes,
fails or abandons calls (`Routing`), one of the SDK for one call, or leaves the calls alone
(`AdapterCalls`), and each of the first two was shown to keep what is claimed. Only the streams need
more, since a host that answers at once is not one behind a pipe: `StreamUpTo(i, r)` says
that the first r deltas of a call were routed, that the rest of its stream is in
`Flow` (the line being handled, then the pipe) in order, and that its reply comes
behind all of it; `NoneAhead`, that nothing in the flow is for a call that was not sent.
In TypeScript, that the process is not ended is not inductive: a failed
stream must have a listener when the turn is over, which needs that a stream
nobody listens to is in the hands of an author who is in the middle of its iteration
(`StreamsHeld`), and that failing a stream ends its iterator in the same step
(`FailedAreShut`), so that the turn cannot end before the author is told.
Its streams are faithful since, while a call is registered, the lines that are read or
in the pipe hold exactly the rest of its stream, in order and before its reply
(`Holds`): what is routed is the next chunk, and with the reply nothing is left.
Its refinement of `HostCallContract` needs that no two handlers wait for the same call
(`CallsApart`) and that a call which is open has a handler in it, or was dropped
(`OpenInv`).

For PHP the queues of the scheduler are the matter: a tick resumes each fiber
once and none that has terminated, because no fiber is in a queue twice
(`Apart`) and the rest of a tick is a part of what is in flight, without the fiber that
has the thread (`QueueInv`). The lemmas `QueueTail`, `QueueAppend` and `QueueRemove`
say what the three operations on the queue do to that. With it `FibersInv` says that exactly the
fibers between their start and their end are suspended, so an empty queue means
that every handler ended, and `StopInv` that no more are started then. Its streams are
faithful by the same argument as in TypeScript, with the line that is being handled
in front of the buffer and the pipe (`Flow`), and because a snapshot that says an
entry is done stays true (`AuthorsInv`). The contract needs that nothing the registry has heard
is overwritten or overlooked. `FreshInv` says that a call which was answered is looked at
before the loop reads again: its fiber is in the rest of the tick, or has the
thread, or the tick is still to come; and a fiber within its snapshot has the thread, so
that nothing landed since it peeked. The tick is left out only at the end of stdin,
which never empties the buffer if it comes within a line (`EofInv`).

### The smaller components

* `LineReader_proofs`, for every cap, slack, chunk size and stream: `ReaderTypes`,
  `BufferIsBounded` (at most twice the limit and a chunk), `FramesAreHandled`
  (`FitsHandled`) and `OnlyTailsAreHandled` (`OnlyTails`). The invariant says where the
  reader stands: at the start of a line, or within one over the limit (`PlaceInv`), and how the paused
  transport relates to the buffer (`FlowInv`).
* `StdoutGuard_proofs`, for every number of threads, adapters and writes: `LinesLeave`
  (`NoLineStuck`) and `GuardIsReleased` (`GuardReleased`) from `GuardInv`: a
  buffer with a newline has a thread at work on it (`AtWork`), and an installed guard belongs
  to an adapter that is not done (`Owned`). `WireIsClean` (`WireClean`) if one adapter serves
  at a time (no `"concurrent"`; needed, table above), for any number of adapters, each of them
  constructed when the one before is over, has failed or is stuck. It speaks of the lines
  written since the guard was installed: what came before, on the
  wire without a guard, is the row of `FramesArrive`. Its invariant `WireInv` rests on `LossInv`: one
  adapter at a time serves, and while it does there is a guard (`OneServes`); the lines since
  `base` are clean (`LogWhole`), because a line in hand holds no newline while no write overlapped another
  (`OneLine`), and no half of a document as long as none was printed (`PlainHeld`).
  `GuardLosesNothing` (`NothingLost`): as long as no write overlapped another write or
  an uninstall, what plugin code wrote is what has left the guard, then what the one thread
  at work holds, then what is buffered (`Alone`), with no assumption on threads, texts or faults.
* `MockHost_proofs`, for all scenarios, fixtures and pipe sizes: `LinesAreKept` (`NoLineLost`),
  since the buffer and the pipe carry what was written and not taken, in halves (`FlowInv`).
  `ReferencesAreCaught` (`CaughtAtLoad`), if a match binds every capture of its patterns
  (`MatcherBinds`): what the validator counted as bound is bound when the step is reached.
  `MatchesAreSound` (`MatchSound`), if one match is sound under the captures it was given (`MatcherSound`): the
  captures only grow over a scenario, so each step still suits what it took when later steps have
  bound more. Sound is meant up to `FitsUnder`, which `MockHostScenarios` defines with the equality the code
  uses: Python's `==` between a capture and its value, at any depth, takes `true` for `1` (`PyEqual`, lib.py:190).
  That a frame fits with the equality of JSON is not proved, and false (`MatchSound` in the table above).
  TLC evaluates both assumptions on the scenarios, lines and captures of the run, and
  soundness also on small patterns of every directive (the two
  `ASSUME`s of `MCMockHost`). The code does not justify `MatcherBinds` for every pattern: a capture
  below `$optional` refutes it (table above).
* `Registration`: `CatalogIsAllowed` (`CatalogAllowed`), if nobody goes on after a
  `ManifestError` (needed, table above), and `HandlerIsThere` (`HandlerThere`).

### Only model-checked

Liveness (beyond the prover): `CallEnds`, `ShutdownAcked`, `StopEnds`, `EofEnds`,
`ReaderGoesOn`, `ReadsOn`, `RunnerEnds`. `UnorderedComplete`, and with it the search of
`ConformanceMatcher`: it is RECURSIVE, and what it computes for every input is an induction
over data; `MockHost_proofs` takes from it only the two promises above. Every other property of
a passing run is a theorem.

## Not modelled

* The registration and the stdout guards of PHP and TypeScript, but for the two
  questions `StdoutGuard` answers about the TypeScript guard (`Bypass = FALSE`,
  `"concurrent"`). They follow the Python ones in all but the threads, which
  neither has.
* `read_manifest` as a parser: what it accepts is modelled, TOML is not.
* Encoding and decoding of frames, error classes: conversions
  without state; what they reject appears as reply kinds and frame types.
* Both pipes full at once: the host is assumed to read our stdout. Only the host
  of the conformance kit is modelled beside it (`RunnerEnds`).
* `on_shutdown`: an author callback; it is taken to return.
* The command line of the conformance kit, `--check-contract-version` and the
  wording of its output.
* Test fixtures and CI workflows.

## Plan

Done: everything under "Modules". Next, in this order:

1. The registration of PHP and TypeScript beside the Python one.
2. Both pipes at their capacity, with a host that writes before it reads.
