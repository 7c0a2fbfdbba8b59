# A TLA+ model of the DashInfer engine

DashInfer (the repository's `csrc/`) serves large language models. A client
starts requests, reads their tokens from result queues, and may stop, release
or wait for them while one event-loop thread per model batches the requests,
runs prefill and decode steps on the ranks and shares a bounded KV cache among
them. This directory holds TLA+ modules of that engine, TLC configurations that
check them on small instances, and TLAPS proofs of their main safety
properties for every instance.

All paths below are relative to `src/csrc/`.

## 1. Inventory

| Component | State | Operations | Status |
|---|---|---|---|
| Request API (`common/as_engine_request.cpp`) | `lora_lock_`, the promise of the call in progress | StartRequest, StopRequest, ReleaseRequest, SyncRequest | modelled |
| Model lifecycle (`common/as_engine_model_lifecycle.cpp`) | `model_stopping`, `model_stopped`, loop thread | StartModel, StopModel, ReleaseModel | StopModel modelled |
| LoRA management (`common/as_engine_lora.cpp`, `core/model/model_lora.cpp`) | loaded LoRAs, `loras_in_use_`, `lora_use_count_` | Load, Unload, count a usage, give it back | modelled (no tensors) |
| Event loop (`common/as_engine.cpp`, `ModelRunningThread`) | message queue, handle and result-queue maps, sync set, stop phase | message, context, update, decode, sync reply, stop test | modelled |
| Scheduling (`core/model/model_*.cpp`) | `pending_request_queue_`, `gen_ctx_list`, `all_request_map`, `current_unfinished_request_` | StartRequest, PrefillChunkRequest, GenerateContinueContext, GenerateContinueDecoder, StopRequest, AllocDecoderMemory | modelled |
| Result queue (`common/result_queue.cpp`) | token queue, status, `closed_`, `get_user` | Append, SetStatus, Get, Get(timeout), GetNoWait, destructor | modelled |
| KV-cache frames and spans (`runtime/cache/frame_manager.cpp`, `span_manager.cpp`, `virtual_cache.cpp`) | free list, its counter, spans of each cache array | AllocFrame, FreeFrame, ClaimSpan, ReleaseSpan, updateSeqLength | free list and counter modelled; spans as counts |
| Prefix cache (`runtime/cache/prefix_cache_manager*`) | hash tables, reference counts, LRU evictors, GPU and CPU unions, rank barrier | Insert, RefOnly, RefFill, UnRef, EvictUnrefered, swap, Reset, waitForOtherWorkers | modelled (no chunked prefill) |
| Rank workers and thread pools (`common/engine_worker.cpp`, `thread_pool*.h`) | task queue per rank, `stop`, futures | enqueue, wait for all futures, destroy the pool | modelled |
| Start-up, warm-up, weights, statistics, allocator, kernels, RPC service, C and Python interfaces | | | not modelled (section 8) |

**How they interact.** Every request call takes `lora_lock_`, enqueues a
control message on a lock-free queue and (Start excepted) waits for a promise;
StopModel takes no lock. The loop takes messages, keeps the maps, asks the
ranks' `AsModel` for a context and then a decode step, and `UpdateResult` copies
new tokens and statuses to the result queues that client threads read. Client
threads and the loop share the message queue, `model_stopping`, the promises,
the LoRA counters and the result queues; nothing else.

Behind the loop, `AsEngineImpl` hands every call to one thread per rank and joins
the futures. Each rank's `AsModel` claims the spans of its layers from threads of
a layer pool, all at once, out of one lock-free list of frames; a prefix cache
keeps the spans of finished requests, moves them to CPU memory when frames are
short (a thread pool copies them) and gives them to later requests with the same
prefix. Its Insert goes through a barrier of all ranks.

**What is hard.** Two flags tested and set without a lock; a queue that is FIFO
per producer only; promises set on some paths of the loop and not on others;
a request that leaves the engine on six different paths, each of which must
repair a counter, a frame count, a status and a LoRA usage; a prefill whose error
status nobody reads; frames that run out
in the middle of a decode; a loop that sleeps when it believes there is nothing
to do; a queue destroyed while a reader is inside it; a free list and a counter
of it that are never changed together; spans owned by a request and a cache at
once, freed by whichever comes last; data that is in a table before it is in
memory; a barrier entered again before everybody has left it. `PROJECT.json` lists each
of these as a hazard at its line, with the properties that cover it.

**What correct means.** API: every call returns and its reply means what the
interface says. Loop: the stop test is exact; a stopped model holds nothing;
an accepted request is served. Scheduler: a request is in one place, the cache
is never overdrawn and is conserved, an out-of-frames decode always has a victim.
Results: readers get every generated token once and nothing else, and a terminal
status is final. LoRA: never unloaded under a request that needs it. Frames: in one
place, counted, claimed all or none. Prefix cache: attention reads the KV of the
request's own tokens, whatever was evicted and swapped; references and memory are
conserved. Ranks: nobody leaves the barrier early, everybody leaves it; calls
return; the pool can be destroyed.

## 2. Plan

1. `EngineLoop` with `MCEngineLoop`: the API, the loop and the scheduler,
   interleaved. Type correctness and the safety invariants proved. **Done.**
2. `ResultQueue`: the reader's side of the queue, at the grain of its atomic
   operations. **Done.**
3. `FrameManager`: the lock-free free list and its separate counter under
   concurrent layer threads, shown to implement the abstract `FramePool`. **Done.**
4. `PrefixCache`: hash tables, references, eviction, swap and asynchronous copy,
   with the scheduler's calls. Memory, references, order of eviction, absence of
   faults and the data itself proved. **Done.**
5. `RankWorkers`: the rank threads, their shutdown and the prefix cache's barrier,
   shown to implement the abstract `Rendezvous`. **Done.**
6. An abstract request specification (queued, running, ended, released) that
   EngineLoop refines.
7. Proofs of the remaining safety properties of the engine, the result queue and
   the frame manager. **Done.**
8. The RPC service.

## 3. Modules

### EngineLoop

One module, because its parts share almost all of their state. It models one
model, one rank, the CUDA build with span attention. The prefix cache is
abstracted away: no span is shared, and spans that only the cache holds count as
free, since admission and `AllocDecoderMemory` evict them before they test. The
admission formula is the one without the cache; with it `GenerateContinueContext`
discounts the GPU hits, which only `PrefixCache` has.

| Variables | Code |
|---|---|
| `lock`, `call`, `reply` | `lora_lock_`, the call holding it, its promise |
| `handle` | whether the client holds a valid `RequestHandle` |
| `stop_pc`, `stop_reply` | the position of each StopModel caller, its promise |
| `msg_queue` | `ModelControlState::msg_queue`, one FIFO per producer thread |
| `lp`, `next_phase`, `todo` | where the loop is; the handles UpdateResult has still to visit |
| `no_execution`, `graceful_stop_phase`, `graceful_stop_msg`, `synchronizing`, `sync_pending_set` | locals of `ModelRunningThread` |
| `pending`, `running`, `finished_ctx`, `all_request_map` | `AsModel`'s queues and map |
| `status`, `finish`, `prefill_chunk_len` | fields of `Request` |
| `seq_len`, `free_frames` | tokens in the virtual cache; `CountFreeFrame()` in units of 2 * layers frames |
| `generated`, `out_len` | tokens really generated; what `generated_ids_global`'s shape claims |
| `ignored` | whether the prefill failed with a status that `StartRequest` dropped, and whether the context it left can be decoded |
| `unfinished` | `current_unfinished_request_` |
| `continued`, `generate_length`, `queue_status` | `RequestHandle` and the writer's side of `ResultQueueImpl` |
| `loras`, `loras_in_use`, `lora_use_count` | LoRA manager and usage counts |

Actions follow the code: `StartRequest` / `StartRequestRefused` /
`StartRequestEnqueue` / `StartRequestRollback`, `RequestCall` /
`RequestReturn` (Stop, Release, Sync), `LoadLoraByName`, `UnloadLoraByName`,
`StopModel*` (one action per shared access); then the loop, phase by phase:
`Handle*`, `SkipMessages`, `Context*`, `Update*`, `Decode*`, `LoopNext`,
`LoopEnd`. Phases that touch only the loop's own state are one action; the loop
and the clients interleave wherever they share state. `UpdateResult` visits one
handle per step since readers see its effects one at a time.

**A prefill can fail in two ways.** An exception is caught, the request stopped and
marked interrupted (`ContextFault`). A returned status is not: `StartRequest` calls
`runDecoderContext();` (`model_request.cpp:127`) and drops the result, so the
request becomes `ContextFinished` and joins the batch, and UpdateResult hands out
`generated_ids_global`, which nobody wrote. `ContextIgnored` is that step. A
`max_length` below the prompt takes it every time (`PARAM_ERROR`,
`model_decoder.cpp:59-63`; `InputParamsVerify` does not compare the two). With
`StatusFaults` any operator's error takes it, up to `MaxFaults` times, at one of three
places, and what follows depends on the place:

* Before the pre_graph has made `generated_ids`, or after the claim of the spans: the
  next decode of the batch fails, for want of `generated_ids` (`update_id_op.cpp:83`) or
  because the context's step is not the length of its spans (`SpanAttnOp::Alloc`), and
  the loop calls `abort()` (`as_engine.cpp:1604-1617`). This is `DecodeAbort`, after
  which nothing moves (`Alive`), unless the request is evicted first.
* Between the two: the decoder can run the context. It goes on with a cache that
  lacks the prompt (`"blank"`), and `DecodeOut` is the length the output tensor gets.

A chunk that fails so stays in `gen_ctx_list` without an entry in the maps, and the
decode after it aborts (`ContextChunkIgnored`).

`TokensDelivered` and `OneTokenPerElement` except the request whose own prefill
failed unnoticed, and only that one: they say that it does no harm to the others.
No other property makes an exception.

Abstractions: a prompt is its length, a token a unit; the end token is a
nondeterministic choice at each step; a failed prefill or enqueue happens at
most `MaxFaults` times, at any place it can. `min_gen_length` (10 in the code)
is the constant `MinGenLength`. Inputs that `InputParamsVerify` rejects are not
enumerated. A request with `InputLen > MaxLength` may also be prefilled
normally: with the prefix cache a hit shortens the length that is compared. The
message queue is the vendored `moodycamel::BlockingConcurrentQueue`
(`utility/blockingconcurrentqueue.h`, `concurrentqueue.h`), modelled by what it
promises: `inner_enqueue` gives each thread a sub-queue of its own, so the order per
producer is kept and there is none between producers. Its lock-free inside is not
modelled.

`FrameConservation` counts the set of pairs of a request and one of its spans,
`HeldFrames`, instead of summing the spans of each request: the same number, and
one the library's theorems on cardinality reason about. `MCEngineLoop` only gives
values to the constants.

### ResultQueue

One `ResultQueueImpl` at the grain of its atomic accesses, since no lock guards
it. `store_queue`, `status`, `closed`, `get_user` and `generate_length` are the
members of the class; `wpc` is the loop thread (appending, ending, destroying),
`rpc[r]` the position of reader `r` in `GetWithTimeout` or `GetNoWait`,
`total_elements[r]` its local of that name. `Enter`, `LoopTop`, `Dequeue`,
`Drain`, `StatusTerminal`, `FinalDrain`, `StatusTokens`, `StatusTimeout` and
`StatusSpin` are the steps of `GetWithTimeout` in the order of the code,
`PollTop` and `PollDequeue` those of `GetNoWait`. `received`, `outcome` and
`appended` only record what happened. `generate_length` starts as any member of
`Junk`: the member has no initialiser and the constructor does not set it, so
`GeneratedLength()` is off by whatever its memory held. No control decision reads
it.

The module takes two facts from EngineLoop: all tokens are appended before the
terminal status is set (`TerminalIsFinal`), and an element holds one token
(`OneTokenPerElement`), which matters because readers copy only the first id of
an element. Readers do not start a call after the release; a call in progress
at the release is what the destructor is there for. The status `InternalError`
is tested by the readers and never set by any code, so it does not appear. The
token queue is the vendored `moodycamel::ConcurrentQueue`, with one producer and
so first in, first out.

The destructor waits for the counted readers, but for one second at most, and then
goes on with an error in the log. A reader sleeps for at most half a second between
two looks at `closed_`, but nothing bounds how long the scheduler keeps it from
running, so `DestroyGiveUp` may happen whenever a reader is counted. After it
(`wpc = "late"`) the queue is gone and readers of it take no further step: what they
would do is undefined. `CountedReadersSafe` says that this is the only way the
destructor ends under a counted reader and that the message it logs is then true;
`GetReturns` excuses the readers it leaves behind.

### FrameManager and FramePool

`ConcurrentCacheFrameManager` keeps the free frames in a `moodycamel` queue and
their number in an atomic counter. Threads (the layer pool, the rank thread)
are anywhere between the two: `pc`, `count`, `out_vec` are a thread's position,
its argument and the frames it has dequeued. `AllocFrame` begins a claim;
`TryDequeue` takes a frame, `DequeueDone` and `DequeueShort` end
`try_dequeue_bulk`, `EnqueueBulk` puts a short claim back, `FetchSub` and
`FetchAdd` are the counter's steps; `FreeFrame` and `CreateFrame`/`CountTotal`
are release and growth. The queue promises little to a dequeue that runs beside
an enqueue: it may overlook what was queued since it began. `late[t]` is that
set, and a claim may come back short whenever nothing else is left.

`FramePool` is the promise: a claim is granted whole, atomically, from frames
nobody uses, or refused. `FrameManager` implements it with the frames in a
claim's hands counted as not yet granted.

### PrefixCache

`PrefixCacheManager` of one rank with every place of `AsModel` that calls it. The
record `mgr` is the manager with its GPU and CPU unions and their memory; its
fields are listed at `EmptyManager`. `req` holds what a `GenerateContext` has: its
tokens, its virtual cache (`cache`, a sequence of blocks) and
`prefix_cache_node_list` (`nodes`). The rank thread runs a handler to its end, so
a handler is one action; helpers keep the names of the code and map a manager to
a manager. The only concurrency is `CopyTask`, a thread of the pool that fills a
swapped-out node and makes it ready.

* A block is the k and v span of all layers (2 * layers frames), a CPU unit
  layers frames; a CPU node takes two units, k first. `CpuRest` says whether the
  CPU tier has frames left over that make no unit: with them `CountFreeFrame() <= 0`
  is false in a full tier, and `alloc_cpu_node` evicts instead of giving up.
* A loop over the prefixes of one prompt that treats each alike is one update of
  a set of prefixes. The loop that allocates CPU nodes is a recursive function
  (`SwapStep`), since each turn sees what the one before took and evicted.
* A hash is the token prefix itself, so collisions are outside the model; the KV
  of a block is the prefix it was computed from, which is what lets
  `RequestReadsItsKv` be stated.
* A prefill may fail with a status that `StartRequest` drops (see EngineLoop).
  `Insert` then files the spans it claimed under their prefixes although they were
  not computed: `StartRequest` with `computed = FALSE`, whose spans hold `Junk`, and
  `ignored` has the request's `start_ts`. Later requests hit them. `RequestReadsItsKv`
  and `NodesHoldTheirPrefix` are therefore stated as long as `ignored` is empty; the
  other properties (memory, references, order, claims, eviction) hold with such
  failures as well. A batch with such a request is not decoded: the engine aborts. A
  prefill that fails before it has claimed its spans is not a step here: `Insert` then
  indexes past the end of the span vector (`prefix_cache_manager.cpp:112-133`), and
  where there is nothing to insert the next decode aborts, or, in the case
  EngineLoop calls blank, runs a request without its prompt. `StopRequest` of a failed
  request may happen at any time, which allows more than the engine: there only
  the eviction of a victim stops it before the abort.
* Time to live is the argument `expired`, any timestamp up to now. The clock is
  `start_ts` of the youngest request and starts again at `Reset`, where no
  timestamp is left.
* `seq_len_thre_` is 0 and `prefix_cache_ratio_` 1, their initial values: the call of
  `TunePrefixCache` that would change them is commented out
  (`as_engine.cpp:382`). Then a
  table is never full when a node is inserted (`NothingImpossible`), and the
  branches for a full table are left out.
* `UnRef` compares a node with the table's entry of the same hash; a referred node
  is never replaced (`ReferredStays`), so the test is always true.
* `wait_for_async_tasks` counts queued and running tasks; it is the guard of
  `Reset`.
* A chunked prefill is not in this module: the tensor `Insert` hashes is then
  longer than the chunk's cache and the code reads past a vector (see the hazard).

### RankWorkers and Rendezvous

`ThreadPoolWithID` with a queue and a thread per rank, the fan-out and join that
every engine call consists of, and `PrefixCacheCoordinator`. `pc[r]` is a
worker's position, `engine` the engine thread's. A task is a kind and the number
of `Insert`s it makes; all else a task does is local to the rank and one step.
All ranks run the same program on the same requests, so a task makes the same
number of Inserts on each. `AllocDecoderMemory` may fail on any rank, and
`RunTextGenerationContinue` then returns without waiting for the ranks behind it;
`EngineJoinFailed` is that return, after which slower ranks still run. `entered`,
`passed` and `round` only record calls of the barrier.

`Rendezvous` is the promise of a barrier: nobody leaves round n before all have
come to it.

## 4. Runs

| Run | Instance | Shows |
|---|---|---|
| `engine_safety` | 2 requests, own client each, 1 StopModel caller, all calls, 1 LoRA, ContextPriority, evict longest | frame accounting, victim, exact count, one place, stop, release, sync meaning, terminal statuses; the inductive invariant |
| `engine_delivery` | 3 requests, one with `max_length` below its prompt, Balance, random eviction, no StopRequest | every token delivered, none invented, one per queue element, but for a request whose prefill failed unnoticed; LoRA stays loaded |
| `engine_live` | 1 client, no StopRequest, 1 StopModel caller | until the loop has ended or aborted every call returns and every request ends; StopModel returns once the client pauses |
| `queue_readers` | 2 readers, all three calls, up to 3 tokens | each token read once and in order; the end means nothing is left; the destructor leaves a spinning reader behind only after its second; a blocked Get returns |
| `frame_claims` | 3 threads, 3 frames, claims of up to 3 | a frame is in one place; the counter accounts for every unfinished call; the manager implements `FramePool`; a claim fails only when frames are scarce or only just queued |
| `prefix_cache` | 2 requests at a time, 4 in all, 3 prompts (two share a first span, one is disjoint), 5 GPU blocks, 2 CPU nodes, no CPU frames left over | until a prefill fails unnoticed, a ready node holds the KV of its prefix and a request reads the KV of its own tokens; with such failures too, GPU blocks and CPU memory conserved; references counted; no node without the shorter prefixes; no claim fails that was tested for; referred nodes stay |
| `rank_workers` | 3 ranks, 3 calls, at most 1 Insert a task | the barrier implements `Rendezvous`; calls return, so no rank stays in the barrier; rank 0 is at rest between calls; the pool ends |

Bounds: prompts of 4 and 2 tokens with `MaxPrefill = 2` make `r1` chunked and
`r2` not; `MaxLength = 7`, `SpanSize = 2` and 5 spans (4 in `engine_delivery`)
let both requests be admitted and outgrow the cache together, so eviction,
refusal for lack of frames and normal completion all happen; `MaxBatch = 2`
fills the batch; one fault suffices since the code keeps no count of failures.
The third request of `engine_delivery` has a prompt of 2 and a `max_length` of 1,
so its prefill is refused and ignored besides the one fault. `engine_live` has
`MaxLength = 6` and 4 spans, smaller sizes at which requests are still chunked,
evicted, refused and finished.
Two clients and one StopModel caller are enough for every pair of shared
accesses to interleave. Every action fires in `engine_safety`, or in another
passing run.

In `ResultQueue` two readers and three tokens let one reader drain, time out or
end between any two steps of the other; a third would only repeat the second.

In `FrameManager` a claim of 3 beside two others makes both short claims and
put-backs overlap; three threads are the fewest with which a put-back is overlooked
by one and taken by another.

In `PrefixCache` 5 blocks hold two requests of up to 4 spans only if they share
or something is evicted, so denial, eviction, swap-out, swap-in, a shortage in the
decoder and reuse all happen, and 4 starts leave room for three generations of a
prefix. `MaxFaulty = 3`: a run in which a prefill fails unnoticed has three starts, which
is what it takes to fail, to hit the junk and to evict it. The CPU tier holds two nodes. No prompt of this run is a whole number of
spans: with one, `RequestReadsItsKv` fails (`prefix_whole_spans`). The CPU tier has
no frames left over, and so never evicts: with them `RequestReadsItsKv` fails
(`prefix_late_copy`). The properties that are not about data are proved for a CPU
tier that evicts too (section 5).

In `RankWorkers` three ranks are the fewest with one that is neither first nor
last at the barrier. One Insert a task is the case in which the barrier works: the
join of the futures separates two rounds. With two it fails (`rank_barrier`).

`CHECK_DEADLOCK FALSE`: the loop may sleep in `wait_dequeue` with all clients
done, and ends after StopModel; requests of `PrefixCache` and calls of
`RankWorkers` are bounded, and a destroyed pool does nothing.

Fairness (`LiveSpec`): weak fairness of the loop thread, and of a caller that is
inside a call and can go on. The operating system's scheduler justifies both.
Nothing obliges a client to start a call, a prefill or an enqueue to fail, or a
generation to end early; that requests end follows from `max_length`. Liveness is
checked with one client thread: with two, the queue gives no guarantee between
producers and one client that never pauses could starve the other. For the same
reason `StopModelReturns` is stated for clients that pause for good at some point.
In `ResultQueue` a reader inside a call goes on, and the loop finishes an append and
ends the request; the latter is EngineLoop's `RequestEnds`. In `RankWorkers` every
worker and the engine thread inside a call go on; a spurious wake-up, a call and
the destruction of the pool need not happen.

### Disagreements found

Each of these runs is expected to be violated; `PROJECT.json` quotes the line of
documentation or comment it contradicts.

| Run | Property | What happens |
|---|---|---|
| `engine_stop_pending` | `NoRandomValues` | StopRequest on a queued request makes UpdateResult hand out an output tensor that nobody wrote; a prefill that fails with a status leads there too |
| `engine_start_stop_race` | `AcceptedIsServed` | a StartRequest between StopModel's test and message is accepted and dropped |
| `prefix_whole_spans` | `RequestReadsItsKv` | a request whose prompt is k whole spans never inserts prefix k; a later prompt hits GPU, CPU, GPU and gets its spans in the wrong order |
| `prefix_late_copy` | `RequestReadsItsKv` | a CPU node is evicted before its copy task has run; the late task overwrites the node that got its memory, which a request then reads |
| `rank_barrier` | `AllProceed` | two Inserts in one task: a rank re-enters the barrier before another has left it, and both wait for ever |

Other properties hold only on the instances of their runs. They fail when an
instance is widened, for these reasons:

* `ApiCallReturns`: with StopRequest, SyncRequest on a request stopped while queued
  never returns, since its `finish` is never set.
* `StopModelReturns`: with two StopModel callers both may pass the test of
  `model_stopping`; the loop keeps one message and answers one.
* `LoraStaysLoaded`: with StopRequest, a request stopped while queued gives a
  usage back on every turn, also those of others.
* `ReleasedIsGone`: when another thread than the one that started a request
  releases it, the Release may overtake the Start.
* `NodesHoldTheirPrefix`: with frames left over in the CPU tier, for the reason of
  `prefix_late_copy`.
* `NoOrphans`: with a prompt of k whole spans, whose prefix k is never inserted.
* A reader's last drain is not covered by `CountedReadersSafe`: it has counted
  itself out, and the destructor may end meanwhile.

## 5. Proofs

`EngineLoopProofs` proves `TypeCorrect` and `EngineInvariant`
(`Spec => []EngineInv`), and from it

* `NoFrameOverdraw`: the admission test and the decoder's test cover every claim;
* `VictimAlwaysExists`: out of frames, there is a request to evict. It also
  shows that the loop's "No Generating request!" branch is never taken with a
  request in the batch;
* `UnfinishedCountExact`: the stop test reads an exact count;
* `RequestInOnePlace`, `StopLeavesNothing`;
* `ClosedStaysClosed`: `Spec => TerminalIsFinal`, an action property;
* `FramesBalance`: free frames and those of the requests always add up to the
  cache (`FrameConservation`, with `FramesInv` for the finiteness the cardinality
  theorems ask for).

They hold for every set of requests, threads and LoRAs and all sizes that
satisfy `EngineAssumption` (finite `Requests`, positive span and prompt lengths,
prompts and `max_length` within `engine_max_length_`; nothing relates a prompt to
its own `max_length`), and with prefills that fail with an ignored status at any place.

None of these is inductive alone. `EngineInv` adds: `StartOnce` (one Start
message per request, and the loop knows nothing of the request before it),
`Life` (what status, finish flag and result queue a queued and a running request
have), `Phase` (between a prefill and the UpdateResult after it, and only there,
a running request may lack a Generating queue; and a context that cannot be decoded,
left by an ignored failure, is gone before the turn ends, as a victim or with the
process), `Count` (from the decoder's
refresh to the end of the turn the counter is exact) and `Answered`. `VictimExists`
needs `Phase`, which needs `Life`, which needs `StartOnce`: were a request
started twice, its second life would begin with a closed result queue.
`UnfinishedExact` fails in the middle of a turn (a failed prefill leaves the
counter low), hence the restriction to phases. TLC checks `EngineInv` too.

`EngineCallProofs` proves what the replies mean. `CallInvariant` (`CallInv`) ties
a call in progress to its message, to the set of waiting syncs and to its promise:
a promise is set only for the call that waits for it. `SyncMeansDone` is
`Spec => SyncReplyMeansDone`. `ReleasedStaysGone` (`ReleasedIsGone`, with
`ReleaseInv`: once a Release is answered no message of the request is left) has
the hypothesis `SingleUser`: each request is used by the thread that starts it,
since the message queue keeps an order only per producer. The instances with
`OwnClient` satisfy it.

`EngineDeliveryProofs` proves `DeliveryInvariant` (`DeliveryInv` and `UsageInv`):
at most the token of this turn is not handed out yet, and only while UpdateResult
has the request still to visit; `loras_in_use_` counts at least the requests that
hold a LoRA. The first part is about requests whose prefill did not fail unnoticed,
and it is inductive for each of them whatever the others do, since no step of one
request writes the tokens of another. From it follow `EveryTokenDelivered` (`TokensDelivered`),
`OneTokenAtATime` (`OneTokenPerElement`) and `LoraNeverTakenAway`
(`LoraStaysLoaded`). The hypothesis `NoStopCalls` is needed, since StopRequest on a
queued request leaves it finished without its flag (`engine_stop_pending` is the
counterexample); `EngineDelivery.cfg` satisfies it.

`ResultQueueProofs` proves `QueueInvariant` (`Spec => [](TypeOK /\ QueueInv)`)
for any finite set of readers and any number of tokens, and from it
`EndLeavesNothing` (`EndMeansAll`) and `SpinningReadersSafe`
(`CountedReadersSafe`, the destructor's giving up included). `QueueInv` adds to these that `get_user` is the
cardinality of the set of spinning readers (a step in or out changes it by one:
lemmas `UserEnters`, `UserLeaves`, `UserStays`), that only an open request is
appended to and that a reader in its last drain has seen a terminal status. The
last two make the end stable: once a reader reports it, no token can follow.
`UsersExact` is the first part on its own. `TokensReadOnce` (`ReadOnce`) adds the
tokens: what the readers have received and what is queued are together the tokens
appended, none twice, and each reader's are in order.

`FrameManagerProofs` proves, for any finite sets of frames and threads,
`FrameInvariant` (`FrameInv`), its parts `FrameTypes` and `FramesConserved`, and
`ManagerImplementsPool`. `FrameInOnePlace` alone is not inductive: `HeldByClaims`
adds that only a thread inside a claim holds frames, no more than it asked for, and
all of them when it is about to count. With it every step of the manager is a step
of the pool or none: `FetchSub` grants, `EnqueueBulk` refuses. `CounterExact`
(`CounterAccounts`) shows that the counter differs from the free list by exactly what
the calls in progress hold, and `ShortMeansScarce` (`ShortOnlyWhenScarce`) that a
claim that comes back short met fewer frames than it asked for, those only just
queued aside.

`PrefixCacheProofs` proves the prefix cache in two layers, for every number of
blocks, units, requests and every set of prompts.

The first layer holds for all prompts until a fault (an allocation that fails
though it was tested for; `~NothingImpossible`). `CoreInvariant` (`CoreInv`) is
about ownership. On the GPU: a node of the table and a live request each own the
blocks they name; a block is named by at most one node; two requests, or a request
and a node, share a block only through a node both refer to; a node's count is the
number of requests that list it; a block in nobody's hands is free. On the CPU: the
units of a node are its own or, with one of the two missing, kept aside; the rest
are free. `BlocksStayConserved` and `RefsStayCounted` follow. The proof is one
lemma per helper of the code (what `Insert`, `RefOnly`, `RefFill`, `UnRef`,
`EvictUnrefered` and the swap keep), then one step per action. Two arguments carry
it: nothing a helper takes was in somebody's hands, and what it gives back nobody
else names.

The second layer shows that there is no fault, and needs an order. With a prefix,
the table holds all shorter prefixes, and none of them is older; no node of a
request is older than the request. Eviction takes the oldest first and of
equally old ones the longest, so what it evicts is closed under extension and what
stays is closed under prefixes; the hits the admission test counted are still there
when `RefFill` asks for them, and the frames it tested for suffice for the rest.
`SafeInvariant` (`SafeInv`, that is `CoreInv`, `NothingImpossible` and `Ordered`)
yields `NoFault`, `OrphansNever` (`NoOrphans`), `CacheTypes` (`TypeOK`),
`BlocksBalance` (`BlocksConserved`), `RefsBalance` (`RefsCounted`) and
`ReferredNeverEvicted` (`ReferredStays`, an action property). Their hypothesis
`NoWholeSpans`, that no prompt is a whole number of spans, is satisfied by the
instances of the passing runs and is needed: prefix k of a prompt of k spans is
never inserted, and the order fails with it.

`PrefixDataProofs` adds the data. `DataInvariant` (`DataInv`) is `SafeInv` and, as
long as no prefill has failed with a dropped status: the block of a node and the units
of a ready CPU node hold the KV of its prefix; a copy task is for a node that is still
in the CPU table and has the units of that node; span j of a live request holds the KV
of the request's first tokens.
From it follow `HitsHoldTheirPrefix` (`NodesHoldTheirPrefix`) and
`RequestsReadTheirKv` (`RequestReadsItsKv`), for every number of blocks, units and
requests and every span size. The argument:

* What is claimed was free, so no write of a prefill or a swap-in hits a block of
  somebody else. What is freed and wiped nobody else names. Both rest on `CoreInv`.
* The hits of `RefFill` are a run of prefixes, by `NoOrphans` the GPU hits come
  before the CPU hits, and so hit j is put at place j of the virtual cache. A CPU
  hit is ready when it is swapped in (`RefFillReady`).
* `Insert` gives a node a block that is full: the prefixes it inserts end before
  the last token, and the KV of all tokens but the last is there.
* The decoder writes the last span of each request. That span lies behind the
  prompt's whole spans, so it is no node's, and so no other request has it; the
  spans before it are full and stay as they are.

The hypotheses are `NoWholeSpans` and, about the run, `[]CopiesInTime`: no copy task
outlives its node. It is what `prefix_late_copy` violates, and it can be violated
only by a CPU tier that evicts. `max_frame_num` is not rounded to whole nodes
(`prefix_cache_manager_private.cpp:72-73`), so an ordinary tier has frames left over
and does evict; for it the theorems say that late copies are the only way to wrong
data. `ExactTierIsRight` drops the hypothesis on the run where `NoCpuRest` holds:
without a CPU tier (`CPU_CACHE_RATIO` is 0.0 by default, line 26 of the same file) or
with one whose memory is exactly its capacity. A full tier then has no free unit and
`alloc_cpu_node` refuses instead of evicting, so that no task is ever late. The
instance of `prefix_cache` satisfies `NoWholeSpans` and `NoCpuRest`; without the first
`prefix_whole_spans`, without the second `prefix_late_copy` is a counterexample.

`RankWorkersProofs` proves `RankInvariant` (`RankInv`) for any number of ranks and
of Inserts per task, and from it `RankTypes`, `CoordinatorCounts` (`BarrierInv`),
`RankZeroRests` (`WorkerZeroQuiet`) and `CoordinatorImplementsRendezvous`. `RankInv`
adds to the first three that a waiting rank is inside a task with an Insert to
make (`WaitersInsert`) and, for rank 0, at most one task is outstanding, and none
once its future is set (`ZeroInv`): the early return happens only after rank 0's
future. The refinement rests on `BarrierInv`: when a rank passes, the count is 0,
so every rank has entered the round it leaves. The barrier is thus safe for every
number of Inserts; what fails with two is that it lets everybody go.

## 6. Only model-checked

* Liveness (`ApiCallReturns`, `RequestEnds`, `StopModelReturns`, `GetReturns`,
  `EngineReturns`, `PoolEnds`), which is beyond the prover.

Every invariant and action property of the passing runs has a theorem, under the
hypotheses section 5 names.

Where a proof needs an induction over the prefixes of a prompt or the steps of the
allocation loop, it takes the least number at which the claim fails; the library's
induction theorems, which take a predicate as parameter, are not used.

## 7. Mutants

Each property of a passing run has a mutant: an operator marked "Mutant of" next
to the definition it replaces, changed the way a slip in the code would, under
which TLC reports the property violated.

## 8. Not modelled

* Chunked prefill together with the prefix cache, hash collisions, a rank that
  fails alone inside a task, and ranks whose clocks expire different nodes; each is
  a hazard of `PROJECT.json` with the reason.
* The order of the CPU tier's `std::set` after `update_node_ts` changed a key in
  place: the model uses the current timestamps.
  Evictions from that tier take the model's oldest node, where the code's set may
  yield another one or throw; thrown during an admission, between RefOnly and UnRef,
  the exception would also leak references.
* The abort() after a decoder error of a batch in which no prefill failed, and after
  a reader found the GPU idle for long: nothing follows them. The one after an ignored
  prefill error is `DecodeAbort`.
* Of prefills that fail with a status: the failure of the operators' Reshape after the
  prefill (`model_request.cpp:154-160`); a chunk that fails between the pre_graph and
  the claim of its spans, whose context the decoder could run; and, with the prefix
  cache, a failure before the spans are claimed. After a chunk's failure the model
  goes to the abort at once, without the victims that might still be evicted.
* Start-up, warm-up and weights: sequential, before the first request.
* The worker coordinator: compiled out (`DISABLE_COODINATOR`).
* Statistics, profiling, kernels, the device allocator, language bindings, the
  RPC service, vendored code.
* Calls made after the loop has ended are never answered (`RequestCall` after
  `LoopEnd` shows it); requests that end interrupted keep their LoRA usage. Both
  are listed as hazards.
