----------------------------- MODULE EngineLoop -----------------------------
(***************************************************************************)
(* The request engine of one model: the client API of AsEngineImpl, the    *)
(* control-message queue, the ModelRunningThread event loop and the        *)
(* request scheduling of AsModel that the loop drives (pending queue,      *)
(* running batch, KV-cache frames, request statuses, result queues, LoRA   *)
(* usage counting).                                                        *)
(*                                                                         *)
(* The build modelled is ENABLE_CUDA with span attention and one rank:     *)
(* every rank runs the same steps and the loop waits for all of them       *)
(* (RankWorkers).  The prefix cache is abstracted away: spans that only it *)
(* holds count as free, since admission and AllocDecoderMemory evict them  *)
(* before they test, and no span is shared (PrefixCache models both).      *)
(*                                                                         *)
(* Threads interleave at the points where they share state: the message    *)
(* queue, model_stopping, the promises, the LoRA usage counters and the    *)
(* status of a result queue.  All other state is private to the loop, so   *)
(* one phase of the loop is one action.                                    *)
(***************************************************************************)
EXTENDS Integers, Sequences, FiniteSets

CONSTANTS
  Requests,        \* request uuids, each started at most once
  Clients,         \* threads that call the request API
  Stoppers,        \* threads that call StopModel
  UsersOf,         \* UsersOf[r]: the client threads that use request r
  ClientOps,       \* the API calls the clients make
  Loras,           \* LoRA names
  LoraOf,          \* LoraOf[r]: the LoRA of request r, or None
  InputLen,        \* InputLen[r]: number of prompt tokens
  MaxLength,       \* MaxLength[r]: gen_cfg.max_length
  ModelMaxLength,  \* engine_max_length_
  MaxBatch,        \* GetModelMaxBatch()
  MaxPrefill,      \* GetModelMaxPrefillLength()
  MinGenLength,    \* min_gen_length of GenerateContinueContext (10 in the code)
  SpanSize,        \* tokens per cache span
  TotalSpans,      \* capacity of the cache, in groups of 2 * layers frames
  ContextPriority, \* TRUE: ContextPriority scheduling, FALSE: Balance
  EvictMaxLength,  \* TRUE: MaxLength eviction strategy, FALSE: Random
  MaxFaults,       \* bound on failed prefills and failed enqueues
  StatusFaults,    \* TRUE: any prefill may also fail with a returned status
  None             \* absent value

ASSUME EngineAssumption ==
  /\ IsFiniteSet(Requests)
  /\ None \notin Requests \cup Clients \cup Stoppers \cup Loras
  /\ None # "SUCCESS"
  /\ Clients \cap Stoppers = {}
  /\ UsersOf \in [Requests -> SUBSET Clients]
  /\ ClientOps \subseteq {"Stop", "Release", "Sync", "SyncAll", "Load", "Unload"}
  /\ LoraOf \in [Requests -> Loras \cup {None}]
  /\ SpanSize \in Nat \ {0}
  /\ InputLen \in [Requests -> Nat \ {0}]
  /\ MaxLength \in [Requests -> Nat \ {0}]
  /\ ModelMaxLength \in Nat
  /\ \A r \in Requests : InputLen[r] <= ModelMaxLength - 2 /\ MaxLength[r] <= ModelMaxLength
  /\ MaxBatch \in Nat \ {0} /\ MaxPrefill \in Nat \ {0}
  /\ MinGenLength \in Nat
  /\ TotalSpans \in Nat /\ MaxFaults \in Nat
  /\ ContextPriority \in BOOLEAN /\ EvictMaxLength \in BOOLEAN /\ StatusFaults \in BOOLEAN

VARIABLES
  \* -- request API: the lora_lock_ holder and its call
  lock,            \* thread holding lora_lock_, or None
  call,            \* the holder's call: [op, req, pc]
  reply,           \* value of the holder's promise, or None
  handle,          \* handle[r]: the client's view of its RequestHandle
  \* -- StopModel callers
  stop_pc, stop_reply,
  \* -- ModelControlState
  msg_queue,       \* one FIFO stream per producer thread
  model_stopping, model_stopped, handle_map,
  \* -- locals of ModelRunningThread
  lp,              \* the phase the loop is in
  next_phase,      \* the phase that follows UpdateResult
  todo,            \* handles UpdateResult has still to visit
  no_execution, graceful_stop_phase, graceful_stop_msg,
  synchronizing, sync_pending_set,
  \* -- AsModel
  pending,         \* pending_request_queue_
  running,         \* requests with a GenerateContext in gen_ctx_list
  finished_ctx,    \* those whose gen_ctx->finish is set, still to be stopped
  all_request_map, \* requests GetRequestById finds
  status, finish,  \* fields of Request
  prefill_chunk_len,
  seq_len,         \* tokens in the virtual KV cache of a running request
  generated,       \* tokens the model really generated
  out_len,         \* tokens beyond the prompt in generated_ids_global's shape
  ignored,         \* a prefill whose error status was dropped: "no", "stuck" if its
                   \* context cannot be decoded, "blank" if it can
  free_frames,     \* CountFreeFrame(), in groups of 2 * layers
  unfinished,      \* current_unfinished_request_
  already_context_length,
  faults,
  \* -- RequestHandle and ResultQueueImpl
  continued,       \* continue_count > 0
  generate_length, \* tokens appended to the result queue
  queue_status,
  \* -- LoRA
  loras,           \* loaded LoRAs
  loras_in_use,    \* multiset, as a count per name
  lora_use_count

apiVars   == <<lock, call, reply, handle>>
stopVars  == <<stop_pc, stop_reply>>
localVars == <<no_execution, graceful_stop_phase, graceful_stop_msg>>
syncVars  == <<synchronizing, sync_pending_set>>
batchVars == <<pending, running, status, finish, seq_len, free_frames, unfinished>>
tokenVars == <<prefill_chunk_len, generated, out_len, ignored>>
outVars   == <<continued, generate_length, queue_status>>
loraVars  == <<loras, loras_in_use, lora_use_count>>
vars == <<apiVars, stopVars, msg_queue, model_stopping, model_stopped,
          handle_map, lp, next_phase, todo, localVars, syncVars, batchVars,
          finished_ctx, all_request_map, tokenVars, already_context_length,
          faults, outVars, loraVars>>

Threads == Clients \cup Stoppers
NoCall  == [op |-> "none", req |-> None, pc |-> "idle"]
Message == [op : {"Start", "Stop", "Release", "Sync"}, req : Requests]
             \cup [op : {"SyncAll", "GracefulStop"}, req : {None}]
Call == [op : {"Start", "Stop", "Release", "Sync"}, req : Requests, pc : {"enqueue", "wait"}]
          \cup [op : {"none", "SyncAll"}, req : {None}, pc : {"idle", "wait"}]
Status  == {"Init", "ContextFinished", "Generating",
            "GenerateFinished", "GenerateInterrupted"}
Terminal == {"GenerateFinished", "GenerateInterrupted"}
InSeq(s, x) == \E i \in 1..Len(s) : s[i] = x
NoDup(s) == \A i, j \in 1..Len(s) : s[i] = s[j] => i = j

\* Spans a CacheArray holds for n tokens: updateSeqLength rounds up.
Spans(n) == (n + SpanSize - 1) \div SpanSize

\* Frames GenerateContinueContext asks for before it admits a request.
ContextFrames(r) ==
  LET len == IF InputLen[r] + MinGenLength < ModelMaxLength
             THEN InputLen[r] + MinGenLength ELSE ModelMaxLength
  IN  len \div SpanSize + 1

\* pending_request_queue_ without request r (StopPendingRequest).
Without(q, r) ==
  LET k == CHOOSE i \in 1..Len(q) : q[i] = r
  IN  [i \in 1..(Len(q) - 1) |-> IF i < k THEN q[i] ELSE q[i + 1]]

Send(t, m) == msg_queue' = [msg_queue EXCEPT ![t] = Append(@, m)]
QueueEmpty == \A t \in Threads : msg_queue[t] = <<>>

Init ==
  /\ lock = None /\ call = NoCall /\ reply = None
  /\ handle = [r \in Requests |-> "none"]
  /\ stop_pc = [s \in Stoppers |-> "idle"]
  /\ stop_reply = [s \in Stoppers |-> None]
  /\ msg_queue = [t \in Threads |-> <<>>]
  /\ model_stopping = FALSE /\ model_stopped = FALSE /\ handle_map = {}
  /\ lp = "message" /\ next_phase = "decode" /\ todo = {}
  /\ no_execution = FALSE
  /\ graceful_stop_phase = FALSE /\ graceful_stop_msg = None
  /\ synchronizing = FALSE /\ sync_pending_set = {}
  /\ pending = <<>> /\ running = {} /\ finished_ctx = {}
  /\ all_request_map = {}
  /\ status = [r \in Requests |-> "Init"]
  /\ finish = [r \in Requests |-> FALSE]
  /\ prefill_chunk_len = [r \in Requests |-> 0]
  /\ seq_len = [r \in Requests |-> 0]
  /\ generated = [r \in Requests |-> 0]
  /\ ignored = [r \in Requests |-> "no"]
  /\ out_len = [r \in Requests |-> ModelMaxLength - InputLen[r]]
  /\ free_frames = TotalSpans /\ unfinished = 0
  /\ already_context_length = 0 /\ faults = 0
  /\ continued = [r \in Requests |-> FALSE]
  /\ generate_length = [r \in Requests |-> 0]
  /\ queue_status = [r \in Requests |-> "Init"]
  /\ loras = Loras
  /\ loras_in_use = [l \in Loras |-> 0] /\ lora_use_count = 0

-----------------------------------------------------------------------------
(* The client API.  Start, Stop, Release, Sync, LoadLora and UnloadLora    *)
(* hold lora_lock_ from their first line to their return, the wait for the *)
(* promise included: one call is in progress at a time.                    *)

apiFrame == <<stopVars, model_stopping, model_stopped, handle_map, lp,
              next_phase, todo, localVars, syncVars, batchVars, finished_ctx,
              all_request_map, tokenVars, already_context_length, outVars>>

\* lora_use_count_++ and loras_in_use_.insert, for a request that names a LoRA.
TakeLora(r) ==
  /\ loras' = loras
  /\ IF LoraOf[r] = None
     THEN UNCHANGED <<loras_in_use, lora_use_count>>
     ELSE /\ loras_in_use' = [loras_in_use EXCEPT ![LoraOf[r]] = @ + 1]
          /\ lora_use_count' = lora_use_count + 1

LoraMissing(r) == LoraOf[r] # None /\ LoraOf[r] \notin loras

\* StartRequest up to the model_stopping test.
StartRequest(c, r) ==
  /\ lock = None /\ c \in UsersOf[r] /\ handle[r] = "none"
  /\ ~LoraMissing(r)
  /\ ~model_stopping
  /\ TakeLora(r)
  /\ lock' = c
  /\ call' = [op |-> "Start", req |-> r, pc |-> "enqueue"]
  /\ UNCHANGED <<reply, handle, msg_queue, faults, apiFrame>>

\* StartRequest returns ALLSPARK_LORA_NOT_FOUND, or finds the model stopping
\* after it has counted the LoRA and returns ALLSPARK_REQUEST_DENIED.
StartRequestRefused(c, r) ==
  /\ lock = None /\ c \in UsersOf[r] /\ handle[r] = "none"
  /\ \/ LoraMissing(r) /\ UNCHANGED loraVars
     \/ ~LoraMissing(r) /\ model_stopping /\ TakeLora(r)
  /\ handle' = [handle EXCEPT ![r] = "refused"]
  /\ UNCHANGED <<lock, call, reply, msg_queue, faults, apiFrame>>

\* The rest of StartRequest: enqueue and return without waiting for a reply.
StartRequestEnqueue(c) ==
  /\ lock = c /\ call.pc = "enqueue"
  /\ Send(c, [op |-> "Start", req |-> call.req])
  /\ handle' = [handle EXCEPT ![call.req] = "valid"]
  /\ lock' = None /\ call' = NoCall
  /\ UNCHANGED <<reply, loraVars, faults, apiFrame>>

\* enqueue returns false (it could not allocate a block): the LoRA usage is
\* taken back.
StartRequestRollback(c) ==
  /\ lock = c /\ call.pc = "enqueue" /\ faults < MaxFaults
  /\ faults' = faults + 1
  /\ LET l == LoraOf[call.req]
     IN  IF l # None /\ loras_in_use[l] > 0
         THEN /\ loras_in_use' = [loras_in_use EXCEPT ![l] = @ - 1]
              /\ lora_use_count' = lora_use_count - 1
         ELSE UNCHANGED <<loras_in_use, lora_use_count>>
  /\ handle' = [handle EXCEPT ![call.req] = "refused"]
  /\ lock' = None /\ call' = NoCall
  /\ UNCHANGED <<reply, msg_queue, loras, apiFrame>>

\* StopRequest, ReleaseRequest and SyncRequest: enqueue, then wait for the reply.
\* (When enqueue returns false they return an error and change nothing.)
RequestCall(c, op, r) ==
  /\ lock = None /\ op \in ClientOps
  /\ IF op = "SyncAll" THEN r = None
     ELSE r \in Requests /\ c \in UsersOf[r] /\ handle[r] = "valid"
  /\ Send(c, [op |-> op, req |-> r])
  /\ lock' = c
  /\ call' = [op |-> op, req |-> r, pc |-> "wait"]
  /\ handle' = IF op = "Release" THEN [handle EXCEPT ![r] = "released"] ELSE handle
  /\ UNCHANGED <<reply, loraVars, faults, apiFrame>>

RequestReturn(c) ==
  /\ lock = c /\ call.pc = "wait" /\ reply # None
  /\ lock' = None /\ call' = NoCall /\ reply' = None
  /\ UNCHANGED <<handle, msg_queue, loraVars, faults, apiFrame>>

LoadLoraByName(l) ==
  /\ "Load" \in ClientOps /\ lock = None /\ l \notin loras
  /\ loras_in_use[l] = 0 /\ ~model_stopping
  /\ loras' = loras \cup {l}
  /\ UNCHANGED <<apiVars, msg_queue, loras_in_use, lora_use_count, faults, apiFrame>>
\* Mutant of UnloadLoraByName: loras_in_use_ is not tested.
UnloadLoraInUse(l) ==
  /\ "Unload" \in ClientOps /\ lock = None /\ l \in loras /\ ~model_stopping
  /\ loras' = loras \ {l}
  /\ UNCHANGED <<apiVars, msg_queue, loras_in_use, lora_use_count, faults, apiFrame>>

UnloadLoraByName(l) ==
  /\ "Unload" \in ClientOps /\ lock = None /\ l \in loras
  /\ loras_in_use[l] = 0 /\ ~model_stopping
  /\ loras' = loras \ {l}
  /\ UNCHANGED <<apiVars, msg_queue, loras_in_use, lora_use_count, faults, apiFrame>>

-----------------------------------------------------------------------------
(* StopModel takes no lock: it tests model_stopping, sets it, enqueues the *)
(* message and waits; on success it joins the loop thread.                 *)

stopFrame == <<apiVars, model_stopped, handle_map, lp, next_phase, todo,
               localVars, syncVars, batchVars, finished_ctx, all_request_map,
               tokenVars, already_context_length, outVars, loraVars>>

StopModel(s) ==
  /\ stop_pc[s] = "idle"
  /\ stop_pc' = [stop_pc EXCEPT ![s] = IF model_stopping THEN "denied" ELSE "set"]
  /\ UNCHANGED <<stop_reply, msg_queue, model_stopping, faults, stopFrame>>

StopModelSet(s) ==
  /\ stop_pc[s] = "set"
  /\ model_stopping' = TRUE
  /\ stop_pc' = [stop_pc EXCEPT ![s] = "send"]
  /\ UNCHANGED <<stop_reply, msg_queue, faults, stopFrame>>

StopModelSend(s) ==
  /\ stop_pc[s] = "send"
  /\ Send(s, [op |-> "GracefulStop", req |-> None])
  /\ stop_pc' = [stop_pc EXCEPT ![s] = "wait"]
  /\ UNCHANGED <<stop_reply, model_stopping, faults, stopFrame>>

\* enqueue returns false: model_stopping is taken back.
StopModelRollback(s) ==
  /\ stop_pc[s] = "send" /\ faults < MaxFaults
  /\ faults' = faults + 1
  /\ model_stopping' = FALSE
  /\ stop_pc' = [stop_pc EXCEPT ![s] = "failed"]
  /\ UNCHANGED <<stop_reply, msg_queue, stopFrame>>

\* The future is ready; StopLoop joins, which needs the loop to have ended.
StopModelReturn(s) ==
  /\ stop_pc[s] = "wait" /\ stop_reply[s] # None
  /\ stop_reply[s] = "SUCCESS" => lp = "exited"
  /\ stop_pc' = [stop_pc EXCEPT ![s] =
                   IF stop_reply[s] = "SUCCESS" THEN "stopped" ELSE "failed"]
  /\ UNCHANGED <<stop_reply, msg_queue, model_stopping, faults, stopFrame>>

-----------------------------------------------------------------------------
(* AsModel::StopRequest, called by the message handlers, by the choice of  *)
(* a victim and for every finished context.                                *)

StopPendingRequest(r) ==
  /\ InSeq(pending, r)
  /\ pending' = Without(pending, r)
  /\ status' = [status EXCEPT ![r] = "GenerateFinished"]
  /\ UNCHANGED <<running, finish, seq_len, free_frames, unfinished>>
\* Mutant of StopRunningRequest: the last, partly filled span is not freed.
StopRunningRequestLeaks(r) ==
  /\ ~InSeq(pending, r) /\ r \in running
  /\ running' = running \ {r}
  /\ status' = [status EXCEPT ![r] = "GenerateFinished"]
  /\ finish' = [finish EXCEPT ![r] = TRUE]
  /\ free_frames' = free_frames + seq_len[r] \div SpanSize
  /\ seq_len' = [seq_len EXCEPT ![r] = 0]
  /\ unfinished' = unfinished - 1
  /\ UNCHANGED pending

StopRunningRequest(r) ==
  /\ ~InSeq(pending, r) /\ r \in running
  /\ running' = running \ {r}
  /\ status' = [status EXCEPT ![r] = "GenerateFinished"]
  /\ finish' = [finish EXCEPT ![r] = TRUE]
  /\ free_frames' = free_frames + Spans(seq_len[r])
  /\ seq_len' = [seq_len EXCEPT ![r] = 0]
  /\ unfinished' = unfinished - 1
  /\ UNCHANGED pending

StopUnknownRequest(r) ==
  /\ ~InSeq(pending, r) /\ r \notin running
  /\ UNCHANGED batchVars

StopRequest(r) ==
  \/ StopPendingRequest(r)
  \/ StopRunningRequest(r)
  \/ StopUnknownRequest(r)

-----------------------------------------------------------------------------
(* Phase 1 of the loop: one message per step.  The queue keeps the order   *)
(* of one producer's messages, not the order between producers.            *)

Receive(t, op) ==
  /\ lp = "message" /\ ~synchronizing
  /\ msg_queue[t] # <<>> /\ Head(msg_queue[t]).op = op
  /\ msg_queue' = [msg_queue EXCEPT ![t] = Tail(@)]

messageFrame == <<lock, call, handle, stopVars, model_stopped, lp, next_phase,
                  todo, finished_ctx, tokenVars, already_context_length,
                  faults, outVars, loraVars>>

HandleGracefulStop(t) ==
  /\ Receive(t, "GracefulStop")
  /\ graceful_stop_phase' = TRUE /\ graceful_stop_msg' = t
  /\ model_stopping' = TRUE
  /\ UNCHANGED <<reply, handle_map, no_execution, syncVars, batchVars,
                 all_request_map, messageFrame>>

\* StartRequestImpl pushes the request on every rank; nobody waits for a reply.
HandleStart(t) ==
  /\ Receive(t, "Start") /\ ~graceful_stop_phase
  /\ LET r == Head(msg_queue[t]).req
     IN  /\ handle_map' = handle_map \cup {r}
         /\ pending' = Append(pending, r)
         /\ all_request_map' = all_request_map \cup {r}
  /\ UNCHANGED <<reply, model_stopping, localVars, syncVars, running, status,
                 finish, seq_len, free_frames, unfinished, messageFrame>>

HandleStartDenied(t) ==
  /\ Receive(t, "Start") /\ graceful_stop_phase
  /\ no_execution' = TRUE
  /\ UNCHANGED <<reply, model_stopping, handle_map, graceful_stop_phase,
                 graceful_stop_msg, syncVars, batchVars, all_request_map,
                 messageFrame>>

HandleStop(t) ==
  /\ Receive(t, "Stop")
  /\ StopRequest(Head(msg_queue[t]).req)
  /\ reply' = "SUCCESS"
  /\ UNCHANGED <<model_stopping, handle_map, localVars, syncVars,
                 all_request_map, messageFrame>>
\* Mutant of HandleRelease: the handle is kept.
HandleReleaseKeeps(t) ==
  /\ Receive(t, "Release")
  /\ StopRequest(Head(msg_queue[t]).req)
  /\ all_request_map' = all_request_map \ {Head(msg_queue[t]).req}
  /\ reply' = "SUCCESS"
  /\ UNCHANGED <<handle_map, model_stopping, localVars, syncVars, messageFrame>>

\* StopRequestByRequestID, ReleaseRequestByRequestID, then both maps.
HandleRelease(t) ==
  /\ Receive(t, "Release")
  /\ LET r == Head(msg_queue[t]).req
     IN  /\ StopRequest(r)
         /\ all_request_map' = all_request_map \ {r}
         /\ handle_map' = handle_map \ {r}
  /\ reply' = "SUCCESS"
  /\ UNCHANGED <<model_stopping, localVars, syncVars, messageFrame>>

\* The promise is kept as deferred_promise until the set is empty.
HandleSync(t) ==
  /\ \/ /\ Receive(t, "Sync")
        /\ sync_pending_set' = sync_pending_set \cup {Head(msg_queue[t]).req}
     \/ /\ Receive(t, "SyncAll")
        /\ sync_pending_set' = sync_pending_set \cup handle_map
  /\ synchronizing' = TRUE
  /\ UNCHANGED <<reply, model_stopping, handle_map, localVars, batchVars,
                 all_request_map, messageFrame>>
\* Mutant of Suspends: a stopping model suspends too.
SuspendsStopping == unfinished = 0 /\ handle_map = {}

\* The test that sends the loop into wait_dequeue when it is true.
Suspends ==
  /\ ~graceful_stop_phase /\ ~model_stopping
  /\ unfinished = 0 /\ handle_map = {}

loopFrame == <<lock, call, handle, stopVars, msg_queue, model_stopping>>

\* skip_message_process: no message, or the messages wait for a sync.
SkipMessages ==
  /\ lp = "message"
  /\ synchronizing \/ (QueueEmpty /\ ~Suspends)
  /\ lp' = IF no_execution THEN "message" ELSE "context"
  /\ no_execution' = FALSE
  /\ already_context_length' = 0
  /\ UNCHANGED <<reply, loopFrame, model_stopped, handle_map, next_phase, todo,
                 graceful_stop_phase, graceful_stop_msg, syncVars, batchVars,
                 finished_ctx, all_request_map, tokenVars, faults, outVars, loraVars>>

-----------------------------------------------------------------------------
(* Step 2.1: RunEngineContext, one GenerateContinueContext per step.  Only *)
(* the head of pending_request_queue_ is ever considered.                  *)

contextFrame == <<reply, loopFrame, model_stopped, handle_map, localVars,
                  syncVars, finished_ctx, all_request_map, outVars, loraVars>>

CanContext ==
  /\ pending # <<>> /\ Cardinality(running) < MaxBatch
  /\ already_context_length # 0 =>
       already_context_length + InputLen[Head(pending)] <= MaxPrefill

\* The context is allowed and CountFreeFrame() covers it.
Admits(r) ==
  /\ lp = "context" /\ CanContext /\ r = Head(pending)
  /\ ContextFrames(r) <= free_frames

\* PrefillChunkRequest prefills a prefix of the prompt in a throw-away context.
IsChunk(r) == prefill_chunk_len[r] + MaxPrefill + 1 < InputLen[r]

\* Leave RunEngineContext, or the decoder loop, for UpdateResult.
UpdateThen(phase) ==
  /\ lp' = "update" /\ next_phase' = phase /\ todo' = handle_map

ContextNone ==
  /\ lp = "context" /\ ~CanContext
  /\ UpdateThen("decode")
  /\ UNCHANGED <<batchVars, tokenVars, already_context_length, faults, contextFrame>>
\* Mutant of ContextNoFrame: the request is dropped without a status.
ContextNoFrameDrops(r) ==
  /\ lp = "context" /\ CanContext /\ r = Head(pending)
  /\ ContextFrames(r) > free_frames
  /\ pending' = Tail(pending)
  /\ unfinished' = Len(pending) - 1 + Cardinality(running)
  /\ UpdateThen("decode")
  /\ UNCHANGED <<running, status, finish, seq_len, free_frames, tokenVars,
                 already_context_length, faults, contextFrame>>

\* Not enough frames for the head of the queue: it is interrupted, not retried.
ContextNoFrame(r) ==
  /\ lp = "context" /\ CanContext /\ r = Head(pending)
  /\ ContextFrames(r) > free_frames
  /\ pending' = Tail(pending)
  /\ finish' = [finish EXCEPT ![r] = TRUE]
  /\ status' = [status EXCEPT ![r] = "GenerateInterrupted"]
  /\ unfinished' = Len(pending) - 1 + Cardinality(running)
  /\ UpdateThen("decode")
  /\ UNCHANGED <<running, seq_len, free_frames, tokenVars,
                 already_context_length, faults, contextFrame>>

\* ALLSPARK_CHUNK_PREFILL: the request stays at the head of the queue.  The
\* chunk shares generated_ids_global, whose shape it cuts below the prompt.
ContextChunk(r) ==
  /\ Admits(r) /\ IsChunk(r)
  /\ prefill_chunk_len' = [prefill_chunk_len EXCEPT ![r] = @ + MaxPrefill]
  /\ out_len' = IF LoraMissing(r) THEN out_len ELSE [out_len EXCEPT ![r] = 0]
  /\ unfinished' = Len(pending) + Cardinality(running)
  /\ UpdateThen("decode")
  /\ UNCHANGED <<pending, running, status, finish, seq_len, free_frames,
                 generated, ignored, already_context_length, faults, contextFrame>>

\* An operator of a prefill returns an error status.
StatusFault == StatusFaults /\ faults < MaxFaults /\ faults' = faults + 1

\* The chunk's prefill returns an error, which nobody reads: its context stays in
\* gen_ctx_list, where no victim choice finds it, and the next decode aborts.
ContextChunkIgnored(r) ==
  /\ Admits(r) /\ IsChunk(r) /\ ~LoraMissing(r) /\ StatusFault
  /\ prefill_chunk_len' = [prefill_chunk_len EXCEPT ![r] = @ + MaxPrefill]
  /\ unfinished' = Len(pending) + Cardinality(running) + 1
  /\ UpdateThen("aborted")
  /\ UNCHANGED <<pending, running, status, finish, seq_len, free_frames, generated,
                 out_len, ignored, already_context_length, contextFrame>>

\* Mutant of AfterContext: the request is not popped.
AfterContextNoPop(r) ==
  /\ already_context_length' = already_context_length + InputLen[r]
  /\ prefill_chunk_len' = [prefill_chunk_len EXCEPT ![r] = InputLen[r]]
  /\ UpdateThen("decode")
  /\ UNCHANGED <<pending, contextFrame>>

\* Mutant of AfterContext: decoding starts before UpdateResult.
AfterContextNoUpdate(r) ==
  /\ already_context_length' = already_context_length + InputLen[r]
  /\ prefill_chunk_len' = [prefill_chunk_len EXCEPT ![r] = InputLen[r]]
  /\ pending' = Tail(pending)
  /\ lp' = "decode"
  /\ UNCHANGED <<next_phase, todo, contextFrame>>

\* What follows a successful context under the two scheduling strategies.
AfterContext(r) ==
  /\ already_context_length' = already_context_length + InputLen[r]
  /\ prefill_chunk_len' = [prefill_chunk_len EXCEPT ![r] = InputLen[r]]
  /\ pending' = Tail(pending)
  /\ IF ContextPriority THEN UNCHANGED <<lp, next_phase, todo>>
                        ELSE UpdateThen("decode")
  /\ UNCHANGED contextFrame

\* The first token is an end token or fills the request: gen_ctx->finish.
ContextEnds(r, eos) == eos \/ InputLen[r] >= MaxLength[r] - 1

\* The prefill yields the first token and the request joins the batch.
ContextRun(r) ==
  /\ Admits(r) /\ ~IsChunk(r) /\ ~LoraMissing(r) /\ ~ContextEnds(r, FALSE)
  /\ running' = running \cup {r}
  /\ seq_len' = [seq_len EXCEPT ![r] = InputLen[r]]
  /\ free_frames' = free_frames - Spans(InputLen[r])
  /\ status' = [status EXCEPT ![r] = "ContextFinished"]
  /\ generated' = [generated EXCEPT ![r] = 1]
  /\ out_len' = [out_len EXCEPT ![r] = 1]
  /\ unfinished' = Len(pending) + Cardinality(running)
  /\ AfterContext(r)
  /\ UNCHANGED <<finish, ignored, faults>>

\* runDecoderContext returns an error, which StartRequest does not read: the request
\* joins the batch as if it had run, generated_ids_global unwritten.  max_length below
\* the prompt is refused at once; an operator may fail before the pre_graph has
\* run, between it and the claim of the spans, or after the claim.  Only the
\* second leaves a context the decoder can run.
ContextIgnored(r) ==
  /\ Admits(r) /\ ~IsChunk(r) /\ ~LoraMissing(r)
  /\ \/ InputLen[r] > MaxLength[r] /\ UNCHANGED faults
     \/ StatusFault
  /\ \/ /\ ignored' = [ignored EXCEPT ![r] = "stuck"]
        /\ UNCHANGED <<seq_len, free_frames>>
     \/ /\ StatusFault
        /\ ignored' = [ignored EXCEPT ![r] = "blank"]
        /\ UNCHANGED <<seq_len, free_frames>>
     \/ /\ StatusFault
        /\ ignored' = [ignored EXCEPT ![r] = "stuck"]
        /\ seq_len' = [seq_len EXCEPT ![r] = InputLen[r]]
        /\ free_frames' = free_frames - Spans(InputLen[r])
  /\ running' = running \cup {r}
  /\ status' = [status EXCEPT ![r] = "ContextFinished"]
  /\ unfinished' = Len(pending) + Cardinality(running)
  /\ AfterContext(r)
  /\ UNCHANGED <<finish, generated, out_len>>

\* The prefill's token ends the request: StartRequest stops it at once and
\* gives its frames back.
ContextRunFinish(r) ==
  /\ Admits(r) /\ ~IsChunk(r) /\ ~LoraMissing(r)
  /\ \E eos \in BOOLEAN : ContextEnds(r, eos)
  /\ status' = [status EXCEPT ![r] = "GenerateFinished"]
  /\ finish' = [finish EXCEPT ![r] = TRUE]
  /\ generated' = [generated EXCEPT ![r] = 1]
  /\ out_len' = [out_len EXCEPT ![r] = 1]
  /\ unfinished' = Len(pending) - 1 + Cardinality(running)
  /\ AfterContext(r)
  /\ UNCHANGED <<running, seq_len, free_frames, ignored, faults>>

\* AsModel::StartRequest finds the LoRA unloaded: the request ends unrun.
ContextLoraMissing(r) ==
  /\ Admits(r) /\ ~IsChunk(r) /\ LoraMissing(r)
  /\ status' = [status EXCEPT ![r] = "GenerateFinished"]
  /\ finish' = [finish EXCEPT ![r] = TRUE]
  /\ unfinished' = Len(pending) - 1 + Cardinality(running)
  /\ AfterContext(r)
  /\ UNCHANGED <<running, seq_len, free_frames, generated, out_len, ignored, faults>>

\* runDecoderContext throws: the context is stopped and the exception leaves
\* GenerateContinueContext before current_unfinished_request_ is refreshed.
ContextFault(r) ==
  /\ Admits(r) /\ ~LoraMissing(r) /\ faults < MaxFaults
  /\ faults' = faults + 1
  /\ unfinished' = unfinished - 1
  /\ IF IsChunk(r)
     THEN UNCHANGED <<pending, finish, status>>
     ELSE /\ pending' = Tail(pending)
          /\ finish' = [finish EXCEPT ![r] = TRUE]
          /\ status' = [status EXCEPT ![r] = "GenerateInterrupted"]
  /\ UpdateThen("decode")
  /\ UNCHANGED <<running, seq_len, free_frames, tokenVars,
                 already_context_length, contextFrame>>

-----------------------------------------------------------------------------
(* UpdateResult: the handles in the order of an unordered_map, one a step. *)

updateFrame == <<reply, loopFrame, model_stopped, handle_map, localVars,
                 synchronizing, batchVars, finished_ctx, all_request_map,
                 tokenVars, already_context_length, faults>>

Visit(r) ==
  /\ lp = "update" /\ r \in todo
  /\ todo' = todo \ {r}
  /\ UNCHANGED <<lp, next_phase, updateFrame>>

\* updateSyncStatus
SyncDone(r) ==
  sync_pending_set' = IF synchronizing THEN sync_pending_set \ {r}
                                       ELSE sync_pending_set

Started(r) == r \in all_request_map /\ status[r] # "Init"
\* Mutant of UpdateTerminal: the early return forgets updateSyncStatus.
UpdateTerminalNoSync(r) ==
  /\ Visit(r) /\ queue_status[r] \in Terminal
  /\ UNCHANGED <<sync_pending_set, outVars, loraVars>>

UpdateTerminal(r) ==
  /\ Visit(r) /\ queue_status[r] \in Terminal
  /\ SyncDone(r)
  /\ UNCHANGED <<outVars, loraVars>>

UpdateNotStarted(r) ==
  /\ Visit(r) /\ queue_status[r] \notin Terminal /\ ~Started(r)
  /\ UNCHANGED <<sync_pending_set, outVars, loraVars>>

UpdateInterrupted(r) ==
  /\ Visit(r) /\ queue_status[r] \notin Terminal /\ Started(r)
  /\ status[r] = "GenerateInterrupted"
  /\ queue_status' = [queue_status EXCEPT ![r] = "GenerateInterrupted"]
  /\ SyncDone(r)
  /\ UNCHANGED <<continued, generate_length, loraVars>>
\* Mutant of ReleaseLora: the usage is not tested before it is taken back.
ReleaseLoraUntested(r) ==
  /\ loras' = loras
  /\ IF status[r] = "GenerateFinished" /\ LoraOf[r] # None
     THEN /\ loras_in_use' = [loras_in_use EXCEPT ![LoraOf[r]] = @ - 1]
          /\ lora_use_count' = lora_use_count - 1
     ELSE UNCHANGED <<loras_in_use, lora_use_count>>

\* loras_in_use_.extract and lora_use_count_--, guarded by the total count.
ReleaseLora(r) ==
  /\ loras' = loras
  /\ IF status[r] = "GenerateFinished" /\ lora_use_count > 0 /\ LoraOf[r] # None
     THEN /\ loras_in_use' = [loras_in_use EXCEPT ![LoraOf[r]] =
                                IF @ > 0 THEN @ - 1 ELSE 0]
          /\ lora_use_count' = lora_use_count - 1
     ELSE UNCHANGED <<loras_in_use, lora_use_count>>
\* Mutants of UpdateFetch: no early return for a terminal queue; no fetch of the
\* tokens of a finished request.
UpdateFetchAgain(r) ==
  /\ Visit(r) /\ Started(r) /\ status[r] # "GenerateInterrupted"
  /\ continued' = [continued EXCEPT ![r] = TRUE]
  /\ generate_length' = [generate_length EXCEPT ![r] =
                           IF out_len[r] > @ THEN out_len[r] ELSE @]
  /\ queue_status' = [queue_status EXCEPT ![r] =
                        IF finish[r] THEN "GenerateFinished"
                        ELSE IF continued[r] THEN @ ELSE "Generating"]
  /\ IF finish[r] THEN SyncDone(r) ELSE UNCHANGED sync_pending_set
  /\ ReleaseLora(r)

UpdateFetchUnfinished(r) ==
  /\ Visit(r) /\ queue_status[r] \notin Terminal /\ Started(r)
  /\ status[r] # "GenerateInterrupted"
  /\ continued' = [continued EXCEPT ![r] = TRUE]
  /\ generate_length' = [generate_length EXCEPT ![r] = IF finish[r] THEN @ ELSE out_len[r]]
  /\ queue_status' = [queue_status EXCEPT ![r] =
                        IF finish[r] THEN "GenerateFinished" ELSE "Generating"]
  /\ IF finish[r] THEN SyncDone(r) ELSE UNCHANGED sync_pending_set
  /\ ReleaseLora(r)

\* FetchGenerationResultAndIncreaseCounter, the status and the LoRA release.
UpdateFetch(r) ==
  /\ Visit(r) /\ queue_status[r] \notin Terminal /\ Started(r)
  /\ status[r] # "GenerateInterrupted"
  /\ continued' = [continued EXCEPT ![r] = TRUE]
  /\ generate_length' = [generate_length EXCEPT ![r] =
                           IF out_len[r] > @ THEN out_len[r] ELSE @]
  /\ queue_status' = [queue_status EXCEPT ![r] =
                        IF finish[r] THEN "GenerateFinished"
                        ELSE IF continued[r] THEN @ ELSE "Generating"]
  /\ IF finish[r] THEN SyncDone(r) ELSE UNCHANGED sync_pending_set
  /\ ReleaseLora(r)

UpdateResultDone ==
  /\ lp = "update" /\ todo = {}
  /\ lp' = next_phase
  /\ UNCHANGED <<next_phase, todo, sync_pending_set, outVars, loraVars, updateFrame>>

-----------------------------------------------------------------------------
(* The decoder loop: retry RunTextGenerationContinue, stopping a victim    *)
(* each time AllocDecoderMemory finds too few frames.                      *)

decodeFrame == <<reply, loopFrame, model_stopped, handle_map, localVars,
                 syncVars, all_request_map, prefill_chunk_len, ignored,
                 already_context_length, faults, continued, generate_length,
                 loraVars>>

\* Requests whose last span is full: each needs a new one for its next token.
NewSpans == {r \in running : seq_len[r] % SpanSize = 0}

\* Mutant of OutOfFrames: off by one.
OutOfFramesLate == Cardinality(NewSpans) > free_frames + 1

OutOfFrames == Cardinality(NewSpans) > free_frames

Candidates == {r \in handle_map : queue_status[r] = "Generating"}
Longest == {r \in Candidates :
              \A s \in Candidates :
                InputLen[s] + generate_length[s] <= InputLen[r] + generate_length[r]}
ChooseVictimRequest == IF EvictMaxLength THEN Longest ELSE Candidates
\* Mutant of DecodeStopVictim: the victim is marked but not stopped.
DecodeMarkVictim(v) ==
  /\ lp = "decode" /\ OutOfFrames /\ v \in ChooseVictimRequest
  /\ queue_status' = [queue_status EXCEPT ![v] = "GenerateInterrupted"]
  /\ UNCHANGED <<batchVars, lp, next_phase, todo, finished_ctx, generated, out_len,
                 decodeFrame>>

DecodeStopVictim(v) ==
  /\ lp = "decode" /\ OutOfFrames /\ v \in ChooseVictimRequest
  /\ StopRequest(v)
  /\ queue_status' = [queue_status EXCEPT ![v] = "GenerateInterrupted"]
  /\ UNCHANGED <<lp, next_phase, todo, finished_ctx, generated, out_len, decodeFrame>>
\* Mutant of DecodeNothing: the unfinished count is not refreshed.
DecodeNothingStale ==
  /\ lp = "decode"
  /\ IF OutOfFrames THEN Candidates = {} ELSE running = {}
  /\ UpdateThen("check")
  /\ UNCHANGED <<batchVars, finished_ctx, generated, out_len, queue_status, decodeFrame>>

\* "No Generating request!", or ALLSPARK_EMPTY_REQUEST.
DecodeNothing ==
  /\ lp = "decode"
  /\ IF OutOfFrames
     THEN Candidates = {} /\ UNCHANGED unfinished
     ELSE running = {} /\ unfinished' = Len(pending)
  /\ UpdateThen("check")
  /\ UNCHANGED <<pending, running, status, finish, seq_len, free_frames,
                 finished_ctx, generated, out_len, queue_status, decodeFrame>>

\* The requests whose prefill failed unnoticed, and those of them in the batch that
\* no decode can serve.
Ignored == {r \in Requests : ignored[r] # "no"}
Stuck == {r \in running : ignored[r] = "stuck"}

\* Mutant of DecodeAbort: the error is logged and the loop goes on.
DecodeGoesOn ==
  /\ lp = "decode" /\ ~OutOfFrames /\ Stuck # {}
  /\ unfinished' = Len(pending) + Cardinality(running)
  /\ UpdateThen("check")
  /\ UNCHANGED <<pending, running, status, finish, seq_len, free_frames,
                 finished_ctx, generated, out_len, queue_status, decodeFrame>>

\* The decoder finds a context without generated_ids, or one whose step is not the
\* length of its cache: RunTextGenerationContinue fails and the loop calls abort().
DecodeAbort ==
  /\ lp = "decode" /\ ~OutOfFrames /\ Stuck # {}
  /\ lp' = "aborted"
  /\ UNCHANGED <<batchVars, next_phase, todo, finished_ctx, generated, out_len,
                 queue_status, decodeFrame>>

\* generated_ids_global takes the length of the step: one token more than generated
\* so far, but less for a blank prefill, whose steps are short of the prompt.
DecodeOut(r) ==
  IF r \notin Ignored THEN generated[r] + 1
  ELSE IF seq_len[r] + 2 > InputLen[r] THEN seq_len[r] + 2 - InputLen[r] ELSE 0

\* One token for every running request; check_finish ends those at their
\* maximum length and any that produced an end token.
DecodeRun ==
  /\ lp = "decode" /\ ~OutOfFrames /\ running # {} /\ Stuck = {}
  /\ \E done \in SUBSET running :
       /\ {r \in running : seq_len[r] + 1 >= MaxLength[r] - 1} \subseteq done
       /\ finished_ctx' = done
  /\ seq_len' = [r \in Requests |-> IF r \in running THEN seq_len[r] + 1 ELSE seq_len[r]]
  /\ generated' = [r \in Requests |-> IF r \in running THEN generated[r] + 1 ELSE generated[r]]
  /\ out_len' = [r \in Requests |-> IF r \in running THEN DecodeOut(r) ELSE out_len[r]]
  /\ free_frames' = free_frames - Cardinality(NewSpans)
  /\ unfinished' = Len(pending) + Cardinality(running)
  /\ lp' = "stop"
  /\ UNCHANGED <<next_phase, todo, pending, running, status, finish,
                 queue_status, decodeFrame>>

\* The tail of GenerateContinueDecoder: StopRequest on each finished context.
DecodeStopFinished(r) ==
  /\ lp = "stop" /\ r \in finished_ctx
  /\ finished_ctx' = finished_ctx \ {r}
  /\ StopRequest(r)
  /\ UNCHANGED <<lp, next_phase, todo, generated, out_len, queue_status, decodeFrame>>

DecodeDone ==
  /\ lp = "stop" /\ finished_ctx = {}
  /\ UpdateThen("check")
  /\ UNCHANGED <<batchVars, finished_ctx, generated, out_len, queue_status, decodeFrame>>

-----------------------------------------------------------------------------
(* The end of a turn: answer a finished sync, then test for the stop.      *)

checkFrame == <<lock, call, handle, stop_pc, msg_queue, model_stopping,
                handle_map, next_phase, todo, localVars, batchVars,
                finished_ctx, all_request_map, tokenVars,
                already_context_length, faults, outVars, loraVars>>
\* Mutant of SyncReturn: the set of requests still to finish is not tested.
SyncReturnEarly ==
  IF synchronizing
  THEN synchronizing' = FALSE /\ reply' = "SUCCESS" /\ UNCHANGED sync_pending_set
  ELSE UNCHANGED <<reply, syncVars>>

SyncReturn ==
  IF synchronizing /\ sync_pending_set = {}
  THEN synchronizing' = FALSE /\ reply' = "SUCCESS" /\ UNCHANGED sync_pending_set
  ELSE UNCHANGED <<reply, syncVars>>
\* Mutant of CanStop: requests may be unfinished.
CanStopEarly == QueueEmpty /\ graceful_stop_phase

CanStop == unfinished = 0 /\ QueueEmpty /\ graceful_stop_phase

LoopNext ==
  /\ lp = "check" /\ ~CanStop
  /\ SyncReturn
  /\ lp' = "message"
  /\ UNCHANGED <<stop_reply, model_stopped, checkFrame>>

\* With handles left the caller is told ALLSPARK_RUNTIME_ERROR and the loop
\* ends all the same.
LoopEnd ==
  /\ lp = "check" /\ CanStop
  /\ SyncReturn
  /\ lp' = "exited" /\ model_stopped' = TRUE
  /\ stop_reply' = [stop_reply EXCEPT ![graceful_stop_msg] =
                      IF handle_map = {} THEN "SUCCESS" ELSE "RUNTIME_ERROR"]
  /\ UNCHANGED checkFrame

-----------------------------------------------------------------------------
ClientNext(c) ==
  \/ \E r \in Requests : StartRequest(c, r) \/ StartRequestRefused(c, r)
  \/ StartRequestEnqueue(c) \/ StartRequestRollback(c)
  \/ \E op \in {"Stop", "Release", "Sync"}, r \in Requests : RequestCall(c, op, r)
  \/ RequestCall(c, "SyncAll", None)
  \/ RequestReturn(c)

StopperNext(s) ==
  \/ StopModel(s) \/ StopModelSet(s) \/ StopModelSend(s)
  \/ StopModelRollback(s) \/ StopModelReturn(s)

LoraNext == \E l \in Loras : LoadLoraByName(l) \/ UnloadLoraByName(l)

HandleMessage(t) ==
  \/ HandleGracefulStop(t) \/ HandleStart(t) \/ HandleStartDenied(t)
  \/ HandleStop(t) \/ HandleRelease(t) \/ HandleSync(t)

ContextNext(r) ==
  \/ ContextNoFrame(r) \/ ContextChunk(r) \/ ContextChunkIgnored(r)
  \/ ContextRun(r) \/ ContextRunFinish(r) \/ ContextIgnored(r)
  \/ ContextLoraMissing(r) \/ ContextFault(r)

UpdateNext(r) ==
  \/ UpdateTerminal(r) \/ UpdateNotStarted(r) \/ UpdateInterrupted(r) \/ UpdateFetch(r)

\* One step of the ModelRunningThread.
Loop ==
  \/ \E t \in Threads : HandleMessage(t)
  \/ SkipMessages
  \/ ContextNone \/ (\E r \in Requests : ContextNext(r))
  \/ (\E r \in Requests : UpdateNext(r)) \/ UpdateResultDone
  \/ (\E r \in Requests : DecodeStopVictim(r) \/ DecodeStopFinished(r))
  \/ DecodeNothing \/ DecodeRun \/ DecodeDone \/ DecodeAbort
  \/ LoopNext \/ LoopEnd

\* abort() ends every thread of the process.
Alive == lp # "aborted"

Next ==
  /\ Alive
  /\ \/ \E c \in Clients : ClientNext(c)
     \/ \E s \in Stoppers : StopperNext(s)
     \/ LoraNext
     \/ Loop

Spec == Init /\ [][Next]_vars

\* The loop thread always runs on; a caller inside an API call leaves it once
\* it can.  Nothing makes a client start a call, a prefill or an enqueue fail.
Fairness ==
  /\ WF_vars(Loop)
  /\ \A c \in Clients : /\ WF_vars(Alive /\ StartRequestEnqueue(c))
                        /\ WF_vars(Alive /\ RequestReturn(c))
  /\ \A s \in Stoppers : /\ WF_vars(Alive /\ StopModelSet(s))
                         /\ WF_vars(Alive /\ StopModelSend(s))
                         /\ WF_vars(Alive /\ StopModelReturn(s))

LiveSpec == Spec /\ Fairness

-----------------------------------------------------------------------------
ApiTypeOK ==
  /\ lock \in Clients \cup {None} /\ call \in Call
  /\ reply \in {None, "SUCCESS"}
  /\ handle \in [Requests -> {"none", "valid", "refused", "released"}]
StopTypeOK ==
  /\ stop_pc \in [Stoppers -> {"idle", "set", "send", "wait", "denied", "stopped", "failed"}]
  /\ stop_reply \in [Stoppers -> {None, "SUCCESS", "RUNTIME_ERROR"}]
QueueTypeOK == msg_queue \in [Threads -> Seq(Message)] /\ faults \in 0..MaxFaults
ControlTypeOK ==
  /\ model_stopping \in BOOLEAN /\ model_stopped \in BOOLEAN
  /\ handle_map \subseteq Requests /\ all_request_map \subseteq Requests
  /\ lp \in {"message", "context", "update", "decode", "stop", "check", "exited", "aborted"}
  /\ next_phase \in {"decode", "check", "aborted"} /\ todo \subseteq Requests
  /\ no_execution \in BOOLEAN /\ graceful_stop_phase \in BOOLEAN
  /\ graceful_stop_msg \in Threads \cup {None}
  /\ synchronizing \in BOOLEAN /\ sync_pending_set \subseteq Requests
BatchTypeOK ==
  /\ pending \in Seq(Requests) /\ running \subseteq Requests
  /\ status \in [Requests -> Status] /\ finish \in [Requests -> BOOLEAN]
  /\ seq_len \in [Requests -> Nat]
  /\ free_frames \in Int /\ unfinished \in Int
TokenTypeOK ==
  /\ finished_ctx \subseteq Requests
  /\ prefill_chunk_len \in [Requests -> Nat]
  /\ generated \in [Requests -> Nat] /\ out_len \in [Requests -> Nat]
  /\ ignored \in [Requests -> {"no", "stuck", "blank"}]
  /\ already_context_length \in Nat
OutTypeOK ==
  /\ continued \in [Requests -> BOOLEAN] /\ generate_length \in [Requests -> Nat]
  /\ queue_status \in [Requests -> Status]
LoraTypeOK ==
  /\ loras \subseteq Loras
  /\ loras_in_use \in [Loras -> Nat] /\ lora_use_count \in Int
TypeOK ==
  /\ ApiTypeOK /\ StopTypeOK /\ QueueTypeOK /\ ControlTypeOK
  /\ BatchTypeOK /\ TokenTypeOK /\ OutTypeOK /\ LoraTypeOK

-----------------------------------------------------------------------------
(* Safety.                                                                 *)

\* The cache never hands out a span it does not have: the admission test of
\* GenerateContinueContext and the test of AllocDecoderMemory together cover
\* every later claim of CacheArray, so no claim can fail half way.
FramesNeverOverdrawn == free_frames >= 0

\* What the virtual caches of the running requests hold, as pairs of a request
\* and the number of a span.
HeldFrames == UNION {{r} \X (1..Spans(seq_len[r])) : r \in running}

\* Frames are conserved: what the free list lacks is exactly what the virtual
\* caches of the running requests hold, after every prefill, decode step, stop,
\* eviction and failure.
FrameConservation == free_frames + Cardinality(HeldFrames) = TotalSpans

\* Whenever AllocDecoderMemory fails, the decoder loop can free the frames of
\* any running request: each one has a handle whose queue is Generating, so the
\* "No Generating request!" branch never leaves the batch stuck without frames.
VictimExists == lp = "decode" => running \subseteq Candidates

\* When the loop tests whether it may suspend or stop, the counter it reads
\* (current_unfinished_request_, refreshed and decremented in five places and
\* left stale by a failed prefill) is exact.
UnfinishedExact == lp = "check" => unfinished = Len(pending) + Cardinality(running)

\* A request is in one place at most once: StartRequest, the chunked prefill and
\* the stop paths never leave it both queued and running, or queued twice.
OnePlace ==
  /\ NoDup(pending)
  /\ \A r \in running : ~InSeq(pending, r)

\* A result queue that told its reader "finished" or "interrupted" never changes
\* its status again and receives no further token.
TerminalIsFinal ==
  [][\A r \in Requests : queue_status[r] \in Terminal =>
       /\ queue_status'[r] = queue_status[r]
       /\ generate_length'[r] = generate_length[r]]_vars

\* The reader never gets a token the model did not generate, and between two
\* turns of the loop it has been handed all that were generated, whatever
\* finished, evicted or interrupted the request in the meantime and whatever
\* became of other requests.  The exception is a request whose own prefill failed
\* with a status: StartRequest drops it and UpdateResult hands out what the
\* unwritten tensor holds.
TokensDelivered ==
  \A r \in Requests \ Ignored :
    /\ generate_length[r] <= generated[r]
    /\ lp = "message" => generate_length[r] = generated[r]

\* UpdateResult never finds more than one new token: an element of the result
\* queue holds one, and its readers copy only the first (ids_from_generate[0]).
\* Again a request whose prefill failed with a status is the exception: its first
\* element is all of the unwritten tensor.
OneTokenPerElement ==
  lp = "update" =>
    \A r \in {r \in todo \ Ignored : Started(r)} :
      queue_status[r] \notin Terminal /\ status[r] # "GenerateInterrupted" =>
        out_len[r] <= generate_length[r] + 1

\* The "otherwise output will be full of random values" comment in UpdateResult:
\* tokens are only handed out for a request that the model has run.
NoRandomValues == \A r \in Requests : generate_length[r] <= generated[r]

\* SyncRequest is answered only when the request it names (or, for all, every
\* request the engine holds) has reached a terminal status.
SyncReplyMeansDone ==
  [][reply = None /\ reply' # None =>
       /\ call.op = "Sync" => queue_status[call.req] \in Terminal
       /\ call.op = "SyncAll" => \A r \in handle_map : queue_status[r] \in Terminal]_vars

\* When StopModel has made the loop end, no request is left queued or running,
\* no frame is still claimed, and success means every handle was released.
StoppedMeansIdle ==
  lp = "exited" =>
    /\ pending = <<>> /\ running = {}
    /\ \A s \in Stoppers : stop_reply[s] = "SUCCESS" => handle_map = {}

\* Once ReleaseRequest has returned, nothing of the request is left in the
\* engine: no handle, no queue entry, no running context.
ReleasedIsGone ==
  \A r \in Requests :
    handle[r] = "released" /\ ~(call.op = "Release" /\ call.req = r) =>
      /\ r \notin handle_map \cup running \cup all_request_map
      /\ ~InSeq(pending, r)

\* UnloadLoraByName never takes a LoRA away from a request that still needs it.
LoraStaysLoaded ==
  \A r \in Requests : InSeq(pending, r) \/ r \in running => ~LoraMissing(r)

\* A request StartRequest accepted is served: when the loop has ended, its queue
\* is terminal unless the client released it.
AcceptedIsServed ==
  lp = "exited" => \A r \in Requests : handle[r] = "valid" => queue_status[r] \in Terminal

-----------------------------------------------------------------------------
(* The inductive invariant behind VictimExists, UnfinishedExact, OnePlace  *)
(* and StoppedMeansIdle.                                                   *)

\* The engine has never seen request r.
Fresh(r) ==
  /\ r \notin handle_map /\ r \notin running /\ ~InSeq(pending, r)
  /\ status[r] = "Init" /\ finish[r] = FALSE
  /\ continued[r] = FALSE /\ queue_status[r] = "Init"

\* Message i of thread t starts request r.
StartAt(t, i, r) == msg_queue[t][i].op = "Start" /\ msg_queue[t][i].req = r

\* A request has one Start message in its life, and is unknown until the loop
\* has received it.
StartOnce ==
  /\ call.pc = "enqueue" => lock # None /\ handle[call.req] = "none"
  /\ \A r \in Requests : handle[r] = "none" => Fresh(r)
  /\ \A r \in Requests, t \in Threads : \A i \in 1..Len(msg_queue[t]) :
       StartAt(t, i, r) => handle[r] # "none" /\ Fresh(r)
  /\ \A r \in Requests, t, u \in Threads :
       \A i \in 1..Len(msg_queue[t]), j \in 1..Len(msg_queue[u]) :
         StartAt(t, i, r) /\ StartAt(u, j, r) => t = u /\ i = j

\* A queued request is untouched, a running one has an open result queue, and
\* the loop knows the handle of both.
PendingLife(r) ==
  /\ r \in handle_map /\ r \in all_request_map /\ r \notin running
  /\ status[r] = "Init" /\ finish[r] = FALSE
  /\ continued[r] = FALSE /\ queue_status[r] = "Init"
RunningLife(r) ==
  /\ r \in handle_map /\ r \in all_request_map
  /\ status[r] = "ContextFinished" /\ finish[r] = FALSE
  /\ queue_status[r] \notin Terminal
Life ==
  /\ \A r \in Requests : InSeq(pending, r) => PendingLife(r)
  /\ \A r \in running : RunningLife(r)
  /\ \A r \in Requests : continued[r] = TRUE /\ queue_status[r] \notin Terminal =>
                           queue_status[r] = "Generating"
  /\ NoDup(pending)

\* Only a prefill may leave a running request without a Generating queue, and
\* the UpdateResult that follows it repairs that before the next decode.  A
\* context the decoder cannot run is gone, as a victim or with the process,
\* before the turn ends.
Phase ==
  /\ lp \in {"message", "stop", "check"} \/ (lp = "update" /\ next_phase = "check") => Stuck = {}
  /\ lp \in {"message", "decode", "stop", "check"} => running \subseteq Candidates
  /\ lp = "update" => todo \subseteq handle_map /\ running \ todo \subseteq Candidates
  /\ finished_ctx \subseteq running
  /\ lp # "stop" => finished_ctx = {}

\* From the decoder's refresh to the end of the turn the counter is exact.
Count ==
  /\ lp \in {"stop", "check"} \/ (lp = "update" /\ next_phase = "check") =>
       unfinished = Len(pending) + Cardinality(running)
  /\ lp = "exited" => pending = <<>> /\ running = {}

\* StopModel is told of success only by a loop that ended without handles.
Answered ==
  \A s \in Stoppers : stop_reply[s] = "SUCCESS" => lp = "exited" /\ handle_map = {}

EngineInv == FramesNeverOverdrawn /\ StartOnce /\ Life /\ Phase /\ Count /\ Answered

-----------------------------------------------------------------------------
(* The call protocol, behind SyncReplyMeansDone and ReleasedIsGone.        *)

\* Message i of thread t is one whose caller waits for its promise.
Awaited(t, i) == msg_queue[t][i].op \in {"Stop", "Release", "Sync", "SyncAll"}

\* Message i of thread t releases request r.
ReleaseAt(t, i, r) == msg_queue[t][i].op = "Release" /\ msg_queue[t][i].req = r

\* The holder of lora_lock_ has at most one message in the queue, its own call.
OneCall ==
  /\ lock = None => call = NoCall
  /\ lock # None => call.op \in {"Start"} \cup ClientOps
  /\ \A t \in Threads : \A i \in 1..Len(msg_queue[t]) : Awaited(t, i) =>
       /\ t = lock /\ call.pc = "wait" /\ reply = None /\ ~synchronizing
       /\ msg_queue[t][i].op = call.op /\ msg_queue[t][i].req = call.req
       /\ \A j \in 1..Len(msg_queue[t]) : Awaited(t, j) => i = j

\* Only the caller's own message is answered, and a deferred promise belongs to
\* the sync that is under way.
Deferred ==
  /\ reply # None => call.pc = "wait" /\ ~synchronizing
  /\ synchronizing => call.op \in {"Sync", "SyncAll"} /\ call.pc = "wait" /\ reply = None
  /\ ~synchronizing => sync_pending_set = {}

\* What a sync waits for is not finished, or still in its set.
SyncCovers ==
  synchronizing =>
    /\ call.op = "Sync" => call.req \in sync_pending_set \/ queue_status[call.req] \in Terminal
    /\ call.op = "SyncAll" => \A r \in handle_map :
                                r \in sync_pending_set \/ queue_status[r] \in Terminal

CallInv == OneCall /\ Deferred /\ SyncCovers

\* Every request is used by one thread.
SingleUser == \A r \in Requests : \A c, d \in UsersOf[r] : c = d

\* Nothing of request r is left in the engine, and nothing of it will come.
Gone(r) ==
  /\ r \notin handle_map \cup running \cup all_request_map
  /\ ~InSeq(pending, r)
  /\ \A t \in Threads : \A i \in 1..Len(msg_queue[t]) : ~StartAt(t, i, r)

\* The messages of a request come from its users, its Start before its Release;
\* a released request is gone once the message has been received.
ReleaseInv ==
  /\ call.pc = "enqueue" => lock \in UsersOf[call.req]
  /\ \A r \in Requests, t \in Threads : \A i \in 1..Len(msg_queue[t]) :
       /\ StartAt(t, i, r) => t \in UsersOf[r]
       /\ ReleaseAt(t, i, r) => t \in UsersOf[r] /\ handle[r] = "released"
       /\ \A j \in 1..Len(msg_queue[t]) : StartAt(t, i, r) /\ ReleaseAt(t, j, r) => i < j
  /\ \A r \in Requests : handle[r] = "released" =>
       \/ Gone(r)
       \/ \E t \in Threads : \E i \in 1..Len(msg_queue[t]) : ReleaseAt(t, i, r)

-----------------------------------------------------------------------------
(* Tokens and LoRAs, for clients that do not call StopRequest.             *)

\* The reader of r is owed the token of the prefill or decode step that this
\* turn of the loop has run.
Owed(r) ==
  /\ r \in handle_map /\ queue_status[r] \notin Terminal
  /\ status[r] \in {"ContextFinished", "GenerateFinished"}
  /\ lp \in {"context", "stop"} \/ (lp = "update" /\ r \in todo)

\* Unless the prefill failed unnoticed, generated_ids_global has its real length
\* from the prefill on and at most the last token is not handed out; a finished
\* request is marked so.
TokensOf(r) ==
  /\ r \notin Ignored =>
       /\ status[r] = "Init" => generated[r] = 0 /\ generate_length[r] = 0
       /\ \/ generate_length[r] = generated[r]
          \/ generated[r] = generate_length[r] + 1 /\ Owed(r)
       /\ r \in handle_map /\ status[r] \notin {"Init", "GenerateInterrupted"} =>
            out_len[r] = generated[r]
  /\ r \in handle_map /\ status[r] = "GenerateFinished" => finish[r] = TRUE

\* Both maps of the loop hold the same requests.
DeliveryInv ==
  /\ all_request_map = handle_map
  /\ \A r \in Requests : TokensOf(r)

\* Request r has been accepted, or is about to be, and has not ended.
Holding(r) ==
  /\ LoraOf[r] # None /\ queue_status[r] \notin Terminal
  /\ handle[r] \in {"valid", "released"} \/ (call.pc = "enqueue" /\ call.req = r)

\* The requests that hold LoRA l.
Holders(l) == {r \in Requests : Holding(r) /\ LoraOf[r] = l}

\* Only an accepted request reaches the loop; loras_in_use_ counts at least the
\* requests that hold a LoRA, and what is held is loaded.
UsageInv ==
  /\ \A r \in handle_map : handle[r] \in {"valid", "released"}
  /\ \A r \in Requests, t \in Threads : \A i \in 1..Len(msg_queue[t]) :
       StartAt(t, i, r) => handle[r] \in {"valid", "released"}
  /\ \A r \in Requests : Holding(r) => LoraOf[r] \in loras
  /\ \A l \in Loras : Cardinality(Holders(l)) <= loras_in_use[l]

-----------------------------------------------------------------------------
(* Liveness, under LiveSpec.                                               *)

\* Every call of the request API returns, so lora_lock_ is always released, as long
\* as the loop has not ended or aborted the process: during a graceful stop too.
ApiCallReturns == []<>(lock = None \/ lp \in {"exited", "aborted"})

\* A started request reaches a terminal status, unless it is released or the loop
\* has ended or aborted the process.
RequestEnds ==
  \A r \in Requests : handle[r] = "valid" ~>
    queue_status[r] \in Terminal \/ handle[r] = "released" \/ lp \in {"exited", "aborted"}

\* Every StopModel call returns once the clients pause: the message queue keeps no
\* order between producers, so a client that never pauses may overtake it for ever.
\* (A process that has aborted is excused.)
StopModelReturns ==
  <>[](lock = None) =>
    \A s \in Stoppers :
      stop_pc[s] = "set" ~> stop_pc[s] \in {"stopped", "failed"} \/ lp = "aborted"
=============================================================================
