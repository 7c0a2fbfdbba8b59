-------------------------- MODULE EngineLoopProofs --------------------------
(* Theorems about EngineLoop, for every value of its constants: type       *)
(* correctness, then the inductive invariant EngineInv and the safety      *)
(* properties that follow from it.                                         *)
EXTENDS EngineLoop, FiniteSetTheorems, TLAPS

\* What the span arithmetic of the cache returns.
LEMMA SpansType == \A n \in Nat : Spans(n) \in Nat
BY EngineAssumption DEF Spans, EngineAssumption

\* The admission test of GenerateContinueContext covers the prefill's claim:
\* CacheArray::updateSeqLength never asks for more than ContextFrames.
LEMMA ContextFramesCover ==
  ASSUME NEW r \in Requests
  PROVE  /\ ContextFrames(r) \in Nat
         /\ Spans(InputLen[r]) <= ContextFrames(r)
BY EngineAssumption DEF Spans, ContextFrames, EngineAssumption

\* The queue of pending requests stays a queue when one is taken out.
LEMMA WithoutType ==
  ASSUME NEW q \in Seq(Requests), NEW r, InSeq(q, r)
  PROVE  /\ Without(q, r) \in Seq(Requests)
         /\ Len(Without(q, r)) = Len(q) - 1
BY DEF Without, InSeq

-----------------------------------------------------------------------------
(* Type correctness.                                                       *)

\* The variables AsModel::StopRequest may change keep their types.
LEMMA StopRequestType ==
  ASSUME TypeOK, NEW r \in Requests, StopRequest(r)
  PROVE  BatchTypeOK'
<1>1. CASE StopPendingRequest(r)
  <2>1. pending' \in Seq(Requests)
    BY <1>1, WithoutType DEF TypeOK, BatchTypeOK, StopPendingRequest
  <2> QED BY <1>1, <2>1 DEF TypeOK, BatchTypeOK, StopPendingRequest, Status
<1>2. CASE StopRunningRequest(r)
  <2> USE <1>2 DEF TypeOK, BatchTypeOK, StopRunningRequest
  <2>1. Spans(seq_len[r]) \in Nat BY SpansType
  <2>2. free_frames' \in Int /\ unfinished' \in Int BY <2>1
  <2>3. status' \in [Requests -> Status] BY DEF Status
  <2>4. finish' \in [Requests -> BOOLEAN] OBVIOUS
  <2>5. seq_len' \in [Requests -> Nat] OBVIOUS
  <2> QED BY <2>2, <2>3, <2>4, <2>5
<1>3. CASE StopUnknownRequest(r)
  BY <1>3 DEF TypeOK, BatchTypeOK, StopUnknownRequest, batchVars
<1> QED BY <1>1, <1>2, <1>3 DEF StopRequest

\* The sizes the loop computes with are natural numbers.
LEMMA Sizes ==
  ASSUME TypeOK
  PROVE  Cardinality(running) \in Nat /\ Cardinality(NewSpans) \in Nat
<1>1. IsFiniteSet(running) /\ IsFiniteSet(NewSpans)
  BY FS_Subset, EngineAssumption DEF TypeOK, BatchTypeOK, NewSpans, EngineAssumption
<1> QED BY <1>1, FS_CardinalityType


\* What a step of the request API leaves alone keeps its type.
LEMMA ApiFrameType ==
  ASSUME TypeOK, UNCHANGED apiFrame
  PROVE  StopTypeOK' /\ ControlTypeOK' /\ BatchTypeOK' /\ TokenTypeOK' /\ OutTypeOK'
<1> USE DEF TypeOK, apiFrame
<1>1. StopTypeOK' BY DEF StopTypeOK, stopVars
<1>2. ControlTypeOK' BY DEF ControlTypeOK, localVars, syncVars
<1>3. BatchTypeOK' BY DEF BatchTypeOK, batchVars
<1>4. TokenTypeOK' BY DEF TokenTypeOK, tokenVars
<1>5. OutTypeOK' BY DEF OutTypeOK, outVars
<1> QED BY <1>1, <1>2, <1>3, <1>4, <1>5

\* Counting a LoRA keeps the types.
LEMMA TakeLoraType ==
  ASSUME TypeOK, NEW r \in Requests, TakeLora(r)
  PROVE  LoraTypeOK'
<1>1. CASE LoraOf[r] = None
  BY <1>1 DEF TypeOK, LoraTypeOK, TakeLora
<1>2. CASE LoraOf[r] # None
  <2>1. LoraOf[r] \in Loras BY <1>2, EngineAssumption DEF EngineAssumption
  <2> QED BY <1>2, <2>1 DEF TypeOK, LoraTypeOK, TakeLora
<1> QED BY <1>1, <1>2

\* A client call keeps the types.
LEMMA ClientType ==
  ASSUME TypeOK, NEW c \in Clients, ClientNext(c)
  PROVE  TypeOK'
<1>1. ASSUME NEW r \in Requests, StartRequest(c, r) PROVE TypeOK'
  <2> USE <1>1 DEF StartRequest
  <2>1. call' \in Call BY DEF Call
  <2>2. ApiTypeOK' BY <2>1 DEF TypeOK, ApiTypeOK
  <2>3. QueueTypeOK' BY DEF TypeOK, QueueTypeOK
  <2>4. LoraTypeOK' BY TakeLoraType
  <2> QED BY <2>2, <2>3, <2>4, ApiFrameType DEF TypeOK
<1>2. ASSUME NEW r \in Requests, StartRequestRefused(c, r) PROVE TypeOK'
  <2> USE <1>2 DEF StartRequestRefused
  <2>1. ApiTypeOK' BY DEF TypeOK, ApiTypeOK
  <2>2. QueueTypeOK' BY DEF TypeOK, QueueTypeOK
  <2>3. LoraTypeOK' BY TakeLoraType DEF TypeOK, LoraTypeOK, loraVars
  <2> QED BY <2>1, <2>2, <2>3, ApiFrameType DEF TypeOK
<1>3. CASE StartRequestEnqueue(c)
  <2> USE <1>3 DEF StartRequestEnqueue
  <2>1. call.req \in Requests BY DEF TypeOK, ApiTypeOK, Call
  <2>2. [op |-> "Start", req |-> call.req] \in Message BY <2>1 DEF Message
  <2>3. QueueTypeOK' BY <2>2 DEF TypeOK, QueueTypeOK, Send, Threads
  <2>4. NoCall \in Call BY DEF NoCall, Call
  <2>5. ApiTypeOK' BY <2>1, <2>4 DEF TypeOK, ApiTypeOK
  <2>6. LoraTypeOK' BY DEF TypeOK, LoraTypeOK, loraVars
  <2> QED BY <2>3, <2>5, <2>6, ApiFrameType DEF TypeOK
<1>4. CASE StartRequestRollback(c)
  <2> USE <1>4 DEF StartRequestRollback
  <2>1. call.req \in Requests BY DEF TypeOK, ApiTypeOK, Call
  <2>2. NoCall \in Call BY DEF NoCall, Call
  <2>3. ApiTypeOK' BY <2>1, <2>2 DEF TypeOK, ApiTypeOK
  <2>4. QueueTypeOK' BY EngineAssumption DEF TypeOK, QueueTypeOK, EngineAssumption
  <2>5. LoraOf[call.req] # None => LoraOf[call.req] \in Loras
    BY <2>1, EngineAssumption DEF EngineAssumption
  <2>6. LoraTypeOK' BY <2>5 DEF TypeOK, LoraTypeOK
  <2> QED BY <2>3, <2>4, <2>6, ApiFrameType DEF TypeOK
<1>5. ASSUME NEW op \in {"Stop", "Release", "Sync"}, NEW r \in Requests, RequestCall(c, op, r)
      PROVE TypeOK'
  <2> USE <1>5 DEF RequestCall
  <2>1. [op |-> op, req |-> r] \in Message BY DEF Message
  <2>2. QueueTypeOK' BY <2>1 DEF TypeOK, QueueTypeOK, Send, Threads
  <2>3. call' \in Call BY DEF Call
  <2>4. ApiTypeOK' BY <2>3 DEF TypeOK, ApiTypeOK
  <2>5. LoraTypeOK' BY DEF TypeOK, LoraTypeOK, loraVars
  <2> QED BY <2>2, <2>4, <2>5, ApiFrameType DEF TypeOK
<1>6. CASE RequestCall(c, "SyncAll", None)
  <2> USE <1>6 DEF RequestCall
  <2>1. [op |-> "SyncAll", req |-> None] \in Message BY DEF Message
  <2>2. QueueTypeOK' BY <2>1 DEF TypeOK, QueueTypeOK, Send, Threads
  <2>3. call' \in Call BY DEF Call
  <2>4. ApiTypeOK' BY <2>3 DEF TypeOK, ApiTypeOK
  <2>5. LoraTypeOK' BY DEF TypeOK, LoraTypeOK, loraVars
  <2> QED BY <2>2, <2>4, <2>5, ApiFrameType DEF TypeOK
<1>7. CASE RequestReturn(c)
  <2> USE <1>7 DEF RequestReturn
  <2>1. NoCall \in Call BY DEF NoCall, Call
  <2>2. ApiTypeOK' BY <2>1 DEF TypeOK, ApiTypeOK
  <2>3. QueueTypeOK' BY DEF TypeOK, QueueTypeOK
  <2>4. LoraTypeOK' BY DEF TypeOK, LoraTypeOK, loraVars
  <2> QED BY <2>2, <2>3, <2>4, ApiFrameType DEF TypeOK
<1> QED BY <1>1, <1>2, <1>3, <1>4, <1>5, <1>6, <1>7 DEF ClientNext

\* Loading and unloading a LoRA keeps the types.
LEMMA LoraType ==
  ASSUME TypeOK, LoraNext
  PROVE  TypeOK'
<1> USE DEF LoraNext, LoadLoraByName, UnloadLoraByName
<1>1. ApiTypeOK' BY DEF TypeOK, ApiTypeOK, apiVars
<1>2. QueueTypeOK' BY DEF TypeOK, QueueTypeOK
<1>3. LoraTypeOK' BY DEF TypeOK, LoraTypeOK
<1>4. UNCHANGED apiFrame OBVIOUS
<1> QED BY <1>1, <1>2, <1>3, <1>4, ApiFrameType DEF TypeOK

\* A step of StopModel keeps the types.
LEMMA StopperType ==
  ASSUME TypeOK, NEW s \in Stoppers, StopperNext(s)
  PROVE  TypeOK'
<1> USE DEF StopperNext, StopModel, StopModelSet, StopModelSend, StopModelRollback,
            StopModelReturn
<1>1. UNCHANGED stopFrame OBVIOUS
<1>2. ApiTypeOK' BY <1>1 DEF TypeOK, ApiTypeOK, stopFrame, apiVars
<1>3. StopTypeOK' BY DEF TypeOK, StopTypeOK
<1>4. QueueTypeOK'
  <2>1. [op |-> "GracefulStop", req |-> None] \in Message BY DEF Message
  <2>2. msg_queue' \in [Threads -> Seq(Message)]
    BY <2>1 DEF TypeOK, QueueTypeOK, Send, Threads
  <2>3. faults' \in 0..MaxFaults
    BY EngineAssumption DEF TypeOK, QueueTypeOK, EngineAssumption
  <2> QED BY <2>2, <2>3 DEF QueueTypeOK
<1>5. model_stopping' \in BOOLEAN BY DEF TypeOK, ControlTypeOK
<1>6. ControlTypeOK' BY <1>1, <1>5 DEF TypeOK, ControlTypeOK, stopFrame, localVars, syncVars
<1>7. BatchTypeOK' BY <1>1 DEF TypeOK, BatchTypeOK, stopFrame, batchVars
<1>8. TokenTypeOK' /\ OutTypeOK' /\ LoraTypeOK'
  BY <1>1 DEF TypeOK, TokenTypeOK, OutTypeOK, LoraTypeOK, stopFrame, tokenVars, outVars, loraVars
<1> QED BY <1>2, <1>3, <1>4, <1>6, <1>7, <1>8 DEF TypeOK

\* A received message is a message, and what remains is still a queue.
LEMMA ReceiveType ==
  ASSUME TypeOK, NEW t \in Threads, NEW op, Receive(t, op)
  PROVE  /\ Head(msg_queue[t]) \in Message
         /\ Head(msg_queue[t]).op = op
         /\ msg_queue' \in [Threads -> Seq(Message)]
         /\ op \in {"Start", "Stop", "Release", "Sync"} => Head(msg_queue[t]).req \in Requests
<1>1. msg_queue[t] \in Seq(Message) /\ msg_queue[t] # <<>>
  BY DEF TypeOK, QueueTypeOK, Receive
<1>2. Head(msg_queue[t]) \in Message /\ Tail(msg_queue[t]) \in Seq(Message)
  BY <1>1
<1>3. msg_queue' \in [Threads -> Seq(Message)]
  BY <1>2 DEF TypeOK, QueueTypeOK, Receive
<1> QED BY <1>2, <1>3 DEF Receive, Message

\* Handling a message keeps the types.
LEMMA HandleType ==
  ASSUME TypeOK, NEW t \in Threads, HandleMessage(t)
  PROVE  TypeOK'
<1>1. ASSUME UNCHANGED messageFrame, reply' \in {None, "SUCCESS"}, NEW op, Receive(t, op),
             ControlTypeOK', BatchTypeOK'
      PROVE  TypeOK'
  <2> USE <1>1
  <2>1. ApiTypeOK' BY DEF TypeOK, ApiTypeOK, messageFrame
  <2>2. StopTypeOK' BY DEF TypeOK, StopTypeOK, messageFrame, stopVars
  <2>3. QueueTypeOK' BY ReceiveType DEF TypeOK, QueueTypeOK, messageFrame
  <2>4. TokenTypeOK' BY DEF TypeOK, TokenTypeOK, messageFrame, tokenVars
  <2>5. OutTypeOK' /\ LoraTypeOK'
    BY DEF TypeOK, OutTypeOK, LoraTypeOK, messageFrame, outVars, loraVars
  <2> QED BY <2>1, <2>2, <2>3, <2>4, <2>5 DEF TypeOK
<1>2. reply \in {None, "SUCCESS"} BY DEF TypeOK, ApiTypeOK
<1>3. CASE HandleGracefulStop(t)
  <2> USE <1>3 DEF HandleGracefulStop
  <2>1. ControlTypeOK' BY DEF TypeOK, ControlTypeOK, messageFrame, syncVars
  <2>2. BatchTypeOK' BY DEF TypeOK, BatchTypeOK, batchVars
  <2> QED BY <1>1, <1>2, <2>1, <2>2
<1>4. CASE HandleStart(t)
  <2> USE <1>4 DEF HandleStart
  <2>1. Head(msg_queue[t]).req \in Requests BY ReceiveType
  <2>2. ControlTypeOK' BY <2>1 DEF TypeOK, ControlTypeOK, messageFrame, localVars, syncVars
  <2>3. pending' \in Seq(Requests) BY <2>1 DEF TypeOK, BatchTypeOK
  <2>4. BatchTypeOK' BY <2>3 DEF TypeOK, BatchTypeOK
  <2> QED BY <1>1, <1>2, <2>2, <2>4
<1>5. CASE HandleStartDenied(t)
  <2> USE <1>5 DEF HandleStartDenied
  <2>1. ControlTypeOK' BY DEF TypeOK, ControlTypeOK, messageFrame, syncVars
  <2>2. BatchTypeOK' BY DEF TypeOK, BatchTypeOK, batchVars
  <2> QED BY <1>1, <1>2, <2>1, <2>2
<1>6. CASE HandleStop(t)
  <2> USE <1>6 DEF HandleStop
  <2>1. Head(msg_queue[t]).req \in Requests BY ReceiveType
  <2>2. ControlTypeOK' BY DEF TypeOK, ControlTypeOK, messageFrame, localVars, syncVars
  <2>3. BatchTypeOK' BY <2>1, StopRequestType
  <2> QED BY <1>1, <2>2, <2>3
<1>7. CASE HandleRelease(t)
  <2> USE <1>7 DEF HandleRelease
  <2>1. Head(msg_queue[t]).req \in Requests BY ReceiveType
  <2>2. ControlTypeOK' BY DEF TypeOK, ControlTypeOK, messageFrame, localVars, syncVars
  <2>3. BatchTypeOK' BY <2>1, StopRequestType
  <2> QED BY <1>1, <2>2, <2>3
<1>8. CASE HandleSync(t)
  <2> USE <1>8 DEF HandleSync
  <2>1. sync_pending_set' \subseteq Requests
    BY ReceiveType DEF TypeOK, ControlTypeOK
  <2>2. ControlTypeOK' BY <2>1 DEF TypeOK, ControlTypeOK, messageFrame, localVars
  <2>3. BatchTypeOK' BY DEF TypeOK, BatchTypeOK, batchVars
  <2> QED BY <1>1, <1>2, <2>2, <2>3
<1> QED BY <1>3, <1>4, <1>5, <1>6, <1>7, <1>8 DEF HandleMessage

\* Leaving the messages keeps the types.
LEMMA SkipType ==
  ASSUME TypeOK, SkipMessages
  PROVE  TypeOK'
<1> USE DEF SkipMessages, loopFrame
<1>1. ApiTypeOK' BY DEF TypeOK, ApiTypeOK
<1>2. StopTypeOK' BY DEF TypeOK, StopTypeOK, stopVars
<1>3. QueueTypeOK' BY DEF TypeOK, QueueTypeOK
<1>4. ControlTypeOK' BY DEF TypeOK, ControlTypeOK, syncVars
<1>5. BatchTypeOK' BY DEF TypeOK, BatchTypeOK, batchVars
<1>6. TokenTypeOK' BY DEF TypeOK, TokenTypeOK, tokenVars
<1>7. OutTypeOK' /\ LoraTypeOK' BY DEF TypeOK, OutTypeOK, LoraTypeOK, outVars, loraVars
<1> QED BY <1>1, <1>2, <1>3, <1>4, <1>5, <1>6, <1>7 DEF TypeOK

\* What a prefill leaves alone, and the phase that follows it, keep their types.
LEMMA ContextFrameType ==
  ASSUME TypeOK, UNCHANGED contextFrame,
         UpdateThen("decode") \/ UpdateThen("aborted") \/ UNCHANGED <<lp, next_phase, todo>>
  PROVE  /\ ApiTypeOK' /\ StopTypeOK' /\ ControlTypeOK' /\ OutTypeOK' /\ LoraTypeOK'
         /\ msg_queue' \in [Threads -> Seq(Message)]
         /\ finished_ctx' \subseteq Requests
<1> USE DEF contextFrame, loopFrame
<1>1. ApiTypeOK' BY DEF TypeOK, ApiTypeOK
<1>2. StopTypeOK' BY DEF TypeOK, StopTypeOK, stopVars
<1>3. ControlTypeOK' BY DEF TypeOK, ControlTypeOK, localVars, syncVars, UpdateThen
<1>4. OutTypeOK' /\ LoraTypeOK' BY DEF TypeOK, OutTypeOK, LoraTypeOK, outVars, loraVars
<1>5. msg_queue' \in [Threads -> Seq(Message)] /\ finished_ctx' \subseteq Requests
  BY DEF TypeOK, QueueTypeOK, TokenTypeOK
<1> QED BY <1>1, <1>2, <1>3, <1>4, <1>5

\* The head of a non-empty pending queue is a request, the rest is a queue.
LEMMA PendingHead ==
  ASSUME TypeOK, CanContext
  PROVE  Head(pending) \in Requests /\ Tail(pending) \in Seq(Requests)
<1>1. pending \in Seq(Requests) /\ pending # <<>>
  BY DEF TypeOK, BatchTypeOK, CanContext
<1> QED BY <1>1

\* A prefill keeps the types.
LEMMA ContextType ==
  ASSUME TypeOK, NEW r \in Requests, ContextNext(r)
  PROVE  TypeOK'
<1>0. /\ UNCHANGED contextFrame
      /\ UpdateThen("decode") \/ UpdateThen("aborted") \/ UNCHANGED <<lp, next_phase, todo>>
      /\ CanContext
  BY DEF ContextNext, ContextNoFrame, ContextChunk, ContextChunkIgnored, ContextRun,
         ContextRunFinish, ContextIgnored, ContextLoraMissing, ContextFault, AfterContext,
         Admits
<1>1. SUFFICES BatchTypeOK' /\ TokenTypeOK' /\ faults' \in 0..MaxFaults
  BY <1>0, ContextFrameType DEF TypeOK, QueueTypeOK
<1>2. Cardinality(running) \in Nat /\ Len(pending) \in Nat
  BY Sizes DEF TypeOK, BatchTypeOK
<1>3. /\ InputLen[r] \in Nat /\ MaxPrefill \in Nat
      /\ Spans(InputLen[r]) \in Nat
  BY SpansType, EngineAssumption DEF EngineAssumption
<1>4. finished_ctx' \subseteq Requests BY <1>0, ContextFrameType
<1>5. Tail(pending) \in Seq(Requests) BY <1>0, PendingHead
<1>6. CASE ContextNoFrame(r)
  <2> USE <1>6 DEF ContextNoFrame, TypeOK
  <2>1. BatchTypeOK' BY <1>2, <1>5 DEF BatchTypeOK, Status
  <2>2. TokenTypeOK' BY <1>4 DEF TokenTypeOK, tokenVars
  <2> QED BY <2>1, <2>2 DEF QueueTypeOK
<1>7. CASE ContextChunk(r)
  <2> USE <1>7 DEF ContextChunk, TypeOK
  <2>1. BatchTypeOK' BY <1>2 DEF BatchTypeOK
  <2>2. TokenTypeOK' BY <1>3, <1>4 DEF TokenTypeOK
  <2> QED BY <2>1, <2>2 DEF QueueTypeOK
<1>8. CASE ContextRun(r)
  <2> USE <1>8 DEF ContextRun, AfterContext, TypeOK
  <2>1. status' \in [Requests -> Status] BY DEF BatchTypeOK, Status
  <2>2. seq_len' \in [Requests -> Nat] BY <1>3 DEF BatchTypeOK
  <2>3. free_frames' \in Int /\ unfinished' \in Int BY <1>2, <1>3 DEF BatchTypeOK
  <2>4. BatchTypeOK' BY <1>5, <2>1, <2>2, <2>3 DEF BatchTypeOK
  <2>5. TokenTypeOK' BY <1>3, <1>4 DEF TokenTypeOK
  <2> QED BY <2>4, <2>5 DEF QueueTypeOK
<1>9. CASE ContextRunFinish(r)
  <2> USE <1>9 DEF ContextRunFinish, AfterContext, TypeOK
  <2>1. BatchTypeOK' BY <1>2, <1>5 DEF BatchTypeOK, Status
  <2>2. TokenTypeOK' BY <1>3, <1>4 DEF TokenTypeOK
  <2> QED BY <2>1, <2>2 DEF QueueTypeOK
<1>10. CASE ContextLoraMissing(r)
  <2> USE <1>10 DEF ContextLoraMissing, AfterContext, TypeOK
  <2>1. BatchTypeOK' BY <1>2, <1>5 DEF BatchTypeOK, Status
  <2>2. TokenTypeOK' BY <1>3, <1>4 DEF TokenTypeOK
  <2> QED BY <2>1, <2>2 DEF QueueTypeOK
<1>11. CASE ContextFault(r)
  <2> USE <1>11 DEF ContextFault, TypeOK
  <2>0. /\ pending' \in Seq(Requests)
        /\ status' \in [Requests -> Status] /\ finish' \in [Requests -> BOOLEAN]
    BY <1>5 DEF BatchTypeOK, Status
  <2>1. BatchTypeOK' BY <2>0 DEF BatchTypeOK
  <2>2. TokenTypeOK' BY <1>4 DEF TokenTypeOK, tokenVars
  <2>3. faults' \in 0..MaxFaults BY EngineAssumption DEF EngineAssumption, QueueTypeOK
  <2> QED BY <2>1, <2>2, <2>3
<1>12. StatusFault => faults' \in 0..MaxFaults
  BY EngineAssumption DEF EngineAssumption, TypeOK, QueueTypeOK, StatusFault
<1>13. CASE ContextChunkIgnored(r)
  <2> USE <1>13 DEF ContextChunkIgnored, TypeOK
  <2>1. BatchTypeOK' BY <1>2 DEF BatchTypeOK
  <2>2. TokenTypeOK' BY <1>3, <1>4 DEF TokenTypeOK
  <2> QED BY <1>12, <2>1, <2>2
<1>14. CASE ContextIgnored(r)
  <2> USE <1>14 DEF ContextIgnored, AfterContext, TypeOK
  <2>1. status' \in [Requests -> Status] BY DEF BatchTypeOK, Status
  <2>2. seq_len' \in [Requests -> Nat] BY <1>3 DEF BatchTypeOK
  <2>3. free_frames' \in Int /\ unfinished' \in Int BY <1>2, <1>3 DEF BatchTypeOK
  <2>4. BatchTypeOK' BY <1>5, <2>1, <2>2, <2>3 DEF BatchTypeOK
  <2>5. ignored' \in [Requests -> {"no", "stuck", "blank"}] BY DEF TokenTypeOK
  <2>6. TokenTypeOK' BY <1>3, <1>4, <2>5 DEF TokenTypeOK
  <2>7. faults' \in 0..MaxFaults BY <1>12 DEF QueueTypeOK
  <2> QED BY <2>4, <2>6, <2>7
<1> QED BY <1>6, <1>7, <1>8, <1>9, <1>10, <1>11, <1>13, <1>14 DEF ContextNext

\* Leaving RunEngineContext with nothing to prefill keeps the types.
LEMMA ContextNoneType ==
  ASSUME TypeOK, ContextNone
  PROVE  TypeOK'
<1> USE DEF ContextNone
<1>1. BatchTypeOK' BY DEF TypeOK, BatchTypeOK, batchVars
<1>2. TokenTypeOK' BY ContextFrameType DEF TypeOK, TokenTypeOK, tokenVars
<1>3. faults' \in 0..MaxFaults BY DEF TypeOK, QueueTypeOK
<1> QED BY <1>1, <1>2, <1>3, ContextFrameType DEF TypeOK, QueueTypeOK

\* What UpdateResult leaves alone keeps its type.
LEMMA UpdateFrameType ==
  ASSUME TypeOK, UNCHANGED updateFrame
  PROVE  /\ ApiTypeOK' /\ StopTypeOK' /\ QueueTypeOK' /\ BatchTypeOK' /\ TokenTypeOK'
         /\ (lp' \in {"update", "decode", "check", "aborted"} /\ next_phase' = next_phase
              /\ todo' \subseteq Requests /\ sync_pending_set' \subseteq Requests
              => ControlTypeOK')
<1> USE DEF updateFrame, loopFrame
<1>1. ApiTypeOK' BY DEF TypeOK, ApiTypeOK
<1>2. StopTypeOK' BY DEF TypeOK, StopTypeOK, stopVars
<1>3. QueueTypeOK' BY DEF TypeOK, QueueTypeOK
<1>4. BatchTypeOK' BY DEF TypeOK, BatchTypeOK, batchVars
<1>5. TokenTypeOK' BY DEF TypeOK, TokenTypeOK, tokenVars
<1>6. ASSUME lp' \in {"update", "decode", "check", "aborted"}, next_phase' = next_phase,
             todo' \subseteq Requests, sync_pending_set' \subseteq Requests
      PROVE ControlTypeOK'
  BY <1>6 DEF TypeOK, ControlTypeOK, localVars
<1> QED BY <1>1, <1>2, <1>3, <1>4, <1>5, <1>6

\* UpdateResult keeps the types.
LEMMA UpdateType ==
  ASSUME TypeOK, NEW r \in Requests, UpdateNext(r)
  PROVE  TypeOK'
<1>1. Visit(r) BY DEF UpdateNext, UpdateTerminal, UpdateNotStarted, UpdateInterrupted, UpdateFetch
<1>2. sync_pending_set' \subseteq Requests
  BY DEF TypeOK, ControlTypeOK, UpdateNext, UpdateTerminal, UpdateNotStarted,
         UpdateInterrupted, UpdateFetch, SyncDone
<1>3. ControlTypeOK' BY <1>1, <1>2, UpdateFrameType DEF Visit, TypeOK, ControlTypeOK
<1>4. CASE UpdateTerminal(r) \/ UpdateNotStarted(r)
  <2>1. OutTypeOK' /\ LoraTypeOK'
    BY <1>4 DEF UpdateTerminal, UpdateNotStarted, TypeOK, OutTypeOK, LoraTypeOK, outVars, loraVars
  <2> QED BY <1>1, <1>3, <2>1, UpdateFrameType DEF Visit, TypeOK
<1>5. CASE UpdateInterrupted(r)
  <2>1. OutTypeOK' BY <1>5 DEF UpdateInterrupted, TypeOK, OutTypeOK, Status
  <2>2. LoraTypeOK' BY <1>5 DEF UpdateInterrupted, TypeOK, LoraTypeOK, loraVars
  <2> QED BY <1>1, <1>3, <2>1, <2>2, UpdateFrameType DEF Visit, TypeOK
<1>6. CASE UpdateFetch(r)
  <2> USE <1>6 DEF UpdateFetch
  <2>1. continued' \in [Requests -> BOOLEAN] BY DEF TypeOK, OutTypeOK
  <2>2. generate_length' \in [Requests -> Nat] BY DEF TypeOK, OutTypeOK, TokenTypeOK
  <2>3. queue_status' \in [Requests -> Status] BY DEF TypeOK, OutTypeOK, Status
  <2>4. OutTypeOK' BY <2>1, <2>2, <2>3 DEF OutTypeOK
  <2>5. LoraOf[r] # None => LoraOf[r] \in Loras BY EngineAssumption DEF EngineAssumption
  <2>6. LoraTypeOK' BY <2>5 DEF ReleaseLora, TypeOK, LoraTypeOK
  <2> QED BY <1>1, <1>3, <2>4, <2>6, UpdateFrameType DEF Visit, TypeOK
<1> QED BY <1>4, <1>5, <1>6 DEF UpdateNext

\* The end of UpdateResult keeps the types.
LEMMA UpdateDoneType ==
  ASSUME TypeOK, UpdateResultDone
  PROVE  TypeOK'
<1> USE DEF UpdateResultDone
<1>1. OutTypeOK' /\ LoraTypeOK' BY DEF TypeOK, OutTypeOK, LoraTypeOK, outVars, loraVars
<1>2. ControlTypeOK' BY UpdateFrameType DEF TypeOK, ControlTypeOK
<1> QED BY <1>1, <1>2, UpdateFrameType DEF TypeOK

\* What the decoder loop leaves alone keeps its type.
LEMMA DecodeFrameType ==
  ASSUME TypeOK, UNCHANGED decodeFrame
  PROVE  /\ ApiTypeOK' /\ StopTypeOK' /\ QueueTypeOK' /\ LoraTypeOK'
         /\ (UNCHANGED <<lp, next_phase, todo>> \/ UpdateThen("check") => ControlTypeOK')
         /\ prefill_chunk_len' \in [Requests -> Nat] /\ already_context_length' \in Nat
         /\ ignored' \in [Requests -> {"no", "stuck", "blank"}]
         /\ continued' \in [Requests -> BOOLEAN] /\ generate_length' \in [Requests -> Nat]
<1> USE DEF decodeFrame, loopFrame
<1>1. ApiTypeOK' BY DEF TypeOK, ApiTypeOK
<1>2. StopTypeOK' BY DEF TypeOK, StopTypeOK, stopVars
<1>3. QueueTypeOK' BY DEF TypeOK, QueueTypeOK
<1>4. LoraTypeOK' BY DEF TypeOK, LoraTypeOK, loraVars
<1>5. ASSUME UNCHANGED <<lp, next_phase, todo>> \/ UpdateThen("check") PROVE ControlTypeOK'
  BY <1>5 DEF TypeOK, ControlTypeOK, localVars, syncVars, UpdateThen
<1>6. /\ prefill_chunk_len' \in [Requests -> Nat] /\ already_context_length' \in Nat
      /\ ignored' \in [Requests -> {"no", "stuck", "blank"}]
  BY DEF TypeOK, TokenTypeOK
<1>7. continued' \in [Requests -> BOOLEAN] /\ generate_length' \in [Requests -> Nat]
  BY DEF TypeOK, OutTypeOK
<1> QED BY <1>1, <1>2, <1>3, <1>4, <1>5, <1>6, <1>7

\* The decoder loop keeps the types.
LEMMA DecodeType ==
  ASSUME TypeOK,
         \/ \E r \in Requests : DecodeStopVictim(r) \/ DecodeStopFinished(r)
         \/ DecodeNothing \/ DecodeRun \/ DecodeDone \/ DecodeAbort
  PROVE  TypeOK'
<1>1. ASSUME NEW v \in Requests, DecodeStopVictim(v) PROVE TypeOK'
  <2> USE <1>1, DecodeFrameType DEF DecodeStopVictim
  <2>1. BatchTypeOK' BY StopRequestType
  <2>2. TokenTypeOK' BY DEF TypeOK, TokenTypeOK
  <2>3. OutTypeOK' BY DEF TypeOK, OutTypeOK, Status
  <2> QED BY <2>1, <2>2, <2>3 DEF TypeOK
<1>2. ASSUME NEW r \in Requests, DecodeStopFinished(r) PROVE TypeOK'
  <2> USE <1>2, DecodeFrameType DEF DecodeStopFinished
  <2>1. BatchTypeOK' BY StopRequestType
  <2>2. TokenTypeOK' BY DEF TypeOK, TokenTypeOK
  <2>3. OutTypeOK' BY DEF TypeOK, OutTypeOK
  <2> QED BY <2>1, <2>2, <2>3 DEF TypeOK
<1>3. CASE DecodeNothing
  <2> USE <1>3, DecodeFrameType DEF DecodeNothing
  <2>1. unfinished' \in Int BY DEF TypeOK, BatchTypeOK
  <2>2. BatchTypeOK' BY <2>1 DEF TypeOK, BatchTypeOK
  <2>3. TokenTypeOK' BY DEF TypeOK, TokenTypeOK
  <2>4. OutTypeOK' BY DEF TypeOK, OutTypeOK
  <2> QED BY <2>2, <2>3, <2>4 DEF TypeOK
<1>4. CASE DecodeRun
  <2> USE <1>4, DecodeFrameType DEF DecodeRun
  <2>1. seq_len' \in [Requests -> Nat] BY DEF TypeOK, BatchTypeOK
  <2>2. free_frames' \in Int /\ unfinished' \in Int BY Sizes DEF TypeOK, BatchTypeOK
  <2>3. BatchTypeOK' BY <2>1, <2>2 DEF TypeOK, BatchTypeOK
  <2>4. generated' \in [Requests -> Nat] BY DEF TypeOK, TokenTypeOK
  <2>5. out_len' \in [Requests -> Nat]
    <3>1. \A r \in Requests : InputLen[r] \in Nat BY EngineAssumption DEF EngineAssumption
    <3>a. generated \in [Requests -> Nat] /\ seq_len \in [Requests -> Nat]
      BY DEF TypeOK, TokenTypeOK, BatchTypeOK
    <3>2. \A r \in Requests : DecodeOut(r) \in Nat
      BY ONLY <3>1, <3>a DEF DecodeOut
    <3> QED BY <3>2 DEF TypeOK, TokenTypeOK
  <2>6. finished_ctx' \subseteq Requests BY DEF TypeOK, BatchTypeOK
  <2>7. TokenTypeOK' BY <2>4, <2>5, <2>6 DEF TokenTypeOK
  <2>8. OutTypeOK' BY DEF TypeOK, OutTypeOK
  <2>9. ControlTypeOK' BY DEF TypeOK, ControlTypeOK, decodeFrame, loopFrame, localVars, syncVars
  <2> QED BY <2>3, <2>7, <2>8, <2>9 DEF TypeOK
<1>5. CASE DecodeDone
  <2> USE <1>5, DecodeFrameType DEF DecodeDone
  <2>1. BatchTypeOK' BY DEF TypeOK, BatchTypeOK, batchVars
  <2>2. TokenTypeOK' BY DEF TypeOK, TokenTypeOK
  <2>3. OutTypeOK' BY DEF TypeOK, OutTypeOK
  <2> QED BY <2>1, <2>2, <2>3 DEF TypeOK
<1>6. CASE DecodeAbort
  <2> USE <1>6, DecodeFrameType DEF DecodeAbort
  <2>1. BatchTypeOK' BY DEF TypeOK, BatchTypeOK, batchVars
  <2>2. TokenTypeOK' BY DEF TypeOK, TokenTypeOK
  <2>3. OutTypeOK' BY DEF TypeOK, OutTypeOK
  <2>4. ControlTypeOK' BY DEF TypeOK, ControlTypeOK, decodeFrame, loopFrame, localVars, syncVars
  <2> QED BY <2>1, <2>2, <2>3, <2>4 DEF TypeOK
<1> QED BY <1>1, <1>2, <1>3, <1>4, <1>5, <1>6

\* The end of a turn keeps the types.
LEMMA CheckType ==
  ASSUME TypeOK, LoopNext \/ LoopEnd
  PROVE  TypeOK'
<1> USE DEF LoopNext, LoopEnd
<1>0. UNCHANGED checkFrame /\ SyncReturn OBVIOUS
<1>1. ApiTypeOK' BY <1>0 DEF TypeOK, ApiTypeOK, SyncReturn, checkFrame
<1>2. stop_reply' \in [Stoppers -> {None, "SUCCESS", "RUNTIME_ERROR"}]
  BY DEF TypeOK, StopTypeOK
<1>3. StopTypeOK' BY <1>0, <1>2 DEF TypeOK, StopTypeOK, checkFrame
<1>4. QueueTypeOK' BY <1>0 DEF TypeOK, QueueTypeOK, checkFrame
<1>5. synchronizing' \in BOOLEAN /\ sync_pending_set' \subseteq Requests
  BY <1>0 DEF TypeOK, ControlTypeOK, SyncReturn, syncVars
<1>6. lp' \in {"message", "exited"} /\ model_stopped' \in BOOLEAN
  BY DEF TypeOK, ControlTypeOK
<1>7. ControlTypeOK' BY <1>0, <1>5, <1>6 DEF TypeOK, ControlTypeOK, checkFrame, localVars
<1>8. BatchTypeOK' BY <1>0 DEF TypeOK, BatchTypeOK, checkFrame, batchVars
<1>9. TokenTypeOK' BY <1>0 DEF TypeOK, TokenTypeOK, checkFrame, tokenVars
<1>10. OutTypeOK' /\ LoraTypeOK'
  BY <1>0 DEF TypeOK, OutTypeOK, LoraTypeOK, checkFrame, outVars, loraVars
<1> QED BY <1>1, <1>3, <1>4, <1>7, <1>8, <1>9, <1>10 DEF TypeOK

\* The initial state is well typed.
LEMMA InitType == Init => TypeOK
<1> SUFFICES ASSUME Init PROVE TypeOK OBVIOUS
<1> USE EngineAssumption DEF Init, EngineAssumption
<1>1. ApiTypeOK BY DEF ApiTypeOK, NoCall, Call
<1>2. StopTypeOK BY DEF StopTypeOK
<1>3. QueueTypeOK BY DEF QueueTypeOK
<1>4. ControlTypeOK BY DEF ControlTypeOK
<1>5. BatchTypeOK BY DEF BatchTypeOK, Status
<1>6. out_len \in [Requests -> Nat] OBVIOUS
<1>7. TokenTypeOK BY <1>6 DEF TokenTypeOK
<1>8. OutTypeOK BY DEF OutTypeOK, Status
<1>9. LoraTypeOK BY DEF LoraTypeOK
<1> QED BY <1>1, <1>2, <1>3, <1>4, <1>5, <1>7, <1>8, <1>9 DEF TypeOK

\* Doing nothing keeps the types.
LEMMA StutterType ==
  ASSUME TypeOK, UNCHANGED vars
  PROVE  TypeOK'
<1> USE DEF vars
<1>1. ApiTypeOK' BY DEF TypeOK, ApiTypeOK, apiVars
<1>2. StopTypeOK' BY DEF TypeOK, StopTypeOK, stopVars
<1>3. QueueTypeOK' BY DEF TypeOK, QueueTypeOK
<1>4. ControlTypeOK' BY DEF TypeOK, ControlTypeOK, localVars, syncVars
<1>5. BatchTypeOK' BY DEF TypeOK, BatchTypeOK, batchVars
<1>6. TokenTypeOK' BY DEF TypeOK, TokenTypeOK, tokenVars
<1>7. OutTypeOK' /\ LoraTypeOK' BY DEF TypeOK, OutTypeOK, LoraTypeOK, outVars, loraVars
<1> QED BY <1>1, <1>2, <1>3, <1>4, <1>5, <1>6, <1>7 DEF TypeOK

\* Every step of the engine keeps the types.
LEMMA NextType ==
  ASSUME TypeOK, [Next]_vars
  PROVE  TypeOK'
<1>1. ASSUME NEW c \in Clients, ClientNext(c) PROVE TypeOK' BY <1>1, ClientType
<1>2. ASSUME NEW s \in Stoppers, StopperNext(s) PROVE TypeOK' BY <1>2, StopperType
<1>3. CASE LoraNext BY <1>3, LoraType
<1>4. CASE Loop
  <2>1. ASSUME NEW t \in Threads, HandleMessage(t) PROVE TypeOK' BY <2>1, HandleType
  <2>2. CASE SkipMessages BY <2>2, SkipType
  <2>3. CASE ContextNone BY <2>3, ContextNoneType
  <2>4. ASSUME NEW r \in Requests, ContextNext(r) PROVE TypeOK' BY <2>4, ContextType
  <2>5. ASSUME NEW r \in Requests, UpdateNext(r) PROVE TypeOK' BY <2>5, UpdateType
  <2>6. CASE UpdateResultDone BY <2>6, UpdateDoneType
  <2>7. CASE \/ \E r \in Requests : DecodeStopVictim(r) \/ DecodeStopFinished(r)
             \/ DecodeNothing \/ DecodeRun \/ DecodeDone \/ DecodeAbort
    BY <2>7, DecodeType
  <2>8. CASE LoopNext \/ LoopEnd BY <2>8, CheckType
  <2> QED BY <1>4, <2>1, <2>2, <2>3, <2>4, <2>5, <2>6, <2>7, <2>8 DEF Loop
<1>5. CASE UNCHANGED vars BY <1>5, StutterType
<1> QED BY <1>1, <1>2, <1>3, <1>4, <1>5 DEF Next

\* Type correctness of the engine: whatever the clients, the stoppers, the
\* devices and the scheduler do, every variable keeps its type.
THEOREM TypeCorrect == Spec => []TypeOK
<1>1. TypeOK /\ [Next]_vars => TypeOK' BY NextType
<1> QED BY InitType, <1>1, PTL DEF Spec

-----------------------------------------------------------------------------
(* The pending queue as a sequence without repetition.                     *)

\* Taking the head off (GenerateContinueContext).
LEMMA TailEffect ==
  ASSUME NEW q \in Seq(Requests), q # <<>>, NoDup(q)
  PROVE  /\ NoDup(Tail(q)) /\ Len(Tail(q)) = Len(q) - 1
         /\ InSeq(q, Head(q))
         /\ \A x : InSeq(Tail(q), x) => InSeq(q, x) /\ x # Head(q)
<1>1. Len(q) \in Nat \ {0} /\ Len(Tail(q)) = Len(q) - 1 /\ Head(q) = q[1]
  OBVIOUS
<1>2. \A i \in 1..Len(Tail(q)) : i + 1 \in 1..Len(q) /\ Tail(q)[i] = q[i + 1]
  BY <1>1
<1>3. NoDup(Tail(q))
  BY <1>1, <1>2 DEF NoDup
<1>4. InSeq(q, Head(q)) BY <1>1 DEF InSeq
<1>5. ASSUME NEW x, InSeq(Tail(q), x) PROVE InSeq(q, x) /\ x # Head(q)
  <2>1. PICK i \in 1..Len(Tail(q)) : Tail(q)[i] = x BY <1>5 DEF InSeq
  <2>2. i + 1 \in 1..Len(q) /\ q[i + 1] = x /\ i + 1 # 1 BY <2>1, <1>2
  <2>3. 1 \in 1..Len(q) BY <1>1
  <2> QED BY <1>1, <2>2, <2>3 DEF InSeq, NoDup
<1> QED BY <1>1, <1>3, <1>4, <1>5

\* Taking one request out (StopPendingRequest).
LEMMA WithoutEffect ==
  ASSUME NEW q \in Seq(Requests), NEW r, InSeq(q, r), NoDup(q)
  PROVE  /\ NoDup(Without(q, r))
         /\ \A x : InSeq(Without(q, r), x) => InSeq(q, x) /\ x # r
<1> DEFINE k == CHOOSE i \in 1..Len(q) : q[i] = r
           w == Without(q, r)
           at(i) == IF i < k THEN i ELSE i + 1
<1>1. k \in 1..Len(q) /\ q[k] = r BY DEF InSeq
<1>2. w = [i \in 1..(Len(q) - 1) |-> IF i < k THEN q[i] ELSE q[i + 1]] BY DEF Without
<1>3. Len(w) = Len(q) - 1 BY WithoutType
<1> HIDE DEF k, w
<1>4. \A i \in 1..Len(w) : at(i) \in 1..Len(q) /\ at(i) # k /\ w[i] = q[at(i)]
  BY <1>1, <1>2, <1>3
<1>5. \A i, j \in 1..Len(w) : at(i) = at(j) => i = j
  BY <1>1, <1>3
<1> HIDE DEF at
<1>6. NoDup(w) BY <1>4, <1>5 DEF NoDup
<1>7. ASSUME NEW x, InSeq(w, x) PROVE InSeq(q, x) /\ x # r
  <2>1. PICK i \in 1..Len(w) : w[i] = x BY <1>7 DEF InSeq
  <2>2. at(i) \in 1..Len(q) /\ at(i) # k /\ q[at(i)] = x BY <2>1, <1>4
  <2> QED BY <1>1, <2>2 DEF InSeq, NoDup
<1> QED BY <1>6, <1>7 DEF w

\* Adding a request (StartRequestImpl).
LEMMA AppendEffect ==
  ASSUME NEW q \in Seq(Requests), NEW r \in Requests, ~InSeq(q, r), NoDup(q)
  PROVE  /\ NoDup(Append(q, r)) /\ InSeq(Append(q, r), r)
         /\ \A x : InSeq(Append(q, r), x) => InSeq(q, x) \/ x = r
<1> DEFINE a == Append(q, r)
<1>1. /\ Len(q) \in Nat /\ Len(a) = Len(q) + 1 /\ a[Len(q) + 1] = r
      /\ \A i \in 1..Len(q) : a[i] = q[i]
  OBVIOUS
<1>2. \A i \in 1..Len(a) : i \in 1..Len(q) \/ i = Len(q) + 1 BY <1>1
<1>3. Len(q) + 1 \in 1..Len(a) BY <1>1
<1> HIDE DEF a
<1>4. NoDup(a) BY <1>1, <1>2 DEF NoDup, InSeq
<1>5. InSeq(a, r) BY <1>1, <1>3 DEF InSeq
<1>6. \A x : InSeq(a, x) => InSeq(q, x) \/ x = r BY <1>1, <1>2 DEF InSeq
<1> QED BY <1>4, <1>5, <1>6 DEF a

-----------------------------------------------------------------------------
(* The effect of AsModel::StopRequest.                                     *)

LEMMA StopEffect ==
  ASSUME TypeOK, Life, NEW r \in Requests, StopRequest(r)
  PROVE  /\ running' = running \ {r}
         /\ NoDup(pending')
         /\ \A x \in Requests : InSeq(pending', x) => InSeq(pending, x) /\ x # r
         /\ \A x \in Requests : x # r => status'[x] = status[x] /\ finish'[x] = finish[x]
         /\ ~InSeq(pending, r) /\ r \notin running => UNCHANGED batchVars
         /\ free_frames' >= free_frames
         /\ r \in running => unfinished' = unfinished - 1 /\ pending' = pending
<1>0. pending \in Seq(Requests) /\ NoDup(pending) /\ free_frames \in Int
  BY DEF TypeOK, BatchTypeOK, Life
<1>1. CASE StopPendingRequest(r)
  <2> USE <1>1 DEF StopPendingRequest
  <2>1. InSeq(pending, r) /\ r \notin running /\ running' = running
    BY DEF Life, PendingLife
  <2>2. NoDup(pending') /\ \A x : InSeq(pending', x) => InSeq(pending, x) /\ x # r
    BY <1>0, <2>1, WithoutEffect
  <2>3. \A x \in Requests : x # r => status'[x] = status[x] /\ finish'[x] = finish[x]
    BY DEF TypeOK, BatchTypeOK
  <2> QED BY <1>0, <2>1, <2>2, <2>3
<1>2. CASE StopRunningRequest(r)
  <2> USE <1>2 DEF StopRunningRequest
  <2>1. Spans(seq_len[r]) \in Nat BY SpansType DEF TypeOK, BatchTypeOK
  <2>2. \A x \in Requests : x # r => status'[x] = status[x] /\ finish'[x] = finish[x]
    BY DEF TypeOK, BatchTypeOK
  <2>3. \A x \in Requests : InSeq(pending', x) => x # r OBVIOUS
  <2>4. free_frames' >= free_frames BY <1>0, <2>1
  <2> QED BY <1>0, <2>2, <2>3, <2>4
<1>3. CASE StopUnknownRequest(r)
  <2> USE <1>3 DEF StopUnknownRequest
  <2>1. UNCHANGED <<pending, running, status, finish, free_frames>> BY DEF batchVars
  <2> QED BY <1>0, <2>1
<1> QED BY <1>1, <1>2, <1>3 DEF StopRequest

-----------------------------------------------------------------------------
(* Steps that do not touch the scheduling state.                           *)

coreVars == <<handle_map, lp, next_phase, todo, running, pending, status, finish,
              unfinished, free_frames, finished_ctx, all_request_map, continued,
              queue_status, stop_reply, ignored>>

\* Requests the loop has not met stay unmet.
FreshStable == \A r \in Requests : Fresh(r) => Fresh(r)'

\* A context nobody can decode only comes from a prefill.
LEMMA StuckShrinks ==
  ASSUME running' \subseteq running, UNCHANGED ignored
  PROVE  Stuck' \subseteq Stuck
BY DEF Stuck

LEMMA CoreFrame ==
  ASSUME EngineInv, UNCHANGED coreVars
  PROVE  /\ FramesNeverOverdrawn' /\ Life' /\ Phase' /\ Count' /\ Answered'
         /\ FreshStable
<1> USE DEF EngineInv, coreVars
<1>1. FramesNeverOverdrawn' BY DEF FramesNeverOverdrawn
<1>2. Life' BY DEF Life, PendingLife, RunningLife, InSeq, NoDup
<1>3. Phase' BY DEF Phase, Candidates, Stuck
<1>4. Count' BY DEF Count
<1>5. Answered' BY DEF Answered
<1>6. FreshStable BY DEF FreshStable, Fresh, InSeq
<1> QED BY <1>1, <1>2, <1>3, <1>4, <1>5, <1>6

LEMMA AppendIndex ==
  ASSUME NEW S, NEW q \in Seq(S), NEW m \in S, NEW i \in 1..Len(Append(q, m))
  PROVE  \/ i \in 1..Len(q) /\ Append(q, m)[i] = q[i]
         \/ i = Len(q) + 1 /\ Append(q, m)[i] = m
<1>1. Len(q) \in Nat /\ Len(Append(q, m)) = Len(q) + 1 OBVIOUS
<1>2. CASE i = Len(q) + 1 BY <1>1, <1>2
<1>3. CASE i \in 1..Len(q) BY <1>1, <1>3
<1> QED BY <1>1, <1>2, <1>3

\* What enqueue does to the queues.
LEMMA SendEffect ==
  ASSUME TypeOK, NEW t \in Threads, NEW m \in Message, Send(t, m)
  PROVE  \A u \in Threads : \A i \in 1..Len(msg_queue'[u]) :
           \/ i \in 1..Len(msg_queue[u]) /\ msg_queue'[u][i] = msg_queue[u][i]
           \/ u = t /\ i = Len(msg_queue[t]) + 1 /\ msg_queue'[u][i] = m
<1>1. msg_queue \in [Threads -> Seq(Message)] BY DEF TypeOK, QueueTypeOK
<1>2. /\ msg_queue'[t] = Append(msg_queue[t], m)
      /\ \A u \in Threads : u # t => msg_queue'[u] = msg_queue[u]
  BY <1>1 DEF Send
<1>3. \A i \in 1..Len(Append(msg_queue[t], m)) :
        \/ i \in 1..Len(msg_queue[t]) /\ Append(msg_queue[t], m)[i] = msg_queue[t][i]
        \/ i = Len(msg_queue[t]) + 1 /\ Append(msg_queue[t], m)[i] = m
  <2>1. msg_queue[t] \in Seq(Message) BY <1>1
  <2> QED BY <2>1, AppendIndex
<1>4. ASSUME NEW u \in Threads, NEW i \in 1..Len(msg_queue'[u])
      PROVE  \/ i \in 1..Len(msg_queue[u]) /\ msg_queue'[u][i] = msg_queue[u][i]
             \/ u = t /\ i = Len(msg_queue[t]) + 1 /\ msg_queue'[u][i] = m
  <2>1. CASE u = t BY <1>2, <1>3, <2>1, Zenon
  <2>2. CASE u # t BY <1>2, <2>2, Zenon
  <2> QED BY <2>1, <2>2
<1> QED BY <1>4

\* No Start message is added.
LEMMA StartOnceQuiet ==
  ASSUME StartOnce, FreshStable,
         \A r \in Requests : handle[r] # "none" <=> handle'[r] # "none",
         \A u \in Threads : \A i \in 1..Len(msg_queue'[u]) : \A r \in Requests :
           StartAt(u, i, r)' => i \in 1..Len(msg_queue[u]) /\ StartAt(u, i, r),
         call'.pc = "enqueue" => lock' # None /\ handle'[call'.req] = "none"
  PROVE  StartOnce'
<1>1. \A r \in Requests : handle'[r] = "none" => Fresh(r)'
  BY DEF StartOnce, FreshStable
<1>2. ASSUME NEW r \in Requests, NEW u \in Threads, NEW i \in 1..Len(msg_queue'[u]),
             StartAt(u, i, r)'
      PROVE  handle'[r] # "none" /\ Fresh(r)'
  BY <1>2 DEF StartOnce, FreshStable
<1>3. ASSUME NEW r \in Requests, NEW u \in Threads, NEW v \in Threads,
             NEW i \in 1..Len(msg_queue'[u]), NEW j \in 1..Len(msg_queue'[v]),
             StartAt(u, i, r)', StartAt(v, j, r)'
      PROVE  u = v /\ i = j
  BY <1>3 DEF StartOnce
<1> QED BY <1>1, <1>2, <1>3 DEF StartOnce

\* A message other than Start is enqueued.
LEMMA StartOnceSend ==
  ASSUME TypeOK, StartOnce, FreshStable, NEW t \in Threads, NEW m \in Message,
         Send(t, m), m.op # "Start",
         \A r \in Requests : handle[r] # "none" <=> handle'[r] # "none",
         call'.pc = "enqueue" => lock' # None /\ handle'[call'.req] = "none"
  PROVE  StartOnce'
<1>1. \A u \in Threads : \A i \in 1..Len(msg_queue'[u]) : \A r \in Requests :
           StartAt(u, i, r)' => i \in 1..Len(msg_queue[u]) /\ StartAt(u, i, r)
  BY SendEffect DEF StartAt
<1> QED BY <1>1, StartOnceQuiet

\* The queues are untouched.
LEMMA StartOnceIdle ==
  ASSUME StartOnce, FreshStable, UNCHANGED msg_queue,
         \A r \in Requests : handle[r] # "none" <=> handle'[r] # "none",
         call'.pc = "enqueue" => lock' # None /\ handle'[call'.req] = "none"
  PROVE  StartOnce'
<1>1. \A u \in Threads : \A i \in 1..Len(msg_queue'[u]) : \A r \in Requests :
           StartAt(u, i, r)' => i \in 1..Len(msg_queue[u]) /\ StartAt(u, i, r)
  BY DEF StartAt
<1> QED BY <1>1, StartOnceQuiet

\* A request is refused: it was not known and is not started.
LEMMA StartOnceRefuse ==
  ASSUME StartOnce, FreshStable, UNCHANGED msg_queue, NEW x \in Requests,
         handle[x] = "none", handle' = [handle EXCEPT ![x] = "refused"],
         handle \in [Requests -> {"none", "valid", "refused", "released"}],
         call'.pc # "enqueue"
  PROVE  StartOnce'
<1>1. \A r \in Requests : handle'[r] = "none" => handle[r] = "none" OBVIOUS
<1>2. \A r \in Requests : handle[r] # "none" => handle'[r] # "none" OBVIOUS
<1>3. \A r \in Requests : handle'[r] = "none" => Fresh(r)'
  BY <1>1 DEF StartOnce, FreshStable
<1>4. ASSUME NEW r \in Requests, NEW u \in Threads, NEW i \in 1..Len(msg_queue'[u]),
             StartAt(u, i, r)'
      PROVE  handle'[r] # "none" /\ Fresh(r)'
  BY <1>2, <1>4 DEF StartOnce, FreshStable, StartAt
<1>5. ASSUME NEW r \in Requests, NEW u \in Threads, NEW v \in Threads,
             NEW i \in 1..Len(msg_queue'[u]), NEW j \in 1..Len(msg_queue'[v]),
             StartAt(u, i, r)', StartAt(v, j, r)'
      PROVE  u = v /\ i = j
  BY <1>5 DEF StartOnce, StartAt
<1> QED BY <1>3, <1>4, <1>5 DEF StartOnce

\* The Start message of x is enqueued.
LEMMA StartOnceStart ==
  ASSUME TypeOK, StartOnce, FreshStable, NEW t \in Threads, NEW x \in Requests,
         Send(t, [op |-> "Start", req |-> x]),
         handle[x] = "none", handle' = [handle EXCEPT ![x] = "valid"],
         call'.pc # "enqueue"
  PROVE  StartOnce'
<1> DEFINE m == [op |-> "Start", req |-> x]
<1>0. m \in Message /\ m.op = "Start" /\ m.req = x BY DEF Message
<1>a. \A r \in Requests : handle'[r] = IF r = x THEN "valid" ELSE handle[r]
  BY DEF TypeOK, ApiTypeOK
<1>b. Len(msg_queue[t]) \in Nat BY DEF TypeOK, QueueTypeOK
<1> HIDE DEF m
<1>1. \A u \in Threads : \A i \in 1..Len(msg_queue'[u]) : \A r \in Requests :
        StartAt(u, i, r)' => \/ i \in 1..Len(msg_queue[u]) /\ StartAt(u, i, r)
                             \/ u = t /\ i = Len(msg_queue[t]) + 1 /\ r = x
  <2>1. Send(t, m) BY DEF m
  <2> QED BY <1>0, <2>1, SendEffect DEF StartAt
<1>2. \A u \in Threads : \A i \in 1..Len(msg_queue[u]) : ~StartAt(u, i, x)
  BY DEF StartOnce
<1>3. \A r \in Requests : handle'[r] = "none" => Fresh(r)'
  BY <1>a DEF StartOnce, FreshStable
<1>4. ASSUME NEW r \in Requests, NEW u \in Threads, NEW i \in 1..Len(msg_queue'[u]),
             StartAt(u, i, r)'
      PROVE  handle'[r] # "none" /\ Fresh(r)'
  <2>1. CASE r = x BY <2>1, <1>a DEF StartOnce, FreshStable
  <2>2. CASE r # x BY <2>2, <1>a, <1>1, <1>4 DEF StartOnce, FreshStable
  <2> QED BY <2>1, <2>2
<1>5. ASSUME NEW r \in Requests, NEW u \in Threads, NEW v \in Threads,
             NEW i \in 1..Len(msg_queue'[u]), NEW j \in 1..Len(msg_queue'[v]),
             StartAt(u, i, r)', StartAt(v, j, r)'
      PROVE  u = v /\ i = j
  <2>1. CASE r = x BY <2>1, <1>1, <1>2, <1>5
  <2>2. CASE r # x BY <2>2, <1>1, <1>5 DEF StartOnce
  <2> QED BY <2>1, <2>2
<1> QED BY <1>3, <1>4, <1>5 DEF StartOnce

\* The core is untouched: only StartOnce is left to show.
LEMMA CoreStep ==
  ASSUME EngineInv, UNCHANGED coreVars, FreshStable => StartOnce'
  PROVE  EngineInv'
BY CoreFrame DEF EngineInv

-----------------------------------------------------------------------------
(* The API threads.                                                        *)

LEMMA ClientInv ==
  ASSUME TypeOK, EngineInv, NEW c \in Clients, ClientNext(c)
  PROVE  EngineInv'
<1>0. StartOnce /\ c \in Threads /\ c # None
  BY EngineAssumption DEF EngineInv, Threads
<1>a. handle \in [Requests -> {"none", "valid", "refused", "released"}] BY DEF TypeOK, ApiTypeOK
<1>b. UNCHANGED apiFrame => UNCHANGED coreVars
  BY DEF apiFrame, coreVars, batchVars, tokenVars, outVars, stopVars
<1>c. call.pc = "enqueue" => lock # None /\ call.req \in Requests /\ handle[call.req] = "none"
  BY <1>0 DEF StartOnce, TypeOK, ApiTypeOK, Call
<1>d. NoCall.pc # "enqueue" BY DEF NoCall
<1>1. ASSUME NEW r \in Requests, StartRequest(c, r) PROVE EngineInv'
  <2> USE <1>1 DEF StartRequest
  <2>1. UNCHANGED coreVars BY <1>b
  <2>2. FreshStable => StartOnce' BY <1>0, StartOnceIdle
  <2> QED BY <2>1, <2>2, CoreStep
<1>2. ASSUME NEW r \in Requests, StartRequestRefused(c, r) PROVE EngineInv'
  <2> USE <1>2 DEF StartRequestRefused
  <2>1. UNCHANGED coreVars BY <1>b
  <2>2. FreshStable => StartOnce' BY <1>0, <1>a, <1>c, StartOnceRefuse
  <2> QED BY <2>1, <2>2, CoreStep
<1>3. ASSUME StartRequestEnqueue(c) PROVE EngineInv'
  <2> USE <1>3 DEF StartRequestEnqueue
  <2>1. UNCHANGED coreVars BY <1>b
  <2>2. PICK x \in Requests : x = call.req BY <1>c
  <2>3. FreshStable => StartOnce' BY <1>0, <1>c, <1>d, <2>2, StartOnceStart
  <2> QED BY <2>1, <2>3, CoreStep
<1>4. ASSUME StartRequestRollback(c) PROVE EngineInv'
  <2> USE <1>4 DEF StartRequestRollback
  <2>1. UNCHANGED coreVars BY <1>b
  <2>2. PICK x \in Requests : x = call.req BY <1>c
  <2>3. FreshStable => StartOnce' BY <1>0, <1>a, <1>c, <1>d, <2>2, StartOnceRefuse
  <2> QED BY <2>1, <2>3, CoreStep
<1>5. ASSUME NEW op \in {"Stop", "Release", "Sync", "SyncAll"}, NEW r,
             op = "SyncAll" => r = None, RequestCall(c, op, r)
      PROVE  EngineInv'
  <2> USE <1>5 DEF RequestCall
  <2>1. UNCHANGED coreVars BY <1>b
  <2> DEFINE m == [op |-> op, req |-> r]
  <2>2. m \in Message /\ m.op # "Start" BY DEF Message
  <2>3. \A x \in Requests : handle[x] # "none" <=> handle'[x] # "none" BY <1>a
  <2>4. Send(c, m) /\ call'.pc # "enqueue" OBVIOUS
  <2> HIDE DEF m
  <2>5. FreshStable => StartOnce' BY <1>0, <2>2, <2>3, <2>4, StartOnceSend
  <2> QED BY <2>1, <2>5, CoreStep
<1>6. ASSUME RequestReturn(c) PROVE EngineInv'
  <2> USE <1>6 DEF RequestReturn
  <2>1. UNCHANGED coreVars BY <1>b
  <2>2. FreshStable => StartOnce' BY <1>0, <1>d, StartOnceIdle
  <2> QED BY <2>1, <2>2, CoreStep
<1> QED BY <1>1, <1>2, <1>3, <1>4, <1>5, <1>6 DEF ClientNext

LEMMA LoraInv ==
  ASSUME TypeOK, EngineInv, LoraNext
  PROVE  EngineInv'
<1>1. UNCHANGED <<apiVars, msg_queue, apiFrame>>
  BY DEF LoraNext, LoadLoraByName, UnloadLoraByName
<1>2. UNCHANGED coreVars BY <1>1 DEF apiFrame, coreVars, batchVars, tokenVars, outVars, stopVars
<1>3. UNCHANGED <<lock, call, handle>> /\ StartOnce BY <1>1 DEF apiVars, EngineInv
<1>4. FreshStable => StartOnce' BY <1>1, <1>3, StartOnceIdle DEF StartOnce
<1> QED BY <1>2, <1>4, CoreStep

LEMMA StopperInv ==
  ASSUME TypeOK, EngineInv, NEW s \in Stoppers, StopperNext(s)
  PROVE  EngineInv'
<1>0. StartOnce /\ s \in Threads BY DEF EngineInv, Threads
<1>1. UNCHANGED <<stopFrame, stop_reply>>
  BY DEF StopperNext, StopModel, StopModelSet, StopModelSend, StopModelRollback,
         StopModelReturn
<1>2. UNCHANGED coreVars BY <1>1 DEF stopFrame, coreVars, batchVars, tokenVars, outVars
<1>3. UNCHANGED <<lock, call, handle>> BY <1>1 DEF stopFrame, apiVars
<1>4. CASE StopModelSend(s)
  <2> DEFINE m == [op |-> "GracefulStop", req |-> None]
  <2>1. m \in Message /\ m.op # "Start" BY DEF Message
  <2>2. Send(s, m) BY <1>4 DEF StopModelSend
  <2> HIDE DEF m
  <2>3. FreshStable => StartOnce' BY <1>0, <1>3, <2>1, <2>2, StartOnceSend DEF StartOnce
  <2> QED BY <1>2, <2>3, CoreStep
<1>5. CASE UNCHANGED msg_queue
  <2>1. FreshStable => StartOnce' BY <1>0, <1>3, <1>5, StartOnceIdle DEF StartOnce
  <2> QED BY <1>2, <2>1, CoreStep
<1> QED BY <1>4, <1>5 DEF StopperNext, StopModel, StopModelSet, StopModelRollback,
                          StopModelReturn

-----------------------------------------------------------------------------
(* The message phase.                                                      *)

\* What try_dequeue does to the queues.
LEMMA ReceiveEffect ==
  ASSUME TypeOK, NEW t \in Threads, NEW op, Receive(t, op)
  PROVE  /\ 1 \in 1..Len(msg_queue[t]) /\ Head(msg_queue[t]) = msg_queue[t][1]
         /\ Head(msg_queue[t]) \in Message
         /\ \A u \in Threads : \A i \in 1..Len(msg_queue'[u]) :
              \/ u = t /\ i + 1 \in 1..Len(msg_queue[t]) /\ msg_queue'[t][i] = msg_queue[t][i + 1]
              \/ u # t /\ i \in 1..Len(msg_queue[u]) /\ msg_queue'[u][i] = msg_queue[u][i]
<1> DEFINE q == msg_queue[t]
<1>1. msg_queue \in [Threads -> Seq(Message)] BY DEF TypeOK, QueueTypeOK
<1>2. q \in Seq(Message) /\ q # <<>> BY <1>1 DEF Receive
<1>3. /\ msg_queue'[t] = Tail(q)
      /\ \A u \in Threads : u # t => msg_queue'[u] = msg_queue[u]
  BY <1>1 DEF Receive
<1> HIDE DEF q
<1>4. 1 \in 1..Len(q) /\ Head(q) = q[1] /\ Head(q) \in Message BY <1>2
<1>5. \A i \in 1..Len(Tail(q)) : i + 1 \in 1..Len(q) /\ Tail(q)[i] = q[i + 1]
  BY <1>2
<1>6. ASSUME NEW u \in Threads, NEW i \in 1..Len(msg_queue'[u])
      PROVE  \/ u = t /\ i + 1 \in 1..Len(q) /\ msg_queue'[t][i] = q[i + 1]
             \/ u # t /\ i \in 1..Len(msg_queue[u]) /\ msg_queue'[u][i] = msg_queue[u][i]
  <2>1. CASE u = t BY <1>3, <1>5, <2>1, Zenon
  <2>2. CASE u # t BY <1>3, <2>2, Zenon
  <2> QED BY <2>1, <2>2
<1> QED BY <1>4, <1>6 DEF q

LEMMA StartOnceReceive ==
  ASSUME TypeOK, StartOnce, NEW t \in Threads, NEW op, Receive(t, op),
         UNCHANGED <<lock, call, handle>>,
         \A r \in Requests :
           Fresh(r) /\ ~(op = "Start" /\ r = Head(msg_queue[t]).req) => Fresh(r)'
  PROVE  StartOnce'
<1>1. \A u \in Threads : \A i \in 1..Len(msg_queue'[u]) : \A r \in Requests :
        StartAt(u, i, r)' =>
          \/ u = t /\ i + 1 \in 1..Len(msg_queue[t]) /\ StartAt(t, i + 1, r)
          \/ u # t /\ i \in 1..Len(msg_queue[u]) /\ StartAt(u, i, r)
  BY ReceiveEffect DEF StartAt
<1>2. \A r \in Requests : op = "Start" /\ r = Head(msg_queue[t]).req =>
        1 \in 1..Len(msg_queue[t]) /\ StartAt(t, 1, r)
  BY ReceiveEffect DEF StartAt, Receive
<1>3. \A r \in Requests : handle'[r] = "none" => Fresh(r)'
  BY <1>2 DEF StartOnce
<1>4. ASSUME NEW r \in Requests, NEW u \in Threads, NEW i \in 1..Len(msg_queue'[u]),
             StartAt(u, i, r)'
      PROVE  handle'[r] # "none" /\ Fresh(r)'
  <2>1. i \in Nat /\ i # 0 OBVIOUS
  <2>2. PICK j \in 1..Len(msg_queue[u]) : StartAt(u, j, r) /\ (u = t => j = i + 1)
    BY <1>1, <1>4
  <2>3. handle[r] # "none" /\ Fresh(r) BY <2>2 DEF StartOnce
  <2>4. ~(op = "Start" /\ r = Head(msg_queue[t]).req)
    <3>1. SUFFICES ASSUME 1 \in 1..Len(msg_queue[t]), StartAt(t, 1, r) PROVE FALSE
      BY <1>2
    <3>2. u = t /\ j = 1 BY <2>2, <3>1 DEF StartOnce
    <3> QED BY <2>1, <2>2, <3>2
  <2> QED BY <2>3, <2>4
<1>5. ASSUME NEW r \in Requests, NEW u \in Threads, NEW v \in Threads,
             NEW i \in 1..Len(msg_queue'[u]), NEW j \in 1..Len(msg_queue'[v]),
             StartAt(u, i, r)', StartAt(v, j, r)'
      PROVE  u = v /\ i = j
  <2>1. i \in Nat /\ j \in Nat OBVIOUS
  <2>2. PICK a \in 1..Len(msg_queue[u]) :
          StartAt(u, a, r) /\ a = IF u = t THEN i + 1 ELSE i
    BY <1>1, <1>5
  <2>3. PICK b \in 1..Len(msg_queue[v]) :
          StartAt(v, b, r) /\ b = IF v = t THEN j + 1 ELSE j
    BY <1>1, <1>5
  <2>4. u = v /\ a = b BY <2>2, <2>3 DEF StartOnce
  <2> QED BY <2>1, <2>2, <2>3, <2>4
<1> QED BY <1>3, <1>4, <1>5 DEF StartOnce

\* Stopping a request, and possibly forgetting it, keeps every other request's
\* life and every running request a candidate.
LEMMA StopKeeps ==
  ASSUME TypeOK, FramesNeverOverdrawn, Life, NEW r \in Requests, StopRequest(r),
         handle_map \ {r} \subseteq handle_map', handle_map' \subseteq handle_map,
         all_request_map \ {r} \subseteq all_request_map',
         UNCHANGED continued, queue_status' \in [Requests -> Status],
         \A x \in Requests : x # r => queue_status'[x] = queue_status[x],
         queue_status'[r] = queue_status[r] \/
           (queue_status'[r] \in Terminal /\ ~Fresh(r))
  PROVE  /\ FramesNeverOverdrawn' /\ Life' /\ FreshStable
         /\ running \subseteq Candidates => running' \subseteq Candidates'
         /\ running' \subseteq running
<1> USE StopEffect
<1>1. FramesNeverOverdrawn'
  <2>1. free_frames \in Int /\ free_frames' \in Int
    BY StopRequestType DEF TypeOK, BatchTypeOK
  <2> QED BY <2>1 DEF FramesNeverOverdrawn
<1>2. ASSUME NEW x \in Requests, InSeq(pending', x) PROVE PendingLife(x)'
  BY <1>2 DEF Life, PendingLife
<1>3. ASSUME NEW x \in running' PROVE RunningLife(x)'
  <2>1. x \in running /\ x # r /\ x \in Requests BY DEF TypeOK, BatchTypeOK
  <2> QED BY <2>1 DEF Life, RunningLife
<1>4. ASSUME NEW x \in Requests, continued'[x] = TRUE, queue_status'[x] \notin Terminal
      PROVE  queue_status'[x] = "Generating"
  BY <1>4 DEF Life
<1>5. Life' BY <1>2, <1>3, <1>4 DEF Life, InSeq
<1>6. ASSUME NEW x \in Requests, Fresh(x) PROVE Fresh(x)'
  <2>1. CASE x # r BY <1>6, <2>1 DEF Fresh, InSeq
  <2>2. CASE x = r
    <3>1. UNCHANGED batchVars BY <1>6, <2>2 DEF Fresh
    <3>2. UNCHANGED <<pending, running, status, finish>> BY <3>1 DEF batchVars
    <3> QED BY <1>6, <2>2, <3>2 DEF Fresh, InSeq
  <2> QED BY <2>1, <2>2
<1>7. FreshStable BY <1>6 DEF FreshStable
<1>8. ASSUME running \subseteq Candidates PROVE running' \subseteq Candidates'
  BY <1>8 DEF Candidates, TypeOK, BatchTypeOK
<1> QED BY <1>1, <1>5, <1>7, <1>8

LEMMA HandleInv ==
  ASSUME TypeOK, EngineInv, NEW t \in Threads, HandleMessage(t)
  PROVE  EngineInv'
<1>0. FramesNeverOverdrawn /\ StartOnce /\ Life /\ Phase /\ Count BY DEF EngineInv
<1>1. /\ lp = "message" /\ UNCHANGED messageFrame
      /\ running \subseteq Candidates /\ finished_ctx = {} /\ Stuck = {}
  <2>1. lp = "message" /\ UNCHANGED messageFrame
    BY DEF HandleMessage, HandleGracefulStop, HandleStart, HandleStartDenied,
           HandleStop, HandleRelease, HandleSync, Receive
  <2> QED BY <2>1, <1>0 DEF Phase
<1>2. UNCHANGED <<lock, call, handle, lp, next_phase, todo, finished_ctx, continued,
                  queue_status, stop_reply, ignored>>
  BY <1>1 DEF messageFrame, outVars, stopVars, tokenVars
<1>3. Count' /\ Answered' BY <1>1, <1>2 DEF Count, EngineInv, Answered
<1>4. ASSUME running' \subseteq Candidates', running' \subseteq running PROVE Phase'
  <2>1. Stuck' = {} BY <1>1, <1>2, <1>4, StuckShrinks
  <2> QED BY <1>1, <1>2, <1>4, <2>1 DEF Phase
<1>5. ASSUME NEW op \in {"GracefulStop", "Start", "Sync", "SyncAll"}, Receive(t, op),
             UNCHANGED <<batchVars, handle_map, all_request_map>>
      PROVE  EngineInv'
  <2>1. UNCHANGED coreVars BY <1>2, <1>5 DEF coreVars, batchVars
  <2>2. FreshStable => StartOnce' BY <1>0, <1>2, <1>5, StartOnceReceive DEF FreshStable
  <2> QED BY <2>1, <2>2, CoreStep
<1>6. CASE HandleStart(t)
  <2> USE <1>6 DEF HandleStart
  <2>1. Head(msg_queue[t]) \in Message /\ Head(msg_queue[t]).op = "Start"
    BY ReceiveEffect DEF Receive
  <2>2. PICK r \in Requests : r = Head(msg_queue[t]).req BY <2>1 DEF Message
  <2>3. Fresh(r)
    <3>1. 1 \in 1..Len(msg_queue[t]) /\ StartAt(t, 1, r)
      BY <2>1, <2>2, ReceiveEffect DEF StartAt
    <3> QED BY <1>0, <3>1 DEF StartOnce
  <2>4. /\ handle_map' = handle_map \cup {r} /\ pending' = Append(pending, r)
        /\ all_request_map' = all_request_map \cup {r}
        /\ UNCHANGED <<running, status, finish, free_frames, unfinished>>
    BY <2>2
  <2>5. pending \in Seq(Requests) /\ NoDup(pending) BY <1>0 DEF TypeOK, BatchTypeOK, Life
  <2>6. /\ NoDup(pending') /\ InSeq(pending', r)
        /\ \A x : InSeq(pending', x) => InSeq(pending, x) \/ x = r
    BY <2>3, <2>4, <2>5, AppendEffect DEF Fresh
  <2>7. ASSUME NEW x \in Requests, Fresh(x), x # r PROVE Fresh(x)'
    BY <1>2, <2>4, <2>6, <2>7 DEF Fresh
  <2>8. ASSUME NEW x \in Requests, InSeq(pending', x) PROVE PendingLife(x)'
    <3>1. CASE x = r BY <1>2, <2>3, <2>4, <3>1 DEF Fresh, PendingLife
    <3>2. CASE InSeq(pending, x) BY <1>0, <1>2, <2>4, <3>2 DEF Life, PendingLife
    <3> QED BY <2>6, <2>8, <3>1, <3>2
  <2>9. ASSUME NEW x \in running' PROVE RunningLife(x)'
    BY <1>0, <1>2, <2>4 DEF Life, RunningLife
  <2>10. Life' BY <1>0, <1>2, <2>6, <2>8, <2>9 DEF Life
  <2>11. running' \subseteq Candidates' BY <1>1, <1>2, <2>4 DEF Candidates
  <2>12. StartOnce' BY <1>0, <1>2, <2>2, <2>7, StartOnceReceive
  <2>13. FramesNeverOverdrawn' BY <1>0, <2>4 DEF FramesNeverOverdrawn
  <2>14. running' \subseteq running BY <2>4
  <2> QED BY <1>3, <1>4, <2>10, <2>11, <2>12, <2>13, <2>14 DEF EngineInv
<1>7. CASE HandleStop(t) \/ HandleRelease(t)
  <2>1. PICK op \in {"Stop", "Release"} : Receive(t, op)
    BY <1>7 DEF HandleStop, HandleRelease
  <2>2. PICK r \in Requests : r = Head(msg_queue[t]).req
    BY <2>1, ReceiveEffect DEF Receive, Message
  <2>3. /\ StopRequest(r)
        /\ handle_map \ {r} \subseteq handle_map' /\ handle_map' \subseteq handle_map
        /\ all_request_map \ {r} \subseteq all_request_map'
    BY <1>7, <2>2 DEF HandleStop, HandleRelease
  <2>4. queue_status' \in [Requests -> Status] BY <1>2 DEF TypeOK, OutTypeOK
  <2>5. FramesNeverOverdrawn' /\ Life' /\ FreshStable /\ running' \subseteq Candidates'
       /\ running' \subseteq running
    BY <1>0, <1>1, <1>2, <2>3, <2>4, StopKeeps
  <2>6. StartOnce' BY <1>0, <1>2, <2>1, <2>5, StartOnceReceive DEF FreshStable
  <2> QED BY <1>3, <1>4, <2>5, <2>6 DEF EngineInv
<1>8. CASE HandleGracefulStop(t) BY <1>5, <1>8 DEF HandleGracefulStop
<1>9. CASE HandleStartDenied(t) BY <1>5, <1>9 DEF HandleStartDenied
<1>10. CASE HandleSync(t) BY <1>5, <1>10 DEF HandleSync
<1> QED BY <1>6, <1>7, <1>8, <1>9, <1>10 DEF HandleMessage

\* A step of the loop that leaves the queues and the API alone.
LEMMA LoopKeeps ==
  ASSUME EngineInv, FreshStable, lp # "exited", UNCHANGED loopFrame
  PROVE  StartOnce' /\ Answered'
<1>1. UNCHANGED <<lock, call, handle, msg_queue, stop_reply>> BY DEF loopFrame, stopVars
<1>2. StartOnce' BY <1>1, StartOnceIdle DEF EngineInv, StartOnce
<1>3. Answered' BY <1>1 DEF EngineInv, Answered
<1> QED BY <1>2, <1>3

LEMMA SkipInv ==
  ASSUME TypeOK, EngineInv, SkipMessages
  PROVE  EngineInv'
<1> USE DEF SkipMessages, EngineInv
<1>1. UNCHANGED <<handle_map, running, pending, status, finish, free_frames,
                  finished_ctx, all_request_map, continued, queue_status, ignored>>
  BY DEF batchVars, outVars, tokenVars
<1>2. FreshStable BY <1>1 DEF FreshStable, Fresh, InSeq
<1>3. FramesNeverOverdrawn' BY <1>1 DEF FramesNeverOverdrawn
<1>4. Life' BY <1>1 DEF Life, PendingLife, RunningLife, InSeq, NoDup
<1>5. Phase' BY <1>1 DEF Phase, Candidates, Stuck
<1>6. Count' BY DEF Count
<1> QED BY <1>2, <1>3, <1>4, <1>5, <1>6, LoopKeeps

-----------------------------------------------------------------------------
(* The prefill phase.                                                      *)

\* The head of the queue leaves it; if it joins the batch, it does so as a
\* running request with an open result queue.
LEMMA PopKeeps ==
  ASSUME TypeOK, Life, pending # <<>>, NEW r \in Requests, r = Head(pending),
         pending' = Tail(pending), running \subseteq running', running' \subseteq running \cup {r},
         UNCHANGED <<handle_map, all_request_map, continued, queue_status>>,
         \A x \in Requests : x # r => status'[x] = status[x] /\ finish'[x] = finish[x],
         r \in running' => status'[r] = "ContextFinished" /\ finish'[r] = finish[r]
  PROVE  Life' /\ FreshStable
<1>1. /\ NoDup(pending') /\ InSeq(pending, r)
      /\ \A x : InSeq(pending', x) => InSeq(pending, x) /\ x # r
  BY TailEffect DEF TypeOK, BatchTypeOK, Life
<1>2. PendingLife(r) BY <1>1 DEF Life
<1>3. ASSUME NEW x \in Requests, InSeq(pending', x) PROVE PendingLife(x)'
  BY <1>1, <1>3 DEF Life, PendingLife
<1>4. ASSUME NEW x \in running' PROVE RunningLife(x)'
  <2>1. CASE x = r BY <1>2, <2>1 DEF PendingLife, RunningLife, Terminal
  <2>2. CASE x # r
    <3>1. x \in running /\ x \in Requests BY <2>2 DEF TypeOK, BatchTypeOK
    <3> QED BY <2>2, <3>1 DEF Life, RunningLife
  <2> QED BY <2>1, <2>2
<1>5. Life' BY <1>1, <1>3, <1>4 DEF Life
<1>6. ASSUME NEW x \in Requests, Fresh(x) PROVE Fresh(x)'
  <2>1. x # r BY <1>1, <1>6 DEF Fresh
  <2> QED BY <1>1, <1>6, <2>1 DEF Fresh
<1> QED BY <1>5, <1>6 DEF FreshStable

\* What a prefill step does to the phase.
LEMMA ContextPhase ==
  ASSUME EngineInv, Life', lp = "context",
         UNCHANGED <<finished_ctx, handle_map>>,
         (lp' = lp /\ running \subseteq running') \/ UpdateThen("decode") \/ UpdateThen("aborted")
  PROVE  Phase' /\ Count'
<1>1. running' \subseteq handle_map BY DEF Life, RunningLife
<1>2. finished_ctx = {} BY DEF EngineInv, Phase
<1> QED BY <1>1, <1>2 DEF Phase, Count, UpdateThen

LEMMA ContextInv ==
  ASSUME TypeOK, EngineInv, NEW r \in Requests, ContextNext(r)
  PROVE  EngineInv'
<1>0. FramesNeverOverdrawn /\ Life /\ Phase BY DEF EngineInv
<1>1. lp = "context" /\ CanContext /\ r = Head(pending) /\ pending # <<>>
  BY DEF ContextNext, ContextNoFrame, ContextChunk, ContextChunkIgnored, ContextRun,
         ContextRunFinish, ContextIgnored, ContextLoraMissing, ContextFault, Admits, CanContext
<1>2. UNCHANGED contextFrame
  BY DEF ContextNext, ContextNoFrame, ContextChunk, ContextChunkIgnored, ContextRun,
         ContextRunFinish, ContextIgnored, ContextLoraMissing, ContextFault, AfterContext
<1>3. UNCHANGED <<loopFrame, handle_map, finished_ctx, all_request_map, continued, queue_status>>
  BY <1>2 DEF contextFrame, outVars
<1>4. ASSUME Life', FreshStable, free_frames' >= 0,
             (lp' = lp /\ running \subseteq running') \/ UpdateThen("decode") \/ UpdateThen("aborted")
      PROVE  EngineInv'
  <2>1. Phase' /\ Count' BY <1>1, <1>3, <1>4, ContextPhase
  <2>2. StartOnce' /\ Answered' BY <1>1, <1>3, <1>4, LoopKeeps
  <2> QED BY <1>4, <2>1, <2>2 DEF EngineInv, FramesNeverOverdrawn
<1>5. /\ status \in [Requests -> Status] /\ finish \in [Requests -> BOOLEAN]
      /\ free_frames \in Int /\ free_frames >= 0
  BY <1>0 DEF TypeOK, BatchTypeOK, FramesNeverOverdrawn
<1>6. AfterContext(r) => (lp' = lp \/ UpdateThen("decode")) /\ pending' = Tail(pending)
  BY DEF AfterContext
<1>7. ASSUME UNCHANGED <<running, pending, status, finish, free_frames>>,
             UpdateThen("decode") \/ UpdateThen("aborted")
      PROVE  EngineInv'
  <2>1. Life' BY <1>0, <1>3, <1>7 DEF Life, PendingLife, RunningLife, InSeq, NoDup
  <2>2. FreshStable BY <1>3, <1>7 DEF FreshStable, Fresh, InSeq
  <2> QED BY <1>4, <1>5, <1>7, <2>1, <2>2
<1>8. ASSUME UNCHANGED <<running, free_frames>>, pending' = Tail(pending),
             lp' = lp \/ UpdateThen("decode"), NEW st, NEW fi,
             status' = [status EXCEPT ![r] = st], finish' = [finish EXCEPT ![r] = fi]
      PROVE  EngineInv'
  <2>1. r \notin running
    <3>1. InSeq(pending, r) BY <1>0, <1>1, TailEffect DEF TypeOK, BatchTypeOK, Life
    <3> QED BY <1>0, <3>1 DEF Life, PendingLife
  <2>2. \A x \in Requests : x # r => status'[x] = status[x] /\ finish'[x] = finish[x]
    BY <1>5, <1>8
  <2>3. Life' /\ FreshStable BY <1>0, <1>1, <1>3, <1>8, <2>1, <2>2, PopKeeps
  <2> QED BY <1>4, <1>5, <1>8, <2>3
<1>9. CASE ContextNoFrame(r) BY <1>8, <1>9 DEF ContextNoFrame
<1>10. CASE ContextChunk(r) BY <1>7, <1>10 DEF ContextChunk
<1>a. Spans(InputLen[r]) \in Nat /\ (Admits(r) => Spans(InputLen[r]) <= free_frames)
  <2>1. Admits(r) => ContextFrames(r) <= free_frames BY DEF Admits
  <2>2. Spans(InputLen[r]) \in Nat BY SpansType, EngineAssumption DEF EngineAssumption
  <2> QED BY <1>5, <2>1, <2>2, ContextFramesCover
<1>b. ASSUME free_frames' = free_frames \/ free_frames' = free_frames - Spans(InputLen[r]),
             Admits(r), running' = running \cup {r}, UNCHANGED finish, AfterContext(r),
             status' = [status EXCEPT ![r] = "ContextFinished"]
      PROVE  EngineInv'
  <2>1. free_frames' >= 0 BY <1>5, <1>a, <1>b
  <2>2. /\ \A x \in Requests : x # r => status'[x] = status[x] /\ finish'[x] = finish[x]
        /\ status'[r] = "ContextFinished" /\ finish'[r] = finish[r]
    BY <1>5, <1>b
  <2>3. Life' /\ FreshStable BY <1>0, <1>1, <1>3, <1>6, <1>b, <2>2, PopKeeps
  <2> QED BY <1>4, <1>6, <1>b, <2>1, <2>3
<1>11. CASE ContextRun(r) BY <1>b, <1>11 DEF ContextRun
<1>c. CASE ContextIgnored(r) BY <1>b, <1>c DEF ContextIgnored
<1>d. CASE ContextChunkIgnored(r) BY <1>7, <1>d DEF ContextChunkIgnored
<1>12. CASE ContextRunFinish(r) BY <1>6, <1>8, <1>12 DEF ContextRunFinish
<1>13. CASE ContextLoraMissing(r) BY <1>6, <1>8, <1>13 DEF ContextLoraMissing
<1>14. CASE ContextFault(r)
  <2>1. CASE IsChunk(r) BY <1>7, <1>14, <2>1 DEF ContextFault
  <2>2. CASE ~IsChunk(r) BY <1>8, <1>14, <2>2 DEF ContextFault
  <2> QED BY <2>1, <2>2
<1> QED BY <1>9, <1>10, <1>11, <1>12, <1>13, <1>14, <1>c, <1>d DEF ContextNext

LEMMA ContextNoneInv ==
  ASSUME TypeOK, EngineInv, ContextNone
  PROVE  EngineInv'
<1> USE DEF ContextNone, EngineInv
<1>1. UNCHANGED <<loopFrame, handle_map, finished_ctx, all_request_map, continued, queue_status,
                  running, pending, status, finish, free_frames>>
  BY DEF contextFrame, outVars, batchVars
<1>2. Life' BY <1>1 DEF Life, PendingLife, RunningLife, InSeq, NoDup
<1>3. FreshStable BY <1>1 DEF FreshStable, Fresh, InSeq
<1>4. Phase' /\ Count' BY <1>1, <1>2, ContextPhase
<1>5. FramesNeverOverdrawn' BY <1>1 DEF FramesNeverOverdrawn
<1> QED BY <1>1, <1>2, <1>3, <1>4, <1>5, LoopKeeps

-----------------------------------------------------------------------------
(* UpdateResult.                                                           *)

\* A visit that ends with a running request still open and Generating.
LEMMA VisitKeeps ==
  ASSUME TypeOK, EngineInv, NEW r \in Requests, Visit(r),
         \A x \in Requests : x # r => queue_status'[x] = queue_status[x]
                                      /\ continued'[x] = continued[x],
         InSeq(pending, r) => queue_status'[r] = queue_status[r] /\ continued'[r] = continued[r],
         r \in running => queue_status'[r] = "Generating",
         continued'[r] = TRUE /\ queue_status'[r] \notin Terminal =>
           queue_status'[r] = "Generating"
  PROVE  EngineInv'
<1> USE DEF Visit
<1>0. /\ FramesNeverOverdrawn /\ Life /\ Phase /\ Count /\ lp = "update"
      /\ todo \subseteq handle_map
  BY DEF EngineInv, Phase
<1>1. UNCHANGED <<lp, next_phase, loopFrame, handle_map, pending, running, status, finish,
                  free_frames, unfinished, finished_ctx, all_request_map, ignored>>
  BY DEF updateFrame, batchVars, tokenVars
<1>2. ASSUME NEW x \in Requests, Fresh(x) PROVE Fresh(x)'
  <2>1. x # r BY <1>0, <1>2 DEF Fresh
  <2> QED BY <1>1, <1>2, <2>1 DEF Fresh, InSeq
<1>3. StartOnce' /\ Answered' BY <1>0, <1>1, <1>2, LoopKeeps DEF FreshStable
<1>4. ASSUME NEW x \in Requests, InSeq(pending', x) PROVE PendingLife(x)'
  <2>1. InSeq(pending, x) /\ PendingLife(x) BY <1>0, <1>1, <1>4 DEF Life, InSeq
  <2> QED BY <1>1, <2>1 DEF PendingLife
<1>5. ASSUME NEW x \in running' PROVE RunningLife(x)'
  <2>1. x \in running /\ x \in Requests /\ RunningLife(x)
    BY <1>0, <1>1 DEF Life, TypeOK, BatchTypeOK
  <2> QED BY <1>1, <2>1 DEF RunningLife, Terminal
<1>6. ASSUME NEW x \in Requests, continued'[x] = TRUE, queue_status'[x] \notin Terminal
      PROVE  queue_status'[x] = "Generating"
  BY <1>0, <1>6 DEF Life
<1>7. Life' BY <1>0, <1>1, <1>4, <1>5, <1>6 DEF Life, NoDup
<1>8. running \ todo' \subseteq Candidates'
  BY <1>0, <1>1 DEF Phase, Candidates, Life, RunningLife, TypeOK, BatchTypeOK
<1>9. Phase' BY <1>0, <1>1, <1>8 DEF Phase, Stuck
<1>10. Count' BY <1>0, <1>1 DEF Count
<1>11. FramesNeverOverdrawn' BY <1>0, <1>1 DEF FramesNeverOverdrawn
<1> QED BY <1>3, <1>7, <1>9, <1>10, <1>11 DEF EngineInv

LEMMA UpdateInv ==
  ASSUME TypeOK, EngineInv, NEW r \in Requests, UpdateNext(r)
  PROVE  EngineInv'
<1>0. Life /\ Visit(r)
  BY DEF EngineInv, UpdateNext, UpdateTerminal, UpdateNotStarted, UpdateInterrupted, UpdateFetch
<1>1. /\ InSeq(pending, r) => ~Started(r)
      /\ r \in running => /\ Started(r) /\ status[r] = "ContextFinished"
                          /\ finish[r] = FALSE /\ queue_status[r] \notin Terminal
  BY <1>0 DEF Life, PendingLife, RunningLife, Started
<1>2. /\ queue_status \in [Requests -> Status] /\ continued \in [Requests -> BOOLEAN]
      /\ finish[r] \in BOOLEAN /\ continued[r] \in BOOLEAN
  BY DEF TypeOK, OutTypeOK, BatchTypeOK
<1>3. continued[r] = TRUE /\ queue_status[r] \notin Terminal => queue_status[r] = "Generating"
  BY <1>0 DEF Life
<1>4. CASE UpdateTerminal(r)
  <2>1. UNCHANGED <<queue_status, continued>> /\ queue_status[r] \in Terminal
    BY <1>4 DEF UpdateTerminal, outVars
  <2> QED BY <1>0, <1>1, <2>1, VisitKeeps
<1>5. CASE UpdateNotStarted(r)
  <2>1. UNCHANGED <<queue_status, continued>> /\ ~Started(r)
    BY <1>5 DEF UpdateNotStarted, outVars
  <2> QED BY <1>0, <1>1, <1>3, <2>1, VisitKeeps
<1>6. CASE UpdateInterrupted(r)
  <2> USE <1>6 DEF UpdateInterrupted
  <2>1. \A x \in Requests : x # r => queue_status'[x] = queue_status[x] BY <1>2
  <2>2. queue_status'[r] \in Terminal BY <1>2 DEF Terminal
  <2>3. r \notin running BY <1>1
  <2> QED BY <1>0, <1>1, <2>1, <2>2, <2>3, VisitKeeps
<1>7. CASE UpdateFetch(r)
  <2> USE <1>7 DEF UpdateFetch
  <2>1. \A x \in Requests : x # r => queue_status'[x] = queue_status[x] BY <1>2
  <2>2. \A x \in Requests : x # r => continued'[x] = continued[x] BY <1>2
  <2>3. queue_status'[r] = IF finish[r] THEN "GenerateFinished"
                           ELSE IF continued[r] THEN queue_status[r] ELSE "Generating"
    BY <1>2
  <2>4. CASE finish[r] = TRUE
    <3>1. queue_status'[r] \in Terminal /\ r \notin running BY <1>1, <2>3, <2>4 DEF Terminal
    <3> QED BY <1>0, <1>1, <2>1, <2>2, <3>1, VisitKeeps
  <2>5. CASE finish[r] = FALSE
    <3>1. queue_status'[r] = "Generating" BY <1>2, <1>3, <2>3, <2>5
    <3> QED BY <1>0, <1>1, <2>1, <2>2, <3>1, VisitKeeps
  <2> QED BY <1>2, <2>4, <2>5
<1> QED BY <1>4, <1>5, <1>6, <1>7 DEF UpdateNext

LEMMA UpdateDoneInv ==
  ASSUME TypeOK, EngineInv, UpdateResultDone
  PROVE  EngineInv'
<1> USE DEF UpdateResultDone, EngineInv
<1>1. UNCHANGED <<next_phase, todo, loopFrame, handle_map, pending, running, status, finish,
                  free_frames, unfinished, finished_ctx, all_request_map,
                  continued, queue_status, ignored>>
  BY DEF updateFrame, batchVars, outVars, tokenVars
<1>2. next_phase \in {"decode", "check", "aborted"} BY DEF TypeOK, ControlTypeOK
<1>3. Life' BY <1>1 DEF Life, PendingLife, RunningLife, InSeq, NoDup
<1>4. FreshStable BY <1>1 DEF FreshStable, Fresh, InSeq
<1>5. running \subseteq Candidates /\ finished_ctx = {} BY DEF Phase
<1>6. Phase' BY <1>1, <1>2, <1>5 DEF Phase, Candidates, Stuck
<1>7. Count' BY <1>1, <1>2 DEF Count
<1>8. FramesNeverOverdrawn' BY <1>1 DEF FramesNeverOverdrawn
<1> QED BY <1>1, <1>3, <1>4, <1>6, <1>7, <1>8, LoopKeeps

-----------------------------------------------------------------------------
(* The decoder loop.                                                       *)

LEMMA DecodeStopVictimInv ==
  ASSUME TypeOK, EngineInv, NEW v \in Requests, DecodeStopVictim(v)
  PROVE  EngineInv'
<1> USE DEF DecodeStopVictim, EngineInv
<1>1. v \in Candidates /\ v \in handle_map BY DEF ChooseVictimRequest, Longest, Candidates
<1>2. queue_status \in [Requests -> Status] BY DEF TypeOK, OutTypeOK
<1>3. UNCHANGED <<loopFrame, handle_map, all_request_map, continued>> BY DEF decodeFrame
<1>4. /\ queue_status' \in [Requests -> Status] /\ queue_status'[v] \in Terminal
      /\ \A x \in Requests : x # v => queue_status'[x] = queue_status[x]
  BY <1>2 DEF Status, Terminal
<1>5. ~Fresh(v) BY <1>1 DEF Fresh
<1>6. running \subseteq Candidates /\ finished_ctx = {} BY DEF Phase
<1>7. FramesNeverOverdrawn' /\ Life' /\ FreshStable /\ running' \subseteq Candidates'
  BY <1>3, <1>4, <1>5, <1>6, StopKeeps
<1>8. Phase' /\ Count' BY <1>6, <1>7 DEF Phase, Count
<1> QED BY <1>3, <1>7, <1>8, LoopKeeps

LEMMA DecodeNothingInv ==
  ASSUME TypeOK, EngineInv, DecodeNothing
  PROVE  EngineInv'
<1> USE DEF DecodeNothing, EngineInv
<1>1. UNCHANGED <<loopFrame, handle_map, all_request_map, continued, queue_status,
                  running, pending, status, finish, free_frames, finished_ctx>>
  BY DEF decodeFrame
<1>2. running \subseteq Candidates /\ finished_ctx = {} BY DEF Phase
<1>3. ~(OutOfFrames /\ Candidates = {})
  <2>1. SUFFICES ASSUME OutOfFrames, Candidates = {} PROVE FALSE OBVIOUS
  <2>2. NewSpans = {} BY <1>2, <2>1 DEF NewSpans
  <2>3. Cardinality(NewSpans) = 0 BY <2>2, FS_EmptySet
  <2> QED BY <2>1, <2>3 DEF OutOfFrames, FramesNeverOverdrawn, TypeOK, BatchTypeOK
<1>4. running = {} /\ unfinished' = Len(pending) BY <1>3
<1>5. Cardinality(running) = 0 /\ Len(pending) \in Nat
  BY <1>4, FS_EmptySet DEF TypeOK, BatchTypeOK
<1>6. Life' BY <1>1 DEF Life, PendingLife, RunningLife, InSeq, NoDup
<1>7. FreshStable BY <1>1 DEF FreshStable, Fresh, InSeq
<1>8. Phase' BY <1>1, <1>2, <1>4 DEF Phase, UpdateThen, Stuck
<1>9. Count' BY <1>1, <1>4, <1>5 DEF Count, UpdateThen
<1>10. FramesNeverOverdrawn' BY <1>1 DEF FramesNeverOverdrawn
<1> QED BY <1>1, <1>6, <1>7, <1>8, <1>9, <1>10, LoopKeeps

LEMMA DecodeRunInv ==
  ASSUME TypeOK, EngineInv, DecodeRun
  PROVE  EngineInv'
<1> USE DEF DecodeRun, EngineInv
<1>1. UNCHANGED <<loopFrame, handle_map, all_request_map, continued, queue_status,
                  running, pending, status, finish, todo, ignored>>
  BY DEF decodeFrame
<1>2. running \subseteq Candidates BY DEF Phase
<1>3. Life' BY <1>1 DEF Life, PendingLife, RunningLife, InSeq, NoDup
<1>4. FreshStable BY <1>1 DEF FreshStable, Fresh, InSeq
<1>5. finished_ctx' \subseteq running OBVIOUS
<1>6. Phase' BY <1>1, <1>2, <1>5 DEF Phase, Candidates, Stuck
<1>7. Count' BY <1>1 DEF Count
<1>8. FramesNeverOverdrawn'
  <2>1. Cardinality(NewSpans) \in Nat /\ free_frames \in Int BY Sizes DEF TypeOK, BatchTypeOK
  <2> QED BY <2>1 DEF OutOfFrames, FramesNeverOverdrawn
<1> QED BY <1>1, <1>3, <1>4, <1>6, <1>7, <1>8, LoopKeeps

LEMMA DecodeStopFinishedInv ==
  ASSUME TypeOK, EngineInv, NEW r \in Requests, DecodeStopFinished(r)
  PROVE  EngineInv'
<1> USE DEF DecodeStopFinished, EngineInv
<1>1. UNCHANGED <<loopFrame, handle_map, all_request_map, continued>> BY DEF decodeFrame
<1>2. running \subseteq Candidates /\ finished_ctx \subseteq running /\ r \in running BY DEF Phase
<1>3. queue_status' \in [Requests -> Status] BY DEF TypeOK, OutTypeOK
<1>4. FramesNeverOverdrawn' /\ Life' /\ FreshStable /\ running' \subseteq Candidates'
  BY <1>1, <1>2, <1>3, StopKeeps
<1>5. running' = running \ {r} /\ unfinished' = unfinished - 1 /\ pending' = pending
  BY <1>2, StopEffect
<1>6. Cardinality(running') = Cardinality(running) - 1
  <2>1. IsFiniteSet(running)
    BY FS_Subset, EngineAssumption DEF TypeOK, BatchTypeOK, EngineAssumption
  <2> QED BY <1>2, <1>5, <2>1, FS_RemoveElement
<1>7. Phase'
  <2>1. Stuck' = {} BY <1>5, StuckShrinks DEF Phase, decodeFrame
  <2> QED BY <1>2, <1>4, <1>5, <2>1 DEF Phase
<1>8. Count'
  <2>1. Len(pending) \in Nat /\ Cardinality(running) \in Nat /\ unfinished \in Int
    BY Sizes DEF TypeOK, BatchTypeOK
  <2>2. unfinished = Len(pending) + Cardinality(running) BY DEF Count
  <2> QED BY <1>5, <1>6, <2>1, <2>2 DEF Count
<1> QED BY <1>1, <1>4, <1>7, <1>8, LoopKeeps

LEMMA DecodeDoneInv ==
  ASSUME TypeOK, EngineInv, DecodeDone
  PROVE  EngineInv'
<1> USE DEF DecodeDone, EngineInv
<1>1. UNCHANGED <<loopFrame, handle_map, all_request_map, continued, queue_status, running,
                  pending, status, finish, free_frames, unfinished, finished_ctx, ignored>>
  BY DEF decodeFrame, batchVars
<1>2. Life' BY <1>1 DEF Life, PendingLife, RunningLife, InSeq, NoDup
<1>3. FreshStable BY <1>1 DEF FreshStable, Fresh, InSeq
<1>4. running \subseteq handle_map BY DEF Life, RunningLife
<1>5. Phase' BY <1>1, <1>4 DEF Phase, UpdateThen, Stuck
<1>6. Count' BY <1>1 DEF Count, UpdateThen
<1>7. FramesNeverOverdrawn' BY <1>1 DEF FramesNeverOverdrawn
<1> QED BY <1>1, <1>2, <1>3, <1>5, <1>6, <1>7, LoopKeeps

LEMMA DecodeAbortInv ==
  ASSUME TypeOK, EngineInv, DecodeAbort
  PROVE  EngineInv'
<1> USE DEF DecodeAbort, EngineInv
<1>1. UNCHANGED <<loopFrame, handle_map, all_request_map, continued, queue_status, running,
                  pending, status, finish, free_frames, unfinished, finished_ctx>>
  BY DEF decodeFrame, batchVars
<1>2. Life' BY <1>1 DEF Life, PendingLife, RunningLife, InSeq, NoDup
<1>3. FreshStable BY <1>1 DEF FreshStable, Fresh, InSeq
<1>4. Phase' /\ Count' BY <1>1 DEF Phase, Count
<1>5. FramesNeverOverdrawn' BY <1>1 DEF FramesNeverOverdrawn
<1> QED BY <1>1, <1>2, <1>3, <1>4, <1>5, LoopKeeps

-----------------------------------------------------------------------------
(* The end of a turn.                                                      *)

LEMMA CheckInv ==
  ASSUME TypeOK, EngineInv, LoopNext \/ LoopEnd
  PROVE  EngineInv'
<1> USE DEF EngineInv
<1>0. lp = "check" /\ UNCHANGED checkFrame /\ lp' \in {"message", "exited"}
  BY DEF LoopNext, LoopEnd
<1>1. UNCHANGED <<lock, call, handle, msg_queue, handle_map, next_phase, todo, running, pending,
                  status, finish, free_frames, unfinished, finished_ctx, all_request_map,
                  continued, queue_status, ignored>>
  BY <1>0 DEF checkFrame, batchVars, outVars, tokenVars
<1>2. Life' BY <1>1 DEF Life, PendingLife, RunningLife, InSeq, NoDup
<1>3. FreshStable BY <1>1 DEF FreshStable, Fresh, InSeq
<1>4. running \subseteq Candidates /\ finished_ctx = {} BY <1>0 DEF Phase
<1>5. Phase' BY <1>0, <1>1, <1>4 DEF Phase, Candidates, Stuck
<1>6. FramesNeverOverdrawn' BY <1>1 DEF FramesNeverOverdrawn
<1>7. StartOnce' BY <1>1, <1>3, StartOnceIdle DEF StartOnce
<1>8. Count'
  <2>1. CASE LoopNext BY <2>1 DEF Count, LoopNext
  <2>2. CASE LoopEnd
    <3>1. unfinished = 0 /\ unfinished = Len(pending) + Cardinality(running)
      BY <1>0, <2>2 DEF LoopEnd, CanStop, Count
    <3>2. Len(pending) \in Nat /\ Cardinality(running) \in Nat BY Sizes DEF TypeOK, BatchTypeOK
    <3>3. Len(pending) = 0 /\ Cardinality(running) = 0 BY <3>1, <3>2
    <3>4. pending = <<>> BY <3>3 DEF TypeOK, BatchTypeOK
    <3>5. running = {}
      <4>1. IsFiniteSet(running)
        BY FS_Subset, EngineAssumption DEF TypeOK, BatchTypeOK, EngineAssumption
      <4> QED BY <3>3, <4>1, FS_EmptySet
    <3> QED BY <1>1, <2>2, <3>4, <3>5 DEF Count, LoopEnd
  <2> QED BY <2>1, <2>2
<1>9. Answered'
  <2>1. CASE LoopNext BY <1>0, <2>1 DEF Answered, LoopNext
  <2>2. CASE LoopEnd
    <3> USE <2>2 DEF LoopEnd
    <3>1. ASSUME NEW s \in Stoppers, stop_reply'[s] = "SUCCESS" PROVE handle_map' = {}
      <4>1. stop_reply \in [Stoppers -> {None, "SUCCESS", "RUNTIME_ERROR"}]
        BY DEF TypeOK, StopTypeOK
      <4>2. stop_reply[s] # "SUCCESS" BY <1>0 DEF Answered
      <4>3. s = graceful_stop_msg BY <3>1, <4>1, <4>2
      <4>4. stop_reply'[s] = IF handle_map = {} THEN "SUCCESS" ELSE "RUNTIME_ERROR"
        BY <4>1, <4>3
      <4> QED BY <1>1, <3>1, <4>4
    <3> QED BY <3>1 DEF Answered
  <2> QED BY <2>1, <2>2
<1> QED BY <1>2, <1>5, <1>6, <1>7, <1>8, <1>9

-----------------------------------------------------------------------------
LEMMA InitInv ==
  ASSUME Init
  PROVE  EngineInv
<1> USE DEF Init
<1>1. \A x : ~InSeq(pending, x) BY DEF InSeq
<1>2. StartOnce
  <2>1. \A r \in Requests : Fresh(r) BY <1>1 DEF Fresh
  <2>2. \A t \in Threads : 1..Len(msg_queue[t]) = {} OBVIOUS
  <2> QED BY <2>1, <2>2 DEF StartOnce, NoCall
<1>3. Life BY <1>1 DEF Life, NoDup
<1>4. Phase /\ Count BY DEF Phase, Count, Stuck
<1>5. Answered BY EngineAssumption DEF Answered, EngineAssumption
<1>6. FramesNeverOverdrawn BY EngineAssumption DEF FramesNeverOverdrawn, EngineAssumption
<1> QED BY <1>2, <1>3, <1>4, <1>5, <1>6 DEF EngineInv

LEMMA NextInv ==
  ASSUME TypeOK, EngineInv, [Next]_vars
  PROVE  EngineInv'
<1>1. CASE UNCHANGED vars
  <2>1. UNCHANGED <<coreVars, lock, call, handle, msg_queue>>
    BY <1>1 DEF vars, coreVars, apiVars, stopVars, batchVars, tokenVars, outVars
  <2>2. FreshStable => StartOnce' BY <2>1, StartOnceIdle DEF EngineInv, StartOnce
  <2> QED BY <2>1, <2>2, CoreStep
<1>2. ASSUME NEW c \in Clients, ClientNext(c) PROVE EngineInv' BY <1>2, ClientInv
<1>3. ASSUME NEW s \in Stoppers, StopperNext(s) PROVE EngineInv' BY <1>3, StopperInv
<1>4. CASE LoraNext BY <1>4, LoraInv
<1>5. CASE Loop
  <2>1. ASSUME NEW t \in Threads, HandleMessage(t) PROVE EngineInv' BY <2>1, HandleInv
  <2>2. CASE SkipMessages BY <2>2, SkipInv
  <2>3. CASE ContextNone BY <2>3, ContextNoneInv
  <2>4. ASSUME NEW r \in Requests, ContextNext(r) PROVE EngineInv' BY <2>4, ContextInv
  <2>5. ASSUME NEW r \in Requests, UpdateNext(r) PROVE EngineInv' BY <2>5, UpdateInv
  <2>6. CASE UpdateResultDone BY <2>6, UpdateDoneInv
  <2>7. ASSUME NEW r \in Requests, DecodeStopVictim(r) PROVE EngineInv'
    BY <2>7, DecodeStopVictimInv
  <2>8. ASSUME NEW r \in Requests, DecodeStopFinished(r) PROVE EngineInv'
    BY <2>8, DecodeStopFinishedInv
  <2>9. CASE DecodeNothing BY <2>9, DecodeNothingInv
  <2>10. CASE DecodeRun BY <2>10, DecodeRunInv
  <2>11. CASE DecodeDone BY <2>11, DecodeDoneInv
  <2>12. CASE LoopNext \/ LoopEnd BY <2>12, CheckInv
  <2>13. CASE DecodeAbort BY <2>13, DecodeAbortInv
  <2> QED BY <1>5, <2>1, <2>2, <2>3, <2>4, <2>5, <2>6, <2>7, <2>8, <2>9, <2>10, <2>11, <2>12,
             <2>13 DEF Loop
<1> QED BY <1>1, <1>2, <1>3, <1>4, <1>5 DEF Next

\* The inductive invariant holds in every state of the engine.
THEOREM EngineInvariant == Spec => []EngineInv
<1>1. Init => EngineInv BY InitInv
<1>2. TypeOK /\ EngineInv /\ [Next]_vars => EngineInv' BY NextInv
<1> QED BY <1>1, <1>2, TypeCorrect, PTL DEF Spec

\* The admission test of GenerateContinueContext and AllocDecoderMemory cover
\* every claim of cache frames: the free count never goes below zero.
THEOREM NoFrameOverdraw == Spec => []FramesNeverOverdrawn
<1>1. EngineInv => FramesNeverOverdrawn BY DEF EngineInv
<1> QED BY <1>1, EngineInvariant, PTL

\* In the decoder loop every running request can be chosen as the victim, so
\* ChooseVictimRequest finds one whenever AllocDecoderMemory fails.
THEOREM VictimAlwaysExists == Spec => []VictimExists
<1>1. EngineInv => VictimExists BY DEF EngineInv, Phase, VictimExists
<1> QED BY <1>1, EngineInvariant, PTL

\* current_unfinished_request_ is exact wherever the loop tests whether to stop.
THEOREM UnfinishedCountExact == Spec => []UnfinishedExact
<1>1. EngineInv => UnfinishedExact BY DEF EngineInv, Count, UnfinishedExact
<1> QED BY <1>1, EngineInvariant, PTL

\* A request is queued at most once and never queued and running at once.
THEOREM RequestInOnePlace == Spec => []OnePlace
<1>1. TypeOK /\ EngineInv => OnePlace
  BY DEF EngineInv, Life, PendingLife, OnePlace, TypeOK, BatchTypeOK
<1> QED BY <1>1, EngineInvariant, TypeCorrect, PTL

\* A loop that has ended leaves nothing queued or running, and tells StopModel
\* of success only if every handle was released.
THEOREM StopLeavesNothing == Spec => []StoppedMeansIdle
<1>1. EngineInv => StoppedMeansIdle BY DEF EngineInv, Count, Answered, StoppedMeansIdle
<1> QED BY <1>1, EngineInvariant, PTL

-----------------------------------------------------------------------------
(* What no step may do to a closed result queue.                           *)

KeepsClosed(r) == queue_status[r] \in Terminal =>
                    queue_status'[r] = queue_status[r] /\ generate_length'[r] = generate_length[r]

LEMMA NextKeepsClosed ==
  ASSUME TypeOK, [Next]_vars, NEW r \in Requests
  PROVE  KeepsClosed(r)
<1> USE DEF KeepsClosed
<1>0. queue_status \in [Requests -> Status] /\ generate_length \in [Requests -> Nat]
  BY DEF TypeOK, OutTypeOK
<1>1. ASSUME UNCHANGED outVars PROVE KeepsClosed(r) BY <1>1 DEF outVars
<1>2. CASE UNCHANGED vars BY <1>1, <1>2 DEF vars
<1>3. ASSUME NEW c \in Clients, ClientNext(c) PROVE UNCHANGED outVars
  <2>1. UNCHANGED apiFrame
    BY <1>3 DEF ClientNext, StartRequest, StartRequestRefused, StartRequestEnqueue,
                StartRequestRollback, RequestCall, RequestReturn
  <2> QED BY <2>1 DEF apiFrame
<1>4. ASSUME NEW s \in Stoppers, StopperNext(s) PROVE UNCHANGED outVars
  <2>1. UNCHANGED stopFrame
    BY <1>4 DEF StopperNext, StopModel, StopModelSet, StopModelSend, StopModelRollback,
                StopModelReturn
  <2> QED BY <2>1 DEF stopFrame
<1>5. CASE LoraNext BY <1>1, <1>5 DEF LoraNext, LoadLoraByName, UnloadLoraByName, apiFrame
<1>6. CASE Loop
  <2>1. ASSUME NEW t \in Threads, HandleMessage(t) PROVE UNCHANGED outVars
    <3>1. UNCHANGED messageFrame
      BY <2>1 DEF HandleMessage, HandleGracefulStop, HandleStart, HandleStartDenied,
                  HandleStop, HandleRelease, HandleSync
    <3> QED BY <3>1 DEF messageFrame
  <2>2. CASE SkipMessages BY <1>1, <2>2 DEF SkipMessages
  <2>3. CASE ContextNone BY <1>1, <2>3 DEF ContextNone, contextFrame
  <2>4. ASSUME NEW x \in Requests, ContextNext(x) PROVE UNCHANGED outVars
    <3>1. UNCHANGED contextFrame
      BY <2>4 DEF ContextNext, ContextNoFrame, ContextChunk, ContextChunkIgnored, ContextRun,
                  ContextRunFinish, ContextIgnored, ContextLoraMissing, ContextFault, AfterContext
    <3> QED BY <3>1 DEF contextFrame
  <2>5. ASSUME NEW x \in Requests, UpdateNext(x) PROVE KeepsClosed(r)
    <3>1. CASE UpdateTerminal(x) \/ UpdateNotStarted(x)
      BY <1>1, <3>1 DEF UpdateTerminal, UpdateNotStarted
    <3>2. CASE UpdateInterrupted(x) BY <1>0, <3>2 DEF UpdateInterrupted
    <3>3. CASE UpdateFetch(x)
      <4>1. CASE x = r BY <3>3, <4>1 DEF UpdateFetch
      <4>2. CASE x # r
        <5>1. queue_status'[r] = queue_status[r] BY <1>0, <3>3, <4>2 DEF UpdateFetch
        <5>2. generate_length'[r] = generate_length[r] BY <1>0, <3>3, <4>2 DEF UpdateFetch
        <5> QED BY <5>1, <5>2
      <4> QED BY <4>1, <4>2
    <3> QED BY <2>5, <3>1, <3>2, <3>3 DEF UpdateNext
  <2>6. CASE UpdateResultDone BY <1>1, <2>6 DEF UpdateResultDone
  <2>7. ASSUME NEW x \in Requests, DecodeStopVictim(x) PROVE KeepsClosed(r)
    <3>1. queue_status[x] = "Generating" /\ generate_length' = generate_length
      BY <2>7 DEF DecodeStopVictim, ChooseVictimRequest, Longest, Candidates, decodeFrame
    <3>2. x # r => queue_status'[r] = queue_status[r] BY <1>0, <2>7 DEF DecodeStopVictim
    <3> QED BY <3>1, <3>2 DEF Terminal
  <2>8. ASSUME NEW x \in Requests, DecodeStopFinished(x) PROVE KeepsClosed(r)
    BY <2>8 DEF DecodeStopFinished, decodeFrame
  <2>9. CASE DecodeNothing BY <2>9 DEF DecodeNothing, decodeFrame
  <2>10. CASE DecodeRun BY <2>10 DEF DecodeRun, decodeFrame
  <2>11. CASE DecodeDone BY <2>11 DEF DecodeDone, decodeFrame
  <2>12. CASE LoopNext \/ LoopEnd BY <1>1, <2>12 DEF LoopNext, LoopEnd, checkFrame
  <2>13. CASE DecodeAbort BY <2>13 DEF DecodeAbort, decodeFrame
  <2> QED BY <1>1, <1>6, <2>1, <2>2, <2>3, <2>4, <2>5, <2>6, <2>7, <2>8, <2>9, <2>10, <2>11,
             <2>12, <2>13 DEF Loop
<1> QED BY <1>1, <1>2, <1>3, <1>4, <1>5, <1>6 DEF Next

\* A result queue whose reader was told "finished" or "interrupted" never
\* changes its status and receives no further token.
THEOREM ClosedStaysClosed == Spec => TerminalIsFinal
<1>1. TypeOK /\ [Next]_vars =>
        [\A r \in Requests : queue_status[r] \in Terminal =>
           /\ queue_status'[r] = queue_status[r]
           /\ generate_length'[r] = generate_length[r]]_vars
  BY NextKeepsClosed DEF KeepsClosed
<1> QED BY <1>1, TypeCorrect, PTL DEF Spec, TerminalIsFinal

-----------------------------------------------------------------------------
(* Counting spans.                                                         *)

\* CacheArray::updateSeqLength grows a cache by a span exactly when its last
\* one is full, which is what AllocDecoderMemory counts.
LEMMA SpanGrows ==
  ASSUME NEW n \in Nat
  PROVE  Spans(n + 1) = IF n % SpanSize = 0 THEN Spans(n) + 1 ELSE Spans(n)
<1> DEFINE S == SpanSize
           q == n \div S
           m == n % S
<1>1. S \in Nat \ {0} BY EngineAssumption DEF EngineAssumption
<1>2. q \in Nat /\ m \in Nat /\ m < S /\ n = S * q + m BY <1>1
<1>3. (n + 1) + S - 1 = S * (q + 1) + m BY <1>1, <1>2
<1>4. ((n + 1) + S - 1) \div S = q + 1 BY <1>1, <1>2, <1>3
<1>5. CASE m = 0
  <2>1. n + S - 1 = S * q + (S - 1) BY <1>1, <1>2, <1>5
  <2>2. (n + S - 1) \div S = q BY <1>1, <1>2, <2>1
  <2> QED BY <1>1, <1>4, <1>5, <2>2 DEF Spans
<1>6. CASE m # 0
  <2>1. n + S - 1 = S * (q + 1) + (m - 1) BY <1>1, <1>2
  <2>2. (n + S - 1) \div S = q + 1 BY <1>1, <1>2, <1>6, <2>1
  <2> QED BY <1>1, <1>4, <1>6, <2>2 DEF Spans
<1> QED BY <1>5, <1>6

\* The spans one request holds.
LEMMA BlockSize ==
  ASSUME NEW r, NEW n \in Nat
  PROVE  IsFiniteSet({r} \X (1..n)) /\ Cardinality({r} \X (1..n)) = n
<1>1. IsFiniteSet({r}) /\ Cardinality({r}) = 1 BY FS_Singleton
<1>2. IsFiniteSet(1..n) /\ Cardinality(1..n) = n BY FS_Interval
<1>3. PICK A, B : A = {r} /\ B = 1..n
  OBVIOUS
<1>4. IsFiniteSet(A) /\ IsFiniteSet(B) /\ Cardinality(A) = 1 /\ Cardinality(B) = n
  BY ONLY <1>1, <1>2, <1>3
<1>5. IsFiniteSet(A \X B) /\ Cardinality(A \X B) = Cardinality(A) * Cardinality(B)
  BY ONLY <1>4, FS_Product
<1>6. Cardinality(A \X B) = n
  BY ONLY <1>4, <1>5, n \in Nat
<1> QED BY ONLY <1>3, <1>5, <1>6

\* Adding a set of new spans to those already held.
LEMMA DisjointSum ==
  ASSUME NEW A, NEW B, IsFiniteSet(A), IsFiniteSet(B), A \cap B = {}
  PROVE  /\ IsFiniteSet(A \cup B)
         /\ Cardinality(A \cup B) = Cardinality(A) + Cardinality(B)
<1>1. Cardinality(A \cap B) = 0 BY FS_EmptySet
<1>2. Cardinality(A) \in Nat /\ Cardinality(B) \in Nat BY FS_CardinalityType
<1>3. /\ IsFiniteSet(A \cup B)
      /\ Cardinality(A \cup B) = Cardinality(A) + Cardinality(B) - Cardinality(A \cap B)
  BY FS_Union
<1> QED BY <1>1, <1>2, <1>3

-----------------------------------------------------------------------------
(* The steps that move frames.                                             *)

\* Frames are only moved by a prefill, a decode step and AsModel::StopRequest.
LEMMA FrameSteps ==
  ASSUME [Next]_vars
  PROVE  \/ UNCHANGED <<running, seq_len, free_frames>>
         \/ \E r \in Requests : ContextRun(r) \/ ContextIgnored(r)
         \/ DecodeRun
         \/ \E r : StopRequest(r)
<1> DEFINE Still == UNCHANGED <<running, seq_len, free_frames>>
<1>0. UNCHANGED batchVars => Still BY DEF batchVars
<1>1. CASE UNCHANGED vars BY <1>0, <1>1 DEF vars
<1>2. ASSUME NEW c \in Clients, ClientNext(c) PROVE Still
  <2>1. UNCHANGED apiFrame
    BY <1>2 DEF ClientNext, StartRequest, StartRequestRefused, StartRequestEnqueue,
                StartRequestRollback, RequestCall, RequestReturn
  <2> QED BY <1>0, <2>1 DEF apiFrame
<1>3. ASSUME NEW s \in Stoppers, StopperNext(s) PROVE Still
  <2>1. UNCHANGED stopFrame
    BY <1>3 DEF StopperNext, StopModel, StopModelSet, StopModelSend, StopModelRollback,
                StopModelReturn
  <2> QED BY <1>0, <2>1 DEF stopFrame
<1>4. CASE LoraNext BY <1>0, <1>4 DEF LoraNext, LoadLoraByName, UnloadLoraByName, apiFrame
<1>5. CASE Loop
  <2>1. ASSUME NEW t \in Threads, HandleMessage(t)
        PROVE  Still \/ \E r : StopRequest(r)
    BY <1>0, <2>1 DEF HandleMessage, HandleGracefulStop, HandleStart, HandleStartDenied,
                      HandleStop, HandleRelease, HandleSync
  <2>2. CASE SkipMessages BY <1>0, <2>2 DEF SkipMessages
  <2>3. CASE ContextNone BY <1>0, <2>3 DEF ContextNone
  <2>4. ASSUME NEW r \in Requests, ContextNext(r) PROVE Still \/ ContextRun(r) \/ ContextIgnored(r)
    BY <2>4 DEF ContextNext, ContextNoFrame, ContextChunk, ContextChunkIgnored,
                ContextRunFinish, ContextLoraMissing, ContextFault
  <2>5. ASSUME NEW r \in Requests, UpdateNext(r) PROVE Still
    BY <1>0, <2>5 DEF UpdateNext, UpdateTerminal, UpdateNotStarted, UpdateInterrupted,
                      UpdateFetch, Visit, updateFrame
  <2>6. CASE UpdateResultDone BY <1>0, <2>6 DEF UpdateResultDone, updateFrame
  <2>7. ASSUME NEW r \in Requests, DecodeStopVictim(r) \/ DecodeStopFinished(r)
        PROVE  StopRequest(r)
    BY <2>7 DEF DecodeStopVictim, DecodeStopFinished
  <2>8. CASE DecodeNothing BY <2>8 DEF DecodeNothing
  <2>9. CASE DecodeDone BY <1>0, <2>9 DEF DecodeDone
  <2>10. CASE LoopNext \/ LoopEnd BY <1>0, <2>10 DEF LoopNext, LoopEnd, checkFrame
  <2>11. CASE DecodeAbort BY <1>0, <2>11 DEF DecodeAbort
  <2> QED BY <1>5, <2>1, <2>2, <2>3, <2>4, <2>5, <2>6, <2>7, <2>8, <2>9, <2>10, <2>11 DEF Loop
<1> QED BY <1>1, <1>2, <1>3, <1>4, <1>5 DEF Next

-----------------------------------------------------------------------------
(* The inductive invariant: conservation, finiteness of what is held, and  *)
(* an empty cache for every request that is not running.                   *)

FramesInv ==
  /\ IsFiniteSet(HeldFrames) /\ FrameConservation
  /\ \A r \in Requests \ running : seq_len[r] = 0

LEMMA HeldStill ==
  ASSUME FramesInv, UNCHANGED <<running, seq_len, free_frames>>
  PROVE  FramesInv'
BY DEF FramesInv, FrameConservation, HeldFrames, Spans

\* A request that joins the batch claims the spans of its prompt, or none if its
\* prefill failed before the claim.
LEMMA HeldContext ==
  ASSUME TypeOK, EngineInv, FramesInv, NEW r \in Requests, ContextRun(r) \/ ContextIgnored(r)
  PROVE  FramesInv'
<1>1. r \notin running
  <2>1. pending # <<>> /\ r = Head(pending)
    BY DEF ContextRun, ContextIgnored, Admits, CanContext
  <2>2. InSeq(pending, r) BY <2>1, TailEffect DEF EngineInv, Life, TypeOK, BatchTypeOK
  <2> QED BY <2>2 DEF EngineInv, Life, PendingLife
<1>2. Spans(InputLen[r]) \in Nat /\ Spans(0) = 0
  BY SpansType, EngineAssumption DEF EngineAssumption, Spans
<1>3. /\ running' = running \cup {r} /\ running \subseteq Requests
      /\ seq_len \in [Requests -> Nat] /\ free_frames \in Int
  BY DEF ContextRun, ContextIgnored, TypeOK, BatchTypeOK
<1>4. PICK n \in Nat : /\ free_frames' = free_frames - Spans(n) /\ Spans(n) \in Nat
                       /\ \A x \in Requests : seq_len'[x] = IF x = r THEN n ELSE seq_len[x]
  <2>1. CASE UNCHANGED <<seq_len, free_frames>>
    <3>1. seq_len[r] = 0 BY <1>1 DEF FramesInv
    <3> QED BY <1>2, <1>3, <2>1, <3>1
  <2>2. CASE /\ seq_len' = [seq_len EXCEPT ![r] = InputLen[r]]
             /\ free_frames' = free_frames - Spans(InputLen[r])
    <3>1. InputLen[r] \in Nat BY EngineAssumption DEF EngineAssumption
    <3> QED BY <1>2, <1>3, <2>2, <3>1
  <2> QED BY <2>1, <2>2 DEF ContextRun, ContextIgnored
<1> DEFINE B == {r} \X (1..Spans(n))
<1>5. HeldFrames' = HeldFrames \cup B
  BY <1>1, <1>3, <1>4 DEF HeldFrames
<1>6. HeldFrames \cap B = {} BY <1>1 DEF HeldFrames
<1>7. IsFiniteSet(B) /\ Cardinality(B) = Spans(n) BY <1>4, BlockSize
<1> HIDE DEF B
<1>8. /\ IsFiniteSet(HeldFrames')
      /\ Cardinality(HeldFrames') = Cardinality(HeldFrames) + Spans(n)
  BY <1>5, <1>6, <1>7, DisjointSum DEF FramesInv
<1>9. Cardinality(HeldFrames) \in Nat BY FS_CardinalityType DEF FramesInv
<1>10. FrameConservation' BY <1>3, <1>4, <1>8, <1>9 DEF FramesInv, FrameConservation
<1>11. \A x \in Requests \ running' : seq_len'[x] = 0 BY <1>3, <1>4 DEF FramesInv
<1> QED BY <1>8, <1>10, <1>11 DEF FramesInv

\* A request that leaves the batch gives its spans back, the last and partly
\* filled one included.
LEMMA HeldStop ==
  ASSUME TypeOK, FramesInv, NEW r, StopRequest(r)
  PROVE  FramesInv'
<1>1. CASE StopPendingRequest(r) BY <1>1, HeldStill DEF StopPendingRequest
<1>2. CASE StopUnknownRequest(r) BY <1>2, HeldStill DEF StopUnknownRequest, batchVars
<1>3. CASE StopRunningRequest(r)
  <2> DEFINE B == {r} \X (1..Spans(seq_len[r]))
  <2>1. r \in running /\ r \in Requests BY <1>3 DEF StopRunningRequest, TypeOK, BatchTypeOK
  <2>2. Spans(seq_len[r]) \in Nat BY <2>1, SpansType DEF TypeOK, BatchTypeOK
  <2>3. /\ running' = running \ {r} /\ running \subseteq Requests
        /\ free_frames' = free_frames + Spans(seq_len[r])
        /\ \A x \in Requests : seq_len'[x] = IF x = r THEN 0 ELSE seq_len[x]
    BY <1>3 DEF StopRunningRequest, TypeOK, BatchTypeOK
  <2>4. HeldFrames = HeldFrames' \cup B BY <2>1, <2>3 DEF HeldFrames
  <2>5. HeldFrames' \cap B = {} BY <2>3 DEF HeldFrames
  <2>6. IsFiniteSet(B) /\ Cardinality(B) = Spans(seq_len[r]) BY <2>2, BlockSize
  <2> HIDE DEF B
  <2>7. IsFiniteSet(HeldFrames') BY <2>4, FS_Subset DEF FramesInv
  <2>8. Cardinality(HeldFrames) = Cardinality(HeldFrames') + Spans(seq_len[r])
    BY <2>4, <2>5, <2>6, <2>7, DisjointSum
  <2>9. Cardinality(HeldFrames') \in Nat /\ free_frames \in Int
    BY <2>7, FS_CardinalityType DEF TypeOK, BatchTypeOK
  <2>10. FrameConservation' BY <2>2, <2>3, <2>7, <2>8, <2>9 DEF FramesInv, FrameConservation
  <2>11. \A x \in Requests \ running' : seq_len'[x] = 0 BY <2>3 DEF FramesInv
  <2> QED BY <2>7, <2>10, <2>11 DEF FramesInv
<1> QED BY <1>1, <1>2, <1>3 DEF StopRequest

\* A decode step claims one span for every request whose last one is full.
LEMMA HeldDecode ==
  ASSUME TypeOK, FramesInv, DecodeRun
  PROVE  FramesInv'
<1> DEFINE Last(r) == <<r, Spans(seq_len[r]) + 1>>
           B == {Last(r) : r \in NewSpans}
           f == [r \in NewSpans |-> Last(r)]
<1>1. /\ running' = running /\ running \subseteq Requests
      /\ free_frames' = free_frames - Cardinality(NewSpans)
      /\ \A x \in running : seq_len[x] \in Nat /\ seq_len'[x] = seq_len[x] + 1
  BY DEF DecodeRun, TypeOK, BatchTypeOK
<1>2. \A x \in running : /\ Spans(seq_len[x]) \in Nat
                         /\ x \in NewSpans => Spans(seq_len'[x]) = Spans(seq_len[x]) + 1
                         /\ x \notin NewSpans => Spans(seq_len'[x]) = Spans(seq_len[x])
  BY <1>1, SpanGrows, SpansType DEF NewSpans
<1>3. HeldFrames' = UNION {{r} \X (1..Spans(seq_len'[r])) : r \in running}
  BY <1>1 DEF HeldFrames, Spans
<1>4. HeldFrames' = HeldFrames \cup B
  <2>1. ASSUME NEW p \in HeldFrames' PROVE p \in HeldFrames \cup B
    <3>1. PICK r \in running : p \in {r} \X (1..Spans(seq_len'[r])) BY <1>3, <2>1
    <3>2. PICK i \in 1..Spans(seq_len'[r]) : p = <<r, i>> BY <3>1
    <3>3. CASE i \in 1..Spans(seq_len[r]) BY <3>2, <3>3 DEF HeldFrames
    <3>4. CASE i \notin 1..Spans(seq_len[r])
      <4>1. r \in NewSpans /\ i = Spans(seq_len[r]) + 1 BY <1>2, <3>2, <3>4
      <4> QED BY <3>2, <4>1
    <3> QED BY <3>3, <3>4
  <2>2. ASSUME NEW p \in HeldFrames PROVE p \in HeldFrames'
    <3>1. PICK r \in running : p \in {r} \X (1..Spans(seq_len[r])) BY <2>2 DEF HeldFrames
    <3>2. 1..Spans(seq_len[r]) \subseteq 1..Spans(seq_len'[r]) BY <1>2
    <3> QED BY <1>3, <3>1, <3>2
  <2>3. ASSUME NEW r \in NewSpans PROVE Last(r) \in HeldFrames'
    <3>1. r \in running BY DEF NewSpans
    <3>2. Spans(seq_len[r]) + 1 \in 1..Spans(seq_len'[r]) BY <1>2, <3>1
    <3> QED BY <1>3, <3>1, <3>2
  <2> QED BY <2>1, <2>2, <2>3
<1>5. HeldFrames \cap B = {}
  <2>1. SUFFICES ASSUME NEW r \in NewSpans, Last(r) \in HeldFrames PROVE FALSE OBVIOUS
  <2>2. r \in running BY DEF NewSpans
  <2>3. Spans(seq_len[r]) + 1 \in 1..Spans(seq_len[r]) BY <2>1 DEF HeldFrames
  <2> QED BY <1>2, <2>2, <2>3
<1>6. IsFiniteSet(NewSpans)
  BY FS_Subset, EngineAssumption DEF NewSpans, TypeOK, BatchTypeOK, EngineAssumption
<1>7. IsFiniteSet(B) /\ Cardinality(B) = Cardinality(NewSpans)
  <2>1. f \in [NewSpans -> B] /\ \A t \in B : \E x \in NewSpans : f[x] = t OBVIOUS
  <2>2. \A x, y \in NewSpans : f[x] = f[y] => x = y OBVIOUS
  <2> HIDE DEF f, B
  <2>3. f \in Bijection(NewSpans, B)
    BY <2>1, <2>2 DEF Bijection, Injection, Surjection, IsInjective
  <2>4. ExistsBijection(NewSpans, B) BY <2>3 DEF ExistsBijection
  <2> QED BY <1>6, <2>4, FS_Bijection
<1> HIDE DEF B
<1>8. /\ IsFiniteSet(HeldFrames')
      /\ Cardinality(HeldFrames') = Cardinality(HeldFrames) + Cardinality(NewSpans)
  BY <1>4, <1>5, <1>7, DisjointSum DEF FramesInv
<1>9. Cardinality(HeldFrames) \in Nat /\ Cardinality(NewSpans) \in Nat /\ free_frames \in Int
  BY <1>6, FS_CardinalityType DEF FramesInv, TypeOK, BatchTypeOK
<1>10. FrameConservation' BY <1>1, <1>8, <1>9 DEF FramesInv, FrameConservation
<1>11. \A x \in Requests \ running' : seq_len'[x] = 0 BY <1>1 DEF FramesInv, DecodeRun
<1> QED BY <1>8, <1>10, <1>11 DEF FramesInv

\* Frames are conserved: what the free list lacks is what the running requests
\* hold, after every prefill, decode step, stop, eviction and failure.
THEOREM FramesBalance == Spec => []FrameConservation
<1>1. Init => FramesInv
  <2>1. ASSUME Init PROVE HeldFrames = {} BY <2>1 DEF Init, HeldFrames
  <2>2. ASSUME Init PROVE FramesInv
    <3>1. IsFiniteSet(HeldFrames) /\ Cardinality(HeldFrames) = 0 BY <2>1, <2>2, FS_EmptySet
    <3> QED BY <2>2, <3>1, EngineAssumption
            DEF Init, FramesInv, FrameConservation, EngineAssumption
  <2> QED BY <2>2
<1>2. TypeOK /\ EngineInv /\ FramesInv /\ [Next]_vars => FramesInv'
  BY FrameSteps, HeldStill, HeldContext, HeldStop, HeldDecode
<1>3. FramesInv => FrameConservation BY DEF FramesInv
<1> QED BY <1>1, <1>2, <1>3, TypeCorrect, EngineInvariant, PTL DEF Spec
=============================================================================
