-------------------------- MODULE EngineCallProofs --------------------------
(* Theorems about the call protocol of EngineLoop: what the holder of      *)
(* lora_lock_ may conclude when its promise is set.                        *)
EXTENDS EngineLoopProofs

\* A step that leaves the API, the message queue and the sync state alone.
Quiet == UNCHANGED <<lock, call, reply, handle, msg_queue, synchronizing, sync_pending_set,
                     handle_map, all_request_map>>

\* The steps of the engine, sorted by what they do to a call.
LEMMA CallSteps ==
  ASSUME TypeOK, [Next]_vars
  PROVE  \/ Quiet
         \/ \E c \in Clients : ClientNext(c)
         \/ \E s \in Stoppers : StopModelSend(s)
         \/ \E t \in Threads : HandleMessage(t)
         \/ \E r \in Requests : UpdateNext(r)
         \/ LoopNext \/ LoopEnd
<1>1. CASE UNCHANGED vars BY <1>1 DEF vars, Quiet, apiVars, syncVars
<1>2. ASSUME NEW s \in Stoppers, StopperNext(s), ~StopModelSend(s) PROVE Quiet
  <2>1. UNCHANGED <<msg_queue, stopFrame>>
    BY <1>2 DEF StopperNext, StopModel, StopModelSet, StopModelRollback, StopModelReturn
  <2> QED BY <2>1 DEF stopFrame, Quiet, apiVars, syncVars
<1>3. CASE LoraNext
  BY <1>3 DEF LoraNext, LoadLoraByName, UnloadLoraByName, apiFrame, Quiet, apiVars, syncVars
<1>4. CASE Loop
  <2>1. CASE SkipMessages BY <2>1 DEF SkipMessages, loopFrame, Quiet, syncVars
  <2>2. ASSUME UNCHANGED contextFrame PROVE Quiet
    BY <2>2 DEF contextFrame, loopFrame, Quiet, syncVars
  <2>3. CASE ContextNone BY <2>2, <2>3 DEF ContextNone
  <2>4. ASSUME NEW r \in Requests, ContextNext(r) PROVE Quiet
    BY <2>2, <2>4 DEF ContextNext, ContextNoFrame, ContextChunk, ContextChunkIgnored,
                      ContextRun, ContextRunFinish, ContextIgnored, ContextLoraMissing,
                      ContextFault, AfterContext
  <2>5. CASE UpdateResultDone BY <2>5 DEF UpdateResultDone, updateFrame, loopFrame, Quiet
  <2>6. ASSUME UNCHANGED decodeFrame PROVE Quiet
    BY <2>6 DEF decodeFrame, loopFrame, Quiet, syncVars
  <2>7. ASSUME NEW r \in Requests, DecodeStopVictim(r) \/ DecodeStopFinished(r) PROVE Quiet
    BY <2>6, <2>7 DEF DecodeStopVictim, DecodeStopFinished
  <2>8. CASE DecodeNothing \/ DecodeRun \/ DecodeDone \/ DecodeAbort
    BY <2>6, <2>8 DEF DecodeNothing, DecodeRun, DecodeDone, DecodeAbort
  <2> QED BY <1>4, <2>1, <2>3, <2>4, <2>5, <2>7, <2>8 DEF Loop
<1> QED BY <1>1, <1>2, <1>3, <1>4 DEF Next

\* No message waits for an answer.
NoneAwaited == \A t \in Threads : \A i \in 1..Len(msg_queue[t]) : ~Awaited(t, i)

\* lora_lock_ is free, or its holder does not wait: no message of a call is left.
LEMMA FreeLock ==
  ASSUME TypeOK, CallInv
  PROVE  /\ lock = None => call = NoCall /\ reply = None /\ ~synchronizing
         /\ lock = None \/ call.pc # "wait" \/ reply # None \/ synchronizing => NoneAwaited
         /\ call.pc # "wait" => reply = None /\ ~synchronizing
<1>1. None \notin Threads BY EngineAssumption DEF EngineAssumption, Threads
<1>2. NoCall.pc # "wait" BY DEF NoCall
<1>3. OneCall /\ Deferred /\ reply \in {None, "SUCCESS"} /\ None # "SUCCESS"
  BY EngineAssumption DEF CallInv, TypeOK, ApiTypeOK, EngineAssumption
<1> QED BY <1>1, <1>2, <1>3 DEF OneCall, Deferred, NoneAwaited

\* A step of the caller that leaves its thread without a deferred promise.
LEMMA CallInvIdle ==
  ASSUME NoneAwaited', lock' = None => call' = NoCall,
         lock' # None => call'.op \in {"Start"} \cup ClientOps,
         reply' # None => call'.pc = "wait", synchronizing' = FALSE, sync_pending_set' = {}
  PROVE  CallInv'
BY DEF CallInv, OneCall, Deferred, SyncCovers, NoneAwaited

\* The messages a step leaves in the queues were there before.
LEMMA AwaitedReceive ==
  ASSUME TypeOK, NEW t \in Threads, NEW op, Receive(t, op)
  PROVE  \A u \in Threads : \A i \in 1..Len(msg_queue'[u]) :
           \E j \in 1..Len(msg_queue[u]) : /\ msg_queue'[u][i] = msg_queue[u][j]
                                           /\ j = IF u = t THEN i + 1 ELSE i
BY ReceiveEffect

LEMMA CallClient ==
  ASSUME TypeOK, EngineInv, CallInv, NEW c \in Clients, ClientNext(c)
  PROVE  CallInv'
<1>0. c \in Threads /\ c # None BY EngineAssumption DEF EngineAssumption, Threads
<1>a. sync_pending_set = {} \/ synchronizing BY DEF CallInv, Deferred
<1>b. UNCHANGED syncVars => UNCHANGED <<synchronizing, sync_pending_set>> BY DEF syncVars
<1>c. UNCHANGED apiFrame
  BY DEF ClientNext, StartRequest, StartRequestRefused, StartRequestEnqueue,
         StartRequestRollback, RequestCall, RequestReturn
<1>d. UNCHANGED <<synchronizing, sync_pending_set, handle_map, queue_status>>
  BY <1>c DEF apiFrame, syncVars, outVars
<1>e. synchronizing \in BOOLEAN BY DEF TypeOK, ControlTypeOK
<1>f. NoCall.pc = "idle" BY DEF NoCall
<1>1. ASSUME NEW r \in Requests, StartRequest(c, r) PROVE CallInv'
  <2> USE <1>1 DEF StartRequest
  <2>1. NoneAwaited /\ reply = None /\ ~synchronizing BY FreeLock
  <2>2. NoneAwaited' BY <2>1 DEF NoneAwaited, Awaited
  <2> QED BY <1>0, <1>a, <1>d, <1>e, <2>1, <2>2, CallInvIdle
<1>2. ASSUME NEW r \in Requests, StartRequestRefused(c, r) PROVE CallInv'
  <2> USE <1>2 DEF StartRequestRefused
  <2>1. NoneAwaited /\ reply = None /\ ~synchronizing /\ call = NoCall BY FreeLock
  <2>2. NoneAwaited' BY <2>1 DEF NoneAwaited, Awaited
  <2> QED BY <1>0, <1>a, <1>d, <1>e, <2>1, <2>2, CallInvIdle
<1>3. ASSUME StartRequestEnqueue(c) PROVE CallInv'
  <2> USE <1>3 DEF StartRequestEnqueue
  <2> DEFINE m == [op |-> "Start", req |-> call.req]
  <2>1. NoneAwaited /\ reply = None /\ ~synchronizing BY FreeLock
  <2>2. m \in Message /\ m.op = "Start" BY DEF Message, TypeOK, ApiTypeOK, Call
  <2>3. Send(c, m) OBVIOUS
  <2> HIDE DEF m
  <2>4. NoneAwaited' BY <1>0, <2>1, <2>2, <2>3, SendEffect DEF NoneAwaited, Awaited
  <2> QED BY <1>0, <1>a, <1>d, <1>e, <2>1, <2>4, CallInvIdle
<1>4. ASSUME StartRequestRollback(c) PROVE CallInv'
  <2> USE <1>4 DEF StartRequestRollback
  <2>1. NoneAwaited /\ reply = None /\ ~synchronizing BY FreeLock
  <2>2. NoneAwaited' BY <2>1 DEF NoneAwaited, Awaited
  <2> QED BY <1>0, <1>a, <1>d, <1>e, <2>1, <2>2, CallInvIdle
<1>5. ASSUME NEW op \in {"Stop", "Release", "Sync", "SyncAll"}, NEW r,
             op = "SyncAll" => r = None, RequestCall(c, op, r)
      PROVE  CallInv'
  <2> USE <1>5 DEF RequestCall
  <2> DEFINE m == [op |-> op, req |-> r]
  <2>1. NoneAwaited /\ reply = None /\ ~synchronizing BY FreeLock
  <2>2. m \in Message /\ m.op = op /\ m.req = r BY DEF Message
  <2>3. /\ Send(c, m) /\ lock' = c /\ call'.op = op /\ call'.req = r /\ call'.pc = "wait"
        /\ reply' = None /\ op \in ClientOps
    BY <2>1
  <2> HIDE DEF m
  <2>4. \A u \in Threads : \A i \in 1..Len(msg_queue'[u]) : Awaited(u, i)' =>
          u = c /\ i = Len(msg_queue[c]) + 1 /\ msg_queue'[u][i] = m
    BY <1>0, <2>1, <2>2, <2>3, SendEffect DEF NoneAwaited, Awaited
  <2>5. OneCall' BY <1>0, <1>d, <2>1, <2>2, <2>3, <2>4 DEF OneCall
  <2>6. Deferred' /\ SyncCovers' BY <1>a, <1>d, <2>1, <2>3 DEF Deferred, SyncCovers
  <2> QED BY <2>5, <2>6 DEF CallInv
<1>6. ASSUME RequestReturn(c) PROVE CallInv'
  <2> USE <1>6 DEF RequestReturn
  <2>1. NoneAwaited BY FreeLock
  <2>2. ~synchronizing BY DEF CallInv, Deferred
  <2>3. NoneAwaited' BY <2>1 DEF NoneAwaited, Awaited
  <2> QED BY <1>0, <1>a, <1>d, <1>e, <2>2, <2>3, CallInvIdle
<1> QED BY <1>1, <1>2, <1>3, <1>4, <1>5, <1>6 DEF ClientNext

\* The calls, their promise and the sync they wait for are untouched.
LEMMA CallInvKept ==
  ASSUME CallInv, UNCHANGED <<lock, call, reply, synchronizing, sync_pending_set>>,
         \A u \in Threads : \A i \in 1..Len(msg_queue'[u]) : Awaited(u, i)' =>
           \E j \in 1..Len(msg_queue[u]) : /\ msg_queue'[u][i] = msg_queue[u][j]
                                           /\ \A k \in 1..Len(msg_queue'[u]) :
                                                Awaited(u, k)' => i = k,
         synchronizing => handle_map' \subseteq handle_map,
         synchronizing => handle_map \subseteq Requests,
         \A r \in Requests : queue_status[r] \in Terminal => queue_status'[r] \in Terminal,
         call.op = "Sync" => call.req \in Requests
  PROVE  CallInv'
<1>1. OneCall' BY DEF CallInv, OneCall, Awaited
<1>2. Deferred' BY DEF CallInv, Deferred
<1>3. SyncCovers' BY DEF CallInv, SyncCovers
<1> QED BY <1>1, <1>2, <1>3 DEF CallInv

\* A call of Sync names a request.
LEMMA SyncNamesRequest ==
  ASSUME TypeOK
  PROVE  call.op = "Sync" => call.req \in Requests
BY DEF TypeOK, ApiTypeOK, Call

\* A terminal queue stays terminal.
LEMMA StaysTerminal ==
  ASSUME TypeOK, [Next]_vars
  PROVE  \A r \in Requests : queue_status[r] \in Terminal => queue_status'[r] \in Terminal
BY NextKeepsClosed DEF KeepsClosed

LEMMA CallStopperSend ==
  ASSUME TypeOK, CallInv, [Next]_vars, NEW s \in Stoppers, StopModelSend(s)
  PROVE  CallInv'
<1> DEFINE m == [op |-> "GracefulStop", req |-> None]
<1>1. m \in Message /\ m.op = "GracefulStop" BY DEF Message
<1>2. Send(s, m) /\ s \in Threads BY DEF StopModelSend, Threads
<1>3. UNCHANGED <<lock, call, reply, synchronizing, sync_pending_set, handle_map>>
  BY DEF StopModelSend, stopFrame, apiVars, syncVars
<1> HIDE DEF m
<1>4. \A u \in Threads : \A i \in 1..Len(msg_queue'[u]) : Awaited(u, i)' =>
        i \in 1..Len(msg_queue[u]) /\ msg_queue'[u][i] = msg_queue[u][i] /\ Awaited(u, i)
  BY <1>1, <1>2, SendEffect DEF Awaited
<1>5. \A u \in Threads : \A i, k \in 1..Len(msg_queue'[u]) :
        Awaited(u, i)' /\ Awaited(u, k)' => i = k
  BY <1>4 DEF CallInv, OneCall
<1>6. handle_map \subseteq Requests BY DEF TypeOK, ControlTypeOK
<1> QED BY <1>3, <1>4, <1>5, <1>6, StaysTerminal, SyncNamesRequest, CallInvKept

\* The loop received a message that is the only one awaited.
LEMMA ReceiveAwaited ==
  ASSUME TypeOK, CallInv, NEW t \in Threads, NEW op, Receive(t, op),
         op \in {"Stop", "Release", "Sync", "SyncAll"}
  PROVE  /\ NoneAwaited' /\ t = lock /\ call.pc = "wait" /\ reply = None /\ ~synchronizing
         /\ call.op = op /\ call.req = Head(msg_queue[t]).req
<1>1. 1 \in 1..Len(msg_queue[t]) /\ Head(msg_queue[t]) = msg_queue[t][1] /\ Awaited(t, 1)
  BY ReceiveEffect DEF Receive, Awaited
<1>2. /\ t = lock /\ call.pc = "wait" /\ reply = None /\ ~synchronizing
      /\ call.op = op /\ call.req = Head(msg_queue[t]).req
      /\ \A j \in 1..Len(msg_queue[t]) : Awaited(t, j) => 1 = j
  BY <1>1 DEF CallInv, OneCall, Receive
<1>3. ASSUME NEW u \in Threads, NEW i \in 1..Len(msg_queue'[u]), Awaited(u, i)' PROVE FALSE
  <2>1. PICK j \in 1..Len(msg_queue[u]) : /\ msg_queue'[u][i] = msg_queue[u][j]
                                          /\ j = IF u = t THEN i + 1 ELSE i
    BY AwaitedReceive
  <2>2. Awaited(u, j) BY <1>3, <2>1 DEF Awaited
  <2>3. u = t BY <1>2, <2>2 DEF CallInv, OneCall
  <2>4. j = 1 BY <1>2, <2>2, <2>3
  <2> QED BY <2>1, <2>3, <2>4
<1> QED BY <1>2, <1>3 DEF NoneAwaited

LEMMA CallHandle ==
  ASSUME TypeOK, CallInv, [Next]_vars, NEW t \in Threads, HandleMessage(t)
  PROVE  CallInv'
<1>1. UNCHANGED <<lock, call, queue_status>> /\ ~synchronizing
  <2>1. UNCHANGED messageFrame /\ ~synchronizing
    BY DEF HandleMessage, HandleGracefulStop, HandleStart, HandleStartDenied, HandleStop,
           HandleRelease, HandleSync, Receive
  <2> QED BY <2>1 DEF messageFrame, outVars
<1>2. ASSUME NEW op \in {"GracefulStop", "Start"}, Receive(t, op), UNCHANGED <<reply, syncVars>>
      PROVE  CallInv'
  <2>1. \A u \in Threads : \A i \in 1..Len(msg_queue'[u]) :
          \E j \in 1..Len(msg_queue[u]) : /\ msg_queue'[u][i] = msg_queue[u][j]
                                          /\ j = IF u = t THEN i + 1 ELSE i
    BY <1>2, AwaitedReceive
  <2>2. ASSUME NEW u \in Threads, NEW i \in 1..Len(msg_queue'[u]), NEW k \in 1..Len(msg_queue'[u]),
               Awaited(u, i)', Awaited(u, k)'
        PROVE  i = k
    <3>1. PICK a \in 1..Len(msg_queue[u]) : /\ msg_queue'[u][i] = msg_queue[u][a]
                                            /\ a = IF u = t THEN i + 1 ELSE i
      BY <2>1
    <3>2. PICK b \in 1..Len(msg_queue[u]) : /\ msg_queue'[u][k] = msg_queue[u][b]
                                            /\ b = IF u = t THEN k + 1 ELSE k
      BY <2>1
    <3>3. Awaited(u, a) /\ Awaited(u, b) BY <2>2, <3>1, <3>2 DEF Awaited
    <3>4. a = b BY <3>3 DEF CallInv, OneCall
    <3> QED BY <3>1, <3>2, <3>4
  <2>3. UNCHANGED <<synchronizing, sync_pending_set>> BY <1>2 DEF syncVars
  <2> QED BY <1>1, <1>2, <2>1, <2>2, <2>3, StaysTerminal, SyncNamesRequest, CallInvKept
<1>3. CASE HandleGracefulStop(t) \/ HandleStart(t) \/ HandleStartDenied(t)
  BY <1>2, <1>3 DEF HandleGracefulStop, HandleStart, HandleStartDenied
<1>4. CASE HandleStop(t) \/ HandleRelease(t)
  <2>1. PICK op \in {"Stop", "Release"} : Receive(t, op)
    BY <1>4 DEF HandleStop, HandleRelease
  <2>2. reply' # None /\ UNCHANGED <<synchronizing, sync_pending_set>>
    BY <1>4, EngineAssumption DEF HandleStop, HandleRelease, syncVars, EngineAssumption
  <2>3. NoneAwaited' /\ call.pc = "wait" BY <2>1, ReceiveAwaited
  <2> QED BY <1>1, <2>2, <2>3, CallInvIdle DEF CallInv, OneCall, Deferred, TypeOK, ControlTypeOK
<1>5. CASE HandleSync(t)
  <2>1. PICK op \in {"Sync", "SyncAll"} : Receive(t, op) BY <1>5 DEF HandleSync
  <2>2. /\ NoneAwaited' /\ call.pc = "wait" /\ reply = None /\ call.op = op
        /\ call.req = Head(msg_queue[t]).req
    BY <2>1, ReceiveAwaited
  <2>3. /\ synchronizing' = TRUE /\ reply' = reply /\ handle_map' = handle_map
        /\ op = "Sync" => sync_pending_set' = sync_pending_set \cup {Head(msg_queue[t]).req}
        /\ op = "SyncAll" => sync_pending_set' = sync_pending_set \cup handle_map
    BY <1>5, <2>1 DEF HandleSync, Receive
  <2>4. OneCall' BY <1>1, <2>2, <2>3 DEF CallInv, OneCall, NoneAwaited
  <2>5. Deferred' BY <1>1, <2>1, <2>2, <2>3 DEF Deferred
  <2>6. SyncCovers' BY <1>1, <2>1, <2>2, <2>3 DEF SyncCovers
  <2> QED BY <2>4, <2>5, <2>6 DEF CallInv
<1> QED BY <1>3, <1>4, <1>5 DEF HandleMessage

\* UpdateResult takes a request out of the set of a sync only once its queue is
\* terminal.
LEMMA CallUpdate ==
  ASSUME TypeOK, CallInv, [Next]_vars, NEW r \in Requests, UpdateNext(r)
  PROVE  CallInv'
<1>1. UNCHANGED <<lock, call, reply, synchronizing, msg_queue, handle_map>>
  <2>1. UNCHANGED updateFrame
    BY DEF UpdateNext, UpdateTerminal, UpdateNotStarted, UpdateInterrupted, UpdateFetch, Visit
  <2> QED BY <2>1 DEF updateFrame, loopFrame
<1>2. \/ sync_pending_set' = sync_pending_set
      \/ synchronizing /\ sync_pending_set' = sync_pending_set \ {r} /\ queue_status'[r] \in Terminal
  <2>1. queue_status \in [Requests -> Status] BY DEF TypeOK, OutTypeOK
  <2>2. CASE UpdateTerminal(r)
    BY <2>2 DEF UpdateTerminal, SyncDone, outVars
  <2>3. CASE UpdateNotStarted(r) BY <2>3 DEF UpdateNotStarted
  <2>4. CASE UpdateInterrupted(r) BY <2>1, <2>4 DEF UpdateInterrupted, SyncDone, Terminal
  <2>5. CASE UpdateFetch(r)
    <3>1. finish[r] => queue_status'[r] \in Terminal
      BY <2>1, <2>5 DEF UpdateFetch, Terminal
    <3> QED BY <2>5, <3>1 DEF UpdateFetch, SyncDone
  <2> QED BY <2>2, <2>3, <2>4, <2>5 DEF UpdateNext
<1>3. OneCall' BY <1>1 DEF CallInv, OneCall, Awaited
<1>4. Deferred' BY <1>1, <1>2 DEF CallInv, Deferred
<1>5. SyncCovers'
  <2>1. call.op = "Sync" => call.req \in Requests BY SyncNamesRequest
  <2>2. handle_map \subseteq Requests BY DEF TypeOK, ControlTypeOK
  <2> QED BY <1>1, <1>2, <2>1, <2>2, StaysTerminal DEF CallInv, SyncCovers
<1> QED BY <1>3, <1>4, <1>5 DEF CallInv

LEMMA CallCheck ==
  ASSUME TypeOK, CallInv, LoopNext \/ LoopEnd
  PROVE  CallInv'
<1>1. UNCHANGED <<lock, call, msg_queue, handle_map, queue_status>> /\ SyncReturn
  BY DEF LoopNext, LoopEnd, checkFrame, outVars
<1>2. CASE synchronizing /\ sync_pending_set = {}
  <2>1. synchronizing' = FALSE /\ reply' # None /\ sync_pending_set' = {}
    BY <1>1, <1>2, EngineAssumption DEF SyncReturn, EngineAssumption
  <2>2. NoneAwaited /\ call.pc = "wait" BY <1>2, FreeLock DEF CallInv, Deferred
  <2>3. NoneAwaited' BY <1>1, <2>2 DEF NoneAwaited, Awaited
  <2> QED BY <1>1, <2>1, <2>2, <2>3, CallInvIdle DEF CallInv, OneCall
<1>3. CASE ~(synchronizing /\ sync_pending_set = {})
  <2>1. UNCHANGED <<reply, synchronizing, sync_pending_set>>
    BY <1>1, <1>3 DEF SyncReturn, syncVars
  <2>2. OneCall' BY <1>1, <2>1 DEF CallInv, OneCall, Awaited
  <2> QED BY <1>1, <2>1, <2>2 DEF CallInv, Deferred, SyncCovers
<1> QED BY <1>2, <1>3

\* The call protocol is an invariant: at most one message is awaited, it is the
\* lock holder's, and a sync under way covers what its caller waits for.
THEOREM CallInvariant == Spec => []CallInv
<1>1. ASSUME Init PROVE CallInv
  <2>1. \A t \in Threads : 1..Len(msg_queue[t]) = {} BY <1>1 DEF Init
  <2>2. lock = None /\ call = NoCall /\ reply = None /\ synchronizing = FALSE /\ sync_pending_set = {}
    BY <1>1 DEF Init
  <2> QED BY <2>1, <2>2 DEF CallInv, OneCall, Deferred, SyncCovers
<1>2. ASSUME TypeOK, EngineInv, CallInv, [Next]_vars PROVE CallInv'
  <2>1. CASE Quiet
    <3>1. OneCall' BY <1>2, <2>1 DEF CallInv, OneCall, Awaited, Quiet
    <3>2. Deferred' BY <1>2, <2>1 DEF CallInv, Deferred, Quiet
    <3>3. SyncCovers'
      <4>1. (call.op = "Sync" => call.req \in Requests) /\ handle_map \subseteq Requests
        BY <1>2, SyncNamesRequest DEF TypeOK, ControlTypeOK
      <4> QED BY <1>2, <2>1, <4>1, StaysTerminal DEF CallInv, SyncCovers, Quiet
    <3> QED BY <3>1, <3>2, <3>3 DEF CallInv
  <2> QED BY <1>2, <2>1, CallSteps, CallClient, CallStopperSend, CallHandle, CallUpdate, CallCheck
<1> QED BY <1>1, <1>2, TypeCorrect, EngineInvariant, PTL DEF Spec

\* SyncRequest is answered only when the request it names, or every request the
\* engine holds, has reached a terminal status.
THEOREM SyncMeansDone == Spec => SyncReplyMeansDone
<1> DEFINE Answers == reply = None /\ reply' # None =>
                        /\ call.op = "Sync" => queue_status[call.req] \in Terminal
                        /\ call.op = "SyncAll" => \A r \in handle_map : queue_status[r] \in Terminal
<1>1. ASSUME TypeOK, CallInv, [Next]_vars, reply = None, reply' # None PROVE Answers
  <2>1. ~Quiet BY <1>1 DEF Quiet
  <2>2. ASSUME NEW c \in Clients, ClientNext(c) PROVE FALSE
    BY <1>1, <2>2 DEF ClientNext, StartRequest, StartRequestRefused, StartRequestEnqueue,
                      StartRequestRollback, RequestCall, RequestReturn
  <2>3. ASSUME NEW s \in Stoppers, StopModelSend(s) PROVE FALSE
    BY <1>1, <2>3 DEF StopModelSend, stopFrame, apiVars
  <2>4. ASSUME NEW t \in Threads, HandleMessage(t) PROVE Answers
    <3>1. PICK op \in {"Stop", "Release"} : Receive(t, op)
      BY <1>1, <2>4 DEF HandleMessage, HandleGracefulStop, HandleStart, HandleStartDenied,
                        HandleStop, HandleRelease, HandleSync
    <3>2. call.op = op BY <1>1, <3>1, ReceiveAwaited
    <3> QED BY <3>2
  <2>5. ASSUME NEW r \in Requests, UpdateNext(r) PROVE FALSE
    BY <1>1, <2>5 DEF UpdateNext, UpdateTerminal, UpdateNotStarted, UpdateInterrupted,
                      UpdateFetch, Visit, updateFrame
  <2>6. CASE LoopNext \/ LoopEnd
    <3>1. synchronizing /\ sync_pending_set = {}
      BY <1>1, <2>6 DEF LoopNext, LoopEnd, SyncReturn
    <3> QED BY <1>1, <3>1 DEF CallInv, SyncCovers
  <2> QED BY <1>1, <2>1, <2>2, <2>3, <2>4, <2>5, <2>6, CallSteps
<1>2. TypeOK /\ CallInv /\ [Next]_vars => [Answers]_vars BY <1>1
<1> QED BY <1>2, TypeCorrect, CallInvariant, PTL DEF Spec, SyncReplyMeansDone

-----------------------------------------------------------------------------
(* Released requests.  The queue keeps the order of one producer only, so  *)
(* the results below are about requests that one thread starts and         *)
(* releases (SingleUser).                                                  *)

\* What is in no map and has no Start message is gone: the pending queue and the
\* batch only hold requests with a handle.
LEMMA GoneNext ==
  ASSUME EngineInv', NEW x \in Requests, x \notin handle_map', x \notin all_request_map',
         \A t \in Threads : \A i \in 1..Len(msg_queue'[t]) : ~StartAt(t, i, x)'
  PROVE  Gone(x)'
<1>1. ~InSeq(pending', x) /\ x \notin running'
  BY DEF EngineInv, Life, PendingLife, RunningLife
<1> QED BY <1>1 DEF Gone

\* A step that leaves the API, the queues and the maps of the loop alone.
LEMMA ReleaseStill ==
  ASSUME TypeOK', EngineInv', ReleaseInv,
         UNCHANGED <<lock, call, handle, msg_queue, handle_map, all_request_map>>
  PROVE  ReleaseInv'
<1>1. \A r \in Requests : Gone(r) => Gone(r)'
  <2>1. ASSUME NEW r \in Requests, Gone(r) PROVE Gone(r)'
    <3>1. /\ r \notin handle_map' /\ r \notin all_request_map'
          /\ \A t \in Threads : \A i \in 1..Len(msg_queue'[t]) : ~StartAt(t, i, r)'
      BY <2>1 DEF Gone, StartAt
    <3> QED BY <3>1, GoneNext
  <2> QED BY <2>1
<1> QED BY <1>1 DEF ReleaseInv, StartAt, ReleaseAt

\* The messages that a received message leaves behind, seen from before.
LEMMA ReceiveLeaves ==
  ASSUME TypeOK, NEW t \in Threads, NEW op, Receive(t, op),
         NEW u \in Threads, NEW j \in 1..Len(msg_queue[u]), ~(u = t /\ j = 1)
  PROVE  \E i \in 1..Len(msg_queue'[u]) : msg_queue'[u][i] = msg_queue[u][j]
<1>1. msg_queue \in [Threads -> Seq(Message)] BY DEF TypeOK, QueueTypeOK
<1>2. CASE u # t
  <2>1. msg_queue'[u] = msg_queue[u] BY <1>1, <1>2 DEF Receive
  <2> QED BY <2>1
<1>3. CASE u = t
  <2> DEFINE q == msg_queue[t]
  <2>1. q \in Seq(Message) /\ q # <<>> /\ msg_queue'[t] = Tail(q) BY <1>1 DEF Receive
  <2>2. j \in 2..Len(q) BY <1>3, <2>1
  <2> HIDE DEF q
  <2>3. j - 1 \in 1..Len(Tail(q)) /\ Tail(q)[j - 1] = q[j] BY <2>1, <2>2
  <2> QED BY <1>3, <2>1, <2>3 DEF q
<1> QED BY <1>2, <1>3

\* Receiving a message: what is left keeps its users and its order.
LEMMA ReleaseHandle ==
  ASSUME SingleUser, TypeOK, TypeOK', EngineInv, EngineInv', ReleaseInv,
         NEW t \in Threads, HandleMessage(t)
  PROVE  ReleaseInv'
<1>1. UNCHANGED <<lock, call, handle>>
  <2>1. UNCHANGED messageFrame
    BY DEF HandleMessage, HandleGracefulStop, HandleStart, HandleStartDenied, HandleStop,
           HandleRelease, HandleSync
  <2> QED BY <2>1 DEF messageFrame
<1>2. PICK op \in {"GracefulStop", "Start", "Stop", "Release", "Sync", "SyncAll"} : Receive(t, op)
  BY DEF HandleMessage, HandleGracefulStop, HandleStart, HandleStartDenied, HandleStop,
         HandleRelease, HandleSync
<1>3. \A u \in Threads : \A i \in 1..Len(msg_queue'[u]) :
        \E j \in 1..Len(msg_queue[u]) : /\ msg_queue'[u][i] = msg_queue[u][j]
                                        /\ j = IF u = t THEN i + 1 ELSE i
  BY <1>2, AwaitedReceive
<1>4. /\ 1 \in 1..Len(msg_queue[t]) /\ Head(msg_queue[t]) = msg_queue[t][1]
      /\ Head(msg_queue[t]).op = op
  BY <1>2, ReceiveEffect DEF Receive
<1>5. \A r \in Requests, u \in Threads : \A i \in 1..Len(msg_queue'[u]) :
        /\ StartAt(u, i, r)' => u \in UsersOf[r]
        /\ ReleaseAt(u, i, r)' => u \in UsersOf[r] /\ handle'[r] = "released"
        /\ \A j \in 1..Len(msg_queue'[u]) : StartAt(u, i, r)' /\ ReleaseAt(u, j, r)' => i < j
  <2> TAKE r \in Requests, u \in Threads
  <2> TAKE i \in 1..Len(msg_queue'[u])
  <2>1. PICK a \in 1..Len(msg_queue[u]) : /\ msg_queue'[u][i] = msg_queue[u][a]
                                          /\ a = IF u = t THEN i + 1 ELSE i
    BY <1>3
  <2>2. /\ StartAt(u, i, r)' => StartAt(u, a, r)
        /\ ReleaseAt(u, i, r)' => ReleaseAt(u, a, r)
    BY <2>1 DEF StartAt, ReleaseAt
  <2>3. ASSUME NEW j \in 1..Len(msg_queue'[u]), StartAt(u, i, r)', ReleaseAt(u, j, r)' PROVE i < j
    <3>1. PICK b \in 1..Len(msg_queue[u]) : /\ msg_queue'[u][j] = msg_queue[u][b]
                                            /\ b = IF u = t THEN j + 1 ELSE j
      BY <1>3
    <3>2. ReleaseAt(u, b, r) BY <2>3, <3>1 DEF ReleaseAt
    <3>3. a < b BY <2>2, <2>3, <3>2 DEF ReleaseInv
    <3> QED BY <2>1, <3>1, <3>3
  <2> QED BY <1>1, <2>2, <2>3 DEF ReleaseInv
<1>6. ASSUME NEW x \in Requests, Gone(x) PROVE Gone(x)'
  <2>1. \A u \in Threads : \A i \in 1..Len(msg_queue'[u]) : ~StartAt(u, i, x)'
    BY <1>3, <1>6 DEF Gone, StartAt
  <2>2. ~(op = "Start" /\ Head(msg_queue[t]).req = x) BY <1>4, <1>6 DEF Gone, StartAt
  <2>3. x \notin handle_map' /\ x \notin all_request_map'
    BY <1>2, <1>6, <2>2
       DEF Gone, HandleMessage, HandleGracefulStop, HandleStart, HandleStartDenied, HandleStop,
           HandleRelease, HandleSync, Receive
  <2> QED BY <2>1, <2>3, GoneNext
<1>7. ASSUME NEW x \in Requests, ReleaseAt(t, 1, x) PROVE Gone(x)'
  <2>1. op = "Release" /\ x = Head(msg_queue[t]).req BY <1>4, <1>7 DEF ReleaseAt
  <2>2. HandleRelease(t)
    BY <1>2, <2>1 DEF HandleMessage, HandleGracefulStop, HandleStart, HandleStartDenied,
                      HandleStop, HandleSync, Receive
  <2>3. x \notin handle_map' /\ x \notin all_request_map' BY <2>1, <2>2 DEF HandleRelease
  <2>4. ASSUME NEW u \in Threads, NEW i \in 1..Len(msg_queue'[u]), StartAt(u, i, x)' PROVE FALSE
    <3>1. PICK a \in 1..Len(msg_queue[u]) : /\ msg_queue'[u][i] = msg_queue[u][a]
                                            /\ a = IF u = t THEN i + 1 ELSE i
      BY <1>3
    <3>2. StartAt(u, a, x) BY <2>4, <3>1 DEF StartAt
    <3>3. u \in UsersOf[x] /\ t \in UsersOf[x] BY <1>4, <1>7, <3>2 DEF ReleaseInv
    <3>4. u = t BY <3>3 DEF SingleUser
    <3>5. a < 1 BY <1>4, <1>7, <3>2, <3>4 DEF ReleaseInv
    <3> QED BY <3>5
  <2> QED BY <2>3, <2>4, GoneNext
<1>8. ASSUME NEW r \in Requests, handle'[r] = "released"
      PROVE  Gone(r)' \/ \E u \in Threads : \E i \in 1..Len(msg_queue'[u]) : ReleaseAt(u, i, r)'
  <2>1. CASE Gone(r) BY <1>6, <2>1
  <2>2. ASSUME NEW u \in Threads, NEW j \in 1..Len(msg_queue[u]), ReleaseAt(u, j, r)
        PROVE  Gone(r)' \/ \E i \in 1..Len(msg_queue'[u]) : ReleaseAt(u, i, r)'
    <3>1. CASE u = t /\ j = 1 BY <1>7, <2>2, <3>1
    <3>2. CASE ~(u = t /\ j = 1) BY <1>2, <2>2, <3>2, ReceiveLeaves DEF ReleaseAt
    <3> QED BY <3>1, <3>2
  <2> QED BY <1>1, <1>8, <2>1, <2>2 DEF ReleaseInv
<1> QED BY <1>1, <1>5, <1>8 DEF ReleaseInv

\* Sending a message: a Start before its Release, both from a user of the request.
LEMMA ReleaseSend ==
  ASSUME TypeOK, TypeOK', EngineInv', ReleaseInv, NEW t \in Threads, NEW m \in Message, Send(t, m),
         UNCHANGED <<handle_map, all_request_map>>,
         m.op = "Start" => t \in UsersOf[m.req] /\ handle[m.req] # "released",
         m.op = "Release" => t \in UsersOf[m.req] /\ handle'[m.req] = "released",
         \A x \in Requests : handle[x] = "released" => handle'[x] = "released",
         \A x \in Requests : handle'[x] = "released" =>
           handle[x] = "released" \/ (m.op = "Release" /\ m.req = x),
         call'.pc = "enqueue" => lock' = lock /\ call' = call
  PROVE  ReleaseInv'
<1> DEFINE n == Len(msg_queue[t]) + 1
<1>0. Len(msg_queue[t]) \in Nat BY DEF TypeOK, QueueTypeOK
<1>1. \A u \in Threads : \A i \in 1..Len(msg_queue'[u]) :
        \/ i \in 1..Len(msg_queue[u]) /\ msg_queue'[u][i] = msg_queue[u][i]
        \/ u = t /\ i = n /\ msg_queue'[u][i] = m
  BY SendEffect
<1>2. /\ \A u \in Threads : \A i \in 1..Len(msg_queue[u]) :
           i \in 1..Len(msg_queue'[u]) /\ msg_queue'[u][i] = msg_queue[u][i]
      /\ n \in 1..Len(msg_queue'[t]) /\ msg_queue'[t][n] = m
  <2>1. msg_queue \in [Threads -> Seq(Message)] BY DEF TypeOK, QueueTypeOK
  <2>2. /\ msg_queue'[t] = Append(msg_queue[t], m)
        /\ \A u \in Threads : u # t => msg_queue'[u] = msg_queue[u]
    BY <2>1 DEF Send
  <2> DEFINE q == msg_queue[t]
  <2>3. q \in Seq(Message) BY <2>1
  <2> HIDE DEF q
  <2>4. /\ \A i \in 1..Len(q) : i \in 1..Len(Append(q, m)) /\ Append(q, m)[i] = q[i]
        /\ Len(q) + 1 \in 1..Len(Append(q, m)) /\ Append(q, m)[Len(q) + 1] = m
    BY <2>3
  <2>5. ASSUME NEW u \in Threads, NEW i \in 1..Len(msg_queue[u])
        PROVE  i \in 1..Len(msg_queue'[u]) /\ msg_queue'[u][i] = msg_queue[u][i]
    <3>1. CASE u = t BY <2>2, <2>4, <3>1, Zenon DEF q
    <3>2. CASE u # t BY <2>2, <3>2, Zenon
    <3> QED BY <3>1, <3>2
  <2>6. n \in 1..Len(msg_queue'[t]) /\ msg_queue'[t][n] = m BY <2>2, <2>4 DEF q
  <2> QED BY <2>5, <2>6
<1> HIDE DEF n
<1>3. ASSUME NEW r \in Requests, NEW u \in Threads, NEW i \in 1..Len(msg_queue'[u])
      PROVE  /\ StartAt(u, i, r)' => u \in UsersOf[r]
             /\ ReleaseAt(u, i, r)' => u \in UsersOf[r] /\ handle'[r] = "released"
  <2>1. CASE i \in 1..Len(msg_queue[u]) /\ msg_queue'[u][i] = msg_queue[u][i]
    BY <2>1 DEF ReleaseInv, StartAt, ReleaseAt
  <2>2. CASE u = t /\ i = n /\ msg_queue'[u][i] = m BY <2>2 DEF StartAt, ReleaseAt
  <2> QED BY <1>1, <2>1, <2>2
<1>4. ASSUME NEW r \in Requests, NEW u \in Threads, NEW i \in 1..Len(msg_queue'[u]),
             NEW j \in 1..Len(msg_queue'[u]), StartAt(u, i, r)', ReleaseAt(u, j, r)'
      PROVE  i < j
  <2>1. CASE i \in 1..Len(msg_queue[u]) /\ j \in 1..Len(msg_queue[u])
    <3>1. StartAt(u, i, r) /\ ReleaseAt(u, j, r) BY <1>2, <1>4, <2>1 DEF StartAt, ReleaseAt
    <3> QED BY <2>1, <3>1 DEF ReleaseInv
  <2>2. CASE i \in 1..Len(msg_queue[u]) /\ j \notin 1..Len(msg_queue[u])
    <3>1. u = t /\ j = n BY <1>1, <2>2
    <3> QED BY <1>0, <2>2, <3>1 DEF n
  <2>3. CASE i \notin 1..Len(msg_queue[u])
    <3>1. u = t /\ i = n /\ m.op = "Start" /\ m.req = r BY <1>1, <1>4, <2>3 DEF StartAt
    <3>2. CASE j \in 1..Len(msg_queue[u])
      <4>1. ReleaseAt(u, j, r) BY <1>2, <1>4, <3>2 DEF ReleaseAt
      <4>2. handle[r] = "released" BY <3>2, <4>1 DEF ReleaseInv
      <4> QED BY <3>1, <4>2
    <3>3. CASE j \notin 1..Len(msg_queue[u])
      <4>1. msg_queue'[u][j] = m BY <1>1, <3>3
      <4> QED BY <1>4, <3>1, <4>1 DEF ReleaseAt
    <3> QED BY <3>2, <3>3
  <2> QED BY <2>1, <2>2, <2>3
<1>5. ASSUME NEW x \in Requests, Gone(x), handle[x] = "released" PROVE Gone(x)'
  <2>1. x \notin handle_map' /\ x \notin all_request_map' BY <1>5 DEF Gone
  <2>2. \A u \in Threads : \A i \in 1..Len(msg_queue'[u]) : ~StartAt(u, i, x)'
    BY <1>1, <1>5 DEF Gone, StartAt
  <2> QED BY <2>1, <2>2, GoneNext
<1>6. ASSUME NEW r \in Requests, handle'[r] = "released"
      PROVE  Gone(r)' \/ \E u \in Threads : \E i \in 1..Len(msg_queue'[u]) : ReleaseAt(u, i, r)'
  <2>1. CASE handle[r] = "released"
    <3>1. CASE Gone(r) BY <1>5, <2>1, <3>1
    <3>2. ASSUME NEW u \in Threads, NEW i \in 1..Len(msg_queue[u]), ReleaseAt(u, i, r)
          PROVE  i \in 1..Len(msg_queue'[u]) /\ ReleaseAt(u, i, r)'
      BY <1>2, <3>2 DEF ReleaseAt
    <3> QED BY <2>1, <3>1, <3>2 DEF ReleaseInv
  <2>2. CASE m.op = "Release" /\ m.req = r BY <1>2, <2>2 DEF ReleaseAt
  <2> QED BY <1>6, <2>1, <2>2
<1>7. call'.pc = "enqueue" => lock' \in UsersOf[call'.req] BY DEF ReleaseInv
<1> QED BY <1>3, <1>4, <1>6, <1>7 DEF ReleaseInv

LEMMA ReleaseClient ==
  ASSUME TypeOK, TypeOK', EngineInv, EngineInv', ReleaseInv, NEW c \in Clients, ClientNext(c)
  PROVE  ReleaseInv'
<1>0. c \in Threads /\ c # None BY EngineAssumption DEF EngineAssumption, Threads
<1>a. handle \in [Requests -> {"none", "valid", "refused", "released"}] BY DEF TypeOK, ApiTypeOK
<1>b. UNCHANGED <<handle_map, all_request_map>>
  <2>1. UNCHANGED apiFrame
    BY DEF ClientNext, StartRequest, StartRequestRefused, StartRequestEnqueue,
           StartRequestRollback, RequestCall, RequestReturn
  <2> QED BY <2>1 DEF apiFrame
<1>c. call.pc = "enqueue" => /\ lock \in UsersOf[call.req] /\ call.req \in Requests
                             /\ handle[call.req] = "none"
  BY DEF ReleaseInv, EngineInv, StartOnce, TypeOK, ApiTypeOK, Call
<1>d. NoCall.pc # "enqueue" BY DEF NoCall
<1>1. ASSUME UNCHANGED msg_queue,
             \A r \in Requests : handle'[r] = "released" <=> handle[r] = "released",
             call'.pc = "enqueue" => lock' \in UsersOf[call'.req]
      PROVE  ReleaseInv'
  <2>1. ASSUME NEW r \in Requests, Gone(r) PROVE Gone(r)'
    <3>1. /\ r \notin handle_map' /\ r \notin all_request_map'
          /\ \A t \in Threads : \A i \in 1..Len(msg_queue'[t]) : ~StartAt(t, i, r)'
      BY <1>b, <1>1, <2>1 DEF Gone, StartAt
    <3> QED BY <3>1, GoneNext
  <2> QED BY <1>1, <2>1 DEF ReleaseInv, StartAt, ReleaseAt
<1>2. ASSUME NEW r \in Requests, StartRequest(c, r) PROVE ReleaseInv'
  BY <1>1, <1>2 DEF StartRequest
<1>3. ASSUME NEW r \in Requests, StartRequestRefused(c, r) PROVE ReleaseInv'
  <2>1. \A x \in Requests : handle'[x] = "released" <=> handle[x] = "released"
    BY <1>a, <1>3 DEF StartRequestRefused
  <2> QED BY <1>1, <1>3, <2>1 DEF StartRequestRefused, ReleaseInv
<1>4. ASSUME StartRequestEnqueue(c) PROVE ReleaseInv'
  <2> USE <1>4 DEF StartRequestEnqueue
  <2> DEFINE m == [op |-> "Start", req |-> call.req]
  <2>1. m \in Message /\ m.op = "Start" /\ m.req = call.req BY <1>c DEF Message
  <2>2. Send(c, m) /\ c \in UsersOf[m.req] /\ handle[m.req] # "released" BY <1>c
  <2>3. \A x \in Requests : handle'[x] = "released" <=> handle[x] = "released" BY <1>a, <1>c
  <2>4. call'.pc # "enqueue" BY <1>d
  <2> HIDE DEF m
  <2> QED BY <1>0, <1>b, <2>1, <2>2, <2>3, <2>4, ReleaseSend
<1>5. ASSUME StartRequestRollback(c) PROVE ReleaseInv'
  <2>1. \A x \in Requests : handle'[x] = "released" <=> handle[x] = "released"
    BY <1>a, <1>c, <1>5 DEF StartRequestRollback
  <2> QED BY <1>1, <1>d, <1>5, <2>1 DEF StartRequestRollback
<1>6. ASSUME NEW op \in {"Stop", "Release", "Sync", "SyncAll"}, NEW r,
             op = "SyncAll" => r = None, RequestCall(c, op, r)
      PROVE  ReleaseInv'
  <2> USE <1>6 DEF RequestCall
  <2> DEFINE m == [op |-> op, req |-> r]
  <2>1. m \in Message /\ m.op = op /\ m.req = r BY DEF Message
  <2>2. Send(c, m) /\ call'.pc # "enqueue" OBVIOUS
  <2>3. op = "Release" => c \in UsersOf[r] /\ r \in Requests /\ handle'[r] = "released" BY <1>a
  <2>4. \A x \in Requests : handle[x] = "released" => handle'[x] = "released" BY <1>a
  <2>5. \A x \in Requests : handle'[x] = "released" =>
          handle[x] = "released" \/ (op = "Release" /\ r = x)
    BY <1>a
  <2> HIDE DEF m
  <2> QED BY <1>0, <1>b, <2>1, <2>2, <2>3, <2>4, <2>5, ReleaseSend
<1>7. ASSUME RequestReturn(c) PROVE ReleaseInv'
  BY <1>1, <1>d, <1>7 DEF RequestReturn
<1> QED BY <1>2, <1>3, <1>4, <1>5, <1>6, <1>7 DEF ClientNext

LEMMA NextRelease ==
  ASSUME SingleUser, TypeOK, TypeOK', EngineInv, EngineInv', ReleaseInv, [Next]_vars
  PROVE  ReleaseInv'
<1>1. CASE Quiet BY <1>1, ReleaseStill DEF Quiet
<1>2. ASSUME NEW s \in Stoppers, StopModelSend(s) PROVE ReleaseInv'
  <2> DEFINE m == [op |-> "GracefulStop", req |-> None]
  <2>1. m \in Message /\ m.op = "GracefulStop" BY DEF Message
  <2>2. Send(s, m) /\ s \in Threads BY <1>2 DEF StopModelSend, Threads
  <2>3. UNCHANGED <<lock, call, handle, handle_map, all_request_map>>
    BY <1>2 DEF StopModelSend, stopFrame, apiVars
  <2> HIDE DEF m
  <2> QED BY <2>1, <2>2, <2>3, ReleaseSend
<1>3. ASSUME NEW r \in Requests, UpdateNext(r) PROVE ReleaseInv'
  <2>1. UNCHANGED updateFrame
    BY <1>3 DEF UpdateNext, UpdateTerminal, UpdateNotStarted, UpdateInterrupted, UpdateFetch, Visit
  <2> QED BY <2>1, ReleaseStill DEF updateFrame, loopFrame
<1>4. CASE LoopNext \/ LoopEnd BY <1>4, ReleaseStill DEF LoopNext, LoopEnd, checkFrame
<1> QED BY <1>1, <1>2, <1>3, <1>4, CallSteps, ReleaseClient, ReleaseHandle

\* Once ReleaseRequest has returned, nothing of the request is left in the engine
\* and no message can bring it back, for requests used by one thread.
THEOREM ReleasedStaysGone == SingleUser => (Spec => []ReleasedIsGone)
<1> SUFFICES ASSUME SingleUser PROVE Spec => []ReleasedIsGone OBVIOUS
<1>1. ASSUME Init PROVE ReleaseInv
  <2>1. /\ \A t \in Threads : 1..Len(msg_queue[t]) = {}
        /\ \A r \in Requests : handle[r] = "none"
        /\ call.pc = "idle"
    BY <1>1 DEF Init, NoCall
  <2> QED BY <2>1 DEF ReleaseInv
<1>2. TypeOK /\ TypeOK' /\ EngineInv /\ EngineInv' /\ ReleaseInv /\ [Next]_vars => ReleaseInv'
  BY NextRelease
<1>3. ASSUME TypeOK, CallInv, ReleaseInv PROVE ReleasedIsGone
  <2>1. ASSUME NEW r \in Requests, NEW t \in Threads, NEW i \in 1..Len(msg_queue[t]),
               ReleaseAt(t, i, r)
        PROVE  call.op = "Release" /\ call.req = r
    BY <1>3, <2>1 DEF CallInv, OneCall, ReleaseAt, Awaited
  <2> QED BY <1>3, <2>1 DEF ReleaseInv, ReleasedIsGone, Gone
<1> QED BY <1>1, <1>2, <1>3, TypeCorrect, EngineInvariant, CallInvariant, PTL DEF Spec
=============================================================================
