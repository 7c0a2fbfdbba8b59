------------------------ MODULE EngineDeliveryProofs ------------------------
(* Theorems about what EngineLoop hands to its readers and about the LoRAs *)
(* its requests use, for clients that do not call StopRequest: stopping a  *)
(* queued request leaves it finished without its finish flag.              *)
EXTENDS EngineCallProofs

\* No client calls StopRequest.
NoStopCalls == "Stop" \notin ClientOps

\* Then the loop receives no such message.
LEMMA NoStopMessage ==
  ASSUME NoStopCalls, TypeOK, CallInv, NEW t \in Threads, HandleStop(t)
  PROVE  FALSE
<1>1. t = lock /\ call.op = "Stop" BY ReceiveAwaited DEF HandleStop
<1>2. t # None BY EngineAssumption DEF EngineAssumption, Threads
<1> QED BY <1>1, <1>2 DEF NoStopCalls, CallInv, OneCall

\* What the pending queue and the batch know of a request.
LEMMA PendingFacts ==
  ASSUME TypeOK, EngineInv, NEW r \in Requests, InSeq(pending, r)
  PROVE  r \in handle_map /\ status[r] = "Init" /\ queue_status[r] = "Init" /\ r \notin running
BY DEF EngineInv, Life, PendingLife

LEMMA RunningFacts ==
  ASSUME TypeOK, EngineInv, NEW r \in running
  PROVE  /\ r \in Requests /\ r \in handle_map /\ status[r] = "ContextFinished"
         /\ queue_status[r] \notin Terminal
BY DEF EngineInv, Life, RunningLife, TypeOK, BatchTypeOK

LEMMA TokenTypes ==
  ASSUME TypeOK, NEW r \in Requests
  PROVE  generated[r] \in Nat /\ generate_length[r] \in Nat /\ out_len[r] \in Nat
BY DEF TypeOK, TokenTypeOK, OutTypeOK

-----------------------------------------------------------------------------
(* Tokens.                                                                 *)

tokenState(r) == <<status[r], finish[r], generated[r], generate_length[r], out_len[r],
                   queue_status[r], ignored[r]>>

\* A step that does not touch request r, and does not end its claim to a token.
LEMMA TokensKept ==
  ASSUME NEW r \in Requests, TokensOf(r), UNCHANGED tokenState(r),
         r \in handle_map' => r \in handle_map,
         Owed(r) => Owed(r)'
  PROVE  TokensOf(r)'
<1>1. r \in Ignored' <=> r \in Ignored BY DEF Ignored, tokenState
<1> QED BY <1>1 DEF TokensOf, tokenState

\* A step that changes no token and no status.
tokenStill == UNCHANGED <<status, finish, generated, generate_length, out_len, queue_status,
                          ignored, handle_map, all_request_map>>

LEMMA DeliveryStill ==
  ASSUME DeliveryInv, tokenStill,
         \A r \in Requests : Owed(r) => \/ lp' = lp /\ todo' = todo
                                        \/ lp' = "update" /\ r \in todo'
  PROVE  DeliveryInv'
<1>1. ASSUME NEW r \in Requests PROVE TokensOf(r)'
  <2>1. Owed(r) => Owed(r)' BY DEF Owed, tokenStill
  <2>2. UNCHANGED tokenState(r) /\ handle_map' = handle_map BY DEF tokenStill, tokenState
  <2> QED BY <2>1, <2>2, TokensKept DEF DeliveryInv
<1> QED BY <1>1 DEF DeliveryInv, tokenStill

\* Outside a turn nothing is owed.
LEMMA NothingOwed ==
  ASSUME DeliveryInv, lp \in {"message", "decode", "check", "exited"} \/ (lp = "update" /\ todo = {}),
         NEW r \in Requests
  PROVE  ~Owed(r) /\ (r \notin Ignored => generate_length[r] = generated[r])
BY DEF DeliveryInv, TokensOf, Owed

LEMMA DeliveryApi ==
  ASSUME DeliveryInv, UNCHANGED <<batchVars, tokenVars, outVars, handle_map, all_request_map,
                                  lp, todo>>
  PROVE  DeliveryInv'
BY DeliveryStill DEF batchVars, tokenVars, outVars, tokenStill

\* StopRequest leaves a request it knows finished, and every other alone.
LEMMA StopStatus ==
  ASSUME TypeOK, NEW r \in Requests, StopRequest(r), ~InSeq(pending, r)
  PROVE  /\ \A x \in Requests : x # r => status'[x] = status[x] /\ finish'[x] = finish[x]
         /\ \/ r \in running /\ status'[r] = "GenerateFinished" /\ finish'[r] = TRUE
            \/ r \notin running /\ status'[r] = status[r] /\ finish'[r] = finish[r]
<1>0. status \in [Requests -> Status] /\ finish \in [Requests -> BOOLEAN]
  BY DEF TypeOK, BatchTypeOK
<1>1. CASE StopPendingRequest(r) BY <1>1 DEF StopPendingRequest
<1>2. CASE StopRunningRequest(r)
  <2>1. \A x \in Requests : status'[x] = IF x = r THEN "GenerateFinished" ELSE status[x]
    BY <1>0, <1>2 DEF StopRunningRequest
  <2>2. \A x \in Requests : finish'[x] = IF x = r THEN TRUE ELSE finish[x]
    BY <1>0, <1>2 DEF StopRunningRequest
  <2> QED BY <1>2, <2>1, <2>2 DEF StopRunningRequest
<1>3. CASE StopUnknownRequest(r) BY <1>3 DEF StopUnknownRequest, batchVars
<1> QED BY <1>1, <1>2, <1>3 DEF StopRequest

LEMMA DeliveryHandle ==
  ASSUME NoStopCalls, TypeOK, EngineInv, CallInv, DeliveryInv,
         NEW t \in Threads, HandleMessage(t)
  PROVE  DeliveryInv'
<1>1. lp = "message" /\ UNCHANGED <<lp, todo, tokenVars, outVars>>
  <2>1. lp = "message" /\ UNCHANGED messageFrame
    BY DEF HandleMessage, HandleGracefulStop, HandleStart, HandleStartDenied,
           HandleStop, HandleRelease, HandleSync, Receive
  <2> QED BY <2>1 DEF messageFrame
<1>2. UNCHANGED <<generated, out_len, generate_length, queue_status, ignored, Ignored>>
  BY <1>1 DEF tokenVars, outVars, Ignored
<1>3. \A r \in Requests : ~Owed(r) BY <1>1, NothingOwed
<1>4. CASE HandleGracefulStop(t) \/ HandleStartDenied(t) \/ HandleSync(t)
  BY <1>1, <1>4, DeliveryApi DEF HandleGracefulStop, HandleStartDenied, HandleSync
<1>5. CASE HandleStart(t)
  <2> USE <1>5 DEF HandleStart
  <2>1. PICK r \in Requests : r = Head(msg_queue[t]).req
    BY ReceiveEffect DEF Receive, Message
  <2>2. status[r] = "Init"
    <3>1. 1 \in 1..Len(msg_queue[t]) /\ StartAt(t, 1, r)
      BY <2>1, ReceiveEffect DEF StartAt, Receive
    <3> QED BY <3>1 DEF EngineInv, StartOnce, Fresh
  <2>3. UNCHANGED <<status, finish>> /\ handle_map' = handle_map \cup {r}
    BY <2>1
  <2>4. ASSUME NEW x \in Requests PROVE TokensOf(x)'
    <3>1. CASE x = r BY <1>2, <1>3, <2>2, <2>3, <3>1 DEF DeliveryInv, TokensOf
    <3>2. CASE x # r
      BY <1>2, <1>3, <2>3, <3>2, TokensKept DEF DeliveryInv, tokenState
    <3> QED BY <3>1, <3>2
  <2>5. all_request_map' = handle_map' BY <2>1 DEF DeliveryInv
  <2> QED BY <2>4, <2>5 DEF DeliveryInv
<1>6. CASE HandleRelease(t)
  <2>1. PICK r \in Requests : r = Head(msg_queue[t]).req
    BY <1>6, ReceiveEffect DEF HandleRelease, Receive, Message
  <2>2. /\ StopRequest(r) /\ handle_map' = handle_map \ {r}
        /\ all_request_map' = all_request_map \ {r}
    BY <1>6, <2>1 DEF HandleRelease
  <2>3. \A x \in Requests : x # r => status'[x] = status[x] /\ finish'[x] = finish[x]
    BY <2>2, StopEffect DEF EngineInv
  <2>4. status'[r] = "Init" => status[r] = "Init"
    BY <2>2 DEF StopRequest, StopPendingRequest, StopRunningRequest, StopUnknownRequest,
                batchVars, TypeOK, BatchTypeOK
  <2>5. ASSUME NEW x \in Requests PROVE TokensOf(x)'
    <3>1. CASE x = r BY <1>2, <1>3, <2>2, <2>4, <3>1 DEF DeliveryInv, TokensOf
    <3>2. CASE x # r
      BY <1>2, <1>3, <2>2, <2>3, <3>2, TokensKept DEF DeliveryInv, tokenState
    <3> QED BY <3>1, <3>2
  <2> QED BY <2>2, <2>5 DEF DeliveryInv
<1>7. CASE HandleStop(t) BY <1>7, NoStopMessage
<1> QED BY <1>4, <1>5, <1>6, <1>7 DEF HandleMessage

\* A prefill: the head of the queue is the only request it touches.
LEMMA DeliveryContext ==
  ASSUME TypeOK, EngineInv, DeliveryInv, NEW r \in Requests, ContextNext(r), ~LoraMissing(r)
  PROVE  DeliveryInv'
<1>1. lp = "context" /\ CanContext /\ r = Head(pending) /\ UNCHANGED contextFrame
  BY DEF ContextNext, ContextNoFrame, ContextChunk, ContextChunkIgnored, ContextRun,
         ContextRunFinish, ContextIgnored, ContextLoraMissing, ContextFault, AfterContext, Admits
<1>2. UNCHANGED <<handle_map, all_request_map, generate_length, queue_status>>
  BY <1>1 DEF contextFrame, outVars
<1>3. InSeq(pending, r)
  <2>1. pending \in Seq(Requests) /\ pending # <<>> BY <1>1 DEF TypeOK, BatchTypeOK, CanContext
  <2> QED BY <1>1, <2>1, TailEffect DEF EngineInv, Life
<1>4. r \in handle_map /\ status[r] = "Init" /\ queue_status[r] = "Init"
  BY <1>3, PendingFacts
<1>5. r \notin Ignored => generated[r] = 0 /\ generate_length[r] = 0 BY <1>4 DEF DeliveryInv, TokensOf
<1>6. lp' = "context" \/ (lp' = "update" /\ todo' = handle_map)
  BY <1>1 DEF ContextNext, ContextNoFrame, ContextChunk, ContextChunkIgnored, ContextRun,
              ContextRunFinish, ContextIgnored, ContextLoraMissing, ContextFault, AfterContext,
              UpdateThen
<1>7. /\ status \in [Requests -> Status] /\ finish \in [Requests -> BOOLEAN]
      /\ generated \in [Requests -> Nat] /\ out_len \in [Requests -> Nat]
      /\ ignored \in [Requests -> {"no", "stuck", "blank"}]
  BY DEF TypeOK, BatchTypeOK, TokenTypeOK
<1>a. /\ \A x \in Requests : x # r => ignored'[x] = ignored[x]
      /\ r \in Ignored => r \in Ignored'
  BY <1>7 DEF ContextNext, ContextNoFrame, ContextChunk, ContextChunkIgnored, ContextRun,
              ContextRunFinish, ContextIgnored, ContextLoraMissing, ContextFault, tokenVars, Ignored
<1>8. ASSUME \A x \in Requests : x # r => /\ status'[x] = status[x] /\ finish'[x] = finish[x]
                                          /\ generated'[x] = generated[x] /\ out_len'[x] = out_len[x],
             TokensOf(r)'
      PROVE  DeliveryInv'
  <2>1. ASSUME NEW x \in Requests, x # r PROVE TokensOf(x)'
    <3>1. Owed(x) => Owed(x)' BY <1>2, <1>6, <1>8, <2>1 DEF Owed
    <3>2. UNCHANGED tokenState(x) BY <1>2, <1>8, <1>a, <2>1 DEF tokenState
    <3> QED BY <1>2, <3>1, <3>2, TokensKept DEF DeliveryInv
  <2> QED BY <1>2, <1>8, <2>1 DEF DeliveryInv
<1>9. CASE ContextNoFrame(r)
  <2> USE <1>9 DEF ContextNoFrame
  <2>1. \A x \in Requests : x # r => status'[x] = status[x] /\ finish'[x] = finish[x] BY <1>7
  <2>2. UNCHANGED <<generated, out_len>> /\ status'[r] = "GenerateInterrupted" BY <1>7 DEF tokenVars
  <2> QED BY <1>2, <1>5, <1>8, <1>a, <2>1, <2>2 DEF TokensOf
<1>10. CASE ContextChunk(r)
  <2> USE <1>10 DEF ContextChunk
  <2>1. UNCHANGED <<status, finish, generated>> OBVIOUS
  <2>2. \A x \in Requests : x # r => out_len'[x] = out_len[x] BY <1>7
  <2> QED BY <1>2, <1>4, <1>5, <1>8, <1>a, <2>1, <2>2 DEF TokensOf
<1>11. CASE ContextRun(r) \/ ContextRunFinish(r)
  <2>1. /\ \A x \in Requests : x # r => status'[x] = status[x]
        /\ status'[r] \in {"ContextFinished", "GenerateFinished"}
    BY <1>7, <1>11 DEF ContextRun, ContextRunFinish
  <2>2. /\ \A x \in Requests : x # r => finish'[x] = finish[x]
        /\ status'[r] = "GenerateFinished" => finish'[r] = TRUE
    BY <1>7, <1>11 DEF ContextRun, ContextRunFinish
  <2>3. /\ \A x \in Requests : x # r => generated'[x] = generated[x]
        /\ generated'[r] = 1
    BY <1>7, <1>11 DEF ContextRun, ContextRunFinish
  <2>4. /\ \A x \in Requests : x # r => out_len'[x] = out_len[x]
        /\ out_len'[r] = 1
    BY <1>7, <1>11 DEF ContextRun, ContextRunFinish
  <2>5. Owed(r)' BY <1>2, <1>4, <1>6, <2>1 DEF Owed, Terminal
  <2>6. TokensOf(r)' BY <1>2, <1>5, <1>a, <2>1, <2>2, <2>3, <2>4, <2>5 DEF TokensOf
  <2> QED BY <1>8, <2>1, <2>2, <2>3, <2>4, <2>6
<1>12. CASE ContextFault(r)
  <2> USE <1>12 DEF ContextFault
  <2>1. UNCHANGED <<generated, out_len>> BY DEF tokenVars
  <2>2. /\ \A x \in Requests : x # r => status'[x] = status[x] /\ finish'[x] = finish[x]
        /\ status'[r] \in {"Init", "GenerateInterrupted"}
    BY <1>4, <1>7
  <2> QED BY <1>2, <1>5, <1>8, <1>a, <2>1, <2>2 DEF TokensOf
<1>13. CASE ContextIgnored(r)
  <2> USE <1>13 DEF ContextIgnored
  <2>1. UNCHANGED <<finish, generated, out_len>> OBVIOUS
  <2>2. /\ \A x \in Requests : x # r => status'[x] = status[x]
        /\ status'[r] = "ContextFinished"
    BY <1>7
  <2>3. r \in Ignored' BY <1>7 DEF Ignored
  <2> QED BY <1>8, <2>1, <2>2, <2>3 DEF TokensOf
<1>14. CASE ContextChunkIgnored(r)
  <2>1. UNCHANGED <<status, finish, generated, out_len>> BY <1>14 DEF ContextChunkIgnored
  <2> QED BY <1>2, <1>4, <1>5, <1>8, <1>a, <2>1 DEF TokensOf
<1> QED BY <1>9, <1>10, <1>11, <1>12, <1>13, <1>14 DEF ContextNext, ContextLoraMissing

\* UpdateResult hands out what is owed, and nothing else.
LEMMA DeliveryUpdate ==
  ASSUME TypeOK, EngineInv, DeliveryInv, NEW r \in Requests, UpdateNext(r)
  PROVE  DeliveryInv'
<1>1. /\ lp = "update" /\ r \in todo /\ todo' = todo \ {r} /\ lp' = lp
      /\ UNCHANGED updateFrame
  BY DEF UpdateNext, UpdateTerminal, UpdateNotStarted, UpdateInterrupted, UpdateFetch, Visit
<1>2. UNCHANGED <<status, finish, generated, out_len, ignored, Ignored, handle_map,
                  all_request_map>>
  BY <1>1 DEF updateFrame, batchVars, tokenVars, Ignored
<1>3. r \in handle_map /\ TokensOf(r) /\ all_request_map = handle_map
  BY <1>1 DEF EngineInv, Phase, DeliveryInv
<1>4. /\ queue_status \in [Requests -> Status] /\ generate_length \in [Requests -> Nat]
      /\ status[r] \in Status
  BY DEF TypeOK, OutTypeOK, BatchTypeOK
<1>5. ASSUME NEW x \in Requests, x # r PROVE TokensOf(x)'
  <2>1. queue_status'[x] = queue_status[x]
    BY <1>4, <1>5 DEF UpdateNext, UpdateTerminal, UpdateNotStarted, UpdateInterrupted,
                      UpdateFetch, outVars
  <2>2. generate_length'[x] = generate_length[x]
    BY <1>4, <1>5 DEF UpdateNext, UpdateTerminal, UpdateNotStarted, UpdateInterrupted,
                      UpdateFetch, outVars
  <2>3. Owed(x) => Owed(x)' BY <1>1, <1>2, <1>5, <2>1 DEF Owed
  <2>4. UNCHANGED tokenState(x) BY <1>2, <2>1, <2>2 DEF tokenState
  <2> QED BY <1>2, <2>3, <2>4, TokensKept DEF DeliveryInv
<1>6. TokensOf(r)'
  <2>1. CASE UpdateTerminal(r)
    BY <1>2, <1>3, <2>1 DEF UpdateTerminal, outVars, TokensOf, Owed
  <2>2. CASE UpdateNotStarted(r)
    BY <1>2, <1>3, <2>2 DEF UpdateNotStarted, Started, outVars, TokensOf, Owed
  <2>3. CASE UpdateInterrupted(r)
    BY <1>2, <1>3, <2>3 DEF UpdateInterrupted, TokensOf, Owed
  <2>4. CASE UpdateFetch(r)
    <3>1. status[r] \notin {"Init", "GenerateInterrupted"}
      BY <2>4 DEF UpdateFetch, Started
    <3>2. generate_length'[r] = IF out_len[r] > generate_length[r] THEN out_len[r]
                                ELSE generate_length[r]
      BY <1>4, <2>4 DEF UpdateFetch
    <3>3. r \notin Ignored => out_len[r] = generated[r] BY <1>3, <3>1 DEF TokensOf
    <3>4. r \notin Ignored => generate_length'[r] = generated[r]
      <4>1. generated[r] \in Nat /\ generate_length[r] \in Nat BY TokenTypes
      <4>2. r \notin Ignored =>
              generate_length[r] = generated[r] \/ generated[r] = generate_length[r] + 1
        BY <1>3 DEF TokensOf
      <4> QED BY <3>2, <3>3, <4>1, <4>2
    <3> QED BY <1>2, <1>3, <3>1, <3>4 DEF TokensOf
  <2> QED BY <2>1, <2>2, <2>3, <2>4 DEF UpdateNext
<1> QED BY <1>2, <1>5, <1>6 DEF DeliveryInv

\* A request leaves the batch: evicted when nothing is owed, or finished with
\* its last token still owed.
LEMMA DeliveryStop ==
  ASSUME TypeOK, EngineInv, DeliveryInv, NEW r \in Requests,
         DecodeStopVictim(r) \/ DecodeStopFinished(r)
  PROVE  DeliveryInv'
<1>1. /\ StopRequest(r) /\ UNCHANGED <<lp, todo, generated, out_len, generate_length,
                                       ignored, Ignored, handle_map, all_request_map>>
  BY DEF DecodeStopVictim, DecodeStopFinished, decodeFrame, Ignored
<1>2. ~InSeq(pending, r)
  <2>1. CASE DecodeStopVictim(r)
    BY <2>1, PendingFacts DEF DecodeStopVictim, ChooseVictimRequest, Longest, Candidates
  <2>2. CASE DecodeStopFinished(r)
    BY <2>2, PendingFacts DEF DecodeStopFinished, EngineInv, Phase
  <2> QED BY <2>1, <2>2
<1>3. queue_status \in [Requests -> Status] BY DEF TypeOK, OutTypeOK
<1>4. \A x \in Requests : Owed(x) => queue_status'[x] = queue_status[x]
  <2>1. CASE DecodeStopVictim(r) BY <2>1, NothingOwed DEF DecodeStopVictim
  <2>2. CASE DecodeStopFinished(r) BY <2>2 DEF DecodeStopFinished
  <2> QED BY <2>1, <2>2
<1>5. \A x \in Requests : x # r => status'[x] = status[x] /\ finish'[x] = finish[x]
  BY <1>1, <1>2, StopStatus
<1>6. ASSUME NEW x \in Requests, x # r PROVE TokensOf(x)'
  <2>1. Owed(x) => Owed(x)' BY <1>1, <1>4, <1>5, <1>6 DEF Owed
  <2> QED BY <1>1, <1>5, <1>6, <2>1 DEF DeliveryInv, TokensOf
<1>7. TokensOf(r)'
  <2>1. CASE r \notin running
    <3>1. status'[r] = status[r] /\ finish'[r] = finish[r] BY <1>1, <1>2, <2>1, StopStatus
    <3>2. Owed(r) => Owed(r)' BY <1>1, <1>4, <3>1 DEF Owed
    <3> QED BY <1>1, <3>1, <3>2 DEF DeliveryInv, TokensOf
  <2>2. CASE r \in running
    <3>1. status'[r] = "GenerateFinished" /\ finish'[r] = TRUE BY <1>1, <1>2, <2>2, StopStatus
    <3>2. status[r] = "ContextFinished" /\ r \in handle_map BY <2>2, RunningFacts
    <3>3. Owed(r) => Owed(r)' BY <1>1, <1>4, <3>1 DEF Owed
    <3> QED BY <1>1, <3>1, <3>2, <3>3 DEF DeliveryInv, TokensOf
  <2> QED BY <2>1, <2>2
<1> QED BY <1>1, <1>6, <1>7 DEF DeliveryInv

\* A decode step owes every running request one token.
LEMMA DeliveryDecode ==
  ASSUME TypeOK, EngineInv, DeliveryInv, DecodeRun
  PROVE  DeliveryInv'
<1>1. /\ lp = "decode" /\ lp' = "stop"
      /\ UNCHANGED <<status, finish, queue_status, generate_length, ignored, Ignored, handle_map,
                     all_request_map>>
  BY DEF DecodeRun, decodeFrame, Ignored
<1>2. ASSUME NEW r \in Requests PROVE TokensOf(r)'
  <2>1. ~Owed(r) /\ (r \notin Ignored => generate_length[r] = generated[r])
    BY <1>1, NothingOwed
  <2>2. CASE r \in running
    <3>1. /\ generated'[r] = generated[r] + 1
          /\ r \notin Ignored => out_len'[r] = generated[r] + 1
      BY <2>2 DEF DecodeRun, DecodeOut
    <3>2. r \in handle_map /\ status[r] = "ContextFinished" /\ queue_status[r] \notin Terminal
      BY <2>2, RunningFacts
    <3>3. Owed(r)' BY <1>1, <3>2 DEF Owed
    <3> QED BY <1>1, <2>1, <3>1, <3>2, <3>3 DEF TokensOf
  <2>3. CASE r \notin running
    <3>1. generated'[r] = generated[r] /\ out_len'[r] = out_len[r] BY <2>3 DEF DecodeRun
    <3> QED BY <1>1, <2>1, <3>1 DEF TokensOf, DeliveryInv
  <2> QED BY <2>2, <2>3
<1> QED BY <1>1, <1>2 DEF DeliveryInv

-----------------------------------------------------------------------------
(* LoRA usage.                                                             *)

LEMMA HoldersFinite ==
  ASSUME NEW l
  PROVE  IsFiniteSet(Holders(l)) /\ Cardinality(Holders(l)) \in Nat
<1>1. IsFiniteSet(Holders(l))
  BY FS_Subset, EngineAssumption DEF Holders, EngineAssumption
<1> QED BY <1>1, FS_CardinalityType

\* A LoRA that a request holds is counted.
LEMMA HeldIsCounted ==
  ASSUME TypeOK, UsageInv, NEW r \in Requests, Holding(r)
  PROVE  /\ LoraOf[r] \in Loras /\ LoraOf[r] \in loras
         /\ loras_in_use[LoraOf[r]] \in Nat /\ loras_in_use[LoraOf[r]] > 0
<1> DEFINE l == LoraOf[r]
<1>1. l \in Loras BY EngineAssumption DEF EngineAssumption, Holding
<1>2. r \in Holders(l) BY DEF Holders
<1>3. Cardinality(Holders(l)) \in Nat /\ Cardinality(Holders(l)) # 0
  BY <1>2, HoldersFinite, FS_EmptySet
<1>4. loras_in_use[l] \in Nat /\ Cardinality(Holders(l)) <= loras_in_use[l]
  BY <1>1 DEF TypeOK, LoraTypeOK, UsageInv
<1> QED BY <1>1, <1>3, <1>4 DEF UsageInv

\* The counts that UsageInv compares.
Counted == \A l \in Loras : Cardinality(Holders(l)) <= loras_in_use[l]
Loaded  == \A r \in Requests : Holding(r) => LoraOf[r] \in loras

\* No request starts to hold a LoRA and no count falls.
LEMMA HoldersShrink ==
  ASSUME TypeOK, TypeOK', UsageInv, \A r \in Requests : Holding(r)' => Holding(r),
         \A l \in Loras : loras_in_use'[l] >= loras_in_use[l], loras \subseteq loras'
  PROVE  Counted' /\ Loaded'
<1>1. ASSUME NEW l \in Loras PROVE Cardinality(Holders(l)') <= loras_in_use'[l]
  <2>1. Holders(l)' \subseteq Holders(l) BY DEF Holders
  <2>2. /\ Cardinality(Holders(l)') \in Nat /\ Cardinality(Holders(l)) \in Nat
        /\ Cardinality(Holders(l)') <= Cardinality(Holders(l))
    BY <2>1, HoldersFinite, FS_Subset, FS_CardinalityType
  <2>3. /\ loras_in_use[l] \in Nat /\ loras_in_use'[l] \in Nat
        /\ Cardinality(Holders(l)) <= loras_in_use[l] /\ loras_in_use'[l] >= loras_in_use[l]
    BY DEF TypeOK, LoraTypeOK, UsageInv
  <2> QED BY <2>2, <2>3
<1>2. Loaded' BY DEF Loaded, UsageInv
<1> QED BY <1>1, <1>2 DEF Counted

\* One request starts to hold its LoRA, which is counted once more.
LEMMA HoldersGrow ==
  ASSUME TypeOK, UsageInv, NEW x \in Requests, ~LoraMissing(x), TakeLora(x),
         \A r \in Requests : Holding(r)' => Holding(r) \/ (r = x /\ LoraOf[x] # None)
  PROVE  Counted' /\ Loaded'
<1>0. loras_in_use \in [Loras -> Nat] BY DEF TypeOK, LoraTypeOK
<1>1. ASSUME NEW l \in Loras PROVE Cardinality(Holders(l)') <= loras_in_use'[l]
  <2>0. /\ IsFiniteSet(Holders(l)) /\ Cardinality(Holders(l)) \in Nat /\ loras_in_use[l] \in Nat
        /\ Cardinality(Holders(l)) <= loras_in_use[l]
    BY <1>0, HoldersFinite DEF UsageInv
  <2>1. CASE LoraOf[x] = l
    <3>1. loras_in_use'[l] = loras_in_use[l] + 1
      BY <1>0, <2>1, EngineAssumption DEF TakeLora, EngineAssumption
    <3>2. Holders(l)' \subseteq Holders(l) \cup {x} BY DEF Holders
    <3>3. /\ IsFiniteSet(Holders(l) \cup {x})
          /\ Cardinality(Holders(l) \cup {x}) \in {Cardinality(Holders(l)), Cardinality(Holders(l)) + 1}
      BY <2>0, FS_AddElement
    <3>4. Cardinality(Holders(l)') \in Nat /\ Cardinality(Holders(l)') <= Cardinality(Holders(l) \cup {x})
      BY <3>2, <3>3, FS_Subset, FS_CardinalityType
    <3> QED BY <2>0, <3>1, <3>3, <3>4
  <2>2. CASE LoraOf[x] # l
    <3>1. loras_in_use'[l] = loras_in_use[l] BY <1>0, <2>2 DEF TakeLora
    <3>2. Holders(l)' \subseteq Holders(l) BY <2>2 DEF Holders
    <3>3. Cardinality(Holders(l)') \in Nat /\ Cardinality(Holders(l)') <= Cardinality(Holders(l))
      BY <2>0, <3>2, FS_Subset, FS_CardinalityType
    <3> QED BY <2>0, <3>1, <3>3
  <2> QED BY <2>1, <2>2
<1>2. Loaded' BY DEF Loaded, UsageInv, TakeLora, LoraMissing
<1> QED BY <1>1, <1>2 DEF Counted

\* One request gives its LoRA up, which is counted once less.
LEMMA HoldersDrop ==
  ASSUME TypeOK, UsageInv, NEW x \in Requests, Holding(x), ~Holding(x)',
         loras_in_use' = [loras_in_use EXCEPT ![LoraOf[x]] = loras_in_use[LoraOf[x]] - 1],
         UNCHANGED loras, \A r \in Requests : Holding(r)' => Holding(r)
  PROVE  Counted' /\ Loaded'
<1>0. loras_in_use \in [Loras -> Nat] BY DEF TypeOK, LoraTypeOK
<1>1. ASSUME NEW l \in Loras PROVE Cardinality(Holders(l)') <= loras_in_use'[l]
  <2>0. /\ IsFiniteSet(Holders(l)) /\ Cardinality(Holders(l)) \in Nat /\ loras_in_use[l] \in Nat
        /\ Cardinality(Holders(l)) <= loras_in_use[l]
    BY <1>0, HoldersFinite DEF UsageInv
  <2>1. CASE LoraOf[x] = l
    <3>1. loras_in_use'[l] = loras_in_use[l] - 1 BY <1>0, <2>1
    <3>2. Holders(l)' \subseteq Holders(l) \ {x} /\ x \in Holders(l) BY <2>1 DEF Holders
    <3>3. /\ IsFiniteSet(Holders(l) \ {x})
          /\ Cardinality(Holders(l) \ {x}) = Cardinality(Holders(l)) - 1
      BY <2>0, <3>2, FS_RemoveElement
    <3>4. /\ Cardinality(Holders(l)') \in Nat
          /\ Cardinality(Holders(l)') <= Cardinality(Holders(l) \ {x})
      BY <3>2, <3>3, FS_Subset, FS_CardinalityType
    <3> QED BY <2>0, <3>1, <3>3, <3>4
  <2>2. CASE LoraOf[x] # l
    <3>1. loras_in_use'[l] = loras_in_use[l] BY <1>0, <2>2
    <3>2. Holders(l)' \subseteq Holders(l) BY DEF Holders
    <3>3. Cardinality(Holders(l)') \in Nat /\ Cardinality(Holders(l)') <= Cardinality(Holders(l))
      BY <2>0, <3>2, FS_Subset, FS_CardinalityType
    <3> QED BY <2>0, <3>1, <3>3
  <2> QED BY <2>1, <2>2
<1>2. Loaded' BY DEF Loaded, UsageInv
<1> QED BY <1>1, <1>2 DEF Counted

\* Nothing UsageInv speaks of changes, except that requests may end.
LEMMA UsageQuiet ==
  ASSUME TypeOK, TypeOK', UsageInv,
         UNCHANGED <<call, handle, msg_queue, handle_map, loras, loras_in_use>>,
         \A r \in Requests : queue_status[r] \in Terminal => queue_status'[r] \in Terminal
  PROVE  UsageInv'
<1>1. \A r \in Requests : Holding(r)' => Holding(r) BY DEF Holding
<1>2. \A l \in Loras : loras_in_use'[l] >= loras_in_use[l] BY DEF TypeOK, LoraTypeOK
<1>3. Counted' /\ Loaded' BY <1>1, <1>2, HoldersShrink
<1> QED BY <1>3 DEF UsageInv, Counted, Loaded, StartAt

LEMMA UsageClient ==
  ASSUME TypeOK, TypeOK', EngineInv, CallInv, UsageInv, NEW c \in Clients, ClientNext(c)
  PROVE  UsageInv'
<1>0. c \in Threads /\ c # None BY EngineAssumption DEF EngineAssumption, Threads
<1>a. handle \in [Requests -> {"none", "valid", "refused", "released"}] BY DEF TypeOK, ApiTypeOK
<1>b. loras_in_use \in [Loras -> Nat] BY DEF TypeOK, LoraTypeOK
<1>c. UNCHANGED <<handle_map, queue_status>>
  <2>1. UNCHANGED apiFrame
    BY DEF ClientNext, StartRequest, StartRequestRefused, StartRequestEnqueue,
           StartRequestRollback, RequestCall, RequestReturn
  <2> QED BY <2>1 DEF apiFrame, outVars
<1>d. NoCall.pc = "idle" /\ (lock = None => call = NoCall)
  BY DEF NoCall, CallInv, OneCall
<1>e. call.pc = "enqueue" => call.req \in Requests /\ handle[call.req] = "none"
  BY DEF EngineInv, StartOnce, TypeOK, ApiTypeOK, Call
<1>f. \A r \in Requests : handle[r] = "none" =>
        /\ r \notin handle_map /\ queue_status[r] = "Init"
        /\ \A t \in Threads : \A i \in 1..Len(msg_queue[t]) : ~StartAt(t, i, r)
  BY DEF EngineInv, StartOnce, Fresh
<1>g. handle_map \subseteq Requests BY DEF TypeOK, ControlTypeOK
<1>1. ASSUME Counted', Loaded', UNCHANGED msg_queue,
             \A r \in Requests : handle[r] \in {"valid", "released"} =>
                                   handle'[r] \in {"valid", "released"}
      PROVE  UsageInv'
  BY <1>c, <1>g, <1>1 DEF UsageInv, Counted, Loaded, StartAt
<1>2. ASSUME NEW r \in Requests, StartRequest(c, r) PROVE UsageInv'
  <2> USE <1>2 DEF StartRequest
  <2>1. \A x \in Requests : Holding(x)' => Holding(x) \/ (x = r /\ LoraOf[r] # None)
    BY <1>c DEF Holding
  <2> QED BY <1>1, <2>1, HoldersGrow
<1>3. ASSUME NEW r \in Requests, StartRequestRefused(c, r) PROVE UsageInv'
  <2> USE <1>3 DEF StartRequestRefused
  <2>1. \A x \in Requests : handle'[x] = IF x = r THEN "refused" ELSE handle[x] BY <1>a
  <2>2. \A x \in Requests : Holding(x)' => Holding(x) BY <1>c, <2>1 DEF Holding
  <2>3. loras' = loras /\ \A l \in Loras : loras_in_use'[l] >= loras_in_use[l]
    BY <1>b DEF TakeLora, loraVars
  <2> QED BY <1>1, <2>1, <2>2, <2>3, HoldersShrink
<1>4. ASSUME StartRequestEnqueue(c) PROVE UsageInv'
  <2> USE <1>4 DEF StartRequestEnqueue
  <2> DEFINE m == [op |-> "Start", req |-> call.req]
  <2>1. \A x \in Requests : handle'[x] = IF x = call.req THEN "valid" ELSE handle[x] BY <1>a
  <2>2. \A x \in Requests : Holding(x)' => Holding(x) BY <1>c, <1>d, <2>1 DEF Holding
  <2>3. loras' = loras /\ \A l \in Loras : loras_in_use'[l] >= loras_in_use[l]
    BY <1>b DEF loraVars
  <2>4. Counted' /\ Loaded' BY <2>2, <2>3, HoldersShrink
  <2>5. m \in Message /\ m.op = "Start" /\ m.req = call.req /\ Send(c, m) BY <1>e DEF Message
  <2> HIDE DEF m
  <2>6. \A r \in Requests, t \in Threads : \A i \in 1..Len(msg_queue'[t]) :
          StartAt(t, i, r)' => r = call.req \/ (i \in 1..Len(msg_queue[t]) /\ StartAt(t, i, r))
    BY <1>0, <2>5, SendEffect DEF StartAt
  <2>7. \A r \in Requests, t \in Threads : \A i \in 1..Len(msg_queue'[t]) :
          StartAt(t, i, r)' => handle'[r] \in {"valid", "released"}
    BY <2>1, <2>6 DEF UsageInv
  <2>8. \A r \in handle_map' : handle'[r] \in {"valid", "released"}
    BY <1>c, <1>g, <2>1 DEF UsageInv
  <2> QED BY <2>4, <2>7, <2>8 DEF UsageInv, Counted, Loaded
<1>5. ASSUME StartRequestRollback(c) PROVE UsageInv'
  <2> USE <1>5 DEF StartRequestRollback
  <2>a. PICK x \in Requests : x = call.req BY <1>e
  <2>0. handle[x] = "none" /\ queue_status[x] = "Init" BY <1>e, <1>f, <2>a
  <2>1. \A y \in Requests : handle'[y] = IF y = x THEN "refused" ELSE handle[y] BY <1>a, <2>a
  <2>2. \A y \in Requests : Holding(y)' => Holding(y) BY <1>c, <1>d, <2>1 DEF Holding
  <2>3. ~Holding(x)' BY <1>d, <2>0, <2>1 DEF Holding
  <2>4. CASE LoraOf[x] = None
    <3>1. \A l \in Loras : loras_in_use'[l] >= loras_in_use[l] BY <1>b, <2>a, <2>4
    <3> QED BY <1>1, <2>0, <2>1, <2>2, <3>1, HoldersShrink
  <2>5. CASE LoraOf[x] # None
    <3>1. Holding(x) BY <2>a, <2>0, <2>5 DEF Holding, Terminal
    <3>2. loras_in_use[LoraOf[x]] > 0 BY <2>0, <3>1, HeldIsCounted
    <3>3. loras_in_use' = [loras_in_use EXCEPT ![LoraOf[x]] = loras_in_use[LoraOf[x]] - 1]
      BY <2>a, <2>5, <3>2
    <3>4. loras' = loras OBVIOUS
    <3>5. Counted' /\ Loaded' BY <2>0, <2>2, <2>3, <3>1, <3>3, <3>4, HoldersDrop
    <3> QED BY <1>1, <2>0, <2>1, <3>5
  <2> QED BY <2>4, <2>5
<1>6. ASSUME NEW op \in {"Stop", "Release", "Sync", "SyncAll"}, NEW r,
             op = "SyncAll" => r = None, RequestCall(c, op, r)
      PROVE  UsageInv'
  <2> USE <1>6 DEF RequestCall
  <2> DEFINE m == [op |-> op, req |-> r]
  <2>1. \A x \in Requests : handle'[x] \in {"valid", "released"} <=> handle[x] \in {"valid", "released"}
    BY <1>a
  <2>2. call'.pc = "wait" OBVIOUS
  <2>3. \A x \in Requests : Holding(x)' => Holding(x) BY <1>c, <2>1, <2>2 DEF Holding
  <2>4. loras' = loras /\ \A l \in Loras : loras_in_use'[l] >= loras_in_use[l]
    BY <1>b DEF loraVars
  <2>5. Counted' /\ Loaded' BY <2>3, <2>4, HoldersShrink
  <2>6. m \in Message /\ m.op # "Start" /\ Send(c, m) BY DEF Message
  <2> HIDE DEF m
  <2>7. \A x \in Requests, t \in Threads : \A i \in 1..Len(msg_queue'[t]) :
          StartAt(t, i, x)' => i \in 1..Len(msg_queue[t]) /\ StartAt(t, i, x)
    BY <1>0, <2>6, SendEffect DEF StartAt
  <2>8. \A x \in Requests, t \in Threads : \A i \in 1..Len(msg_queue'[t]) :
          StartAt(t, i, x)' => handle'[x] \in {"valid", "released"}
    BY <2>1, <2>7 DEF UsageInv
  <2>9. \A x \in handle_map' : handle'[x] \in {"valid", "released"}
    BY <1>c, <1>g, <2>1 DEF UsageInv
  <2> QED BY <2>5, <2>8, <2>9 DEF UsageInv, Counted, Loaded
<1>7. ASSUME RequestReturn(c) PROVE UsageInv'
  <2> USE <1>7 DEF RequestReturn
  <2>1. \A x \in Requests : Holding(x)' => Holding(x) BY <1>c, <1>d DEF Holding
  <2>2. loras' = loras /\ \A l \in Loras : loras_in_use'[l] >= loras_in_use[l]
    BY <1>b DEF loraVars
  <2> QED BY <1>1, <2>1, <2>2, HoldersShrink
<1> QED BY <1>2, <1>3, <1>4, <1>5, <1>6, <1>7 DEF ClientNext

LEMMA UsageLora ==
  ASSUME TypeOK, TypeOK', UsageInv, LoraNext
  PROVE  UsageInv'
<1>0. UNCHANGED <<call, handle, msg_queue, handle_map, queue_status, loras_in_use>>
  BY DEF LoraNext, LoadLoraByName, UnloadLoraByName, apiVars, apiFrame, outVars
<1>1. \A r \in Requests : Holding(r)' <=> Holding(r) BY <1>0 DEF Holding
<1>2. \A l \in Loras : loras_in_use'[l] >= loras_in_use[l] BY <1>0 DEF TypeOK, LoraTypeOK
<1>3. Loaded'
  <2>1. ASSUME NEW r \in Requests, Holding(r), LoraOf[r] \notin loras' PROVE FALSE
    <3>1. LoraOf[r] \in loras /\ loras_in_use[LoraOf[r]] > 0 /\ loras_in_use[LoraOf[r]] \in Nat
      BY <2>1, HeldIsCounted
    <3>2. loras_in_use[LoraOf[r]] = 0
      BY <2>1, <3>1 DEF LoraNext, LoadLoraByName, UnloadLoraByName
    <3> QED BY <3>1, <3>2
  <2> QED BY <1>1, <2>1 DEF Loaded
<1>4. Counted'
  <2>1. \A l \in Loras : Holders(l)' = Holders(l) BY <1>1 DEF Holders
  <2> QED BY <1>0, <2>1 DEF Counted, UsageInv
<1> QED BY <1>0, <1>3, <1>4 DEF UsageInv, Counted, Loaded, StartAt

LEMMA UsageHandle ==
  ASSUME TypeOK, TypeOK', UsageInv, NEW t \in Threads, HandleMessage(t)
  PROVE  UsageInv'
<1>1. UNCHANGED <<call, handle, queue_status, loras, loras_in_use>>
  <2>1. UNCHANGED messageFrame
    BY DEF HandleMessage, HandleGracefulStop, HandleStart, HandleStartDenied, HandleStop,
           HandleRelease, HandleSync
  <2> QED BY <2>1 DEF messageFrame, outVars, loraVars
<1>2. PICK op : Receive(t, op)
  BY DEF HandleMessage, HandleGracefulStop, HandleStart, HandleStartDenied, HandleStop,
         HandleRelease, HandleSync
<1>3. Counted' /\ Loaded'
  <2>1. \A r \in Requests : Holding(r)' => Holding(r) BY <1>1 DEF Holding
  <2>2. \A l \in Loras : loras_in_use'[l] >= loras_in_use[l] BY <1>1 DEF TypeOK, LoraTypeOK
  <2> QED BY <1>1, <2>1, <2>2, HoldersShrink
<1>4. \A r \in Requests, u \in Threads : \A i \in 1..Len(msg_queue'[u]) :
        StartAt(u, i, r)' => handle'[r] \in {"valid", "released"}
  <2>1. \A r \in Requests, u \in Threads : \A i \in 1..Len(msg_queue'[u]) :
          StartAt(u, i, r)' => \E j \in 1..Len(msg_queue[u]) : StartAt(u, j, r)
    BY <1>2, AwaitedReceive DEF StartAt
  <2> QED BY <1>1, <2>1 DEF UsageInv
<1>5. ASSUME NEW r \in handle_map' PROVE handle'[r] \in {"valid", "released"}
  <2>1. CASE r \in handle_map BY <1>1, <2>1 DEF UsageInv
  <2>2. CASE r \notin handle_map
    <3>1. HandleStart(t) /\ r = Head(msg_queue[t]).req
      BY <2>2 DEF HandleMessage, HandleGracefulStop, HandleStart, HandleStartDenied, HandleStop,
                  HandleRelease, HandleSync
    <3>2. r \in Requests BY DEF TypeOK, ControlTypeOK
    <3>3. 1 \in 1..Len(msg_queue[t]) /\ StartAt(t, 1, r)
      BY <3>1, ReceiveEffect DEF HandleStart, StartAt, Receive
    <3> QED BY <1>1, <3>2, <3>3 DEF UsageInv
  <2> QED BY <2>1, <2>2
<1> QED BY <1>3, <1>4, <1>5 DEF UsageInv, Counted, Loaded

\* UpdateResult gives a LoRA back only for a request whose queue it closes.
LEMMA UsageUpdate ==
  ASSUME TypeOK, TypeOK', EngineInv, DeliveryInv, UsageInv, [Next]_vars,
         NEW r \in Requests, UpdateNext(r)
  PROVE  UsageInv'
<1>1. UNCHANGED <<call, handle, msg_queue, handle_map>> /\ r \in handle_map
  <2>1. UNCHANGED updateFrame /\ lp = "update" /\ r \in todo
    BY DEF UpdateNext, UpdateTerminal, UpdateNotStarted, UpdateInterrupted, UpdateFetch, Visit
  <2> QED BY <2>1 DEF updateFrame, loopFrame, EngineInv, Phase
<1>2. CASE UNCHANGED <<loras, loras_in_use>> BY <1>1, <1>2, StaysTerminal, UsageQuiet
<1>3. CASE UpdateFetch(r) /\ ~UNCHANGED <<loras, loras_in_use>>
  <2>1. /\ status[r] = "GenerateFinished" /\ LoraOf[r] # None /\ queue_status[r] \notin Terminal
        /\ loras_in_use' = [loras_in_use EXCEPT ![LoraOf[r]] = IF @ > 0 THEN @ - 1 ELSE 0]
        /\ loras' = loras
    BY <1>3 DEF UpdateFetch, ReleaseLora
  <2>2. finish[r] = TRUE BY <1>1, <2>1 DEF DeliveryInv, TokensOf
  <2>3. queue_status'[r] \in Terminal
    BY <1>3, <2>2 DEF UpdateFetch, TypeOK, OutTypeOK, Terminal
  <2>4. Holding(r) BY <1>1, <2>1 DEF Holding, UsageInv
  <2>5. ~Holding(r)' BY <2>3 DEF Holding
  <2>6. \A x \in Requests : Holding(x)' => Holding(x) BY <1>1, StaysTerminal DEF Holding
  <2>7. loras_in_use' = [loras_in_use EXCEPT ![LoraOf[r]] = loras_in_use[LoraOf[r]] - 1]
    BY <2>1, <2>4, HeldIsCounted
  <2>8. Counted' /\ Loaded' BY <2>1, <2>4, <2>5, <2>6, <2>7, HoldersDrop
  <2> QED BY <1>1, <2>8 DEF UsageInv, Counted, Loaded, StartAt
<1> QED BY <1>2, <1>3 DEF UpdateNext, UpdateTerminal, UpdateNotStarted, UpdateInterrupted, loraVars

-----------------------------------------------------------------------------
(* Both together: a held LoRA is loaded, so no prefill finds it missing.   *)

\* A request in the pending queue or the batch holds its LoRA.
LEMMA ServedHolds ==
  ASSUME TypeOK, EngineInv, UsageInv, NEW r \in Requests, InSeq(pending, r) \/ r \in running
  PROVE  ~LoraMissing(r)
<1>1. r \in handle_map /\ queue_status[r] \notin Terminal
  BY PendingFacts, RunningFacts DEF Terminal
<1>2. LoraOf[r] # None => Holding(r) BY <1>1 DEF UsageInv, Holding
<1> QED BY <1>2 DEF UsageInv, LoraMissing

LEMMA NextDelivery ==
  ASSUME NoStopCalls, TypeOK, TypeOK', EngineInv, CallInv, DeliveryInv, UsageInv, [Next]_vars
  PROVE  DeliveryInv' /\ UsageInv'
<1>1. CASE UNCHANGED vars
  <2>1. DeliveryInv' BY <1>1, DeliveryApi DEF vars
  <2>2. UsageInv' BY <1>1, UsageQuiet, StaysTerminal DEF vars, apiVars, loraVars
  <2> QED BY <2>1, <2>2
<1>2. ASSUME NEW c \in Clients, ClientNext(c) PROVE DeliveryInv' /\ UsageInv'
  <2>1. UNCHANGED apiFrame
    BY <1>2 DEF ClientNext, StartRequest, StartRequestRefused, StartRequestEnqueue,
                StartRequestRollback, RequestCall, RequestReturn
  <2>2. DeliveryInv' BY <2>1, DeliveryApi DEF apiFrame
  <2> QED BY <1>2, <2>2, UsageClient
<1>3. ASSUME NEW s \in Stoppers, StopperNext(s) PROVE DeliveryInv' /\ UsageInv'
  <2>1. UNCHANGED stopFrame
    BY <1>3 DEF StopperNext, StopModel, StopModelSet, StopModelSend, StopModelRollback,
                StopModelReturn
  <2>2. DeliveryInv' BY <2>1, DeliveryApi DEF stopFrame
  <2>3. UNCHANGED <<call, handle, handle_map, queue_status, loras, loras_in_use>>
    BY <2>1 DEF stopFrame, apiVars, outVars, loraVars
  <2>4. CASE UNCHANGED msg_queue BY <2>3, <2>4, UsageQuiet, <2>2
  <2>5. CASE StopModelSend(s)
    <3> DEFINE m == [op |-> "GracefulStop", req |-> None]
    <3>1. m \in Message /\ m.op # "Start" BY DEF Message
    <3>2. Send(s, m) /\ s \in Threads BY <2>5 DEF StopModelSend, Threads
    <3> HIDE DEF m
    <3>3. \A x \in Requests, t \in Threads : \A i \in 1..Len(msg_queue'[t]) :
            StartAt(t, i, x)' => i \in 1..Len(msg_queue[t]) /\ StartAt(t, i, x)
      BY <3>1, <3>2, SendEffect DEF StartAt
    <3>4. Counted' /\ Loaded'
      <4>1. \A r \in Requests : Holding(r)' => Holding(r) BY <2>3 DEF Holding
      <4>2. \A l \in Loras : loras_in_use'[l] >= loras_in_use[l] BY <2>3 DEF TypeOK, LoraTypeOK
      <4> QED BY <2>3, <4>1, <4>2, HoldersShrink
    <3>5. UsageInv' BY <2>3, <3>3, <3>4 DEF UsageInv, Counted, Loaded
    <3> QED BY <2>2, <3>5
  <2> QED BY <1>3, <2>4, <2>5 DEF StopperNext, StopModel, StopModelSet, StopModelRollback,
                                  StopModelReturn
<1>4. CASE LoraNext
  <2>1. DeliveryInv' BY <1>4, DeliveryApi DEF LoraNext, LoadLoraByName, UnloadLoraByName, apiFrame
  <2> QED BY <1>4, <2>1, UsageLora
<1>5. CASE Loop
  <2>0. ASSUME UNCHANGED <<loopFrame, handle_map, loraVars>> PROVE UsageInv'
    BY <2>0, UsageQuiet, StaysTerminal DEF loopFrame, loraVars
  <2>1. ASSUME NEW t \in Threads, HandleMessage(t) PROVE DeliveryInv' /\ UsageInv'
    BY <2>1, DeliveryHandle, UsageHandle
  <2>2. CASE SkipMessages
    <3>1. tokenStill BY <2>2 DEF SkipMessages, batchVars, tokenVars, outVars, tokenStill
    <3>2. \A r \in Requests : ~Owed(r) BY <2>2, NothingOwed DEF SkipMessages
    <3> QED BY <2>0, <2>2, <3>1, <3>2, DeliveryStill DEF SkipMessages
  <2>3. CASE ContextNone
    <3>1. tokenStill
      BY <2>3 DEF ContextNone, contextFrame, batchVars, tokenVars, outVars, tokenStill
    <3>2. \A r \in Requests : Owed(r) => lp' = "update" /\ r \in todo'
      BY <2>3 DEF ContextNone, UpdateThen, Owed
    <3> QED BY <2>0, <2>3, <3>1, <3>2, DeliveryStill DEF ContextNone, contextFrame
  <2>4. ASSUME NEW r \in Requests, ContextNext(r) PROVE DeliveryInv' /\ UsageInv'
    <3>1. CanContext /\ r = Head(pending) /\ UNCHANGED contextFrame
      BY <2>4 DEF ContextNext, ContextNoFrame, ContextChunk, ContextChunkIgnored, ContextRun,
                  ContextRunFinish, ContextIgnored, ContextLoraMissing, ContextFault, AfterContext,
                  Admits
    <3>2. InSeq(pending, r)
      <4>1. pending \in Seq(Requests) /\ pending # <<>> BY <3>1 DEF TypeOK, BatchTypeOK, CanContext
      <4> QED BY <3>1, <4>1, TailEffect DEF EngineInv, Life
    <3>3. ~LoraMissing(r) BY <3>2, ServedHolds
    <3>4. UsageInv' BY <2>0, <3>1 DEF contextFrame
    <3> QED BY <2>4, <3>3, <3>4, DeliveryContext
  <2>5. ASSUME NEW r \in Requests, UpdateNext(r) PROVE DeliveryInv' /\ UsageInv'
    BY <2>5, DeliveryUpdate, UsageUpdate
  <2>6. CASE UpdateResultDone
    <3>1. tokenStill
      BY <2>6 DEF UpdateResultDone, updateFrame, batchVars, tokenVars, outVars, tokenStill
    <3>2. \A r \in Requests : ~Owed(r) BY <2>6, NothingOwed DEF UpdateResultDone
    <3> QED BY <2>0, <2>6, <3>1, <3>2, DeliveryStill DEF UpdateResultDone, updateFrame
  <2>7. ASSUME NEW r \in Requests, DecodeStopVictim(r) \/ DecodeStopFinished(r)
        PROVE  DeliveryInv' /\ UsageInv'
    BY <2>0, <2>7, DeliveryStop DEF DecodeStopVictim, DecodeStopFinished, decodeFrame
  <2>8. CASE DecodeNothing
    <3>1. tokenStill BY <2>8 DEF DecodeNothing, decodeFrame, tokenStill
    <3>2. \A r \in Requests : ~Owed(r) BY <2>8, NothingOwed DEF DecodeNothing
    <3> QED BY <2>0, <2>8, <3>1, <3>2, DeliveryStill DEF DecodeNothing, decodeFrame
  <2>9. CASE DecodeRun BY <2>0, <2>9, DeliveryDecode DEF DecodeRun, decodeFrame
  <2>10. CASE DecodeDone
    <3>1. tokenStill BY <2>10 DEF DecodeDone, decodeFrame, batchVars, tokenStill
    <3>2. \A r \in Requests : Owed(r) => lp' = "update" /\ r \in todo'
      BY <2>10 DEF DecodeDone, UpdateThen, Owed
    <3> QED BY <2>0, <2>10, <3>1, <3>2, DeliveryStill DEF DecodeDone, decodeFrame
  <2>11. CASE LoopNext \/ LoopEnd
    <3>1. tokenStill BY <2>11 DEF LoopNext, LoopEnd, checkFrame, batchVars, tokenVars, outVars,
                                  tokenStill
    <3>2. \A r \in Requests : ~Owed(r) BY <2>11, NothingOwed DEF LoopNext, LoopEnd
    <3>3. UNCHANGED <<call, handle, msg_queue, handle_map, loras, loras_in_use>>
      BY <2>11 DEF LoopNext, LoopEnd, checkFrame, loraVars
    <3>4. UsageInv' BY <3>3, UsageQuiet, StaysTerminal
    <3> QED BY <3>1, <3>2, <3>4, DeliveryStill
  <2>12. CASE DecodeAbort
    <3>1. tokenStill BY <2>12 DEF DecodeAbort, decodeFrame, batchVars, tokenStill
    <3>2. \A r \in Requests : ~Owed(r) BY <2>12, NothingOwed DEF DecodeAbort
    <3> QED BY <2>0, <2>12, <3>1, <3>2, DeliveryStill DEF DecodeAbort, decodeFrame
  <2> QED BY <1>5, <2>1, <2>2, <2>3, <2>4, <2>5, <2>6, <2>7, <2>8, <2>9, <2>10, <2>11, <2>12
          DEF Loop
<1> QED BY <1>1, <1>2, <1>3, <1>4, <1>5 DEF Next

LEMMA InitDelivery ==
  ASSUME Init
  PROVE  DeliveryInv /\ UsageInv
<1>1. DeliveryInv BY DEF Init, DeliveryInv, TokensOf
<1>2. \A r \in Requests : ~Holding(r) BY DEF Init, Holding, NoCall
<1>3. \A l \in Loras : Cardinality(Holders(l)) = 0
  <2>1. \A l \in Loras : Holders(l) = {} BY <1>2 DEF Holders
  <2> QED BY <2>1, FS_EmptySet
<1>4. /\ handle_map = {} /\ \A l \in Loras : loras_in_use[l] = 0
      /\ \A t \in Threads : 1..Len(msg_queue[t]) = {}
  BY DEF Init
<1>5. UsageInv BY <1>2, <1>3, <1>4 DEF UsageInv
<1> QED BY <1>1, <1>5

\* The invariant behind the delivery of tokens and the use of LoRAs.
THEOREM DeliveryInvariant == NoStopCalls => (Spec => [](DeliveryInv /\ UsageInv))
<1> SUFFICES ASSUME NoStopCalls PROVE Spec => [](DeliveryInv /\ UsageInv) OBVIOUS
<1>1. Init => DeliveryInv /\ UsageInv BY InitDelivery
<1>2. TypeOK /\ TypeOK' /\ EngineInv /\ CallInv /\ (DeliveryInv /\ UsageInv) /\ [Next]_vars =>
        (DeliveryInv /\ UsageInv)'
  BY NextDelivery
<1> QED BY <1>1, <1>2, TypeCorrect, EngineInvariant, CallInvariant, PTL DEF Spec

\* Every token the model generates reaches the reader in the turn that generated
\* it, and none it did not generate, except for a request whose own prefill failed
\* with a status that StartRequest dropped; such a request, and the abort it may
\* lead to, takes nothing from the others.
THEOREM EveryTokenDelivered == NoStopCalls => (Spec => []TokensDelivered)
<1> SUFFICES ASSUME NoStopCalls PROVE Spec => []TokensDelivered OBVIOUS
<1>1. ASSUME TypeOK, DeliveryInv PROVE TokensDelivered
  <2>1. ASSUME NEW r \in Requests \ Ignored PROVE generate_length[r] <= generated[r]
    BY <1>1, TokenTypes DEF DeliveryInv, TokensOf
  <2>2. ASSUME NEW r \in Requests \ Ignored, lp = "message" PROVE generate_length[r] = generated[r]
    BY <1>1, <2>2, NothingOwed
  <2> QED BY <2>1, <2>2 DEF TokensDelivered
<1> QED BY <1>1, TypeCorrect, DeliveryInvariant, PTL

\* UpdateResult never finds more than one new token of a request, unless the status
\* of its failed prefill was dropped.
THEOREM OneTokenAtATime == NoStopCalls => (Spec => []OneTokenPerElement)
<1> SUFFICES ASSUME NoStopCalls PROVE Spec => []OneTokenPerElement OBVIOUS
<1>1. ASSUME TypeOK, EngineInv, DeliveryInv PROVE OneTokenPerElement
  <2>1. SUFFICES ASSUME lp = "update", NEW r \in todo \ Ignored, Started(r),
                        status[r] # "GenerateInterrupted"
                 PROVE  out_len[r] <= generate_length[r] + 1
    BY DEF OneTokenPerElement
  <2>2. r \in Requests /\ r \in handle_map
    BY <1>1, <2>1 DEF EngineInv, Phase, TypeOK, ControlTypeOK
  <2>3. /\ out_len[r] = generated[r]
        /\ generate_length[r] = generated[r] \/ generated[r] = generate_length[r] + 1
    BY <1>1, <2>1, <2>2 DEF DeliveryInv, TokensOf, Started
  <2> QED BY <1>1, <2>2, <2>3, TokenTypes
<1> QED BY <1>1, TypeCorrect, EngineInvariant, DeliveryInvariant, PTL

\* UnloadLoraByName never takes a LoRA away from a queued or running request.
THEOREM LoraNeverTakenAway == NoStopCalls => (Spec => []LoraStaysLoaded)
<1> SUFFICES ASSUME NoStopCalls PROVE Spec => []LoraStaysLoaded OBVIOUS
<1>1. TypeOK /\ EngineInv /\ UsageInv => LoraStaysLoaded BY ServedHolds DEF LoraStaysLoaded
<1> QED BY <1>1, TypeCorrect, EngineInvariant, DeliveryInvariant, PTL
=============================================================================
