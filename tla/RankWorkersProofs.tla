------------------------- MODULE RankWorkersProofs --------------------------
(***************************************************************************)
(* Proofs about RankWorkers, for any number of ranks, of Inserts in a task *)
(* and of calls: the coordinator's count, that the barrier implements      *)
(* Rendezvous, and that rank 0 rests between two calls of the engine.      *)
(***************************************************************************)
EXTENDS RankWorkers, FiniteSetTheorems, TLAPS

\* A rank waits in waitForOtherWorkers only inside an Insert.
WaitersInsert == \A r \in Ranks : Waiting(r) => task[r].inserts > 0

\* Rank 0 has nothing to do; it has exactly the job of the call under way.
Quiet0 == queues[0] = <<>> /\ pc[0] \in {"test", "dequeue"}
OneJob0 ==
  \/ /\ queues[0] = <<engine.job>> /\ engine.job.kind # "dummy"
     /\ pc[0] \in {"test", "dequeue"}
  \/ /\ queues[0] = <<>> /\ task[0].kind # "dummy"
     /\ pc[0] \in {"run", "asleep", "woken"}

\* Until its future is set, rank 0 has the job; then it has nothing.
ZeroInv ==
  /\ stop <=> engine.at \in {"wakeup", "joinpool", "ended"}
  /\ engine.at \in {"enqueue", "join"} => engine.job.kind # "dummy"
  /\ engine.at = "idle" \/ (engine.at = "enqueue" /\ engine.next = 0) => Quiet0
  /\ engine.at = "join" \/ (engine.at = "enqueue" /\ engine.next > 0) =>
       IF result[0] = "none" THEN OneJob0 ELSE Quiet0
  /\ engine.at = "join" /\ engine.next > 0 => result[0] # "none"

RankInv == TypeOK /\ BarrierInv /\ WaitersInsert /\ ZeroInv

-----------------------------------------------------------------------------
(* Types.                                                                  *)

TaskType == [kind : {"alloc", "dummy", "run"}, inserts : 0..MaxInserts]

LEMMA TasksTyped == Tasks \subseteq TaskType /\ Dummy \in Tasks /\ Alloc \in Tasks
  BY RankAssumption DEF Tasks, TaskType, Alloc, Dummy, Run

LEMMA RanksFacts == 0 \in Ranks /\ IsFiniteSet(Ranks) /\ Cardinality(Ranks) = nranks
  <1>1. 0 \in Ranks /\ 0 \in Int /\ nranks - 1 \in Int /\ 0 <= nranks - 1
    BY RankAssumption DEF Ranks
  <1> QED
    BY <1>1, FS_Interval, RankAssumption DEF Ranks

LEMMA InitInv == Init => RankInv
  <1> SUFFICES ASSUME Init PROVE RankInv
    OBVIOUS
  <1>1. TypeOK
    BY TasksTyped, RanksFacts, RankAssumption
    DEF Init, TypeOK, TaskType, PCs, Idle, Engines
  <1>2. BarrierInv
    <2>1. {r \in Ranks : entered[r] = round + 1} = {}
      BY DEF Init
    <2> QED
      BY <2>1, FS_EmptySet, RankAssumption DEF Init, BarrierInv, Waiting
  <1>3. WaitersInsert
    BY DEF Init, WaitersInsert, Waiting
  <1>4. ZeroInv
    BY RanksFacts DEF Init, ZeroInv, Quiet0, Idle
  <1> QED
    BY <1>1, <1>2, <1>3, <1>4 DEF RankInv

\* The types of the variables, one fact each.
LEMMA TypeStep == RankInv /\ [Next]_vars => TypeOK'
  <1> SUFFICES ASSUME RankInv, [Next]_vars PROVE TypeOK'
    OBVIOUS
  <1> USE RanksFacts, RankAssumption
  <1>0. TypeOK /\ WaitersInsert
    BY DEF RankInv
  <1>t. task \in [Ranks -> TaskType]
    BY <1>0 DEF TypeOK, TaskType
  <1>1. ASSUME NEW r \in Ranks, WorkerTest(r) PROVE TypeOK'
    BY <1>0, <1>1 DEF WorkerTest, TypeOK, PCs, barrierVars, engineVars
  <1>2. ASSUME NEW r \in Ranks, WorkerDequeue(r) PROVE TypeOK'
    <2>1. Head(queues[r]) \in Tasks /\ Tail(queues[r]) \in Seq(Tasks)
      BY <1>0, <1>2 DEF WorkerDequeue, TypeOK
    <2>2. task' \in [Ranks -> TaskType]
      BY <2>1, <1>t, <1>2, TasksTyped DEF WorkerDequeue
    <2>3. queues' \in [Ranks -> Seq(Tasks)]
      BY <2>1, <1>0, <1>2 DEF WorkerDequeue, TypeOK
    <2> QED
      BY <2>2, <2>3, <1>0, <1>2 DEF WorkerDequeue, TypeOK, TaskType, PCs, barrierVars, engineVars
  <1>3. ASSUME NEW r \in Ranks, WorkerDone(r) PROVE TypeOK'
    <2>1. task' \in [Ranks -> TaskType]
      BY <1>t, <1>3, TasksTyped DEF WorkerDone
    <2>2. result' \in [Ranks -> {"none", "ok", "failed"}]
      BY <1>0, <1>3 DEF WorkerDone, TypeOK
    <2> QED
      BY <2>1, <2>2, <1>0, <1>3 DEF WorkerDone, TypeOK, TaskType, PCs, barrierVars, engineVars
  <1>4. ASSUME NEW r \in Ranks, BarrierLast(r) PROVE TypeOK'
    <2>1. task' \in [Ranks -> TaskType]
      BY <1>t, <1>0, <1>4 DEF BarrierLast, Passes, TaskType, WaitersInsert, Waiting
    <2>2. entered' \in [Ranks -> Nat] /\ passed' \in [Ranks -> Nat]
      <3>1. entered \in [Ranks -> Nat] /\ passed \in [Ranks -> Nat]
        BY <1>0 DEF TypeOK
      <3>2. entered' \in [Ranks -> Nat]
        BY <3>1, <1>4 DEF BarrierLast, Enters
      <3>3. passed' \in [Ranks -> Nat]
        BY <3>1, <1>4 DEF BarrierLast, Passes
      <3> QED
        BY <3>2, <3>3
    <2>3. pc' \in [Ranks -> PCs]
      BY <1>0, <1>4 DEF BarrierLast, TypeOK, PCs
    <2>4. worker_count' \in 0..(nranks - 1) /\ round' \in Nat
      BY <1>0, <1>4 DEF BarrierLast, TypeOK
    <2> QED
      BY <2>1, <2>2, <2>3, <2>4, <1>0, <1>4 DEF BarrierLast, TypeOK, TaskType, engineVars
  <1>5. ASSUME NEW r \in Ranks, BarrierWait(r) PROVE TypeOK'
    <2>1. entered' \in [Ranks -> Nat]
      BY <1>0, <1>5 DEF BarrierWait, Enters, TypeOK
    <2>2. worker_count' \in 0..(nranks - 1)
      BY <1>0, <1>5 DEF BarrierWait, TypeOK
    <2> QED
      BY <2>1, <2>2, <1>0, <1>5 DEF BarrierWait, TypeOK, PCs, engineVars
  <1>6. ASSUME NEW r \in Ranks, BarrierPass(r) PROVE TypeOK'
    <2>1. task' \in [Ranks -> TaskType]
      BY <1>t, <1>0, <1>6 DEF BarrierPass, Passes, TaskType, WaitersInsert, Waiting
    <2>2. entered' \in [Ranks -> Nat] /\ passed' \in [Ranks -> Nat]
      <3>1. entered \in [Ranks -> Nat] /\ passed \in [Ranks -> Nat]
        BY <1>0 DEF TypeOK
      <3>2. entered' \in [Ranks -> Nat]
        BY <3>1, <1>6 DEF BarrierPass, Enters
      <3>3. passed' \in [Ranks -> Nat]
        BY <3>1, <1>6 DEF BarrierPass, Passes
      <3> QED
        BY <3>2, <3>3
    <2>3. pc' \in [Ranks -> PCs]
      BY <1>0, <1>6 DEF BarrierPass, TypeOK, PCs
    <2>4. worker_count' \in 0..(nranks - 1) /\ round' \in Nat
      BY <1>0, <1>6 DEF BarrierPass, TypeOK
    <2> QED
      BY <2>1, <2>2, <2>3, <2>4, <1>0, <1>6 DEF BarrierPass, TypeOK, TaskType, engineVars
  <1>7. ASSUME NEW r \in Ranks, BarrierSleepAgain(r) PROVE TypeOK'
    BY <1>0, <1>7 DEF BarrierSleepAgain, TypeOK, PCs, barrierVars, engineVars
  <1>8. ASSUME NEW r \in Ranks, SpuriousWake(r) PROVE TypeOK'
    BY <1>0, <1>8 DEF SpuriousWake, TypeOK, PCs, barrierVars, engineVars
  <1>9. CASE EngineEnqueue
    <2>1. queues' \in [Ranks -> Seq(Tasks)]
      BY <1>0, <1>9 DEF EngineEnqueue, TypeOK, Engines
    <2>2. engine' \in Engines
      <3>1. engine \in Engines
        BY <1>0 DEF TypeOK
      <3>2. engine.next + 1 < nranks => engine.next + 1 \in Ranks
        BY <3>1 DEF Engines, Ranks
      <3> QED
        BY <3>1, <3>2, <1>9 DEF EngineEnqueue, Engines
    <2> QED
      BY <2>1, <2>2, <1>0, <1>9 DEF EngineEnqueue, TypeOK, barrierVars
  <1>10. CASE EngineJoin
    <2>1. engine' \in Engines
      <3>1. ASSUME NEW k \in 0..MaxInserts PROVE Run(k) \in Tasks
        BY <3>1 DEF Tasks
      <3>2. engine \in Engines
        BY <1>0 DEF TypeOK
      <3>3. engine.next + 1 < nranks => engine.next + 1 \in Ranks
        BY <3>2 DEF Engines, Ranks
      <3>4. AfterJoin => engine' \in Engines
        BY <3>1, TasksTyped DEF AfterJoin, Engines, Idle
      <3> QED
        BY <3>2, <3>3, <3>4, <1>10 DEF EngineJoin, Engines
    <2> QED
      BY <2>1, <1>0, <1>10 DEF EngineJoin, TypeOK, barrierVars
  <1>11. CASE EngineJoinFailed
    BY <1>0, <1>11, TasksTyped DEF EngineJoinFailed, TypeOK, Engines, Idle, barrierVars
  <1>12. CASE PoolWakeUp
    <2>1. queues' \in [Ranks -> Seq(Tasks)]
      BY <1>0, <1>12, TasksTyped DEF PoolWakeUp, TypeOK
    <2> QED
      BY <2>1, <1>0, <1>12 DEF PoolWakeUp, TypeOK, Engines, barrierVars
  <1>13. CASE PoolJoin
    BY <1>0, <1>13 DEF PoolJoin, TypeOK, Engines, barrierVars
  <1>14. CASE EngineCall
    BY <1>0, <1>14 DEF EngineCall, TypeOK, Engines, barrierVars
  <1>15. CASE PoolStop
    BY <1>0, <1>15, TasksTyped DEF PoolStop, TypeOK, Engines, barrierVars
  <1>16. CASE UNCHANGED vars
    BY <1>0, <1>16 DEF vars, TypeOK, barrierVars, engineVars
  <1> QED
    BY <1>1, <1>2, <1>3, <1>4, <1>5, <1>6, <1>7, <1>8, <1>9, <1>10, <1>11, <1>12, <1>13, <1>14, <1>15, <1>16 DEF Next, Worker, EngineStep

-----------------------------------------------------------------------------
(* The coordinator.                                                        *)

Counted == {s \in Ranks : entered[s] = round + 1}

\* A rank that is not waiting has returned from every call it made.
LEMMA NotWaiting ==
  ASSUME RankInv, NEW r \in Ranks, pc[r] = "run"
  PROVE  entered[r] = round /\ passed[r] = round
  <1>1. entered[r] \in {round, round + 1} /\ passed[r] <= round /\ entered[r] = passed[r]
    BY DEF RankInv, BarrierInv, Waiting
  <1>2. round \in Nat
    BY DEF RankInv, TypeOK
  <1> QED
    BY <1>1, <1>2

\* When a rank finds itself the last, the count has counted all the others.
LEMMA LastRank ==
  ASSUME RankInv, NEW r \in Ranks, pc[r] = "run", worker_count + 1 = nranks
  PROVE  \A s \in Ranks \ {r} : entered[s] = round + 1
  <1>1. r \notin Counted /\ Counted \subseteq Ranks \ {r}
    BY NotWaiting DEF Counted, RankInv, TypeOK
  <1>2. IsFiniteSet(Ranks \ {r}) /\ Cardinality(Ranks \ {r}) = nranks - 1
    BY RanksFacts, FS_RemoveElement
  <1>3. Cardinality(Counted) = nranks - 1
    <2>1. worker_count = Cardinality(Counted) /\ worker_count \in 0..(nranks - 1)
      BY DEF RankInv, TypeOK, BarrierInv, Counted
    <2> QED
      BY <2>1, RankAssumption
  <1>4. Counted = Ranks \ {r}
    BY <1>1, <1>2, <1>3, FS_Subset
  <1> QED
    BY <1>4 DEF Counted

\* A count of zero: no rank has come for the next round.
LEMMA NobodyCounted ==
  ASSUME RankInv, worker_count = 0
  PROVE  \A s \in Ranks : entered[s] = round
  <1>1. IsFiniteSet(Counted)
    BY RanksFacts, FS_Subset DEF Counted
  <1>2. Cardinality(Counted) = 0
    BY DEF RankInv, BarrierInv, Counted
  <1>3. Counted = {}
    BY <1>1, <1>2, FS_EmptySet
  <1> QED
    BY <1>3 DEF Counted, RankInv, BarrierInv

\* A step that is none of the coordinator's leaves the count as it is.
LEMMA BarrierFrame ==
  ASSUME BarrierInv, UNCHANGED barrierVars,
         \A s \in Ranks : Waiting(s)' <=> Waiting(s)
  PROVE  BarrierInv'
  BY DEF BarrierInv, barrierVars

LEMMA BarrierStep == RankInv /\ [Next]_vars => BarrierInv'
  <1> SUFFICES ASSUME RankInv, [Next]_vars PROVE BarrierInv'
    OBVIOUS
  <1>0. BarrierInv /\ pc \in [Ranks -> PCs]
    BY DEF RankInv, TypeOK
  <1>t. /\ round \in Nat /\ worker_count \in 0..(nranks - 1)
        /\ entered \in [Ranks -> Nat] /\ passed \in [Ranks -> Nat]
    BY DEF RankInv, TypeOK
  <1>1. ASSUME NEW r \in Ranks, WorkerTest(r) PROVE BarrierInv'
    BY <1>0, <1>1, BarrierFrame DEF WorkerTest, Waiting, PCs, barrierVars
  <1>2. ASSUME NEW r \in Ranks, WorkerDequeue(r) PROVE BarrierInv'
    BY <1>0, <1>2, BarrierFrame DEF WorkerDequeue, Waiting, PCs, barrierVars
  <1>3. ASSUME NEW r \in Ranks, WorkerDone(r) PROVE BarrierInv'
    BY <1>0, <1>3, BarrierFrame DEF WorkerDone, Waiting, PCs, barrierVars
  <1>4. ASSUME NEW r \in Ranks, BarrierLast(r) PROVE BarrierInv'
    <2>1. entered[r] = round /\ passed[r] = round
      BY <1>4, NotWaiting DEF BarrierLast
    <2>2. \A s \in Ranks : entered'[s] = round + 1
      BY <2>1, <1>t, <1>4, LastRank DEF BarrierLast, Enters
    <2>3. {s \in Ranks : entered'[s] = round' + 1} = {}
      BY <2>2, <1>t, <1>4 DEF BarrierLast
    <2>4. worker_count' = Cardinality({s \in Ranks : entered'[s] = round' + 1})
      BY <2>3, <1>4, FS_EmptySet DEF BarrierLast
    <2>5. ASSUME NEW s \in Ranks
          PROVE  /\ passed'[s] <= round'
                 /\ entered'[s] = IF Waiting(s)' THEN passed'[s] + 1 ELSE passed'[s]
      <3>1. Waiting(s)' <=> Waiting(s)
        BY <1>0, <1>4 DEF BarrierLast, Waiting
      <3>2. CASE s = r
        BY <3>1, <3>2, <2>1, <2>2, <1>t, <1>4 DEF BarrierLast, Passes, Waiting
      <3>3. CASE s # r
        BY <3>1, <3>3, <2>2, <1>0, <1>t, <1>4 DEF BarrierLast, Enters, Passes, BarrierInv
      <3> QED
        BY <3>2, <3>3
    <2>6. worker_count' < nranks
      BY <1>4, RankAssumption DEF BarrierLast
    <2>7. \A s \in Ranks : entered'[s] \in {round', round' + 1}
      BY <2>2, <1>4 DEF BarrierLast
    <2> QED
      BY <2>4, <2>5, <2>6, <2>7 DEF BarrierInv
  <1>5. ASSUME NEW r \in Ranks, BarrierWait(r) PROVE BarrierInv'
    <2>1. entered[r] = round /\ passed[r] = round
      BY <1>5, NotWaiting DEF BarrierWait
    <2>2. {s \in Ranks : entered'[s] = round' + 1} = Counted \cup {r} /\ r \notin Counted
      BY <2>1, <1>t, <1>5 DEF BarrierWait, Enters, Counted
    <2>3. IsFiniteSet(Counted)
      BY RanksFacts, FS_Subset DEF Counted
    <2>4. Cardinality(Counted \cup {r}) = Cardinality(Counted) + 1
      BY <2>2, <2>3, FS_AddElement
    <2>5. worker_count' = Cardinality({s \in Ranks : entered'[s] = round' + 1})
      BY <2>2, <2>4, <1>0, <1>5 DEF BarrierWait, BarrierInv, Counted
    <2>6. worker_count' < nranks
      BY <1>0, <1>t, <1>5, RankAssumption DEF BarrierWait, BarrierInv
    <2>7. ASSUME NEW s \in Ranks
          PROVE  /\ entered'[s] \in {round', round' + 1}
                 /\ passed'[s] <= round'
                 /\ entered'[s] = IF Waiting(s)' THEN passed'[s] + 1 ELSE passed'[s]
      <3>1. CASE s = r
        BY <3>1, <2>1, <1>0, <1>t, <1>5 DEF BarrierWait, Enters, Waiting
      <3>2. CASE s # r
        BY <3>2, <1>0, <1>t, <1>5 DEF BarrierWait, Enters, Waiting, BarrierInv
      <3> QED
        BY <3>1, <3>2
    <2> QED
      BY <2>5, <2>6, <2>7 DEF BarrierInv
  <1>6. ASSUME NEW r \in Ranks, BarrierPass(r) PROVE BarrierInv'
    <2>1. \A s \in Ranks : entered[s] = round
      BY <1>6, NobodyCounted DEF BarrierPass
    <2>2. passed[r] + 1 = round
      BY <2>1, <1>0, <1>6 DEF BarrierPass, BarrierInv, Waiting
    <2>3. ASSUME NEW s \in Ranks
          PROVE  /\ passed'[s] <= round'
                 /\ entered'[s] = IF Waiting(s)' THEN passed'[s] + 1 ELSE passed'[s]
      <3>1. CASE s = r
        BY <3>1, <2>1, <2>2, <1>0, <1>t, <1>6 DEF BarrierPass, Passes, Waiting
      <3>2. CASE s # r
        BY <3>2, <1>0, <1>t, <1>6 DEF BarrierPass, Passes, Waiting, BarrierInv
      <3> QED
        BY <3>1, <3>2
    <2> QED
      BY <2>3, <1>0, <1>6 DEF BarrierPass, BarrierInv
  <1>7. ASSUME NEW r \in Ranks, BarrierSleepAgain(r) PROVE BarrierInv'
    BY <1>0, <1>7, BarrierFrame DEF BarrierSleepAgain, Waiting, PCs, barrierVars
  <1>8. ASSUME NEW r \in Ranks, SpuriousWake(r) PROVE BarrierInv'
    BY <1>0, <1>8, BarrierFrame DEF SpuriousWake, Waiting, PCs, barrierVars
  <1>9. CASE EngineEnqueue
    BY <1>0, <1>9, BarrierFrame DEF EngineEnqueue, Waiting
  <1>10. CASE EngineJoin
    BY <1>0, <1>10, BarrierFrame DEF EngineJoin, Waiting
  <1>11. CASE EngineJoinFailed
    BY <1>0, <1>11, BarrierFrame DEF EngineJoinFailed, Waiting
  <1>12. CASE PoolWakeUp
    BY <1>0, <1>12, BarrierFrame DEF PoolWakeUp, Waiting
  <1>13. CASE PoolJoin
    BY <1>0, <1>13, BarrierFrame DEF PoolJoin, Waiting
  <1>14. CASE EngineCall
    BY <1>0, <1>14, BarrierFrame DEF EngineCall, Waiting
  <1>15. CASE PoolStop
    BY <1>0, <1>15, BarrierFrame DEF PoolStop, Waiting
  <1>16. CASE UNCHANGED vars
    BY <1>0, <1>16, BarrierFrame DEF vars, Waiting
  <1> QED
    BY <1>1, <1>2, <1>3, <1>4, <1>5, <1>6, <1>7, <1>8, <1>9, <1>10, <1>11, <1>12, <1>13, <1>14, <1>15, <1>16 DEF Next, Worker, EngineStep

LEMMA WaitersStep == RankInv /\ [Next]_vars => WaitersInsert'
  <1> SUFFICES ASSUME RankInv, [Next]_vars PROVE WaitersInsert'
    OBVIOUS
  <1>0. WaitersInsert /\ pc \in [Ranks -> PCs] /\ task \in [Ranks -> TaskType]
    BY DEF RankInv, TypeOK, TaskType
  <1>1. ASSUME NEW r \in Ranks, WorkerTest(r) PROVE WaitersInsert'
    BY <1>0, <1>1 DEF WorkerTest, WaitersInsert, Waiting, TaskType
  <1>2. ASSUME NEW r \in Ranks, WorkerDequeue(r) PROVE WaitersInsert'
    BY <1>0, <1>2 DEF WorkerDequeue, WaitersInsert, Waiting, TaskType
  <1>3. ASSUME NEW r \in Ranks, WorkerDone(r) PROVE WaitersInsert'
    BY <1>0, <1>3 DEF WorkerDone, WaitersInsert, Waiting, TaskType
  <1>4. ASSUME NEW r \in Ranks, BarrierLast(r) PROVE WaitersInsert'
    BY <1>0, <1>4 DEF BarrierLast, Passes, WaitersInsert, Waiting, TaskType
  <1>5. ASSUME NEW r \in Ranks, BarrierWait(r) PROVE WaitersInsert'
    BY <1>0, <1>5 DEF BarrierWait, WaitersInsert, Waiting, TaskType
  <1>6. ASSUME NEW r \in Ranks, BarrierPass(r) PROVE WaitersInsert'
    BY <1>0, <1>6 DEF BarrierPass, Passes, WaitersInsert, Waiting, TaskType
  <1>7. ASSUME NEW r \in Ranks, BarrierSleepAgain(r) PROVE WaitersInsert'
    BY <1>0, <1>7 DEF BarrierSleepAgain, WaitersInsert, Waiting, TaskType
  <1>8. ASSUME NEW r \in Ranks, SpuriousWake(r) PROVE WaitersInsert'
    BY <1>0, <1>8 DEF SpuriousWake, WaitersInsert, Waiting, TaskType
  <1>9. CASE EngineEnqueue
    BY <1>0, <1>9 DEF EngineEnqueue, WaitersInsert, Waiting, TaskType
  <1>10. CASE EngineJoin
    BY <1>0, <1>10 DEF EngineJoin, WaitersInsert, Waiting, TaskType
  <1>11. CASE EngineJoinFailed
    BY <1>0, <1>11 DEF EngineJoinFailed, WaitersInsert, Waiting, TaskType
  <1>12. CASE PoolWakeUp
    BY <1>0, <1>12 DEF PoolWakeUp, WaitersInsert, Waiting, TaskType
  <1>13. CASE PoolJoin
    BY <1>0, <1>13 DEF PoolJoin, WaitersInsert, Waiting, TaskType
  <1>14. CASE EngineCall
    BY <1>0, <1>14 DEF EngineCall, WaitersInsert, Waiting, TaskType
  <1>15. CASE PoolStop
    BY <1>0, <1>15 DEF PoolStop, WaitersInsert, Waiting, TaskType
  <1>16. CASE UNCHANGED vars
    BY <1>0, <1>16 DEF vars, WaitersInsert, Waiting
  <1> QED
    BY <1>1, <1>2, <1>3, <1>4, <1>5, <1>6, <1>7, <1>8, <1>9, <1>10, <1>11, <1>12, <1>13, <1>14, <1>15, <1>16 DEF Next, Worker, EngineStep

-----------------------------------------------------------------------------
(* Rank 0 and the engine thread.                                           *)

\* A step of the workers that leaves rank 0 where it was, or moves it inside its
\* job, changes nothing for the engine.
LEMMA ZeroFrame ==
  ASSUME ZeroInv, UNCHANGED <<stop, engine>>, queues'[0] = queues[0],
         result'[0] = result[0], task'[0].kind = task[0].kind,
         \/ pc'[0] = pc[0]
         \/ pc[0] \in {"test", "dequeue"} /\ pc'[0] \in {"test", "dequeue"}
         \/ /\ pc[0] \in {"run", "asleep", "woken"}
            /\ pc'[0] \in {"run", "asleep", "woken"}
  PROVE  ZeroInv'
  BY DEF ZeroInv, Quiet0, OneJob0

LEMMA ZeroStep == RankInv /\ [Next]_vars => ZeroInv'
  <1> SUFFICES ASSUME RankInv, [Next]_vars PROVE ZeroInv'
    OBVIOUS
  <1> USE RanksFacts
  <1>0. ZeroInv
    BY DEF RankInv
  <1>t. /\ queues \in [Ranks -> Seq(Tasks)] /\ pc \in [Ranks -> PCs]
        /\ task \in [Ranks -> TaskType] /\ result \in [Ranks -> {"none", "ok", "failed"}]
        /\ stop \in BOOLEAN /\ engine \in Engines
    BY DEF RankInv, TypeOK, TaskType
  <1>1. ASSUME NEW r \in Ranks, WorkerTest(r) PROVE ZeroInv'
    <2>1. CASE stop
      BY <2>1, <1>0, <1>t, <1>1 DEF WorkerTest, engineVars, ZeroInv, Quiet0, OneJob0
    <2>2. CASE ~stop
      BY <2>2, <1>0, <1>t, <1>1, ZeroFrame DEF WorkerTest, engineVars
    <2> QED
      BY <2>1, <2>2, <1>t
  <1>2. ASSUME NEW r \in Ranks, WorkerDequeue(r) PROVE ZeroInv'
    <2>1. CASE r = 0
      <3>1. /\ pc[0] = "dequeue" /\ queues[0] # <<>> /\ pc'[0] = "run"
            /\ task'[0] = Head(queues[0]) /\ queues'[0] = Tail(queues[0])
            /\ UNCHANGED <<stop, engine, result>>
        BY <2>1, <1>t, <1>2 DEF WorkerDequeue, engineVars
      <3>2. queues[0] = <<engine.job>> => Head(queues[0]) = engine.job /\ Tail(queues[0]) = <<>>
        OBVIOUS
      <3> QED
        BY <3>1, <3>2, <1>0 DEF ZeroInv, Quiet0, OneJob0
    <2>2. CASE r # 0
      BY <2>2, <1>0, <1>t, <1>2, ZeroFrame DEF WorkerDequeue, engineVars
    <2> QED
      BY <2>1, <2>2
  <1>3. ASSUME NEW r \in Ranks, WorkerDone(r) PROVE ZeroInv'
    <2>1. CASE r = 0
      <3>1. /\ pc[0] = "run" /\ pc'[0] = "test"
            /\ UNCHANGED <<stop, engine, queues>>
        BY <2>1, <1>t, <1>3 DEF WorkerDone, engineVars
      <3>2. queues[0] = <<>> /\ task[0].kind # "dummy" => result'[0] # "none"
        BY <2>1, <1>t, <1>3 DEF WorkerDone
      <3> QED
        BY <3>1, <3>2, <1>0 DEF ZeroInv, Quiet0, OneJob0
    <2>2. CASE r # 0
      <3>1. result'[0] = result[0]
        BY <2>2, <1>t, <1>3 DEF WorkerDone
      <3> QED
        BY <3>1, <2>2, <1>0, <1>t, <1>3, ZeroFrame DEF WorkerDone, engineVars
    <2> QED
      BY <2>1, <2>2
  <1>4. ASSUME NEW r \in Ranks, BarrierLast(r) PROVE ZeroInv'
    BY <1>0, <1>t, <1>4, ZeroFrame DEF BarrierLast, Passes, TaskType, barrierVars, engineVars
  <1>5. ASSUME NEW r \in Ranks, BarrierWait(r) PROVE ZeroInv'
    BY <1>0, <1>t, <1>5, ZeroFrame DEF BarrierWait, Passes, TaskType, barrierVars, engineVars
  <1>6. ASSUME NEW r \in Ranks, BarrierPass(r) PROVE ZeroInv'
    BY <1>0, <1>t, <1>6, ZeroFrame DEF BarrierPass, Passes, TaskType, barrierVars, engineVars
  <1>7. ASSUME NEW r \in Ranks, BarrierSleepAgain(r) PROVE ZeroInv'
    BY <1>0, <1>t, <1>7, ZeroFrame DEF BarrierSleepAgain, Passes, TaskType, barrierVars, engineVars
  <1>8. ASSUME NEW r \in Ranks, SpuriousWake(r) PROVE ZeroInv'
    BY <1>0, <1>t, <1>8, ZeroFrame DEF SpuriousWake, Passes, TaskType, barrierVars, engineVars
  <1>9. CASE EngineEnqueue
    <2>0. engine.next \in Ranks /\ engine.next \in Nat /\ engine.job \in Tasks
      BY <1>t DEF Engines, Ranks
    <2>1. CASE engine.next = 0
      <3>1. queues'[0] = Append(queues[0], engine.job) /\ result'[0] = "none"
        BY <2>1, <1>t, <1>9 DEF EngineEnqueue
      <3>2. queues[0] = <<>> /\ engine.job.kind # "dummy" /\ pc[0] \in {"test", "dequeue"} /\ ~stop
        BY <2>1, <1>0, <1>9 DEF EngineEnqueue, ZeroInv, Quiet0
      <3>3. queues'[0] = <<engine.job>>
        BY <3>1, <3>2
      <3>4. /\ engine'.job = engine.job /\ engine'.at \in {"enqueue", "join"}
            /\ engine'.at = "enqueue" => engine'.next > 0
            /\ engine'.at = "join" => engine'.next = 0
        BY <2>1, <1>t, <1>9 DEF EngineEnqueue, Engines
      <3> QED
        BY <3>1, <3>2, <3>3, <3>4, <1>9 DEF EngineEnqueue, ZeroInv, OneJob0
    <2>2. CASE engine.next # 0
      <3>1. queues'[0] = queues[0] /\ result'[0] = result[0]
        BY <2>2, <1>t, <1>9 DEF EngineEnqueue
      <3>2. /\ engine'.job = engine.job /\ engine'.at \in {"enqueue", "join"}
            /\ engine'.at = "enqueue" => engine'.next > 0
            /\ engine'.at = "join" => engine'.next = 0
        BY <2>0, <2>2, <1>t, <1>9 DEF EngineEnqueue, Engines
      <3>3. engine.at = "enqueue" /\ engine.next > 0 /\ UNCHANGED <<stop, pc, task>>
        BY <2>0, <2>2, <1>9 DEF EngineEnqueue
      <3> QED
        BY <3>1, <3>2, <3>3, <1>0 DEF ZeroInv, Quiet0, OneJob0
    <2> QED
      BY <2>1, <2>2
  <1>10. CASE EngineJoin
    <2>0. engine.next \in Nat /\ engine.at = "join" /\ UNCHANGED <<queues, stop, pc, task, result>>
      BY <1>t, <1>10 DEF EngineJoin, Engines, Ranks
    <2>1. result[0] # "none" /\ Quiet0 /\ ~stop
      BY <2>0, <1>0, <1>10 DEF EngineJoin, ZeroInv
    <2>2. CASE engine.next + 1 < nranks
      <3>1. engine'.at = "join" /\ engine'.job = engine.job
        BY <2>2, <2>0, <1>t, <1>10 DEF EngineJoin, Engines
      <3> QED
        BY <3>1, <2>0, <2>1, <1>0 DEF ZeroInv, Quiet0
    <2>3. CASE ~(engine.next + 1 < nranks)
      <3>1. \/ engine' = Idle
            \/ \E k \in 0..MaxInserts : engine' = [at |-> "enqueue", next |-> 0, job |-> Run(k)]
        BY <2>3, <1>10 DEF EngineJoin, AfterJoin
      <3>2. \/ engine'.at = "idle"
            \/ engine'.at = "enqueue" /\ engine'.next = 0 /\ engine'.job.kind # "dummy"
        BY <3>1 DEF Idle, Run
      <3> QED
        BY <3>2, <2>0, <2>1 DEF ZeroInv, Quiet0
    <2> QED
      BY <2>2, <2>3
  <1>11. CASE EngineJoinFailed
    <2>0. engine.next \in Nat /\ engine.at = "join" /\ UNCHANGED <<queues, stop, pc, task, result>>
      BY <1>t, <1>11 DEF EngineJoinFailed, Engines, Ranks
    <2>1. result[0] # "none" /\ Quiet0 /\ ~stop
      BY <2>0, <1>0, <1>11 DEF EngineJoinFailed, ZeroInv
    <2> QED
      BY <2>0, <2>1, <1>11 DEF EngineJoinFailed, Idle, ZeroInv, Quiet0
  <1>12. CASE PoolWakeUp
    <2>1. engine'.at = "joinpool" /\ stop' = stop /\ engine.at = "wakeup"
      BY <1>t, <1>12 DEF PoolWakeUp, Engines
    <2> QED
      BY <2>1, <1>0 DEF ZeroInv
  <1>13. CASE PoolJoin
    <2>1. engine'.at = "ended" /\ stop' = stop /\ engine.at = "joinpool"
      BY <1>t, <1>13 DEF PoolJoin, Engines
    <2> QED
      BY <2>1, <1>0 DEF ZeroInv
  <1>14. CASE EngineCall
    <2>1. PICK job \in Tasks \ {Dummy} : engine' = [at |-> "enqueue", next |-> 0, job |-> job]
      BY <1>14 DEF EngineCall
    <2>2. job.kind # "dummy"
      BY DEF Tasks, Dummy, Alloc, Run
    <2> QED
      BY <2>1, <2>2, <1>0, <1>14 DEF EngineCall, ZeroInv, Quiet0
  <1>15. CASE PoolStop
    BY <1>15 DEF PoolStop, ZeroInv
  <1>16. CASE UNCHANGED vars
    BY <1>0, <1>16, ZeroFrame DEF vars, engineVars
  <1> QED
    BY <1>1, <1>2, <1>3, <1>4, <1>5, <1>6, <1>7, <1>8, <1>9, <1>10, <1>11, <1>12, <1>13, <1>14, <1>15, <1>16 DEF Next, Worker, EngineStep

-----------------------------------------------------------------------------
(* The theorems.                                                           *)

\* The inductive invariant, from which the others follow.
THEOREM RankInvariant == Spec => []RankInv
  <1>1. Init => RankInv
    BY InitInv
  <1>2. RankInv /\ [Next]_vars => RankInv'
    BY TypeStep, BarrierStep, WaitersStep, ZeroStep DEF RankInv
  <1> QED
    BY <1>1, <1>2, PTL DEF Spec

\* Every variable keeps its type: no rank is counted nranks times, no task makes
\* more Inserts than it has.
THEOREM RankTypes == Spec => []TypeOK
  <1>1. RankInv => TypeOK
    BY DEF RankInv
  <1> QED
    BY <1>1, RankInvariant, PTL

\* waitForOtherWorkers counts exactly the calls of the round that is not released.
THEOREM CoordinatorCounts == Spec => []BarrierInv
  <1>1. RankInv => BarrierInv
    BY DEF RankInv
  <1> QED
    BY <1>1, RankInvariant, PTL

\* Whenever the engine thread is between two calls, rank 0 is in no task, so that
\* its direct reads of workers_[0] race with nothing, even after the early return
\* of RunTextGenerationContinue.
THEOREM RankZeroRests == Spec => []WorkerZeroQuiet
  <1>1. RankInv => WorkerZeroQuiet
    BY DEF RankInv, ZeroInv, Quiet0, WorkerZeroQuiet
  <1> QED
    BY <1>1, RankInvariant, PTL

\* PrefixCacheCoordinator implements Rendezvous: no rank leaves
\* waitForOtherWorkers before all have come, whatever the spurious wake-ups.
THEOREM CoordinatorImplementsRendezvous == Spec => ImplementsRendezvous
  <1>1. Init => RV!Init
    BY DEF Init, RV!Init
  <1>2. RankInv /\ [Next]_vars => [RV!Next]_<<entered, passed>>
    <2> SUFFICES ASSUME RankInv, [Next]_vars PROVE [RV!Next]_<<entered, passed>>
      OBVIOUS
    <2>0. BarrierInv
      BY DEF RankInv
    <2>t. /\ round \in Nat /\ worker_count \in 0..(nranks - 1)
          /\ entered \in [Ranks -> Nat] /\ passed \in [Ranks -> Nat]
      BY DEF RankInv, TypeOK
    <2>1. ASSUME NEW r \in Ranks, BarrierLast(r) PROVE RV!EnterLast(r)
      <3>1. entered[r] = round /\ passed[r] = round
        BY <2>1, NotWaiting DEF BarrierLast
      <3>2. \A s \in Ranks \ {r} : entered[r] < entered[s]
        BY <3>1, <2>1, <2>t, LastRank DEF BarrierLast
      <3> QED
        BY <3>1, <3>2, <2>1 DEF BarrierLast, Enters, Passes, RV!EnterLast
    <2>2. ASSUME NEW r \in Ranks, BarrierWait(r) PROVE RV!Enter(r)
      <3>1. entered[r] = round /\ passed[r] = round
        BY <2>2, NotWaiting DEF BarrierWait
      <3> QED
        BY <3>1, <2>2 DEF BarrierWait, Enters, RV!Enter
    <2>3. ASSUME NEW r \in Ranks, BarrierPass(r) PROVE RV!Leave(r)
      <3>1. \A s \in Ranks : entered[s] = round
        BY <2>3, NobodyCounted DEF BarrierPass
      <3>2. entered[r] = passed[r] + 1
        BY <2>0, <2>3 DEF BarrierPass, BarrierInv, Waiting
      <3> QED
        BY <3>1, <3>2, <2>t, <2>3 DEF BarrierPass, Passes, RV!Leave
    <2>4. CASE UNCHANGED barrierVars
      BY <2>4 DEF barrierVars
    <2>5. \/ \E r \in Ranks : BarrierLast(r) \/ BarrierWait(r) \/ BarrierPass(r)
          \/ UNCHANGED barrierVars
      BY DEF Next, Worker, EngineStep, WorkerTest, WorkerDequeue, WorkerDone,
             BarrierSleepAgain, SpuriousWake, EngineEnqueue, EngineJoin, EngineJoinFailed,
             PoolWakeUp, PoolJoin, EngineCall, PoolStop, vars
    <2> QED
      BY <2>1, <2>2, <2>3, <2>4, <2>5 DEF RV!Next
  <1> QED
    BY <1>1, <1>2, RankInvariant, PTL DEF Spec, ImplementsRendezvous, RV!Spec

=============================================================================
