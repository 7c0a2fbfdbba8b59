---------------------------- MODULE RankWorkers -----------------------------
(***************************************************************************)
(* The engine's rank threads: ThreadPoolWithID, the fan-out and join of    *)
(* AsEngineImpl around it, and PrefixCacheCoordinator, the barrier every   *)
(* PrefixCacheManager::Insert goes through.                                *)
(*                                                                         *)
(* A task is what one rank does for one call of the engine.  All ranks run *)
(* the same program on the same requests, so a task makes the same number  *)
(* of Inserts on every rank; the rest of it is one step.  A rank that      *)
(* fails alone is outside the model.                                       *)
(***************************************************************************)
EXTENDS Integers, Sequences, FiniteSets

CONSTANTS
  nranks,       \* size of the pool and of the tensor-parallel group
  MaxInserts,   \* the most Inserts one task makes
  MaxOps        \* bound on the engine's calls

Ranks == 0..(nranks - 1)

ASSUME RankAssumption ==
  /\ nranks \in Nat \ {0}
  /\ MaxInserts \in Nat /\ MaxOps \in Nat

VARIABLES
  queues,         \* the task queue of each worker thread
  stop,           \* the pool is being destroyed
  pc,             \* where each worker is
  task,           \* the task it runs: a number of Inserts still to make
  result,         \* the future of each rank: "none", or what the task returned
  worker_count,   \* of the coordinator
  entered,        \* calls of waitForOtherWorkers each rank has made
  passed,         \* and has returned from
  round,          \* times the coordinator has released the ranks
  engine,         \* the engine thread: what it does, and for which rank next
  ops             \* calls made so far

barrierVars == <<worker_count, entered, passed, round>>
engineVars == <<engine, ops>>
vars == <<queues, stop, pc, task, result, barrierVars, engineVars>>

\* A task is a kind and a number of Inserts; the dummy wakes a worker up.
Alloc == [kind |-> "alloc", inserts |-> 0]
Dummy == [kind |-> "dummy", inserts |-> 0]
Run(n) == [kind |-> "run", inserts |-> n]
Tasks == {Alloc, Dummy} \cup {Run(n) : n \in 0..MaxInserts}

\* "test": at the top of the worker loop; "dequeue": in wait_dequeue; "run": in a
\* task; "asleep" and "woken": in wait_cv; "exit": the thread has returned.
PCs == {"test", "dequeue", "run", "asleep", "woken", "exit"}
Waiting(r) == pc[r] \in {"asleep", "woken"}

Idle == [at |-> "idle", next |-> 0, job |-> Dummy]

Init ==
  /\ queues = [r \in Ranks |-> <<>>] /\ stop = FALSE
  /\ pc = [r \in Ranks |-> "test"] /\ task = [r \in Ranks |-> Dummy]
  /\ result = [r \in Ranks |-> "none"]
  /\ worker_count = 0 /\ round = 0
  /\ entered = [r \in Ranks |-> 0] /\ passed = [r \in Ranks |-> 0]
  /\ engine = Idle /\ ops = 0

-----------------------------------------------------------------------------
(* The worker loop.                                                        *)

WorkerTest(r) ==
  /\ pc[r] = "test"
  /\ pc' = [pc EXCEPT ![r] = IF stop THEN "exit" ELSE "dequeue"]
  /\ UNCHANGED <<queues, stop, task, result, barrierVars, engineVars>>

WorkerDequeue(r) ==
  /\ pc[r] = "dequeue" /\ queues[r] # <<>>
  /\ task' = [task EXCEPT ![r] = Head(queues[r])]
  /\ queues' = [queues EXCEPT ![r] = Tail(@)]
  /\ pc' = [pc EXCEPT ![r] = "run"]
  /\ UNCHANGED <<stop, result, barrierVars, engineVars>>

\* The task returns and its future is set.  AllocDecoderMemory may report that
\* there are too few frames, on any rank.  The engine holds the future of the last
\* task it gave a rank: the early return of RunTextGenerationContinue drops the
\* others, and a task that ends with another one queued behind it is of those.
WorkerDone(r) ==
  /\ pc[r] = "run" /\ task[r].inserts = 0
  /\ pc' = [pc EXCEPT ![r] = "test"]
  /\ task' = [task EXCEPT ![r] = Dummy]
  /\ IF task[r].kind = "dummy" \/ queues[r] # <<>> THEN UNCHANGED result
     ELSE \E res \in IF task[r].kind = "alloc" THEN {"ok", "failed"} ELSE {"ok"} :
            result' = [result EXCEPT ![r] = res]
  /\ UNCHANGED <<queues, stop, barrierVars, engineVars>>

-----------------------------------------------------------------------------
(* waitForOtherWorkers.  The mutex makes each of these one step.           *)

\* A call begins or ends.
Enters(r) == entered' = [entered EXCEPT ![r] = @ + 1]
Passes(r) ==
  /\ passed' = [passed EXCEPT ![r] = @ + 1]
  /\ task' = [task EXCEPT ![r].inserts = @ - 1]

\* Mutant of BarrierLast: nobody is notified.
BarrierLastSilent(r) ==
  /\ pc[r] = "run" /\ task[r].inserts > 0 /\ worker_count + 1 = nranks
  /\ Enters(r) /\ Passes(r)
  /\ worker_count' = 0 /\ round' = round + 1
  /\ UNCHANGED <<queues, stop, pc, result, engineVars>>

\* The last rank resets the count and notifies everyone.
BarrierLast(r) ==
  /\ pc[r] = "run" /\ task[r].inserts > 0 /\ worker_count + 1 = nranks
  /\ Enters(r) /\ Passes(r)
  /\ worker_count' = 0 /\ round' = round + 1
  /\ pc' = [s \in Ranks |-> IF pc[s] = "asleep" THEN "woken" ELSE pc[s]]
  /\ UNCHANGED <<queues, stop, result, engineVars>>

\* Mutant of BarrierWait: the comparison with worker_num is one too late.
BarrierWaitAlways(r) ==
  /\ pc[r] = "run" /\ task[r].inserts > 0
  /\ Enters(r)
  /\ worker_count' = worker_count + 1
  /\ pc' = [pc EXCEPT ![r] = "asleep"]
  /\ UNCHANGED <<queues, stop, task, result, passed, round, engineVars>>

BarrierWait(r) ==
  /\ pc[r] = "run" /\ task[r].inserts > 0 /\ worker_count + 1 # nranks
  /\ Enters(r)
  /\ worker_count' = worker_count + 1
  /\ pc' = [pc EXCEPT ![r] = "asleep"]
  /\ UNCHANGED <<queues, stop, task, result, passed, round, engineVars>>

\* wait_cv may wake up for no reason.
SpuriousWake(r) ==
  /\ pc[r] = "asleep"
  /\ pc' = [pc EXCEPT ![r] = "woken"]
  /\ UNCHANGED <<queues, stop, task, result, barrierVars, engineVars>>

\* Mutant of BarrierPass: wait_cv without its predicate.
BarrierPassUntested(r) ==
  /\ pc[r] = "woken"
  /\ Passes(r)
  /\ pc' = [pc EXCEPT ![r] = "run"]
  /\ UNCHANGED <<queues, stop, result, worker_count, entered, round, engineVars>>

\* A woken rank has the mutex again and tests worker_count == 0.
BarrierPass(r) ==
  /\ pc[r] = "woken" /\ worker_count = 0
  /\ Passes(r)
  /\ pc' = [pc EXCEPT ![r] = "run"]
  /\ UNCHANGED <<queues, stop, result, worker_count, entered, round, engineVars>>

BarrierSleepAgain(r) ==
  /\ pc[r] = "woken" /\ worker_count # 0
  /\ pc' = [pc EXCEPT ![r] = "asleep"]
  /\ UNCHANGED <<queues, stop, task, result, barrierVars, engineVars>>

-----------------------------------------------------------------------------
(* The engine thread, under engine_lock_.                                  *)

\* RunTextGenerationContinue begins with AllocDecoderMemory on every rank; the
\* other calls give every rank one task.
EngineCall ==
  /\ engine.at = "idle" /\ ~stop /\ ops < MaxOps
  /\ \E job \in Tasks \ {Dummy} : engine' = [at |-> "enqueue", next |-> 0, job |-> job]
  /\ ops' = ops + 1
  /\ UNCHANGED <<queues, stop, pc, task, result, barrierVars>>

EngineEnqueue ==
  /\ engine.at = "enqueue"
  /\ queues' = [queues EXCEPT ![engine.next] = Append(@, engine.job)]
  /\ result' = [result EXCEPT ![engine.next] = "none"]
  /\ engine' = IF engine.next + 1 < nranks THEN [engine EXCEPT !.next = @ + 1]
               ELSE [engine EXCEPT !.at = "join", !.next = 0]
  /\ UNCHANGED <<stop, pc, task, barrierVars, ops>>

\* What follows the last future: after AllocDecoderMemory the step itself.
AfterJoin ==
  IF engine.job = Alloc
  THEN \E n \in 0..MaxInserts : engine' = [at |-> "enqueue", next |-> 0, job |-> Run(n)]
  ELSE engine' = Idle

\* result[i].get(), in the order of the ranks.
EngineJoin ==
  /\ engine.at = "join" /\ result[engine.next] = "ok"
  /\ IF engine.next + 1 < nranks THEN engine' = [engine EXCEPT !.next = @ + 1]
     ELSE AfterJoin
  /\ UNCHANGED <<queues, stop, pc, task, result, barrierVars, ops>>

\* Mutant of EngineJoinFailed: the first failure to come in ends the call.
EngineJoinAnyFailed ==
  /\ engine.at = "join" /\ \E r \in Ranks : result[r] = "failed"
  /\ engine' = Idle
  /\ UNCHANGED <<queues, stop, pc, task, result, barrierVars, ops>>

\* AllocDecoderMemory has failed on a rank: return without waiting for the rest.
EngineJoinFailed ==
  /\ engine.at = "join" /\ result[engine.next] = "failed"
  /\ engine' = Idle
  /\ UNCHANGED <<queues, stop, pc, task, result, barrierVars, ops>>

\* ~ThreadPoolWithID, of an engine that has no call under way.
PoolStop ==
  /\ engine.at = "idle" /\ ~stop
  /\ stop' = TRUE
  /\ engine' = [at |-> "wakeup", next |-> 0, job |-> Dummy]
  /\ UNCHANGED <<queues, pc, task, result, barrierVars, ops>>

\* Mutant of PoolWakeUp: no dummy message.
PoolWakeUpSilent ==
  /\ engine.at = "wakeup"
  /\ engine' = [engine EXCEPT !.at = "joinpool"]
  /\ UNCHANGED <<queues, stop, pc, task, result, barrierVars, ops>>

PoolWakeUp ==
  /\ engine.at = "wakeup"
  /\ queues' = [r \in Ranks |-> Append(queues[r], Dummy)]
  /\ engine' = [engine EXCEPT !.at = "joinpool"]
  /\ UNCHANGED <<stop, pc, task, result, barrierVars, ops>>

PoolJoin ==
  /\ engine.at = "joinpool" /\ \A r \in Ranks : pc[r] = "exit"
  /\ engine' = [engine EXCEPT !.at = "ended"]
  /\ UNCHANGED <<queues, stop, pc, task, result, barrierVars, ops>>

-----------------------------------------------------------------------------
Worker(r) ==
  \/ WorkerTest(r) \/ WorkerDequeue(r) \/ WorkerDone(r)
  \/ BarrierLast(r) \/ BarrierWait(r) \/ BarrierPass(r) \/ BarrierSleepAgain(r)

\* The part of the engine thread that does not wait for a client.
EngineStep ==
  \/ EngineEnqueue \/ EngineJoin \/ EngineJoinFailed \/ PoolWakeUp \/ PoolJoin

Next ==
  \/ \E r \in Ranks : Worker(r) \/ SpuriousWake(r)
  \/ EngineStep \/ EngineCall \/ PoolStop

Spec == Init /\ [][Next]_vars

\* The operating system runs every thread that can run.
FairSpec == Spec /\ WF_vars(EngineStep) /\ \A r \in Ranks : WF_vars(Worker(r))

-----------------------------------------------------------------------------
(* Properties.                                                             *)

Engines == [at : {"idle", "enqueue", "join", "wakeup", "joinpool", "ended"},
            next : Ranks, job : Tasks]

\* Every variable has its type.
TypeOK ==
  /\ queues \in [Ranks -> Seq(Tasks)] /\ stop \in BOOLEAN
  /\ pc \in [Ranks -> PCs]
  /\ task \in [Ranks -> [kind : {"alloc", "dummy", "run"}, inserts : 0..MaxInserts]]
  /\ result \in [Ranks -> {"none", "ok", "failed"}]
  /\ worker_count \in 0..(nranks - 1) /\ round \in Nat
  /\ entered \in [Ranks -> Nat] /\ passed \in [Ranks -> Nat]
  /\ engine \in Engines /\ ops \in 0..MaxOps

\* The coordinator's count: it counts the calls of the round that is not yet
\* released, and a rank that is still waiting belongs to that round or to the one
\* before.
BarrierInv ==
  /\ worker_count = Cardinality({r \in Ranks : entered[r] = round + 1})
  /\ worker_count < nranks
  /\ \A r \in Ranks :
       /\ entered[r] \in {round, round + 1}
       /\ passed[r] <= round
       /\ entered[r] = IF Waiting(r) THEN passed[r] + 1 ELSE passed[r]

\* No rank leaves waitForOtherWorkers before all have come, in every round.
RV == INSTANCE Rendezvous

ImplementsRendezvous == RV!Spec

\* Between two calls the engine thread reads workers_[0] directly (GetFreeFrame,
\* UpdateAsEngineStat, the lengths ChooseVictimRequest compares): rank 0 is then
\* in no task and has none queued, also after the early return of
\* RunTextGenerationContinue.
WorkerZeroQuiet ==
  engine.at = "idle" => queues[0] = <<>> /\ pc[0] \in {"test", "dequeue"}

\* When all ranks have come, all go on: a rank that waits for a call everybody has
\* made stops waiting.
AllProceed ==
  \A r \in Ranks :
    (Waiting(r) /\ \A s \in Ranks : entered[s] >= entered[r]) ~> ~Waiting(r)

\* A call of the engine returns.
EngineReturns == (engine.at \in {"enqueue", "join"}) ~> (engine.at = "idle")

\* Destroying the pool ends, wherever the workers are when stop is set.
PoolEnds == (engine.at = "wakeup") ~> (engine.at = "ended")
=============================================================================
