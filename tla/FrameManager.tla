---------------------------- MODULE FrameManager ----------------------------
(***************************************************************************)
(* ConcurrentCacheFrameManager and the claims of ConcurrentCacheSpanManager*)
(* on it.  The free frames are in a lock-free queue, their number in an    *)
(* atomic counter of its own: a step is one access to either.              *)
(*                                                                         *)
(* The clients are the threads of the layer pool, which claim the spans of *)
(* all layers at once, and the rank thread, which grows the manager in the *)
(* warm-up and releases spans.  The model lets every thread do everything. *)
(***************************************************************************)
EXTENDS Integers, FiniteSets

CONSTANTS
  Frames,    \* the frames the device has memory for
  Threads,
  MaxClaim   \* the largest claim of one layer, in spans

ASSUME FrameAssumption ==
  /\ IsFiniteSet(Frames) /\ IsFiniteSet(Threads)
  /\ MaxClaim \in Nat \ {0}

VARIABLES
  free_frames,        \* contents of the queue; its order is never relied on
  free_frame_count,   \* read by CountFreeFrame
  total_frame_count,
  made,               \* frames created so far
  used,               \* frames wrapped in a span
  pc,                 \* where each thread is
  count,              \* its count argument
  out_vec,            \* the frames it has dequeued
  late                \* queued since it began to dequeue: it may overlook these

clientVars == <<made, used>>
threadVars == <<pc, count, out_vec, late>>
vars == <<free_frames, free_frame_count, total_frame_count, clientVars, threadVars>>

\* Places inside AllocFrame.
Claiming == {"dequeue", "putback", "sub"}
PCs == Claiming \cup {"idle", "total", "add"}

Init ==
  /\ free_frames = {} /\ free_frame_count = 0 /\ total_frame_count = 0
  /\ made = {} /\ used = {}
  /\ pc = [t \in Threads |-> "idle"]
  /\ count = [t \in Threads |-> 0]
  /\ out_vec = [t \in Threads |-> {}]
  /\ late = [t \in Threads |-> {}]

Go(t, place) == pc' = [pc EXCEPT ![t] = place]

\* enqueue, for the claims that are looking through the sub-queues.
Enqueued(S) ==
  late' = [t \in Threads |-> IF pc[t] = "dequeue" THEN late[t] \cup S ELSE {}]

-----------------------------------------------------------------------------
(* AllocFrame, for a claim of n spans.                                     *)

AllocFrame(t, n) ==
  /\ pc[t] = "idle"
  /\ Go(t, "dequeue")
  /\ count' = [count EXCEPT ![t] = n]
  /\ UNCHANGED <<free_frames, free_frame_count, total_frame_count, clientVars, out_vec, late>>

\* try_dequeue_bulk visits the sub-queues of the producers one by one, so the
\* frames of one call need not be taken at one time.
TryDequeue(t) ==
  /\ pc[t] = "dequeue" /\ Cardinality(out_vec[t]) < count[t]
  /\ \E f \in free_frames :
       /\ free_frames' = free_frames \ {f}
       /\ out_vec' = [out_vec EXCEPT ![t] = @ \cup {f}]
       /\ late' = [u \in Threads |-> late[u] \ {f}]
  /\ UNCHANGED <<free_frame_count, total_frame_count, clientVars, pc, count>>

DequeueDone(t) ==
  /\ pc[t] = "dequeue" /\ Cardinality(out_vec[t]) = count[t]
  /\ late' = [late EXCEPT ![t] = {}]
  /\ Go(t, "sub")
  /\ UNCHANGED <<free_frames, free_frame_count, total_frame_count, clientVars, count, out_vec>>

\* Mutant of DequeueShort: the claim is served with what there was.
DequeueSome(t) ==
  /\ pc[t] = "dequeue" /\ Cardinality(out_vec[t]) < count[t] /\ free_frames \subseteq late[t]
  /\ late' = [late EXCEPT ![t] = {}]
  /\ Go(t, "sub")
  /\ UNCHANGED <<free_frames, free_frame_count, total_frame_count, clientVars, count, out_vec>>

\* Mutant of DequeueShort: one failed look at a sub-queue ends the dequeue.
DequeueGivesUp(t) ==
  /\ pc[t] = "dequeue" /\ Cardinality(out_vec[t]) < count[t]
  /\ late' = [late EXCEPT ![t] = {}]
  /\ Go(t, "putback")
  /\ UNCHANGED <<free_frames, free_frame_count, total_frame_count, clientVars, count, out_vec>>

\* finished != count: every sub-queue was empty when it was looked at, and what is
\* queued now came later.  All or none.
DequeueShort(t) ==
  /\ pc[t] = "dequeue" /\ Cardinality(out_vec[t]) < count[t] /\ free_frames \subseteq late[t]
  /\ late' = [late EXCEPT ![t] = {}]
  /\ Go(t, "putback")
  /\ UNCHANGED <<free_frames, free_frame_count, total_frame_count, clientVars, count, out_vec>>

\* Mutant of EnqueueBulk: the frames of a short claim are dropped.
DropBulk(t) ==
  /\ pc[t] = "putback"
  /\ out_vec' = [out_vec EXCEPT ![t] = {}]
  /\ Go(t, "idle")
  /\ UNCHANGED <<free_frames, free_frame_count, total_frame_count, clientVars, count, late>>

\* Mutant of EnqueueBulk: the counter is moved as if the frames had been counted.
EnqueueCounted(t) ==
  /\ pc[t] = "putback"
  /\ free_frames' = free_frames \cup out_vec[t]
  /\ free_frame_count' = free_frame_count + Cardinality(out_vec[t])
  /\ Enqueued(out_vec[t])
  /\ out_vec' = [out_vec EXCEPT ![t] = {}]
  /\ Go(t, "idle")
  /\ UNCHANGED <<total_frame_count, clientVars, count>>

EnqueueBulk(t) ==
  /\ pc[t] = "putback"
  /\ free_frames' = free_frames \cup out_vec[t]
  /\ Enqueued(out_vec[t])
  /\ out_vec' = [out_vec EXCEPT ![t] = {}]
  /\ Go(t, "idle")
  /\ UNCHANGED <<free_frame_count, total_frame_count, clientVars, count>>

\* fetch_sub, and ClaimSpan wraps the frames.
FetchSub(t) ==
  /\ pc[t] = "sub"
  /\ free_frame_count' = free_frame_count - count[t]
  /\ used' = used \cup out_vec[t]
  /\ out_vec' = [out_vec EXCEPT ![t] = {}]
  /\ Go(t, "idle")
  /\ UNCHANGED <<free_frames, total_frame_count, made, count, late>>

-----------------------------------------------------------------------------
(* FreeFrame, of one frame or of several, and createFrame.                 *)

FreeFrame(t, S) ==
  /\ pc[t] = "idle"
  /\ used' = used \ S
  /\ free_frames' = free_frames \cup S
  /\ Enqueued(S)
  /\ count' = [count EXCEPT ![t] = Cardinality(S)]
  /\ Go(t, "add")
  /\ UNCHANGED <<free_frame_count, total_frame_count, made, out_vec>>

CreateFrame(t, f) ==
  /\ pc[t] = "idle" /\ f \notin made
  /\ made' = made \cup {f}
  /\ free_frames' = free_frames \cup {f}
  /\ Enqueued({f})
  /\ count' = [count EXCEPT ![t] = 1]
  /\ Go(t, "total")
  /\ UNCHANGED <<free_frame_count, total_frame_count, used, out_vec>>

\* Mutant of CountTotal: the count goes the wrong way.
CountTotalDown(t) ==
  /\ pc[t] = "total"
  /\ total_frame_count' = total_frame_count - 1
  /\ Go(t, "add")
  /\ UNCHANGED <<free_frames, free_frame_count, clientVars, count, out_vec, late>>

\* total_frame_count_++ of createFrame, on a plain integer.
CountTotal(t) ==
  /\ pc[t] = "total"
  /\ total_frame_count' = total_frame_count + 1
  /\ Go(t, "add")
  /\ UNCHANGED <<free_frames, free_frame_count, clientVars, count, out_vec, late>>

FetchAdd(t) ==
  /\ pc[t] = "add"
  /\ free_frame_count' = free_frame_count + count[t]
  /\ Go(t, "idle")
  /\ UNCHANGED <<free_frames, total_frame_count, clientVars, count, out_vec, late>>

-----------------------------------------------------------------------------
\* GrowBy, which has no lock: only the warm-up calls it, from one thread.
Grow(t) ==
  /\ \A u \in Threads : pc[u] # "total"
  /\ \E f \in Frames : CreateFrame(t, f)

Claim(t) == \E n \in 1..MaxClaim : AllocFrame(t, n)
ReleaseSpan(t) == \E S \in (SUBSET used) \ {{}} : FreeFrame(t, S)

Next ==
  \E t \in Threads :
    \/ Grow(t) \/ CountTotal(t)
    \/ Claim(t) \/ TryDequeue(t) \/ DequeueDone(t) \/ DequeueShort(t)
    \/ EnqueueBulk(t) \/ FetchSub(t)
    \/ ReleaseSpan(t) \/ FetchAdd(t)

Spec == Init /\ [][Next]_vars

-----------------------------------------------------------------------------
(* Properties.                                                             *)

\* Every variable has its type.
TypeOK ==
  /\ made \subseteq Frames
  /\ used \in SUBSET Frames /\ free_frames \in SUBSET Frames
  /\ free_frame_count \in Int /\ total_frame_count \in Nat
  /\ pc \in [Threads -> PCs]
  /\ count \in [Threads -> Nat]
  /\ out_vec \in [Threads -> SUBSET Frames] /\ late \in [Threads -> SUBSET Frames]

\* No frame is lost and none is handed out twice: every frame ever created is in
\* the queue, in a span or in the out_vec of one claim, and only in one of them,
\* whatever claims, short claims and releases overlap.
FrameInOnePlace ==
  /\ made = free_frames \cup used \cup UNION {out_vec[t] : t \in Threads}
  /\ free_frames \cap used = {}
  /\ \A t \in Threads : out_vec[t] \cap (free_frames \cup used) = {}
  /\ \A t, u \in Threads : t # u => out_vec[t] \cap out_vec[u] = {}

\* What a claim holds: never more than it asked for, all of it once the counter
\* is about to be moved, less when it failed, and nothing outside AllocFrame.
HeldByClaims ==
  \A t \in Threads :
    /\ pc[t] = "dequeue" => Cardinality(out_vec[t]) <= count[t]
    /\ pc[t] = "sub" => Cardinality(out_vec[t]) = count[t]
    /\ pc[t] = "putback" => Cardinality(out_vec[t]) < count[t]
    /\ pc[t] \notin Claiming => out_vec[t] = {}
    /\ pc[t] \in Claiming => count[t] > 0

\* The frames unfinished claims hold.
Dequeued == UNION {out_vec[t] : t \in Threads}

\* The sum of f[t] over the threads t of T, as a number of pairs.
SumOver(f, T) == Cardinality(UNION {{t} \X (1..f[t]) : t \in T})

\* CountFreeFrame is never off by more than the operations under way: it counts
\* the queue and what unfinished claims hold, less what has been enqueued and
\* not yet added.  With nobody inside it is exact, which is what the admission
\* tests of GenerateContinueContext and AllocDecoderMemory read.
CounterAccounts ==
  /\ free_frame_count = Cardinality(free_frames \cup Dequeued)
       - SumOver(count, {t \in Threads : pc[t] \in {"add", "total"}})
  /\ total_frame_count = Cardinality(made)
       - Cardinality({t \in Threads : pc[t] = "total"})

\* A claim that overlooked nothing comes back empty only when the claims under
\* way ask, together with the frames in use, for more than there is.  This is why
\* the tests of GenerateContinueContext and AllocDecoderMemory, which compare the
\* sum over all layers with the free frames, make the claims of the layer threads
\* safe: no span is released while they claim, so the first of them to come back
\* empty overlooked nothing.
ShortOnlyWhenScarce ==
  [][\A t \in Threads :
       (pc[t] = "dequeue" /\ pc'[t] = "putback" /\ late[t] = {}) =>
         Cardinality(used) + SumOver(count, {u \in Threads : pc[u] \in Claiming})
           > Cardinality(made)]_vars

\* The inductive invariant of FrameManagerProofs.
FrameInv == TypeOK /\ FrameInOnePlace /\ HeldByClaims

\* The manager implements the all-or-none pool: a claim is pending until its
\* frames are wrapped or given back.
Pool == INSTANCE FramePool WITH
  asked <- [t \in Threads |-> IF pc[t] \in Claiming THEN count[t] ELSE 0]

\* Seen through the spans it hands out, the lock-free manager is a FramePool: no
\* interleaving of dequeues, short claims and counter updates shows a client
\* anything but a whole claim or none.
ImplementsPool == Pool!Spec
=============================================================================
