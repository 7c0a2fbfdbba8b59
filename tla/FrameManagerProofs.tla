------------------------- MODULE FrameManagerProofs -------------------------
(***************************************************************************)
(* The frame manager never loses or shares a frame, and implements the     *)
(* all-or-none pool, for any number of frames and threads.                 *)
(***************************************************************************)
EXTENDS FrameManager, FiniteSetTheorems, FunctionTheorems, TLAPS

\* A set of frames is finite.
LEMMA FrameSetFinite ==
  ASSUME NEW S \in SUBSET Frames
  PROVE  IsFiniteSet(S) /\ Cardinality(S) \in Nat
BY FrameAssumption, FS_Subset, FS_CardinalityType

\* Dequeuing one more frame adds one to what the claim holds.
LEMMA OneMoreFrame ==
  ASSUME NEW S \in SUBSET Frames, NEW f \in Frames \ S
  PROVE  Cardinality(S \cup {f}) = Cardinality(S) + 1
BY FrameSetFinite, FS_AddElement

\* The manager starts in a state of the invariant.
LEMMA InitInv == Init => FrameInv
<1> SUFFICES ASSUME Init PROVE FrameInv
  OBVIOUS
<1>1. TypeOK
  BY DEF Init, TypeOK, PCs
<1>2. FrameInOnePlace
  BY DEF Init, FrameInOnePlace
<1>3. HeldByClaims
  BY DEF Init, HeldByClaims, Claiming
<1> QED  BY <1>1, <1>2, <1>3 DEF FrameInv

\* What is queued late are frames.
LEMMA LateTyped ==
  ASSUME late \in [Threads -> SUBSET Frames], NEW S \in SUBSET Frames, Enqueued(S)
  PROVE  late' \in [Threads -> SUBSET Frames]
BY DEF Enqueued

\* Every step keeps the types.
LEMMA TypeStep == FrameInv /\ [Next]_vars => TypeOK'
<1> SUFFICES ASSUME FrameInv, [Next]_vars PROVE TypeOK'
  OBVIOUS
<1> USE DEF FrameInv, TypeOK, PCs, Claiming, Go, clientVars, threadVars
<1>1. CASE UNCHANGED vars
  BY <1>1 DEF vars
<1>2. CASE Next
  <2> PICK t \in Threads :
        \/ Grow(t) \/ CountTotal(t)
        \/ Claim(t) \/ TryDequeue(t) \/ DequeueDone(t) \/ DequeueShort(t)
        \/ EnqueueBulk(t) \/ FetchSub(t)
        \/ ReleaseSpan(t) \/ FetchAdd(t)
    BY <1>2 DEF Next
  <2>1. CASE Grow(t)
    <3>1. PICK f \in Frames : CreateFrame(t, f)
      BY <2>1 DEF Grow
    <3>2. late' \in [Threads -> SUBSET Frames]
      BY <3>1, LateTyped DEF CreateFrame
    <3> QED  BY <3>1, <3>2 DEF CreateFrame
  <2>2. CASE CountTotal(t)
    BY <2>2 DEF CountTotal
  <2>3. CASE Claim(t)
    BY <2>3 DEF Claim, AllocFrame
  <2>4. CASE TryDequeue(t)
    BY <2>4 DEF TryDequeue
  <2>5. CASE DequeueDone(t)
    BY <2>5 DEF DequeueDone
  <2>6. CASE DequeueShort(t)
    BY <2>6 DEF DequeueShort
  <2>7. CASE EnqueueBulk(t)
    <3>1. late' \in [Threads -> SUBSET Frames]
      BY <2>7, LateTyped DEF EnqueueBulk
    <3> QED  BY <3>1, <2>7 DEF EnqueueBulk
  <2>8. CASE FetchSub(t)
    BY <2>8 DEF FetchSub
  <2>9. CASE ReleaseSpan(t)
    <3>1. PICK S \in SUBSET used : FreeFrame(t, S)
      BY <2>9 DEF ReleaseSpan
    <3>2. Cardinality(S) \in Nat
      BY FrameSetFinite
    <3>3. late' \in [Threads -> SUBSET Frames]
      BY <3>1, LateTyped DEF FreeFrame
    <3> QED  BY <3>1, <3>2, <3>3 DEF FreeFrame
  <2>10. CASE FetchAdd(t)
    BY <2>10 DEF FetchAdd
  <2> QED  BY <2>1, <2>2, <2>3, <2>4, <2>5, <2>6, <2>7, <2>8, <2>9, <2>10
<1> QED  BY <1>1, <1>2

\* Every step moves frames from one place to one other.
LEMMA PlaceStep == FrameInv /\ [Next]_vars => FrameInOnePlace'
<1> SUFFICES ASSUME FrameInv, [Next]_vars PROVE FrameInOnePlace'
  OBVIOUS
<1> USE DEF FrameInv, TypeOK, FrameInOnePlace, Go, clientVars, threadVars
<1>1. CASE UNCHANGED vars
  BY <1>1 DEF vars
<1>2. CASE Next
  <2> PICK t \in Threads :
        \/ Grow(t) \/ CountTotal(t)
        \/ Claim(t) \/ TryDequeue(t) \/ DequeueDone(t) \/ DequeueShort(t)
        \/ EnqueueBulk(t) \/ FetchSub(t)
        \/ ReleaseSpan(t) \/ FetchAdd(t)
    BY <1>2 DEF Next
  <2>1. CASE Grow(t)
    BY <2>1 DEF Grow, CreateFrame
  <2>2. CASE CountTotal(t)
    BY <2>2 DEF CountTotal
  <2>3. CASE Claim(t)
    BY <2>3 DEF Claim, AllocFrame
  <2>4. CASE TryDequeue(t)
    BY <2>4 DEF TryDequeue
  <2>5. CASE DequeueDone(t)
    BY <2>5 DEF DequeueDone
  <2>6. CASE DequeueShort(t)
    BY <2>6 DEF DequeueShort
  <2>7. CASE EnqueueBulk(t)
    BY <2>7 DEF EnqueueBulk
  <2>8. CASE FetchSub(t)
    BY <2>8 DEF FetchSub
  <2>9. CASE ReleaseSpan(t)
    BY <2>9 DEF ReleaseSpan, FreeFrame
  <2>10. CASE FetchAdd(t)
    BY <2>10 DEF FetchAdd
  <2> QED  BY <2>1, <2>2, <2>3, <2>4, <2>5, <2>6, <2>7, <2>8, <2>9, <2>10
<1> QED  BY <1>1, <1>2

\* Every step keeps what the claims hold in bounds.
LEMMA HeldStep == FrameInv /\ [Next]_vars => HeldByClaims'
<1> SUFFICES ASSUME FrameInv, [Next]_vars PROVE HeldByClaims'
  OBVIOUS
<1> USE DEF FrameInv, TypeOK, HeldByClaims, PCs, Claiming, Go, clientVars, threadVars
<1>1. CASE UNCHANGED vars
  BY <1>1 DEF vars
<1>2. CASE Next
  <2> PICK t \in Threads :
        \/ Grow(t) \/ CountTotal(t)
        \/ Claim(t) \/ TryDequeue(t) \/ DequeueDone(t) \/ DequeueShort(t)
        \/ EnqueueBulk(t) \/ FetchSub(t)
        \/ ReleaseSpan(t) \/ FetchAdd(t)
    BY <1>2 DEF Next
  <2>1. CASE Grow(t)
    BY <2>1 DEF Grow, CreateFrame
  <2>2. CASE CountTotal(t)
    BY <2>2 DEF CountTotal
  <2>3. CASE Claim(t)
    <3>1. PICK n \in 1..MaxClaim : AllocFrame(t, n)
      BY <2>3 DEF Claim
    <3>2. n \in Nat /\ n > 0
      BY FrameAssumption
    <3>3. out_vec[t] = {} /\ Cardinality({}) = 0
      BY <3>1, FS_EmptySet DEF AllocFrame
    <3> QED  BY <3>1, <3>2, <3>3 DEF AllocFrame
  <2>4. CASE TryDequeue(t)
    <3>1. PICK f \in free_frames :
            /\ free_frames' = free_frames \ {f}
            /\ out_vec' = [out_vec EXCEPT ![t] = @ \cup {f}]
      BY <2>4 DEF TryDequeue
    <3>2. out_vec[t] \in SUBSET Frames /\ f \in Frames \ out_vec[t]
      BY <3>1 DEF FrameInOnePlace
    <3>3. Cardinality(out_vec'[t]) = Cardinality(out_vec[t]) + 1
      BY <3>1, <3>2, OneMoreFrame
    <3>4. Cardinality(out_vec[t]) \in Nat
      BY <3>2, FrameSetFinite
    <3>5. \A u \in Threads \ {t} : out_vec'[u] = out_vec[u]
      BY <3>1
    <3> QED  BY <2>4, <3>1, <3>3, <3>4, <3>5 DEF TryDequeue
  <2>5. CASE DequeueDone(t)
    BY <2>5 DEF DequeueDone
  <2>6. CASE DequeueShort(t)
    BY <2>6 DEF DequeueShort
  <2>7. CASE EnqueueBulk(t)
    BY <2>7 DEF EnqueueBulk
  <2>8. CASE FetchSub(t)
    BY <2>8 DEF FetchSub
  <2>9. CASE ReleaseSpan(t)
    BY <2>9 DEF ReleaseSpan, FreeFrame
  <2>10. CASE FetchAdd(t)
    BY <2>10 DEF FetchAdd
  <2> QED  BY <2>1, <2>2, <2>3, <2>4, <2>5, <2>6, <2>7, <2>8, <2>9, <2>10
<1> QED  BY <1>1, <1>2

\* FrameInv is an invariant of the manager: frames are conserved and exclusive
\* under every interleaving of AllocFrame, FreeFrame and createFrame.
THEOREM FrameInvariant == Spec => []FrameInv
<1>1. Init => FrameInv
  BY InitInv
<1>2. FrameInv /\ [Next]_vars => FrameInv'
  BY TypeStep, PlaceStep, HeldStep DEF FrameInv
<1> QED  BY <1>1, <1>2, PTL DEF Spec

\* Types, for every number of frames and threads.
THEOREM FrameTypes == Spec => []TypeOK
<1>1. FrameInv => TypeOK
  BY DEF FrameInv
<1> QED  BY <1>1, FrameInvariant, PTL

\* No frame is lost or handed out twice.
THEOREM FramesConserved == Spec => []FrameInOnePlace
<1>1. FrameInv => FrameInOnePlace
  BY DEF FrameInv
<1> QED  BY <1>1, FrameInvariant, PTL

-----------------------------------------------------------------------------
(* Refinement.                                                             *)

\* The claims under way, as the pool sees them.
LEMMA PoolInit == Init => Pool!Init
BY DEF Init, Pool!Init, Claiming

\* Every step of the manager is a step of the pool or leaves it alone.
LEMMA PoolStep == FrameInv /\ [Next]_vars => [Pool!Next]_(Pool!vars)
<1> SUFFICES ASSUME FrameInv, [Next]_vars PROVE [Pool!Next]_(Pool!vars)
  OBVIOUS
<1> DEFINE asked == [t \in Threads |-> IF pc[t] \in Claiming THEN count[t] ELSE 0]
<1> USE DEF FrameInv, TypeOK, PCs, Claiming, Go, clientVars, threadVars
<1>1. CASE UNCHANGED vars
  BY <1>1 DEF vars, Pool!vars
<1>2. CASE Next
  <2> PICK t \in Threads :
        \/ Grow(t) \/ CountTotal(t)
        \/ Claim(t) \/ TryDequeue(t) \/ DequeueDone(t) \/ DequeueShort(t)
        \/ EnqueueBulk(t) \/ FetchSub(t)
        \/ ReleaseSpan(t) \/ FetchAdd(t)
    BY <1>2 DEF Next
  <2>1. CASE Grow(t)
    <3>1. PICK f \in Frames : CreateFrame(t, f)
      BY <2>1 DEF Grow
    <3>2. asked' = asked
      BY <3>1 DEF CreateFrame
    <3>3. Pool!Create(f)
      BY <3>1, <3>2 DEF CreateFrame, Pool!Create
    <3> QED  BY <3>3 DEF Pool!Next
  <2>2. CASE CountTotal(t)
    BY <2>2 DEF CountTotal, Pool!vars
  <2>3. CASE Claim(t)
    <3>1. PICK n \in 1..MaxClaim : AllocFrame(t, n)
      BY <2>3 DEF Claim
    <3>2. asked[t] = 0 /\ asked' = [asked EXCEPT ![t] = n]
      BY <3>1 DEF AllocFrame
    <3>3. Pool!Ask(t, n)
      BY <3>1, <3>2 DEF AllocFrame, Pool!Ask
    <3> QED  BY <3>3 DEF Pool!Next
  <2>4. CASE TryDequeue(t)
    BY <2>4 DEF TryDequeue, Pool!vars
  <2>5. CASE DequeueDone(t)
    BY <2>5 DEF DequeueDone, Pool!vars
  <2>6. CASE DequeueShort(t)
    BY <2>6 DEF DequeueShort, Pool!vars
  <2>7. CASE EnqueueBulk(t)
    <3>1. asked[t] > 0 /\ asked' = [asked EXCEPT ![t] = 0]
      BY <2>7 DEF EnqueueBulk, HeldByClaims
    <3>2. Pool!Refuse(t)
      BY <2>7, <3>1 DEF EnqueueBulk, Pool!Refuse
    <3> QED  BY <3>2 DEF Pool!Next
  <2>8. CASE FetchSub(t)
    <3>1. asked[t] = count[t] /\ asked[t] > 0 /\ asked' = [asked EXCEPT ![t] = 0]
      BY <2>8 DEF FetchSub, HeldByClaims
    <3>2. Cardinality(out_vec[t]) = asked[t]
      BY <2>8, <3>1 DEF FetchSub, HeldByClaims
    <3>3. out_vec[t] \subseteq made /\ out_vec[t] \cap used = {}
      BY DEF FrameInOnePlace
    <3>4. Pool!Cardinality(out_vec[t]) = asked[t]
      BY <3>2, Zenon DEF Cardinality, Pool!Cardinality
    <3>5. Pool!Grant(t, out_vec[t])
      BY <2>8, <3>1, <3>3, <3>4 DEF FetchSub, Pool!Grant
    <3>6. out_vec[t] \in SUBSET Frames
      OBVIOUS
    <3>7. \E u \in Threads : \E S \in SUBSET Frames : Pool!Grant(u, S)
      BY <3>5, <3>6, Zenon DEF Pool!Grant
    <3> QED  BY <3>7 DEF Pool!Next
  <2>9. CASE ReleaseSpan(t)
    <3>1. PICK S \in (SUBSET used) \ {{}} : FreeFrame(t, S)
      BY <2>9 DEF ReleaseSpan
    <3>2. asked' = asked
      BY <3>1 DEF FreeFrame
    <3>3. Pool!Release(S) /\ S \in SUBSET Frames
      BY <3>1, <3>2 DEF FreeFrame, Pool!Release
    <3> QED  BY <3>3 DEF Pool!Next
  <2>10. CASE FetchAdd(t)
    BY <2>10 DEF FetchAdd, Pool!vars
  <2> QED  BY <2>1, <2>2, <2>3, <2>4, <2>5, <2>6, <2>7, <2>8, <2>9, <2>10
<1> QED  BY <1>1, <1>2

\* The lock-free manager implements the all-or-none pool: the abstract grant is
\* the fetch_sub after a full dequeue, the refusal the return of a short one.
THEOREM ManagerImplementsPool == Spec => ImplementsPool
<1>1. Init => Pool!Init
  BY PoolInit
<1>2. FrameInv /\ [Next]_vars => [Pool!Next]_(Pool!vars)
  BY PoolStep
<1> QED  BY <1>1, <1>2, FrameInvariant, PTL DEF Spec, ImplementsPool, Pool!Spec

-----------------------------------------------------------------------------
(* The free-frame counter.                                                 *)

\* Counting the union of two disjoint sets.
LEMMA DisjointCount ==
  ASSUME NEW A, NEW B, IsFiniteSet(A), IsFiniteSet(B), A \cap B = {}
  PROVE  /\ IsFiniteSet(A \cup B)
         /\ Cardinality(A \cup B) = Cardinality(A) + Cardinality(B)
<1>1. Cardinality(A \cap B) = 0
  BY FS_EmptySet
<1>2. Cardinality(A) \in Nat /\ Cardinality(B) \in Nat
  BY FS_CardinalityType
<1>3. /\ IsFiniteSet(A \cup B)
      /\ Cardinality(A \cup B) = Cardinality(A) + Cardinality(B) - Cardinality(A \cap B)
  BY FS_Union
<1> QED  BY <1>1, <1>2, <1>3

\* One thread's share of a sum.
LEMMA ShareSize ==
  ASSUME NEW t, NEW n \in Nat
  PROVE  IsFiniteSet({t} \X (1..n)) /\ Cardinality({t} \X (1..n)) = n
<1>1. IsFiniteSet({t}) /\ Cardinality({t}) = 1
  BY FS_Singleton
<1>2. IsFiniteSet(1..n) /\ Cardinality(1..n) = n
  BY FS_Interval
<1>3. PICK A, B : A = {t} /\ B = 1..n
  OBVIOUS
<1>4. IsFiniteSet(A) /\ IsFiniteSet(B) /\ Cardinality(A) = 1 /\ Cardinality(B) = n
  BY ONLY <1>1, <1>2, <1>3
<1>5. IsFiniteSet(A \X B) /\ Cardinality(A \X B) = Cardinality(A) * Cardinality(B)
  BY ONLY <1>4, FS_Product
<1>6. Cardinality(A \X B) = n
  BY ONLY <1>4, <1>5, n \in Nat
<1> QED  BY ONLY <1>3, <1>5, <1>6

\* The pairs a sum counts are finitely many.
LEMMA PairsFinite ==
  ASSUME NEW f \in [Threads -> Nat], NEW T \in SUBSET Threads
  PROVE  /\ IsFiniteSet(UNION {{t} \X (1..f[t]) : t \in T})
         /\ SumOver(f, T) \in Nat
<1> DEFINE P == {{t} \X (1..f[t]) : t \in T}
           g == [t \in T |-> {t} \X (1..f[t])]
<1>1. IsFiniteSet(T)
  BY FrameAssumption, FS_Subset
<1>2. g \in Surjection(T, P)
  <2>1. g \in [T -> P]
    OBVIOUS
  <2>2. \A S \in P : \E t \in T : g[t] = S
    OBVIOUS
  <2> HIDE DEF P, g
  <2> QED  BY ONLY <2>1, <2>2 DEF Surjection
<1>3. IsFiniteSet(P)
  <2> HIDE DEF P, g
  <2> QED  BY ONLY <1>1, <1>2, FS_Surjection
<1>4. \A S \in P : IsFiniteSet(S)
  <2>1. \A t \in T : f[t] \in Nat
    OBVIOUS
  <2>2. \A t \in T : IsFiniteSet({t} \X (1..f[t]))
    BY ONLY <2>1, ShareSize
  <2> QED  BY ONLY <2>2
<1> HIDE DEF P
<1>5. IsFiniteSet(UNION P)
  BY <1>3, <1>4, FS_UNION
<1> QED  BY <1>5, FS_CardinalityType DEF SumOver, P

\* A sum has one summand for each thread.
LEMMA SumAdds ==
  ASSUME NEW f \in [Threads -> Nat], NEW T \in SUBSET Threads, NEW t \in Threads \ T
  PROVE  SumOver(f, T \cup {t}) = SumOver(f, T) + f[t]
<1> DEFINE A == UNION {{u} \X (1..f[u]) : u \in T}
           B == {t} \X (1..f[t])
<1>1. IsFiniteSet(A)
  BY PairsFinite
<1>2. IsFiniteSet(B) /\ Cardinality(B) = f[t]
  BY ShareSize
<1>3. A \cap B = {}
  OBVIOUS
<1>4. UNION {{u} \X (1..f[u]) : u \in T \cup {t}} = A \cup B
  OBVIOUS
<1> HIDE DEF A, B
<1>5. Cardinality(A \cup B) = Cardinality(A) + f[t]
  BY <1>1, <1>2, <1>3, DisjointCount
<1> QED  BY <1>4, <1>5 DEF SumOver, A

\* A sum depends on its own threads only.
LEMMA SumSame ==
  ASSUME NEW T, NEW f, NEW g, \A t \in T : f[t] = g[t]
  PROVE  SumOver(f, T) = SumOver(g, T)
<1>1. {{t} \X (1..f[t]) : t \in T} = {{t} \X (1..g[t]) : t \in T}
  OBVIOUS
<1> QED  BY <1>1 DEF SumOver

\* The frames that are free or in the hands of a claim.
LEMMA NotInUse ==
  ASSUME FrameInv
  PROVE  /\ free_frames \cup Dequeued = made \ used
         /\ IsFiniteSet(made \ used) /\ Cardinality(made \ used) \in Nat
         /\ IsFiniteSet(made) /\ Cardinality(made) \in Nat
<1>1. free_frames \cup Dequeued = made \ used
  BY DEF FrameInv, FrameInOnePlace, Dequeued
<1>2. made \in SUBSET Frames /\ made \ used \in SUBSET Frames
  BY DEF FrameInv, TypeOK
<1> QED  BY <1>1, <1>2, FrameSetFinite

\* The threads that have enqueued frames they have not yet counted, and those
\* that have not counted a frame they created.
Uncounted == {t \in Threads : pc[t] \in {"add", "total"}}
Uncreated == {t \in Threads : pc[t] = "total"}

\* No step but the ones below moves a counter or changes what it counts.
LEMMA CounterStill ==
  ASSUME FrameInv, FrameInv', CounterAccounts,
         UNCHANGED <<free_frame_count, total_frame_count>>,
         made' = made, used' = used, Uncounted' = Uncounted, Uncreated' = Uncreated,
         \A t \in Uncounted : count'[t] = count[t]
  PROVE  CounterAccounts'
<1>1. (free_frames \cup Dequeued)' = free_frames \cup Dequeued
  BY NotInUse DEF FrameInv, FrameInOnePlace, Dequeued
<1>2. SumOver(count', Uncounted) = SumOver(count, Uncounted)
  BY SumSame
<1>3. SumOver(count, Uncounted)' = SumOver(count', Uncounted)
  BY DEF SumOver
<1> QED  BY <1>1, <1>2, <1>3 DEF CounterAccounts, Uncounted, Uncreated

\* Every step keeps the counters in account.
LEMMA CounterStep ==
  ASSUME FrameInv, FrameInv', CounterAccounts, [Next]_vars
  PROVE  CounterAccounts'
<1> DEFINE G == made \ used
<1> USE DEF Go, clientVars, threadVars
<1>0. /\ pc \in [Threads -> PCs] /\ count \in [Threads -> Nat] /\ count' \in [Threads -> Nat]
      /\ free_frame_count \in Int /\ total_frame_count \in Int
  BY DEF FrameInv, TypeOK
<1>a. /\ free_frame_count = Cardinality(G) - SumOver(count, Uncounted)
      /\ total_frame_count = Cardinality(made) - Cardinality(Uncreated)
  BY NotInUse DEF CounterAccounts, Uncounted, Uncreated
<1>b. ASSUME free_frame_count' = Cardinality(made' \ used') - SumOver(count', Uncounted'),
             total_frame_count' = Cardinality(made') - Cardinality(Uncreated')
      PROVE  CounterAccounts'
  <2>1. (free_frames \cup Dequeued)' = made' \ used'
    BY DEF FrameInv, FrameInOnePlace, Dequeued
  <2>2. SumOver(count, Uncounted)' = SumOver(count', Uncounted')
    BY DEF SumOver
  <2> QED  BY <1>b, <2>1, <2>2 DEF CounterAccounts, Uncounted, Uncreated
<1>c. /\ Uncounted \in SUBSET Threads /\ Uncreated \in SUBSET Threads
      /\ IsFiniteSet(Uncreated) /\ Cardinality(Uncreated) \in Nat
      /\ SumOver(count, Uncounted) \in Nat
      /\ Cardinality(G) \in Nat /\ Cardinality(made) \in Nat
  <2>1. Uncounted \in SUBSET Threads /\ Uncreated \in SUBSET Threads
    BY DEF Uncounted, Uncreated
  <2> QED  BY <1>0, <2>1, PairsFinite, FS_Subset, FS_CardinalityType, FrameAssumption, NotInUse
<1>1. CASE UNCHANGED vars
  BY <1>1, CounterStill DEF vars, Uncounted, Uncreated
<1>2. ASSUME NEW t \in Threads, Grow(t) PROVE CounterAccounts'
  <2>1. PICK f \in Frames : CreateFrame(t, f)
    BY <1>2 DEF Grow
  <2> USE <2>1 DEF CreateFrame
  <2>2. f \notin made /\ made' = made \cup {f} /\ made' \ used' = G \cup {f}
    BY DEF FrameInv, FrameInOnePlace
  <2>3. Cardinality(made') = Cardinality(made) + 1 /\ Cardinality(made' \ used') = Cardinality(G) + 1
    BY <2>2, NotInUse, FS_AddElement
  <2>4. /\ t \notin Uncounted /\ Uncounted' = Uncounted \cup {t}
        /\ t \notin Uncreated /\ Uncreated' = Uncreated \cup {t}
        /\ count'[t] = 1 /\ \A u \in Uncounted : count'[u] = count[u]
    BY <1>0 DEF Uncounted, Uncreated
  <2>5. Cardinality(Uncreated') = Cardinality(Uncreated) + 1
    BY <1>c, <2>4, FS_AddElement
  <2>6. SumOver(count', Uncounted') = SumOver(count, Uncounted) + 1
    <3>1. SumOver(count', Uncounted') = SumOver(count', Uncounted) + 1
      BY <1>0, <1>c, <2>4, SumAdds
    <3>2. SumOver(count', Uncounted) = SumOver(count, Uncounted)
      BY <2>4, SumSame
    <3> QED  BY <3>1, <3>2
  <2>7. free_frame_count' = free_frame_count /\ total_frame_count' = total_frame_count
    OBVIOUS
  <2> HIDE <2>1 DEF CreateFrame, G
  <2> QED  BY <1>a, <1>b, <1>c, <2>3, <2>5, <2>6, <2>7
<1>3. ASSUME NEW t \in Threads, CountTotal(t) PROVE CounterAccounts'
  <2> USE <1>3 DEF CountTotal
  <2>1. Uncounted' = Uncounted /\ t \in Uncreated /\ Uncreated' = Uncreated \ {t}
    BY <1>0 DEF Uncounted, Uncreated
  <2>2. Cardinality(Uncreated') = Cardinality(Uncreated) - 1
    BY <1>c, <2>1, FS_RemoveElement
  <2>3. /\ total_frame_count' = total_frame_count + 1 /\ free_frame_count' = free_frame_count
        /\ made' = made /\ used' = used /\ count' = count
    OBVIOUS
  <2> HIDE DEF CountTotal
  <2> QED  BY <1>a, <1>b, <1>c, <2>1, <2>2, <2>3
<1>4. ASSUME NEW t \in Threads, Claim(t) PROVE CounterAccounts'
  BY <1>0, <1>4, CounterStill DEF Claim, AllocFrame, Uncounted, Uncreated
<1>5. ASSUME NEW t \in Threads, TryDequeue(t) PROVE CounterAccounts'
  BY <1>5, CounterStill DEF TryDequeue, Uncounted, Uncreated
<1>6. ASSUME NEW t \in Threads, DequeueDone(t) \/ DequeueShort(t) \/ EnqueueBulk(t)
      PROVE  CounterAccounts'
  BY <1>0, <1>6, CounterStill DEF DequeueDone, DequeueShort, EnqueueBulk, Uncounted, Uncreated
<1>7. ASSUME NEW t \in Threads, FetchSub(t) PROVE CounterAccounts'
  <2> USE <1>7 DEF FetchSub
  <2>1. Uncounted' = Uncounted /\ Uncreated' = Uncreated /\ made' = made /\ count' = count
    BY <1>0 DEF Uncounted, Uncreated
  <2>2. /\ G = (made' \ used') \cup out_vec[t] /\ (made' \ used') \cap out_vec[t] = {}
        /\ made' \ used' \in SUBSET Frames /\ out_vec[t] \in SUBSET Frames
    BY DEF FrameInv, FrameInOnePlace, TypeOK
  <2>3. Cardinality(out_vec[t]) = count[t] /\ count[t] \in Nat
    BY <1>0 DEF FrameInv, HeldByClaims
  <2>4. Cardinality(G) = Cardinality(made' \ used') + count[t]
    <3>1. IsFiniteSet(made' \ used') /\ IsFiniteSet(out_vec[t])
      BY <2>2, FrameSetFinite
    <3> QED  BY <2>2, <2>3, <3>1, DisjointCount
  <2>5. Cardinality(made' \ used') \in Nat
    BY <2>2, FrameSetFinite
  <2>6. free_frame_count' = free_frame_count - count[t] /\ total_frame_count' = total_frame_count
    OBVIOUS
  <2> HIDE DEF FetchSub, G
  <2> QED  BY <1>a, <1>b, <1>c, <2>1, <2>3, <2>4, <2>5, <2>6
<1>8. ASSUME NEW t \in Threads, ReleaseSpan(t) PROVE CounterAccounts'
  <2>1. PICK S \in SUBSET used : FreeFrame(t, S)
    BY <1>8 DEF ReleaseSpan
  <2> USE <2>1 DEF FreeFrame
  <2>2. /\ made' \ used' = G \cup S /\ G \cap S = {} /\ made' = made
        /\ G \in SUBSET Frames /\ S \in SUBSET Frames
    BY DEF FrameInv, FrameInOnePlace, TypeOK
  <2>3. Cardinality(made' \ used') = Cardinality(G) + Cardinality(S) /\ Cardinality(S) \in Nat
    <3>1. IsFiniteSet(G) /\ IsFiniteSet(S) /\ Cardinality(S) \in Nat
      BY <2>2, FrameSetFinite
    <3> QED  BY <2>2, <3>1, DisjointCount
  <2>4. /\ t \notin Uncounted /\ Uncounted' = Uncounted \cup {t} /\ Uncreated' = Uncreated
        /\ count'[t] = Cardinality(S) /\ \A u \in Uncounted : count'[u] = count[u]
    BY <1>0 DEF Uncounted, Uncreated
  <2>5. SumOver(count', Uncounted') = SumOver(count, Uncounted) + Cardinality(S)
    <3>1. SumOver(count', Uncounted') = SumOver(count', Uncounted) + Cardinality(S)
      BY <1>0, <1>c, <2>4, SumAdds
    <3>2. SumOver(count', Uncounted) = SumOver(count, Uncounted)
      BY <2>4, SumSame
    <3> QED  BY <3>1, <3>2
  <2>6. free_frame_count' = free_frame_count /\ total_frame_count' = total_frame_count
    OBVIOUS
  <2> HIDE <2>1 DEF FreeFrame, G
  <2> QED  BY <1>a, <1>b, <1>c, <2>2, <2>3, <2>4, <2>5, <2>6
<1>9. ASSUME NEW t \in Threads, FetchAdd(t) PROVE CounterAccounts'
  <2> USE <1>9 DEF FetchAdd
  <2>1. /\ t \notin Uncounted' /\ Uncounted = Uncounted' \cup {t} /\ Uncreated' = Uncreated
        /\ Uncounted' \in SUBSET Threads
        /\ made' = made /\ used' = used /\ count' = count
    BY <1>0 DEF Uncounted, Uncreated
  <2>2. SumOver(count, Uncounted) = SumOver(count, Uncounted') + count[t]
    BY <1>0, <2>1, SumAdds
  <2>3. SumOver(count, Uncounted') \in Nat /\ count[t] \in Nat
    BY <1>0, <2>1, PairsFinite
  <2>4. free_frame_count' = free_frame_count + count[t] /\ total_frame_count' = total_frame_count
    OBVIOUS
  <2>5. made' \ used' = G /\ made' = made /\ count' = count /\ Uncreated' = Uncreated
    BY <2>1
  <2> HIDE DEF FetchAdd, G
  <2>6. free_frame_count' = Cardinality(G) - SumOver(count, Uncounted')
    BY <1>a, <1>c, <2>2, <2>3, <2>4
  <2> QED  BY <1>a, <1>b, <2>4, <2>5, <2>6
<1> QED  BY <1>1, <1>2, <1>3, <1>4, <1>5, <1>6, <1>7, <1>8, <1>9 DEF Next

\* CountFreeFrame is off by exactly what the operations under way still have to
\* count, for any number of threads: with nobody inside, it is the number of
\* frames not in use.
THEOREM CounterExact == Spec => []CounterAccounts
<1>1. Init => CounterAccounts
  <2> SUFFICES ASSUME Init PROVE CounterAccounts
    OBVIOUS
  <2>1. /\ free_frames \cup Dequeued = {} /\ made = {}
        /\ {t \in Threads : pc[t] \in {"add", "total"}} = {}
        /\ {t \in Threads : pc[t] = "total"} = {}
    BY DEF Init, Dequeued
  <2>2. SumOver(count, {}) = 0
    <3>1. UNION {{t} \X (1..count[t]) : t \in {}} = {}
      OBVIOUS
    <3> QED  BY <3>1, FS_EmptySet DEF SumOver
  <2>3. /\ SumOver(count, {t \in Threads : pc[t] \in {"add", "total"}}) = 0
        /\ Cardinality(free_frames \cup Dequeued) = 0 /\ Cardinality(made) = 0
        /\ Cardinality({t \in Threads : pc[t] = "total"}) = 0
    BY <2>1, <2>2, FS_EmptySet
  <2>4. free_frame_count = 0 /\ total_frame_count = 0
    BY DEF Init
  <2> QED  BY <2>3, <2>4 DEF CounterAccounts
<1>2. FrameInv /\ FrameInv' /\ CounterAccounts /\ [Next]_vars => CounterAccounts'
  BY CounterStep
<1> QED  BY <1>1, <1>2, FrameInvariant, PTL DEF Spec

-----------------------------------------------------------------------------
(* Claims that come back empty.                                            *)

\* The claims under way.
Claimers == {u \in Threads : pc[u] \in Claiming}

\* A numbering of the frames each claim holds.
Numbered(h) ==
  \A u \in Threads : h[u] \in Bijection(out_vec[u], 1..Cardinality(out_vec[u]))

LEMMA NumberingExists ==
  ASSUME FrameInv
  PROVE  \E h : Numbered(h)
<1> DEFINE B(u) == Bijection(out_vec[u], 1..Cardinality(out_vec[u]))
           h == [u \in Threads |-> CHOOSE g : g \in B(u)]
<1>1. ASSUME NEW u \in Threads PROVE \E g : g \in B(u)
  <2>1. out_vec[u] \in SUBSET Frames
    BY DEF FrameInv, TypeOK
  <2>2. IsFiniteSet(out_vec[u])
    BY <2>1, FrameSetFinite
  <2>3. ExistsBijection(1..Cardinality(out_vec[u]), out_vec[u])
    BY <2>2, FS_CardinalityType
  <2>4. ExistsBijection(out_vec[u], 1..Cardinality(out_vec[u]))
    BY <2>3, Fun_ExistsBijSymmetric
  <2> QED  BY <2>4 DEF ExistsBijection
<1>2. \A u \in Threads : h[u] \in B(u)
  BY <1>1
<1> QED  BY <1>2 DEF Numbered

\* The claims under way hold less than they ask for together when one of them
\* lacks a frame.
LEMMA ClaimsHoldLess ==
  ASSUME FrameInv, NEW t \in Threads, pc[t] = "dequeue", Cardinality(out_vec[t]) < count[t]
  PROVE  /\ IsFiniteSet(Dequeued) /\ Cardinality(Dequeued) \in Nat
         /\ Cardinality(Dequeued) < SumOver(count, Claimers)
<1> DEFINE W == UNION {{u} \X (1..count[u]) : u \in Claimers}
           Owner(x) == CHOOSE u \in Threads : x \in out_vec[u]
<1>1. /\ out_vec \in [Threads -> SUBSET Frames] /\ count \in [Threads -> Nat]
      /\ Claimers \in SUBSET Threads
  BY DEF FrameInv, TypeOK, Claimers
<1>2. PICK h : Numbered(h)
  BY NumberingExists
<1> DEFINE f == [x \in Dequeued |-> <<Owner(x), h[Owner(x)][x]>>]
<1>3. \A x \in Dequeued : Owner(x) \in Threads /\ x \in out_vec[Owner(x)]
  BY DEF Dequeued
<1>4. \A u \in Threads : \A x \in out_vec[u] :
        u \in Claimers /\ h[u][x] \in 1..Cardinality(out_vec[u])
  <2> SUFFICES ASSUME NEW u \in Threads, NEW x \in out_vec[u]
               PROVE  u \in Claimers /\ h[u][x] \in 1..Cardinality(out_vec[u])
    OBVIOUS
  <2>1. u \in Claimers
    BY DEF FrameInv, HeldByClaims, Claimers
  <2>2. h[u] \in Bijection(out_vec[u], 1..Cardinality(out_vec[u]))
    BY <1>2 DEF Numbered
  <2> QED  BY <2>1, <2>2 DEF Bijection, Injection
<1>5. \A u \in Claimers : /\ Cardinality(out_vec[u]) \in Nat
                          /\ Cardinality(out_vec[u]) <= count[u]
  <2> SUFFICES ASSUME NEW u \in Claimers
               PROVE  /\ Cardinality(out_vec[u]) \in Nat
                      /\ Cardinality(out_vec[u]) <= count[u]
    OBVIOUS
  <2>1. u \in Threads /\ pc[u] \in {"dequeue", "putback", "sub"}
    BY DEF Claimers, Claiming
  <2>2. Cardinality(out_vec[u]) \in Nat
    BY <1>1, <2>1, FrameSetFinite
  <2> QED  BY <1>1, <2>1, <2>2 DEF FrameInv, HeldByClaims
<1> HIDE DEF Owner
<1>6. f \in Injection(Dequeued, W)
  <2>1. ASSUME NEW x \in Dequeued PROVE f[x] \in W
    <3>1. Owner(x) \in Claimers /\ h[Owner(x)][x] \in 1..Cardinality(out_vec[Owner(x)])
      BY <1>3, <1>4
    <3>2. h[Owner(x)][x] \in 1..count[Owner(x)]
      BY <1>1, <1>5, <3>1
    <3> QED  BY <3>1, <3>2
  <2>2. ASSUME NEW x \in Dequeued, NEW y \in Dequeued, f[x] = f[y] PROVE x = y
    <3>1. Owner(x) = Owner(y) /\ h[Owner(x)][x] = h[Owner(x)][y]
      BY <2>2
    <3>2. PICK u \in Threads : u = Owner(x) /\ x \in out_vec[u] /\ y \in out_vec[u]
      BY <1>3, <3>1
    <3>3. h[u] \in Bijection(out_vec[u], 1..Cardinality(out_vec[u]))
      BY <1>2 DEF Numbered
    <3> QED  BY <3>1, <3>2, <3>3 DEF Bijection, Injection, IsInjective
  <2>3. f \in [Dequeued -> W]
    BY <2>1
  <2> QED  BY <2>2, <2>3 DEF Injection, IsInjective
<1>7. f \notin Surjection(Dequeued, W)
  <2>1. t \in Claimers /\ Cardinality(out_vec[t]) \in Nat /\ count[t] \in Nat
    BY <1>1, <1>5 DEF Claimers, Claiming
  <2>2. <<t, count[t]>> \in W
    BY <2>1
  <2>3. ASSUME NEW x \in Dequeued, f[x] = <<t, count[t]>> PROVE FALSE
    <3>1. Owner(x) = t /\ h[t][x] = count[t]
      BY <2>3
    <3>2. h[t][x] \in 1..Cardinality(out_vec[t])
      BY <1>3, <1>4, <3>1
    <3> QED  BY <2>1, <3>1, <3>2
  <2> QED  BY <2>2, <2>3 DEF Surjection
<1>8. IsFiniteSet(W) /\ Cardinality(W) \in Nat
  BY <1>1, PairsFinite, FS_CardinalityType
<1> HIDE DEF f, W
<1>9. /\ IsFiniteSet(Dequeued) /\ Cardinality(Dequeued) <= Cardinality(W)
      /\ Cardinality(Dequeued) # Cardinality(W)
  BY <1>6, <1>7, <1>8, FS_Injection
<1>10. Cardinality(Dequeued) \in Nat
  BY <1>9, FS_CardinalityType
<1> QED  BY <1>8, <1>9, <1>10 DEF SumOver, W

\* The only step from dequeue to putback is that of a short claim.
LEMMA ShortStep ==
  ASSUME FrameInv, [Next]_vars, NEW t \in Threads, pc[t] = "dequeue", pc'[t] = "putback"
  PROVE  DequeueShort(t)
<1>0. pc \in [Threads -> PCs]
  BY DEF FrameInv, TypeOK
<1>1. CASE UNCHANGED vars
  BY <1>1 DEF vars, threadVars
<1>2. ASSUME NEW u \in Threads,
             \/ Grow(u) \/ CountTotal(u)
             \/ Claim(u) \/ TryDequeue(u) \/ DequeueDone(u)
             \/ EnqueueBulk(u) \/ FetchSub(u)
             \/ ReleaseSpan(u) \/ FetchAdd(u)
      PROVE  FALSE
  BY <1>0, <1>2 DEF Grow, CreateFrame, CountTotal, Claim, AllocFrame, TryDequeue, DequeueDone,
                    EnqueueBulk, FetchSub, ReleaseSpan, FreeFrame, FetchAdd, Go
<1>3. ASSUME NEW u \in Threads, DequeueShort(u) PROVE DequeueShort(t)
  BY <1>0, <1>3 DEF DequeueShort, Go
<1> QED  BY <1>1, <1>2, <1>3 DEF Next

\* A claim that overlooked nothing comes back empty only when there is too little
\* for the claims under way: the admission tests, which compare their sum with
\* the free frames, rule such a return out.
THEOREM ShortMeansScarce == Spec => ShortOnlyWhenScarce
<1> DEFINE A(t) == (pc[t] = "dequeue" /\ pc'[t] = "putback" /\ late[t] = {}) =>
                     Cardinality(used) + SumOver(count, {u \in Threads : pc[u] \in Claiming})
                       > Cardinality(made)
<1>1. ASSUME FrameInv, [Next]_vars, NEW t \in Threads PROVE A(t)
  <2> SUFFICES ASSUME pc[t] = "dequeue", pc'[t] = "putback", late[t] = {}
               PROVE  Cardinality(used) + SumOver(count, Claimers) > Cardinality(made)
    BY DEF Claimers
  <2>1. Cardinality(out_vec[t]) < count[t] /\ free_frames = {}
    BY <1>1, ShortStep DEF DequeueShort
  <2>2. /\ made = used \cup Dequeued /\ used \cap Dequeued = {} /\ used \in SUBSET Frames
    BY <1>1, <2>1 DEF FrameInv, TypeOK, FrameInOnePlace, Dequeued
  <2>3. /\ IsFiniteSet(Dequeued) /\ Cardinality(Dequeued) \in Nat
        /\ Cardinality(Dequeued) < SumOver(count, Claimers)
    BY <1>1, <2>1, ClaimsHoldLess
  <2>4. Cardinality(made) = Cardinality(used) + Cardinality(Dequeued)
    BY <2>2, <2>3, FrameSetFinite, DisjointCount
  <2>5. SumOver(count, Claimers) \in Nat /\ Cardinality(used) \in Nat
    BY <1>1, <2>2, PairsFinite, FrameSetFinite DEF FrameInv, TypeOK, Claimers
  <2> QED  BY <2>3, <2>4, <2>5
<1>2. FrameInv /\ [Next]_vars => [\A t \in Threads : A(t)]_vars
  BY <1>1
<1> QED  BY <1>2, FrameInvariant, PTL DEF Spec, ShortOnlyWhenScarce
=============================================================================
