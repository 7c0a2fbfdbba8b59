------------------------- MODULE ResultQueueProofs -------------------------
(* Proofs about ResultQueue, for any number of readers and tokens.         *)
EXTENDS ResultQueue, FiniteSetTheorems, TLAPS

USE DEF Terminal, Counted

\* Each variable of ResultQueueImpl, of the loop thread and of the readers keeps
\* its type; in particular get_user never becomes negative (UsersCounted).
LEMMA InitTypes == Init => TypeOK
<1> SUFFICES ASSUME Init PROVE TypeOK
  OBVIOUS
<1>1. store_queue \in Seq(Nat) /\ generate_length \in Nat /\ get_user \in Nat
  BY QueueAssumption DEF Init
<1>2. appended \in 0..MaxTokens
  BY QueueAssumption DEF Init
<1>3. rpc \in [Readers -> PCs] /\ op \in [Readers -> ReaderOps \cup {"none"}]
  BY DEF Init, PCs
<1>4. total_elements \in [Readers -> Seq(Nat)] /\ received \in [Readers -> Seq(Nat)]
  BY DEF Init
<1>5. outcome \in [Readers -> {"none", "closed", "end", "tokens", "timeout"}]
  BY DEF Init
<1> QED
  BY <1>1, <1>2, <1>3, <1>4, <1>5 DEF Init, TypeOK

LEMMA InitQueue == Init => QueueInv
<1> SUFFICES ASSUME Init PROVE QueueInv
  OBVIOUS
<1>1. {r \in Readers : rpc[r] \in Counted} = {}
  BY DEF Init
<1>2. UsersCounted
  BY <1>1, FS_EmptySet DEF Init, UsersCounted
<1> QED
  BY <1>2 DEF Init, QueueInv, CountedReadersSafe, EndMeansAll

\* The readers inside the spin loop of Get.
Users == {r \in Readers : rpc[r] \in Counted}

LEMMA UsersFinite == IsFiniteSet(Users)
BY QueueAssumption, FS_Subset DEF Users

\* A reader that enters the spin loop is one more, one that leaves it one less.
LEMMA UserEnters ==
  ASSUME NEW r \in Readers, rpc \in [Readers -> PCs], rpc[r] \notin Counted,
         NEW pc \in Counted, rpc' = [rpc EXCEPT ![r] = pc]
  PROVE  Cardinality(Users') = Cardinality(Users) + 1
<1>1. Users' = Users \cup {r} /\ r \notin Users
  BY DEF Users
<1> QED
  BY <1>1, UsersFinite, FS_AddElement

LEMMA UserLeaves ==
  ASSUME NEW r \in Readers, rpc \in [Readers -> PCs], rpc[r] \in Counted,
         NEW pc, pc \notin Counted, rpc' = [rpc EXCEPT ![r] = pc]
  PROVE  Cardinality(Users') = Cardinality(Users) - 1 /\ Cardinality(Users) \in Nat \ {0}
<1>1. Users' = Users \ {r} /\ r \in Users
  BY DEF Users
<1>2. Cardinality(Users) # 0
  BY <1>1, UsersFinite, FS_EmptySet
<1> QED
  BY <1>1, <1>2, UsersFinite, FS_RemoveElement, FS_CardinalityType

\* Moves inside the spin loop, or outside it, do not change the number.
LEMMA UserStays ==
  ASSUME NEW r \in Readers, rpc \in [Readers -> PCs], NEW pc,
         rpc[r] \in Counted <=> pc \in Counted, rpc' = [rpc EXCEPT ![r] = pc]
  PROVE  Users' = Users
BY DEF Users

-----------------------------------------------------------------------------
(* Steps of the loop thread.                                               *)

LEMMA WriterStep ==
  ASSUME TypeOK, QueueInv, Writer
  PROVE  TypeOK' /\ QueueInv'
<1> USE DEF TypeOK, QueueInv, UsersCounted, CountedReadersSafe, EndMeansAll,
            queueVars, writerVars, readerVars
<1>1. CASE SetGenerating
  BY <1>1 DEF SetGenerating
<1>2. CASE AppendCount
  BY <1>2 DEF AppendCount
<1>3. CASE AppendEnqueue
  <2>1. appended' \in 0..MaxTokens
    BY <1>3, QueueAssumption DEF AppendEnqueue
  <2> QED
    BY <1>3, <2>1 DEF AppendEnqueue
<1>4. CASE SetTerminal
  BY <1>4 DEF SetTerminal
<1>5. CASE DestroyClose
  BY <1>5 DEF DestroyClose
<1>6. CASE DestroyWait
  <2>1. Users = {}
    BY <1>6, UsersFinite, FS_EmptySet DEF DestroyWait, Users
  <2> QED
    BY <1>6, <2>1 DEF DestroyWait, Users
<1>7. CASE DestroyGiveUp
  <2>1. Users # {}
    <3>1. Cardinality(Users) > 0
      BY <1>7 DEF DestroyGiveUp, Users
    <3> QED
      BY ONLY <3>1, FS_EmptySet
  <2>2. UNCHANGED <<queueVars, appended, readerVars>> /\ wpc' = "late"
    BY <1>7 DEF DestroyGiveUp
  <2>3. \E r \in Readers : rpc'[r] \in Counted
    BY <2>1, <2>2 DEF Users
  <2>4. TypeOK'
    BY <2>2
  <2>5. UsersCounted' /\ EndMeansAll'
    BY <2>2
  <2>6. CountedReadersSafe'
    BY ONLY <2>2, <2>3 DEF CountedReadersSafe, Counted
  <2> QED
    BY <2>2, <2>4, <2>5, <2>6
<1> QED
  BY <1>1, <1>2, <1>3, <1>4, <1>5, <1>6, <1>7 DEF Writer

-----------------------------------------------------------------------------
(* Steps of the readers: types first, then the invariant.                  *)

\* A reader takes tokens out of the queue and hands them on.
LEMMA TakeTypes ==
  ASSUME TypeOK, NEW r \in Readers, Take(r)
  PROVE  /\ store_queue' \in Seq(Nat) /\ total_elements' \in [Readers -> Seq(Nat)]
         /\ UNCHANGED <<get_user, received, outcome, status, generate_length, closed,
                       appended, wpc, op>>
<1>1. Head(store_queue) \in Nat /\ Tail(store_queue) \in Seq(Nat)
  BY DEF TypeOK, Take
<1>2. Append(total_elements[r], Head(store_queue)) \in Seq(Nat)
  BY <1>1 DEF TypeOK
<1> QED
  BY <1>1, <1>2 DEF TypeOK, Take, readFrame, writerVars

LEMMA ReturnTypes ==
  ASSUME TypeOK, NEW r \in Readers, NEW ids \in Seq(Nat),
         NEW how \in {"closed", "end", "tokens", "timeout"}, Return(r, how, ids)
  PROVE  /\ rpc' \in [Readers -> PCs]
         /\ received' \in [Readers -> Seq(Nat)] /\ total_elements' \in [Readers -> Seq(Nat)]
         /\ outcome' \in [Readers -> {"none", "closed", "end", "tokens", "timeout"}]
<1>1. received[r] \o ids \in Seq(Nat)
  BY DEF TypeOK
<1>2. rpc' \in [Readers -> PCs]
  BY DEF TypeOK, Return, Go, PCs
<1>3. received' \in [Readers -> Seq(Nat)]
  BY <1>1 DEF TypeOK, Return
<1>4. total_elements' \in [Readers -> Seq(Nat)]
  BY DEF TypeOK, Return
<1>5. outcome' \in [Readers -> {"none", "closed", "end", "tokens", "timeout"}]
  BY DEF TypeOK, Return
<1> QED
  BY <1>2, <1>3, <1>4, <1>5

LEMMA GoTypes ==
  ASSUME TypeOK, NEW r \in Readers, NEW pc \in PCs, Go(r, pc)
  PROVE  rpc' \in [Readers -> PCs]
BY DEF TypeOK, Go

LEMMA ReaderTypes ==
  ASSUME TypeOK, UsersCounted, NEW r \in Readers,
         ReaderStep(r) \/ \E o \in ReaderOps : Call(r, o)
  PROVE  TypeOK'
<1> rpc \in [Readers -> PCs] /\ total_elements[r] \in Seq(Nat) /\ <<>> \in Seq(Nat)
  BY DEF TypeOK
<1> /\ "loop" \in PCs /\ "dequeue" \in PCs /\ "drain" \in PCs /\ "status" \in PCs
    /\ "final" \in PCs /\ "poll" \in PCs /\ "pollq" \in PCs /\ "enter" \in PCs
  BY DEF PCs
<1> USE DEF readFrame, queueVars, writerVars
<1>0. ASSUME rpc[r] \in Counted, NEW pc, pc \notin Counted, Go(r, pc)
      PROVE  get_user - 1 \in Nat
  <2>1. Cardinality(Users) \in Nat \ {0}
    BY <1>0, UserLeaves DEF Go
  <2> QED
    BY <2>1 DEF UsersCounted, Users
<1>1. CASE \E o \in ReaderOps : Call(r, o)
  <2> PICK o \in ReaderOps : Call(r, o)
    BY <1>1
  <2>1. rpc' \in [Readers -> PCs]
    BY GoTypes DEF Call
  <2>2. op' \in [Readers -> ReaderOps \cup {"none"}]
    BY DEF Call, TypeOK
  <2>3. total_elements' \in [Readers -> Seq(Nat)]
    BY DEF Call, TypeOK
  <2> QED
    BY <2>1, <2>2, <2>3 DEF Call, TypeOK
<1>2. CASE Enter(r)
  BY <1>2, GoTypes DEF Enter, TypeOK
<1>3. CASE LoopTop(r)
  <2>1. CASE closed
    <3>1. get_user' \in Nat
      BY <1>3, <2>1, <1>0 DEF LoopTop, Return, At
    <3> QED
      BY <1>3, <2>1, <3>1, ReturnTypes DEF LoopTop, TypeOK
  <2>2. CASE ~closed
    BY <1>3, <2>2, GoTypes DEF LoopTop, TypeOK
  <2> QED
    BY <2>1, <2>2
<1>4. CASE Dequeue(r)
  BY <1>4, TakeTypes, GoTypes DEF Dequeue, TypeOK
<1>5. CASE Drain(r)
  BY <1>5, TakeTypes, GoTypes DEF Drain, TypeOK
<1>6. CASE StatusTerminal(r)
  <2>1. get_user' \in Nat
    BY <1>6, <1>0 DEF StatusTerminal, At
  <2> QED
    BY <1>6, <2>1, GoTypes DEF StatusTerminal, TypeOK
<1>7. CASE FinalDrain(r)
  BY <1>7, TakeTypes, ReturnTypes DEF FinalDrain, TypeOK
<1>8. CASE StatusTokens(r)
  <2>1. get_user' \in Nat
    BY <1>8, <1>0 DEF StatusTokens, Return, At
  <2> QED
    BY <1>8, <2>1, ReturnTypes DEF StatusTokens, TypeOK
<1>9. CASE StatusTimeout(r)
  <2>1. get_user' \in Nat
    BY <1>9, <1>0 DEF StatusTimeout, Return, At
  <2> QED
    BY <1>9, <2>1, ReturnTypes DEF StatusTimeout, TypeOK
<1>10. CASE StatusSpin(r)
  BY <1>10, GoTypes DEF StatusSpin, TypeOK
<1>11. CASE PollTop(r)
  BY <1>11, GoTypes, ReturnTypes DEF PollTop, TypeOK
<1>12. CASE PollDequeue(r)
  BY <1>12, TakeTypes, GoTypes, ReturnTypes DEF PollDequeue, TypeOK
<1> QED
  BY <1>1, <1>2, <1>3, <1>4, <1>5, <1>6, <1>7, <1>8, <1>9, <1>10, <1>11, <1>12
     DEF ReaderStep

\* Every reader step keeps get_user equal to the number of users.
LEMMA ReaderCounts ==
  ASSUME TypeOK, UsersCounted, NEW r \in Readers,
         ReaderStep(r) \/ \E o \in ReaderOps : Call(r, o)
  PROVE  UsersCounted'
<1> rpc \in [Readers -> PCs]
  BY DEF TypeOK
<1> SUFFICES get_user' = Cardinality(Users')
  BY DEF UsersCounted, Users
<1>0. get_user = Cardinality(Users)
  BY DEF UsersCounted, Users
<1> USE DEF At, Go, readFrame, queueVars, writerVars, Return
<1>1. CASE \E o \in ReaderOps : Call(r, o)
  BY <1>0, <1>1, UserStays DEF Call
<1>2. CASE Enter(r)
  BY <1>0, <1>2, UserEnters DEF Enter
<1>3. CASE LoopTop(r)
  <2>1. CASE closed
    BY <1>0, <1>3, <2>1, UserLeaves DEF LoopTop
  <2>2. CASE ~closed
    BY <1>0, <1>3, <2>2, UserStays DEF LoopTop
  <2> QED
    BY <2>1, <2>2
<1>4. CASE Dequeue(r)
  BY <1>0, <1>4, UserStays DEF Dequeue, Take
<1>5. CASE Drain(r)
  <2>1. CASE UNCHANGED <<rpc, get_user>>
    BY <1>0, <2>1 DEF Users
  <2>2. CASE get_user' = get_user /\ Go(r, "loop")
    BY <1>0, <1>5, <2>2, UserStays DEF Drain
  <2> QED
    BY <1>5, <2>1, <2>2 DEF Drain, Take
<1>6. CASE StatusTerminal(r)
  BY <1>0, <1>6, UserLeaves DEF StatusTerminal
<1>7. CASE FinalDrain(r)
  <2>1. CASE UNCHANGED <<rpc, get_user>>
    BY <1>0, <2>1 DEF Users
  <2>2. CASE get_user' = get_user /\ Go(r, "idle")
    BY <1>0, <1>7, <2>2, UserStays DEF FinalDrain
  <2> QED
    BY <1>7, <2>1, <2>2 DEF FinalDrain, Take
<1>8. CASE StatusTokens(r)
  BY <1>0, <1>8, UserLeaves DEF StatusTokens
<1>9. CASE StatusTimeout(r)
  BY <1>0, <1>9, UserLeaves DEF StatusTimeout
<1>10. CASE StatusSpin(r)
  BY <1>0, <1>10, UserStays DEF StatusSpin
<1>11. CASE PollTop(r)
  <2>1. CASE closed
    BY <1>0, <1>11, <2>1, UserStays DEF PollTop
  <2>2. CASE ~closed
    BY <1>0, <1>11, <2>2, UserStays DEF PollTop
  <2> QED
    BY <2>1, <2>2
<1>12. CASE PollDequeue(r)
  BY <1>0, <1>12, UserStays DEF PollDequeue, Take
<1> QED
  BY <1>1, <1>2, <1>3, <1>4, <1>5, <1>6, <1>7, <1>8, <1>9, <1>10, <1>11, <1>12
     DEF ReaderStep

\* Readers step only while the queue exists, never add a token, and report the
\* end only out of a last drain that found the queue empty.
LEMMA ReaderKeeps ==
  ASSUME TypeOK, QueueInv, NEW r \in Readers,
         ReaderStep(r) \/ \E o \in ReaderOps : Call(r, o)
  PROVE  QueueInv'
<1>1. UsersCounted'
  BY ReaderCounts DEF QueueInv
<1>2. wpc \notin {"gone", "late"} /\ UNCHANGED <<status, wpc, appended>>
  BY DEF ReaderStep, Call, Enter, LoopTop, Dequeue, Drain, StatusTerminal,
         FinalDrain, StatusTokens, StatusTimeout, StatusSpin, PollTop,
         PollDequeue, Take, At, readFrame, queueVars, writerVars
<1>3. store_queue = <<>> => store_queue' = <<>>
  BY DEF ReaderStep, Call, Enter, LoopTop, Dequeue, Drain, StatusTerminal,
         FinalDrain, StatusTokens, StatusTimeout, StatusSpin, PollTop,
         PollDequeue, Take, readFrame, queueVars, writerVars
<1>4. ASSUME NEW q \in Readers, rpc'[q] = "final"
      PROVE  status \in Terminal
  BY <1>4 DEF ReaderStep, Call, Enter, LoopTop, Dequeue, Drain, StatusTerminal,
         FinalDrain, StatusTokens, StatusTimeout, StatusSpin, PollTop,
         PollDequeue, Take, At, Go, Return, TypeOK, QueueInv
<1>5. ASSUME NEW q \in Readers, outcome'[q] = "end", outcome[q] # "end"
      PROVE  status \in Terminal /\ store_queue' = <<>>
  BY <1>5 DEF ReaderStep, Call, Enter, LoopTop, Dequeue, Drain, StatusTerminal,
         FinalDrain, StatusTokens, StatusTimeout, StatusSpin, PollTop,
         PollDequeue, Take, At, Go, Return, TypeOK, QueueInv
<1>6. EndMeansAll'
  BY <1>2, <1>3, <1>5 DEF EndMeansAll, QueueInv
<1> QED
  BY <1>1, <1>2, <1>4, <1>6 DEF QueueInv, CountedReadersSafe

\* The inductive invariant holds in every reachable state.
THEOREM QueueInvariant == Spec => [](TypeOK /\ QueueInv)
<1>1. Init => TypeOK /\ QueueInv
  BY InitTypes, InitQueue
<1>2. TypeOK /\ QueueInv /\ [Next]_vars => (TypeOK /\ QueueInv)'
  <2> SUFFICES ASSUME TypeOK, QueueInv, [Next]_vars PROVE TypeOK' /\ QueueInv'
    OBVIOUS
  <2>1. CASE Writer
    BY <2>1, WriterStep
  <2>2. ASSUME NEW r \in Readers, ReaderStep(r) \/ \E o \in ReaderOps : Call(r, o)
        PROVE  TypeOK' /\ QueueInv'
    BY <2>2, ReaderTypes, ReaderKeeps DEF QueueInv
  <2>3. CASE UNCHANGED vars
    BY <2>3 DEF vars, queueVars, writerVars, readerVars, TypeOK, QueueInv,
                UsersCounted, CountedReadersSafe, EndMeansAll
  <2> QED
    BY <2>1, <2>2, <2>3 DEF Next
<1> QED
  BY <1>1, <1>2, PTL DEF Spec

\* get_user is exactly the number of readers in the spin loop of Get, on all of the
\* ways in and out of it.
THEOREM UsersExact == Spec => []UsersCounted
BY QueueInvariant, PTL DEF QueueInv

\* A Get that reports the end of the request has left no token behind, however
\* many readers race with the loop thread.
THEOREM EndLeavesNothing == Spec => []EndMeansAll
BY QueueInvariant, PTL DEF QueueInv

\* For any number of readers, the destructor ends under a reader in the spin loop
\* of Get only by giving up after its second, and then one really is there: the
\* counter get_user it waits on misses no reader and counts none that has left.
THEOREM SpinningReadersSafe == Spec => []CountedReadersSafe
BY QueueInvariant, PTL DEF QueueInv

-----------------------------------------------------------------------------
(* Tokens.                                                                 *)

\* A larger token at the end of an ordered sequence.
LEMMA AppendOrdered ==
  ASSUME NEW s \in Seq(Nat), NEW x \in Nat
  PROVE  /\ Elements(Append(s, x)) = Elements(s) \cup {x}
         /\ Increasing(s) /\ (\A y \in Elements(s) : y < x) => Increasing(Append(s, x))
<1> DEFINE a == Append(s, x)
<1>1. /\ Len(s) \in Nat /\ Len(a) = Len(s) + 1 /\ a[Len(s) + 1] = x
      /\ \A i \in 1..Len(s) : a[i] = s[i]
  OBVIOUS
<1>2. 1..Len(a) = (1..Len(s)) \cup {Len(s) + 1}
  BY <1>1
<1> HIDE DEF a
<1>3. Elements(a) = Elements(s) \cup {x}
  <2>1. \A i \in 1..Len(a) : a[i] \in Elements(s) \cup {x}
    BY ONLY <1>1, <1>2 DEF Elements
  <2>2. \A y \in Elements(s) : y \in Elements(a)
    BY ONLY <1>1, <1>2 DEF Elements
  <2>3. x \in Elements(a)
    BY ONLY <1>1, <1>2 DEF Elements
  <2> QED
    BY ONLY <2>1, <2>2, <2>3 DEF Elements
<1>4. ASSUME Increasing(s), \A y \in Elements(s) : y < x PROVE Increasing(a)
  <2> SUFFICES ASSUME NEW i \in 1..Len(a), NEW j \in 1..Len(a), i < j PROVE a[i] < a[j]
    BY DEF Increasing
  <2>1. i \in 1..Len(s)
    BY <1>1
  <2>2. CASE j \in 1..Len(s)
    BY <1>1, <1>4, <2>1, <2>2 DEF Increasing
  <2>3. CASE j = Len(s) + 1
    BY <1>1, <1>4, <2>1, <2>3 DEF Elements
  <2> QED
    BY <1>2, <2>2, <2>3
<1> QED
  BY <1>3, <1>4 DEF a

\* Taking the first token off an ordered sequence.
LEMMA TailOrdered ==
  ASSUME NEW s \in Seq(Nat), s # <<>>, Increasing(s)
  PROVE  /\ Head(s) \in Nat /\ Tail(s) \in Seq(Nat) /\ Increasing(Tail(s))
         /\ Elements(s) = Elements(Tail(s)) \cup {Head(s)}
         /\ \A y \in Elements(Tail(s)) : Head(s) < y
<1> DEFINE t == Tail(s)
<1>1. /\ Len(s) \in Nat \ {0} /\ Len(t) = Len(s) - 1 /\ Head(s) = s[1] /\ t \in Seq(Nat)
      /\ Head(s) \in Nat
  OBVIOUS
<1>2. \A i \in 1..Len(t) : i + 1 \in 1..Len(s) /\ t[i] = s[i + 1]
  BY <1>1
<1>3. \A i \in 1..Len(s) : i = 1 \/ (i - 1 \in 1..Len(t) /\ s[i] = t[i - 1])
  BY <1>1
<1> HIDE DEF t
<1>4. Increasing(t)
  <2> SUFFICES ASSUME NEW i \in 1..Len(t), NEW j \in 1..Len(t), i < j PROVE t[i] < t[j]
    BY DEF Increasing
  <2>1. /\ i + 1 \in 1..Len(s) /\ j + 1 \in 1..Len(s) /\ i + 1 < j + 1
        /\ t[i] = s[i + 1] /\ t[j] = s[j + 1]
    BY <1>1, <1>2
  <2> QED
    BY <2>1 DEF Increasing
<1>5. Elements(s) = Elements(t) \cup {Head(s)}
  <2>1. 1 \in 1..Len(s)
    BY <1>1
  <2>2. ASSUME NEW y \in Elements(s) PROVE y \in Elements(t) \cup {Head(s)}
    BY <1>1, <1>3 DEF Elements
  <2>3. ASSUME NEW y \in Elements(t) PROVE y \in Elements(s)
    BY <1>2 DEF Elements
  <2>4. Head(s) \in Elements(s)
    BY <1>1, <2>1 DEF Elements
  <2> QED
    BY <2>2, <2>3, <2>4
<1>6. ASSUME NEW y \in Elements(t) PROVE Head(s) < y
  <2>1. PICK i \in 1..Len(t) : y = t[i]
    BY DEF Elements
  <2>2. i + 1 \in 1..Len(s) /\ y = s[i + 1] /\ 1 \in 1..Len(s) /\ 1 < i + 1
    BY <1>1, <1>2, <2>1
  <2> QED
    BY <1>1, <2>2 DEF Increasing
<1> QED
  BY <1>1, <1>4, <1>5, <1>6 DEF t

\* Handing the tokens of a call to the caller does not change the stream, and
\* the next token comes after all of them.
LEMMA StreamParts ==
  ASSUME NEW s \in Seq(Nat), NEW u \in Seq(Nat), NEW x \in Nat
  PROVE  /\ s \o u \in Seq(Nat) /\ (s \o u) \o <<>> = s \o u
         /\ s \o Append(u, x) = Append(s \o u, x)
OBVIOUS

\* A reader's step leaves the tokens where they are, or moves the first queued
\* one to the end of its own stream.
StreamsStay == store_queue' = store_queue /\ \A q \in Readers : Stream(q)' = Stream(q)
StreamTakes(r) ==
  /\ store_queue # <<>> /\ store_queue' = Tail(store_queue)
  /\ \A q \in Readers : Stream(q)' = IF q = r THEN Append(Stream(q), Head(store_queue))
                                              ELSE Stream(q)

LEMMA TakeStream ==
  ASSUME TypeOK, NEW r \in Readers, Take(r)
  PROVE  StreamTakes(r)
<1>1. Head(store_queue) \in Nat
  BY DEF TypeOK, Take
<1>2. \A q \in Readers : received[q] \in Seq(Nat) /\ total_elements[q] \in Seq(Nat)
  BY DEF TypeOK
<1>3. received[r] \o Append(total_elements[r], Head(store_queue))
        = Append(received[r] \o total_elements[r], Head(store_queue))
  BY <1>1, <1>2, StreamParts
<1>4. /\ received' = received
      /\ \A q \in Readers : total_elements'[q] =
           IF q = r THEN Append(total_elements[r], Head(store_queue)) ELSE total_elements[q]
  BY DEF TypeOK, Take
<1>5. store_queue # <<>> /\ store_queue' = Tail(store_queue)
  BY DEF Take
<1>6. Stream(r)' = Append(Stream(r), Head(store_queue))
  BY <1>3, <1>4 DEF Stream
<1>7. \A q \in Readers : q # r => Stream(q)' = Stream(q)
  BY <1>4 DEF Stream
<1> QED
  BY <1>5, <1>6, <1>7 DEF StreamTakes

LEMMA ReturnStream ==
  ASSUME TypeOK, NEW r \in Readers, NEW how, Return(r, how, total_elements[r])
  PROVE  \A q \in Readers : Stream(q)' = Stream(q)
<1>1. \A q \in Readers : received[q] \in Seq(Nat) /\ total_elements[q] \in Seq(Nat)
  BY DEF TypeOK
<1>2. (received[r] \o total_elements[r]) \o <<>> = received[r] \o total_elements[r]
  BY <1>1, StreamParts
<1>3. \A q \in Readers :
        /\ received'[q] = IF q = r THEN received[r] \o total_elements[r] ELSE received[q]
        /\ total_elements'[q] = IF q = r THEN <<>> ELSE total_elements[q]
  BY DEF TypeOK, Return
<1> QED
  BY <1>2, <1>3 DEF Stream

LEMMA ReaderStreams ==
  ASSUME TypeOK, TokenInv, NEW r \in Readers,
         ReaderStep(r) \/ \E o \in ReaderOps : Call(r, o)
  PROVE  /\ StreamsStay \/ StreamTakes(r)
         /\ appended' = appended
         /\ \A q \in Readers : rpc'[q] = "idle" => total_elements'[q] = <<>>
<1> USE DEF readFrame, queueVars, writerVars
<1>0. /\ rpc \in [Readers -> PCs] /\ total_elements \in [Readers -> Seq(Nat)]
      /\ received \in [Readers -> Seq(Nat)]
      /\ \A q \in Readers : rpc[q] = "idle" => total_elements[q] = <<>>
  BY DEF TypeOK, TokenInv
<1>1. ASSUME UNCHANGED <<store_queue, received, total_elements>> PROVE StreamsStay
  BY <1>1 DEF StreamsStay, Stream
<1>2. ASSUME NEW pc, pc # "idle", Go(r, pc), UNCHANGED total_elements
      PROVE  \A q \in Readers : rpc'[q] = "idle" => total_elements'[q] = <<>>
  BY <1>0, <1>2 DEF Go
<1>3. ASSUME NEW how, NEW ids, Return(r, how, ids)
      PROVE  \A q \in Readers : rpc'[q] = "idle" => total_elements'[q] = <<>>
  BY <1>0, <1>3 DEF Return, Go
<1>4. ASSUME Take(r), rpc[r] # "idle", (\E pc \in PCs \ {"idle"} : Go(r, pc)) \/ UNCHANGED rpc
      PROVE  \A q \in Readers : rpc'[q] = "idle" => total_elements'[q] = <<>>
  BY <1>0, <1>4 DEF Go, Take
<1>5. CASE \E o \in ReaderOps : Call(r, o)
  <2> PICK o \in ReaderOps : Call(r, o)
    BY <1>5
  <2>1. total_elements' = total_elements /\ UNCHANGED <<store_queue, received, appended>>
    BY <1>0 DEF Call, At
  <2> QED
    BY <1>1, <1>2, <2>1 DEF Call
<1>6. CASE Enter(r) \/ StatusTerminal(r) \/ StatusSpin(r)
  BY <1>1, <1>2, <1>6 DEF Enter, StatusTerminal, StatusSpin
<1>7. CASE LoopTop(r) \/ PollTop(r)
  <2>1. CASE closed
    BY <1>3, <1>7, <2>1, ReturnStream DEF LoopTop, PollTop, StreamsStay
  <2>2. CASE ~closed
    BY <1>1, <1>2, <1>7, <2>2 DEF LoopTop, PollTop
  <2> QED
    BY <2>1, <2>2
<1>8. CASE Dequeue(r) \/ Drain(r) \/ FinalDrain(r) \/ PollDequeue(r)
  <2>1. CASE Take(r)
    <3>1. rpc[r] # "idle"
      BY <1>8 DEF Dequeue, Drain, FinalDrain, PollDequeue, At
    <3>2. (\E pc \in PCs \ {"idle"} : Go(r, pc)) \/ UNCHANGED rpc
      BY <1>8, <2>1 DEF Dequeue, Drain, FinalDrain, PollDequeue, Take, PCs
    <3> QED
      BY <1>4, <2>1, <3>1, <3>2, TakeStream DEF Take
  <2>2. CASE store_queue = <<>>
    BY <1>1, <1>2, <1>3, <1>8, <2>2, ReturnStream
       DEF Dequeue, Drain, FinalDrain, PollDequeue, StreamsStay, Take
  <2> QED
    BY <1>8, <2>1, <2>2 DEF Dequeue, Drain, FinalDrain, PollDequeue
<1>9. CASE StatusTokens(r)
  BY <1>3, <1>9, ReturnStream DEF StatusTokens, StreamsStay
<1>10. CASE StatusTimeout(r)
  BY <1>3, <1>10, ReturnStream DEF StatusTimeout, StreamsStay
<1> QED
  BY <1>5, <1>6, <1>7, <1>8, <1>9, <1>10 DEF ReaderStep

\* What the loop thread does to the tokens: AppendEnqueue adds the next one.
LEMMA WriterStreams ==
  ASSUME TypeOK, TokenInv, Writer
  PROVE  /\ \A q \in Readers : Stream(q)' = Stream(q)
         /\ \A q \in Readers : rpc'[q] = "idle" => total_elements'[q] = <<>>
         /\ \/ UNCHANGED <<store_queue, appended>>
            \/ /\ store_queue' = Append(store_queue, appended + 1)
               /\ appended' = appended + 1
<1>1. UNCHANGED readerVars
  BY DEF Writer, SetGenerating, AppendCount, AppendEnqueue, SetTerminal, DestroyClose,
         DestroyWait, DestroyGiveUp
<1>2. \/ UNCHANGED <<store_queue, appended>>
      \/ /\ store_queue' = Append(store_queue, appended + 1)
         /\ appended' = appended + 1
  BY DEF Writer, SetGenerating, AppendCount, AppendEnqueue, SetTerminal, DestroyClose,
         DestroyWait, DestroyGiveUp, queueVars, writerVars
<1> QED
  BY <1>1, <1>2 DEF readerVars, Stream, TokenInv

LEMMA TokenStay ==
  ASSUME TokenInv, StreamsStay, appended' = appended,
         \A q \in Readers : rpc'[q] = "idle" => total_elements'[q] = <<>>
  PROVE  TokenInv'
<1>1. /\ Elements(store_queue)' = Elements(store_queue)
      /\ Increasing(store_queue)' <=> Increasing(store_queue)
  BY DEF StreamsStay, Elements, Increasing
<1>2. \A q \in Readers : /\ Elements(Stream(q))' = Elements(Stream(q))
                         /\ Increasing(Stream(q))' <=> Increasing(Stream(q))
  BY DEF StreamsStay, Elements, Increasing
<1>3. (UNION {Elements(Stream(q)) : q \in Readers})' = UNION {Elements(Stream(q)) : q \in Readers}
  BY <1>2
<1>4. ReadOnce'
  BY <1>1, <1>2, <1>3 DEF TokenInv, ReadOnce
<1> QED
  BY <1>1, <1>2, <1>4 DEF TokenInv

\* A token moves from the queue to the reader that takes it.
LEMMA TokenTake ==
  ASSUME TypeOK, TokenInv, NEW r \in Readers, StreamTakes(r), appended' = appended,
         \A q \in Readers : rpc'[q] = "idle" => total_elements'[q] = <<>>
  PROVE  TokenInv'
<1> DEFINE x == Head(store_queue)
<1>1. /\ store_queue \in Seq(Nat) /\ Increasing(store_queue) /\ store_queue # <<>>
      /\ store_queue' = Tail(store_queue)
  BY DEF TypeOK, TokenInv, ReadOnce, StreamTakes
<1>2. /\ x \in Nat /\ Increasing(store_queue')
      /\ Elements(store_queue) = Elements(store_queue') \cup {x}
      /\ \A y \in Elements(store_queue') : x < y
  BY <1>1, TailOrdered
<1>3. /\ Stream(r) \in Seq(Nat) /\ Increasing(Stream(r)) /\ Stream(r)' = Append(Stream(r), x)
      /\ \A y \in Elements(Stream(r)) : y < x
  <2>1. Stream(r) \in Seq(Nat)
    BY DEF TypeOK, Stream
  <2> QED
    BY <1>2, <2>1 DEF TokenInv, ReadOnce, StreamTakes
<1>4. Elements(Stream(r)') = Elements(Stream(r)) \cup {x} /\ Increasing(Stream(r)')
  BY <1>2, <1>3, AppendOrdered
<1>5. \A q \in Readers : q # r => Stream(q)' = Stream(q)
  BY DEF StreamTakes
<1> HIDE DEF x
<1>6. x \notin Elements(store_queue')
  <2>1. SUFFICES ASSUME x \in Elements(store_queue') PROVE FALSE
    OBVIOUS
  <2>2. x < x
    BY <1>2, <2>1
  <2> QED
    BY <1>2, <2>2
<1>7. \A q \in Readers : Increasing(Stream(q)')
  BY <1>4, <1>5 DEF TokenInv, ReadOnce
<1>8. Elements(store_queue') \cup UNION {Elements(Stream(q)') : q \in Readers} = 1..appended'
  <2> DEFINE T == UNION {Elements(Stream(q)) : q \in Readers}
  <2>1. UNION {Elements(Stream(q)') : q \in Readers} = T \cup {x}
    BY <1>4, <1>5
  <2>2. Elements(store_queue) \cup T = 1..appended
    BY DEF TokenInv, ReadOnce
  <2> HIDE DEF T
  <2> QED
    BY <1>2, <2>1, <2>2
<1>9. \A q \in Readers : Elements(store_queue') \cap Elements(Stream(q)') = {}
  BY <1>2, <1>4, <1>5, <1>6 DEF TokenInv, ReadOnce
<1>10. ASSUME NEW q \in Readers, NEW s \in Readers \ {q}
       PROVE  Elements(Stream(q)') \cap Elements(Stream(s)') = {}
  <2>1. Elements(Stream(q)) \cap Elements(Stream(s)) = {}
    BY DEF TokenInv, ReadOnce
  <2>2. x \notin Elements(Stream(q)) /\ x \notin Elements(Stream(s))
    BY <1>2 DEF TokenInv, ReadOnce
  <2> QED
    BY <1>4, <1>5, <2>1, <2>2
<1>11. ASSUME NEW q \in Readers, NEW y \in Elements(Stream(q)'), NEW z \in Elements(store_queue')
       PROVE  y < z
  <2>1. CASE q = r /\ y = x
    BY <1>2, <2>1
  <2>2. CASE y \in Elements(Stream(q))
    BY <1>2, <2>2 DEF TokenInv
  <2> QED
    BY <1>4, <1>5, <2>1, <2>2
<1>12. ReadOnce'
  BY <1>2, <1>7, <1>8, <1>9, <1>10 DEF ReadOnce, Elements, Increasing
<1> QED
  BY <1>11, <1>12 DEF TokenInv, Elements

\* The next token is larger than all others, wherever they are.
LEMMA TokenAppend ==
  ASSUME TypeOK, TokenInv, store_queue' = Append(store_queue, appended + 1),
         appended' = appended + 1, \A q \in Readers : Stream(q)' = Stream(q),
         \A q \in Readers : rpc'[q] = "idle" => total_elements'[q] = <<>>
  PROVE  TokenInv'
<1> DEFINE x == appended + 1
           T == UNION {Elements(Stream(q)) : q \in Readers}
<1>1. appended \in Nat /\ x \in Nat /\ store_queue \in Seq(Nat)
  BY QueueAssumption DEF TypeOK
<1>2. Elements(store_queue) \cup T = 1..appended
  BY DEF TokenInv, ReadOnce
<1>3. \A y \in Elements(store_queue) \cup T : y < x
  BY <1>1, <1>2
<1>4. /\ Elements(store_queue') = Elements(store_queue) \cup {x}
      /\ Increasing(store_queue')
  BY <1>1, <1>3, AppendOrdered DEF TokenInv, ReadOnce
<1>5. /\ Elements(store_queue)' = Elements(store_queue) \cup {x}
      /\ Increasing(store_queue)'
  BY <1>4 DEF Elements, Increasing
<1>6. \A q \in Readers : /\ Elements(Stream(q))' = Elements(Stream(q))
                         /\ Increasing(Stream(q))' <=> Increasing(Stream(q))
  BY DEF Elements, Increasing
<1>7. (UNION {Elements(Stream(q)) : q \in Readers})' = T
  BY <1>6
<1>8. \A q \in Readers : Elements(Stream(q)) \subseteq T
  OBVIOUS
<1> HIDE DEF T
<1>9. Elements(store_queue)' \cup T = 1..appended'
  <2>1. 1..appended' = (1..appended) \cup {x}
    BY <1>1
  <2> QED
    BY <1>2, <1>5, <2>1
<1> HIDE DEF x
<1>10. ASSUME NEW q \in Readers PROVE x \notin Elements(Stream(q))
  <2>1. SUFFICES ASSUME x \in Elements(Stream(q)) PROVE FALSE
    OBVIOUS
  <2>2. x < x
    BY <1>3, <1>8, <2>1
  <2> QED
    BY <1>1, <2>2
<1>11. \A q \in Readers : Elements(store_queue)' \cap Elements(Stream(q))' = {}
  BY <1>5, <1>6, <1>10 DEF TokenInv, ReadOnce
<1>12. \A q \in Readers : \A s \in Readers \ {q} :
         Elements(Stream(q))' \cap Elements(Stream(s))' = {}
  BY <1>6 DEF TokenInv, ReadOnce
<1>13. \A q \in Readers : Increasing(Stream(q))'
  BY <1>6 DEF TokenInv, ReadOnce
<1>14. ReadOnce'
  BY <1>5, <1>7, <1>9, <1>11, <1>12, <1>13 DEF ReadOnce
<1>15. ASSUME NEW q \in Readers, NEW y \in Elements(Stream(q))', NEW z \in Elements(store_queue)'
       PROVE  y < z
  BY <1>3, <1>5, <1>6, <1>8 DEF TokenInv
<1> QED
  BY <1>14, <1>15 DEF TokenInv

\* Every token appended is in the queue or with exactly one reader, and each
\* reader gets its tokens in the order of their generation: none is lost or read
\* twice, for any number of readers, calls and timeouts.
THEOREM TokensReadOnce == Spec => []ReadOnce
<1>1. Init => TokenInv
  <2> SUFFICES ASSUME Init PROVE TokenInv
    OBVIOUS
  <2>1. \A q \in Readers : Stream(q) = <<>>
    BY DEF Init, Stream
  <2>2. store_queue = <<>> /\ appended = 0
    BY DEF Init
  <2>3. Elements(<<>>) = {} /\ Increasing(<<>>)
    BY DEF Elements, Increasing
  <2>4. UNION {Elements(Stream(q)) : q \in Readers} = {}
    BY <2>1, <2>3
  <2>5. 1..appended = {}
    BY <2>2
  <2>6. ReadOnce
    BY <2>1, <2>2, <2>3, <2>4, <2>5 DEF ReadOnce
  <2> QED
    BY <2>1, <2>2, <2>3, <2>6 DEF Init, TokenInv
<1>2. TypeOK /\ TokenInv /\ [Next]_vars => TokenInv'
  <2> SUFFICES ASSUME TypeOK, TokenInv, [Next]_vars PROVE TokenInv'
    OBVIOUS
  <2>1. CASE UNCHANGED vars
    <3>1. StreamsStay /\ UNCHANGED <<appended, rpc, total_elements>>
      BY <2>1 DEF vars, queueVars, writerVars, readerVars, StreamsStay, Stream
    <3> QED
      BY <3>1, TokenStay DEF TokenInv
  <2>2. CASE Writer
    <3>1. CASE UNCHANGED <<store_queue, appended>>
      BY <2>2, <3>1, WriterStreams, TokenStay DEF StreamsStay
    <3>2. CASE store_queue' = Append(store_queue, appended + 1) /\ appended' = appended + 1
      BY <2>2, <3>2, WriterStreams, TokenAppend
    <3> QED
      BY <2>2, <3>1, <3>2, WriterStreams
  <2>3. ASSUME NEW r \in Readers, ReaderStep(r) \/ \E o \in ReaderOps : Call(r, o)
        PROVE  TokenInv'
    BY <2>3, ReaderStreams, TokenStay, TokenTake
  <2> QED
    BY <2>1, <2>2, <2>3 DEF Next
<1>3. TokenInv => ReadOnce
  BY DEF TokenInv
<1> QED
  BY <1>1, <1>2, <1>3, QueueInvariant, PTL DEF Spec
=============================================================================
