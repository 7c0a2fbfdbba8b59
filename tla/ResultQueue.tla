---------------------------- MODULE ResultQueue ----------------------------
(***************************************************************************)
(* One ResultQueueImpl: the loop thread appends tokens, sets the status    *)
(* and finally destroys the queue; client threads read it with Get,        *)
(* Get(timeout) and GetNoWait.  Nobody holds a lock: a step is one access  *)
(* to store_queue_, status_, closed_, get_user or generate_length_.        *)
(*                                                                         *)
(* The writer keeps the order UpdateResult has in EngineLoop: every token  *)
(* of a request is appended before the terminal status is set, one token   *)
(* per element (EngineLoop's TerminalIsFinal and OneTokenPerElement).      *)
(*                                                                         *)
(* The destructor waits for the counted readers for one second at most.    *)
(* Time is not modelled: while a reader is counted, it may give up at any  *)
(* moment (DestroyGiveUp), and no reader steps on a destroyed queue.       *)
(***************************************************************************)
EXTENDS Integers, Sequences, FiniteSets

CONSTANTS
  Readers,    \* client threads
  ReaderOps,  \* the calls they make
  MaxTokens,  \* bound on the tokens of the request
  Junk        \* contents of the memory generate_length_ is created in

ASSUME QueueAssumption ==
  /\ IsFiniteSet(Readers) /\ MaxTokens \in Nat
  /\ ReaderOps \subseteq {"Get", "GetTimeout", "GetNoWait"}
  /\ Junk \subseteq Nat

VARIABLES
  store_queue, status, generate_length, closed, get_user,
  appended,        \* tokens enqueued so far; token n is the number n
  wpc,             \* the loop thread, up to the end of the destructor
  rpc, op,         \* each reader: where it is, and in which call
  total_elements,  \* each reader's result so far
  received,        \* what its earlier calls returned
  outcome          \* how its last call ended

queueVars  == <<store_queue, status, generate_length, closed, get_user>>
writerVars == <<appended, wpc>>
readerVars == <<rpc, op, total_elements, received, outcome>>
vars == <<queueVars, writerVars, readerVars>>

Terminal == {"GenerateFinished", "GenerateInterrupted"}

\* Places between get_user++ and get_user-- of GetWithTimeout.
Counted == {"loop", "dequeue", "drain", "status"}

\* Where a reader can be.
PCs == Counted \cup {"idle", "enter", "final", "poll", "pollq"}

\* generate_length_ has no initialiser, and std::atomic's default constructor
\* leaves it as it finds it (C++17).
Init ==
  /\ store_queue = <<>> /\ status = "Init" /\ generate_length \in Junk
  /\ closed = FALSE /\ get_user = 0
  /\ appended = 0 /\ wpc = "run"
  /\ rpc = [r \in Readers |-> "idle"] /\ op = [r \in Readers |-> "none"]
  /\ total_elements = [r \in Readers |-> <<>>]
  /\ received = [r \in Readers |-> <<>>]
  /\ outcome = [r \in Readers |-> "none"]

-----------------------------------------------------------------------------
(* The loop thread.                                                        *)

\* SetStatus(Generating), on the first result of the request.
SetGenerating ==
  /\ wpc = "run" /\ status = "Init"
  /\ status' = "Generating"
  /\ UNCHANGED <<store_queue, generate_length, closed, get_user, writerVars, readerVars>>

\* AppendGenerateElement adds to generate_length_ and then enqueues.
AppendCount ==
  /\ wpc = "run" /\ status = "Generating" /\ appended < MaxTokens
  /\ generate_length' = generate_length + 1
  /\ wpc' = "enqueue"
  /\ UNCHANGED <<store_queue, status, closed, get_user, appended, readerVars>>

AppendEnqueue ==
  /\ wpc = "enqueue"
  /\ store_queue' = Append(store_queue, appended + 1)
  /\ appended' = appended + 1
  /\ wpc' = "run"
  /\ UNCHANGED <<status, generate_length, closed, get_user, readerVars>>

\* SetStatus with a terminal status; a request may be interrupted unstarted.
SetTerminal ==
  /\ wpc = "run" /\ status \notin Terminal
  /\ \E s \in Terminal :
       /\ s = "GenerateFinished" => status = "Generating"
       /\ status' = s
  /\ UNCHANGED <<store_queue, generate_length, closed, get_user, writerVars, readerVars>>

\* ReleaseRequest drops the last reference: the destructor starts.
DestroyClose ==
  /\ wpc = "run"
  /\ closed' = TRUE
  /\ wpc' = "wait"
  /\ UNCHANGED <<store_queue, status, generate_length, get_user, appended, readerVars>>

\* Mutant of DestroyWait: the readers are not waited for.
DestroyNow ==
  /\ wpc = "wait"
  /\ wpc' = "gone"
  /\ UNCHANGED <<queueVars, appended, readerVars>>

\* No reader is counted any more.
DestroyWait ==
  /\ wpc = "wait" /\ get_user = 0
  /\ wpc' = "gone"
  /\ UNCHANGED <<queueVars, appended, readerVars>>

\* The second is over: an error is logged and the queue goes under its readers.
DestroyGiveUp ==
  /\ wpc = "wait" /\ get_user > 0
  /\ wpc' = "late"
  /\ UNCHANGED <<queueVars, appended, readerVars>>

-----------------------------------------------------------------------------
(* The readers.  Every step touches the queue, which must still exist.     *)

At(r, pc) == rpc[r] = pc /\ wpc \notin {"gone", "late"}
Go(r, pc) == rpc' = [rpc EXCEPT ![r] = pc]
readFrame == <<status, generate_length, closed, writerVars, op>>

\* A client calls only before it releases the request.
Call(r, o) ==
  /\ At(r, "idle") /\ ~closed /\ o \in ReaderOps
  /\ op' = [op EXCEPT ![r] = o]
  /\ total_elements' = [total_elements EXCEPT ![r] = <<>>]
  /\ Go(r, IF o = "GetNoWait" THEN "poll" ELSE "enter")
  /\ UNCHANGED <<queueVars, writerVars, received, outcome>>

\* Mutant of Enter: get_user is not counted up.
EnterUncounted(r) ==
  /\ At(r, "enter")
  /\ Go(r, "loop")
  /\ UNCHANGED <<store_queue, get_user, total_elements, received, outcome, readFrame>>

\* get_user++
Enter(r) ==
  /\ At(r, "enter")
  /\ get_user' = get_user + 1
  /\ Go(r, "loop")
  /\ UNCHANGED <<store_queue, total_elements, received, outcome, readFrame>>

\* The call ends and its caller has what it returned.
Return(r, how, ids) ==
  /\ Go(r, "idle")
  /\ received' = [received EXCEPT ![r] = @ \o ids]
  /\ total_elements' = [total_elements EXCEPT ![r] = <<>>]
  /\ outcome' = [outcome EXCEPT ![r] = how]

\* try_dequeue finds an element: AppendNewSingleElementToEnd.
Take(r) ==
  /\ store_queue # <<>>
  /\ total_elements' = [total_elements EXCEPT ![r] = Append(@, Head(store_queue))]
  /\ store_queue' = Tail(store_queue)
  /\ UNCHANGED <<get_user, received, outcome, readFrame>>

\* Mutant of LoopTop: closed_ is not tested.
LoopTopUntested(r) ==
  /\ At(r, "loop")
  /\ Go(r, "dequeue")
  /\ UNCHANGED <<store_queue, get_user, total_elements, received, outcome, readFrame>>

LoopTop(r) ==
  /\ At(r, "loop")
  /\ IF closed
     THEN get_user' = get_user - 1 /\ Return(r, "closed", total_elements[r])
     ELSE Go(r, "dequeue") /\ UNCHANGED <<get_user, total_elements, received, outcome>>
  /\ UNCHANGED <<store_queue, readFrame>>

\* A first element leads to drainAllElements, none to the status.
Dequeue(r) ==
  /\ At(r, "dequeue")
  /\ \/ Take(r) /\ Go(r, "drain")
     \/ /\ store_queue = <<>> /\ Go(r, "status")
        /\ UNCHANGED <<store_queue, get_user, total_elements, received, outcome, readFrame>>

Drain(r) ==
  /\ At(r, "drain")
  /\ \/ Take(r) /\ UNCHANGED rpc
     \/ /\ store_queue = <<>> /\ Go(r, "loop")
        /\ UNCHANGED <<store_queue, get_user, total_elements, received, outcome, readFrame>>

\* Mutant of StatusTerminal: what arrived since the failed dequeue is left.
StatusNoDrain(r) ==
  /\ At(r, "status") /\ status \in Terminal
  /\ get_user' = get_user - 1
  /\ Return(r, "end", total_elements[r])
  /\ UNCHANGED <<store_queue, readFrame>>

\* The request has ended: get_user-- and then a last drain.
StatusTerminal(r) ==
  /\ At(r, "status") /\ status \in Terminal
  /\ get_user' = get_user - 1
  /\ Go(r, "final")
  /\ UNCHANGED <<store_queue, total_elements, received, outcome, readFrame>>

FinalDrain(r) ==
  /\ At(r, "final")
  /\ \/ Take(r) /\ UNCHANGED rpc
     \/ /\ store_queue = <<>> /\ Return(r, "end", total_elements[r])
        /\ UNCHANGED <<store_queue, get_user, readFrame>>

\* Still generating: return the tokens at hand, if any.
StatusTokens(r) ==
  /\ At(r, "status") /\ status \notin Terminal /\ total_elements[r] # <<>>
  /\ get_user' = get_user - 1
  /\ Return(r, "tokens", total_elements[r])
  /\ UNCHANGED <<store_queue, readFrame>>

\* Mutant of StatusTimeout: the timeout is tested before the tokens at hand.
StatusTimeoutFirst(r) ==
  /\ At(r, "status") /\ status \notin Terminal
  /\ op[r] = "GetTimeout"
  /\ get_user' = get_user - 1
  /\ Return(r, "timeout", <<>>)
  /\ UNCHANGED <<store_queue, readFrame>>

\* Nothing yet: nullptr when the time is up, another turn before that.
StatusTimeout(r) ==
  /\ At(r, "status") /\ status \notin Terminal /\ total_elements[r] = <<>>
  /\ op[r] = "GetTimeout"
  /\ get_user' = get_user - 1
  /\ Return(r, "timeout", <<>>)
  /\ UNCHANGED <<store_queue, readFrame>>

StatusSpin(r) ==
  /\ At(r, "status") /\ status \notin Terminal /\ total_elements[r] = <<>>
  /\ Go(r, "loop")
  /\ UNCHANGED <<store_queue, get_user, total_elements, received, outcome, readFrame>>

\* GetNoWait, which get_user does not count.
PollTop(r) ==
  /\ At(r, "poll")
  /\ IF closed THEN Return(r, "closed", total_elements[r])
               ELSE Go(r, "pollq") /\ UNCHANGED <<total_elements, received, outcome>>
  /\ UNCHANGED <<store_queue, get_user, readFrame>>

PollDequeue(r) ==
  /\ At(r, "pollq")
  /\ \/ Take(r) /\ Go(r, "poll")
     \/ /\ store_queue = <<>> /\ Return(r, "tokens", total_elements[r])
        /\ UNCHANGED <<store_queue, get_user, readFrame>>

-----------------------------------------------------------------------------
Writer ==
  \/ SetGenerating \/ AppendCount \/ AppendEnqueue \/ SetTerminal
  \/ DestroyClose \/ DestroyWait \/ DestroyGiveUp

ReaderStep(r) ==
  \/ Enter(r) \/ LoopTop(r) \/ Dequeue(r) \/ Drain(r)
  \/ StatusTerminal(r) \/ FinalDrain(r)
  \/ StatusTokens(r) \/ StatusTimeout(r) \/ StatusSpin(r)
  \/ PollTop(r) \/ PollDequeue(r)

Next ==
  \/ Writer
  \/ \E r \in Readers : ReaderStep(r) \/ \E o \in ReaderOps : Call(r, o)

Spec == Init /\ [][Next]_vars

\* A reader inside a call runs on.  The request ends: EngineLoop's RequestEnds.
LiveSpec ==
  /\ Spec
  /\ \A r \in Readers : WF_vars(ReaderStep(r))
  /\ WF_vars(AppendEnqueue) /\ WF_vars(SetTerminal)

-----------------------------------------------------------------------------
TypeOK ==
  /\ store_queue \in Seq(Nat) /\ status \in Terminal \cup {"Init", "Generating"}
  /\ generate_length \in Nat /\ closed \in BOOLEAN /\ get_user \in Nat
  /\ appended \in 0..MaxTokens /\ wpc \in {"run", "enqueue", "wait", "gone", "late"}
  /\ rpc \in [Readers -> PCs]
  /\ op \in [Readers -> ReaderOps \cup {"none"}]
  /\ total_elements \in [Readers -> Seq(Nat)] /\ received \in [Readers -> Seq(Nat)]
  /\ outcome \in [Readers -> {"none", "closed", "end", "tokens", "timeout"}]

\* The tokens of reader r, in the order it gets them.
Stream(r) == received[r] \o total_elements[r]
Elements(s) == {s[i] : i \in 1..Len(s)}
Increasing(s) == \A i, j \in 1..Len(s) : i < j => s[i] < s[j]

\* Every token is in the queue or with one reader, once, and each reader gets
\* its tokens in order: no drain, timeout, end or poll loses or repeats one.
ReadOnce ==
  /\ Increasing(store_queue) /\ \A r \in Readers : Increasing(Stream(r))
  /\ Elements(store_queue) \cup UNION {Elements(Stream(r)) : r \in Readers} = 1..appended
  /\ \A r \in Readers : /\ Elements(store_queue) \cap Elements(Stream(r)) = {}
                        /\ \A s \in Readers \ {r} :
                             Elements(Stream(r)) \cap Elements(Stream(s)) = {}

\* When a Get reports the end of the request, no token is left behind, also
\* none that was appended between its failed dequeue and its look at the status.
EndMeansAll ==
  \A r \in Readers : outcome[r] = "end" =>
    status \in Terminal /\ store_queue = <<>> /\ wpc # "enqueue"

\* get_user is the number of readers inside the spin loop of Get.
UsersCounted == get_user = Cardinality({r \in Readers : rpc[r] \in Counted})

\* The destructor takes the queue from under a reader in the spin loop of Get
\* only when its second is over, and then its error message ("user still
\* waitting") is right: such a reader is there.
CountedReadersSafe ==
  /\ wpc = "gone" => \A r \in Readers : rpc[r] \notin Counted
  /\ wpc = "late" => \E r \in Readers : rpc[r] \in Counted

\* The inductive invariant behind EndMeansAll and CountedReadersSafe: only an
\* open request is appended to, and a reader in its last drain has seen the end.
QueueInv ==
  /\ UsersCounted /\ CountedReadersSafe /\ EndMeansAll
  /\ wpc = "enqueue" => status = "Generating" /\ appended < MaxTokens
  /\ \A r \in Readers : rpc[r] = "final" => status \in Terminal

\* The inductive invariant behind ReadOnce: what is queued is younger than what
\* any reader has, and a reader between two calls holds nothing back.
TokenInv ==
  /\ ReadOnce
  /\ \A r \in Readers : /\ \A x \in Elements(Stream(r)), y \in Elements(store_queue) : x < y
                        /\ rpc[r] = "idle" => total_elements[r] = <<>>

\* Get leaves its spin loop: a token, the end of the request or the closing of
\* the queue ends every wait, unless the destructor has given up waiting for it.
GetReturns ==
  \A r \in Readers : rpc[r] \in Counted ~> rpc[r] \notin Counted \/ wpc = "late"
=============================================================================
