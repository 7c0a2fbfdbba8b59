---------------------------- MODULE PrefixCache -----------------------------
(***************************************************************************)
(* PrefixCacheManager of one rank, with the places of AsModel that call    *)
(* it: the context phase, the decoder's memory test, StopRequest and the   *)
(* end of the warm-up.                                                     *)
(*                                                                         *)
(* The rank thread runs every handler to its end, so a handler is a step;  *)
(* concurrent with it are only the tasks of threadpool_, which copy spans  *)
(* that were swapped out into CPU memory.                                  *)
(*                                                                         *)
(* A block is what one node holds on the GPU: the k and the v span of      *)
(* every layer.  CPU memory is counted in units of layer_num_ frames, two  *)
(* to a node.  A hash is the token prefix it was computed from: two        *)
(* prefixes with one 32-bit hash are outside the model.                    *)
(*                                                                         *)
(* The prefixes of one prompt are different hashes, so a loop of the code  *)
(* over them that treats each on its own is one update of the table.  The  *)
(* loop that allocates CPU nodes is a recursive function: what it does for *)
(* a node depends on what the nodes before it have left.                   *)
(***************************************************************************)
EXTENDS Integers, Sequences, FiniteSets, Functions

CONSTANTS
  MaxBatch,
  Prompts,      \* the prompts clients send
  Tokens,
  Sampled,      \* the tokens the model samples
  SpanSize,     \* token_per_span_
  MaxLength,    \* engine_max_length
  MinGen,       \* min_gen_length of the context phase
  GpuBlocks,    \* blocks of GPU memory
  CpuUnits,     \* max_frame_num / layer_num_ of the CPU tier
  CpuRest,      \* whether some of its frames are left over
  MaxStarts,    \* bound on the requests of one run
  MaxFaulty     \* the same for a run in which a prefill fails with a status

ASSUME PrefixCacheAssumption ==
  /\ SpanSize \in Nat \ {0} /\ MaxLength \in Nat /\ MinGen \in Nat
  /\ GpuBlocks \in Nat \ {0} /\ CpuUnits \in Nat /\ CpuRest \in BOOLEAN
  /\ MaxStarts \in Nat /\ MaxFaulty \in 0..MaxStarts /\ MaxBatch \in Nat
  /\ Prompts \subseteq Seq(Tokens) /\ Sampled \subseteq Tokens
  /\ \A p \in Prompts : Len(p) \in 1..MaxLength

VARIABLES
  mgr,     \* the manager, its two unions and their memory
  req,     \* the GenerateContext of each request in the batch
  clock,   \* start_ts of the youngest request
  warm,    \* the engine is still warming up
  ignored  \* start_ts of the requests whose failed prefill nobody noticed

vars == <<mgr, req, clock, warm, ignored>>

Requests == 1..MaxBatch              \* places in the batch
Blocks == 1..GpuBlocks
Units == 1..CpuUnits
Capacity == GpuBlocks                \* UpdateCapacity, prefix_cache_ratio_ = 1
CpuCapacity == CpuUnits \div 2
Junk == <<>>                         \* the KV of no tokens

NoRequest == [live |-> FALSE, toks |-> <<>>, input_len |-> 0, kv_len |-> 0,
              ts |-> 0, cache |-> <<>>, nodes |-> {}]
EmptyCpu ==
  [table  |-> <<>>,                         \* hash -> node
   free   |-> Units,
   kv     |-> [u \in Units |-> Junk],       \* whose KV each unit holds
   copies |-> {}]                           \* tasks of threadpool_
EmptyManager ==
  [table   |-> <<>>,                        \* hash -> node
   evictor |-> {},                          \* its candidates
   free    |-> [b \in Blocks |-> 1],        \* copies of each block in the free queue
   extra   |-> {},                          \* blocks with has_extra_ref_
   kv      |-> [b \in Blocks |-> Junk],     \* whose KV each block holds
   cpu     |-> EmptyCpu,
   fault   |-> {}]                          \* what must never happen

Live == {r \in Requests : req[r].live}
FreeBlocks(m) == {b \in Blocks : m.free[b] > 0}
CountFree(m) == Cardinality(FreeBlocks(m))
Later(a, b) == IF a < b THEN b ELSE a
Joined(f, g) == [x \in DOMAIN f \cup DOMAIN g |-> IF x \in DOMAIN g THEN g[x] ELSE f[x]]

Init ==
  /\ mgr = EmptyManager
  /\ req = [r \in Requests |-> NoRequest]
  /\ clock = 0
  /\ warm = TRUE
  /\ ignored = {}

-----------------------------------------------------------------------------
(* Spans and nodes on the GPU.  H is a set of hashes, all in the table     *)
(* where the code does not test it.                                        *)

\* The first j spans of toks.
PrefixAt(toks, j) == SubSeq(toks, 1, j * SpanSize)

\* Mutant of HashedPrefixes: the span of the last token counts too.
HashedPrefixesToEnd(toks) == {PrefixAt(toks, j) : j \in 1..(Len(toks) \div SpanSize)}

\* The prefixes the manager looks at: whole spans before the last token.
HashedPrefixes(toks) == {PrefixAt(toks, j) : j \in 1..((Len(toks) - 1) \div SpanSize)}

\* The hashes of one prompt in the order they are visited.
InOrder(H) ==
  [j \in 1..Cardinality(H) |->
     CHOOSE h \in H : Cardinality({g \in H : Len(g) <= Len(h)}) = j]

\* FreeFrame of the blocks in the range of blk, each as often as it is there.
\* The data of a freed block is nobody's.
FreeFrames(m, blk) ==
  [m EXCEPT !.free = [b \in Blocks |-> @[b] + Cardinality({i \in DOMAIN blk : blk[i] = b})],
            !.kv = [b \in Blocks |-> IF b \in Range(blk) THEN Junk ELSE @[b]]]

\* The spans of a virtual cache are released, unless they have an extra reference.
ReleaseSpans(m, cache) ==
  FreeFrames(m, Restrict(cache, {j \in DOMAIN cache : cache[j] \notin m.extra}))

\* ClaimSpan of one block for each element of the domain of data, which is to
\* hold the KV data says.  A claim that fails is a fault.
ClaimSpans(m, data) ==
  LET blk == CHOOSE f \in [DOMAIN data -> FreeBlocks(m)] : IsInjective(f)
  IN IF Cardinality(DOMAIN data) > CountFree(m)
     THEN [m |-> [m EXCEPT !.fault = @ \cup {"short"}], blk |-> [i \in DOMAIN data |-> 1]]
     ELSE [m |-> [m EXCEPT
             !.free = [b \in Blocks |-> IF b \in Range(blk) THEN @[b] - 1 ELSE @[b]],
             !.kv = [b \in Blocks |-> IF b \in Range(blk)
                                      THEN data[CHOOSE i \in DOMAIN data : blk[i] = b] ELSE @[b]]],
           blk |-> blk]

\* The nodes of H in table t with one more user, and with one less.
Referred(t, H, ts) ==
  [h \in DOMAIN t |-> IF h \in H THEN [t[h] EXCEPT !.ref_cnt = @ + 1, !.ts = Later(@, ts)] ELSE t[h]]
Unreferred(t, H) ==
  [h \in DOMAIN t |-> IF h \in H THEN [t[h] EXCEPT !.ref_cnt = @ - 1] ELSE t[h]]

\* Mutant of ref_nodes: the nodes stay candidates of the evictor.
ref_nodes_candidate(m, H, ts) == [m EXCEPT !.table = Referred(@, H, ts)]

ref_nodes(m, H, ts) ==
  LET first == {h \in H \cap DOMAIN m.table : m.table[h].ref_cnt = 0}
  IN [m EXCEPT
        !.extra = @ \cup {m.table[h].blk : h \in first},
        !.evictor = @ \ first,
        !.table = Referred(@, H, ts)]

\* Mutant of unref_nodes: the spans lose their extra reference with the last user.
unref_nodes_and_spans(m, H) ==
  LET last == {h \in H : m.table[h].ref_cnt = 1}
  IN [m EXCEPT
        !.extra = @ \ {m.table[h].blk : h \in last},
        !.evictor = @ \cup last,
        !.table = Unreferred(@, H)]

unref_nodes(m, H) ==
  [m EXCEPT
     !.evictor = @ \cup {h \in H : m.table[h].ref_cnt = 1},
     !.table = Unreferred(@, H)]

\* insert_node of every node of new, a function on hashes.
insert_nodes(m, new) ==
  IF Cardinality(DOMAIN m.table \cup DOMAIN new) <= Capacity
  THEN [m EXCEPT !.table = Joined(@, new),
                 !.extra = @ \cup {new[h].blk : h \in DOMAIN new},
                 !.evictor = @ \cup DOMAIN new]
  ELSE [m EXCEPT !.fault = @ \cup {"full"}]

\* Mutant of delete_nodes: the candidates are not deleted.
delete_nodes_only(m, H) ==
  LET blk == [h \in H |-> m.table[h].blk]
  IN [FreeFrames(m, blk) EXCEPT !.extra = @ \ Range(blk),
                                !.table = Restrict(@, DOMAIN @ \ H)]

delete_nodes(m, H) ==
  LET blk == [h \in H |-> m.table[h].blk]
  IN [FreeFrames(m, blk) EXCEPT !.extra = @ \ Range(blk),
                                !.evictor = @ \ H,
                                !.table = Restrict(@, DOMAIN @ \ H)]

-----------------------------------------------------------------------------
(* The CPU tier c.  Nobody refers to a CPU node, so all are candidates.    *)

\* update_node_ts of the nodes in the domain of ts.
Touched(t, ts) ==
  [h \in DOMAIN t |-> IF h \in DOMAIN ts THEN [t[h] EXCEPT !.ts = Later(@, ts[h])] ELSE t[h]]
update_node_ts(c, ts) == [c EXCEPT !.table = Touched(@, ts)]

\* Mutant of SmallerNode: of equally old nodes the shorter prefix goes first.
SmallerNodeShort(t, g, h) ==
  \/ t[g].ts < t[h].ts
  \/ t[g].ts = t[h].ts /\ Len(g) < Len(h)

\* operator< of PrefixNode, for nodes of table t.
SmallerNode(t, g, h) ==
  \/ t[g].ts < t[h].ts
  \/ t[g].ts = t[h].ts /\ Len(g) > Len(h)

\* The first candidate of H.
FindVictim(t, H) == CHOOSE h \in H : \A g \in H : ~SmallerNode(t, g, h)

delete_cpu_node(c, h) ==
  [c EXCEPT !.free = @ \cup {c.table[h].k, c.table[h].v},
            !.kv = [u \in Units |-> IF u \in {c.table[h].k, c.table[h].v} THEN Junk ELSE @[u]],
            !.table = Restrict(@, DOMAIN @ \ {h})]

\* The k and the v spans are claimed one after the other; spans claimed for a
\* node that is given up are not returned.
ClaimUnits(c) ==
  LET k == CHOOSE u \in c.free : TRUE
      v == CHOOSE u \in c.free \ {k} : TRUE
  IN IF Cardinality(c.free) < 2
     THEN [cpu |-> [c EXCEPT !.free = {}], ok |-> FALSE]
     ELSE [cpu |-> [c EXCEPT !.free = @ \ {k, v}], ok |-> TRUE, k |-> k, v |-> v]

\* A full tier first evicts, but gives up when there is no free frame.
alloc_cpu_node(c) ==
  IF CpuCapacity = 0 \/ (c.free = {} /\ ~CpuRest)
  THEN [cpu |-> c, ok |-> FALSE]
  ELSE ClaimUnits(IF Cardinality(DOMAIN c.table) >= CpuCapacity
                  THEN delete_cpu_node(c, FindVictim(c.table, DOMAIN c.table)) ELSE c)

\* Step 1 of the swap, for the first of the nodes that are left: allocate for it
\* if the CPU tier does not have it; the loop ends when an allocation fails.
SwapStep(m, s) ==
  LET h == FindVictim(m.table, s.left)
      a == alloc_cpu_node(s.cpu)
  IN IF s.left = {} THEN s
     ELSE IF h \in DOMAIN s.cpu.table
          THEN [s EXCEPT !.left = @ \ {h},
                         !.cpu = update_node_ts(@, [g \in {h} |-> m.table[g].ts])]
          ELSE IF a.ok
               THEN [cpu |-> a.cpu, left |-> s.left \ {h},
                     new |-> Joined(s.new, [g \in {h} |-> [k |-> a.k, v |-> a.v]])]
               ELSE [s EXCEPT !.left = {}, !.cpu = a.cpu]

\* Step 2: the data leaves the GPU at once; the nodes are in the table at once,
\* and a task of threadpool_ makes each of them ready.
InsertCpuNodes(m, c, new) ==
  [c EXCEPT
     !.table = Joined(@, [h \in DOMAIN new |->
                 [k |-> new[h].k, v |-> new[h].v, ts |-> m.table[h].ts, ready |-> FALSE]]),
     !.copies = @ \cup {[hash |-> h, k |-> new[h].k, v |-> new[h].v,
                         data |-> m.kv[m.table[h].blk]] : h \in DOMAIN new}]

swap_to_cpu_by_hashlist(m, H) ==
  LET loop[i \in 0..Cardinality(H)] ==
        IF i = 0 THEN [cpu |-> m.cpu, left |-> H, new |-> <<>>] ELSE SwapStep(m, loop[i - 1])
      s == loop[Cardinality(H)]
      c == InsertCpuNodes(m, s.cpu, s.new)
  IN [m EXCEPT !.cpu = c,
               !.fault = IF Cardinality(DOMAIN c.table) <= CpuCapacity THEN @ ELSE @ \cup {"full"}]

-----------------------------------------------------------------------------
(* Eviction.                                                               *)

\* The first k candidates of the evictor.
FindMultiVictims(m, k) ==
  {h \in m.evictor : Cardinality({g \in m.evictor : SmallerNode(m.table, g, h)}) < k}

\* filter_timeout_hash drops the victims whose time to live is over, the others
\* are swapped out.  expired is the youngest timestamp that is over.
evict_unrefered_by_num(m, k, expired) ==
  LET victims == FindMultiVictims(m, k)
      dropped == {h \in victims : m.table[h].ts <= expired}
      swapped == victims \ dropped
  IN delete_nodes(swap_to_cpu_by_hashlist(delete_nodes(m, dropped), swapped), swapped)

EvictUnrefered(m, target, expired) ==
  evict_unrefered_by_num(m, target - CountFree(m), expired)

EvictAllUnrefered(m, expired) ==
  evict_unrefered_by_num(m, Cardinality(m.evictor), expired)

-----------------------------------------------------------------------------
(* RefOnly, UnRef, RefFill and Insert.                                     *)

\* The longest run of prefixes of toks that are on the GPU or on the CPU.
CachedRun(m, toks) ==
  {h \in HashedPrefixes(toks) : \A g \in HashedPrefixes(toks) :
     Len(g) <= Len(h) => g \in DOMAIN m.table \cup DOMAIN m.cpu.table}
OnGpu(m, run) == run \cap DOMAIN m.table
OnlyOnCpu(m, run) == run \ DOMAIN m.table

RefOnly(m, H, ts) ==
  [ref_nodes(m, H, ts) EXCEPT !.cpu = update_node_ts(@, [h \in H |-> ts])]

UnRef(m, nodes) ==
  LET hit == nodes \cap DOMAIN m.table
  IN [unref_nodes(m, hit) EXCEPT !.cpu = update_node_ts(@, [h \in hit |-> m.table[h].ts])]

\* alloc_gpu_node and swap_nodelist_to_gpu_impl for the CPU nodes H: the request
\* claims the spans, the data comes from the CPU.
SwapIn(m, H) ==
  LET c == m.cpu
      s == ClaimSpans(m, [h \in H |-> IF c.kv[c.table[h].k] = c.kv[c.table[h].v]
                                      THEN c.kv[c.table[h].k] ELSE Junk])
  IN [m |-> insert_nodes(s.m, [h \in H |-> [blk |-> s.blk[h], ref_cnt |-> 0, ts |-> c.table[h].ts]]),
      blk |-> s.blk]

\* GPU hits are appended to the virtual cache while the prefixes are visited, the
\* CPU hits after them.  Capacity is not exceeded: see NothingImpossible.
RefFill(m, toks, ts) ==
  LET run  == CachedRun(m, toks)
      gpu  == OnGpu(m, run)
      cpu  == OnlyOnCpu(m, run)
      s    == SwapIn(RefOnly(m, gpu, ts), cpu)
  IN [m |-> RefOnly(s.m, cpu, ts),
      cache |-> [j \in 1..Cardinality(gpu) |-> m.table[InOrder(gpu)[j]].blk]
                  \o [j \in 1..Cardinality(cpu) |-> s.blk[InOrder(cpu)[j]]],
      nodes |-> run]

\* Mutant of RefFillReady: check_node_ready is not asked.
RefFillAtOnce(m, toks) == TRUE

\* What RefFill waits for: the CPU nodes it needs have their data.
RefFillReady(m, toks) ==
  \A h \in OnlyOnCpu(m, CachedRun(m, toks)) : m.cpu.table[h].ready

\* Insert from start: a prefix already on the GPU is referred to, another one is
\* added with the block the request has for it.
Insert(m, toks, start, ts, cache) ==
  LET new == {h \in HashedPrefixes(toks) : Len(h) > start}
      nodes == [h \in new \ DOMAIN m.table |->
                  [blk |-> cache[Len(h) \div SpanSize], ref_cnt |-> 0, ts |-> ts]]
  IN [m |-> ref_nodes(insert_nodes(m, nodes), new, ts), nodes |-> new]

-----------------------------------------------------------------------------
(* AsModel.                                                                *)

\* What span j holds of the KV of the first n tokens of toks.
SpanKv(toks, n, j) == SubSeq(toks, 1, IF j * SpanSize < n THEN j * SpanSize ELSE n)

\* Claim what the KV of toks needs beyond cache.
FillUp(m, toks, cache) ==
  LET spans == (Len(toks) + SpanSize - 1) \div SpanSize
      s == ClaimSpans(m, [j \in (Len(cache) + 1)..spans |-> SpanKv(toks, Len(toks), j)])
  IN [m |-> s.m,
      cache |-> [j \in 1..spans |-> IF j <= Len(cache) THEN cache[j] ELSE s.blk[j]]]

\* Mutant of ContextFrames: CPU hits are taken for memory already claimed.
ContextFramesAllHits(m, toks) ==
  LET input == Len(toks) - SpanSize * Cardinality(CachedRun(m, toks)) + MinGen
  IN (IF input < MaxLength THEN input ELSE MaxLength) \div SpanSize + 1

\* The frames the context phase asks for.
ContextFrames(m, toks) ==
  LET input == Len(toks) - SpanSize * Cardinality(OnGpu(m, CachedRun(m, toks))) + MinGen
  IN (IF input < MaxLength THEN input ELSE MaxLength) \div SpanSize + 1

\* Mutant of MakeRoom: the references of RefOnly are not given back.
MakeRoomHeld(m, toks, ts, expired) ==
  LET need == ContextFrames(m, toks)
      held == RefOnly(m, CachedRun(m, toks), ts)
  IN IF need > CountFree(held) THEN EvictUnrefered(held, need, expired) ELSE held

\* RefOnly, the eviction and UnRef of GenerateContinueContext.
MakeRoom(m, toks, ts, expired) ==
  LET need == ContextFrames(m, toks)
      held == RefOnly(m, CachedRun(m, toks), ts)
      room == IF need > CountFree(held) THEN EvictUnrefered(held, need, expired) ELSE held
  IN UnRef(room, OnGpu(m, CachedRun(m, toks)))

\* StopRequest for a request with the state q.
StopContext(m, q, expired) ==
  LET i == Insert(m, q.toks, (q.input_len \div SpanSize) * SpanSize, q.ts, q.cache)
      d == ReleaseSpans(UnRef(i.m, q.nodes \cup i.nodes), q.cache)
  IN IF warm THEN EvictAllUnrefered(d, expired) ELSE d

\* The head of the pending queue does not find room and is dropped.
ContextDenied(toks, expired) ==
  LET m == MakeRoom(mgr, toks, clock + 1, expired)
  IN /\ ContextFrames(mgr, toks) > CountFree(m)
     /\ mgr' = m
     /\ clock' = clock + 1
     /\ UNCHANGED <<req, warm, ignored>>

\* The blocks in B were not written.
Uncomputed(m, B) == [m EXCEPT !.kv = [b \in Blocks |-> IF b \in B THEN Junk ELSE @[b]]]

\* StartRequest: reuse what is cached, prefill the rest, insert it and sample t.
\* computed tells whether runDecoderContext ran to its end: an error status it
\* returns is dropped, and what it did not compute is inserted all the same (t is
\* then what generated_ids_global happens to hold).  A prefill that fails before
\* its spans are claimed is the end of the process: Insert reads past the spans.
StartRequest(r, toks, t, computed, expired) ==
  LET m == MakeRoom(mgr, toks, clock + 1, expired)
      f == RefFill(m, toks, clock + 1)
      p == FillUp(f.m, toks, f.cache)
      i == Insert(p.m, toks, Cardinality(f.nodes) * SpanSize, clock + 1, p.cache)
  IN /\ computed \/ clock < MaxFaulty
     /\ ContextFrames(mgr, toks) <= CountFree(m)
     /\ RefFillReady(m, toks)
     /\ mgr' = IF computed THEN i.m ELSE Uncomputed(i.m, Range(p.cache) \ Range(f.cache))
     /\ ignored' = IF computed THEN ignored ELSE ignored \cup {clock + 1}
     /\ req' = [req EXCEPT ![r] =
          [live |-> TRUE, toks |-> Append(toks, t), input_len |-> Len(toks),
           kv_len |-> Len(toks), ts |-> clock + 1, cache |-> p.cache,
           nodes |-> f.nodes \cup i.nodes]]
     /\ clock' = clock + 1
     /\ UNCHANGED warm

\* runDecoderContext throws: StartRequest stops the request it was starting.
StartFails(toks, expired) ==
  LET m == MakeRoom(mgr, toks, clock + 1, expired)
      f == RefFill(m, toks, clock + 1)
      p == FillUp(f.m, toks, f.cache)
  IN /\ ContextFrames(mgr, toks) <= CountFree(m)
     /\ RefFillReady(m, toks)
     /\ mgr' = StopContext(p.m, [NoRequest EXCEPT !.toks = toks, !.input_len = Len(toks),
                                   !.ts = clock + 1, !.cache = p.cache, !.nodes = f.nodes],
                           expired)
     /\ clock' = clock + 1
     /\ UNCHANGED <<req, warm, ignored>>

\* Places are interchangeable: a new request takes the first.
NewPlace == CHOOSE r \in Requests \ Live : \A s \in Requests \ Live : r <= s

GenerateContinueContext ==
  /\ clock < MaxStarts /\ (ignored = {} \/ clock < MaxFaulty)
  /\ Live # Requests
  /\ \E toks \in Prompts, expired \in 0..clock :
       \/ ContextDenied(toks, expired)
       \/ \E t \in Sampled, computed \in BOOLEAN :
            StartRequest(NewPlace, toks, t, computed, expired)
       \/ StartFails(toks, expired)

\* The requests whose next token begins a span, and what AllocDecoderMemory
\* makes of the manager before the decoder step.
NewSpan == {r \in Live : req[r].kv_len % SpanSize = 0}
AllocDecoderMemory(expired) ==
  IF Cardinality(NewSpan) > CountFree(mgr)
  THEN EvictUnrefered(mgr, Cardinality(NewSpan), expired) ELSE mgr
DecoderFits(m) == Cardinality(NewSpan) <= CountFree(m)

\* GetCache claims a span for the requests in NewSpan, the step writes the KV of
\* the last token into the last span of each request and samples out[r] for r.  A
\* request whose prefill failed makes the step fail, and the engine abort.
Decode ==
  /\ Live # {}
  /\ \A r \in Live : req[r].ts \notin ignored
  /\ \A r \in Live : Len(req[r].toks) < MaxLength
  /\ \E expired \in 0..clock, out \in [Live -> Sampled] :
       LET m == AllocDecoderMemory(expired)
           s == ClaimSpans(m, [r \in NewSpan |-> req[r].toks])
           cache(r) == IF r \in NewSpan THEN Append(req[r].cache, s.blk[r]) ELSE req[r].cache
           last(r) == cache(r)[Len(cache(r))]
       IN /\ DecoderFits(m)
          /\ mgr' = [s.m EXCEPT !.kv = [b \in Blocks |->
                       IF \E r \in Live : last(r) = b
                       THEN req[CHOOSE r \in Live : last(r) = b].toks ELSE @[b]]]
          /\ req' = [r \in Requests |->
                       IF r \in Live
                       THEN [req[r] EXCEPT !.toks = Append(@, out[r]), !.kv_len = @ + 1, !.cache = cache(r)]
                       ELSE req[r]]
  /\ UNCHANGED <<clock, warm, ignored>>

\* Not enough frames even so: the engine will stop a request and try again.
DecodeShort ==
  /\ Live # {}
  /\ \E expired \in 0..clock :
       /\ ~DecoderFits(AllocDecoderMemory(expired))
       /\ mgr' = AllocDecoderMemory(expired)
  /\ UNCHANGED <<req, clock, warm, ignored>>

\* The request has ended, or the engine or its client stops it.
StopRequest ==
  \E r \in Live, expired \in 0..clock :
    /\ mgr' = StopContext(mgr, req[r], expired)
    /\ req' = [req EXCEPT ![r] = NoRequest]
    /\ UNCHANGED <<clock, warm, ignored>>

\* Every node of the CPU tier c is deleted.
AllReturned(c) ==
  LET t == c.table
      units == {t[h].k : h \in DOMAIN t} \cup {t[h].v : h \in DOMAIN t}
  IN [c EXCEPT !.table = <<>>,
               !.free = @ \cup units,
               !.kv = [u \in Units |-> IF u \in units THEN Junk ELSE @[u]]]

\* ResetPrefixCache ends the warm-up; wait_for_async_tasks is the guard.
Reset ==
  /\ warm /\ Live = {} /\ mgr.cpu.copies = {}
  /\ mgr' = [delete_nodes(mgr, DOMAIN mgr.table) EXCEPT !.cpu = AllReturned(@)]
  /\ warm' = FALSE
  /\ clock' = 0
  /\ ignored' = {}
  /\ UNCHANGED req

\* The CPU tier c after task: copy k and v, set_node_ready.  The task has the node
\* itself, which may have been deleted from the table and its units given away.
Copied(c, task) ==
  LET done == {h \in DOMAIN c.table : h = task.hash /\ c.table[h].k = task.k /\ c.table[h].v = task.v}
  IN [c EXCEPT
        !.copies = @ \ {task},
        !.kv = [u \in Units |-> IF u \in {task.k, task.v} THEN task.data ELSE @[u]],
        !.table = [h \in DOMAIN @ |-> IF h \in done THEN [@[h] EXCEPT !.ready = TRUE] ELSE @[h]]]

\* A task of threadpool_.
CopyTask ==
  \E task \in mgr.cpu.copies :
    /\ mgr' = [mgr EXCEPT !.cpu = Copied(@, task)]
    /\ UNCHANGED <<req, clock, warm, ignored>>

Next ==
  \/ GenerateContinueContext \/ Decode \/ DecodeShort \/ StopRequest
  \/ Reset \/ CopyTask

Spec == Init /\ [][Next]_vars

-----------------------------------------------------------------------------
(* Properties.                                                             *)

NodeBlocks(m) == {m.table[h].blk : h \in DOMAIN m.table}
CacheBlocks == UNION {Range(req[r].cache) : r \in Live}
Holders(h) == {r \in Live : h \in req[r].nodes}

\* Every variable has its type.
TypeOK ==
  /\ \A h \in DOMAIN mgr.table : h \in Seq(Tokens) /\ mgr.table[h] \in [blk : Blocks, ref_cnt : Nat, ts : 0..clock]
  /\ \A h \in DOMAIN mgr.cpu.table : mgr.cpu.table[h] \in [k : Units, v : Units, ts : 0..clock, ready : BOOLEAN]
  /\ mgr.evictor \subseteq DOMAIN mgr.table
  /\ mgr.free \in [Blocks -> Nat] /\ mgr.extra \subseteq Blocks /\ mgr.cpu.free \subseteq Units
  /\ \A r \in Live : Range(req[r].cache) \subseteq Blocks
  /\ clock \in 0..MaxStarts /\ warm \in BOOLEAN /\ ignored \subseteq 1..clock

\* ReleaseSpan frees a span unless has_extra_ref_ is set, delete_node clears the
\* flag and frees it: between them every block is freed exactly once.  A block is
\* free, or a live request or a node has it; it is never both, never freed twice
\* and never forgotten.  A unit of CPU memory is never both free and a node's, nor
\* two nodes', and what alloc_cpu_node loses when only the k spans can be claimed
\* never costs a node of the capacity.
BlocksConserved ==
  /\ \A b \in Blocks : mgr.free[b] = IF b \in NodeBlocks(mgr) \cup CacheBlocks THEN 0 ELSE 1
  /\ LET t == mgr.cpu.table
     IN /\ \A h \in DOMAIN t : t[h].k # t[h].v /\ {t[h].k, t[h].v} \cap mgr.cpu.free = {}
        /\ \A g, h \in DOMAIN t : g # h => {t[g].k, t[g].v} \cap {t[h].k, t[h].v} = {}
        /\ Cardinality(mgr.cpu.free) + 2 * Cardinality(DOMAIN t) >= 2 * CpuCapacity

\* ref_cnt is the number of live requests that will give the node back, and the
\* evictor holds exactly the nodes nobody refers to: the counts taken by RefOnly,
\* RefFill and both Inserts are all returned by UnRef, on the failing paths too.
RefsCounted ==
  /\ \A h \in DOMAIN mgr.table : mgr.table[h].ref_cnt = Cardinality(Holders(h))
  /\ mgr.evictor = {h \in DOMAIN mgr.table : mgr.table[h].ref_cnt = 0}
  /\ \A r \in Live : req[r].nodes \subseteq DOMAIN mgr.table

\* Attention reads the right cache: span j of a live request holds the KV of that
\* request's own first tokens, wherever the span came from.  A prefill that fails
\* with a status leaves its spans unwritten, in its request and in the cache: from
\* then on, until the warm-up's reset, nothing can be said.
RequestReadsItsKv ==
  ignored = {} => \A r \in Live :
    /\ Len(req[r].cache) * SpanSize >= req[r].kv_len
    /\ \A j \in DOMAIN req[r].cache :
         mgr.kv[req[r].cache[j]] = SpanKv(req[r].toks, req[r].kv_len, j)

\* A node that can be hit holds the KV of the prefix it is filed under, as long as
\* no prefill has failed with a status: StartRequest files what that did not compute.
NodesHoldTheirPrefix ==
  ignored = {} =>
  /\ \A h \in DOMAIN mgr.table : mgr.kv[mgr.table[h].blk] = h
  /\ \A h \in DOMAIN mgr.cpu.table : mgr.cpu.table[h].ready =>
       mgr.cpu.kv[mgr.cpu.table[h].k] = h /\ mgr.cpu.kv[mgr.cpu.table[h].v] = h

\* With a prefix all its shorter prefixes are on the GPU, so the GPU hits of a
\* prompt come before its CPU hits: a request touches its nodes with one
\* timestamp, and of equally old nodes the longer prefix is evicted first.
NoOrphans ==
  \A h \in DOMAIN mgr.table : \A j \in 1..(Len(h) \div SpanSize) :
    SubSeq(h, 1, j * SpanSize) \in DOMAIN mgr.table

\* A claim the frame tests promised never fails, and the hash table is never full
\* when a node is to be inserted: the eviction branches of Insert and RefFill for
\* a full table are dead code while prefix_cache_ratio_ is 1.
NothingImpossible == mgr.fault = {}

\* Whatever is evicted to make room, a node a surviving request refers to stays
\* in the table with its block.
ReferredStays ==
  [][\A r \in Live : req'[r].live =>
       \A h \in req[r].nodes : h \in DOMAIN mgr'.table /\ mgr'.table[h].blk = mgr.table[h].blk]_vars
=============================================================================
