------------------------- MODULE PrefixCacheProofs --------------------------
(***************************************************************************)
(* Proofs about PrefixCache.                                               *)
(***************************************************************************)
EXTENDS PrefixCache, FiniteSetTheorems, FunctionTheorems, SequenceTheorems,
        NaturalsInduction, WellFoundedInduction, TLAPS

-----------------------------------------------------------------------------
(* Division by the span size.                                              *)

\* What the quotient is.
LEMMA Quotient ==
  ASSUME NEW a \in Int, NEW d \in Nat \ {0}
  PROVE  a \div d \in Int /\ (a \div d) * d <= a /\ a < (a \div d) * d + d
OBVIOUS

\* Multiples of the span size are at least a span apart.
LEMMA Multiples ==
  ASSUME NEW a \in Int, NEW b \in Int, NEW d \in Nat \ {0}
  PROVE  (a <= b => a * d <= b * d) /\ (a < b => a * d + d <= b * d)
OBVIOUS

\* A quotient is at least k when k spans fit, and at most k when k + 1 do not.
LEMMA QuotientBounds ==
  ASSUME NEW a \in Int, NEW k \in Int, NEW d \in Nat \ {0}
  PROVE  (k * d <= a <=> k <= a \div d) /\ (a < k * d + d <=> a \div d <= k)
<1> DEFINE q == a \div d
<1>1. q \in Int /\ q * d <= a /\ a < q * d + d
  BY Quotient
<1> HIDE DEF q
<1>2. (k <= q => k * d <= q * d) /\ (q < k => q * d + d <= k * d)
  BY <1>1, Multiples
<1>3. (q <= k => q * d <= k * d) /\ (k < q => k * d + d <= q * d)
  BY <1>1, Multiples
<1>4. k * d \in Int /\ q * d \in Int
  BY <1>1
<1>5. (k * d <= a <=> k <= q) /\ (a < k * d + d <=> q <= k)
  BY <1>1, <1>2, <1>3, <1>4
<1> QED
  BY <1>5 DEF q

\* A product is divided back.
LEMMA QuotientOfMultiple ==
  ASSUME NEW k \in Int, NEW d \in Nat \ {0}
  PROVE  (k * d) \div d = k
<1>1. (k * d) \div d \in Int /\ k * d \in Int
  BY Quotient
<1>2. k * d < k * d + d
  BY <1>1
<1> QED
  BY <1>1, <1>2, QuotientBounds

\* The quotient of a natural number is natural, and grows with it.
LEMMA QuotientGrows ==
  ASSUME NEW a \in Int, NEW b \in Int, NEW d \in Nat \ {0}, a <= b
  PROVE  a \div d <= b \div d
<1>1. a \div d \in Int /\ (a \div d) * d <= a /\ (a \div d) * d \in Int
  BY Quotient
<1> QED
  BY <1>1, QuotientBounds

\* The last token of n is in the span that rounding up counts.
LEMMA RoundUp ==
  ASSUME NEW n \in Nat, NEW d \in Nat \ {0}
  PROVE  /\ n > 0 => (n + d - 1) \div d = (n - 1) \div d + 1 /\ (n - 1) \div d \in Nat
         /\ n \div d <= (n + d - 1) \div d
         /\ (n + d - 1) \div d \in Nat
<1> DEFINE q == (n - 1) \div d
<1>1. q \in Int /\ q * d <= n - 1 /\ n - 1 < q * d + d /\ q * d \in Int
  BY Quotient
<1>2. (q + 1) * d = q * d + d
  BY <1>1
<1> HIDE DEF q
<1>3. (q + 1) * d <= n + d - 1 /\ n + d - 1 < (q + 1) * d + d
  BY <1>1, <1>2
<1>4. (n + d - 1) \div d \in Int /\ (n + d - 1) \in Int
  BY Quotient
<1>5. (n + d - 1) \div d = q + 1
  BY <1>1, <1>3, <1>4, QuotientBounds
<1>6. 0 * d = 0 /\ 0 <= n + d - 1
  OBVIOUS
<1>7. 0 <= (n + d - 1) \div d
  BY <1>4, <1>6, QuotientBounds
<1>8. n > 0 => 0 <= q
  BY <1>6, QuotientBounds DEF q
<1>9. n \div d <= (n + d - 1) \div d
  BY QuotientGrows
<1> QED
  BY <1>1, <1>4, <1>5, <1>7, <1>8, <1>9 DEF q

-----------------------------------------------------------------------------
(* Least elements.                                                         *)

LEMMA LeastElement ==
  ASSUME NEW T, T \subseteq Nat, T # {}
  PROVE  \E x \in T : \A y \in T : x <= y
<1> DEFINE R == OpToRel(<, Nat)
<1>1. IsWellFoundedOn(R, Nat)
  BY NatLessThanWellFounded
<1>2. \A a, b \in Nat : a < b => <<a, b>> \in R
  BY DEF OpToRel
<1>3. PICK x \in T : \A y \in T : ~(<<y, x>> \in R)
  BY <1>1, WFMin
<1> HIDE DEF R
<1>4. \A y \in T : ~(y < x)
  BY <1>2, <1>3
<1>5. \A y \in T : x <= y
  BY <1>4
<1> QED
  BY <1>5

-----------------------------------------------------------------------------
(* Prefixes of a prompt.                                                   *)

\* The first n prefixes of whole spans.
FirstPrefixes(toks, n) == {PrefixAt(toks, j) : j \in 1..n}

\* How many prefixes the manager looks at.
HashedCount(toks) == (Len(toks) - 1) \div SpanSize

\* A prefix has j spans, and its own prefixes are those of toks.
LEMMA PrefixFacts ==
  ASSUME NEW toks \in Seq(Tokens), NEW j \in Nat, j * SpanSize <= Len(toks)
  PROVE  /\ PrefixAt(toks, j) \in Seq(Tokens)
         /\ Len(PrefixAt(toks, j)) = j * SpanSize
         /\ Len(PrefixAt(toks, j)) \div SpanSize = j
         /\ \A i \in 1..j : SubSeq(PrefixAt(toks, j), 1, i * SpanSize) = PrefixAt(toks, i)
<1> DEFINE n == j * SpanSize
<1>1. SpanSize \in Nat \ {0}
  BY PrefixCacheAssumption
<1>2. n \in Nat /\ n <= Len(toks) /\ n \div SpanSize = j
  BY <1>1, QuotientOfMultiple
<1> HIDE DEF n
<1>3. PrefixAt(toks, j) = SubSeq(toks, 1, n)
  BY DEF PrefixAt, n
<1>4. SubSeq(toks, 1, n) \in Seq(Tokens) /\ Len(SubSeq(toks, 1, n)) = n
  BY <1>2, SubSeqProperties
<1>5. ASSUME NEW i \in 1..j
      PROVE  SubSeq(PrefixAt(toks, j), 1, i * SpanSize) = PrefixAt(toks, i)
  <2> DEFINE k == i * SpanSize
  <2>1. k \in Nat /\ k <= n
    BY <1>1, Multiples DEF n
  <2> HIDE DEF k
  <2>2. SubSeq(SubSeq(toks, 1, n), 1, k) = SubSeq(toks, 1, k)
    BY <1>2, <1>4, <2>1
  <2> QED
    BY <1>3, <2>2 DEF PrefixAt, k
<1> QED
  BY <1>2, <1>3, <1>4, <1>5 DEF n

\* Different numbers of spans are different prefixes.
LEMMA PrefixesDiffer ==
  ASSUME NEW toks \in Seq(Tokens), NEW i \in Nat, NEW j \in Nat,
         i * SpanSize <= Len(toks), j * SpanSize <= Len(toks),
         PrefixAt(toks, i) = PrefixAt(toks, j)
  PROVE  i = j
<1>1. Len(PrefixAt(toks, i)) \div SpanSize = i
  BY PrefixFacts
<1>2. Len(PrefixAt(toks, j)) \div SpanSize = j
  BY PrefixFacts
<1> QED
  BY <1>1, <1>2

\* A prefix of the first n, from its length.
LEMMA FirstPrefixesFacts ==
  ASSUME NEW toks \in Seq(Tokens), NEW n \in Nat, n * SpanSize <= Len(toks)
  PROVE  /\ IsFiniteSet(FirstPrefixes(toks, n))
         /\ Cardinality(FirstPrefixes(toks, n)) = n
         /\ FirstPrefixes(toks, n) \subseteq Seq(Tokens)
         /\ \A h \in FirstPrefixes(toks, n) :
              /\ Len(h) \div SpanSize \in 1..n
              /\ h = PrefixAt(toks, Len(h) \div SpanSize)
              /\ Len(h) = (Len(h) \div SpanSize) * SpanSize
         /\ \A j \in 1..n : j * SpanSize <= Len(toks)
<1> DEFINE F == FirstPrefixes(toks, n)
           f == [j \in 1..n |-> PrefixAt(toks, j)]
<1>1. ASSUME NEW j \in 1..n
      PROVE  j * SpanSize <= Len(toks)
  BY Multiples, PrefixCacheAssumption
<1>2. ASSUME NEW h \in F
      PROVE  /\ Len(h) \div SpanSize \in 1..n
             /\ h = PrefixAt(toks, Len(h) \div SpanSize)
             /\ Len(h) = (Len(h) \div SpanSize) * SpanSize
             /\ h \in Seq(Tokens)
  <2>1. PICK j \in 1..n : h = PrefixAt(toks, j)
    BY DEF FirstPrefixes
  <2>2. Len(h) = j * SpanSize /\ Len(h) \div SpanSize = j /\ h \in Seq(Tokens)
    BY <1>1, <2>1, PrefixFacts
  <2> QED
    BY <2>1, <2>2
<1>3. f \in Bijection(1..n, F)
  <2>1. f \in Surjection(1..n, F)
    BY DEF Surjection, FirstPrefixes
  <2>2. \A i, j \in 1..n : f[i] = f[j] => i = j
    BY <1>1, PrefixesDiffer
  <2> QED
    BY <2>1, <2>2 DEF Bijection, Injection, IsInjective, Surjection
<1>4. IsFiniteSet(1..n) /\ Cardinality(1..n) = n
  BY FS_Interval
<1>5. IsFiniteSet(F) /\ Cardinality(F) = n
  <2> HIDE DEF F, f
  <2> QED
    BY <1>3, <1>4, FS_Bijection DEF ExistsBijection
<1> QED
  BY <1>1, <1>2, <1>5

-----------------------------------------------------------------------------
(* What the handlers of the manager write.  A manager is a record of these *)
(* fields, so that a field lemma says what each of them is afterwards.     *)

ManagerShape(m) ==
  m = [table |-> m.table, evictor |-> m.evictor, free |-> m.free, extra |-> m.extra,
       kv |-> m.kv, cpu |-> m.cpu, fault |-> m.fault]
CpuShape(c) ==
  c = [table |-> c.table, free |-> c.free, kv |-> c.kv, copies |-> c.copies]

LEMMA RefNodesFields ==
  ASSUME NEW m, ManagerShape(m), NEW H, NEW ts
  PROVE  /\ ManagerShape(ref_nodes(m, H, ts))
         /\ ref_nodes(m, H, ts).table = Referred(m.table, H, ts)
         /\ ref_nodes(m, H, ts).extra =
              m.extra \cup {m.table[h].blk : h \in {g \in H \cap DOMAIN m.table : m.table[g].ref_cnt = 0}}
         /\ ref_nodes(m, H, ts).evictor = m.evictor \ {g \in H \cap DOMAIN m.table : m.table[g].ref_cnt = 0}
         /\ ref_nodes(m, H, ts).free = m.free
         /\ ref_nodes(m, H, ts).kv = m.kv
         /\ ref_nodes(m, H, ts).cpu = m.cpu
         /\ ref_nodes(m, H, ts).fault = m.fault
<1> DEFINE first == {g \in H \cap DOMAIN m.table : m.table[g].ref_cnt = 0}
           t == Referred(m.table, H, ts)
           x == m.extra \cup {m.table[h].blk : h \in first}
           n == ref_nodes(m, H, ts)
<1>1. n = [m EXCEPT !.extra = x, !.evictor = m.evictor \ first, !.table = t]
  BY DEF ref_nodes
<1> HIDE DEF first, t, x, n
<1>2. n = [table |-> t, evictor |-> m.evictor \ first, free |-> m.free, extra |-> x,
           kv |-> m.kv, cpu |-> m.cpu, fault |-> m.fault]
  BY <1>1 DEF ManagerShape
<1>3. /\ ManagerShape(n) /\ n.table = t /\ n.evictor = m.evictor \ first /\ n.extra = x
      /\ n.free = m.free /\ n.kv = m.kv /\ n.cpu = m.cpu /\ n.fault = m.fault
  BY <1>2 DEF ManagerShape
<1> QED
  BY <1>3 DEF first, t, x, n

LEMMA UnrefNodesFields ==
  ASSUME NEW m, ManagerShape(m), NEW H
  PROVE  /\ ManagerShape(unref_nodes(m, H))
         /\ unref_nodes(m, H).table = Unreferred(m.table, H)
         /\ unref_nodes(m, H).evictor = m.evictor \cup {h \in H : m.table[h].ref_cnt = 1}
         /\ unref_nodes(m, H).extra = m.extra
         /\ unref_nodes(m, H).free = m.free
         /\ unref_nodes(m, H).kv = m.kv
         /\ unref_nodes(m, H).cpu = m.cpu
         /\ unref_nodes(m, H).fault = m.fault
<1> DEFINE t == Unreferred(m.table, H)
           e == m.evictor \cup {h \in H : m.table[h].ref_cnt = 1}
           n == unref_nodes(m, H)
<1>1. n = [m EXCEPT !.evictor = e, !.table = t]
  BY DEF unref_nodes
<1> HIDE DEF t, e, n
<1>2. n = [table |-> t, evictor |-> e, free |-> m.free, extra |-> m.extra,
           kv |-> m.kv, cpu |-> m.cpu, fault |-> m.fault]
  BY <1>1 DEF ManagerShape
<1>3. /\ ManagerShape(n) /\ n.table = t /\ n.evictor = e /\ n.extra = m.extra
      /\ n.free = m.free /\ n.kv = m.kv /\ n.cpu = m.cpu /\ n.fault = m.fault
  BY <1>2 DEF ManagerShape
<1> QED
  BY <1>3 DEF t, e, n

\* The free queue and the data after FreeFrame of the blocks in blk, the blocks of
\* the nodes H and the blocks of a virtual cache that have no extra reference.
Freed(free, blk) ==
  [b \in Blocks |-> free[b] + Cardinality({i \in DOMAIN blk : blk[i] = b})]
Wiped(kv, blk) == [b \in Blocks |-> IF b \in Range(blk) THEN Junk ELSE kv[b]]
NodeSpans(m, H) == [h \in H |-> m.table[h].blk]
OwnSpans(m, cache) == Restrict(cache, {j \in DOMAIN cache : cache[j] \notin m.extra})

LEMMA FreeFramesFields ==
  ASSUME NEW m, ManagerShape(m), NEW blk
  PROVE  /\ ManagerShape(FreeFrames(m, blk))
         /\ FreeFrames(m, blk).free = Freed(m.free, blk)
         /\ FreeFrames(m, blk).kv = Wiped(m.kv, blk)
         /\ FreeFrames(m, blk).table = m.table
         /\ FreeFrames(m, blk).evictor = m.evictor
         /\ FreeFrames(m, blk).extra = m.extra
         /\ FreeFrames(m, blk).cpu = m.cpu
         /\ FreeFrames(m, blk).fault = m.fault
<1> DEFINE f == Freed(m.free, blk)
           k == Wiped(m.kv, blk)
           n == FreeFrames(m, blk)
<1>1. n = [m EXCEPT !.free = f, !.kv = k]
  BY DEF FreeFrames, Freed, Wiped
<1> HIDE DEF f, k, n
<1>2. n = [table |-> m.table, evictor |-> m.evictor, free |-> f, extra |-> m.extra,
           kv |-> k, cpu |-> m.cpu, fault |-> m.fault]
  BY <1>1 DEF ManagerShape
<1>3. /\ ManagerShape(n) /\ n.free = f /\ n.kv = k /\ n.table = m.table
      /\ n.evictor = m.evictor /\ n.extra = m.extra /\ n.cpu = m.cpu /\ n.fault = m.fault
  BY <1>2 DEF ManagerShape
<1> QED
  BY <1>3 DEF f, k, n

LEMMA ReleaseSpansFields ==
  ASSUME NEW m, ManagerShape(m), NEW cache
  PROVE  /\ ManagerShape(ReleaseSpans(m, cache))
         /\ ReleaseSpans(m, cache).free = Freed(m.free, OwnSpans(m, cache))
         /\ ReleaseSpans(m, cache).kv = Wiped(m.kv, OwnSpans(m, cache))
         /\ ReleaseSpans(m, cache).table = m.table
         /\ ReleaseSpans(m, cache).evictor = m.evictor
         /\ ReleaseSpans(m, cache).extra = m.extra
         /\ ReleaseSpans(m, cache).cpu = m.cpu
         /\ ReleaseSpans(m, cache).fault = m.fault
<1>1. ReleaseSpans(m, cache) = FreeFrames(m, OwnSpans(m, cache))
  BY DEF ReleaseSpans, OwnSpans
<1> QED
  BY <1>1, FreeFramesFields

LEMMA UnRefFields ==
  ASSUME NEW m, ManagerShape(m), NEW H, H \subseteq DOMAIN m.table
  PROVE  /\ ManagerShape(UnRef(m, H))
         /\ UnRef(m, H).table = Unreferred(m.table, H)
         /\ UnRef(m, H).evictor = m.evictor \cup {h \in H : m.table[h].ref_cnt = 1}
         /\ UnRef(m, H).extra = m.extra
         /\ UnRef(m, H).free = m.free
         /\ UnRef(m, H).kv = m.kv
         /\ UnRef(m, H).cpu = update_node_ts(m.cpu, [h \in H |-> m.table[h].ts])
         /\ UnRef(m, H).fault = m.fault
<1> DEFINE n == unref_nodes(m, H)
<1>0. H \cap DOMAIN m.table = H
  OBVIOUS
<1>1. /\ ManagerShape(n)
      /\ n.table = Unreferred(m.table, H)
      /\ n.evictor = m.evictor \cup {h \in H : m.table[h].ref_cnt = 1}
      /\ n.extra = m.extra
      /\ n.free = m.free /\ n.kv = m.kv /\ n.cpu = m.cpu /\ n.fault = m.fault
  BY UnrefNodesFields
<1>2. UnRef(m, H) = [n EXCEPT !.cpu = update_node_ts(@, [h \in H |-> m.table[h].ts])]
  BY <1>0 DEF UnRef
<1> HIDE DEF n
<1>3. UnRef(m, H) = [table |-> n.table, evictor |-> n.evictor, free |-> n.free,
        extra |-> n.extra, kv |-> n.kv,
        cpu |-> update_node_ts(n.cpu, [h \in H |-> m.table[h].ts]), fault |-> n.fault]
  BY <1>1, <1>2 DEF ManagerShape
<1> QED
  BY <1>1, <1>3 DEF ManagerShape

\* As many different blocks as are asked for can be chosen from those that are free.
LEMMA InjectionExists ==
  ASSUME NEW D, NEW F, IsFiniteSet(D), IsFiniteSet(F), Cardinality(D) <= Cardinality(F)
  PROVE  \E f \in [D -> F] : IsInjective(f)
<1>1. PICK n \in Nat : n = Cardinality(D) /\ ExistsBijection(1..n, D)
  BY FS_CardinalityType
<1>2. PICK p \in Nat : p = Cardinality(F) /\ ExistsBijection(1..p, F)
  BY FS_CardinalityType
<1>10. PICK g : g \in Bijection(1..n, D)
  BY <1>1 DEF ExistsBijection
<1>11. PICK k : k \in Bijection(1..p, F)
  BY <1>2 DEF ExistsBijection
<1> DEFINE at(d) == CHOOSE i \in 1..n : g[i] = d
           f == [d \in D |-> k[at(d)]]
<1>3. \A d \in D : at(d) \in 1..n /\ g[at(d)] = d
  BY <1>10 DEF Bijection, Surjection
<1>4. n <= p
  BY <1>1, <1>2
<1>5. \A d \in D : at(d) \in 1..p
  BY <1>3, <1>4
<1>6. \A i, j \in 1..p : k[i] = k[j] => i = j
  BY <1>11 DEF Bijection, Injection, IsInjective
<1>7. \A i \in 1..p : k[i] \in F
  BY <1>11 DEF Bijection, Injection
<1> HIDE DEF at
<1>8. f \in [D -> F]
  BY <1>5, <1>7
<1>9. \A c, d \in D : f[c] = f[d] => c = d
  BY <1>3, <1>5, <1>6
<1> QED
  BY <1>8, <1>9 DEF IsInjective

LEMMA FreeBlocksFinite ==
  ASSUME NEW m
  PROVE  /\ IsFiniteSet(Blocks) /\ Cardinality(Blocks) = GpuBlocks
         /\ IsFiniteSet(FreeBlocks(m)) /\ CountFree(m) \in Nat
         /\ FreeBlocks(m) \subseteq Blocks
<1>1. IsFiniteSet(Blocks) /\ Cardinality(Blocks) = GpuBlocks
  BY FS_Interval, PrefixCacheAssumption DEF Blocks
<1>2. FreeBlocks(m) \subseteq Blocks
  BY DEF FreeBlocks
<1> QED
  BY <1>1, <1>2, FS_Subset, FS_CardinalityType DEF CountFree

LEMMA ClaimSpansFields ==
  ASSUME NEW m, ManagerShape(m), NEW data, IsFiniteSet(DOMAIN data)
  PROVE  LET r == ClaimSpans(m, data)
         IN /\ ManagerShape(r.m)
            /\ m.fault \subseteq r.m.fault
            /\ Cardinality(DOMAIN data) <= CountFree(m) => r.m.fault = m.fault
            /\ r.m.fault = {} =>
                 /\ Cardinality(DOMAIN data) <= CountFree(m)
                 /\ r.blk \in [DOMAIN data -> FreeBlocks(m)]
                 /\ IsInjective(r.blk)
                 /\ r.m.free = [b \in Blocks |-> IF b \in Range(r.blk) THEN m.free[b] - 1 ELSE m.free[b]]
                 /\ r.m.kv = [b \in Blocks |-> IF b \in Range(r.blk)
                                THEN data[CHOOSE i \in DOMAIN data : r.blk[i] = b] ELSE m.kv[b]]
            /\ r.m.table = m.table
            /\ r.m.evictor = m.evictor
            /\ r.m.extra = m.extra
            /\ r.m.cpu = m.cpu
<1> DEFINE r == ClaimSpans(m, data)
           blk == CHOOSE f \in [DOMAIN data -> FreeBlocks(m)] : IsInjective(f)
           fr == [b \in Blocks |-> IF b \in Range(blk) THEN m.free[b] - 1 ELSE m.free[b]]
           k == [b \in Blocks |-> IF b \in Range(blk)
                   THEN data[CHOOSE i \in DOMAIN data : blk[i] = b] ELSE m.kv[b]]
<1>0. CountFree(m) \in Nat /\ Cardinality(DOMAIN data) \in Nat
  BY FreeBlocksFinite, FS_CardinalityType
<1>1. CASE Cardinality(DOMAIN data) > CountFree(m)
  <2>1. r = [m |-> [m EXCEPT !.fault = @ \cup {"short"}], blk |-> [i \in DOMAIN data |-> 1]]
    BY <1>1 DEF ClaimSpans
  <2> DEFINE n == r.m
  <2>2. n = [m EXCEPT !.fault = @ \cup {"short"}]
    BY <2>1
  <2> HIDE DEF r, n, blk, fr, k
  <2>3. /\ ManagerShape(n) /\ n.fault = m.fault \cup {"short"} /\ n.table = m.table
        /\ n.evictor = m.evictor /\ n.extra = m.extra /\ n.cpu = m.cpu
    BY <2>2 DEF ManagerShape
  <2>4. n.fault # {} /\ m.fault \subseteq n.fault
    BY <2>3
  <2>5. ~(Cardinality(DOMAIN data) <= CountFree(m))
    BY <1>0, <1>1
  <2> QED
    BY <2>3, <2>4, <2>5 DEF n, r
<1>2. CASE ~(Cardinality(DOMAIN data) > CountFree(m))
  <2>1. r = [m |-> [m EXCEPT !.free = fr, !.kv = k], blk |-> blk]
    BY <1>2 DEF ClaimSpans
  <2>2. Cardinality(DOMAIN data) <= Cardinality(FreeBlocks(m))
    BY <1>0, <1>2 DEF CountFree
  <2>3. \E f \in [DOMAIN data -> FreeBlocks(m)] : IsInjective(f)
    BY <2>2, InjectionExists, FreeBlocksFinite
  <2>4. blk \in [DOMAIN data -> FreeBlocks(m)] /\ IsInjective(blk)
    BY <2>3
  <2> DEFINE n == r.m
             z == r.blk
  <2>5. n = [m EXCEPT !.free = fr, !.kv = k] /\ z = blk
    BY <2>1
  <2> HIDE DEF r, n, z, blk
  <2>6. /\ z \in [DOMAIN data -> FreeBlocks(m)] /\ IsInjective(z)
        /\ fr = [b \in Blocks |-> IF b \in Range(z) THEN m.free[b] - 1 ELSE m.free[b]]
        /\ k = [b \in Blocks |-> IF b \in Range(z)
                  THEN data[CHOOSE i \in DOMAIN data : z[i] = b] ELSE m.kv[b]]
    BY <2>4, <2>5
  <2> HIDE DEF fr, k
  <2>7. /\ ManagerShape(n) /\ n.fault = m.fault /\ n.table = m.table /\ n.free = fr /\ n.kv = k
        /\ n.evictor = m.evictor /\ n.extra = m.extra /\ n.cpu = m.cpu
    BY <2>5 DEF ManagerShape
  <2>8. Cardinality(DOMAIN data) <= CountFree(m)
    BY <2>2 DEF CountFree
  <2> QED
    BY <2>6, <2>7, <2>8 DEF n, z, r
<1> QED
  BY <1>1, <1>2

\* A claim that the free blocks can serve finds nothing wrong.
LEMMA ClaimFits ==
  ASSUME NEW m, ManagerShape(m), m.fault = {}, NEW data, IsFiniteSet(DOMAIN data),
         Cardinality(DOMAIN data) <= CountFree(m), NEW s, s = ClaimSpans(m, data)
  PROVE  s.m.fault = {} /\ ManagerShape(s.m) /\ s.m.table = m.table
<1>1. ManagerShape(s.m) /\ s.m.fault = m.fault
  BY ONLY ManagerShape(m), IsFiniteSet(DOMAIN data), Cardinality(DOMAIN data) <= CountFree(m),
          s = ClaimSpans(m, data), ClaimSpansFields
<1>2. s.m.fault = {}
  BY ONLY <1>1, m.fault = {}
<1>3. s.m.table = m.table
  BY ONLY ManagerShape(m), IsFiniteSet(DOMAIN data), <1>2, s = ClaimSpans(m, data), ClaimSpansFields
<1> QED
  BY ONLY <1>1, <1>2, <1>3

LEMMA SwapFields ==
  ASSUME NEW m, ManagerShape(m), NEW H
  PROVE  LET n == swap_to_cpu_by_hashlist(m, H)
         IN /\ ManagerShape(n)
            /\ n.table = m.table /\ n.evictor = m.evictor /\ n.free = m.free
            /\ n.extra = m.extra /\ n.kv = m.kv
            /\ m.fault \subseteq n.fault
            /\ Cardinality(DOMAIN n.cpu.table) <= CpuCapacity => n.fault = m.fault
<1> DEFINE n == swap_to_cpu_by_hashlist(m, H)
<1>1. PICK c : n = [m EXCEPT !.cpu = c,
                 !.fault = IF Cardinality(DOMAIN c.table) <= CpuCapacity THEN @ ELSE @ \cup {"full"}]
  BY DEF swap_to_cpu_by_hashlist
<1> HIDE DEF n
<1> DEFINE f == IF Cardinality(DOMAIN c.table) <= CpuCapacity THEN m.fault ELSE m.fault \cup {"full"}
<1>2. /\ ManagerShape(n) /\ n.table = m.table /\ n.evictor = m.evictor /\ n.free = m.free
      /\ n.extra = m.extra /\ n.kv = m.kv /\ n.cpu = c /\ n.fault = f
  <2> HIDE DEF f
  <2>1. n = [m EXCEPT !.cpu = c, !.fault = f]
    BY <1>1 DEF f
  <2> QED
    BY <2>1 DEF ManagerShape
<1> QED
  BY <1>2 DEF n

-----------------------------------------------------------------------------
(* The GPU side between handlers and in the middle of one.  L is a set of  *)
(* users, N[r] the nodes user r refers to and B[r] the blocks of its       *)
(* virtual cache: live requests, and the one a handler is working for.     *)

\* The nodes have blocks of their own, which are the ones with an extra reference,
\* and the evictor has the nodes nobody refers to.
TableOK(m) ==
  /\ ManagerShape(m)
  /\ IsFiniteSet(DOMAIN m.table)
  /\ \A h \in DOMAIN m.table :
       h \in Seq(Tokens) /\ m.table[h] \in [blk : Blocks, ref_cnt : Nat, ts : Nat]
  /\ \A g, h \in DOMAIN m.table : m.table[g].blk = m.table[h].blk => g = h
  /\ m.extra = NodeBlocks(m)
  /\ m.evictor = {h \in DOMAIN m.table : m.table[h].ref_cnt = 0}
  /\ m.free \in [Blocks -> Nat]

\* ref_cnt is the number of users.
CountOK(m, N, L) ==
  /\ \A h \in DOMAIN m.table : m.table[h].ref_cnt = Cardinality({r \in L : h \in N[r]})
  /\ \A r \in L : N[r] \subseteq DOMAIN m.table

\* A block is in the free queue, once, if no node and no user has it.
OwnOK(m, B, L) ==
  \A b \in Blocks :
    m.free[b] = IF b \in NodeBlocks(m) \/ (\E r \in L : b \in B[r]) THEN 0 ELSE 1

\* Users share only the blocks of nodes, and have a node's block only if they refer
\* to the node.
ShareOK(m, B, N, L) ==
  /\ \A r \in L : B[r] \subseteq Blocks
  /\ \A r, s \in L : r # s => B[r] \cap B[s] \subseteq NodeBlocks(m)
  /\ \A r \in L : \A h \in DOMAIN m.table : m.table[h].blk \in B[r] => h \in N[r]

GpuOK(m, B, N, L) ==
  TableOK(m) /\ CountOK(m, N, L) /\ OwnOK(m, B, L) /\ ShareOK(m, B, N, L)

\* Owning and sharing depend on the blocks of the table only.
LEMMA SameBlocks ==
  ASSUME NEW m, NEW n, NEW B, NEW N, NEW L,
         DOMAIN n.table = DOMAIN m.table,
         \A h \in DOMAIN m.table : n.table[h].blk = m.table[h].blk,
         n.free = m.free
  PROVE  /\ NodeBlocks(n) = NodeBlocks(m)
         /\ OwnOK(m, B, L) => OwnOK(n, B, L)
         /\ ShareOK(m, B, N, L) => ShareOK(n, B, N, L)
<1>1. NodeBlocks(n) = NodeBlocks(m)
  BY DEF NodeBlocks
<1> QED
  BY <1>1 DEF OwnOK, ShareOK

\* n is m after ref_nodes, and perhaps after something that changes other fields.
RefStep(m, n, H, ts) ==
  /\ ManagerShape(n)
  /\ n.table = Referred(m.table, H, ts)
  /\ n.extra = ref_nodes(m, H, ts).extra
  /\ n.evictor = ref_nodes(m, H, ts).evictor
  /\ n.free = m.free /\ n.kv = m.kv /\ n.fault = m.fault

LEMMA RefNodesIsStep ==
  ASSUME NEW m, ManagerShape(m), NEW H, NEW ts
  PROVE  RefStep(m, ref_nodes(m, H, ts), H, ts) /\ ref_nodes(m, H, ts).cpu = m.cpu
<1> DEFINE n == ref_nodes(m, H, ts)
<1>1. /\ ManagerShape(n) /\ n.table = Referred(m.table, H, ts)
      /\ n.free = m.free /\ n.kv = m.kv /\ n.fault = m.fault /\ n.cpu = m.cpu
  BY RefNodesFields
<1> QED
  BY <1>1 DEF RefStep

\* One timestamp for all nodes of H.
OneTs(H, ts) == [h \in H |-> ts]

LEMMA RefOnlyIsStep ==
  ASSUME NEW m, ManagerShape(m), NEW H, NEW ts
  PROVE  /\ RefStep(m, RefOnly(m, H, ts), H, ts)
         /\ RefOnly(m, H, ts).cpu = update_node_ts(m.cpu, OneTs(H, ts))
<1> DEFINE n == ref_nodes(m, H, ts)
           c == update_node_ts(m.cpu, [h \in H |-> ts])
           w == RefOnly(m, H, ts)
<1>1. /\ ManagerShape(n)
      /\ n.table = Referred(m.table, H, ts)
      /\ n.free = m.free /\ n.kv = m.kv /\ n.cpu = m.cpu /\ n.fault = m.fault
  BY RefNodesFields
<1>2. w = [n EXCEPT !.cpu = c]
  BY <1>1 DEF RefOnly
<1> HIDE DEF n, c, w
<1>3. w = [table |-> n.table, evictor |-> n.evictor, free |-> n.free,
           extra |-> n.extra, kv |-> n.kv, cpu |-> c, fault |-> n.fault]
  BY <1>1, <1>2 DEF ManagerShape
<1>4. ManagerShape(w) /\ w.cpu = c
  BY <1>3 DEF ManagerShape
<1>5. RefStep(m, w, H, ts)
  BY <1>1, <1>3, <1>4 DEF RefStep, n
<1> QED
  BY <1>4, <1>5 DEF c, w, OneTs

\* What it does to the nodes.
RefEffect(m, n, H, ts) ==
  /\ DOMAIN n.table = DOMAIN m.table /\ n.free = m.free /\ ManagerShape(n)
  /\ \A h \in DOMAIN m.table :
       /\ n.table[h] \in [blk : Blocks, ref_cnt : Nat, ts : Nat]
       /\ n.table[h].blk = m.table[h].blk
       /\ n.table[h].ref_cnt = IF h \in H THEN m.table[h].ref_cnt + 1 ELSE m.table[h].ref_cnt
       /\ n.table[h].ts = IF h \in H THEN Later(m.table[h].ts, ts) ELSE m.table[h].ts

LEMMA RefStepEffect ==
  ASSUME NEW m, NEW n, TableOK(m), NEW H, NEW ts \in Nat, RefStep(m, n, H, ts)
  PROVE  RefEffect(m, n, H, ts)
<1>1. DOMAIN n.table = DOMAIN m.table /\ n.free = m.free /\ ManagerShape(n)
  BY DEF Referred, RefStep
<1>2. ASSUME NEW h \in DOMAIN m.table
      PROVE  /\ n.table[h] \in [blk : Blocks, ref_cnt : Nat, ts : Nat]
             /\ n.table[h].blk = m.table[h].blk
             /\ n.table[h].ref_cnt = IF h \in H THEN m.table[h].ref_cnt + 1 ELSE m.table[h].ref_cnt
             /\ n.table[h].ts = IF h \in H THEN Later(m.table[h].ts, ts) ELSE m.table[h].ts
  <2> DEFINE x == m.table[h]
  <2>1. x \in [blk : Blocks, ref_cnt : Nat, ts : Nat]
    BY DEF TableOK
  <2>2. n.table[h] = IF h \in H THEN [x EXCEPT !.ref_cnt = @ + 1, !.ts = Later(@, ts)] ELSE x
    BY DEF Referred, RefStep
  <2> HIDE DEF x
  <2>3. Later(x.ts, ts) \in Nat
    BY <2>1 DEF Later
  <2>4. /\ n.table[h] \in [blk : Blocks, ref_cnt : Nat, ts : Nat]
        /\ n.table[h].blk = x.blk
        /\ n.table[h].ref_cnt = IF h \in H THEN x.ref_cnt + 1 ELSE x.ref_cnt
        /\ n.table[h].ts = IF h \in H THEN Later(x.ts, ts) ELSE x.ts
    <3>1. CASE h \in H
      <4>1. n.table[h] = [blk |-> x.blk, ref_cnt |-> x.ref_cnt + 1, ts |-> Later(x.ts, ts)]
        BY <2>1, <2>2, <3>1
      <4> QED
        BY <2>1, <2>3, <3>1, <4>1
    <3>2. CASE h \notin H
      BY <2>1, <2>2, <3>2
    <3> QED
      BY <3>1, <3>2
  <2> QED
    BY <2>4 DEF x
<1> QED
  BY <1>1, <1>2 DEF RefEffect

LEMMA RefTableOK ==
  ASSUME NEW m, NEW n, TableOK(m), NEW H, NEW ts \in Nat, RefStep(m, n, H, ts)
  PROVE  TableOK(n)
<1>1. /\ DOMAIN n.table = DOMAIN m.table
      /\ \A h \in DOMAIN m.table :
              /\ n.table[h] \in [blk : Blocks, ref_cnt : Nat, ts : Nat]
              /\ n.table[h].blk = m.table[h].blk
              /\ n.table[h].ref_cnt = IF h \in H THEN m.table[h].ref_cnt + 1 ELSE m.table[h].ref_cnt
  <2>1. RefEffect(m, n, H, ts)
    BY RefStepEffect
  <2> QED
    BY <2>1 DEF RefEffect
<1>2. n.free = m.free /\ ManagerShape(m) /\ ManagerShape(n)
  BY DEF RefStep, TableOK
<1>3. NodeBlocks(n) = NodeBlocks(m)
  BY <1>1, <1>2, SameBlocks
<1> DEFINE first == {g \in H \cap DOMAIN m.table : m.table[g].ref_cnt = 0}
<1>4. n.extra = m.extra \cup {m.table[h].blk : h \in first} /\ n.evictor = m.evictor \ first
  BY <1>2, RefNodesFields DEF RefStep
<1>5. {m.table[h].blk : h \in first} \subseteq NodeBlocks(m)
  BY DEF NodeBlocks
<1>6. n.extra = NodeBlocks(n)
  BY <1>3, <1>4, <1>5 DEF TableOK
<1>7. n.evictor = {h \in DOMAIN n.table : n.table[h].ref_cnt = 0}
  <2>1. \A h \in DOMAIN m.table : m.table[h].ref_cnt \in Nat
    BY DEF TableOK
  <2>2. \A h \in DOMAIN m.table : n.table[h].ref_cnt = 0 <=> m.table[h].ref_cnt = 0 /\ h \notin H
    BY <1>1, <2>1
  <2>3. m.evictor = {h \in DOMAIN m.table : m.table[h].ref_cnt = 0}
    BY DEF TableOK
  <2> QED
    BY <1>1, <1>4, <2>2, <2>3
<1> QED
  BY <1>1, <1>2, <1>6, <1>7 DEF TableOK

LEMMA RefUsersOK ==
  ASSUME NEW m, NEW n, NEW B, NEW N, NEW N2, NEW L, NEW r \in L, NEW H, NEW ts \in Nat,
         IsFiniteSet(L), RefStep(m, n, H, ts), N[r] \cap H = {},
         TableOK(m), CountOK(m, N, L), OwnOK(m, B, L), ShareOK(m, B, N2, L),
         \A s \in L : N2[s] = IF s = r THEN N[r] \cup (H \cap DOMAIN m.table) ELSE N[s]
  PROVE  GpuOK(n, B, N2, L)
<1>1. TableOK(n)
  BY RefTableOK
<1>2. /\ DOMAIN n.table = DOMAIN m.table
      /\ \A h \in DOMAIN m.table :
              /\ n.table[h].blk = m.table[h].blk
              /\ n.table[h].ref_cnt = IF h \in H THEN m.table[h].ref_cnt + 1 ELSE m.table[h].ref_cnt
      /\ n.free = m.free
  <2>1. RefEffect(m, n, H, ts)
    BY RefStepEffect
  <2> QED
    BY <2>1 DEF RefEffect
<1>3. OwnOK(n, B, L) /\ ShareOK(n, B, N2, L)
  BY <1>2, SameBlocks
<1>5. ASSUME NEW h \in DOMAIN n.table
      PROVE  n.table[h].ref_cnt = Cardinality({s \in L : h \in N2[s]})
  <2> DEFINE U == {s \in L : h \in N[s]}
             U2 == {s \in L : h \in N2[s]}
  <2>1. m.table[h].ref_cnt = Cardinality(U)
    BY <1>2 DEF CountOK
  <2>2. CASE h \in H
    <3>1. U2 = U \cup {r} /\ r \notin U
      BY <1>2, <2>2
    <3>2. IsFiniteSet(U)
      BY FS_Subset
    <3> HIDE DEF U, U2
    <3>3. Cardinality(U2) = Cardinality(U) + 1
      BY <3>1, <3>2, FS_AddElement
    <3>4. n.table[h].ref_cnt = m.table[h].ref_cnt + 1
      BY <1>2, <2>2
    <3>5. n.table[h].ref_cnt = Cardinality(U2)
      BY <2>1, <3>3, <3>4
    <3> QED
      BY <3>5 DEF U2
  <2>3. CASE h \notin H
    <3>1. U2 = U
      BY <2>3
    <3> QED
      BY <1>2, <2>1, <2>3, <3>1
  <2> QED
    BY <2>2, <2>3
<1>6. \A s \in L : N2[s] \subseteq DOMAIN n.table
  BY <1>2 DEF CountOK
<1> QED
  BY <1>1, <1>3, <1>5, <1>6 DEF GpuOK, CountOK

\* User r, of the users L, comes to refer to the nodes of H, none of which it has.
Takes(m, N, N2, L, r, H) ==
  /\ N[r] \cap H = {}
  /\ \A s \in L : N2[s] = IF s = r THEN N[r] \cup (H \cap DOMAIN m.table) ELSE N[s]

LEMMA RefGpuOK ==
  ASSUME NEW m, NEW n, NEW B, NEW N, NEW N2, NEW L, NEW r \in L, NEW H, NEW ts \in Nat,
         IsFiniteSet(L), GpuOK(m, B, N, L), RefStep(m, n, H, ts), Takes(m, N, N2, L, r, H)
  PROVE  GpuOK(n, B, N2, L)
<1>0. /\ N[r] \cap H = {}
      /\ \A s \in L : N2[s] = IF s = r THEN N[r] \cup (H \cap DOMAIN m.table) ELSE N[s]
  BY DEF Takes
<1>1. TableOK(m)
  BY DEF GpuOK
<1>2. CountOK(m, N, L)
  BY DEF GpuOK
<1>3. OwnOK(m, B, L)
  BY DEF GpuOK
<1>4. ShareOK(m, B, N2, L)
  BY <1>0 DEF GpuOK, ShareOK
<1> QED
  BY <1>0, <1>1, <1>2, <1>3, <1>4, RefUsersOK

\* Where nothing but the names of the users changes.
LEMMA SameUsers ==
  ASSUME NEW m, NEW B, NEW B2, NEW N, NEW N2, NEW L, GpuOK(m, B, N, L),
         \A r \in L : N2[r] = N[r] /\ B2[r] = B[r]
  PROVE  GpuOK(m, B2, N2, L)
<1>1. CountOK(m, N2, L)
  <2>1. \A h : {r \in L : h \in N2[r]} = {r \in L : h \in N[r]}
    OBVIOUS
  <2> QED
    BY <2>1 DEF GpuOK, CountOK
<1>2. OwnOK(m, B2, L)
  BY DEF GpuOK, OwnOK
<1>3. ShareOK(m, B2, N2, L)
  BY DEF GpuOK, ShareOK
<1> QED
  BY <1>1, <1>2, <1>3 DEF GpuOK

\* A user that has nothing changes nothing.
LEMMA AddUser ==
  ASSUME NEW m, NEW B, NEW N, NEW L, NEW r, GpuOK(m, B, N, L), N[r] = {}, B[r] = {}
  PROVE  GpuOK(m, B, N, L \cup {r})
<1>1. CountOK(m, N, L \cup {r})
  <2>1. \A h : {s \in L \cup {r} : h \in N[s]} = {s \in L : h \in N[s]}
    OBVIOUS
  <2> QED
    BY <2>1 DEF GpuOK, CountOK
<1>2. OwnOK(m, B, L \cup {r})
  <2>1. \A b : (\E s \in L \cup {r} : b \in B[s]) <=> (\E s \in L : b \in B[s])
    OBVIOUS
  <2> QED
    BY <2>1 DEF GpuOK, OwnOK
<1>3. ShareOK(m, B, N, L \cup {r})
  BY DEF GpuOK, ShareOK
<1> QED
  BY <1>1, <1>2, <1>3 DEF GpuOK

\* A user of the nodes in H goes.
UnrefStep(m, n, H) ==
  /\ ManagerShape(n)
  /\ n.table = Unreferred(m.table, H)
  /\ n.extra = m.extra
  /\ n.evictor = m.evictor \cup {h \in H : m.table[h].ref_cnt = 1}
  /\ n.free = m.free /\ n.kv = m.kv /\ n.fault = m.fault

LEMMA UnRefIsStep ==
  ASSUME NEW m, ManagerShape(m), NEW H, H \subseteq DOMAIN m.table
  PROVE  /\ UnrefStep(m, UnRef(m, H), H)
         /\ UnRef(m, H).cpu = update_node_ts(m.cpu, [h \in H |-> m.table[h].ts])
BY UnRefFields DEF UnrefStep

LEMMA UnrefStepFacts ==
  ASSUME NEW m, NEW n, TableOK(m), NEW H, UnrefStep(m, n, H),
         \A h \in H : h \in DOMAIN m.table /\ m.table[h].ref_cnt > 0
  PROVE  /\ DOMAIN n.table = DOMAIN m.table /\ n.free = m.free /\ ManagerShape(n)
         /\ \A h \in DOMAIN m.table :
              /\ n.table[h] \in [blk : Blocks, ref_cnt : Nat, ts : Nat]
              /\ n.table[h].blk = m.table[h].blk
              /\ n.table[h].ref_cnt = IF h \in H THEN m.table[h].ref_cnt - 1 ELSE m.table[h].ref_cnt
              /\ n.table[h].ts = m.table[h].ts
<1>1. DOMAIN n.table = DOMAIN m.table /\ n.free = m.free /\ ManagerShape(n)
  BY DEF Unreferred, UnrefStep
<1>2. ASSUME NEW h \in DOMAIN m.table
      PROVE  /\ n.table[h] \in [blk : Blocks, ref_cnt : Nat, ts : Nat]
             /\ n.table[h].blk = m.table[h].blk
             /\ n.table[h].ref_cnt = IF h \in H THEN m.table[h].ref_cnt - 1 ELSE m.table[h].ref_cnt
             /\ n.table[h].ts = m.table[h].ts
  <2> DEFINE x == m.table[h]
  <2>1. x \in [blk : Blocks, ref_cnt : Nat, ts : Nat]
    BY DEF TableOK
  <2>2. n.table[h] = IF h \in H THEN [x EXCEPT !.ref_cnt = @ - 1] ELSE x
    BY DEF Unreferred, UnrefStep
  <2>3. h \in H => x.ref_cnt > 0
    OBVIOUS
  <2> HIDE DEF x
  <2>4. /\ n.table[h] \in [blk : Blocks, ref_cnt : Nat, ts : Nat]
        /\ n.table[h].blk = x.blk
        /\ n.table[h].ref_cnt = IF h \in H THEN x.ref_cnt - 1 ELSE x.ref_cnt
        /\ n.table[h].ts = x.ts
    <3>1. CASE h \in H
      <4>1. n.table[h] = [blk |-> x.blk, ref_cnt |-> x.ref_cnt - 1, ts |-> x.ts]
        BY <2>1, <2>2, <3>1
      <4>2. x.ref_cnt - 1 \in Nat
        BY <2>1, <2>3, <3>1
      <4> QED
        BY <2>1, <3>1, <4>1, <4>2
    <3>2. CASE h \notin H
      BY <2>1, <2>2, <3>2
    <3> QED
      BY <3>1, <3>2
  <2> QED
    BY <2>4 DEF x
<1> QED
  BY <1>1, <1>2

\* The nodes are the same but for their users.
SameNodes(m, n) ==
  /\ DOMAIN n.table = DOMAIN m.table
  /\ \A h \in DOMAIN m.table :
       n.table[h].blk = m.table[h].blk /\ n.table[h].ts = m.table[h].ts

LEMMA UnrefOK ==
  ASSUME NEW m, NEW n, NEW N, NEW L, NEW r \in L, IsFiniteSet(L), NEW H, H = N[r],
         TableOK(m), CountOK(m, N, L), UnrefStep(m, n, H)
  PROVE  /\ TableOK(n)
         /\ CountOK(n, N, L \ {r})
         /\ n.free = m.free /\ SameNodes(m, n)
<1> DEFINE U(h) == {s \in L : h \in N[s]}
           V(h) == {s \in L \ {r} : h \in N[s]}
<1>1. \A h \in DOMAIN m.table : m.table[h].ref_cnt = Cardinality(U(h)) /\ IsFiniteSet(U(h))
  BY FS_Subset DEF CountOK
<1>2. ASSUME NEW h \in N[r]
      PROVE  /\ h \in DOMAIN m.table /\ m.table[h].ref_cnt > 0
             /\ Cardinality(V(h)) = m.table[h].ref_cnt - 1
  <2>1. h \in DOMAIN m.table
    BY DEF CountOK
  <2>2. r \in U(h) /\ V(h) = U(h) \ {r} /\ IsFiniteSet(U(h))
    BY <1>1, <2>1
  <2>3. Cardinality(U(h)) = m.table[h].ref_cnt
    BY <1>1, <2>1
  <2> HIDE DEF U, V
  <2>4. Cardinality(V(h)) = Cardinality(U(h)) - 1 /\ Cardinality(V(h)) \in Nat /\ Cardinality(U(h)) \in Nat
    BY <2>2, FS_RemoveElement, FS_CardinalityType
  <2> QED
    BY <2>1, <2>3, <2>4
<1>3. \A h \in N[r] : h \in DOMAIN m.table /\ m.table[h].ref_cnt > 0
  BY <1>2
<1>4. /\ DOMAIN n.table = DOMAIN m.table /\ n.free = m.free /\ ManagerShape(n)
      /\ \A h \in DOMAIN m.table :
           /\ n.table[h] \in [blk : Blocks, ref_cnt : Nat, ts : Nat]
           /\ n.table[h].blk = m.table[h].blk
           /\ n.table[h].ref_cnt = IF h \in N[r] THEN m.table[h].ref_cnt - 1 ELSE m.table[h].ref_cnt
           /\ n.table[h].ts = m.table[h].ts
  BY <1>3, UnrefStepFacts
<1>5. CountOK(n, N, L \ {r})
  <2>1. ASSUME NEW h \in DOMAIN n.table
        PROVE  n.table[h].ref_cnt = Cardinality(V(h))
    <3>1. CASE h \in N[r]
      BY <1>2, <1>4, <3>1
    <3>2. CASE h \notin N[r]
      <4>1. V(h) = U(h)
        BY <3>2
      <4> QED
        BY <1>1, <1>4, <3>2, <4>1
    <3> QED
      BY <3>1, <3>2
  <2>2. \A s \in L \ {r} : N[s] \subseteq DOMAIN n.table
    BY <1>4 DEF CountOK
  <2> QED
    BY <2>1, <2>2 DEF CountOK
<1>6. NodeBlocks(n) = NodeBlocks(m)
  BY <1>4, SameBlocks
<1>7. n.extra = NodeBlocks(n)
  BY <1>6 DEF TableOK, UnrefStep
<1>8. n.evictor = {h \in DOMAIN n.table : n.table[h].ref_cnt = 0}
  <2>1. \A h \in DOMAIN m.table : m.table[h].ref_cnt \in Nat
    BY DEF TableOK
  <2>2. \A h \in DOMAIN m.table :
          n.table[h].ref_cnt = 0 <=> m.table[h].ref_cnt = 0 \/ (h \in N[r] /\ m.table[h].ref_cnt = 1)
    BY <1>3, <1>4, <2>1
  <2>3. m.evictor = {h \in DOMAIN m.table : m.table[h].ref_cnt = 0}
    BY DEF TableOK
  <2>4. n.evictor = m.evictor \cup {h \in N[r] : m.table[h].ref_cnt = 1}
    BY DEF UnrefStep
  <2> QED
    BY <1>3, <1>4, <2>2, <2>3, <2>4
<1>9. TableOK(n)
  BY <1>4, <1>7, <1>8 DEF TableOK
<1> QED
  BY <1>4, <1>5, <1>9 DEF SameNodes

\* The user has no blocks: what UnRef of GenerateContinueContext does.
LEMMA UnrefGpuOK ==
  ASSUME NEW m, NEW n, NEW B, NEW N, NEW L, NEW r \in L, IsFiniteSet(L),
         GpuOK(m, B, N, L), NEW H, H = N[r], UnrefStep(m, n, H), B[r] = {}
  PROVE  /\ GpuOK(n, B, N, L \ {r})
         /\ n.free = m.free /\ SameNodes(m, n)
<1>a. TableOK(m)
  BY DEF GpuOK
<1>b. CountOK(m, N, L)
  BY DEF GpuOK
<1>1. /\ TableOK(n) /\ CountOK(n, N, L \ {r})
      /\ n.free = m.free /\ SameNodes(m, n)
  BY <1>a, <1>b, UnrefOK
<1>2. OwnOK(n, B, L) /\ ShareOK(n, B, N, L)
  BY <1>1, SameBlocks DEF GpuOK, SameNodes
<1>3. OwnOK(n, B, L \ {r})
  <2>1. \A b : (\E s \in L \ {r} : b \in B[s]) <=> (\E s \in L : b \in B[s])
    OBVIOUS
  <2> QED
    BY <1>2, <2>1 DEF OwnOK
<1>4. ShareOK(n, B, N, L \ {r})
  BY <1>2 DEF ShareOK
<1> QED
  BY <1>1, <1>3, <1>4 DEF GpuOK

\* The blocks of an injective virtual cache are released once each.
LEMMA ReleaseCount ==
  ASSUME NEW blk, IsInjective(blk), NEW b
  PROVE  Cardinality({i \in DOMAIN blk : blk[i] = b}) = IF b \in Range(blk) THEN 1 ELSE 0
<1>1. CASE b \in Range(blk)
  <2>1. PICK i \in DOMAIN blk : blk[i] = b
    BY <1>1 DEF Range
  <2>2. {j \in DOMAIN blk : blk[j] = b} = {i}
    BY <2>1 DEF IsInjective
  <2> QED
    BY <1>1, <2>2, FS_Singleton
<1>2. CASE b \notin Range(blk)
  <2>1. {j \in DOMAIN blk : blk[j] = b} = {}
    BY <1>2 DEF Range
  <2> QED
    BY <1>2, <2>1, FS_EmptySet
<1> QED
  BY <1>1, <1>2

\* The user r goes and its virtual cache is released.
LEMMA ReleaseGpuOK ==
  ASSUME NEW m, NEW B, NEW N, NEW L, NEW r \in L, NEW cache,
         TableOK(m), CountOK(m, N, L \ {r}), OwnOK(m, B, L), ShareOK(m, B, N, L),
         IsInjective(cache), Range(cache) = B[r]
  PROVE  /\ GpuOK(ReleaseSpans(m, cache), B, N, L \ {r})
         /\ ReleaseSpans(m, cache).table = m.table
<1> DEFINE blk == OwnSpans(m, cache)
           n == ReleaseSpans(m, cache)
<1>1. /\ ManagerShape(n)
      /\ n.free = Freed(m.free, blk)
      /\ n.table = m.table /\ n.evictor = m.evictor /\ n.extra = m.extra
  <2>1. ManagerShape(m)
    BY DEF TableOK
  <2> QED
    BY <2>1, ReleaseSpansFields
<1>2. IsInjective(blk) /\ Range(blk) = B[r] \ NodeBlocks(m)
  <2>1. m.extra = NodeBlocks(m)
    BY DEF TableOK
  <2>2. DOMAIN blk = {j \in DOMAIN cache : cache[j] \notin m.extra} /\ \A j \in DOMAIN blk : blk[j] = cache[j]
    BY DEF Restrict, OwnSpans
  <2> HIDE DEF blk
  <2>3. IsInjective(blk)
    BY ONLY <2>2, IsInjective(cache) DEF IsInjective
  <2>4. Range(blk) = Range(cache) \ m.extra
    BY ONLY <2>2 DEF Range
  <2> QED
    BY ONLY <2>1, <2>3, <2>4, Range(cache) = B[r]
<1> HIDE DEF blk, n
<1>3. NodeBlocks(n) = NodeBlocks(m)
  BY <1>1 DEF NodeBlocks
<1>4. \A b \in Blocks : m.free[b] \in Nat
  BY DEF TableOK
<1>5. ASSUME NEW b \in Blocks
      PROVE  n.free[b] = IF b \in NodeBlocks(n) \/ (\E s \in L \ {r} : b \in B[s]) THEN 0 ELSE 1
  <2>1. n.free[b] = m.free[b] + (IF b \in Range(blk) THEN 1 ELSE 0)
    BY <1>1, <1>2, ReleaseCount DEF Freed
  <2>2. m.free[b] = IF b \in NodeBlocks(m) \/ (\E s \in L : b \in B[s]) THEN 0 ELSE 1
    BY DEF OwnOK
  <2>3. CASE b \in B[r] \ NodeBlocks(m)
    <3>1. \A s \in L \ {r} : b \notin B[s]
      BY <2>3 DEF ShareOK
    <3>2. b \in Range(blk) /\ m.free[b] = 0
      BY <1>2, <2>2, <2>3
    <3> QED
      BY <1>3, <2>1, <2>3, <3>1, <3>2
  <2>4. CASE b \notin B[r] \ NodeBlocks(m)
    <3>1. b \notin Range(blk)
      BY <1>2, <2>4
    <3>2. n.free[b] = m.free[b]
      BY <1>4, <2>1, <3>1
    <3> QED
      BY <1>3, <2>2, <2>4, <3>2
  <2> QED
    BY <2>3, <2>4
<1>6. OwnOK(n, B, L \ {r})
  BY <1>5 DEF OwnOK
<1>7. n.free \in [Blocks -> Nat]
  <2>1. \A b \in Blocks : n.free[b] \in Nat
    BY <1>5
  <2>2. n.free = [b \in Blocks |-> n.free[b]]
    BY <1>1 DEF Freed
  <2> QED
    BY <2>1, <2>2
<1>8. TableOK(n)
  BY <1>1, <1>3, <1>7 DEF TableOK
<1>9. CountOK(n, N, L \ {r}) /\ ShareOK(n, B, N, L \ {r})
  BY <1>1, <1>3 DEF CountOK, ShareOK
<1>10. GpuOK(n, B, N, L \ {r}) /\ n.table = m.table
  BY <1>1, <1>6, <1>8, <1>9 DEF GpuOK
<1> QED
  BY <1>10 DEF n

\* Nodes nobody refers to are deleted.
DeleteStep(m, n, H) ==
  /\ ManagerShape(n)
  /\ n.free = Freed(m.free, NodeSpans(m, H))
  /\ n.table = Restrict(m.table, DOMAIN m.table \ H)
  /\ n.evictor = m.evictor \ H
  /\ n.extra = m.extra \ Range(NodeSpans(m, H))
  /\ n.kv = Wiped(m.kv, NodeSpans(m, H))
  /\ n.cpu = m.cpu
  /\ n.fault = m.fault
FewerNodes(m, n, H) ==
  /\ DOMAIN n.table = DOMAIN m.table \ H
  /\ \A h \in DOMAIN m.table \ H : n.table[h] = m.table[h]

LEMMA DeleteNodesStep ==
  ASSUME NEW m, ManagerShape(m), NEW H
  PROVE  DeleteStep(m, delete_nodes(m, H), H)
<1> DEFINE blk == NodeSpans(m, H)
           f == FreeFrames(m, blk)
           d == delete_nodes(m, H)
<1>1. d = [f EXCEPT !.extra = @ \ Range(blk), !.evictor = @ \ H,
                    !.table = Restrict(@, DOMAIN @ \ H)]
  BY DEF delete_nodes, NodeSpans
<1>2. /\ ManagerShape(f)
      /\ f.free = Freed(m.free, blk) /\ f.kv = Wiped(m.kv, blk)
      /\ f.table = m.table /\ f.evictor = m.evictor /\ f.extra = m.extra
      /\ f.cpu = m.cpu /\ f.fault = m.fault
  BY FreeFramesFields
<1> HIDE DEF f, blk, d
<1>3. d = [table |-> Restrict(f.table, DOMAIN f.table \ H), evictor |-> f.evictor \ H,
           free |-> f.free, extra |-> f.extra \ Range(blk), kv |-> f.kv, cpu |-> f.cpu,
           fault |-> f.fault]
  BY <1>1, <1>2 DEF ManagerShape
<1>4. /\ ManagerShape(d)
      /\ d.table = Restrict(m.table, DOMAIN m.table \ H)
      /\ d.evictor = m.evictor \ H
      /\ d.extra = m.extra \ Range(blk)
      /\ d.free = f.free /\ d.kv = f.kv /\ d.cpu = m.cpu /\ d.fault = m.fault
  BY <1>2, <1>3 DEF ManagerShape
<1>5. DeleteStep(m, d, H)
  BY <1>2, <1>4 DEF DeleteStep, blk
<1> QED
  BY <1>5 DEF d

LEMMA DeleteGpuOK ==
  ASSUME NEW m, NEW n, NEW B, NEW N, NEW L, NEW H, IsFiniteSet(L),
         GpuOK(m, B, N, L), H \subseteq m.evictor, DeleteStep(m, n, H)
  PROVE  GpuOK(n, B, N, L) /\ FewerNodes(m, n, H)
<1> DEFINE blk == NodeSpans(m, H)
<1>0. TableOK(m) /\ CountOK(m, N, L) /\ OwnOK(m, B, L) /\ ShareOK(m, B, N, L) /\ ManagerShape(m)
  BY DEF GpuOK, TableOK
<1>1. /\ ManagerShape(n)
      /\ n.free = Freed(m.free, blk)
      /\ n.table = Restrict(m.table, DOMAIN m.table \ H)
      /\ n.evictor = m.evictor \ H /\ n.extra = m.extra \ Range(blk)
  BY DEF DeleteStep
<1>2. H \subseteq DOMAIN m.table /\ \A h \in H : m.table[h].ref_cnt = 0
  BY <1>0 DEF TableOK
<1>3. \A g, h \in DOMAIN m.table : m.table[g].blk = m.table[h].blk => g = h
  BY <1>0 DEF TableOK
<1>4. IsInjective(blk) /\ Range(blk) = {m.table[h].blk : h \in H}
  BY <1>2, <1>3 DEF IsInjective, Range, NodeSpans
<1> HIDE DEF blk
<1>5. DOMAIN n.table = DOMAIN m.table \ H /\ \A h \in DOMAIN m.table \ H : n.table[h] = m.table[h]
  BY <1>1 DEF Restrict
<1>6. NodeBlocks(n) = NodeBlocks(m) \ Range(blk)
  BY <1>2, <1>3, <1>4, <1>5 DEF NodeBlocks
<1>7. \A h \in H : \A s \in L : h \notin N[s] /\ m.table[h].blk \notin B[s]
  <2> SUFFICES ASSUME NEW h \in H
               PROVE  \A s \in L : h \notin N[s] /\ m.table[h].blk \notin B[s]
    OBVIOUS
  <2> DEFINE U == {s \in L : h \in N[s]}
  <2>1. Cardinality(U) = 0
    BY <1>0, <1>2 DEF CountOK
  <2>2. IsFiniteSet(U)
    BY FS_Subset
  <2>3. U = {}
    <3> HIDE DEF U
    <3> QED
      BY <2>1, <2>2, FS_EmptySet
  <2>4. \A s \in L : h \notin N[s]
    BY <2>3
  <2> QED
    BY <1>0, <1>2, <2>4 DEF ShareOK
<1>8. \A b \in Blocks : m.free[b] \in Nat
  BY <1>0 DEF TableOK
<1>9. ASSUME NEW b \in Blocks
      PROVE  n.free[b] = IF b \in NodeBlocks(n) \/ (\E s \in L : b \in B[s]) THEN 0 ELSE 1
  <2>1. n.free[b] = m.free[b] + (IF b \in Range(blk) THEN 1 ELSE 0)
    BY <1>1, <1>4, ReleaseCount DEF Freed
  <2>2. m.free[b] = IF b \in NodeBlocks(m) \/ (\E s \in L : b \in B[s]) THEN 0 ELSE 1
    BY <1>0 DEF OwnOK
  <2>3. CASE b \in Range(blk)
    <3>1. b \in NodeBlocks(m) /\ \A s \in L : b \notin B[s]
      BY <1>2, <1>4, <1>7, <2>3 DEF NodeBlocks
    <3>2. m.free[b] = 0
      BY <2>2, <3>1
    <3> QED
      BY <1>6, <2>1, <2>3, <3>1, <3>2
  <2>4. CASE b \notin Range(blk)
    <3>1. n.free[b] = m.free[b]
      BY <1>8, <2>1, <2>4
    <3> QED
      BY <1>6, <2>2, <2>4, <3>1
  <2> QED
    BY <2>3, <2>4
<1>10. n.free \in [Blocks -> Nat]
  <2>1. \A b \in Blocks : n.free[b] \in Nat
    BY <1>9
  <2>2. n.free = [b \in Blocks |-> n.free[b]]
    BY <1>1 DEF Freed
  <2> QED
    BY <2>1, <2>2
<1>11. TableOK(n)
  <2>1. IsFiniteSet(DOMAIN n.table)
    BY <1>0, <1>5, FS_Subset DEF TableOK
  <2>2. \A h \in DOMAIN n.table :
          h \in Seq(Tokens) /\ n.table[h] \in [blk : Blocks, ref_cnt : Nat, ts : Nat]
    BY <1>0, <1>5 DEF TableOK
  <2>3. n.extra = NodeBlocks(n)
    BY <1>0, <1>1, <1>6 DEF TableOK
  <2>4. n.evictor = {h \in DOMAIN n.table : n.table[h].ref_cnt = 0}
    BY <1>0, <1>1, <1>5 DEF TableOK
  <2> QED
    BY <1>1, <1>3, <1>5, <1>10, <2>1, <2>2, <2>3, <2>4 DEF TableOK
<1>12. CountOK(n, N, L)
  BY <1>0, <1>5, <1>7 DEF CountOK
<1>13. ShareOK(n, B, N, L)
  <2>1. \A r, s \in L : r # s => B[r] \cap B[s] \subseteq NodeBlocks(n)
    BY <1>0, <1>4, <1>6, <1>7 DEF ShareOK
  <2> QED
    BY <1>0, <1>5, <2>1 DEF ShareOK
<1>14. GpuOK(n, B, N, L)
  BY <1>9, <1>11, <1>12, <1>13 DEF GpuOK, OwnOK
<1> QED
  BY <1>5, <1>14 DEF FewerNodes

\* The blocks R leave the free queue and become blocks of users.
ClaimStep(m, n, R) ==
  /\ ManagerShape(n) /\ n.cpu = m.cpu
  /\ n.table = m.table /\ n.evictor = m.evictor /\ n.extra = m.extra
  /\ R \subseteq FreeBlocks(m)
  /\ n.free = [b \in Blocks |-> IF b \in R THEN m.free[b] - 1 ELSE m.free[b]]

LEMMA ClaimGpuOK ==
  ASSUME NEW m, NEW n, NEW B, NEW B2, NEW N, NEW L, NEW R,
         GpuOK(m, B, N, L), ClaimStep(m, n, R),
         \A s \in L : B[s] \subseteq B2[s] /\ B2[s] \subseteq B[s] \cup R,
         \A s, t \in L : s # t => B2[s] \cap B2[t] \cap R = {},
         \A b \in R : \E s \in L : b \in B2[s]
  PROVE  /\ GpuOK(n, B2, N, L)
         /\ \A b \in R : b \notin NodeBlocks(m) /\ \A s \in L : b \notin B[s]
<1>0. TableOK(m) /\ CountOK(m, N, L) /\ OwnOK(m, B, L) /\ ShareOK(m, B, N, L)
  BY DEF GpuOK
<1>1. /\ ManagerShape(n) /\ n.table = m.table /\ n.evictor = m.evictor /\ n.extra = m.extra
      /\ n.free = [b \in Blocks |-> IF b \in R THEN m.free[b] - 1 ELSE m.free[b]]
  BY DEF ClaimStep
<1>2. ASSUME NEW b \in R
      PROVE  b \in Blocks /\ m.free[b] = 1 /\ b \notin NodeBlocks(m) /\ \A s \in L : b \notin B[s]
  <2>1. b \in Blocks /\ m.free[b] > 0
    BY DEF ClaimStep, FreeBlocks
  <2>2. m.free[b] = IF b \in NodeBlocks(m) \/ (\E s \in L : b \in B[s]) THEN 0 ELSE 1
    BY <1>0, <2>1 DEF OwnOK
  <2>3. ~(b \in NodeBlocks(m) \/ (\E s \in L : b \in B[s]))
    BY <2>1, <2>2
  <2> QED
    BY <2>1, <2>2, <2>3
<1>3. NodeBlocks(n) = NodeBlocks(m)
  BY <1>1 DEF NodeBlocks
<1>4. ASSUME NEW b \in Blocks
      PROVE  n.free[b] = IF b \in NodeBlocks(n) \/ (\E s \in L : b \in B2[s]) THEN 0 ELSE 1
  <2>1. CASE b \in R
    <3>1. n.free[b] = 0
      BY <1>1, <1>2, <2>1
    <3> QED
      BY <2>1, <3>1
  <2>2. CASE b \notin R
    <3>1. n.free[b] = m.free[b]
      BY <1>1, <2>2
    <3>2. \A s \in L : b \in B2[s] <=> b \in B[s]
      BY <2>2
    <3> QED
      BY <1>0, <1>3, <3>1, <3>2 DEF OwnOK
  <2> QED
    BY <2>1, <2>2
<1>5. n.free \in [Blocks -> Nat]
  <2>1. \A b \in Blocks : n.free[b] \in Nat
    BY <1>4
  <2> QED
    BY <1>1, <2>1
<1>6. TableOK(n)
  BY <1>0, <1>1, <1>3, <1>5 DEF TableOK
<1>7. CountOK(n, N, L)
  BY <1>0, <1>1 DEF CountOK
<1>8. ShareOK(n, B2, N, L)
  <2>1. \A s \in L : B2[s] \subseteq Blocks
    BY <1>0, <1>2 DEF ShareOK
  <2>2. \A s, t \in L : s # t => B2[s] \cap B2[t] \subseteq NodeBlocks(n)
    BY <1>0, <1>3 DEF ShareOK
  <2>3. ASSUME NEW s \in L, NEW h \in DOMAIN n.table, n.table[h].blk \in B2[s]
        PROVE  h \in N[s]
    <3>1. n.table[h].blk \in NodeBlocks(m)
      BY <1>1 DEF NodeBlocks
    <3>2. n.table[h].blk \in B[s]
      BY <1>2, <2>3, <3>1
    <3> QED
      BY <1>0, <1>1, <3>2 DEF ShareOK
  <2> QED
    BY <2>1, <2>2, <2>3 DEF ShareOK
<1> QED
  BY <1>2, <1>4, <1>6, <1>7, <1>8 DEF GpuOK, OwnOK

\* The blocks that new has are of r alone.
InsertStep(m, n, new) ==
  /\ ManagerShape(n) /\ n.free = m.free /\ n.kv = m.kv /\ n.cpu = m.cpu
  /\ n.table = Joined(m.table, new)
  /\ n.extra = m.extra \cup {new[h].blk : h \in DOMAIN new}
  /\ n.evictor = m.evictor \cup DOMAIN new
NewNodes(m, new, own) ==
  /\ IsFiniteSet(DOMAIN new) /\ DOMAIN new \cap DOMAIN m.table = {}
  /\ \A h \in DOMAIN new :
       /\ h \in Seq(Tokens) /\ new[h] \in [blk : Blocks, ref_cnt : Nat, ts : Nat]
       /\ new[h].ref_cnt = 0 /\ new[h].blk \in own /\ new[h].blk \notin NodeBlocks(m)
  /\ \A g, h \in DOMAIN new : new[g].blk = new[h].blk => g = h

LEMMA InsertTable ==
  ASSUME NEW m, NEW n, NEW new, NEW own, TableOK(m), InsertStep(m, n, new), NewNodes(m, new, own)
  PROVE  /\ DOMAIN n.table = DOMAIN m.table \cup DOMAIN new
         /\ \A h \in DOMAIN m.table : n.table[h] = m.table[h]
         /\ \A h \in DOMAIN new : n.table[h] = new[h]
         /\ NodeBlocks(n) = NodeBlocks(m) \cup {new[h].blk : h \in DOMAIN new}
         /\ n.free = m.free
         /\ TableOK(n)
<1>1. /\ DOMAIN n.table = DOMAIN m.table \cup DOMAIN new
      /\ \A h \in DOMAIN n.table : n.table[h] = IF h \in DOMAIN new THEN new[h] ELSE m.table[h]
  BY DEF InsertStep, Joined
<1>2. DOMAIN m.table \cap DOMAIN new = {}
  BY DEF NewNodes
<1>3. /\ \A h \in DOMAIN m.table : n.table[h] = m.table[h]
      /\ \A h \in DOMAIN new : n.table[h] = new[h]
  BY <1>1, <1>2
<1>4. NodeBlocks(n) = NodeBlocks(m) \cup {new[h].blk : h \in DOMAIN new}
  BY <1>1, <1>3 DEF NodeBlocks
<1>5. n.free = m.free /\ ManagerShape(n) /\ n.evictor = m.evictor \cup DOMAIN new
      /\ n.extra = m.extra \cup {new[h].blk : h \in DOMAIN new}
  BY DEF InsertStep
<1>6. TableOK(n)
  <2>1. IsFiniteSet(DOMAIN n.table)
    <3>1. IsFiniteSet(DOMAIN m.table)
      BY DEF TableOK
    <3>2. IsFiniteSet(DOMAIN new)
      BY DEF NewNodes
    <3>3. IsFiniteSet(DOMAIN m.table \cup DOMAIN new)
      BY ONLY <3>1, <3>2, FS_Union
    <3>4. DOMAIN n.table = DOMAIN m.table \cup DOMAIN new
      BY ONLY <1>1
    <3> QED
      BY ONLY <3>3, <3>4
  <2>2. \A h \in DOMAIN n.table :
          h \in Seq(Tokens) /\ n.table[h] \in [blk : Blocks, ref_cnt : Nat, ts : Nat]
    BY <1>1, <1>3 DEF TableOK, NewNodes
  <2>3. ASSUME NEW g \in DOMAIN n.table, NEW h \in DOMAIN n.table, n.table[g].blk = n.table[h].blk
        PROVE  g = h
    <3>1. CASE g \in DOMAIN m.table /\ h \in DOMAIN m.table
      BY <1>3, <2>3, <3>1 DEF TableOK
    <3>2. CASE g \in DOMAIN new /\ h \in DOMAIN new
      BY <1>3, <2>3, <3>2 DEF NewNodes
    <3>3. CASE g \in DOMAIN m.table /\ h \in DOMAIN new
      <4>1. m.table[g].blk \in NodeBlocks(m)
        BY <3>3 DEF NodeBlocks
      <4> QED
        BY <1>3, <2>3, <3>3, <4>1 DEF NewNodes
    <3>4. CASE g \in DOMAIN new /\ h \in DOMAIN m.table
      <4>1. m.table[h].blk \in NodeBlocks(m)
        BY <3>4 DEF NodeBlocks
      <4> QED
        BY <1>3, <2>3, <3>4, <4>1 DEF NewNodes
    <3> QED
      BY <1>1, <3>1, <3>2, <3>3, <3>4
  <2>4. n.extra = NodeBlocks(n)
    BY <1>4, <1>5 DEF TableOK
  <2>5. n.evictor = {h \in DOMAIN n.table : n.table[h].ref_cnt = 0}
    <3>1. m.evictor = {h \in DOMAIN m.table : m.table[h].ref_cnt = 0}
      BY DEF TableOK
    <3>2. \A h \in DOMAIN new : new[h].ref_cnt = 0
      BY DEF NewNodes
    <3> QED
      BY <1>1, <1>3, <1>5, <3>1, <3>2
  <2>6. n.free \in [Blocks -> Nat]
    BY <1>5 DEF TableOK
  <2> QED
    BY <1>5, <2>1, <2>2, <2>3, <2>4, <2>5, <2>6 DEF TableOK
<1> QED
  BY <1>1, <1>3, <1>4, <1>5, <1>6

\* Nodes are inserted for blocks of r and r refers to them.
LEMMA InsertRefGpuOK ==
  ASSUME NEW m, NEW i, NEW n, NEW B, NEW N, NEW N2, NEW L, NEW r \in L, NEW new, NEW H,
         NEW ts \in Nat, NEW own, IsFiniteSet(L), GpuOK(m, B, N, L), own = B[r],
         InsertStep(m, i, new), NewNodes(m, new, own), RefStep(i, n, H, ts),
         DOMAIN new \subseteq H, Takes(i, N, N2, L, r, H)
  PROVE  GpuOK(n, B, N2, L)
<1>0. TableOK(m)
  BY DEF GpuOK
<1>01. /\ N[r] \cap H = {}
       /\ \A s \in L : N2[s] = IF s = r THEN N[r] \cup (H \cap DOMAIN i.table) ELSE N[s]
  BY DEF Takes
<1>1. /\ DOMAIN i.table = DOMAIN m.table \cup DOMAIN new
      /\ \A h \in DOMAIN m.table : i.table[h] = m.table[h]
      /\ \A h \in DOMAIN new : i.table[h] = new[h]
      /\ NodeBlocks(i) = NodeBlocks(m) \cup {new[h].blk : h \in DOMAIN new}
      /\ i.free = m.free
      /\ TableOK(i)
  BY <1>0, InsertTable
<1>2. \A h \in DOMAIN new :
        new[h].ref_cnt = 0 /\ new[h].blk \in B[r] /\ new[h].blk \notin NodeBlocks(m) /\ h \notin DOMAIN m.table
  BY DEF NewNodes
<1>3. CountOK(i, N, L)
  <2>1. \A s \in L : N[s] \subseteq DOMAIN m.table
    BY DEF GpuOK, CountOK
  <2>2. ASSUME NEW h \in DOMAIN i.table
        PROVE  i.table[h].ref_cnt = Cardinality({s \in L : h \in N[s]})
    <3>1. CASE h \in DOMAIN m.table
      BY <1>1, <3>1 DEF GpuOK, CountOK
    <3>2. CASE h \in DOMAIN new
      <4>1. {s \in L : h \in N[s]} = {}
        BY <1>2, <2>1, <3>2
      <4> QED
        BY <1>1, <1>2, <3>2, <4>1, FS_EmptySet
    <3> QED
      BY <1>1, <3>1, <3>2
  <2> QED
    BY <1>1, <2>1, <2>2 DEF CountOK
<1>4. OwnOK(i, B, L)
  <2>1. ASSUME NEW b \in Blocks
        PROVE  (b \in NodeBlocks(i) \/ \E s \in L : b \in B[s])
                 <=> (b \in NodeBlocks(m) \/ \E s \in L : b \in B[s])
    BY <1>1, <1>2
  <2> QED
    BY <1>1, <2>1 DEF GpuOK, OwnOK
<1>5. ShareOK(i, B, N2, L)
  <2>1. \A s \in L : B[s] \subseteq Blocks
    BY DEF GpuOK, ShareOK
  <2>2. \A s, t \in L : s # t => B[s] \cap B[t] \subseteq NodeBlocks(m)
    BY DEF GpuOK, ShareOK
  <2>3. \A s, t \in L : s # t => B[s] \cap B[t] \subseteq NodeBlocks(i)
    BY <1>1, <2>2
  <2>4. ASSUME NEW s \in L, NEW h \in DOMAIN i.table, i.table[h].blk \in B[s]
        PROVE  h \in N2[s]
    <3>1. CASE h \in DOMAIN m.table
      <4>1. h \in N[s]
        BY <1>1, <2>4, <3>1 DEF GpuOK, ShareOK
      <4> QED
        BY <1>1, <1>01, <3>1, <4>1
    <3>2. CASE h \in DOMAIN new
      <4>1. s = r
        BY <1>1, <1>2, <2>2, <2>4, <3>2
      <4> QED
        BY <1>01, <1>1, <3>2, <4>1
    <3> QED
      BY <1>1, <3>1, <3>2
  <2> QED
    BY <2>1, <2>3, <2>4 DEF ShareOK
<1>6. TableOK(i)
  BY <1>1
<1> QED
  BY <1>01, <1>3, <1>4, <1>5, <1>6, RefUsersOK

\* There is room in the table: its nodes have different blocks.
LEMMA InsertFits ==
  ASSUME NEW m, NEW new, NEW own, TableOK(m), NewNodes(m, new, own)
  PROVE  Cardinality(DOMAIN m.table \cup DOMAIN new) <= Capacity
<1> DEFINE D == DOMAIN m.table \cup DOMAIN new
           f == [h \in D |-> IF h \in DOMAIN new THEN new[h].blk ELSE m.table[h].blk]
<1>1. \A h \in DOMAIN new :
        new[h].blk \in Blocks /\ new[h].blk \notin NodeBlocks(m) /\ h \notin DOMAIN m.table
  BY DEF NewNodes
<1>2. \A h \in DOMAIN m.table : m.table[h].blk \in Blocks /\ m.table[h].blk \in NodeBlocks(m)
  BY DEF TableOK, NodeBlocks
<1>3. \A g, h \in DOMAIN m.table : m.table[g].blk = m.table[h].blk => g = h
  BY DEF TableOK
<1>4. \A g, h \in DOMAIN new : new[g].blk = new[h].blk => g = h
  BY DEF NewNodes
<1>5. f \in [D -> Blocks]
  BY <1>1, <1>2
<1>6. \A g, h \in D : f[g] = f[h] => g = h
  BY <1>1, <1>2, <1>3, <1>4
<1>7. f \in Injection(D, Blocks)
  BY <1>5, <1>6 DEF Injection, IsInjective
<1> HIDE DEF f, D
<1>8. IsFiniteSet(Blocks) /\ Cardinality(Blocks) = GpuBlocks
  BY FreeBlocksFinite
<1>9. Cardinality(D) <= Cardinality(Blocks)
  BY <1>7, <1>8, FS_Injection
<1> QED
  BY <1>8, <1>9 DEF D, Capacity

LEMMA InsertNodesIsStep ==
  ASSUME NEW m, NEW new, ManagerShape(m)
  PROVE  /\ m.fault \subseteq insert_nodes(m, new).fault
         /\ ManagerShape(insert_nodes(m, new))
         /\ insert_nodes(m, new).fault = {} => InsertStep(m, insert_nodes(m, new), new)
         /\ Cardinality(DOMAIN m.table \cup DOMAIN new) <= Capacity
            => insert_nodes(m, new).fault = m.fault
<1> DEFINE n == insert_nodes(m, new)
<1>1. CASE Cardinality(DOMAIN m.table \cup DOMAIN new) <= Capacity
  <2>1. n = [m EXCEPT !.table = Joined(@, new),
                 !.extra = @ \cup {new[h].blk : h \in DOMAIN new},
                 !.evictor = @ \cup DOMAIN new]
    BY <1>1 DEF insert_nodes
  <2> HIDE DEF n
  <2>2. n = [table |-> Joined(m.table, new), evictor |-> m.evictor \cup DOMAIN new, free |-> m.free,
             extra |-> m.extra \cup {new[h].blk : h \in DOMAIN new}, kv |-> m.kv, cpu |-> m.cpu,
             fault |-> m.fault]
    BY <2>1 DEF ManagerShape
  <2>3. ManagerShape(n)
    BY <2>2 DEF ManagerShape
  <2>4. InsertStep(m, n, new) /\ n.fault = m.fault
    BY <2>2, <2>3 DEF InsertStep
  <2> QED
    BY <2>3, <2>4 DEF n
<1>2. CASE ~(Cardinality(DOMAIN m.table \cup DOMAIN new) <= Capacity)
  <2>1. n = [m EXCEPT !.fault = @ \cup {"full"}]
    BY <1>2 DEF insert_nodes
  <2> HIDE DEF n
  <2>2. ManagerShape(n) /\ n.fault = m.fault \cup {"full"}
    BY <2>1 DEF ManagerShape
  <2>3. n.fault # {} /\ m.fault \subseteq n.fault
    BY <2>2
  <2> QED
    BY <1>2, <2>2, <2>3 DEF n
<1> QED
  BY <1>1, <1>2

LEMMA ClaimSpansIsStep ==
  ASSUME NEW m, ManagerShape(m), NEW data, IsFiniteSet(DOMAIN data), ClaimSpans(m, data).m.fault = {}
  PROVE  LET r == ClaimSpans(m, data)
         IN /\ ClaimStep(m, r.m, Range(r.blk))
            /\ DOMAIN r.blk = DOMAIN data /\ IsInjective(r.blk)
            /\ Range(r.blk) \subseteq FreeBlocks(m)
<1> DEFINE r == ClaimSpans(m, data)
           n == r.m
           blk == r.blk
<1>1. /\ ManagerShape(n)
      /\ blk \in [DOMAIN data -> FreeBlocks(m)] /\ IsInjective(blk)
      /\ n.free = [b \in Blocks |-> IF b \in Range(blk) THEN m.free[b] - 1 ELSE m.free[b]]
      /\ n.table = m.table /\ n.evictor = m.evictor /\ n.extra = m.extra /\ n.cpu = m.cpu
  BY ClaimSpansFields
<1> HIDE DEF r, n, blk
<1>2. Range(blk) \subseteq FreeBlocks(m)
  BY <1>1 DEF Range
<1>3. ClaimStep(m, n, Range(blk))
  BY <1>1, <1>2 DEF ClaimStep
<1> QED
  BY <1>1, <1>2, <1>3 DEF n, blk, r

-----------------------------------------------------------------------------
(* The CPU side.                                                           *)

\* The nodes in the domain of p have two units each, no unit is given away twice,
\* and what is lost never costs a node.
PairsOK(p, free) ==
  /\ IsFiniteSet(DOMAIN p)
  /\ free \subseteq Units
  /\ \A h \in DOMAIN p : /\ p[h].k \in Units /\ p[h].v \in Units /\ p[h].k # p[h].v
                         /\ p[h].k \notin free /\ p[h].v \notin free
  /\ \A g, h \in DOMAIN p : g # h => {p[g].k, p[g].v} \cap {p[h].k, p[h].v} = {}
  /\ Cardinality(free) + 2 * Cardinality(DOMAIN p) >= 2 * CpuCapacity
  /\ Cardinality(free) + 2 * Cardinality(DOMAIN p) <= CpuUnits

\* T is the youngest timestamp there is.
CpuOK(c, T) ==
  /\ CpuShape(c)
  /\ \A h \in DOMAIN c.table :
       h \in Seq(Tokens) /\ c.table[h] \in [k : Units, v : Units, ts : 0..T, ready : BOOLEAN]
  /\ PairsOK(c.table, c.free)

LEMMA UnitsFinite ==
  /\ IsFiniteSet(Units) /\ Cardinality(Units) = CpuUnits
  /\ CpuCapacity \in Nat /\ 2 * CpuCapacity <= CpuUnits /\ CpuUnits < 2 * CpuCapacity + 2
<1>1. IsFiniteSet(Units) /\ Cardinality(Units) = CpuUnits
  BY FS_Interval, PrefixCacheAssumption DEF Units
<1>2. CpuUnits \in Nat
  BY PrefixCacheAssumption
<1>3. CpuCapacity \in Nat /\ 2 * CpuCapacity <= CpuUnits /\ CpuUnits < 2 * CpuCapacity + 2
  BY <1>2 DEF CpuCapacity
<1> QED
  BY <1>1, <1>3

LEMMA PairsCounts ==
  ASSUME NEW p, NEW free, PairsOK(p, free)
  PROVE  /\ IsFiniteSet(free) /\ Cardinality(free) \in Nat
         /\ IsFiniteSet(DOMAIN p) /\ Cardinality(DOMAIN p) \in Nat
         /\ Cardinality(DOMAIN p) <= CpuCapacity
<1>1. IsFiniteSet(free) /\ IsFiniteSet(DOMAIN p)
  BY FS_Subset, UnitsFinite DEF PairsOK
<1>2. Cardinality(free) \in Nat /\ Cardinality(DOMAIN p) \in Nat
  BY <1>1, FS_CardinalityType
<1>3. Cardinality(free) + 2 * Cardinality(DOMAIN p) <= CpuUnits
  BY DEF PairsOK
<1>4. Cardinality(DOMAIN p) <= CpuCapacity
  BY <1>2, <1>3, UnitsFinite, PrefixCacheAssumption
<1> QED
  BY <1>1, <1>2, <1>4

\* Only the units matter.
LEMMA PairsSame ==
  ASSUME NEW p, NEW p2, NEW free, PairsOK(p, free), DOMAIN p2 = DOMAIN p,
         \A h \in DOMAIN p : p2[h].k = p[h].k /\ p2[h].v = p[h].v
  PROVE  PairsOK(p2, free)
BY DEF PairsOK

\* A node gives its units back.
LEMMA PairsDrop ==
  ASSUME NEW p, NEW p2, NEW free, NEW free2, NEW h \in DOMAIN p, PairsOK(p, free),
         DOMAIN p2 = DOMAIN p \ {h},
         \A g \in DOMAIN p2 : p2[g].k = p[g].k /\ p2[g].v = p[g].v,
         free2 = free \cup {p[h].k, p[h].v}
  PROVE  PairsOK(p2, free2) /\ Cardinality(free2) = Cardinality(free) + 2
<1>1. /\ IsFiniteSet(free) /\ Cardinality(free) \in Nat
      /\ IsFiniteSet(DOMAIN p) /\ Cardinality(DOMAIN p) \in Nat
  BY PairsCounts
<1>2. /\ p[h].k \in Units /\ p[h].v \in Units /\ p[h].k # p[h].v
      /\ p[h].k \notin free /\ p[h].v \notin free
  BY DEF PairsOK
<1> DEFINE f1 == free \cup {p[h].k}
<1>3. IsFiniteSet(f1) /\ Cardinality(f1) = Cardinality(free) + 1
  BY <1>1, <1>2, FS_AddElement
<1>4. free2 = f1 \cup {p[h].v} /\ p[h].v \notin f1
  BY <1>2
<1> HIDE DEF f1
<1>5. Cardinality(free2) = Cardinality(free) + 2
  <2>1. Cardinality(f1 \cup {p[h].v}) = Cardinality(f1) + 1
    BY <1>3, <1>4, FS_AddElement
  <2>2. Cardinality(free2) = Cardinality(f1) + 1
    BY ONLY <1>4, <2>1, Zenon
  <2> QED
    BY <1>1, <1>3, <2>2
<1>6. IsFiniteSet(DOMAIN p2) /\ Cardinality(DOMAIN p2) = Cardinality(DOMAIN p) - 1
  BY <1>1, FS_RemoveElement
<1>7. /\ Cardinality(free2) + 2 * Cardinality(DOMAIN p2) >= 2 * CpuCapacity
      /\ Cardinality(free2) + 2 * Cardinality(DOMAIN p2) <= CpuUnits
  <2>1. /\ Cardinality(free) + 2 * Cardinality(DOMAIN p) >= 2 * CpuCapacity
        /\ Cardinality(free) + 2 * Cardinality(DOMAIN p) <= CpuUnits
    BY DEF PairsOK
  <2> QED
    BY <1>1, <1>5, <1>6, <2>1
<1>8. free2 \subseteq Units
  BY <1>2 DEF PairsOK
<1>9. \A g \in DOMAIN p2 : /\ p2[g].k \in Units /\ p2[g].v \in Units /\ p2[g].k # p2[g].v
                           /\ p2[g].k \notin free2 /\ p2[g].v \notin free2
  <2> SUFFICES ASSUME NEW g \in DOMAIN p2
               PROVE  /\ p[g].k \in Units /\ p[g].v \in Units /\ p[g].k # p[g].v
                      /\ p[g].k \notin free2 /\ p[g].v \notin free2
    OBVIOUS
  <2>1. g \in DOMAIN p /\ g # h
    OBVIOUS
  <2>2. {p[g].k, p[g].v} \cap {p[h].k, p[h].v} = {}
    BY <2>1 DEF PairsOK
  <2>3. /\ p[g].k \in Units /\ p[g].v \in Units /\ p[g].k # p[g].v
        /\ p[g].k \notin free /\ p[g].v \notin free
    BY <2>1 DEF PairsOK
  <2> QED
    BY <2>2, <2>3
<1>10. \A f, g \in DOMAIN p2 : f # g => {p2[f].k, p2[f].v} \cap {p2[g].k, p2[g].v} = {}
  BY DEF PairsOK
<1> QED
  BY <1>5, <1>6, <1>7, <1>8, <1>9, <1>10 DEF PairsOK

\* A node gets two free units.
LEMMA PairsAdd ==
  ASSUME NEW p, NEW p2, NEW free, NEW free2, NEW h, h \notin DOMAIN p, PairsOK(p, free),
         DOMAIN p2 = DOMAIN p \cup {h},
         \A g \in DOMAIN p : p2[g].k = p[g].k /\ p2[g].v = p[g].v,
         p2[h].k \in free, p2[h].v \in free, p2[h].k # p2[h].v,
         free2 = free \ {p2[h].k, p2[h].v}
  PROVE  PairsOK(p2, free2)
<1>1. /\ IsFiniteSet(free) /\ Cardinality(free) \in Nat
      /\ IsFiniteSet(DOMAIN p) /\ Cardinality(DOMAIN p) \in Nat
  BY PairsCounts
<1> DEFINE f1 == free \ {p2[h].k}
<1>3. IsFiniteSet(f1) /\ Cardinality(f1) = Cardinality(free) - 1
  BY <1>1, FS_RemoveElement
<1>4. free2 = f1 \ {p2[h].v} /\ p2[h].v \in f1
  OBVIOUS
<1> HIDE DEF f1
<1>5. Cardinality(free2) = Cardinality(free) - 2
  <2>1. Cardinality(f1 \ {p2[h].v}) = Cardinality(f1) - 1
    BY <1>3, <1>4, FS_RemoveElement
  <2>2. Cardinality(free2) = Cardinality(f1) - 1
    BY ONLY <1>4, <2>1, Zenon
  <2> QED
    BY <1>1, <1>3, <2>2
<1>6. IsFiniteSet(DOMAIN p2) /\ Cardinality(DOMAIN p2) = Cardinality(DOMAIN p) + 1
  BY <1>1, FS_AddElement
<1>7. /\ Cardinality(free2) + 2 * Cardinality(DOMAIN p2) >= 2 * CpuCapacity
      /\ Cardinality(free2) + 2 * Cardinality(DOMAIN p2) <= CpuUnits
  <2>1. /\ Cardinality(free) + 2 * Cardinality(DOMAIN p) >= 2 * CpuCapacity
        /\ Cardinality(free) + 2 * Cardinality(DOMAIN p) <= CpuUnits
    BY DEF PairsOK
  <2> QED
    BY <1>1, <1>5, <1>6, <2>1
<1>8. free2 \subseteq Units /\ p2[h].k \in Units /\ p2[h].v \in Units
  BY DEF PairsOK
<1>9. \A g \in DOMAIN p : /\ p[g].k \in Units /\ p[g].v \in Units /\ p[g].k # p[g].v
                          /\ p[g].k \notin free /\ p[g].v \notin free
  BY DEF PairsOK
<1>10. \A g \in DOMAIN p2 : /\ p2[g].k \in Units /\ p2[g].v \in Units /\ p2[g].k # p2[g].v
                            /\ p2[g].k \notin free2 /\ p2[g].v \notin free2
  BY <1>8, <1>9
<1>11. \A f, g \in DOMAIN p : f # g => {p2[f].k, p2[f].v} \cap {p2[g].k, p2[g].v} = {}
  BY DEF PairsOK
<1>12. \A g \in DOMAIN p : {p2[h].k, p2[h].v} \cap {p2[g].k, p2[g].v} = {}
  BY <1>9
<1>13. \A f, g \in DOMAIN p2 : f # g => {p2[f].k, p2[f].v} \cap {p2[g].k, p2[g].v} = {}
  BY <1>11, <1>12
<1> QED
  BY <1>6, <1>7, <1>8, <1>10, <1>13 DEF PairsOK

\* The only free unit is lost: there was one too many.
LEMMA PairsLeak ==
  ASSUME NEW p, NEW free, PairsOK(p, free), Cardinality(free) < 2
  PROVE  PairsOK(p, {})
<1>1. /\ IsFiniteSet(free) /\ Cardinality(free) \in Nat
      /\ IsFiniteSet(DOMAIN p) /\ Cardinality(DOMAIN p) \in Nat
  BY PairsCounts
<1>2. /\ Cardinality(free) + 2 * Cardinality(DOMAIN p) >= 2 * CpuCapacity
      /\ Cardinality(free) + 2 * Cardinality(DOMAIN p) <= CpuUnits
  BY DEF PairsOK
<1>3. Cardinality({}) = 0
  BY FS_EmptySet
<1>4. CpuCapacity \in Nat /\ CpuUnits \in Nat
  BY UnitsFinite, PrefixCacheAssumption
<1>5. Cardinality(DOMAIN p) >= CpuCapacity
  BY <1>1, <1>2, <1>4
<1>6. /\ Cardinality({}) + 2 * Cardinality(DOMAIN p) >= 2 * CpuCapacity
      /\ Cardinality({}) + 2 * Cardinality(DOMAIN p) <= CpuUnits
  BY <1>1, <1>2, <1>3, <1>4, <1>5
<1> QED
  BY <1>6 DEF PairsOK

\* Nodes of a table that can be compared.
Comparable(t, H) == \A h \in H : h \in Seq(Tokens) /\ t[h].ts \in Nat

\* Nodes are ordered by their age and length.
LEMMA SmallerOrder ==
  ASSUME NEW t, NEW H, Comparable(t, H), NEW f \in H, NEW g \in H, NEW h \in H
  PROVE  /\ ~SmallerNode(t, h, h)
         /\ SmallerNode(t, f, g) /\ SmallerNode(t, g, h) => SmallerNode(t, f, h)
<1>1. \A x \in H : t[x].ts \in Nat /\ Len(x) \in Nat
  BY LenProperties DEF Comparable
<1> QED
  BY <1>1 DEF SmallerNode

\* A set of candidates has a first one.
LEMMA VictimExists ==
  ASSUME NEW t, NEW H, IsFiniteSet(H), H # {}, Comparable(t, H)
  PROVE  FindVictim(t, H) \in H
<1> DEFINE rank(h) == {g \in H : SmallerNode(t, g, h)}
           T == {Cardinality(rank(h)) : h \in H}
<1>1. \A h \in H : IsFiniteSet(rank(h)) /\ Cardinality(rank(h)) \in Nat
  BY FS_Subset, FS_CardinalityType
<1>2. T \subseteq Nat /\ T # {}
  BY <1>1
<1>3. PICK x \in T : \A y \in T : x <= y
  BY <1>2, LeastElement
<1>4. PICK h \in H : x = Cardinality(rank(h))
  BY <1>3
<1>5. \A g \in H : ~SmallerNode(t, g, h)
  <2> SUFFICES ASSUME NEW g \in H, SmallerNode(t, g, h)
               PROVE  FALSE
    OBVIOUS
  <2>1. rank(g) \subseteq rank(h) /\ g \in rank(h) /\ g \notin rank(g)
    BY SmallerOrder
  <2>2. Cardinality(rank(h)) <= Cardinality(rank(g))
    BY <1>3, <1>4
  <2>3. IsFiniteSet(rank(h)) /\ Cardinality(rank(h)) \in Nat /\ Cardinality(rank(g)) \in Nat
    BY <1>1
  <2> HIDE DEF rank, T
  <2>4. rank(g) # rank(h)
    BY <2>1
  <2>5. Cardinality(rank(g)) < Cardinality(rank(h))
    BY <2>1, <2>3, <2>4, FS_Subset
  <2> QED
    BY <2>2, <2>3, <2>5
<1> QED
  BY <1>5 DEF FindVictim

\* update_node_ts leaves everything but timestamps alone.
LEMMA TouchOK ==
  ASSUME NEW c, NEW T \in Nat, NEW ts, CpuShape(c),
         \A h \in DOMAIN c.table :
           h \in Seq(Tokens) /\ c.table[h] \in [k : Units, v : Units, ts : 0..T, ready : BOOLEAN],
         \A h \in DOMAIN ts : ts[h] \in 0..T
  PROVE  LET u == update_node_ts(c, ts)
         IN /\ CpuShape(u) /\ u.free = c.free /\ u.kv = c.kv /\ u.copies = c.copies
            /\ DOMAIN u.table = DOMAIN c.table
            /\ \A h \in DOMAIN c.table :
                 /\ u.table[h] \in [k : Units, v : Units, ts : 0..T, ready : BOOLEAN]
                 /\ u.table[h].k = c.table[h].k /\ u.table[h].v = c.table[h].v
                 /\ u.table[h].ready = c.table[h].ready
<1> DEFINE u == update_node_ts(c, ts)
<1>1. u = [c EXCEPT !.table = Touched(c.table, ts)]
  BY DEF update_node_ts
<1> HIDE DEF u
<1>2. /\ CpuShape(u) /\ u.free = c.free /\ u.kv = c.kv /\ u.copies = c.copies
      /\ u.table = Touched(c.table, ts)
  BY <1>1 DEF CpuShape
<1>3. DOMAIN u.table = DOMAIN c.table
  BY <1>2 DEF Touched
<1>4. ASSUME NEW h \in DOMAIN c.table
      PROVE  /\ u.table[h] \in [k : Units, v : Units, ts : 0..T, ready : BOOLEAN]
             /\ u.table[h].k = c.table[h].k /\ u.table[h].v = c.table[h].v
             /\ u.table[h].ready = c.table[h].ready
  <2> DEFINE x == c.table[h]
             y == u.table[h]
  <2>1. x \in [k : Units, v : Units, ts : 0..T, ready : BOOLEAN]
    OBVIOUS
  <2>2. y = IF h \in DOMAIN ts THEN [x EXCEPT !.ts = Later(@, ts[h])] ELSE x
    BY <1>2 DEF Touched
  <2>3. h \in DOMAIN ts => ts[h] \in 0..T
    OBVIOUS
  <2> HIDE DEF x, y
  <2>4. h \in DOMAIN ts => Later(x.ts, ts[h]) \in 0..T
    BY <2>1, <2>3 DEF Later
  <2>5. CASE h \in DOMAIN ts
    <3>1. y = [k |-> x.k, v |-> x.v, ts |-> Later(x.ts, ts[h]), ready |-> x.ready]
      BY <2>1, <2>2, <2>5
    <3>2. /\ y \in [k : Units, v : Units, ts : 0..T, ready : BOOLEAN]
          /\ y.k = x.k /\ y.v = x.v /\ y.ready = x.ready
      BY <2>1, <2>4, <2>5, <3>1
    <3> QED
      BY <3>2 DEF x, y
  <2>6. CASE h \notin DOMAIN ts
    BY <2>1, <2>2, <2>6 DEF x, y
  <2> QED
    BY <2>5, <2>6
<1> QED
  BY <1>2, <1>3, <1>4 DEF u

LEMMA TouchCpuOK ==
  ASSUME NEW c, NEW T \in Nat, NEW ts, CpuOK(c, T), \A h \in DOMAIN ts : ts[h] \in 0..T
  PROVE  CpuOK(update_node_ts(c, ts), T) /\ DOMAIN update_node_ts(c, ts).table = DOMAIN c.table
<1> DEFINE u == update_node_ts(c, ts)
<1>0. /\ CpuShape(c)
      /\ \A h \in DOMAIN c.table :
           h \in Seq(Tokens) /\ c.table[h] \in [k : Units, v : Units, ts : 0..T, ready : BOOLEAN]
  BY DEF CpuOK
<1>1. /\ CpuShape(u) /\ u.free = c.free
      /\ DOMAIN u.table = DOMAIN c.table
      /\ \A h \in DOMAIN c.table :
           /\ u.table[h] \in [k : Units, v : Units, ts : 0..T, ready : BOOLEAN]
           /\ u.table[h].k = c.table[h].k /\ u.table[h].v = c.table[h].v
  BY <1>0, TouchOK
<1> HIDE DEF u
<1>2. PairsOK(c.table, c.free)
  BY DEF CpuOK
<1>3. PairsOK(u.table, c.free)
  BY <1>1, <1>2, PairsSame
<1>4. CpuOK(u, T)
  BY <1>0, <1>1, <1>3 DEF CpuOK
<1> QED
  BY <1>1, <1>4 DEF u

\* A CPU tier in the loop of the swap, with the nodes new that are allocated and
\* not yet in the table.
MidSwap(c, new, T) ==
  /\ CpuShape(c)
  /\ \A h \in DOMAIN c.table :
       h \in Seq(Tokens) /\ c.table[h] \in [k : Units, v : Units, ts : 0..T, ready : BOOLEAN]
  /\ DOMAIN new \cap DOMAIN c.table = {}
  /\ PairsOK(Joined(c.table, new), c.free)

\* The nodes of d are nodes of c.
Fewer(d, c) ==
  /\ DOMAIN d.table \subseteq DOMAIN c.table
  /\ \A h \in DOMAIN d.table : d.table[h] = c.table[h]

LEMMA DeleteCpuNodeOK ==
  ASSUME NEW c, NEW new, NEW T \in Nat, MidSwap(c, new, T), NEW h \in DOMAIN c.table
  PROVE  /\ MidSwap(delete_cpu_node(c, h), new, T)
         /\ Fewer(delete_cpu_node(c, h), c)
         /\ Cardinality(delete_cpu_node(c, h).free) = Cardinality(c.free) + 2
<1> DEFINE d == delete_cpu_node(c, h)
           p == Joined(c.table, new)
           p2 == Joined(d.table, new)
           x == [u \in Units |-> IF u \in {c.table[h].k, c.table[h].v} THEN Junk ELSE c.kv[u]]
<1>0. CpuShape(c) /\ PairsOK(p, c.free)
  BY DEF MidSwap
<1>1. /\ CpuShape(d) /\ d.free = c.free \cup {c.table[h].k, c.table[h].v}
      /\ d.table = Restrict(c.table, DOMAIN c.table \ {h})
  <2>1. d = [c EXCEPT !.free = c.free \cup {c.table[h].k, c.table[h].v}, !.kv = x,
                      !.table = Restrict(c.table, DOMAIN c.table \ {h})]
    BY DEF delete_cpu_node
  <2> HIDE DEF d, x
  <2>2. d = [table |-> Restrict(c.table, DOMAIN c.table \ {h}),
             free |-> c.free \cup {c.table[h].k, c.table[h].v}, kv |-> x, copies |-> c.copies]
    BY <1>0, <2>1 DEF CpuShape
  <2> QED
    BY <2>2 DEF CpuShape
<1> HIDE DEF d
<1>2. DOMAIN d.table = DOMAIN c.table \ {h} /\ \A g \in DOMAIN d.table : d.table[g] = c.table[g]
  BY <1>1 DEF Restrict
<1>3. DOMAIN new \cap DOMAIN c.table = {}
  BY DEF MidSwap
<1>4. /\ DOMAIN p2 = DOMAIN p \ {h} /\ h \in DOMAIN p
      /\ \A g \in DOMAIN p2 : p2[g] = p[g]
      /\ p[h] = c.table[h]
  BY <1>2, <1>3 DEF Joined
<1> HIDE DEF p, p2
<1>5. d.free = c.free \cup {p[h].k, p[h].v} /\ \A g \in DOMAIN p2 : p2[g].k = p[g].k /\ p2[g].v = p[g].v
  BY <1>1, <1>4
<1>6. PairsOK(p2, d.free) /\ Cardinality(d.free) = Cardinality(c.free) + 2
  BY <1>0, <1>4, <1>5, PairsDrop
<1>7. MidSwap(d, new, T)
  <2>1. \A g \in DOMAIN d.table :
          g \in Seq(Tokens) /\ d.table[g] \in [k : Units, v : Units, ts : 0..T, ready : BOOLEAN]
    BY <1>2 DEF MidSwap
  <2>2. DOMAIN new \cap DOMAIN d.table = {}
    BY <1>2, <1>3
  <2> QED
    BY <1>1, <1>6, <2>1, <2>2 DEF MidSwap, p2
<1>8. Fewer(d, c)
  BY <1>2 DEF Fewer
<1> QED
  BY <1>6, <1>7, <1>8 DEF d

\* What alloc_cpu_node gives.
AllocOK(c, new, T, a) ==
  /\ a.ok \in BOOLEAN
  /\ CpuShape(a.cpu) /\ Fewer(a.cpu, c)
  /\ ~a.ok => MidSwap(a.cpu, new, T)
  /\ a.ok => \E d : /\ MidSwap(d, new, T) /\ a.cpu.table = d.table
                    /\ a.k \in d.free /\ a.v \in d.free /\ a.k # a.v
                    /\ a.cpu.free = d.free \ {a.k, a.v}

LEMMA TwoElements ==
  ASSUME NEW S, IsFiniteSet(S), ~(Cardinality(S) < 2)
  PROVE  \E k \in S : \E v \in S : k # v
<1>1. Cardinality(S) \in Nat /\ Cardinality(S) >= 2
  BY FS_CardinalityType
<1>2. S # {}
  BY <1>1, FS_EmptySet
<1>3. PICK k \in S : TRUE
  BY <1>2
<1>4. Cardinality(S \ {k}) = Cardinality(S) - 1
  BY <1>3, FS_RemoveElement
<1>5. S \ {k} # {}
  <2> SUFFICES ASSUME S \ {k} = {} PROVE FALSE
    OBVIOUS
  <2>1. Cardinality(S \ {k}) = 0
    BY FS_EmptySet
  <2> QED
    BY <1>1, <1>4, <2>1
<1> QED
  BY <1>3, <1>5

LEMMA AllocCpuNodeOK ==
  ASSUME NEW c, NEW new, NEW T \in Nat, MidSwap(c, new, T)
  PROVE  AllocOK(c, new, T, alloc_cpu_node(c))
<1> DEFINE a == alloc_cpu_node(c)
           full == Cardinality(DOMAIN c.table) >= CpuCapacity
           h == FindVictim(c.table, DOMAIN c.table)
           n == IF full THEN delete_cpu_node(c, h) ELSE c
           k == CHOOSE u \in n.free : TRUE
           v == CHOOSE u \in n.free \ {k} : TRUE
           none == CpuCapacity = 0 \/ (c.free = {} /\ ~CpuRest)
<1>1. Fewer(c, c) /\ CpuShape(c)
  BY DEF Fewer, MidSwap
<1>2. CASE none
  <2>1. a = [cpu |-> c, ok |-> FALSE]
    BY <1>2 DEF alloc_cpu_node
  <2>2. a.cpu = c /\ a.ok = FALSE
    BY <2>1
  <2> HIDE DEF a
  <2>3. AllocOK(c, new, T, a)
    BY <1>1, <2>2 DEF AllocOK
  <2> QED
    BY <2>3 DEF a
<1>3. CASE ~none
  <2>1. MidSwap(n, new, T) /\ Fewer(n, c) /\ CpuShape(n)
    <3>1. CASE full
      <4>1. IsFiniteSet(DOMAIN c.table)
        <5>1. IsFiniteSet(DOMAIN Joined(c.table, new))
          BY DEF MidSwap, PairsOK
        <5>2. DOMAIN c.table \subseteq DOMAIN Joined(c.table, new)
          BY DEF Joined
        <5> QED
          BY <5>1, <5>2, FS_Subset
      <4>2. DOMAIN c.table # {}
        <5>1. CpuCapacity \in Nat /\ CpuCapacity # 0
          BY <1>3, UnitsFinite
        <5> SUFFICES ASSUME DOMAIN c.table = {} PROVE FALSE
          OBVIOUS
        <5>2. Cardinality(DOMAIN c.table) = 0
          BY FS_EmptySet
        <5> QED
          BY <3>1, <5>1, <5>2
      <4>3. Comparable(c.table, DOMAIN c.table)
        BY DEF MidSwap, Comparable
      <4>4. h \in DOMAIN c.table
        BY <4>1, <4>2, <4>3, VictimExists
      <4>5. MidSwap(delete_cpu_node(c, h), new, T) /\ Fewer(delete_cpu_node(c, h), c)
        <5> HIDE DEF h
        <5> QED
          BY <4>4, DeleteCpuNodeOK
      <4>6. n = delete_cpu_node(c, h)
        BY <3>1
      <4> HIDE DEF n
      <4>7. MidSwap(n, new, T) /\ Fewer(n, c)
        BY <4>5, <4>6
      <4> QED
        BY <4>7 DEF MidSwap
    <3>2. CASE ~full
      BY <1>1, <3>2
    <3> QED
      BY <3>1, <3>2
  <2>2. IsFiniteSet(n.free) /\ PairsOK(Joined(n.table, new), n.free)
    <3> HIDE DEF n
    <3> QED
      BY <2>1, PairsCounts DEF MidSwap
  <2>3. CASE Cardinality(n.free) < 2
    <3>1. a = [cpu |-> [n EXCEPT !.free = {}], ok |-> FALSE]
      BY <1>3, <2>3 DEF alloc_cpu_node, ClaimUnits
    <3> HIDE DEF n, a
    <3>2. /\ a.ok = FALSE /\ a.cpu = [n EXCEPT !.free = {}]
      BY <3>1
    <3>3. CpuShape(a.cpu) /\ a.cpu.table = n.table /\ a.cpu.free = {}
      BY <2>1, <3>2 DEF CpuShape
    <3>4. PairsOK(Joined(n.table, new), {})
      BY <2>2, <2>3, PairsLeak
    <3>5. MidSwap(a.cpu, new, T)
      BY <2>1, <3>3, <3>4 DEF MidSwap
    <3>6. Fewer(a.cpu, c)
      BY <2>1, <3>3 DEF Fewer
    <3>7. AllocOK(c, new, T, a)
      BY <3>2, <3>3, <3>5, <3>6 DEF AllocOK
    <3> QED
      BY <3>7 DEF a
  <2>4. CASE ~(Cardinality(n.free) < 2)
    <3>1. a = [cpu |-> [n EXCEPT !.free = @ \ {k, v}], ok |-> TRUE, k |-> k, v |-> v]
      BY <1>3, <2>4 DEF alloc_cpu_node, ClaimUnits
    <3>2. k \in n.free /\ v \in n.free /\ k # v
      <4> HIDE DEF n
      <4>1. \E x \in n.free : \E y \in n.free : x # y
        BY <2>2, <2>4, TwoElements
      <4>2. k \in n.free
        BY <4>1
      <4>3. \E y \in n.free \ {k} : TRUE
        <5> HIDE DEF k
        <5> QED
          BY <4>1
      <4>4. v \in n.free \ {k}
        <5> HIDE DEF k
        <5> QED
          BY <4>3
      <4> QED
        BY <4>2, <4>4
    <3> HIDE DEF n, k, v, a
    <3>3. a.ok = TRUE /\ a.k = k /\ a.v = v /\ a.cpu = [n EXCEPT !.free = @ \ {k, v}]
      BY <3>1
    <3>4. CpuShape(a.cpu) /\ a.cpu.table = n.table /\ a.cpu.free = n.free \ {k, v}
      BY <2>1, <3>3 DEF CpuShape
    <3>5. Fewer(a.cpu, c)
      BY <2>1, <3>4 DEF Fewer
    <3>6. AllocOK(c, new, T, a)
      BY <2>1, <3>2, <3>3, <3>4, <3>5 DEF AllocOK
    <3> QED
      BY <3>6 DEF a
  <2> QED
    BY <2>3, <2>4
<1> QED
  BY <1>2, <1>3

\* The loop of the swap.
SwapInput(m, H, T) ==
  /\ IsFiniteSet(H)
  /\ \A h \in H : h \in Seq(Tokens) /\ m.table[h].ts \in 0..T
LoopOK(m, H, T, s) ==
  /\ s = [cpu |-> s.cpu, left |-> s.left, new |-> s.new]
  /\ s.left \subseteq H /\ DOMAIN s.new \subseteq H /\ DOMAIN s.new \cap s.left = {}
  /\ DOMAIN s.cpu.table \subseteq DOMAIN m.cpu.table
  /\ MidSwap(s.cpu, s.new, T)

LEMMA SwapStepOK ==
  ASSUME NEW m, NEW H, NEW T \in Nat, SwapInput(m, H, T), NEW s, LoopOK(m, H, T, s)
  PROVE  LoopOK(m, H, T, SwapStep(m, s))
<1> DEFINE h == FindVictim(m.table, s.left)
           a == alloc_cpu_node(s.cpu)
           n == SwapStep(m, s)
<1>0. /\ s = [cpu |-> s.cpu, left |-> s.left, new |-> s.new]
      /\ s.left \subseteq H /\ DOMAIN s.new \subseteq H /\ DOMAIN s.new \cap s.left = {}
      /\ DOMAIN s.cpu.table \subseteq DOMAIN m.cpu.table
      /\ MidSwap(s.cpu, s.new, T)
  BY DEF LoopOK
<1>1. CASE s.left = {}
  BY <1>1 DEF SwapStep
<1>2. CASE s.left # {}
  <2>1. h \in s.left
    <3>1. IsFiniteSet(s.left)
      BY <1>0, FS_Subset DEF SwapInput
    <3>2. Comparable(m.table, s.left)
      BY <1>0 DEF SwapInput, Comparable
    <3> QED
      BY <1>2, <3>1, <3>2, VictimExists
  <2>2. n = IF h \in DOMAIN s.cpu.table
          THEN [s EXCEPT !.left = @ \ {h},
                         !.cpu = update_node_ts(@, [g \in {h} |-> m.table[g].ts])]
          ELSE IF a.ok
               THEN [cpu |-> a.cpu, left |-> s.left \ {h},
                     new |-> Joined(s.new, [g \in {h} |-> [k |-> a.k, v |-> a.v]])]
               ELSE [s EXCEPT !.left = {}, !.cpu = a.cpu]
    BY <1>2 DEF SwapStep
  <2>3. h \in H
    BY <1>0, <2>1
  <2> HIDE DEF h, n
  <2>4. CASE h \in DOMAIN s.cpu.table
    <3> DEFINE ts == [g \in {h} |-> m.table[g].ts]
               u == update_node_ts(s.cpu, ts)
    <3>1. n = [s EXCEPT !.left = @ \ {h}, !.cpu = u]
      BY <2>2, <2>4
    <3>2. \A g \in DOMAIN ts : ts[g] \in 0..T
      BY <2>3 DEF SwapInput
    <3>3. /\ CpuShape(s.cpu)
          /\ \A g \in DOMAIN s.cpu.table :
               /\ g \in Seq(Tokens)
               /\ s.cpu.table[g] \in [k : Units, v : Units, ts : 0..T, ready : BOOLEAN]
      BY <1>0 DEF MidSwap
    <3> HIDE DEF ts
    <3>4. /\ CpuShape(u) /\ u.free = s.cpu.free
          /\ DOMAIN u.table = DOMAIN s.cpu.table
          /\ \A g \in DOMAIN s.cpu.table :
               /\ u.table[g] \in [k : Units, v : Units, ts : 0..T, ready : BOOLEAN]
               /\ u.table[g].k = s.cpu.table[g].k /\ u.table[g].v = s.cpu.table[g].v
      BY <3>2, <3>3, TouchOK
    <3> HIDE DEF u
    <3> DEFINE p == Joined(s.cpu.table, s.new)
               p2 == Joined(u.table, s.new)
    <3>5. DOMAIN p2 = DOMAIN p /\ \A g \in DOMAIN p : p2[g].k = p[g].k /\ p2[g].v = p[g].v
      BY <3>4 DEF Joined
    <3>6. PairsOK(p, s.cpu.free)
      BY <1>0 DEF MidSwap
    <3>7. PairsOK(p2, u.free)
      <4> HIDE DEF p, p2
      <4>1. PairsOK(p2, s.cpu.free)
        BY <3>5, <3>6, PairsSame
      <4> QED
        BY <3>4, <4>1
    <3>8. MidSwap(u, s.new, T)
      BY <1>0, <3>3, <3>4, <3>7 DEF MidSwap
    <3>9. n = [cpu |-> u, left |-> s.left \ {h}, new |-> s.new]
      BY <1>0, <3>1
    <3>10. n.cpu = u /\ n.left = s.left \ {h} /\ n.new = s.new
           /\ n = [cpu |-> n.cpu, left |-> n.left, new |-> n.new]
      BY <3>9
    <3>11. LoopOK(m, H, T, n)
      BY <1>0, <3>4, <3>8, <3>10 DEF LoopOK
    <3> QED
      BY <3>11 DEF n
  <2>5. CASE h \notin DOMAIN s.cpu.table
    <3>1. AllocOK(s.cpu, s.new, T, a)
      BY <1>0, AllocCpuNodeOK
    <3> HIDE DEF a
    <3>2. CpuShape(a.cpu) /\ Fewer(a.cpu, s.cpu) /\ a.ok \in BOOLEAN
      BY <3>1 DEF AllocOK
    <3>3. CASE a.ok
      <4> DEFINE x == [k |-> a.k, v |-> a.v]
                 new2 == Joined(s.new, [g \in {h} |-> x])
      <4>1. n = [cpu |-> a.cpu, left |-> s.left \ {h}, new |-> new2]
        BY <2>2, <2>5, <3>3
      <4>2. PICK d : /\ MidSwap(d, s.new, T) /\ a.cpu.table = d.table
                     /\ a.k \in d.free /\ a.v \in d.free /\ a.k # a.v
                     /\ a.cpu.free = d.free \ {a.k, a.v}
        BY <3>1, <3>3 DEF AllocOK
      <4>3. h \notin DOMAIN d.table /\ h \notin DOMAIN s.new
        BY <1>0, <2>1, <2>5, <3>2, <4>2 DEF Fewer
      <4> DEFINE p == Joined(d.table, s.new)
                 p2 == Joined(a.cpu.table, new2)
      <4>4. DOMAIN new2 = DOMAIN s.new \cup {h} /\ new2[h] = x /\ \A g \in DOMAIN s.new : new2[g] = s.new[g]
        BY <4>3 DEF Joined
      <4> HIDE DEF new2
      <4>5. /\ DOMAIN p2 = DOMAIN p \cup {h} /\ h \notin DOMAIN p
            /\ \A g \in DOMAIN p : p2[g] = p[g]
            /\ p2[h] = x
        <5> HIDE DEF x
        <5> QED
          BY <4>2, <4>3, <4>4 DEF Joined
      <4> HIDE DEF p, p2
      <4>6. p2[h].k = a.k /\ p2[h].v = a.v
        BY <4>5
      <4>7. PairsOK(p, d.free)
        BY <4>2 DEF MidSwap, p
      <4>8. PairsOK(p2, a.cpu.free)
        <5>1. /\ p2[h].k \in d.free /\ p2[h].v \in d.free /\ p2[h].k # p2[h].v
              /\ a.cpu.free = d.free \ {p2[h].k, p2[h].v}
          BY <4>2, <4>6
        <5>2. \A g \in DOMAIN p : p2[g].k = p[g].k /\ p2[g].v = p[g].v
          BY <4>5
        <5>3. DOMAIN p2 = DOMAIN p \cup {h} /\ h \notin DOMAIN p
          BY <4>5
        <5> QED
          BY <4>7, <5>1, <5>2, <5>3, PairsAdd
      <4>9. \A g \in DOMAIN a.cpu.table :
              /\ g \in Seq(Tokens)
              /\ a.cpu.table[g] \in [k : Units, v : Units, ts : 0..T, ready : BOOLEAN]
        BY <4>2 DEF MidSwap
      <4>10. DOMAIN new2 \cap DOMAIN a.cpu.table = {}
        BY <4>2, <4>3, <4>4 DEF MidSwap
      <4>11. MidSwap(a.cpu, new2, T)
        BY <3>2, <4>8, <4>9, <4>10 DEF MidSwap, p2
      <4>12. n.cpu = a.cpu /\ n.left = s.left \ {h} /\ n.new = new2
             /\ n = [cpu |-> n.cpu, left |-> n.left, new |-> n.new]
        BY <4>1
      <4>13. DOMAIN new2 \subseteq H /\ DOMAIN new2 \cap (s.left \ {h}) = {}
        BY <1>0, <2>3, <4>4
      <4>14. DOMAIN a.cpu.table \subseteq DOMAIN m.cpu.table
        BY <1>0, <3>2 DEF Fewer
      <4>15. LoopOK(m, H, T, n)
        BY <1>0, <4>11, <4>12, <4>13, <4>14 DEF LoopOK
      <4> QED
        BY <4>15 DEF n
    <3>4. CASE ~a.ok
      <4>1. n = [s EXCEPT !.left = {}, !.cpu = a.cpu]
        BY <2>2, <2>5, <3>4
      <4>2. n = [cpu |-> a.cpu, left |-> {}, new |-> s.new]
        BY <1>0, <4>1
      <4>3. n.cpu = a.cpu /\ n.left = {} /\ n.new = s.new
             /\ n = [cpu |-> n.cpu, left |-> n.left, new |-> n.new]
        BY <4>2
      <4>4. MidSwap(a.cpu, s.new, T)
        BY <3>1, <3>4 DEF AllocOK
      <4>5. DOMAIN a.cpu.table \subseteq DOMAIN m.cpu.table
        BY <1>0, <3>2 DEF Fewer
      <4>6. LoopOK(m, H, T, n)
        BY <1>0, <4>3, <4>4, <4>5 DEF LoopOK
      <4> QED
        BY <4>6 DEF n
    <3> QED
      BY <3>2, <3>3, <3>4
  <2> QED
    BY <2>4, <2>5
<1> QED
  BY <1>1, <1>2

\* The loop is well defined.
LoopFn(m, base, n, f) == f = [i \in 0..n |-> IF i = 0 THEN base ELSE SwapStep(m, f[i - 1])]
LEMMA LoopExists ==
  ASSUME NEW m, NEW base, NEW n \in Nat
  PROVE  \E f : LoopFn(m, base, n, f)
<1> DEFINE E(k) == \E f : LoopFn(m, base, k, f)
           T == {k \in Nat : ~E(k)}
<1> SUFFICES ASSUME T # {} PROVE FALSE
  OBVIOUS
<1>1. PICK x \in T : \A y \in T : x <= y
  BY LeastElement
<1>2. E(0)
  <2> DEFINE f == [i \in 0..0 |-> base]
  <2>1. f = [i \in 0..0 |-> IF i = 0 THEN base ELSE SwapStep(m, f[i - 1])]
    OBVIOUS
  <2> QED
    BY <2>1 DEF LoopFn
<1>3. x # 0 /\ x \in Nat
  BY <1>1, <1>2
<1>4. E(x - 1)
  <2>1. x - 1 \in Nat /\ ~(x <= x - 1)
    BY <1>3
  <2> QED
    BY <1>1, <2>1
<1>5. PICK g : g = [i \in 0..(x - 1) |-> IF i = 0 THEN base ELSE SwapStep(m, g[i - 1])]
  BY <1>4 DEF LoopFn
<1> DEFINE f == [i \in 0..x |-> IF i = 0 THEN base ELSE SwapStep(m, g[i - 1])]
<1>6. ASSUME NEW i \in 1..x
      PROVE  f[i - 1] = g[i - 1]
  BY <1>3, <1>5
<1>7. f = [i \in 0..x |-> IF i = 0 THEN base ELSE SwapStep(m, f[i - 1])]
  <2>1. \A i \in 0..x : (IF i = 0 THEN base ELSE SwapStep(m, g[i - 1]))
                          = (IF i = 0 THEN base ELSE SwapStep(m, f[i - 1]))
    <3> HIDE DEF f
    <3> QED
      BY <1>3, <1>6
  <2> QED
    BY <2>1
<1>8. E(x)
  BY <1>7 DEF LoopFn
<1> QED
  BY <1>1, <1>8

\* swap_to_cpu_by_hashlist is its loop, and InsertCpuNodes at the end of it.
LEMMA SwapUnfolds ==
  ASSUME NEW m, ManagerShape(m), NEW H, IsFiniteSet(H)
  PROVE  \E f : \E n \in Nat :
           /\ f[0] = [cpu |-> m.cpu, left |-> H, new |-> <<>>]
           /\ \A i \in 1..n : f[i] = SwapStep(m, f[i - 1])
           /\ swap_to_cpu_by_hashlist(m, H).cpu = InsertCpuNodes(m, f[n].cpu, f[n].new)
<1> DEFINE n == Cardinality(H)
           base == [cpu |-> m.cpu, left |-> H, new |-> <<>>]
           loop == CHOOSE f : f = [i \in 0..n |-> IF i = 0 THEN base ELSE SwapStep(m, f[i - 1])]
           c == InsertCpuNodes(m, loop[n].cpu, loop[n].new)
           w == swap_to_cpu_by_hashlist(m, H)
           ft == IF Cardinality(DOMAIN c.table) <= CpuCapacity THEN m.fault ELSE m.fault \cup {"full"}
<1>1. w = [m EXCEPT !.cpu = c, !.fault = ft]
  BY DEF swap_to_cpu_by_hashlist
<1>2. n \in Nat
  BY FS_CardinalityType
<1> HIDE DEF n, base
<1>3. \E f : LoopFn(m, base, n, f)
  BY <1>2, LoopExists
<1>4. loop = [i \in 0..n |-> IF i = 0 THEN base ELSE SwapStep(m, loop[i - 1])]
  BY <1>3 DEF LoopFn
<1> HIDE DEF loop
<1>5. loop[0] = base
  BY <1>2, <1>4
<1>6. \A i \in 1..n : loop[i] = SwapStep(m, loop[i - 1])
  BY <1>2, <1>4
<1> HIDE DEF c, w, ft
<1>7. w.cpu = c
  BY <1>1 DEF ManagerShape
<1> QED
  BY <1>2, <1>5, <1>6, <1>7 DEF c, w, base

\* At the end of the loop.
LEMMA LoopEndOK ==
  ASSUME NEW m, NEW H, NEW T \in Nat, SwapInput(m, H, T), CpuOK(m.cpu, T),
         NEW f, NEW n \in Nat, f[0] = [cpu |-> m.cpu, left |-> H, new |-> <<>>],
         \A i \in 1..n : f[i] = SwapStep(m, f[i - 1])
  PROVE  LoopOK(m, H, T, f[n])
<1> DEFINE Bad == {i \in 0..n : ~LoopOK(m, H, T, f[i])}
<1>1. LoopOK(m, H, T, f[0])
  <2>1. Joined(m.cpu.table, <<>>) = [h \in DOMAIN m.cpu.table |-> m.cpu.table[h]] /\ DOMAIN <<>> = {}
    BY DEF Joined
  <2> DEFINE p == Joined(m.cpu.table, <<>>)
  <2>2. DOMAIN p = DOMAIN m.cpu.table /\ \A h \in DOMAIN m.cpu.table : p[h] = m.cpu.table[h]
    BY <2>1
  <2> HIDE DEF p
  <2>3. PairsOK(p, m.cpu.free)
    BY <2>2, PairsSame DEF CpuOK
  <2>4. MidSwap(m.cpu, <<>>, T)
    BY <2>1, <2>3 DEF MidSwap, CpuOK, p
  <2>5. f[0].cpu = m.cpu /\ f[0].left = H /\ f[0].new = <<>>
        /\ f[0] = [cpu |-> f[0].cpu, left |-> f[0].left, new |-> f[0].new]
    OBVIOUS
  <2> QED
    BY <2>1, <2>4, <2>5 DEF LoopOK
<1>2. Bad = {}
  <2> SUFFICES ASSUME Bad # {} PROVE FALSE
    OBVIOUS
  <2>0. Bad \subseteq Nat
    OBVIOUS
  <2>1. PICK x \in Bad : \A y \in Bad : x <= y
    <3> HIDE DEF Bad
    <3> QED
      BY <2>0, LeastElement
  <2>2. x \in 1..n /\ ~LoopOK(m, H, T, f[x])
    BY <1>1, <2>1
  <2>3. x - 1 \in 0..n /\ ~(x <= x - 1)
    BY <2>2
  <2>4. LoopOK(m, H, T, f[x - 1])
    BY <2>1, <2>3
  <2>5. LoopOK(m, H, T, SwapStep(m, f[x - 1]))
    BY <2>4, SwapStepOK
  <2> QED
    BY <2>2, <2>5
<1> QED
  BY <1>2

LEMMA InsertCpuNodesOK ==
  ASSUME NEW m, NEW H, NEW T \in Nat, SwapInput(m, H, T), NEW s, LoopOK(m, H, T, s)
  PROVE  LET c == InsertCpuNodes(m, s.cpu, s.new)
         IN CpuOK(c, T) /\ DOMAIN c.table \subseteq DOMAIN m.cpu.table \cup H
<1> DEFINE c == InsertCpuNodes(m, s.cpu, s.new)
           add == [h \in DOMAIN s.new |-> [k |-> s.new[h].k, v |-> s.new[h].v,
                                           ts |-> m.table[h].ts, ready |-> FALSE]]
           cp == s.cpu.copies \cup {[hash |-> h, k |-> s.new[h].k, v |-> s.new[h].v,
                                     data |-> m.kv[m.table[h].blk]] : h \in DOMAIN s.new}
           p == Joined(s.cpu.table, s.new)
<1>1. c = [s.cpu EXCEPT !.table = Joined(s.cpu.table, add), !.copies = cp]
  BY DEF InsertCpuNodes
<1>2. /\ DOMAIN s.new \subseteq H /\ DOMAIN s.cpu.table \subseteq DOMAIN m.cpu.table
      /\ MidSwap(s.cpu, s.new, T)
  BY DEF LoopOK
<1>3. /\ CpuShape(s.cpu) /\ DOMAIN s.new \cap DOMAIN s.cpu.table = {} /\ PairsOK(p, s.cpu.free)
      /\ \A h \in DOMAIN s.cpu.table :
           /\ h \in Seq(Tokens)
           /\ s.cpu.table[h] \in [k : Units, v : Units, ts : 0..T, ready : BOOLEAN]
  BY <1>2 DEF MidSwap
<1> HIDE DEF c, cp
<1>4. CpuShape(c) /\ c.table = Joined(s.cpu.table, add) /\ c.free = s.cpu.free
  <2> HIDE DEF add
  <2> QED
    BY <1>1, <1>3 DEF CpuShape
<1>5. ASSUME NEW h \in DOMAIN s.new
      PROVE  /\ add[h] \in [k : Units, v : Units, ts : 0..T, ready : BOOLEAN] /\ h \in Seq(Tokens)
             /\ add[h].k = p[h].k /\ add[h].v = p[h].v
  <2>1. p[h] = s.new[h] /\ h \in DOMAIN p
    BY DEF Joined
  <2>2. p[h].k \in Units /\ p[h].v \in Units
    BY <1>3, <2>1 DEF PairsOK
  <2>3. m.table[h].ts \in 0..T /\ h \in Seq(Tokens)
    BY <1>2 DEF SwapInput
  <2>4. add[h] = [k |-> s.new[h].k, v |-> s.new[h].v, ts |-> m.table[h].ts, ready |-> FALSE]
    OBVIOUS
  <2> HIDE DEF p, add
  <2> QED
    BY <2>1, <2>2, <2>3, <2>4
<1>6. /\ DOMAIN c.table = DOMAIN s.cpu.table \cup DOMAIN s.new
      /\ \A h \in DOMAIN s.new : c.table[h] = add[h]
      /\ \A h \in DOMAIN s.cpu.table : c.table[h] = s.cpu.table[h] /\ p[h] = s.cpu.table[h]
      /\ DOMAIN p = DOMAIN c.table
  <2>1. DOMAIN add = DOMAIN s.new
    OBVIOUS
  <2> HIDE DEF add
  <2> QED
    BY <1>3, <1>4, <2>1 DEF Joined
<1> HIDE DEF p, add
<1>7. \A h \in DOMAIN p : c.table[h].k = p[h].k /\ c.table[h].v = p[h].v
  BY <1>5, <1>6
<1>8. PairsOK(c.table, c.free)
  <2>1. DOMAIN p = DOMAIN c.table
    BY <1>6
  <2>2. PairsOK(p, s.cpu.free)
    BY <1>3
  <2>3. PairsOK(c.table, s.cpu.free)
    BY ONLY <1>7, <2>1, <2>2, PairsSame
  <2> QED
    BY <1>4, <2>3
<1>9. \A h \in DOMAIN c.table :
        h \in Seq(Tokens) /\ c.table[h] \in [k : Units, v : Units, ts : 0..T, ready : BOOLEAN]
  BY <1>3, <1>5, <1>6
<1>10. CpuOK(c, T)
  BY <1>4, <1>8, <1>9 DEF CpuOK
<1>11. DOMAIN c.table \subseteq DOMAIN m.cpu.table \cup H
  BY <1>2, <1>6
<1> QED
  BY <1>10, <1>11 DEF c

LEMMA SwapCpuOK ==
  ASSUME NEW m, ManagerShape(m), NEW H, NEW T \in Nat, SwapInput(m, H, T), CpuOK(m.cpu, T)
  PROVE  LET n == swap_to_cpu_by_hashlist(m, H)
         IN /\ CpuOK(n.cpu, T)
            /\ DOMAIN n.cpu.table \subseteq DOMAIN m.cpu.table \cup H
            /\ n.fault = m.fault
<1> DEFINE n == swap_to_cpu_by_hashlist(m, H)
<1>1. PICK f : \E k \in Nat :
           /\ f[0] = [cpu |-> m.cpu, left |-> H, new |-> <<>>]
           /\ \A i \in 1..k : f[i] = SwapStep(m, f[i - 1])
           /\ n.cpu = InsertCpuNodes(m, f[k].cpu, f[k].new)
  BY SwapUnfolds DEF SwapInput
<1>2. PICK k \in Nat :
           /\ f[0] = [cpu |-> m.cpu, left |-> H, new |-> <<>>]
           /\ \A i \in 1..k : f[i] = SwapStep(m, f[i - 1])
           /\ n.cpu = InsertCpuNodes(m, f[k].cpu, f[k].new)
  BY <1>1
<1>3. LoopOK(m, H, T, f[k])
  BY <1>2, LoopEndOK
<1>4. CpuOK(n.cpu, T) /\ DOMAIN n.cpu.table \subseteq DOMAIN m.cpu.table \cup H
  BY <1>2, <1>3, InsertCpuNodesOK
<1>5. Cardinality(DOMAIN n.cpu.table) <= CpuCapacity
  BY <1>4, PairsCounts DEF CpuOK
<1>6. n.fault = m.fault
  BY <1>5, SwapFields
<1> QED
  BY <1>4, <1>6

-----------------------------------------------------------------------------
(* Both sides, in the middle of a handler.  T is the youngest timestamp.   *)

CacheOK(m, B, N, L, T) ==
  /\ GpuOK(m, B, N, L)
  /\ CpuOK(m.cpu, T)
  /\ \A h \in DOMAIN m.table : m.table[h].ts <= T

\* No block of a user becomes a node's.
NoCapture(m, n, B, L) == \A r \in L : B[r] \cap NodeBlocks(n) \subseteq NodeBlocks(m)

\* Timestamps may grow.
LEMMA CacheLater ==
  ASSUME NEW m, NEW B, NEW N, NEW L, NEW T \in Nat, NEW T2 \in Nat, T <= T2, CacheOK(m, B, N, L, T)
  PROVE  CacheOK(m, B, N, L, T2)
<1>1. CpuOK(m.cpu, T2)
  <2>1. 0..T \subseteq 0..T2
    OBVIOUS
  <2>2. ASSUME NEW h \in DOMAIN m.cpu.table
        PROVE  h \in Seq(Tokens) /\ m.cpu.table[h] \in [k : Units, v : Units, ts : 0..T2, ready : BOOLEAN]
    <3>1. h \in Seq(Tokens) /\ m.cpu.table[h] \in [k : Units, v : Units, ts : 0..T, ready : BOOLEAN]
      BY DEF CacheOK, CpuOK
    <3> QED
      BY <2>1, <3>1
  <2> QED
    BY <2>2 DEF CacheOK, CpuOK
<1>2. \A h \in DOMAIN m.table : m.table[h].ts \in Nat
  BY DEF CacheOK, GpuOK, TableOK
<1>3. \A h \in DOMAIN m.table : m.table[h].ts <= T2
  BY <1>2 DEF CacheOK
<1> QED
  BY <1>1, <1>3 DEF CacheOK

\* The data and the CPU side do not matter to the GPU side.
LEMMA SameGpu ==
  ASSUME NEW m, NEW n, NEW B, NEW N, NEW L, GpuOK(m, B, N, L), ManagerShape(n),
         n.table = m.table, n.evictor = m.evictor, n.free = m.free, n.extra = m.extra
  PROVE  GpuOK(n, B, N, L)
<1>1. NodeBlocks(n) = NodeBlocks(m)
  BY DEF NodeBlocks
<1>2. TableOK(n)
  BY <1>1 DEF GpuOK, TableOK
<1>3. CountOK(n, N, L)
  BY DEF GpuOK, CountOK
<1>4. OwnOK(n, B, L)
  BY <1>1 DEF GpuOK, OwnOK
<1>5. ShareOK(n, B, N, L)
  BY <1>1 DEF GpuOK, ShareOK
<1> QED
  BY <1>2, <1>3, <1>4, <1>5 DEF GpuOK

\* Eviction deletes candidates, swaps some of them out, and can not fail.
EvictEffect(m, n, V) ==
  /\ V \subseteq m.evictor /\ FewerNodes(m, n, V)
  /\ DOMAIN n.cpu.table \subseteq DOMAIN m.cpu.table \cup V
  /\ n.fault = m.fault

LEMMA EvictOK ==
  ASSUME NEW m, NEW B, NEW N, NEW L, NEW T \in Nat, IsFiniteSet(L), CacheOK(m, B, N, L, T),
         NEW k, NEW expired
  PROVE  /\ CacheOK(evict_unrefered_by_num(m, k, expired), B, N, L, T)
         /\ EvictEffect(m, evict_unrefered_by_num(m, k, expired), FindMultiVictims(m, k))
<1> DEFINE V == FindMultiVictims(m, k)
           D == {h \in V : m.table[h].ts <= expired}
           S == V \ D
           a == delete_nodes(m, D)
           b == swap_to_cpu_by_hashlist(a, S)
           n == delete_nodes(b, S)
<1>1. n = evict_unrefered_by_num(m, k, expired)
  BY DEF evict_unrefered_by_num
<1>2. V \subseteq m.evictor
  BY DEF FindMultiVictims
<1>3. GpuOK(m, B, N, L) /\ CpuOK(m.cpu, T) /\ \A h \in DOMAIN m.table : m.table[h].ts <= T
  BY DEF CacheOK
<1>4. /\ ManagerShape(m) /\ IsFiniteSet(DOMAIN m.table)
      /\ m.evictor = {h \in DOMAIN m.table : m.table[h].ref_cnt = 0}
      /\ \A h \in DOMAIN m.table : h \in Seq(Tokens) /\ m.table[h].ts \in Nat
  BY <1>3 DEF GpuOK, TableOK
<1>5. D \subseteq m.evictor /\ S \subseteq m.evictor /\ D \cap S = {} /\ D \cup S = V
  BY <1>2
<1> HIDE DEF V, D, S
<1>6. DeleteStep(m, a, D)
  BY <1>4, DeleteNodesStep
<1>7. GpuOK(a, B, N, L) /\ FewerNodes(m, a, D)
  BY <1>3, <1>5, <1>6, DeleteGpuOK
<1>8. a.cpu = m.cpu /\ a.fault = m.fault /\ a.evictor = m.evictor \ D /\ ManagerShape(a)
  BY <1>6 DEF DeleteStep
<1> HIDE DEF a
<1>9. /\ \A h \in S : h \in DOMAIN a.table /\ a.table[h] = m.table[h]
      /\ S \subseteq a.evictor
  BY <1>4, <1>5, <1>7, <1>8 DEF FewerNodes
<1>10. SwapInput(a, S, T)
  <2>1. IsFiniteSet(S)
    BY <1>4, <1>5, FS_Subset
  <2>2. ASSUME NEW h \in S
        PROVE  h \in Seq(Tokens) /\ a.table[h].ts \in 0..T
    <3>1. h \in DOMAIN m.table
      BY <1>4, <1>5
    <3> QED
      BY <1>3, <1>4, <1>9, <3>1
  <2> QED
    BY <2>1, <2>2 DEF SwapInput
<1>11. CpuOK(a.cpu, T)
  BY <1>3, <1>8
<1>12. CpuOK(b.cpu, T) /\ DOMAIN b.cpu.table \subseteq DOMAIN a.cpu.table \cup S /\ b.fault = a.fault
  BY <1>8, <1>10, <1>11, SwapCpuOK
<1>13. /\ ManagerShape(b) /\ b.table = a.table /\ b.evictor = a.evictor /\ b.free = a.free
       /\ b.extra = a.extra
  BY <1>8, SwapFields
<1> HIDE DEF b
<1>14. GpuOK(b, B, N, L)
  BY <1>7, <1>13, SameGpu
<1>15. DeleteStep(b, n, S)
  BY <1>13, DeleteNodesStep
<1>16. S \subseteq b.evictor
  BY <1>9, <1>13
<1>17. GpuOK(n, B, N, L) /\ FewerNodes(b, n, S)
  BY <1>14, <1>15, <1>16, DeleteGpuOK
<1>18. n.cpu = b.cpu /\ n.fault = b.fault
  BY <1>15 DEF DeleteStep
<1> HIDE DEF n
<1>19. FewerNodes(m, n, V)
  BY <1>5, <1>7, <1>13, <1>17 DEF FewerNodes
<1>20. CacheOK(n, B, N, L, T)
  BY <1>3, <1>12, <1>17, <1>18, <1>19 DEF CacheOK, FewerNodes
<1>21. EvictEffect(m, n, V)
  BY <1>2, <1>5, <1>8, <1>12, <1>18, <1>19 DEF EvictEffect
<1> QED
  BY <1>1, <1>20, <1>21 DEF V

\* RefOnly for the user r.
LEMMA RefOnlyOK ==
  ASSUME NEW m, NEW B, NEW N, NEW N2, NEW L, NEW T \in Nat, IsFiniteSet(L), CacheOK(m, B, N, L, T),
         NEW r \in L, NEW H, NEW ts \in Nat, ts <= T, Takes(m, N, N2, L, r, H)
  PROVE  /\ CacheOK(RefOnly(m, H, ts), B, N2, L, T)
         /\ RefEffect(m, RefOnly(m, H, ts), H, ts)
         /\ RefOnly(m, H, ts).fault = m.fault
         /\ DOMAIN RefOnly(m, H, ts).cpu.table = DOMAIN m.cpu.table
<1> DEFINE n == RefOnly(m, H, ts)
           tss == OneTs(H, ts)
<1>1. GpuOK(m, B, N, L) /\ CpuOK(m.cpu, T) /\ \A h \in DOMAIN m.table : m.table[h].ts <= T
  BY DEF CacheOK
<1>2. TableOK(m) /\ ManagerShape(m)
  BY <1>1 DEF GpuOK, TableOK
<1>3. RefStep(m, n, H, ts)
  BY <1>2, RefOnlyIsStep
<1>31. n.cpu = update_node_ts(m.cpu, tss)
  BY <1>2, RefOnlyIsStep
<1> HIDE DEF n
<1>4. GpuOK(n, B, N2, L)
  BY <1>1, <1>3, RefGpuOK
<1>5. RefEffect(m, n, H, ts)
  BY <1>2, <1>3, RefStepEffect
<1>6. n.fault = m.fault
  BY <1>3 DEF RefStep
<1>7. \A h \in DOMAIN tss : tss[h] \in 0..T
  BY DEF OneTs
<1> HIDE DEF tss
<1>8. CpuOK(n.cpu, T) /\ DOMAIN n.cpu.table = DOMAIN m.cpu.table
  BY <1>1, <1>31, <1>7, TouchCpuOK
<1>9. \A h \in DOMAIN m.table : m.table[h].ts \in Nat
  BY <1>2 DEF TableOK
<1>10. \A h \in DOMAIN n.table : n.table[h].ts <= T
  BY <1>1, <1>5, <1>9 DEF RefEffect, Later
<1> QED
  BY <1>4, <1>5, <1>6, <1>8, <1>10 DEF CacheOK, n

\* UnRef for a user that has no blocks.
LEMMA UnRefOK ==
  ASSUME NEW m, NEW B, NEW N, NEW L, NEW T \in Nat, IsFiniteSet(L), CacheOK(m, B, N, L, T),
         NEW r \in L, NEW H, H = N[r], B[r] = {}
  PROVE  /\ CacheOK(UnRef(m, H), B, N, L \ {r}, T)
         /\ SameNodes(m, UnRef(m, H)) /\ UnRef(m, H).free = m.free
         /\ UnRef(m, H).fault = m.fault
         /\ DOMAIN UnRef(m, H).cpu.table = DOMAIN m.cpu.table
<1> DEFINE n == UnRef(m, H)
           tss == [h \in H |-> m.table[h].ts]
<1>1. GpuOK(m, B, N, L) /\ CpuOK(m.cpu, T) /\ \A h \in DOMAIN m.table : m.table[h].ts <= T
  BY DEF CacheOK
<1>2. TableOK(m) /\ ManagerShape(m) /\ H \subseteq DOMAIN m.table
  BY <1>1 DEF GpuOK, TableOK, CountOK
<1>3. UnrefStep(m, n, H) /\ n.cpu = update_node_ts(m.cpu, tss)
  BY <1>2, UnRefIsStep
<1> HIDE DEF n
<1>4. GpuOK(n, B, N, L \ {r}) /\ n.free = m.free /\ SameNodes(m, n)
  BY <1>1, <1>3, UnrefGpuOK
<1>5. n.fault = m.fault
  BY <1>3 DEF UnrefStep
<1>6. \A h \in DOMAIN m.table : m.table[h].ts \in Nat
  BY <1>2 DEF TableOK
<1>7. \A h \in DOMAIN tss : tss[h] \in 0..T
  BY <1>1, <1>2, <1>6
<1> HIDE DEF tss
<1>8. CpuOK(n.cpu, T) /\ DOMAIN n.cpu.table = DOMAIN m.cpu.table
  BY <1>1, <1>3, <1>7, TouchCpuOK
<1>9. \A h \in DOMAIN n.table : n.table[h].ts <= T
  BY <1>1, <1>4 DEF SameNodes
<1> QED
  BY <1>4, <1>5, <1>8, <1>9 DEF CacheOK, n

\* What MakeRoom evicts, and what it leaves behind.
RoomVictims(m, toks, ts) ==
  LET need == ContextFrames(m, toks)
      held == RefOnly(m, CachedRun(m, toks), ts)
  IN IF need > CountFree(held) THEN FindMultiVictims(held, need - CountFree(held)) ELSE {}
RoomEffect(m, n, G, ts, V) ==
  /\ n.fault = m.fault
  /\ V \subseteq DOMAIN m.table \ G
  /\ DOMAIN n.table = DOMAIN m.table \ V
  /\ \A h \in DOMAIN n.table :
       /\ n.table[h].blk = m.table[h].blk
       /\ n.table[h].ts = IF h \in G THEN Later(m.table[h].ts, ts) ELSE m.table[h].ts
  /\ DOMAIN n.cpu.table \subseteq DOMAIN m.cpu.table \cup V

LEMMA MakeRoomOK ==
  ASSUME NEW m, NEW B, NEW N, NEW L, NEW T \in Nat, IsFiniteSet(L), CacheOK(m, B, N, L, T),
         NEW r, r \notin L, r \in DOMAIN N, N[r] = {}, B[r] = {}, L \subseteq DOMAIN N,
         NEW toks, NEW expired
  PROVE  /\ CacheOK(MakeRoom(m, toks, T, expired), B, N, L, T)
         /\ RoomEffect(m, MakeRoom(m, toks, T, expired), OnGpu(m, CachedRun(m, toks)), T,
                       RoomVictims(m, toks, T))
<1> DEFINE R == CachedRun(m, toks)
           G == OnGpu(m, R)
           need == ContextFrames(m, toks)
           held == RefOnly(m, R, T)
           k == need - CountFree(held)
           V == RoomVictims(m, toks, T)
           room == IF need > CountFree(held) THEN evict_unrefered_by_num(held, k, expired) ELSE held
           n == UnRef(room, G)
           U == L \cup {r}
           N2 == [s \in DOMAIN N |-> IF s = r THEN G ELSE N[s]]
<1>1. n = MakeRoom(m, toks, T, expired)
  BY DEF MakeRoom, EvictUnrefered
<1>2. V = IF need > CountFree(held) THEN FindMultiVictims(held, k) ELSE {}
  BY DEF RoomVictims
<1>3. G = R \cap DOMAIN m.table
  BY DEF OnGpu
<1> HIDE DEF R, G, V, need
<1>4. IsFiniteSet(U) /\ r \in U /\ U \ {r} = L
  BY FS_AddElement
<1>5. CacheOK(m, B, N, U, T)
  BY AddUser DEF CacheOK
<1>60. Takes(m, N, N2, U, r, R)
  BY <1>3 DEF Takes
<1>6. N2[r] = G /\ T <= T /\ \A s \in L : N2[s] = N[s]
  BY <1>3
<1> HIDE DEF U, N2
<1>7. /\ CacheOK(held, B, N2, U, T) /\ RefEffect(m, held, R, T) /\ held.fault = m.fault
      /\ DOMAIN held.cpu.table = DOMAIN m.cpu.table
  BY <1>4, <1>5, <1>60, RefOnlyOK
<1> HIDE DEF held, k
<1>8. CacheOK(room, B, N2, U, T) /\ EvictEffect(held, room, V)
  <2>1. CASE need > CountFree(held)
    BY <1>2, <1>4, <1>7, <2>1, EvictOK
  <2>2. CASE ~(need > CountFree(held))
    <3>1. room = held /\ V = {}
      BY <1>2, <2>2
    <3>2. EvictEffect(held, held, {})
      BY DEF EvictEffect, FewerNodes
    <3> QED
      BY <1>7, <3>1, <3>2
  <2> QED
    BY <2>1, <2>2
<1> HIDE DEF room
<1>9. /\ CacheOK(n, B, N2, U \ {r}, T) /\ SameNodes(room, n) /\ n.fault = room.fault
      /\ DOMAIN n.cpu.table = DOMAIN room.cpu.table
  <2>1. IsFiniteSet(U)
    BY <1>4
  <2>2. r \in U
    BY <1>4
  <2>3. CacheOK(room, B, N2, U, T)
    BY <1>8
  <2>4. G = N2[r]
    BY <1>6
  <2> QED
    BY <2>1, <2>2, <2>3, <2>4, UnRefOK
<1> HIDE DEF n
<1>10. CacheOK(n, B, N, L, T)
  <2>1. GpuOK(n, B, N2, L)
    BY <1>4, <1>9 DEF CacheOK
  <2>2. GpuOK(n, B, N, L)
    BY <1>6, <2>1, SameUsers
  <2> QED
    BY <1>9, <2>2 DEF CacheOK
<1>11. G \subseteq DOMAIN room.table
  BY <1>4, <1>6, <1>8 DEF CacheOK, GpuOK, CountOK
<1>12. DOMAIN held.table = DOMAIN m.table
  BY <1>7 DEF RefEffect
<1>13. V \subseteq DOMAIN held.table
  BY <1>7, <1>8 DEF CacheOK, GpuOK, TableOK, EvictEffect
<1>14. DOMAIN room.table = DOMAIN m.table \ V /\ V \cap G = {}
  BY <1>8, <1>11, <1>12 DEF EvictEffect, FewerNodes
<1>15. RoomEffect(m, n, G, T, V)
  <2>1. n.fault = m.fault /\ DOMAIN n.cpu.table \subseteq DOMAIN m.cpu.table \cup V
    BY <1>7, <1>8, <1>9 DEF EvictEffect
  <2>2. DOMAIN n.table = DOMAIN m.table \ V
    BY <1>9, <1>14 DEF SameNodes
  <2>3. V \subseteq DOMAIN m.table \ G
    BY <1>12, <1>13, <1>14
  <2>4. ASSUME NEW h \in DOMAIN n.table
        PROVE  /\ n.table[h].blk = m.table[h].blk
               /\ n.table[h].ts = IF h \in G THEN Later(m.table[h].ts, T) ELSE m.table[h].ts
    <3>1. h \in DOMAIN m.table /\ h \in DOMAIN room.table /\ (h \in G <=> h \in R)
      BY <1>3, <1>9, <2>2 DEF SameNodes
    <3>2. n.table[h].blk = room.table[h].blk /\ n.table[h].ts = room.table[h].ts
      BY <1>9, <3>1 DEF SameNodes
    <3>3. room.table[h] = held.table[h]
      BY <1>8, <1>12, <1>14, <3>1 DEF EvictEffect, FewerNodes
    <3>4. /\ held.table[h].blk = m.table[h].blk
          /\ held.table[h].ts = IF h \in R THEN Later(m.table[h].ts, T) ELSE m.table[h].ts
      BY <1>7, <3>1 DEF RefEffect
    <3> QED
      BY <3>1, <3>2, <3>3, <3>4
  <2> QED
    BY <2>1, <2>2, <2>3, <2>4 DEF RoomEffect
<1> QED
  BY <1>1, <1>10, <1>15 DEF G, V, R

-----------------------------------------------------------------------------
(* The run of cached prefixes.                                             *)

\* The prefixes the manager looks at are the first HashedCount.
LEMMA HashedFacts ==
  ASSUME NEW toks \in Seq(Tokens), Len(toks) >= 1
  PROVE  /\ HashedCount(toks) \in Nat /\ HashedCount(toks) * SpanSize < Len(toks)
         /\ HashedPrefixes(toks) = FirstPrefixes(toks, HashedCount(toks))
<1>0. SpanSize \in Nat \ {0} /\ Len(toks) \in Nat
  BY PrefixCacheAssumption
<1>1. HashedCount(toks) \in Int /\ HashedCount(toks) * SpanSize <= Len(toks) - 1
  BY <1>0, Quotient DEF HashedCount
<1>2. 0 <= HashedCount(toks)
  BY <1>0, QuotientBounds DEF HashedCount
<1>3. HashedCount(toks) * SpanSize < Len(toks)
  BY <1>0, <1>1
<1> QED
  BY <1>1, <1>2, <1>3 DEF HashedPrefixes, FirstPrefixes, HashedCount

\* The run of cached prefixes is the first k, and the next one is not cached.
RunLength(m, toks, k) ==
  /\ CachedRun(m, toks) = FirstPrefixes(toks, k)
  /\ FirstPrefixes(toks, k) \subseteq DOMAIN m.table \cup DOMAIN m.cpu.table
  /\ k < HashedCount(toks) => PrefixAt(toks, k + 1) \notin DOMAIN m.table \cup DOMAIN m.cpu.table

LEMMA CachedRunFacts ==
  ASSUME NEW m, NEW toks \in Seq(Tokens), Len(toks) >= 1
  PROVE  \E k \in 0..HashedCount(toks) : RunLength(m, toks, k)
<1> DEFINE n == HashedCount(toks)
           D == DOMAIN m.table \cup DOMAIN m.cpu.table
           Bad == {j \in 1..n : PrefixAt(toks, j) \notin D}
<1>1. n \in Nat /\ n * SpanSize < Len(toks) /\ HashedPrefixes(toks) = FirstPrefixes(toks, n)
  BY HashedFacts
<1>2. SpanSize \in Nat \ {0} /\ Len(toks) \in Nat
  BY PrefixCacheAssumption
<1> HIDE DEF n, D
<1>3. \A j \in 1..n : Len(PrefixAt(toks, j)) = j * SpanSize
  <2> TAKE j \in 1..n
  <2>1. j * SpanSize <= Len(toks)
    <3>1. j * SpanSize <= n * SpanSize
      BY <1>1, <1>2, Multiples
    <3> QED
      BY <1>1, <1>2, <3>1
  <2> QED
    BY <1>1, <2>1, PrefixFacts
<1>4. \A i, j \in 1..n : (i * SpanSize <= j * SpanSize) <=> (i <= j)
  <2> TAKE i, j \in 1..n
  <2>1. i \in Int /\ j \in Int
    BY <1>1
  <2>2. (i <= j => i * SpanSize <= j * SpanSize) /\ (j < i => j * SpanSize + SpanSize <= i * SpanSize)
    BY <1>2, <2>1, Multiples
  <2>3. i * SpanSize \in Int /\ j * SpanSize \in Int
    BY <1>2, <2>1
  <2> DEFINE x == i * SpanSize
             y == j * SpanSize
  <2> HIDE DEF x, y
  <2> QED
    BY <1>2, <2>1, <2>2, <2>3 DEF x, y
<1>5. CachedRun(m, toks) =
        {PrefixAt(toks, j) : j \in {i \in 1..n : \A g \in 1..i : PrefixAt(toks, g) \in D}}
  <2>1. CachedRun(m, toks) = {h \in FirstPrefixes(toks, n) : \A g \in FirstPrefixes(toks, n) :
                                Len(g) <= Len(h) => g \in D}
    BY <1>1 DEF CachedRun, D
  <2>2. ASSUME NEW j \in 1..n
        PROVE  (\A g \in FirstPrefixes(toks, n) : Len(g) <= Len(PrefixAt(toks, j)) => g \in D)
                 <=> (\A g \in 1..j : PrefixAt(toks, g) \in D)
    <3>1. (\A g \in FirstPrefixes(toks, n) : Len(g) <= Len(PrefixAt(toks, j)) => g \in D)
            <=> \A i \in 1..n : Len(PrefixAt(toks, i)) <= Len(PrefixAt(toks, j)) => PrefixAt(toks, i) \in D
      BY DEF FirstPrefixes
    <3>2. \A i \in 1..n : Len(PrefixAt(toks, i)) <= Len(PrefixAt(toks, j)) <=> i <= j
      BY <1>3, <1>4
    <3>3. 1..j \subseteq 1..n /\ \A i \in 1..n : i <= j <=> i \in 1..j
      BY <1>1
    <3> QED
      BY <3>1, <3>2, <3>3
  <2> QED
    BY <2>1, <2>2 DEF FirstPrefixes
<1>6. CASE Bad = {}
  <2>1. {i \in 1..n : \A g \in 1..i : PrefixAt(toks, g) \in D} = 1..n
    BY <1>1, <1>6
  <2>2. CachedRun(m, toks) = FirstPrefixes(toks, n)
    BY <1>5, <2>1 DEF FirstPrefixes
  <2>3. FirstPrefixes(toks, n) \subseteq D
    BY <1>6 DEF FirstPrefixes
  <2>4. RunLength(m, toks, n)
    BY <1>1, <2>2, <2>3 DEF RunLength, D, n
  <2> QED
    BY <1>1, <2>4 DEF n
<1>7. CASE Bad # {}
  <2>0. Bad \subseteq Nat
    OBVIOUS
  <2>1. PICK x \in Bad : \A y \in Bad : x <= y
    <3> HIDE DEF Bad
    <3> QED
      BY <1>7, <2>0, LeastElement
  <2>2. x \in 1..n /\ PrefixAt(toks, x) \notin D
    BY <2>1
  <2>3. \A j \in 1..(x - 1) : PrefixAt(toks, j) \in D
    BY <1>1, <2>1, <2>2
  <2>4. {i \in 1..n : \A g \in 1..i : PrefixAt(toks, g) \in D} = 1..(x - 1)
    <3>1. \A i \in 1..(x - 1) : i \in 1..n /\ \A g \in 1..i : PrefixAt(toks, g) \in D
      BY <1>1, <2>2, <2>3
    <3>2. ASSUME NEW i \in 1..n, \A g \in 1..i : PrefixAt(toks, g) \in D
          PROVE  i \in 1..(x - 1)
      <4>1. ~(x \in 1..i)
        BY <2>2, <3>2
      <4> QED
        BY <1>1, <2>2, <4>1
    <3> QED
      BY <3>1, <3>2
  <2>5. CachedRun(m, toks) = FirstPrefixes(toks, x - 1)
    BY <1>5, <2>4 DEF FirstPrefixes
  <2>6. FirstPrefixes(toks, x - 1) \subseteq D
    BY <2>3 DEF FirstPrefixes
  <2>7. x - 1 + 1 = x /\ x - 1 \in 0..n
    BY <1>1, <2>2
  <2>8. RunLength(m, toks, x - 1)
    BY <2>2, <2>5, <2>6, <2>7 DEF RunLength, D
  <2> QED
    BY <2>7, <2>8 DEF n
<1> QED
  BY <1>6, <1>7

\* Sets of hashes that have different lengths.
Graded(H) ==
  /\ IsFiniteSet(H)
  /\ \A h \in H : Len(h) \in Nat
  /\ \A g, h \in H : Len(g) = Len(h) => g = h

\* InOrder numbers the elements.
LEMMA InOrderFacts ==
  ASSUME NEW H, Graded(H)
  PROVE  /\ Cardinality(H) \in Nat
         /\ \A j \in 1..Cardinality(H) : InOrder(H)[j] \in H
         /\ \A i, j \in 1..Cardinality(H) : InOrder(H)[i] = InOrder(H)[j] => i = j
         /\ \A h \in H : \E j \in 1..Cardinality(H) : InOrder(H)[j] = h
<1> DEFINE n == Cardinality(H)
           Below(h) == {g \in H : Len(g) <= Len(h)}
           f == [h \in H |-> Cardinality(Below(h))]
<1>0. /\ IsFiniteSet(H) /\ \A h \in H : Len(h) \in Nat
      /\ \A g, h \in H : Len(g) = Len(h) => g = h
  BY DEF Graded
<1>1. n \in Nat
  BY <1>0, FS_CardinalityType
<1>2. ASSUME NEW h \in H
      PROVE  /\ IsFiniteSet(Below(h)) /\ Cardinality(Below(h)) \in 1..n
  <2>1. Below(h) \in SUBSET H /\ h \in Below(h)
    BY <1>0
  <2> HIDE DEF Below
  <2>2. IsFiniteSet(Below(h)) /\ Cardinality(Below(h)) <= n
    BY <1>0, <2>1, FS_Subset
  <2>3. Cardinality(Below(h)) \in Nat /\ Cardinality(Below(h)) # 0
    BY <2>1, <2>2, FS_CardinalityType, FS_EmptySet
  <2> QED
    BY <1>1, <2>2, <2>3
<1>3. ASSUME NEW g \in H, NEW h \in H, Cardinality(Below(g)) = Cardinality(Below(h)), Len(g) <= Len(h)
      PROVE  g = h
  <2>1. Below(g) \in SUBSET Below(h)
    BY <1>0, <1>3
  <2>2. h \in Below(h)
    BY <1>0
  <2>3. Below(g) = Below(h)
    <3> HIDE DEF Below
    <3> QED
      BY <1>2, <1>3, <2>1, FS_Subset
  <2>4. Len(h) <= Len(g)
    BY <2>2, <2>3
  <2> QED
    BY <1>0, <1>3, <2>4
<1>4. ASSUME NEW g \in H, NEW h \in H, Cardinality(Below(g)) = Cardinality(Below(h))
      PROVE  g = h
  <2>1. Len(g) <= Len(h) \/ Len(h) <= Len(g)
    BY <1>0
  <2> HIDE DEF Below
  <2> QED
    BY <1>3, <1>4, <2>1
<1>5. \A j \in 1..n : \E h \in H : Cardinality(Below(h)) = j
  <2> HIDE DEF Below, n
  <2>1. f \in Injection(H, 1..n)
    BY <1>2, <1>4 DEF Injection, IsInjective
  <2>2. IsFiniteSet(1..n) /\ Cardinality(1..n) = n
    BY <1>1, FS_Interval
  <2>3. f \in Surjection(H, 1..n)
    <3> HIDE DEF f
    <3> QED
      BY <2>1, <2>2, FS_Injection DEF n
  <2>4. \A j \in 1..n : \E h \in H : f[h] = j
    <3> HIDE DEF f
    <3> QED
      BY <2>3 DEF Surjection
  <2> QED
    BY <2>4
<1>6. DOMAIN InOrder(H) = 1..n /\ \A j \in 1..n : InOrder(H)[j] = CHOOSE h \in H : Cardinality(Below(h)) = j
  BY DEF InOrder
<1> HIDE DEF Below, n
<1>7. \A j \in 1..n : InOrder(H)[j] \in H /\ Cardinality(Below(InOrder(H)[j])) = j
  BY <1>5, <1>6
<1>8. \A h \in H : \E j \in 1..n : InOrder(H)[j] = h
  <2> TAKE h \in H
  <2>1. Cardinality(Below(h)) \in 1..n
    BY <1>2
  <2>2. InOrder(H)[Cardinality(Below(h))] = h
    BY <1>4, <1>7, <2>1
  <2> QED
    BY <2>1, <2>2
<1>9. \A i, j \in 1..n : InOrder(H)[i] = InOrder(H)[j] => i = j
  BY <1>7
<1> QED
  BY <1>1, <1>7, <1>8, <1>9 DEF n

\* The prefixes of a prompt have different lengths.
LEMMA PrefixesGraded ==
  ASSUME NEW toks \in Seq(Tokens), NEW n \in Nat, n * SpanSize <= Len(toks),
         NEW H, H \subseteq FirstPrefixes(toks, n)
  PROVE  Graded(H)
<1>1. /\ IsFiniteSet(FirstPrefixes(toks, n)) /\ FirstPrefixes(toks, n) \subseteq Seq(Tokens)
      /\ \A h \in FirstPrefixes(toks, n) : h = PrefixAt(toks, Len(h) \div SpanSize)
  BY FirstPrefixesFacts
<1>2. IsFiniteSet(H)
  BY <1>1, FS_Subset
<1>3. \A g, h \in H : Len(g) = Len(h) => g = h
  BY <1>1
<1>4. \A h \in H : Len(h) \in Nat
  BY <1>1
<1> QED
  BY <1>2, <1>3, <1>4 DEF Graded

-----------------------------------------------------------------------------
(* RefFill.                                                                *)

\* X is what user r has of M2 instead of what it has of M.
SetFor(M, M2, L, r, X) == \A s \in L : M2[s] = IF s = r THEN X ELSE M[s]

\* A user has the blocks of the nodes it refers to in its virtual cache.
LEMMA ShareMore ==
  ASSUME NEW m, NEW B, NEW B2, NEW N, NEW L, NEW r \in L, NEW X, GpuOK(m, B, N, L),
         SetFor(B, B2, L, r, X), NEW G, G \subseteq N[r], X = B[r] \cup {m.table[h].blk : h \in G}
  PROVE  GpuOK(m, B2, N, L)
<1>0. \A s \in L : B2[s] = IF s = r THEN B[r] \cup {m.table[h].blk : h \in G} ELSE B[s]
  BY DEF SetFor
<1>1. G \subseteq DOMAIN m.table
  BY DEF GpuOK, CountOK
<1>2. {m.table[h].blk : h \in G} \subseteq NodeBlocks(m)
  BY <1>1 DEF NodeBlocks
<1>3. \A h \in DOMAIN m.table : m.table[h].blk \in Blocks
  BY DEF GpuOK, TableOK
<1>4. OwnOK(m, B2, L)
  <2>1. ASSUME NEW b
        PROVE  (b \in NodeBlocks(m) \/ (\E s \in L : b \in B[s]))
                 <=> (b \in NodeBlocks(m) \/ (\E s \in L : b \in B2[s]))
    BY <1>0, <1>2
  <2> QED
    BY <2>1 DEF GpuOK, OwnOK
<1>5. ShareOK(m, B2, N, L)
  <2>1. /\ \A s \in L : B[s] \subseteq Blocks
        /\ \A s, t \in L : s # t => B[s] \cap B[t] \subseteq NodeBlocks(m)
        /\ \A s \in L : \A h \in DOMAIN m.table : m.table[h].blk \in B[s] => h \in N[s]
        /\ \A g, h \in DOMAIN m.table : m.table[g].blk = m.table[h].blk => g = h
    BY DEF GpuOK, ShareOK, TableOK
  <2>2. \A s \in L : B2[s] \subseteq Blocks
    BY <1>0, <1>1, <1>3, <2>1
  <2>3. \A s, t \in L : s # t => B2[s] \cap B2[t] \subseteq NodeBlocks(m)
    BY <1>0, <1>2, <2>1
  <2>4. \A s \in L : \A h \in DOMAIN m.table : m.table[h].blk \in B2[s] => h \in N[s]
    BY <1>0, <1>1, <2>1
  <2> QED
    BY <2>2, <2>3, <2>4 DEF ShareOK
<1> QED
  BY <1>4, <1>5 DEF GpuOK

\* ClaimSpans for one user.
LEMMA ClaimForOne ==
  ASSUME NEW m, NEW n, NEW B, NEW B2, NEW N, NEW L, NEW r \in L, NEW R, NEW X,
         GpuOK(m, B, N, L), ClaimStep(m, n, R), SetFor(B, B2, L, r, X), X = B[r] \cup R
  PROVE  /\ GpuOK(n, B2, N, L)
         /\ \A b \in R : b \notin NodeBlocks(m) /\ \A s \in L : b \notin B[s]
         /\ NodeBlocks(n) = NodeBlocks(m)
<1>0. \A s \in L : B2[s] = IF s = r THEN B[r] \cup R ELSE B[s]
  BY DEF SetFor
<1>1. \A b \in R : b \in Blocks /\ m.free[b] > 0
  BY DEF ClaimStep, FreeBlocks
<1>2. \A b \in R : \A s \in L : b \notin B[s]
  BY <1>1 DEF GpuOK, OwnOK
<1>3. \A s \in L : B[s] \subseteq B2[s] /\ B2[s] \subseteq B[s] \cup R
  BY <1>0
<1>4. \A s, t \in L : s # t => B2[s] \cap B2[t] \cap R = {}
  BY <1>0, <1>2
<1>5. \A b \in R : \E s \in L : b \in B2[s]
  BY <1>0
<1>6. /\ GpuOK(n, B2, N, L)
      /\ \A b \in R : b \notin NodeBlocks(m) /\ \A s \in L : b \notin B[s]
  BY <1>3, <1>4, <1>5, ClaimGpuOK
<1>7. NodeBlocks(n) = NodeBlocks(m)
  BY DEF ClaimStep, NodeBlocks
<1> QED
  BY <1>6, <1>7

\* The table after an insertion.
InsertEffect(m, n, new, H, ts) ==
  /\ NodeBlocks(n) = NodeBlocks(m) \cup {new[h].blk : h \in DOMAIN new}
  /\ DOMAIN n.table = DOMAIN m.table \cup DOMAIN new
  /\ \A h \in DOMAIN m.table :
       /\ n.table[h].blk = m.table[h].blk
       /\ n.table[h].ts = IF h \in H THEN Later(m.table[h].ts, ts) ELSE m.table[h].ts
  /\ \A h \in DOMAIN new :
       /\ n.table[h].blk = new[h].blk
       /\ n.table[h].ts = IF h \in H THEN Later(new[h].ts, ts) ELSE new[h].ts

\* Nodes for blocks of user r take no block of another user.
LEMMA InsertNoCapture ==
  ASSUME NEW m, NEW i, NEW n, NEW B, NEW N, NEW L, NEW r \in L, NEW new, NEW own, NEW H, NEW ts \in Nat,
         GpuOK(m, B, N, L), own = B[r], InsertStep(m, i, new), NewNodes(m, new, own), RefStep(i, n, H, ts)
  PROVE  /\ NoCapture(m, n, B, L \ {r})
         /\ InsertEffect(m, n, new, H, ts)
<1>0. TableOK(m)
  BY DEF GpuOK
<1>1. /\ DOMAIN i.table = DOMAIN m.table \cup DOMAIN new
      /\ \A h \in DOMAIN m.table : i.table[h] = m.table[h]
      /\ \A h \in DOMAIN new : i.table[h] = new[h]
      /\ NodeBlocks(i) = NodeBlocks(m) \cup {new[h].blk : h \in DOMAIN new}
      /\ TableOK(i)
  BY <1>0, InsertTable
<1>2. RefEffect(i, n, H, ts)
  BY <1>1, RefStepEffect
<1>3. NodeBlocks(n) = NodeBlocks(i)
  <2>1. DOMAIN n.table = DOMAIN i.table /\ \A h \in DOMAIN i.table : n.table[h].blk = i.table[h].blk
    BY <1>2 DEF RefEffect
  <2> QED
    BY <2>1 DEF NodeBlocks
<1>4. \A h \in DOMAIN new : new[h].blk \in B[r] /\ new[h].blk \notin NodeBlocks(m)
  BY DEF NewNodes
<1>5. \A s \in L : s # r => B[r] \cap B[s] \subseteq NodeBlocks(m)
  BY DEF GpuOK, ShareOK
<1>6. NoCapture(m, n, B, L \ {r})
  BY <1>1, <1>3, <1>4, <1>5 DEF NoCapture
<1>7. /\ DOMAIN n.table = DOMAIN m.table \cup DOMAIN new
      /\ \A h \in DOMAIN m.table :
           /\ n.table[h].blk = m.table[h].blk
           /\ n.table[h].ts = IF h \in H THEN Later(m.table[h].ts, ts) ELSE m.table[h].ts
      /\ \A h \in DOMAIN new :
           /\ n.table[h].blk = new[h].blk
           /\ n.table[h].ts = IF h \in H THEN Later(new[h].ts, ts) ELSE new[h].ts
  BY <1>1, <1>2 DEF RefEffect
<1> QED
  BY <1>1, <1>3, <1>6, <1>7 DEF InsertEffect

\* The blocks f of the hashes H, in the order of the hashes.
LEMMA ListBlocks ==
  ASSUME NEW H, Graded(H), NEW f, \A h \in H : f[h] \in Blocks, \A g, h \in H : f[g] = f[h] => g = h,
         NEW s, s = [j \in 1..Cardinality(H) |-> f[InOrder(H)[j]]]
  PROVE  /\ s \in Seq(Blocks) /\ Len(s) = Cardinality(H) /\ IsInjective(s)
         /\ Range(s) = {f[h] : h \in H}
<1> DEFINE n == Cardinality(H)
           o == InOrder(H)
<1>1. /\ n \in Nat /\ \A j \in 1..n : o[j] \in H
      /\ \A i, j \in 1..n : o[i] = o[j] => i = j
      /\ \A h \in H : \E j \in 1..n : o[j] = h
  BY InOrderFacts
<1>2. s = [j \in 1..n |-> f[o[j]]]
  OBVIOUS
<1> HIDE DEF n, o
<1>3. DOMAIN s = 1..n /\ \A j \in 1..n : s[j] = f[o[j]]
  BY <1>2
<1>4. s \in [1..n -> Blocks]
  <2>1. \A j \in 1..n : f[o[j]] \in Blocks
    BY <1>1
  <2> QED
    BY ONLY <1>2, <2>1
<1>5. s \in Seq(Blocks) /\ Len(s) = n
  BY ONLY <1>1, <1>4
<1>6. IsInjective(s)
  <2>1. ASSUME NEW i \in 1..n, NEW j \in 1..n, s[i] = s[j]
        PROVE  i = j
    <3>1. f[o[i]] = f[o[j]] /\ o[i] \in H /\ o[j] \in H
      BY <1>1, <1>3, <2>1
    <3>2. o[i] = o[j]
      BY <3>1
    <3> QED
      BY <1>1, <3>2
  <2> QED
    BY ONLY <1>3, <2>1 DEF IsInjective
<1>7. Range(s) = {f[h] : h \in H}
  BY ONLY <1>1, <1>3 DEF Range
<1> QED
  BY <1>5, <1>6, <1>7 DEF n

\* Two such lists one after the other.
LEMMA ConcatLists ==
  ASSUME NEW a, NEW b, a \in Seq(Blocks), b \in Seq(Blocks), IsInjective(a), IsInjective(b),
         Range(a) \cap Range(b) = {}
  PROVE  /\ a \o b \in Seq(Blocks) /\ Len(a \o b) = Len(a) + Len(b) /\ IsInjective(a \o b)
         /\ Range(a \o b) = Range(a) \cup Range(b)
<1> DEFINE c == a \o b
           p == Len(a)
           q == Len(b)
<1>1. /\ c \in Seq(Blocks) /\ Len(c) = p + q
      /\ \A i \in 1..(p + q) : c[i] = IF i <= p THEN a[i] ELSE b[i - p]
  BY ConcatProperties
<1>2. /\ p \in Nat /\ q \in Nat /\ DOMAIN a = 1..p /\ DOMAIN b = 1..q /\ DOMAIN c = 1..(p + q)
  BY <1>1, LenProperties
<1> HIDE DEF c, p, q
<1>3. \A i \in 1..p : i \in 1..(p + q) /\ c[i] = a[i] /\ a[i] \in Range(a)
  <2> TAKE i \in 1..p
  <2>1. i \in 1..(p + q) /\ i <= p
    BY ONLY <1>2, i \in 1..p
  <2>2. c[i] = a[i]
    BY ONLY <1>1, <2>1
  <2>3. a[i] \in Range(a)
    BY ONLY <1>2, i \in 1..p DEF Range
  <2> QED
    BY ONLY <2>1, <2>2, <2>3
<1>4. \A i \in 1..(p + q) : i > p => i - p \in 1..q /\ c[i] = b[i - p] /\ b[i - p] \in Range(b)
  BY ONLY <1>1, <1>2 DEF Range
<1>5. \A j \in 1..q : p + j \in 1..(p + q) /\ c[p + j] = b[j]
  BY <1>1, <1>2
<1>6. ASSUME NEW i \in 1..(p + q), NEW j \in 1..(p + q), c[i] = c[j]
      PROVE  i = j
  <2>1. CASE i <= p /\ j <= p
    <3>1. i \in 1..p /\ j \in 1..p /\ a[i] = a[j]
      BY <1>2, <1>3, <1>6, <2>1
    <3> QED
      BY <1>2, <3>1 DEF IsInjective
  <2>2. CASE i > p /\ j > p
    <3>1. i - p \in 1..q /\ j - p \in 1..q /\ b[i - p] = b[j - p]
      BY <1>4, <1>6, <2>2
    <3>2. i - p = j - p
      BY <1>2, <3>1 DEF IsInjective
    <3> QED
      BY <1>2, <3>2
  <2>3. CASE i <= p /\ j > p
    <3>1. i \in 1..p
      BY <1>2, <2>3
    <3>2. c[i] \in Range(a) /\ c[j] \in Range(b)
      BY <1>3, <1>4, <2>3, <3>1
    <3> QED
      BY <1>6, <3>2
  <2>4. CASE i > p /\ j <= p
    <3>1. j \in 1..p
      BY <1>2, <2>4
    <3>2. c[j] \in Range(a) /\ c[i] \in Range(b)
      BY <1>3, <1>4, <2>4, <3>1
    <3> QED
      BY <1>6, <3>2
  <2> QED
    BY <1>2, <2>1, <2>2, <2>3, <2>4
<1>7. IsInjective(c)
  BY <1>2, <1>6 DEF IsInjective
<1>8. Range(c) = Range(a) \cup Range(b)
  <2>1. \A x \in Range(c) : x \in Range(a) \cup Range(b)
    <3> TAKE x \in Range(c)
    <3>1. PICK i \in 1..(p + q) : x = c[i]
      BY <1>2 DEF Range
    <3>2. CASE i <= p
      BY <1>2, <1>3, <3>1, <3>2
    <3>3. CASE i > p
      BY <1>4, <3>1, <3>3
    <3> QED
      BY <1>2, <3>2, <3>3
  <2>2. \A x \in Range(a) : x \in Range(c)
    BY <1>2, <1>3 DEF Range
  <2>3. \A x \in Range(b) : x \in Range(c)
    BY <1>2, <1>5 DEF Range
  <2> QED
    BY <2>1, <2>2, <2>3
<1> QED
  BY <1>1, <1>7, <1>8 DEF c, p, q

\* What a step of a handler for user r leaves behind: the nodes R are in the table,
\* as young as can be, and the others are as they were.
FillEffect(m, n, R, T) ==
  /\ DOMAIN n.table = DOMAIN m.table \cup R
  /\ \A h \in DOMAIN m.table : n.table[h].blk = m.table[h].blk
  /\ \A h \in DOMAIN m.table \ R : n.table[h].ts = m.table[h].ts
  /\ \A h \in R : n.table[h].ts = T
  /\ DOMAIN n.cpu.table = DOMAIN m.cpu.table

\* Nodes only the CPU has.
CpuHits(m, C) ==
  /\ IsFiniteSet(C) /\ C \subseteq Seq(Tokens)
  /\ C \subseteq DOMAIN m.cpu.table /\ C \cap DOMAIN m.table = {}

\* They get blocks of their own, which are nobody else's.
SwapInGives(m, n, B, L, T, r, C, s) ==
  /\ NoCapture(m, n, B, L \ {r})
  /\ FillEffect(m, n, C, T)
  /\ DOMAIN s.blk = C /\ IsInjective(s.blk) /\ Range(s.blk) \subseteq Blocks
  /\ \A h \in C : n.table[h].blk = s.blk[h]
  /\ Range(s.blk) \cap NodeBlocks(m) = {}
  /\ m.fault = {}

\* SwapIn and RefOnly for the nodes C that are only on the CPU.
LEMMA SwapInOK ==
  ASSUME NEW m, NEW B, NEW N, NEW L, NEW T \in Nat, IsFiniteSet(L), CacheOK(m, B, N, L, T),
         NEW r \in L, B[r] = {}, NEW C, CpuHits(m, C),
         NEW s, s = SwapIn(m, C), NEW n, n = RefOnly(s.m, C, T), n.fault = {},
         NEW X, X = Range(s.blk), NEW B2, SetFor(B, B2, L, r, X),
         NEW Y, Y = N[r] \cup C, NEW N2, SetFor(N, N2, L, r, Y)
  PROVE  /\ CacheOK(n, B2, N2, L, T)
         /\ SwapInGives(m, n, B, L, T, r, C, s)
<1>0. /\ IsFiniteSet(C) /\ C \subseteq Seq(Tokens)
      /\ C \subseteq DOMAIN m.cpu.table /\ C \cap DOMAIN m.table = {}
  BY DEF CpuHits
<1> USE <1>0
<1> DEFINE c == m.cpu
           data == [h \in C |-> IF c.kv[c.table[h].k] = c.kv[c.table[h].v] THEN c.kv[c.table[h].k] ELSE Junk]
           a == ClaimSpans(m, data)
           new == [h \in C |-> [blk |-> a.blk[h], ref_cnt |-> 0, ts |-> c.table[h].ts]]
           i == insert_nodes(a.m, new)
<1>1. s = [m |-> i, blk |-> a.blk]
  BY DEF SwapIn
<1>2. s.m = i /\ s.blk = a.blk
  <2> HIDE DEF i, a
  <2> QED
    BY ONLY <1>1
<1>3. DOMAIN data = C
  OBVIOUS
<1>4. GpuOK(m, B, N, L) /\ CpuOK(m.cpu, T) /\ \A h \in DOMAIN m.table : m.table[h].ts <= T
  BY DEF CacheOK
<1>5. ManagerShape(m) /\ TableOK(m)
  BY <1>4 DEF GpuOK, TableOK
<1> HIDE DEF data
<1>6. ManagerShape(a.m) /\ m.fault \subseteq a.m.fault
  BY <1>3, <1>5, ClaimSpansFields
<1>60. \A h \in C : /\ new[h].blk = a.blk[h] /\ new[h].ref_cnt = 0 /\ new[h].ts = m.cpu.table[h].ts
                   /\ new[h] = [blk |-> new[h].blk, ref_cnt |-> new[h].ref_cnt, ts |-> new[h].ts]
  OBVIOUS
<1>61. DOMAIN new = C
  OBVIOUS
<1> HIDE DEF a, new
<1>7. /\ a.m.fault \subseteq i.fault /\ ManagerShape(i)
      /\ i.fault = {} => InsertStep(a.m, i, new)
  BY <1>6, InsertNodesIsStep
<1> HIDE DEF i
<1>8. n = RefOnly(i, C, T)
  BY <1>2
<1>9. RefStep(i, n, C, T)
  BY <1>7, <1>8, RefOnlyIsStep
<1>10. n.cpu = update_node_ts(i.cpu, OneTs(C, T))
  BY <1>7, <1>8, RefOnlyIsStep
<1>11. i.fault = {} /\ a.m.fault = {} /\ m.fault = {}
  BY <1>6, <1>7, <1>9 DEF RefStep
<1>12. InsertStep(a.m, i, new)
  BY <1>7, <1>11
<1> DEFINE R == Range(a.blk)
<1>13. /\ ClaimStep(m, a.m, R) /\ DOMAIN a.blk = C /\ IsInjective(a.blk)
       /\ R \subseteq FreeBlocks(m)
  BY <1>3, <1>5, <1>11, ClaimSpansIsStep DEF a
<1>14. SetFor(B, B2, L, r, R)
  BY <1>2
<1> HIDE DEF R
<1>15. R = B[r] \cup R
  OBVIOUS
<1>150. ClaimStep(m, a.m, R)
  BY <1>13
<1>16. /\ GpuOK(a.m, B2, N, L)
       /\ \A b \in R : b \notin NodeBlocks(m)
       /\ NodeBlocks(a.m) = NodeBlocks(m)
  BY <1>4, <1>14, <1>15, <1>150, ClaimForOne
<1>17. a.m.table = m.table /\ a.m.cpu = m.cpu
  BY <1>13 DEF ClaimStep
<1>18. R \subseteq Blocks
  BY <1>13 DEF FreeBlocks
<1>19. B2[r] = R /\ N2[r] = N[r] \cup C /\ \A u \in L : u # r => N2[u] = N[u] /\ B2[u] = B[u]
  BY <1>14 DEF SetFor
<1>20. NewNodes(a.m, new, R)
  <2>1. ASSUME NEW h \in C
        PROVE  /\ h \in Seq(Tokens) /\ new[h] \in [blk : Blocks, ref_cnt : Nat, ts : Nat]
               /\ new[h].ref_cnt = 0 /\ new[h].blk \in R /\ new[h].blk \notin NodeBlocks(a.m)
    <3>1. a.blk[h] \in R
      BY <1>13 DEF Range, R
    <3>2. m.cpu.table[h].ts \in Nat
      <4>1. h \in DOMAIN m.cpu.table
        OBVIOUS
      <4>2. m.cpu.table[h] \in [k : Units, v : Units, ts : 0..T, ready : BOOLEAN]
        BY <1>4, <4>1 DEF CpuOK
      <4> QED
        BY <4>2
    <3>3. a.blk[h] \in Blocks /\ a.blk[h] \notin NodeBlocks(a.m)
      BY <1>16, <1>18, <3>1
    <3>4. /\ new[h].blk = a.blk[h] /\ new[h].ref_cnt = 0 /\ new[h].ts = m.cpu.table[h].ts
          /\ new[h] = [blk |-> new[h].blk, ref_cnt |-> new[h].ref_cnt, ts |-> new[h].ts]
      BY ONLY <1>60, h \in C
    <3>5. new[h].blk \in Blocks /\ new[h].ref_cnt \in Nat /\ new[h].ts \in Nat
      BY <3>2, <3>3, <3>4
    <3>6. new[h] \in [blk : Blocks, ref_cnt : Nat, ts : Nat]
      BY ONLY <3>4, <3>5
    <3> QED
      BY <3>1, <3>3, <3>4, <3>6
  <2>2. ASSUME NEW g \in C, NEW h \in C, new[g].blk = new[h].blk
        PROVE  g = h
    <3>1. a.blk[g] = a.blk[h]
      BY <1>60, <2>2
    <3>2. g \in DOMAIN a.blk /\ h \in DOMAIN a.blk /\ IsInjective(a.blk)
      BY <1>13
    <3> QED
      BY ONLY <3>1, <3>2 DEF IsInjective
  <2> QED
    BY <1>17, <1>61, <2>1, <2>2 DEF NewNodes
<1>21. C \subseteq DOMAIN i.table
  BY <1>12, <1>61 DEF InsertStep, Joined
<1>22. Takes(i, N, N2, L, r, C)
  <2>1. N[r] \cap C = {}
    BY <1>4 DEF GpuOK, CountOK
  <2> QED
    BY <1>19, <1>21, <2>1 DEF Takes
<1>23. R = B2[r] /\ C \subseteq C /\ DOMAIN new \subseteq C
  BY <1>19, <1>61
<1>24. GpuOK(n, B2, N2, L)
  <2>1. GpuOK(a.m, B2, N, L)
    BY <1>16
  <2> QED
    BY <1>9, <1>12, <1>20, <1>22, <1>23, <2>1, InsertRefGpuOK
<1>25. NoCapture(a.m, n, B2, L \ {r}) /\ InsertEffect(a.m, n, new, C, T)
  <2>1. GpuOK(a.m, B2, N, L)
    BY <1>16
  <2> QED
    BY <1>9, <1>12, <1>20, <1>23, <2>1, InsertNoCapture
<1>250. /\ DOMAIN n.table = DOMAIN a.m.table \cup DOMAIN new
        /\ \A h \in DOMAIN a.m.table :
             /\ n.table[h].blk = a.m.table[h].blk
             /\ n.table[h].ts = IF h \in C THEN Later(a.m.table[h].ts, T) ELSE a.m.table[h].ts
        /\ \A h \in DOMAIN new :
             /\ n.table[h].blk = new[h].blk
             /\ n.table[h].ts = IF h \in C THEN Later(new[h].ts, T) ELSE new[h].ts
  BY <1>25 DEF InsertEffect
<1>26. NoCapture(m, n, B, L \ {r})
  BY <1>16, <1>19, <1>25 DEF NoCapture
<1>27. \A h \in C : new[h].ts <= T /\ new[h].ts \in Nat
  <2> TAKE h \in C
  <2>1. m.cpu.table[h] \in [k : Units, v : Units, ts : 0..T, ready : BOOLEAN]
    BY <1>4 DEF CpuOK
  <2>2. m.cpu.table[h].ts \in 0..T
    BY ONLY <2>1
  <2>3. new[h].ts = m.cpu.table[h].ts
    BY <1>60
  <2> QED
    BY <2>2, <2>3
<1>28. \A h \in C : n.table[h].ts = T /\ n.table[h].blk = a.blk[h]
  BY <1>250, <1>27, <1>60, <1>61 DEF Later
<1>29. CpuOK(n.cpu, T) /\ DOMAIN n.cpu.table = DOMAIN m.cpu.table
  <2>1. i.cpu = m.cpu
    BY <1>12, <1>17 DEF InsertStep
  <2>2. \A h \in DOMAIN OneTs(C, T) : OneTs(C, T)[h] \in 0..T
    BY DEF OneTs
  <2> QED
    BY <1>4, <1>10, <2>1, <2>2, TouchCpuOK
<1>30. /\ DOMAIN n.table = DOMAIN m.table \cup C
       /\ \A h \in DOMAIN m.table : n.table[h].blk = m.table[h].blk /\ n.table[h].ts = m.table[h].ts
  BY <1>17, <1>250, <1>61
<1>31. FillEffect(m, n, C, T)
  BY <1>28, <1>29, <1>30 DEF FillEffect
<1>32. CacheOK(n, B2, N2, L, T)
  BY <1>4, <1>24, <1>28, <1>29, <1>30 DEF CacheOK
<1> QED
  BY <1>2, <1>11, <1>13, <1>16, <1>18, <1>26, <1>28, <1>31, <1>32 DEF R, SwapInGives

\* What RefFill is given for place r, and what it makes of the cache.
RefFillInput(m, B, N, L, T, r, toks, f, B2, N2) ==
  /\ T \in Nat /\ IsFiniteSet(L) /\ CacheOK(m, B, N, L, T)
  /\ r \in L /\ N[r] = {} /\ B[r] = {} /\ toks \in Seq(Tokens) /\ Len(toks) >= 1
  /\ f = RefFill(m, toks, T) /\ f.m.fault = {}
  /\ SetFor(B, B2, L, r, Range(f.cache)) /\ SetFor(N, N2, L, r, f.nodes)
RefFillGives(m, B, N2, L, T, r, toks, f, B2) ==
  /\ CacheOK(f.m, B2, N2, L, T)
  /\ NoCapture(m, f.m, B, L \ {r})
  /\ FillEffect(m, f.m, f.nodes, T)
  /\ f.nodes = CachedRun(m, toks)
  /\ f.cache \in Seq(Blocks) /\ IsInjective(f.cache) /\ Len(f.cache) = Cardinality(f.nodes)
  /\ m.fault = {}

\* RefFill takes the cached run for place r.
LEMMA RefFillOK ==
  ASSUME NEW m, NEW B, NEW N, NEW L, NEW T, NEW r, NEW toks, NEW f, NEW B2, NEW N2, RefFillInput(m, B, N, L, T, r, toks, f, B2, N2)
  PROVE  RefFillGives(m, B, N2, L, T, r, toks, f, B2)
<1>0. /\ T \in Nat /\ IsFiniteSet(L) /\ CacheOK(m, B, N, L, T)
      /\ r \in L /\ N[r] = {} /\ B[r] = {} /\ toks \in Seq(Tokens) /\ Len(toks) >= 1
      /\ f = RefFill(m, toks, T) /\ f.m.fault = {}
      /\ SetFor(B, B2, L, r, Range(f.cache)) /\ SetFor(N, N2, L, r, f.nodes)
  BY DEF RefFillInput
<1> USE <1>0
<1> SUFFICES /\ CacheOK(f.m, B2, N2, L, T)
             /\ NoCapture(m, f.m, B, L \ {r})
             /\ FillEffect(m, f.m, f.nodes, T)
             /\ f.nodes = CachedRun(m, toks)
             /\ f.cache \in Seq(Blocks) /\ IsInjective(f.cache) /\ Len(f.cache) = Cardinality(f.nodes)
             /\ m.fault = {}
  BY DEF RefFillGives
<1> DEFINE R == CachedRun(m, toks)
           G == OnGpu(m, R)
           C == OnlyOnCpu(m, R)
           a == RefOnly(m, G, T)
           s == SwapIn(a, C)
           n == RefOnly(s.m, C, T)
           x == [j \in 1..Cardinality(G) |-> m.table[InOrder(G)[j]].blk]
           y == [j \in 1..Cardinality(C) |-> s.blk[InOrder(C)[j]]]
<1>1. f = [m |-> n, cache |-> x \o y, nodes |-> R]
  BY DEF RefFill
<1>2. f.m = n /\ f.cache = x \o y /\ f.nodes = R
  <2> HIDE DEF n, x, y, R
  <2> QED
    BY ONLY <1>1
<1>3. G = R \cap DOMAIN m.table /\ C = R \ DOMAIN m.table
  BY DEF OnGpu, OnlyOnCpu
<1>4. PICK k \in 0..HashedCount(toks) : RunLength(m, toks, k)
  BY CachedRunFacts
<1>5. /\ k \in Nat /\ k * SpanSize <= Len(toks) /\ R = FirstPrefixes(toks, k)
      /\ R \subseteq DOMAIN m.table \cup DOMAIN m.cpu.table
  <2>1. HashedCount(toks) \in Nat /\ HashedCount(toks) * SpanSize < Len(toks)
    BY HashedFacts
  <2>2. SpanSize \in Nat \ {0} /\ Len(toks) \in Nat
    BY PrefixCacheAssumption
  <2>3. k \in Nat /\ k * SpanSize <= HashedCount(toks) * SpanSize
    BY <2>1, <2>2, Multiples
  <2>4. R = FirstPrefixes(toks, k) /\ R \subseteq DOMAIN m.table \cup DOMAIN m.cpu.table
    BY <1>4 DEF RunLength
  <2> HIDE DEF R
  <2> QED
    BY <2>1, <2>2, <2>3, <2>4
<1> HIDE DEF R, G, C
<1>6. /\ IsFiniteSet(R) /\ R \subseteq Seq(Tokens)
  BY <1>5, FirstPrefixesFacts
<1>7. Graded(G) /\ Graded(C)
  <2>1. G \subseteq FirstPrefixes(toks, k) /\ C \subseteq FirstPrefixes(toks, k)
    BY <1>3, <1>5
  <2> QED
    BY <1>5, <2>1, PrefixesGraded
<1>8. IsFiniteSet(G) /\ IsFiniteSet(C)
  BY <1>7 DEF Graded
<1> DEFINE N1 == [u \in L |-> IF u = r THEN G ELSE N[u]]
           B1 == [u \in L |-> IF u = r THEN Range(s.blk) ELSE B[u]]
<1>9. Takes(m, N, N1, L, r, G) /\ N1[r] = G /\ \A u \in L : u # r => N1[u] = N[u]
  BY <1>3 DEF Takes
<1>10. SetFor(B, B1, L, r, Range(s.blk)) /\ B1[r] = Range(s.blk) /\ \A u \in L : u # r => B1[u] = B[u]
  BY DEF SetFor
<1>11. SetFor(N1, N2, L, r, N1[r] \cup C)
  <2>1. G \cup C = R
    BY <1>3
  <2> HIDE DEF N1
  <2> QED
    BY <1>2, <1>9, <2>1 DEF SetFor
<1> HIDE DEF N1, B1
<1>12. /\ CacheOK(a, B, N1, L, T) /\ RefEffect(m, a, G, T) /\ a.fault = m.fault
       /\ DOMAIN a.cpu.table = DOMAIN m.cpu.table
  <2>1. Takes(m, N, N1, L, r, G)
    BY <1>9
  <2>2. T <= T
    OBVIOUS
  <2> QED
    BY <2>1, <2>2, RefOnlyOK
<1>13. DOMAIN a.table = DOMAIN m.table /\ \A h \in DOMAIN m.table : a.table[h].blk = m.table[h].blk
  BY <1>12 DEF RefEffect
<1> HIDE DEF a, x, y
<1>14. /\ CacheOK(n, B1, N2, L, T)
       /\ NoCapture(a, n, B, L \ {r})
       /\ FillEffect(a, n, C, T)
       /\ DOMAIN s.blk = C /\ IsInjective(s.blk) /\ Range(s.blk) \subseteq Blocks
       /\ \A h \in C : n.table[h].blk = s.blk[h]
       /\ Range(s.blk) \cap NodeBlocks(a) = {}
       /\ a.fault = {}
  <2>1. CacheOK(a, B, N1, L, T)
    BY <1>12
  <2>2. C \subseteq Seq(Tokens)
    BY <1>3, <1>6
  <2>3. C \subseteq DOMAIN a.cpu.table
    BY <1>3, <1>5, <1>12
  <2>4. C \cap DOMAIN a.table = {}
    BY <1>3, <1>13
  <2>5. IsFiniteSet(C)
    BY <1>8
  <2>6. SetFor(B, B1, L, r, Range(s.blk))
    BY <1>10
  <2>7. n.fault = {}
    BY <1>2
  <2> HIDE DEF s, n
  <2>8. s = SwapIn(a, C)
    BY DEF s
  <2>9. n = RefOnly(s.m, C, T)
    BY DEF n
  <2> QED
    <3> DEFINE X == Range(s.blk)
               Y == N1[r] \cup C
    <3>1. SetFor(B, B1, L, r, X) /\ SetFor(N1, N2, L, r, Y)
      BY <1>11, <2>6
    <3>2. X = Range(s.blk) /\ Y = N1[r] \cup C
      OBVIOUS
    <3> HIDE DEF X, Y
    <3>3. T \in Nat /\ IsFiniteSet(L) /\ r \in L /\ B[r] = {}
      OBVIOUS
    <3>4. CpuHits(a, C)
      BY <2>2, <2>3, <2>4, <2>5 DEF CpuHits
    <3>5. CacheOK(n, B1, N2, L, T) /\ SwapInGives(a, n, B, L, T, r, C, s)
      BY ONLY <2>1, <2>7, <2>8, <2>9, <3>1, <3>2, <3>3, <3>4, SwapInOK
    <3> QED
      BY ONLY <3>5 DEF SwapInGives
<1> HIDE DEF s, n
<1>15. NodeBlocks(a) = NodeBlocks(m)
  BY <1>13 DEF NodeBlocks
<1>16. NoCapture(m, n, B, L \ {r})
  BY <1>14, <1>15 DEF NoCapture
<1>17. /\ TableOK(m) /\ \A h \in DOMAIN m.table : m.table[h].ts <= T
  BY DEF CacheOK, GpuOK
<1>18. /\ \A h \in DOMAIN m.table : m.table[h].ts \in Nat /\ m.table[h].blk \in Blocks
       /\ \A g, h \in DOMAIN m.table : m.table[g].blk = m.table[h].blk => g = h
  BY <1>17 DEF TableOK
<1>19. FillEffect(m, n, R, T)
  <2>1. /\ DOMAIN n.table = DOMAIN a.table \cup C
        /\ \A h \in DOMAIN a.table : n.table[h].blk = a.table[h].blk
        /\ \A h \in DOMAIN a.table \ C : n.table[h].ts = a.table[h].ts
        /\ \A h \in C : n.table[h].ts = T
        /\ DOMAIN n.cpu.table = DOMAIN a.cpu.table
    BY <1>14 DEF FillEffect
  <2>2. \A h \in DOMAIN m.table : a.table[h].ts = IF h \in G THEN Later(m.table[h].ts, T) ELSE m.table[h].ts
    BY <1>12 DEF RefEffect
  <2>3. \A h \in G : h \in DOMAIN m.table /\ Later(m.table[h].ts, T) = T
    BY <1>3, <1>17, <1>18 DEF Later
  <2>4. \A h \in R : n.table[h].ts = T
    BY <1>3, <1>13, <2>1, <2>2, <2>3
  <2>5. \A h \in DOMAIN m.table \ R : n.table[h].ts = m.table[h].ts
    BY <1>3, <1>13, <2>1, <2>2
  <2> QED
    BY <1>3, <1>12, <1>13, <2>1, <2>4, <2>5 DEF FillEffect
<1>20. /\ x \in Seq(Blocks) /\ Len(x) = Cardinality(G) /\ IsInjective(x)
       /\ Range(x) = {m.table[h].blk : h \in G}
  <2> DEFINE q == NodeSpans(m, G)
  <2>1. \A h \in G : q[h] = m.table[h].blk
    BY DEF NodeSpans
  <2>2. x = [j \in 1..Cardinality(G) |-> q[InOrder(G)[j]]]
    BY <1>7, <2>1, InOrderFacts DEF x
  <2>3. \A h \in G : q[h] \in Blocks
    BY <1>3, <1>18, <2>1
  <2>4. \A g, h \in G : q[g] = q[h] => g = h
    BY <1>3, <1>18, <2>1
  <2> HIDE DEF q
  <2>5. /\ x \in Seq(Blocks) /\ Len(x) = Cardinality(G) /\ IsInjective(x)
        /\ Range(x) = {q[h] : h \in G}
    BY <1>7, <2>2, <2>3, <2>4, ListBlocks
  <2> QED
    BY <2>1, <2>5
<1>21. /\ y \in Seq(Blocks) /\ Len(y) = Cardinality(C) /\ IsInjective(y)
       /\ Range(y) = Range(s.blk)
  <2> DEFINE q == s.blk
  <2>1. y = [j \in 1..Cardinality(C) |-> q[InOrder(C)[j]]]
    BY DEF y
  <2>2. \A h \in C : q[h] \in Blocks
    BY <1>14 DEF Range
  <2>3. \A g, h \in C : q[g] = q[h] => g = h
    BY <1>14 DEF IsInjective
  <2>4. Range(q) = {q[h] : h \in C}
    BY <1>14 DEF Range
  <2> HIDE DEF q
  <2>5. /\ y \in Seq(Blocks) /\ Len(y) = Cardinality(C) /\ IsInjective(y)
        /\ Range(y) = {q[h] : h \in C}
    <3>1. Graded(C)
      BY <1>7
    <3> HIDE DEF y
    <3> QED
      BY ONLY <3>1, <2>1, <2>2, <2>3, ListBlocks
  <2> QED
    BY <2>4, <2>5 DEF q
<1>22. Range(x) \cap Range(y) = {}
  <2>1. {m.table[h].blk : h \in G} \subseteq NodeBlocks(m)
    BY <1>3 DEF NodeBlocks
  <2> QED
    BY <1>14, <1>15, <1>20, <1>21, <2>1
<1>23. /\ f.cache \in Seq(Blocks) /\ Len(f.cache) = Len(x) + Len(y) /\ IsInjective(f.cache)
       /\ Range(f.cache) = Range(x) \cup Range(y)
  <2>1. x \in Seq(Blocks) /\ IsInjective(x) /\ y \in Seq(Blocks) /\ IsInjective(y)
    BY <1>20, <1>21
  <2>2. f.cache = x \o y
    BY <1>2
  <2> QED
    BY ONLY <1>22, <2>1, <2>2, ConcatLists
<1>24. Cardinality(R) = Cardinality(G) + Cardinality(C)
  <2>1. G \cup C = R /\ G \cap C = {}
    BY <1>3
  <2>2. Cardinality(G \cup C) = Cardinality(G) + Cardinality(C) - Cardinality(G \cap C)
    BY <1>8, FS_Union
  <2>3. Cardinality(G) \in Nat /\ Cardinality(C) \in Nat /\ Cardinality({}) = 0
    BY <1>8, FS_CardinalityType, FS_EmptySet
  <2>4. Cardinality(G \cap C) = 0
    BY <2>1, <2>3
  <2> QED
    <3>1. Cardinality(R) = Cardinality(G \cup C)
      BY <2>1
    <3> QED
      BY ONLY <2>2, <2>3, <2>4, <3>1
<1>25. CacheOK(n, B2, N2, L, T)
  <2>1. GpuOK(n, B1, N2, L)
    BY <1>14 DEF CacheOK
  <2>2. G \subseteq N2[r]
    BY <1>2, <1>3 DEF SetFor
  <2>3. Range(f.cache) = B1[r] \cup {n.table[h].blk : h \in G}
    <3>1. \A h \in G : n.table[h].blk = m.table[h].blk
      BY <1>3, <1>19 DEF FillEffect
    <3>2. {m.table[h].blk : h \in G} = {n.table[h].blk : h \in G}
      BY ONLY <3>1
    <3>3. Range(f.cache) = {m.table[h].blk : h \in G} \cup Range(s.blk)
      BY ONLY <1>20, <1>21, <1>23
    <3>4. B1[r] = Range(s.blk)
      BY <1>10
    <3> QED
      BY ONLY <3>2, <3>3, <3>4
  <2>4. SetFor(B1, B2, L, r, Range(f.cache))
    BY <1>10 DEF SetFor
  <2>5. GpuOK(n, B2, N2, L)
    BY <2>1, <2>2, <2>3, <2>4, ShareMore
  <2> QED
    BY <1>14, <2>5 DEF CacheOK
<1> QED
  BY <1>2, <1>12, <1>14, <1>16, <1>19, <1>20, <1>21, <1>23, <1>24, <1>25 DEF R

-----------------------------------------------------------------------------
(* FillUp and Insert.                                                      *)

\* The spans the KV of n tokens needs.
SpansFor(n) == (n + SpanSize - 1) \div SpanSize

\* The virtual cache of user r: different blocks, of which only the first k may be nodes'.
VirtualCache(m, cache, k) ==
  /\ cache \in Seq(Blocks) /\ IsInjective(cache)
  /\ \A j \in DOMAIN cache : j > k => cache[j] \notin NodeBlocks(m)

\* What FillUp is given for place r, and what it makes of the cache.
FillUpInput(m, B, N, L, T, r, toks, cache, p, X, B2) ==
  /\ T \in Nat /\ CacheOK(m, B, N, L, T) /\ r \in L
  /\ toks \in Seq(Tokens) /\ cache \in Seq(Blocks) /\ IsInjective(cache)
  /\ Len(cache) <= SpansFor(Len(toks)) /\ B[r] = Range(cache)
  /\ p = FillUp(m, toks, cache) /\ p.m.fault = {}
  /\ X = Range(p.cache) /\ SetFor(B, B2, L, r, X)
FillUpGives(m, N, L, T, toks, cache, p, B2) ==
  /\ CacheOK(p.m, B2, N, L, T)
  /\ VirtualCache(p.m, p.cache, Len(cache)) /\ Len(p.cache) = SpansFor(Len(toks))
  /\ p.m.table = m.table /\ p.m.cpu = m.cpu /\ m.fault = {}

\* FillUp claims the blocks the prompt still needs for place r.
LEMMA FillUpOK ==
  ASSUME NEW m, NEW B, NEW N, NEW L, NEW T, NEW r, NEW toks, NEW cache, NEW p, NEW X, NEW B2, FillUpInput(m, B, N, L, T, r, toks, cache, p, X, B2)
  PROVE  FillUpGives(m, N, L, T, toks, cache, p, B2)
<1>0. /\ T \in Nat /\ CacheOK(m, B, N, L, T) /\ r \in L
      /\ toks \in Seq(Tokens) /\ cache \in Seq(Blocks) /\ IsInjective(cache)
      /\ Len(cache) <= SpansFor(Len(toks)) /\ B[r] = Range(cache)
      /\ p = FillUp(m, toks, cache) /\ p.m.fault = {}
      /\ X = Range(p.cache) /\ SetFor(B, B2, L, r, X)
  BY DEF FillUpInput
<1> USE <1>0
<1> SUFFICES /\ CacheOK(p.m, B2, N, L, T)
             /\ VirtualCache(p.m, p.cache, Len(cache)) /\ Len(p.cache) = SpansFor(Len(toks))
             /\ p.m.table = m.table /\ p.m.cpu = m.cpu /\ m.fault = {}
  BY DEF FillUpGives
<1> DEFINE n == SpansFor(Len(toks))
           c == Len(cache)
           D == (c + 1)..n
           data == [j \in D |-> SpanKv(toks, Len(toks), j)]
           s == ClaimSpans(m, data)
           pc == [j \in 1..n |-> IF j <= c THEN cache[j] ELSE s.blk[j]]
<1>1. p = [m |-> s.m, cache |-> pc]
  BY DEF FillUp, SpansFor
<1>2. p.m = s.m /\ p.cache = pc
  <2> HIDE DEF s, pc
  <2> QED
    BY ONLY <1>1
<1>3. n \in Nat /\ c \in Nat /\ c <= n /\ DOMAIN cache = 1..c
  <2>1. Len(toks) \in Nat /\ SpanSize \in Nat \ {0}
    BY PrefixCacheAssumption
  <2>2. n \in Nat
    BY ONLY <2>1, RoundUp DEF SpansFor
  <2> QED
    BY <2>2
<1>4. IsFiniteSet(D)
  BY <1>3, FS_Interval
<1>5. DOMAIN data = D
  OBVIOUS
<1>6. GpuOK(m, B, N, L) /\ ManagerShape(m)
  BY DEF CacheOK, GpuOK, TableOK
<1> HIDE DEF data, n, c
<1>7. s.m.fault = {} /\ m.fault = {}
  <2>1. m.fault \subseteq s.m.fault
    BY <1>4, <1>5, <1>6, ClaimSpansFields
  <2> HIDE DEF s
  <2> QED
    BY <1>2, <2>1
<1> DEFINE R == Range(s.blk)
<1>8. ClaimStep(m, s.m, R) /\ DOMAIN s.blk = D /\ IsInjective(s.blk) /\ R \subseteq FreeBlocks(m)
  BY <1>4, <1>5, <1>6, <1>7, ClaimSpansIsStep
<1> HIDE DEF s
<1>9. DOMAIN pc = 1..n /\ (\A j \in 1..c : pc[j] = cache[j]) /\ \A j \in D : pc[j] = s.blk[j]
  BY <1>3
<1>10. \A j \in 1..n : j \in 1..c \/ j \in D
  BY <1>3
<1>11. 1..c \subseteq 1..n /\ D \subseteq 1..n /\ \A j \in D : j > c
  BY <1>3
<1>12. X = B[r] \cup R
  <2>1. Range(pc) = {pc[j] : j \in 1..n} /\ Range(cache) = {cache[j] : j \in 1..c} /\ R = {s.blk[j] : j \in D}
    BY <1>3, <1>8, <1>9 DEF Range
  <2> HIDE DEF pc, D, R
  <2>2. \A x \in Range(pc) : x \in Range(cache) \cup R
    BY <1>9, <1>10, <2>1
  <2>3. \A x \in Range(cache) \cup R : x \in Range(pc)
    BY <1>9, <1>11, <2>1
  <2> QED
    BY <1>2, <2>2, <2>3
<1> HIDE DEF R
<1>13. ClaimStep(m, s.m, R)
  BY <1>8
<1>14. /\ GpuOK(s.m, B2, N, L)
       /\ \A b \in R : b \notin NodeBlocks(m) /\ \A u \in L : b \notin B[u]
       /\ NodeBlocks(s.m) = NodeBlocks(m)
  BY <1>6, <1>12, <1>13, ClaimForOne
<1>15. s.m.table = m.table /\ s.m.cpu = m.cpu
  BY <1>13 DEF ClaimStep
<1>16. CacheOK(s.m, B2, N, L, T)
  BY <1>14, <1>15 DEF CacheOK
<1> HIDE DEF pc, D
<1>17. \A j \in D : s.blk[j] \in R
  BY <1>8 DEF Range, R
<1>18. R \subseteq Blocks
  BY <1>8 DEF FreeBlocks
<1>19. pc \in [1..n -> Blocks]
  <2>1. \A j \in 1..c : cache[j] \in Blocks
    BY <1>3
  <2>2. \A j \in 1..n : pc[j] \in Blocks
    BY <1>9, <1>10, <1>17, <1>18, <2>1
  <2>3. DOMAIN pc = 1..n /\ pc = [j \in 1..n |-> pc[j]]
    BY <1>9 DEF pc
  <2> QED
    BY ONLY <2>2, <2>3
<1>20. pc \in Seq(Blocks) /\ Len(pc) = n
  BY ONLY <1>3, <1>19
<1>21. IsInjective(pc)
  <2>1. \A j \in 1..c : cache[j] \in B[r]
    BY <1>3 DEF Range
  <2>2. ASSUME NEW i \in 1..n, NEW j \in 1..n, pc[i] = pc[j]
        PROVE  i = j
    <3>1. CASE i \in 1..c /\ j \in 1..c
      <4>1. cache[i] = cache[j]
        BY <1>9, <2>2, <3>1
      <4> QED
        BY <1>3, <3>1, <4>1 DEF IsInjective
    <3>2. CASE i \in D /\ j \in D
      <4>1. s.blk[i] = s.blk[j]
        BY <1>9, <2>2, <3>2
      <4> QED
        BY <1>8, <3>2, <4>1 DEF IsInjective
    <3>3. CASE i \in 1..c /\ j \in D
      BY <1>9, <1>14, <1>17, <2>1, <2>2, <3>3
    <3>4. CASE i \in D /\ j \in 1..c
      BY <1>9, <1>14, <1>17, <2>1, <2>2, <3>4
    <3> QED
      BY <1>10, <3>1, <3>2, <3>3, <3>4
  <2> QED
    BY ONLY <1>9, <2>2 DEF IsInjective
<1>22. \A j \in 1..n : j > c => pc[j] \notin NodeBlocks(s.m)
  <2> TAKE j \in 1..n
  <2>1. CASE j \in 1..c
    BY <1>3, <2>1
  <2>2. CASE j \in D
    BY <1>9, <1>14, <1>17, <2>2
  <2> QED
    BY <1>10, <2>1, <2>2
<1>23. VirtualCache(s.m, pc, c)
  BY <1>9, <1>20, <1>21, <1>22 DEF VirtualCache
<1> QED
  BY <1>2, <1>7, <1>15, <1>16, <1>20, <1>23 DEF n, c

\* The blocks the nodes of new get when they are inserted from cache.
InsertedNodes(m, new, ts, cache) ==
  [h \in new \ DOMAIN m.table |-> [blk |-> cache[Len(h) \div SpanSize], ref_cnt |-> 0, ts |-> ts]]

\* The nodes an Insert adds: whole prefixes of toks whose spans are the user's own.
Addable(m, toks, new, cache) ==
  /\ new \subseteq HashedPrefixes(toks)
  /\ \A h \in new : /\ Len(h) \div SpanSize \in DOMAIN cache
                    /\ cache[Len(h) \div SpanSize] \notin NodeBlocks(m)

LEMMA InsertedAreNew ==
  ASSUME NEW m, NEW toks \in Seq(Tokens), Len(toks) >= 1, NEW new, NEW cache, NEW ts \in Nat,
         cache \in Seq(Blocks), IsInjective(cache), Addable(m, toks, new, cache),
         NEW own, own = Range(cache), NEW add, add = InsertedNodes(m, new, ts, cache)
  PROVE  NewNodes(m, add, own) /\ DOMAIN add = new \ DOMAIN m.table
<1> DEFINE n == HashedCount(toks)
           D == new \ DOMAIN m.table
<1>1. n \in Nat /\ n * SpanSize < Len(toks) /\ HashedPrefixes(toks) = FirstPrefixes(toks, n)
  BY HashedFacts
<1>2. n * SpanSize <= Len(toks)
  BY <1>1, PrefixCacheAssumption
<1> HIDE DEF n
<1>3. /\ IsFiniteSet(FirstPrefixes(toks, n)) /\ FirstPrefixes(toks, n) \subseteq Seq(Tokens)
      /\ \A h \in FirstPrefixes(toks, n) : h = PrefixAt(toks, Len(h) \div SpanSize)
  BY <1>1, <1>2, FirstPrefixesFacts
<1>4. D \subseteq FirstPrefixes(toks, n)
  BY <1>1 DEF Addable
<1>5. IsFiniteSet(D)
  BY <1>3, <1>4, FS_Subset
<1>6. add = [h \in D |-> [blk |-> cache[Len(h) \div SpanSize], ref_cnt |-> 0, ts |-> ts]]
  BY DEF InsertedNodes
<1>7. DOMAIN add = D
  BY <1>6
<1>8. \A h \in D : add[h] = [blk |-> cache[Len(h) \div SpanSize], ref_cnt |-> 0, ts |-> ts]
  BY <1>6
<1>9. ASSUME NEW h \in D
      PROVE  /\ h \in Seq(Tokens) /\ add[h] \in [blk : Blocks, ref_cnt : Nat, ts : Nat]
             /\ add[h].ref_cnt = 0 /\ add[h].blk \in own /\ add[h].blk \notin NodeBlocks(m)
             /\ add[h].blk = cache[Len(h) \div SpanSize]
  <2>1. h \in new /\ h \in Seq(Tokens)
    BY <1>3, <1>4
  <2> DEFINE j == Len(h) \div SpanSize
  <2>2. j \in DOMAIN cache /\ cache[j] \notin NodeBlocks(m)
    BY <2>1 DEF Addable
  <2> HIDE DEF j
  <2>3. cache[j] \in Blocks /\ cache[j] \in Range(cache)
    BY <2>2 DEF Range
  <2>4. add[h] = [blk |-> cache[j], ref_cnt |-> 0, ts |-> ts]
    BY <1>8 DEF j
  <2>5. add[h].blk = cache[j] /\ add[h].ref_cnt = 0
    BY ONLY <2>4
  <2>6. add[h] \in [blk : Blocks, ref_cnt : Nat, ts : Nat]
    BY <2>3, <2>4
  <2> QED
    BY <2>1, <2>2, <2>3, <2>5, <2>6 DEF j
<1>10. ASSUME NEW g \in D, NEW h \in D, add[g].blk = add[h].blk
       PROVE  g = h
  <2>1. cache[Len(g) \div SpanSize] = cache[Len(h) \div SpanSize]
    BY <1>9, <1>10
  <2>2. Len(g) \div SpanSize \in DOMAIN cache /\ Len(h) \div SpanSize \in DOMAIN cache
    BY DEF Addable
  <2>3. Len(g) \div SpanSize = Len(h) \div SpanSize
    BY <2>1, <2>2 DEF IsInjective
  <2> QED
    BY <1>3, <1>4, <2>3
<1> HIDE DEF D
<1>11. D \cap DOMAIN m.table = {}
  BY DEF D
<1>12. NewNodes(m, add, own)
  BY <1>5, <1>7, <1>9, <1>10, <1>11 DEF NewNodes
<1> QED
  BY <1>7, <1>12 DEF D

\* The table after Insert.
InsertedTable(m, n, new, ts) ==
  /\ DOMAIN n.table = DOMAIN m.table \cup new
  /\ \A h \in DOMAIN m.table :
       /\ n.table[h].blk = m.table[h].blk
       /\ n.table[h].ts = IF h \in new THEN Later(m.table[h].ts, ts) ELSE m.table[h].ts
  /\ \A h \in new \ DOMAIN m.table : n.table[h].ts = ts
  /\ n.cpu = m.cpu /\ n.fault = {}

\* What Insert is given for user r: H are the nodes it is to insert or to refer to.
Insertable(m, B, N, r, toks, ts, T, cache, H) ==
  /\ B[r] = Range(cache)
  /\ toks \in Seq(Tokens) /\ Len(toks) >= 1 /\ ts \in Nat /\ ts <= T
  /\ cache \in Seq(Blocks) /\ IsInjective(cache)
  /\ N[r] \cap H = {} /\ Addable(m, toks, H, cache)

Gains(N, N2, L, r, H) == \A s \in L : N2[s] = IF s = r THEN N[r] \cup H ELSE N[s]

\* What it does.
InsertGives(m, n, B, L, r, H, ts, cache) ==
  /\ NoCapture(m, n, B, L \ {r})
  /\ InsertedTable(m, n, H, ts)
  /\ \A b \in NodeBlocks(n) : b \in NodeBlocks(m) \/ \E h \in H : b = cache[Len(h) \div SpanSize]

LEMMA InsertOK ==
  ASSUME NEW m, NEW B, NEW N, NEW L, NEW T \in Nat, IsFiniteSet(L), CacheOK(m, B, N, L, T), NEW r \in L,
         NEW toks, NEW start, NEW ts, NEW cache, NEW H, Insertable(m, B, N, r, toks, ts, T, cache, H),
         NEW i, i = Insert(m, toks, start, ts, cache), m.fault = {}, H = i.nodes,
         NEW N2, Gains(N, N2, L, r, H)
  PROVE  CacheOK(i.m, B, N2, L, T) /\ InsertGives(m, i.m, B, L, r, H, ts, cache)
<1>0. /\ toks \in Seq(Tokens) /\ Len(toks) >= 1 /\ ts \in Nat /\ ts <= T
      /\ cache \in Seq(Blocks) /\ IsInjective(cache)
      /\ N[r] \cap H = {} /\ Addable(m, toks, H, cache)
  BY DEF Insertable
<1> USE <1>0
<1> DEFINE own == B[r]
<1>00. own = Range(cache) /\ own = B[r]
  BY DEF Insertable
<1> HIDE DEF own
<1> USE <1>00
<1> DEFINE new == {h \in HashedPrefixes(toks) : Len(h) > start}
           add == InsertedNodes(m, new, ts, cache)
           a == insert_nodes(m, add)
           n == ref_nodes(a, new, ts)
<1>1. i = [m |-> n, nodes |-> new]
  BY DEF Insert, InsertedNodes
<1>2. i.m = n /\ H = new
  <2> HIDE DEF n, new
  <2> QED
    BY ONLY <1>1, H = i.nodes
<1> HIDE DEF new
<1>3. Addable(m, toks, new, cache)
  BY <1>2
<1>4. GpuOK(m, B, N, L) /\ TableOK(m) /\ ManagerShape(m) /\ CpuOK(m.cpu, T)
      /\ \A h \in DOMAIN m.table : m.table[h].ts <= T
  BY DEF CacheOK, GpuOK, TableOK
<1> HIDE DEF add
<1>5. NewNodes(m, add, own) /\ DOMAIN add = new \ DOMAIN m.table
  BY <1>3, InsertedAreNew DEF add
<1>6. Cardinality(DOMAIN m.table \cup DOMAIN add) <= Capacity
  BY <1>4, <1>5, InsertFits
<1>7. a.fault = {} /\ ManagerShape(a) /\ InsertStep(m, a, add)
  BY <1>4, <1>6, InsertNodesIsStep
<1> HIDE DEF a
<1>8. RefStep(a, n, new, ts) /\ n.cpu = a.cpu
  BY <1>7, RefNodesIsStep
<1> HIDE DEF n
<1>9. DOMAIN a.table = DOMAIN m.table \cup DOMAIN add
  BY <1>4, <1>5, <1>7, InsertTable
<1>10. new \subseteq DOMAIN a.table /\ DOMAIN add \subseteq new
  BY <1>5, <1>9
<1>11. Takes(a, N, N2, L, r, new)
  BY <1>2, <1>10 DEF Takes, Gains
<1>12. InsertStep(m, a, add) /\ RefStep(a, n, new, ts) /\ NewNodes(m, add, own) /\ DOMAIN add \subseteq new
  BY <1>5, <1>7, <1>8, <1>10
<1>13. GpuOK(n, B, N2, L)
  BY <1>4, <1>11, <1>12, InsertRefGpuOK
<1>14. NoCapture(m, n, B, L \ {r}) /\ InsertEffect(m, n, add, new, ts)
  BY <1>4, <1>12, InsertNoCapture
<1>15. n.cpu = m.cpu /\ n.fault = {}
  BY <1>7, <1>8 DEF InsertStep, RefStep
<1>16. \A h \in DOMAIN add : add[h].ts = ts /\ add[h].blk = cache[Len(h) \div SpanSize]
  BY DEF add, InsertedNodes
<1>17. InsertedTable(m, n, new, ts)
  <2>1. /\ DOMAIN n.table = DOMAIN m.table \cup DOMAIN add
        /\ \A h \in DOMAIN m.table :
             /\ n.table[h].blk = m.table[h].blk
             /\ n.table[h].ts = IF h \in new THEN Later(m.table[h].ts, ts) ELSE m.table[h].ts
        /\ \A h \in DOMAIN add :
             n.table[h].ts = IF h \in new THEN Later(add[h].ts, ts) ELSE add[h].ts
    BY <1>14 DEF InsertEffect
  <2>2. \A h \in DOMAIN add : n.table[h].ts = ts
    BY <1>16, <2>1 DEF Later
  <2> QED
    BY <1>5, <1>15, <2>1, <2>2 DEF InsertedTable
<1>18. \A b \in NodeBlocks(n) : b \in NodeBlocks(m) \/ \E h \in new : b = cache[Len(h) \div SpanSize]
  <2>1. NodeBlocks(n) = NodeBlocks(m) \cup {add[h].blk : h \in DOMAIN add}
    BY <1>14 DEF InsertEffect
  <2> QED
    BY <1>10, <1>16, <2>1
<1>19. \A h \in DOMAIN m.table : m.table[h].ts \in Nat
  BY <1>4 DEF TableOK
<1>20. \A h \in DOMAIN n.table : n.table[h].ts <= T
  BY <1>4, <1>17, <1>19 DEF InsertedTable, Later
<1>21. CacheOK(n, B, N2, L, T)
  BY <1>4, <1>13, <1>15, <1>20 DEF CacheOK
<1> QED
  BY <1>2, <1>14, <1>17, <1>18, <1>21 DEF InsertGives

-----------------------------------------------------------------------------
(* StopRequest.                                                            *)

\* The nodes of the users L stay where they are.
Keeps(m, n, N, L) ==
  \A s \in L : \A h \in N[s] : h \in DOMAIN n.table /\ n.table[h].blk = m.table[h].blk

\* The nodes StopContext inserts.
LateNodes(q) == {h \in HashedPrefixes(q.toks) : Len(h) > (q.input_len \div SpanSize) * SpanSize}

\* A user that can be stopped.
Stoppable(m, q, T) ==
  /\ q.toks \in Seq(Tokens) /\ Len(q.toks) >= 1 /\ q.ts \in Nat /\ q.ts <= T
  /\ q.cache \in Seq(Blocks) /\ IsInjective(q.cache)
  /\ q.nodes \cap LateNodes(q) = {} /\ Addable(m, q.toks, LateNodes(q), q.cache)

\* UnRef and ReleaseSpans for user r.
LEMMA LeaveOK ==
  ASSUME NEW m, NEW B, NEW N, NEW L, NEW T \in Nat, IsFiniteSet(L), CacheOK(m, B, N, L, T),
         NEW r \in L, NEW cache, IsInjective(cache), Range(cache) = B[r], NEW H, H = N[r],
         NEW n, n = ReleaseSpans(UnRef(m, H), cache)
  PROVE  CacheOK(n, B, N, L \ {r}, T) /\ SameNodes(m, n) /\ n.fault = m.fault
<1> DEFINE u == UnRef(m, H)
           tss == [h \in H |-> m.table[h].ts]
<1>1. GpuOK(m, B, N, L) /\ CpuOK(m.cpu, T) /\ \A h \in DOMAIN m.table : m.table[h].ts <= T
  BY DEF CacheOK
<1>2. TableOK(m) /\ CountOK(m, N, L) /\ ManagerShape(m) /\ H \subseteq DOMAIN m.table
      /\ OwnOK(m, B, L) /\ ShareOK(m, B, N, L)
  BY <1>1 DEF GpuOK, TableOK, CountOK
<1>3. UnrefStep(m, u, H) /\ u.cpu = update_node_ts(m.cpu, tss)
  BY <1>2, UnRefIsStep
<1>4. n = ReleaseSpans(u, cache)
  OBVIOUS
<1> HIDE DEF u
<1>5. TableOK(u) /\ CountOK(u, N, L \ {r}) /\ u.free = m.free /\ SameNodes(m, u)
  BY <1>2, <1>3, UnrefOK
<1>6. OwnOK(u, B, L) /\ ShareOK(u, B, N, L)
  <2>1. DOMAIN u.table = DOMAIN m.table /\ \A h \in DOMAIN m.table : u.table[h].blk = m.table[h].blk
    BY <1>5 DEF SameNodes
  <2> QED
    BY <1>2, <1>5, <2>1, SameBlocks
<1>7. GpuOK(n, B, N, L \ {r}) /\ n.table = u.table
  BY <1>4, <1>5, <1>6, ReleaseGpuOK
<1>8. ManagerShape(u) /\ u.fault = m.fault
  BY <1>3 DEF UnrefStep
<1>9. n.cpu = u.cpu /\ n.fault = m.fault
  BY <1>4, <1>8, ReleaseSpansFields
<1>10. \A h \in DOMAIN m.table : m.table[h].ts \in Nat
  BY <1>2 DEF TableOK
<1>11. \A h \in DOMAIN tss : tss[h] \in 0..T
  BY <1>1, <1>2, <1>10
<1> HIDE DEF tss
<1>12. CpuOK(n.cpu, T)
  BY <1>1, <1>3, <1>9, <1>11, TouchCpuOK
<1>13. SameNodes(m, n)
  BY <1>5, <1>7 DEF SameNodes
<1>14. \A h \in DOMAIN n.table : n.table[h].ts <= T
  BY <1>1, <1>13 DEF SameNodes
<1> QED
  BY <1>7, <1>9, <1>12, <1>13, <1>14 DEF CacheOK

\* StopContext goes through j, which has the nodes of the generated spans, to d,
\* which has lost the user r; while warming up it evicts from there.
StopsBy(m, B, N, L, r, T, q, expired, n, j, d, N2) ==
  /\ NoCapture(m, j, B, L \ {r}) /\ InsertedTable(m, j, LateNodes(q), q.ts)
  /\ SameNodes(j, d) /\ d.fault = j.fault /\ CacheOK(d, B, N2, L \ {r}, T)
  /\ \A s \in L \ {r} : N2[s] = N[s]
  /\ n = IF warm THEN evict_unrefered_by_num(d, Cardinality(d.evictor), expired) ELSE d

LEMMA StopParts ==
  ASSUME NEW m, NEW B, NEW N, NEW L, NEW T \in Nat, IsFiniteSet(L), CacheOK(m, B, N, L, T), m.fault = {},
         NEW r \in L, NEW q, Stoppable(m, q, T), B[r] = Range(q.cache), N[r] = q.nodes,
         NEW expired, NEW n, n = StopContext(m, q, expired)
  PROVE  \E j, d, N2 : StopsBy(m, B, N, L, r, T, q, expired, n, j, d, N2)
<1> DEFINE start == (q.input_len \div SpanSize) * SpanSize
           toks == q.toks
           cache == q.cache
           ts == q.ts
           i == Insert(m, toks, start, ts, cache)
           H == LateNodes(q)
           X == N[r] \cup H
           d == ReleaseSpans(UnRef(i.m, X), cache)
           k == Cardinality(d.evictor)
           N2 == [s \in L |-> IF s = r THEN X ELSE N[s]]
<1>1. i.nodes = H
  BY DEF Insert, LateNodes
<1>2. n = IF warm THEN evict_unrefered_by_num(d, k, expired) ELSE d
  BY <1>1 DEF StopContext, EvictAllUnrefered
<1>3. /\ toks \in Seq(Tokens) /\ Len(toks) >= 1 /\ ts \in Nat /\ ts <= T
      /\ cache \in Seq(Blocks) /\ IsInjective(cache)
      /\ N[r] \cap H = {} /\ Addable(m, toks, H, cache)
  BY DEF Stoppable
<1>4. B[r] = Range(cache) /\ X = N[r] \cup H
  OBVIOUS
<1> HIDE DEF H, X, k, start, toks, cache, ts
<1>5. Gains(N, N2, L, r, H) /\ N2[r] = X /\ \A s \in L : s # r => N2[s] = N[s]
  BY <1>4 DEF Gains
<1> HIDE DEF N2
<1>6. /\ CacheOK(i.m, B, N2, L, T) /\ NoCapture(m, i.m, B, L \ {r})
      /\ InsertedTable(m, i.m, H, ts)
  <2> HIDE DEF i
  <2>1. i = Insert(m, toks, start, ts, cache)
    BY DEF i
  <2>2. Insertable(m, B, N, r, toks, ts, T, cache, H) /\ H = i.nodes
    BY <1>1, <1>3, <1>4 DEF Insertable
  <2>3. Gains(N, N2, L, r, H)
    BY <1>5
  <2>4. T \in Nat /\ IsFiniteSet(L) /\ CacheOK(m, B, N, L, T) /\ m.fault = {} /\ r \in L
    OBVIOUS
  <2>5. CacheOK(i.m, B, N2, L, T) /\ InsertGives(m, i.m, B, L, r, H, ts, cache)
    BY ONLY <2>1, <2>2, <2>3, <2>4, InsertOK
  <2> QED
    BY <2>5 DEF InsertGives
<1> HIDE DEF i
<1>7. CacheOK(d, B, N2, L \ {r}, T) /\ SameNodes(i.m, d) /\ d.fault = i.m.fault
  <2>1. CacheOK(i.m, B, N2, L, T)
    BY <1>6
  <2>2. X = N2[r] /\ Range(cache) = B[r] /\ IsInjective(cache)
    BY <1>3, <1>4, <1>5
  <2> QED
    BY <2>1, <2>2, LeaveOK
<1> HIDE DEF d
<1> WITNESS i.m, d, N2
<1> QED
  BY <1>2, <1>5, <1>6, <1>7 DEF StopsBy, H, ts, k

LEMMA StopContextOK ==
  ASSUME NEW m, NEW B, NEW N, NEW L, NEW T \in Nat, IsFiniteSet(L), CacheOK(m, B, N, L, T), m.fault = {},
         NEW r \in L, NEW q, Stoppable(m, q, T), B[r] = Range(q.cache), N[r] = q.nodes,
         NEW expired, NEW n, n = StopContext(m, q, expired)
  PROVE  /\ CacheOK(n, B, N, L \ {r}, T)
         /\ NoCapture(m, n, B, L \ {r}) /\ Keeps(m, n, N, L \ {r}) /\ n.fault = {}
<1>1. PICK j, d, N2 : StopsBy(m, B, N, L, r, T, q, expired, n, j, d, N2)
  BY StopParts
<1>2. PICK k : k = Cardinality(d.evictor)
  OBVIOUS
<1>3. n = IF warm THEN evict_unrefered_by_num(d, k, expired) ELSE d
  BY <1>1, <1>2 DEF StopsBy
<1>5. \A s \in L \ {r} : N2[s] = N[s]
  BY <1>1 DEF StopsBy
<1>6. NoCapture(m, j, B, L \ {r}) /\ InsertedTable(m, j, LateNodes(q), q.ts)
  BY <1>1 DEF StopsBy
<1>7. CacheOK(d, B, N2, L \ {r}, T) /\ SameNodes(j, d) /\ d.fault = j.fault
  BY <1>1 DEF StopsBy
<1>8. PICK V : CacheOK(n, B, N2, L \ {r}, T) /\ EvictEffect(d, n, V)
  <2>0. IsFiniteSet(L \ {r})
    BY FS_RemoveElement
  <2>1. CASE warm
    <3>1. n = evict_unrefered_by_num(d, k, expired)
      BY <1>3, <2>1
    <3> QED
      BY <1>7, <2>0, <3>1, EvictOK
  <2>2. CASE ~warm
    <3>1. n = d
      BY <1>3, <2>2
    <3>2. EvictEffect(d, d, {})
      BY DEF EvictEffect, FewerNodes
    <3> QED
      BY <1>7, <3>1, <3>2
  <2> QED
    BY <2>1, <2>2
<1>9. CacheOK(n, B, N, L \ {r}, T)
  <2>1. GpuOK(n, B, N2, L \ {r})
    BY <1>8 DEF CacheOK
  <2>2. \A s \in L \ {r} : N[s] = N2[s] /\ B[s] = B[s]
    BY <1>5
  <2>3. GpuOK(n, B, N, L \ {r})
    BY <2>1, <2>2, SameUsers
  <2> QED
    BY <1>8, <2>3 DEF CacheOK
<1>10. /\ DOMAIN n.table \subseteq DOMAIN j.table
       /\ \A h \in DOMAIN n.table : n.table[h].blk = j.table[h].blk
  BY <1>7, <1>8 DEF EvictEffect, FewerNodes, SameNodes
<1>11. NodeBlocks(n) \subseteq NodeBlocks(j)
  BY <1>10 DEF NodeBlocks
<1>12. NoCapture(m, n, B, L \ {r})
  BY <1>6, <1>11 DEF NoCapture
<1>13. Keeps(m, n, N, L \ {r})
  <2>1. \A s \in L \ {r} : N[s] \subseteq DOMAIN n.table
    BY <1>9 DEF CacheOK, GpuOK, CountOK
  <2>2. \A s \in L : N[s] \subseteq DOMAIN m.table
    BY DEF CacheOK, GpuOK, CountOK
  <2>3. \A h \in DOMAIN m.table : j.table[h].blk = m.table[h].blk
    BY <1>6 DEF InsertedTable
  <2> QED
    BY <1>10, <2>1, <2>2, <2>3 DEF Keeps
<1>14. n.fault = {}
  BY <1>6, <1>7, <1>8 DEF EvictEffect, InsertedTable
<1> QED
  BY <1>9, <1>12, <1>13, <1>14

-----------------------------------------------------------------------------
(* A fault stays: whatever a handler is given, it forgets none.            *)

Grows(m, n) == ManagerShape(n) /\ m.fault \subseteq n.fault

LEMMA RefOnlyGrows ==
  ASSUME NEW m, ManagerShape(m), NEW H, NEW ts
  PROVE  Grows(m, RefOnly(m, H, ts))
BY RefOnlyIsStep DEF Grows, RefStep

LEMMA UnRefGrows ==
  ASSUME NEW m, ManagerShape(m), NEW H
  PROVE  Grows(m, UnRef(m, H))
<1> DEFINE G == H \cap DOMAIN m.table
<1>1. G \subseteq DOMAIN m.table /\ G \cap DOMAIN m.table = H \cap DOMAIN m.table
  OBVIOUS
<1>2. UnRef(m, H) = UnRef(m, G)
  BY <1>1 DEF UnRef
<1> HIDE DEF G
<1>3. UnrefStep(m, UnRef(m, G), G)
  BY <1>1, UnRefIsStep
<1> QED
  BY <1>2, <1>3 DEF Grows, UnrefStep

LEMMA EvictGrows ==
  ASSUME NEW m, ManagerShape(m), NEW k, NEW expired
  PROVE  Grows(m, evict_unrefered_by_num(m, k, expired))
<1> DEFINE V == FindMultiVictims(m, k)
           D == {h \in V : m.table[h].ts <= expired}
           S == V \ D
           a == delete_nodes(m, D)
           b == swap_to_cpu_by_hashlist(a, S)
           n == delete_nodes(b, S)
<1>1. n = evict_unrefered_by_num(m, k, expired)
  BY DEF evict_unrefered_by_num
<1> HIDE DEF D, S
<1>2. Grows(m, a)
  BY DeleteNodesStep DEF DeleteStep, Grows
<1> HIDE DEF a
<1>3. ManagerShape(b) /\ a.fault \subseteq b.fault
  BY <1>2, SwapFields DEF Grows
<1> HIDE DEF b
<1>4. DeleteStep(b, n, S)
  BY <1>3, DeleteNodesStep
<1>5. Grows(b, n)
  BY <1>4 DEF DeleteStep, Grows
<1> QED
  BY <1>1, <1>2, <1>3, <1>5 DEF Grows

LEMMA ClaimGrows ==
  ASSUME NEW m, ManagerShape(m), NEW data
  PROVE  Grows(m, ClaimSpans(m, data).m)
<1> DEFINE r == ClaimSpans(m, data)
<1>1. PICK a : /\ a = m.fault \cup {"short"}
               /\ \E b, c : r.m = [m EXCEPT !.fault = a] \/ r.m = [m EXCEPT !.free = b, !.kv = c]
  BY DEF ClaimSpans
<1> HIDE DEF r
<1>2. PICK b, c : (r.m = [m EXCEPT !.fault = a] \/ r.m = [m EXCEPT !.free = b, !.kv = c])
  BY <1>1
<1> QED
  BY <1>1, <1>2 DEF Grows, ManagerShape, r

LEMMA InsertGrows ==
  ASSUME NEW m, ManagerShape(m), NEW toks, NEW start, NEW ts, NEW cache
  PROVE  Grows(m, Insert(m, toks, start, ts, cache).m)
<1> DEFINE new == {h \in HashedPrefixes(toks) : Len(h) > start}
           add == InsertedNodes(m, new, ts, cache)
           a == insert_nodes(m, add)
           n == ref_nodes(a, new, ts)
<1>1. Insert(m, toks, start, ts, cache) = [m |-> n, nodes |-> new]
  BY DEF Insert, InsertedNodes
<1>2. Insert(m, toks, start, ts, cache).m = n
  <2> HIDE DEF n, new
  <2> QED
    BY ONLY <1>1
<1> HIDE DEF new, add
<1>3. ManagerShape(a) /\ m.fault \subseteq a.fault
  BY InsertNodesIsStep
<1> HIDE DEF a
<1>4. RefStep(a, n, new, ts)
  BY <1>3, RefNodesIsStep
<1> QED
  BY <1>2, <1>3, <1>4 DEF Grows, RefStep

LEMMA MakeRoomGrows ==
  ASSUME NEW m, ManagerShape(m), NEW toks, NEW ts, NEW expired
  PROVE  Grows(m, MakeRoom(m, toks, ts, expired))
<1> DEFINE R == CachedRun(m, toks)
           G == OnGpu(m, R)
           need == ContextFrames(m, toks)
           held == RefOnly(m, R, ts)
           k == need - CountFree(held)
           room == IF need > CountFree(held) THEN evict_unrefered_by_num(held, k, expired) ELSE held
           n == UnRef(room, G)
<1>1. n = MakeRoom(m, toks, ts, expired)
  BY DEF MakeRoom, EvictUnrefered
<1> HIDE DEF R, G, need
<1>2. Grows(m, held) /\ ManagerShape(held)
  BY RefOnlyGrows DEF Grows
<1> HIDE DEF held, k
<1>3. Grows(held, room)
  <2>1. Grows(held, evict_unrefered_by_num(held, k, expired))
    BY <1>2, EvictGrows
  <2>2. Grows(held, held)
    BY <1>2 DEF Grows
  <2> QED
    BY <2>1, <2>2
<1> HIDE DEF room
<1>4. ManagerShape(room)
  BY <1>3 DEF Grows
<1>5. Grows(room, n)
  BY <1>4, UnRefGrows
<1> HIDE DEF n
<1> QED
  BY <1>1, <1>2, <1>3, <1>5 DEF Grows

LEMMA RefFillGrows ==
  ASSUME NEW m, ManagerShape(m), NEW toks, NEW ts
  PROVE  Grows(m, RefFill(m, toks, ts).m)
<1> DEFINE R == CachedRun(m, toks)
           G == OnGpu(m, R)
           C == OnlyOnCpu(m, R)
           a == RefOnly(m, G, ts)
           c == a.cpu
           data == [h \in C |-> IF c.kv[c.table[h].k] = c.kv[c.table[h].v] THEN c.kv[c.table[h].k] ELSE Junk]
           b == ClaimSpans(a, data)
           new == [h \in C |-> [blk |-> b.blk[h], ref_cnt |-> 0, ts |-> c.table[h].ts]]
           i == insert_nodes(b.m, new)
           s == SwapIn(a, C)
           n == RefOnly(s.m, C, ts)
<1>1. RefFill(m, toks, ts).m = n
  BY DEF RefFill
<1>2. s.m = i
  BY DEF SwapIn
<1> HIDE DEF G, C
<1>3. Grows(m, a) /\ ManagerShape(a)
  BY RefOnlyGrows DEF Grows
<1> HIDE DEF a, data, c
<1>4. Grows(a, b.m) /\ ManagerShape(b.m)
  BY <1>3, ClaimGrows DEF Grows
<1> HIDE DEF b, new
<1>5. Grows(b.m, i) /\ ManagerShape(i)
  BY <1>4, InsertNodesIsStep DEF Grows
<1> HIDE DEF i, s
<1>6. Grows(i, RefOnly(i, C, ts))
  BY <1>5, RefOnlyGrows
<1>7. Grows(i, n)
  BY <1>2, <1>6
<1> HIDE DEF n
<1> QED
  BY <1>1, <1>3, <1>4, <1>5, <1>7 DEF Grows

LEMMA FillUpGrows ==
  ASSUME NEW m, ManagerShape(m), NEW toks, NEW cache
  PROVE  Grows(m, FillUp(m, toks, cache).m)
<1> DEFINE spans == (Len(toks) + SpanSize - 1) \div SpanSize
           data == [j \in (Len(cache) + 1)..spans |-> SpanKv(toks, Len(toks), j)]
<1>1. FillUp(m, toks, cache).m = ClaimSpans(m, data).m
  BY DEF FillUp
<1> HIDE DEF data
<1> QED
  BY <1>1, ClaimGrows

LEMMA StopGrows ==
  ASSUME NEW m, ManagerShape(m), NEW q, NEW expired
  PROVE  Grows(m, StopContext(m, q, expired))
<1> DEFINE i == Insert(m, q.toks, (q.input_len \div SpanSize) * SpanSize, q.ts, q.cache)
           u == UnRef(i.m, q.nodes \cup i.nodes)
           d == ReleaseSpans(u, q.cache)
           n == StopContext(m, q, expired)
<1>1. n = IF warm THEN evict_unrefered_by_num(d, Cardinality(d.evictor), expired) ELSE d
  BY DEF StopContext, EvictAllUnrefered
<1> HIDE DEF n
<1>2. Grows(m, i.m) /\ ManagerShape(i.m)
  BY InsertGrows DEF Grows
<1> HIDE DEF i
<1>3. Grows(i.m, u) /\ ManagerShape(u)
  BY <1>2, UnRefGrows DEF Grows
<1> HIDE DEF u
<1>4. Grows(u, d) /\ ManagerShape(d)
  BY <1>3, ReleaseSpansFields DEF Grows
<1> HIDE DEF d
<1>5. Grows(d, evict_unrefered_by_num(d, Cardinality(d.evictor), expired)) /\ Grows(d, d)
  BY <1>4, EvictGrows DEF Grows
<1>6. Grows(d, n)
  BY <1>1, <1>5
<1> QED
  BY <1>2, <1>3, <1>4, <1>6 DEF Grows, n

-----------------------------------------------------------------------------
(* The state between handlers: m is mgr, q is req and T is clock.          *)

LiveOf(q) == {r \in Requests : q[r].live}
CachesOf(q) == [r \in Requests |-> Range(q[r].cache)]
NodesOf(q) == [r \in Requests |-> q[r].nodes]

ReqShape(x) ==
  /\ x = [live |-> x.live, toks |-> x.toks, input_len |-> x.input_len, kv_len |-> x.kv_len,
          ts |-> x.ts, cache |-> x.cache, nodes |-> x.nodes]
  /\ x.live \in BOOLEAN
  /\ ~x.live => x = NoRequest
ReqsShape(q) == DOMAIN q = Requests /\ \A r \in Requests : ReqShape(q[r])

\* The prefixes a request refers to before it stops.
PromptSpans(x) == (x.input_len - 1) \div SpanSize

\* A live request: the KV of all but its last token is in its virtual cache, it refers
\* to the whole spans of its prompt, and no other span of it is a node's.
ReqOK(m, x, T) ==
  /\ x.toks \in Seq(Tokens) /\ x.kv_len \in Nat /\ Len(x.toks) = x.kv_len + 1
  /\ x.input_len \in 1..x.kv_len /\ x.ts \in Nat /\ x.ts <= T
  /\ Len(x.cache) = SpansFor(x.kv_len) /\ VirtualCache(m, x.cache, PromptSpans(x))
  /\ x.nodes = FirstPrefixes(x.toks, PromptSpans(x))

CoreOK(m, q, T) ==
  /\ CacheOK(m, CachesOf(q), NodesOf(q), LiveOf(q), T)
  /\ \A r \in LiveOf(q) : ReqOK(m, q[r], T)

LEMMA LiveFinite ==
  ASSUME NEW q
  PROVE  IsFiniteSet(Requests) /\ IsFiniteSet(LiveOf(q)) /\ LiveOf(q) \subseteq Requests
<1>1. IsFiniteSet(Requests)
  BY PrefixCacheAssumption, FS_Interval DEF Requests
<1>2. LiveOf(q) \subseteq Requests
  BY DEF LiveOf
<1> QED
  BY <1>1, <1>2, FS_Subset

\* A request stays as it is when none of its blocks becomes a node's.
LEMMA ReqKept ==
  ASSUME NEW m, NEW n, NEW x, NEW T \in Nat, NEW T2 \in Nat, T <= T2, ReqOK(m, x, T),
         Range(x.cache) \cap NodeBlocks(n) \subseteq NodeBlocks(m)
  PROVE  ReqOK(n, x, T2)
<1>1. VirtualCache(n, x.cache, PromptSpans(x))
  <2>1. VirtualCache(m, x.cache, PromptSpans(x))
    BY DEF ReqOK
  <2>2. \A j \in DOMAIN x.cache : x.cache[j] \in Range(x.cache)
    BY DEF Range
  <2> QED
    BY <2>1, <2>2 DEF VirtualCache
<1>2. x.ts <= T2
  BY DEF ReqOK
<1> QED
  BY <1>1, <1>2 DEF ReqOK

LEMMA ReqsKept ==
  ASSUME NEW m, NEW n, NEW q, NEW T \in Nat, NEW T2 \in Nat, T <= T2,
         NEW L, L \subseteq Requests, \A r \in L : ReqOK(m, q[r], T), NoCapture(m, n, CachesOf(q), L)
  PROVE  \A r \in L : ReqOK(n, q[r], T2)
<1> TAKE r \in L
<1>1. CachesOf(q)[r] = Range(q[r].cache)
  BY DEF CachesOf
<1>2. CachesOf(q)[r] \cap NodeBlocks(n) \subseteq NodeBlocks(m)
  BY DEF NoCapture
<1>3. Range(q[r].cache) \cap NodeBlocks(n) \subseteq NodeBlocks(m)
  BY ONLY <1>1, <1>2
<1>4. ReqOK(m, q[r], T)
  OBVIOUS
<1> QED
  BY <1>3, <1>4, ReqKept

\* A place that is not in use.
LEMMA FreePlace ==
  ASSUME NEW q, ReqsShape(q), NEW r \in Requests, r \notin LiveOf(q)
  PROVE  NodesOf(q)[r] = {} /\ CachesOf(q)[r] = {}
<1>1. q[r] = NoRequest
  BY DEF ReqsShape, ReqShape, LiveOf
<1>2. q[r].nodes = {} /\ q[r].cache = <<>>
  BY <1>1 DEF NoRequest
<1>3. Range(<<>>) = {}
  BY DEF Range
<1> QED
  BY <1>2, <1>3 DEF NodesOf, CachesOf

\* RefOnly, the eviction and UnRef of the context phase.
LEMMA RoomOK ==
  ASSUME NEW m, NEW q, ReqsShape(q), NEW T \in Nat, CoreOK(m, q, T),
         NEW r \in Requests, r \notin LiveOf(q), NEW toks, NEW expired,
         NEW T2, T2 = T + 1, NEW n, n = MakeRoom(m, toks, T2, expired)
  PROVE  /\ CoreOK(n, q, T2)
         /\ Keeps(m, n, NodesOf(q), LiveOf(q)) /\ n.fault = m.fault
<1> DEFINE B == CachesOf(q)
           N == NodesOf(q)
           L == LiveOf(q)
           G == OnGpu(m, CachedRun(m, toks))
           V == RoomVictims(m, toks, T2)
<1>1. DOMAIN N = Requests
  BY DEF NodesOf
<1>2. N[r] = {} /\ B[r] = {}
  BY FreePlace
<1>3. IsFiniteSet(L) /\ L \subseteq Requests
  BY LiveFinite
<1>4. CacheOK(m, B, N, L, T) /\ T2 \in Nat /\ T <= T2
  BY DEF CoreOK
<1>40. \A s \in L : ReqOK(m, q[s], T)
  BY DEF CoreOK
<1> HIDE DEF B, N, L, G, V
<1>5. CacheOK(m, B, N, L, T2)
  BY <1>4, CacheLater
<1>6. r \notin L
  BY DEF L
<1>7. CacheOK(n, B, N, L, T2) /\ RoomEffect(m, n, G, T2, V)
  BY <1>1, <1>2, <1>3, <1>4, <1>5, <1>6, MakeRoomOK DEF G, V
<1>8. n.fault = m.fault /\ DOMAIN n.table \subseteq DOMAIN m.table
      /\ \A h \in DOMAIN n.table : n.table[h].blk = m.table[h].blk
  BY <1>7 DEF RoomEffect
<1>9. NodeBlocks(n) \subseteq NodeBlocks(m)
  BY <1>8 DEF NodeBlocks
<1>10. NoCapture(m, n, CachesOf(q), L)
  BY <1>9 DEF NoCapture
<1>11. \A s \in L : ReqOK(n, q[s], T2)
  <2>1. T \in Nat /\ T2 \in Nat /\ T <= T2 /\ L \subseteq Requests
    BY <1>3, <1>4
  <2> QED
    BY ONLY <2>1, <1>40, <1>10, ReqsKept
<1>12. \A s \in L : N[s] \subseteq DOMAIN n.table
  BY <1>7 DEF CacheOK, GpuOK, CountOK
<1>13. Keeps(m, n, N, L)
  BY <1>8, <1>12 DEF Keeps
<1>14. CoreOK(n, q, T2)
  BY <1>7, <1>11 DEF CoreOK, B, N, L
<1> QED
  BY <1>8, <1>13, <1>14 DEF N, L

\* The spans of a prompt: those the manager hashes, and one more.
LEMMA SpansOfPrompt ==
  ASSUME NEW n \in Nat, n >= 1
  PROVE  /\ SpansFor(n) = (n - 1) \div SpanSize + 1 /\ (n - 1) \div SpanSize \in Nat
         /\ n \div SpanSize <= SpansFor(n) /\ SpansFor(n) \in Nat
<1>1. SpanSize \in Nat \ {0}
  BY PrefixCacheAssumption
<1>2. /\ n > 0 => (n + SpanSize - 1) \div SpanSize = (n - 1) \div SpanSize + 1 /\ (n - 1) \div SpanSize \in Nat
      /\ n \div SpanSize <= (n + SpanSize - 1) \div SpanSize
      /\ (n + SpanSize - 1) \div SpanSize \in Nat
  BY ONLY <1>1, n \in Nat, RoundUp
<1>3. n > 0
  OBVIOUS
<1> QED
  BY ONLY <1>2, <1>3 DEF SpansFor

\* A table u that has the nodes of t and those of G, the nodes of G touched at ts.
TouchedAt(t, u, G, ts) ==
  /\ DOMAIN u = DOMAIN t \cup G
  /\ \A h \in DOMAIN t : u[h].ts = IF h \in G THEN Later(t[h].ts, ts) ELSE t[h].ts
  /\ \A h \in G \ DOMAIN t : u[h].ts = ts

\* What the context phase has for place r when the prefill begins: the first k
\* prefixes from the cache and claimed blocks for the rest.
PrefillGives(m, n, q, r, toks, f, p, B2, N2, T) ==
  /\ CacheOK(n, B2, N2, LiveOf(q) \cup {r}, T)
  /\ TouchedAt(m.table, n.table, f.nodes, T)
  /\ NoCapture(m, n, CachesOf(q), LiveOf(q)) /\ Keeps(m, n, NodesOf(q), LiveOf(q))
  /\ \E k \in 0..HashedCount(toks) :
       /\ f.nodes = FirstPrefixes(toks, k) /\ Cardinality(f.nodes) = k
       /\ VirtualCache(n, p.cache, k)
  /\ Len(p.cache) = SpansFor(Len(toks)) /\ m.fault = {}

LEMMA PrefillOK ==
  ASSUME NEW m, NEW q, ReqsShape(q), NEW T \in Nat, CoreOK(m, q, T),
         NEW r \in Requests, r \notin LiveOf(q), NEW toks \in Seq(Tokens), Len(toks) >= 1,
         NEW f, f = RefFill(m, toks, T), NEW p, p = FillUp(f.m, toks, f.cache), p.m.fault = {},
         NEW B2, B2 = [s \in Requests |-> IF s = r THEN Range(p.cache) ELSE CachesOf(q)[s]],
         NEW N2, N2 = [s \in Requests |-> IF s = r THEN f.nodes ELSE NodesOf(q)[s]]
  PROVE  PrefillGives(m, p.m, q, r, toks, f, p, B2, N2, T)
<1> DEFINE B == CachesOf(q)
           N == NodesOf(q)
           L == LiveOf(q)
           U == L \cup {r}
           B1 == [s \in Requests |-> IF s = r THEN Range(f.cache) ELSE B[s]]
<1>1. IsFiniteSet(L) /\ L \subseteq Requests
  BY LiveFinite
<1>2. IsFiniteSet(U) /\ U \subseteq Requests /\ r \in U /\ U \ {r} = L /\ L \subseteq U
  BY <1>1, FS_AddElement
<1>3. N[r] = {} /\ B[r] = {}
  BY FreePlace
<1>4. CacheOK(m, B, N, L, T)
  BY DEF CoreOK
<1>5. /\ SetFor(B, B1, U, r, Range(f.cache)) /\ SetFor(B1, B2, U, r, Range(p.cache))
      /\ SetFor(N, N2, U, r, f.nodes) /\ B1[r] = Range(f.cache)
  BY <1>2 DEF SetFor
<1> HIDE DEF B, N, L, U, B1
<1>6. CacheOK(m, B, N, U, T)
  <2>1. GpuOK(m, B, N, L)
    BY <1>4 DEF CacheOK
  <2>2. GpuOK(m, B, N, L \cup {r})
    BY <1>3, <2>1, AddUser
  <2> QED
    BY <1>4, <2>2 DEF CacheOK, U
<1>7. ManagerShape(m)
  BY <1>4 DEF CacheOK, GpuOK, TableOK
<1>8. Grows(m, f.m)
  BY <1>7, RefFillGrows
<1>9. Grows(f.m, p.m)
  BY <1>8, FillUpGrows DEF Grows
<1>10. f.m.fault = {} /\ m.fault = {}
  BY <1>8, <1>9 DEF Grows
<1>11. /\ CacheOK(f.m, B1, N2, U, T) /\ NoCapture(m, f.m, B, U \ {r})
       /\ FillEffect(m, f.m, f.nodes, T)
       /\ f.nodes = CachedRun(m, toks)
       /\ f.cache \in Seq(Blocks) /\ IsInjective(f.cache) /\ Len(f.cache) = Cardinality(f.nodes)
  <2>1. SetFor(B, B1, U, r, Range(f.cache)) /\ SetFor(N, N2, U, r, f.nodes)
    BY <1>5
  <2>2. IsFiniteSet(U) /\ r \in U
    BY <1>2
  <2>3. T \in Nat /\ toks \in Seq(Tokens) /\ Len(toks) >= 1 /\ f = RefFill(m, toks, T) /\ f.m.fault = {}
    BY <1>10
  <2>4. RefFillInput(m, B, N, U, T, r, toks, f, B1, N2)
    BY ONLY <1>3, <1>6, <2>1, <2>2, <2>3 DEF RefFillInput
  <2>5. RefFillGives(m, B, N2, U, T, r, toks, f, B1)
    BY ONLY <2>4, RefFillOK
  <2> QED
    BY ONLY <2>5 DEF RefFillGives
<1>12. PICK k \in 0..HashedCount(toks) : RunLength(m, toks, k)
  BY CachedRunFacts
<1>13. f.nodes = FirstPrefixes(toks, k)
  BY <1>11, <1>12 DEF RunLength
<1>14. /\ SpansFor(Len(toks)) = HashedCount(toks) + 1 /\ HashedCount(toks) \in Nat
       /\ HashedCount(toks) * SpanSize < Len(toks) /\ Len(toks) \in Nat
  BY SpansOfPrompt, HashedFacts DEF HashedCount
<1>15. k \in Nat /\ k * SpanSize <= Len(toks)
  <2>1. k * SpanSize <= HashedCount(toks) * SpanSize
    BY <1>14, Multiples, PrefixCacheAssumption
  <2>2. k \in Nat /\ SpanSize \in Nat
    BY <1>14, PrefixCacheAssumption
  <2> DEFINE y == HashedCount(toks) * SpanSize
             x == k * SpanSize
  <2>3. x \in Int /\ y \in Int
    BY <1>14, <2>2
  <2> HIDE DEF x, y
  <2> QED
    BY <1>14, <2>1, <2>2, <2>3 DEF x, y
<1>16. Cardinality(f.nodes) = k
  BY <1>13, <1>15, FirstPrefixesFacts
<1>17. Len(f.cache) <= SpansFor(Len(toks))
  BY <1>11, <1>14, <1>16
<1>18. /\ CacheOK(p.m, B2, N2, U, T)
       /\ VirtualCache(p.m, p.cache, Len(f.cache)) /\ Len(p.cache) = SpansFor(Len(toks))
       /\ p.m.table = f.m.table
  <2> DEFINE X == Range(p.cache)
             cache == f.cache
             d == f.m
  <2>1. SetFor(B1, B2, U, r, X) /\ X = Range(p.cache)
    BY <1>5
  <2>2. CacheOK(d, B1, N2, U, T) /\ cache \in Seq(Blocks) /\ IsInjective(cache)
    BY <1>11
  <2>3. Len(cache) <= SpansFor(Len(toks)) /\ B1[r] = Range(cache) /\ p = FillUp(d, toks, cache)
    BY <1>5, <1>17
  <2> HIDE DEF X, cache, d
  <2>4. r \in U /\ T \in Nat /\ toks \in Seq(Tokens) /\ p.m.fault = {}
    BY <1>2
  <2>5. FillUpInput(d, B1, N2, U, T, r, toks, cache, p, X, B2)
    BY ONLY <2>1, <2>2, <2>3, <2>4 DEF FillUpInput
  <2>6. FillUpGives(d, N2, U, T, toks, cache, p, B2)
    BY ONLY <2>5, FillUpOK
  <2>7. /\ CacheOK(p.m, B2, N2, U, T)
        /\ VirtualCache(p.m, p.cache, Len(cache)) /\ Len(p.cache) = SpansFor(Len(toks))
        /\ p.m.table = d.table
    BY ONLY <2>6 DEF FillUpGives
  <2> QED
    BY <2>7 DEF cache, d
<1>19. NodeBlocks(p.m) = NodeBlocks(f.m)
  BY <1>18 DEF NodeBlocks
<1>20. NoCapture(m, p.m, B, L)
  BY <1>2, <1>11, <1>19 DEF NoCapture
<1>21. Keeps(m, p.m, N, L)
  <2>1. \A s \in L : N[s] \subseteq DOMAIN m.table
    BY <1>4 DEF CacheOK, GpuOK, CountOK
  <2> QED
    BY <1>11, <1>18, <2>1 DEF Keeps, FillEffect
<1>22. VirtualCache(p.m, p.cache, k)
  BY <1>11, <1>16, <1>18
<1>23. TouchedAt(m.table, p.m.table, f.nodes, T)
  <2>1. \A h \in DOMAIN m.table : m.table[h].ts \in Nat /\ m.table[h].ts <= T
    BY <1>4 DEF CacheOK, GpuOK, TableOK
  <2>2. \A h \in DOMAIN m.table : Later(m.table[h].ts, T) = T
    BY <2>1 DEF Later
  <2>3. /\ DOMAIN p.m.table = DOMAIN m.table \cup f.nodes
        /\ \A h \in DOMAIN m.table \ f.nodes : p.m.table[h].ts = m.table[h].ts
        /\ \A h \in f.nodes : p.m.table[h].ts = T
    BY <1>11, <1>18 DEF FillEffect
  <2> QED
    BY ONLY <2>2, <2>3 DEF TouchedAt
<1> QED
  BY <1>10, <1>13, <1>16, <1>18, <1>20, <1>21, <1>22, <1>23 DEF PrefillGives, B, N, L, U

-----------------------------------------------------------------------------
(* The requests of the batch.                                              *)

\* A late node begins after the prompt and ends before the last token.
LEMMA LateFacts ==
  ASSUME NEW q, q.toks \in Seq(Tokens), Len(q.toks) >= 1, q.input_len \in Nat, NEW h \in LateNodes(q)
  PROVE  /\ Len(h) \div SpanSize \in 1..HashedCount(q.toks)
         /\ q.input_len \div SpanSize < Len(h) \div SpanSize
<1> DEFINE n == HashedCount(q.toks)
           j == Len(h) \div SpanSize
           i == q.input_len \div SpanSize
<1>1. /\ n \in Nat /\ n * SpanSize < Len(q.toks)
      /\ HashedPrefixes(q.toks) = FirstPrefixes(q.toks, n)
  BY HashedFacts
<1>2. h \in FirstPrefixes(q.toks, n) /\ Len(h) > i * SpanSize
  BY <1>1 DEF LateNodes
<1>3. SpanSize \in Nat \ {0} /\ Len(q.toks) \in Nat
  BY PrefixCacheAssumption
<1> HIDE DEF n, i
<1>4. n * SpanSize <= Len(q.toks)
  BY <1>1, <1>3
<1>5. j \in 1..n /\ Len(h) = j * SpanSize
  BY <1>1, <1>2, <1>4, FirstPrefixesFacts
<1>6. i \in Int
  BY <1>3, Quotient DEF i
<1> HIDE DEF j
<1>7. j <= i => j * SpanSize <= i * SpanSize
  BY <1>3, <1>5, <1>6, Multiples
<1>8. j * SpanSize \in Int /\ i * SpanSize \in Int
  BY <1>3, <1>5, <1>6
<1>9. i < j
  BY <1>2, <1>5, <1>6, <1>7, <1>8
<1> QED
  BY <1>5, <1>9 DEF i, j, n

\* A live request can be stopped.
LEMMA ReqStoppable ==
  ASSUME NEW m, NEW x, NEW T \in Nat, ReqOK(m, x, T)
  PROVE  Stoppable(m, x, T)
<1>1. /\ x.toks \in Seq(Tokens) /\ x.kv_len \in Nat /\ Len(x.toks) = x.kv_len + 1
      /\ x.input_len \in 1..x.kv_len /\ x.ts \in Nat /\ x.ts <= T
      /\ Len(x.cache) = SpansFor(x.kv_len) /\ VirtualCache(m, x.cache, PromptSpans(x))
      /\ x.nodes = FirstPrefixes(x.toks, PromptSpans(x))
  BY DEF ReqOK
<1>2. SpanSize \in Nat \ {0}
  BY PrefixCacheAssumption
<1>3. Len(x.toks) >= 1 /\ x.input_len \in Nat /\ x.kv_len >= 1 /\ x.input_len <= x.kv_len
  BY <1>1
<1>4. x.cache \in Seq(Blocks) /\ IsInjective(x.cache)
      /\ \A j \in DOMAIN x.cache : j > PromptSpans(x) => x.cache[j] \notin NodeBlocks(m)
  BY <1>1 DEF VirtualCache
<1>5. HashedCount(x.toks) = x.kv_len \div SpanSize
  BY <1>1 DEF HashedCount
<1>6. x.kv_len \div SpanSize <= Len(x.cache) /\ Len(x.cache) \in Nat /\ DOMAIN x.cache = 1..Len(x.cache)
  <2> DEFINE n == x.kv_len
  <2>1. n \in Nat /\ n >= 1 /\ Len(x.cache) = SpansFor(n)
    BY <1>1, <1>3
  <2> HIDE DEF n
  <2>2. n \div SpanSize <= SpansFor(n) /\ SpansFor(n) \in Nat
    BY ONLY <2>1, SpansOfPrompt
  <2> QED
    BY <1>4, <2>1, <2>2 DEF n
<1>7. PromptSpans(x) <= x.input_len \div SpanSize
  <2> DEFINE a == x.input_len
             b == x.input_len - 1
  <2>1. a \in Int /\ b \in Int /\ b <= a
    BY <1>3
  <2> HIDE DEF a, b
  <2>2. b \div SpanSize <= a \div SpanSize
    BY <1>2, <2>1, QuotientGrows
  <2> QED
    BY <2>2 DEF PromptSpans, a, b
<1>8. /\ PromptSpans(x) \in Nat /\ x.input_len \div SpanSize \in Int
      /\ PromptSpans(x) * SpanSize <= Len(x.toks) /\ HashedCount(x.toks) \in Int
  <2>1. x.input_len >= 1
    BY <1>1
  <2>2. PromptSpans(x) \in Nat
    BY <1>3, <2>1, SpansOfPrompt DEF PromptSpans
  <2>3. x.input_len - 1 \in Int /\ Len(x.toks) - 1 \in Int
    BY <1>3, <1>1
  <2>4. PromptSpans(x) * SpanSize <= x.input_len - 1
    BY <1>2, <2>3, Quotient DEF PromptSpans
  <2>5. x.input_len \div SpanSize \in Int
    BY <1>2, <1>3, Quotient
  <2>6. HashedCount(x.toks) \in Int
    BY <1>2, <2>3, Quotient DEF HashedCount
  <2> DEFINE y == PromptSpans(x) * SpanSize
  <2>7. y \in Int
    BY <1>2, <2>2
  <2> HIDE DEF y
  <2>8. y <= Len(x.toks)
    BY <1>1, <1>3, <2>4, <2>7 DEF y
  <2> QED
    BY <2>2, <2>5, <2>6, <2>8 DEF y
<1>9. ASSUME NEW h \in LateNodes(x)
      PROVE  /\ Len(h) \div SpanSize \in DOMAIN x.cache
             /\ Len(h) \div SpanSize > PromptSpans(x)
  <2> DEFINE j == Len(h) \div SpanSize
  <2>1. j \in 1..HashedCount(x.toks) /\ x.input_len \div SpanSize < j
    BY <1>1, <1>3, LateFacts
  <2> HIDE DEF j
  <2>2. j \in 1..Len(x.cache)
    BY <1>5, <1>6, <1>8, <2>1
  <2>3. j > PromptSpans(x)
    BY <1>7, <1>8, <2>1
  <2> QED
    BY <1>6, <2>2, <2>3 DEF j
<1>10. x.nodes \cap LateNodes(x) = {}
  <2> SUFFICES ASSUME NEW h \in LateNodes(x), h \in x.nodes PROVE FALSE
    OBVIOUS
  <2>1. Len(h) \div SpanSize \in 1..PromptSpans(x)
    BY <1>1, <1>8, FirstPrefixesFacts
  <2>2. Len(h) \div SpanSize > PromptSpans(x)
    BY <1>9
  <2> QED
    BY <1>8, <2>1, <2>2
<1>11. Addable(m, x.toks, LateNodes(x), x.cache)
  BY <1>4, <1>9 DEF Addable, LateNodes
<1> QED
  BY <1>1, <1>3, <1>4, <1>10, <1>11 DEF Stoppable

\* A request that has not generated a token has no late nodes.
LEMMA NoLateNodes ==
  ASSUME NEW q, q.toks \in Seq(Tokens), Len(q.toks) >= 1, q.input_len = Len(q.toks)
  PROVE  LateNodes(q) = {}
<1> SUFFICES ASSUME NEW h \in LateNodes(q) PROVE FALSE
  OBVIOUS
<1>1. Len(q.toks) \in Nat /\ SpanSize \in Nat \ {0}
  BY PrefixCacheAssumption
<1>2. /\ Len(h) \div SpanSize \in 1..HashedCount(q.toks)
      /\ Len(q.toks) \div SpanSize < Len(h) \div SpanSize
  BY <1>1, LateFacts
<1>3. HashedCount(q.toks) <= Len(q.toks) \div SpanSize
  <2> DEFINE a == Len(q.toks)
             b == Len(q.toks) - 1
  <2>1. a \in Int /\ b \in Int /\ b <= a
    BY <1>1
  <2> HIDE DEF a, b
  <2>2. b \div SpanSize <= a \div SpanSize
    BY <1>1, <2>1, QuotientGrows
  <2> QED
    BY <2>2 DEF HashedCount, a, b
<1>4. HashedCount(q.toks) \in Int /\ Len(q.toks) \div SpanSize \in Int
  BY <1>1, Quotient DEF HashedCount
<1> QED
  BY <1>2, <1>3, <1>4

\* The requests in the places L are as they should be, and have the blocks B and nodes N.
ReqsOK(m, q, L, T) == \A s \in L : ReqOK(m, q[s], T)
SameUse(q, B, N, L) == \A s \in L : CachesOf(q)[s] = B[s] /\ NodesOf(q)[s] = N[s]

\* The requests stay as they are when none of their blocks becomes a node's.
LEMMA ReqsStay ==
  ASSUME NEW m, NEW n, NEW q, NEW T \in Nat, NEW T2 \in Nat, T <= T2,
         NEW L, L \subseteq Requests, ReqsOK(m, q, L, T),
         NEW B, B = CachesOf(q), NoCapture(m, n, B, L)
  PROVE  ReqsOK(n, q, L, T2)
<1>1. NoCapture(m, n, CachesOf(q), L) /\ \A s \in L : ReqOK(m, q[s], T)
  BY DEF ReqsOK
<1> QED
  BY <1>1, ReqsKept DEF ReqsOK

\* The state between handlers from what a handler has shown about its users.
LEMMA CoreFrom ==
  ASSUME NEW n, NEW B, NEW N, NEW L, NEW q, NEW T \in Nat, CacheOK(n, B, N, L, T), L = LiveOf(q),
         SameUse(q, B, N, L), ReqsOK(n, q, L, T)
  PROVE  CoreOK(n, q, T)
<1> DEFINE B2 == CachesOf(q)
           N2 == NodesOf(q)
<1>1. GpuOK(n, B, N, L)
  BY DEF CacheOK
<1>2. \A s \in L : N2[s] = N[s] /\ B2[s] = B[s]
  BY DEF SameUse
<1> HIDE DEF B2, N2
<1>3. GpuOK(n, B2, N2, L)
  BY <1>1, <1>2, SameUsers
<1>4. CacheOK(n, B2, N2, L, T)
  BY <1>3 DEF CacheOK
<1> QED
  BY <1>4 DEF CoreOK, ReqsOK, B2, N2

\* Only place r of the batch is written.
PlaceSet(q, q2, r, x) ==
  /\ q2[r] = x /\ DOMAIN q2 = Requests
  /\ \A s \in Requests : s # r => q2[s] = q[s]
  /\ \A s \in Requests : s # r => CachesOf(q2)[s] = CachesOf(q)[s] /\ NodesOf(q2)[s] = NodesOf(q)[s]
  /\ CachesOf(q2)[r] = Range(x.cache) /\ NodesOf(q2)[r] = x.nodes
  /\ LiveOf(q2) \ {r} = LiveOf(q) \ {r}
  /\ (r \in LiveOf(q2)) <=> x.live

LEMMA OthersSame ==
  ASSUME NEW q, NEW r \in Requests, DOMAIN q = Requests, NEW x
  PROVE  PlaceSet(q, [q EXCEPT ![r] = x], r, x)
<1>0. PICK q2 : q2 = [q EXCEPT ![r] = x]
  OBVIOUS
<1>1. q2[r] = x /\ DOMAIN q2 = Requests /\ \A s \in Requests : s # r => q2[s] = q[s]
  BY <1>0
<1>2. PlaceSet(q, q2, r, x)
  BY <1>1 DEF CachesOf, NodesOf, LiveOf, PlaceSet
<1> QED
  BY <1>0, <1>2

\* StopRequest for the request in place r.
LEMMA StopOK ==
  ASSUME NEW m, NEW q, ReqsShape(q), NEW T \in Nat, CoreOK(m, q, T), m.fault = {},
         NEW r \in LiveOf(q), NEW expired, NEW n, n = StopContext(m, q[r], expired),
         NEW q2, q2 = [q EXCEPT ![r] = NoRequest]
  PROVE  CoreOK(n, q2, T) /\ ReqsShape(q2) /\ Keeps(m, n, NodesOf(q), LiveOf(q2))
<1> DEFINE B == CachesOf(q)
           N == NodesOf(q)
           L == LiveOf(q)
           x == q[r]
<1>1. IsFiniteSet(L) /\ L \subseteq Requests /\ r \in Requests /\ DOMAIN q = Requests
  BY LiveFinite DEF ReqsShape
<1>2. ~NoRequest.live
  BY DEF NoRequest
<1>20. PlaceSet(q, q2, r, NoRequest)
  BY <1>1, OthersSame
<1>3. /\ q2[r] = NoRequest /\ DOMAIN q2 = Requests
      /\ \A s \in Requests : s # r => q2[s] = q[s]
      /\ \A s \in Requests : s # r => CachesOf(q2)[s] = B[s] /\ NodesOf(q2)[s] = N[s]
      /\ LiveOf(q2) \ {r} = L \ {r} /\ r \notin LiveOf(q2)
  BY <1>1, <1>2, <1>20 DEF PlaceSet
<1>4. LiveOf(q2) = L \ {r}
  BY <1>3
<1>5. CacheOK(m, B, N, L, T) /\ \A s \in L : ReqOK(m, q[s], T)
  BY DEF CoreOK
<1>6. Stoppable(m, x, T)
  BY <1>5, ReqStoppable
<1>7. B[r] = Range(x.cache) /\ N[r] = x.nodes
  BY <1>1 DEF CachesOf, NodesOf
<1> HIDE DEF B, N, L, x
<1>8. n = StopContext(m, x, expired) /\ r \in L /\ m.fault = {} /\ T \in Nat
  BY DEF x, L
<1>9. /\ CacheOK(n, B, N, L \ {r}, T)
      /\ NoCapture(m, n, B, L \ {r}) /\ Keeps(m, n, N, L \ {r}) /\ n.fault = {}
  BY ONLY <1>1, <1>5, <1>6, <1>7, <1>8, StopContextOK
<1>10. \A s \in L \ {r} : ReqOK(n, q[s], T)
  <2>1. T <= T /\ L \ {r} \subseteq Requests
    BY <1>1
  <2> DEFINE M == L \ {r}
  <2>2. ReqsOK(m, q, M, T)
    BY <1>5 DEF ReqsOK
  <2>3. NoCapture(m, n, B, M) /\ B = CachesOf(q) /\ T \in Nat /\ T <= T /\ M \subseteq Requests
    BY <1>9, <2>1 DEF B
  <2> HIDE DEF M
  <2>4. ReqsOK(n, q, M, T)
    BY ONLY <2>2, <2>3, ReqsStay
  <2> QED
    BY <2>4 DEF ReqsOK, M
<1>11. \A s \in L \ {r} : ReqOK(n, q2[s], T)
  BY <1>1, <1>3, <1>10
<1>12. CoreOK(n, q2, T)
  <2> DEFINE M == L \ {r}
  <2>1. CacheOK(n, B, N, M, T) /\ M = LiveOf(q2) /\ ReqsOK(n, q2, M, T) /\ T \in Nat
    BY <1>4, <1>9, <1>11 DEF ReqsOK
  <2>2. SameUse(q2, B, N, M)
    BY <1>1, <1>3 DEF SameUse
  <2> HIDE DEF M
  <2> QED
    BY ONLY <2>1, <2>2, CoreFrom
<1>13. ReqShape(NoRequest)
  BY DEF ReqShape, NoRequest
<1>14. ReqsShape(q2)
  BY <1>3, <1>13 DEF ReqsShape
<1> QED
  BY <1>4, <1>9, <1>12, <1>14 DEF N, L

\* A token at the end does not change the prefixes.
LEMMA AppendPrefixes ==
  ASSUME NEW toks \in Seq(Tokens), NEW t \in Tokens, NEW n \in Nat, n * SpanSize <= Len(toks)
  PROVE  FirstPrefixes(Append(toks, t), n) = FirstPrefixes(toks, n)
<1>1. ASSUME NEW j \in 1..n
      PROVE  PrefixAt(Append(toks, t), j) = PrefixAt(toks, j)
  <2> DEFINE k == j * SpanSize
  <2>1. k <= Len(toks)
    BY FirstPrefixesFacts
  <2>2. k \in Nat
    BY PrefixCacheAssumption
  <2> HIDE DEF k
  <2>3. SubSeq(Append(toks, t), 1, k) = SubSeq(toks, 1, k)
    BY <2>1, <2>2
  <2> QED
    BY <2>3 DEF PrefixAt, k
<1> QED
  BY <1>1 DEF FirstPrefixes

\* The prefixes beyond the first k.
LEMMA PrefixesSplit ==
  ASSUME NEW toks \in Seq(Tokens), Len(toks) >= 1, NEW k \in 0..HashedCount(toks),
         NEW H, H = {h \in HashedPrefixes(toks) : Len(h) > k * SpanSize}
  PROVE  /\ FirstPrefixes(toks, k) \cup H = FirstPrefixes(toks, HashedCount(toks))
         /\ FirstPrefixes(toks, k) \cap H = {}
         /\ \A h \in H : Len(h) \div SpanSize \in 1..HashedCount(toks) /\ Len(h) \div SpanSize > k
<1> DEFINE n == HashedCount(toks)
<1>1. /\ n \in Nat /\ n * SpanSize < Len(toks)
      /\ HashedPrefixes(toks) = FirstPrefixes(toks, n)
  BY HashedFacts
<1>2. SpanSize \in Nat \ {0} /\ Len(toks) \in Nat /\ k \in Nat /\ k <= n
  BY <1>1, PrefixCacheAssumption
<1> HIDE DEF n
<1>3. n * SpanSize <= Len(toks)
  BY <1>1, <1>2
<1>4. \A h \in FirstPrefixes(toks, n) :
        Len(h) \div SpanSize \in 1..n /\ h = PrefixAt(toks, Len(h) \div SpanSize)
        /\ Len(h) = (Len(h) \div SpanSize) * SpanSize
  BY <1>1, <1>3, FirstPrefixesFacts
<1>5. FirstPrefixes(toks, k) \subseteq FirstPrefixes(toks, n)
  BY <1>1, <1>2 DEF FirstPrefixes
<1>6. ASSUME NEW h \in FirstPrefixes(toks, n)
      PROVE  /\ Len(h) > k * SpanSize <=> Len(h) \div SpanSize > k
             /\ h \in FirstPrefixes(toks, k) <=> Len(h) \div SpanSize <= k
             /\ Len(h) \div SpanSize \in 1..n
  <2> DEFINE j == Len(h) \div SpanSize
             x == j * SpanSize
             y == k * SpanSize
  <2>1. j \in 1..n /\ h = PrefixAt(toks, j) /\ Len(h) = x
    BY <1>4
  <2> HIDE DEF j
  <2>2. (j <= k => x <= y) /\ (k < j => y + SpanSize <= x)
    BY <1>1, <1>2, <2>1, Multiples
  <2>3. x \in Int /\ y \in Int
    BY <1>1, <1>2, <2>1
  <2> HIDE DEF x, y
  <2>4. Len(h) > y <=> j > k
    BY <1>1, <1>2, <2>1, <2>2, <2>3
  <2>5. j <= k => h \in FirstPrefixes(toks, k)
    BY <1>1, <1>2, <2>1 DEF FirstPrefixes
  <2>6. ASSUME h \in FirstPrefixes(toks, k)
        PROVE  j <= k
    <3>1. PICK i \in 1..k : h = PrefixAt(toks, i)
      BY <2>6 DEF FirstPrefixes
    <3>2. i * SpanSize <= Len(toks)
      BY <1>1, <1>2, <1>3, FirstPrefixesFacts
    <3>3. Len(h) \div SpanSize = i
      BY <3>1, <3>2, PrefixFacts
    <3> QED
      BY <3>3 DEF j
  <2> QED
    BY <2>1, <2>4, <2>5, <2>6 DEF j, y
<1>7. H = {h \in FirstPrefixes(toks, n) : Len(h) \div SpanSize > k}
  BY <1>1, <1>6
<1>8. \A h \in FirstPrefixes(toks, n) : Len(h) \div SpanSize \in Int
  BY <1>1, <1>4
<1> QED
  BY <1>2, <1>5, <1>6, <1>7, <1>8 DEF n

\* What StartRequest leaves of a manager m for place r.
StartGives(m, n, q, r, toks, nodes, cache, B2, N3, T) ==
  /\ CacheOK(n, B2, N3, LiveOf(q) \cup {r}, T) /\ n.fault = {}
  /\ TouchedAt(m.table, n.table, nodes, T)
  /\ NoCapture(m, n, CachesOf(q), LiveOf(q)) /\ Keeps(m, n, NodesOf(q), LiveOf(q))
  /\ nodes = FirstPrefixes(toks, HashedCount(toks))
  /\ VirtualCache(n, cache, HashedCount(toks))
  /\ Len(cache) = SpansFor(Len(toks))

\* Insert after the prefill.
LEMMA PrefillInsertOK ==
  ASSUME NEW m, NEW d, NEW q, NEW T \in Nat, NEW r \in Requests, r \notin LiveOf(q),
         NEW toks \in Seq(Tokens), Len(toks) >= 1,
         NEW f, NEW p, NEW B2, NEW N2, PrefillGives(m, d, q, r, toks, f, p, B2, N2, T), d.fault = {},
         NEW cache, cache = p.cache, B2[r] = Range(cache), N2[r] = f.nodes,
         \A s \in LiveOf(q) : B2[s] = CachesOf(q)[s],
         NEW start, start = Cardinality(f.nodes) * SpanSize,
         NEW i, i = Insert(d, toks, start, T, cache),
         NEW N3, Gains(N2, N3, LiveOf(q) \cup {r}, r, i.nodes)
  PROVE  StartGives(m, i.m, q, r, toks, f.nodes \cup i.nodes, cache, B2, N3, T)
<1> DEFINE L == LiveOf(q)
           U == L \cup {r}
           H == {h \in HashedPrefixes(toks) : Len(h) > start}
           c == HashedCount(toks)
<1>1. /\ CacheOK(d, B2, N2, U, T)
      /\ NoCapture(m, d, CachesOf(q), L) /\ Keeps(m, d, NodesOf(q), L)
      /\ Len(cache) = SpansFor(Len(toks))
  BY DEF PrefillGives
<1>2. PICK k \in 0..c : /\ f.nodes = FirstPrefixes(toks, k) /\ Cardinality(f.nodes) = k
                        /\ VirtualCache(d, cache, k)
  BY DEF PrefillGives
<1>3. H = i.nodes
  BY DEF Insert
<1>4. start = k * SpanSize
  BY <1>2
<1>5. /\ FirstPrefixes(toks, k) \cup H = FirstPrefixes(toks, c)
      /\ FirstPrefixes(toks, k) \cap H = {}
      /\ \A h \in H : Len(h) \div SpanSize \in 1..c /\ Len(h) \div SpanSize > k
  <2>1. H = {h \in HashedPrefixes(toks) : Len(h) > k * SpanSize}
    BY <1>4
  <2>2. k \in 0..HashedCount(toks) /\ toks \in Seq(Tokens) /\ Len(toks) >= 1
    OBVIOUS
  <2> HIDE DEF H
  <2> QED
    BY ONLY <2>1, <2>2, PrefixesSplit DEF c
<1>6. c \in Nat /\ SpansFor(Len(toks)) = c + 1 /\ k \in Nat
  <2>1. Len(toks) \in Nat
    OBVIOUS
  <2>2. SpansFor(Len(toks)) = (Len(toks) - 1) \div SpanSize + 1 /\ (Len(toks) - 1) \div SpanSize \in Nat
    BY <2>1, SpansOfPrompt
  <2> QED
    BY <2>2 DEF HashedCount
<1>7. /\ cache \in Seq(Blocks) /\ IsInjective(cache) /\ DOMAIN cache = 1..(c + 1)
      /\ \A j \in DOMAIN cache : j > k => cache[j] \notin NodeBlocks(d)
  BY <1>1, <1>2, <1>6 DEF VirtualCache
<1>8. IsFiniteSet(U) /\ r \in U /\ U \ {r} = L
  BY LiveFinite, FS_AddElement
<1>9. H \subseteq HashedPrefixes(toks)
  OBVIOUS
<1> HIDE DEF H, c, L
<1>10. Addable(d, toks, H, cache)
  <2>1. \A h \in H : Len(h) \div SpanSize \in DOMAIN cache
    BY <1>5, <1>6, <1>7
  <2> QED
    BY <1>5, <1>7, <1>9, <2>1 DEF Addable
<1>11. Insertable(d, B2, N2, r, toks, T, T, cache, H)
  BY <1>2, <1>5, <1>7, <1>10 DEF Insertable
<1>12. Gains(N2, N3, U, r, H)
  BY <1>3 DEF L
<1>13. CacheOK(i.m, B2, N3, U, T) /\ InsertGives(d, i.m, B2, U, r, H, T, cache)
  <2>1. T \in Nat /\ i = Insert(d, toks, start, T, cache) /\ d.fault = {}
    OBVIOUS
  <2> HIDE DEF U
  <2> QED
    BY ONLY <1>1, <1>3, <1>8, <1>11, <1>12, <2>1, InsertOK
<1>14. /\ NoCapture(d, i.m, B2, L) /\ InsertedTable(d, i.m, H, T)
       /\ \A b \in NodeBlocks(i.m) : b \in NodeBlocks(d) \/ \E h \in H : b = cache[Len(h) \div SpanSize]
  BY <1>8, <1>13 DEF InsertGives
<1>15. i.m.fault = {} /\ \A h \in DOMAIN d.table : h \in DOMAIN i.m.table /\ i.m.table[h].blk = d.table[h].blk
  BY <1>14 DEF InsertedTable
<1>16. NoCapture(m, i.m, CachesOf(q), L)
  BY <1>1, <1>14 DEF NoCapture, L
<1>17. Keeps(m, i.m, NodesOf(q), L)
  BY <1>1, <1>15 DEF Keeps
<1>18. VirtualCache(i.m, cache, c)
  <2> SUFFICES ASSUME NEW j \in DOMAIN cache, j > c, cache[j] \in NodeBlocks(i.m) PROVE FALSE
    BY <1>7 DEF VirtualCache
  <2>1. j > k
    BY <1>2, <1>6, <1>7
  <2>2. PICK h \in H : cache[j] = cache[Len(h) \div SpanSize]
    BY <1>7, <1>14, <2>1
  <2>3. Len(h) \div SpanSize \in 1..c
    BY <1>5
  <2>4. Len(h) \div SpanSize \in DOMAIN cache
    BY <1>6, <1>7, <2>3
  <2>5. Len(h) \div SpanSize = j
    BY <1>7, <2>2, <2>4 DEF IsInjective
  <2> QED
    BY <1>6, <2>3, <2>5
<1>19. f.nodes \cup i.nodes = FirstPrefixes(toks, c)
  BY <1>2, <1>3, <1>5
<1>20. TouchedAt(m.table, i.m.table, f.nodes \cup i.nodes, T)
  <2>1. TouchedAt(m.table, d.table, f.nodes, T)
    BY DEF PrefillGives
  <2>2. /\ DOMAIN i.m.table = DOMAIN d.table \cup H
        /\ \A h \in DOMAIN d.table : i.m.table[h].ts = IF h \in H THEN Later(d.table[h].ts, T) ELSE d.table[h].ts
        /\ \A h \in H \ DOMAIN d.table : i.m.table[h].ts = T
    BY <1>14 DEF InsertedTable
  <2>3. f.nodes \cap H = {}
    BY <1>2, <1>5
  <2> QED
    BY ONLY <1>3, <2>1, <2>2, <2>3 DEF TouchedAt
<1> QED
  BY <1>1, <1>13, <1>15, <1>16, <1>17, <1>18, <1>19, <1>20 DEF StartGives, U, L, c

\* The fields of a request that starts.
LEMMA StartedReq ==
  ASSUME NEW n, NEW T \in Nat, NEW toks \in Seq(Tokens), Len(toks) >= 1, NEW t \in Tokens, NEW cache, NEW nodes,
         nodes = FirstPrefixes(toks, HashedCount(toks)),
         VirtualCache(n, cache, HashedCount(toks)), Len(cache) = SpansFor(Len(toks)),
         NEW x, x = [live |-> TRUE, toks |-> Append(toks, t), input_len |-> Len(toks),
                     kv_len |-> Len(toks), ts |-> T, cache |-> cache, nodes |-> nodes]
  PROVE  ReqOK(n, x, T) /\ ReqShape(x) /\ x.live /\ x.cache = cache /\ x.nodes = nodes
<1> DEFINE y == Append(toks, t)
           k == Len(toks)
<1>1. y \in Seq(Tokens) /\ Len(y) = k + 1 /\ k \in Nat /\ k >= 1
  OBVIOUS
<1>2. HashedCount(toks) \in Nat /\ HashedCount(toks) * SpanSize < k
  BY HashedFacts
<1>3. HashedCount(toks) * SpanSize <= k
  BY <1>1, <1>2, PrefixCacheAssumption
<1>4. FirstPrefixes(y, HashedCount(toks)) = FirstPrefixes(toks, HashedCount(toks))
  BY <1>2, <1>3, AppendPrefixes
<1>5. HashedCount(toks) = (k - 1) \div SpanSize
  BY DEF HashedCount
<1>6. x = [live |-> TRUE, toks |-> y, input_len |-> k, kv_len |-> k, ts |-> T, cache |-> cache, nodes |-> nodes]
  OBVIOUS
<1> HIDE DEF y, k
<1>7. /\ x.live = TRUE /\ x.toks = y /\ x.input_len = k /\ x.kv_len = k /\ x.ts = T
      /\ x.cache = cache /\ x.nodes = nodes
  BY ONLY <1>6
<1>8. PromptSpans(x) = HashedCount(toks)
  BY <1>5, <1>7 DEF PromptSpans
<1>9. Len(cache) = SpansFor(k)
  BY DEF k
<1>10. ReqOK(n, x, T)
  <2>1. x.nodes = FirstPrefixes(x.toks, PromptSpans(x))
    BY <1>4, <1>7, <1>8
  <2>2. Len(x.cache) = SpansFor(x.kv_len) /\ VirtualCache(n, x.cache, PromptSpans(x))
    BY <1>7, <1>8, <1>9
  <2>3. x.toks \in Seq(Tokens) /\ x.kv_len \in Nat /\ Len(x.toks) = x.kv_len + 1
    BY <1>1, <1>7
  <2>4. x.input_len \in 1..x.kv_len /\ x.ts \in Nat /\ x.ts <= T
    BY <1>1, <1>7
  <2> QED
    BY ONLY <2>1, <2>2, <2>3, <2>4 DEF ReqOK
<1>11. ReqShape(x)
  BY <1>6, <1>7 DEF ReqShape
<1> QED
  BY <1>7, <1>10, <1>11

\* The first part of the context phase: what StartRequest and a failing start share.
StartInput(m0, q, T, r, toks, expired, T2, m, f, p) ==
  /\ ReqsShape(q) /\ T \in Nat /\ CoreOK(m0, q, T) /\ r \in Requests /\ r \notin LiveOf(q)
  /\ toks \in Prompts /\ T2 = T + 1 /\ m = MakeRoom(m0, toks, T2, expired)
  /\ f = RefFill(m, toks, T2) /\ p = FillUp(f.m, toks, f.cache) /\ p.m.fault = {}
StartBegun(m0, q, T2, r, toks, m, f, p, B2, N2) ==
  /\ CoreOK(m, q, T2) /\ Keeps(m0, m, NodesOf(q), LiveOf(q))
  /\ PrefillGives(m, p.m, q, r, toks, f, p, B2, N2, T2)
  /\ B2[r] = Range(p.cache) /\ N2[r] = f.nodes
  /\ \A s \in LiveOf(q) : B2[s] = CachesOf(q)[s] /\ N2[s] = NodesOf(q)[s]

LEMMA StartBegins ==
  ASSUME NEW m0, NEW q, NEW T, NEW r, NEW toks, NEW expired, NEW T2, NEW m, NEW f, NEW p,
         StartInput(m0, q, T, r, toks, expired, T2, m, f, p)
  PROVE  \E B2, N2 : StartBegun(m0, q, T2, r, toks, m, f, p, B2, N2)
<1>1. /\ ReqsShape(q) /\ T \in Nat /\ CoreOK(m0, q, T) /\ r \in Requests /\ r \notin LiveOf(q)
      /\ toks \in Prompts /\ T2 = T + 1 /\ m = MakeRoom(m0, toks, T2, expired)
      /\ f = RefFill(m, toks, T2) /\ p = FillUp(f.m, toks, f.cache) /\ p.m.fault = {}
  BY DEF StartInput
<1>2. toks \in Seq(Tokens) /\ Len(toks) >= 1 /\ T2 \in Nat
  BY <1>1, PrefixCacheAssumption
<1>3. CoreOK(m, q, T2) /\ Keeps(m0, m, NodesOf(q), LiveOf(q))
  BY ONLY <1>1, RoomOK
<1>4. PICK B2 : B2 = [s \in Requests |-> IF s = r THEN Range(p.cache) ELSE CachesOf(q)[s]]
  OBVIOUS
<1>5. PICK N2 : N2 = [s \in Requests |-> IF s = r THEN f.nodes ELSE NodesOf(q)[s]]
  OBVIOUS
<1>6. PrefillGives(m, p.m, q, r, toks, f, p, B2, N2, T2)
  BY <1>1, <1>2, <1>3, <1>4, <1>5, PrefillOK
<1>7. /\ B2[r] = Range(p.cache) /\ N2[r] = f.nodes
      /\ \A s \in LiveOf(q) : B2[s] = CachesOf(q)[s] /\ N2[s] = NodesOf(q)[s]
  BY <1>1, <1>4, <1>5, LiveFinite
<1>8. StartBegun(m0, q, T2, r, toks, m, f, p, B2, N2)
  BY ONLY <1>3, <1>6, <1>7 DEF StartBegun
<1> QED
  BY ONLY <1>8

\* StartRequest in place r.
StartedBatch(q, r, toks, t, ts, cache, nodes) ==
  [q EXCEPT ![r] = [live |-> TRUE, toks |-> Append(toks, t), input_len |-> Len(toks),
                    kv_len |-> Len(toks), ts |-> ts, cache |-> cache, nodes |-> nodes]]

\* What a started request leaves behind: m0 and q before it, m after making room.
Started(m0, q, r, m, n, toks, nodes, q2, T2) ==
  /\ CoreOK(n, q2, T2) /\ ReqsShape(q2) /\ n.fault = {} /\ Keeps(m0, n, NodesOf(q), LiveOf(q))
  /\ LiveOf(q2) = LiveOf(q) \cup {r}
  /\ TouchedAt(m.table, n.table, nodes, T2) /\ nodes = FirstPrefixes(toks, HashedCount(toks))

LEMMA StartOK ==
  ASSUME NEW m0, NEW q, NEW T, NEW r, NEW toks, NEW expired, NEW T2, NEW m, NEW f, NEW p,
         StartInput(m0, q, T, r, toks, expired, T2, m, f, p), NEW t \in Sampled,
         NEW start, start = Cardinality(f.nodes) * SpanSize,
         NEW cache, cache = p.cache, NEW d, d = p.m,
         NEW i, i = Insert(d, toks, start, T2, cache),
         NEW nodes, nodes = f.nodes \cup i.nodes, NEW q2, q2 = StartedBatch(q, r, toks, t, T2, cache, nodes)
  PROVE  Started(m0, q, r, m, i.m, toks, nodes, q2, T2)
<1> DEFINE L == LiveOf(q)
           U == L \cup {r}
           x == [live |-> TRUE, toks |-> Append(toks, t), input_len |-> Len(toks),
                 kv_len |-> Len(toks), ts |-> T2, cache |-> cache, nodes |-> nodes]
<1>1. PICK B2, N2 : StartBegun(m0, q, T2, r, toks, m, f, p, B2, N2)
  BY StartBegins
<1>2. /\ CoreOK(m, q, T2) /\ Keeps(m0, m, NodesOf(q), L)
      /\ PrefillGives(m, d, q, r, toks, f, p, B2, N2, T2)
      /\ B2[r] = Range(cache) /\ N2[r] = f.nodes
      /\ \A s \in L : B2[s] = CachesOf(q)[s] /\ N2[s] = NodesOf(q)[s]
  BY <1>1 DEF StartBegun
<1>3. /\ ReqsShape(q) /\ T2 \in Nat /\ r \in Requests /\ r \notin L /\ d.fault = {}
      /\ toks \in Prompts
  BY DEF StartInput
<1>4. toks \in Seq(Tokens) /\ Len(toks) >= 1 /\ t \in Tokens /\ L \subseteq Requests
  BY <1>3, PrefixCacheAssumption, LiveFinite
<1>5. PICK N3 : N3 = [s \in Requests |-> IF s = r THEN nodes ELSE NodesOf(q)[s]]
  OBVIOUS
<1>6. Gains(N2, N3, U, r, i.nodes) /\ N3[r] = nodes /\ \A s \in L : N3[s] = NodesOf(q)[s]
  BY <1>2, <1>3, <1>4, <1>5 DEF Gains
<1>7. StartGives(m, i.m, q, r, toks, nodes, cache, B2, N3, T2)
  <2>1. \A s \in LiveOf(q) : B2[s] = CachesOf(q)[s]
    BY <1>2
  <2>2. Gains(N2, N3, LiveOf(q) \cup {r}, r, i.nodes) /\ cache = p.cache /\ start = Cardinality(f.nodes) * SpanSize
        /\ i = Insert(d, toks, start, T2, cache)
    BY <1>6
  <2> QED
    <3>2. Gains(N2, N3, LiveOf(q) \cup {r}, r, i.nodes)
      BY <2>2
    <3>3. T2 \in Nat /\ r \in Requests /\ r \notin LiveOf(q) /\ d.fault = {} /\ toks \in Seq(Tokens) /\ Len(toks) >= 1
      BY <1>3, <1>4
    <3>4. PrefillGives(m, d, q, r, toks, f, p, B2, N2, T2) /\ B2[r] = Range(cache) /\ N2[r] = f.nodes
      BY <1>2
    <3>5. StartGives(m, i.m, q, r, toks, f.nodes \cup i.nodes, cache, B2, N3, T2)
      BY ONLY <2>1, <2>2, <3>2, <3>3, <3>4, PrefillInsertOK
    <3> QED
      BY <3>5
<1> HIDE DEF L, U, x
<1>8. /\ CacheOK(i.m, B2, N3, U, T2) /\ NoCapture(m, i.m, CachesOf(q), L) /\ Keeps(m, i.m, NodesOf(q), L)
      /\ nodes = FirstPrefixes(toks, HashedCount(toks)) /\ VirtualCache(i.m, cache, HashedCount(toks))
      /\ Len(cache) = SpansFor(Len(toks))
  BY <1>7 DEF StartGives, L, U
<1>9. ReqOK(i.m, x, T2) /\ ReqShape(x) /\ x.live /\ x.cache = cache /\ x.nodes = nodes
  <2>1. T2 \in Nat /\ toks \in Seq(Tokens) /\ Len(toks) >= 1 /\ t \in Tokens
    BY <1>3, <1>4
  <2>2. /\ nodes = FirstPrefixes(toks, HashedCount(toks)) /\ VirtualCache(i.m, cache, HashedCount(toks))
        /\ Len(cache) = SpansFor(Len(toks))
    BY <1>8
  <2> QED
    BY ONLY <2>1, <2>2, StartedReq DEF x
<1>10. q2 = [q EXCEPT ![r] = x]
  BY DEF x, StartedBatch
<1>11. PlaceSet(q, q2, r, x)
  <2>1. DOMAIN q = Requests /\ r \in Requests
    BY <1>3 DEF ReqsShape
  <2> QED
    BY ONLY <1>10, <2>1, OthersSame
<1>12. LiveOf(q2) = U
  <2>1. LiveOf(q2) \ {r} = L \ {r}
    BY <1>11 DEF PlaceSet, L
  <2>2. r \in LiveOf(q2)
    BY <1>9, <1>11 DEF PlaceSet
  <2> QED
    BY ONLY <1>3, <2>1, <2>2 DEF U
<1>13. ReqsOK(m, q, L, T2)
  BY <1>2 DEF CoreOK, ReqsOK, L
<1>14. ReqsOK(i.m, q, L, T2)
  <2>1. T2 \in Nat /\ T2 <= T2 /\ L \subseteq Requests
    BY <1>3, <1>4
  <2>2. PICK B : B = CachesOf(q)
    OBVIOUS
  <2>3. NoCapture(m, i.m, B, L)
    BY <1>8, <2>2
  <2> QED
    BY ONLY <1>13, <2>1, <2>2, <2>3, ReqsStay
<1>15. ReqsOK(i.m, q2, U, T2)
  <2>1. ReqOK(i.m, q2[r], T2)
    BY <1>9, <1>11 DEF PlaceSet
  <2>2. \A s \in L : q2[s] = q[s]
    <3>1. \A s \in L : s \in Requests /\ s # r
      BY <1>3, <1>4
    <3> QED
      BY ONLY <3>1, <1>11 DEF PlaceSet
  <2>3. \A s \in L : ReqOK(i.m, q2[s], T2)
    BY <1>14, <2>2 DEF ReqsOK
  <2> QED
    BY ONLY <2>1, <2>3 DEF ReqsOK, U
<1>16. SameUse(q2, B2, N3, U)
  <2>1. CachesOf(q2)[r] = B2[r] /\ NodesOf(q2)[r] = N3[r]
    <3>1. CachesOf(q2)[r] = Range(x.cache) /\ NodesOf(q2)[r] = x.nodes
      BY <1>11 DEF PlaceSet
    <3>2. B2[r] = Range(cache) /\ N3[r] = nodes
      BY <1>2, <1>6
    <3> QED
      BY ONLY <1>9, <3>1, <3>2
  <2>2. \A s \in L : CachesOf(q2)[s] = CachesOf(q)[s] /\ NodesOf(q2)[s] = NodesOf(q)[s]
    BY <1>3, <1>4, <1>11 DEF PlaceSet
  <2>3. \A s \in L : B2[s] = CachesOf(q)[s] /\ N3[s] = NodesOf(q)[s]
    BY <1>2, <1>6
  <2> QED
    BY ONLY <2>1, <2>2, <2>3 DEF SameUse, U
<1>17. CoreOK(i.m, q2, T2)
  <2>1. CacheOK(i.m, B2, N3, U, T2) /\ U = LiveOf(q2) /\ T2 \in Nat
    BY <1>3, <1>8, <1>12
  <2> QED
    BY ONLY <1>15, <1>16, <2>1, CoreFrom
<1>18. ReqsShape(q2)
  BY <1>3, <1>9, <1>11 DEF ReqsShape, PlaceSet
<1>19. Keeps(m0, i.m, NodesOf(q), L)
  BY <1>2, <1>8 DEF Keeps
<1>20. TouchedAt(m.table, i.m.table, nodes, T2) /\ i.m.fault = {}
  BY <1>7 DEF StartGives
<1> QED
  BY <1>8, <1>12, <1>17, <1>18, <1>19, <1>20 DEF L, U, Started

\* The context phase throws, and the request is stopped.
LEMMA StartFailsOK ==
  ASSUME NEW m0, NEW q, NEW T, NEW r, NEW toks, NEW expired, NEW T2, NEW m, NEW f, NEW p,
         StartInput(m0, q, T, r, toks, expired, T2, m, f, p),
         NEW d, d = p.m, NEW x, x.toks = toks, x.input_len = Len(toks), x.ts = T2, x.cache = p.cache, x.nodes = f.nodes,
         NEW n, n = StopContext(d, x, expired)
  PROVE  CoreOK(n, q, T2) /\ Keeps(m0, n, NodesOf(q), LiveOf(q))
<1> DEFINE L == LiveOf(q)
           U == L \cup {r}
<1>1. PICK B2, N2 : StartBegun(m0, q, T2, r, toks, m, f, p, B2, N2)
  BY StartBegins
<1>2. /\ CoreOK(m, q, T2) /\ Keeps(m0, m, NodesOf(q), L)
      /\ PrefillGives(m, d, q, r, toks, f, p, B2, N2, T2)
      /\ B2[r] = Range(x.cache) /\ N2[r] = x.nodes
      /\ \A s \in L : B2[s] = CachesOf(q)[s] /\ N2[s] = NodesOf(q)[s]
  BY <1>1 DEF StartBegun
<1>3. /\ ReqsShape(q) /\ T2 \in Nat /\ r \in Requests /\ r \notin L /\ d.fault = {}
      /\ toks \in Prompts
  BY DEF StartInput
<1>4. toks \in Seq(Tokens) /\ Len(toks) >= 1 /\ L \subseteq Requests /\ IsFiniteSet(L)
  BY <1>3, PrefixCacheAssumption, LiveFinite
<1>5. IsFiniteSet(U) /\ r \in U /\ U \ {r} = L
  BY <1>3, <1>4, FS_AddElement
<1>6. /\ CacheOK(d, B2, N2, U, T2)
      /\ NoCapture(m, d, CachesOf(q), L) /\ Keeps(m, d, NodesOf(q), L)
      /\ x.cache \in Seq(Blocks) /\ IsInjective(x.cache)
  BY <1>2 DEF PrefillGives, VirtualCache
<1>7. LateNodes(x) = {}
  BY <1>4, NoLateNodes
<1>8. Stoppable(d, x, T2)
  BY <1>3, <1>4, <1>6, <1>7 DEF Stoppable, Addable
<1> HIDE DEF L, U
<1>9. /\ CacheOK(n, B2, N2, U \ {r}, T2)
      /\ NoCapture(d, n, B2, U \ {r}) /\ Keeps(d, n, N2, U \ {r}) /\ n.fault = {}
  <2>1. n = StopContext(d, x, expired) /\ T2 \in Nat /\ d.fault = {}
    BY <1>3
  <2>2. B2[r] = Range(x.cache) /\ N2[r] = x.nodes
    BY <1>2
  <2>3. CacheOK(d, B2, N2, U, T2)
    BY <1>6
  <2>4. IsFiniteSet(U) /\ r \in U
    BY <1>5
  <2> QED
    BY ONLY <1>8, <2>1, <2>2, <2>3, <2>4, StopContextOK
<1>10. CacheOK(n, B2, N2, L, T2) /\ NoCapture(d, n, B2, L) /\ Keeps(d, n, N2, L)
  BY <1>5, <1>9
<1>11. PICK B : B = CachesOf(q)
  OBVIOUS
<1>12. NoCapture(m, n, B, L)
  BY <1>2, <1>6, <1>10, <1>11 DEF NoCapture
<1>13. ReqsOK(m, q, L, T2)
  BY <1>2 DEF CoreOK, ReqsOK, L
<1>14. ReqsOK(n, q, L, T2)
  <2>1. T2 \in Nat /\ T2 <= T2 /\ L \subseteq Requests
    BY <1>3, <1>4
  <2> QED
    BY ONLY <1>11, <1>12, <1>13, <2>1, ReqsStay
<1>15. SameUse(q, B2, N2, L)
  BY <1>2 DEF SameUse
<1>16. CoreOK(n, q, T2)
  <2>1. L = LiveOf(q) /\ T2 \in Nat
    BY <1>3 DEF L
  <2> QED
    BY ONLY <1>10, <1>14, <1>15, <2>1, CoreFrom
<1>17. Keeps(m0, n, NodesOf(q), L)
  BY <1>2, <1>6, <1>10 DEF Keeps
<1> QED
  BY <1>16, <1>17 DEF L

\* A token begins a span when the tokens before it fill whole spans.
LEMMA NextSpan ==
  ASSUME NEW n \in Nat, n >= 1
  PROVE  /\ n % SpanSize = 0 => SpansFor(n + 1) = SpansFor(n) + 1
         /\ n % SpanSize # 0 => SpansFor(n + 1) = SpansFor(n)
<1> DEFINE q == n \div SpanSize
           p == (n - 1) \div SpanSize
           m == n % SpanSize
<1>1. SpanSize \in Nat \ {0} /\ n \in Int /\ n - 1 \in Int
  BY PrefixCacheAssumption
<1>2. SpansFor(n) = p + 1 /\ p \in Nat
  BY SpansOfPrompt
<1>3. SpansFor(n + 1) = q + 1
  <2> DEFINE k == n + 1
  <2>1. k \in Nat /\ k >= 1 /\ k - 1 = n
    OBVIOUS
  <2> HIDE DEF k
  <2>2. SpansFor(k) = (k - 1) \div SpanSize + 1
    BY <2>1, SpansOfPrompt
  <2> QED
    BY <2>1, <2>2 DEF k
<1>4. q \in Int /\ q * SpanSize <= n /\ n < q * SpanSize + SpanSize
  BY <1>1, Quotient
<1>5. m = n - q * SpanSize
  BY <1>1
<1> HIDE DEF q, p, m
<1>6. q * SpanSize \in Int /\ (q - 1) * SpanSize = q * SpanSize - SpanSize
  BY <1>1, <1>4
<1>7. ASSUME m = 0
      PROVE  p = q - 1
  <2> DEFINE k == q - 1
  <2>1. k \in Int /\ k * SpanSize = q * SpanSize - SpanSize
    BY <1>4, <1>6
  <2> HIDE DEF k
  <2>2. k * SpanSize <= n - 1 /\ n - 1 < k * SpanSize + SpanSize
    BY <1>1, <1>4, <1>5, <1>6, <1>7, <2>1
  <2>3. k <= p /\ p <= k
    BY <1>1, <2>1, <2>2, QuotientBounds DEF p
  <2> QED
    BY <1>2, <2>1, <2>3 DEF k
<1>8. ASSUME m # 0
      PROVE  p = q
  <2>1. q * SpanSize <= n - 1 /\ n - 1 < q * SpanSize + SpanSize
    BY <1>1, <1>4, <1>5, <1>6, <1>8
  <2>2. q <= p /\ p <= q
    BY <1>1, <1>4, <2>1, QuotientBounds DEF p
  <2> QED
    BY <1>2, <1>4, <2>2
<1> QED
  BY <1>2, <1>3, <1>4, <1>7, <1>8 DEF m

\* The prefixes a request refers to are in its prompt.
LEMMA PromptInside ==
  ASSUME NEW m, NEW x, NEW T \in Nat, ReqOK(m, x, T)
  PROVE  PromptSpans(x) \in Nat /\ PromptSpans(x) * SpanSize <= Len(x.toks)
<1> DEFINE n == x.input_len
           y == PromptSpans(x) * SpanSize
<1>1. n \in Nat /\ n >= 1 /\ n < Len(x.toks) /\ Len(x.toks) \in Nat
  BY DEF ReqOK
<1>2. SpanSize \in Nat \ {0}
  BY PrefixCacheAssumption
<1>3. PromptSpans(x) = (n - 1) \div SpanSize
  BY DEF PromptSpans
<1> HIDE DEF n
<1>4. PromptSpans(x) \in Nat
  BY <1>1, <1>3, SpansOfPrompt
<1>5. (n - 1) \in Int
  BY <1>1
<1>6. y <= n - 1 /\ y \in Int
  <2> DEFINE k == n - 1
  <2>1. k \in Int
    BY <1>5
  <2> HIDE DEF k
  <2>2. (k \div SpanSize) * SpanSize <= k
    BY <1>2, <2>1, Quotient
  <2> QED
    BY <1>2, <1>3, <1>4, <2>2 DEF k
<1> HIDE DEF y
<1>7. y <= Len(x.toks)
  BY <1>1, <1>6
<1> QED
  BY <1>4, <1>7 DEF y

\* The virtual cache after a decoder step.
NextCache(m, x, cache) ==
  \/ x.kv_len % SpanSize # 0 /\ cache = x.cache
  \/ /\ x.kv_len % SpanSize = 0
     /\ \E b \in Blocks : cache = Append(x.cache, b) /\ b \notin NodeBlocks(m) /\ b \notin Range(x.cache)

LEMMA NextCacheOK ==
  ASSUME NEW m, NEW x, NEW k \in Nat, x.kv_len \in Nat, x.kv_len >= 1, VirtualCache(m, x.cache, k),
         Len(x.cache) = SpansFor(x.kv_len), NEW cache, NextCache(m, x, cache)
  PROVE  VirtualCache(m, cache, k) /\ Len(cache) = SpansFor(x.kv_len + 1)
<1> DEFINE n == x.kv_len
           old == x.cache
<1>0. n \in Nat /\ n >= 1 /\ VirtualCache(m, old, k) /\ Len(old) = SpansFor(n)
  OBVIOUS
<1>1. /\ n % SpanSize = 0 => SpansFor(n + 1) = SpansFor(n) + 1
      /\ n % SpanSize # 0 => SpansFor(n + 1) = SpansFor(n)
  <2> HIDE DEF n
  <2> QED
    BY <1>0, NextSpan
<1>2. CASE n % SpanSize # 0 /\ cache = old
  BY <1>0, <1>1, <1>2
<1>3. CASE /\ n % SpanSize = 0
           /\ \E b \in Blocks : cache = Append(old, b) /\ b \notin NodeBlocks(m) /\ b \notin Range(old)
  <2>1. PICK b \in Blocks : cache = Append(old, b) /\ b \notin NodeBlocks(m) /\ b \notin Range(old)
    BY <1>3
  <2> HIDE DEF old, n
  <2>2. /\ old \in Seq(Blocks) /\ IsInjective(old)
        /\ \A j \in DOMAIN old : j > k => old[j] \notin NodeBlocks(m)
    BY <1>0 DEF VirtualCache
  <2>3. /\ cache \in Seq(Blocks) /\ Len(cache) = Len(old) + 1 /\ DOMAIN cache = 1..(Len(old) + 1)
        /\ DOMAIN old = 1..Len(old) /\ Len(old) \in Nat
        /\ cache[Len(old) + 1] = b /\ \A j \in DOMAIN old : cache[j] = old[j]
    BY <2>1, <2>2
  <2>4. \A j \in DOMAIN cache : j \in DOMAIN old \/ j = Len(old) + 1
    BY <2>3
  <2>5. \A j \in DOMAIN old : old[j] \in Range(old)
    BY DEF Range
  <2>6. ASSUME NEW i \in DOMAIN cache, NEW j \in DOMAIN cache, cache[i] = cache[j]
        PROVE  i = j
    <3>1. CASE i \in DOMAIN old /\ j \in DOMAIN old
      BY <2>2, <2>3, <2>6, <3>1 DEF IsInjective
    <3>2. CASE i \in DOMAIN old /\ j = Len(old) + 1
      BY <2>1, <2>3, <2>5, <2>6, <3>2
    <3>3. CASE j \in DOMAIN old /\ i = Len(old) + 1
      BY <2>1, <2>3, <2>5, <2>6, <3>3
    <3> QED
      BY <2>4, <3>1, <3>2, <3>3
  <2>7. IsInjective(cache)
    BY <2>6 DEF IsInjective
  <2>8. \A j \in DOMAIN cache : j > k => cache[j] \notin NodeBlocks(m)
    BY <2>1, <2>2, <2>3, <2>4
  <2>9. VirtualCache(m, cache, k)
    BY <2>3, <2>7, <2>8 DEF VirtualCache
  <2>10. Len(cache) = SpansFor(n + 1)
    BY <1>0, <1>1, <1>3, <2>3 DEF n
  <2> QED
    BY <2>9, <2>10 DEF n
<1> QED
  BY <1>2, <1>3 DEF NextCache

\* A request after a decoder step that sampled t.
NextReq(x, t, cache) == [x EXCEPT !.toks = Append(@, t), !.kv_len = @ + 1, !.cache = cache]

Decoded(m, x, cache, T, y) ==
  /\ ReqOK(m, y, T) /\ y.cache = cache /\ y.nodes = x.nodes /\ y.live = x.live
  /\ y = [live |-> y.live, toks |-> y.toks, input_len |-> y.input_len, kv_len |-> y.kv_len,
          ts |-> y.ts, cache |-> y.cache, nodes |-> y.nodes]

LEMMA DecodedReq ==
  ASSUME NEW m, NEW x, ReqShape(x), NEW T \in Nat, ReqOK(m, x, T), NEW t \in Tokens,
         NEW cache, NextCache(m, x, cache)
  PROVE  Decoded(m, x, cache, T, NextReq(x, t, cache))
<1> DEFINE y == NextReq(x, t, cache)
<1> DEFINE a == Append(x.toks, t)
           b == x.kv_len + 1
<1>1. y = [x EXCEPT !.toks = a, !.kv_len = b, !.cache = cache]
  BY DEF NextReq
<1>2. /\ x.toks \in Seq(Tokens) /\ x.kv_len \in Nat /\ Len(x.toks) = x.kv_len + 1
      /\ x.input_len \in 1..x.kv_len /\ x.ts \in Nat /\ x.ts <= T
      /\ Len(x.cache) = SpansFor(x.kv_len) /\ VirtualCache(m, x.cache, PromptSpans(x))
      /\ x.nodes = FirstPrefixes(x.toks, PromptSpans(x))
  BY DEF ReqOK
<1>3. PromptSpans(x) \in Nat /\ PromptSpans(x) * SpanSize <= Len(x.toks)
  BY PromptInside
<1>4. a \in Seq(Tokens) /\ Len(a) = b + 1 /\ b \in Nat
  BY <1>2
<1>5. FirstPrefixes(a, PromptSpans(x)) = FirstPrefixes(x.toks, PromptSpans(x))
  BY <1>2, <1>3, AppendPrefixes
<1>6. VirtualCache(m, cache, PromptSpans(x)) /\ Len(cache) = SpansFor(x.kv_len + 1)
  <2>1. x.kv_len >= 1
    BY <1>2
  <2> QED
    BY <1>2, <1>3, <2>1, NextCacheOK
<1>60. Len(cache) = SpansFor(b)
  BY <1>6
<1>7. x.input_len \in 1..b
  BY <1>2
<1> HIDE DEF a, b, y
<1>8. x = [live |-> x.live, toks |-> x.toks, input_len |-> x.input_len, kv_len |-> x.kv_len,
           ts |-> x.ts, cache |-> x.cache, nodes |-> x.nodes]
  BY DEF ReqShape
<1>9. y = [live |-> x.live, toks |-> a, input_len |-> x.input_len, kv_len |-> b,
           ts |-> x.ts, cache |-> cache, nodes |-> x.nodes]
  BY ONLY <1>1, <1>8
<1>10. /\ y.live = x.live /\ y.toks = a /\ y.input_len = x.input_len /\ y.kv_len = b
       /\ y.ts = x.ts /\ y.cache = cache /\ y.nodes = x.nodes
  BY ONLY <1>9
<1>11. PromptSpans(y) = PromptSpans(x)
  BY <1>10 DEF PromptSpans
<1>12. ReqOK(m, y, T)
  <2>1. y.nodes = FirstPrefixes(y.toks, PromptSpans(y))
    BY <1>2, <1>5, <1>10, <1>11
  <2>2. Len(y.cache) = SpansFor(y.kv_len) /\ VirtualCache(m, y.cache, PromptSpans(y))
    BY <1>6, <1>60, <1>10, <1>11
  <2>3. y.toks \in Seq(Tokens) /\ y.kv_len \in Nat /\ Len(y.toks) = y.kv_len + 1
    BY <1>4, <1>10
  <2>4. y.input_len \in 1..y.kv_len /\ y.ts \in Nat /\ y.ts <= T
    BY <1>2, <1>7, <1>10
  <2> QED
    BY ONLY <2>1, <2>2, <2>3, <2>4 DEF ReqOK
<1>13. Decoded(m, x, cache, T, y)
  BY <1>9, <1>10, <1>12 DEF Decoded
<1> QED
  BY <1>13 DEF y

\* Only the data of the blocks differs.
SameButKv(m, n) ==
  /\ ManagerShape(n) /\ n.table = m.table /\ n.evictor = m.evictor /\ n.free = m.free
  /\ n.extra = m.extra /\ n.cpu = m.cpu /\ n.fault = m.fault

\* The requests that need a span, their caches after the claims blk, and the batch
\* after the step.
SpanStarts(q) == {r \in LiveOf(q) : q[r].kv_len % SpanSize = 0}
DecodedCaches(q, blk) ==
  [r \in LiveOf(q) |-> IF r \in SpanStarts(q) THEN Append(q[r].cache, blk[r]) ELSE q[r].cache]
DecodedBatch(q, out, C) ==
  [r \in Requests |-> IF r \in LiveOf(q) THEN NextReq(q[r], out[r], C[r]) ELSE q[r]]

\* Who has which blocks after the claims.
LEMMA DecodedBlocks ==
  ASSUME NEW q, NEW B, B = CachesOf(q), NEW blk, DOMAIN blk = SpanStarts(q), IsInjective(blk),
         NEW L, L = LiveOf(q), \A r \in L : q[r].cache \in Seq(Blocks),
         \A b \in Range(blk) : \A s \in L : b \notin B[s],
         NEW C, C = DecodedCaches(q, blk), NEW B2, \A s \in L : B2[s] = Range(C[s])
  PROVE  /\ \A s \in L : B[s] \subseteq B2[s] /\ B2[s] \subseteq B[s] \cup Range(blk)
         /\ \A s, t \in L : s # t => B2[s] \cap B2[t] \cap Range(blk) = {}
         /\ \A b \in Range(blk) : \E s \in L : b \in B2[s]
<1> DEFINE S == SpanStarts(q)
<1>1. S \subseteq L /\ L \subseteq Requests /\ DOMAIN blk = S
  BY LiveFinite DEF SpanStarts
<1>2. \A s \in L : B[s] = Range(q[s].cache)
  BY <1>1 DEF CachesOf
<1>3. \A s \in L : C[s] = IF s \in S THEN Append(q[s].cache, blk[s]) ELSE q[s].cache
  BY DEF DecodedCaches
<1>4. ASSUME NEW c \in Seq(Blocks), NEW b
      PROVE  Range(Append(c, b)) = Range(c) \cup {b}
  <2> DEFINE d == Append(c, b)
  <2>1. DOMAIN d = 1..(Len(c) + 1) /\ DOMAIN c = 1..Len(c) /\ Len(c) \in Nat
    OBVIOUS
  <2>2. d[Len(c) + 1] = b /\ \A j \in DOMAIN c : d[j] = c[j]
    OBVIOUS
  <2> HIDE DEF d
  <2>3. \A j \in DOMAIN d : j \in DOMAIN c \/ j = Len(c) + 1
    BY <2>1
  <2>4. Len(c) + 1 \in DOMAIN d /\ \A j \in DOMAIN c : j \in DOMAIN d
    BY <2>1
  <2>5. Range(d) = Range(c) \cup {b}
    BY <2>2, <2>3, <2>4 DEF Range
  <2> QED
    BY <2>5 DEF d
<1> HIDE DEF S
<1>5. \A s \in L : B2[s] = IF s \in S THEN B[s] \cup {blk[s]} ELSE B[s]
  <2> TAKE s \in L
  <2> DEFINE c == q[s].cache
             b == blk[s]
  <2>1. c \in Seq(Blocks) /\ B[s] = Range(c) /\ B2[s] = Range(C[s])
        /\ C[s] = IF s \in S THEN Append(c, b) ELSE c
    BY <1>2, <1>3
  <2> HIDE DEF c, b
  <2>2. Range(Append(c, b)) = Range(c) \cup {b}
    BY <1>4, <2>1
  <2>3. s \in S => B2[s] = B[s] \cup {b}
    BY ONLY <2>1, <2>2
  <2>4. s \notin S => B2[s] = B[s]
    BY ONLY <2>1
  <2> QED
    BY ONLY <2>3, <2>4 DEF b
<1>6. \A s \in S : blk[s] \in Range(blk)
  BY <1>1 DEF Range
<1>7. \A b \in Range(blk) : \E s \in S : b = blk[s]
  BY <1>1 DEF Range
<1>8. \A s \in L : B[s] \subseteq B2[s] /\ B2[s] \subseteq B[s] \cup Range(blk)
  <2> TAKE s \in L
  <2>1. B2[s] = IF s \in S THEN B[s] \cup {blk[s]} ELSE B[s]
    BY <1>5
  <2>2. s \in S => blk[s] \in Range(blk)
    BY <1>6
  <2> QED
    BY ONLY <2>1, <2>2
<1>9. ASSUME NEW s \in L, NEW t \in L, s # t, NEW b \in Range(blk), b \in B2[s], b \in B2[t]
      PROVE  FALSE
  <2>1. b \notin B[s] /\ b \notin B[t]
    OBVIOUS
  <2>2. s \in S /\ b = blk[s] /\ t \in S /\ b = blk[t]
    BY <1>5, <1>9, <2>1
  <2> QED
    BY <1>1, <1>9, <2>2 DEF IsInjective
<1>10. \A b \in Range(blk) : \E s \in L : b \in B2[s]
  BY <1>1, <1>5, <1>7
<1> QED
  BY <1>8, <1>9, <1>10

\* A decoder step with the manager m that AllocDecoderMemory left.
DecodeInput(m, q, T, data, s, out, C, n, q2) ==
  /\ ReqsShape(q) /\ T \in Nat /\ CoreOK(m, q, T) /\ m.fault = {}
  /\ DOMAIN data = SpanStarts(q) /\ Cardinality(SpanStarts(q)) <= CountFree(m)
  /\ s = ClaimSpans(m, data) /\ out \in [LiveOf(q) -> Sampled]
  /\ C = DecodedCaches(q, s.blk) /\ SameButKv(s.m, n) /\ q2 = DecodedBatch(q, out, C)

LEMMA DecodeOK ==
  ASSUME NEW m, NEW q, NEW T, NEW data, NEW s, NEW out, NEW C, NEW n, NEW q2,
         DecodeInput(m, q, T, data, s, out, C, n, q2)
  PROVE  /\ CoreOK(n, q2, T) /\ ReqsShape(q2) /\ LiveOf(q2) = LiveOf(q)
         /\ Keeps(m, n, NodesOf(q), LiveOf(q))
<1> DEFINE L == LiveOf(q)
           S == SpanStarts(q)
           B == CachesOf(q)
           N == NodesOf(q)
           blk == s.blk
           R == Range(blk)
           d == s.m
           B2 == CachesOf(q2)
<1>1. /\ ReqsShape(q) /\ T \in Nat /\ CoreOK(m, q, T) /\ m.fault = {}
      /\ DOMAIN data = S /\ Cardinality(S) <= CountFree(m)
      /\ s = ClaimSpans(m, data) /\ out \in [L -> Sampled]
      /\ C = DecodedCaches(q, blk) /\ SameButKv(d, n) /\ q2 = DecodedBatch(q, out, C)
  BY DEF DecodeInput
<1>2. IsFiniteSet(L) /\ L \subseteq Requests /\ S \subseteq L /\ IsFiniteSet(S)
  <2>1. IsFiniteSet(L) /\ L \subseteq Requests
    BY LiveFinite
  <2>2. S \subseteq L
    BY DEF SpanStarts
  <2> QED
    BY <2>1, <2>2, FS_Subset
<1>3. CacheOK(m, B, N, L, T) /\ \A r \in L : ReqOK(m, q[r], T)
  BY <1>1 DEF CoreOK
<1>4. GpuOK(m, B, N, L) /\ OwnOK(m, B, L) /\ ManagerShape(m)
  BY <1>3 DEF CacheOK, GpuOK, TableOK
<1>5. \A r \in L : q[r].cache \in Seq(Blocks) /\ q[r].live
  BY <1>3 DEF ReqOK, VirtualCache, LiveOf
<1>6. ClaimStep(m, d, R) /\ DOMAIN blk = S /\ IsInjective(blk) /\ R \subseteq FreeBlocks(m)
      /\ d.fault = {}
  <2>1. IsFiniteSet(DOMAIN data) /\ Cardinality(DOMAIN data) <= CountFree(m)
    BY <1>1, <1>2
  <2>2. d.fault = {}
    <3>1. PICK a : a = ClaimSpans(m, data)
      OBVIOUS
    <3>2. ManagerShape(m) /\ m.fault = {} /\ d = a.m
      BY <1>1, <1>4, <3>1
    <3>3. a.m.fault = {}
      BY ONLY <3>1, <3>2, <2>1, ClaimFits
    <3> QED
      BY ONLY <3>2, <3>3
  <2> QED
    BY <1>1, <1>4, <2>1, <2>2, ClaimSpansIsStep
<1>7. \A b \in R : b \in Blocks /\ b \notin NodeBlocks(m) /\ \A r \in L : b \notin B[r]
  <2> TAKE b \in R
  <2>1. b \in Blocks /\ m.free[b] > 0
    BY <1>6 DEF FreeBlocks
  <2> QED
    BY <1>4, <2>1 DEF OwnOK
<1>8. \A r \in L : q2[r] = NextReq(q[r], out[r], C[r])
  BY <1>1, <1>2 DEF DecodedBatch
<1>9. \A r \in Requests \ L : q2[r] = q[r]
  BY <1>1 DEF DecodedBatch
<1>10. DOMAIN q2 = Requests
  BY <1>1 DEF DecodedBatch
<1>11. ASSUME NEW r \in L
       PROVE  /\ ReqOK(m, q2[r], T) /\ q2[r].cache = C[r] /\ q2[r].nodes = q[r].nodes
              /\ ReqShape(q2[r]) /\ q2[r].live
  <2> DEFINE x == q[r]
             c == C[r]
             t == out[r]
             y == q2[r]
  <2>1. x.cache \in Seq(Blocks) /\ ReqOK(m, x, T) /\ T \in Nat /\ x.live
    BY <1>1, <1>3, <1>5
  <2>2. ReqShape(x)
    BY <1>1, <1>2 DEF ReqsShape
  <2>3. t \in Tokens
    BY <1>1, PrefixCacheAssumption
  <2>4. y = NextReq(x, t, c)
    BY <1>8
  <2>5. c = IF r \in S THEN Append(x.cache, blk[r]) ELSE x.cache
    BY <1>1 DEF DecodedCaches
  <2>6. r \in S <=> x.kv_len % SpanSize = 0
    BY DEF SpanStarts
  <2>7. B[r] = Range(x.cache)
    BY <1>2 DEF CachesOf
  <2>8. r \in S => blk[r] \in R
    BY <1>6 DEF Range
  <2> HIDE DEF x, c, t, y, S, R, B, blk, L
  <2>9. NextCache(m, x, c)
    BY <1>7, <2>5, <2>6, <2>7, <2>8 DEF NextCache
  <2>10. ReqOK(m, y, T) /\ y.cache = c /\ y.nodes = x.nodes /\ y.live = x.live
         /\ y = [live |-> y.live, toks |-> y.toks, input_len |-> y.input_len, kv_len |-> y.kv_len,
                 ts |-> y.ts, cache |-> y.cache, nodes |-> y.nodes]
    <3>1. Decoded(m, x, c, T, NextReq(x, t, c))
      BY ONLY <2>1, <2>2, <2>3, <2>9, DecodedReq
    <3>2. Decoded(m, x, c, T, y)
      BY <2>4, <3>1
    <3> QED
      BY ONLY <3>2 DEF Decoded
  <2>11. y.live
    BY <2>1, <2>10
  <2>12. ReqShape(y)
    BY <2>10, <2>11, <2>1, <2>2 DEF ReqShape
  <2> QED
    BY <2>10, <2>11, <2>12 DEF x, y, c
<1>12. LiveOf(q2) = L
  <2>1. \A r \in Requests \ L : ~q2[r].live
    BY <1>9 DEF LiveOf
  <2>2. \A r \in L : q2[r].live
    BY <1>11
  <2>3. \A r \in Requests : q2[r].live <=> r \in L
    BY <2>1, <2>2
  <2> HIDE DEF L
  <2>4. LiveOf(q2) = {r \in Requests : r \in L}
    BY <2>3 DEF LiveOf
  <2> QED
    BY <1>2, <2>4
<1>13. ReqsShape(q2)
  <2>1. \A r \in Requests \ L : ReqShape(q2[r])
    BY <1>1, <1>9 DEF ReqsShape
  <2>2. \A r \in L : ReqShape(q2[r])
    BY <1>11
  <2> QED
    BY <1>10, <2>1, <2>2 DEF ReqsShape
<1>14. \A r \in L : B2[r] = Range(C[r]) /\ NodesOf(q2)[r] = N[r]
  <2>1. \A r \in L : q2[r].cache = C[r] /\ q2[r].nodes = q[r].nodes
    BY <1>11
  <2> QED
    BY <1>2, <2>1 DEF CachesOf, NodesOf
<1>15. /\ \A r \in L : B[r] \subseteq B2[r] /\ B2[r] \subseteq B[r] \cup R
       /\ \A r, t \in L : r # t => B2[r] \cap B2[t] \cap R = {}
       /\ \A b \in R : \E r \in L : b \in B2[r]
  <2>1. B = CachesOf(q) /\ DOMAIN blk = SpanStarts(q) /\ IsInjective(blk)
        /\ L = LiveOf(q) /\ C = DecodedCaches(q, blk)
    BY <1>1, <1>6
  <2>2. \A r \in L : q[r].cache \in Seq(Blocks)
    BY <1>5
  <2>3. \A b \in R : \A r \in L : b \notin B[r]
    BY <1>7
  <2>4. \A r \in L : B2[r] = Range(C[r])
    BY <1>14
  <2> HIDE DEF B, L, B2, blk
  <2> QED
    BY ONLY <2>1, <2>2, <2>3, <2>4, DecodedBlocks
<1>16. GpuOK(d, B2, N, L)
  <2> HIDE DEF B, N, L, B2, R, d
  <2> QED
    BY <1>4, <1>6, <1>15, ClaimGpuOK
<1>17. d.table = m.table /\ d.cpu = m.cpu
  BY <1>6 DEF ClaimStep
<1>18. /\ ManagerShape(n) /\ n.table = d.table /\ n.evictor = d.evictor /\ n.free = d.free
       /\ n.extra = d.extra /\ n.cpu = d.cpu
  BY <1>1 DEF SameButKv
<1>19. GpuOK(n, B2, N, L)
  <2> HIDE DEF B2, N, L, d
  <2> QED
    BY <1>16, <1>18, SameGpu
<1>20. CacheOK(n, B2, N, L, T)
  BY <1>3, <1>17, <1>18, <1>19 DEF CacheOK
<1>21. NodeBlocks(n) = NodeBlocks(m)
  BY <1>17, <1>18 DEF NodeBlocks
<1>22. ReqsOK(n, q2, L, T)
  <2> SUFFICES ASSUME NEW r \in L PROVE ReqOK(n, q2[r], T)
    BY DEF ReqsOK
  <2>1. ReqOK(m, q2[r], T)
    BY <1>11
  <2>2. Range(q2[r].cache) \cap NodeBlocks(n) \subseteq NodeBlocks(m) /\ T <= T
    BY <1>1, <1>21
  <2> QED
    BY <1>1, <2>1, <2>2, ReqKept
<1>23. SameUse(q2, B2, N, L)
  BY <1>14 DEF SameUse
<1>24. CoreOK(n, q2, T)
  <2>1. L = LiveOf(q2) /\ T \in Nat
    BY <1>1, <1>12
  <2> HIDE DEF B2, N, L
  <2> QED
    BY ONLY <1>20, <1>22, <1>23, <2>1, CoreFrom
<1>25. Keeps(m, n, N, L)
  <2>1. \A r \in L : N[r] \subseteq DOMAIN m.table
    BY <1>4 DEF GpuOK, CountOK
  <2> QED
    BY <1>17, <1>18, <2>1 DEF Keeps
<1> QED
  BY <1>12, <1>13, <1>24, <1>25

-----------------------------------------------------------------------------
(* The end of the warm-up and the tasks of threadpool_.                    *)

\* A block or unit for each of a finite number of nodes.
LEMMA ImageCount ==
  ASSUME NEW D, IsFiniteSet(D), NEW f, DOMAIN f = D, \A g, h \in D : f[g] = f[h] => g = h
  PROVE  IsFiniteSet({f[h] : h \in D}) /\ Cardinality({f[h] : h \in D}) = Cardinality(D)
<1> DEFINE R == {f[h] : h \in D}
           b == [h \in D |-> f[h]]
<1>1. b \in Bijection(D, R)
  <2>1. b \in Surjection(D, R)
    BY DEF Surjection
  <2> QED
    BY <2>1 DEF Bijection, Injection, IsInjective, Surjection
<1> HIDE DEF R, b
<1>2. IsFiniteSet(R) /\ Cardinality(R) = Cardinality(D)
  BY <1>1, FS_Bijection DEF ExistsBijection
<1> QED
  BY <1>2 DEF R

\* Returning the units of every node leaves at least the capacity.
LEMMA PairsReturned ==
  ASSUME NEW p, NEW free, PairsOK(p, free), NEW K, K = {p[h].k : h \in DOMAIN p},
         NEW V, V = {p[h].v : h \in DOMAIN p}
  PROVE  PairsOK(<<>>, free \cup (K \cup V))
<1> DEFINE D == DOMAIN p
           fk == [h \in D |-> p[h].k]
           fv == [h \in D |-> p[h].v]
<1>1. /\ IsFiniteSet(D) /\ free \subseteq Units
      /\ \A h \in D : /\ p[h].k \in Units /\ p[h].v \in Units /\ p[h].k # p[h].v
                      /\ p[h].k \notin free /\ p[h].v \notin free
      /\ \A g, h \in D : g # h => {p[g].k, p[g].v} \cap {p[h].k, p[h].v} = {}
      /\ Cardinality(free) + 2 * Cardinality(D) >= 2 * CpuCapacity
      /\ Cardinality(free) + 2 * Cardinality(D) <= CpuUnits
  BY DEF PairsOK
<1>2. IsFiniteSet(free) /\ Cardinality(free) \in Nat /\ Cardinality(D) \in Nat
  BY PairsCounts
<1>3. /\ DOMAIN fk = D /\ DOMAIN fv = D
      /\ (\A g, h \in D : fk[g] = fk[h] => g = h) /\ (\A g, h \in D : fv[g] = fv[h] => g = h)
      /\ K = {fk[h] : h \in D} /\ V = {fv[h] : h \in D}
  BY <1>1
<1> HIDE DEF fk, fv, D
<1>4. IsFiniteSet(K) /\ Cardinality(K) = Cardinality(D)
  <2>1. IsFiniteSet(D) /\ DOMAIN fk = D
    BY <1>1, <1>3
  <2>2. \A g, h \in D : fk[g] = fk[h] => g = h
    BY <1>3
  <2>3. IsFiniteSet({fk[h] : h \in D}) /\ Cardinality({fk[h] : h \in D}) = Cardinality(D)
    BY ONLY <2>1, <2>2, ImageCount
  <2> QED
    BY <1>3, <2>3
<1>5. IsFiniteSet(V) /\ Cardinality(V) = Cardinality(D)
  <2>1. IsFiniteSet(D) /\ DOMAIN fv = D
    BY <1>1, <1>3
  <2>2. \A g, h \in D : fv[g] = fv[h] => g = h
    BY <1>3
  <2>3. IsFiniteSet({fv[h] : h \in D}) /\ Cardinality({fv[h] : h \in D}) = Cardinality(D)
    BY ONLY <2>1, <2>2, ImageCount
  <2> QED
    BY <1>3, <2>3
<1>6. K \cap V = {}
  BY <1>1 DEF D
<1>7. free \cap (K \cup V) = {} /\ K \subseteq Units /\ V \subseteq Units
  BY <1>1 DEF D
<1>8. IsFiniteSet(K \cup V) /\ Cardinality(K \cup V) = Cardinality(K) + Cardinality(V)
  <2>1. Cardinality(K \cap V) = 0
    BY <1>6, FS_EmptySet
  <2>2. IsFiniteSet(K \cup V) /\ Cardinality(K \cup V) = Cardinality(K) + Cardinality(V) - Cardinality(K \cap V)
    BY <1>4, <1>5, FS_Union
  <2>3. Cardinality(K) \in Nat /\ Cardinality(V) \in Nat
    BY <1>4, <1>5, FS_CardinalityType
  <2> QED
    BY ONLY <2>1, <2>2, <2>3
<1>9. PICK W : W = K \cup V
  OBVIOUS
<1>10. IsFiniteSet(W) /\ Cardinality(W) = 2 * Cardinality(D)
  BY <1>2, <1>4, <1>5, <1>8, <1>9
<1>11. IsFiniteSet(free \cup W) /\ Cardinality(free \cup W) = Cardinality(free) + Cardinality(W)
  <2>1. Cardinality(free \cap W) = 0
    BY <1>7, <1>9, FS_EmptySet
  <2>2. IsFiniteSet(free \cup W) /\ Cardinality(free \cup W) = Cardinality(free) + Cardinality(W) - Cardinality(free \cap W)
    BY <1>2, <1>10, FS_Union
  <2>3. Cardinality(W) \in Nat
    BY <1>2, <1>10
  <2> QED
    BY ONLY <1>2, <2>1, <2>2, <2>3
<1>12. PICK X : X = free \cup W
  OBVIOUS
<1>13. Cardinality(X) = Cardinality(free) + 2 * Cardinality(D) /\ X \subseteq Units
  BY <1>1, <1>7, <1>9, <1>10, <1>11, <1>12
<1>14. DOMAIN <<>> = {} /\ IsFiniteSet({}) /\ Cardinality({}) = 0
  BY FS_EmptySet
<1>15. /\ Cardinality(X) + 2 * Cardinality({}) >= 2 * CpuCapacity
       /\ Cardinality(X) + 2 * Cardinality({}) <= CpuUnits
  BY <1>1, <1>2, <1>13, <1>14 DEF D
<1>16. PairsOK(<<>>, X)
  BY <1>13, <1>14, <1>15 DEF PairsOK
<1> QED
  BY <1>9, <1>12, <1>16

\* Reset of the CPU side.
LEMMA AllReturnedOK ==
  ASSUME NEW c, NEW T, CpuOK(c, T), NEW T2
  PROVE  CpuOK(AllReturned(c), T2)
<1> DEFINE K == {c.table[h].k : h \in DOMAIN c.table}
           V == {c.table[h].v : h \in DOMAIN c.table}
           F == c.free \cup (K \cup V)
           Z == [u \in Units |-> IF u \in K \cup V THEN Junk ELSE c.kv[u]]
           d == AllReturned(c)
<1>1. d = [c EXCEPT !.table = <<>>, !.free = F, !.kv = Z]
  BY DEF AllReturned
<1>2. PairsOK(<<>>, F)
  BY PairsReturned DEF CpuOK
<1> HIDE DEF F, Z, d
<1>3. c = [table |-> c.table, free |-> c.free, kv |-> c.kv, copies |-> c.copies]
  BY DEF CpuOK, CpuShape
<1>4. d = [table |-> <<>>, free |-> F, kv |-> Z, copies |-> c.copies]
  BY ONLY <1>1, <1>3
<1>5. d.table = <<>> /\ d.free = F
  BY ONLY <1>4
<1>6. CpuShape(d)
  BY <1>4 DEF CpuShape
<1>7. DOMAIN d.table = {}
  BY <1>5
<1>8. PairsOK(d.table, d.free)
  BY <1>2, <1>5
<1>9. CpuOK(d, T2)
  BY <1>6, <1>7, <1>8 DEF CpuOK
<1> QED
  BY <1>9 DEF d

\* A copy writes data and makes a node ready.
LEMMA CopiedOK ==
  ASSUME NEW c, NEW T, CpuOK(c, T), NEW task
  PROVE  CpuOK(Copied(c, task), T)
<1> DEFINE done == {h \in DOMAIN c.table : h = task.hash /\ c.table[h].k = task.k /\ c.table[h].v = task.v}
           Z == [u \in Units |-> IF u \in {task.k, task.v} THEN task.data ELSE c.kv[u]]
           t == [h \in DOMAIN c.table |-> IF h \in done THEN [c.table[h] EXCEPT !.ready = TRUE] ELSE c.table[h]]
           d == Copied(c, task)
           X == c.copies \ {task}
<1>1. d = [c EXCEPT !.copies = X, !.kv = Z, !.table = t]
  BY DEF Copied
<1>2. DOMAIN t = DOMAIN c.table
  OBVIOUS
<1>3. ASSUME NEW h \in DOMAIN c.table
      PROVE  /\ t[h] \in [k : Units, v : Units, ts : 0..T, ready : BOOLEAN]
             /\ t[h].k = c.table[h].k /\ t[h].v = c.table[h].v
  <2>1. c.table[h] \in [k : Units, v : Units, ts : 0..T, ready : BOOLEAN]
    BY DEF CpuOK
  <2>2. t[h] = IF h \in done THEN [c.table[h] EXCEPT !.ready = TRUE] ELSE c.table[h]
    OBVIOUS
  <2> HIDE DEF t, done
  <2> QED
    BY <2>1, <2>2
<1> HIDE DEF t, Z, X, d
<1>4. c = [table |-> c.table, free |-> c.free, kv |-> c.kv, copies |-> c.copies]
  BY DEF CpuOK, CpuShape
<1>5. d = [table |-> t, free |-> c.free, kv |-> Z, copies |-> X]
  BY ONLY <1>1, <1>4
<1>6. d.table = t /\ d.free = c.free
  BY ONLY <1>5
<1>7. CpuShape(d)
  BY <1>5 DEF CpuShape
<1>8. PairsOK(c.table, c.free) /\ \A h \in DOMAIN c.table : h \in Seq(Tokens)
  BY DEF CpuOK
<1>9. PairsOK(t, c.free)
  BY <1>2, <1>3, <1>8 DEF PairsOK
<1>10. PairsOK(d.table, d.free)
  BY <1>6, <1>9
<1>11. \A h \in DOMAIN d.table :
         h \in Seq(Tokens) /\ d.table[h] \in [k : Units, v : Units, ts : 0..T, ready : BOOLEAN]
  BY <1>2, <1>3, <1>6, <1>8
<1>12. CpuOK(d, T)
  BY <1>7, <1>10, <1>11 DEF CpuOK
<1> QED
  BY <1>12 DEF d

\* Another CPU side.
LEMMA SetCpu ==
  ASSUME NEW m, ManagerShape(m), NEW c
  PROVE  /\ ManagerShape([m EXCEPT !.cpu = c])
         /\ [m EXCEPT !.cpu = c].table = m.table /\ [m EXCEPT !.cpu = c].evictor = m.evictor
         /\ [m EXCEPT !.cpu = c].free = m.free /\ [m EXCEPT !.cpu = c].extra = m.extra
         /\ [m EXCEPT !.cpu = c].kv = m.kv
         /\ [m EXCEPT !.cpu = c].fault = m.fault /\ [m EXCEPT !.cpu = c].cpu = c
<1>1. PICK n : n = [m EXCEPT !.cpu = c]
  OBVIOUS
<1>2. m = [table |-> m.table, evictor |-> m.evictor, free |-> m.free, extra |-> m.extra,
           kv |-> m.kv, cpu |-> m.cpu, fault |-> m.fault]
  BY DEF ManagerShape
<1>3. n = [table |-> m.table, evictor |-> m.evictor, free |-> m.free, extra |-> m.extra,
           kv |-> m.kv, cpu |-> c, fault |-> m.fault]
  BY ONLY <1>1, <1>2
<1>4. /\ n.table = m.table /\ n.evictor = m.evictor /\ n.free = m.free /\ n.extra = m.extra
      /\ n.kv = m.kv /\ n.fault = m.fault /\ n.cpu = c
  BY ONLY <1>3
<1>5. ManagerShape(n)
  BY <1>3, <1>4 DEF ManagerShape
<1> QED
  BY ONLY <1>1, <1>4, <1>5

LEMMA CopyOK ==
  ASSUME NEW m, NEW q, NEW T \in Nat, CoreOK(m, q, T), NEW task,
         NEW n, n = [m EXCEPT !.cpu = Copied(m.cpu, task)]
  PROVE  CoreOK(n, q, T) /\ n.table = m.table /\ ManagerShape(n) /\ n.fault = m.fault
<1> DEFINE B == CachesOf(q)
           N == NodesOf(q)
           L == LiveOf(q)
<1>1. CacheOK(m, B, N, L, T) /\ ReqsOK(m, q, L, T)
  BY DEF CoreOK, ReqsOK
<1>2. GpuOK(m, B, N, L) /\ ManagerShape(m) /\ CpuOK(m.cpu, T)
  BY <1>1 DEF CacheOK, GpuOK, TableOK
<1>3. PICK c : c = Copied(m.cpu, task)
  OBVIOUS
<1>4. CpuOK(c, T)
  BY <1>2, <1>3, CopiedOK
<1>5. n = [m EXCEPT !.cpu = c]
  BY <1>3
<1>6. /\ ManagerShape(n) /\ n.table = m.table /\ n.evictor = m.evictor
      /\ n.free = m.free /\ n.extra = m.extra /\ n.fault = m.fault /\ n.cpu = c
  BY ONLY <1>2, <1>5, SetCpu
<1> HIDE DEF B, N, L
<1>7. GpuOK(n, B, N, L)
  BY <1>2, <1>6, SameGpu
<1>8. CacheOK(n, B, N, L, T)
  BY <1>1, <1>4, <1>6, <1>7 DEF CacheOK
<1>9. NodeBlocks(n) = NodeBlocks(m)
  BY <1>6 DEF NodeBlocks
<1>10. ReqsOK(n, q, L, T)
  <2>1. B = CachesOf(q) /\ L \subseteq Requests /\ T <= T /\ NoCapture(m, n, B, L)
    BY <1>9, LiveFinite DEF B, L, NoCapture
  <2> QED
    BY <1>1, <2>1, ReqsStay
<1> QED
  BY <1>6, <1>8, <1>10 DEF CoreOK, ReqsOK, B, N, L

LEMMA ResetOK ==
  ASSUME NEW m, NEW q, NEW T \in Nat, CoreOK(m, q, T), LiveOf(q) = {},
         NEW n, n = [delete_nodes(m, DOMAIN m.table) EXCEPT !.cpu = AllReturned(@)]
  PROVE  CoreOK(n, q, 0) /\ ManagerShape(n) /\ n.fault = m.fault
<1> DEFINE B == CachesOf(q)
           N == NodesOf(q)
           L == LiveOf(q)
           H == DOMAIN m.table
           d == delete_nodes(m, H)
           c == AllReturned(d.cpu)
<1>1. CacheOK(m, B, N, L, T)
  BY DEF CoreOK
<1>2. GpuOK(m, B, N, L) /\ TableOK(m) /\ CountOK(m, N, L) /\ ManagerShape(m) /\ CpuOK(m.cpu, T)
  BY <1>1 DEF CacheOK, GpuOK, TableOK
<1>3. IsFiniteSet(L) /\ L = {}
  BY LiveFinite
<1>4. n = [d EXCEPT !.cpu = c]
  OBVIOUS
<1> HIDE DEF B, N, L, c
<1>5. H \subseteq m.evictor
  <2>1. \A h \in H : m.table[h].ref_cnt = Cardinality({r \in L : h \in N[r]})
    BY <1>2 DEF CountOK
  <2>2. \A h \in H : {r \in L : h \in N[r]} = {}
    BY <1>3
  <2>3. \A h \in H : m.table[h].ref_cnt = 0
    BY <2>1, <2>2, FS_EmptySet
  <2> QED
    BY <1>2, <2>3 DEF TableOK
<1>6. DeleteStep(m, d, H)
  BY <1>2, DeleteNodesStep
<1> HIDE DEF d, H
<1>7. GpuOK(d, B, N, L) /\ FewerNodes(m, d, H)
  BY <1>2, <1>3, <1>5, <1>6, DeleteGpuOK
<1>8. ManagerShape(d) /\ d.cpu = m.cpu /\ d.fault = m.fault
  BY <1>6 DEF DeleteStep
<1>9. CpuOK(c, 0)
  BY <1>2, <1>8, AllReturnedOK DEF c
<1>10. /\ ManagerShape(n) /\ n.table = d.table /\ n.evictor = d.evictor
       /\ n.free = d.free /\ n.extra = d.extra /\ n.fault = d.fault /\ n.cpu = c
  BY ONLY <1>4, <1>8, SetCpu
<1>11. GpuOK(n, B, N, L)
  BY <1>7, <1>10, SameGpu
<1>12. DOMAIN n.table = {}
  BY <1>7, <1>10 DEF FewerNodes, H
<1>13. CacheOK(n, B, N, L, 0)
  BY <1>9, <1>10, <1>11, <1>12 DEF CacheOK
<1> QED
  BY <1>3, <1>8, <1>10, <1>13 DEF CoreOK, B, N, L

-----------------------------------------------------------------------------
(* The invariant.  What a fault would leave is not described: as long as   *)
(* there is none, the tables, the counters and the requests agree.         *)

Good(m, q, T) == ReqsShape(q) /\ CoreOK(m, q, T)

CoreInv ==
  /\ ManagerShape(mgr) /\ clock \in 0..MaxStarts /\ warm \in BOOLEAN /\ ignored \subseteq 1..clock
  /\ mgr.fault = {} => Good(mgr, req, clock)

\* What a step leaves of m, q.
StepOK(m, q, n, q2, T2) ==
  /\ Grows(m, n)
  /\ n.fault = {} => Good(n, q2, T2) /\ Keeps(m, n, NodesOf(q), LiveOf(q) \cap LiveOf(q2))

\* The first free place is one.
LEMMA NewPlaceFree ==
  ASSUME LiveOf(req) # Requests
  PROVE  NewPlace \in Requests /\ NewPlace \notin LiveOf(req)
<1> DEFINE F == Requests \ Live
<1>1. Live = LiveOf(req) /\ LiveOf(req) \subseteq Requests
  BY DEF Live, LiveOf
<1>2. F \subseteq Nat /\ F # {}
  <2>1. Requests \subseteq Nat
    BY PrefixCacheAssumption DEF Requests
  <2> QED
    BY <1>1, <2>1
<1> HIDE DEF F
<1>3. \E r \in F : \A s \in F : r <= s
  BY <1>2, LeastElement
<1>4. NewPlace \in F
  BY <1>3 DEF NewPlace, F
<1> QED
  BY <1>1, <1>4 DEF F

\* Setting the data of the blocks.
LEMMA SetKv ==
  ASSUME NEW m, ManagerShape(m), NEW kv
  PROVE  SameButKv(m, [m EXCEPT !.kv = kv])
<1>1. PICK n : n = [m EXCEPT !.kv = kv]
  OBVIOUS
<1>2. m = [table |-> m.table, evictor |-> m.evictor, free |-> m.free, extra |-> m.extra,
           kv |-> m.kv, cpu |-> m.cpu, fault |-> m.fault]
  BY DEF ManagerShape
<1>3. n = [table |-> m.table, evictor |-> m.evictor, free |-> m.free, extra |-> m.extra,
           kv |-> kv, cpu |-> m.cpu, fault |-> m.fault]
  BY ONLY <1>1, <1>2
<1>4. /\ n.table = m.table /\ n.evictor = m.evictor /\ n.free = m.free /\ n.extra = m.extra
      /\ n.kv = kv /\ n.fault = m.fault /\ n.cpu = m.cpu
  BY ONLY <1>3
<1>5. ManagerShape(n)
  BY <1>3, <1>4 DEF ManagerShape
<1>6. SameButKv(m, n)
  BY <1>4, <1>5 DEF SameButKv
<1> QED
  BY ONLY <1>1, <1>6

\* What is known of a started request does not look at the data of the blocks, and
\* holds whether the prefill has computed it or not.
LEMMA StartedAnyKv ==
  ASSUME NEW m0, NEW q, NEW r, NEW m, NEW d, NEW toks, NEW nodes, NEW q2, NEW T2,
         Started(m0, q, r, m, d, toks, nodes, q2, T2), NEW n, SameButKv(d, n)
  PROVE  Started(m0, q, r, m, n, toks, nodes, q2, T2)
<1>1. /\ ManagerShape(n) /\ n.table = d.table /\ n.evictor = d.evictor /\ n.free = d.free
      /\ n.extra = d.extra /\ n.cpu = d.cpu /\ n.fault = d.fault
  BY DEF SameButKv
<1>2. /\ CoreOK(d, q2, T2) /\ ReqsShape(q2) /\ d.fault = {} /\ Keeps(m0, d, NodesOf(q), LiveOf(q))
      /\ LiveOf(q2) = LiveOf(q) \cup {r}
      /\ TouchedAt(m.table, d.table, nodes, T2) /\ nodes = FirstPrefixes(toks, HashedCount(toks))
  BY DEF Started
<1>3. NodeBlocks(n) = NodeBlocks(d)
  BY <1>1 DEF NodeBlocks
<1>4. PICK B, N, L : B = CachesOf(q2) /\ N = NodesOf(q2) /\ L = LiveOf(q2)
  OBVIOUS
<1>5. CacheOK(d, B, N, L, T2) /\ \A s \in L : ReqOK(d, q2[s], T2)
  BY <1>2, <1>4 DEF CoreOK
<1>6. TableOK(n) /\ CountOK(n, N, L)
  BY <1>1, <1>3, <1>5 DEF CacheOK, GpuOK, TableOK, CountOK
<1>7. OwnOK(n, B, L) /\ ShareOK(n, B, N, L)
  BY <1>1, <1>3, <1>5 DEF CacheOK, GpuOK, OwnOK, ShareOK
<1>8. CacheOK(n, B, N, L, T2)
  BY <1>1, <1>5, <1>6, <1>7 DEF CacheOK, GpuOK
<1>9. ASSUME NEW s \in L
      PROVE  ReqOK(n, q2[s], T2)
  <2>1. PICK x : x = q2[s]
    OBVIOUS
  <2>2. ReqOK(d, x, T2)
    BY <1>5, <2>1
  <2>3. VirtualCache(n, x.cache, PromptSpans(x))
    BY <1>3, <2>2 DEF ReqOK, VirtualCache
  <2>4. ReqOK(n, x, T2)
    BY <2>2, <2>3 DEF ReqOK
  <2> QED
    BY <2>1, <2>4
<1>10. CoreOK(n, q2, T2)
  BY <1>4, <1>8, <1>9 DEF CoreOK
<1>11. Keeps(m0, n, NodesOf(q), LiveOf(q)) /\ TouchedAt(m.table, n.table, nodes, T2) /\ n.fault = {}
  BY <1>1, <1>2 DEF Keeps
<1> QED
  BY <1>2, <1>10, <1>11 DEF Started

\* The chain of a start grows.
LEMMA StartGrows ==
  ASSUME NEW m0, ManagerShape(m0), NEW toks, NEW T2, NEW expired,
         NEW m, m = MakeRoom(m0, toks, T2, expired), NEW f, f = RefFill(m, toks, T2),
         NEW p, p = FillUp(f.m, toks, f.cache)
  PROVE  Grows(m0, p.m)
<1>1. Grows(m0, m) /\ ManagerShape(m)
  BY MakeRoomGrows DEF Grows
<1>2. Grows(m, f.m) /\ ManagerShape(f.m)
  BY <1>1, RefFillGrows DEF Grows
<1>3. Grows(f.m, p.m)
  BY <1>2, FillUpGrows
<1> QED
  BY <1>1, <1>2, <1>3 DEF Grows

LEMMA DeniedStep ==
  ASSUME CoreInv, NEW toks \in Prompts, NEW expired, LiveOf(req) # Requests, ContextDenied(toks, expired)
  PROVE  StepOK(mgr, req, mgr', req', clock')
<1>1. PICK m0, q, T, n, T2 : m0 = mgr /\ q = req /\ T = clock /\ n = mgr' /\ T2 = clock'
  OBVIOUS
<1>2. n = MakeRoom(m0, toks, T2, expired) /\ T2 = T + 1 /\ req' = q
  BY <1>1 DEF ContextDenied
<1>3. ManagerShape(m0) /\ T \in Nat /\ (m0.fault = {} => ReqsShape(q) /\ CoreOK(m0, q, T))
  BY <1>1 DEF CoreInv, Good
<1>4. Grows(m0, n)
  BY <1>2, <1>3, MakeRoomGrows
<1>5. PICK r : r \in Requests /\ r \notin LiveOf(q)
  BY <1>1, NewPlaceFree
<1>6. ASSUME n.fault = {}
      PROVE  Good(n, q, T2) /\ Keeps(m0, n, NodesOf(q), LiveOf(q))
  <2>1. ReqsShape(q) /\ CoreOK(m0, q, T)
    BY <1>3, <1>4, <1>6 DEF Grows
  <2>2. CoreOK(n, q, T2) /\ Keeps(m0, n, NodesOf(q), LiveOf(q))
    BY ONLY <1>2, <1>3, <1>5, <2>1, RoomOK
  <2> QED
    BY <2>1, <2>2 DEF Good
<1>7. StepOK(m0, q, n, q, T2)
  BY <1>4, <1>6 DEF StepOK, Keeps
<1> QED
  BY <1>1, <1>2, <1>7

LEMMA StartStep ==
  ASSUME CoreInv, NEW toks \in Prompts, NEW t \in Sampled, NEW computed, NEW expired,
         LiveOf(req) # Requests, StartRequest(NewPlace, toks, t, computed, expired)
  PROVE  StepOK(mgr, req, mgr', req', clock')
<1>1. PICK m0, q, T, n, q2, T2, r : m0 = mgr /\ q = req /\ T = clock /\ n = mgr' /\ q2 = req' /\ T2 = clock' /\ r = NewPlace
  OBVIOUS
<1>2. PICK m : m = MakeRoom(m0, toks, T2, expired)
  OBVIOUS
<1>3. PICK f : f = RefFill(m, toks, T2)
  OBVIOUS
<1>4. PICK p : p = FillUp(f.m, toks, f.cache)
  OBVIOUS
<1>5. PICK start, cache, d : start = Cardinality(f.nodes) * SpanSize /\ cache = p.cache /\ d = p.m
  OBVIOUS
<1>6. PICK i : i = Insert(d, toks, start, T2, cache)
  OBVIOUS
<1>7. T2 = T + 1
  BY <1>1 DEF StartRequest
<1>8. n = i.m \/ \E kv : n = [i.m EXCEPT !.kv = kv]
  <2>1. PICK W : W = Range(p.cache) \ Range(f.cache)
    OBVIOUS
  <2>2. n = IF computed THEN i.m ELSE Uncomputed(i.m, W)
    BY <1>1, <1>2, <1>3, <1>4, <1>5, <1>6, <1>7, <2>1 DEF StartRequest
  <2> QED
    BY <2>2 DEF Uncomputed
<1>9. PICK nodes : nodes = f.nodes \cup i.nodes
  OBVIOUS
<1>90. q2 = StartedBatch(q, r, toks, t, T2, cache, nodes)
  BY <1>1, <1>2, <1>3, <1>4, <1>5, <1>6, <1>7, <1>9 DEF StartRequest, StartedBatch
<1>10. ManagerShape(m0) /\ T \in Nat /\ (m0.fault = {} => ReqsShape(q) /\ CoreOK(m0, q, T))
  BY <1>1 DEF CoreInv, Good
<1>11. r \in Requests /\ r \notin LiveOf(q)
  BY <1>1, NewPlaceFree
<1>12. Grows(m0, d)
  BY <1>2, <1>3, <1>4, <1>5, <1>10, StartGrows
<1>13. Grows(d, n)
  <2>1. ManagerShape(d)
    BY <1>12 DEF Grows
  <2>2. Grows(d, i.m)
    BY <1>6, <2>1, InsertGrows
  <2>3. n = i.m \/ SameButKv(i.m, n)
    BY <1>8, <2>2, SetKv DEF Grows
  <2> QED
    BY <2>2, <2>3 DEF Grows, SameButKv
<1>130. n = i.m \/ SameButKv(i.m, n)
  <2>1. ManagerShape(d)
    BY <1>12 DEF Grows
  <2>2. ManagerShape(i.m)
    BY <1>6, <2>1, InsertGrows DEF Grows
  <2> QED
    BY <1>8, <2>2, SetKv
<1>14. Grows(m0, n)
  BY <1>12, <1>13 DEF Grows
<1>15. ASSUME n.fault = {}
       PROVE  Good(n, q2, T2) /\ Keeps(m0, n, NodesOf(q), LiveOf(q))
  <2>1. d.fault = {} /\ m0.fault = {}
    BY <1>12, <1>13, <1>15 DEF Grows
  <2>2. StartInput(m0, q, T, r, toks, expired, T2, m, f, p)
    BY <1>2, <1>3, <1>4, <1>5, <1>7, <1>10, <1>11, <2>1 DEF StartInput
  <2>3. t \in Sampled
    OBVIOUS
  <2>4. start = Cardinality(f.nodes) * SpanSize /\ cache = p.cache /\ d = p.m /\ i = Insert(d, toks, start, T2, cache)
    BY <1>5, <1>6
  <2>5. Started(m0, q, r, m, i.m, toks, nodes, q2, T2)
    BY ONLY <1>9, <1>90, <2>2, <2>3, <2>4, StartOK
  <2>6. Started(m0, q, r, m, n, toks, nodes, q2, T2)
    BY ONLY <1>130, <2>5, StartedAnyKv
  <2> QED
    BY <2>6 DEF Good, Started
<1>16. StepOK(m0, q, n, q2, T2)
  BY <1>14, <1>15 DEF StepOK, Keeps
<1> QED
  BY <1>1, <1>16

LEMMA FailsStep ==
  ASSUME CoreInv, NEW toks \in Prompts, NEW expired, LiveOf(req) # Requests, StartFails(toks, expired)
  PROVE  StepOK(mgr, req, mgr', req', clock')
<1>1. PICK m0, q, T, n, T2 : m0 = mgr /\ q = req /\ T = clock /\ n = mgr' /\ T2 = clock'
  OBVIOUS
<1>2. PICK m : m = MakeRoom(m0, toks, T2, expired)
  OBVIOUS
<1>3. PICK f : f = RefFill(m, toks, T2)
  OBVIOUS
<1>4. PICK p : p = FillUp(f.m, toks, f.cache)
  OBVIOUS
<1>5. PICK cache, d, k, nodes : cache = p.cache /\ d = p.m /\ k = Len(toks) /\ nodes = f.nodes
  OBVIOUS
<1>6. PICK x : x = [NoRequest EXCEPT !.toks = toks, !.input_len = k, !.ts = T2, !.cache = cache, !.nodes = nodes]
  OBVIOUS
<1>7. T2 = T + 1 /\ req' = q
  BY <1>1 DEF StartFails
<1>8. n = StopContext(d, x, expired)
  BY <1>1, <1>2, <1>3, <1>4, <1>5, <1>6, <1>7 DEF StartFails
<1>9. x.toks = toks /\ x.input_len = k /\ x.ts = T2 /\ x.cache = cache /\ x.nodes = nodes
  BY <1>6 DEF NoRequest
<1>10. ManagerShape(m0) /\ T \in Nat /\ (m0.fault = {} => ReqsShape(q) /\ CoreOK(m0, q, T))
  BY <1>1 DEF CoreInv, Good
<1>11. PICK r : r \in Requests /\ r \notin LiveOf(q)
  BY <1>1, NewPlaceFree
<1>12. Grows(m0, d)
  BY <1>2, <1>3, <1>4, <1>5, <1>10, StartGrows
<1>13. Grows(d, n)
  <2>1. ManagerShape(d)
    BY <1>12 DEF Grows
  <2> QED
    BY <1>8, <2>1, StopGrows
<1>14. Grows(m0, n)
  BY <1>12, <1>13 DEF Grows
<1>15. ASSUME n.fault = {}
       PROVE  Good(n, q, T2) /\ Keeps(m0, n, NodesOf(q), LiveOf(q))
  <2>1. d.fault = {} /\ m0.fault = {}
    BY <1>12, <1>13, <1>15 DEF Grows
  <2>2. StartInput(m0, q, T, r, toks, expired, T2, m, f, p)
    BY <1>2, <1>3, <1>4, <1>5, <1>7, <1>10, <1>11, <2>1 DEF StartInput
  <2>3. x.toks = toks /\ x.input_len = Len(toks) /\ x.ts = T2 /\ x.cache = p.cache /\ x.nodes = f.nodes /\ d = p.m
    BY <1>5, <1>9
  <2>4. CoreOK(n, q, T2) /\ Keeps(m0, n, NodesOf(q), LiveOf(q))
    BY ONLY <1>8, <2>2, <2>3, StartFailsOK
  <2> QED
    BY <1>10, <2>1, <2>4 DEF Good
<1>16. StepOK(m0, q, n, q, T2)
  BY <1>14, <1>15 DEF StepOK, Keeps
<1> QED
  BY <1>1, <1>7, <1>16

LEMMA StopStep ==
  ASSUME CoreInv, StopRequest
  PROVE  StepOK(mgr, req, mgr', req', clock')
<1>1. PICK m, q, T, n, q2 : m = mgr /\ q = req /\ T = clock /\ n = mgr' /\ q2 = req'
  OBVIOUS
<1>2. PICK r \in Live, expired \in 0..clock :
        mgr' = StopContext(mgr, req[r], expired) /\ req' = [req EXCEPT ![r] = NoRequest] /\ clock' = clock
  BY DEF StopRequest
<1>3. r \in LiveOf(q) /\ n = StopContext(m, q[r], expired) /\ q2 = [q EXCEPT ![r] = NoRequest]
  BY <1>1, <1>2 DEF Live, LiveOf
<1>4. ManagerShape(m) /\ T \in Nat /\ (m.fault = {} => ReqsShape(q) /\ CoreOK(m, q, T))
  BY <1>1 DEF CoreInv, Good
<1>5. Grows(m, n)
  BY <1>3, <1>4, StopGrows
<1>6. ASSUME n.fault = {}
      PROVE  Good(n, q2, T) /\ Keeps(m, n, NodesOf(q), LiveOf(q2))
  <2>1. m.fault = {} /\ ReqsShape(q) /\ CoreOK(m, q, T)
    BY <1>4, <1>5, <1>6 DEF Grows
  <2>2. T \in Nat
    BY <1>4
  <2>3. CoreOK(n, q2, T) /\ ReqsShape(q2) /\ Keeps(m, n, NodesOf(q), LiveOf(q2))
    BY ONLY <1>3, <2>1, <2>2, StopOK
  <2> QED
    BY <2>3 DEF Good
<1>7. StepOK(m, q, n, q2, T)
  BY <1>5, <1>6 DEF StepOK, Keeps
<1> QED
  BY <1>1, <1>2, <1>7

\* Eviction between two handlers.
LEMMA EvictCore ==
  ASSUME NEW m, NEW q, NEW T \in Nat, CoreOK(m, q, T), NEW k, NEW expired,
         NEW n, n = evict_unrefered_by_num(m, k, expired)
  PROVE  CoreOK(n, q, T) /\ Keeps(m, n, NodesOf(q), LiveOf(q)) /\ n.fault = m.fault
<1> DEFINE B == CachesOf(q)
           N == NodesOf(q)
           L == LiveOf(q)
           V == FindMultiVictims(m, k)
<1>1. CacheOK(m, B, N, L, T) /\ ReqsOK(m, q, L, T)
  BY DEF CoreOK, ReqsOK
<1>2. IsFiniteSet(L) /\ L \subseteq Requests
  BY LiveFinite
<1> HIDE DEF B, N, L, V
<1>3. CacheOK(n, B, N, L, T) /\ EvictEffect(m, n, V)
  BY <1>1, <1>2, EvictOK DEF V
<1>4. /\ DOMAIN n.table \subseteq DOMAIN m.table /\ n.fault = m.fault
      /\ \A h \in DOMAIN n.table : n.table[h].blk = m.table[h].blk
  BY <1>3 DEF EvictEffect, FewerNodes
<1>5. NodeBlocks(n) \subseteq NodeBlocks(m)
  BY <1>4 DEF NodeBlocks
<1>6. ReqsOK(n, q, L, T)
  <2>1. B = CachesOf(q) /\ T <= T /\ NoCapture(m, n, B, L)
    BY <1>5 DEF B, NoCapture
  <2> QED
    BY <1>1, <1>2, <2>1, ReqsStay
<1>7. \A s \in L : N[s] \subseteq DOMAIN n.table
  BY <1>3 DEF CacheOK, GpuOK, CountOK
<1>8. Keeps(m, n, N, L)
  BY <1>4, <1>7 DEF Keeps
<1> QED
  BY <1>3, <1>4, <1>6, <1>8 DEF CoreOK, ReqsOK, B, N, L

\* The decoder's memory test.
LEMMA AllocStep ==
  ASSUME CoreInv, NEW expired, NEW n, n = AllocDecoderMemory(expired)
  PROVE  /\ Grows(mgr, n)
         /\ n.fault = {} => Good(mgr, req, clock) /\ CoreOK(n, req, clock) /\ Keeps(mgr, n, NodesOf(req), LiveOf(req))
<1>1. PICK m, q, T : m = mgr /\ q = req /\ T = clock
  OBVIOUS
<1>2. PICK k : k = Cardinality(NewSpan) - CountFree(mgr)
  OBVIOUS
<1>3. n = evict_unrefered_by_num(m, k, expired) \/ n = m
  BY <1>1, <1>2 DEF AllocDecoderMemory, EvictUnrefered
<1>4. ManagerShape(m) /\ T \in Nat /\ (m.fault = {} => Good(m, q, T))
  BY <1>1 DEF CoreInv
<1>5. Grows(m, n)
  <2>1. Grows(m, evict_unrefered_by_num(m, k, expired)) /\ Grows(m, m)
    BY <1>4, EvictGrows DEF Grows
  <2> QED
    BY <1>3, <2>1
<1>6. ASSUME n.fault = {}
      PROVE  Good(m, q, T) /\ CoreOK(n, q, T) /\ Keeps(m, n, NodesOf(q), LiveOf(q))
  <2>1. Good(m, q, T)
    BY <1>4, <1>5, <1>6 DEF Grows
  <2>2. CoreOK(m, q, T) /\ ReqsShape(q)
    BY <2>1 DEF Good
  <2>3. Keeps(m, m, NodesOf(q), LiveOf(q))
    <3>1. \A s \in LiveOf(q) : NodesOf(q)[s] \subseteq DOMAIN m.table
      BY <2>2 DEF CoreOK, CacheOK, GpuOK, CountOK
    <3> QED
      BY <3>1 DEF Keeps
  <2>4. ASSUME n = evict_unrefered_by_num(m, k, expired)
        PROVE  CoreOK(n, q, T) /\ Keeps(m, n, NodesOf(q), LiveOf(q))
    BY <1>4, <2>2, <2>4, EvictCore
  <2> QED
    BY <1>3, <2>1, <2>2, <2>3, <2>4
<1> QED
  BY <1>1, <1>5, <1>6

LEMMA ShortStep ==
  ASSUME CoreInv, DecodeShort
  PROVE  StepOK(mgr, req, mgr', req', clock')
<1>1. PICK m, q, T, n : m = mgr /\ q = req /\ T = clock /\ n = mgr'
  OBVIOUS
<1>2. PICK expired \in 0..clock : n = AllocDecoderMemory(expired)
  BY <1>1 DEF DecodeShort
<1>3. req' = q /\ clock' = T
  BY <1>1 DEF DecodeShort
<1>4. /\ Grows(m, n)
      /\ n.fault = {} => Good(m, q, T) /\ CoreOK(n, q, T) /\ Keeps(m, n, NodesOf(q), LiveOf(q))
  BY <1>1, <1>2, AllocStep
<1>5. StepOK(m, q, n, q, T)
  BY <1>4 DEF StepOK, Good, Keeps
<1> QED
  BY <1>1, <1>3, <1>5

LEMMA DecodeStep ==
  ASSUME CoreInv, Decode
  PROVE  StepOK(mgr, req, mgr', req', clock')
<1>1. PICK m0, q, T, n, q2 : m0 = mgr /\ q = req /\ T = clock /\ n = mgr' /\ q2 = req'
  OBVIOUS
<1>2. Live = LiveOf(q) /\ NewSpan = SpanStarts(q) /\ clock' = T
  <2>1. Live = LiveOf(q) /\ clock' = T
    BY <1>1 DEF Live, LiveOf, Decode
  <2> QED
    BY <1>1, <2>1 DEF NewSpan, SpanStarts
<1>3. PICK expired \in 0..clock, out \in [Live -> Sampled] :
        LET m == AllocDecoderMemory(expired)
            s == ClaimSpans(m, [r \in NewSpan |-> req[r].toks])
            cache(r) == IF r \in NewSpan THEN Append(req[r].cache, s.blk[r]) ELSE req[r].cache
            last(r) == cache(r)[Len(cache(r))]
        IN /\ DecoderFits(m)
           /\ mgr' = [s.m EXCEPT !.kv = [b \in Blocks |->
                        IF \E r \in Live : last(r) = b
                        THEN req[CHOOSE r \in Live : last(r) = b].toks ELSE @[b]]]
           /\ req' = [r \in Requests |->
                        IF r \in Live
                        THEN [req[r] EXCEPT !.toks = Append(@, out[r]), !.kv_len = @ + 1, !.cache = cache(r)]
                        ELSE req[r]]
  BY DEF Decode
<1>4. PICK m : m = AllocDecoderMemory(expired)
  OBVIOUS
<1>5. PICK data : data = [r \in NewSpan |-> req[r].toks]
  OBVIOUS
<1>6. PICK s : s = ClaimSpans(m, data)
  OBVIOUS
<1>7. PICK C : C = DecodedCaches(q, s.blk)
  OBVIOUS
<1>8. DOMAIN data = SpanStarts(q) /\ out \in [LiveOf(q) -> Sampled] /\ Cardinality(SpanStarts(q)) <= CountFree(m)
  BY <1>2, <1>3, <1>4, <1>5 DEF DecoderFits
<1>9. PICK kv : n = [s.m EXCEPT !.kv = kv]
  BY <1>1, <1>3, <1>4, <1>5, <1>6
<1>10. q2 = DecodedBatch(q, out, C)
  <2>1. q2 = [r \in Requests |->
                IF r \in Live
                THEN [q[r] EXCEPT !.toks = Append(@, out[r]), !.kv_len = @ + 1,
                        !.cache = IF r \in NewSpan THEN Append(q[r].cache, s.blk[r]) ELSE q[r].cache]
                ELSE q[r]]
    BY <1>1, <1>3, <1>4, <1>5, <1>6
  <2>2. \A r \in Live : C[r] = IF r \in NewSpan THEN Append(q[r].cache, s.blk[r]) ELSE q[r].cache
    BY <1>2, <1>7 DEF DecodedCaches
  <2> QED
    BY <1>2, <2>1, <2>2 DEF DecodedBatch, NextReq
<1>11. /\ Grows(m0, m)
       /\ m.fault = {} => Good(m0, q, T) /\ CoreOK(m, q, T) /\ Keeps(m0, m, NodesOf(q), LiveOf(q))
  BY <1>1, <1>4, AllocStep
<1>12. Grows(m, s.m)
  BY <1>6, <1>11, ClaimGrows DEF Grows
<1>13. SameButKv(s.m, n)
  BY <1>9, <1>12, SetKv DEF Grows
<1>14. Grows(m0, n)
  BY <1>11, <1>12, <1>13 DEF Grows, SameButKv
<1>15. ASSUME n.fault = {}
       PROVE  Good(n, q2, T) /\ Keeps(m0, n, NodesOf(q), LiveOf(q))
  <2>1. m.fault = {}
    BY <1>12, <1>13, <1>15 DEF Grows, SameButKv
  <2>2. ReqsShape(q) /\ CoreOK(m, q, T) /\ Keeps(m0, m, NodesOf(q), LiveOf(q)) /\ T \in Nat
    BY <1>1, <1>11, <2>1 DEF Good, CoreInv
  <2>3. DecodeInput(m, q, T, data, s, out, C, n, q2)
    BY <1>6, <1>7, <1>8, <1>10, <1>13, <2>1, <2>2 DEF DecodeInput
  <2>4. CoreOK(n, q2, T) /\ ReqsShape(q2) /\ Keeps(m, n, NodesOf(q), LiveOf(q))
    BY <2>3, DecodeOK
  <2> QED
    BY <2>2, <2>4 DEF Good, Keeps
<1>16. StepOK(m0, q, n, q2, T)
  BY <1>14, <1>15 DEF StepOK, Keeps
<1> QED
  BY <1>1, <1>2, <1>16

LEMMA ResetStep ==
  ASSUME CoreInv, Reset
  PROVE  StepOK(mgr, req, mgr', req', clock')
<1>1. PICK m, q, T, n : m = mgr /\ q = req /\ T = clock /\ n = mgr'
  OBVIOUS
<1>2. /\ LiveOf(q) = {} /\ req' = q /\ clock' = 0
      /\ n = [delete_nodes(m, DOMAIN m.table) EXCEPT !.cpu = AllReturned(@)]
  BY <1>1 DEF Reset, Live, LiveOf
<1>3. ManagerShape(m) /\ T \in Nat /\ (m.fault = {} => Good(m, q, T))
  BY <1>1 DEF CoreInv
<1>4. PICK d : d = delete_nodes(m, DOMAIN m.table)
  OBVIOUS
<1>5. PICK c : c = AllReturned(d.cpu)
  OBVIOUS
<1>6. n = [d EXCEPT !.cpu = c]
  BY <1>2, <1>4, <1>5
<1>7. ManagerShape(d) /\ d.fault = m.fault
  BY <1>3, <1>4, DeleteNodesStep DEF DeleteStep
<1>8. ManagerShape(n) /\ n.fault = m.fault
  BY ONLY <1>6, <1>7, SetCpu
<1>9. Grows(m, n)
  BY <1>8 DEF Grows
<1>10. ASSUME n.fault = {}
       PROVE  Good(n, q, 0) /\ Keeps(m, n, NodesOf(q), LiveOf(q))
  <2>1. ReqsShape(q) /\ CoreOK(m, q, T)
    BY <1>3, <1>8, <1>10 DEF Good
  <2>2. CoreOK(n, q, 0)
    BY <1>2, <1>3, <2>1, ResetOK
  <2> QED
    BY <1>2, <2>1, <2>2 DEF Good, Keeps
<1>11. StepOK(m, q, n, q, 0)
  BY <1>9, <1>10 DEF StepOK, Keeps
<1> QED
  BY <1>1, <1>2, <1>11

LEMMA CopyStep ==
  ASSUME CoreInv, CopyTask
  PROVE  StepOK(mgr, req, mgr', req', clock')
<1>1. PICK m, q, T, n : m = mgr /\ q = req /\ T = clock /\ n = mgr'
  OBVIOUS
<1>2. PICK task : n = [m EXCEPT !.cpu = Copied(m.cpu, task)] /\ req' = q /\ clock' = T
  BY <1>1 DEF CopyTask
<1>3. ManagerShape(m) /\ T \in Nat /\ (m.fault = {} => Good(m, q, T))
  BY <1>1 DEF CoreInv
<1>4. PICK c : c = Copied(m.cpu, task)
  OBVIOUS
<1>5. n = [m EXCEPT !.cpu = c]
  BY <1>2, <1>4
<1>6. ManagerShape(n) /\ n.fault = m.fault /\ n.table = m.table
  BY ONLY <1>3, <1>5, SetCpu
<1>7. Grows(m, n)
  BY <1>6 DEF Grows
<1>8. ASSUME n.fault = {}
      PROVE  Good(n, q, T) /\ Keeps(m, n, NodesOf(q), LiveOf(q))
  <2>1. ReqsShape(q) /\ CoreOK(m, q, T)
    BY <1>3, <1>6, <1>8 DEF Good
  <2>2. CoreOK(n, q, T)
    BY <1>2, <1>3, <2>1, CopyOK
  <2>3. \A s \in LiveOf(q) : NodesOf(q)[s] \subseteq DOMAIN m.table
    BY <2>1 DEF CoreOK, CacheOK, GpuOK, CountOK
  <2> QED
    BY <1>6, <2>1, <2>2, <2>3 DEF Good, Keeps
<1>9. StepOK(m, q, n, q, T)
  BY <1>7, <1>8 DEF StepOK, Keeps
<1> QED
  BY <1>1, <1>2, <1>9

LEMMA CoreInit ==
  Init => CoreInv
<1> SUFFICES ASSUME Init PROVE CoreInv
  OBVIOUS
<1>1. mgr = EmptyManager /\ req = [r \in Requests |-> NoRequest] /\ clock = 0 /\ warm = TRUE /\ ignored = {}
  BY DEF Init
<1>2. PICK m, q : m = mgr /\ q = req
  OBVIOUS
<1>3. m = [table |-> <<>>, evictor |-> {}, free |-> [b \in Blocks |-> 1], extra |-> {},
           kv |-> [b \in Blocks |-> Junk], cpu |-> EmptyCpu, fault |-> {}]
  BY <1>1, <1>2 DEF EmptyManager
<1>4. /\ m.table = <<>> /\ m.evictor = {} /\ m.free = [b \in Blocks |-> 1] /\ m.extra = {}
      /\ m.cpu = EmptyCpu
  BY ONLY <1>3
<1>5. ManagerShape(m)
  BY <1>3 DEF ManagerShape
<1>6. DOMAIN m.table = {} /\ NodeBlocks(m) = {}
  BY <1>4 DEF NodeBlocks
<1>7. LiveOf(q) = {}
  <2>1. \A r \in Requests : ~q[r].live
    BY <1>1, <1>2 DEF NoRequest
  <2> QED
    BY <2>1 DEF LiveOf
<1>8. GpuOK(m, CachesOf(q), NodesOf(q), {})
  <2>1. TableOK(m)
    BY <1>4, <1>5, <1>6, FS_EmptySet DEF TableOK
  <2>2. CountOK(m, NodesOf(q), {}) /\ ShareOK(m, CachesOf(q), NodesOf(q), {})
    BY <1>6 DEF CountOK, ShareOK
  <2>3. OwnOK(m, CachesOf(q), {})
    BY <1>4, <1>6 DEF OwnOK
  <2> QED
    BY <2>1, <2>2, <2>3 DEF GpuOK
<1>9. CpuOK(m.cpu, 0)
  <2>1. PICK c : c = m.cpu
    OBVIOUS
  <2>2. c = [table |-> <<>>, free |-> Units, kv |-> [u \in Units |-> Junk], copies |-> {}]
    BY <1>4, <2>1 DEF EmptyCpu
  <2>3. c.table = <<>> /\ c.free = Units
    BY ONLY <2>2
  <2>4. CpuShape(c)
    BY <2>2 DEF CpuShape
  <2>5. DOMAIN c.table = {} /\ IsFiniteSet({}) /\ Cardinality({}) = 0
    BY <2>3, FS_EmptySet
  <2>6. PairsOK(c.table, c.free)
    <3>1. /\ Cardinality(Units) + 2 * Cardinality({}) >= 2 * CpuCapacity
          /\ Cardinality(Units) + 2 * Cardinality({}) <= CpuUnits
      BY <2>5, UnitsFinite, PrefixCacheAssumption
    <3> QED
      BY <2>3, <2>5, <3>1 DEF PairsOK
  <2>7. CpuOK(c, 0)
    BY <2>4, <2>5, <2>6 DEF CpuOK
  <2> QED
    BY <2>1, <2>7
<1>10. CoreOK(m, q, 0)
  BY <1>6, <1>7, <1>8, <1>9 DEF CoreOK, CacheOK
<1>11. ReqsShape(q)
  <2>1. ReqShape(NoRequest)
    BY DEF ReqShape, NoRequest
  <2> QED
    BY <1>1, <1>2, <2>1 DEF ReqsShape
<1> QED
  BY <1>1, <1>2, <1>5, <1>10, <1>11, PrefixCacheAssumption DEF CoreInv, Good

\* Every step keeps the invariant, forgets no fault and keeps what is referred to.
LEMMA CoreStep ==
  ASSUME CoreInv, Next
  PROVE  StepOK(mgr, req, mgr', req', clock') /\ CoreInv'
<1>1. StepOK(mgr, req, mgr', req', clock')
  <2>1. CASE GenerateContinueContext
    <3>1. LiveOf(req) # Requests
      BY <2>1 DEF GenerateContinueContext, Live, LiveOf
    <3>2. PICK toks \in Prompts, expired \in 0..clock :
            \/ ContextDenied(toks, expired)
            \/ \E t \in Sampled, computed \in BOOLEAN :
                 StartRequest(NewPlace, toks, t, computed, expired)
            \/ StartFails(toks, expired)
      BY <2>1 DEF GenerateContinueContext
    <3>3. CASE ContextDenied(toks, expired)
      BY <3>1, <3>3, DeniedStep
    <3>4. CASE \E t \in Sampled, computed \in BOOLEAN :
                 StartRequest(NewPlace, toks, t, computed, expired)
      BY <3>1, <3>4, StartStep
    <3>5. CASE StartFails(toks, expired)
      BY <3>1, <3>5, FailsStep
    <3> QED
      BY <3>2, <3>3, <3>4, <3>5
  <2>2. CASE Decode
    BY <2>2, DecodeStep
  <2>3. CASE DecodeShort
    BY <2>3, ShortStep
  <2>4. CASE StopRequest
    BY <2>4, StopStep
  <2>5. CASE Reset
    BY <2>5, ResetStep
  <2>6. CASE CopyTask
    BY <2>6, CopyStep
  <2> QED
    BY <2>1, <2>2, <2>3, <2>4, <2>5, <2>6 DEF Next
<1>2. clock' \in 0..MaxStarts /\ warm' \in BOOLEAN /\ ignored' \subseteq 1..clock'
  <2>0. clock \in 0..MaxStarts /\ warm \in BOOLEAN /\ ignored \subseteq 1..clock /\ MaxStarts \in Nat
    BY PrefixCacheAssumption DEF CoreInv
  <2>1. CASE GenerateContinueContext
    <3>1. /\ clock < MaxStarts /\ clock' = clock + 1 /\ warm' = warm
          /\ ignored' = ignored \/ ignored' = ignored \cup {clock + 1}
      BY <2>1 DEF GenerateContinueContext, ContextDenied, StartRequest, StartFails
    <3>2. clock' \in 0..MaxStarts /\ 1..clock \subseteq 1..clock' /\ clock + 1 \in 1..clock'
      BY <2>0, <3>1
    <3>3. ignored' \subseteq 1..clock'
      BY ONLY <2>0, <3>1, <3>2
    <3>4. warm' \in BOOLEAN
      BY ONLY <2>0, <3>1
    <3> QED
      BY ONLY <3>2, <3>3, <3>4
  <2>2. CASE Decode \/ DecodeShort \/ StopRequest \/ CopyTask
    BY <2>0, <2>2 DEF Decode, DecodeShort, StopRequest, CopyTask
  <2>3. CASE Reset
    <3>1. clock' = 0 /\ warm' = FALSE /\ ignored' = {}
      BY <2>3 DEF Reset
    <3>2. 0 \in 0..MaxStarts /\ FALSE \in BOOLEAN
      BY <2>0
    <3> QED
      BY ONLY <3>1, <3>2
  <2> QED
    BY <2>1, <2>2, <2>3 DEF Next
<1>3. CoreInv'
  BY <1>1, <1>2 DEF CoreInv, StepOK, Grows
<1> QED
  BY <1>1, <1>3

\* The invariant of the cache: as long as no claim has failed and no table was full,
\* the free queue, the hash tables of both tiers, the evictor, the reference counts
\* and the virtual caches of the live requests agree.
THEOREM CoreInvariant == Spec => []CoreInv
<1>1. Init => CoreInv
  BY CoreInit
<1>2. CoreInv /\ [Next]_vars => CoreInv'
  <2> SUFFICES ASSUME CoreInv, [Next]_vars PROVE CoreInv'
    OBVIOUS
  <2>1. CASE Next
    BY <2>1, CoreStep
  <2>2. CASE UNCHANGED vars
    BY <2>2 DEF vars, CoreInv
  <2> QED
    BY <2>1, <2>2
<1> QED
  BY <1>1, <1>2, PTL DEF Spec

\* Without a fault the invariant gives the types, the balance of blocks and units,
\* and the counts.
LEMMA CoreGives ==
  ASSUME CoreInv, NothingImpossible
  PROVE  TypeOK /\ BlocksConserved /\ RefsCounted
<1>1. PICK m, q, T : m = mgr /\ q = req /\ T = clock
  OBVIOUS
<1>2. /\ ReqsShape(q) /\ CoreOK(m, q, T) /\ clock \in 0..MaxStarts /\ warm \in BOOLEAN
      /\ ignored \subseteq 1..clock
  BY <1>1 DEF CoreInv, Good, NothingImpossible
<1> DEFINE L == LiveOf(q)
           B == CachesOf(q)
           N == NodesOf(q)
<1>3. T \in Nat
  BY <1>1, <1>2
<1>4. Live = L /\ L \subseteq Requests
  BY <1>1 DEF Live, LiveOf
<1>5. /\ TableOK(m) /\ CountOK(m, N, L) /\ OwnOK(m, B, L) /\ ShareOK(m, B, N, L) /\ CpuOK(m.cpu, T)
      /\ \A h \in DOMAIN m.table : m.table[h].ts <= T
  BY <1>2 DEF CoreOK, CacheOK, GpuOK
<1>6. \A r \in L : B[r] = Range(q[r].cache) /\ N[r] = q[r].nodes
  BY <1>4 DEF CachesOf, NodesOf
<1>7. CacheBlocks = UNION {B[r] : r \in L}
  BY <1>1, <1>4, <1>6 DEF CacheBlocks
<1> HIDE DEF L, B, N
<1>8. TypeOK
  <2>1. \A h \in DOMAIN m.table : h \in Seq(Tokens) /\ m.table[h] \in [blk : Blocks, ref_cnt : Nat, ts : 0..T]
    <3> TAKE h \in DOMAIN m.table
    <3>1. h \in Seq(Tokens) /\ m.table[h] \in [blk : Blocks, ref_cnt : Nat, ts : Nat] /\ m.table[h].ts <= T
      BY <1>5 DEF TableOK
    <3>2. m.table[h].ts \in 0..T
      BY <1>3, <3>1
    <3> QED
      BY <3>1, <3>2
  <2>2. \A h \in DOMAIN m.cpu.table : m.cpu.table[h] \in [k : Units, v : Units, ts : 0..T, ready : BOOLEAN]
    BY <1>5 DEF CpuOK
  <2>3. m.evictor \subseteq DOMAIN m.table /\ m.free \in [Blocks -> Nat] /\ m.extra \subseteq Blocks
    BY <1>5, <2>1 DEF TableOK, NodeBlocks
  <2>4. m.cpu.free \subseteq Units
    BY <1>5 DEF CpuOK, PairsOK
  <2>5. \A r \in L : Range(q[r].cache) \subseteq Blocks
    BY <1>5, <1>6 DEF ShareOK
  <2> QED
    BY <1>1, <1>2, <1>4, <2>1, <2>2, <2>3, <2>4, <2>5 DEF TypeOK
<1>9. BlocksConserved
  <2>1. \A b \in Blocks : m.free[b] = IF b \in NodeBlocks(m) \cup CacheBlocks THEN 0 ELSE 1
    <3>1. \A b \in Blocks : b \in NodeBlocks(m) \cup CacheBlocks <=> (b \in NodeBlocks(m) \/ \E r \in L : b \in B[r])
      BY <1>7
    <3>2. \A b \in Blocks : m.free[b] = IF b \in NodeBlocks(m) \/ (\E r \in L : b \in B[r]) THEN 0 ELSE 1
      BY <1>5 DEF OwnOK
    <3> QED
      BY ONLY <3>1, <3>2
  <2>2. PICK t, free : t = m.cpu.table /\ free = m.cpu.free
    OBVIOUS
  <2>3. PairsOK(t, free)
    BY <1>5, <2>2 DEF CpuOK
  <2>4. /\ \A h \in DOMAIN t : t[h].k # t[h].v /\ {t[h].k, t[h].v} \cap free = {}
        /\ \A g, h \in DOMAIN t : g # h => {t[g].k, t[g].v} \cap {t[h].k, t[h].v} = {}
        /\ Cardinality(free) + 2 * Cardinality(DOMAIN t) >= 2 * CpuCapacity
    BY <2>3 DEF PairsOK
  <2> QED
    BY <1>1, <2>1, <2>2, <2>4 DEF BlocksConserved
<1>10. RefsCounted
  <2>1. \A h : Holders(h) = {r \in L : h \in N[r]}
    BY <1>1, <1>4, <1>6 DEF Holders
  <2>2. \A h \in DOMAIN m.table : m.table[h].ref_cnt = Cardinality(Holders(h))
    BY <1>5, <2>1 DEF CountOK
  <2>3. m.evictor = {h \in DOMAIN m.table : m.table[h].ref_cnt = 0}
    BY <1>5 DEF TableOK
  <2>4. \A r \in Live : q[r].nodes \subseteq DOMAIN m.table
    BY <1>4, <1>5, <1>6 DEF CountOK
  <2> QED
    BY <1>1, <2>2, <2>3, <2>4 DEF RefsCounted
<1> QED
  BY <1>8, <1>9, <1>10

\* Until a fault every variable has its type, and the clock stays in its bound.
THEOREM TypesHold == Spec => [](NothingImpossible => TypeOK)
<1>1. CoreInv => (NothingImpossible => TypeOK)
  BY CoreGives
<1> QED
  BY <1>1, CoreInvariant, PTL

\* Until a fault no block is freed twice, free and in use, or forgotten: ReleaseSpan
\* and delete_node free each exactly once between them.  The CPU units are never
\* shared, and the tier always has the frames of its capacity.
THEOREM BlocksStayConserved == Spec => [](NothingImpossible => BlocksConserved)
<1>1. CoreInv => (NothingImpossible => BlocksConserved)
  BY CoreGives
<1> QED
  BY <1>1, CoreInvariant, PTL

\* Until a fault ref_cnt is the number of live requests that will give the node back,
\* and the evictor holds exactly the nodes nobody refers to.
THEOREM RefsStayCounted == Spec => [](NothingImpossible => RefsCounted)
<1>1. CoreInv => (NothingImpossible => RefsCounted)
  BY CoreGives
<1> QED
  BY <1>1, CoreInvariant, PTL

\* A step without a fault, whatever it evicts, deletes or swaps, leaves a node that a
\* surviving request refers to in the table with its block.
THEOREM ReferredNodesStay ==
  Spec => [][NothingImpossible' =>
               \A r \in Live : req'[r].live =>
                 \A h \in req[r].nodes : h \in DOMAIN mgr'.table /\ mgr'.table[h].blk = mgr.table[h].blk]_vars
<1> DEFINE A == NothingImpossible' =>
               \A r \in Live : req'[r].live =>
                 \A h \in req[r].nodes : h \in DOMAIN mgr'.table /\ mgr'.table[h].blk = mgr.table[h].blk
<1>1. CoreInv /\ [Next]_vars => [A]_vars
  <2> SUFFICES ASSUME CoreInv, Next, NothingImpossible',
                      NEW r \in Live, req'[r].live, NEW h \in req[r].nodes
               PROVE  h \in DOMAIN mgr'.table /\ mgr'.table[h].blk = mgr.table[h].blk
    BY DEF A
  <2>1. mgr'.fault = {}
    BY DEF NothingImpossible
  <2>2. StepOK(mgr, req, mgr', req', clock')
    BY CoreStep
  <2>3. Keeps(mgr, mgr', NodesOf(req), LiveOf(req) \cap LiveOf(req'))
    BY <2>1, <2>2 DEF StepOK
  <2>4. r \in Requests /\ r \in LiveOf(req) \cap LiveOf(req')
    BY DEF Live, LiveOf
  <2>5. NodesOf(req)[r] = req[r].nodes
    BY <2>4 DEF NodesOf
  <2> QED
    BY <2>3, <2>4, <2>5 DEF Keeps
<1> QED
  BY <1>1, CoreInvariant, PTL DEF Spec

-----------------------------------------------------------------------------
(* The order of the nodes: with a prefix the table has all its shorter     *)
(* prefixes, and none of them is older.                                    *)

Closed(S) == \A h \in S : \A j \in 1..(Len(h) \div SpanSize) : PrefixAt(h, j) \in S
Timed(t) == \A h \in DOMAIN t : t[h].ts \in Nat
OrderOK(t) ==
  \A h \in DOMAIN t : \A j \in 1..(Len(h) \div SpanSize) :
    PrefixAt(h, j) \in DOMAIN t /\ t[h].ts <= t[PrefixAt(h, j)].ts

\* Touching a closed set of prefixes keeps the order.
LEMMA TouchKeepsOrder ==
  ASSUME NEW t, NEW u, NEW G, NEW ts \in Nat, Timed(t), OrderOK(t), Closed(G), TouchedAt(t, u, G, ts)
  PROVE  OrderOK(u) /\ Timed(u)
<1>1. \A h \in DOMAIN u : u[h].ts \in Nat
  BY DEF TouchedAt, Timed, Later
<1>2. ASSUME NEW h \in DOMAIN u, NEW j \in 1..(Len(h) \div SpanSize)
      PROVE  PrefixAt(h, j) \in DOMAIN u /\ u[h].ts <= u[PrefixAt(h, j)].ts
  <2>0. PICK g : g = PrefixAt(h, j)
    OBVIOUS
  <2>1. h \in DOMAIN t => g \in DOMAIN t /\ t[h].ts <= t[g].ts /\ t[h].ts \in Nat /\ t[g].ts \in Nat
    BY <2>0 DEF OrderOK, Timed
  <2>2. h \in G => g \in G
    BY <2>0 DEF Closed
  <2>3. g \in DOMAIN u
    BY <2>1, <2>2 DEF TouchedAt
  <2>4. CASE h \in G /\ h \notin DOMAIN t
    <3>1. u[h].ts = ts /\ g \in G
      BY <2>2, <2>4 DEF TouchedAt
    <3>2. g \in DOMAIN t => u[g].ts = Later(t[g].ts, ts) /\ t[g].ts \in Nat
      BY <3>1 DEF TouchedAt, Timed
    <3>3. g \notin DOMAIN t => u[g].ts = ts
      BY <3>1 DEF TouchedAt
    <3>4. ts <= u[g].ts
      BY ONLY ts \in Nat, <3>2, <3>3 DEF Later
    <3> QED
      BY <2>0, <2>3, <3>1, <3>4
  <2>5. CASE h \in DOMAIN t
    <3>1. /\ u[h].ts = IF h \in G THEN Later(t[h].ts, ts) ELSE t[h].ts
          /\ u[g].ts = IF g \in G THEN Later(t[g].ts, ts) ELSE t[g].ts
      BY <2>1, <2>5 DEF TouchedAt
    <3>2. u[h].ts <= u[g].ts
      BY ONLY ts \in Nat, <2>1, <2>2, <2>5, <3>1 DEF Later
    <3> QED
      BY <2>0, <2>3, <3>2
  <2> QED
    BY <2>0, <2>3, <2>4, <2>5 DEF TouchedAt
<1> QED
  BY <1>1, <1>2 DEF OrderOK, Timed

\* V holds with a prefix the longer ones of the table.
Upward(t, V) ==
  \A h \in DOMAIN t : \A j \in 1..(Len(h) \div SpanSize) : PrefixAt(h, j) \in V => h \in V

LEMMA FewerKeepsOrder ==
  ASSUME NEW t, NEW u, NEW V, Timed(t), OrderOK(t), Upward(t, V), DOMAIN u = DOMAIN t \ V,
         \A h \in DOMAIN u : u[h].ts = t[h].ts
  PROVE  OrderOK(u) /\ Timed(u)
BY DEF OrderOK, Timed, Upward

LEMMA SameKeepsOrder ==
  ASSUME NEW t, NEW u, Timed(t), OrderOK(t), DOMAIN u = DOMAIN t, \A h \in DOMAIN u : u[h].ts = t[h].ts
  PROVE  OrderOK(u) /\ Timed(u)
BY DEF OrderOK, Timed

\* The first prefixes of a prompt are closed.
LEMMA FirstPrefixesClosed ==
  ASSUME NEW toks \in Seq(Tokens), NEW n \in Nat, n * SpanSize <= Len(toks)
  PROVE  Closed(FirstPrefixes(toks, n))
<1> SUFFICES ASSUME NEW h \in FirstPrefixes(toks, n), NEW j \in 1..(Len(h) \div SpanSize)
             PROVE  PrefixAt(h, j) \in FirstPrefixes(toks, n)
  BY DEF Closed
<1>1. PICK i : i = Len(h) \div SpanSize
  OBVIOUS
<1>2. i \in 1..n /\ h = PrefixAt(toks, i) /\ i * SpanSize <= Len(toks)
  BY <1>1, FirstPrefixesFacts
<1>3. SubSeq(PrefixAt(toks, i), 1, j * SpanSize) = PrefixAt(toks, j)
  <2>1. i \in Nat /\ j \in 1..i
    BY <1>1, <1>2
  <2> QED
    BY <1>2, <2>1, PrefixFacts
<1>4. PrefixAt(h, j) = PrefixAt(toks, j)
  BY <1>2, <1>3 DEF PrefixAt
<1>5. j \in 1..n
  BY <1>1, <1>2
<1> QED
  BY <1>4, <1>5 DEF FirstPrefixes

\* A shorter prefix of h, unless it is h, has fewer tokens.
LEMMA ShorterPrefix ==
  ASSUME NEW h \in Seq(Tokens), NEW j \in 1..(Len(h) \div SpanSize), NEW g, g = PrefixAt(h, j), g # h
  PROVE  g \in Seq(Tokens) /\ Len(g) < Len(h)
<1>1. SpanSize \in Nat \ {0} /\ Len(h) \in Nat
  BY PrefixCacheAssumption
<1>2. Len(h) \div SpanSize \in Int
  <2>1. Len(h) \in Int
    BY <1>1
  <2> QED
    BY <1>1, <2>1, Quotient
<1>3. j \in Nat /\ j <= Len(h) \div SpanSize
  <2>1. PICK x : x = Len(h) \div SpanSize
    OBVIOUS
  <2>2. x \in Int /\ j \in 1..x
    BY <1>2, <2>1
  <2> QED
    BY ONLY <2>1, <2>2
<1>4. j * SpanSize <= Len(h)
  <2>1. PICK a : a = Len(h)
    OBVIOUS
  <2>2. a \in Int /\ j \in Int /\ SpanSize \in Nat \ {0} /\ j <= a \div SpanSize
    BY <1>1, <1>3, <2>1
  <2>3. j * SpanSize <= a
    BY ONLY <2>2, QuotientBounds
  <2> QED
    BY <2>1, <2>3
<1>5. g \in Seq(Tokens) /\ Len(g) = j * SpanSize
  BY <1>3, <1>4, PrefixFacts
<1>6. Len(g) # Len(h)
  <2> SUFFICES ASSUME Len(g) = Len(h) PROVE FALSE
    OBVIOUS
  <2>1. g = SubSeq(h, 1, Len(h))
    BY <1>5 DEF PrefixAt
  <2>3. g = h
    BY <2>1, SubSeqFull
  <2> QED
    BY <2>3
<1> QED
  BY <1>1, <1>4, <1>5, <1>6

-----------------------------------------------------------------------------
(* Eviction keeps the order: a prefix is not evicted before a longer one.  *)

\* A referred node has referred prefixes.
RefClosed(t) ==
  \A h \in DOMAIN t : \A j \in 1..(Len(h) \div SpanSize) :
    t[h].ref_cnt > 0 => t[PrefixAt(h, j)].ref_cnt > 0

LEMMA VictimsUpward ==
  ASSUME NEW m, TableOK(m), OrderOK(m.table), RefClosed(m.table), NEW k \in Int
  PROVE  Upward(m.table, FindMultiVictims(m, k))
<1> DEFINE t == m.table
           E == m.evictor
           V == FindMultiVictims(m, k)
           Before(h) == {g \in E : SmallerNode(t, g, h)}
<1>1. /\ E = {h \in DOMAIN t : t[h].ref_cnt = 0} /\ IsFiniteSet(DOMAIN t)
      /\ \A h \in DOMAIN t : h \in Seq(Tokens) /\ t[h].ref_cnt \in Nat /\ t[h].ts \in Nat
  BY DEF TableOK
<1>2. V = {h \in E : Cardinality(Before(h)) < k}
  BY DEF FindMultiVictims
<1> SUFFICES ASSUME NEW h \in DOMAIN t, NEW j \in 1..(Len(h) \div SpanSize), PrefixAt(h, j) \in V
             PROVE  h \in V
  BY DEF Upward
<1>3. PICK g : g = PrefixAt(h, j)
  OBVIOUS
<1>4. g \in E /\ g \in DOMAIN t /\ Cardinality(Before(g)) < k /\ t[h].ts <= t[g].ts
  BY <1>1, <1>2, <1>3 DEF OrderOK
<1>5. h \in E
  BY <1>1, <1>3, <1>4 DEF RefClosed
<1>6. CASE g = h
  BY <1>3, <1>6
<1>7. CASE g # h
  <2>1. Len(h) > Len(g) /\ Len(g) \in Nat /\ Len(h) \in Nat
    BY <1>1, <1>3, <1>7, ShorterPrefix
  <2>2. SmallerNode(t, h, g)
    BY <1>1, <1>4, <2>1 DEF SmallerNode
  <2>3. Comparable(t, E)
    BY <1>1 DEF Comparable
  <2>4. Before(h) \subseteq Before(g)
    <3> SUFFICES ASSUME NEW f \in E, SmallerNode(t, f, h) PROVE SmallerNode(t, f, g)
      OBVIOUS
    <3> QED
      BY <1>4, <1>5, <2>2, <2>3, SmallerOrder
  <2>5. IsFiniteSet(E)
    <3>1. E \subseteq DOMAIN t
      BY <1>1
    <3> QED
      BY <1>1, <3>1, FS_Subset
  <2>6. IsFiniteSet(Before(g)) /\ IsFiniteSet(Before(h))
    <3>1. Before(g) \subseteq E /\ Before(h) \subseteq E
      OBVIOUS
    <3> HIDE DEF Before, E
    <3> QED
      BY <2>5, <3>1, FS_Subset
  <2>7. Cardinality(Before(h)) <= Cardinality(Before(g))
    <3> HIDE DEF Before
    <3> QED
      BY <2>4, <2>6, FS_Subset
  <2>8. Cardinality(Before(h)) \in Nat /\ Cardinality(Before(g)) \in Nat
    BY <2>6, FS_CardinalityType
  <2>9. Cardinality(Before(h)) < k
    <3> HIDE DEF Before
    <3> QED
      BY <1>4, <2>7, <2>8
  <2> QED
    BY <1>2, <1>5, <2>9
<1> QED
  BY <1>6, <1>7

LEMMA CountedRefClosed ==
  ASSUME NEW m, NEW N, NEW L, IsFiniteSet(L), CountOK(m, N, L), \A r \in L : Closed(N[r])
  PROVE  RefClosed(m.table)
<1> SUFFICES ASSUME NEW h \in DOMAIN m.table, NEW j \in 1..(Len(h) \div SpanSize), m.table[h].ref_cnt > 0
             PROVE  m.table[PrefixAt(h, j)].ref_cnt > 0
  BY DEF RefClosed
<1>0. PICK g : g = PrefixAt(h, j)
  OBVIOUS
<1> DEFINE U(x) == {r \in L : x \in N[r]}
<1>1. m.table[h].ref_cnt = Cardinality(U(h))
  BY DEF CountOK
<1>2. U(h) # {}
  <2> SUFFICES ASSUME U(h) = {} PROVE FALSE
    OBVIOUS
  <2>1. Cardinality(U(h)) = 0
    BY FS_EmptySet
  <2> HIDE DEF U
  <2> QED
    BY <1>1, <2>1
<1>3. PICK r \in L : h \in N[r]
  BY <1>2
<1>4. g \in N[r] /\ g \in DOMAIN m.table
  BY <1>0, <1>3 DEF Closed, CountOK
<1>5. m.table[g].ref_cnt = Cardinality(U(g)) /\ r \in U(g)
  BY <1>3, <1>4 DEF CountOK
<1>6. IsFiniteSet(U(g))
  BY FS_Subset
<1>7. Cardinality(U(g)) # 0 /\ Cardinality(U(g)) \in Nat
  <2> HIDE DEF U
  <2> QED
    BY <1>5, <1>6, FS_EmptySet, FS_CardinalityType
<1> QED
  <2> HIDE DEF U
  <2> QED
    BY <1>0, <1>5, <1>7

LEMMA TouchRefClosed ==
  ASSUME NEW m, NEW n, TableOK(m), OrderOK(m.table), RefClosed(m.table), NEW H, NEW ts, RefEffect(m, n, H, ts),
         Closed(H \cap DOMAIN m.table)
  PROVE  RefClosed(n.table)
<1> SUFFICES ASSUME NEW h \in DOMAIN n.table, NEW j \in 1..(Len(h) \div SpanSize), n.table[h].ref_cnt > 0
             PROVE  n.table[PrefixAt(h, j)].ref_cnt > 0
  BY DEF RefClosed
<1>0. PICK g : g = PrefixAt(h, j)
  OBVIOUS
<1>1. h \in DOMAIN m.table /\ g \in DOMAIN m.table
  BY <1>0 DEF RefEffect, OrderOK
<1>2. m.table[h].ref_cnt \in Nat /\ m.table[g].ref_cnt \in Nat
  BY <1>1 DEF TableOK
<1>3. /\ n.table[h].ref_cnt = IF h \in H THEN m.table[h].ref_cnt + 1 ELSE m.table[h].ref_cnt
      /\ n.table[g].ref_cnt = IF g \in H THEN m.table[g].ref_cnt + 1 ELSE m.table[g].ref_cnt
  BY <1>1 DEF RefEffect
<1>4. (h \in H => g \in H) /\ (m.table[h].ref_cnt > 0 => m.table[g].ref_cnt > 0)
  BY <1>0, <1>1 DEF Closed, RefClosed
<1> QED
  BY <1>0, <1>2, <1>3, <1>4

LEMMA EvictOrder ==
  ASSUME NEW m, NEW B, NEW N, NEW L, NEW T \in Nat, IsFiniteSet(L), CacheOK(m, B, N, L, T),
         \A r \in L : Closed(N[r]), OrderOK(m.table), NEW k \in Int, NEW expired,
         NEW n, n = evict_unrefered_by_num(m, k, expired)
  PROVE  OrderOK(n.table) /\ \A h \in DOMAIN n.table : h \in DOMAIN m.table /\ n.table[h].ts = m.table[h].ts
<1>1. TableOK(m) /\ CountOK(m, N, L)
  BY DEF CacheOK, GpuOK
<1>2. PICK V : V = FindMultiVictims(m, k)
  OBVIOUS
<1>3. EvictEffect(m, n, V)
  BY <1>2, EvictOK
<1>4. Upward(m.table, V)
  BY <1>1, <1>2, CountedRefClosed, VictimsUpward
<1>5. DOMAIN n.table = DOMAIN m.table \ V /\ \A h \in DOMAIN n.table : n.table[h].ts = m.table[h].ts
  BY <1>3 DEF EvictEffect, FewerNodes
<1>6. Timed(m.table)
  BY <1>1 DEF TableOK, Timed
<1>7. OrderOK(n.table)
  BY <1>4, <1>5, <1>6, FewerKeepsOrder
<1> QED
  BY <1>5, <1>7

\* The GPU hits of a prompt are its first prefixes.
LEMMA HitsClosed ==
  ASSUME NEW m, OrderOK(m.table), NEW toks \in Seq(Tokens), Len(toks) >= 1
  PROVE  Closed(CachedRun(m, toks)) /\ Closed(OnGpu(m, CachedRun(m, toks)))
<1>1. PICK k \in 0..HashedCount(toks) : RunLength(m, toks, k)
  BY CachedRunFacts
<1>2. k \in Nat /\ k * SpanSize <= Len(toks)
  <2>1. HashedCount(toks) \in Nat /\ HashedCount(toks) * SpanSize < Len(toks)
    BY HashedFacts
  <2>2. SpanSize \in Nat \ {0} /\ Len(toks) \in Nat
    BY PrefixCacheAssumption
  <2>3. k \in Nat /\ k * SpanSize <= HashedCount(toks) * SpanSize
    BY <2>1, <2>2, Multiples
  <2> QED
    BY <2>1, <2>2, <2>3
<1>3. PICK R : R = CachedRun(m, toks)
  OBVIOUS
<1>4. R = FirstPrefixes(toks, k)
  BY <1>1, <1>3 DEF RunLength
<1>5. Closed(R)
  BY <1>2, <1>4, FirstPrefixesClosed
<1>6. Closed(R \cap DOMAIN m.table)
  BY <1>5 DEF Closed, OrderOK
<1> QED
  BY <1>3, <1>5, <1>6 DEF OnGpu

\* The frames the context phase asks for are a number.
LEMMA FramesNumber ==
  ASSUME NEW m, NEW toks \in Seq(Tokens), IsFiniteSet(OnGpu(m, CachedRun(m, toks)))
  PROVE  ContextFrames(m, toks) \in Int
<1>1. PICK g : g = Cardinality(OnGpu(m, CachedRun(m, toks)))
  OBVIOUS
<1>2. g \in Nat
  BY <1>1, FS_CardinalityType
<1>3. SpanSize \in Nat \ {0} /\ MinGen \in Nat /\ MaxLength \in Nat /\ Len(toks) \in Nat
  BY PrefixCacheAssumption
<1>4. PICK s : s = SpanSize * g
  OBVIOUS
<1>5. s \in Nat
  BY <1>2, <1>3, <1>4
<1>6. PICK input : input = Len(toks) - s + MinGen
  OBVIOUS
<1>7. PICK x : x = IF input < MaxLength THEN input ELSE MaxLength
  OBVIOUS
<1>8. x \in Int
  BY <1>3, <1>5, <1>6, <1>7
<1>9. ContextFrames(m, toks) = x \div SpanSize + 1
  BY <1>1, <1>4, <1>6, <1>7 DEF ContextFrames
<1>10. x \div SpanSize \in Int
  BY <1>3, <1>8, Quotient
<1> QED
  BY <1>9, <1>10

LEMMA RoomOrder ==
  ASSUME NEW m, NEW B, NEW N, NEW L, NEW T \in Nat, IsFiniteSet(L), CacheOK(m, B, N, L, T),
         NEW r, r \notin L, r \in DOMAIN N, N[r] = {}, B[r] = {}, L \subseteq DOMAIN N,
         \A s \in L : Closed(N[s]), OrderOK(m.table),
         NEW toks \in Seq(Tokens), Len(toks) >= 1, NEW expired, NEW n, n = MakeRoom(m, toks, T, expired)
  PROVE  OrderOK(n.table)
<1>1. PICK R, G, V : R = CachedRun(m, toks) /\ G = OnGpu(m, R) /\ V = RoomVictims(m, toks, T)
  OBVIOUS
<1>2. RoomEffect(m, n, G, T, V)
  BY <1>1, MakeRoomOK
<1>3. TableOK(m) /\ CountOK(m, N, L) /\ \A h \in DOMAIN m.table : m.table[h].ts <= T
  BY DEF CacheOK, GpuOK
<1>4. ManagerShape(m) /\ Timed(m.table) /\ IsFiniteSet(DOMAIN m.table)
  BY <1>3 DEF TableOK, Timed
<1>5. Closed(G) /\ G = R \cap DOMAIN m.table
  BY <1>1, HitsClosed DEF OnGpu
<1>6. PICK held : held = RefOnly(m, R, T)
  OBVIOUS
<1>7. RefStep(m, held, R, T)
  BY <1>4, <1>6, RefOnlyIsStep
<1>8. TableOK(held) /\ RefEffect(m, held, R, T)
  BY <1>3, <1>7, RefTableOK, RefStepEffect
<1>9. TouchedAt(m.table, held.table, G, T)
  BY <1>5, <1>8 DEF RefEffect, TouchedAt
<1>10. OrderOK(held.table) /\ Timed(held.table)
  BY <1>4, <1>5, <1>9, TouchKeepsOrder
<1>11. RefClosed(held.table)
  <2>1. RefClosed(m.table)
    BY <1>3, CountedRefClosed
  <2>2. Closed(R \cap DOMAIN m.table)
    BY <1>5
  <2> QED
    BY <1>3, <1>8, <2>1, <2>2, TouchRefClosed
<1>12. Upward(held.table, V)
  <2>1. PICK need, k : need = ContextFrames(m, toks) /\ k = need - CountFree(held)
    OBVIOUS
  <2>2. V = IF need > CountFree(held) THEN FindMultiVictims(held, k) ELSE {}
    BY <1>1, <1>6, <2>1 DEF RoomVictims
  <2>3. k \in Int
    <3>1. IsFiniteSet(G)
      <4>1. G \subseteq DOMAIN m.table
        BY <1>5
      <4> QED
        BY <1>4, <4>1, FS_Subset
    <3>2. need \in Int
      BY <1>1, <2>1, <3>1, FramesNumber
    <3>3. CountFree(held) \in Nat
      BY FreeBlocksFinite
    <3> QED
      BY <2>1, <3>2, <3>3
  <2>4. Upward(held.table, FindMultiVictims(held, k))
    BY <1>8, <1>10, <1>11, <2>3, VictimsUpward
  <2>5. Upward(held.table, {})
    BY DEF Upward
  <2> QED
    BY <2>2, <2>4, <2>5
<1>13. DOMAIN n.table = DOMAIN held.table \ V /\ \A h \in DOMAIN n.table : n.table[h].ts = held.table[h].ts
  <2>1. DOMAIN n.table = DOMAIN m.table \ V /\ DOMAIN held.table = DOMAIN m.table
    BY <1>2, <1>8 DEF RoomEffect, RefEffect
  <2>2. \A h \in DOMAIN n.table : n.table[h].ts = IF h \in G THEN Later(m.table[h].ts, T) ELSE m.table[h].ts
    BY <1>2 DEF RoomEffect
  <2>3. \A h \in DOMAIN m.table : held.table[h].ts = IF h \in G THEN Later(m.table[h].ts, T) ELSE m.table[h].ts
    BY <1>9 DEF TouchedAt
  <2> QED
    BY <2>1, <2>2, <2>3
<1> QED
  BY <1>10, <1>12, <1>13, FewerKeepsOrder

-----------------------------------------------------------------------------
(* The claims of the context phase do not fail.                            *)

\* Every node and every free frame is a block of its own.
LEMMA TableFits ==
  ASSUME NEW m, NEW B, NEW L, TableOK(m), OwnOK(m, B, L)
  PROVE  Cardinality(DOMAIN m.table) \in Nat /\ Cardinality(DOMAIN m.table) + CountFree(m) <= GpuBlocks
<1> DEFINE D == DOMAIN m.table
           f == NodeSpans(m, D)
           K == {f[h] : h \in D}
           F == FreeBlocks(m)
<1>1. IsFiniteSet(D) /\ \A h \in D : m.table[h].blk \in Blocks
  BY DEF TableOK
<1>2. DOMAIN f = D /\ \A h \in D : f[h] = m.table[h].blk
  BY DEF NodeSpans
<1>3. \A g, h \in D : f[g] = f[h] => g = h
  BY <1>2 DEF TableOK
<1>4. K = NodeBlocks(m)
  BY <1>2 DEF NodeBlocks
<1>5. K \subseteq Blocks /\ F \subseteq Blocks /\ IsFiniteSet(Blocks) /\ Cardinality(Blocks) = GpuBlocks
  BY <1>1, <1>2, FreeBlocksFinite
<1>6. K \cap F = {}
  BY <1>4 DEF OwnOK, FreeBlocks
<1> HIDE DEF f
<1>7. IsFiniteSet(K) /\ Cardinality(K) = Cardinality(D)
  BY <1>1, <1>2, <1>3, ImageCount
<1> HIDE DEF D, K, F
<1>8. IsFiniteSet(F)
  BY <1>5, FS_Subset
<1>9. Cardinality(K \cup F) = Cardinality(K) + Cardinality(F) - Cardinality(K \cap F)
  BY <1>7, <1>8, FS_Union
<1>10. Cardinality(K \cap F) = 0
  BY <1>6, FS_EmptySet
<1>11. Cardinality(K \cup F) <= Cardinality(Blocks)
  <2>1. K \cup F \subseteq Blocks
    BY <1>5
  <2> QED
    BY <1>5, <2>1, FS_Subset
<1>12. Cardinality(K) \in Nat /\ Cardinality(F) \in Nat
  BY <1>7, <1>8, FS_CardinalityType
<1> QED
  BY <1>5, <1>7, <1>9, <1>10, <1>11, <1>12 DEF CountFree, D, F

\* A claim of one block for each element of a set leaves the rest.
LEMMA ClaimCount ==
  ASSUME NEW m, NEW B, NEW L, ManagerShape(m), OwnOK(m, B, L), m.fault = {},
         NEW data, NEW D, D = DOMAIN data, IsFiniteSet(D), Cardinality(D) <= CountFree(m),
         NEW s, s = ClaimSpans(m, data)
  PROVE  /\ s.m.fault = {} /\ ManagerShape(s.m) /\ s.m.table = m.table
         /\ CountFree(s.m) = CountFree(m) - Cardinality(D)
<1>1. s.m.fault = {} /\ ManagerShape(s.m) /\ s.m.table = m.table
  <2>1. IsFiniteSet(DOMAIN data) /\ Cardinality(DOMAIN data) <= CountFree(m)
    OBVIOUS
  <2> QED
    BY ONLY <2>1, ManagerShape(m), m.fault = {}, s = ClaimSpans(m, data), ClaimFits
<1>2. PICK R, blk : R = Range(blk) /\ blk = s.blk
  OBVIOUS
<1>3. ClaimStep(m, s.m, R) /\ DOMAIN blk = D /\ IsInjective(blk) /\ R \subseteq FreeBlocks(m)
  BY <1>1, <1>2, ClaimSpansIsStep
<1>4. R = {blk[i] : i \in D}
  BY <1>2, <1>3 DEF Range
<1>5. IsFiniteSet(R) /\ Cardinality(R) = Cardinality(D)
  <2>1. \A g, h \in D : blk[g] = blk[h] => g = h
    BY <1>3 DEF IsInjective
  <2>2. DOMAIN blk = D
    BY <1>3
  <2>3. IsFiniteSet({blk[i] : i \in D}) /\ Cardinality({blk[i] : i \in D}) = Cardinality(D)
    BY <2>1, <2>2, ImageCount
  <2> QED
    BY <1>4, <2>3
<1>6. FreeBlocks(s.m) = FreeBlocks(m) \ R
  <2>1. \A b \in Blocks : m.free[b] \in {0, 1}
    BY DEF OwnOK
  <2>2. \A b \in Blocks : s.m.free[b] = IF b \in R THEN m.free[b] - 1 ELSE m.free[b]
    BY <1>3 DEF ClaimStep
  <2>3. \A b \in Blocks : s.m.free[b] > 0 <=> m.free[b] > 0 /\ b \notin R
    BY <2>1, <2>2
  <2> QED
    BY <2>3 DEF FreeBlocks
<1>7. IsFiniteSet(FreeBlocks(m))
  BY FreeBlocksFinite
<1>8. PICK F : F = FreeBlocks(m)
  OBVIOUS
<1>9. Cardinality(F \ R) = Cardinality(F) - Cardinality(F \cap R)
  BY <1>5, <1>7, <1>8, FS_Difference
<1>10. Cardinality(F \cap R) = Cardinality(R)
  <2>1. F \cap R = R
    BY <1>3, <1>8
  <2> QED
    BY <2>1
<1> QED
  BY <1>1, <1>5, <1>6, <1>8, <1>9, <1>10 DEF CountFree

\* The nodes swapped in find their frames and their place in the table.
LEMMA SwapInFits ==
  ASSUME NEW m, NEW B, NEW L, TableOK(m), OwnOK(m, B, L), m.fault = {},
         NEW C, IsFiniteSet(C), Cardinality(C) <= CountFree(m), NEW T,
         NEW s, s = SwapIn(m, C), NEW n, n = RefOnly(s.m, C, T)
  PROVE  n.fault = {} /\ CountFree(n) = CountFree(m) - Cardinality(C)
<1> DEFINE c == m.cpu
           data == [h \in C |-> IF c.kv[c.table[h].k] = c.kv[c.table[h].v] THEN c.kv[c.table[h].k] ELSE Junk]
           a == ClaimSpans(m, data)
           new == [h \in C |-> [blk |-> a.blk[h], ref_cnt |-> 0, ts |-> c.table[h].ts]]
           i == insert_nodes(a.m, new)
<1>1. s = [m |-> i, blk |-> a.blk]
  BY DEF SwapIn
<1>2. s.m = i
  <2> HIDE DEF i, a
  <2> QED
    BY ONLY <1>1
<1>3. DOMAIN data = C /\ DOMAIN new = C /\ ManagerShape(m)
  BY DEF TableOK
<1> HIDE DEF data
<1>4. /\ a.m.fault = {} /\ ManagerShape(a.m) /\ a.m.table = m.table
      /\ CountFree(a.m) = CountFree(m) - Cardinality(C)
  BY <1>3, ClaimCount
<1> HIDE DEF a, new
<1>5. Cardinality(DOMAIN a.m.table \cup DOMAIN new) <= Capacity
  <2>1. PICK D : D = DOMAIN m.table
    OBVIOUS
  <2>2. IsFiniteSet(D) /\ Cardinality(D) + CountFree(m) <= GpuBlocks
    BY <2>1, TableFits DEF TableOK
  <2>3. Cardinality(D \cup C) = Cardinality(D) + Cardinality(C) - Cardinality(D \cap C)
    BY <2>2, FS_Union
  <2>4. IsFiniteSet(D \cap C)
    BY <2>2, FS_Intersection
  <2>5. Cardinality(D) \in Nat /\ Cardinality(C) \in Nat /\ Cardinality(D \cap C) \in Nat /\ CountFree(m) \in Nat
    BY <2>2, <2>4, FS_CardinalityType, FreeBlocksFinite
  <2>6. Cardinality(D \cup C) <= GpuBlocks
    BY <2>2, <2>3, <2>5, PrefixCacheAssumption
  <2> QED
    BY <1>3, <1>4, <2>1, <2>6 DEF Capacity
<1>6. ManagerShape(i) /\ i.fault = {} /\ InsertStep(a.m, i, new)
  BY <1>4, <1>5, InsertNodesIsStep
<1>7. i.free = a.m.free
  BY <1>6 DEF InsertStep
<1> HIDE DEF i
<1>8. RefStep(i, n, C, T)
  BY <1>2, <1>6, RefOnlyIsStep
<1>9. n.fault = {} /\ n.free = a.m.free
  BY <1>6, <1>7, <1>8 DEF RefStep
<1>10. CountFree(n) = CountFree(a.m)
  BY <1>9 DEF CountFree, FreeBlocks
<1> QED
  BY <1>4, <1>9, <1>10

\* RefFill takes a frame for every hit that is only on the CPU.
LEMMA RefFillFits ==
  ASSUME NEW m, NEW B, NEW L, TableOK(m), OwnOK(m, B, L), m.fault = {}, NEW T \in Nat,
         NEW toks, NEW R, R = CachedRun(m, toks), NEW G, G = OnGpu(m, R), NEW C, C = OnlyOnCpu(m, R),
         IsFiniteSet(R), Cardinality(C) <= CountFree(m), NEW f, f = RefFill(m, toks, T)
  PROVE  /\ f.m.fault = {} /\ CountFree(f.m) = CountFree(m) - Cardinality(C)
         /\ Len(f.cache) = Cardinality(G) + Cardinality(C)
<1> DEFINE a == RefOnly(m, G, T)
           s == SwapIn(a, C)
           n == RefOnly(s.m, C, T)
           x == [j \in 1..Cardinality(G) |-> m.table[InOrder(G)[j]].blk]
           y == [j \in 1..Cardinality(C) |-> s.blk[InOrder(C)[j]]]
<1>1. f = [m |-> n, cache |-> x \o y, nodes |-> R]
  BY DEF RefFill
<1>2. f.m = n /\ f.cache = x \o y
  <2> HIDE DEF n, x, y
  <2> QED
    BY ONLY <1>1
<1>3. G \subseteq R /\ C \subseteq R
  BY DEF OnGpu, OnlyOnCpu
<1>4. IsFiniteSet(G) /\ IsFiniteSet(C)
  BY <1>3, FS_Subset
<1>5. Cardinality(G) \in Nat /\ Cardinality(C) \in Nat
  BY <1>4, FS_CardinalityType
<1>6. Len(x \o y) = Cardinality(G) + Cardinality(C)
  <2> DEFINE X == {x[j] : j \in DOMAIN x} \cup {y[j] : j \in DOMAIN y}
  <2>1. x \in Seq(X) /\ Len(x) = Cardinality(G)
    BY <1>5
  <2>2. y \in Seq(X) /\ Len(y) = Cardinality(C)
    BY <1>5
  <2> HIDE DEF x, y, X
  <2> QED
    BY <2>1, <2>2
<1>7. RefStep(m, a, G, T)
  BY RefOnlyIsStep DEF TableOK
<1> HIDE DEF a, x, y
<1>8. TableOK(a) /\ RefEffect(m, a, G, T) /\ a.fault = {}
  BY <1>7, RefTableOK, RefStepEffect DEF RefStep
<1>9. OwnOK(a, B, L)
  BY <1>8, SameBlocks DEF RefEffect
<1>10. CountFree(a) = CountFree(m)
  BY <1>8 DEF RefEffect, CountFree, FreeBlocks
<1> HIDE DEF s, n
<1>11. n.fault = {} /\ CountFree(n) = CountFree(a) - Cardinality(C)
  <2>1. s = SwapIn(a, C) /\ n = RefOnly(s.m, C, T) /\ Cardinality(C) <= CountFree(a)
    BY <1>10 DEF s, n
  <2> QED
    BY ONLY <1>4, <1>8, <1>9, <2>1, SwapInFits
<1> QED
  BY <1>2, <1>6, <1>10, <1>11

\* FillUp takes a frame for every span beyond the hits.
LEMMA FillUpFits ==
  ASSUME NEW m, ManagerShape(m), m.fault = {}, NEW toks \in Seq(Tokens), NEW cache, Len(cache) \in Nat,
         SpansFor(Len(toks)) - Len(cache) <= CountFree(m), NEW p, p = FillUp(m, toks, cache)
  PROVE  p.m.fault = {}
<1> DEFINE n == SpansFor(Len(toks))
           c == Len(cache)
           D == (c + 1)..n
           data == [j \in D |-> SpanKv(toks, Len(toks), j)]
           s == ClaimSpans(m, data)
           pc == [j \in 1..n |-> IF j <= c THEN cache[j] ELSE s.blk[j]]
<1>1. p = [m |-> s.m, cache |-> pc]
  BY DEF FillUp, SpansFor
<1>2. p.m = s.m
  <2> HIDE DEF s, pc
  <2> QED
    BY ONLY <1>1
<1>3. n \in Nat /\ c \in Nat
  <2>1. Len(toks) \in Nat /\ SpanSize \in Nat \ {0}
    BY PrefixCacheAssumption
  <2> QED
    BY <2>1, RoundUp DEF SpansFor
<1>4. DOMAIN data = D
  OBVIOUS
<1> HIDE DEF n, c, data
<1>5. IsFiniteSet(D) /\ Cardinality(D) = IF c + 1 > n THEN 0 ELSE n - (c + 1) + 1
  <2>1. PICK e : e = c + 1
    OBVIOUS
  <2>2. e \in Int /\ n \in Int
    BY <1>3, <2>1
  <2>3. IsFiniteSet(e..n) /\ Cardinality(e..n) = IF e > n THEN 0 ELSE n - e + 1
    BY <2>2, FS_Interval
  <2> QED
    BY <2>1, <2>3
<1>6. Cardinality(D) <= CountFree(m)
  <2>1. CountFree(m) \in Nat /\ n - c <= CountFree(m)
    BY FreeBlocksFinite DEF n, c
  <2> QED
    BY <1>3, <1>5, <2>1
<1> HIDE DEF D
<1>7. s.m.fault = m.fault
  <2>1. IsFiniteSet(DOMAIN data) /\ Cardinality(DOMAIN data) <= CountFree(m)
    BY <1>4, <1>5, <1>6
  <2> QED
    BY <2>1, ClaimSpansFields
<1> QED
  BY <1>2, <1>7

\* The frames the context phase asks for are enough for the spans that are no hits.
LEMMA FramesSuffice ==
  ASSUME NEW m, NEW toks \in Prompts, NEW G, G = OnGpu(m, CachedRun(m, toks))
  PROVE  IsFiniteSet(G) /\ SpansFor(Len(toks)) - Cardinality(G) <= ContextFrames(m, toks)
<1>1. /\ toks \in Seq(Tokens) /\ Len(toks) \in Nat /\ Len(toks) >= 1 /\ Len(toks) <= MaxLength
      /\ SpanSize \in Nat \ {0} /\ MinGen \in Nat /\ MaxLength \in Nat
  BY PrefixCacheAssumption
<1>2. PICK c : c = HashedCount(toks)
  OBVIOUS
<1>3. /\ c \in Nat /\ c * SpanSize < Len(toks) /\ HashedPrefixes(toks) = FirstPrefixes(toks, c)
      /\ c = (Len(toks) - 1) \div SpanSize
  BY <1>1, <1>2, HashedFacts DEF HashedCount
<1>4. c * SpanSize <= Len(toks)
  BY <1>1, <1>3
<1>5. IsFiniteSet(FirstPrefixes(toks, c)) /\ Cardinality(FirstPrefixes(toks, c)) = c
  BY <1>1, <1>3, <1>4, FirstPrefixesFacts
<1>6. G \subseteq FirstPrefixes(toks, c)
  BY <1>3 DEF OnGpu, CachedRun
<1>7. IsFiniteSet(G) /\ Cardinality(G) <= c
  BY <1>5, <1>6, FS_Subset
<1>8. PICK g, s, n : g = Cardinality(G) /\ s = SpanSize * g /\ n = Len(toks)
  OBVIOUS
<1>9. g \in Nat /\ g <= c
  BY <1>7, <1>8, FS_CardinalityType
<1>10. s \in Nat /\ s = g * SpanSize
  BY <1>1, <1>8, <1>9
<1>11. PICK input, x : input = n - s + MinGen /\ x = IF input < MaxLength THEN input ELSE MaxLength
  OBVIOUS
<1>12. ContextFrames(m, toks) = x \div SpanSize + 1
  BY <1>8, <1>11 DEF ContextFrames
<1>13. x \in Int /\ n - s <= x
  BY <1>1, <1>8, <1>10, <1>11
<1>14. c - g <= x \div SpanSize
  <2>1. PICK k : k = c - g
    OBVIOUS
  <2>2. k \in Int /\ k * SpanSize = c * SpanSize - g * SpanSize
    BY <1>1, <1>3, <1>9, <2>1
  <2>3. PICK u : u = c * SpanSize
    OBVIOUS
  <2>4. u \in Int /\ u <= n /\ k * SpanSize = u - s
    BY <1>1, <1>3, <1>4, <1>8, <1>10, <2>2, <2>3
  <2>5. n \in Int
    BY <1>1, <1>8
  <2>6. k * SpanSize <= x
    BY ONLY <1>10, <1>13, <2>4, <2>5
  <2>7. k <= x \div SpanSize
    BY <1>1, <1>13, <2>2, <2>6, QuotientBounds
  <2> QED
    BY <2>1, <2>7
<1>15. SpansFor(Len(toks)) = c + 1
  BY <1>1, <1>3, SpansOfPrompt
<1>16. x \div SpanSize \in Int
  BY <1>1, <1>13, Quotient
<1> QED
  BY <1>3, <1>7, <1>8, <1>9, <1>12, <1>14, <1>15, <1>16

\* MakeRoom evicts none of the GPU hits it counted on.
LEMMA HitsStay ==
  ASSUME NEW m, NEW n, OrderOK(m.table), NEW toks \in Seq(Tokens), Len(toks) >= 1,
         NEW T, NEW V, NEW G, G = OnGpu(m, CachedRun(m, toks)), RoomEffect(m, n, G, T, V)
  PROVE  G \subseteq OnGpu(n, CachedRun(n, toks))
<1>1. Closed(G) /\ G \subseteq DOMAIN n.table
  BY HitsClosed DEF RoomEffect, OnGpu
<1>2. G \subseteq HashedPrefixes(toks)
  BY DEF OnGpu, CachedRun
<1>3. PICK c : c = HashedCount(toks)
  OBVIOUS
<1>4. /\ c \in Nat /\ c * SpanSize < Len(toks) /\ HashedPrefixes(toks) = FirstPrefixes(toks, c)
      /\ SpanSize \in Nat \ {0} /\ Len(toks) \in Nat
  BY <1>3, HashedFacts, PrefixCacheAssumption
<1>5. c * SpanSize <= Len(toks)
  BY <1>4
<1> SUFFICES ASSUME NEW h \in G, NEW g \in HashedPrefixes(toks), Len(g) <= Len(h)
             PROVE  g \in DOMAIN n.table
  BY <1>1, <1>2 DEF OnGpu, CachedRun
<1>6. PICK i, j : i = Len(g) \div SpanSize /\ j = Len(h) \div SpanSize
  OBVIOUS
<1>7. /\ i \in 1..c /\ g = PrefixAt(toks, i) /\ Len(g) = i * SpanSize
      /\ j \in 1..c /\ h = PrefixAt(toks, j) /\ Len(h) = j * SpanSize
      /\ j * SpanSize <= Len(toks)
  <2>1. /\ \A e \in FirstPrefixes(toks, c) :
             /\ Len(e) \div SpanSize \in 1..c
             /\ e = PrefixAt(toks, Len(e) \div SpanSize)
             /\ Len(e) = (Len(e) \div SpanSize) * SpanSize
        /\ \A e \in 1..c : e * SpanSize <= Len(toks)
    BY <1>4, <1>5, FirstPrefixesFacts
  <2>2. g \in FirstPrefixes(toks, c) /\ h \in FirstPrefixes(toks, c)
    BY <1>2, <1>4
  <2> QED
    BY ONLY <1>6, <2>1, <2>2
<1>8. i \in 1..j
  <2>1. i \in Int /\ j \in Int /\ i * SpanSize <= j * SpanSize
    BY <1>7
  <2>2. ~(j < i)
    <3> SUFFICES ASSUME j < i PROVE FALSE
      OBVIOUS
    <3>1. j * SpanSize + SpanSize <= i * SpanSize
      BY <1>4, <2>1, Multiples
    <3>2. PICK u, v : u = j * SpanSize /\ v = i * SpanSize
      OBVIOUS
    <3>3. u \in Int /\ v \in Int
      BY <1>4, <2>1, <3>2
    <3> QED
      BY <1>4, <2>1, <3>1, <3>2, <3>3
  <2> QED
    BY <1>7, <2>1, <2>2
<1>9. PrefixAt(h, i) = g
  <2>1. j \in Nat
    BY <1>7
  <2>2. SubSeq(PrefixAt(toks, j), 1, i * SpanSize) = PrefixAt(toks, i)
    BY <1>7, <1>8, <2>1, PrefixFacts
  <2> QED
    BY <1>7, <2>2 DEF PrefixAt
<1>10. g \in G
  BY <1>6, <1>8, <1>9, <1>1 DEF Closed
<1> QED
  BY <1>1, <1>10

\* With the frame test passed, the context phase claims all it needs.
LEMMA PrefillFits ==
  ASSUME NEW m0, NEW m, NEW B, NEW L, TableOK(m), OwnOK(m, B, L), m.fault = {}, NEW T \in Nat,
         NEW toks \in Prompts, NEW G0, G0 = OnGpu(m0, CachedRun(m0, toks)),
         G0 \subseteq OnGpu(m, CachedRun(m, toks)), ContextFrames(m0, toks) <= CountFree(m),
         NEW f, f = RefFill(m, toks, T), NEW p, p = FillUp(f.m, toks, f.cache)
  PROVE  p.m.fault = {}
<1>1. PICK R, G, C : R = CachedRun(m, toks) /\ G = OnGpu(m, R) /\ C = OnlyOnCpu(m, R)
  OBVIOUS
<1>2. toks \in Seq(Tokens) /\ Len(toks) >= 1 /\ Len(toks) \in Nat
  BY PrefixCacheAssumption
<1>3. PICK k \in 0..HashedCount(toks) : RunLength(m, toks, k)
  BY <1>2, CachedRunFacts
<1>4. k \in Nat /\ k * SpanSize <= Len(toks) /\ k <= HashedCount(toks) /\ HashedCount(toks) \in Nat
  <2>1. HashedCount(toks) \in Nat /\ HashedCount(toks) * SpanSize < Len(toks)
    BY <1>2, HashedFacts
  <2>2. SpanSize \in Nat \ {0}
    BY PrefixCacheAssumption
  <2>3. k \in Nat /\ k * SpanSize <= HashedCount(toks) * SpanSize
    BY <2>1, <2>2, Multiples
  <2> QED
    BY <1>2, <2>1, <2>2, <2>3
<1>5. R = FirstPrefixes(toks, k)
  BY <1>1, <1>3 DEF RunLength
<1>6. IsFiniteSet(R) /\ Cardinality(R) = k
  BY <1>2, <1>4, <1>5, FirstPrefixesFacts
<1>7. G \cup C = R /\ G \cap C = {}
  BY <1>1 DEF OnGpu, OnlyOnCpu
<1>8. IsFiniteSet(G) /\ IsFiniteSet(C)
  <2>1. G \subseteq R /\ C \subseteq R
    BY <1>7
  <2> QED
    BY <1>6, <2>1, FS_Subset
<1>9. PICK g, c, g0 : g = Cardinality(G) /\ c = Cardinality(C) /\ g0 = Cardinality(G0)
  OBVIOUS
<1>10. g \in Nat /\ c \in Nat /\ g + c = k
  <2>1. Cardinality(G \cup C) = Cardinality(G) + Cardinality(C) - Cardinality(G \cap C)
    BY <1>8, FS_Union
  <2>2. Cardinality(G) \in Nat /\ Cardinality(C) \in Nat
    BY <1>8, FS_CardinalityType
  <2>3. Cardinality(G \cap C) = 0
    BY <1>7, FS_EmptySet
  <2>4. Cardinality(G \cup C) = k
    BY <1>6, <1>7
  <2> QED
    BY ONLY <1>9, <2>1, <2>2, <2>3, <2>4
<1>11. g0 \in Nat /\ g0 <= g
  <2>1. G0 \subseteq G
    BY <1>1
  <2>2. IsFiniteSet(G0) /\ Cardinality(G0) <= Cardinality(G)
    BY <1>8, <2>1, FS_Subset
  <2> QED
    BY <1>9, <2>2, FS_CardinalityType
<1>12. PICK n : n = SpansFor(Len(toks))
  OBVIOUS
<1>13. n - g0 <= ContextFrames(m0, toks) /\ ContextFrames(m0, toks) \in Int
  BY <1>2, <1>9, <1>12, FramesSuffice, FramesNumber
<1>14. n = HashedCount(toks) + 1
  BY <1>2, <1>12, SpansOfPrompt DEF HashedCount
<1>15. CountFree(m) \in Nat
  BY FreeBlocksFinite
<1>16. n - g <= CountFree(m) /\ c <= CountFree(m)
  BY <1>4, <1>10, <1>11, <1>13, <1>14, <1>15
<1>17. /\ f.m.fault = {} /\ CountFree(f.m) = CountFree(m) - c
       /\ Len(f.cache) = g + c
  BY <1>1, <1>6, <1>9, <1>16, RefFillFits
<1>18. ManagerShape(f.m)
  BY RefFillGrows DEF Grows, TableOK
<1>19. Len(f.cache) \in Nat /\ n - Len(f.cache) <= CountFree(f.m)
  BY <1>4, <1>10, <1>14, <1>15, <1>16, <1>17
<1> QED
  BY <1>2, <1>12, <1>17, <1>18, <1>19, FillUpFits

-----------------------------------------------------------------------------
(* When no prompt ends with a span, the order is an invariant: a request   *)
(* touches its prompt and its generated spans with one timestamp.          *)

NoWholeSpans == \A p \in Prompts : Len(p) % SpanSize # 0

\* No node of request x is older than x.
Aged(m, x) == x.input_len % SpanSize # 0 /\ \A h \in x.nodes : x.ts <= m.table[h].ts
Ordered(m, q) == OrderOK(m.table) /\ \A r \in LiveOf(q) : Aged(m, q[r])
NotOlder(m, n) == \A h \in DOMAIN m.table \cap DOMAIN n.table : m.table[h].ts <= n.table[h].ts
SameAge(q, q2, L) ==
  \A r \in L : q2[r].nodes = q[r].nodes /\ q2[r].ts = q[r].ts /\ q2[r].input_len = q[r].input_len

LEMMA NodesClosed ==
  ASSUME NEW m, NEW q, NEW T \in Nat, CoreOK(m, q, T)
  PROVE  \A r \in LiveOf(q) : Closed(NodesOf(q)[r])
<1> SUFFICES ASSUME NEW r \in LiveOf(q) PROVE Closed(NodesOf(q)[r])
  OBVIOUS
<1>1. PICK x : x = q[r]
  OBVIOUS
<1>2. ReqOK(m, x, T) /\ NodesOf(q)[r] = x.nodes
  BY <1>1 DEF CoreOK, LiveOf, NodesOf
<1>3. PICK k : k = PromptSpans(x)
  OBVIOUS
<1>4. k \in Nat /\ k * SpanSize <= Len(x.toks)
  BY <1>2, <1>3, PromptInside
<1>5. x.toks \in Seq(Tokens) /\ x.nodes = FirstPrefixes(x.toks, k)
  BY <1>2, <1>3 DEF ReqOK
<1>6. PICK toks : toks = x.toks
  OBVIOUS
<1>7. Closed(FirstPrefixes(toks, k))
  BY <1>4, <1>5, <1>6, FirstPrefixesClosed
<1> QED
  BY <1>2, <1>5, <1>6, <1>7

\* Requests that go on, with nodes that are not older than before, and others that
\* are aged anyway.
LEMMA OrderedStays ==
  ASSUME NEW m, NEW q, NEW T, CoreOK(m, q, T), Ordered(m, q),
         NEW n, NEW q2, NEW T2, CoreOK(n, q2, T2), OrderOK(n.table), NotOlder(m, n),
         NEW K, K \subseteq LiveOf(q), K \subseteq LiveOf(q2), SameAge(q, q2, K),
         \A r \in LiveOf(q2) \ K : Aged(n, q2[r])
  PROVE  Ordered(n, q2)
<1> SUFFICES ASSUME NEW r \in K PROVE Aged(n, q2[r])
  BY DEF Ordered
<1>1. PICK x, y : x = q[r] /\ y = q2[r]
  OBVIOUS
<1>2. y.nodes = x.nodes /\ y.ts = x.ts /\ y.input_len = x.input_len /\ Aged(m, x) /\ r \in Requests
  BY <1>1 DEF SameAge, Ordered, LiveOf
<1>3. TableOK(m) /\ TableOK(n) /\ x.nodes \subseteq DOMAIN m.table /\ y.nodes \subseteq DOMAIN n.table
  BY <1>1, <1>2 DEF CoreOK, CacheOK, GpuOK, CountOK, NodesOf
<1>4. x.ts \in Nat
  BY <1>1 DEF CoreOK, ReqOK
<1>5. ASSUME NEW h \in y.nodes
      PROVE  y.ts <= n.table[h].ts
  <2>1. h \in DOMAIN m.table /\ h \in DOMAIN n.table /\ x.ts <= m.table[h].ts
    BY <1>2, <1>3 DEF Aged
  <2>2. m.table[h].ts \in Nat /\ n.table[h].ts \in Nat
    BY <1>3, <2>1 DEF TableOK
  <2>3. m.table[h].ts <= n.table[h].ts
    BY <2>1 DEF NotOlder
  <2> QED
    BY ONLY <1>2, <1>4, <2>1, <2>2, <2>3
<1> QED
  BY <1>1, <1>2, <1>5 DEF Aged

\* Making room keeps the order and the GPU hits it counted on.
LEMMA RoomOrdered ==
  ASSUME NEW m, NEW q, ReqsShape(q), NEW T \in Nat, CoreOK(m, q, T), Ordered(m, q),
         NEW r \in Requests, r \notin LiveOf(q), NEW toks \in Prompts, NEW expired,
         NEW T2, T2 = T + 1, NEW n, n = MakeRoom(m, toks, T2, expired),
         NEW G, G = OnGpu(m, CachedRun(m, toks))
  PROVE  Ordered(n, q) /\ G \subseteq OnGpu(n, CachedRun(n, toks))
<1> DEFINE B == CachesOf(q)
           N == NodesOf(q)
           L == LiveOf(q)
           V == RoomVictims(m, toks, T2)
<1>0. toks \in Seq(Tokens) /\ Len(toks) >= 1
  BY PrefixCacheAssumption
<1>1. DOMAIN N = Requests
  BY DEF NodesOf
<1>2. N[r] = {} /\ B[r] = {}
  BY FreePlace
<1>3. IsFiniteSet(L) /\ L \subseteq Requests /\ r \notin L
  BY LiveFinite
<1>4. CacheOK(m, B, N, L, T) /\ T2 \in Nat /\ T <= T2
  BY DEF CoreOK
<1>5. \A s \in L : Closed(N[s])
  BY NodesClosed
<1>6. OrderOK(m.table)
  BY DEF Ordered
<1> HIDE DEF B, N, L, V
<1>7. CacheOK(m, B, N, L, T2)
  BY <1>4, CacheLater
<1>8. r \in DOMAIN N /\ L \subseteq DOMAIN N
  BY <1>1, <1>3
<1>9. RoomEffect(m, n, G, T2, V)
  BY <1>1, <1>2, <1>3, <1>4, <1>7, <1>8, MakeRoomOK DEF V
<1>10. OrderOK(n.table)
  BY <1>0, <1>2, <1>3, <1>4, <1>5, <1>6, <1>7, <1>8, RoomOrder
<1>11. G \subseteq OnGpu(n, CachedRun(n, toks))
  BY <1>0, <1>6, <1>9, HitsStay
<1>12. CoreOK(n, q, T2)
  BY RoomOK
<1>13. NotOlder(m, n)
  <2>1. \A h \in DOMAIN m.table : m.table[h].ts \in Nat
    BY <1>4 DEF CacheOK, GpuOK, TableOK
  <2>2. \A h \in DOMAIN n.table : n.table[h].ts = IF h \in G THEN Later(m.table[h].ts, T2) ELSE m.table[h].ts
    BY <1>9 DEF RoomEffect
  <2> QED
    BY ONLY <1>4, <2>1, <2>2 DEF NotOlder, Later
<1>14. Ordered(n, q)
  <2>1. PICK K : K = LiveOf(q)
    OBVIOUS
  <2>2. SameAge(q, q, K) /\ K \subseteq LiveOf(q) /\ \A s \in LiveOf(q) \ K : Aged(n, q[s])
    BY <2>1 DEF SameAge
  <2> QED
    BY <1>10, <1>12, <1>13, <2>2, OrderedStays
<1> QED
  BY <1>11, <1>14

\* With the frame test passed, the request can be started.
LEMMA StartFits ==
  ASSUME NEW m0, NEW q, ReqsShape(q), NEW T \in Nat, CoreOK(m0, q, T), m0.fault = {}, Ordered(m0, q),
         NEW r \in Requests, r \notin LiveOf(q), NEW toks \in Prompts, NEW expired,
         NEW T2, T2 = T + 1, NEW m, m = MakeRoom(m0, toks, T2, expired),
         NEW f, f = RefFill(m, toks, T2), NEW p, p = FillUp(f.m, toks, f.cache),
         ContextFrames(m0, toks) <= CountFree(m)
  PROVE  StartInput(m0, q, T, r, toks, expired, T2, m, f, p) /\ Ordered(m, q) /\ CoreOK(m, q, T2)
<1>1. PICK G : G = OnGpu(m0, CachedRun(m0, toks))
  OBVIOUS
<1>2. Ordered(m, q) /\ G \subseteq OnGpu(m, CachedRun(m, toks))
  BY <1>1, RoomOrdered
<1>3. CoreOK(m, q, T2) /\ m.fault = {}
  BY RoomOK
<1>4. PICK B, L : B = CachesOf(q) /\ L = LiveOf(q)
  OBVIOUS
<1>5. TableOK(m) /\ OwnOK(m, B, L) /\ T2 \in Nat
  BY <1>3, <1>4 DEF CoreOK, CacheOK, GpuOK
<1>6. p.m.fault = {}
  BY <1>1, <1>2, <1>3, <1>5, PrefillFits
<1> QED
  BY <1>2, <1>3, <1>6 DEF StartInput

\* A started request.
LEMMA StartOrder ==
  ASSUME NoWholeSpans, NEW m0, NEW m, NEW q, ReqsShape(q), NEW T2 \in Nat, CoreOK(m, q, T2), Ordered(m, q),
         NEW r \in Requests, r \notin LiveOf(q), NEW toks \in Prompts, NEW nodes, NEW n,
         NEW t, NEW cache, NEW q2, q2 = StartedBatch(q, r, toks, t, T2, cache, nodes),
         Started(m0, q, r, m, n, toks, nodes, q2, T2)
  PROVE  Ordered(n, q2)
<1>0. toks \in Seq(Tokens) /\ Len(toks) >= 1 /\ Len(toks) \in Nat /\ SpanSize \in Nat \ {0}
  BY PrefixCacheAssumption
<1>1. /\ CoreOK(n, q2, T2) /\ LiveOf(q2) = LiveOf(q) \cup {r}
      /\ TouchedAt(m.table, n.table, nodes, T2) /\ nodes = FirstPrefixes(toks, HashedCount(toks))
  BY DEF Started
<1>2. Closed(nodes)
  <2>1. PICK c : c = HashedCount(toks)
    OBVIOUS
  <2>2. c \in Nat /\ c * SpanSize < Len(toks)
    BY <1>0, <2>1, HashedFacts
  <2>3. c * SpanSize <= Len(toks)
    BY <1>0, <2>2
  <2> QED
    BY <1>0, <1>1, <2>1, <2>2, <2>3, FirstPrefixesClosed
<1>3. \A h \in DOMAIN m.table : m.table[h].ts \in Nat
  BY DEF CoreOK, CacheOK, GpuOK, TableOK
<1>4. OrderOK(n.table)
  <2>1. Timed(m.table) /\ OrderOK(m.table)
    BY <1>3 DEF Timed, Ordered
  <2> QED
    BY <1>1, <1>2, <2>1, TouchKeepsOrder
<1>5. NotOlder(m, n)
  <2>1. \A h \in DOMAIN m.table : n.table[h].ts = IF h \in nodes THEN Later(m.table[h].ts, T2) ELSE m.table[h].ts
    BY <1>1 DEF TouchedAt
  <2> QED
    BY ONLY T2 \in Nat, <1>3, <2>1 DEF NotOlder, Later
<1>6. PICK x : x = [live |-> TRUE, toks |-> Append(toks, t), input_len |-> Len(toks),
                    kv_len |-> Len(toks), ts |-> T2, cache |-> cache, nodes |-> nodes]
  OBVIOUS
<1>7. q2 = [q EXCEPT ![r] = x] /\ DOMAIN q = Requests
  BY <1>6 DEF StartedBatch, ReqsShape
<1>8. q2[r] = x /\ \A s \in Requests : s # r => q2[s] = q[s]
  BY <1>7
<1>9. x.nodes = nodes /\ x.ts = T2 /\ x.input_len = Len(toks)
  BY <1>6
<1>10. Aged(n, q2[r])
  <2>1. Len(toks) % SpanSize # 0
    BY DEF NoWholeSpans
  <2>2. ASSUME NEW h \in nodes
        PROVE  T2 <= n.table[h].ts
    <3>1. h \in DOMAIN m.table => n.table[h].ts = Later(m.table[h].ts, T2) /\ m.table[h].ts \in Nat
      BY <1>1, <1>3 DEF TouchedAt
    <3>2. h \notin DOMAIN m.table => n.table[h].ts = T2
      BY <1>1 DEF TouchedAt
    <3> QED
      BY ONLY T2 \in Nat, <3>1, <3>2 DEF Later
  <2> QED
    BY <1>8, <1>9, <2>1, <2>2 DEF Aged
<1>11. PICK K : K = LiveOf(q)
  OBVIOUS
<1>12. /\ K \subseteq LiveOf(q) /\ K \subseteq LiveOf(q2) /\ SameAge(q, q2, K)
       /\ \A s \in LiveOf(q2) \ K : Aged(n, q2[s])
  <2>1. \A s \in K : s \in Requests /\ s # r
    BY <1>11 DEF LiveOf
  <2> QED
    BY <1>1, <1>8, <1>10, <1>11, <2>1 DEF SameAge
<1> QED
  BY <1>1, <1>4, <1>5, <1>12, OrderedStays

\* Stopping a user whose nodes, with the late ones, are closed and not older than it.
LEMMA StopOrder ==
  ASSUME NEW m, NEW B, NEW N, NEW L, NEW T \in Nat, IsFiniteSet(L), CacheOK(m, B, N, L, T), m.fault = {},
         NEW r \in L, NEW q, Stoppable(m, q, T), B[r] = Range(q.cache), N[r] = q.nodes,
         NEW expired, NEW n, n = StopContext(m, q, expired), OrderOK(m.table),
         \A s \in L : Closed(N[s]), Closed(q.nodes \cup LateNodes(q)), \A h \in q.nodes : q.ts <= m.table[h].ts
  PROVE  OrderOK(n.table) /\ NotOlder(m, n)
<1>1. PICK j, d, N2 : StopsBy(m, B, N, L, r, T, q, expired, n, j, d, N2)
  BY StopParts
<1>2. /\ InsertedTable(m, j, LateNodes(q), q.ts) /\ SameNodes(j, d) /\ CacheOK(d, B, N2, L \ {r}, T)
      /\ \A s \in L \ {r} : N2[s] = N[s]
  BY <1>1 DEF StopsBy
<1>3. PICK k : k = Cardinality(d.evictor)
  OBVIOUS
<1>4. n = IF warm THEN evict_unrefered_by_num(d, k, expired) ELSE d
  BY <1>1, <1>3 DEF StopsBy
<1>5. PICK G, ts : G = q.nodes \cup LateNodes(q) /\ ts = q.ts
  OBVIOUS
<1>6. /\ q.nodes \subseteq DOMAIN m.table /\ ts \in Nat /\ q.nodes \cap LateNodes(q) = {}
      /\ \A h \in DOMAIN m.table : m.table[h].ts \in Nat
  BY <1>5 DEF CacheOK, GpuOK, CountOK, TableOK, Stoppable
<1>7. TouchedAt(m.table, j.table, G, ts)
  <2>1. DOMAIN j.table = DOMAIN m.table \cup G
    BY <1>2, <1>5, <1>6 DEF InsertedTable
  <2>2. ASSUME NEW h \in DOMAIN m.table
        PROVE  j.table[h].ts = IF h \in G THEN Later(m.table[h].ts, ts) ELSE m.table[h].ts
    <3>1. j.table[h].ts = IF h \in LateNodes(q) THEN Later(m.table[h].ts, ts) ELSE m.table[h].ts
      BY <1>2, <1>5 DEF InsertedTable
    <3>2. h \in q.nodes => ts <= m.table[h].ts
      BY <1>5
    <3>3. m.table[h].ts \in Nat
      BY <1>6
    <3>4. h \in q.nodes => Later(m.table[h].ts, ts) = m.table[h].ts
      BY ONLY <1>6, <3>2, <3>3 DEF Later
    <3> QED
      BY <1>5, <3>1, <3>4
  <2>3. \A h \in G \ DOMAIN m.table : j.table[h].ts = ts
    BY <1>2, <1>5, <1>6 DEF InsertedTable
  <2> QED
    BY <2>1, <2>2, <2>3 DEF TouchedAt
<1>8. OrderOK(j.table) /\ Timed(j.table)
  <2>1. Timed(m.table) /\ Closed(G)
    BY <1>5, <1>6 DEF Timed
  <2> QED
    BY <1>6, <1>7, <2>1, TouchKeepsOrder
<1>9. DOMAIN d.table = DOMAIN j.table /\ \A h \in DOMAIN d.table : d.table[h].ts = j.table[h].ts
  BY <1>2 DEF SameNodes
<1>10. OrderOK(d.table)
  BY <1>8, <1>9, SameKeepsOrder
<1>11. OrderOK(n.table) /\ \A h \in DOMAIN n.table : h \in DOMAIN d.table /\ n.table[h].ts = d.table[h].ts
  <2>1. CASE warm
    <3>1. PICK M : M = L \ {r}
      OBVIOUS
    <3>2. IsFiniteSet(M) /\ CacheOK(d, B, N2, M, T) /\ \A s \in M : Closed(N2[s])
      BY <1>2, <3>1, FS_RemoveElement
    <3>3. k \in Int
      <4>1. d.evictor \subseteq DOMAIN d.table /\ IsFiniteSet(DOMAIN d.table)
        BY <1>2 DEF CacheOK, GpuOK, TableOK
      <4> QED
        BY <1>3, <4>1, FS_Subset, FS_CardinalityType
    <3>4. n = evict_unrefered_by_num(d, k, expired) /\ T \in Nat
      BY <1>4, <2>1
    <3> QED
      BY ONLY <1>10, <3>2, <3>3, <3>4, EvictOrder
  <2>2. CASE ~warm
    BY <1>4, <1>10, <2>2
  <2> QED
    BY <2>1, <2>2
<1>12. NotOlder(m, n)
  <2> SUFFICES ASSUME NEW h \in DOMAIN m.table, h \in DOMAIN n.table PROVE m.table[h].ts <= n.table[h].ts
    BY DEF NotOlder
  <2>1. n.table[h].ts = j.table[h].ts
    BY <1>9, <1>11
  <2>2. j.table[h].ts = IF h \in G THEN Later(m.table[h].ts, ts) ELSE m.table[h].ts
    BY <1>7 DEF TouchedAt
  <2>3. m.table[h].ts \in Nat
    BY <1>6
  <2> QED
    BY ONLY <1>6, <2>1, <2>2, <2>3 DEF Later
<1> QED
  BY <1>11, <1>12

\* Inside a span the token before is of the same span.
LEMMA InsideSpan ==
  ASSUME NEW n \in Nat, NEW d \in Nat \ {0}, n % d # 0
  PROVE  (n - 1) \div d = n \div d
<1> DEFINE q == n \div d
           p == (n - 1) \div d
           m == n % d
<1>1. n \in Int /\ n - 1 \in Int
  OBVIOUS
<1>2. q \in Int /\ q * d <= n /\ n < q * d + d
  BY <1>1, Quotient
<1>3. m = n - q * d /\ m # 0
  BY <1>1
<1>4. p \in Int
  BY <1>1, Quotient
<1> HIDE DEF q, p, m
<1>5. q * d \in Int
  BY <1>2
<1>6. q * d <= n - 1 /\ n - 1 < q * d + d
  BY <1>1, <1>2, <1>3, <1>5
<1>7. q <= p /\ p <= q
  BY <1>1, <1>2, <1>6, QuotientBounds DEF p
<1> QED
  BY <1>2, <1>4, <1>7 DEF q, p

\* The spans of a request whose prompt does not end with one are closed.
LEMMA LateClosed ==
  ASSUME NEW m, NEW x, NEW T \in Nat, ReqOK(m, x, T), x.input_len % SpanSize # 0
  PROVE  Closed(x.nodes \cup LateNodes(x))
<1>1. PICK toks, a, k : toks = x.toks /\ a = x.input_len /\ k = a \div SpanSize
  OBVIOUS
<1>2. /\ toks \in Seq(Tokens) /\ x.kv_len \in Nat /\ Len(toks) = x.kv_len + 1 /\ a \in Nat /\ a >= 1
      /\ a <= x.kv_len /\ x.nodes = FirstPrefixes(toks, PromptSpans(x)) /\ Len(toks) \in Nat
      /\ SpanSize \in Nat \ {0}
  BY <1>1, PrefixCacheAssumption DEF ReqOK
<1>3. k \in Int
  <2>1. a \in Int
    BY <1>2
  <2> QED
    BY <1>1, <1>2, <2>1, Quotient
<1>4. PromptSpans(x) = k
  <2>1. a % SpanSize # 0
    BY <1>1
  <2>2. (a - 1) \div SpanSize = a \div SpanSize
    BY <1>2, <2>1, InsideSpan
  <2> QED
    BY <1>1, <2>2 DEF PromptSpans
<1>5. HashedCount(toks) \in Nat /\ HashedCount(toks) * SpanSize < Len(toks) /\ k \in 0..HashedCount(toks)
  <2>1. Len(toks) >= 1
    BY <1>2
  <2>2. HashedCount(toks) \in Nat /\ HashedCount(toks) * SpanSize < Len(toks)
    BY <1>2, <2>1, HashedFacts
  <2>3. HashedCount(toks) = x.kv_len \div SpanSize
    BY <1>2 DEF HashedCount
  <2>4. PICK b : b = x.kv_len
    OBVIOUS
  <2>5. b \in Int /\ a \in Int /\ a <= b
    BY <1>2, <2>4
  <2>6. a \div SpanSize <= b \div SpanSize
    BY <1>2, <2>5, QuotientGrows
  <2>7. PromptSpans(x) \in Nat
    BY PromptInside
  <2> QED
    BY <1>1, <1>4, <2>2, <2>3, <2>4, <2>6, <2>7
<1>6. PICK H, c : H = LateNodes(x) /\ c = HashedCount(toks)
  OBVIOUS
<1>7. H = {h \in HashedPrefixes(toks) : Len(h) > k * SpanSize}
  BY <1>1, <1>6 DEF LateNodes
<1>8. FirstPrefixes(toks, k) \cup H = FirstPrefixes(toks, c)
  <2>1. Len(toks) >= 1
    BY <1>2
  <2> QED
    BY <1>2, <1>5, <1>6, <1>7, <2>1, PrefixesSplit
<1>9. Closed(FirstPrefixes(toks, c))
  <2>1. c \in Nat /\ c * SpanSize <= Len(toks)
    BY <1>2, <1>5, <1>6
  <2> QED
    BY <1>2, <2>1, FirstPrefixesClosed
<1> QED
  BY <1>2, <1>4, <1>6, <1>8, <1>9

-----------------------------------------------------------------------------
(* No step commits a fault, and every step keeps the order.                *)

SafeInv == CoreInv /\ NothingImpossible /\ Ordered(mgr, req)

\* What a safe state is, by name.
SafeAt(m, q, T) ==
  /\ ManagerShape(m) /\ T \in Nat /\ ReqsShape(q) /\ CoreOK(m, q, T) /\ m.fault = {} /\ Ordered(m, q)

LEMMA SafeGives ==
  ASSUME SafeInv PROVE SafeAt(mgr, req, clock)
BY DEF SafeInv, CoreInv, Good, NothingImpossible, SafeAt

LEMMA DeniedSafe ==
  ASSUME SafeInv, NEW toks \in Prompts, NEW expired, LiveOf(req) # Requests, ContextDenied(toks, expired)
  PROVE  mgr'.fault = {} /\ Ordered(mgr', req')
<1>1. PICK m, q, T, n, T2, r : m = mgr /\ q = req /\ T = clock /\ n = mgr' /\ T2 = clock' /\ r = NewPlace
  OBVIOUS
<1>2. SafeAt(m, q, T)
  BY <1>1, SafeGives
<1>3. T2 = T + 1 /\ req' = q /\ n = MakeRoom(m, toks, T2, expired)
  BY <1>1 DEF ContextDenied
<1>4. r \in Requests /\ r \notin LiveOf(q)
  BY <1>1, NewPlaceFree
<1>5. T \in Nat /\ ReqsShape(q) /\ CoreOK(m, q, T) /\ m.fault = {} /\ Ordered(m, q)
  BY <1>2 DEF SafeAt
<1>6. PICK G : G = OnGpu(m, CachedRun(m, toks))
  OBVIOUS
<1>7. Ordered(n, q)
  BY <1>3, <1>4, <1>5, <1>6, RoomOrdered
<1>8. n.fault = m.fault
  BY <1>3, <1>4, <1>5, RoomOK
<1> QED
  BY <1>1, <1>3, <1>5, <1>7, <1>8

LEMMA StartSafe ==
  ASSUME NoWholeSpans, SafeInv, NEW toks \in Prompts, NEW t \in Sampled, NEW computed, NEW expired,
         LiveOf(req) # Requests, StartRequest(NewPlace, toks, t, computed, expired)
  PROVE  mgr'.fault = {} /\ Ordered(mgr', req')
<1>1. PICK m0, q, T, n, q2, T2, r : m0 = mgr /\ q = req /\ T = clock /\ n = mgr' /\ q2 = req' /\ T2 = clock' /\ r = NewPlace
  OBVIOUS
<1>2. PICK m : m = MakeRoom(m0, toks, T2, expired)
  OBVIOUS
<1>3. PICK f : f = RefFill(m, toks, T2)
  OBVIOUS
<1>4. PICK p : p = FillUp(f.m, toks, f.cache)
  OBVIOUS
<1>5. PICK start, cache, d : start = Cardinality(f.nodes) * SpanSize /\ cache = p.cache /\ d = p.m
  OBVIOUS
<1>6. PICK i : i = Insert(d, toks, start, T2, cache)
  OBVIOUS
<1>7. T2 = T + 1
  BY <1>1 DEF StartRequest
<1>8. (n = i.m \/ \E kv : n = [i.m EXCEPT !.kv = kv]) /\ ContextFrames(m0, toks) <= CountFree(m)
  <2>1. PICK W : W = Range(p.cache) \ Range(f.cache)
    OBVIOUS
  <2>2. /\ n = IF computed THEN i.m ELSE Uncomputed(i.m, W)
        /\ ContextFrames(m0, toks) <= CountFree(m)
    BY <1>1, <1>2, <1>3, <1>4, <1>5, <1>6, <1>7, <2>1 DEF StartRequest
  <2> QED
    BY <2>2 DEF Uncomputed
<1>9. PICK nodes : nodes = f.nodes \cup i.nodes
  OBVIOUS
<1>10. q2 = StartedBatch(q, r, toks, t, T2, cache, nodes)
  BY <1>1, <1>2, <1>3, <1>4, <1>5, <1>6, <1>7, <1>9 DEF StartRequest, StartedBatch
<1>11. SafeAt(m0, q, T)
  BY <1>1, SafeGives
<1>12. T \in Nat /\ ReqsShape(q) /\ CoreOK(m0, q, T) /\ m0.fault = {} /\ Ordered(m0, q) /\ T2 \in Nat
  BY <1>7, <1>11 DEF SafeAt
<1>13. r \in Requests /\ r \notin LiveOf(q)
  BY <1>1, NewPlaceFree
<1>14. StartInput(m0, q, T, r, toks, expired, T2, m, f, p) /\ Ordered(m, q) /\ CoreOK(m, q, T2)
  BY <1>2, <1>3, <1>4, <1>7, <1>8, <1>12, <1>13, StartFits
<1>15. Started(m0, q, r, m, i.m, toks, nodes, q2, T2)
  <2>1. StartInput(m0, q, T, r, toks, expired, T2, m, f, p) /\ t \in Sampled
    BY <1>14
  <2> QED
    BY ONLY <1>5, <1>6, <1>9, <1>10, <2>1, StartOK
<1>16. Started(m0, q, r, m, n, toks, nodes, q2, T2)
  <2>1. ManagerShape(i.m)
    BY <1>15 DEF Started, CoreOK, CacheOK, GpuOK, TableOK
  <2>2. n = i.m \/ SameButKv(i.m, n)
    BY <1>8, <2>1, SetKv
  <2> QED
    BY ONLY <1>15, <2>2, StartedAnyKv
<1>17. Ordered(n, q2)
  BY <1>10, <1>12, <1>13, <1>14, <1>16, StartOrder
<1>18. n.fault = {}
  BY <1>16 DEF Started
<1> QED
  BY <1>1, <1>17, <1>18

\* The context phase throws.
LEMMA FailsOrder ==
  ASSUME NEW m0, NEW q, NEW T, NEW r, NEW toks, NEW expired, NEW T2, NEW m, NEW f, NEW p,
         StartInput(m0, q, T, r, toks, expired, T2, m, f, p), Ordered(m, q),
         NEW d, d = p.m, NEW x, x.toks = toks, x.input_len = Len(toks), x.ts = T2, x.cache = p.cache, x.nodes = f.nodes,
         NEW n, n = StopContext(d, x, expired)
  PROVE  n.fault = {} /\ Ordered(n, q)
<1> DEFINE L == LiveOf(q)
           U == L \cup {r}
<1>1. PICK B2, N2 : StartBegun(m0, q, T2, r, toks, m, f, p, B2, N2)
  BY StartBegins
<1>2. /\ CoreOK(m, q, T2) /\ PrefillGives(m, d, q, r, toks, f, p, B2, N2, T2)
      /\ B2[r] = Range(x.cache) /\ N2[r] = x.nodes
      /\ \A s \in L : N2[s] = NodesOf(q)[s]
  BY <1>1 DEF StartBegun
<1>3. /\ ReqsShape(q) /\ T2 \in Nat /\ r \in Requests /\ r \notin L /\ d.fault = {}
      /\ toks \in Prompts
  BY DEF StartInput
<1>4. toks \in Seq(Tokens) /\ Len(toks) >= 1 /\ Len(toks) \in Nat /\ IsFiniteSet(L) /\ SpanSize \in Nat \ {0}
  BY <1>3, PrefixCacheAssumption, LiveFinite
<1>5. IsFiniteSet(U) /\ r \in U
  BY <1>3, <1>4, FS_AddElement
<1>6. /\ CacheOK(d, B2, N2, U, T2) /\ TouchedAt(m.table, d.table, f.nodes, T2)
      /\ x.cache \in Seq(Blocks) /\ IsInjective(x.cache)
      /\ \E k \in 0..HashedCount(toks) : f.nodes = FirstPrefixes(toks, k)
  BY <1>2 DEF PrefillGives, VirtualCache
<1>7. LateNodes(x) = {}
  BY <1>4, NoLateNodes
<1>8. Stoppable(d, x, T2)
  BY <1>3, <1>4, <1>6, <1>7 DEF Stoppable, Addable
<1>9. Closed(f.nodes)
  <2>1. PICK k \in 0..HashedCount(toks) : f.nodes = FirstPrefixes(toks, k)
    BY <1>6
  <2>2. HashedCount(toks) \in Nat /\ HashedCount(toks) * SpanSize < Len(toks)
    BY <1>4, HashedFacts
  <2>3. k \in Nat /\ k * SpanSize <= HashedCount(toks) * SpanSize
    BY <1>4, <2>2, Multiples
  <2>4. k * SpanSize <= Len(toks)
    BY <1>4, <2>2, <2>3
  <2> QED
    BY <1>4, <2>1, <2>3, <2>4, FirstPrefixesClosed
<1>10. \A h \in DOMAIN m.table : m.table[h].ts \in Nat
  BY <1>2 DEF CoreOK, CacheOK, GpuOK, TableOK
<1>11. OrderOK(d.table)
  <2>1. Timed(m.table) /\ OrderOK(m.table)
    BY <1>10 DEF Timed, Ordered
  <2> QED
    BY <1>3, <1>6, <1>9, <2>1, TouchKeepsOrder
<1>12. \A h \in DOMAIN m.table : d.table[h].ts = IF h \in f.nodes THEN Later(m.table[h].ts, T2) ELSE m.table[h].ts
  BY <1>6 DEF TouchedAt
<1>13. \A h \in x.nodes : x.ts <= d.table[h].ts
  <2> SUFFICES ASSUME NEW h \in f.nodes PROVE T2 <= d.table[h].ts
    OBVIOUS
  <2>1. h \notin DOMAIN m.table => d.table[h].ts = T2
    BY <1>6 DEF TouchedAt
  <2> QED
    BY ONLY <1>3, <1>10, <1>12, <2>1, h \in f.nodes DEF Later
<1>14. NotOlder(m, d)
  BY ONLY <1>3, <1>10, <1>12 DEF NotOlder, Later
<1>15. \A s \in U : Closed(N2[s])
  <2>1. \A s \in L : Closed(NodesOf(q)[s])
    BY <1>2, <1>3, NodesClosed
  <2> QED
    BY <1>2, <1>9, <2>1
<1>16. Closed(x.nodes \cup LateNodes(x))
  <2>1. x.nodes \cup LateNodes(x) = f.nodes
    BY <1>7
  <2> QED
    BY <1>9, <2>1
<1> HIDE DEF L, U
<1>17. T2 \in Nat /\ CacheOK(d, B2, N2, U, T2) /\ d.fault = {} /\ B2[r] = Range(x.cache) /\ N2[r] = x.nodes
  BY <1>2, <1>3, <1>6
<1>18. n = StopContext(d, x, expired)
  OBVIOUS
<1>19. OrderOK(n.table) /\ NotOlder(d, n)
  BY ONLY <1>5, <1>8, <1>11, <1>13, <1>15, <1>16, <1>17, <1>18, StopOrder
<1>20. n.fault = {}
  <2>1. T2 \in Nat /\ IsFiniteSet(U) /\ CacheOK(d, B2, N2, U, T2) /\ d.fault = {} /\ r \in U
    BY ONLY <1>5, <1>17
  <2>2. Stoppable(d, x, T2) /\ B2[r] = Range(x.cache) /\ N2[r] = x.nodes
    BY ONLY <1>8, <1>17
  <2>3. NoCapture(d, n, B2, U \ {r}) /\ Keeps(d, n, N2, U \ {r}) /\ n.fault = {}
    BY ONLY <2>1, <2>2, <1>18, StopContextOK
  <2> QED
    BY ONLY <2>3
<1>21. CoreOK(n, q, T2)
  <2>1. StartInput(m0, q, T, r, toks, expired, T2, m, f, p)
    OBVIOUS
  <2>2. d = p.m /\ x.toks = toks /\ x.input_len = Len(toks) /\ x.ts = T2 /\ x.cache = p.cache /\ x.nodes = f.nodes
    OBVIOUS
  <2>3. CoreOK(n, q, T2) /\ Keeps(m0, n, NodesOf(q), LiveOf(q))
    BY ONLY <1>18, <2>1, <2>2, StartFailsOK
  <2> QED
    BY <2>3
<1>22. \A h \in DOMAIN m.table : h \in DOMAIN d.table /\ d.table[h].ts \in Nat
  BY <1>6 DEF TouchedAt, CacheOK, GpuOK, TableOK
<1>23. NotOlder(m, n)
  <2> SUFFICES ASSUME NEW h \in DOMAIN m.table, h \in DOMAIN n.table PROVE m.table[h].ts <= n.table[h].ts
    BY DEF NotOlder
  <2>1. h \in DOMAIN d.table /\ d.table[h].ts \in Nat /\ m.table[h].ts \in Nat
    BY <1>10, <1>22
  <2>2. m.table[h].ts <= d.table[h].ts /\ d.table[h].ts <= n.table[h].ts
    BY <1>14, <1>19, <2>1 DEF NotOlder
  <2>3. n.table[h].ts \in Nat
    BY <1>21 DEF CoreOK, CacheOK, GpuOK, TableOK
  <2> QED
    BY ONLY <2>1, <2>2, <2>3
<1>24. Ordered(n, q)
  <2>1. PICK K : K = LiveOf(q)
    OBVIOUS
  <2>2. SameAge(q, q, K) /\ K \subseteq LiveOf(q) /\ \A s \in LiveOf(q) \ K : Aged(n, q[s])
    BY <2>1 DEF SameAge
  <2>3. CoreOK(m, q, T2) /\ Ordered(m, q) /\ OrderOK(n.table)
    BY <1>2, <1>19
  <2> QED
    BY ONLY <1>21, <1>23, <2>2, <2>3, OrderedStays
<1> QED
  BY <1>20, <1>24

LEMMA FailsSafe ==
  ASSUME SafeInv, NEW toks \in Prompts, NEW expired, LiveOf(req) # Requests, StartFails(toks, expired)
  PROVE  mgr'.fault = {} /\ Ordered(mgr', req')
<1>1. PICK m0, q, T, n, T2 : m0 = mgr /\ q = req /\ T = clock /\ n = mgr' /\ T2 = clock'
  OBVIOUS
<1>2. PICK m : m = MakeRoom(m0, toks, T2, expired)
  OBVIOUS
<1>3. PICK f : f = RefFill(m, toks, T2)
  OBVIOUS
<1>4. PICK p : p = FillUp(f.m, toks, f.cache)
  OBVIOUS
<1>5. PICK cache, d, k, nodes : cache = p.cache /\ d = p.m /\ k = Len(toks) /\ nodes = f.nodes
  OBVIOUS
<1>6. PICK x : x = [NoRequest EXCEPT !.toks = toks, !.input_len = k, !.ts = T2, !.cache = cache, !.nodes = nodes]
  OBVIOUS
<1>7. T2 = T + 1 /\ req' = q
  BY <1>1 DEF StartFails
<1>8. n = StopContext(d, x, expired) /\ ContextFrames(m0, toks) <= CountFree(m)
  BY <1>1, <1>2, <1>3, <1>4, <1>5, <1>6, <1>7 DEF StartFails
<1>9. x.toks = toks /\ x.input_len = k /\ x.ts = T2 /\ x.cache = cache /\ x.nodes = nodes
  BY <1>6 DEF NoRequest
<1>10. SafeAt(m0, q, T)
  BY <1>1, SafeGives
<1>11. T \in Nat /\ ReqsShape(q) /\ CoreOK(m0, q, T) /\ m0.fault = {} /\ Ordered(m0, q)
  BY <1>10 DEF SafeAt
<1>12. PICK r : r \in Requests /\ r \notin LiveOf(q)
  BY <1>1, NewPlaceFree
<1>13. StartInput(m0, q, T, r, toks, expired, T2, m, f, p) /\ Ordered(m, q) /\ CoreOK(m, q, T2)
  BY <1>2, <1>3, <1>4, <1>7, <1>8, <1>11, <1>12, StartFits
<1>14. StartInput(m0, q, T, r, toks, expired, T2, m, f, p) /\ Ordered(m, q)
  BY <1>13
<1>15. d = p.m /\ x.toks = toks /\ x.input_len = Len(toks) /\ x.ts = T2 /\ x.cache = p.cache /\ x.nodes = f.nodes
  BY <1>5, <1>9
<1>16. n.fault = {} /\ Ordered(n, q)
  BY ONLY <1>8, <1>14, <1>15, FailsOrder
<1> QED
  BY <1>1, <1>7, <1>16

LEMMA StopSafe ==
  ASSUME SafeInv, StopRequest
  PROVE  mgr'.fault = {} /\ Ordered(mgr', req')
<1>1. PICK m, q, T, n, q2 : m = mgr /\ q = req /\ T = clock /\ n = mgr' /\ q2 = req'
  OBVIOUS
<1>2. PICK r \in Live, expired \in 0..clock :
        mgr' = StopContext(mgr, req[r], expired) /\ req' = [req EXCEPT ![r] = NoRequest]
  BY DEF StopRequest
<1>3. PICK x : x = q[r]
  OBVIOUS
<1>4. r \in LiveOf(q) /\ n = StopContext(m, x, expired) /\ q2 = [q EXCEPT ![r] = NoRequest]
  BY <1>1, <1>2, <1>3 DEF Live, LiveOf
<1>5. SafeAt(m, q, T)
  BY <1>1, SafeGives
<1>6. T \in Nat /\ ReqsShape(q) /\ CoreOK(m, q, T) /\ m.fault = {} /\ Ordered(m, q)
  BY <1>5 DEF SafeAt
<1>7. PICK B, N, L : B = CachesOf(q) /\ N = NodesOf(q) /\ L = LiveOf(q)
  OBVIOUS
<1>8. IsFiniteSet(L) /\ L \subseteq Requests /\ r \in L /\ DOMAIN q = Requests
  BY <1>4, <1>6, <1>7, LiveFinite DEF ReqsShape
<1>9. CacheOK(m, B, N, L, T) /\ ReqOK(m, x, T)
  BY <1>3, <1>6, <1>7, <1>8 DEF CoreOK
<1>10. Stoppable(m, x, T)
  BY <1>6, <1>9, ReqStoppable
<1>11. B[r] = Range(x.cache) /\ N[r] = x.nodes
  BY <1>3, <1>7, <1>8 DEF CachesOf, NodesOf
<1>12. Aged(m, x) /\ OrderOK(m.table)
  BY <1>3, <1>6, <1>7, <1>8 DEF Ordered
<1>13. x.input_len % SpanSize # 0 /\ \A h \in x.nodes : x.ts <= m.table[h].ts
  BY <1>12 DEF Aged
<1>14. Closed(x.nodes \cup LateNodes(x))
  BY <1>6, <1>9, <1>13, LateClosed
<1>15. \A s \in L : Closed(N[s])
  BY <1>6, <1>7, NodesClosed
<1>16. T \in Nat /\ m.fault = {} /\ n = StopContext(m, x, expired) /\ OrderOK(m.table)
       /\ \A h \in x.nodes : x.ts <= m.table[h].ts
  BY <1>4, <1>6, <1>12, <1>13
<1>17. OrderOK(n.table) /\ NotOlder(m, n)
  BY ONLY <1>8, <1>9, <1>10, <1>11, <1>14, <1>15, <1>16, StopOrder
<1>18. /\ CacheOK(n, B, N, L \ {r}, T)
       /\ NoCapture(m, n, B, L \ {r}) /\ Keeps(m, n, N, L \ {r}) /\ n.fault = {}
  BY ONLY <1>8, <1>9, <1>10, <1>11, <1>16, StopContextOK
<1>19. CoreOK(n, q2, T) /\ ReqsShape(q2) /\ Keeps(m, n, NodesOf(q), LiveOf(q2))
  <2>1. n = StopContext(m, q[r], expired)
    BY <1>3, <1>4
  <2> QED
    BY ONLY <1>4, <1>6, <2>1, StopOK
<1>20. PICK K : K = LiveOf(q2)
  OBVIOUS
<1>21. /\ K \subseteq LiveOf(q) /\ K \subseteq LiveOf(q2) /\ SameAge(q, q2, K)
       /\ \A s \in LiveOf(q2) \ K : Aged(n, q2[s])
  <2>1. r \in Requests
    BY <1>8
  <2>2. PlaceSet(q, q2, r, NoRequest) /\ ~NoRequest.live
    BY <1>4, <1>8, <2>1, OthersSame DEF NoRequest
  <2>3. r \notin K /\ K \subseteq LiveOf(q) /\ \A s \in Requests : s # r => q2[s] = q[s]
    BY <1>20, <2>2 DEF PlaceSet
  <2>4. K \subseteq Requests
    BY <1>20 DEF LiveOf
  <2> QED
    BY <1>20, <2>3, <2>4 DEF SameAge
<1>22. Ordered(n, q2)
  BY <1>6, <1>17, <1>19, <1>21, OrderedStays
<1> QED
  BY <1>1, <1>18, <1>22

LEMMA AllocSafe ==
  ASSUME SafeInv, NEW expired, NEW n, n = AllocDecoderMemory(expired)
  PROVE  n.fault = {} /\ CoreOK(n, req, clock) /\ Ordered(n, req)
<1>1. PICK m, q, T : m = mgr /\ q = req /\ T = clock
  OBVIOUS
<1>2. PICK k : k = Cardinality(NewSpan) - CountFree(mgr)
  OBVIOUS
<1>3. n = evict_unrefered_by_num(m, k, expired) \/ n = m
  BY <1>1, <1>2 DEF AllocDecoderMemory, EvictUnrefered
<1>4. SafeAt(m, q, T)
  BY <1>1, SafeGives
<1>5. T \in Nat /\ ReqsShape(q) /\ CoreOK(m, q, T) /\ m.fault = {} /\ Ordered(m, q)
  BY <1>4 DEF SafeAt
<1>6. ASSUME n = evict_unrefered_by_num(m, k, expired)
      PROVE  n.fault = {} /\ CoreOK(n, q, T) /\ Ordered(n, q)
  <2>1. CoreOK(n, q, T) /\ n.fault = {}
    BY <1>5, <1>6, EvictCore
  <2>2. PICK B, N, L : B = CachesOf(q) /\ N = NodesOf(q) /\ L = LiveOf(q)
    OBVIOUS
  <2>3. IsFiniteSet(L) /\ CacheOK(m, B, N, L, T) /\ \A s \in L : Closed(N[s])
    BY <1>5, <2>2, LiveFinite, NodesClosed DEF CoreOK
  <2>4. k \in Int
    <3>1. NewSpan \subseteq LiveOf(q)
      BY <1>1 DEF NewSpan, Live, LiveOf
    <3>2. IsFiniteSet(NewSpan)
      BY <2>2, <2>3, <3>1, FS_Subset
    <3>3. Cardinality(NewSpan) \in Nat /\ CountFree(mgr) \in Nat
      BY <3>2, FS_CardinalityType, FreeBlocksFinite
    <3> QED
      BY <1>2, <3>3
  <2>5. OrderOK(m.table)
    BY <1>5 DEF Ordered
  <2>6. OrderOK(n.table) /\ \A h \in DOMAIN n.table : h \in DOMAIN m.table /\ n.table[h].ts = m.table[h].ts
    BY ONLY <1>5, <1>6, <2>3, <2>4, <2>5, EvictOrder
  <2>7. NotOlder(m, n)
    <3>1. \A h \in DOMAIN m.table : m.table[h].ts \in Nat
      BY <2>3 DEF CacheOK, GpuOK, TableOK
    <3> QED
      BY ONLY <2>6, <3>1 DEF NotOlder
  <2>8. PICK K : K = LiveOf(q)
    OBVIOUS
  <2>9. SameAge(q, q, K) /\ K \subseteq LiveOf(q) /\ \A s \in LiveOf(q) \ K : Aged(n, q[s])
    BY <2>8 DEF SameAge
  <2>10. Ordered(n, q)
    BY <1>5, <2>1, <2>6, <2>7, <2>9, OrderedStays
  <2> QED
    BY <2>1, <2>10
<1> QED
  BY <1>1, <1>3, <1>5, <1>6

LEMMA ShortSafe ==
  ASSUME SafeInv, DecodeShort
  PROVE  mgr'.fault = {} /\ Ordered(mgr', req')
<1>1. PICK n, q : n = mgr' /\ q = req
  OBVIOUS
<1>2. PICK expired : n = AllocDecoderMemory(expired)
  BY <1>1 DEF DecodeShort
<1>3. req' = q
  BY <1>1 DEF DecodeShort
<1>4. n.fault = {} /\ Ordered(n, q)
  BY <1>1, <1>2, AllocSafe
<1> QED
  BY <1>1, <1>3, <1>4

LEMMA DecodeSafe ==
  ASSUME SafeInv, Decode
  PROVE  mgr'.fault = {} /\ Ordered(mgr', req')
<1>1. PICK q, T, n, q2 : q = req /\ T = clock /\ n = mgr' /\ q2 = req'
  OBVIOUS
<1>2. PICK expired \in 0..clock, out \in [Live -> Sampled] :
        LET m == AllocDecoderMemory(expired)
            s == ClaimSpans(m, [r \in NewSpan |-> req[r].toks])
            cache(r) == IF r \in NewSpan THEN Append(req[r].cache, s.blk[r]) ELSE req[r].cache
            last(r) == cache(r)[Len(cache(r))]
        IN /\ DecoderFits(m)
           /\ mgr' = [s.m EXCEPT !.kv = [b \in Blocks |->
                        IF \E r \in Live : last(r) = b
                        THEN req[CHOOSE r \in Live : last(r) = b].toks ELSE @[b]]]
           /\ req' = [r \in Requests |->
                        IF r \in Live
                        THEN [req[r] EXCEPT !.toks = Append(@, out[r]), !.kv_len = @ + 1, !.cache = cache(r)]
                        ELSE req[r]]
  BY DEF Decode
<1>3. PICK m, data : m = AllocDecoderMemory(expired) /\ data = [r \in NewSpan |-> req[r].toks]
  OBVIOUS
<1>4. PICK s : s = ClaimSpans(m, data)
  OBVIOUS
<1>5. PICK kv : n = [s.m EXCEPT !.kv = kv]
  BY <1>1, <1>2, <1>3, <1>4
<1>6. m.fault = {} /\ CoreOK(m, q, T) /\ Ordered(m, q)
  BY <1>1, <1>3, AllocSafe
<1>7. TableOK(m) /\ ManagerShape(m) /\ OwnOK(m, CachesOf(q), LiveOf(q))
  BY <1>6 DEF CoreOK, CacheOK, GpuOK, TableOK
<1>8. s.m.fault = {} /\ ManagerShape(s.m) /\ s.m.table = m.table
  <2>1. PICK D, B, L : D = DOMAIN data /\ B = CachesOf(q) /\ L = LiveOf(q)
    OBVIOUS
  <2>2. D = NewSpan /\ Cardinality(D) <= CountFree(m)
    BY <1>2, <1>3, <2>1 DEF DecoderFits
  <2>3. IsFiniteSet(D)
    <3>1. D \subseteq LiveOf(q)
      BY <1>1, <2>2 DEF NewSpan, Live, LiveOf
    <3> QED
      BY <3>1, LiveFinite, FS_Subset
  <2> QED
    BY <1>4, <1>6, <1>7, <2>1, <2>2, <2>3, ClaimCount
<1>9. SameButKv(s.m, n)
  BY <1>5, <1>8, SetKv
<1>10. n.fault = {} /\ n.table = m.table
  BY <1>8, <1>9 DEF SameButKv
<1>11. Live = LiveOf(q)
  BY <1>1 DEF Live, LiveOf
<1>12. PICK C : q2 = [r \in Requests |-> IF r \in LiveOf(q)
                THEN [q[r] EXCEPT !.toks = Append(@, out[r]), !.kv_len = @ + 1, !.cache = C[r]] ELSE q[r]]
  <2>1. PICK C : C = [r \in Live |-> IF r \in NewSpan THEN Append(q[r].cache, s.blk[r]) ELSE q[r].cache]
    OBVIOUS
  <2>2. q2 = [r \in Requests |->
                IF r \in Live
                THEN [q[r] EXCEPT !.toks = Append(@, out[r]), !.kv_len = @ + 1,
                        !.cache = IF r \in NewSpan THEN Append(q[r].cache, s.blk[r]) ELSE q[r].cache]
                ELSE q[r]]
    BY <1>1, <1>2, <1>3, <1>4
  <2>3. \A r \in Live : C[r] = IF r \in NewSpan THEN Append(q[r].cache, s.blk[r]) ELSE q[r].cache
    BY <2>1
  <2>4. q2 = [r \in Requests |-> IF r \in LiveOf(q)
                THEN [q[r] EXCEPT !.toks = Append(@, out[r]), !.kv_len = @ + 1, !.cache = C[r]] ELSE q[r]]
    BY ONLY <1>11, <2>2, <2>3
  <2> QED
    BY <2>4
<1>13. SafeAt(mgr, req, clock) /\ CoreInv
  BY SafeGives DEF SafeInv
<1>14. ReqsShape(q)
  BY <1>1, <1>13 DEF SafeAt
<1>15. CoreOK(n, q2, T)
  <2>1. StepOK(mgr, req, mgr', req', clock') /\ clock' = clock
    BY <1>13, DecodeStep DEF Decode
  <2> QED
    BY <1>1, <1>10, <2>1 DEF StepOK, Good
<1>16. PICK K : K = LiveOf(q)
  OBVIOUS
<1>17. ASSUME NEW r \in Requests
       PROVE  /\ q2[r].nodes = q[r].nodes /\ q2[r].ts = q[r].ts /\ q2[r].input_len = q[r].input_len
              /\ q2[r].live = q[r].live
  <2>1. PICK x, y, t, c : x = q[r] /\ y = q2[r] /\ t = out[r] /\ c = C[r]
    OBVIOUS
  <2>2. r \notin LiveOf(q) => y = x
    BY <1>12, <2>1
  <2>3. r \in LiveOf(q) => y = [x EXCEPT !.toks = Append(@, t), !.kv_len = @ + 1, !.cache = c]
    BY <1>12, <2>1
  <2>4. r \in LiveOf(q) => y.nodes = x.nodes /\ y.ts = x.ts /\ y.input_len = x.input_len /\ y.live = x.live
    <3>1. r \in LiveOf(q) => x = [live |-> x.live, toks |-> x.toks, input_len |-> x.input_len, kv_len |-> x.kv_len,
                                  ts |-> x.ts, cache |-> x.cache, nodes |-> x.nodes]
      BY <1>14, <2>1 DEF ReqsShape, ReqShape
    <3> QED
      BY ONLY <2>3, <3>1
  <2> QED
    BY <2>1, <2>2, <2>4
<1>18. /\ K \subseteq LiveOf(q) /\ K \subseteq LiveOf(q2) /\ SameAge(q, q2, K)
       /\ \A r \in LiveOf(q2) \ K : Aged(n, q2[r])
  BY <1>16, <1>17 DEF SameAge, LiveOf
<1>19. OrderOK(n.table) /\ NotOlder(m, n)
  <2>1. \A h \in DOMAIN m.table : m.table[h].ts \in Nat
    BY <1>7 DEF TableOK
  <2> QED
    BY <1>6, <1>10, <2>1 DEF Ordered, NotOlder
<1>20. Ordered(n, q2)
  BY <1>6, <1>15, <1>18, <1>19, OrderedStays
<1> QED
  BY <1>1, <1>10, <1>20

LEMMA ResetSafe ==
  ASSUME SafeInv, Reset
  PROVE  mgr'.fault = {} /\ Ordered(mgr', req')
<1>1. PICK m, q, n : m = mgr /\ q = req /\ n = mgr'
  OBVIOUS
<1>2. /\ LiveOf(q) = {} /\ req' = q
      /\ n = [delete_nodes(m, DOMAIN m.table) EXCEPT !.cpu = AllReturned(@)]
  BY <1>1 DEF Reset, Live, LiveOf
<1>3. ManagerShape(m) /\ m.fault = {}
  BY <1>1, SafeGives DEF SafeAt
<1>4. PICK d : d = delete_nodes(m, DOMAIN m.table)
  OBVIOUS
<1>5. PICK c : c = AllReturned(d.cpu)
  OBVIOUS
<1>6. n = [d EXCEPT !.cpu = c]
  BY <1>2, <1>4, <1>5
<1>7. ManagerShape(d) /\ d.fault = m.fault /\ DOMAIN d.table = {}
  <2>1. PICK H : H = DOMAIN m.table
    OBVIOUS
  <2>2. DeleteStep(m, d, H)
    BY <1>3, <1>4, <2>1, DeleteNodesStep
  <2>3. ManagerShape(d) /\ d.fault = m.fault /\ d.table = Restrict(m.table, DOMAIN m.table \ H)
    BY <2>2 DEF DeleteStep
  <2>4. DOMAIN d.table = DOMAIN m.table \ H
    BY ONLY <2>3 DEF Restrict
  <2> QED
    BY <2>1, <2>3, <2>4
<1>8. n.fault = d.fault /\ n.table = d.table
  BY ONLY <1>6, <1>7, SetCpu
<1>9. Ordered(n, q)
  BY <1>2, <1>7, <1>8 DEF Ordered, OrderOK
<1> QED
  BY <1>1, <1>2, <1>3, <1>7, <1>8, <1>9

LEMMA CopySafe ==
  ASSUME SafeInv, CopyTask
  PROVE  mgr'.fault = {} /\ Ordered(mgr', req')
<1>1. PICK m, q, n : m = mgr /\ q = req /\ n = mgr'
  OBVIOUS
<1>2. PICK task : n = [m EXCEPT !.cpu = Copied(m.cpu, task)] /\ req' = q
  BY <1>1 DEF CopyTask
<1>3. ManagerShape(m) /\ m.fault = {} /\ Ordered(m, q)
  BY <1>1, SafeGives DEF SafeAt
<1>4. PICK c : c = Copied(m.cpu, task)
  OBVIOUS
<1>5. n = [m EXCEPT !.cpu = c]
  BY <1>2, <1>4
<1>6. n.fault = m.fault /\ n.table = m.table
  BY ONLY <1>3, <1>5, SetCpu
<1> QED
  BY <1>1, <1>2, <1>3, <1>6 DEF Ordered, Aged

LEMMA SafeStep ==
  ASSUME NoWholeSpans, SafeInv, Next
  PROVE  SafeInv'
<1>1. mgr'.fault = {} /\ Ordered(mgr', req')
  <2>1. CASE GenerateContinueContext
    <3>1. LiveOf(req) # Requests
      BY <2>1 DEF GenerateContinueContext, Live, LiveOf
    <3>2. PICK toks \in Prompts, expired \in 0..clock :
            \/ ContextDenied(toks, expired)
            \/ \E t \in Sampled, computed \in BOOLEAN :
                 StartRequest(NewPlace, toks, t, computed, expired)
            \/ StartFails(toks, expired)
      BY <2>1 DEF GenerateContinueContext
    <3>3. CASE ContextDenied(toks, expired)
      BY <3>1, <3>3, DeniedSafe
    <3>4. CASE \E t \in Sampled, computed \in BOOLEAN :
                 StartRequest(NewPlace, toks, t, computed, expired)
      BY <3>1, <3>4, StartSafe
    <3>5. CASE StartFails(toks, expired)
      BY <3>1, <3>5, FailsSafe
    <3> QED
      BY <3>2, <3>3, <3>4, <3>5
  <2>2. CASE Decode
    BY <2>2, DecodeSafe
  <2>3. CASE DecodeShort
    BY <2>3, ShortSafe
  <2>4. CASE StopRequest
    BY <2>4, StopSafe
  <2>5. CASE Reset
    BY <2>5, ResetSafe
  <2>6. CASE CopyTask
    BY <2>6, CopySafe
  <2> QED
    BY <2>1, <2>2, <2>3, <2>4, <2>5, <2>6 DEF Next
<1>2. CoreInv'
  BY CoreStep DEF SafeInv
<1> QED
  BY <1>1, <1>2 DEF SafeInv, NothingImpossible

LEMMA SafeInit ==
  ASSUME Init PROVE SafeInv
<1>1. mgr.fault = {} /\ mgr.table = <<>>
  BY DEF Init, EmptyManager
<1>2. DOMAIN mgr.table = {}
  BY <1>1
<1>3. LiveOf(req) = {}
  BY DEF Init, LiveOf, NoRequest
<1>4. Ordered(mgr, req)
  BY <1>2, <1>3 DEF Ordered, OrderOK
<1> QED
  BY <1>1, <1>4, CoreInit DEF SafeInv, NothingImpossible

\* When no prompt ends with a span, the invariant of the cache holds without a
\* fault, no node is older than a longer prefix's, and none is older than a live
\* request that refers to it.
THEOREM SafeInvariant == NoWholeSpans => (Spec => []SafeInv)
<1> SUFFICES ASSUME NoWholeSpans PROVE Spec => []SafeInv
  OBVIOUS
<1>1. Init => SafeInv
  BY SafeInit
<1>2. SafeInv /\ [Next]_vars => SafeInv'
  <2> SUFFICES ASSUME SafeInv, [Next]_vars PROVE SafeInv'
    OBVIOUS
  <2>1. CASE Next
    BY <2>1, SafeStep
  <2>2. CASE UNCHANGED vars
    BY <2>2 DEF vars, SafeInv, CoreInv, NothingImpossible
  <2> QED
    BY <2>1, <2>2
<1> QED
  BY <1>1, <1>2, PTL DEF Spec

\* The frame tests of the context phase and of the decoder keep their promise: no
\* claim fails after them, and no hash table is full when a node is inserted.
THEOREM NoFault == NoWholeSpans => (Spec => []NothingImpossible)
<1> SUFFICES ASSUME NoWholeSpans PROVE Spec => []NothingImpossible
  OBVIOUS
<1>1. Spec => []SafeInv
  BY SafeInvariant
<1>2. SafeInv => NothingImpossible
  BY DEF SafeInv
<1> QED
  BY <1>1, <1>2, PTL

\* A prefix never leaves the GPU before a longer one: eviction takes the older node,
\* and the longer prefix of equally old ones.
THEOREM OrphansNever == NoWholeSpans => (Spec => []NoOrphans)
<1> SUFFICES ASSUME NoWholeSpans PROVE Spec => []NoOrphans
  OBVIOUS
<1>1. Spec => []SafeInv
  BY SafeInvariant
<1>2. SafeInv => NoOrphans
  BY DEF SafeInv, Ordered, OrderOK, NoOrphans, PrefixAt
<1> QED
  BY <1>1, <1>2, PTL

\* Every variable has its type.
THEOREM CacheTypes == NoWholeSpans => (Spec => []TypeOK)
<1> SUFFICES ASSUME NoWholeSpans PROVE Spec => []TypeOK
  OBVIOUS
<1>1. Spec => []SafeInv
  BY SafeInvariant
<1>2. SafeInv => TypeOK
  BY CoreGives DEF SafeInv
<1> QED
  BY <1>1, <1>2, PTL

\* Every block is freed exactly once, by ReleaseSpan or by delete_node, and the units
\* of the CPU tier are never shared or lost below its capacity.
THEOREM BlocksBalance == NoWholeSpans => (Spec => []BlocksConserved)
<1> SUFFICES ASSUME NoWholeSpans PROVE Spec => []BlocksConserved
  OBVIOUS
<1>1. Spec => []SafeInv
  BY SafeInvariant
<1>2. SafeInv => BlocksConserved
  BY CoreGives DEF SafeInv
<1> QED
  BY <1>1, <1>2, PTL

\* ref_cnt counts the live requests that will give the node back, and the evictor
\* holds exactly the nodes nobody refers to.
THEOREM RefsBalance == NoWholeSpans => (Spec => []RefsCounted)
<1> SUFFICES ASSUME NoWholeSpans PROVE Spec => []RefsCounted
  OBVIOUS
<1>1. Spec => []SafeInv
  BY SafeInvariant
<1>2. SafeInv => RefsCounted
  BY CoreGives DEF SafeInv
<1> QED
  BY <1>1, <1>2, PTL

\* Whatever a step evicts, deletes or swaps out, a node that a surviving request refers
\* to stays in the table with its block.
THEOREM ReferredNeverEvicted == NoWholeSpans => (Spec => ReferredStays)
<1> SUFFICES ASSUME NoWholeSpans PROVE Spec => ReferredStays
  OBVIOUS
<1> DEFINE A == \A r \in Live : req'[r].live =>
                  \A h \in req[r].nodes : h \in DOMAIN mgr'.table /\ mgr'.table[h].blk = mgr.table[h].blk
<1>1. Spec => []SafeInv
  BY SafeInvariant
<1>2. SafeInv /\ SafeInv' /\ [Next]_vars => [A]_vars
  <2> SUFFICES ASSUME SafeInv, SafeInv', Next, NEW r \in Live, req'[r].live, NEW h \in req[r].nodes
               PROVE  h \in DOMAIN mgr'.table /\ mgr'.table[h].blk = mgr.table[h].blk
    BY DEF A
  <2>1. mgr'.fault = {}
    BY DEF SafeInv, NothingImpossible
  <2>2. StepOK(mgr, req, mgr', req', clock')
    BY CoreStep DEF SafeInv
  <2>3. Keeps(mgr, mgr', NodesOf(req), LiveOf(req) \cap LiveOf(req'))
    BY <2>1, <2>2 DEF StepOK
  <2>4. r \in Requests /\ r \in LiveOf(req) \cap LiveOf(req')
    BY DEF Live, LiveOf
  <2>5. NodesOf(req)[r] = req[r].nodes
    BY <2>4 DEF NodesOf
  <2> QED
    BY <2>3, <2>4, <2>5 DEF Keeps
<1> QED
  BY <1>1, <1>2, PTL DEF Spec, ReferredStays
=============================================================================
