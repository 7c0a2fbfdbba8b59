-------------------------- MODULE PrefixDataProofs --------------------------
(***************************************************************************)
(* The data of PrefixCache: a node holds the KV of its prefix and a live   *)
(* request reads the KV of its own tokens, as long as no prefill fails     *)
(* with a status and no copy task outlives its node.                       *)
(*                                                                         *)
(* A task does if the CPU tier evicts a node before its copy is done.  A   *)
(* tier whose memory is exactly its capacity never does: when it is full   *)
(* it refuses a node.  The tier that is switched off (CPU_CACHE_RATIO 0,   *)
(* the default) is one; a tier whose frames are not a whole number of      *)
(* nodes is not.                                                           *)
(***************************************************************************)
EXTENDS PrefixCacheProofs

\* The CPU tier holds no node, or has an even number of units and no frames left over.
NoCpuRest == CpuCapacity = 0 \/ (~CpuRest /\ CpuUnits = 2 * CpuCapacity)

\* The nodes the tasks of threadpool_ copy for are still there, with the task's units.
InPlace(c) ==
  \A task \in c.copies :
    /\ task.hash \in DOMAIN c.table
    /\ task.k = c.table[task.hash].k /\ task.v = c.table[task.hash].v
CopiesInTime == NoCpuRest \/ InPlace(mgr.cpu)

\* A ready node of the CPU tier has its data, and a task has the data of its node.
CpuData(c) ==
  /\ \A h \in DOMAIN c.table :
       c.table[h].ready => c.kv[c.table[h].k] = h /\ c.kv[c.table[h].v] = h
  /\ \A task \in c.copies : task.data = task.hash
  /\ NoCpuRest => InPlace(c)

\* What d has left of the nodes of c is as it was but for timestamps, and without a
\* rest that is all of them.
SameCpu(c, d) ==
  /\ d.copies = c.copies /\ DOMAIN d.table \subseteq DOMAIN c.table
  /\ \A h \in DOMAIN d.table :
       /\ d.table[h].k = c.table[h].k /\ d.table[h].v = c.table[h].v
       /\ d.table[h].ready = c.table[h].ready
       /\ d.kv[c.table[h].k] = c.kv[c.table[h].k] /\ d.kv[c.table[h].v] = c.kv[c.table[h].v]
  /\ NoCpuRest => DOMAIN d.table = DOMAIN c.table

LEMMA SameCpuData ==
  ASSUME NEW c, NEW d, CpuData(c), SameCpu(c, d)
  PROVE  CpuData(d)
<1>1. \A h \in DOMAIN d.table : d.table[h].ready => d.kv[d.table[h].k] = h /\ d.kv[d.table[h].v] = h
  BY DEF CpuData, SameCpu
<1>2. \A task \in d.copies : task.data = task.hash
  BY DEF CpuData, SameCpu
<1>3. NoCpuRest => InPlace(d)
  BY DEF CpuData, SameCpu, InPlace
<1> QED
  BY <1>1, <1>2, <1>3 DEF CpuData

LEMMA TouchSameCpu ==
  ASSUME NEW c, NEW T \in Nat, NEW ts, CpuOK(c, T), \A h \in DOMAIN ts : ts[h] \in 0..T
  PROVE  SameCpu(c, update_node_ts(c, ts))
<1> DEFINE u == update_node_ts(c, ts)
<1>0. /\ CpuShape(c)
      /\ \A h \in DOMAIN c.table :
           h \in Seq(Tokens) /\ c.table[h] \in [k : Units, v : Units, ts : 0..T, ready : BOOLEAN]
  BY DEF CpuOK
<1>1. /\ u.kv = c.kv /\ u.copies = c.copies
      /\ DOMAIN u.table = DOMAIN c.table
      /\ \A h \in DOMAIN c.table :
           /\ u.table[h].k = c.table[h].k /\ u.table[h].v = c.table[h].v
           /\ u.table[h].ready = c.table[h].ready
  BY <1>0, TouchOK
<1> QED
  BY <1>1 DEF SameCpu

\* Without a rest alloc_cpu_node evicts no node.
LEMMA AllocEvictsNone ==
  ASSUME NoCpuRest, NEW c, NEW new, NEW T \in Nat, MidSwap(c, new, T)
  PROVE  SameCpu(c, alloc_cpu_node(c).cpu)
<1> DEFINE a == alloc_cpu_node(c)
           full == Cardinality(DOMAIN c.table) >= CpuCapacity
           h == FindVictim(c.table, DOMAIN c.table)
           n == IF full THEN delete_cpu_node(c, h) ELSE c
           k == CHOOSE u \in n.free : TRUE
           v == CHOOSE u \in n.free \ {k} : TRUE
           none == CpuCapacity = 0 \/ (c.free = {} /\ ~CpuRest)
           p == Joined(c.table, new)
<1>0. SameCpu(c, c) /\ CpuShape(c)
  BY DEF SameCpu, MidSwap
<1>1. CASE none
  <2>1. a = [cpu |-> c, ok |-> FALSE]
    BY <1>1 DEF alloc_cpu_node, ClaimUnits
  <2> QED
    BY <1>0, <2>1
<1>2. CASE ~none
  <2>1. PairsOK(p, c.free)
    BY DEF MidSwap
  <2>2. DOMAIN c.table \subseteq DOMAIN p
    BY DEF Joined
  <2> HIDE DEF p
  <2>3. /\ IsFiniteSet(c.free) /\ Cardinality(c.free) \in Nat
        /\ IsFiniteSet(DOMAIN p) /\ Cardinality(DOMAIN p) \in Nat
    BY <2>1, PairsCounts
  <2>4. IsFiniteSet(DOMAIN c.table) /\ Cardinality(DOMAIN c.table) <= Cardinality(DOMAIN p)
        /\ Cardinality(DOMAIN c.table) \in Nat
    BY <2>2, <2>3, FS_Subset, FS_CardinalityType
  <2>5. c.free # {} /\ CpuCapacity \in Nat
    BY <1>2, UnitsFinite DEF NoCpuRest
  <2>6. Cardinality(c.free) # 0
    BY <2>3, <2>5, FS_EmptySet
  <2>7. Cardinality(c.free) + 2 * Cardinality(DOMAIN p) = 2 * CpuCapacity
    <3>1. Cardinality(c.free) + 2 * Cardinality(DOMAIN p) >= 2 * CpuCapacity
      BY <2>1 DEF PairsOK
    <3>2. Cardinality(c.free) + 2 * Cardinality(DOMAIN p) <= 2 * CpuCapacity
      BY <1>2, <2>1 DEF PairsOK, NoCpuRest
    <3> QED
      BY <2>3, <2>5, <3>1, <3>2
  <2>8. ~full /\ ~(Cardinality(c.free) < 2)
    BY <2>3, <2>4, <2>5, <2>6, <2>7
  <2>9. n = c
    BY <2>8
  <2>10. a = [cpu |-> [n EXCEPT !.free = @ \ {k, v}], ok |-> TRUE, k |-> k, v |-> v]
    BY <1>2, <2>8 DEF alloc_cpu_node, ClaimUnits
  <2>11. PICK F : a.cpu = [c EXCEPT !.free = F]
    <3> HIDE DEF n, k, v, a
    <3> QED
      BY <2>9, <2>10
  <2> HIDE DEF a
  <2>12. a.cpu.table = c.table /\ a.cpu.kv = c.kv /\ a.cpu.copies = c.copies
    BY <1>0, <2>11 DEF CpuShape
  <2>13. SameCpu(c, a.cpu)
    BY <2>12 DEF SameCpu
  <2> QED
    BY <2>13 DEF a
<1> QED
  BY <1>1, <1>2

\* A node that is evicted takes nothing from another.
LEMMA DeleteCpuSame ==
  ASSUME ~NoCpuRest, NEW c, NEW new, NEW T \in Nat, MidSwap(c, new, T), NEW h \in DOMAIN c.table,
         NEW d, d = delete_cpu_node(c, h)
  PROVE  SameCpu(c, d) /\ CpuShape(d)
<1> DEFINE x == [u \in Units |-> IF u \in {c.table[h].k, c.table[h].v} THEN Junk ELSE c.kv[u]]
<1>1. CpuShape(c) /\ DOMAIN new \cap DOMAIN c.table = {} /\ PairsOK(Joined(c.table, new), c.free)
  BY DEF MidSwap
<1>2. d = [c EXCEPT !.free = c.free \cup {c.table[h].k, c.table[h].v}, !.kv = x,
                    !.table = Restrict(c.table, DOMAIN c.table \ {h})]
  BY DEF delete_cpu_node
<1>3. \A u \in Units : x[u] = IF u \in {c.table[h].k, c.table[h].v} THEN Junk ELSE c.kv[u]
  OBVIOUS
<1> HIDE DEF x
<1>4. d = [table |-> Restrict(c.table, DOMAIN c.table \ {h}),
           free |-> c.free \cup {c.table[h].k, c.table[h].v}, kv |-> x, copies |-> c.copies]
  BY <1>1, <1>2 DEF CpuShape
<1>5. d.table = Restrict(c.table, DOMAIN c.table \ {h}) /\ d.kv = x /\ d.copies = c.copies
  BY ONLY <1>4
<1>6. DOMAIN d.table = DOMAIN c.table \ {h} /\ \A g \in DOMAIN d.table : d.table[g] = c.table[g]
  BY <1>5 DEF Restrict
<1>7. PICK p : p = Joined(c.table, new)
  OBVIOUS
<1>8. DOMAIN c.table \subseteq DOMAIN p /\ \A g \in DOMAIN c.table : p[g] = c.table[g]
  BY <1>1, <1>7 DEF Joined
<1>9. /\ \A g \in DOMAIN p : p[g].k \in Units /\ p[g].v \in Units
      /\ \A e, g \in DOMAIN p : e # g => {p[e].k, p[e].v} \cap {p[g].k, p[g].v} = {}
  BY <1>1, <1>7 DEF PairsOK
<1>10. ASSUME NEW g \in DOMAIN d.table
       PROVE  x[c.table[g].k] = c.kv[c.table[g].k] /\ x[c.table[g].v] = c.kv[c.table[g].v]
  <2>1. g \in DOMAIN p /\ h \in DOMAIN p /\ g # h /\ p[g] = c.table[g] /\ p[h] = c.table[h]
    BY <1>6, <1>8
  <2>2. c.table[g].k \in Units /\ c.table[g].v \in Units
    BY <1>9, <2>1
  <2>3. {c.table[g].k, c.table[g].v} \cap {c.table[h].k, c.table[h].v} = {}
    BY <1>9, <2>1
  <2> QED
    BY <1>3, <2>2, <2>3
<1>11. SameCpu(c, d)
  BY <1>5, <1>6, <1>10 DEF SameCpu
<1> QED
  BY <1>4, <1>5, <1>11 DEF CpuShape

\* alloc_cpu_node leaves the nodes it does not evict.
LEMMA AllocSame ==
  ASSUME NEW c, NEW new, NEW T \in Nat, MidSwap(c, new, T)
  PROVE  SameCpu(c, alloc_cpu_node(c).cpu)
<1> DEFINE a == alloc_cpu_node(c)
           full == Cardinality(DOMAIN c.table) >= CpuCapacity
           h == FindVictim(c.table, DOMAIN c.table)
           n == IF full THEN delete_cpu_node(c, h) ELSE c
           k == CHOOSE u \in n.free : TRUE
           v == CHOOSE u \in n.free \ {k} : TRUE
           none == CpuCapacity = 0 \/ (c.free = {} /\ ~CpuRest)
<1>0. SameCpu(c, c) /\ CpuShape(c)
  BY DEF SameCpu, MidSwap
<1>1. CASE NoCpuRest
  BY <1>1, AllocEvictsNone
<1>2. CASE none
  <2>1. a = [cpu |-> c, ok |-> FALSE]
    BY <1>2 DEF alloc_cpu_node
  <2> QED
    BY <1>0, <2>1
<1>3. CASE ~NoCpuRest /\ ~none
  <2>1. SameCpu(c, n) /\ CpuShape(n)
    <3>1. CASE full
      <4>1. IsFiniteSet(DOMAIN c.table)
        <5>1. IsFiniteSet(DOMAIN Joined(c.table, new))
          BY DEF MidSwap, PairsOK
        <5>2. DOMAIN c.table \subseteq DOMAIN Joined(c.table, new)
          BY DEF Joined
        <5> QED
          BY <5>1, <5>2, FS_Subset
      <4>2. DOMAIN c.table # {}
        <5>1. CpuCapacity \in Nat /\ CpuCapacity # 0
          BY <1>3, UnitsFinite
        <5> SUFFICES ASSUME DOMAIN c.table = {} PROVE FALSE
          OBVIOUS
        <5>2. Cardinality(DOMAIN c.table) = 0
          BY FS_EmptySet
        <5> QED
          BY <3>1, <5>1, <5>2
      <4>3. Comparable(c.table, DOMAIN c.table)
        BY DEF MidSwap, Comparable
      <4>4. h \in DOMAIN c.table
        BY <4>1, <4>2, <4>3, VictimExists
      <4>5. n = delete_cpu_node(c, h)
        BY <3>1
      <4> HIDE DEF n, h
      <4> QED
        BY <1>3, <4>4, <4>5, DeleteCpuSame
    <3>2. CASE ~full
      BY <1>0, <3>2
    <3> QED
      BY <3>1, <3>2
  <2>2. PICK F : a.cpu = [n EXCEPT !.free = F]
    <3>1. CASE Cardinality(n.free) < 2
      <4>1. a = [cpu |-> [n EXCEPT !.free = {}], ok |-> FALSE]
        BY <1>3, <3>1 DEF alloc_cpu_node, ClaimUnits
      <4> HIDE DEF n, a
      <4> QED
        BY <4>1
    <3>2. CASE ~(Cardinality(n.free) < 2)
      <4>1. a = [cpu |-> [n EXCEPT !.free = @ \ {k, v}], ok |-> TRUE, k |-> k, v |-> v]
        BY <1>3, <3>2 DEF alloc_cpu_node, ClaimUnits
      <4> HIDE DEF n, a, k, v
      <4> QED
        BY <4>1
    <3> QED
      BY <3>1, <3>2
  <2> HIDE DEF n, a
  <2>3. a.cpu.table = n.table /\ a.cpu.kv = n.kv /\ a.cpu.copies = n.copies
    BY <2>1, <2>2 DEF CpuShape
  <2>4. SameCpu(c, a.cpu)
    BY <2>1, <2>3 DEF SameCpu
  <2> QED
    BY <2>4 DEF a
<1> QED
  BY <1>1, <1>2, <1>3

LEMMA SameCpuTwice ==
  ASSUME NEW c, NEW d, NEW e, SameCpu(c, d), SameCpu(d, e)
  PROVE  SameCpu(c, e)
BY DEF SameCpu

\* The loop of the swap leaves the nodes that are there.
LEMMA SwapStepSame ==
  ASSUME NEW m, NEW H, NEW T \in Nat, SwapInput(m, H, T), NEW s, LoopOK(m, H, T, s)
  PROVE  SameCpu(s.cpu, SwapStep(m, s).cpu)
<1> DEFINE h == FindVictim(m.table, s.left)
           a == alloc_cpu_node(s.cpu)
           n == SwapStep(m, s)
<1>0. /\ s = [cpu |-> s.cpu, left |-> s.left, new |-> s.new]
      /\ s.left \subseteq H /\ MidSwap(s.cpu, s.new, T)
  BY DEF LoopOK
<1>1. CASE s.left = {}
  <2>1. n = s
    BY <1>1 DEF SwapStep
  <2> QED
    BY <2>1 DEF SameCpu
<1>2. CASE s.left # {}
  <2>1. h \in s.left
    <3>1. IsFiniteSet(s.left)
      BY <1>0, FS_Subset DEF SwapInput
    <3>2. Comparable(m.table, s.left)
      BY <1>0 DEF SwapInput, Comparable
    <3> QED
      BY <1>2, <3>1, <3>2, VictimExists
  <2>2. n = IF h \in DOMAIN s.cpu.table
          THEN [s EXCEPT !.left = @ \ {h},
                         !.cpu = update_node_ts(@, [g \in {h} |-> m.table[g].ts])]
          ELSE IF a.ok
               THEN [cpu |-> a.cpu, left |-> s.left \ {h},
                     new |-> Joined(s.new, [g \in {h} |-> [k |-> a.k, v |-> a.v]])]
               ELSE [s EXCEPT !.left = {}, !.cpu = a.cpu]
    BY <1>2 DEF SwapStep
  <2>3. h \in H
    BY <1>0, <2>1
  <2> HIDE DEF h, n
  <2>4. CASE h \in DOMAIN s.cpu.table
    <3> DEFINE ts == [g \in {h} |-> m.table[g].ts]
               u == update_node_ts(s.cpu, ts)
    <3>1. n = [s EXCEPT !.left = @ \ {h}, !.cpu = u]
      BY <2>2, <2>4
    <3>2. \A g \in DOMAIN ts : ts[g] \in 0..T
      BY <2>3 DEF SwapInput
    <3>3. /\ CpuShape(s.cpu)
          /\ \A g \in DOMAIN s.cpu.table :
               /\ g \in Seq(Tokens)
               /\ s.cpu.table[g] \in [k : Units, v : Units, ts : 0..T, ready : BOOLEAN]
      BY <1>0 DEF MidSwap
    <3> HIDE DEF ts
    <3>4. /\ u.kv = s.cpu.kv /\ u.copies = s.cpu.copies
          /\ DOMAIN u.table = DOMAIN s.cpu.table
          /\ \A g \in DOMAIN s.cpu.table :
               /\ u.table[g].k = s.cpu.table[g].k /\ u.table[g].v = s.cpu.table[g].v
               /\ u.table[g].ready = s.cpu.table[g].ready
      BY <3>2, <3>3, TouchOK
    <3> HIDE DEF u
    <3>5. n = [cpu |-> u, left |-> s.left \ {h}, new |-> s.new]
      BY <1>0, <3>1
    <3>6. n.cpu = u
      BY <3>5
    <3>7. SameCpu(s.cpu, n.cpu)
      BY <3>4, <3>6 DEF SameCpu
    <3> QED
      BY <3>7 DEF n
  <2>5. CASE h \notin DOMAIN s.cpu.table
    <3>1. SameCpu(s.cpu, a.cpu)
      BY <1>0, AllocSame
    <3> HIDE DEF a
    <3>2. n.cpu = a.cpu
      <4>1. CASE a.ok
        <5>1. PICK x, y : n = [cpu |-> a.cpu, left |-> x, new |-> y]
          BY <2>2, <2>5, <4>1
        <5> QED
          BY <5>1
      <4>2. CASE ~a.ok
        <5>1. n = [s EXCEPT !.left = {}, !.cpu = a.cpu]
          BY <2>2, <2>5, <4>2
        <5> QED
          BY <1>0, <5>1
      <4> QED
        BY <4>1, <4>2
    <3> QED
      BY <3>1, <3>2 DEF n
  <2> QED
    BY <2>4, <2>5
<1> QED
  BY <1>1, <1>2

LEMMA LoopEndSame ==
  ASSUME NEW m, NEW H, NEW T \in Nat, SwapInput(m, H, T), CpuOK(m.cpu, T),
         NEW f, NEW n \in Nat, f[0] = [cpu |-> m.cpu, left |-> H, new |-> <<>>],
         \A i \in 1..n : f[i] = SwapStep(m, f[i - 1])
  PROVE  SameCpu(m.cpu, f[n].cpu)
<1> DEFINE Bad == {i \in 0..n : ~SameCpu(m.cpu, f[i].cpu)}
<1>1. SameCpu(m.cpu, f[0].cpu)
  <2>1. f[0].cpu = m.cpu
    OBVIOUS
  <2> QED
    BY <2>1 DEF SameCpu
<1>2. ASSUME NEW i \in 0..n PROVE LoopOK(m, H, T, f[i])
  <2>1. i \in Nat /\ \A j \in 1..i : f[j] = SwapStep(m, f[j - 1])
    OBVIOUS
  <2> QED
    BY <2>1, LoopEndOK
<1>3. Bad = {}
  <2> SUFFICES ASSUME Bad # {} PROVE FALSE
    OBVIOUS
  <2>0. Bad \subseteq Nat
    OBVIOUS
  <2>1. PICK x \in Bad : \A y \in Bad : x <= y
    <3> HIDE DEF Bad
    <3> QED
      BY <2>0, LeastElement
  <2>2. x \in 1..n /\ ~SameCpu(m.cpu, f[x].cpu)
    BY <1>1, <2>1
  <2>3. x - 1 \in 0..n /\ ~(x <= x - 1)
    BY <2>2
  <2>4. SameCpu(m.cpu, f[x - 1].cpu)
    BY <2>1, <2>3
  <2>5. LoopOK(m, H, T, f[x - 1])
    BY <1>2, <2>3
  <2>6. PICK s : s = f[x - 1]
    OBVIOUS
  <2>7. SameCpu(s.cpu, SwapStep(m, s).cpu)
    BY <2>5, <2>6, SwapStepSame
  <2>8. f[x] = SwapStep(m, s)
    BY <2>2, <2>6
  <2> HIDE DEF Bad
  <2>9. SameCpu(m.cpu, s.cpu) /\ SameCpu(s.cpu, f[x].cpu)
    BY ONLY <2>4, <2>6, <2>7, <2>8
  <2>10. SameCpu(m.cpu, f[x].cpu)
    BY ONLY <2>9, SameCpuTwice
  <2> QED
    BY ONLY <2>2, <2>10
<1> QED
  BY <1>3

\* New nodes of the CPU tier are not ready, and their tasks have their data.
LEMMA InsertCpuData ==
  ASSUME NEW m, NEW c, CpuShape(c), CpuData(c), NEW new, DOMAIN new \cap DOMAIN c.table = {},
         \A h \in DOMAIN new : m.kv[m.table[h].blk] = h
  PROVE  CpuData(InsertCpuNodes(m, c, new))
<1> DEFINE d == InsertCpuNodes(m, c, new)
           add == [h \in DOMAIN new |-> [k |-> new[h].k, v |-> new[h].v,
                                         ts |-> m.table[h].ts, ready |-> FALSE]]
           X == {[hash |-> h, k |-> new[h].k, v |-> new[h].v,
                  data |-> m.kv[m.table[h].blk]] : h \in DOMAIN new}
           t == Joined(c.table, add)
<1>1. d = [c EXCEPT !.table = t, !.copies = c.copies \cup X]
  BY DEF InsertCpuNodes
<1>2. \A h \in DOMAIN new : add[h].k = new[h].k /\ add[h].v = new[h].v /\ add[h].ready = FALSE
  OBVIOUS
<1>3. \A task \in X : \E h \in DOMAIN new :
        /\ task.hash = h /\ task.k = new[h].k /\ task.v = new[h].v /\ task.data = m.kv[m.table[h].blk]
  OBVIOUS
<1>4. DOMAIN add = DOMAIN new
  OBVIOUS
<1> HIDE DEF add, X
<1>5. /\ DOMAIN t = DOMAIN c.table \cup DOMAIN new
      /\ \A h \in DOMAIN c.table : t[h] = c.table[h]
      /\ \A h \in DOMAIN new : t[h] = add[h]
  BY <1>4 DEF Joined
<1> HIDE DEF t, d
<1>6. d = [table |-> t, free |-> c.free, kv |-> c.kv, copies |-> c.copies \cup X]
  BY <1>1 DEF CpuShape
<1>7. d.table = t /\ d.kv = c.kv /\ d.copies = c.copies \cup X
  BY ONLY <1>6
<1>8. \A h \in DOMAIN t : t[h].ready => c.kv[t[h].k] = h /\ c.kv[t[h].v] = h
  BY <1>2, <1>5 DEF CpuData
<1>9. ASSUME NEW task \in c.copies \cup X
      PROVE  /\ task.data = task.hash
             /\ NoCpuRest => /\ task.hash \in DOMAIN t
                             /\ task.k = t[task.hash].k /\ task.v = t[task.hash].v
  <2>1. CASE task \in c.copies
    BY <1>5, <2>1 DEF CpuData, InPlace
  <2>2. CASE task \in X
    <3>1. PICK h \in DOMAIN new :
        task.hash = h /\ task.k = new[h].k /\ task.v = new[h].v /\ task.data = m.kv[m.table[h].blk]
      BY <1>3, <2>2
    <3> QED
      BY <1>2, <1>5, <3>1
  <2> QED
    BY <2>1, <2>2
<1>10. CpuData(d)
  BY ONLY <1>7, <1>8, <1>9 DEF CpuData, InPlace
<1> QED
  BY <1>10 DEF d

\* The swap keeps the data right if the data of the nodes H is.
LEMMA SwapData ==
  ASSUME NEW m, ManagerShape(m), NEW H, NEW T \in Nat, SwapInput(m, H, T), CpuOK(m.cpu, T),
         CpuData(m.cpu), \A h \in H : m.kv[m.table[h].blk] = h
  PROVE  CpuData(swap_to_cpu_by_hashlist(m, H).cpu)
<1> DEFINE n == swap_to_cpu_by_hashlist(m, H)
<1>1. PICK f : \E k \in Nat :
           /\ f[0] = [cpu |-> m.cpu, left |-> H, new |-> <<>>]
           /\ \A i \in 1..k : f[i] = SwapStep(m, f[i - 1])
           /\ n.cpu = InsertCpuNodes(m, f[k].cpu, f[k].new)
  BY SwapUnfolds DEF SwapInput
<1>2. PICK k \in Nat :
           /\ f[0] = [cpu |-> m.cpu, left |-> H, new |-> <<>>]
           /\ \A i \in 1..k : f[i] = SwapStep(m, f[i - 1])
           /\ n.cpu = InsertCpuNodes(m, f[k].cpu, f[k].new)
  BY <1>1
<1> HIDE DEF n
<1>3. LoopOK(m, H, T, f[k])
  BY <1>2, LoopEndOK
<1>4. SameCpu(m.cpu, f[k].cpu)
  BY <1>2, LoopEndSame
<1>5. PICK c, new : c = f[k].cpu /\ new = f[k].new
  OBVIOUS
<1>6. CpuData(c)
  BY <1>4, <1>5, SameCpuData
<1>7. CpuShape(c) /\ DOMAIN new \cap DOMAIN c.table = {} /\ DOMAIN new \subseteq H
  BY <1>3, <1>5 DEF LoopOK, MidSwap
<1>8. \A h \in DOMAIN new : m.kv[m.table[h].blk] = h
  BY <1>7
<1>9. CpuData(InsertCpuNodes(m, c, new))
  BY ONLY <1>6, <1>7, <1>8, InsertCpuData
<1> QED
  BY <1>2, <1>5, <1>9 DEF n

\* A task writes the data of the node it is for.
LEMMA CopiedData ==
  ASSUME NEW c, NEW T, CpuOK(c, T), CpuData(c), InPlace(c), NEW task \in c.copies
  PROVE  CpuData(Copied(c, task))
<1> DEFINE done == {h \in DOMAIN c.table : h = task.hash /\ c.table[h].k = task.k /\ c.table[h].v = task.v}
           Z == [u \in Units |-> IF u \in {task.k, task.v} THEN task.data ELSE c.kv[u]]
           t == [h \in DOMAIN c.table |-> IF h \in done THEN [c.table[h] EXCEPT !.ready = TRUE] ELSE c.table[h]]
           d == Copied(c, task)
           X == c.copies \ {task}
           g == task.hash
<1>1. d = [c EXCEPT !.copies = X, !.kv = Z, !.table = t]
  BY DEF Copied
<1>2. g \in DOMAIN c.table /\ task.data = g /\ task.k = c.table[g].k /\ task.v = c.table[g].v
  BY DEF CpuData, InPlace
<1>3. done = {g}
  BY <1>2
<1>4. ASSUME NEW h \in DOMAIN c.table
      PROVE  /\ t[h].k = c.table[h].k /\ t[h].v = c.table[h].v
             /\ h # g => t[h].ready = c.table[h].ready
  <2>1. c.table[h] \in [k : Units, v : Units, ts : 0..T, ready : BOOLEAN]
    BY DEF CpuOK
  <2>2. t[h] = IF h \in done THEN [c.table[h] EXCEPT !.ready = TRUE] ELSE c.table[h]
    OBVIOUS
  <2> HIDE DEF t, done
  <2> QED
    BY <1>3, <2>1, <2>2
<1>5. DOMAIN t = DOMAIN c.table
  OBVIOUS
<1>6. \A u \in Units : Z[u] = IF u \in {task.k, task.v} THEN task.data ELSE c.kv[u]
  OBVIOUS
<1> HIDE DEF t, Z, X, d, done, g
<1>7. c = [table |-> c.table, free |-> c.free, kv |-> c.kv, copies |-> c.copies]
  BY DEF CpuOK, CpuShape
<1>8. d = [table |-> t, free |-> c.free, kv |-> Z, copies |-> X]
  BY ONLY <1>1, <1>7
<1>9. d.table = t /\ d.kv = Z /\ d.copies = X
  BY ONLY <1>8
<1>10. /\ \A h \in DOMAIN c.table : c.table[h].k \in Units /\ c.table[h].v \in Units
       /\ \A e, h \in DOMAIN c.table : e # h => {c.table[e].k, c.table[e].v} \cap {c.table[h].k, c.table[h].v} = {}
  BY DEF CpuOK, PairsOK
<1>11. ASSUME NEW h \in DOMAIN t, t[h].ready PROVE Z[t[h].k] = h /\ Z[t[h].v] = h
  <2>1. CASE h = g
    BY <1>2, <1>4, <1>5, <1>6, <1>10, <2>1
  <2>2. CASE h # g
    <3>1. c.table[h].ready /\ t[h].k = c.table[h].k /\ t[h].v = c.table[h].v /\ h \in DOMAIN c.table
      BY <1>4, <1>5, <1>11, <2>2
    <3>2. c.table[h].k \notin {task.k, task.v} /\ c.table[h].v \notin {task.k, task.v}
      BY ONLY <1>2, <1>10, <2>2, <3>1
    <3>3. c.kv[c.table[h].k] = h /\ c.kv[c.table[h].v] = h
      BY <3>1 DEF CpuData
    <3> QED
      BY ONLY <1>6, <1>10, <3>1, <3>2, <3>3
  <2> QED
    BY <2>1, <2>2
<1>12. \A a \in X : a.hash \in DOMAIN t /\ a.data = a.hash /\ a.k = t[a.hash].k /\ a.v = t[a.hash].v
  BY <1>4, <1>5 DEF CpuData, InPlace, X
<1>13. CpuData(d)
  BY ONLY <1>9, <1>11, <1>12 DEF CpuData, InPlace
<1> QED
  BY <1>13 DEF d

-----------------------------------------------------------------------------
(* The data on the GPU.                                                    *)

\* A node holds the KV of its prefix, on both sides.
NodeData(m) == \A h \in DOMAIN m.table : m.kv[m.table[h].blk] = h
AllData(m) == NodeData(m) /\ CpuData(m.cpu)

\* The users' blocks keep their data.
KvKept(m, n, B, L) == \A s \in L : \A b \in B[s] : n.kv[b] = m.kv[b]

LEMMA KvKeptTwice ==
  ASSUME NEW m, NEW n, NEW o, NEW B, NEW L, KvKept(m, n, B, L), KvKept(n, o, B, L)
  PROVE  KvKept(m, o, B, L)
BY DEF KvKept

\* The nodes have the same blocks, and these have the same data.
LEMMA SameNodeData ==
  ASSUME NEW m, NEW n, NodeData(m), n.kv = m.kv, DOMAIN n.table = DOMAIN m.table,
         \A h \in DOMAIN m.table : n.table[h].blk = m.table[h].blk
  PROVE  NodeData(n)
BY DEF NodeData

\* Deleting nodes nobody refers to wipes no block of a user or of another node.
LEMMA DeleteData ==
  ASSUME NEW m, NEW n, NEW B, NEW N, NEW L, NEW H, IsFiniteSet(L),
         GpuOK(m, B, N, L), H \subseteq m.evictor, DeleteStep(m, n, H), NodeData(m)
  PROVE  NodeData(n) /\ KvKept(m, n, B, L) /\ n.cpu = m.cpu
<1> DEFINE blk == NodeSpans(m, H)
<1>1. FewerNodes(m, n, H)
  BY DeleteGpuOK
<1>2. /\ \A b \in Blocks : n.kv[b] = IF b \in Range(blk) THEN Junk ELSE m.kv[b]
      /\ n.cpu = m.cpu
  BY DEF DeleteStep, Wiped
<1>3. \A b \in Range(blk) : \E h \in H : b = m.table[h].blk
  BY DEF NodeSpans, Range
<1> HIDE DEF blk
<1>4. /\ \A h \in DOMAIN m.table : m.table[h].blk \in Blocks
      /\ \A g, h \in DOMAIN m.table : m.table[g].blk = m.table[h].blk => g = h
      /\ \A h \in H : h \in DOMAIN m.table /\ m.table[h].ref_cnt = 0
  BY DEF GpuOK, TableOK
<1>5. NodeData(n)
  <2> SUFFICES ASSUME NEW h \in DOMAIN n.table PROVE n.kv[n.table[h].blk] = h
    BY DEF NodeData
  <2>1. h \in DOMAIN m.table /\ h \notin H /\ n.table[h] = m.table[h]
    BY <1>1 DEF FewerNodes
  <2>2. m.table[h].blk \in Blocks /\ m.table[h].blk \notin Range(blk)
    BY <1>3, <1>4, <2>1
  <2>3. m.kv[m.table[h].blk] = h
    BY <2>1 DEF NodeData
  <2> QED
    BY ONLY <1>2, <2>1, <2>2, <2>3
<1>6. ASSUME NEW s \in L, NEW b \in B[s] PROVE n.kv[b] = m.kv[b]
  <2>1. b \in Blocks
    BY DEF GpuOK, ShareOK
  <2>2. b \notin Range(blk)
    <3> SUFFICES ASSUME b \in Range(blk) PROVE FALSE
      OBVIOUS
    <3>1. PICK h \in H : b = m.table[h].blk
      BY <1>3
    <3>2. h \in DOMAIN m.table /\ m.table[h].ref_cnt = 0
      BY <1>4
    <3>3. h \in N[s]
      BY <3>1, <3>2 DEF GpuOK, ShareOK
    <3>4. PICK S : S = {r \in L : h \in N[r]}
      OBVIOUS
    <3>5. Cardinality(S) = 0 /\ S \subseteq L /\ s \in S
      BY <3>2, <3>3, <3>4 DEF GpuOK, CountOK
    <3>6. IsFiniteSet(S)
      BY <3>5, FS_Subset
    <3> QED
      BY ONLY <3>5, <3>6, FS_EmptySet
  <2> QED
    BY <1>2, <2>1, <2>2
<1> QED
  BY <1>2, <1>5, <1>6 DEF KvKept

\* Eviction, with the swap to the CPU.
LEMMA EvictData ==
  ASSUME NEW m, NEW B, NEW N, NEW L, NEW T \in Nat, IsFiniteSet(L), CacheOK(m, B, N, L, T),
         AllData(m), NEW k, NEW expired, NEW o, o = evict_unrefered_by_num(m, k, expired)
  PROVE  AllData(o) /\ KvKept(m, o, B, L)
<1> DEFINE V == FindMultiVictims(m, k)
           D == {h \in V : m.table[h].ts <= expired}
           S == V \ D
           a == delete_nodes(m, D)
           b == swap_to_cpu_by_hashlist(a, S)
           n == delete_nodes(b, S)
<1>1. n = o
  BY DEF evict_unrefered_by_num
<1>2. V \subseteq m.evictor
  BY DEF FindMultiVictims
<1>3. GpuOK(m, B, N, L) /\ CpuOK(m.cpu, T) /\ \A h \in DOMAIN m.table : m.table[h].ts <= T
  BY DEF CacheOK
<1>4. /\ ManagerShape(m) /\ IsFiniteSet(DOMAIN m.table)
      /\ m.evictor = {h \in DOMAIN m.table : m.table[h].ref_cnt = 0}
      /\ \A h \in DOMAIN m.table : h \in Seq(Tokens) /\ m.table[h].ts \in Nat
  BY <1>3 DEF GpuOK, TableOK
<1>5. D \subseteq m.evictor /\ S \subseteq m.evictor /\ D \cap S = {}
  BY <1>2
<1> HIDE DEF V, D, S
<1>6. DeleteStep(m, a, D)
  BY <1>4, DeleteNodesStep
<1>7. GpuOK(a, B, N, L) /\ FewerNodes(m, a, D)
  BY <1>3, <1>5, <1>6, DeleteGpuOK
<1>8. a.cpu = m.cpu /\ a.evictor = m.evictor \ D /\ ManagerShape(a)
  BY <1>6 DEF DeleteStep
<1>80. NodeData(a) /\ KvKept(m, a, B, L)
  BY <1>3, <1>5, <1>6, DeleteData DEF AllData
<1> HIDE DEF a
<1>9. /\ \A h \in S : h \in DOMAIN a.table /\ a.table[h] = m.table[h]
      /\ S \subseteq a.evictor
  BY <1>4, <1>5, <1>7, <1>8 DEF FewerNodes
<1>10. SwapInput(a, S, T)
  <2>1. IsFiniteSet(S)
    BY <1>4, <1>5, FS_Subset
  <2>2. ASSUME NEW h \in S
        PROVE  h \in Seq(Tokens) /\ a.table[h].ts \in 0..T
    <3>1. h \in DOMAIN m.table
      BY <1>4, <1>5
    <3> QED
      BY <1>3, <1>4, <1>9, <3>1
  <2> QED
    BY <2>1, <2>2 DEF SwapInput
<1>11. CpuOK(a.cpu, T) /\ CpuData(a.cpu)
  BY <1>3, <1>8 DEF AllData
<1>12. CpuData(b.cpu)
  <2>1. \A h \in S : a.kv[a.table[h].blk] = h
    BY <1>9, <1>80 DEF NodeData
  <2> QED
    BY <1>8, <1>10, <1>11, <2>1, SwapData
<1>13. /\ ManagerShape(b) /\ b.table = a.table /\ b.evictor = a.evictor /\ b.free = a.free
       /\ b.extra = a.extra /\ b.kv = a.kv
  BY <1>8, SwapFields
<1> HIDE DEF b
<1>14. GpuOK(b, B, N, L)
  BY <1>7, <1>13, SameGpu
<1>15. DeleteStep(b, n, S)
  BY <1>13, DeleteNodesStep
<1>16. S \subseteq b.evictor /\ NodeData(b) /\ KvKept(m, b, B, L)
  BY <1>9, <1>13, <1>80 DEF NodeData, KvKept
<1> HIDE DEF n
<1>17. NodeData(n) /\ KvKept(b, n, B, L) /\ n.cpu = b.cpu
  BY <1>14, <1>15, <1>16, DeleteData
<1>18. KvKept(m, n, B, L)
  BY ONLY <1>16, <1>17, KvKeptTwice
<1> QED
  BY <1>1, <1>12, <1>17, <1>18 DEF AllData

\* RefOnly and UnRef leave the data.
LEMMA RefOnlyData ==
  ASSUME NEW m, NEW T \in Nat, TableOK(m), CpuOK(m.cpu, T), NEW H, NEW ts \in 0..T, NEW n, n = RefOnly(m, H, ts)
  PROVE  n.kv = m.kv /\ SameCpu(m.cpu, n.cpu) /\ (AllData(m) => AllData(n))
<1> DEFINE tss == OneTs(H, ts)
<1>1. ManagerShape(m) /\ ts \in Nat
  BY DEF TableOK
<1>2. RefStep(m, n, H, ts) /\ n.cpu = update_node_ts(m.cpu, tss)
  BY <1>1, RefOnlyIsStep
<1>3. \A h \in DOMAIN tss : tss[h] \in 0..T
  BY DEF OneTs
<1> HIDE DEF tss
<1>4. SameCpu(m.cpu, n.cpu)
  BY <1>2, <1>3, TouchSameCpu
<1>5. n.kv = m.kv
  BY <1>2 DEF RefStep
<1>6. RefEffect(m, n, H, ts)
  BY <1>1, <1>2, RefStepEffect
<1>7. ASSUME AllData(m) PROVE AllData(n)
  <2>1. NodeData(n)
    BY <1>5, <1>6, <1>7, SameNodeData DEF RefEffect, AllData
  <2>2. CpuData(n.cpu)
    BY <1>4, <1>7, SameCpuData DEF AllData
  <2> QED
    BY <2>1, <2>2 DEF AllData
<1> QED
  BY <1>4, <1>5, <1>7

LEMMA UnRefData ==
  ASSUME NEW m, NEW T \in Nat, TableOK(m), CpuOK(m.cpu, T), \A h \in DOMAIN m.table : m.table[h].ts <= T,
         NEW H, H \subseteq DOMAIN m.table, NEW n, n = UnRef(m, H), SameNodes(m, n)
  PROVE  n.kv = m.kv /\ (AllData(m) => AllData(n))
<1> DEFINE tss == [h \in H |-> m.table[h].ts]
<1>1. UnrefStep(m, n, H) /\ n.cpu = update_node_ts(m.cpu, tss)
  BY UnRefIsStep DEF TableOK
<1>2. \A h \in DOMAIN m.table : m.table[h].ts \in Nat
  BY DEF TableOK
<1>3. \A h \in DOMAIN tss : tss[h] \in 0..T
  BY <1>2
<1> HIDE DEF tss
<1>4. SameCpu(m.cpu, n.cpu)
  BY <1>1, <1>3, TouchSameCpu
<1>5. n.kv = m.kv
  BY <1>1 DEF UnrefStep
<1>7. ASSUME AllData(m) PROVE AllData(n)
  <2>1. NodeData(n)
    BY <1>5, <1>7, SameNodeData DEF SameNodes, AllData
  <2>2. CpuData(n.cpu)
    BY <1>4, <1>7, SameCpuData DEF AllData
  <2> QED
    BY <2>1, <2>2 DEF AllData
<1> QED
  BY <1>5, <1>7

LEMMA MakeRoomData ==
  ASSUME NEW m, NEW B, NEW N, NEW L, NEW T \in Nat, IsFiniteSet(L), CacheOK(m, B, N, L, T),
         NEW r, r \notin L, r \in DOMAIN N, N[r] = {}, B[r] = {}, L \subseteq DOMAIN N,
         NEW toks, NEW expired, NEW o, o = MakeRoom(m, toks, T, expired), AllData(m)
  PROVE  AllData(o) /\ KvKept(m, o, B, L)
<1> DEFINE R == CachedRun(m, toks)
           G == OnGpu(m, R)
           need == ContextFrames(m, toks)
           held == RefOnly(m, R, T)
           k == need - CountFree(held)
           room == IF need > CountFree(held) THEN evict_unrefered_by_num(held, k, expired) ELSE held
           n == UnRef(room, G)
           U == L \cup {r}
           N2 == [s \in DOMAIN N |-> IF s = r THEN G ELSE N[s]]
<1>1. n = o
  BY DEF MakeRoom, EvictUnrefered
<1>3. G = R \cap DOMAIN m.table
  BY DEF OnGpu
<1> HIDE DEF R, G, need
<1>4. IsFiniteSet(U) /\ r \in U /\ U \ {r} = L
  BY FS_AddElement
<1>5. CacheOK(m, B, N, U, T)
  BY AddUser DEF CacheOK
<1>60. Takes(m, N, N2, U, r, R)
  BY <1>3 DEF Takes
<1>6. N2[r] = G /\ T <= T
  BY <1>3
<1>61. L \subseteq U
  OBVIOUS
<1> HIDE DEF U, N2
<1>7. CacheOK(held, B, N2, U, T)
  BY <1>4, <1>5, <1>60, RefOnlyOK
<1>70. held.kv = m.kv /\ AllData(held)
  <2>1. TableOK(m) /\ CpuOK(m.cpu, T) /\ T \in 0..T
    BY DEF CacheOK, GpuOK
  <2> QED
    BY <2>1, RefOnlyData
<1> HIDE DEF held, k
<1>8. CacheOK(room, B, N2, U, T) /\ AllData(room) /\ KvKept(held, room, B, U)
  <2>1. CASE need > CountFree(held)
    <3>1. PICK e : e = evict_unrefered_by_num(held, k, expired)
      OBVIOUS
    <3>2. CacheOK(e, B, N2, U, T)
      BY <1>4, <1>7, <3>1, EvictOK
    <3>3. AllData(e) /\ KvKept(held, e, B, U)
      BY ONLY <1>4, <1>7, <1>70, <3>1, EvictData, T \in Nat
    <3>4. room = e
      BY <2>1, <3>1
    <3> QED
      BY ONLY <3>2, <3>3, <3>4
  <2>2. CASE ~(need > CountFree(held))
    <3>1. room = held
      BY <2>2
    <3> QED
      BY <1>7, <1>70, <3>1 DEF KvKept
  <2> QED
    BY <2>1, <2>2
<1> HIDE DEF room
<1>9. SameNodes(room, n)
  BY <1>4, <1>6, <1>8, UnRefOK
<1>10. /\ TableOK(room) /\ CpuOK(room.cpu, T) /\ G \subseteq DOMAIN room.table
       /\ \A h \in DOMAIN room.table : room.table[h].ts <= T
  BY <1>4, <1>6, <1>8 DEF CacheOK, GpuOK, CountOK
<1>11. n.kv = room.kv /\ AllData(n)
  BY <1>8, <1>9, <1>10, UnRefData
<1> HIDE DEF n
<1>12. KvKept(m, n, B, L)
  BY <1>61, <1>70, <1>8, <1>11 DEF KvKept
<1> QED
  BY <1>1, <1>11, <1>12

-----------------------------------------------------------------------------
(* Runs of prefixes in their order.                                        *)

PrefixRun(toks, a, n) == {PrefixAt(toks, j) : j \in (a + 1)..(a + n)}

LEMMA RunCount ==
  ASSUME NEW toks \in Seq(Tokens), NEW a \in Nat, NEW n \in Nat, (a + n) * SpanSize <= Len(toks)
  PROVE  /\ IsFiniteSet(PrefixRun(toks, a, n)) /\ Cardinality(PrefixRun(toks, a, n)) = n
         /\ \A j \in (a + 1)..(a + n) : j \in Nat /\ j * SpanSize <= Len(toks)
<1> DEFINE D == (a + 1)..(a + n)
           f == [j \in D |-> PrefixAt(toks, j)]
<1>0. SpanSize \in Nat \ {0} /\ Len(toks) \in Nat
  BY PrefixCacheAssumption
<1>1. IsFiniteSet(D) /\ Cardinality(D) = n
  <2>1. a + 1 \in Int /\ a + n \in Int
    OBVIOUS
  <2>2. Cardinality(D) = IF a + 1 > a + n THEN 0 ELSE (a + n) - (a + 1) + 1
    BY ONLY <2>1, FS_Interval
  <2>3. IsFiniteSet(D)
    BY ONLY <2>1, FS_Interval
  <2> QED
    BY <2>2, <2>3
<1>2. ASSUME NEW j \in D PROVE j \in Nat /\ j * SpanSize <= Len(toks)
  <2>1. j \in Nat /\ j <= a + n
    OBVIOUS
  <2>2. j * SpanSize <= (a + n) * SpanSize
    BY <1>0, <2>1, Multiples
  <2>3. j * SpanSize \in Nat /\ (a + n) * SpanSize \in Nat
    BY <1>0, <2>1
  <2> QED
    BY <1>0, <2>1, <2>2, <2>3
<1>3. \A i, j \in D : f[i] = f[j] => i = j
  BY <1>2, PrefixesDiffer
<1>4. DOMAIN f = D /\ {f[h] : h \in D} = PrefixRun(toks, a, n)
  BY DEF PrefixRun
<1> HIDE DEF D, f
<1>5. IsFiniteSet({f[h] : h \in D}) /\ Cardinality({f[h] : h \in D}) = Cardinality(D)
  BY ONLY <1>1, <1>3, <1>4, ImageCount
<1>6. \A j \in D : j \in Nat /\ j * SpanSize <= Len(toks)
  BY <1>2
<1> QED
  BY <1>1, <1>4, <1>5, <1>6 DEF D

LEMMA RunInOrder ==
  ASSUME NEW toks \in Seq(Tokens), NEW a \in Nat, NEW n \in Nat, (a + n) * SpanSize <= Len(toks),
         NEW H, H = PrefixRun(toks, a, n)
  PROVE  Cardinality(H) = n /\ \A i \in 1..n : InOrder(H)[i] = PrefixAt(toks, a + i)
<1> DEFINE Below(h) == {g \in H : Len(g) <= Len(h)}
<1>0. SpanSize \in Nat \ {0} /\ Len(toks) \in Nat
  BY PrefixCacheAssumption
<1>1. /\ Cardinality(H) = n
      /\ \A j \in (a + 1)..(a + n) : j \in Nat /\ j * SpanSize <= Len(toks)
  BY RunCount
<1>2. \A j \in (a + 1)..(a + n) : Len(PrefixAt(toks, j)) = j * SpanSize
  BY <1>1, PrefixFacts
<1>3. ASSUME NEW i \in 1..n
      PROVE  PrefixAt(toks, a + i) \in H /\ Cardinality(Below(PrefixAt(toks, a + i))) = i
  <2>1. a + i \in (a + 1)..(a + n) /\ i \in Nat /\ (a + i) * SpanSize <= Len(toks)
    BY <1>1
  <2>2. PrefixAt(toks, a + i) \in H
    BY <2>1 DEF PrefixRun
  <2>3. ASSUME NEW j \in (a + 1)..(a + n)
        PROVE  Len(PrefixAt(toks, j)) <= Len(PrefixAt(toks, a + i)) <=> j \in (a + 1)..(a + i)
    <3>1. Len(PrefixAt(toks, j)) = j * SpanSize /\ Len(PrefixAt(toks, a + i)) = (a + i) * SpanSize
      BY <1>2, <2>1
    <3>2. j \in Int /\ a + i \in Int
      OBVIOUS
    <3>3. /\ j <= a + i => j * SpanSize <= (a + i) * SpanSize
          /\ a + i < j => (a + i) * SpanSize + SpanSize <= j * SpanSize
      BY ONLY <1>0, <3>2, Multiples
    <3>4. PICK p, q : p = j * SpanSize /\ q = (a + i) * SpanSize
      OBVIOUS
    <3>5. p \in Int /\ q \in Int
      BY ONLY <1>0, <3>2, <3>4
    <3>6. (j <= a + i => p <= q) /\ (a + i < j => q + SpanSize <= p)
      BY ONLY <3>3, <3>4
    <3>7. p <= q <=> j <= a + i
      BY ONLY <1>0, <3>2, <3>5, <3>6
    <3> QED
      BY <3>1, <3>4, <3>7
  <2>4. Below(PrefixAt(toks, a + i)) = PrefixRun(toks, a, i)
    <3>1. \A j \in (a + 1)..(a + i) : j \in (a + 1)..(a + n)
      OBVIOUS
    <3> QED
      BY <2>3, <3>1 DEF PrefixRun
  <2>5. Cardinality(PrefixRun(toks, a, i)) = i
    BY ONLY toks \in Seq(Tokens), a \in Nat, <2>1, RunCount
  <2> QED
    BY ONLY <2>2, <2>4, <2>5
<1>4. ASSUME NEW i \in 1..n PROVE InOrder(H)[i] = PrefixAt(toks, a + i)
  <2>1. InOrder(H)[i] = CHOOSE h \in H : Cardinality(Below(h)) = i
    BY <1>1 DEF InOrder
  <2>2. \A h \in H : Cardinality(Below(h)) = i => h = PrefixAt(toks, a + i)
    <3> SUFFICES ASSUME NEW h \in H, Cardinality(Below(h)) = i PROVE h = PrefixAt(toks, a + i)
      OBVIOUS
    <3>1. PICK j \in (a + 1)..(a + n) : h = PrefixAt(toks, j)
      BY DEF PrefixRun
    <3>2. PICK e \in 1..n : j = a + e
      <4>1. j - a \in 1..n /\ j = a + (j - a)
        OBVIOUS
      <4> QED
        BY <4>1
    <3>3. Cardinality(Below(h)) = e
      BY <1>3, <3>1, <3>2
    <3> QED
      BY <3>1, <3>2, <3>3
  <2>3. PrefixAt(toks, a + i) \in H /\ Cardinality(Below(PrefixAt(toks, a + i))) = i
    BY <1>3
  <2> HIDE DEF Below
  <2> QED
    BY ONLY <2>1, <2>2, <2>3
<1> QED
  BY <1>1, <1>4

\* A closed part of a run is its beginning.
LEMMA ClosedRun ==
  ASSUME NEW toks \in Seq(Tokens), NEW k \in Nat, k * SpanSize <= Len(toks),
         NEW G, G \subseteq FirstPrefixes(toks, k), Closed(G)
  PROVE  \E g \in 0..k : /\ G = PrefixRun(toks, 0, g)
                         /\ FirstPrefixes(toks, k) \ G = PrefixRun(toks, g, k - g)
<1> DEFINE J == {j \in 0..k : j = k \/ PrefixAt(toks, j + 1) \notin G}
<1>0. J \subseteq Nat /\ k \in J
  OBVIOUS
<1>1. PICK g \in J : \A y \in J : g <= y
  <2>1. J # {}
    BY <1>0
  <2> HIDE DEF J
  <2> QED
    BY <1>0, <2>1, LeastElement
<1>2. ASSUME NEW j \in 1..g PROVE PrefixAt(toks, j) \in G
  <2>1. j - 1 \in 0..k /\ j - 1 # k /\ ~(g <= j - 1) /\ (j - 1) + 1 = j
    BY <1>1
  <2> QED
    BY <1>1, <2>1
<1>3. ASSUME NEW j \in (g + 1)..k PROVE PrefixAt(toks, j) \notin G
  <2> SUFFICES ASSUME PrefixAt(toks, j) \in G PROVE FALSE
    OBVIOUS
  <2> DEFINE h == PrefixAt(toks, j)
  <2>1. g \in 0..k /\ g # k /\ PrefixAt(toks, g + 1) \notin G
    BY <1>1
  <2>2. j \in 1..k /\ j \in Nat
    BY <2>1
  <2>3. j * SpanSize <= Len(toks)
    BY <2>2, FirstPrefixesFacts
  <2>4. Len(h) \div SpanSize = j /\ \A i \in 1..j : SubSeq(h, 1, i * SpanSize) = PrefixAt(toks, i)
    BY <2>2, <2>3, PrefixFacts
  <2>5. g + 1 \in 1..j
    BY <2>1
  <2>6. PrefixAt(h, g + 1) \in G
    BY <2>4, <2>5 DEF Closed
  <2>7. PrefixAt(h, g + 1) = PrefixAt(toks, g + 1)
    BY <2>4, <2>5 DEF PrefixAt
  <2> QED
    BY <2>1, <2>6, <2>7
<1>4. g \in 0..k
  BY <1>1
<1>5. G = PrefixRun(toks, 0, g)
  <2>1. \A h \in G : \E j \in 1..k : h = PrefixAt(toks, j)
    BY DEF FirstPrefixes
  <2>2. \A j \in 1..k : j \in 1..g \/ j \in (g + 1)..k
    BY <1>4
  <2>3. (0 + 1)..(0 + g) = 1..g
    BY <1>4
  <2>4. PrefixRun(toks, 0, g) = {PrefixAt(toks, j) : j \in 1..g}
    BY <2>3 DEF PrefixRun
  <2>5. ASSUME NEW h \in G PROVE h \in {PrefixAt(toks, j) : j \in 1..g}
    <3>1. PICK j \in 1..k : h = PrefixAt(toks, j)
      BY <2>1
    <3>2. j \in 1..g
      BY <1>3, <2>2, <3>1
    <3> QED
      BY <3>1, <3>2
  <2>6. ASSUME NEW h \in {PrefixAt(toks, j) : j \in 1..g} PROVE h \in G
    BY ONLY <1>2, <2>6
  <2> QED
    BY ONLY <2>4, <2>5, <2>6
<1>6. FirstPrefixes(toks, k) \ G = PrefixRun(toks, g, k - g)
  <2>1. (g + 1)..(g + (k - g)) = (g + 1)..k
    BY <1>4
  <2>2. PrefixRun(toks, g, k - g) = {PrefixAt(toks, j) : j \in (g + 1)..k}
    BY <2>1 DEF PrefixRun
  <2>3. \A j \in 1..k : j \in 1..g \/ j \in (g + 1)..k
    BY <1>4
  <2>4. \A j \in (g + 1)..k : j \in 1..k
    BY <1>4
  <2> QED
    BY ONLY <1>2, <1>3, <2>2, <2>3, <2>4 DEF FirstPrefixes
<1> QED
  BY <1>4, <1>5, <1>6

-----------------------------------------------------------------------------
(* Claimed blocks and their data.                                          *)

\* Blocks claimed for data hold it; a block that was not free keeps its data.
KvClaim(m, n, data, blk) ==
  /\ n.table = m.table /\ n.cpu = m.cpu
  /\ \A i \in DOMAIN data : blk[i] \in FreeBlocks(m) /\ n.kv[blk[i]] = data[i]
  /\ \A b \in Blocks \ FreeBlocks(m) : n.kv[b] = m.kv[b]

LEMMA ClaimKv ==
  ASSUME NEW m, ManagerShape(m), NEW data, IsFiniteSet(DOMAIN data),
         NEW s, s = ClaimSpans(m, data), s.m.fault = {}
  PROVE  KvClaim(m, s.m, data, s.blk)
<1> DEFINE c == ClaimSpans(m, data)
<1>0. c.m.fault = {}
  OBVIOUS
<1>1. /\ c.blk \in [DOMAIN data -> FreeBlocks(m)] /\ IsInjective(c.blk)
      /\ c.m.kv = [b \in Blocks |-> IF b \in Range(c.blk)
                     THEN data[CHOOSE i \in DOMAIN data : c.blk[i] = b] ELSE m.kv[b]]
      /\ c.m.table = m.table /\ c.m.cpu = m.cpu
  BY <1>0, ClaimSpansFields
<1>2. c = s
  OBVIOUS
<1> HIDE DEF c
<1> DEFINE blk == c.blk
           kv == c.m.kv
<1>3. /\ blk \in [DOMAIN data -> FreeBlocks(m)] /\ IsInjective(blk)
      /\ kv = [b \in Blocks |-> IF b \in Range(blk)
                 THEN data[CHOOSE i \in DOMAIN data : blk[i] = b] ELSE m.kv[b]]
  BY ONLY <1>1
<1> HIDE DEF blk, kv
<1>4. FreeBlocks(m) \subseteq Blocks
  BY DEF FreeBlocks
<1>5. ASSUME NEW i \in DOMAIN data PROVE blk[i] \in FreeBlocks(m) /\ kv[blk[i]] = data[i]
  <2>1. blk[i] \in FreeBlocks(m) /\ blk[i] \in Blocks /\ blk[i] \in Range(blk)
    BY ONLY <1>3, <1>4, <1>5 DEF Range
  <2>2. \A k \in DOMAIN data : blk[k] = blk[i] => k = i
    BY ONLY <1>3, <1>5 DEF IsInjective
  <2>3. (CHOOSE k \in DOMAIN data : blk[k] = blk[i]) = i
    BY ONLY <2>2, <1>5
  <2>4. PICK b : b = blk[i]
    OBVIOUS
  <2>5. kv[b] = data[CHOOSE k \in DOMAIN data : blk[k] = b]
    BY ONLY <1>3, <2>1, <2>4
  <2> QED
    BY ONLY <2>1, <2>3, <2>4, <2>5
<1>6. ASSUME NEW b \in Blocks \ FreeBlocks(m) PROVE kv[b] = m.kv[b]
  <2>1. b \notin Range(blk)
    BY ONLY <1>3, <1>6 DEF Range
  <2> QED
    BY ONLY <1>3, <1>6, <2>1
<1>7. KvClaim(m, c.m, data, c.blk)
  BY ONLY <1>1, <1>5, <1>6 DEF KvClaim, blk, kv
<1> QED
  BY <1>2, <1>7

\* What a node or a user has is not free.
LEMMA ClaimData ==
  ASSUME NEW m, NEW B, NEW N, NEW L, GpuOK(m, B, N, L), NEW n, NEW data, NEW blk, KvClaim(m, n, data, blk)
  PROVE  KvKept(m, n, B, L) /\ (AllData(m) => AllData(n))
<1>1. /\ \A h \in DOMAIN m.table : m.table[h].blk \in Blocks /\ m.table[h].blk \in NodeBlocks(m)
      /\ \A s \in L : B[s] \subseteq Blocks
  BY DEF GpuOK, TableOK, ShareOK, NodeBlocks
<1>2. ASSUME NEW b \in Blocks, b \in NodeBlocks(m) \/ \E s \in L : b \in B[s]
      PROVE  b \notin FreeBlocks(m)
  <2>1. m.free[b] = 0
    BY <1>2 DEF GpuOK, OwnOK
  <2> QED
    BY <2>1 DEF FreeBlocks
<1>3. KvKept(m, n, B, L)
  BY <1>1, <1>2 DEF KvClaim, KvKept
<1>4. ASSUME AllData(m) PROVE AllData(n)
  <2>1. \A h \in DOMAIN m.table : n.kv[m.table[h].blk] = m.kv[m.table[h].blk]
    BY <1>1, <1>2 DEF KvClaim
  <2>2. NodeData(n)
    BY <1>4, <2>1 DEF KvClaim, AllData, NodeData
  <2>3. CpuData(n.cpu)
    BY <1>4 DEF KvClaim, AllData
  <2> QED
    BY <2>2, <2>3 DEF AllData
<1> QED
  BY <1>3, <1>4

AllReady(m, C) == \A h \in C : m.cpu.table[h].ready
SwapInHolds(m, n, B, L, C, s) ==
  AllData(n) /\ KvKept(m, n, B, L) /\ \A h \in C : n.kv[s.blk[h]] = h

\* The nodes that come back from the CPU bring their data.
LEMMA SwapInData ==
  ASSUME NEW m, NEW B, NEW N, NEW L, NEW T \in Nat, CacheOK(m, B, N, L, T), NEW r, NEW C, CpuHits(m, C),
         NEW s, s = SwapIn(m, C), NEW n, n = RefOnly(s.m, C, T), n.fault = {},
         SwapInGives(m, n, B, L, T, r, C, s), AllData(m), AllReady(m, C)
  PROVE  SwapInHolds(m, n, B, L, C, s)
<1>0. /\ IsFiniteSet(C) /\ C \subseteq DOMAIN m.cpu.table
  BY DEF CpuHits
<1> DEFINE c == m.cpu
           data == [h \in C |-> IF c.kv[c.table[h].k] = c.kv[c.table[h].v] THEN c.kv[c.table[h].k] ELSE Junk]
           a == ClaimSpans(m, data)
           new == [h \in C |-> [blk |-> a.blk[h], ref_cnt |-> 0, ts |-> c.table[h].ts]]
           i == insert_nodes(a.m, new)
<1>1. s = [m |-> i, blk |-> a.blk]
  BY DEF SwapIn
<1>2. s.m = i /\ s.blk = a.blk
  <2> HIDE DEF i, a
  <2> QED
    BY ONLY <1>1
<1>3. DOMAIN data = C /\ \A h \in C : data[h] = h
  <2> SUFFICES ASSUME NEW h \in C PROVE data[h] = h
    OBVIOUS
  <2>1. c.kv[c.table[h].k] = h /\ c.kv[c.table[h].v] = h
    BY <1>0 DEF AllData, CpuData, AllReady
  <2> QED
    BY <2>1
<1>4. GpuOK(m, B, N, L) /\ CpuOK(m.cpu, T) /\ ManagerShape(m)
  BY DEF CacheOK, GpuOK, TableOK
<1> HIDE DEF data
<1>6. ManagerShape(a.m) /\ m.fault \subseteq a.m.fault
  BY <1>0, <1>3, <1>4, ClaimSpansFields
<1> HIDE DEF new
<1>60. a = ClaimSpans(m, data)
  OBVIOUS
<1> HIDE DEF a
<1>7. /\ a.m.fault \subseteq i.fault /\ ManagerShape(i)
      /\ i.fault = {} => InsertStep(a.m, i, new)
  BY <1>6, InsertNodesIsStep
<1> HIDE DEF i
<1>8. n = RefOnly(i, C, T)
  BY <1>2
<1>9. RefStep(i, n, C, T) /\ n.cpu = update_node_ts(i.cpu, OneTs(C, T))
  BY <1>7, <1>8, RefOnlyIsStep
<1>11. i.fault = {} /\ a.m.fault = {}
  BY <1>6, <1>7, <1>9 DEF RefStep
<1>12. i.kv = a.m.kv /\ i.cpu = a.m.cpu
  BY <1>7, <1>11 DEF InsertStep
<1>13. KvClaim(m, a.m, data, a.blk)
  <2>1. IsFiniteSet(DOMAIN data)
    BY <1>0, <1>3
  <2> QED
    BY ONLY <1>4, <2>1, <1>60, <1>11, ClaimKv
<1>14. KvKept(m, a.m, B, L) /\ AllData(a.m)
  BY ONLY <1>4, <1>13, AllData(m), ClaimData
<1>15. n.kv = a.m.kv
  BY <1>9, <1>12 DEF RefStep
<1>16. \A h \in C : n.kv[s.blk[h]] = h
  BY ONLY <1>2, <1>3, <1>13, <1>15 DEF KvClaim
<1>17. CpuData(n.cpu)
  <2>1. \A h \in DOMAIN OneTs(C, T) : OneTs(C, T)[h] \in 0..T
    BY DEF OneTs
  <2>2. i.cpu = m.cpu
    BY <1>12, <1>13 DEF KvClaim
  <2>3. SameCpu(m.cpu, n.cpu)
    BY <1>4, <1>9, <2>1, <2>2, TouchSameCpu
  <2> QED
    BY <2>3, SameCpuData DEF AllData
<1>18. NodeData(n)
  <2>1. /\ DOMAIN n.table = DOMAIN m.table \cup C
        /\ \A h \in DOMAIN m.table : n.table[h].blk = m.table[h].blk
        /\ \A h \in C : n.table[h].blk = s.blk[h]
    BY DEF SwapInGives, FillEffect
  <2>2. \A h \in DOMAIN m.table : n.kv[m.table[h].blk] = h
    BY <1>13, <1>14, <1>15 DEF AllData, NodeData, KvClaim
  <2> QED
    BY ONLY <1>16, <2>1, <2>2 DEF NodeData
<1>19. KvKept(m, n, B, L)
  BY ONLY <1>14, <1>15 DEF KvKept
<1> QED
  BY <1>16, <1>17, <1>18, <1>19 DEF AllData, SwapInHolds

\* The first g spans of toks are the hits on the GPU, the next the hits on the CPU.
HitsRun(G, C, toks, k, g) ==
  /\ g \in 0..k /\ Cardinality(G) = g /\ Cardinality(C) = k - g
  /\ \A j \in 1..g : InOrder(G)[j] = PrefixAt(toks, j) /\ InOrder(G)[j] \in G
  /\ \A i \in 1..(k - g) : InOrder(C)[i] = PrefixAt(toks, g + i) /\ InOrder(C)[i] \in C

\* The hits of a prompt come in the order of its spans.
LEMMA HitsInOrder ==
  ASSUME NEW m, OrderOK(m.table), NEW toks \in Seq(Tokens), Len(toks) >= 1,
         NEW k \in Nat, k * SpanSize <= Len(toks), NEW R, R = CachedRun(m, toks), R = FirstPrefixes(toks, k),
         NEW G, G = OnGpu(m, R), NEW C, C = OnlyOnCpu(m, R)
  PROVE  \E g : HitsRun(G, C, toks, k, g)
<1>1. Closed(G)
  BY HitsClosed
<1>2. G \subseteq FirstPrefixes(toks, k) /\ C = FirstPrefixes(toks, k) \ G
  BY DEF OnGpu, OnlyOnCpu
<1>3. PICK g \in 0..k : G = PrefixRun(toks, 0, g) /\ FirstPrefixes(toks, k) \ G = PrefixRun(toks, g, k - g)
  BY ONLY <1>1, <1>2, toks \in Seq(Tokens), k \in Nat, k * SpanSize <= Len(toks), ClosedRun
<1>4. PICK e \in Nat : e = k - g
  BY <1>3
<1>5. 0 \in Nat /\ g \in Nat /\ g + e = k /\ 0 + g = g
  BY <1>3, <1>4
<1>6. g * SpanSize <= Len(toks)
  <2>1. SpanSize \in Nat \ {0} /\ Len(toks) \in Nat
    BY PrefixCacheAssumption
  <2>2. g * SpanSize <= k * SpanSize
    BY <1>5, <2>1, Multiples
  <2>3. g * SpanSize \in Nat /\ k * SpanSize \in Nat
    BY <1>5, <2>1
  <2> QED
    BY <2>1, <2>2, <2>3
<1>7. C = PrefixRun(toks, g, e) /\ G = PrefixRun(toks, 0, g)
  BY ONLY <1>2, <1>3, <1>4
<1>8. (0 + g) * SpanSize <= Len(toks) /\ (g + e) * SpanSize <= Len(toks)
  BY ONLY <1>5, <1>6, k * SpanSize <= Len(toks)
<1>9. Cardinality(G) = g /\ \A i \in 1..g : InOrder(G)[i] = PrefixAt(toks, 0 + i)
  BY ONLY <1>5, <1>7, <1>8, toks \in Seq(Tokens), RunInOrder
<1>10. Cardinality(C) = e /\ \A i \in 1..e : InOrder(C)[i] = PrefixAt(toks, g + i)
  BY ONLY <1>5, <1>7, <1>8, toks \in Seq(Tokens), RunInOrder
<1>11. ASSUME NEW j \in 1..g PROVE InOrder(G)[j] = PrefixAt(toks, j) /\ InOrder(G)[j] \in G
  <2>1. 0 + j = j /\ j \in (0 + 1)..(0 + g)
    BY <1>5
  <2>2. PrefixAt(toks, j) \in G
    BY ONLY <1>7, <2>1 DEF PrefixRun
  <2> QED
    BY ONLY <1>9, <1>11, <2>1, <2>2
<1>12. ASSUME NEW i \in 1..e PROVE InOrder(C)[i] \in C
  <2>1. g + i \in (g + 1)..(g + e)
    BY <1>5
  <2>2. PrefixAt(toks, g + i) \in C
    BY ONLY <1>7, <2>1 DEF PrefixRun
  <2> QED
    BY ONLY <1>10, <1>12, <2>2
<1>13. HitsRun(G, C, toks, k, g)
  BY ONLY <1>3, <1>4, <1>9, <1>10, <1>11, <1>12 DEF HitsRun
<1> QED
  BY <1>13

LEMMA ConcatAt ==
  ASSUME NEW S, NEW a \in Seq(S), NEW b \in Seq(S), NEW j \in 1..Len(a \o b)
  PROVE  /\ Len(a \o b) = Len(a) + Len(b)
         /\ \/ j \in 1..Len(a) /\ (a \o b)[j] = a[j]
            \/ j - Len(a) \in 1..Len(b) /\ (a \o b)[j] = b[j - Len(a)]
<1>1. /\ Len(a \o b) = Len(a) + Len(b)
      /\ \A i \in 1..(Len(a) + Len(b)) : (a \o b)[i] = IF i <= Len(a) THEN a[i] ELSE b[i - Len(a)]
  BY ConcatProperties
<1>2. Len(a) \in Nat /\ Len(b) \in Nat
  OBVIOUS
<1>3. j \in 1..(Len(a) + Len(b))
  BY ONLY <1>1, j \in 1..Len(a \o b)
<1>4. (a \o b)[j] = IF j <= Len(a) THEN a[j] ELSE b[j - Len(a)]
  BY ONLY <1>1, <1>3
<1>5. j \in Int /\ (j <= Len(a) => j \in 1..Len(a)) /\ (~(j <= Len(a)) => j - Len(a) \in 1..Len(b))
  BY ONLY <1>2, <1>3
<1>6. CASE j <= Len(a)
  <2>1. (a \o b)[j] = a[j] /\ j \in 1..Len(a)
    BY ONLY <1>4, <1>5, <1>6
  <2> QED
    BY ONLY <1>1, <2>1
<1>7. CASE ~(j <= Len(a))
  <2>1. (a \o b)[j] = b[j - Len(a)] /\ j - Len(a) \in 1..Len(b)
    BY ONLY <1>4, <1>5, <1>7
  <2> QED
    BY ONLY <1>1, <2>1
<1> QED
  BY ONLY <1>6, <1>7

RefFillHolds(m, B, L, toks, f) ==
  /\ AllData(f.m) /\ KvKept(m, f.m, B, L)
  /\ \A j \in 1..Len(f.cache) : f.m.kv[f.cache[j]] = PrefixAt(toks, j)

\* RefFill hands out the KV of the prompt's first spans, in their order.
LEMMA RefFillData ==
  ASSUME NEW m, NEW B, NEW N, NEW L, NEW T, NEW r, NEW toks, NEW f, NEW B2, NEW N2,
         RefFillInput(m, B, N, L, T, r, toks, f, B2, N2), OrderOK(m.table), AllData(m), RefFillReady(m, toks)
  PROVE  RefFillHolds(m, B, L, toks, f)
<1>0. /\ T \in Nat /\ IsFiniteSet(L) /\ CacheOK(m, B, N, L, T)
      /\ r \in L /\ N[r] = {} /\ B[r] = {} /\ toks \in Seq(Tokens) /\ Len(toks) >= 1
      /\ f = RefFill(m, toks, T) /\ f.m.fault = {}
      /\ SetFor(B, B2, L, r, Range(f.cache)) /\ SetFor(N, N2, L, r, f.nodes)
  BY DEF RefFillInput
<1> USE <1>0
<1> DEFINE R == CachedRun(m, toks)
           G == OnGpu(m, R)
           C == OnlyOnCpu(m, R)
           a == RefOnly(m, G, T)
           s == SwapIn(a, C)
           n == RefOnly(s.m, C, T)
           x == [j \in 1..Cardinality(G) |-> m.table[InOrder(G)[j]].blk]
           y == [j \in 1..Cardinality(C) |-> s.blk[InOrder(C)[j]]]
<1>1. f = [m |-> n, cache |-> x \o y, nodes |-> R]
  BY DEF RefFill
<1>2. f.m = n /\ f.cache = x \o y /\ f.nodes = R
  <2> HIDE DEF n, x, y, R
  <2> QED
    BY ONLY <1>1
<1>3. G = R \cap DOMAIN m.table /\ C = R \ DOMAIN m.table
  BY DEF OnGpu, OnlyOnCpu
<1>4. PICK k \in 0..HashedCount(toks) : RunLength(m, toks, k)
  BY CachedRunFacts
<1>5. /\ k \in Nat /\ k * SpanSize <= Len(toks) /\ R = FirstPrefixes(toks, k)
      /\ R \subseteq DOMAIN m.table \cup DOMAIN m.cpu.table
  <2>1. HashedCount(toks) \in Nat /\ HashedCount(toks) * SpanSize < Len(toks)
    BY HashedFacts
  <2>2. SpanSize \in Nat \ {0} /\ Len(toks) \in Nat
    BY PrefixCacheAssumption
  <2>3. k \in Nat /\ k * SpanSize <= HashedCount(toks) * SpanSize
    BY <2>1, <2>2, Multiples
  <2>4. R = FirstPrefixes(toks, k) /\ R \subseteq DOMAIN m.table \cup DOMAIN m.cpu.table
    BY <1>4 DEF RunLength
  <2> HIDE DEF R
  <2> QED
    BY <2>1, <2>2, <2>3, <2>4
<1>50. R = CachedRun(m, toks) /\ G = OnGpu(m, R) /\ C = OnlyOnCpu(m, R)
  OBVIOUS
<1>51. \A h \in C : m.cpu.table[h].ready
  BY DEF RefFillReady
<1> HIDE DEF R, G, C
<1>6. /\ IsFiniteSet(R) /\ R \subseteq Seq(Tokens)
  BY <1>5, FirstPrefixesFacts
<1>7. IsFiniteSet(C)
  BY <1>3, <1>6, FS_Subset
<1> DEFINE N1 == [u \in L |-> IF u = r THEN G ELSE N[u]]
           B1 == [u \in L |-> IF u = r THEN Range(s.blk) ELSE B[u]]
<1>9. Takes(m, N, N1, L, r, G) /\ N1[r] = G /\ \A u \in L : u # r => N1[u] = N[u]
  BY <1>3 DEF Takes
<1>10. SetFor(B, B1, L, r, Range(s.blk))
  BY DEF SetFor
<1>11. SetFor(N1, N2, L, r, N1[r] \cup C)
  <2>1. G \cup C = R
    BY <1>3
  <2> HIDE DEF N1
  <2> QED
    BY <1>2, <1>9, <2>1 DEF SetFor
<1> HIDE DEF N1, B1
<1>12. /\ CacheOK(a, B, N1, L, T) /\ RefEffect(m, a, G, T)
       /\ DOMAIN a.cpu.table = DOMAIN m.cpu.table
  <2>1. Takes(m, N, N1, L, r, G)
    BY <1>9
  <2>2. T <= T
    OBVIOUS
  <2> QED
    BY <2>1, <2>2, RefOnlyOK
<1>120. a.kv = m.kv /\ SameCpu(m.cpu, a.cpu) /\ AllData(a)
  <2>1. TableOK(m) /\ CpuOK(m.cpu, T) /\ T \in 0..T
    BY DEF CacheOK, GpuOK
  <2>2. a = RefOnly(m, G, T)
    OBVIOUS
  <2> HIDE DEF a
  <2> QED
    BY ONLY <2>1, <2>2, AllData(m), T \in Nat, RefOnlyData
<1>13. DOMAIN a.table = DOMAIN m.table /\ \A h \in DOMAIN m.table : a.table[h].blk = m.table[h].blk
  BY <1>12 DEF RefEffect
<1> HIDE DEF a, x, y
<1>14. CpuHits(a, C)
  <2>1. C \subseteq Seq(Tokens) /\ C \subseteq DOMAIN a.cpu.table /\ C \cap DOMAIN a.table = {}
    BY <1>3, <1>5, <1>6, <1>12, <1>13
  <2> QED
    BY <1>7, <2>1 DEF CpuHits
<1>15. n.fault = {}
  BY <1>2
<1>150. s = SwapIn(a, C) /\ n = RefOnly(s.m, C, T)
  OBVIOUS
<1> HIDE DEF s, n
<1>16. SwapInGives(a, n, B, L, T, r, C, s)
  <2> DEFINE X == Range(s.blk)
             Y == N1[r] \cup C
  <2>1. SetFor(B, B1, L, r, X) /\ SetFor(N1, N2, L, r, Y)
    BY <1>10, <1>11
  <2>2. X = Range(s.blk) /\ Y = N1[r] \cup C
    OBVIOUS
  <2> HIDE DEF X, Y
  <2>3. T \in Nat /\ IsFiniteSet(L) /\ r \in L /\ B[r] = {}
    OBVIOUS
  <2>4. CacheOK(a, B, N1, L, T)
    BY <1>12
  <2> QED
    BY ONLY <1>14, <1>15, <1>150, <2>1, <2>2, <2>3, <2>4, SwapInOK
<1>17. AllReady(a, C)
  BY <1>51, <1>120, <1>14 DEF SameCpu, CpuHits, AllReady
<1>18. AllData(n) /\ KvKept(a, n, B, L) /\ \A h \in C : n.kv[s.blk[h]] = h
  <2>1. CacheOK(a, B, N1, L, T)
    BY <1>12
  <2>2. T \in Nat
    OBVIOUS
  <2>3. AllData(a)
    BY <1>120
  <2>4. SwapInHolds(a, n, B, L, C, s)
    BY ONLY <1>14, <1>15, <1>150, <1>16, <1>17, <2>1, <2>2, <2>3, SwapInData
  <2> QED
    BY ONLY <2>4 DEF SwapInHolds
<1>19. KvKept(m, n, B, L)
  BY ONLY <1>18, <1>120 DEF KvKept
<1>200. PICK g : HitsRun(G, C, toks, k, g)
  <2>1. toks \in Seq(Tokens) /\ Len(toks) >= 1
    OBVIOUS
  <2> QED
    BY ONLY <1>5, <1>50, <2>1, OrderOK(m.table), HitsInOrder
<1>20. /\ g \in 0..k /\ Cardinality(G) = g /\ Cardinality(C) = k - g
       /\ \A j \in 1..g : InOrder(G)[j] = PrefixAt(toks, j) /\ InOrder(G)[j] \in G
       /\ \A i \in 1..(k - g) : InOrder(C)[i] = PrefixAt(toks, g + i) /\ InOrder(C)[i] \in C
  BY ONLY <1>200 DEF HitsRun
<1>21. PICK e \in Nat : e = k - g
  BY <1>5, <1>20
<1>22. x = [j \in 1..g |-> m.table[InOrder(G)[j]].blk] /\ y = [j \in 1..e |-> s.blk[InOrder(C)[j]]]
  BY <1>20, <1>21 DEF x, y
<1>23. \A j \in 1..g : n.kv[x[j]] = PrefixAt(toks, j)
  <2> TAKE j \in 1..g
  <2>1. PICK h : h = InOrder(G)[j]
    OBVIOUS
  <2>2. h \in G /\ h = PrefixAt(toks, j) /\ x[j] = m.table[h].blk
    BY ONLY <1>20, <1>22, <2>1, j \in 1..g
  <2>3. h \in DOMAIN n.table /\ n.table[h].blk = m.table[h].blk
    BY <1>3, <1>13, <1>16, <2>2 DEF SwapInGives, FillEffect
  <2>4. n.kv[n.table[h].blk] = h
    BY <1>18, <2>3 DEF AllData, NodeData
  <2> QED
    BY ONLY <2>2, <2>3, <2>4
<1>24. \A j \in 1..e : n.kv[y[j]] = PrefixAt(toks, g + j)
  BY ONLY <1>18, <1>20, <1>21, <1>22
<1>25. ASSUME NEW j \in 1..Len(f.cache) PROVE f.m.kv[f.cache[j]] = PrefixAt(toks, j)
  <2>1. PICK S : x \in Seq(S) /\ y \in Seq(S)
    <3> DEFINE S == {x[i] : i \in 1..g} \cup {y[i] : i \in 1..e}
    <3>1. (\A i \in 1..g : x[i] \in S) /\ \A i \in 1..e : y[i] \in S
      OBVIOUS
    <3> HIDE DEF S
    <3>2. x \in [1..g -> S] /\ y \in [1..e -> S]
      BY ONLY <1>22, <3>1
    <3>3. g \in Nat /\ e \in Nat
      BY <1>20, <1>21
    <3>4. x \in Seq(S)
      BY ONLY <3>2, <3>3
    <3>5. y \in Seq(S)
      BY ONLY <3>2, <3>3
    <3> QED
      BY <3>4, <3>5
  <2>2. Len(x) = g /\ Len(y) = e /\ g \in Nat
    <3>1. g \in Nat /\ e \in Nat
      BY <1>20, <1>21
    <3>2. DOMAIN x = 1..g /\ DOMAIN y = 1..e
      BY ONLY <1>22
    <3> QED
      BY ONLY <2>1, <3>1, <3>2
  <2>3. j \in 1..Len(x \o y) /\ f.cache[j] = (x \o y)[j]
    BY ONLY <1>2, <1>25
  <2>4. \/ j \in 1..g /\ f.cache[j] = x[j]
        \/ j - g \in 1..e /\ f.cache[j] = y[j - g]
    BY ONLY <2>1, <2>2, <2>3, ConcatAt
  <2>5. CASE j \in 1..g /\ f.cache[j] = x[j]
    BY ONLY <1>2, <1>23, <2>5
  <2>6. CASE j - g \in 1..e /\ f.cache[j] = y[j - g]
    <3>1. j \in Int
      OBVIOUS
    <3>2. g + (j - g) = j
      BY ONLY <2>2, <3>1
    <3> QED
      BY ONLY <1>2, <1>24, <2>6, <3>2
  <2> QED
    BY ONLY <2>4, <2>5, <2>6
<1> QED
  BY ONLY <1>2, <1>18, <1>19, <1>25 DEF RefFillHolds

-----------------------------------------------------------------------------
(* The data of FillUp, Insert and StopContext.                             *)

\* The spans of cache hold the KV of the first n tokens of toks.
CacheHolds(m, cache, toks, n) == \A j \in DOMAIN cache : m.kv[cache[j]] = SpanKv(toks, n, j)

FillUpHolds(m, p, B, L, toks) ==
  AllData(p.m) /\ KvKept(m, p.m, B, L) /\ CacheHolds(p.m, p.cache, toks, Len(toks))

LEMMA FillUpData ==
  ASSUME NEW m, NEW B, NEW N, NEW L, NEW T, NEW r, NEW toks, NEW cache, NEW p, NEW X, NEW B2,
         FillUpInput(m, B, N, L, T, r, toks, cache, p, X, B2), AllData(m), CacheHolds(m, cache, toks, Len(toks))
  PROVE  FillUpHolds(m, p, B, L, toks)
<1>0. /\ T \in Nat /\ CacheOK(m, B, N, L, T) /\ r \in L
      /\ toks \in Seq(Tokens) /\ cache \in Seq(Blocks) /\ IsInjective(cache)
      /\ Len(cache) <= SpansFor(Len(toks)) /\ B[r] = Range(cache)
      /\ p = FillUp(m, toks, cache) /\ p.m.fault = {}
  BY DEF FillUpInput
<1> USE <1>0
<1> DEFINE n == SpansFor(Len(toks))
           c == Len(cache)
           D == (c + 1)..n
           data == [j \in D |-> SpanKv(toks, Len(toks), j)]
           s == ClaimSpans(m, data)
           pc == [j \in 1..n |-> IF j <= c THEN cache[j] ELSE s.blk[j]]
<1>1. p = [m |-> s.m, cache |-> pc]
  BY DEF FillUp, SpansFor
<1>2. p.m = s.m /\ p.cache = pc
  <2> HIDE DEF s, pc
  <2> QED
    BY ONLY <1>1
<1>3. n \in Nat /\ c \in Nat /\ c <= n /\ DOMAIN cache = 1..c
  <2>1. Len(toks) \in Nat /\ SpanSize \in Nat \ {0}
    BY PrefixCacheAssumption
  <2>2. n \in Nat
    BY ONLY <2>1, RoundUp DEF SpansFor
  <2> QED
    BY <2>2
<1>4. IsFiniteSet(D)
  BY <1>3, FS_Interval
<1>5. DOMAIN data = D /\ \A j \in D : data[j] = SpanKv(toks, Len(toks), j)
  OBVIOUS
<1>6. GpuOK(m, B, N, L) /\ ManagerShape(m)
  BY DEF CacheOK, GpuOK, TableOK
<1> HIDE DEF data, n, c
<1>60. s = ClaimSpans(m, data)
  OBVIOUS
<1> HIDE DEF s
<1>7. KvClaim(m, s.m, data, s.blk)
  <2>1. s.m.fault = {} /\ IsFiniteSet(DOMAIN data)
    BY <1>2, <1>4, <1>5
  <2> QED
    BY ONLY <1>6, <1>60, <2>1, ClaimKv
<1>8. KvKept(m, s.m, B, L) /\ AllData(s.m)
  BY ONLY <1>6, <1>7, AllData(m), ClaimData
<1>9. DOMAIN pc = 1..n /\ (\A j \in 1..c : pc[j] = cache[j]) /\ \A j \in D : pc[j] = s.blk[j]
  BY <1>3
<1>10. \A j \in 1..n : j \in 1..c \/ j \in D
  BY <1>3
<1> HIDE DEF pc, D
<1>11. ASSUME NEW j \in 1..c PROVE s.m.kv[pc[j]] = SpanKv(toks, Len(toks), j)
  <2>1. cache[j] \in B[r] /\ m.kv[cache[j]] = SpanKv(toks, Len(toks), j)
    BY <1>3 DEF Range, CacheHolds
  <2>2. s.m.kv[cache[j]] = m.kv[cache[j]]
    BY <1>8, <2>1 DEF KvKept
  <2> QED
    BY ONLY <1>9, <1>11, <2>1, <2>2
<1>12. ASSUME NEW j \in D PROVE s.m.kv[pc[j]] = SpanKv(toks, Len(toks), j)
  BY ONLY <1>5, <1>7, <1>9, <1>12 DEF KvClaim
<1>13. CacheHolds(s.m, pc, toks, Len(toks))
  BY ONLY <1>9, <1>10, <1>11, <1>12 DEF CacheHolds
<1> QED
  BY ONLY <1>2, <1>8, <1>13 DEF FillUpHolds

\* A node is inserted with a block that has its data.
NewData(m, H, cache) == \A h \in H : m.kv[cache[Len(h) \div SpanSize]] = h

LEMMA InsertData ==
  ASSUME NEW m, NEW B, NEW N, NEW L, NEW T \in Nat, CacheOK(m, B, N, L, T), NEW r \in L,
         NEW toks, NEW start, NEW ts, NEW cache, NEW H, Insertable(m, B, N, r, toks, ts, T, cache, H),
         NEW i, i = Insert(m, toks, start, ts, cache), m.fault = {}, H = i.nodes,
         AllData(m), NewData(m, H, cache)
  PROVE  AllData(i.m) /\ i.m.kv = m.kv
<1>0. /\ toks \in Seq(Tokens) /\ Len(toks) >= 1 /\ ts \in Nat /\ ts <= T
      /\ cache \in Seq(Blocks) /\ IsInjective(cache)
      /\ N[r] \cap H = {} /\ Addable(m, toks, H, cache)
  BY DEF Insertable
<1> USE <1>0
<1> DEFINE own == B[r]
<1>00. own = Range(cache) /\ own = B[r]
  BY DEF Insertable
<1> HIDE DEF own
<1> USE <1>00
<1> DEFINE new == {h \in HashedPrefixes(toks) : Len(h) > start}
           add == InsertedNodes(m, new, ts, cache)
           a == insert_nodes(m, add)
           n == ref_nodes(a, new, ts)
<1>1. i = [m |-> n, nodes |-> new]
  BY DEF Insert, InsertedNodes
<1>2. i.m = n /\ H = new
  <2> HIDE DEF n, new
  <2> QED
    BY ONLY <1>1, H = i.nodes
<1> HIDE DEF new
<1>3. Addable(m, toks, new, cache) /\ NewData(m, new, cache)
  BY <1>2
<1>4. GpuOK(m, B, N, L) /\ TableOK(m) /\ ManagerShape(m)
  BY DEF CacheOK, GpuOK, TableOK
<1> HIDE DEF add
<1>5. NewNodes(m, add, own) /\ DOMAIN add = new \ DOMAIN m.table
  BY <1>3, InsertedAreNew DEF add
<1>6. Cardinality(DOMAIN m.table \cup DOMAIN add) <= Capacity
  BY <1>4, <1>5, InsertFits
<1>7. a.fault = {} /\ ManagerShape(a) /\ InsertStep(m, a, add)
  BY <1>4, <1>6, InsertNodesIsStep
<1> HIDE DEF a
<1>8. RefStep(a, n, new, ts) /\ n.cpu = a.cpu
  BY <1>7, RefNodesIsStep
<1> HIDE DEF n
<1>12. InsertStep(m, a, add) /\ RefStep(a, n, new, ts) /\ NewNodes(m, add, own)
  BY <1>5, <1>7, <1>8
<1>14. InsertEffect(m, n, add, new, ts)
  BY <1>4, <1>12, InsertNoCapture
<1>15. n.cpu = m.cpu /\ n.kv = m.kv
  BY <1>7, <1>8 DEF InsertStep, RefStep
<1>16. \A h \in DOMAIN add : add[h].blk = cache[Len(h) \div SpanSize]
  BY DEF add, InsertedNodes
<1>17. /\ DOMAIN n.table = DOMAIN m.table \cup DOMAIN add
       /\ \A h \in DOMAIN m.table : n.table[h].blk = m.table[h].blk
       /\ \A h \in DOMAIN add : n.table[h].blk = add[h].blk
  BY <1>14 DEF InsertEffect
<1>18. \A h \in DOMAIN add : m.kv[cache[Len(h) \div SpanSize]] = h
  BY <1>3, <1>5 DEF NewData
<1>19. \A h \in DOMAIN m.table : m.kv[m.table[h].blk] = h
  BY DEF AllData, NodeData
<1>20. NodeData(n)
  BY ONLY <1>15, <1>16, <1>17, <1>18, <1>19 DEF NodeData
<1>21. AllData(n)
  BY <1>15, <1>20 DEF AllData
<1> QED
  BY <1>2, <1>15, <1>21

\* The blocks ReleaseSpans wipes are nobody else's.
LEMMA LeaveData ==
  ASSUME NEW m, NEW B, NEW N, NEW L, NEW T \in Nat, IsFiniteSet(L), CacheOK(m, B, N, L, T),
         NEW r \in L, NEW cache, Range(cache) = B[r], NEW H, H = N[r],
         NEW n, n = ReleaseSpans(UnRef(m, H), cache), AllData(m)
  PROVE  AllData(n) /\ KvKept(m, n, B, L \ {r})
<1>1. PICK u : u = UnRef(m, H)
  OBVIOUS
<1>2. /\ TableOK(m) /\ CountOK(m, N, L) /\ ManagerShape(m) /\ H \subseteq DOMAIN m.table
      /\ ShareOK(m, B, N, L) /\ CpuOK(m.cpu, T) /\ \A h \in DOMAIN m.table : m.table[h].ts <= T
  BY DEF CacheOK, GpuOK, TableOK, CountOK
<1>3. UnrefStep(m, u, H)
  BY <1>1, <1>2, UnRefIsStep
<1>4. SameNodes(m, u) /\ TableOK(u)
  BY <1>2, <1>3, UnrefOK
<1>5. u.kv = m.kv /\ AllData(u)
  BY ONLY <1>1, <1>2, <1>4, T \in Nat, AllData(m), UnRefData
<1>6. n = ReleaseSpans(u, cache) /\ ManagerShape(u)
  BY <1>1, <1>3 DEF UnrefStep
<1>7. n.kv = Wiped(u.kv, OwnSpans(u, cache)) /\ n.table = u.table /\ n.cpu = u.cpu
  BY <1>6, ReleaseSpansFields
<1>8. u.extra = NodeBlocks(m)
  <2>1. NodeBlocks(u) = NodeBlocks(m)
    BY <1>4 DEF SameNodes, NodeBlocks
  <2> QED
    BY <1>4, <2>1 DEF TableOK
<1>9. ASSUME NEW b \in Blocks, b \in NodeBlocks(m) \/ b \notin B[r] PROVE n.kv[b] = u.kv[b]
  <2>1. b \notin Range(OwnSpans(u, cache))
    BY <1>8, <1>9 DEF OwnSpans, Restrict, Range
  <2> QED
    BY <1>7, <2>1 DEF Wiped
<1>10. /\ \A h \in DOMAIN m.table : m.table[h].blk \in Blocks /\ m.table[h].blk \in NodeBlocks(m)
       /\ \A s \in L : B[s] \subseteq Blocks
       /\ \A s \in L \ {r} : B[r] \cap B[s] \subseteq NodeBlocks(m)
  BY <1>2 DEF TableOK, ShareOK, NodeBlocks
<1>11. KvKept(m, n, B, L \ {r})
  BY <1>5, <1>9, <1>10 DEF KvKept
<1>12. NodeData(n)
  <2>1. DOMAIN n.table = DOMAIN m.table /\ \A h \in DOMAIN m.table : n.table[h].blk = m.table[h].blk
    BY <1>4, <1>7 DEF SameNodes
  <2>2. \A h \in DOMAIN m.table : n.kv[m.table[h].blk] = h
    BY <1>5, <1>9, <1>10 DEF AllData, NodeData
  <2> QED
    BY ONLY <2>1, <2>2 DEF NodeData
<1>13. CpuData(n.cpu)
  BY <1>5, <1>7 DEF AllData
<1> QED
  BY <1>11, <1>12, <1>13 DEF AllData

LEMMA StopContextData ==
  ASSUME NEW m, NEW B, NEW N, NEW L, NEW T \in Nat, IsFiniteSet(L), CacheOK(m, B, N, L, T), m.fault = {},
         NEW r \in L, NEW q, Stoppable(m, q, T), B[r] = Range(q.cache), N[r] = q.nodes,
         NEW expired, NEW n, n = StopContext(m, q, expired), AllData(m), NewData(m, LateNodes(q), q.cache)
  PROVE  AllData(n) /\ KvKept(m, n, B, L \ {r})
<1> DEFINE start == (q.input_len \div SpanSize) * SpanSize
           toks == q.toks
           cache == q.cache
           ts == q.ts
           i == Insert(m, toks, start, ts, cache)
           H == LateNodes(q)
           X == N[r] \cup H
           d == ReleaseSpans(UnRef(i.m, X), cache)
           k == Cardinality(d.evictor)
           N2 == [s \in L |-> IF s = r THEN X ELSE N[s]]
<1>1. i.nodes = H
  BY DEF Insert, LateNodes
<1>2. n = IF warm THEN evict_unrefered_by_num(d, k, expired) ELSE d
  BY <1>1 DEF StopContext, EvictAllUnrefered
<1>3. /\ toks \in Seq(Tokens) /\ Len(toks) >= 1 /\ ts \in Nat /\ ts <= T
      /\ cache \in Seq(Blocks) /\ IsInjective(cache)
      /\ N[r] \cap H = {} /\ Addable(m, toks, H, cache)
  BY DEF Stoppable
<1>4. B[r] = Range(cache) /\ X = N[r] \cup H /\ NewData(m, H, cache)
  OBVIOUS
<1> HIDE DEF H, X, k, start, toks, cache, ts
<1>5. Gains(N, N2, L, r, H) /\ N2[r] = X /\ \A s \in L : s # r => N2[s] = N[s]
  BY <1>4 DEF Gains
<1> HIDE DEF N2
<1>50. i = Insert(m, toks, start, ts, cache)
  OBVIOUS
<1> HIDE DEF i
<1>51. Insertable(m, B, N, r, toks, ts, T, cache, H) /\ H = i.nodes
  BY <1>1, <1>3, <1>4 DEF Insertable
<1>52. T \in Nat /\ IsFiniteSet(L) /\ CacheOK(m, B, N, L, T) /\ m.fault = {} /\ r \in L
  OBVIOUS
<1>53. Gains(N, N2, L, r, H)
  BY <1>5
<1>6. CacheOK(i.m, B, N2, L, T)
  BY ONLY <1>50, <1>51, <1>52, <1>53, InsertOK
<1>7. AllData(i.m) /\ i.m.kv = m.kv
  BY ONLY <1>4, <1>50, <1>51, <1>52, AllData(m), InsertData
<1>70. d = ReleaseSpans(UnRef(i.m, X), cache)
  OBVIOUS
<1> HIDE DEF d
<1>71. X = N2[r] /\ Range(cache) = B[r] /\ IsInjective(cache)
  BY <1>3, <1>4, <1>5
<1>72. PICK j : j = i.m
  OBVIOUS
<1>73. CacheOK(j, B, N2, L, T) /\ AllData(j) /\ j.kv = m.kv /\ d = ReleaseSpans(UnRef(j, X), cache)
  BY ONLY <1>6, <1>7, <1>70, <1>72
<1>8. CacheOK(d, B, N2, L \ {r}, T)
  BY ONLY <1>52, <1>71, <1>73, LeaveOK
<1>9. AllData(d) /\ KvKept(j, d, B, L \ {r})
  BY ONLY <1>52, <1>71, <1>73, LeaveData
<1>10. KvKept(m, d, B, L \ {r})
  BY ONLY <1>9, <1>73 DEF KvKept
<1>11. CASE warm
  <2>1. PICK K : K = L \ {r}
    OBVIOUS
  <2>2. IsFiniteSet(K) /\ CacheOK(d, B, N2, K, T) /\ n = evict_unrefered_by_num(d, k, expired)
    BY <1>2, <1>8, <1>11, <2>1, FS_Subset
  <2>3. AllData(n) /\ KvKept(d, n, B, K)
    BY ONLY <1>9, <1>52, <2>2, EvictData
  <2>4. KvKept(m, d, B, K)
    BY ONLY <1>10, <2>1
  <2>5. KvKept(m, n, B, K)
    BY ONLY <2>3, <2>4, KvKeptTwice
  <2> QED
    BY ONLY <2>1, <2>3, <2>5
<1>12. CASE ~warm
  <2>1. n = d
    BY <1>2, <1>12
  <2> QED
    BY ONLY <1>9, <1>10, <2>1
<1> QED
  BY <1>11, <1>12

-----------------------------------------------------------------------------
(* The data of the batch.                                                  *)

ReqHolds(m, x) == CacheHolds(m, x.cache, x.toks, x.kv_len)
BatchHolds(m, q, L) == \A r \in L : ReqHolds(m, q[r])

LEMMA HoldsKept ==
  ASSUME NEW m, NEW n, NEW q, NEW L, L \subseteq Requests, NEW B, B = CachesOf(q),
         KvKept(m, n, B, L), BatchHolds(m, q, L)
  PROVE  BatchHolds(n, q, L)
<1> SUFFICES ASSUME NEW r \in L, NEW j \in DOMAIN q[r].cache
             PROVE  n.kv[q[r].cache[j]] = SpanKv(q[r].toks, q[r].kv_len, j)
  BY DEF BatchHolds, ReqHolds, CacheHolds
<1>1. m.kv[q[r].cache[j]] = SpanKv(q[r].toks, q[r].kv_len, j)
  BY DEF BatchHolds, ReqHolds, CacheHolds
<1>2. q[r].cache[j] \in B[r]
  BY DEF CachesOf, Range
<1>3. n.kv[q[r].cache[j]] = m.kv[q[r].cache[j]]
  BY ONLY <1>2, KvKept(m, n, B, L), r \in L DEF KvKept
<1> QED
  BY ONLY <1>1, <1>3

\* A whole span holds the prefix it ends.
LEMMA WholeSpan ==
  ASSUME NEW toks, NEW n \in Nat, NEW j \in Nat, j * SpanSize <= n
  PROVE  SpanKv(toks, n, j) = PrefixAt(toks, j)
<1>1. SpanSize \in Nat
  BY PrefixCacheAssumption
<1>2. PICK e : e = j * SpanSize
  OBVIOUS
<1>3. e \in Nat /\ e <= n
  BY <1>1, <1>2
<1>4. (IF e < n THEN e ELSE n) = e
  BY ONLY <1>3, n \in Nat
<1> QED
  BY ONLY <1>2, <1>4 DEF SpanKv, PrefixAt

LEMMA SubSeqOfAppend ==
  ASSUME NEW toks \in Seq(Tokens), NEW t \in Tokens, NEW n \in 0..Len(toks)
  PROVE  SubSeq(Append(toks, t), 1, n) = SubSeq(toks, 1, n)
OBVIOUS

LEMMA WholeSeq ==
  ASSUME NEW toks \in Seq(Tokens)
  PROVE  SubSeq(toks, 1, Len(toks)) = toks
OBVIOUS

LEMMA SpanOfAppend ==
  ASSUME NEW toks \in Seq(Tokens), NEW t \in Tokens, NEW n \in 0..Len(toks), NEW j \in Nat
  PROVE  SpanKv(Append(toks, t), n, j) = SpanKv(toks, n, j)
<1>1. SpanSize \in Nat /\ Len(toks) \in Nat
  BY PrefixCacheAssumption
<1>2. PICK e : e = j * SpanSize
  OBVIOUS
<1>3. e \in Nat
  BY <1>1, <1>2
<1>4. PICK f : f = IF e < n THEN e ELSE n
  OBVIOUS
<1>5. f \in 0..Len(toks)
  BY ONLY <1>1, <1>3, <1>4, n \in 0..Len(toks)
<1>6. SubSeq(Append(toks, t), 1, f) = SubSeq(toks, 1, f)
  BY ONLY <1>5, toks \in Seq(Tokens), t \in Tokens, SubSeqOfAppend
<1> QED
  BY ONLY <1>2, <1>4, <1>6 DEF SpanKv

\* The spans before the last token are whole, and each holds the node it becomes.
LEMMA NewHolds ==
  ASSUME NEW m, NEW toks \in Seq(Tokens), Len(toks) >= 1, NEW n \in Nat, Len(toks) <= n + 1,
         NEW cache, CacheHolds(m, cache, toks, n), NEW H, H \subseteq HashedPrefixes(toks),
         \A h \in H : Len(h) \div SpanSize \in DOMAIN cache
  PROVE  NewData(m, H, cache)
<1>1. /\ HashedCount(toks) \in Nat /\ HashedCount(toks) * SpanSize < Len(toks)
      /\ HashedPrefixes(toks) = FirstPrefixes(toks, HashedCount(toks))
  BY HashedFacts
<1>2. PICK c : c = HashedCount(toks)
  OBVIOUS
<1>3. SpanSize \in Nat \ {0} /\ Len(toks) \in Nat
  BY PrefixCacheAssumption
<1>4. c \in Nat /\ c * SpanSize <= Len(toks) /\ c * SpanSize <= n /\ c * SpanSize \in Nat
  <2>1. PICK e : e = c * SpanSize
    OBVIOUS
  <2>2. e \in Nat /\ e < Len(toks) /\ c \in Nat
    BY <1>1, <1>2, <1>3, <2>1
  <2>3. e <= Len(toks) /\ e <= n
    BY ONLY <1>3, <2>2, n \in Nat, Len(toks) <= n + 1
  <2> QED
    BY ONLY <2>1, <2>2, <2>3
<1> SUFFICES ASSUME NEW h \in H PROVE m.kv[cache[Len(h) \div SpanSize]] = h
  BY DEF NewData
<1>5. PICK j : j = Len(h) \div SpanSize
  OBVIOUS
<1>6. h \in FirstPrefixes(toks, c)
  BY <1>1, <1>2
<1>7. j \in 1..c /\ h = PrefixAt(toks, j)
  BY ONLY <1>4, <1>5, <1>6, toks \in Seq(Tokens), FirstPrefixesFacts
<1>8. j * SpanSize <= n /\ j \in Nat
  <2>1. j \in Int /\ c \in Int /\ j <= c /\ j \in Nat
    BY <1>4, <1>7
  <2>2. j * SpanSize <= c * SpanSize
    BY ONLY <1>3, <2>1, Multiples
  <2>3. j * SpanSize \in Nat
    BY <1>3, <2>1
  <2> QED
    BY ONLY <1>4, <2>1, <2>2, <2>3, n \in Nat
<1>9. m.kv[cache[j]] = SpanKv(toks, n, j)
  BY <1>5 DEF CacheHolds
<1>10. SpanKv(toks, n, j) = PrefixAt(toks, j)
  BY ONLY <1>8, n \in Nat, WholeSpan
<1> QED
  BY ONLY <1>5, <1>7, <1>9, <1>10

LEMMA LateHolds ==
  ASSUME NEW m, NEW x, NEW T \in Nat, ReqOK(m, x, T), ReqHolds(m, x)
  PROVE  NewData(m, LateNodes(x), x.cache)
<1>1. /\ x.toks \in Seq(Tokens) /\ x.kv_len \in Nat /\ Len(x.toks) = x.kv_len + 1
  BY DEF ReqOK
<1>2. Stoppable(m, x, T)
  BY ReqStoppable
<1>3. /\ \A h \in LateNodes(x) : Len(h) \div SpanSize \in DOMAIN x.cache
      /\ LateNodes(x) \subseteq HashedPrefixes(x.toks)
  BY <1>2 DEF Stoppable, Addable
<1>4. CacheHolds(m, x.cache, x.toks, x.kv_len)
  BY DEF ReqHolds
<1>5. PICK toks, n, cache, H : toks = x.toks /\ n = x.kv_len /\ cache = x.cache /\ H = LateNodes(x)
  OBVIOUS
<1>6. /\ toks \in Seq(Tokens) /\ n \in Nat /\ Len(toks) = n + 1 /\ CacheHolds(m, cache, toks, n)
      /\ H \subseteq HashedPrefixes(toks) /\ \A h \in H : Len(h) \div SpanSize \in DOMAIN cache
  BY ONLY <1>1, <1>3, <1>4, <1>5
<1>7. Len(toks) >= 1 /\ Len(toks) <= n + 1
  BY ONLY <1>6
<1>8. NewData(m, H, cache)
  BY ONLY <1>6, <1>7, NewHolds
<1> QED
  BY ONLY <1>5, <1>8

LEMMA RoomData ==
  ASSUME NEW m, NEW q, ReqsShape(q), NEW T \in Nat, CoreOK(m, q, T), AllData(m),
         NEW r \in Requests, r \notin LiveOf(q), NEW toks, NEW expired,
         NEW T2, T2 = T + 1, NEW n, n = MakeRoom(m, toks, T2, expired), NEW B, B = CachesOf(q)
  PROVE  AllData(n) /\ KvKept(m, n, B, LiveOf(q))
<1>1. PICK N, L : N = NodesOf(q) /\ L = LiveOf(q)
  OBVIOUS
<1>2. IsFiniteSet(L) /\ L \subseteq Requests /\ r \notin L
  BY <1>1, LiveFinite
<1>3. N[r] = {} /\ B[r] = {} /\ r \in DOMAIN N /\ L \subseteq DOMAIN N
  BY <1>1, <1>2, FreePlace DEF NodesOf
<1>4. CacheOK(m, B, N, L, T)
  BY <1>1 DEF CoreOK
<1>5. T2 \in Nat /\ T <= T2
  OBVIOUS
<1>6. CacheOK(m, B, N, L, T2)
  BY ONLY <1>4, <1>5, T \in Nat, CacheLater
<1>7. AllData(n) /\ KvKept(m, n, B, L)
  BY ONLY <1>2, <1>3, <1>5, <1>6, AllData(m), n = MakeRoom(m, toks, T2, expired), MakeRoomData
<1> QED
  BY ONLY <1>1, <1>7

LEMMA FilledHolds ==
  ASSUME NEW m, NEW toks \in Seq(Tokens), Len(toks) >= 1, NEW cache, NEW k \in 0..HashedCount(toks),
         DOMAIN cache = 1..k, \A j \in 1..k : m.kv[cache[j]] = PrefixAt(toks, j)
  PROVE  CacheHolds(m, cache, toks, Len(toks))
<1>1. HashedCount(toks) \in Nat /\ HashedCount(toks) * SpanSize < Len(toks)
  BY HashedFacts
<1>2. SpanSize \in Nat \ {0} /\ Len(toks) \in Nat
  BY PrefixCacheAssumption
<1> SUFFICES ASSUME NEW j \in 1..k PROVE m.kv[cache[j]] = SpanKv(toks, Len(toks), j)
  BY DEF CacheHolds
<1>3. j \in Int /\ HashedCount(toks) \in Int /\ j <= HashedCount(toks) /\ j \in Nat
  BY <1>1
<1>4. j * SpanSize <= HashedCount(toks) * SpanSize
  BY ONLY <1>2, <1>3, Multiples
<1>5. j * SpanSize <= Len(toks)
  <2>1. PICK a, b : a = j * SpanSize /\ b = HashedCount(toks) * SpanSize
    OBVIOUS
  <2>2. a \in Nat /\ b \in Nat
    BY ONLY <1>1, <1>2, <1>3, <2>1
  <2>3. a <= b /\ b < Len(toks)
    BY ONLY <1>1, <1>4, <2>1
  <2>4. a <= Len(toks)
    BY ONLY <1>2, <2>2, <2>3
  <2> QED
    BY ONLY <2>1, <2>4
<1>6. SpanKv(toks, Len(toks), j) = PrefixAt(toks, j)
  BY ONLY <1>2, <1>3, <1>5, WholeSpan
<1> QED
  BY <1>6

PrefillHolds(m, q, toks, p) ==
  /\ AllData(p.m) /\ KvKept(m, p.m, CachesOf(q), LiveOf(q))
  /\ CacheHolds(p.m, p.cache, toks, Len(toks))

LEMMA PrefillData ==
  ASSUME NEW m, NEW q, ReqsShape(q), NEW T \in Nat, CoreOK(m, q, T),
         NEW r \in Requests, r \notin LiveOf(q), NEW toks \in Seq(Tokens), Len(toks) >= 1,
         NEW f, f = RefFill(m, toks, T), NEW p, p = FillUp(f.m, toks, f.cache), p.m.fault = {},
         OrderOK(m.table), AllData(m), RefFillReady(m, toks)
  PROVE  PrefillHolds(m, q, toks, p)
<1> DEFINE B == CachesOf(q)
           N == NodesOf(q)
           L == LiveOf(q)
           U == L \cup {r}
           B1 == [s \in Requests |-> IF s = r THEN Range(f.cache) ELSE B[s]]
           B2 == [s \in Requests |-> IF s = r THEN Range(p.cache) ELSE B[s]]
           N2 == [s \in Requests |-> IF s = r THEN f.nodes ELSE N[s]]
<1>1. IsFiniteSet(L) /\ L \subseteq Requests
  BY LiveFinite
<1>2. IsFiniteSet(U) /\ U \subseteq Requests /\ r \in U /\ L \subseteq U
  BY <1>1, FS_AddElement
<1>3. N[r] = {} /\ B[r] = {}
  BY FreePlace
<1>4. CacheOK(m, B, N, L, T)
  BY DEF CoreOK
<1>5. /\ SetFor(B, B1, U, r, Range(f.cache)) /\ SetFor(B1, B2, U, r, Range(p.cache))
      /\ SetFor(N, N2, U, r, f.nodes) /\ B1[r] = Range(f.cache) /\ \A s \in L : B1[s] = B[s]
  BY <1>1, <1>2 DEF SetFor
<1> HIDE DEF B, N, L, U, B1, B2, N2
<1>6. CacheOK(m, B, N, U, T)
  <2>1. GpuOK(m, B, N, L)
    BY <1>4 DEF CacheOK
  <2>2. GpuOK(m, B, N, L \cup {r})
    BY <1>3, <2>1, AddUser
  <2> QED
    BY <1>4, <2>2 DEF CacheOK, U
<1>7. ManagerShape(m)
  BY <1>4 DEF CacheOK, GpuOK, TableOK
<1>8. Grows(m, f.m)
  BY <1>7, RefFillGrows
<1>9. Grows(f.m, p.m)
  BY <1>8, FillUpGrows DEF Grows
<1>10. f.m.fault = {}
  BY <1>8, <1>9 DEF Grows
<1>100. RefFillInput(m, B, N, U, T, r, toks, f, B1, N2)
  <2>1. SetFor(B, B1, U, r, Range(f.cache)) /\ SetFor(N, N2, U, r, f.nodes)
    BY <1>5
  <2>2. IsFiniteSet(U) /\ r \in U
    BY <1>2
  <2>3. T \in Nat /\ toks \in Seq(Tokens) /\ Len(toks) >= 1 /\ f = RefFill(m, toks, T) /\ f.m.fault = {}
    BY <1>10
  <2> QED
    BY ONLY <1>3, <1>6, <2>1, <2>2, <2>3 DEF RefFillInput
<1>11. /\ CacheOK(f.m, B1, N2, U, T) /\ f.nodes = CachedRun(m, toks)
       /\ f.cache \in Seq(Blocks) /\ IsInjective(f.cache) /\ Len(f.cache) = Cardinality(f.nodes)
  <2>5. RefFillGives(m, B, N2, U, T, r, toks, f, B1)
    BY ONLY <1>100, RefFillOK
  <2> QED
    BY ONLY <2>5 DEF RefFillGives
<1>110. /\ AllData(f.m) /\ KvKept(m, f.m, B, U)
        /\ \A j \in 1..Len(f.cache) : f.m.kv[f.cache[j]] = PrefixAt(toks, j)
  <2>1. RefFillHolds(m, B, U, toks, f)
    BY ONLY <1>100, OrderOK(m.table), AllData(m), RefFillReady(m, toks), RefFillData
  <2> QED
    BY ONLY <2>1 DEF RefFillHolds
<1>12. PICK k \in 0..HashedCount(toks) : RunLength(m, toks, k)
  BY CachedRunFacts
<1>13. f.nodes = FirstPrefixes(toks, k)
  BY <1>11, <1>12 DEF RunLength
<1>14. /\ SpansFor(Len(toks)) = HashedCount(toks) + 1 /\ HashedCount(toks) \in Nat
       /\ HashedCount(toks) * SpanSize < Len(toks) /\ Len(toks) \in Nat
  BY SpansOfPrompt, HashedFacts DEF HashedCount
<1>15. k \in Nat /\ k * SpanSize <= Len(toks)
  <2>1. k * SpanSize <= HashedCount(toks) * SpanSize
    BY <1>14, Multiples, PrefixCacheAssumption
  <2>2. k \in Nat /\ SpanSize \in Nat
    BY <1>14, PrefixCacheAssumption
  <2> DEFINE y == HashedCount(toks) * SpanSize
             x == k * SpanSize
  <2>3. x \in Int /\ y \in Int
    BY <1>14, <2>2
  <2> HIDE DEF x, y
  <2> QED
    BY <1>14, <2>1, <2>2, <2>3 DEF x, y
<1>16. Cardinality(f.nodes) = k
  BY <1>13, <1>15, FirstPrefixesFacts
<1>17. Len(f.cache) <= SpansFor(Len(toks)) /\ Len(f.cache) = k /\ DOMAIN f.cache = 1..k
  BY <1>11, <1>14, <1>16
<1>18. PICK X, cache, d : X = Range(p.cache) /\ cache = f.cache /\ d = f.m
  OBVIOUS
<1>19. FillUpInput(d, B1, N2, U, T, r, toks, cache, p, X, B2)
  <2>1. SetFor(B1, B2, U, r, X) /\ X = Range(p.cache)
    BY <1>5, <1>18
  <2>2. CacheOK(d, B1, N2, U, T) /\ cache \in Seq(Blocks) /\ IsInjective(cache)
    BY <1>11, <1>18
  <2>3. Len(cache) <= SpansFor(Len(toks)) /\ B1[r] = Range(cache) /\ p = FillUp(d, toks, cache)
    BY <1>5, <1>17, <1>18
  <2>4. r \in U /\ T \in Nat /\ toks \in Seq(Tokens) /\ p.m.fault = {}
    BY <1>2
  <2> QED
    BY ONLY <2>1, <2>2, <2>3, <2>4 DEF FillUpInput
<1>20. CacheHolds(d, cache, toks, Len(toks))
  <2>1. DOMAIN cache = 1..k /\ \A j \in 1..k : d.kv[cache[j]] = PrefixAt(toks, j)
    BY ONLY <1>17, <1>18, <1>110
  <2>2. k \in 0..HashedCount(toks) /\ toks \in Seq(Tokens) /\ Len(toks) >= 1
    OBVIOUS
  <2> QED
    BY ONLY <2>1, <2>2, FilledHolds
<1>21. FillUpHolds(d, p, B1, U, toks)
  <2>1. AllData(d)
    BY <1>18, <1>110
  <2> QED
    BY ONLY <1>19, <1>20, <2>1, FillUpData
<1>22. AllData(p.m) /\ KvKept(d, p.m, B1, U) /\ CacheHolds(p.m, p.cache, toks, Len(toks))
  BY ONLY <1>21 DEF FillUpHolds
<1>23. KvKept(m, p.m, B, L)
  BY ONLY <1>2, <1>5, <1>18, <1>22, <1>110 DEF KvKept
<1> QED
  BY ONLY <1>22, <1>23 DEF PrefillHolds, B, L

\* The data of the batch and of the new prompt once it is filled.
BegunHolds(q, toks, p) ==
  /\ AllData(p.m) /\ BatchHolds(p.m, q, LiveOf(q))
  /\ CacheHolds(p.m, p.cache, toks, Len(toks))

LEMMA BeginData ==
  ASSUME NEW m0, NEW q, NEW T, NEW r, NEW toks, NEW expired, NEW T2, NEW m, NEW f, NEW p,
         StartInput(m0, q, T, r, toks, expired, T2, m, f, p), OrderOK(m.table), CoreOK(m, q, T2),
         AllData(m0), BatchHolds(m0, q, LiveOf(q)), RefFillReady(m, toks)
  PROVE  BegunHolds(q, toks, p)
<1>1. /\ ReqsShape(q) /\ T \in Nat /\ CoreOK(m0, q, T) /\ r \in Requests /\ r \notin LiveOf(q)
      /\ toks \in Prompts /\ T2 = T + 1 /\ m = MakeRoom(m0, toks, T2, expired)
      /\ f = RefFill(m, toks, T2) /\ p = FillUp(f.m, toks, f.cache) /\ p.m.fault = {}
  BY DEF StartInput
<1>2. toks \in Seq(Tokens) /\ Len(toks) >= 1 /\ T2 \in Nat
  BY <1>1, PrefixCacheAssumption
<1>3. PICK B, L : B = CachesOf(q) /\ L = LiveOf(q)
  OBVIOUS
<1>4. AllData(m) /\ KvKept(m0, m, B, L)
  BY ONLY <1>1, <1>3, AllData(m0), RoomData
<1>5. PrefillHolds(m, q, toks, p)
  BY ONLY <1>1, <1>2, <1>4, CoreOK(m, q, T2), OrderOK(m.table), RefFillReady(m, toks), PrefillData
<1>6. AllData(p.m) /\ KvKept(m, p.m, B, L) /\ CacheHolds(p.m, p.cache, toks, Len(toks))
  BY ONLY <1>3, <1>5 DEF PrefillHolds
<1>7. PICK n : n = p.m
  OBVIOUS
<1>8. KvKept(m0, n, B, L)
  BY ONLY <1>4, <1>6, <1>7, KvKeptTwice
<1>9. BatchHolds(n, q, L)
  <2>1. L \subseteq Requests /\ BatchHolds(m0, q, L)
    BY <1>3, LiveFinite
  <2> QED
    BY ONLY <1>3, <1>8, <2>1, HoldsKept
<1> QED
  BY ONLY <1>3, <1>6, <1>7, <1>9 DEF BegunHolds

-----------------------------------------------------------------------------
(* The data of the batch after each handler.                               *)

\* What a handler leaves in the manager n for the batch q.
DataAt(n, q) == AllData(n) /\ BatchHolds(n, q, LiveOf(q))

LEMMA StartData ==
  ASSUME NEW m0, NEW q, NEW T, NEW r, NEW toks, NEW expired, NEW T2, NEW m, NEW f, NEW p,
         StartInput(m0, q, T, r, toks, expired, T2, m, f, p), BegunHolds(q, toks, p), NEW t \in Sampled,
         NEW start, start = Cardinality(f.nodes) * SpanSize,
         NEW cache, cache = p.cache, NEW d, d = p.m,
         NEW i, i = Insert(d, toks, start, T2, cache),
         NEW nodes, NEW q2, q2 = StartedBatch(q, r, toks, t, T2, cache, nodes)
  PROVE  DataAt(i.m, q2)
<1> DEFINE L == LiveOf(q)
           U == L \cup {r}
           H == {h \in HashedPrefixes(toks) : Len(h) > start}
           c == HashedCount(toks)
           x == [live |-> TRUE, toks |-> Append(toks, t), input_len |-> Len(toks),
                 kv_len |-> Len(toks), ts |-> T2, cache |-> cache, nodes |-> nodes]
<1>1. PICK B2, N2 : StartBegun(m0, q, T2, r, toks, m, f, p, B2, N2)
  BY StartBegins
<1>2. /\ PrefillGives(m, d, q, r, toks, f, p, B2, N2, T2)
      /\ B2[r] = Range(cache) /\ N2[r] = f.nodes
  BY <1>1 DEF StartBegun
<1>3. /\ ReqsShape(q) /\ T2 \in Nat /\ r \in Requests /\ r \notin L /\ d.fault = {}
      /\ toks \in Prompts
  BY DEF StartInput
<1>4. toks \in Seq(Tokens) /\ Len(toks) >= 1 /\ t \in Tokens /\ L \subseteq Requests
  BY <1>3, PrefixCacheAssumption, LiveFinite
<1>5. CacheOK(d, B2, N2, U, T2) /\ Len(cache) = SpansFor(Len(toks))
  BY <1>2 DEF PrefillGives
<1>6. PICK k \in 0..c : /\ f.nodes = FirstPrefixes(toks, k) /\ Cardinality(f.nodes) = k
                        /\ VirtualCache(d, cache, k)
  BY <1>2 DEF PrefillGives
<1>7. H = i.nodes /\ H \subseteq HashedPrefixes(toks) /\ r \in U
  BY DEF Insert
<1>8. /\ FirstPrefixes(toks, k) \cap H = {}
      /\ \A h \in H : Len(h) \div SpanSize \in 1..c /\ Len(h) \div SpanSize > k
  <2>1. H = {h \in HashedPrefixes(toks) : Len(h) > k * SpanSize}
    BY <1>6
  <2>2. k \in 0..HashedCount(toks) /\ toks \in Seq(Tokens) /\ Len(toks) >= 1
    BY <1>4
  <2> HIDE DEF H
  <2> QED
    BY ONLY <2>1, <2>2, PrefixesSplit DEF c
<1>9. c \in Nat /\ SpansFor(Len(toks)) = c + 1 /\ k \in Nat
  <2>1. Len(toks) \in Nat
    BY <1>4
  <2>2. SpansFor(Len(toks)) = (Len(toks) - 1) \div SpanSize + 1 /\ (Len(toks) - 1) \div SpanSize \in Nat
    BY <1>4, <2>1, SpansOfPrompt
  <2> QED
    BY <2>2 DEF HashedCount
<1>10. /\ cache \in Seq(Blocks) /\ IsInjective(cache) /\ DOMAIN cache = 1..(c + 1)
       /\ \A j \in DOMAIN cache : j > k => cache[j] \notin NodeBlocks(d)
  BY <1>5, <1>6, <1>9 DEF VirtualCache
<1> HIDE DEF H, c, L, U, x
<1>11. \A h \in H : Len(h) \div SpanSize \in DOMAIN cache
  BY <1>8, <1>9, <1>10
<1>12. Insertable(d, B2, N2, r, toks, T2, T2, cache, H)
  <2>1. Addable(d, toks, H, cache)
    BY <1>7, <1>8, <1>10, <1>11 DEF Addable
  <2> QED
    BY <1>2, <1>3, <1>4, <1>6, <1>8, <1>10, <2>1 DEF Insertable
<1>13. AllData(d) /\ BatchHolds(d, q, L) /\ CacheHolds(d, cache, toks, Len(toks))
  BY DEF BegunHolds, L
<1>14. NewData(d, H, cache)
  <2>1. PICK n : n = Len(toks)
    OBVIOUS
  <2>2. n \in Nat /\ Len(toks) <= n + 1 /\ CacheHolds(d, cache, toks, n)
    BY <1>4, <1>13, <2>1
  <2> QED
    BY ONLY <1>4, <1>7, <1>11, <2>2, NewHolds
<1>15. AllData(i.m) /\ i.m.kv = d.kv
  <2>1. T2 \in Nat /\ d.fault = {} /\ i = Insert(d, toks, start, T2, cache) /\ H = i.nodes /\ r \in U
    BY <1>3, <1>7
  <2> QED
    BY ONLY <1>5, <1>12, <1>13, <1>14, <2>1, InsertData
<1>16. q2 = [q EXCEPT ![r] = x]
  BY DEF x, StartedBatch
<1>17. PlaceSet(q, q2, r, x)
  <2>1. DOMAIN q = Requests /\ r \in Requests
    BY <1>3 DEF ReqsShape
  <2> QED
    BY ONLY <1>16, <2>1, OthersSame
<1>18. LiveOf(q2) \subseteq U /\ q2[r] = x /\ \A s \in L : q2[s] = q[s]
  <2>1. \A s \in L : s \in Requests /\ s # r
    BY <1>3, <1>4
  <2> QED
    BY ONLY <1>17, <2>1 DEF PlaceSet, U, L
<1>19. ReqHolds(i.m, x)
  <2>1. x.cache = cache /\ x.toks = Append(toks, t) /\ x.kv_len = Len(toks)
    BY DEF x
  <2>2. PICK n, y : n = Len(toks) /\ y = Append(toks, t)
    OBVIOUS
  <2>3. ASSUME NEW j \in DOMAIN cache
        PROVE  i.m.kv[cache[j]] = SpanKv(y, n, j)
    <3>1. n \in 0..Len(toks) /\ j \in Nat
      BY <1>4, <1>9, <1>10, <2>2
    <3>2. SpanKv(Append(toks, t), n, j) = SpanKv(toks, n, j)
      BY ONLY <1>4, <3>1, SpanOfAppend
    <3>3. d.kv[cache[j]] = SpanKv(toks, n, j)
      BY <1>13, <2>2 DEF CacheHolds
    <3> QED
      BY ONLY <1>15, <2>2, <3>2, <3>3
  <2>4. CacheHolds(i.m, cache, y, n)
    BY ONLY <2>3 DEF CacheHolds
  <2> QED
    BY ONLY <2>1, <2>2, <2>4 DEF ReqHolds
<1>20. \A s \in L : ReqHolds(i.m, q[s])
  BY ONLY <1>13, <1>15 DEF BatchHolds, ReqHolds, CacheHolds
<1>21. BatchHolds(i.m, q2, LiveOf(q2))
  BY ONLY <1>18, <1>19, <1>20 DEF BatchHolds, U
<1> QED
  BY <1>15, <1>21 DEF DataAt

LEMMA FailsData ==
  ASSUME NEW m0, NEW q, NEW T, NEW r, NEW toks, NEW expired, NEW T2, NEW m, NEW f, NEW p,
         StartInput(m0, q, T, r, toks, expired, T2, m, f, p), BegunHolds(q, toks, p),
         NEW d, d = p.m, NEW x, x.toks = toks, x.input_len = Len(toks), x.ts = T2, x.cache = p.cache, x.nodes = f.nodes,
         NEW n, n = StopContext(d, x, expired)
  PROVE  DataAt(n, q)
<1> DEFINE L == LiveOf(q)
           U == L \cup {r}
<1>1. PICK B2, N2 : StartBegun(m0, q, T2, r, toks, m, f, p, B2, N2)
  BY StartBegins
<1>2. /\ PrefillGives(m, d, q, r, toks, f, p, B2, N2, T2)
      /\ B2[r] = Range(x.cache) /\ N2[r] = x.nodes
      /\ \A s \in L : B2[s] = CachesOf(q)[s]
  BY <1>1 DEF StartBegun
<1>3. T2 \in Nat /\ r \in Requests /\ r \notin L /\ d.fault = {} /\ toks \in Prompts
  BY DEF StartInput
<1>4. toks \in Seq(Tokens) /\ Len(toks) >= 1 /\ L \subseteq Requests /\ IsFiniteSet(L)
  BY <1>3, PrefixCacheAssumption, LiveFinite
<1>5. IsFiniteSet(U) /\ r \in U /\ U \ {r} = L
  BY <1>3, <1>4, FS_AddElement
<1>6. CacheOK(d, B2, N2, U, T2) /\ x.cache \in Seq(Blocks) /\ IsInjective(x.cache)
  BY <1>2 DEF PrefillGives, VirtualCache
<1>7. LateNodes(x) = {}
  BY <1>4, NoLateNodes
<1>8. Stoppable(d, x, T2)
  BY <1>3, <1>4, <1>6, <1>7 DEF Stoppable, Addable
<1>9. NewData(d, LateNodes(x), x.cache)
  BY ONLY <1>7 DEF NewData
<1>10. AllData(d) /\ BatchHolds(d, q, L)
  BY DEF BegunHolds
<1> HIDE DEF L, U
<1>11. AllData(n) /\ KvKept(d, n, B2, U \ {r})
  <2>1. n = StopContext(d, x, expired) /\ T2 \in Nat /\ d.fault = {}
    BY <1>3
  <2>2. B2[r] = Range(x.cache) /\ N2[r] = x.nodes
    BY <1>2
  <2>3. CacheOK(d, B2, N2, U, T2) /\ AllData(d)
    BY <1>6, <1>10
  <2>4. IsFiniteSet(U) /\ r \in U
    BY <1>5
  <2> QED
    BY ONLY <1>8, <1>9, <2>1, <2>2, <2>3, <2>4, StopContextData
<1>12. PICK B : B = CachesOf(q)
  OBVIOUS
<1>13. KvKept(d, n, B, L)
  <2>1. \A s \in L : B2[s] = B[s]
    BY <1>2, <1>12
  <2> QED
    BY ONLY <1>5, <1>11, <2>1 DEF KvKept
<1>14. BatchHolds(n, q, L)
  BY ONLY <1>4, <1>10, <1>12, <1>13, HoldsKept
<1> QED
  BY ONLY <1>11, <1>14 DEF DataAt, L

LEMMA StopData ==
  ASSUME NEW m, NEW q, ReqsShape(q), NEW T \in Nat, CoreOK(m, q, T), m.fault = {}, DataAt(m, q),
         NEW r \in LiveOf(q), NEW expired, NEW n, n = StopContext(m, q[r], expired),
         NEW q2, q2 = [q EXCEPT ![r] = NoRequest]
  PROVE  DataAt(n, q2)
<1> DEFINE B == CachesOf(q)
           N == NodesOf(q)
           L == LiveOf(q)
           x == q[r]
<1>1. IsFiniteSet(L) /\ L \subseteq Requests /\ r \in Requests /\ DOMAIN q = Requests
  BY LiveFinite DEF ReqsShape
<1>2. PlaceSet(q, q2, r, NoRequest) /\ ~NoRequest.live
  BY <1>1, OthersSame DEF NoRequest
<1>3. LiveOf(q2) = L \ {r} /\ \A s \in L \ {r} : q2[s] = q[s]
  BY <1>1, <1>2 DEF PlaceSet
<1>5. CacheOK(m, B, N, L, T) /\ ReqOK(m, x, T)
  BY DEF CoreOK
<1>6. Stoppable(m, x, T)
  BY <1>5, ReqStoppable
<1>7. B[r] = Range(x.cache) /\ N[r] = x.nodes
  BY <1>1 DEF CachesOf, NodesOf
<1>8. AllData(m) /\ BatchHolds(m, q, L) /\ ReqHolds(m, x)
  BY DEF DataAt, BatchHolds
<1> HIDE DEF B, N, L, x
<1>9. NewData(m, LateNodes(x), x.cache)
  BY ONLY <1>5, <1>8, T \in Nat, LateHolds
<1>10. n = StopContext(m, x, expired) /\ r \in L /\ m.fault = {} /\ T \in Nat
  BY DEF x, L
<1>11. AllData(n) /\ KvKept(m, n, B, L \ {r})
  BY ONLY <1>1, <1>5, <1>6, <1>7, <1>8, <1>9, <1>10, StopContextData
<1>12. PICK M : M = L \ {r}
  OBVIOUS
<1>13. BatchHolds(n, q, M)
  <2>1. M \subseteq Requests /\ KvKept(m, n, B, M) /\ BatchHolds(m, q, M) /\ B = CachesOf(q)
    BY <1>1, <1>8, <1>11, <1>12 DEF BatchHolds, B
  <2> QED
    BY ONLY <2>1, HoldsKept
<1>14. BatchHolds(n, q2, LiveOf(q2))
  BY ONLY <1>3, <1>12, <1>13 DEF BatchHolds
<1> QED
  BY ONLY <1>11, <1>14 DEF DataAt

LEMMA DeniedData ==
  ASSUME NEW m, NEW q, ReqsShape(q), NEW T \in Nat, CoreOK(m, q, T), DataAt(m, q),
         NEW r \in Requests, r \notin LiveOf(q), NEW toks, NEW expired,
         NEW T2, T2 = T + 1, NEW n, n = MakeRoom(m, toks, T2, expired)
  PROVE  DataAt(n, q)
<1>1. PICK B, L : B = CachesOf(q) /\ L = LiveOf(q)
  OBVIOUS
<1>2. AllData(m) /\ BatchHolds(m, q, L) /\ L \subseteq Requests
  BY <1>1, LiveFinite DEF DataAt
<1>3. AllData(n) /\ KvKept(m, n, B, L)
  BY <1>1, <1>2, RoomData
<1>4. BatchHolds(n, q, L)
  BY ONLY <1>1, <1>2, <1>3, HoldsKept
<1> QED
  BY ONLY <1>1, <1>3, <1>4 DEF DataAt

LEMMA EvictedData ==
  ASSUME NEW m, NEW q, NEW T \in Nat, CoreOK(m, q, T), DataAt(m, q),
         NEW k, NEW expired, NEW n, n = evict_unrefered_by_num(m, k, expired)
  PROVE  DataAt(n, q)
<1>1. PICK B, L, N : B = CachesOf(q) /\ L = LiveOf(q) /\ N = NodesOf(q)
  OBVIOUS
<1>2. AllData(m) /\ BatchHolds(m, q, L) /\ L \subseteq Requests /\ IsFiniteSet(L) /\ CacheOK(m, B, N, L, T)
  BY <1>1, LiveFinite DEF DataAt, CoreOK
<1>3. AllData(n) /\ KvKept(m, n, B, L)
  BY ONLY <1>2, T \in Nat, n = evict_unrefered_by_num(m, k, expired), EvictData
<1>4. BatchHolds(n, q, L)
  BY ONLY <1>1, <1>2, <1>3, HoldsKept
<1> QED
  BY ONLY <1>1, <1>3, <1>4 DEF DataAt

-----------------------------------------------------------------------------
(* The data of a decoder step.                                             *)

\* The last span of a request is nobody else's and no node's.
LEMMA LastNotNode ==
  ASSUME NEW n, NEW y, NEW T, ReqOK(n, y, T)
  PROVE  Len(y.cache) \in DOMAIN y.cache /\ y.cache[Len(y.cache)] \in Blocks \ NodeBlocks(n)
<1>1. /\ y.kv_len \in Nat /\ y.input_len \in 1..y.kv_len
      /\ Len(y.cache) = SpansFor(y.kv_len) /\ VirtualCache(n, y.cache, PromptSpans(y))
  BY DEF ReqOK
<1>2. PICK k, i, a, b : k = y.kv_len /\ i = y.input_len /\ a = k - 1 /\ b = i - 1
  OBVIOUS
<1>3. k \in Nat /\ k >= 1 /\ a \in Int /\ b \in Int /\ b <= a
  BY <1>1, <1>2
<1>4. SpanSize \in Nat \ {0}
  BY PrefixCacheAssumption
<1>5. SpansFor(k) = (k - 1) \div SpanSize + 1 /\ (k - 1) \div SpanSize \in Nat
  BY ONLY <1>3, SpansOfPrompt
<1>6. b \div SpanSize <= a \div SpanSize /\ b \div SpanSize \in Int
  BY ONLY <1>3, <1>4, QuotientGrows, Quotient
<1>7. PICK u, v : u = a \div SpanSize /\ v = b \div SpanSize
  OBVIOUS
<1>8. u \in Nat /\ v \in Int /\ v <= u /\ Len(y.cache) = u + 1 /\ PromptSpans(y) = v
  BY <1>1, <1>2, <1>5, <1>6, <1>7 DEF PromptSpans
<1>9. y.cache \in Seq(Blocks) /\ \A j \in DOMAIN y.cache : j > v => y.cache[j] \notin NodeBlocks(n)
  BY <1>1, <1>8 DEF VirtualCache
<1>10. DOMAIN y.cache = 1..(u + 1) /\ \A j \in 1..(u + 1) : y.cache[j] \in Blocks
  BY <1>8, <1>9
<1>11. u + 1 \in 1..(u + 1) /\ u + 1 > v
  BY ONLY <1>8
<1> QED
  BY ONLY <1>8, <1>9, <1>10, <1>11

\* The step writes the last span of each request.
LastBlock(C, r) == C[r][Len(C[r])]
KvWritten(d, n, q, C) ==
  n.kv = [b \in Blocks |-> IF \E r \in LiveOf(q) : LastBlock(C, r) = b
                           THEN q[CHOOSE r \in LiveOf(q) : LastBlock(C, r) = b].toks ELSE d.kv[b]]
OwnWritten(d, n, toks, cache) ==
  /\ n.kv[cache[Len(cache)]] = toks
  /\ \A j \in DOMAIN cache : j # Len(cache) => n.kv[cache[j]] = d.kv[cache[j]]

LEMMA WrittenData ==
  ASSUME NEW d, NEW n, NEW q, NEW q2, NEW T, NEW C, CoreOK(n, q2, T), LiveOf(q2) = LiveOf(q),
         \A r \in LiveOf(q) : q2[r].cache = C[r], n.table = d.table, n.cpu = d.cpu,
         KvWritten(d, n, q, C), AllData(d)
  PROVE  AllData(n) /\ \A r \in LiveOf(q) : OwnWritten(d, n, q[r].toks, C[r])
<1> DEFINE B == CachesOf(q2)
           L == LiveOf(q)
           last(r) == LastBlock(C, r)
<1>1. CacheOK(n, B, NodesOf(q2), L, T) /\ L \subseteq Requests
  BY LiveFinite DEF CoreOK
<1>2. /\ \A r, s \in L : r # s => B[r] \cap B[s] \subseteq NodeBlocks(n)
      /\ \A h \in DOMAIN n.table : n.table[h].blk \in Blocks
  BY <1>1 DEF CacheOK, GpuOK, ShareOK, TableOK
<1>3. \A r \in L : B[r] = Range(C[r])
  BY <1>1 DEF CachesOf
<1>4. \A r \in L : C[r] \in Seq(Blocks) /\ IsInjective(C[r])
  <2>1. \A r \in L : VirtualCache(n, C[r], PromptSpans(q2[r]))
    BY DEF CoreOK, ReqOK
  <2> QED
    BY ONLY <2>1 DEF VirtualCache
<1>5. \A r \in L : Len(C[r]) \in DOMAIN C[r] /\ last(r) \in Blocks /\ last(r) \notin NodeBlocks(n)
  <2> TAKE r \in L
  <2>1. PICK y : y = q2[r]
    OBVIOUS
  <2>2. ReqOK(n, y, T) /\ y.cache = C[r]
    BY <2>1 DEF CoreOK
  <2>3. Len(y.cache) \in DOMAIN y.cache /\ y.cache[Len(y.cache)] \in Blocks \ NodeBlocks(n)
    BY ONLY <2>2, LastNotNode
  <2> QED
    BY ONLY <2>2, <2>3 DEF LastBlock
<1> HIDE DEF B
<1>6. ASSUME NEW r \in L, NEW s \in L, NEW j \in DOMAIN C[r], C[r][j] = last(s)
      PROVE  r = s /\ j = Len(C[r])
  <2>1. C[r][j] \in B[r] /\ last(s) \in B[s]
    BY <1>3, <1>5 DEF Range, LastBlock
  <2>2. r = s
    BY ONLY <1>2, <1>5, <1>6, <2>1
  <2>3. C[r][j] = C[r][Len(C[r])] /\ Len(C[r]) \in DOMAIN C[r] /\ IsInjective(C[r])
    BY <1>4, <1>5, <1>6, <2>2 DEF LastBlock
  <2> QED
    BY ONLY <2>2, <2>3, j \in DOMAIN C[r] DEF IsInjective
<1>7. n.kv = [b \in Blocks |-> IF \E r \in L : last(r) = b
                           THEN q[CHOOSE r \in L : last(r) = b].toks ELSE d.kv[b]]
  BY DEF KvWritten
<1> HIDE DEF last, L
<1>8. \A b \in Blocks : (~\E r \in L : last(r) = b) => n.kv[b] = d.kv[b]
  BY ONLY <1>7
<1>9. \A b \in Blocks : b \in NodeBlocks(n) => n.kv[b] = d.kv[b]
  BY ONLY <1>5, <1>8
<1>10. AllData(n)
  <2>1. \A h \in DOMAIN n.table : n.table[h].blk \in NodeBlocks(n)
    BY DEF NodeBlocks
  <2>2. NodeData(d) /\ CpuData(d.cpu)
    BY DEF AllData
  <2>3. NodeData(n)
    BY <1>2, <1>9, <2>1, <2>2 DEF NodeData
  <2> QED
    BY <2>2, <2>3 DEF AllData
<1>11. ASSUME NEW r \in L PROVE OwnWritten(d, n, q[r].toks, C[r])
  <2>1. Len(C[r]) \in DOMAIN C[r] /\ last(r) = C[r][Len(C[r])] /\ last(r) \in Blocks
    BY <1>5 DEF last, LastBlock
  <2>2. \A s \in L : last(s) = last(r) => s = r
    BY ONLY <1>6, <2>1, r \in L
  <2>3. (CHOOSE s \in L : last(s) = last(r)) = r
    BY ONLY <2>2, r \in L
  <2>4. PICK b : b = last(r)
    OBVIOUS
  <2>5. n.kv[b] = q[CHOOSE s \in L : last(s) = b].toks
    BY ONLY <1>7, <2>1, <2>4, r \in L
  <2>6. n.kv[C[r][Len(C[r])]] = q[r].toks
    BY ONLY <2>1, <2>3, <2>4, <2>5
  <2>7. ASSUME NEW j \in DOMAIN C[r], j # Len(C[r])
        PROVE  n.kv[C[r][j]] = d.kv[C[r][j]]
    <3>1. ~\E s \in L : last(s) = C[r][j]
      BY ONLY <1>6, <2>7, r \in L
    <3>2. C[r][j] \in Blocks
      <4>1. PICK c : c = C[r]
        OBVIOUS
      <4>2. c \in Seq(Blocks) /\ j \in DOMAIN c
        BY <1>4, <2>7, <4>1
      <4>3. c[j] \in Blocks
        BY ONLY <4>2
      <4> QED
        BY ONLY <4>1, <4>3
    <3> QED
      BY ONLY <1>8, <3>1, <3>2
  <2> QED
    BY ONLY <2>6, <2>7 DEF OwnWritten
<1> QED
  BY ONLY <1>10, <1>11 DEF L

\* The cache of a request after the step, whether or not it has a new span.
Extended(old, cache) == cache = old \/ \E b : cache = Append(old, b)

\* The spans before the last are whole, so their data stays right; the last one holds
\* all tokens the request had.
LEMMA NextHolds ==
  ASSUME NEW d, NEW n, NEW old \in Seq(Blocks), NEW cache \in Seq(Blocks), Extended(old, cache),
         NEW toks \in Seq(Tokens), NEW t \in Tokens, NEW k \in Nat, Len(toks) = k + 1,
         Len(cache) = SpansFor(k + 1), CacheHolds(d, old, toks, k), OwnWritten(d, n, toks, cache)
  PROVE  CacheHolds(n, cache, Append(toks, t), k + 1)
<1>1. SpanSize \in Nat \ {0} /\ k + 1 \in Nat /\ k + 1 >= 1 /\ k \in Int
  BY PrefixCacheAssumption
<1>2. PICK u : u = k \div SpanSize
  OBVIOUS
<1>3. Len(cache) = u + 1 /\ u \in Nat
  <2>1. PICK e : e = k + 1
    OBVIOUS
  <2>2. e \in Nat /\ e >= 1 /\ e - 1 = k
    BY <2>1
  <2>3. SpansFor(e) = (e - 1) \div SpanSize + 1 /\ (e - 1) \div SpanSize \in Nat
    BY ONLY <2>2, SpansOfPrompt
  <2> QED
    BY <1>2, <2>1, <2>2, <2>3
<1>4. u * SpanSize <= k /\ k < u * SpanSize + SpanSize
  BY ONLY <1>1, <1>2, Quotient
<1>5. \A j \in 1..u : j \in DOMAIN old /\ cache[j] = old[j]
  BY ONLY <1>3, old \in Seq(Blocks), cache \in Seq(Blocks), Extended(old, cache) DEF Extended
<1>6. DOMAIN cache = 1..(u + 1)
  BY <1>3
<1>7. PICK x, e : x = Append(toks, t) /\ e = k + 1
  OBVIOUS
<1>8. ASSUME NEW j \in 1..u PROVE n.kv[cache[j]] = SpanKv(x, e, j)
  <2>1. j \in Nat /\ j \in Int /\ u \in Int /\ j <= u /\ j # u + 1 /\ j \in 1..(u + 1)
    BY <1>3
  <2>2. j * SpanSize <= u * SpanSize
    BY ONLY <1>1, <2>1, Multiples
  <2>3. j * SpanSize <= k /\ j * SpanSize <= e
    <3>1. PICK a, b : a = j * SpanSize /\ b = u * SpanSize
      OBVIOUS
    <3>2. a \in Int /\ b \in Int
      BY ONLY <1>1, <2>1, <3>1
    <3>3. a <= b /\ b <= k
      BY ONLY <1>4, <2>2, <3>1
    <3>4. a <= k /\ a <= e
      BY ONLY <1>1, <1>7, <3>2, <3>3
    <3> QED
      BY ONLY <3>1, <3>4
  <2>4. e \in Nat /\ e \in 0..Len(toks)
    BY ONLY <1>1, <1>7, Len(toks) = k + 1
  <2>5. n.kv[cache[j]] = d.kv[old[j]]
    BY ONLY <1>3, <1>5, <1>6, <2>1, j \in 1..u, OwnWritten(d, n, toks, cache) DEF OwnWritten
  <2>6. d.kv[old[j]] = SpanKv(toks, k, j)
    BY ONLY <1>5, j \in 1..u, CacheHolds(d, old, toks, k) DEF CacheHolds
  <2>7. SpanKv(toks, k, j) = PrefixAt(toks, j)
    BY ONLY <2>1, <2>3, k \in Nat, WholeSpan
  <2>8. SpanKv(toks, e, j) = PrefixAt(toks, j)
    BY ONLY <2>1, <2>3, <2>4, WholeSpan
  <2>9. SpanKv(Append(toks, t), e, j) = SpanKv(toks, e, j)
    BY ONLY <2>1, <2>4, toks \in Seq(Tokens), t \in Tokens, SpanOfAppend
  <2> QED
    BY ONLY <1>7, <2>5, <2>6, <2>7, <2>8, <2>9
<1>9. n.kv[cache[u + 1]] = SpanKv(x, e, u + 1)
  <2>1. n.kv[cache[u + 1]] = toks
    BY ONLY <1>3, OwnWritten(d, n, toks, cache) DEF OwnWritten
  <2>2. PICK j, a : j = u + 1 /\ a = (u + 1) * SpanSize
    OBVIOUS
  <2>3. e <= a /\ a \in Nat /\ e \in Nat
    <3>1. PICK b, c : b = u * SpanSize /\ c = SpanSize
      OBVIOUS
    <3>2. a = b + c /\ b \in Int /\ c \in Int /\ a \in Nat
      BY ONLY <1>1, <1>3, <2>2, <3>1
    <3>3. k < b + c
      BY ONLY <1>4, <3>1
    <3> QED
      BY ONLY <1>1, <1>7, <3>2, <3>3
  <2>4. (IF a < e THEN a ELSE e) = e
    BY ONLY <2>3
  <2>5. SpanKv(x, e, j) = SubSeq(x, 1, e)
    BY ONLY <2>2, <2>4 DEF SpanKv
  <2>6. e \in 0..Len(toks) /\ e = Len(toks)
    BY ONLY <1>1, <1>7, Len(toks) = k + 1
  <2>7. SubSeq(Append(toks, t), 1, e) = SubSeq(toks, 1, e)
    BY ONLY <2>6, toks \in Seq(Tokens), t \in Tokens, SubSeqOfAppend
  <2>8. SubSeq(toks, 1, Len(toks)) = toks
    BY ONLY toks \in Seq(Tokens), WholeSeq
  <2> QED
    BY ONLY <1>7, <2>1, <2>2, <2>5, <2>6, <2>7, <2>8
<1>10. \A j \in DOMAIN cache : j \in 1..u \/ j = u + 1
  BY ONLY <1>3, <1>6
<1>11. CacheHolds(n, cache, x, e)
  BY ONLY <1>8, <1>9, <1>10 DEF CacheHolds
<1> QED
  BY ONLY <1>7, <1>11

\* The fields a decoder step changes.
LEMMA NextReqFields ==
  ASSUME NEW x, ReqShape(x), NEW t, NEW c, NEW y, y = NextReq(x, t, c)
  PROVE  y.toks = Append(x.toks, t) /\ y.kv_len = x.kv_len + 1 /\ y.cache = c
<1>1. PICK a, b : a = Append(x.toks, t) /\ b = x.kv_len + 1
  OBVIOUS
<1>2. x = [live |-> x.live, toks |-> x.toks, input_len |-> x.input_len, kv_len |-> x.kv_len,
           ts |-> x.ts, cache |-> x.cache, nodes |-> x.nodes]
  BY DEF ReqShape
<1>3. y = [x EXCEPT !.toks = a, !.kv_len = b, !.cache = c]
  BY <1>1 DEF NextReq
<1>4. y = [live |-> x.live, toks |-> a, input_len |-> x.input_len, kv_len |-> b,
           ts |-> x.ts, cache |-> c, nodes |-> x.nodes]
  BY ONLY <1>2, <1>3
<1>5. y.toks = a /\ y.kv_len = b /\ y.cache = c
  BY ONLY <1>4
<1> QED
  BY ONLY <1>1, <1>5

LEMMA DecodeData ==
  ASSUME NEW m, NEW q, NEW T, NEW data, NEW s, NEW out, NEW C, NEW n, NEW q2,
         DecodeInput(m, q, T, data, s, out, C, n, q2), DataAt(m, q), NEW d, d = s.m, KvWritten(d, n, q, C)
  PROVE  DataAt(n, q2)
<1>1. /\ ReqsShape(q) /\ T \in Nat /\ CoreOK(m, q, T) /\ m.fault = {}
      /\ DOMAIN data = SpanStarts(q) /\ Cardinality(SpanStarts(q)) <= CountFree(m)
      /\ s = ClaimSpans(m, data) /\ out \in [LiveOf(q) -> Sampled]
      /\ C = DecodedCaches(q, s.blk) /\ SameButKv(d, n) /\ q2 = DecodedBatch(q, out, C)
  BY DEF DecodeInput
<1>2. CoreOK(n, q2, T) /\ LiveOf(q2) = LiveOf(q)
  BY DecodeOK
<1>3. PICK B, N, L, blk : B = CachesOf(q) /\ N = NodesOf(q) /\ L = LiveOf(q) /\ blk = s.blk
  OBVIOUS
<1>4. GpuOK(m, B, N, L) /\ ManagerShape(m) /\ TableOK(m) /\ OwnOK(m, B, L) /\ L \subseteq Requests
  BY <1>1, <1>3, LiveFinite DEF CoreOK, CacheOK, GpuOK, TableOK
<1>5. PICK D : D = DOMAIN data
  OBVIOUS
<1>6. IsFiniteSet(D) /\ Cardinality(D) <= CountFree(m)
  <2>1. D \subseteq LiveOf(q)
    BY <1>1, <1>5 DEF SpanStarts
  <2> QED
    BY <1>1, <1>5, <2>1, LiveFinite, FS_Subset
<1>7. d.fault = {}
  BY <1>1, <1>4, <1>5, <1>6, ClaimCount
<1>8. KvClaim(m, d, data, blk)
  <2>1. KvClaim(m, s.m, data, s.blk)
    BY <1>1, <1>4, <1>5, <1>6, <1>7, ClaimKv
  <2> QED
    BY ONLY <1>3, <2>1, d = s.m
<1>9. AllData(m) /\ BatchHolds(m, q, L)
  BY <1>3 DEF DataAt
<1>10. KvKept(m, d, B, L) /\ AllData(d)
  BY ONLY <1>4, <1>8, <1>9, ClaimData
<1>11. BatchHolds(d, q, L)
  BY ONLY <1>3, <1>4, <1>9, <1>10, HoldsKept
<1>12. ASSUME NEW r \in L
       PROVE  /\ q2[r].toks = Append(q[r].toks, out[r]) /\ q2[r].kv_len = q[r].kv_len + 1 /\ q2[r].cache = C[r]
              /\ out[r] \in Tokens
  <2>1. PICK x, y, t, c : x = q[r] /\ y = q2[r] /\ t = out[r] /\ c = C[r]
    OBVIOUS
  <2>2. ReqShape(x) /\ y = NextReq(x, t, c) /\ t \in Tokens
    BY <1>1, <1>3, <1>4, <2>1, PrefixCacheAssumption DEF ReqsShape, DecodedBatch
  <2>3. y.toks = Append(x.toks, t) /\ y.kv_len = x.kv_len + 1 /\ y.cache = c
    BY ONLY <2>2, NextReqFields
  <2> QED
    BY ONLY <2>1, <2>2, <2>3
<1>13. AllData(n) /\ \A r \in LiveOf(q) : OwnWritten(d, n, q[r].toks, C[r])
  <2>1. \A r \in LiveOf(q) : q2[r].cache = C[r]
    BY <1>3, <1>12
  <2>2. n.table = d.table /\ n.cpu = d.cpu
    BY <1>1 DEF SameButKv
  <2> QED
    BY ONLY <1>2, <1>10, <2>1, <2>2, KvWritten(d, n, q, C), WrittenData
<1>14. ASSUME NEW r \in L PROVE ReqHolds(n, q2[r])
  <2>1. PICK x, y, t, c : x = q[r] /\ y = q2[r] /\ t = out[r] /\ c = C[r]
    OBVIOUS
  <2>2. PICK toks, k, old : toks = x.toks /\ k = x.kv_len /\ old = x.cache
    OBVIOUS
  <2>3. ReqOK(m, x, T) /\ ReqOK(n, y, T)
    BY <1>1, <1>2, <1>3, <2>1 DEF CoreOK
  <2>4. toks \in Seq(Tokens) /\ k \in Nat /\ Len(toks) = k + 1 /\ old \in Seq(Blocks)
    BY <2>2, <2>3 DEF ReqOK, VirtualCache
  <2>5. y.toks = Append(toks, t) /\ y.kv_len = k + 1 /\ y.cache = c /\ t \in Tokens
    BY <1>12, <2>1, <2>2
  <2>6. c \in Seq(Blocks) /\ Len(c) = SpansFor(k + 1)
    BY <2>3, <2>5 DEF ReqOK, VirtualCache
  <2>7. Extended(old, c)
    BY <1>1, <1>3, <2>1, <2>2 DEF DecodedCaches, Extended
  <2>8. CacheHolds(d, old, toks, k)
    BY <1>11, <2>1, <2>2 DEF BatchHolds, ReqHolds
  <2>9. OwnWritten(d, n, toks, c)
    BY <1>3, <1>13, <2>1, <2>2
  <2>10. CacheHolds(n, c, Append(toks, t), k + 1)
    BY ONLY <2>4, <2>5, <2>6, <2>7, <2>8, <2>9, NextHolds
  <2> QED
    BY ONLY <2>1, <2>5, <2>10 DEF ReqHolds
<1>15. BatchHolds(n, q2, LiveOf(q2))
  BY <1>2, <1>3, <1>14 DEF BatchHolds
<1> QED
  BY ONLY <1>13, <1>15 DEF DataAt

-----------------------------------------------------------------------------
(* The data of a run.                                                      *)

DataNow == SafeInv /\ DataAt(mgr, req)
DataInv == SafeInv /\ (ignored = {} => DataAt(mgr, req))

LEMMA StartKeepsData ==
  ASSUME DataNow, NEW toks \in Prompts, NEW t \in Sampled, NEW expired, LiveOf(req) # Requests,
         StartRequest(NewPlace, toks, t, TRUE, expired)
  PROVE  DataAt(mgr', req')
<1>1. PICK m0, q, T, n, q2, T2, r : m0 = mgr /\ q = req /\ T = clock /\ n = mgr' /\ q2 = req' /\ T2 = clock' /\ r = NewPlace
  OBVIOUS
<1>2. PICK m : m = MakeRoom(m0, toks, T2, expired)
  OBVIOUS
<1>3. PICK f : f = RefFill(m, toks, T2)
  OBVIOUS
<1>4. PICK p : p = FillUp(f.m, toks, f.cache)
  OBVIOUS
<1>5. PICK start, cache, d : start = Cardinality(f.nodes) * SpanSize /\ cache = p.cache /\ d = p.m
  OBVIOUS
<1>6. PICK i : i = Insert(d, toks, start, T2, cache)
  OBVIOUS
<1>7. T2 = T + 1
  BY <1>1 DEF StartRequest
<1>8. n = i.m /\ ContextFrames(m0, toks) <= CountFree(m) /\ RefFillReady(m, toks)
  BY <1>1, <1>2, <1>3, <1>4, <1>5, <1>6, <1>7 DEF StartRequest
<1>9. PICK nodes : nodes = f.nodes \cup i.nodes
  OBVIOUS
<1>10. q2 = StartedBatch(q, r, toks, t, T2, cache, nodes)
  BY <1>1, <1>2, <1>3, <1>4, <1>5, <1>6, <1>7, <1>9 DEF StartRequest, StartedBatch
<1>11. SafeAt(m0, q, T) /\ DataAt(m0, q)
  BY <1>1, SafeGives DEF DataNow
<1>12. T \in Nat /\ ReqsShape(q) /\ CoreOK(m0, q, T) /\ m0.fault = {} /\ Ordered(m0, q) /\ T2 \in Nat
  BY <1>7, <1>11 DEF SafeAt
<1>13. r \in Requests /\ r \notin LiveOf(q)
  BY <1>1, NewPlaceFree
<1>14. StartInput(m0, q, T, r, toks, expired, T2, m, f, p) /\ Ordered(m, q) /\ CoreOK(m, q, T2)
  BY <1>2, <1>3, <1>4, <1>7, <1>8, <1>12, <1>13, StartFits
<1>15. BegunHolds(q, toks, p)
  <2>1. OrderOK(m.table) /\ AllData(m0) /\ BatchHolds(m0, q, LiveOf(q))
    BY <1>11, <1>14 DEF Ordered, DataAt
  <2> QED
    BY ONLY <1>8, <1>14, <2>1, BeginData
<1>16. DataAt(i.m, q2)
  BY ONLY <1>5, <1>6, <1>10, <1>14, <1>15, t \in Sampled, StartData
<1> QED
  BY <1>1, <1>8, <1>16

LEMMA FailsKeepsData ==
  ASSUME DataNow, NEW toks \in Prompts, NEW expired, LiveOf(req) # Requests, StartFails(toks, expired)
  PROVE  DataAt(mgr', req')
<1>1. PICK m0, q, T, n, T2 : m0 = mgr /\ q = req /\ T = clock /\ n = mgr' /\ T2 = clock'
  OBVIOUS
<1>2. PICK m : m = MakeRoom(m0, toks, T2, expired)
  OBVIOUS
<1>3. PICK f : f = RefFill(m, toks, T2)
  OBVIOUS
<1>4. PICK p : p = FillUp(f.m, toks, f.cache)
  OBVIOUS
<1>5. PICK cache, d, k, nodes : cache = p.cache /\ d = p.m /\ k = Len(toks) /\ nodes = f.nodes
  OBVIOUS
<1>6. PICK x : x = [NoRequest EXCEPT !.toks = toks, !.input_len = k, !.ts = T2, !.cache = cache, !.nodes = nodes]
  OBVIOUS
<1>7. T2 = T + 1 /\ req' = q
  BY <1>1 DEF StartFails
<1>8. n = StopContext(d, x, expired) /\ ContextFrames(m0, toks) <= CountFree(m) /\ RefFillReady(m, toks)
  BY <1>1, <1>2, <1>3, <1>4, <1>5, <1>6, <1>7 DEF StartFails
<1>9. x.toks = toks /\ x.input_len = k /\ x.ts = T2 /\ x.cache = cache /\ x.nodes = nodes
  BY <1>6 DEF NoRequest
<1>10. SafeAt(m0, q, T) /\ DataAt(m0, q)
  BY <1>1, SafeGives DEF DataNow
<1>11. T \in Nat /\ ReqsShape(q) /\ CoreOK(m0, q, T) /\ m0.fault = {} /\ Ordered(m0, q)
  BY <1>10 DEF SafeAt
<1>12. PICK r : r \in Requests /\ r \notin LiveOf(q)
  BY <1>1, NewPlaceFree
<1>13. StartInput(m0, q, T, r, toks, expired, T2, m, f, p) /\ Ordered(m, q) /\ CoreOK(m, q, T2)
  BY <1>2, <1>3, <1>4, <1>7, <1>8, <1>11, <1>12, StartFits
<1>14. BegunHolds(q, toks, p)
  <2>1. OrderOK(m.table) /\ AllData(m0) /\ BatchHolds(m0, q, LiveOf(q))
    BY <1>10, <1>13 DEF Ordered, DataAt
  <2> QED
    BY ONLY <1>8, <1>13, <2>1, BeginData
<1>15. d = p.m /\ x.toks = toks /\ x.input_len = Len(toks) /\ x.ts = T2 /\ x.cache = p.cache /\ x.nodes = f.nodes
  BY <1>5, <1>9
<1>16. DataAt(n, q)
  BY ONLY <1>8, <1>13, <1>14, <1>15, FailsData
<1> QED
  BY <1>1, <1>7, <1>16

LEMMA DeniedKeepsData ==
  ASSUME DataNow, NEW toks \in Prompts, NEW expired, LiveOf(req) # Requests, ContextDenied(toks, expired)
  PROVE  DataAt(mgr', req')
<1>1. PICK m, q, T, n, T2, r : m = mgr /\ q = req /\ T = clock /\ n = mgr' /\ T2 = clock' /\ r = NewPlace
  OBVIOUS
<1>2. SafeAt(m, q, T) /\ DataAt(m, q)
  BY <1>1, SafeGives DEF DataNow
<1>3. T2 = T + 1 /\ req' = q /\ n = MakeRoom(m, toks, T2, expired)
  BY <1>1 DEF ContextDenied
<1>4. r \in Requests /\ r \notin LiveOf(q)
  BY <1>1, NewPlaceFree
<1>5. T \in Nat /\ ReqsShape(q) /\ CoreOK(m, q, T)
  BY <1>2 DEF SafeAt
<1>6. DataAt(n, q)
  BY ONLY <1>2, <1>3, <1>4, <1>5, DeniedData
<1> QED
  BY <1>1, <1>3, <1>6

LEMMA StopKeepsData ==
  ASSUME DataNow, StopRequest
  PROVE  DataAt(mgr', req')
<1>1. PICK m, q, T, n, q2 : m = mgr /\ q = req /\ T = clock /\ n = mgr' /\ q2 = req'
  OBVIOUS
<1>2. PICK r \in Live, expired \in 0..clock :
        mgr' = StopContext(mgr, req[r], expired) /\ req' = [req EXCEPT ![r] = NoRequest]
  BY DEF StopRequest
<1>3. r \in LiveOf(q) /\ n = StopContext(m, q[r], expired) /\ q2 = [q EXCEPT ![r] = NoRequest]
  BY <1>1, <1>2 DEF Live, LiveOf
<1>4. SafeAt(m, q, T) /\ DataAt(m, q)
  BY <1>1, SafeGives DEF DataNow
<1>5. T \in Nat /\ ReqsShape(q) /\ CoreOK(m, q, T) /\ m.fault = {}
  BY <1>4 DEF SafeAt
<1>6. DataAt(n, q2)
  BY ONLY <1>3, <1>4, <1>5, StopData
<1> QED
  BY <1>1, <1>6

LEMMA AllocKeepsData ==
  ASSUME DataNow, NEW expired, NEW n, n = AllocDecoderMemory(expired)
  PROVE  DataAt(n, req)
<1>1. PICK m, q, T : m = mgr /\ q = req /\ T = clock
  OBVIOUS
<1>2. PICK k : k = Cardinality(NewSpan) - CountFree(mgr)
  OBVIOUS
<1>3. n = evict_unrefered_by_num(m, k, expired) \/ n = m
  BY <1>1, <1>2 DEF AllocDecoderMemory, EvictUnrefered
<1>4. SafeAt(m, q, T) /\ DataAt(m, q)
  BY <1>1, SafeGives DEF DataNow
<1>5. T \in Nat /\ CoreOK(m, q, T)
  BY <1>4 DEF SafeAt
<1>6. ASSUME n = evict_unrefered_by_num(m, k, expired) PROVE DataAt(n, q)
  BY ONLY <1>4, <1>5, <1>6, EvictedData
<1> QED
  BY <1>1, <1>3, <1>4, <1>6

LEMMA DecodeKeepsData ==
  ASSUME DataNow, Decode
  PROVE  DataAt(mgr', req')
<1>1. PICK q, T, n, q2 : q = req /\ T = clock /\ n = mgr' /\ q2 = req'
  OBVIOUS
<1>2. Live = LiveOf(q) /\ NewSpan = SpanStarts(q)
  <2>1. Live = LiveOf(q)
    BY <1>1 DEF Live, LiveOf
  <2> QED
    BY <1>1, <2>1 DEF NewSpan, SpanStarts
<1>3. PICK expired \in 0..clock, out \in [Live -> Sampled] :
        LET m == AllocDecoderMemory(expired)
            s == ClaimSpans(m, [r \in NewSpan |-> req[r].toks])
            cache(r) == IF r \in NewSpan THEN Append(req[r].cache, s.blk[r]) ELSE req[r].cache
            last(r) == cache(r)[Len(cache(r))]
        IN /\ DecoderFits(m)
           /\ mgr' = [s.m EXCEPT !.kv = [b \in Blocks |->
                        IF \E r \in Live : last(r) = b
                        THEN req[CHOOSE r \in Live : last(r) = b].toks ELSE @[b]]]
           /\ req' = [r \in Requests |->
                        IF r \in Live
                        THEN [req[r] EXCEPT !.toks = Append(@, out[r]), !.kv_len = @ + 1, !.cache = cache(r)]
                        ELSE req[r]]
  BY DEF Decode
<1>4. PICK m : m = AllocDecoderMemory(expired)
  OBVIOUS
<1>5. PICK data : data = [r \in NewSpan |-> req[r].toks]
  OBVIOUS
<1>6. PICK s : s = ClaimSpans(m, data)
  OBVIOUS
<1>7. PICK C, d, blk : C = DecodedCaches(q, s.blk) /\ d = s.m /\ blk = s.blk
  OBVIOUS
<1>8. DOMAIN data = SpanStarts(q) /\ out \in [LiveOf(q) -> Sampled] /\ Cardinality(SpanStarts(q)) <= CountFree(m)
  BY <1>2, <1>3, <1>4, <1>5 DEF DecoderFits
<1> DEFINE last(r) == LET c == IF r \in NewSpan THEN Append(q[r].cache, blk[r]) ELSE q[r].cache IN c[Len(c)]
           kv == [b \in Blocks |-> IF \E r \in Live : last(r) = b
                                   THEN q[CHOOSE r \in Live : last(r) = b].toks ELSE d.kv[b]]
<1>9. n = [d EXCEPT !.kv = kv]
  BY <1>1, <1>3, <1>4, <1>5, <1>6, <1>7
<1>10. q2 = DecodedBatch(q, out, C)
  <2>1. q2 = [r \in Requests |->
                IF r \in Live
                THEN [q[r] EXCEPT !.toks = Append(@, out[r]), !.kv_len = @ + 1,
                        !.cache = IF r \in NewSpan THEN Append(q[r].cache, blk[r]) ELSE q[r].cache]
                ELSE q[r]]
    BY <1>1, <1>3, <1>4, <1>5, <1>6, <1>7
  <2>2. \A r \in Live : C[r] = IF r \in NewSpan THEN Append(q[r].cache, blk[r]) ELSE q[r].cache
    BY <1>2, <1>7 DEF DecodedCaches
  <2> QED
    BY <1>2, <2>1, <2>2 DEF DecodedBatch, NextReq
<1>11. \A r \in Live : last(r) = LastBlock(C, r)
  BY <1>2, <1>7 DEF DecodedCaches, LastBlock
<1>12. m.fault = {} /\ CoreOK(m, q, T) /\ DataAt(m, q)
  BY <1>1, <1>4, AllocSafe, AllocKeepsData DEF DataNow
<1>13. ReqsShape(q) /\ T \in Nat
  BY <1>1, SafeGives DEF SafeAt, DataNow
<1>14. ManagerShape(d)
  <2>1. ManagerShape(m)
    BY <1>12 DEF CoreOK, CacheOK, GpuOK, TableOK
  <2> QED
    BY <1>6, <1>7, <2>1, ClaimGrows DEF Grows
<1> DEFINE kw == [b \in Blocks |-> IF \E r \in LiveOf(q) : LastBlock(C, r) = b
                           THEN q[CHOOSE r \in LiveOf(q) : LastBlock(C, r) = b].toks ELSE d.kv[b]]
<1>15. kv = kw
  <2>1. ASSUME NEW b \in Blocks
        PROVE  /\ (\E r \in Live : last(r) = b) <=> (\E r \in LiveOf(q) : LastBlock(C, r) = b)
               /\ (CHOOSE r \in Live : last(r) = b) = (CHOOSE r \in LiveOf(q) : LastBlock(C, r) = b)
    <3> HIDE DEF last
    <3> QED
      BY ONLY <1>2, <1>11
  <2> HIDE DEF last
  <2> QED
    BY ONLY <2>1
<1> HIDE DEF kv, kw, last
<1>16. n.kv = kv /\ SameButKv(d, n)
  <2>1. d = [table |-> d.table, evictor |-> d.evictor, free |-> d.free, extra |-> d.extra,
             kv |-> d.kv, cpu |-> d.cpu, fault |-> d.fault]
    BY <1>14 DEF ManagerShape
  <2>2. n.kv = kv
    BY ONLY <1>9, <2>1
  <2>3. SameButKv(d, n)
    BY ONLY <1>9, <1>14, SetKv
  <2> QED
    BY ONLY <2>2, <2>3
<1>17. KvWritten(d, n, q, C)
  BY ONLY <1>15, <1>16 DEF KvWritten, kw
<1>18. DecodeInput(m, q, T, data, s, out, C, n, q2)
  BY <1>6, <1>7, <1>8, <1>10, <1>12, <1>13, <1>16 DEF DecodeInput
<1>19. DataAt(n, q2)
  BY ONLY <1>7, <1>12, <1>17, <1>18, DecodeData
<1> QED
  BY <1>1, <1>19

LEMMA ResetKeepsData ==
  ASSUME SafeInv, Reset
  PROVE  DataAt(mgr', req')
<1>1. PICK m, q, n : m = mgr /\ q = req /\ n = mgr'
  OBVIOUS
<1>2. /\ LiveOf(q) = {} /\ req' = q /\ m.cpu.copies = {}
      /\ n = [delete_nodes(m, DOMAIN m.table) EXCEPT !.cpu = AllReturned(@)]
  BY <1>1 DEF Reset, Live, LiveOf
<1>3. SafeAt(m, q, clock)
  BY <1>1, SafeGives
<1>30. ManagerShape(m) /\ CpuShape(m.cpu)
  <2>1. ManagerShape(m) /\ CoreOK(m, q, clock)
    BY <1>3 DEF SafeAt
  <2> QED
    BY <2>1 DEF CoreOK, CacheOK, CpuOK
<1>4. PICK d : d = delete_nodes(m, DOMAIN m.table)
  OBVIOUS
<1>5. PICK c : c = AllReturned(d.cpu)
  OBVIOUS
<1>6. n = [d EXCEPT !.cpu = c]
  BY <1>2, <1>4, <1>5
<1>7. ManagerShape(d) /\ d.cpu = m.cpu /\ DOMAIN d.table = {}
  <2>1. PICK H : H = DOMAIN m.table
    OBVIOUS
  <2>2. DeleteStep(m, d, H)
    BY <1>30, <1>4, <2>1, DeleteNodesStep
  <2>3. ManagerShape(d) /\ d.cpu = m.cpu /\ d.table = Restrict(m.table, DOMAIN m.table \ H)
    BY <2>2 DEF DeleteStep
  <2>4. DOMAIN d.table = DOMAIN m.table \ H
    BY ONLY <2>3 DEF Restrict
  <2> QED
    BY <2>1, <2>3, <2>4
<1>8. n.cpu = c /\ n.table = d.table
  BY ONLY <1>6, <1>7, SetCpu
<1>9. DOMAIN c.table = {} /\ c.copies = {}
  <2>1. PICK e : e = m.cpu
    OBVIOUS
  <2>2. CpuShape(e) /\ e.copies = {} /\ c = AllReturned(e)
    BY <1>2, <1>30, <1>5, <1>7, <2>1
  <2>3. e = [table |-> e.table, free |-> e.free, kv |-> e.kv, copies |-> e.copies]
    BY <2>2 DEF CpuShape
  <2>4. PICK F, Z : c = [e EXCEPT !.table = <<>>, !.free = F, !.kv = Z]
    BY <2>2 DEF AllReturned
  <2>5. c = [table |-> <<>>, free |-> F, kv |-> Z, copies |-> e.copies]
    BY ONLY <2>3, <2>4
  <2>6. c.table = <<>> /\ c.copies = e.copies
    BY ONLY <2>5
  <2> QED
    BY <2>2, <2>6
<1>10. DataAt(n, q)
  BY ONLY <1>2, <1>7, <1>8, <1>9 DEF DataAt, AllData, NodeData, CpuData, InPlace, BatchHolds
<1> QED
  BY <1>1, <1>2, <1>10

LEMMA CopyKeepsData ==
  ASSUME DataNow, CopiesInTime, CopyTask
  PROVE  DataAt(mgr', req')
<1>1. PICK m, q, n, T : m = mgr /\ q = req /\ n = mgr' /\ T = clock
  OBVIOUS
<1>2. PICK task \in m.cpu.copies : n = [m EXCEPT !.cpu = Copied(m.cpu, task)] /\ req' = q
  BY <1>1 DEF CopyTask
<1>3. SafeAt(m, q, T) /\ DataAt(m, q)
  BY <1>1, SafeGives DEF DataNow
<1>4. PICK e : e = m.cpu
  OBVIOUS
<1>5. ManagerShape(m) /\ CpuOK(e, T)
  <2>1. ManagerShape(m) /\ CoreOK(m, q, T)
    BY <1>3 DEF SafeAt
  <2> QED
    BY <1>4, <2>1 DEF CoreOK, CacheOK
<1>6. PICK c : c = Copied(e, task)
  OBVIOUS
<1>7. n = [m EXCEPT !.cpu = c]
  BY <1>2, <1>4, <1>6
<1>8. n.cpu = c /\ n.table = m.table /\ n.kv = m.kv
  <2>1. m = [table |-> m.table, evictor |-> m.evictor, free |-> m.free, extra |-> m.extra,
             kv |-> m.kv, cpu |-> m.cpu, fault |-> m.fault]
    BY <1>5 DEF ManagerShape
  <2> QED
    BY ONLY <1>7, <2>1
<1>9. NodeData(m) /\ CpuData(e) /\ BatchHolds(m, q, LiveOf(q))
  BY <1>3, <1>4 DEF DataAt, AllData
<1>10. CpuData(c)
  <2>1. task \in e.copies
    BY <1>4
  <2>2. InPlace(e)
    BY <1>1, <1>4, <1>9 DEF CopiesInTime, CpuData
  <2> QED
    BY ONLY <1>5, <1>6, <1>9, <2>1, <2>2, CopiedData
<1>11. NodeData(n)
  BY ONLY <1>8, <1>9, SameNodeData
<1>12. BatchHolds(n, q, LiveOf(q))
  BY ONLY <1>8, <1>9 DEF BatchHolds, ReqHolds, CacheHolds
<1>13. DataAt(n, q)
  BY ONLY <1>8, <1>10, <1>11, <1>12 DEF DataAt, AllData
<1> QED
  BY <1>1, <1>2, <1>13

LEMMA DataStep ==
  ASSUME NoWholeSpans, DataInv, CopiesInTime, Next
  PROVE  DataInv'
<1>1. ASSUME ignored' = {}
      PROVE  DataAt(mgr', req')
  <2>1. CASE Reset
    BY <2>1, ResetKeepsData DEF DataInv
  <2>2. CASE ~Reset
    <3>1. ignored = {}
      <4>1. CASE GenerateContinueContext
        <5>1. ignored' = ignored \/ ignored' = ignored \cup {clock + 1}
          BY <4>1 DEF GenerateContinueContext, ContextDenied, StartRequest, StartFails
        <5> QED
          BY ONLY <1>1, <5>1
      <4>2. CASE Decode \/ DecodeShort \/ StopRequest \/ CopyTask
        <5>1. ignored' = ignored
          BY <4>2 DEF Decode, DecodeShort, StopRequest, CopyTask
        <5> QED
          BY ONLY <1>1, <5>1
      <4> QED
        BY <2>2, <4>1, <4>2 DEF Next
    <3>2. DataNow
      BY <3>1 DEF DataInv, DataNow
    <3>3. CASE GenerateContinueContext
      <4>1. LiveOf(req) # Requests
        BY <3>3 DEF GenerateContinueContext, Live, LiveOf
      <4>2. PICK toks \in Prompts, expired \in 0..clock :
              \/ ContextDenied(toks, expired)
              \/ \E t \in Sampled, computed \in BOOLEAN :
                   StartRequest(NewPlace, toks, t, computed, expired)
              \/ StartFails(toks, expired)
        BY <3>3 DEF GenerateContinueContext
      <4>3. CASE ContextDenied(toks, expired)
        BY <3>2, <4>1, <4>3, DeniedKeepsData
      <4>4. CASE \E t \in Sampled, computed \in BOOLEAN :
                   StartRequest(NewPlace, toks, t, computed, expired)
        <5>1. PICK t \in Sampled, computed \in BOOLEAN : StartRequest(NewPlace, toks, t, computed, expired)
          BY <4>4
        <5>2. ignored' = IF computed THEN ignored ELSE ignored \cup {clock + 1}
          BY <5>1 DEF StartRequest
        <5>3. computed = TRUE
          BY <1>1, <5>2
        <5>4. StartRequest(NewPlace, toks, t, TRUE, expired)
          BY <5>1, <5>3
        <5> QED
          BY <3>2, <4>1, <5>4, StartKeepsData
      <4>5. CASE StartFails(toks, expired)
        BY <3>2, <4>1, <4>5, FailsKeepsData
      <4> QED
        BY <4>2, <4>3, <4>4, <4>5
    <3>4. CASE Decode
      BY <3>2, <3>4, DecodeKeepsData
    <3>5. CASE DecodeShort
      <4>1. PICK expired : mgr' = AllocDecoderMemory(expired) /\ req' = req
        BY <3>5 DEF DecodeShort
      <4> QED
        BY <3>2, <4>1, AllocKeepsData
    <3>6. CASE StopRequest
      BY <3>2, <3>6, StopKeepsData
    <3>7. CASE CopyTask
      BY <3>2, <3>7, CopyKeepsData
    <3> QED
      BY <2>2, <3>3, <3>4, <3>5, <3>6, <3>7 DEF Next
  <2> QED
    BY <2>1, <2>2
<1>2. SafeInv'
  BY SafeStep DEF DataInv
<1> QED
  BY <1>1, <1>2 DEF DataInv

LEMMA DataInit ==
  ASSUME Init PROVE DataInv
<1>1. mgr.table = <<>> /\ mgr.cpu.table = <<>> /\ mgr.cpu.copies = {}
  BY DEF Init, EmptyManager, EmptyCpu
<1>2. LiveOf(req) = {}
  BY DEF Init, LiveOf, NoRequest
<1>3. DOMAIN mgr.table = {} /\ DOMAIN mgr.cpu.table = {}
  BY <1>1
<1>4. DataAt(mgr, req)
  BY <1>1, <1>2, <1>3 DEF DataAt, AllData, NodeData, CpuData, InPlace, BatchHolds
<1> QED
  BY <1>4, SafeInit DEF DataInv

\* The data invariant of a run whose copies are all in time: unless a prefill has
\* failed with a status that StartRequest drops, every node has the KV of its prefix,
\* every task of threadpool_ has its node's, and every live request has its own KV.
THEOREM DataInvariant == NoWholeSpans => (Spec /\ []CopiesInTime => []DataInv)
<1> SUFFICES ASSUME NoWholeSpans PROVE Spec /\ []CopiesInTime => []DataInv
  OBVIOUS
<1>1. Init => DataInv
  BY DataInit
<1>2. DataInv /\ CopiesInTime /\ [Next]_vars => DataInv'
  <2> SUFFICES ASSUME DataInv, CopiesInTime, [Next]_vars PROVE DataInv'
    OBVIOUS
  <2>1. CASE Next
    BY <2>1, DataStep
  <2>2. CASE UNCHANGED vars
    BY <2>2 DEF vars, DataInv, SafeInv, CoreInv, NothingImpossible
  <2> QED
    BY <2>1, <2>2
<1> QED
  BY <1>1, <1>2, PTL DEF Spec

\* A hit never returns the KV of other tokens: the block of a node on the GPU, and both
\* units of a ready node on the CPU, hold the KV of the prefix the node is filed under,
\* whatever was evicted, swapped out or swapped in, as long as no prefill fails with a
\* status and no copy to the CPU outlives its node.
THEOREM HitsHoldTheirPrefix == NoWholeSpans => (Spec /\ []CopiesInTime => []NodesHoldTheirPrefix)
<1> SUFFICES ASSUME NoWholeSpans PROVE Spec /\ []CopiesInTime => []NodesHoldTheirPrefix
  OBVIOUS
<1>1. Spec /\ []CopiesInTime => []DataInv
  BY DataInvariant
<1>2. DataInv => NodesHoldTheirPrefix
  BY DEF DataInv, DataAt, AllData, NodeData, CpuData, NodesHoldTheirPrefix
<1> QED
  BY <1>1, <1>2, PTL

\* A virtual cache has a span for every token.
LEMMA CacheCovers ==
  ASSUME NEW k \in Nat, k >= 1
  PROVE  SpansFor(k) * SpanSize >= k
<1>1. SpanSize \in Nat \ {0} /\ k - 1 \in Int
  BY PrefixCacheAssumption
<1>2. SpansFor(k) = (k - 1) \div SpanSize + 1 /\ (k - 1) \div SpanSize \in Nat
  BY SpansOfPrompt
<1>3. PICK a : a = k - 1
  OBVIOUS
<1>4. a < (a \div SpanSize) * SpanSize + SpanSize
  BY ONLY <1>1, <1>3, Quotient
<1>5. PICK u, b, c : u = a \div SpanSize /\ b = u * SpanSize /\ c = SpanSize
  OBVIOUS
<1>6. u \in Nat /\ SpansFor(k) = u + 1
  BY <1>2, <1>3, <1>5
<1>7. (u + 1) * SpanSize = b + c /\ b \in Int /\ c \in Int
  BY ONLY <1>1, <1>5, <1>6
<1>8. a < b + c
  BY ONLY <1>4, <1>5
<1>9. b + c >= k
  BY ONLY <1>3, <1>7, <1>8, k \in Nat
<1> QED
  BY ONLY <1>6, <1>7, <1>9

\* Attention reads the right cache: span j of a live request, taken from the GPU cache,
\* swapped in from the CPU, prefilled or written by the decoder, holds the KV of the
\* request's own first tokens, and the spans cover all of them, as long as no prefill
\* fails with a status and no copy to the CPU outlives its node.
THEOREM RequestsReadTheirKv == NoWholeSpans => (Spec /\ []CopiesInTime => []RequestReadsItsKv)
<1> SUFFICES ASSUME NoWholeSpans PROVE Spec /\ []CopiesInTime => []RequestReadsItsKv
  OBVIOUS
<1>1. Spec /\ []CopiesInTime => []DataInv
  BY DataInvariant
<1>2. DataInv => RequestReadsItsKv
  <2> SUFFICES ASSUME DataInv, ignored = {}, NEW r \in Live
               PROVE  /\ Len(req[r].cache) * SpanSize >= req[r].kv_len
                      /\ \A j \in DOMAIN req[r].cache :
                           mgr.kv[req[r].cache[j]] = SpanKv(req[r].toks, req[r].kv_len, j)
    BY DEF RequestReadsItsKv
  <2>1. r \in LiveOf(req)
    BY DEF Live, LiveOf
  <2>2. ReqOK(mgr, req[r], clock) /\ ReqHolds(mgr, req[r])
    BY <2>1, SafeGives DEF DataInv, DataAt, BatchHolds, SafeAt, CoreOK
  <2>3. req[r].kv_len \in Nat /\ req[r].kv_len >= 1 /\ Len(req[r].cache) = SpansFor(req[r].kv_len)
    BY <2>2 DEF ReqOK
  <2>4. Len(req[r].cache) * SpanSize >= req[r].kv_len
    BY <2>3, CacheCovers
  <2> QED
    BY <2>2, <2>4 DEF ReqHolds, CacheHolds
<1> QED
  BY <1>1, <1>2, PTL

\* Without a CPU tier, which is the default, and with one whose memory is exactly its
\* capacity, alloc_cpu_node evicts nobody: no copy is ever late, and both facts hold
\* of every run.
THEOREM ExactTierIsRight ==
  NoWholeSpans /\ NoCpuRest => (Spec => [](NodesHoldTheirPrefix /\ RequestReadsItsKv))
<1> SUFFICES ASSUME NoWholeSpans, NoCpuRest PROVE Spec => [](NodesHoldTheirPrefix /\ RequestReadsItsKv)
  OBVIOUS
<1>1. CopiesInTime
  BY DEF CopiesInTime
<1>2. Spec /\ []CopiesInTime => []NodesHoldTheirPrefix
  BY HitsHoldTheirPrefix
<1>3. Spec /\ []CopiesInTime => []RequestReadsItsKv
  BY RequestsReadTheirKv
<1> QED
  BY <1>1, <1>2, <1>3, PTL
=============================================================================
