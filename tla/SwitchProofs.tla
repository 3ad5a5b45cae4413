---------------------------- MODULE SwitchProofs ----------------------------
(***************************************************************************)
(* Proofs about the learning switch and its table of addresses, for any    *)
(* number of ports, addresses and packets of a burst: the table implements *)
(* LearningTable, and a burst goes where it is for.                        *)
(*                                                                         *)
(* The loops of the code are recursive functions on the naturals.  A turn  *)
(* of each is an operator, LoopExists gives the equation of the function,  *)
(* and SetInduction carries a fact from turn to turn.                      *)
(***************************************************************************)
EXTENDS Switch, Vtep, WellFoundedInduction, FiniteSetTheorems, TLAPS

-----------------------------------------------------------------------------
(* Induction over the natural numbers, for a set of them. *)

\* A set of naturals that is not empty has a least element.
LEMMA LeastNatural ==
  ASSUME NEW T \in SUBSET Nat, T # {}
  PROVE  \E x \in T : \A y \in T : x <= y
<1>. DEFINE less == {ss \in Nat \X Nat : ss[1] < ss[2]}
<1>1. IsWellFoundedOn(less, Nat)
  BY NatLessThanWellFounded DEF OpToRel
<1>2. PICK x \in T : \A y \in T : <<y, x>> \notin less
  <2>. HIDE DEF IsWellFoundedOn, less
  <2>. QED
    BY <1>1, WFMin, Zenon
<1>3. \A y \in Nat : y < x => <<y, x>> \in less
  BY <1>2
<1>. HIDE DEF less
<1>4. ASSUME NEW y \in T PROVE x <= y
  <2>1. ~(y < x)
    BY <1>2, <1>3, Zenon
  <2>. QED
    BY <2>1, <1>2
<1>. QED
  BY <1>4

\* Induction over the naturals, for a set.
LEMMA SetInduction ==
  ASSUME NEW S, 0 \in S, \A n \in Nat : n \in S => n + 1 \in S
  PROVE  Nat \subseteq S
<1>. SUFFICES ASSUME Nat \ S # {} PROVE FALSE
  OBVIOUS
<1>1. PICK x \in Nat \ S : \A y \in Nat \ S : x <= y
  BY LeastNatural, Zenon
<1>2. x - 1 \in Nat
  BY <1>1
<1>3. x - 1 \in S
  BY <1>1, <1>2
<1>. QED
  BY <1>1, <1>2, <1>3


-----------------------------------------------------------------------------
(* The table of addresses. *)

Macs == Nat \X Nat

\* A sub table is a record, and the addresses are finitely many.
IsTable(t) ==
  /\ \A p \in DOMAIN t : DOMAIN t[p] = {"entries", "ptr"}
  /\ IsFiniteSet(Keys(t)) /\ Keys(t) \subseteq Macs

\* pg_mac_table_ptr_set puts an entry in one place.
LEMMA SetGet ==
  ASSUME NEW t, IsTable(t), NEW m \in Macs, NEW e
  PROVE  LET t2 == ptr_set_ok(t, m, e)
         IN IsTable(t2) /\ \A a \in Macs : ptr_get(t2, a) = IF a = m THEN e ELSE ptr_get(t, a)
<1>. DEFINE sub == IF m[1] \in DOMAIN t THEN t[m[1]].ptr ELSE <<>>
            new == [q \in DOMAIN sub \cup {m[2]} |-> IF q = m[2] THEN e ELSE sub[q]]
            t2 == [p \in DOMAIN t \cup {m[1]} |-> IF p = m[1] THEN [entries |-> TRUE, ptr |-> new] ELSE t[p]]
<1>1. t2 = ptr_set_ok(t, m, e)
  BY DEF ptr_set_ok, part1, part2, is_set
<1>3. DOMAIN t2 = DOMAIN t \cup {m[1]} /\ t2[m[1]].ptr = new /\ \A p \in DOMAIN t : p # m[1] => t2[p] = t[p]
  OBVIOUS
<1>4. DOMAIN new = DOMAIN sub \cup {m[2]} /\ new[m[2]] = e /\ \A q \in DOMAIN sub : q # m[2] => new[q] = sub[q]
  OBVIOUS
<1>5. DOMAIN <<>> = {}
  OBVIOUS
<1>6. \A p \in DOMAIN t2 : DOMAIN t2[p] = {"entries", "ptr"}
  BY DEF IsTable
<1>. HIDE DEF t2, new
<1>2. IsTable(t2)
  <2>1. m = <<m[1], m[2]>>
    BY DEF Macs
  <2>2. Keys(t2) \subseteq Keys(t) \cup {m}
    <3>. SUFFICES ASSUME NEW p \in DOMAIN t2, NEW q \in DOMAIN t2[p].ptr PROVE <<p, q>> \in Keys(t) \cup {m}
      BY DEF Keys
    <3>1. CASE p = m[1]
      BY <1>3, <1>4, <1>5, <2>1, <3>1 DEF Keys
    <3>2. CASE p # m[1]
      BY <1>3, <3>2 DEF Keys
    <3>. QED
      BY <3>1, <3>2
  <2>3. IsFiniteSet(Keys(t) \cup {m})
    BY FS_AddElement DEF IsTable
  <2>4. IsFiniteSet(Keys(t2))
    BY <2>2, <2>3, FS_Subset
  <2>. QED
    BY <1>6, <2>2, <2>4 DEF IsTable
<1>7. ASSUME NEW a \in Macs PROVE ptr_get(t2, a) = IF a = m THEN e ELSE ptr_get(t, a)
  <2>1. a = <<a[1], a[2]>> /\ m = <<m[1], m[2]>>
    BY DEF Macs
  <2>2. CASE a[1] = m[1] /\ a[2] = m[2]
    BY <1>3, <1>4, <2>1, <2>2 DEF ptr_get, is_set, part1, part2
  <2>3. CASE a[1] = m[1] /\ a[2] # m[2]
    BY <1>3, <1>4, <1>5, <2>3 DEF ptr_get, is_set, part1, part2
  <2>4. CASE a[1] # m[1]
    BY <1>3, <2>4 DEF ptr_get, is_set, part1, part2
  <2>. QED
    BY <2>2, <2>3, <2>4
<1>. QED
  BY <1>1, <1>2, <1>7

\* pg_mac_table_ptr_unset takes one away.
LEMMA UnsetGet ==
  ASSUME NEW t, IsTable(t), NEW m \in Macs
  PROVE  LET t2 == ptr_unset(t, m)
         IN IsTable(t2) /\ \A a \in Macs : ptr_get(t2, a) = IF a = m THEN NoEntry ELSE ptr_get(t, a)
<1>. DEFINE t2 == ptr_unset(t, m)
<1>1. CASE m[1] \in DOMAIN t /\ m[2] \in DOMAIN t[m[1]].ptr
  <2>. DEFINE sub == t[m[1]].ptr
              new == [q \in DOMAIN sub \ {m[2]} |-> sub[q]]
  <2>1. t2 = [t EXCEPT ![m[1]] = [t[m[1]] EXCEPT !.ptr = new]]
    BY <1>1 DEF ptr_unset, part1, part2, is_set, Restrict
  <2>2. DOMAIN t2 = DOMAIN t /\ t2[m[1]] = [t[m[1]] EXCEPT !.ptr = new] /\ \A p \in DOMAIN t : p # m[1] => t2[p] = t[p]
    BY <1>1, <2>1
  <2>3. DOMAIN t2[m[1]] = {"entries", "ptr"} /\ t2[m[1]].ptr = new
    BY <1>1, <2>2 DEF IsTable
  <2>4. \A p \in DOMAIN t2 : DOMAIN t2[p] = {"entries", "ptr"}
    BY <2>2, <2>3 DEF IsTable
  <2>5. DOMAIN new = DOMAIN sub \ {m[2]} /\ \A q \in DOMAIN new : new[q] = sub[q]
    OBVIOUS
  <2>. HIDE DEF t2, new
  <2>7. Keys(t2) \subseteq Keys(t)
    BY <2>2, <2>3, <2>5 DEF Keys
  <2>8. IsTable(t2)
    BY <2>4, <2>7, FS_Subset DEF IsTable
  <2>6. ASSUME NEW a \in Macs PROVE ptr_get(t2, a) = IF a = m THEN NoEntry ELSE ptr_get(t, a)
    <3>1. a = <<a[1], a[2]>> /\ m = <<m[1], m[2]>>
      BY DEF Macs
    <3>2. CASE a[1] = m[1] /\ a[2] = m[2]
      BY <2>2, <2>3, <2>5, <3>1, <3>2 DEF ptr_get, is_set, part1, part2
    <3>3. CASE a[1] = m[1] /\ a[2] # m[2]
      BY <1>1, <2>2, <2>3, <2>5, <3>3 DEF ptr_get, is_set, part1, part2
    <3>4. CASE a[1] # m[1]
      BY <2>2, <3>4 DEF ptr_get, is_set, part1, part2
    <3>. QED
      BY <3>2, <3>3, <3>4
  <2>. QED
    BY <2>6, <2>8 DEF t2
<1>2. CASE ~(m[1] \in DOMAIN t /\ m[2] \in DOMAIN t[m[1]].ptr)
  BY <1>2 DEF ptr_unset, ptr_get, part1, part2, is_set
<1>. QED
  BY <1>1, <1>2

-----------------------------------------------------------------------------
(* Loops. *)

\* What a turn of do_learn_filter_multicast makes of the table.
LearnTurn(t, n, source, pkts, mask) == IF n \in mask THEN learn_addr(t, pkts[n].src, source) ELSE t

\* What a turn of vtep_encapsulate makes of the port.
PrependTurn(port, n, pkts, S) == IF n \in S THEN vtep_header_prepend(port, pkts[n]) ELSE port

\* The loops of the data path in one operator, so that one lemma is about all of them.
LoopTurn(loop, x, n) ==
  IF loop.name = "learn" THEN LearnTurn(x, n, loop.source, loop.pkts, loop.mask)
  ELSE IF loop.name = "prepend" THEN PrependTurn(x, n, loop.pkts, loop.S)
  ELSE IF loop.name = "ports" THEN decapsulate_port(x, n, loop.pkts, loop.f)
  ELSE IF loop.name = "forward" THEN forward(x, forward_port(n), loop.masks)
  ELSE ForeachTurn(x[1], x[2], loop.doomed)

\* g is the start of a loop: n turns of it.
Turns(loop, start, g, n) ==
  g = [i \in 0 .. n |-> IF i = 0 THEN start ELSE LoopTurn(loop, g[i - 1], i - 1)]

\* f is all of it.
IsLoop(loop, start, f) == f = [n \in Nat |-> IF n = 0 THEN start ELSE LoopTurn(loop, f[n - 1], n - 1)]

\* A recursive function that is written as a loop exists.
LEMMA LoopExists ==
  ASSUME NEW loop, NEW start
  PROVE  \E f : IsLoop(loop, start, f)
<1>. DEFINE Part(g, n) == Turns(loop, start, g, n)
            Turn(x, n) == LoopTurn(loop, x, n)
            Has == {n \in Nat : \E g : Part(g, n)}
<1>0. \A g : \A n \in Nat : Part(g, n) <=> g = [i \in 0 .. n |-> IF i = 0 THEN start ELSE Turn(g[i - 1], i - 1)]
  BY DEF Turns
<1>. HIDE DEF Part, Turn
<1>1. 0 \in Has
  <2>. DEFINE g == [i \in 0 .. 0 |-> start]
  <2>1. g = [i \in 0 .. 0 |-> IF i = 0 THEN start ELSE Turn(g[i - 1], i - 1)]
    OBVIOUS
  <2>. QED
    BY <1>0, <2>1, Zenon
<1>2. ASSUME NEW n \in Nat, n \in Has PROVE n + 1 \in Has
  <2>1. PICK g : g = [i \in 0 .. n |-> IF i = 0 THEN start ELSE Turn(g[i - 1], i - 1)]
    BY <1>0, <1>2
  <2>. DEFINE h == [i \in 0 .. n + 1 |-> IF i <= n THEN g[i] ELSE Turn(g[n], n)]
  <2>2. \A i \in 0 .. n + 1 : h[i] = IF i = 0 THEN start ELSE Turn(h[i - 1], i - 1)
    <3>. SUFFICES ASSUME NEW i \in 0 .. n + 1 PROVE h[i] = IF i = 0 THEN start ELSE Turn(h[i - 1], i - 1)
      OBVIOUS
    <3>1. CASE i <= n
      <4>1. h[i] = g[i] /\ (i # 0 => h[i - 1] = g[i - 1])
        BY <3>1
      <4>. QED
        BY <2>1, <3>1, <4>1
    <3>2. CASE i = n + 1
      BY <3>2
    <3>. QED
      BY <3>1, <3>2
  <2>3. h = [i \in 0 .. n + 1 |-> IF i = 0 THEN start ELSE Turn(h[i - 1], i - 1)]
    BY <2>2
  <2>. HIDE DEF h
  <2>4. n + 1 \in Nat
    OBVIOUS
  <2>5. Part(h, n + 1)
    BY <1>0, <2>3, <2>4
  <2>. QED
    BY <2>4, <2>5
<1>3. \A n \in Nat : \E g : Part(g, n)
  <2>. HIDE DEF Has
  <2>1. Nat \subseteq Has
    BY <1>1, <1>2, SetInduction
  <2>. QED
    BY <2>1 DEF Has
<1>4. ASSUME NEW n \in Nat, NEW k \in Nat, NEW g, NEW h, Part(g, n), Part(h, k), n <= k
      PROVE  \A i \in 0 .. n : g[i] = h[i]
  <2>. DEFINE Same == {i \in Nat : i <= n => g[i] = h[i]}
  <2>1. /\ g = [i \in 0 .. n |-> IF i = 0 THEN start ELSE Turn(g[i - 1], i - 1)]
        /\ h = [i \in 0 .. k |-> IF i = 0 THEN start ELSE Turn(h[i - 1], i - 1)]
    BY <1>0, <1>4
  <2>2. 0 \in Same
    BY <1>4, <2>1
  <2>3. ASSUME NEW i \in Nat, i \in Same PROVE i + 1 \in Same
    <3>. SUFFICES ASSUME i + 1 <= n PROVE g[i + 1] = h[i + 1]
      OBVIOUS
    <3>1. g[i] = h[i] /\ i + 1 \in 0 .. n /\ i + 1 \in 0 .. k /\ i + 1 # 0 /\ (i + 1) - 1 = i
      BY <1>4, <2>3
    <3>2. g[i + 1] = Turn(g[(i + 1) - 1], (i + 1) - 1) /\ h[i + 1] = Turn(h[(i + 1) - 1], (i + 1) - 1)
      BY <2>1, <3>1
    <3>. QED
      BY <3>1, <3>2
  <2>. HIDE DEF Same
  <2>4. Nat \subseteq Same
    BY <2>2, <2>3, SetInduction
  <2>. QED
    BY <2>4 DEF Same
<1>. DEFINE f == [n \in Nat |-> (CHOOSE g : Part(g, n))[n]]
<1>5. f = [n \in Nat |-> IF n = 0 THEN start ELSE Turn(f[n - 1], n - 1)]
  <2>0. f = [n \in Nat |-> f[n]]
    OBVIOUS
  <2>. SUFFICES ASSUME NEW n \in Nat PROVE f[n] = IF n = 0 THEN start ELSE Turn(f[n - 1], n - 1)
    <3>. HIDE DEF f
    <3>. QED
      BY <2>0, Zenon
  <2>. DEFINE g == CHOOSE x : Part(x, n)
              h == CHOOSE x : Part(x, n - 1)
  <2>1. Part(g, n) /\ f[n] = g[n]
    BY <1>3
  <2>2. CASE n = 0
    BY <1>0, <2>1, <2>2
  <2>3. CASE n # 0
    <3>1. n - 1 \in Nat /\ n - 1 <= n
      BY <2>3
    <3>2. Part(h, n - 1) /\ f[n - 1] = h[n - 1]
      BY <1>3, <3>1
    <3>. HIDE DEF g, h, f
    <3>3. h[n - 1] = g[n - 1]
      BY <1>4, <2>1, <3>1, <3>2
    <3>4. g[n] = Turn(g[n - 1], n - 1)
      BY <1>0, <2>1, <2>3
    <3>. QED
      BY <2>1, <2>3, <3>2, <3>3, <3>4
  <2>. QED
    BY <2>2, <2>3
<1>. HIDE DEF f
<1>. QED
  BY <1>5 DEF Turn, IsLoop

\* The loop of Learnt.
LEMMA LearntTurns ==
  ASSUME NEW table, NEW source, NEW pkts, NEW mask
  PROVE  \E after : /\ after[0] = table
                    /\ \A n \in Nat : after[n + 1] = LearnTurn(after[n], n, source, pkts, mask)
                    /\ Learnt(table, source, pkts, mask) = after[BurstMax]
<1>. DEFINE loop == [name |-> "learn", source |-> source, pkts |-> pkts, mask |-> mask]
            after == CHOOSE x : x = [n \in Nat |-> IF n = 0 THEN table ELSE LearnTurn(x[n - 1], n - 1, source, pkts, mask)]
<1>1. \A x, n : LoopTurn(loop, x, n) = LearnTurn(x, n, source, pkts, mask)
  BY DEF LoopTurn
<1>. HIDE DEF loop
<1>2. PICK x : IsLoop(loop, table, x)
  BY LoopExists
<1>3. x = [n \in Nat |-> IF n = 0 THEN table ELSE LearnTurn(x[n - 1], n - 1, source, pkts, mask)]
  BY <1>1, <1>2 DEF IsLoop
<1>4. after = [n \in Nat |-> IF n = 0 THEN table ELSE LearnTurn(after[n - 1], n - 1, source, pkts, mask)]
  BY <1>3
<1>5. Learnt(table, source, pkts, mask) = after[BurstMax]
  BY DEF Learnt, LearnTurn
<1>. HIDE DEF after
<1>6. ASSUME NEW n \in Nat PROVE after[n + 1] = LearnTurn(after[n], n, source, pkts, mask)
  <2>1. n + 1 \in Nat /\ n + 1 # 0 /\ (n + 1) - 1 = n
    OBVIOUS
  <2>. QED
    BY <1>4, <2>1
<1>. QED
  BY <1>4, <1>5, <1>6

\* The loop of Foreach.
LEMMA ForeachTurns ==
  ASSUME NEW ma, NEW doomed
  PROVE  \E turn : /\ turn[0] = <<iterator_init(ma), ma>>
                   /\ \A n \in Nat : turn[n + 1] = ForeachTurn(turn[n][1], turn[n][2], doomed)
                   /\ Foreach(ma, doomed) = turn[Cardinality(Keys(ma)) + 1]
<1>. DEFINE loop == [name |-> "foreach", doomed |-> doomed]
            start == <<iterator_init(ma), ma>>
            turn == CHOOSE x : x = [n \in Nat |-> IF n = 0 THEN start ELSE ForeachTurn(x[n - 1][1], x[n - 1][2], doomed)]
<1>1. \A x, n : LoopTurn(loop, x, n) = ForeachTurn(x[1], x[2], doomed)
  BY DEF LoopTurn
<1>0. Foreach(ma, doomed) = turn[Cardinality(Keys(ma)) + 1]
  BY DEF Foreach
<1>. HIDE DEF loop, start
<1>2. PICK x : IsLoop(loop, start, x)
  BY LoopExists
<1>3. x = [n \in Nat |-> IF n = 0 THEN start ELSE ForeachTurn(x[n - 1][1], x[n - 1][2], doomed)]
  BY <1>1, <1>2 DEF IsLoop
<1>4. turn = [n \in Nat |-> IF n = 0 THEN start ELSE ForeachTurn(turn[n - 1][1], turn[n - 1][2], doomed)]
  BY <1>3, Zenon
<1>. HIDE DEF turn
<1>6. ASSUME NEW n \in Nat PROVE turn[n + 1] = ForeachTurn(turn[n][1], turn[n][2], doomed)
  <2>1. n + 1 \in Nat /\ n + 1 # 0 /\ (n + 1) - 1 = n
    OBVIOUS
  <2>. QED
    BY <1>4, <2>1
<1>. QED
  BY <1>4, <1>0, <1>6, Zenon DEF start

-----------------------------------------------------------------------------
(* What the loops do to the table. *)

\* A burst of packets with addresses.
IsBurst(pkts, mask) == mask \in SUBSET Slots /\ \A s \in mask : pkts[s].src \in Macs

\* The sources of the packets are at the port, and the others where they were.
LearntAt(t, table, source, pkts, mask) ==
  \A a \in Macs : ptr_get(t, a) = IF \E s \in mask : pkts[s].src = a THEN source ELSE ptr_get(table, a)

\* What do_learn_filter_multicast does to the table.
LEMMA LearntGet ==
  ASSUME NEW table, IsTable(table), NEW source, NEW mask, NEW pkts, IsBurst(pkts, mask)
  PROVE  LET t == Learnt(table, source, pkts, mask)
         IN IsTable(t) /\ LearntAt(t, table, source, pkts, mask)
<1>. USE DEF IsBurst
<1>1. PICK after : /\ after[0] = table
                   /\ \A n \in Nat : after[n + 1] = LearnTurn(after[n], n, source, pkts, mask)
                   /\ Learnt(table, source, pkts, mask) = after[BurstMax]
  BY LearntTurns
<1>. DEFINE Heard(n, a) == \E s \in mask : s < n /\ pkts[s].src = a
            Good == {n \in Nat : /\ IsTable(after[n])
                                 /\ \A a \in Macs : ptr_get(after[n], a) = IF Heard(n, a) THEN source
                                                                          ELSE ptr_get(table, a)}
<1>2. mask \subseteq Nat /\ BurstMax \in Nat /\ \A s \in mask : s < BurstMax
  BY SlotsAssumption, FS_CardinalityType DEF BurstMax
<1>3. 0 \in Good
  <2>1. \A a : ~Heard(0, a)
    BY <1>2
  <2>. HIDE DEF Heard
  <2>. QED
    BY <1>1, <2>1
<1>4. ASSUME NEW n \in Nat, n \in Good PROVE n + 1 \in Good
  <2>1. after[n + 1] = LearnTurn(after[n], n, source, pkts, mask)
    BY <1>1
  <2>2. CASE n \in mask
    <3>1. after[n + 1] = ptr_set_ok(after[n], pkts[n].src, source)
      BY <2>1, <2>2 DEF LearnTurn, learn_addr
    <3>2. \A a : Heard(n + 1, a) <=> Heard(n, a) \/ pkts[n].src = a
      BY <1>2, <2>2
    <3>. HIDE DEF Heard
    <3>3. IsTable(after[n]) /\ pkts[n].src \in Macs
      BY <1>4, <2>2
    <3>4. /\ IsTable(after[n + 1])
          /\ \A a \in Macs : ptr_get(after[n + 1], a) = IF a = pkts[n].src THEN source ELSE ptr_get(after[n], a)
      BY <3>1, <3>3, SetGet
    <3>. QED
      BY <1>4, <3>2, <3>4
  <2>3. CASE n \notin mask
    <3>1. after[n + 1] = after[n]
      BY <2>1, <2>3 DEF LearnTurn
    <3>2. \A a : Heard(n + 1, a) <=> Heard(n, a)
      BY <1>2, <2>3
    <3>. HIDE DEF Heard
    <3>. QED
      BY <1>4, <3>1, <3>2
  <2>. QED
    BY <2>2, <2>3
<1>. HIDE DEF Good
<1>5. BurstMax \in Good
  BY <1>2, <1>3, <1>4, SetInduction
<1>6. \A a : Heard(BurstMax, a) <=> \E s \in mask : pkts[s].src = a
  BY <1>2
<1>. QED
  BY <1>1, <1>5, <1>6 DEF Good, LearntAt

\* switch_unlink_notify takes addresses at the port away and no others.
LEMMA ForeachGet ==
  ASSUME NEW ma, IsTable(ma), NEW doomed, doomed \subseteq Macs
  PROVE  LET t == ForeachTable(ma, doomed)
         IN /\ IsTable(t)
            /\ \A a \in Macs : \/ ptr_get(t, a) = ptr_get(ma, a)
                               \/ a \in doomed /\ ptr_get(t, a) = NoEntry
<1>1. PICK turn : /\ turn[0] = <<iterator_init(ma), ma>>
                  /\ \A n \in Nat : turn[n + 1] = ForeachTurn(turn[n][1], turn[n][2], doomed)
                  /\ Foreach(ma, doomed) = turn[Cardinality(Keys(ma)) + 1]
  BY ForeachTurns, Zenon
<1>. DEFINE Fewer(t) == \A a \in Macs : ptr_get(t, a) = ptr_get(ma, a) \/ (a \in doomed /\ ptr_get(t, a) = NoEntry)
            Good == {n \in Nat : IsTable(turn[n][2]) /\ Fewer(turn[n][2])}
<1>2. 0 \in Good
  BY <1>1
<1>3. ASSUME NEW n \in Nat, n \in Good PROVE n + 1 \in Good
  <2>. DEFINE it == turn[n][1]
              t == turn[n][2]
              u == IF it.key \in doomed THEN ptr_unset(t, it.key) ELSE t
  <2>1. IsTable(t) /\ Fewer(t)
    BY <1>3
  <2>2. turn[n + 1][2] = t \/ turn[n + 1][2] = u
    <3>1. turn[n + 1] = ForeachTurn(it, t, doomed)
      BY <1>1
    <3>. HIDE DEF it, t
    <3>. QED
      BY <3>1 DEF ForeachTurn
  <2>. HIDE DEF it, t
  <2>3. IsTable(u) /\ Fewer(u)
    <3>1. CASE it.key \in doomed
      <4>1. it.key \in Macs
        BY <3>1
      <4>2. IsTable(u) /\ \A a \in Macs : ptr_get(u, a) = IF a = it.key THEN NoEntry ELSE ptr_get(t, a)
        BY <2>1, <3>1, <4>1, UnsetGet
      <4>. QED
        BY <2>1, <3>1, <4>2
    <3>2. CASE it.key \notin doomed
      BY <2>1, <3>2
    <3>. QED
      BY <3>1, <3>2
  <2>. HIDE DEF u, Fewer
  <2>. QED
    BY <2>1, <2>2, <2>3
<1>4. Nat \subseteq Good
  <2>. HIDE DEF Good
  <2>. QED
    BY <1>2, <1>3, SetInduction
<1>5. Cardinality(Keys(ma)) + 1 \in Nat
  BY FS_CardinalityType DEF IsTable
<1>. QED
  BY <1>1, <1>4, <1>5 DEF ForeachTable

-----------------------------------------------------------------------------
(* The switch. *)

\* A switch by itself.
SwitchSpec == switch_init /\ [][SwitchNext \/ Return]_dpvars

IsSwitch(s) ==
  /\ DOMAIN s = {"kind", "linked", "table", "is_table_dead", "masks", "trouble"}
  /\ s.kind = "switch"

\* The inductive invariant.
SwitchInv == IsSwitch(state) /\ IsTable(state.table)

\* The table a switch begins with.
LEMMA EmptyFacts == IsTable(EmptyTable) /\ \A a : ptr_get(EmptyTable, a) = NoEntry
<1>1. DOMAIN <<>> = {}
  OBVIOUS
<1>2. Keys(<<>>) = {}
  BY <1>1 DEF Keys
<1>. QED
  BY <1>1, <1>2, FS_EmptySet DEF IsTable, ptr_get, is_set, part1, EmptyTable

\* switch_init: nothing is learnt, nobody is linked.
LEMMA SwitchStart == switch_init => SwitchInv /\ Learning!Init
<1>. SUFFICES ASSUME switch_init PROVE SwitchInv /\ Learning!Init
  OBVIOUS
<1>1. IsSwitch(state) /\ state.table = EmptyTable /\ state.linked = {} /\ call.op = "none"
  BY DEF switch_init, NoCall, IsSwitch
<1>2. IsTable(EmptyTable) /\ \A a : ptr_get(EmptyTable, a) = NoEntry
  BY EmptyFacts
<1>3. Learning!Init
  BY <1>1, <1>2 DEF Learning!Init, Learning!Forgotten, Learning!Silence, SwitchOnly, IsSwitch
<1>. QED
  BY <1>1, <1>2, <1>3 DEF SwitchInv

\* insert_link is Link.
LEMMA SwitchLinks ==
  ASSUME SwitchInv, NEW side \in Sides, switch_link(side)
  PROVE  SwitchInv' /\ Learning!Next
<1>1. PICK i \in 0 .. SwitchMax[side] - 1 : state' = [state EXCEPT !.linked = @ \cup {Port(side, i)}]
  BY Zenon DEF switch_link
<1>2. Port(side, i) \in SwitchPorts
  BY DEF SwitchPorts
<1>3. /\ IsSwitch(state') /\ state'.table = state.table /\ state'.linked = state.linked \cup {Port(side, i)}
      /\ state.kind = "switch" /\ state'.kind = "switch" /\ call' = call
  BY <1>1 DEF SwitchInv, IsSwitch, switch_link
<1>4. Learning!Link(Port(side, i))
  BY <1>3 DEF Learning!Link, SwitchOnly
<1>. QED
  BY <1>2, <1>3, <1>4 DEF SwitchInv, Learning!Next

\* do_unlink with switch_unlink_notify is Unlink.
LEMMA SwitchUnlinks ==
  ASSUME SwitchInv, NEW port \in SwitchPorts, switch_unlink(port)
  PROVE  SwitchInv' /\ Learning!Next
<1>. DEFINE table == IF state.is_table_dead THEN state.table ELSE switch_unlink_notify(state.table, port)
            doomed == {mac \in Keys(state.table) : ptr_get(state.table, mac) = port}
            S == {a \in SwitchMacs : ptr_get(table, a) # ptr_get(state.table, a)}
<1>1. /\ IsSwitch(state') /\ state'.table = table /\ state'.linked = state.linked \ {port}
      /\ state.kind = "switch" /\ state'.kind = "switch" /\ call' = call /\ port \in state.linked
  <2>. DEFINE t == IF (~state.is_table_dead /\ \E mac \in Keys(table) : ptr_get(table, mac) = port) /\ state.trouble = 0
                   THEN 1 ELSE state.trouble
  <2>1. state' = [state EXCEPT !.linked = state.linked \ {port}, !.table = table, !.trouble = t]
    BY DEF switch_unlink
  <2>. HIDE DEF table, t
  <2>. QED
    BY <2>1, Zenon DEF SwitchInv, IsSwitch, switch_unlink
<1>2. /\ IsTable(table)
      /\ \A a \in Macs : \/ ptr_get(table, a) = ptr_get(state.table, a)
                         \/ a \in doomed /\ ptr_get(table, a) = NoEntry
  <2>1. IsTable(state.table) /\ doomed \subseteq Macs
    BY DEF SwitchInv, IsTable
  <2>. HIDE DEF doomed
  <2>2. CASE state.is_table_dead
    BY <2>1, <2>2
  <2>3. CASE ~state.is_table_dead
    <3>1. table = ForeachTable(state.table, doomed)
      BY <2>3 DEF switch_unlink_notify, doomed
    <3>. QED
      BY <2>1, <3>1, ForeachGet
  <2>. QED
    BY <2>2, <2>3
<1>. HIDE DEF table
<1>3. S \in SUBSET {a \in SwitchMacs : ptr_get(state.table, a) = port}
  BY <1>2, SwitchAssumption DEF Macs
<1>4. \A a \in SwitchMacs : ptr_get(table, a) = IF a \in S THEN NoEntry ELSE ptr_get(state.table, a)
  BY <1>2, SwitchAssumption DEF Macs
<1>. HIDE DEF S
<1>5. Learning!Unlink(port)
  BY <1>1, <1>3, <1>4 DEF Learning!Unlink, SwitchOnly
<1>. QED
  BY <1>1, <1>2, <1>5 DEF SwitchInv, Learning!Next

\* switch_burst is Learn.
LEMMA SwitchBurstLearns ==
  ASSUME SwitchInv, NEW from \in SwitchPorts, NEW b \in SwitchBursts, switch_burst(from, b[1], b[2])
  PROVE  SwitchInv' /\ Learning!Next
<1>. DEFINE pkts == b[1]
            mask == b[2]
            S == {pkts[s].src : s \in mask}
<1>1. mask \in SUBSET Slots /\ pkts \in [mask -> SwitchPackets]
  BY DEF SwitchBursts
<1>2. \A s \in mask : pkts[s].src \in SwitchMacs
  BY <1>1 DEF SwitchPackets
<1>. HIDE DEF pkts, mask
<1>3. PICK start \in TablesOf(pkts, mask) :
        /\ IsSwitch(state') /\ state'.table = Learnt(start, from, pkts, mask) /\ state'.linked = state.linked
        /\ call'.op = "burst" /\ call'.from = from /\ call'.pkts = pkts /\ call'.mask = mask
  <2>. DEFINE Plan(start) == forward_bursts(SwitchMasks(Learnt(start, from, pkts, mask), from, pkts, mask))
              Masks(start, n) == [p \in SwitchPorts |->
                IF \E d \in Range(Bursts(Plan(start), n)) : d.port = p THEN {}
                ELSE SwitchMasks(Learnt(start, from, pkts, mask), from, pkts, mask)[p]]
              Trouble(n) == IF n > 0 \/ Hole \/ state.trouble > 0 THEN state.trouble + 1 ELSE state.trouble
  <2>1. \E start \in TablesOf(pkts, mask) : \E n \in 0 .. Len(Plan(start)) :
          /\ state' = [state EXCEPT !.table = Learnt(start, from, pkts, mask), !.is_table_dead = FALSE,
                                    !.masks = Masks(start, n), !.trouble = Trouble(n)]
          /\ call' = [op |-> "burst", from |-> from, pkts |-> pkts, mask |-> mask,
                      ret |-> IF n = 0 THEN 0 ELSE -1]
    BY Zenon DEF switch_burst, pkts, mask
  <2>. HIDE DEF Plan, Masks, Trouble
  <2>. QED
    BY <2>1 DEF SwitchInv, IsSwitch
<1>4. start \in {state.table, EmptyTable}
  BY DEF TablesOf
<1>5. IsTable(EmptyTable) /\ \A a : ptr_get(EmptyTable, a) = NoEntry
  BY EmptyFacts
<1>6. /\ IsTable(state'.table)
      /\ \A a \in Macs : ptr_get(state'.table, a) = IF a \in S THEN from ELSE ptr_get(start, a)
  <2>1. IsTable(start)
    BY <1>4, <1>5 DEF SwitchInv
  <2>2. IsBurst(pkts, mask)
    BY <1>1, <1>2, SwitchAssumption DEF IsBurst, Macs
  <2>3. IsTable(state'.table) /\ LearntAt(state'.table, start, from, pkts, mask)
    BY <1>3, <2>1, <2>2, LearntGet
  <2>. QED
    BY <2>3 DEF LearntAt
<1>7. S \in SUBSET SwitchMacs
  BY <1>2
<1>8. S = {call'.pkts[s].src : s \in call'.mask}
  BY <1>3
<1>. HIDE DEF S
<1>9. Learning!Learn(from, S)
  <2>. DEFINE learnt == [mac \in SwitchMacs |-> IF SwitchOnly THEN ptr_get(state.table, mac) ELSE NoEntry]
              before == IF start = state.table THEN learnt ELSE Learning!Forgotten
  <2>1. \A a \in SwitchMacs : before[a] = ptr_get(start, a)
    BY <1>4, <1>5 DEF SwitchInv, IsSwitch, SwitchOnly, Learning!Forgotten
  <2>2. before \in {learnt, Learning!Forgotten}
    OBVIOUS
  <2>. HIDE DEF before
  <2>3. [mac \in SwitchMacs |-> IF SwitchOnly' THEN ptr_get(state'.table, mac) ELSE NoEntry]
          = [a \in SwitchMacs |-> IF a \in S THEN from ELSE before[a]]
    BY <1>3, <1>6, <2>1, SwitchAssumption DEF IsSwitch, SwitchOnly, Macs
  <2>4. from \in state.linked /\ SwitchOnly /\ SwitchOnly'
    BY <1>3 DEF switch_burst, IsSwitch, SwitchInv, SwitchOnly
  <2>. QED
    BY <1>3, <1>8, <2>2, <2>3, <2>4 DEF Learning!Learn
<1>. QED
  BY <1>3, <1>6, <1>7, <1>9 DEF SwitchInv, Learning!Next

\* switch_burst that finds no memory is Lose.
LEMMA SwitchBurstLoses ==
  ASSUME SwitchInv, NEW from, NEW pkts, NEW mask, switch_burst_no_mem(from, pkts, mask)
  PROVE  SwitchInv' /\ Learning!Next
<1>1. /\ IsSwitch(state') /\ state'.table = EmptyTable /\ state'.linked = state.linked
      /\ call.op = "none" /\ call'.op = "no_mem"
  BY DEF switch_burst_no_mem, SwitchInv, IsSwitch, Idle, NoCall
<1>2. IsTable(EmptyTable) /\ \A a : ptr_get(EmptyTable, a) = NoEntry
  BY EmptyFacts
<1>3. Learning!Lose
  BY <1>1, <1>2 DEF Learning!Lose, Learning!Forgotten, SwitchOnly, SwitchInv, IsSwitch
<1>. QED
  BY <1>1, <1>2, <1>3 DEF SwitchInv, Learning!Next

\* Every step of the switch is one of the learning table, or none.
LEMMA SwitchStep ==
  SwitchInv /\ [SwitchNext \/ Return]_dpvars => SwitchInv' /\ [Learning!Next]_(Learning!tablevars)
<1>. SUFFICES ASSUME SwitchInv, [SwitchNext \/ Return]_dpvars
              PROVE  SwitchInv' /\ [Learning!Next]_(Learning!tablevars)
  OBVIOUS
<1>1. CASE SwitchNext
  <2>1. ASSUME NEW side \in Sides, switch_link(side) PROVE SwitchInv' /\ Learning!Next
    BY <2>1, SwitchLinks
  <2>2. ASSUME NEW port \in SwitchPorts, switch_unlink(port) PROVE SwitchInv' /\ Learning!Next
    BY <2>2, SwitchUnlinks
  <2>3. ASSUME NEW from \in SwitchPorts, NEW b \in SwitchBursts, switch_burst(from, b[1], b[2])
        PROVE  SwitchInv' /\ Learning!Next
    BY <2>3, SwitchBurstLearns
  <2>4. ASSUME NEW from \in SwitchPorts, NEW b \in SwitchBursts, switch_burst_no_mem(from, b[1], b[2])
        PROVE  SwitchInv' /\ Learning!Next
    BY <2>4, SwitchBurstLoses
  <2>. QED
    BY <1>1, <2>1, <2>2, <2>3, <2>4 DEF SwitchNext
<1>2. CASE Return
  <2>1. state' = state /\ call'.op = "none"
    BY <1>2 DEF Return, NoCall
  <2>2. Learning!Rest
    BY <2>1 DEF Learning!Rest, Learning!Silence, SwitchOnly
  <2>. QED
    BY <2>1, <2>2 DEF SwitchInv, Learning!Next
<1>3. CASE UNCHANGED dpvars
  <2>1. state' = state /\ call' = call
    BY <1>3 DEF dpvars
  <2>2. UNCHANGED Learning!tablevars
    BY <2>1 DEF Learning!tablevars, SwitchOnly
  <2>. QED
    BY <2>1, <2>2 DEF SwitchInv
<1>. QED
  BY <1>1, <1>2, <1>3

\* The switch implements LearningTable, step by step: switch_burst moves its sources to
\* the port it came from, do_unlink takes away addresses of its port only, and the table
\* is lost as a whole (mac_table_no_mem) or not at all.
THEOREM SwitchImplements == SwitchSpec => SwitchLearns
<1>1. SwitchSpec => []SwitchInv
  BY SwitchStart, SwitchStep, PTL DEF SwitchSpec
<1>. QED
  BY <1>1, SwitchStart, SwitchStep, PTL DEF SwitchSpec, SwitchLearns, Learning!Spec

-----------------------------------------------------------------------------
(* What a burst is forwarded to. *)

\* A switch has finitely many links.
LEMMA LinksFinite ==
  ASSUME state.linked \subseteq SwitchPorts, NEW side \in Sides
  PROVE  /\ IsFiniteSet({p \in state.linked : p[1] = side})
         /\ nb(side) \in Nat
<1>. DEFINE here == {p \in state.linked : p[1] = side}
            all == {side} \X (0 .. SwitchMax[side] - 1)
<1>1. here \subseteq all
  BY DEF SwitchPorts, Port
<1>2. SwitchMax[side] \in Nat
  BY SwitchAssumption
<1>3. IsFiniteSet(all)
  <2>1. 0 \in Int /\ SwitchMax[side] - 1 \in Int
    BY <1>2
  <2>2. IsFiniteSet(0 .. SwitchMax[side] - 1) /\ IsFiniteSet({side})
    BY <2>1, FS_Interval, FS_Singleton, Zenon
  <2>. QED
    BY <2>2, FS_Product, Zenon
<1>. HIDE DEF here, all
<1>4. IsFiniteSet(here) /\ Cardinality(here) \in Nat
  BY <1>1, <1>3, FS_Subset, FS_CardinalityType
<1>. QED
  BY <1>4 DEF here, nb

\* Without a hole, the ports below nb are the ones that have a link.
LEMMA NoHole ==
  ASSUME state.linked \subseteq SwitchPorts, ~Hole
  PROVE  flood = state.linked
<1>1. ASSUME NEW side \in Sides
      PROVE  {Port(side, i) : i \in 0 .. nb(side) - 1} = {p \in state.linked : p[1] = side}
  <2>. DEFINE n == nb(side)
              here == {p \in state.linked : p[1] = side}
              below == {Port(side, i) : i \in 0 .. n - 1}
              f == [i \in 0 .. n - 1 |-> Port(side, i)]
  <2>1. n \in Nat /\ IsFiniteSet(here) /\ n = Cardinality(here)
    BY LinksFinite, Zenon DEF nb
  <2>2. \A p \in below : p \in here
    BY DEF Hole, Port
  <2>3. f \in Bijection(0 .. n - 1, below)
    BY DEF Bijection, Injection, Surjection, IsInjective, Port
  <2>. HIDE DEF n, here, below, f
  <2>4. IsFiniteSet(0 .. n - 1) /\ Cardinality(0 .. n - 1) = n
    <3>1. 0 \in Int /\ n - 1 \in Int
      BY <2>1
    <3>. QED
      BY <2>1, <3>1, FS_Interval
  <2>5. Cardinality(below) = n
    BY <2>3, <2>4, FS_Bijection DEF ExistsBijection
  <2>6. here = below
    BY <2>1, <2>2, <2>5, FS_Subset
  <2>. QED
    BY <2>6 DEF here, below, n
<1>2. \A p \in state.linked : p[1] \in Sides
  BY DEF SwitchPorts, Port
<1>. QED
  BY <1>1, <1>2 DEF flood

\* The loop of forward_bursts.
LEMMA ForwardTurns ==
  ASSUME NEW masks
  PROVE  \E after : /\ after[0] = <<>>
                    /\ \A n \in Nat : after[n + 1] = forward(after[n], forward_port(n), masks)
                    /\ forward_bursts(masks) = after[nb(SwitchOutput) + nb(Flip(SwitchOutput))]
<1>. DEFINE loop == [name |-> "forward", masks |-> masks]
            after == CHOOSE x : x = [n \in Nat |-> IF n = 0 THEN <<>> ELSE forward(x[n - 1], forward_port(n - 1), masks)]
<1>1. \A x, n : LoopTurn(loop, x, n) = forward(x, forward_port(n), masks)
  BY DEF LoopTurn
<1>0. forward_bursts(masks) = after[nb(SwitchOutput) + nb(Flip(SwitchOutput))]
  BY DEF forward_bursts
<1>. HIDE DEF loop
<1>2. PICK x : IsLoop(loop, <<>>, x)
  BY LoopExists
<1>3. x = [n \in Nat |-> IF n = 0 THEN <<>> ELSE forward(x[n - 1], forward_port(n - 1), masks)]
  BY <1>1, <1>2 DEF IsLoop
<1>4. after = [n \in Nat |-> IF n = 0 THEN <<>> ELSE forward(after[n - 1], forward_port(n - 1), masks)]
  BY <1>3, Zenon
<1>. HIDE DEF after
<1>6. ASSUME NEW n \in Nat PROVE after[n + 1] = forward(after[n], forward_port(n), masks)
  <2>1. n + 1 \in Nat /\ n + 1 # 0 /\ (n + 1) - 1 = n
    OBVIOUS
  <2>. QED
    BY <1>4, <2>1
<1>. QED
  BY <1>4, <1>0, <1>6, Zenon

\* The loops look at every port below nb, once.
LEMMA ForwardPorts ==
  ASSUME state.linked \subseteq SwitchPorts
  PROVE  LET n == nb(SwitchOutput) + nb(Flip(SwitchOutput))
         IN /\ n \in Nat
            /\ {forward_port(i) : i \in 0 .. n - 1} = flood
            /\ \A i, j \in Nat : forward_port(i) = forward_port(j) => i = j
<1>. DEFINE a == nb(SwitchOutput)
            b == nb(Flip(SwitchOutput))
            out == SwitchOutput
            in == Flip(SwitchOutput)
<1>1. out \in Sides /\ in \in Sides /\ out # in /\ Sides = {out, in}
  BY SwitchAssumption DEF Flip, Sides
<1>2. a \in Nat /\ b \in Nat
  BY <1>1, LinksFinite
<1>3. flood = {Port(out, i) : i \in 0 .. a - 1} \cup {Port(in, i) : i \in 0 .. b - 1}
  BY <1>1 DEF flood
<1>4. \A i \in Nat : forward_port(i) = IF i < a THEN Port(out, i) ELSE Port(in, i - a)
  BY DEF forward_port
<1>. HIDE DEF a, b, out, in
<1>5. \A i, j \in Nat : forward_port(i) = forward_port(j) => i = j
  BY <1>1, <1>2, <1>4 DEF Port
<1>6. ASSUME NEW i \in 0 .. a + b - 1 PROVE forward_port(i) \in flood
  BY <1>2, <1>3, <1>4
<1>7. ASSUME NEW i \in 0 .. a - 1 PROVE Port(out, i) \in {forward_port(k) : k \in 0 .. a + b - 1}
  <2>1. i \in 0 .. a + b - 1 /\ forward_port(i) = Port(out, i)
    BY <1>2, <1>4
  <2>. QED
    BY <2>1
<1>8. ASSUME NEW i \in 0 .. b - 1 PROVE Port(in, i) \in {forward_port(k) : k \in 0 .. a + b - 1}
  <2>1. a + i \in 0 .. a + b - 1 /\ forward_port(a + i) = Port(in, i)
    BY <1>2, <1>4
  <2>. QED
    BY <2>1
<1>9. {forward_port(i) : i \in 0 .. a + b - 1} = flood
  BY <1>3, <1>6, <1>7, <1>8
<1>. QED
  BY <1>2, <1>5, <1>9 DEF a, b

\* The bursts of plan are one for each port below nb that has a link and packets.
IsPlan(plan, masks) ==
  /\ \A m, n \in DOMAIN plan : plan[m].port = plan[n].port => m = n
  /\ \A n \in DOMAIN plan : \E p \in flood :
       p \in state.linked /\ masks[p] # {} /\ plan[n] = ToPort(p, masks[p])
  /\ \A p \in flood : p \in state.linked /\ masks[p] # {} =>
       \E n \in DOMAIN plan : plan[n] = ToPort(p, masks[p])

\* What forward_bursts is about to do.
LEMMA PlanFacts ==
  ASSUME state.linked \subseteq SwitchPorts, NEW masks
  PROVE  IsPlan(forward_bursts(masks), masks)
<1>. DEFINE last == nb(SwitchOutput) + nb(Flip(SwitchOutput))
            To(i) == ToPort(forward_port(i), masks[forward_port(i)])
            Busy(i) == forward_port(i) \in state.linked /\ masks[forward_port(i)] # {}
            Any == {To(i) : i \in Nat}
<1>1. PICK after : /\ after[0] = <<>>
                   /\ \A n \in Nat : after[n + 1] = forward(after[n], forward_port(n), masks)
                   /\ forward_bursts(masks) = after[last]
  BY ForwardTurns, Zenon
<1>2. /\ last \in Nat
      /\ {forward_port(i) : i \in 0 .. last - 1} = flood
      /\ \A i, j \in Nat : forward_port(i) = forward_port(j) => i = j
  BY ForwardPorts
<1>3. \A n \in Nat : after[n + 1] = IF Busy(n) THEN Append(after[n], To(n)) ELSE after[n]
  BY <1>1 DEF forward
<1>4. \A i \in Nat : To(i).port = forward_port(i) /\ To(i) \in Any
  BY DEF ToPort
<1>. HIDE DEF last, To, Busy, Any
<1>. DEFINE Upto(s, n) ==
              /\ s \in Seq(Any)
              /\ \A m \in 1 .. Len(s) : \E i \in 0 .. n - 1 : Busy(i) /\ s[m] = To(i)
              /\ \A i \in 0 .. n - 1 : Busy(i) => \E m \in 1 .. Len(s) : s[m] = To(i)
              /\ \A l, m \in 1 .. Len(s) : s[l].port = s[m].port => l = m
            Good == {n \in Nat : Upto(after[n], n)}
<1>5. 0 \in Good
  <2>1. Upto(<<>>, 0)
    OBVIOUS
  <2>. HIDE DEF Upto
  <2>. QED
    BY <1>1, <2>1
<1>6. ASSUME NEW n \in Nat, n \in Good PROVE n + 1 \in Good
  <2>. DEFINE s == after[n]
  <2>1. Upto(s, n)
    BY <1>6, Zenon
  <2>. HIDE DEF s
  <2>2. CASE ~Busy(n)
    <3>1. Upto(s, n + 1)
      BY <2>1, <2>2
    <3>. HIDE DEF Upto
    <3>. QED
      BY <1>3, <2>2, <3>1 DEF s
  <2>3. CASE Busy(n)
    <3>. DEFINE t == Append(s, To(n))
    <3>1. /\ t \in Seq(Any) /\ Len(s) \in Nat /\ Len(t) = Len(s) + 1 /\ t[Len(s) + 1] = To(n)
          /\ \A m \in 1 .. Len(s) : t[m] = s[m]
      BY <1>4, <2>1
    <3>. HIDE DEF t
    <3>2. ASSUME NEW m \in 1 .. Len(t) PROVE \E i \in 0 .. n : Busy(i) /\ t[m] = To(i)
      <4>1. CASE m = Len(s) + 1
        BY <2>3, <3>1, <4>1
      <4>2. CASE m \in 1 .. Len(s)
        <5>1. PICK i \in 0 .. n - 1 : Busy(i) /\ s[m] = To(i)
          BY <2>1, <4>2
        <5>2. i \in 0 .. n /\ t[m] = To(i)
          BY <3>1, <4>2, <5>1
        <5>. QED
          BY <5>1, <5>2
      <4>. QED
        BY <3>1, <4>1, <4>2
    <3>3. ASSUME NEW i \in 0 .. n, Busy(i) PROVE \E m \in 1 .. Len(t) : t[m] = To(i)
      <4>1. CASE i = n
        BY <3>1, <4>1
      <4>2. CASE i \in 0 .. n - 1
        <5>1. PICK m \in 1 .. Len(s) : s[m] = To(i)
          BY <2>1, <3>3, <4>2
        <5>2. m \in 1 .. Len(t) /\ t[m] = To(i)
          BY <3>1, <5>1
        <5>. QED
          BY <5>2
      <4>. QED
        BY <4>1, <4>2
    <3>4. ASSUME NEW m \in 1 .. Len(s) PROVE s[m].port # To(n).port
      <4>1. PICK i \in 0 .. n - 1 : s[m] = To(i)
        BY <2>1
      <4>. QED
        BY <1>2, <1>4, <4>1
    <3>5. ASSUME NEW l \in 1 .. Len(t), NEW m \in 1 .. Len(t), t[l].port = t[m].port PROVE l = m
      <4>1. CASE l \in 1 .. Len(s) /\ m \in 1 .. Len(s)
        BY <2>1, <3>1, <3>5, <4>1, Zenon
      <4>2. CASE l = Len(s) + 1 \/ m = Len(s) + 1
        BY <3>1, <3>4, <3>5, <4>2
      <4>. QED
        BY <3>1, <4>1, <4>2
    <3>6. Upto(t, n + 1)
      BY <3>1, <3>2, <3>3, <3>5
    <3>. HIDE DEF Upto
    <3>. QED
      BY <1>3, <2>3, <3>6 DEF s, t
  <2>. QED
    BY <2>2, <2>3
<1>. HIDE DEF Good
<1>7. last \in Good
  BY <1>2, <1>5, <1>6, SetInduction
<1>. DEFINE plan == forward_bursts(masks)
<1>8. Upto(plan, last)
  <2>. HIDE DEF Upto
  <2>. QED
    BY <1>1, <1>7, Zenon DEF Good
<1>. HIDE DEF plan
<1>9. DOMAIN plan = 1 .. Len(plan)
  BY <1>8
<1>10. \A n \in DOMAIN plan : \E p \in flood : p \in state.linked /\ masks[p] # {} /\ plan[n] = ToPort(p, masks[p])
  BY <1>2, <1>8, <1>9 DEF Busy, To
<1>11. \A p \in flood : p \in state.linked /\ masks[p] # {} => \E n \in DOMAIN plan : plan[n] = ToPort(p, masks[p])
  BY <1>2, <1>8, <1>9 DEF Busy, To
<1>. QED
  BY <1>8, <1>9, <1>10, <1>11, Zenon DEF IsPlan, plan

\* The ports a packet is for: where its destination was learnt, or all of them.
For(table, p, dst) ==
  p \in state.linked /\ (dst = Multicast \/ (dst \in SwitchMacs /\ ptr_get(table, dst) \in {NoEntry, p}))

\* Every address of the table is at a port that has a link.
Placed(table, linked) == \A a \in Macs : ptr_get(table, a) \in linked \cup {NoEntry}

\* do_switch and do_learn_filter_multicast find them.
LEMMA SwitchedFor ==
  ASSUME state.linked \subseteq SwitchPorts, ~Hole, NEW table, Placed(table, state.linked),
         NEW dst \in SwitchMacs \cup {Multicast, Filtered}, NEW p \in SwitchPorts
  PROVE  p \in do_switch(table, dst) <=> For(table, p, dst)
<1>1. flood = state.linked
  BY NoHole
<1>2. CASE dst \in SwitchMacs
  BY <1>1, <1>2, SwitchAssumption DEF do_switch, For, Placed, Macs
<1>3. CASE dst = Multicast
  BY <1>1, <1>3, SwitchAssumption DEF do_switch, For
<1>4. CASE dst = Filtered
  BY <1>1, <1>4, SwitchAssumption DEF do_switch, For
<1>. QED
  BY <1>2, <1>3, <1>4

\* The inductive invariant of SwitchExact: as long as there was no trouble, no mask
\* is left between two calls and every address is at a port that has a link.
ExactInv ==
  /\ SwitchInv
  /\ state.linked \subseteq SwitchPorts /\ state.trouble \in Nat
  /\ state.trouble = 0 => /\ \A p \in SwitchPorts : state.masks[p] = {}
                          /\ Placed(state.table, state.linked)
  /\ state.is_table_dead => \A a \in Macs : ptr_get(state.table, a) = NoEntry
  /\ Idle \/ SwitchExact

\* switch_init
LEMMA ExactStart == switch_init => ExactInv
<1>. SUFFICES ASSUME switch_init PROVE ExactInv
  OBVIOUS
<1>1. /\ state.linked = {} /\ state.table = EmptyTable /\ state.trouble = 0 /\ state.is_table_dead = FALSE
      /\ \A p \in SwitchPorts : state.masks[p] = {}
  BY DEF switch_init
<1>2. SwitchInv /\ Idle
  BY SwitchStart DEF switch_init, Idle
<1>. QED
  BY <1>1, <1>2, EmptyFacts DEF ExactInv, Placed

\* insert_link
LEMMA ExactLink ==
  ASSUME ExactInv, NEW side \in Sides, switch_link(side)
  PROVE  ExactInv'
<1>1. PICK i \in 0 .. SwitchMax[side] - 1 : state' = [state EXCEPT !.linked = @ \cup {Port(side, i)}]
  BY Zenon DEF switch_link
<1>2. Port(side, i) \in SwitchPorts
  BY DEF SwitchPorts
<1>3. /\ state'.linked = state.linked \cup {Port(side, i)} /\ state'.table = state.table
      /\ state'.trouble = state.trouble /\ state'.masks = state.masks
      /\ state'.is_table_dead = state.is_table_dead /\ Idle'
  BY <1>1 DEF ExactInv, SwitchInv, IsSwitch, switch_link, Idle
<1>4. SwitchInv'
  BY SwitchLinks DEF ExactInv
<1>. QED
  BY <1>2, <1>3, <1>4 DEF ExactInv, Placed

\* do_unlink: an address that is left at the port is trouble.
LEMMA ExactUnlink ==
  ASSUME ExactInv, NEW port \in SwitchPorts, switch_unlink(port)
  PROVE  ExactInv'
<1>. DEFINE table == IF state.is_table_dead THEN state.table ELSE switch_unlink_notify(state.table, port)
            doomed == {mac \in Keys(state.table) : ptr_get(state.table, mac) = port}
            left == \E mac \in Keys(table) : ptr_get(table, mac) = port
            trouble == IF (~state.is_table_dead /\ left) /\ state.trouble = 0 THEN 1 ELSE state.trouble
<1>1. /\ state'.table = table /\ state'.linked = state.linked \ {port} /\ state'.masks = state.masks
      /\ state'.trouble = trouble /\ state'.is_table_dead = state.is_table_dead /\ Idle'
  <2>1. state' = [state EXCEPT !.linked = state.linked \ {port}, !.table = table, !.trouble = trouble]
    BY DEF switch_unlink
  <2>. HIDE DEF table, trouble
  <2>. QED
    BY <2>1, Zenon DEF ExactInv, SwitchInv, IsSwitch, switch_unlink, Idle
<1>2. SwitchInv'
  BY SwitchUnlinks DEF ExactInv
<1>3. CASE state.is_table_dead
  BY <1>1, <1>2, <1>3 DEF ExactInv, Placed
<1>4. CASE ~state.is_table_dead
  <2>1. /\ IsTable(table)
        /\ \A a \in Macs : \/ ptr_get(table, a) = ptr_get(state.table, a)
                           \/ a \in doomed /\ ptr_get(table, a) = NoEntry
    <3>1. IsTable(state.table) /\ doomed \subseteq Macs
      BY DEF ExactInv, SwitchInv, IsTable
    <3>. HIDE DEF doomed
    <3>2. table = ForeachTable(state.table, doomed)
      BY <1>4 DEF switch_unlink_notify, doomed
    <3>. QED
      BY <3>1, <3>2, ForeachGet
  <2>. HIDE DEF table, doomed
  <2>2. trouble \in Nat /\ (trouble = 0 => state.trouble = 0 /\ ~left)
    <3>. HIDE DEF left
    <3>. QED
      BY <1>4 DEF ExactInv
  <2>3. ASSUME trouble = 0, NEW a \in Macs PROVE ptr_get(table, a) \in (state.linked \ {port}) \cup {NoEntry}
    <3>1. ptr_get(table, a) \in state.linked \cup {NoEntry}
      BY <2>1, <2>2, <2>3 DEF ExactInv, Placed
    <3>2. ptr_get(table, a) # NoEntry => a \in Keys(table)
      <4>1. a = <<a[1], a[2]>>
        BY DEF Macs
      <4>. QED
        BY <4>1 DEF ptr_get, Keys, is_set, part1, part2
    <3>3. ptr_get(table, a) # port
      BY <2>2, <2>3, <3>2, SwitchAssumption
    <3>. QED
      BY <3>1, <3>3
  <2>. HIDE DEF trouble, left
  <2>. QED
    BY <1>1, <1>2, <1>4, <2>2, <2>3 DEF ExactInv, Placed
<1>. QED
  BY <1>3, <1>4

\* switch_burst that finds no memory.
LEMMA ExactLose ==
  ASSUME ExactInv, NEW from, NEW pkts, NEW mask, switch_burst_no_mem(from, pkts, mask)
  PROVE  ExactInv'
<1>1. /\ state'.table = EmptyTable /\ state'.linked = state.linked /\ state'.masks = state.masks
      /\ state'.trouble = state.trouble /\ call'.op = "no_mem"
  BY DEF switch_burst_no_mem, ExactInv, SwitchInv, IsSwitch
<1>2. SwitchInv'
  BY SwitchBurstLoses DEF ExactInv
<1>3. SwitchExact'
  BY <1>1 DEF SwitchExact, Burst
<1>4. Placed(EmptyTable, state.linked) /\ \A a \in Macs : ptr_get(EmptyTable, a) = NoEntry
  BY EmptyFacts DEF Placed
<1>. QED
  BY <1>1, <1>2, <1>3, <1>4 DEF ExactInv

\* The bursts of a plan for the masks of a burst without trouble: every port gets its
\* mask, and no other port has one.
LEMMA PlanSends ==
  ASSUME NEW masks, NEW plan, IsPlan(plan, masks), flood = state.linked, state.linked \subseteq SwitchPorts,
         \A p \in SwitchPorts : masks[p] # {} => p \in state.linked
  PROVE  \A p \in SwitchPorts :
           /\ UNION {b.mask : b \in {b \in Range(plan) : b.port = p}} = masks[p]
           /\ ~(\E b \in Range(plan) : b.port = p) => masks[p] = {}
<1>. SUFFICES ASSUME NEW p \in SwitchPorts
              PROVE  /\ UNION {b.mask : b \in {b \in Range(plan) : b.port = p}} = masks[p]
                     /\ ~(\E b \in Range(plan) : b.port = p) => masks[p] = {}
  OBVIOUS
<1>1. \A q, m : ToPort(q, m).port = q /\ ToPort(q, m).mask = m
  BY DEF ToPort
<1>2. \A b \in Range(plan) : b.port = p => b.mask = masks[p]
  BY <1>1 DEF IsPlan, Range
<1>3. CASE masks[p] = {}
  BY <1>2, <1>3
<1>4. CASE masks[p] # {}
  <2>1. PICK n \in DOMAIN plan : plan[n] = ToPort(p, masks[p])
    BY <1>4 DEF IsPlan
  <2>2. plan[n] \in Range(plan) /\ plan[n].port = p
    BY <1>1, <2>1 DEF Range
  <2>. QED
    BY <1>2, <2>2
<1>. QED
  BY <1>3, <1>4

\* switch_burst
LEMMA ExactBurst ==
  ASSUME ExactInv, NEW from \in SwitchPorts, NEW b \in SwitchBursts, switch_burst(from, b[1], b[2])
  PROVE  ExactInv'
<1>. DEFINE pkts == b[1]
            mask == b[2]
            Table(start) == Learnt(start, from, pkts, mask)
            Masks(start) == SwitchMasks(Table(start), from, pkts, mask)
            Plan(start) == forward_bursts(Masks(start))
            After(start, done) == [p \in SwitchPorts |-> IF \E d \in Range(done) : d.port = p THEN {} ELSE Masks(start)[p]]
            Trouble(n) == IF n > 0 \/ Hole \/ state.trouble > 0 THEN state.trouble + 1 ELSE state.trouble
<1>1. mask \in SUBSET Slots /\ \A s \in mask : pkts[s].src \in SwitchMacs /\ pkts[s].dst \in SwitchMacs \cup {Multicast, Filtered}
  BY DEF SwitchBursts, SwitchPackets
<1>2. PICK start \in TablesOf(pkts, mask) : \E n \in 0 .. Len(Plan(start)) :
        /\ sent' = Bursts(Plan(start), n)
        /\ state' = [state EXCEPT !.table = Table(start), !.is_table_dead = FALSE,
                                  !.masks = After(start, Bursts(Plan(start), n)), !.trouble = Trouble(n)]
        /\ call' = [op |-> "burst", from |-> from, pkts |-> pkts, mask |-> mask, ret |-> IF n = 0 THEN 0 ELSE -1]
  BY Zenon DEF switch_burst
<1>. HIDE DEF pkts, mask, Table, Masks, Plan, After
<1>3. PICK n \in Int :
        /\ n >= 0 /\ sent' = Bursts(Plan(start), n)
        /\ state'.table = Table(start) /\ state'.is_table_dead = FALSE /\ state'.linked = state.linked
        /\ state'.masks = After(start, Bursts(Plan(start), n)) /\ state'.trouble = Trouble(n)
        /\ call'.op = "burst" /\ call'.from = from /\ call'.pkts = pkts /\ call'.mask = mask
  <2>. HIDE DEF Trouble
  <2>. QED
    BY <1>2 DEF ExactInv, SwitchInv, IsSwitch
<1>4. SwitchInv'
  BY SwitchBurstLearns DEF ExactInv
<1>5. Trouble(n) \in Nat /\ (Trouble(n) = 0 => n = 0 /\ ~Hole /\ state.trouble = 0)
  BY <1>3 DEF ExactInv
<1>. HIDE DEF Trouble
<1>6. CASE Trouble(n) # 0
  BY <1>3, <1>4, <1>5, <1>6, Zenon DEF ExactInv, SwitchExact
<1>7. CASE Trouble(n) = 0
  <2>. DEFINE table == Table(start)
              masks == Masks(start)
              plan == Plan(start)
  <2>1. sent' = plan /\ state'.masks = After(start, plan) /\ ~Hole /\ state.linked \subseteq SwitchPorts
    BY <1>3, <1>5, <1>7 DEF Bursts, ExactInv
  <2>2. Placed(table, state.linked)
    <3>1. IsTable(start) /\ Placed(start, state.linked)
      BY <1>5, <1>7, EmptyFacts DEF TablesOf, ExactInv, SwitchInv, Placed
    <3>2. IsBurst(pkts, mask)
      BY <1>1, SwitchAssumption DEF IsBurst, Macs
    <3>3. LearntAt(table, start, from, pkts, mask)
      BY <3>1, <3>2, LearntGet DEF Table
    <3>4. from \in state.linked
      BY DEF switch_burst
    <3>. QED
      BY <3>1, <3>3, <3>4 DEF LearntAt, Placed
  <2>3. \A p \in SwitchPorts :
          masks[p] = IF p = from THEN {} ELSE {s \in mask : For(table, p, pkts[s].dst)}
    <3>1. ASSUME NEW p \in SwitchPorts, NEW s \in mask
          PROVE  p \in do_switch(table, pkts[s].dst) <=> For(table, p, pkts[s].dst)
      <4>. HIDE DEF table
      <4>. QED
        BY <1>1, <2>1, <2>2, SwitchedFor
    <3>2. \A p \in SwitchPorts : state.masks[p] = {}
      BY <1>5, <1>7 DEF ExactInv
    <3>3. \A p \in SwitchPorts :
            masks[p] = IF p = from THEN {} ELSE state.masks[p] \cup {s \in mask : p \in do_switch(table, pkts[s].dst)}
      BY DEF Masks, SwitchMasks
    <3>. HIDE DEF table, masks
    <3>. QED
      BY <3>1, <3>2, <3>3, Zenon
  <2>4. flood = state.linked
    BY <2>1, NoHole
  <2>5. IsPlan(plan, masks)
    BY <2>1, PlanFacts DEF Plan
  <2>. HIDE DEF masks, table, plan
  <2>6. \A p \in SwitchPorts : masks[p] # {} => p \in state.linked
    BY <2>3, Zenon DEF For
  <2>7. \A p \in SwitchPorts :
           /\ UNION {d.mask : d \in {d \in Range(plan) : d.port = p}} = masks[p]
           /\ ~(\E d \in Range(plan) : d.port = p) => masks[p] = {}
    BY <2>1, <2>4, <2>5, <2>6, PlanSends
  <2>8. \A p \in SwitchPorts : state'.masks[p] = {}
    BY <2>1, <2>7 DEF After, masks
  <2>9. \A l, m \in DOMAIN sent' : sent'[l].port = sent'[m].port => l = m
    BY <2>1, <2>5 DEF IsPlan
  <2>10. \A p \in SwitchPorts : SentOn(p)' = masks[p]
    BY <2>1, <2>7 DEF SentOn
  <2>11. \A p \in SwitchPorts :
           SentOn(p)' = IF p \notin state'.linked \/ p = call'.from THEN {}
                        ELSE {s \in call'.mask :
                                LET dst == call'.pkts[s].dst IN
                                \/ dst = Multicast
                                \/ /\ dst \in SwitchMacs
                                   /\ ptr_get(state'.table, dst) \in {NoEntry, p}}
    <3>1. table = state'.table
      BY <1>3 DEF table
    <3>2. ASSUME NEW p \in SwitchPorts, p \notin state.linked PROVE masks[p] = {}
      BY <2>6, <3>2
    <3>3. ASSUME NEW p \in SwitchPorts, p \in state.linked, p # from
          PROVE  masks[p] = {s \in mask : \/ pkts[s].dst = Multicast
                                          \/ /\ pkts[s].dst \in SwitchMacs
                                             /\ ptr_get(table, pkts[s].dst) \in {NoEntry, p}}
      BY <2>3, <3>3, Zenon DEF For
    <3>4. state'.linked = state.linked /\ call'.from = from /\ call'.pkts = pkts /\ call'.mask = mask
      BY <1>3
    <3>. TAKE p \in SwitchPorts
    <3>5. CASE p \notin state.linked
      BY <2>10, <3>2, <3>4, <3>5
    <3>6. CASE p = from
      BY <2>3, <2>10, <3>4, <3>6, Zenon
    <3>7. CASE p \in state.linked /\ p # from
      <4>1. SentOn(p)' = masks[p]
        BY <2>10
      <4>2. masks[p] = {s \in mask : \/ pkts[s].dst = Multicast
                                     \/ /\ pkts[s].dst \in SwitchMacs
                                        /\ ptr_get(state'.table, pkts[s].dst) \in {NoEntry, p}}
        BY <3>1, <3>3, <3>7
      <4>. QED
        BY <3>4, <3>7, <4>1, <4>2
    <3>. QED
      BY <3>5, <3>6, <3>7
  <2>12. SwitchExact'
    BY <2>8, <2>9, <2>11 DEF SwitchExact
  <2>. QED
    BY <1>3, <1>4, <1>5, <1>7, <2>1, <2>2, <2>8, <2>12 DEF ExactInv, table
<1>. QED
  BY <1>6, <1>7

\* No step leaves the invariant.
LEMMA ExactStep == ExactInv /\ [SwitchNext \/ Return]_dpvars => ExactInv'
<1>. SUFFICES ASSUME ExactInv, [SwitchNext \/ Return]_dpvars PROVE ExactInv'
  OBVIOUS
<1>1. CASE SwitchNext
  BY <1>1, ExactLink, ExactUnlink, ExactBurst, ExactLose DEF SwitchNext
<1>2. CASE Return
  BY <1>2 DEF Return, ExactInv, SwitchInv, Idle
<1>3. CASE UNCHANGED dpvars
  BY <1>3, Zenon DEF dpvars, ExactInv, SwitchInv, Idle, SwitchExact, SwitchOnly, Burst, SentOn
<1>. QED
  BY <1>1, <1>2, <1>3

\* As long as no neighbour failed, no burst found a hole among the links and no unlink
\* left an address behind, switch_burst gives every packet to the ports it is for, once,
\* and to no other, and leaves no mask for the next burst.
THEOREM SwitchIsExact == SwitchSpec => []SwitchExact
<1>1. ExactInv => SwitchExact
  BY DEF ExactInv, Idle, NoCall, SwitchExact, Burst
<1>. QED
  BY <1>1, ExactStart, ExactStep, PTL DEF SwitchSpec
=============================================================================
