---------------------------- MODULE QueueProofs -----------------------------
(***************************************************************************)
(* Proofs about the queue bricks, for any number of queues, packets and    *)
(* arrays: friends stay mutual, and while a brick does not fill again an   *)
(* array that a burst names (Reuse = FALSE) the reference counts are the   *)
(* numbers of holders and queue_poll sends on what was bursted.            *)
(***************************************************************************)
EXTENDS Queue, FiniteSetTheorems, TLAPS

-----------------------------------------------------------------------------
(* Counting.                                                               *)

\* Elements A of a finite set leave it and B, which it did not have, come in.
LEMMA Exchange ==
  ASSUME NEW H, IsFiniteSet(H), NEW A, A \subseteq H,
         NEW B, IsFiniteSet(B), B \cap (H \ A) = {}
  PROVE  /\ IsFiniteSet((H \ A) \cup B)
         /\ Cardinality((H \ A) \cup B) = Cardinality(H) - Cardinality(A) + Cardinality(B)
<1>1. IsFiniteSet(H \ A) /\ IsFiniteSet(A)
  BY FS_Subset
<1>2. Cardinality((H \ A) \cup A)
        = Cardinality(H \ A) + Cardinality(A) - Cardinality((H \ A) \cap A)
  BY <1>1, FS_Union
<1>3. (H \ A) \cup A = H /\ (H \ A) \cap A = {} /\ (H \ A) \cap B = {}
  OBVIOUS
<1>4. /\ IsFiniteSet((H \ A) \cup B)
      /\ Cardinality((H \ A) \cup B)
           = Cardinality(H \ A) + Cardinality(B) - Cardinality((H \ A) \cap B)
  BY <1>1, FS_Union
<1>5. /\ Cardinality(H \ A) \in Nat /\ Cardinality(A) \in Nat
      /\ Cardinality(B) \in Nat /\ Cardinality({}) = 0
  BY <1>1, FS_CardinalityType, FS_EmptySet
<1>6. Cardinality(H) = Cardinality(H \ A) + Cardinality(A) - Cardinality({})
  BY <1>2, <1>3, Zenon
<1>7. Cardinality((H \ A) \cup B) = Cardinality(H \ A) + Cardinality(B) - Cardinality({})
  BY <1>3, <1>4, Zenon
<1>8. Cardinality((H \ A) \cup B) = Cardinality(H) - Cardinality(A) + Cardinality(B)
  <2> DEFINE h == Cardinality(H)  c == Cardinality(H \ A)  a == Cardinality(A)
             b == Cardinality(B)  e == Cardinality({})  n == Cardinality((H \ A) \cup B)
  <2>1. h = c + a - e /\ n = c + b - e /\ c \in Nat /\ a \in Nat /\ b \in Nat /\ e = 0
    BY <1>5, <1>6, <1>7
  <2> HIDE DEF h, c, a, b, e, n
  <2>2. n = h - a + b
    BY <2>1
  <2> QED
    BY <2>2 DEF h, a, b, n
<1> QED
  BY <1>4, <1>8

\* The places of a sequence of bursts that hold packet p, and those places as
\* holders.
Where(s, p) == {k \in 1 .. Len(s) : s[k].pkt = p}
Row(q, S)   == {<<q, k>> : k \in S}

LEMMA WhereFinite ==
  ASSUME NEW s \in Seq(Bursts), NEW p
  PROVE  IsFiniteSet(Where(s, p)) /\ Cardinality(Where(s, p)) \in Nat
<1>1. Len(s) \in Nat
  OBVIOUS
<1>2. IsFiniteSet(1 .. Len(s))
  BY <1>1, FS_Interval
<1>3. Where(s, p) \in SUBSET (1 .. Len(s))
  BY DEF Where
<1>4. IsFiniteSet(Where(s, p))
  BY <1>2, <1>3, FS_Subset
<1> QED
  BY <1>4, FS_CardinalityType

LEMMA RowCount ==
  ASSUME NEW q, NEW S, IsFiniteSet(S)
  PROVE  IsFiniteSet(Row(q, S)) /\ Cardinality(Row(q, S)) = Cardinality(S)
<1> DEFINE f == [k \in S |-> <<q, k>>]
<1>1. f \in Bijection(S, Row(q, S))
  BY Zenon DEF Bijection, Injection, Surjection, IsInjective, Row
<1> QED
  BY <1>1, FS_Bijection DEF ExistsBijection

\* Taking the head of a sequence takes one place of its packet.
LEMMA TailCount ==
  ASSUME NEW s \in Seq(Bursts), s # <<>>, NEW p
  PROVE  Cardinality(Where(Tail(s), p))
           = Cardinality(Where(s, p)) - (IF Head(s).pkt = p THEN 1 ELSE 0)
<1> DEFINE S == Where(s, p) \ {1}
           T == Where(Tail(s), p)
           f == [k \in S |-> k - 1]
<1>1. /\ Len(s) \in Nat /\ Len(s) > 0
      /\ Tail(s) \in Seq(Bursts) /\ Len(Tail(s)) = Len(s) - 1
      /\ Head(s) = s[1]
      /\ \A k \in 1 .. Len(s) - 1 : Tail(s)[k] = s[k + 1]
  OBVIOUS
<1>2. f \in [S -> T]
  BY <1>1 DEF Where
<1>3. \A k, l \in S : f[k] = f[l] => k = l
  BY DEF Where
<1>4. ASSUME NEW t \in T PROVE \E k \in S : f[k] = t
  <2>1. t + 1 \in S /\ t = (t + 1) - 1
    BY <1>1 DEF Where
  <2> QED
    BY <2>1
<1>5. f \in Bijection(S, T)
  BY <1>2, <1>3, <1>4 DEF Bijection, Injection, Surjection, IsInjective
<1>6. IsFiniteSet(Where(s, p)) /\ Cardinality(Where(s, p)) \in Nat
  BY WhereFinite
<1>7. IsFiniteSet(S)
      /\ Cardinality(S) = IF 1 \in Where(s, p) THEN Cardinality(Where(s, p)) - 1
                          ELSE Cardinality(Where(s, p))
  BY <1>6, FS_RemoveElement
<1>8. Cardinality(T) = Cardinality(S)
  BY <1>5, <1>7, FS_Bijection DEF ExistsBijection
<1>9. 1 \in Where(s, p) <=> Head(s).pkt = p
  BY <1>1 DEF Where
<1> QED
  BY <1>6, <1>7, <1>8, <1>9

-----------------------------------------------------------------------------
(* Holders.                                                                *)

\* The pair of q and k holds packet p.
At(p, q, k) == k \in -1 .. Len(rx[q]) /\ Holds(p, q, k)

\* The reference count of p is the number of its holders.
Counted(p) == IsFiniteSet(Holders(p)) /\ refs[p] = Cardinality(Holders(p))

LEMMA Member ==
  ASSUME NEW p
  PROVE  /\ \A x : x \in Holders(p) <=> \E q \in Queues : \E k \in Int : x = <<q, k>> /\ At(p, q, k)
         /\ \A x : x \in Holders(p)' <=>
                     \E q \in Queues : \E k \in Int : x = <<q, k>> /\ At(p, q, k)'
<1>1. ASSUME NEW q \in Queues, NEW k
      PROVE  /\ k \in -1 .. Len(rx[q]) => k \in Int
             /\ k \in -1 .. Len(rx'[q]) => k \in Int
  OBVIOUS
<1>2. \A x : x \in Holders(p) <=> \E q \in Queues : \E k \in Int : x = <<q, k>> /\ At(p, q, k)
  <2> DEFINE C(q) == {<<q, k>> : k \in {j \in -1 .. Len(rx[q]) : Holds(p, q, j)}}
  <2>1. ASSUME NEW q \in Queues, NEW x
        PROVE  x \in C(q) <=> \E k \in Int : x = <<q, k>> /\ At(p, q, k)
    BY <1>1, Zenon DEF At
  <2>2. Holders(p) = UNION {C(q) : q \in Queues}
    BY DEF Holders
  <2> HIDE DEF C
  <2> QED
    BY <2>1, <2>2
<1>3. \A x : x \in Holders(p)' <=> \E q \in Queues : \E k \in Int : x = <<q, k>> /\ At(p, q, k)'
  <2> DEFINE C(q) == {<<q, k>> : k \in {j \in -1 .. Len(rx'[q]) : Holds(p, q, j)'}}
  <2>1. ASSUME NEW q \in Queues, NEW x
        PROVE  x \in C(q) <=> \E k \in Int : x = <<q, k>> /\ At(p, q, k)'
    BY <1>1, Zenon DEF At
  <2>2. Holders(p)' = UNION {C(q) : q \in Queues}
    BY DEF Holders
  <2> HIDE DEF C
  <2> QED
    BY <2>1, <2>2
<1> QED
  BY <1>2, <1>3

\* What a step does to the holders of p, holder by holder, carries the count on.
LEMMA Balanced ==
  ASSUME NEW p, Counted(p), NEW A, A \subseteq Holders(p), NEW B, IsFiniteSet(B),
         B \cap (Holders(p) \ A) = {},
         \A x \in B : \E q \in Queues : \E k \in Int : x = <<q, k>>,
         \A r \in Queues : \A k \in Int :
           At(p, r, k)' <=> (At(p, r, k) /\ <<r, k>> \notin A) \/ <<r, k>> \in B,
         refs'[p] = refs[p] - Cardinality(A) + Cardinality(B)
  PROVE  Counted(p)'
<1>1. ASSUME NEW x PROVE x \in Holders(p)' <=> x \in (Holders(p) \ A) \cup B
  <2>1. ASSUME NEW r \in Queues, NEW k \in Int, x = <<r, k>>
        PROVE  x \in Holders(p)' <=> x \in (Holders(p) \ A) \cup B
    <3>1. (x \in Holders(p) <=> At(p, r, k)) /\ (x \in Holders(p)' <=> At(p, r, k)')
      BY <2>1, Member
    <3>2. At(p, r, k)' <=> (At(p, r, k) /\ x \notin A) \/ x \in B
      BY <2>1
    <3> QED
      BY <3>1, <3>2
  <2>2. ASSUME ~\E r \in Queues : \E k \in Int : x = <<r, k>>
        PROVE  x \notin Holders(p)' /\ x \notin Holders(p) /\ x \notin B
    BY <2>2, Member
  <2> QED
    BY <2>1, <2>2
<1>2. Holders(p)' = (Holders(p) \ A) \cup B
  BY <1>1, Zenon
<1>3. /\ IsFiniteSet((Holders(p) \ A) \cup B)
      /\ Cardinality((Holders(p) \ A) \cup B)
           = Cardinality(Holders(p)) - Cardinality(A) + Cardinality(B)
  BY Exchange DEF Counted
<1> QED
  BY <1>2, <1>3 DEF Counted

\* A step that moves no holder and no reference keeps the count.
LEMMA Stays ==
  ASSUME NEW p, Counted(p), refs'[p] = refs[p],
         \A r \in Queues : \A k \in Int : At(p, r, k)' <=> At(p, r, k)
  PROVE  Counted(p)'
<1>1. \A x : x \in Holders(p)' <=> x \in Holders(p)
  BY Member, Zenon
<1>2. Holders(p)' = Holders(p)
  BY <1>1, Zenon
<1> QED
  BY <1>2 DEF Counted

\* A step gives a packet to one place more, or takes it from one place.
OneMore(p, q, j) ==
  /\ ~At(p, q, j)
  /\ \A r \in Queues : \A k \in Int : At(p, r, k)' <=> At(p, r, k) \/ (r = q /\ k = j)
OneLess(p, q, j) ==
  /\ At(p, q, j)
  /\ \A r \in Queues : \A k \in Int : At(p, r, k)' <=> At(p, r, k) /\ ~(r = q /\ k = j)

\* A reference more for a place more, and one less for one less.
LEMMA Adds ==
  ASSUME NEW p, Counted(p), NEW q \in Queues, NEW j \in Int, OneMore(p, q, j), refs'[p] = refs[p] + 1
  PROVE  Counted(p)'
<1> USE DEF OneMore
<1> DEFINE A == {}
           B == {<<q, j>>}
<1>1. IsFiniteSet(B) /\ Cardinality(B) = 1 /\ Cardinality(A) = 0
  BY FS_Singleton, FS_EmptySet, Zenon
<1>2. B \cap (Holders(p) \ A) = {}
  BY Member
<1>3. \A r \in Queues : \A k \in Int :
        At(p, r, k)' <=> (At(p, r, k) /\ <<r, k>> \notin A) \/ <<r, k>> \in B
  OBVIOUS
<1>4. refs'[p] = refs[p] - Cardinality(A) + Cardinality(B)
  <2>1. refs[p] \in Nat
    BY FS_CardinalityType DEF Counted
  <2> QED
    BY <1>1, <2>1
<1>5. \A x \in B : \E r \in Queues : \E k \in Int : x = <<r, k>>
  OBVIOUS
<1> HIDE DEF B
<1> QED
  BY <1>1, <1>2, <1>3, <1>4, <1>5, Balanced

LEMMA Drops ==
  ASSUME NEW p, Counted(p), NEW q \in Queues, NEW j \in Int, OneLess(p, q, j), refs'[p] = refs[p] - 1
  PROVE  Counted(p)'
<1> USE DEF OneLess
<1> DEFINE A == {<<q, j>>}
           B == {}
<1>1. IsFiniteSet(B) /\ Cardinality(A) = 1 /\ Cardinality(B) = 0
  BY FS_Singleton, FS_EmptySet, Zenon
<1>2. A \subseteq Holders(p)
  BY Member
<1>3. \A r \in Queues : \A k \in Int :
        At(p, r, k)' <=> (At(p, r, k) /\ <<r, k>> \notin A) \/ <<r, k>> \in B
  OBVIOUS
<1>4. refs'[p] = refs[p] - Cardinality(A) + Cardinality(B)
  <2>1. refs[p] \in Nat
    BY FS_CardinalityType DEF Counted
  <2> QED
    BY <1>1, <2>1
<1> HIDE DEF A
<1> QED
  BY <1>1, <1>2, <1>3, <1>4, Balanced

-----------------------------------------------------------------------------
(* The inductive invariant.                                                *)

\* TypeOK, with reference counts that could be negative.
Types ==
  /\ alive \subseteq Queues
  /\ friend \in [Queues -> Queues \cup {NoQueue}]
  /\ rx \in [Queues -> Seq(Bursts)]
  /\ content \in [Queues -> [1 .. Arrays -> Packets \cup {NoPacket}]]
  /\ refs \in [Packets -> Int]
  /\ pc \in [Queues -> {"nic", "check", "drop", "push", "release", "queue", "burst", "free"}]
  /\ array \in [Queues -> 1 .. Arrays]
  /\ hand \in [Queues -> Bursts \cup {NoBurst}]

\* A brick that bursts has a packet in its array.
Filled ==
  \A q \in Queues : pc[q] \in {"check", "drop", "push", "release"} => content[q][array[q]] \in Packets

\* queue_poll holds a burst between taking and freeing it, and only then.
InHand == \A q \in Queues : hand[q] # NoBurst <=> pc[q] \in {"burst", "free"}

\* The arrays that stored and taken bursts name hold what was bursted.
Intact(b) == content[b.from][b.array] = b.pkt
AllIntact ==
  /\ \A q \in Queues : \A k \in 1 .. Len(rx[q]) : Intact(rx[q][k])
  /\ \A q \in Queues : hand[q] # NoBurst => Intact(hand[q])

\* A queue that is not allocated holds no burst and is not polled.
GoneEmpty == \A q \in Queues : q \notin alive => rx[q] = <<>> /\ pc[q] = "nic"

HolderInv ==
  /\ Types /\ Filled /\ InHand /\ AllIntact /\ GoneEmpty
  /\ \A p \in Packets : Counted(p)

\* No packet is held before the first call.
LEMMA HolderInit == Init => HolderInv
<1> SUFFICES ASSUME Init PROVE HolderInv
  OBVIOUS
<1>1. Types /\ Filled /\ InHand /\ AllIntact /\ GoneEmpty
  BY QueueAssumption DEF Init, Types, Filled, InHand, AllIntact, GoneEmpty
<1>2. ASSUME NEW p \in Packets PROVE Counted(p)
  <2>1. ASSUME NEW q \in Queues, NEW k \in Int PROVE ~At(p, q, k)
    BY QueueAssumption DEF Init, At, Holds, NoBurst
  <2>2. Holders(p) = {}
    BY <2>1, Member, Zenon
  <2> QED
    BY <2>2, FS_EmptySet DEF Init, Counted
<1> QED
  BY <1>1, <1>2 DEF HolderInv

-----------------------------------------------------------------------------
(* Steps.                                                                  *)

\* The places empty counts are those of the packet that was bursted.
LEMMA EmptyPlaces ==
  ASSUME Types, AllIntact, NEW q \in Queues, NEW p
  PROVE  BurstsOf(q, p) = Where(rx[q], p)
BY DEF AllIntact, Intact, Where, BurstsOf

LEMMA EmptyTypes ==
  ASSUME Types, AllIntact, NEW q \in Queues, empty(q)
  PROVE  rx' \in [Queues -> Seq(Bursts)] /\ refs' \in [Packets -> Int]
<1>1. rx' \in [Queues -> Seq(Bursts)]
  BY DEF Types, empty
<1>2. ASSUME NEW p \in Packets
      PROVE  refs[p] - Cardinality(BurstsOf(q, p)) \in Int
  <2>1. Cardinality(Where(rx[q], p)) \in Nat
    BY WhereFinite DEF Types
  <2>2. refs[p] \in Int
    BY DEF Types
  <2>3. BurstsOf(q, p) = Where(rx[q], p)
    BY EmptyPlaces
  <2> QED
    BY <2>1, <2>2, <2>3
<1>3. refs' \in [Packets -> Int]
  BY <1>2, Zenon DEF empty
<1> QED
  BY <1>1, <1>3

LEMMA RefTypes ==
  ASSUME Types, NEW c
  PROVE  /\ [refs EXCEPT ![c] = @ - 1] \in [Packets -> Int]
         /\ [refs EXCEPT ![c] = @ + 1] \in [Packets -> Int]
<1>1. CASE c \in Packets
  <2>1. refs[c] \in Int
    BY <1>1 DEF Types
  <2>2. refs[c] - 1 \in Int /\ refs[c] + 1 \in Int
    BY <2>1
  <2> QED
    BY <2>2, Zenon DEF Types
<1>2. CASE c \notin Packets
  BY <1>2, Zenon DEF Types
<1> QED
  BY <1>1, <1>2

\* What is taken out of the rx of r, and what stays.
LEMMA PopTypes ==
  ASSUME Types, NEW r \in Queues, rx[r] # <<>>
  PROVE  /\ Head(rx[r]) \in Bursts /\ Head(rx[r]) = rx[r][1]
         /\ Len(rx[r]) \in Nat /\ Len(rx[r]) > 0
         /\ [rx EXCEPT ![r] = Tail(@)] \in [Queues -> Seq(Bursts)]
<1>1. rx[r] \in Seq(Bursts)
  BY DEF Types
<1>2. /\ Head(rx[r]) \in Bursts /\ Head(rx[r]) = rx[r][1]
      /\ Len(rx[r]) \in Nat /\ Len(rx[r]) > 0
      /\ Tail(rx[r]) \in Seq(Bursts)
  BY <1>1
<1> QED
  BY <1>2 DEF Types

LEMMA UnfriendTypes ==
  ASSUME Types, NEW q \in Queues, unfriend(q)
  PROVE  friend' \in [Queues -> Queues \cup {NoQueue}]
BY Zenon DEF Types, unfriend

\* A step keeps the types of the variables.
LEMMA TypeStep ==
  ASSUME Types, Filled, InHand, AllIntact, [Next]_vars
  PROVE  Types'
<1>1. CASE UNCHANGED vars
  BY <1>1 DEF Types, vars
<1>2. ASSUME NEW q \in Queues, PollNic(q) PROVE Types'
  <2>1. PICK a \in 1 .. Arrays, p \in Packets :
          /\ content' = [content EXCEPT ![q] = [b \in 1 .. Arrays |->
               IF b = a THEN p ELSE IF Unused(q, b) THEN NoPacket ELSE @[b]]]
          /\ refs' = [refs EXCEPT ![p] = 1]
          /\ array' = [array EXCEPT ![q] = a]
    BY <1>2, Zenon DEF PollNic
  <2>2. content' \in [Queues -> [1 .. Arrays -> Packets \cup {NoPacket}]]
    BY <2>1, Zenon DEF Types
  <2>3. refs' \in [Packets -> Int] /\ array' \in [Queues -> 1 .. Arrays]
    BY <2>1 DEF Types
  <2> QED
    BY <1>2, <2>2, <2>3 DEF PollNic, Types
<1>3. ASSUME NEW q \in Queues, PollNicNone(q) PROVE Types'
  BY <1>3 DEF PollNicNone, Types
<1>4. ASSUME NEW q \in Queues, BurstCheck(q) PROVE Types'
  <2>1. pc' \in [Queues -> {"nic", "check", "drop", "push", "release", "queue", "burst", "free"}]
    BY <1>4 DEF BurstCheck, Types
  <2> QED
    BY <1>4, <2>1 DEF BurstCheck, Types
<1>5. ASSUME NEW q \in Queues, BurstDrop(q) PROVE Types'
  <2>1. rx' \in [Queues -> Seq(Bursts)]
    BY <1>5, PopTypes, Zenon DEF BurstDrop, Types
  <2>2. refs' \in [Packets -> Int]
    <3>1. CASE rx[q] = <<>>
      BY <1>5, <3>1 DEF BurstDrop, Types
    <3>2. CASE rx[q] # <<>>
      <4>1. refs' = [refs EXCEPT ![content[Head(rx[q]).from][Head(rx[q]).array]] = @ - 1]
        BY <1>5, <3>2, Zenon DEF BurstDrop, Free
      <4> QED
        BY <4>1, RefTypes
    <3> QED
      BY <3>1, <3>2
  <2> QED
    BY <1>5, <2>1, <2>2, Zenon DEF BurstDrop, Types
<1>6. ASSUME NEW q \in Queues, BurstPush(q) PROVE Types'
  <2>1. [from |-> q, array |-> array[q], pkt |-> content[q][array[q]]] \in Bursts
    BY <1>6 DEF BurstPush, Filled, Types, Bursts
  <2>2. rx' \in [Queues -> Seq(Bursts)]
    BY <1>6, <2>1 DEF BurstPush, Types
  <2>3. refs' \in [Packets -> Int]
    BY <1>6, RefTypes DEF BurstPush, Incref
  <2> QED
    BY <1>6, <2>2, <2>3 DEF BurstPush, Types
<1>7. ASSUME NEW q \in Queues, Release(q) PROVE Types'
  <2>1. refs' \in [Packets -> Int]
    BY <1>7, RefTypes DEF Release, Free
  <2> QED
    BY <1>7, <2>1 DEF Release, Types
<1>8. ASSUME NEW q \in Queues, PollPop(q) PROVE Types'
  <2>1. friend[q] \in Queues /\ rx[friend[q]] # <<>>
    BY <1>8 DEF PollPop, HasBurst, Types
  <2>2. Head(rx[friend[q]]) \in Bursts /\ rx' \in [Queues -> Seq(Bursts)]
    BY <1>8, <2>1, PopTypes DEF PollPop
  <2> QED
    BY <1>8, <2>2 DEF PollPop, Types
<1>9. ASSUME NEW q \in Queues, PollNothing(q) PROVE Types'
  BY <1>9 DEF PollNothing, Types
<1>10. ASSUME NEW q \in Queues, PollBurst(q) PROVE Types'
  BY <1>10 DEF PollBurst, Types
<1>11. ASSUME NEW q \in Queues, PollFree(q) PROVE Types'
  <2>1. refs' \in [Packets -> Int]
    BY <1>11, RefTypes DEF PollFree, Free
  <2> QED
    BY <1>11, <2>1 DEF PollFree, Types
<1>12. ASSUME NEW q \in Queues, pg_queue_new(q) PROVE Types'
  BY <1>12 DEF pg_queue_new, Types
<1>13. ASSUME NEW q \in Queues, pg_queue_unfriend(q) PROVE Types'
  BY <1>13, UnfriendTypes DEF pg_queue_unfriend, Types
<1>14. ASSUME NEW q \in Queues, queue_reset(q) PROVE Types'
  BY <1>14, UnfriendTypes, EmptyTypes DEF queue_reset, Types
<1>15. ASSUME NEW q \in Queues, queue_destroy(q) PROVE Types'
  BY <1>15, UnfriendTypes, EmptyTypes DEF queue_destroy, Types
<1>16. ASSUME NEW q \in Queues, NEW r \in Queues, pg_queue_friend(q, r) PROVE Types'
  BY <1>16, Zenon DEF pg_queue_friend, Types
<1> QED
  BY <1>1, <1>2, <1>3, <1>4, <1>5, <1>6, <1>7, <1>8, <1>9, <1>10, <1>11, <1>12, <1>13, <1>14,
     <1>15, <1>16 DEF Next, Thread

LEMMA TailIntact ==
  ASSUME Types, NEW q \in Queues, rx[q] # <<>>,
         \A r \in Queues : \A k \in 1 .. Len(rx[r]) : Intact(rx[r][k]),
         rx' = [rx EXCEPT ![q] = Tail(@)], content' = content
  PROVE  (\A r \in Queues : \A k \in 1 .. Len(rx[r]) : Intact(rx[r][k]))'
<1>1. rx[q] \in Seq(Bursts)
  BY DEF Types
<1>2. \A k \in 1 .. Len(Tail(rx[q])) : k + 1 \in 1 .. Len(rx[q]) /\ Tail(rx[q])[k] = rx[q][k + 1]
  BY <1>1
<1>3. \A k \in 1 .. Len(Tail(rx[q])) : Intact(Tail(rx[q])[k])
  BY <1>2
<1>4. rx'[q] = Tail(rx[q]) /\ \A r \in Queues \ {q} : rx'[r] = rx[r]
  BY DEF Types
<1>5. ASSUME NEW r \in Queues, NEW k \in 1 .. Len(rx'[r])
      PROVE  content'[rx'[r][k].from][rx'[r][k].array] = rx'[r][k].pkt
  <2>1. CASE r = q
    BY <1>3, <1>4, <1>5, <2>1 DEF Intact
  <2>2. CASE r # q
    BY <1>4, <1>5, <2>2 DEF Intact
  <2> QED
    BY <2>1, <2>2
<1> QED
  BY <1>5 DEF Intact

Sending == {"check", "drop", "push", "release"}
Polled  == {"burst", "free"}

\* A step that only moves the thread of q.
LEMMA OnlyPc ==
  ASSUME Filled, InHand, AllIntact, GoneEmpty, NEW q \in Queues, q \in alive,
         UNCHANGED <<alive, rx, content, array, hand>>,
         \A r \in Queues \ {q} : pc'[r] = pc[r],
         pc'[q] \in Sending => pc[q] \in Sending, pc'[q] \in Polled <=> pc[q] \in Polled
  PROVE  Filled' /\ InHand' /\ AllIntact' /\ GoneEmpty'
<1>1. Filled'
  BY DEF Filled, Sending
<1>2. InHand'
  BY DEF InHand, Polled
<1>3. AllIntact'
  BY DEF AllIntact, Intact
<1>4. GoneEmpty'
  BY DEF GoneEmpty
<1> QED
  BY <1>1, <1>2, <1>3, <1>4

\* A call of the application, that may empty the rx of q.
LEMMA OnlyRx ==
  ASSUME Types, Filled, InHand, AllIntact, NEW q \in Queues,
         UNCHANGED <<content, pc, array, hand>>,
         rx' = rx \/ rx' = [rx EXCEPT ![q] = <<>>]
  PROVE  Filled' /\ InHand' /\ AllIntact'
<1>1. Filled' /\ InHand'
  BY DEF Filled, InHand
<1>2. \A r \in Queues : rx'[r] = rx[r] \/ rx'[r] = <<>>
  BY DEF Types
<1>3. \A r \in Queues : \A k \in 1 .. Len(rx'[r]) : rx'[r] = rx[r]
  BY <1>2
<1>4. AllIntact'
  BY <1>3 DEF AllIntact, Intact
<1> QED
  BY <1>1, <1>4

\* A thread that is somewhere polls a queue that is allocated.
LEMMA PolledAlive ==
  ASSUME GoneEmpty, NEW q \in Queues, pc[q] # "nic"
  PROVE  q \in alive
BY DEF GoneEmpty

\* queue_poll takes the oldest burst of its friend: the one it has is intact.
LEMMA PopShape ==
  ASSUME Types, Filled, InHand, AllIntact, GoneEmpty, NEW q \in Queues, PollPop(q)
  PROVE  Filled' /\ InHand' /\ AllIntact' /\ GoneEmpty'
<1> DEFINE f == friend[q]
           h == Head(rx[f])
<1>1. /\ pc[q] = "queue" /\ f \in Queues /\ rx[f] # <<>>
      /\ rx' = [rx EXCEPT ![f] = Tail(@)] /\ UNCHANGED <<alive, content, array>>
  BY DEF PollPop, HasBurst, Types
<1>2. /\ pc'[q] = "burst" /\ hand'[q] = h
      /\ \A r \in Queues \ {q} : pc'[r] = pc[r] /\ hand'[r] = hand[r]
  BY DEF PollPop, Types
<1>3. h \in Bursts /\ h = rx[f][1] /\ 1 \in 1 .. Len(rx[f])
  BY <1>1, PopTypes
<1>4. h # NoBurst
  BY <1>3, QueueAssumption DEF Bursts, NoBurst
<1>5. q \in alive /\ f \in alive /\ \A r \in Queues \ {f} : rx'[r] = rx[r]
  BY <1>1 DEF GoneEmpty, Types
<1>6. Intact(h)
  BY <1>1, <1>3 DEF AllIntact
<1>7. (\A r \in Queues : \A k \in 1 .. Len(rx[r]) : Intact(rx[r][k]))'
  BY <1>1, TailIntact, Zenon DEF AllIntact
<1> HIDE DEF f, h
<1>8. Filled'
  BY <1>1, <1>2 DEF Filled
<1>9. InHand'
  BY <1>1, <1>2, <1>4 DEF InHand
<1>10. ASSUME NEW r \in Queues, hand'[r] # NoBurst
       PROVE  content'[hand'[r].from][hand'[r].array] = hand'[r].pkt
  <2>1. CASE r = q
    BY <1>1, <1>2, <1>6, <2>1 DEF Intact
  <2>2. CASE r # q
    BY <1>1, <1>2, <1>10, <2>2 DEF AllIntact, Intact
  <2> QED
    BY <2>1, <2>2
<1>11. AllIntact'
  BY <1>7, <1>10 DEF AllIntact, Intact
<1>12. GoneEmpty'
  BY <1>1, <1>2, <1>5 DEF GoneEmpty
<1> QED
  BY <1>8, <1>9, <1>11, <1>12

\* queue_burst throws away the oldest burst.
LEMMA DropShape ==
  ASSUME Types, Filled, InHand, AllIntact, GoneEmpty, NEW q \in Queues, BurstDrop(q)
  PROVE  Filled' /\ InHand' /\ AllIntact' /\ GoneEmpty'
<1>1. /\ pc[q] = "drop" /\ pc'[q] = "push" /\ \A r \in Queues \ {q} : pc'[r] = pc[r]
      /\ UNCHANGED <<alive, content, array, hand>>
  BY DEF BurstDrop, Types
<1>2. q \in alive
  BY <1>1, PolledAlive
<1>3. Filled'
  BY <1>1 DEF Filled
<1>4. InHand'
  BY <1>1 DEF InHand
<1>5. CASE rx[q] = <<>>
  <2>1. rx' = rx
    BY <1>5 DEF BurstDrop
  <2> QED
    BY <1>1, <1>2, <2>1, OnlyPc DEF Sending, Polled
<1>6. CASE rx[q] # <<>>
  <2>1. rx' = [rx EXCEPT ![q] = Tail(@)]
    BY <1>6 DEF BurstDrop
  <2>2. \A r \in Queues \ {q} : rx'[r] = rx[r]
    BY <2>1 DEF Types
  <2>3. GoneEmpty'
    BY <1>1, <1>2, <2>2 DEF GoneEmpty
  <2>4. (\A r \in Queues : \A k \in 1 .. Len(rx[r]) : Intact(rx[r][k]))'
    BY <1>1, <1>6, <2>1, TailIntact, Zenon DEF AllIntact
  <2>5. AllIntact'
    BY <1>1, <2>4 DEF AllIntact, Intact
  <2> QED
    BY <1>3, <1>4, <2>3, <2>5
<1> QED
  BY <1>5, <1>6

\* queue_burst stores the array that is bursted, which holds a packet.
LEMMA PushShape ==
  ASSUME Types, Filled, InHand, AllIntact, GoneEmpty, NEW q \in Queues, BurstPush(q)
  PROVE  Filled' /\ InHand' /\ AllIntact' /\ GoneEmpty'
<1> DEFINE b == [from |-> q, array |-> array[q], pkt |-> content[q][array[q]]]
<1>1. /\ pc[q] = "push" /\ pc'[q] = "release" /\ \A r \in Queues \ {q} : pc'[r] = pc[r]
      /\ UNCHANGED <<alive, content, array, hand>>
  BY DEF BurstPush, Types
<1>2. rx' = [rx EXCEPT ![q] = Append(@, b)]
  BY DEF BurstPush
<1>3. q \in alive
  BY <1>1, PolledAlive
<1>4. b \in Bursts /\ Intact(b)
  BY <1>1 DEF Filled, Types, Bursts, Intact
<1> HIDE DEF b
<1>5. /\ \A r \in Queues \ {q} : rx'[r] = rx[r]
      /\ rx'[q] = Append(rx[q], b) /\ rx[q] \in Seq(Bursts)
  BY <1>2 DEF Types
<1>6. \A k \in 1 .. Len(rx'[q]) : (k \in 1 .. Len(rx[q]) /\ rx'[q][k] = rx[q][k]) \/ rx'[q][k] = b
  BY <1>4, <1>5
<1>7. Filled'
  BY <1>1 DEF Filled
<1>8. InHand'
  BY <1>1 DEF InHand
<1>9. ASSUME NEW r \in Queues, NEW k \in 1 .. Len(rx'[r])
      PROVE  content'[rx'[r][k].from][rx'[r][k].array] = rx'[r][k].pkt
  <2>1. CASE r = q
    BY <1>1, <1>4, <1>6, <1>9, <2>1 DEF AllIntact, Intact
  <2>2. CASE r # q
    BY <1>1, <1>5, <1>9, <2>2 DEF AllIntact, Intact
  <2> QED
    BY <2>1, <2>2
<1>10. AllIntact'
  BY <1>1, <1>9 DEF AllIntact, Intact
<1>11. GoneEmpty'
  BY <1>1, <1>3, <1>5 DEF GoneEmpty
<1> QED
  BY <1>7, <1>8, <1>10, <1>11

\* The brick fills an array that no burst names.
LEMMA NicShape ==
  ASSUME Reuse = FALSE, Types, Filled, InHand, AllIntact, GoneEmpty, NEW q \in Queues, PollNic(q)
  PROVE  Filled' /\ InHand' /\ AllIntact' /\ GoneEmpty'
<1>1. PICK a \in 1 .. Arrays, p \in Packets :
        /\ Unused(q, a)
        /\ content' = [content EXCEPT ![q] = [b \in 1 .. Arrays |->
             IF b = a THEN p ELSE IF Unused(q, b) THEN NoPacket ELSE @[b]]]
        /\ array' = [array EXCEPT ![q] = a]
  BY Zenon DEF PollNic
<1>2. /\ q \in alive /\ pc[q] = "nic" /\ pc'[q] = "check"
      /\ \A r \in Queues \ {q} : pc'[r] = pc[r]
      /\ UNCHANGED <<alive, rx, hand>>
  BY DEF PollNic, Types
<1>3. content'[q][a] = p /\ array'[q] = a
  BY <1>1 DEF Types
<1>4. \A r \in Queues \ {q} : content'[r] = content[r] /\ array'[r] = array[r]
  BY <1>1 DEF Types
<1>5. \A b \in 1 .. Arrays : ~Unused(q, b) => content'[q][b] = content[q][b]
  BY <1>1 DEF Types
<1>6. Filled'
  BY <1>2, <1>3, <1>4 DEF Filled
<1>7. InHand'
  BY <1>2 DEF InHand
<1>8. GoneEmpty'
  BY <1>2 DEF GoneEmpty
<1>9. ASSUME NEW b \in Bursts, Intact(b), b.from = q => ~Unused(q, b.array)
      PROVE  content'[b.from][b.array] = b.pkt
  <2>1. b.from \in Queues /\ b.array \in 1 .. Arrays
    BY DEF Bursts
  <2> QED
    BY <1>4, <1>5, <1>9, <2>1 DEF Intact
<1>10. ASSUME NEW r \in Queues, NEW k \in 1 .. Len(rx[r])
       PROVE  content'[rx[r][k].from][rx[r][k].array] = rx[r][k].pkt
  <2>1. rx[r][k] \in Bursts
    BY DEF Types
  <2>2. Intact(rx[r][k])
    BY DEF AllIntact
  <2>3. rx[r][k].from = q => ~Unused(q, rx[r][k].array)
    BY DEF Unused
  <2> QED
    BY <1>9, <2>1, <2>2, <2>3
<1>11. ASSUME NEW r \in Queues, hand[r] # NoBurst
       PROVE  content'[hand[r].from][hand[r].array] = hand[r].pkt
  <2>1. hand[r] \in Bursts
    BY <1>11 DEF Types
  <2>2. Intact(hand[r])
    BY <1>11 DEF AllIntact
  <2>3. hand[r].from = q => ~Unused(q, hand[r].array)
    BY DEF Unused
  <2> QED
    BY <1>9, <2>1, <2>2, <2>3
<1>12. AllIntact'
  BY <1>2, <1>10, <1>11 DEF AllIntact, Intact
<1> QED
  BY <1>6, <1>7, <1>8, <1>12

\* queue_poll has freed the burst it had.
LEMMA FreeShape ==
  ASSUME Types, Filled, InHand, AllIntact, GoneEmpty, NEW q \in Queues, PollFree(q)
  PROVE  Filled' /\ InHand' /\ AllIntact' /\ GoneEmpty'
<1>1. /\ pc[q] = "free" /\ pc'[q] = "nic" /\ hand'[q] = NoBurst
      /\ \A r \in Queues \ {q} : pc'[r] = pc[r] /\ hand'[r] = hand[r]
      /\ UNCHANGED <<alive, rx, content, array>>
  BY DEF PollFree, Types
<1>2. Filled'
  BY <1>1 DEF Filled
<1>3. InHand'
  BY <1>1 DEF InHand
<1>4. AllIntact'
  BY <1>1 DEF AllIntact, Intact
<1>5. GoneEmpty'
  BY <1>1 DEF GoneEmpty
<1> QED
  BY <1>2, <1>3, <1>4, <1>5

\* A step leaves an array that a burst names as it is, when arrays are not reused,
\* and takes from a queue or adds to it at the right end.
LEMMA ShapeStep ==
  ASSUME Reuse = FALSE, Types, Filled, InHand, AllIntact, GoneEmpty, [Next]_vars
  PROVE  Filled' /\ InHand' /\ AllIntact' /\ GoneEmpty'
<1> DEFINE Shape == Filled /\ InHand /\ AllIntact /\ GoneEmpty
<1>1. CASE UNCHANGED vars
  <2>1. UNCHANGED <<alive, rx, content, pc, array, hand>>
    BY <1>1 DEF vars
  <2> QED
    BY <2>1 DEF Filled, InHand, AllIntact, Intact, GoneEmpty
<1>2. ASSUME NEW q \in Queues, PollNic(q) PROVE Shape'
  BY <1>2, NicShape, Zenon
<1>3. ASSUME NEW q \in Queues, PollNicNone(q) \/ PollNothing(q) \/ Release(q) \/ PollBurst(q)
      PROVE  Shape'
  <2>1. /\ UNCHANGED <<alive, rx, content, array, hand>>
        /\ \A r \in Queues \ {q} : pc'[r] = pc[r]
        /\ \/ pc[q] = "nic" /\ q \in alive /\ pc'[q] = "queue"
           \/ pc[q] = "queue" /\ pc'[q] = "nic"
           \/ pc[q] = "release" /\ pc'[q] = "queue"
           \/ pc[q] = "burst" /\ pc'[q] = "free"
    BY <1>3 DEF PollNicNone, PollNothing, Release, PollBurst, Types
  <2>2. q \in alive
    BY <2>1, PolledAlive
  <2>3. (pc'[q] \in Sending => pc[q] \in Sending) /\ (pc'[q] \in Polled <=> pc[q] \in Polled)
    BY <2>1 DEF Sending, Polled
  <2> QED
    BY <2>1, <2>2, <2>3, OnlyPc
<1>4. ASSUME NEW q \in Queues, BurstCheck(q) PROVE Shape'
  <2>1. /\ pc[q] = "check" /\ \A r \in Queues \ {q} : pc'[r] = pc[r]
        /\ pc'[q] \in {"drop", "push"}
        /\ UNCHANGED <<alive, rx, content, array, hand>>
    BY <1>4 DEF BurstCheck, Types
  <2>2. q \in alive
    BY <2>1, PolledAlive
  <2>3. (pc'[q] \in Sending => pc[q] \in Sending) /\ (pc'[q] \in Polled <=> pc[q] \in Polled)
    BY <2>1 DEF Sending, Polled
  <2> QED
    BY <2>1, <2>2, <2>3, OnlyPc
<1>5. ASSUME NEW q \in Queues, BurstDrop(q) PROVE Shape'
  BY <1>5, DropShape
<1>6. ASSUME NEW q \in Queues, BurstPush(q) PROVE Shape'
  BY <1>6, PushShape
<1>7. ASSUME NEW q \in Queues, PollPop(q) PROVE Shape'
  BY <1>7, PopShape
<1>8. ASSUME NEW q \in Queues, PollFree(q) PROVE Shape'
  BY <1>8, FreeShape
<1>9. ASSUME NEW q \in Queues, pg_queue_new(q) PROVE Shape'
  <2>1. /\ UNCHANGED <<content, pc, array, hand>> /\ rx' = [rx EXCEPT ![q] = <<>>]
        /\ alive' = alive \cup {q} /\ q \notin alive
    BY <1>9 DEF pg_queue_new
  <2>2. \A r \in Queues : rx'[r] = rx[r] \/ rx'[r] = <<>>
    BY <2>1 DEF Types
  <2>3. GoneEmpty'
    BY <2>1, <2>2 DEF GoneEmpty
  <2> QED
    BY <2>1, <2>3, OnlyRx, Zenon
<1>10. ASSUME NEW q \in Queues, queue_reset(q) \/ queue_destroy(q) PROVE Shape'
  <2>1. /\ UNCHANGED <<content, pc, array, hand>> /\ rx' = [rx EXCEPT ![q] = <<>>]
        /\ alive' = alive \/ alive' = alive \ {q}
        /\ \A r \in Queues : pc[r] = "nic"
    BY <1>10 DEF queue_reset, queue_destroy, empty, Stopped
  <2>2. rx'[q] = <<>> /\ \A r \in Queues : rx'[r] = rx[r] \/ rx'[r] = <<>>
    BY <2>1 DEF Types
  <2>3. GoneEmpty'
    BY <2>1, <2>2 DEF GoneEmpty
  <2> QED
    BY <2>1, <2>3, OnlyRx, Zenon
<1>11. ASSUME NEW q \in Queues, NEW r \in Queues, pg_queue_unfriend(q) \/ pg_queue_friend(q, r)
       PROVE  Shape'
  <2>1. UNCHANGED <<alive, rx, content, pc, array, hand>>
    BY <1>11 DEF pg_queue_unfriend, pg_queue_friend
  <2>2. GoneEmpty'
    BY <2>1 DEF GoneEmpty
  <2> QED
    BY <2>1, <2>2, OnlyRx
<1> QED
  BY <1>1, <1>2, <1>3, <1>4, <1>5, <1>6, <1>7, <1>8, <1>9, <1>10, <1>11 DEF Next, Thread

\* Taking the oldest burst of r: the places of its packet move down, and one goes.
LEMMA PopPlaces ==
  ASSUME Types, Types', NEW r \in Queues, rx[r] # <<>>, rx' = [rx EXCEPT ![r] = Tail(@)], NEW p
  PROVE  /\ IsFiniteSet(Row(r, Where(rx[r], p))) /\ IsFiniteSet(Row(r, Where(Tail(rx[r]), p)))
         /\ Cardinality(Row(r, Where(rx[r], p))) \in Nat
         /\ Cardinality(Row(r, Where(Tail(rx[r]), p)))
              = Cardinality(Row(r, Where(rx[r], p))) - (IF Head(rx[r]).pkt = p THEN 1 ELSE 0)
         /\ Row(r, Where(rx[r], p)) \subseteq Holders(p)
         /\ \A x \in Row(r, Where(Tail(rx[r]), p)) : \E q \in Queues : \E k \in Int : x = <<q, k>>
         /\ Row(r, Where(Tail(rx[r]), p)) \cap (Holders(p) \ Row(r, Where(rx[r], p))) = {}
         /\ \A q \in Queues : \A k \in Int : k > 0 =>
              (At(p, q, k)' <=> \/ At(p, q, k) /\ <<q, k>> \notin Row(r, Where(rx[r], p))
                                \/ <<q, k>> \in Row(r, Where(Tail(rx[r]), p)))
         /\ \A q \in Queues : \A k \in Int : k <= 0 =>
              /\ <<q, k>> \notin Row(r, Where(rx[r], p))
              /\ <<q, k>> \notin Row(r, Where(Tail(rx[r]), p))
<1>1. /\ rx[r] \in Seq(Bursts) /\ Len(rx[r]) \in Nat /\ Tail(rx[r]) \in Seq(Bursts)
      /\ Len(Tail(rx[r])) = Len(rx[r]) - 1
      /\ rx'[r] = Tail(rx[r]) /\ \A q \in Queues \ {r} : rx'[q] = rx[q]
      /\ \A q \in Queues : Len(rx[q]) \in Nat /\ Len(rx'[q]) \in Nat
  BY DEF Types
<1> DEFINE S == Where(rx[r], p)
           T == Where(Tail(rx[r]), p)
<1>2. IsFiniteSet(S) /\ IsFiniteSet(T) /\ Cardinality(S) \in Nat
  BY <1>1, WhereFinite, Zenon
<1>3. Cardinality(T) = Cardinality(S) - (IF Head(rx[r]).pkt = p THEN 1 ELSE 0)
  BY <1>1, TailCount
<1>4. /\ IsFiniteSet(Row(r, S)) /\ IsFiniteSet(Row(r, T))
      /\ Cardinality(Row(r, S)) = Cardinality(S) /\ Cardinality(Row(r, T)) = Cardinality(T)
  BY <1>2, RowCount
<1>5. \A q, k : (<<q, k>> \in Row(r, S) <=> q = r /\ k \in S)
                /\ (<<q, k>> \in Row(r, T) <=> q = r /\ k \in T)
  BY DEF Row
<1>6. \A k \in Int : k > 0 => (k \in S <=> At(p, r, k)) /\ (k \in T <=> At(p, r, k)')
  <2>1. \A k \in Int : k > 0 => (k \in S <=> At(p, r, k))
    BY <1>1 DEF Where, At, Holds
  <2>2. \A k \in Int : k > 0 => (At(p, r, k)' <=> k \in 1 .. Len(rx'[r]) /\ rx'[r][k].pkt = p)
    BY <1>1 DEF At, Holds
  <2>3. \A k : k \in T <=> k \in 1 .. Len(rx'[r]) /\ rx'[r][k].pkt = p
    BY <1>1, Zenon DEF Where
  <2> QED
    BY <2>1, <2>2, <2>3
<1>7. S \subseteq Int /\ T \subseteq Int /\ (\A k \in S \cup T : k > 0)
  BY <1>1 DEF Where
<1>8. \A q \in Queues \ {r} : \A k \in Int : k > 0 => (At(p, q, k)' <=> At(p, q, k))
  BY <1>1 DEF At, Holds
<1> HIDE DEF S, T
<1>9. Row(r, S) \subseteq Holders(p)
  <2>1. ASSUME NEW x \in Row(r, S) PROVE x \in Holders(p)
    <3>1. PICK k \in S : x = <<r, k>>
      BY DEF Row
    <3>2. k \in Int /\ At(p, r, k)
      BY <1>6, <1>7
    <3> QED
      BY <3>1, <3>2, Member
  <2> QED
    BY <2>1
<1>10. \A x \in Row(r, T) : \E q \in Queues : \E k \in Int : x = <<q, k>>
  BY <1>7 DEF Row
<1>11. Row(r, T) \cap (Holders(p) \ Row(r, S)) = {}
  <2>1. ASSUME NEW k \in T, <<r, k>> \in Holders(p) PROVE <<r, k>> \in Row(r, S)
    <3>1. k \in Int /\ k > 0
      BY <1>7
    <3>2. At(p, r, k)
      BY <2>1, Member
    <3> QED
      BY <1>5, <1>6, <3>1, <3>2
  <2> QED
    BY <2>1 DEF Row
<1>12. \A q \in Queues : \A k \in Int : k > 0 =>
         (At(p, q, k)' <=> (At(p, q, k) /\ <<q, k>> \notin Row(r, S)) \/ <<q, k>> \in Row(r, T))
  BY <1>5, <1>6, <1>8
<1>13. \A q \in Queues : \A k \in Int : k <= 0 =>
         <<q, k>> \notin Row(r, S) /\ <<q, k>> \notin Row(r, T)
  BY <1>5, <1>7
<1>14. /\ Cardinality(Row(r, S)) \in Nat
       /\ Cardinality(Row(r, T))
            = Cardinality(Row(r, S)) - (IF Head(rx[r]).pkt = p THEN 1 ELSE 0)
  BY <1>2, <1>3, <1>4
<1> QED
  BY <1>4, <1>9, <1>10, <1>11, <1>12, <1>13, <1>14 DEF S, T

\* Emptying the rx of r: every place of the packet goes.
LEMMA EmptyCounted ==
  ASSUME Types, AllIntact, NEW r \in Queues, empty(r), NEW p \in Packets, Counted(p),
         UNCHANGED <<content, pc, array, hand>>
  PROVE  Counted(p)'
<1>1. /\ rx[r] \in Seq(Bursts) /\ rx'[r] = <<>> /\ \A q \in Queues \ {r} : rx'[q] = rx[q]
      /\ \A q \in Queues : Len(rx[q]) \in Nat
  BY DEF Types, empty
<1> DEFINE S == Where(rx[r], p)
           A == Row(r, S)
           B == {}
<1>2. IsFiniteSet(S) /\ Cardinality(S) \in Nat
  BY <1>1, WhereFinite
<1>3. IsFiniteSet(A) /\ Cardinality(A) = Cardinality(S)
  BY <1>2, RowCount
<1>4. IsFiniteSet(B) /\ Cardinality(B) = 0
  BY FS_EmptySet
<1>5. refs'[p] = refs[p] - Cardinality(A) + Cardinality(B)
  <2>1. refs'[p] = refs[p] - Cardinality(BurstsOf(r, p)) /\ refs[p] \in Int
    BY DEF empty, Types
  <2>2. BurstsOf(r, p) = S
    BY EmptyPlaces
  <2>3. Cardinality(BurstsOf(r, p)) = Cardinality(A)
    BY <1>3, <2>2
  <2> HIDE DEF A, B, S
  <2> QED
    BY <1>2, <1>3, <1>4, <2>1, <2>3
<1>6. \A k \in Int : k \in S <=> k > 0 /\ At(p, r, k)
  BY <1>1 DEF Where, At, Holds
<1>7. \A q, k : <<q, k>> \in A <=> q = r /\ k \in S
  BY DEF Row
<1>8. S \subseteq Int
  BY DEF Where
<1>9. ASSUME NEW q \in Queues, NEW k \in Int
      PROVE  At(p, q, k)' <=> At(p, q, k) /\ ~(q = r /\ k > 0)
  <2>1. CASE q = r
    BY <1>1, <2>1 DEF At, Holds
  <2>2. CASE q # r
    BY <1>1, <2>2 DEF At, Holds
  <2> QED
    BY <2>1, <2>2
<1> HIDE DEF S
<1>10. A \subseteq Holders(p)
  BY <1>6, <1>8, Member, Zenon DEF Row
<1> HIDE DEF A
<1>11. \A q \in Queues : \A k \in Int :
         At(p, q, k)' <=> (At(p, q, k) /\ <<q, k>> \notin A) \/ <<q, k>> \in B
  BY <1>6, <1>7, <1>9, Zenon
<1> QED
  BY <1>3, <1>4, <1>5, <1>10, <1>11, Balanced

\* A step changes the count of a packet as it changes the packet's holders.
LEMMA CountStep ==
  ASSUME Reuse = FALSE, HolderInv, Types', [Next]_vars, NEW p \in Packets
  PROVE  Counted(p)'
<1> USE DEF HolderInv
<1>0. Counted(p) /\ Types /\ \A q \in Queues : Len(rx[q]) \in Nat
  BY DEF Types
<1>1. CASE UNCHANGED vars
  BY <1>0, <1>1, Stays DEF vars, At, Holds
<1>2. ASSUME NEW q \in Queues, PollNic(q) PROVE Counted(p)'
  <2>1. PICK a \in 1 .. Arrays, p0 \in Packets :
          /\ refs[p0] = 0
          /\ content' = [content EXCEPT ![q] = [b \in 1 .. Arrays |->
               IF b = a THEN p0 ELSE IF Unused(q, b) THEN NoPacket ELSE @[b]]]
          /\ refs' = [refs EXCEPT ![p0] = 1]
          /\ array' = [array EXCEPT ![q] = a]
    BY <1>2, Zenon DEF PollNic
  <2>2. /\ pc[q] = "nic" /\ pc' = [pc EXCEPT ![q] = "check"]
        /\ UNCHANGED <<alive, friend, rx, hand>>
    BY <1>2 DEF PollNic
  <2>3. /\ content'[q][array'[q]] = p0 /\ pc'[q] = "check"
        /\ \A r \in Queues \ {q} :
             content'[r] = content[r] /\ array'[r] = array[r] /\ pc'[r] = pc[r]
    BY <1>0, <2>1, <2>2 DEF Types
  <2>4. \A r \in Queues : \A k \in Int :
          At(p, r, k)' <=> At(p, r, k) \/ (r = q /\ k = -1 /\ p = p0)
    BY <1>0, <2>2, <2>3 DEF At, Holds
  <2>5. ~At(p, q, -1)
    BY <2>2 DEF At, Holds
  <2>6. refs'[p] = IF p = p0 THEN refs[p] + 1 ELSE refs[p]
    BY <1>0, <2>1 DEF Types
  <2>7. CASE p = p0
    <3>1. OneMore(p, q, -1)
      BY <2>4, <2>5, <2>7 DEF OneMore
    <3>2. Counted(p) /\ q \in Queues /\ -1 \in Int /\ OneMore(p, q, -1) /\ refs'[p] = refs[p] + 1
      BY <1>0, <2>6, <2>7, <3>1
    <3> QED
      BY ONLY <3>2, Adds
  <2>8. CASE p # p0
    BY <1>0, <2>4, <2>6, <2>8, Stays
  <2> QED
    BY <2>7, <2>8
<1>3. ASSUME NEW q \in Queues, PollNicNone(q) PROVE Counted(p)'
  <2>1. \A r \in Queues : \A k \in Int : At(p, r, k)' <=> At(p, r, k)
    BY <1>0, <1>3 DEF PollNicNone, At, Holds, Types
  <2> QED
    BY <1>0, <1>3, <2>1, Stays DEF PollNicNone
<1>4. ASSUME NEW q \in Queues, BurstCheck(q) PROVE Counted(p)'
  <2>1. /\ pc[q] = "check" /\ pc'[q] \in {"drop", "push"}
        /\ \A r \in Queues \ {q} : pc'[r] = pc[r]
        /\ UNCHANGED <<rx, content, refs, array, hand>>
    BY <1>0, <1>4 DEF BurstCheck, Types
  <2>2. \A r \in Queues : \A k \in Int : At(p, r, k)' <=> At(p, r, k)
    BY <1>0, <2>1 DEF At, Holds
  <2> QED
    BY <1>0, <2>1, <2>2, Stays
<1>5. ASSUME NEW q \in Queues, BurstDrop(q) PROVE Counted(p)'
  <2>1. /\ pc[q] = "drop" /\ pc' = [pc EXCEPT ![q] = "push"]
        /\ UNCHANGED <<content, array, hand>>
    BY <1>5 DEF BurstDrop
  <2>2. \A r \in Queues : \A k \in Int : k <= 0 => (At(p, r, k)' <=> At(p, r, k))
    <3>1. \A r \in Queues : Len(rx'[r]) \in Nat
      BY DEF Types
    <3>2. pc'[q] = "push" /\ \A r \in Queues \ {q} : pc'[r] = pc[r]
      BY <1>0, <2>1 DEF Types
    <3>3. ASSUME NEW r \in Queues, NEW k \in Int, k <= 0 PROVE At(p, r, k)' <=> At(p, r, k)
      <4>1. CASE r = q
        <5>1. CASE k = -1
          BY <1>0, <2>1, <3>1, <3>2, <4>1, <5>1 DEF At, Holds
        <5>2. CASE k = 0
          BY <1>0, <2>1, <3>1, <4>1, <5>2 DEF At, Holds
        <5>3. CASE k < -1
          BY <5>3 DEF At
        <5> QED
          BY <3>3, <5>1, <5>2, <5>3
      <4>2. CASE r # q
        BY <1>0, <2>1, <3>1, <3>2, <3>3, <4>2 DEF At, Holds
      <4> QED
        BY <4>1, <4>2
    <3> QED
      BY <3>3
  <2>3. CASE rx[q] = <<>>
    <3>1. rx' = rx /\ refs' = refs
      BY <1>5, <2>3 DEF BurstDrop
    <3>2. \A r \in Queues : \A k \in Int : k > 0 => (At(p, r, k)' <=> At(p, r, k))
      BY <1>0, <3>1 DEF At, Holds
    <3>3. \A r \in Queues : \A k \in Int : At(p, r, k)' <=> At(p, r, k)
      BY <2>2, <3>2
    <3> QED
      BY <1>0, <3>1, <3>3, Stays
  <2>4. CASE rx[q] # <<>>
    <3> DEFINE A == Row(q, Where(rx[q], p))
               B == Row(q, Where(Tail(rx[q]), p))
    <3>1. rx' = [rx EXCEPT ![q] = Tail(@)]
      BY <1>5, <2>4 DEF BurstDrop
    <3>2. /\ IsFiniteSet(B) /\ A \subseteq Holders(p) /\ B \cap (Holders(p) \ A) = {}
          /\ \A x \in B : \E r \in Queues : \E k \in Int : x = <<r, k>>
          /\ Cardinality(A) \in Nat
          /\ Cardinality(B) = Cardinality(A) - (IF Head(rx[q]).pkt = p THEN 1 ELSE 0)
          /\ \A r \in Queues : \A k \in Int : k > 0 =>
               (At(p, r, k)' <=> (At(p, r, k) /\ <<r, k>> \notin A) \/ <<r, k>> \in B)
          /\ \A r \in Queues : \A k \in Int : k <= 0 => <<r, k>> \notin A /\ <<r, k>> \notin B
      BY <1>0, <2>4, <3>1, PopPlaces, Zenon
    <3> HIDE DEF A, B
    <3>3. \A r \in Queues : \A k \in Int :
            At(p, r, k)' <=> (At(p, r, k) /\ <<r, k>> \notin A) \/ <<r, k>> \in B
      <4>1. ASSUME NEW r \in Queues, NEW k \in Int
            PROVE  At(p, r, k)' <=> (At(p, r, k) /\ <<r, k>> \notin A) \/ <<r, k>> \in B
        <5>1. k > 0 \/ k <= 0
          OBVIOUS
        <5> QED
          BY <2>2, <3>2, <5>1, Zenon
      <4> QED
        BY <4>1, Zenon
    <3>4. Head(rx[q]) \in Bursts /\ content[Head(rx[q]).from][Head(rx[q]).array] = Head(rx[q]).pkt
      <4>1. Head(rx[q]) \in Bursts /\ Head(rx[q]) = rx[q][1] /\ 1 \in 1 .. Len(rx[q])
        BY <1>0, <2>4, PopTypes
      <4>2. Intact(rx[q][1])
        BY <4>1 DEF AllIntact
      <4> QED
        BY <4>1, <4>2 DEF Intact
    <3>5. refs' = [refs EXCEPT ![Head(rx[q]).pkt] = @ - 1]
      <4>1. refs' = [refs EXCEPT ![content[Head(rx[q]).from][Head(rx[q]).array]] = @ - 1]
        BY <1>5, <2>4, Zenon DEF BurstDrop, Free
      <4> QED
        BY <3>4, <4>1
    <3>6. refs'[p] = refs[p] - Cardinality(A) + Cardinality(B)
      <4>1. refs'[p] = IF Head(rx[q]).pkt = p THEN refs[p] - 1 ELSE refs[p]
        BY <1>0, <3>5 DEF Types
      <4>2. refs[p] \in Int
        BY <1>0 DEF Types
      <4>3. /\ Cardinality(A) \in Nat
            /\ Cardinality(B) = Cardinality(A) - (IF Head(rx[q]).pkt = p THEN 1 ELSE 0)
        BY <3>2, Zenon
      <4> QED
        BY ONLY <4>1, <4>2, <4>3
    <3> QED
      BY <1>0, <3>2, <3>3, <3>6, Balanced
  <2> QED
    BY <2>3, <2>4
<1>6. ASSUME NEW q \in Queues, BurstPush(q) PROVE Counted(p)'
  <2> DEFINE c == content[q][array[q]]
             b == [from |-> q, array |-> array[q], pkt |-> c]
             n == Len(rx[q]) + 1
  <2>1. /\ pc[q] = "push" /\ pc' = [pc EXCEPT ![q] = "release"]
        /\ UNCHANGED <<content, array, hand>>
        /\ rx' = [rx EXCEPT ![q] = Append(@, b)]
        /\ refs' = [refs EXCEPT ![c] = @ + 1]
    BY <1>6 DEF BurstPush, Incref
  <2>2. c \in Packets /\ b \in Bursts /\ b.pkt = c
    BY <1>0, <2>1 DEF Filled, Types, Bursts
  <2> HIDE DEF b
  <2>3. /\ Len(rx'[q]) = n /\ n \in Nat /\ n > 0 /\ rx'[q][n] = b
        /\ \A k \in 1 .. Len(rx[q]) : rx'[q][k] = rx[q][k]
        /\ \A r \in Queues \ {q} : rx'[r] = rx[r]
    BY <1>0, <2>1, <2>2 DEF Types
  <2>4. pc'[q] = "release" /\ \A r \in Queues \ {q} : pc'[r] = pc[r]
    BY <1>0, <2>1 DEF Types
  <2>5. \A r \in Queues : \A k \in Int :
          At(p, r, k)' <=> At(p, r, k) \/ (r = q /\ k = n /\ p = c)
    BY <1>0, <2>1, <2>2, <2>3, <2>4 DEF At, Holds
  <2>6. ~At(p, q, n)
    BY <1>0 DEF At
  <2>7. refs'[p] = IF p = c THEN refs[p] + 1 ELSE refs[p]
    BY <1>0, <2>1, <2>2 DEF Types
  <2> HIDE DEF c, n
  <2>8. CASE p = c
    <3>1. OneMore(p, q, n)
      BY <2>5, <2>6, <2>8 DEF OneMore
    <3>2. Counted(p) /\ q \in Queues /\ n \in Int /\ OneMore(p, q, n) /\ refs'[p] = refs[p] + 1
      BY <1>0, <2>3, <2>7, <2>8, <3>1
    <3> QED
      BY ONLY <3>2, Adds
  <2>9. CASE p # c
    BY <1>0, <2>5, <2>7, <2>9, Stays
  <2> QED
    BY <2>8, <2>9
<1>7. ASSUME NEW q \in Queues, Release(q) PROVE Counted(p)'
  <2> DEFINE c == content[q][array[q]]
  <2>1. /\ pc[q] = "release" /\ pc' = [pc EXCEPT ![q] = "queue"]
        /\ UNCHANGED <<rx, content, array, hand>>
        /\ refs' = [refs EXCEPT ![c] = @ - 1]
    BY <1>7 DEF Release, Free
  <2>2. c \in Packets
    BY <2>1 DEF Filled
  <2>3. pc'[q] = "queue" /\ \A r \in Queues \ {q} : pc'[r] = pc[r]
    BY <1>0, <2>1 DEF Types
  <2>4. \A r \in Queues : \A k \in Int :
          At(p, r, k)' <=> At(p, r, k) /\ ~(r = q /\ k = -1 /\ p = c)
    BY <1>0, <2>1, <2>3 DEF At, Holds
  <2>5. p = c => At(p, q, -1)
    BY <1>0, <2>1 DEF At, Holds
  <2>6. refs'[p] = IF p = c THEN refs[p] - 1 ELSE refs[p]
    BY <1>0, <2>1, <2>2 DEF Types
  <2> HIDE DEF c
  <2>7. CASE p = c
    <3>1. OneLess(p, q, -1)
      BY <2>4, <2>5, <2>7 DEF OneLess
    <3>2. Counted(p) /\ q \in Queues /\ -1 \in Int /\ OneLess(p, q, -1) /\ refs'[p] = refs[p] - 1
      BY <1>0, <2>6, <2>7, <3>1
    <3> QED
      BY ONLY <3>2, Drops
  <2>8. CASE p # c
    BY <1>0, <2>4, <2>6, <2>8, Stays
  <2> QED
    BY <2>7, <2>8
<1>8. ASSUME NEW q \in Queues, PollPop(q) PROVE Counted(p)'
  <2> DEFINE f == friend[q]
             A == Row(f, Where(rx[f], p))
             T == Row(f, Where(Tail(rx[f]), p))
             E == IF Head(rx[f]).pkt = p THEN {<<q, 0>>} ELSE {}
             B == T \cup E
  <2>1. /\ pc[q] = "queue" /\ pc' = [pc EXCEPT ![q] = "burst"]
        /\ f \in Queues /\ rx[f] # <<>>
        /\ rx' = [rx EXCEPT ![f] = Tail(@)]
        /\ hand' = [hand EXCEPT ![q] = Head(rx[f])]
        /\ UNCHANGED <<content, refs, array>>
    BY <1>0, <1>8 DEF PollPop, HasBurst, Types
  <2>2. hand[q] = NoBurst /\ hand[q].pkt # p
    BY <2>1, QueueAssumption DEF InHand, NoBurst
  <2>3. /\ hand'[q] = Head(rx[f]) /\ pc'[q] = "burst"
        /\ \A r \in Queues \ {q} : hand'[r] = hand[r] /\ pc'[r] = pc[r]
    BY <1>0, <2>1 DEF Types
  <2>4. /\ IsFiniteSet(T) /\ A \subseteq Holders(p) /\ T \cap (Holders(p) \ A) = {}
        /\ \A x \in T : \E r \in Queues : \E k \in Int : x = <<r, k>>
        /\ Cardinality(A) \in Nat
        /\ Cardinality(T) = Cardinality(A) - (IF Head(rx[f]).pkt = p THEN 1 ELSE 0)
        /\ \A r \in Queues : \A k \in Int : k > 0 =>
             (At(p, r, k)' <=> (At(p, r, k) /\ <<r, k>> \notin A) \/ <<r, k>> \in T)
        /\ \A r \in Queues : \A k \in Int : k <= 0 => <<r, k>> \notin A /\ <<r, k>> \notin T
    BY <1>0, <2>1, PopPlaces, Zenon
  <2>5. \A r \in Queues : \A k \in Int : k <= 0 =>
          (At(p, r, k)' <=> At(p, r, k) \/ (r = q /\ k = 0 /\ Head(rx[f]).pkt = p))
    <3>1. \A r \in Queues : Len(rx'[r]) \in Nat
      BY DEF Types
    <3>2. ASSUME NEW r \in Queues
          PROVE  /\ At(p, r, -1)' <=> At(p, r, -1)
                 /\ At(p, r, 0)' <=> At(p, r, 0) \/ (r = q /\ Head(rx[f]).pkt = p)
      <4> HIDE DEF f
      <4>1. CASE r = q
        <5>1. ~At(p, q, -1) /\ ~At(p, q, -1)'
          BY <2>1, <2>3 DEF At, Holds
        <5>2. (At(p, q, 0) <=> hand[q].pkt = p) /\ (At(p, q, 0)' <=> hand'[q].pkt = p)
          BY <1>0, <3>1 DEF At, Holds
        <5> QED
          BY <2>2, <2>3, <4>1, <5>1, <5>2
      <4>2. CASE r # q
        BY <1>0, <2>1, <2>3, <3>1, <4>2 DEF At, Holds
      <4> QED
        BY <4>1, <4>2
    <3>3. \A r \in Queues : \A k \in Int :
            k <= 0 /\ k # -1 /\ k # 0 => ~At(p, r, k) /\ ~At(p, r, k)'
      BY DEF At
    <3> QED
      BY <3>2, <3>3
  <2>6. ~At(p, q, 0)
    BY <2>2 DEF At, Holds
  <2>7. \A r \in Queues, k \in Int :
          <<r, k>> \in E <=> r = q /\ k = 0 /\ Head(rx[f]).pkt = p
    OBVIOUS
  <2>8. /\ IsFiniteSet(E) /\ Cardinality(E) = (IF Head(rx[f]).pkt = p THEN 1 ELSE 0)
        /\ \A x \in E : \E r \in Queues : \E k \in Int : x = <<r, k>>
    <3>1. CASE Head(rx[f]).pkt = p
      <4>1. E = {<<q, 0>>}
        BY <3>1
      <4>2. IsFiniteSet(E) /\ Cardinality(E) = 1
        BY <4>1, FS_Singleton, Zenon
      <4>3. q \in Queues /\ 0 \in Int
        OBVIOUS
      <4>4. \A x \in E : x = <<q, 0>>
        BY <4>1, Zenon
      <4> HIDE DEF E
      <4> QED
        BY <3>1, <4>2, <4>3, <4>4, Zenon
    <3>2. CASE Head(rx[f]).pkt # p
      <4>1. E = {}
        BY <3>2
      <4>2. IsFiniteSet(E) /\ Cardinality(E) = 0
        BY <4>1, FS_EmptySet
      <4> QED
        BY <3>2, <4>1, <4>2
    <3> QED
      BY <3>1, <3>2, Zenon
  <2>9. E \cap Holders(p) = {} /\ E \cap T = {}
    <3>1. <<q, 0>> \notin Holders(p)
      BY <2>6, Member
    <3>2. <<q, 0>> \notin T
      <4> HIDE DEF T, A
      <4> QED
        BY <2>4
    <3> HIDE DEF T
    <3> QED
      BY <3>1, <3>2
  <2> HIDE DEF A, T, E
  <2>10. IsFiniteSet(B) /\ Cardinality(B) = Cardinality(T) + Cardinality(E)
    <3>1. T \cap E = {}
      BY <2>9
    <3>2. /\ IsFiniteSet(B)
          /\ Cardinality(B) = Cardinality(T) + Cardinality(E) - Cardinality(T \cap E)
      BY <2>4, <2>8, FS_Union
    <3>3. Cardinality(T \cap E) = 0
      BY <3>1, FS_EmptySet
    <3>4. Cardinality(T) \in Nat /\ Cardinality(E) \in Nat
      BY <2>4, <2>8, FS_CardinalityType
    <3> QED
      BY <3>2, <3>3, <3>4
  <2>11. B \cap (Holders(p) \ A) = {} /\ \A x \in B : \E r \in Queues : \E k \in Int : x = <<r, k>>
    BY <2>4, <2>8, <2>9
  <2>12. \A r \in Queues : \A k \in Int :
           At(p, r, k)' <=> (At(p, r, k) /\ <<r, k>> \notin A) \/ <<r, k>> \in B
    <3>1. ASSUME NEW r \in Queues, NEW k \in Int
          PROVE  At(p, r, k)' <=> (At(p, r, k) /\ <<r, k>> \notin A) \/ <<r, k>> \in B
      <4>1. CASE k > 0
        <5>1. k # 0
          BY <4>1
        <5> QED
          BY <2>4, <2>7, <4>1, <5>1, Zenon
      <4>2. CASE k <= 0
        BY <2>4, <2>5, <2>7, <4>2, Zenon
      <4> QED
        BY <4>1, <4>2
    <3> QED
      BY <3>1, Zenon
  <2>13. refs'[p] = refs[p] - Cardinality(A) + Cardinality(B)
    <3>1. refs'[p] = refs[p] /\ refs[p] \in Int
      BY <1>0, <2>1 DEF Types
    <3> HIDE DEF B
    <3> QED
      BY <2>4, <2>8, <2>10, <3>1
  <2> HIDE DEF B
  <2> QED
    BY <1>0, <2>4, <2>10, <2>11, <2>12, <2>13, Balanced
<1>9. ASSUME NEW q \in Queues, PollNothing(q) PROVE Counted(p)'
  <2>1. \A r \in Queues : \A k \in Int : At(p, r, k)' <=> At(p, r, k)
    BY <1>0, <1>9 DEF PollNothing, At, Holds, Types
  <2> QED
    BY <1>0, <1>9, <2>1, Stays DEF PollNothing
<1>10. ASSUME NEW q \in Queues, PollBurst(q) PROVE Counted(p)'
  <2>1. \A r \in Queues : \A k \in Int : At(p, r, k)' <=> At(p, r, k)
    BY <1>0, <1>10 DEF PollBurst, At, Holds, Types
  <2> QED
    BY <1>0, <1>10, <2>1, Stays DEF PollBurst
<1>11. ASSUME NEW q \in Queues, PollFree(q) PROVE Counted(p)'
  <2> DEFINE c == hand[q].pkt
  <2>1. /\ pc[q] = "free" /\ pc' = [pc EXCEPT ![q] = "nic"]
        /\ hand' = [hand EXCEPT ![q] = NoBurst]
        /\ UNCHANGED <<rx, content, array>>
        /\ refs' = [refs EXCEPT ![content[hand[q].from][hand[q].array]] = @ - 1]
    BY <1>11 DEF PollFree, Free
  <2>2. hand[q] \in Bursts /\ content[hand[q].from][hand[q].array] = c
    BY <1>0, <2>1 DEF InHand, AllIntact, Intact, Types
  <2>3. c \in Packets /\ refs' = [refs EXCEPT ![c] = @ - 1]
    BY <2>1, <2>2 DEF Bursts
  <2>4. /\ pc'[q] = "nic" /\ hand'[q].pkt # p
        /\ \A r \in Queues \ {q} : pc'[r] = pc[r] /\ hand'[r] = hand[r]
    <3>1. /\ pc'[q] = "nic" /\ hand'[q] = NoBurst
          /\ \A r \in Queues \ {q} : pc'[r] = pc[r] /\ hand'[r] = hand[r]
      BY <1>0, <2>1 DEF Types
    <3>2. NoBurst.pkt # p
      BY QueueAssumption DEF NoBurst
    <3> QED
      BY <3>1, <3>2
  <2>5. \A r \in Queues : \A k \in Int :
          At(p, r, k)' <=> At(p, r, k) /\ ~(r = q /\ k = 0 /\ p = c)
    BY <1>0, <2>1, <2>4, Zenon DEF At, Holds
  <2>6. p = c => At(p, q, 0)
    BY <1>0 DEF At, Holds
  <2>7. refs'[p] = IF p = c THEN refs[p] - 1 ELSE refs[p]
    BY <1>0, <2>3 DEF Types
  <2> HIDE DEF c
  <2>8. CASE p = c
    <3>1. OneLess(p, q, 0)
      BY <2>5, <2>6, <2>8 DEF OneLess
    <3>2. Counted(p) /\ q \in Queues /\ 0 \in Int /\ OneLess(p, q, 0) /\ refs'[p] = refs[p] - 1
      BY <1>0, <2>7, <2>8, <3>1
    <3> QED
      BY ONLY <3>2, Drops
  <2>9. CASE p # c
    BY <1>0, <2>5, <2>7, <2>9, Stays
  <2> QED
    BY <2>8, <2>9
<1>12. ASSUME NEW q \in Queues, pg_queue_new(q) PROVE Counted(p)'
  <2>1. rx' = rx
    BY <1>0, <1>12 DEF pg_queue_new, GoneEmpty, Types
  <2>2. \A r \in Queues : \A k \in Int : At(p, r, k)' <=> At(p, r, k)
    BY <1>12, <2>1 DEF pg_queue_new, At, Holds
  <2> QED
    BY <1>0, <1>12, <2>2, Stays DEF pg_queue_new
<1>13. ASSUME NEW q \in Queues, pg_queue_unfriend(q) PROVE Counted(p)'
  <2>1. \A r \in Queues : \A k \in Int : At(p, r, k)' <=> At(p, r, k)
    BY <1>13 DEF pg_queue_unfriend, At, Holds
  <2> QED
    BY <1>0, <1>13, <2>1, Stays DEF pg_queue_unfriend
<1>14. ASSUME NEW q \in Queues, queue_reset(q) PROVE Counted(p)'
  BY <1>0, <1>14, EmptyCounted DEF queue_reset
<1>15. ASSUME NEW q \in Queues, queue_destroy(q) PROVE Counted(p)'
  BY <1>0, <1>15, EmptyCounted DEF queue_destroy
<1>16. ASSUME NEW q \in Queues, NEW r \in Queues, pg_queue_friend(q, r) PROVE Counted(p)'
  <2>1. \A x \in Queues : \A k \in Int : At(p, x, k)' <=> At(p, x, k)
    BY <1>16 DEF pg_queue_friend, At, Holds
  <2> QED
    BY <1>0, <1>16, <2>1, Stays DEF pg_queue_friend
<1> QED
  BY <1>1, <1>2, <1>3, <1>4, <1>5, <1>6, <1>7, <1>8, <1>9, <1>10, <1>11, <1>12, <1>13, <1>14,
     <1>15, <1>16 DEF Next, Thread

\* The invariant holds initially and every step keeps it.
THEOREM HolderInvariance ==
  ASSUME Reuse = FALSE
  PROVE  Spec => []HolderInv
<1>1. ASSUME HolderInv, [Next]_vars PROVE HolderInv'
  <2>1. Types'
    BY <1>1, TypeStep DEF HolderInv
  <2>2. Filled' /\ InHand' /\ AllIntact' /\ GoneEmpty'
    BY <1>1, <2>1, ShapeStep, Zenon DEF HolderInv
  <2>3. \A p \in Packets : Counted(p)'
    BY <1>1, <2>1, CountStep, Zenon
  <2> QED
    BY <2>1, <2>2, <2>3 DEF HolderInv
<1> QED
  BY <1>1, HolderInit, PTL DEF Spec

\* The reference count of a packet is the number of its holders, for any number
\* of queues, packets and arrays, when arrays that bursts name are not filled
\* again: queue_burst, queue_poll, reset and destroy neither leak a packet nor
\* free one that is queued.
THEOREM RefsMatchTheorem ==
  ASSUME Reuse = FALSE
  PROVE  Spec => []RefsMatch
<1>1. HolderInv => RefsMatch
  BY DEF HolderInv, Counted, RefsMatch
<1> QED
  BY <1>1, HolderInvariance, PTL

\* The burst queue_poll sends on holds the packet that was bursted to its friend,
\* when arrays that bursts name are not filled again.
THEOREM PolledIntactTheorem ==
  ASSUME Reuse = FALSE
  PROVE  Spec => []PolledIntact
<1>1. HolderInv => PolledIntact
  BY DEF HolderInv, InHand, AllIntact, Intact, PolledIntact
<1> QED
  BY <1>1, HolderInvariance, PTL

\* The variables keep their types; the reference counts never go below zero.
THEOREM TypeCorrect ==
  ASSUME Reuse = FALSE
  PROVE  Spec => []TypeOK
<1>1. ASSUME HolderInv PROVE TypeOK
  <2>1. \A p \in Packets : refs[p] \in Nat
    BY <1>1, FS_CardinalityType DEF HolderInv, Counted
  <2>2. refs \in [Packets -> Nat]
    BY <1>1, <2>1 DEF HolderInv, Types
  <2> QED
    BY <1>1, <2>2 DEF HolderInv, Types, TypeOK
<1> QED
  BY <1>1, HolderInvariance, PTL

-----------------------------------------------------------------------------
(* Friends.                                                                *)

\* Friends, and the type they need.
FriendInv == alive \subseteq Queues /\ friend \in [Queues -> Queues \cup {NoQueue}] /\ FriendsMutual

\* A queue without a friend, or with the friend of q gone: nobody else had them.
LEMMA UnfriendStep ==
  ASSUME FriendInv, NEW q \in Queues, unfriend(q)
  PROVE  /\ friend' \in [Queues -> Queues \cup {NoQueue}]
         /\ friend'[q] = NoQueue
         /\ \A r \in Queues : friend'[r] # NoQueue =>
              r # q /\ friend'[r] = friend[r] /\ friend'[friend[r]] = r /\ friend[r] # q
BY QueueAssumption DEF FriendInv, FriendsMutual, unfriend

\* Friends are friends of each other and allocated, in Spec for any number of
\* queues: unfriend, reset and destroy tell both sides.
THEOREM FriendsMutualTheorem == Spec => []FriendsMutual
<1>1. Init => FriendInv
  BY DEF Init, FriendInv, FriendsMutual
<1>2. ASSUME FriendInv, [Next]_vars PROVE FriendInv'
  <2>1. CASE UNCHANGED <<alive, friend>>
    BY <1>2, <2>1 DEF FriendInv, FriendsMutual
  <2>2. ASSUME NEW q \in Queues, pg_queue_new(q) PROVE FriendInv'
    BY <1>2, <2>2 DEF pg_queue_new, FriendInv, FriendsMutual
  <2>3. ASSUME NEW q \in Queues, pg_queue_unfriend(q) PROVE FriendInv'
    BY <1>2, <2>3, UnfriendStep DEF pg_queue_unfriend, FriendInv, FriendsMutual
  <2>4. ASSUME NEW q \in Queues, queue_reset(q) PROVE FriendInv'
    BY <1>2, <2>4, UnfriendStep DEF queue_reset, FriendInv, FriendsMutual
  <2>5. ASSUME NEW q \in Queues, queue_destroy(q) PROVE FriendInv'
    BY <1>2, <2>5, UnfriendStep DEF queue_destroy, FriendInv, FriendsMutual
  <2>6. ASSUME NEW q \in Queues, NEW r \in Queues, pg_queue_friend(q, r) PROVE FriendInv'
    BY <1>2, <2>6, QueueAssumption DEF pg_queue_friend, FriendInv, FriendsMutual
  <2>7. ASSUME NEW q \in Queues, Thread(q) PROVE UNCHANGED <<alive, friend>>
    BY <2>7, Zenon DEF Thread, PollNic, PollNicNone, BurstCheck, BurstDrop, BurstPush, Release, PollPop,
       PollNothing, PollBurst, PollFree
  <2> QED
    BY <1>2, <2>1, <2>2, <2>3, <2>4, <2>5, <2>6, <2>7 DEF Next, vars
<1>3. FriendInv => FriendsMutual
  BY DEF FriendInv
<1> QED
  BY <1>1, <1>2, <1>3, PTL DEF Spec

-----------------------------------------------------------------------------
(* Sizes.                                                                  *)

\* The size is not read back as a negative int, as it is when pg_queue_new is
\* given one.
SizeFits == rx_max_size \in Nat /\ rx_max_size > 0 /\ AsInt(rx_max_size) = rx_max_size

\* There is room when queue_burst pushes.
Room ==
  \A q \in Queues : Len(rx[q]) <= rx_max_size /\ (pc[q] = "push" => Len(rx[q]) < rx_max_size)

\* A queue that holds n of at most m bursts has pressure 255 when it is full, and
\* then only.
LEMMA Pressure ==
  ASSUME NEW m \in Nat, m > 0, NEW n \in Nat, n <= m
  PROVE  ((n * 255) \div m) % 256 = 255 <=> n >= m
<1>1. CASE n = m
  <2>1. (m * 255) \div m = 255
    OBVIOUS
  <2> QED
    BY <1>1, <2>1
<1>2. CASE n < m
  <2> DEFINE d == (n * 255) \div m
  <2>1. d \in Int /\ m * d <= n * 255 /\ 0 <= d
    OBVIOUS
  <2>2. d < 255
    <3> HIDE DEF d
    <3>1. n * 255 < m * 255
      BY <1>2
    <3>2. m * d < m * 255
      BY <2>1, <3>1
    <3> QED
      BY <2>1, <3>2
  <2> HIDE DEF d
  <2>3. d % 256 = d
    BY <2>1, <2>2
  <2>4. d % 256 # 255 /\ ~(n >= m)
    BY <1>2, <2>2, <2>3
  <2> QED
    BY <2>4 DEF d
<1> QED
  BY <1>1, <1>2

\* A step of the thread of q, or a call, keeps the room.
LEMMA RoomStep ==
  ASSUME SizeFits, Types, Types', Room, [Next]_vars
  PROVE  Room'
<1>0. /\ \A q \in Queues : Len(rx[q]) \in Nat /\ Len(rx'[q]) \in Nat
      /\ rx_max_size \in Nat /\ rx_max_size > 0
  BY DEF Types, SizeFits
<1> HIDE DEF rx_max_size, AsInt
<1>1. ASSUME NEW q \in Queues, rx' = rx, \A r \in Queues \ {q} : pc'[r] = pc[r], pc'[q] # "push"
      PROVE  Room'
  BY <1>1 DEF Room
<1>2. ASSUME NEW q \in Queues, NEW f \in Queues, rx[f] # <<>>, rx' = [rx EXCEPT ![f] = Tail(@)],
             \A r \in Queues \ {q} : pc'[r] = pc[r], pc'[q] # "push" \/ q = f
      PROVE  Room'
  <2>1. /\ Len(rx'[f]) = Len(rx[f]) - 1 /\ \A r \in Queues \ {f} : rx'[r] = rx[r]
    BY <1>2 DEF Types
  <2> QED
    BY <1>0, <1>2, <2>1 DEF Room
<1>3. ASSUME NEW q \in Queues, BurstCheck(q) PROVE Room'
  <2>1. /\ rx' = rx /\ \A r \in Queues \ {q} : pc'[r] = pc[r]
        /\ pc'[q] = "push" => Len(rx[q]) < rx_max_size
    BY <1>0, <1>3 DEF BurstCheck, SizeFits, Types
  <2> QED
    BY <2>1 DEF Room
<1>4. ASSUME NEW q \in Queues, BurstDrop(q) PROVE Room'
  <2>1. \A r \in Queues \ {q} : pc'[r] = pc[r]
    BY <1>4 DEF BurstDrop, Types
  <2>2. CASE rx[q] = <<>>
    <3>1. rx' = rx /\ Len(rx[q]) = 0
      BY <1>4, <2>2 DEF BurstDrop
    <3> QED
      BY <1>0, <2>1, <3>1 DEF Room
  <2>3. CASE rx[q] # <<>>
    <3>1. rx' = [rx EXCEPT ![q] = Tail(@)]
      BY <1>4, <2>3 DEF BurstDrop
    <3> QED
      BY <1>2, <2>1, <2>3, <3>1, Zenon
  <2> QED
    BY <2>2, <2>3
<1>5. ASSUME NEW q \in Queues, BurstPush(q) PROVE Room'
  <2>1. /\ pc[q] = "push" /\ pc'[q] = "release" /\ \A r \in Queues \ {q} : pc'[r] = pc[r]
        /\ Len(rx'[q]) = Len(rx[q]) + 1 /\ \A r \in Queues \ {q} : rx'[r] = rx[r]
    BY <1>5 DEF BurstPush, Types
  <2> QED
    BY <1>0, <2>1 DEF Room
<1>6. ASSUME NEW q \in Queues, PollPop(q) PROVE Room'
  <2>1. friend[q] \in Queues /\ rx[friend[q]] # <<>>
    BY <1>6 DEF PollPop, HasBurst, Types
  <2>2. /\ rx' = [rx EXCEPT ![friend[q]] = Tail(@)] /\ pc'[q] # "push"
        /\ \A r \in Queues \ {q} : pc'[r] = pc[r]
    BY <1>6 DEF PollPop, Types
  <2> QED
    BY <1>2, <2>1, <2>2, Zenon
<1>7. ASSUME NEW q \in Queues, rx' = [rx EXCEPT ![q] = <<>>], pc' = pc PROVE Room'
  <2>1. rx'[q] = <<>> /\ \A r \in Queues \ {q} : rx'[r] = rx[r]
    BY <1>7 DEF Types
  <2>2. Len(rx'[q]) = 0
    BY <2>1
  <2> QED
    BY <1>0, <1>7, <2>1, <2>2 DEF Room
<1>8. ASSUME NEW q \in Queues, PollNic(q) \/ PollNicNone(q) \/ Release(q) \/ PollNothing(q)
                               \/ PollBurst(q) \/ PollFree(q)
      PROVE  Room'
  <2>1. rx' = rx /\ (\A r \in Queues \ {q} : pc'[r] = pc[r]) /\ pc'[q] # "push"
    BY <1>8 DEF PollNic, PollNicNone, Release, PollNothing, PollBurst, PollFree, Types
  <2> QED
    BY <1>1, <2>1
<1>9. ASSUME rx' = rx, pc' = pc PROVE Room'
  BY <1>9 DEF Room
<1>10. ASSUME NEW q \in Queues, pg_queue_new(q) \/ queue_reset(q) \/ queue_destroy(q) PROVE Room'
  BY <1>7, <1>10 DEF pg_queue_new, queue_reset, queue_destroy, empty
<1>11. ASSUME NEW q \in Queues, NEW r \in Queues, pg_queue_unfriend(q) \/ pg_queue_friend(q, r)
       PROVE  Room'
  BY <1>9, <1>11 DEF pg_queue_unfriend, pg_queue_friend
<1> QED
  BY <1>3, <1>4, <1>5, <1>6, <1>8, <1>9, <1>10, <1>11 DEF Next, Thread, vars

\* A queue never holds more than its size and reports pressure 255 exactly when
\* the next burst throws the oldest one away, for every size that fits an int.
THEOREM SizeBoundTheorem ==
  ASSUME Reuse = FALSE, SizeFits
  PROVE  Spec => []SizeBound
<1>1. Init => Room
  BY DEF Init, Room, SizeFits
<1>2. HolderInv /\ HolderInv' /\ Room /\ [Next]_vars => Room'
  BY RoomStep DEF HolderInv
<1>3. ASSUME HolderInv, Room PROVE SizeBound
  <2>1. ASSUME NEW q \in Queues
        PROVE  /\ Len(rx[q]) <= rx_max_size
               /\ pg_queue_pressure(q) = 255 <=> Len(rx[q]) >= AsInt(rx_max_size)
    <3>1. /\ Len(rx[q]) \in Nat /\ Len(rx[q]) <= rx_max_size
          /\ rx_max_size \in Nat /\ rx_max_size > 0 /\ AsInt(rx_max_size) = rx_max_size
      BY <1>3 DEF HolderInv, Types, Room, SizeFits
    <3>2. ((Len(rx[q]) * 255) \div rx_max_size) % 256 = 255 <=> Len(rx[q]) >= rx_max_size
      BY <3>1, Pressure, Zenon
    <3> QED
      BY <3>1, <3>2, Zenon DEF pg_queue_pressure
  <2> QED
    BY <2>1 DEF SizeBound
<1> QED
  BY <1>1, <1>2, <1>3, HolderInvariance, PTL DEF Spec
=============================================================================
