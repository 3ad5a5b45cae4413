------------------------------- MODULE Queue --------------------------------
(***************************************************************************)
(* Queue bricks (src/src/queue.c): what connects graphs that run in        *)
(* different threads.  A burst that reaches a queue is stored in its rx;   *)
(* its friend, polled by another thread, takes it out and bursts it on.    *)
(*                                                                         *)
(* Every queue is in a graph of its own, with a brick like vhost that is   *)
(* polled before it: pg_graph_poll polls that brick, which fills an array  *)
(* of packets, bursts it to the queue and frees its reference, and then    *)
(* polls the queue.  rx is a GAsyncQueue: each of its operations is        *)
(* atomic, a sequence of them is not.                                      *)
(*                                                                         *)
(* A burst holds one packet.  A packet has a reference count and is free   *)
(* (in the mempool) when it is zero.  A burst in rx names the array, as    *)
(* queue_burst stores the pointer; pkt, which the code does not have,      *)
(* remembers the packet that was bursted.                                  *)
(*                                                                         *)
(* Queues are made, made friends, reset and destroyed while no thread      *)
(* polls their graphs.                                                     *)
(***************************************************************************)
EXTENDS Integers, Sequences, FiniteSets

CONSTANTS
  Queues,    \* the queue bricks there can be
  Senders,   \* the queues whose neighbour has packets for them
  Packets,   \* the packets of the mempool
  Arrays,    \* how many arrays a bursting brick has
  Reuse,     \* TRUE: it fills the same array again while a queue names it
  Size,      \* the argument of pg_queue_new, a C int
  Width,     \* bits of an int, 32
  NoQueue,   \* NULL
  NoPacket

\* rx_max_size, a uint32_t, as queue_init sets it.
rx_max_size == IF Size % 2^Width = 0 THEN 10 ELSE Size % 2^Width

\* A uint32_t read as an int.
AsInt(n) == IF n >= 2^(Width - 1) THEN n - 2^Width ELSE n

ASSUME QueueAssumption ==
  /\ Senders \subseteq Queues
  /\ NoQueue \notin Queues /\ NoPacket \notin Packets
  /\ Arrays \in Nat /\ Arrays > 0
  /\ Reuse \in BOOLEAN
  /\ Width \in Nat /\ Width > 4
  /\ Size \in Int /\ -(2^(Width - 1)) <= Size /\ Size < 2^(Width - 1)

VARIABLES
  alive,    \* the queues that are allocated
  friend,   \* state->friend
  rx,       \* state->rx
  content,  \* the packet in each array of the brick that bursts to a queue
  refs,     \* the reference count of each packet
  pc,       \* where the thread that polls the queue's graph is
  array,    \* the array it bursts
  hand      \* the burst its queue_poll took, or NoBurst

vars == <<alive, friend, rx, content, refs, pc, array, hand>>

Bursts  == [from: Queues, array: 1 .. Arrays, pkt: Packets]
NoBurst == [from |-> NoQueue, array |-> 0, pkt |-> NoPacket]

TypeOK ==
  /\ alive \subseteq Queues
  /\ friend \in [Queues -> Queues \cup {NoQueue}]
  /\ rx \in [Queues -> Seq(Bursts)]
  /\ content \in [Queues -> [1 .. Arrays -> Packets \cup {NoPacket}]]
  /\ refs \in [Packets -> Nat]
  /\ pc \in [Queues -> {"nic", "check", "drop", "push", "release", "queue", "burst", "free"}]
  /\ array \in [Queues -> 1 .. Arrays]
  /\ hand \in [Queues -> Bursts \cup {NoBurst}]

Init ==
  /\ alive = {}
  /\ friend = [q \in Queues |-> NoQueue]
  /\ rx = [q \in Queues |-> <<>>]
  /\ content = [q \in Queues |-> [a \in 1 .. Arrays |-> NoPacket]]
  /\ refs = [p \in Packets |-> 0]
  /\ pc = [q \in Queues |-> "nic"]
  /\ array = [q \in Queues |-> 1]
  /\ hand = [q \in Queues |-> NoBurst]

\* Mutant: the packets are stored without a reference.
IncrefMissing(q, a) == UNCHANGED refs

\* pg_packets_free and pg_packets_incref of the packet an array holds now.
Free(q, a)   == refs' = [refs EXCEPT ![content[q][a]] = @ - 1]
Incref(q, a) == refs' = [refs EXCEPT ![content[q][a]] = @ + 1]

-----------------------------------------------------------------------------
(* A thread polls its graph: first the brick that bursts to the queue.     *)

\* No burst names the array.
Unused(q, a) ==
  /\ \A r \in Queues : \A k \in 1 .. Len(rx[r]) : rx[r][k].from # q \/ rx[r][k].array # a
  /\ \A r \in Queues : hand[r].from # q \/ hand[r].array # a

\* It has packets: they are put in an array and bursted.  Without Reuse that is
\* a new one, and those that no burst names any more are given back.
PollNic(q) ==
  /\ q \in Senders \cap alive /\ pc[q] = "nic"
  /\ \E a \in 1 .. Arrays, p \in Packets :
       /\ IF Reuse THEN a = 1
          ELSE Unused(q, a) /\ \A b \in 1 .. a - 1 : ~Unused(q, b)
       /\ refs[p] = 0
       /\ content' = [content EXCEPT ![q] = [b \in 1 .. Arrays |->
            IF b = a THEN p ELSE IF Unused(q, b) THEN NoPacket ELSE @[b]]]
       /\ refs' = [refs EXCEPT ![p] = 1]
       /\ array' = [array EXCEPT ![q] = a]
  /\ pc' = [pc EXCEPT ![q] = "check"]
  /\ UNCHANGED <<alive, friend, rx, hand>>

\* It has none.
PollNicNone(q) ==
  /\ q \in alive /\ pc[q] = "nic"
  /\ pc' = [pc EXCEPT ![q] = "queue"]
  /\ UNCHANGED <<alive, friend, rx, content, refs, array, hand>>

\* Mutant: one burst too many fits.
BurstCheckOver(q) ==
  /\ pc[q] = "check"
  /\ pc' = [pc EXCEPT ![q] = IF Len(rx[q]) > AsInt(rx_max_size) THEN "drop" ELSE "push"]
  /\ UNCHANGED <<alive, friend, rx, content, refs, array, hand>>

\* queue_burst looks at the length of rx.
BurstCheck(q) ==
  /\ pc[q] = "check"
  /\ pc' = [pc EXCEPT ![q] = IF Len(rx[q]) >= AsInt(rx_max_size) THEN "drop" ELSE "push"]
  /\ UNCHANGED <<alive, friend, rx, content, refs, array, hand>>

\* Mutant: the burst that is thrown away is not freed.
BurstDropLeaks(q) ==
  /\ pc[q] = "drop"
  /\ rx' = [rx EXCEPT ![q] = IF @ = <<>> THEN @ ELSE Tail(@)]
  /\ pc' = [pc EXCEPT ![q] = "push"]
  /\ UNCHANGED <<alive, friend, content, refs, array, hand>>

\* The oldest burst is thrown away, unless rx was emptied in the meantime.
BurstDrop(q) ==
  /\ pc[q] = "drop"
  /\ \/ /\ rx[q] # <<>>
        /\ rx' = [rx EXCEPT ![q] = Tail(@)]
        /\ Free(Head(rx[q]).from, Head(rx[q]).array)
     \/ /\ rx[q] = <<>>
        /\ UNCHANGED <<rx, refs>>
  /\ pc' = [pc EXCEPT ![q] = "push"]
  /\ UNCHANGED <<alive, friend, content, array, hand>>

\* The burst is stored, with a reference on its packets.
BurstPush(q) ==
  /\ pc[q] = "push"
  /\ Incref(q, array[q])
  /\ rx' = [rx EXCEPT ![q] = Append(@, [from |-> q, array |-> array[q],
                                        pkt |-> content[q][array[q]]])]
  /\ pc' = [pc EXCEPT ![q] = "release"]
  /\ UNCHANGED <<alive, friend, content, array, hand>>

\* The brick that bursted gives its reference back.
Release(q) ==
  /\ pc[q] = "release"
  /\ Free(q, array[q])
  /\ pc' = [pc EXCEPT ![q] = "queue"]
  /\ UNCHANGED <<alive, friend, rx, content, array, hand>>

-----------------------------------------------------------------------------
(* Then the queue.                                                         *)

\* Mutant: the last burst stays.
HasBurstKeepsLast(q) == friend[q] # NoQueue /\ Len(rx[friend[q]]) > 1

\* There is a friend, and a burst to take in its rx.
HasBurst(q) == friend[q] # NoQueue /\ rx[friend[q]] # <<>>

\* queue_poll takes a burst from its friend.
PollPop(q) ==
  /\ pc[q] = "queue"
  /\ HasBurst(q)
  /\ hand' = [hand EXCEPT ![q] = Head(rx[friend[q]])]
  /\ rx' = [rx EXCEPT ![friend[q]] = Tail(@)]
  /\ pc' = [pc EXCEPT ![q] = "burst"]
  /\ UNCHANGED <<alive, friend, content, refs, array>>

\* There is no friend, or nothing in its rx.
PollNothing(q) ==
  /\ pc[q] = "queue"
  /\ ~HasBurst(q)
  /\ pc' = [pc EXCEPT ![q] = "nic"]
  /\ UNCHANGED <<alive, friend, rx, content, refs, array, hand>>

\* The neighbour of the queue gets the burst.
PollBurst(q) ==
  /\ pc[q] = "burst"
  /\ pc' = [pc EXCEPT ![q] = "free"]
  /\ UNCHANGED <<alive, friend, rx, content, refs, array, hand>>

\* The packets of the burst are freed, whether bursting failed or not.
PollFree(q) ==
  /\ pc[q] = "free"
  /\ Free(hand[q].from, hand[q].array)
  /\ hand' = [hand EXCEPT ![q] = NoBurst]
  /\ pc' = [pc EXCEPT ![q] = "nic"]
  /\ UNCHANGED <<alive, friend, rx, content, array>>

-----------------------------------------------------------------------------
(* The calls of the application.                                           *)

\* No thread is polling.
Stopped == \A q \in Queues : pc[q] = "nic"

pg_queue_new(q) ==
  /\ Stopped
  /\ q \notin alive
  /\ alive' = alive \cup {q}
  /\ rx' = [rx EXCEPT ![q] = <<>>]
  /\ friend' = [friend EXCEPT ![q] = NoQueue]
  /\ UNCHANGED <<content, refs, pc, array, hand>>

\* When neither queue has a friend.
pg_queue_friend(q, r) ==
  /\ Stopped
  /\ q \in alive /\ r \in alive
  /\ friend[q] = NoQueue /\ friend[r] = NoQueue
  /\ friend' = [friend EXCEPT ![q] = r, ![r] = q]
  /\ UNCHANGED <<alive, rx, content, refs, pc, array, hand>>

\* Mutant: the friend is not told.
unfriendOneSide(q) == friend' = [friend EXCEPT ![q] = NoQueue]

\* Both queues lose their friend.
unfriend(q) ==
  friend' = IF friend[q] = NoQueue THEN friend
            ELSE [friend EXCEPT ![friend[q]] = NoQueue, ![q] = NoQueue]

\* The bursts of rx whose array holds packet p now.
BurstsOf(q, p) == {k \in 1 .. Len(rx[q]) : content[rx[q][k].from][rx[q][k].array] = p}

\* empty: every burst of rx is taken out and freed.
empty(q) ==
  /\ rx' = [rx EXCEPT ![q] = <<>>]
  /\ refs' = [p \in Packets |-> refs[p] - Cardinality(BurstsOf(q, p))]

pg_queue_unfriend(q) ==
  /\ Stopped
  /\ q \in alive
  /\ unfriend(q)
  /\ UNCHANGED <<alive, rx, content, refs, pc, array, hand>>

queue_reset(q) ==
  /\ Stopped
  /\ q \in alive
  /\ unfriend(q)
  /\ empty(q)
  /\ UNCHANGED <<alive, content, pc, array, hand>>

queue_destroy(q) ==
  /\ Stopped
  /\ q \in alive
  /\ unfriend(q)
  /\ empty(q)
  /\ alive' = alive \ {q}
  /\ UNCHANGED <<content, pc, array, hand>>

\* What pg_queue_pressure returns, a uint8_t.
pg_queue_pressure(q) == ((Len(rx[q]) * 255) \div rx_max_size) % 256

\* The thread that polls the graph of q.
Thread(q) ==
  \/ PollNic(q) \/ PollNicNone(q)
  \/ BurstCheck(q) \/ BurstDrop(q) \/ BurstPush(q) \/ Release(q)
  \/ PollPop(q) \/ PollNothing(q) \/ PollBurst(q) \/ PollFree(q)

Next ==
  \/ \E q \in Queues : \/ Thread(q)
                       \/ pg_queue_new(q) \/ pg_queue_unfriend(q)
                       \/ queue_reset(q) \/ queue_destroy(q)
  \/ \E q, r \in Queues : pg_queue_friend(q, r)

Spec == Init /\ [][Next]_vars

\* A thread polls its graphs over and over (pg_thread_main).
FairSpec == Spec /\ \A q \in Queues : WF_vars(Thread(q))

-----------------------------------------------------------------------------
(* Properties.                                                             *)

\* Friends are friends of each other, and a queue that was destroyed is
\* nobody's friend: queue_poll never reads the rx of a queue that is gone.
FriendsMutual ==
  \A q \in Queues : friend[q] # NoQueue =>
    q \in alive /\ friend[q] \in alive /\ friend[friend[q]] = q

\* A queue never holds more than its size, though queue_burst reads the length
\* before it pushes and the friend takes bursts out in between; and
\* pg_queue_pressure is 255 ("full queue") exactly when a burst that reaches the
\* queue now throws the oldest one away.
SizeBound ==
  \A q \in Queues :
    /\ Len(rx[q]) <= rx_max_size
    /\ q \in alive => (pg_queue_pressure(q) = 255 <=> Len(rx[q]) >= AsInt(rx_max_size))

\* Who holds packet p: the brick that bursts it to q (-1), the queue_poll of q that
\* took it (0), the k-th burst in the rx of q.
Holds(p, q, k) ==
  IF k = -1 THEN pc[q] \in {"check", "drop", "push", "release"} /\ content[q][array[q]] = p
  ELSE IF k = 0 THEN hand[q].pkt = p
  ELSE rx[q][k].pkt = p

Holders(p) == UNION {{<<q, k>> : k \in {j \in -1 .. Len(rx[q]) : Holds(p, q, j)}} : q \in Queues}

\* The reference count of a packet is the number of its holders, whatever the
\* two threads do: queue_burst, queue_poll, reset and destroy neither leak a
\* packet (a positive count nobody will lower) nor free one that is queued.
RefsMatch == \A p \in Packets : refs[p] = Cardinality(Holders(p))

\* Array a of the brick that bursts to queue q is named by a burst in its rx.
Stored(q, a) == \E k \in DOMAIN rx[q] : rx[q][k].array = a

\* A stored burst does not stay for ever: the friend polls it out (or it is
\* dropped for a newer one), unless the queue loses its friend.
StoredLeaves ==
  \A q \in Queues, a \in 1 .. Arrays :
    Stored(q, a) ~> ~Stored(q, a) \/ friend[q] = NoQueue

\* The burst queue_poll sends on holds the packet that was bursted to its
\* friend: "It get burst from [Queue1] and burst to [B]".
PolledIntact ==
  \A q \in Queues : pc[q] = "burst" => content[hand[q].from][hand[q].array] = hand[q].pkt
=============================================================================
