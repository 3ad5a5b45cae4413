------------------------------ MODULE DataPath ------------------------------
(***************************************************************************)
(* What the data path of every brick has in common: one brick, the         *)
(* neighbours it is linked to, and the bursts they make.                   *)
(*                                                                         *)
(* A burst is an array of packets and a mask of 64 bits that tells which   *)
(* cells of the array count: here a function from Slots and a set of       *)
(* Slots.                                                                  *)
(***************************************************************************)
EXTENDS BrickState, Integers, Sequences, FiniteSets, Functions

CONSTANTS Slots   \* the cells of an array of packets, 0 .. 63

ASSUME SlotsAssumption == IsFiniteSet(Slots) /\ Slots = 0 .. Cardinality(Slots) - 1

\* PG_MAX_PKTS_BURST, the bits of a mask.
BurstMax == Cardinality(Slots)

Sides == {"WEST", "EAST"}

\* pg_flip_side
Flip(side) == IF side = "WEST" THEN "EAST" ELSE "WEST"

\* A port of a brick is a side and the index of an edge on this side.
Port(side, index) == <<side, index>>

\* pg_mask_firsts: the n lowest bits.
pg_mask_firsts(n) == {s \in Slots : s < n}

\* A brick makes the bursts of plan in order and stops at the first one its
\* neighbour refuses, the failing-th (0: none is refused).
Bursts(plan, failing) == IF failing = 0 THEN plan ELSE SubSeq(plan, 1, failing)

ToPort(port, mask) == [port |-> port, mask |-> mask]

\* The end of the burst handler of a brick that keeps nothing: the bursts of
\* plan, and 0 unless one of them is refused.  A port without a neighbour is one
\* that takes everything (pg_brick_burst of no brick is 0).
Deliver(from, pkts, mask, plan) ==
  \E failing \in 0 .. Len(plan) :
    /\ sent' = Bursts(plan, failing)
    /\ call' = [op |-> "burst", from |-> from, pkts |-> pkts, mask |-> mask,
                ret |-> IF failing = 0 THEN 0 ELSE -1]
    /\ UNCHANGED state

\* What a port got during the last call.
SentOn(port) == UNION {b.mask : b \in {b \in Range(sent) : b.port = port}}

\* The call was one of the data path and its neighbours accepted everything.
Burst == call.op = "burst" /\ call.ret = 0
=============================================================================
