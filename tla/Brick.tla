------------------------------- MODULE Brick --------------------------------
(***************************************************************************)
(* Bricks, their sides and the edges that link them (src/src/brick.c and   *)
(* src/src/brick-int.h).                                                   *)
(*                                                                         *)
(* An edge is stored twice, once in each brick it links: in the array (or  *)
(* the single edge) of a side of one brick, as the other brick and the     *)
(* index at which that brick stores its half.  Every edge holds one        *)
(* reference on each of its two bricks, and the owner of a brick one more. *)
(*                                                                         *)
(* A monopole has one side, that shares its storage with the side PG_WEST  *)
(* of the other bricks; what side its neighbour sees is what link_notify   *)
(* told the brick last, and get_side returns it.  No unlink_notify         *)
(* callback of the repository reports an error, so that do_unlink runs to  *)
(* its end.  Calls that fail change nothing and are left out.              *)
(*                                                                         *)
(* The API is called from one thread.  The walk of pg_brick_unlink over    *)
(* the edges of a brick is modelled edge by edge; pg_brick_chained_links   *)
(* is a sequence of pg_brick_link that stops at the first that fails.      *)
(***************************************************************************)
EXTENDS Integers, FiniteSets

CONSTANTS
  Bricks,   \* the bricks there can be
  Kind,     \* enum pg_brick_type of each
  Max,      \* sides[].max of each; a monopole's side.max is that of WEST
  MaxEdges, \* what check_side_max allows on a side, UINT16_MAX - 1
  NoBrick   \* NULL

Sides == {"WEST", "EAST"}
Indexes == 0 .. MaxEdges - 1
Flip(s) == IF s = "WEST" THEN "EAST" ELSE "WEST"

\* What check_side_max and alloc_edges accept.
ASSUME BrickAssumption ==
  /\ NoBrick \notin Bricks
  /\ Kind \in [Bricks -> {"MONOPOLE", "DIPOLE", "MULTIPOLE"}]
  /\ MaxEdges \in Nat /\ MaxEdges > 0
  /\ Max \in [Bricks -> [Sides -> 0 .. MaxEdges]]
  /\ \A b \in Bricks :
       IF Kind[b] = "MULTIPOLE" THEN Max[b]["WEST"] > 0 \/ Max[b]["EAST"] > 0
       ELSE \A s \in Sides : Max[b][s] <= 1

VARIABLES
  alive,     \* the bricks that are allocated
  refcount,  \* brick->refcount
  link,      \* edges[i].link of each side of each brick
  pair,      \* edges[i].pair_index
  nb,        \* sides[].nb
  at,        \* the side a monopole's get_side returns
  walk       \* the position of pg_brick_generic_unlink

vars == <<alive, refcount, link, pair, nb, at, walk>>

\* The brick that is unlinked, the edge that comes next, and whether
\* pg_brick_destroy is the caller.
NoWalk == [brick |-> NoBrick, side |-> "WEST", edge |-> 0, destroy |-> FALSE]
Walks == [brick: Bricks \cup {NoBrick}, side: Sides, edge: Indexes, destroy: BOOLEAN]

TypeOK ==
  /\ alive \subseteq Bricks
  /\ refcount \in [Bricks -> Int]
  /\ link \in [Bricks -> [Sides -> [Indexes -> Bricks \cup {NoBrick}]]]
  /\ pair \in [Bricks -> [Sides -> [Indexes -> Indexes]]]
  /\ nb \in [Bricks -> [Sides -> Int]]
  /\ at \in [Bricks -> Sides]
  /\ walk \in Walks

Init ==
  /\ alive = {}
  /\ refcount = [b \in Bricks |-> 0]
  /\ link = [b \in Bricks |-> [s \in Sides |-> [i \in Indexes |-> NoBrick]]]
  /\ pair = [b \in Bricks |-> [s \in Sides |-> [i \in Indexes |-> 0]]]
  /\ nb = [b \in Bricks |-> [s \in Sides |-> 0]]
  /\ at = [b \in Bricks |-> "EAST"]
  /\ walk = NoWalk

\* No call is in progress.
Idle == walk = NoWalk

\* Where brick b keeps the edges of side s (get_side, pg_brick_get_edge), and
\* on which side the edges kept at s are.
Store(b, s) == IF Kind[b] = "MONOPOLE" THEN "WEST" ELSE s
SideOf(b, s) == IF Kind[b] = "MONOPOLE" THEN at[b] ELSE s

\* pg_brick_new: a zeroed brick whose owner holds a reference.
pg_brick_new(b) ==
  /\ Idle
  /\ b \notin alive
  /\ alive' = alive \cup {b}
  /\ refcount' = [refcount EXCEPT ![b] = 1]
  /\ link' = [link EXCEPT ![b] = [s \in Sides |-> [i \in Indexes |-> NoBrick]]]
  /\ pair' = [pair EXCEPT ![b] = [s \in Sides |-> [i \in Indexes |-> 0]]]
  /\ nb' = [nb EXCEPT ![b] = [s \in Sides |-> 0]]
  /\ at' = [at EXCEPT ![b] = "EAST"]
  /\ UNCHANGED walk

\* Mutant: a full side still takes an edge.
is_place_availableFull(b, s) == nb[b][Store(b, s)] <= Max[b][Store(b, s)]

is_place_available(b, s) == nb[b][Store(b, s)] < Max[b][Store(b, s)]

\* The index insert_link uses on the side stored at s: the first free one, or
\* the only one of a brick that is no multipole.
InsertAt(b, s, i) ==
  IF Kind[b] = "MULTIPOLE"
  THEN /\ i < Max[b][s]
       /\ link[b][s][i] = NoBrick
       /\ \A j \in 0 .. i - 1 : link[b][s][j] # NoBrick
  ELSE i = 0

\* Mutant: set_edge is given the index of its own brick.
pg_brick_linkOwnIndex(west, east) ==
  LET es == Store(east, "WEST")
      ws == Store(west, "EAST")
  IN
  /\ Idle
  /\ west \in alive /\ east \in alive
  /\ west # east
  /\ is_place_available(east, "WEST")
  /\ is_place_available(west, "EAST")
  /\ \E i, j \in Indexes :
       /\ InsertAt(east, es, i)
       /\ InsertAt(west, ws, j)
       /\ link' = [link EXCEPT ![east][es][i] = west, ![west][ws][j] = east]
       /\ pair' = [pair EXCEPT ![east][es][i] = i, ![west][ws][j] = j]
  /\ nb' = [nb EXCEPT ![east][es] = @ + 1, ![west][ws] = @ + 1]
  /\ refcount' = [refcount EXCEPT ![east] = @ + 1, ![west] = @ + 1]
  /\ at' = [b \in Bricks |-> IF Kind[b] = "MONOPOLE" /\ b = east THEN "WEST"
                             ELSE IF Kind[b] = "MONOPOLE" /\ b = west THEN "EAST"
                             ELSE at[b]]
  /\ UNCHANGED <<alive, walk>>

\* pg_brick_link when it succeeds: both halves of the edge, with the callback
\* link_notify of the monopoles.
pg_brick_link(west, east) ==
  LET es == Store(east, "WEST")
      ws == Store(west, "EAST")
  IN
  /\ Idle
  /\ west \in alive /\ east \in alive
  /\ west # east
  /\ is_place_available(east, "WEST")
  /\ is_place_available(west, "EAST")
  /\ \E i, j \in Indexes :
       /\ InsertAt(east, es, i)
       /\ InsertAt(west, ws, j)
       /\ link' = [link EXCEPT ![east][es][i] = west, ![west][ws][j] = east]
       /\ pair' = [pair EXCEPT ![east][es][i] = j, ![west][ws][j] = i]
  /\ nb' = [nb EXCEPT ![east][es] = @ + 1, ![west][ws] = @ + 1]
  /\ refcount' = [refcount EXCEPT ![east] = @ + 1, ![west] = @ + 1]
  /\ at' = [b \in Bricks |-> IF Kind[b] = "MONOPOLE" /\ b = east THEN "WEST"
                             ELSE IF Kind[b] = "MONOPOLE" /\ b = west THEN "EAST"
                             ELSE at[b]]
  /\ UNCHANGED <<alive, walk>>

\* Mutant: the other half of the edge is not reset.
do_unlinkOneHalf(b, s, i) ==
  LET p  == link[b][s][i]
      ps == Store(p, Flip(SideOf(b, s)))
  IN
  /\ refcount' = [refcount EXCEPT ![b] = @ - 1, ![p] = @ - 1]
  /\ alive' = {x \in alive : refcount'[x] > 0}
  /\ link' = [link EXCEPT ![b][s][i] = NoBrick]
  /\ pair' = [pair EXCEPT ![b][s][i] = 0]
  /\ nb' = [nb EXCEPT ![b][s] = @ - 1, ![p][ps] = @ - 1]
  /\ UNCHANGED at

\* Mutant: the brick at the other end keeps its reference.
do_unlinkOneRef(b, s, i) ==
  LET p  == link[b][s][i]
      ps == Store(p, Flip(SideOf(b, s)))
      j  == pair[b][s][i]
  IN
  /\ refcount' = [refcount EXCEPT ![b] = @ - 1]
  /\ alive' = {x \in alive : refcount'[x] > 0}
  /\ link' = [link EXCEPT ![b][s][i] = NoBrick, ![p][ps][j] = NoBrick]
  /\ pair' = [pair EXCEPT ![b][s][i] = 0, ![p][ps][j] = 0]
  /\ nb' = [nb EXCEPT ![b][s] = @ - 1, ![p][ps] = @ - 1]
  /\ UNCHANGED at

\* do_unlink of the edge that b keeps at side s and index i: each brick loses
\* a reference (and is freed with its last one), then both halves are reset
\* and counted out.
do_unlink(b, s, i) ==
  LET p  == link[b][s][i]
      ps == Store(p, Flip(SideOf(b, s)))
      j  == pair[b][s][i]
  IN
  /\ refcount' = [refcount EXCEPT ![b] = @ - 1, ![p] = @ - 1]
  /\ alive' = {x \in alive : refcount'[x] > 0}
  /\ link' = [link EXCEPT ![b][s][i] = NoBrick, ![p][ps][j] = NoBrick]
  /\ pair' = [pair EXCEPT ![b][s][i] = 0, ![p][ps][j] = 0]
  /\ nb' = [nb EXCEPT ![b][s] = @ - 1, ![p][ps] = @ - 1]
  /\ UNCHANGED at

\* pg_brick_unlink_edge when it succeeds: the first edge from west to east.
pg_brick_unlink_edge(west, east) ==
  LET ws == Store(west, "EAST")
  IN
  /\ Idle
  /\ west \in alive /\ east \in alive
  /\ \E i \in 0 .. Max[west][ws] - 1 :
       /\ link[west][ws][i] = east
       /\ \A j \in 0 .. i - 1 : link[west][ws][j] # east
       /\ do_unlink(west, ws, i)
  /\ UNCHANGED walk

\* pg_brick_unlink and pg_brick_destroy begin to walk the edges of b.
StartWalk(b, destroy) ==
  /\ Idle
  /\ b \in alive
  /\ walk' = [brick |-> b, side |-> "WEST", edge |-> 0, destroy |-> destroy]
  /\ UNCHANGED <<alive, refcount, link, pair, nb, at>>

pg_brick_unlink(b)  == StartWalk(b, FALSE)
pg_brick_destroy(b) == StartWalk(b, TRUE)

\* Mutant: the iterator steps past the last edge of a side.
iterator_nextPastMax ==
  \/ /\ Kind[walk.brick] # "MONOPOLE"
     /\ walk.edge + 1 <= Max[walk.brick][walk.side]
     /\ walk' = [walk EXCEPT !.edge = @ + 1]
  \/ /\ Kind[walk.brick] # "MONOPOLE"
     /\ walk.edge + 1 > Max[walk.brick][walk.side]
     /\ walk.side = "WEST"
     /\ walk' = [walk EXCEPT !.side = "EAST", !.edge = 0]

\* pg_brick_edge_iterator_next, with the edges it skips as steps of their own.
iterator_next ==
  \/ /\ Kind[walk.brick] # "MONOPOLE"
     /\ walk.edge + 1 < Max[walk.brick][walk.side]
     /\ walk' = [walk EXCEPT !.edge = @ + 1]
  \/ /\ Kind[walk.brick] # "MONOPOLE"
     /\ walk.edge + 1 >= Max[walk.brick][walk.side]
     /\ walk.side = "WEST"
     /\ walk' = [walk EXCEPT !.side = "EAST", !.edge = 0]

\* Mutant: the iterator ends with the edges of the first side.
iterator_is_endOneSide ==
  \/ Kind[walk.brick] = "MONOPOLE"
  \/ walk.edge + 1 >= Max[walk.brick][walk.side]

iterator_is_end ==
  \/ Kind[walk.brick] = "MONOPOLE"
  \/ walk.side = "EAST" /\ walk.edge + 1 >= Max[walk.brick][walk.side]

\* pg_brick_decref.
decref(b) ==
  /\ refcount' = [refcount EXCEPT ![b] = @ - 1]
  /\ alive' = {x \in alive : refcount'[x] > 0}

\* One turn of the loop of pg_brick_generic_unlink.  What the edge at the
\* position is linked to is unlinked.
UnlinkEdge ==
  /\ ~Idle
  /\ link[walk.brick][walk.side][walk.edge] # NoBrick
  /\ do_unlink(walk.brick, walk.side, walk.edge)
  /\ UNCHANGED walk

\* The edge at the position is not linked, or not any more.
NextEdge ==
  /\ ~Idle
  /\ link[walk.brick][walk.side][walk.edge] = NoBrick
  /\ iterator_next
  /\ UNCHANGED <<alive, refcount, link, pair, nb, at>>

\* The walk is over: pg_brick_unlink returns, pg_brick_destroy gives up the
\* owner's reference.
WalkReturns ==
  /\ ~Idle
  /\ link[walk.brick][walk.side][walk.edge] = NoBrick
  /\ iterator_is_end
  /\ walk' = NoWalk
  /\ IF walk.destroy THEN decref(walk.brick) ELSE UNCHANGED <<alive, refcount>>
  /\ UNCHANGED <<link, pair, nb, at>>

\* pg_brick_side_forward on side s of a multipole: the edges it bursts to.
pg_brick_side_forward(b, s) == {i \in 0 .. nb[b][s] - 1 : link[b][s][i] # NoBrick}

Next ==
  \/ \E b \in Bricks : pg_brick_new(b) \/ pg_brick_unlink(b) \/ pg_brick_destroy(b)
  \/ \E west, east \in Bricks : pg_brick_link(west, east) \/ pg_brick_unlink_edge(west, east)
  \/ UnlinkEdge \/ NextEdge \/ WalkReturns

Spec == Init /\ [][Next]_vars

-----------------------------------------------------------------------------
(* Properties.                                                             *)

\* The indexes of the edges that b has linked on a side.
Linked(b, s) == {i \in Indexes : link[b][s][i] # NoBrick}

\* p keeps at ps and j the other half of the edge that b keeps at s and i.
Halves(b, s, i, p, ps, j) ==
  /\ p \in alive /\ p # b
  /\ link[p][ps][j] = b /\ pair[p][ps][j] = i
  /\ SideOf(p, ps) = Flip(SideOf(b, s))

\* The two halves of every edge name each other, on opposite sides, and link
\* bricks that are allocated: do_unlink and the bursts always find the half
\* they look for, whatever was linked and unlinked around it.
Pairing ==
  \A b \in alive, s \in Sides : \A i \in Linked(b, s) :
    Halves(b, s, i, link[b][s][i], Store(link[b][s][i], Flip(SideOf(b, s))), pair[b][s][i])

\* nb counts the edges of a side and stays within max, so that a side with
\* room has a free index ("This should never happen", insert_link).
NbCounts ==
  \A b \in alive, s \in Sides :
    /\ nb[b][s] = Cardinality(Linked(b, s))
    /\ Linked(b, s) \subseteq 0 .. Max[b][s] - 1

\* A brick has its owner's reference and one for each of its edges: it is
\* freed by pg_brick_destroy, not before and not too late.
RefCounts ==
  \A b \in alive : refcount[b] = 1 + nb[b]["WEST"] + nb[b]["EAST"]

\* When pg_brick_unlink returns, no brick is linked to the brick any more, and
\* after pg_brick_destroy it is freed.
UnlinkComplete ==
  [][WalkReturns =>
       /\ \A b \in alive', s \in Sides, i \in Indexes : link'[b][s][i] # walk.brick
       /\ \A s \in Sides, i \in Indexes : link'[walk.brick][s][i] = NoBrick
       /\ walk.destroy <=> walk.brick \notin alive']_vars

\* When a step removes the edge that b keeps at s and i, it removes its other
\* half; and what else it removes, at t and j of c, is that half.
Removed(b, s, i) == link[b][s][i] # NoBrick /\ link'[b][s][i] = NoBrick
RemovesOne(b, s, i, c, t, j) ==
  Removed(b, s, i) =>
    /\ link'[link[b][s][i]][Store(link[b][s][i], Flip(SideOf(b, s)))][pair[b][s][i]] = NoBrick
    /\ Removed(c, t, j) => \/ b = c /\ s = t /\ i = j
                           \/ link[b][s][i] = c /\ pair[b][s][i] = j

\* A step removes one edge at most, with both of its halves: "Remove link
\* between two bricks without removing other links" (pg_brick_unlink_edge),
\* also between two bricks with several edges.
OthersKept ==
  [][\A b, c \in alive, s, t \in Sides, i, j \in Indexes : RemovesOne(b, s, i, c, t, j)]_vars

\* A burst forwarded to a side of a multipole reaches everyone linked there.
ForwardReachesAll ==
  \A b \in alive, s \in Sides :
    Kind[b] = "MULTIPOLE" => pg_brick_side_forward(b, s) = Linked(b, s)
=============================================================================
