------------------------------- MODULE Graph --------------------------------
(***************************************************************************)
(* Graphs of bricks: the sets of bricks the application polls and destroys *)
(* together, made by following links, split by a pair of queues and merged *)
(* again.                                                                  *)
(*                                                                         *)
(* A brick is a number, which is the name of the brick too for those of    *)
(* GraphBricks, made by the application; the others are the queues that    *)
(* pg_graph_split makes.  links holds the edges <<west, east>> (at most    *)
(* one between two bricks), friends the pairs of queues, names the names   *)
(* of the bricks that live, graphs the graphs: all, the table of bricks by *)
(* name, is a set of bricks of different names, pollable a list.  wires    *)
(* tells the links the application made and did not undo.  A brick in two  *)
(* graphs would be destroyed twice: there the module stops.                *)
(***************************************************************************)
EXTENDS DataPath, TLC, SequencesExt, FiniteSetsExt

CONSTANTS
  GraphBricks,     \* the bricks of the application
  GraphPollable,   \* those with a poll operation
  QueueNames,      \* the names pg_graph_split may be given
  GraphIds,        \* the graphs
  MaxQueues,       \* bound on the queues that are made
  MaxGraphSteps    \* bound on the links made and undone by hand

NoGraph == [live |-> FALSE, all |-> {}, pollable |-> <<>>]

\* The bricks two graphs have in common.
Shared(s) == UNION {s.graphs[p[1]].all \cap s.graphs[p[2]].all :
                      p \in {p \in GraphIds \X GraphIds : p[1] # p[2]}}

GraphIs == state.kind = "graph" /\ Idle /\ Shared(state) = {}

graph_none ==
  /\ state = [kind |-> "graph", links |-> {}, friends |-> {}, made |-> 0, steps |-> 0,
              names |-> [b \in GraphBricks |-> b],
              graphs |-> [g \in GraphIds |-> NoGraph],
              wires |-> {}]
  /\ call = NoCall /\ sent = <<>>

\* A call leaves s and tells what it did.
GraphCall(s, done) == state' = s /\ call' = done /\ UNCHANGED sent

\* Nothing of this module depends on what such a call did.
GraphSet(s) == state' = s /\ UNCHANGED <<call, sent>>

\* The cell of the next graph.
Free(g) == ~state.graphs[g].live /\ \A h \in GraphIds : h < g => state.graphs[h].live

Live(g) == GraphIs /\ state.graphs[g].live

IsQueue(b) == b \notin GraphBricks
HasPoll(b) == IsQueue(b) \/ b \in GraphPollable

-----------------------------------------------------------------------------
(* Tables of bricks *)

\* The bricks of a graph by name: none or one.
pg_graph_get(s, g, name) == {b \in s.graphs[g].all : s.names[b] = name}

empty_graph(s, g) == [s EXCEPT !.graphs[g].all = {}, !.graphs[g].pollable = <<>>]

\* pg_graph_push, and whether it was done.
Pushes(s, g, b) == pg_graph_get(s, g, s.names[b]) = {}

pg_graph_push(s, g, b) ==
  IF Pushes(s, g, b)
  THEN [s EXCEPT !.graphs[g].all = @ \cup {b},
                 !.graphs[g].pollable = IF HasPoll(b) THEN <<b>> \o @ ELSE @]
  ELSE s

\* Mutant: the brick stays in the list of the bricks to poll.
graph_popKeeps(s, g, b) == [s EXCEPT !.graphs[g].all = @ \ {b}]

graph_pop(s, g, b) ==
  [s EXCEPT !.graphs[g].all = @ \ {b},
            !.graphs[g].pollable = SelectSeq(@, LAMBDA c : c # b)]

\* get_any_brick: the head of pollable, else any brick of the table.
get_any_brick(s, g) ==
  IF s.graphs[g].pollable # <<>> THEN {s.graphs[g].pollable[1]} ELSE s.graphs[g].all

-----------------------------------------------------------------------------
(* Exploration *)

Neighbours(s, b) == {n \in DOMAIN s.names : <<b, n>> \in s.links \/ <<n, b>> \in s.links}

\* The bricks a brick is connected to, with itself: the smallest set that holds it
\* and all neighbours of its members.
Component(s, brick) ==
  LET Grow[n \in Nat] ==
        IF n = 0 THEN {brick} ELSE LET c == Grow[n - 1] IN c \cup UNION {Neighbours(s, b) : b \in c}
  IN Grow[Cardinality(DOMAIN s.names)]

\* explore_add_neighbours: the neighbours that are in neither list come first.
explore_add_neighbours(s, todo, done, b) ==
  Reverse(SetToSortSeq(Neighbours(s, b) \ (ToSet(todo) \cup ToSet(done)), <)) \o todo

RECURSIVE Explored(_, _, _)
Explored(s, todo, done) ==
  IF todo = <<>> THEN done
  ELSE LET b     == Head(todo)
           done1 == <<b>> \o done
       IN Explored(s, explore_add_neighbours(s, Tail(todo), done1, b), done1)

\* The bricks are pushed in the order of done up to the first name that is taken.
RECURSIVE PushAll(_, _, _)
PushAll(s, g, done) ==
  IF done = <<>> THEN [ok |-> TRUE, s |-> s]
  ELSE IF Pushes(s, g, Head(done)) THEN PushAll(pg_graph_push(s, g, Head(done)), g, Tail(done))
  ELSE [ok |-> FALSE, s |-> s]

\* From a brick that was found: what is left of the graph and whether it was done.
pg_graph_explore_ptr(s, g, brick) ==
  LET todo == explore_add_neighbours(s, <<>>, <<>>, brick)
      done == IF todo = <<>> THEN <<brick>> ELSE Explored(s, todo, <<>>)
  IN PushAll(empty_graph(s, g), g, done)

\* pg_graph_new in the cell g: no graph is left when the exploration fails.
pg_graph_new(s, g, brick) ==
  LET r == pg_graph_explore_ptr([s EXCEPT !.graphs[g] = [NoGraph EXCEPT !.live = TRUE]], g, brick)
  IN IF r.ok THEN r ELSE [ok |-> FALSE, s |-> [s EXCEPT !.graphs[g] = NoGraph]]

-----------------------------------------------------------------------------
(* Links, as pg_brick_link and pg_brick_unlink_edge make them for bricks with *)
(* enough edges; a queue has one.                                             *)

Unlinked(s, b) == [s EXCEPT !.links = {l \in @ : b \notin {l[1], l[2]}}]

Unfriended(s, q) == [s EXCEPT !.friends = {f \in @ : q \notin f}]

\* Two bricks of the application are wired by a link or by a pair of queues.
Wired(s) ==
  {l \in s.links : ~IsQueue(l[1]) /\ ~IsQueue(l[2])}
  \cup {<<l[1], k[2]>> : <<l, k>> \in {p \in s.links \X s.links : {p[1][2], p[2][1]} \in s.friends}}

\* pg_brick_destroy of the bricks of a set: the links and friends go with them.
Destroyed(s, bs) ==
  LET s1 == [s EXCEPT !.links = {l \in @ : {l[1], l[2]} \cap bs = {}},
                      !.friends = {f \in @ : f \cap bs = {}},
                      !.names = [b \in DOMAIN @ \ bs |-> @[b]]]
  IN [s1 EXCEPT !.wires = @ \cap Wired(s1)]

\* A queue of this name, numbered after the bricks that were made before.
NewQueue(s, name) ==
  LET q == Max(GraphBricks) + s.made + 1
  IN [q |-> q, s |-> [s EXCEPT !.names = @ @@ (q :> name), !.made = @ + 1]]

-----------------------------------------------------------------------------
(* The calls of the application *)

\* The brick with the lower number is at the west.
Link(w, e) ==
  /\ GraphIs /\ state.steps < MaxGraphSteps
  /\ {w, e} \subseteq DOMAIN state.names \cap GraphBricks
  /\ w < e /\ <<w, e>> \notin state.wires
  /\ GraphSet([state EXCEPT !.links = @ \cup {<<w, e>>}, !.wires = @ \cup {<<w, e>>},
                            !.steps = @ + 1])

Unlink(w, e) ==
  /\ GraphIs /\ state.steps < MaxGraphSteps
  /\ <<w, e>> \in state.links /\ ~IsQueue(w) /\ ~IsQueue(e)
  /\ GraphSet([state EXCEPT !.links = @ \ {<<w, e>>}, !.wires = @ \ {<<w, e>>},
                            !.steps = @ + 1])

New(g, brick) ==
  /\ GraphIs /\ Free(g)
  /\ brick \in DOMAIN state.names
  /\ LET r == pg_graph_new(state, g, brick) IN
     GraphCall(r.s, [op |-> "explore", ok |-> r.ok, g |-> g, from |-> brick])

\* pg_graph_explore from a brick of the graph, or, without a name, from any.
pg_graph_explore(g, name) ==
  /\ Live(g)
  /\ \E brick \in pg_graph_get(state, g, name) \cup get_any_brick(state, g) :
       LET r == pg_graph_explore_ptr(state, g, brick) IN
       GraphCall(r.s, [op |-> "explore", ok |-> r.ok, g |-> g, from |-> brick])

\* pg_graph_unsafe_pop and pg_graph_push by hand.
pg_graph_unsafe_pop(g, name) ==
  /\ Live(g) /\ state.steps < MaxGraphSteps
  /\ \E b \in pg_graph_get(state, g, name) :
       GraphSet([graph_pop(state, g, b) EXCEPT !.steps = @ + 1])

Push(g, b) ==
  /\ Live(g) /\ state.steps < MaxGraphSteps
  /\ b \in DOMAIN state.names /\ b \notin UNION {state.graphs[h].all : h \in GraphIds}
  /\ Pushes(state, g, b)
  /\ GraphSet([pg_graph_push(state, g, b) EXCEPT !.steps = @ + 1])

\* The bricks are left to the application.
pg_graph_empty(g) ==
  /\ Live(g) /\ state.steps < MaxGraphSteps
  /\ GraphSet([empty_graph(state, g) EXCEPT !.steps = @ + 1])

pg_graph_brick_destroy(g, name) ==
  /\ Live(g) /\ state.steps < MaxGraphSteps
  /\ \E b \in pg_graph_get(state, g, name) :
       GraphSet([Destroyed(graph_pop(state, g, b), {b}) EXCEPT !.steps = @ + 1])

\* pg_graph_destroy: the bricks of the table are destroyed with the graph.
pg_graph_destroy(g) ==
  /\ Live(g)
  /\ GraphSet(Destroyed([state EXCEPT !.graphs[g] = NoGraph], state.graphs[g].all))

\* The bricks of pollable are polled up to the first that fails.
pg_graph_poll(g) ==
  /\ Live(g)
  /\ \E n \in 0 .. Len(state.graphs[g].pollable) :
       GraphCall(state, [op |-> "polls", polled |-> SubSeq(state.graphs[g].pollable, 1, n)])

\* pg_graph_sanity compares the sizes of the graph and of what is reached from one
\* of its bricks.
pg_graph_sanity(g) ==
  /\ Live(g)
  /\ \E brick \in get_any_brick(state, g) :
       LET r == pg_graph_explore_ptr(empty_graph(state, g), g, brick) IN
       GraphCall(state, [op |-> "sanity", g |-> g, from |-> brick,
         ok |-> r.ok /\ Cardinality(r.s.graphs[g].all) = Cardinality(state.graphs[g].all)])

\* pg_graph_split: what was done before a failure stays.
pg_graph_split(g, h, w, e, west_queue_name, east_queue_name) ==
  /\ Live(g) /\ Free(h)
  /\ state.made + 2 <= MaxQueues
  /\ {w, e} \subseteq state.graphs[g].all /\ <<w, e>> \in state.links
  /\ LET west == NewQueue([state EXCEPT !.links = @ \ {<<w, e>>}], west_queue_name)
         east == NewQueue(west.s, east_queue_name)
         qw   == west.q
         qe   == east.q
         s1   == [east.s EXCEPT !.links = @ \cup {<<w, qw>>, <<qe, e>>},
                                !.friends = @ \cup {{qw, qe}}]
         r1   == pg_graph_explore_ptr(s1, g, qw)
         r2   == IF r1.ok THEN pg_graph_new(r1.s, h, qe) ELSE r1
     IN GraphCall(r2.s, [op |-> "split", ok |-> r2.ok, g |-> g, h |-> h, from |-> qw, qe |-> qe,
                         before |-> state.graphs[g].all,
                         whole |-> state.graphs[g].all = Component(state, w)])

\* get_all_queues
get_all_queues(s, g) == {b \in ToSet(s.graphs[g].pollable) : IsQueue(b)}

\* The neighbours of two friends, if both have one, are linked together.
merge_queues(s, q1, q2) ==
  LET s1 == Unlinked(Unlinked(Unfriended(s, q1), q1), q2)
  IN [s1 EXCEPT !.links = @ \cup {<<b1, b2>> : b1 \in Neighbours(s, q1), b2 \in Neighbours(s, q2)}]

\* pg_graph_merge: the west graph is explored again from any of its bricks.  As its
\* name says it is at the west of the queues.
pg_graph_merge(g, h) ==
  /\ Live(g) /\ Live(h) /\ g # h
  /\ LET pairs == {p \in get_all_queues(state, g) \X get_all_queues(state, h) :
                     {p[1], p[2]} \in state.friends}
         s1    == FoldSet(LAMBDA p, s : merge_queues(s, p[1], p[2]), state, pairs)
         s2    == FoldSet(LAMBDA p, s : graph_pop(graph_pop(s, g, p[1]), h, p[2]), s1, pairs)
         s3    == [Destroyed(s2, UNION {{p[1], p[2]} : p \in pairs})
                   EXCEPT !.graphs[h] = NoGraph, !.wires = state.wires]
         from  == get_any_brick(s3, g)
     IN /\ \A p \in pairs, l \in state.links : l[1] # p[1]
        /\ \/ from = {} /\ GraphSet(s3)
           \/ \E b \in from :
                LET r == pg_graph_explore_ptr(s3, g, b) IN
                GraphCall(r.s, [op |-> "explore", ok |-> r.ok, g |-> g, from |-> b])

GraphNext ==
  \/ \E w, e \in GraphBricks : Link(w, e) \/ Unlink(w, e)
  \/ \E g \in GraphIds :
       \/ \E b \in DOMAIN state.names : New(g, b) \/ Push(g, b)
       \/ \E name \in Range(state.names) :
            pg_graph_explore(g, name) \/ pg_graph_unsafe_pop(g, name) \/ pg_graph_brick_destroy(g, name)
       \/ pg_graph_empty(g) \/ pg_graph_destroy(g) \/ pg_graph_poll(g) \/ pg_graph_sanity(g)
       \/ \E h \in GraphIds : pg_graph_merge(g, h)
       \/ \E h \in GraphIds, l \in state.links \cap (GraphBricks \X GraphBricks), n1, n2 \in QueueNames :
            pg_graph_split(g, h, l[1], l[2], n1, n2)

-----------------------------------------------------------------------------
(* Properties. *)

SameName(s, bs) == \E b, c \in bs : b # c /\ s.names[b] = s.names[c]

\* The graph holds exactly these bricks, and polls each that can be polled once.
Holds(s, g, bs) ==
  /\ s.graphs[g].all = bs
  /\ IsInjective(s.graphs[g].pollable)
  /\ ToSet(s.graphs[g].pollable) = {b \in bs : HasPoll(b)}

\* A graph that was explored (pg_graph_new, pg_graph_explore, pg_graph_split,
\* pg_graph_merge) holds the bricks connected to the one it was explored from, no
\* less and no more; it only fails when two of them have the same name.  The two
\* graphs of a split have no brick in common unless the bricks on both sides of
\* the link were connected in another way too, and together they hold what was
\* connected before with the two queues.  pg_graph_sanity accepts a graph that
\* holds what is connected to it.
GraphExplored ==
  state.kind = "graph" =>
    LET last == call
        c    == Component(state, last.from)
    IN CASE last.op = "explore" ->
              IF last.ok THEN Holds(state, last.g, c) ELSE SameName(state, c)
         [] last.op = "split" ->
              LET d == Component(state, last.qe) IN
              IF last.ok
              THEN /\ Holds(state, last.g, c) /\ Holds(state, last.h, d)
                   /\ last.qe \notin c => c \cap d = {}
                   /\ last.whole => c \cup d = last.before \cup {last.from, last.qe}
              ELSE SameName(state, c) \/ SameName(state, d)
         [] last.op = "sanity" -> state.graphs[last.g].all = c => last.ok
         [] OTHER -> TRUE

\* Whatever is split and merged in between, in any order and even when it fails
\* half-way (pg_graph_split undoes nothing), two bricks are connected, by a link
\* or by two friend queues, exactly when the application linked them and with the
\* same sides, and what a graph polls is in it and lives.
GraphWired ==
  state.kind = "graph" =>
    /\ Wired(state) = state.wires
    /\ Shared(state) = {} =>
         \A g \in GraphIds : /\ ToSet(state.graphs[g].pollable) \subseteq state.graphs[g].all
                            /\ state.graphs[g].all \subseteq DOMAIN state.names

\* The graphs hold what is connected, and splitting and merging them changes nothing
\* of what is (pg_graph_explore, pg_graph_split, pg_graph_merge, pg_graph_sanity).
GraphExact == GraphExplored /\ GraphWired
=============================================================================
