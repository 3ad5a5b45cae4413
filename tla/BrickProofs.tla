---------------------------- MODULE BrickProofs -----------------------------
(***************************************************************************)
(* Proofs about Brick, for every set of bricks and every number of edges.  *)
(*                                                                         *)
(* BInv is inductive for every call but the walk of pg_brick_unlink: it    *)
(* adds to the properties that a monopole keeps its edge at WEST, which    *)
(* do_unlink needs to find the half it came from.  WalkOK says what the    *)
(* walk has left behind it.                                                *)
(***************************************************************************)
EXTENDS Brick, FiniteSetTheorems, TLAPS

MonoWest ==
  \A b \in alive : Kind[b] = "MONOPOLE" => \A i \in Indexes : link[b]["EAST"][i] = NoBrick

BInv == TypeOK /\ Pairing /\ NbCounts /\ RefCounts /\ MonoWest

WalkOK ==
  walk # NoWalk =>
    /\ walk.brick \in alive
    /\ walk.side = "EAST" => \A i \in Indexes : link[walk.brick]["WEST"][i] = NoBrick
    /\ \A i \in Indexes : i < walk.edge => link[walk.brick][walk.side][i] = NoBrick
    /\ Kind[walk.brick] = "MONOPOLE" => walk.side = "WEST" /\ walk.edge = 0

IInv == BInv /\ WalkOK

-----------------------------------------------------------------------------
(* Updates of two entries of an array, and what a side counts.             *)

\* An array of the edges of every brick.
Arrays(V) == [Bricks -> [Sides -> [Indexes -> V]]]

\* An update of one half of an edge in each of two bricks, and its entries.
Update(f, b, s, i, v, c, t, j, w) == [f EXCEPT ![b][s][i] = v, ![c][t][j] = w]
Updated(f, g, b, s, i, v, c, t, j, w) ==
  \A x \in Bricks, y \in Sides, k \in Indexes :
    g[x][y][k] = IF x = b /\ y = s /\ k = i THEN v
                 ELSE IF x = c /\ y = t /\ k = j THEN w
                 ELSE f[x][y][k]

\* Update changes the two entries and no other.
LEMMA TwoHalves ==
  ASSUME NEW V, NEW f \in Arrays(V),
         NEW b \in Bricks, NEW s \in Sides, NEW i \in Indexes, NEW v \in V,
         NEW c \in Bricks, NEW t \in Sides, NEW j \in Indexes, NEW w \in V,
         b # c
  PROVE  LET g == Update(f, b, s, i, v, c, t, j, w)
         IN  g \in Arrays(V) /\ Updated(f, g, b, s, i, v, c, t, j, w)
BY ZenonT(60) DEF Update, Updated, Arrays

\* The edges of a side are finitely many.
LEMMA LinkedFinite ==
  ASSUME NEW b, NEW s
  PROVE  /\ IsFiniteSet(Linked(b, s))
         /\ Cardinality(Linked(b, s)) \in Nat
         /\ Cardinality(Linked(b, s)) = 0 <=> Linked(b, s) = {}
<1>1. 0 \in Int /\ MaxEdges - 1 \in Int
  BY BrickAssumption
<1>2. IsFiniteSet(Indexes)
  BY <1>1, FS_Interval DEF Indexes
<1>3. IsFiniteSet(Linked(b, s))
  BY <1>2, FS_Subset DEF Linked
<1>. QED
  BY <1>3, FS_CardinalityType, FS_EmptySet

\* A side that is_place_available accepts has an index for insert_link, and
\* the index is free.
LEMMA FreeIndex ==
  ASSUME BInv, NEW b \in alive, NEW s \in Sides, NEW i \in Indexes,
         s = Store(b, s), nb[b][s] < Max[b][s], InsertAt(b, s, i)
  PROVE  /\ link[b][s][i] = NoBrick
         /\ i < Max[b][s]
         /\ Kind[b] # "MULTIPOLE" => Linked(b, s) = {}
<1>1. CASE Kind[b] = "MULTIPOLE"
  BY <1>1 DEF InsertAt
<1>2. CASE Kind[b] # "MULTIPOLE"
  <2>1. Max[b][s] <= 1 /\ Max[b][s] \in Int
    BY <1>2, BrickAssumption DEF BInv, TypeOK
  <2>2. nb[b][s] = Cardinality(Linked(b, s))
    BY DEF BInv, NbCounts
  <2>3. Cardinality(Linked(b, s)) = 0
    BY <2>1, <2>2, LinkedFinite
  <2>4. Linked(b, s) = {}
    BY <2>3, LinkedFinite
  <2>. QED
    BY <1>2, <2>1, <2>2, <2>3, <2>4 DEF InsertAt, Linked
<1>. QED
  BY <1>1, <1>2

\* p keeps at ps and j the other half of the edge that b keeps at s and i.
Other(b, s, i, p, ps, j) ==
  /\ p = link[b][s][i] /\ ps = Store(p, Flip(SideOf(b, s))) /\ j = pair[b][s][i]
  /\ p \in alive /\ p # b /\ p \in Bricks /\ b \in Bricks
  /\ p # NoBrick /\ b # NoBrick
  /\ link[p][ps][j] = b /\ pair[p][ps][j] = i
  /\ SideOf(p, ps) = Flip(SideOf(b, s))

\* Every edge of a brick has its other half.
LEMMA OtherHalf ==
  ASSUME BInv, NEW b \in alive, NEW s \in Sides, NEW i \in Indexes, link[b][s][i] # NoBrick
  PROVE  \E p \in alive, ps \in Sides, j \in Indexes : Other(b, s, i, p, ps, j)
<1>. DEFINE p  == link[b][s][i]
            ps == Store(p, Flip(SideOf(b, s)))
            j  == pair[b][s][i]
<1>1. i \in Linked(b, s)
  BY DEF Linked
<1>2. /\ p \in alive /\ p # b
      /\ link[p][ps][j] = b /\ pair[p][ps][j] = i
      /\ SideOf(p, ps) = Flip(SideOf(b, s))
  <2>1. Halves(b, s, i, p, ps, j)
    BY <1>1 DEF BInv, Pairing
  <2>. HIDE DEF p, ps, j
  <2>. QED
    BY <2>1 DEF Halves
<1>3. /\ p \in Bricks /\ b \in Bricks /\ p # NoBrick /\ b # NoBrick
      /\ j \in Indexes
  <2>1. NoBrick \notin Bricks
    BY BrickAssumption
  <2>2. /\ alive \subseteq Bricks
        /\ pair \in [Bricks -> [Sides -> [Indexes -> Indexes]]]
    BY DEF BInv, TypeOK
  <2>3. b \in Bricks
    BY <2>2
  <2>4. pair[b][s][i] \in Indexes
    BY <2>2, <2>3
  <2>5. p \in Bricks
    BY <1>2, <2>2, Zenon
  <2>. QED
    BY <2>1, <2>3, <2>4, <2>5
<1>4. ps \in Sides
  BY DEF Store, Flip, Sides
<1>. HIDE DEF p, ps, j
<1>5. Other(b, s, i, p, ps, j)
  BY <1>2, <1>3, Zenon DEF Other, p, ps, j
<1>. QED
  BY <1>2, <1>3, <1>4, <1>5

-----------------------------------------------------------------------------
(* pg_brick_link.                                                          *)

\* What pg_brick_link does, entry by entry: es and i are where east keeps its
\* half of the new edge, ws and j where west does.
Linking(west, east, es, ws, i, j) ==
  /\ west \in alive /\ east \in alive /\ west # east
  /\ es = Store(east, "WEST") /\ ws = Store(west, "EAST")
  /\ link[east][es][i] = NoBrick /\ i < Max[east][es]
  /\ link[west][ws][j] = NoBrick /\ j < Max[west][ws]
  /\ Kind[east] = "MONOPOLE" => \A k \in Indexes : link[east]["WEST"][k] = NoBrick
  /\ Kind[west] = "MONOPOLE" => \A k \in Indexes : link[west]["WEST"][k] = NoBrick
  /\ Updated(link, link', east, es, i, west, west, ws, j, east)
  /\ Updated(pair, pair', east, es, i, j, west, ws, j, i)
  /\ \A b \in Bricks, s \in Sides :
       nb'[b][s] = IF b = east /\ s = es THEN nb[b][s] + 1
                   ELSE IF b = west /\ s = ws THEN nb[b][s] + 1
                   ELSE nb[b][s]
  /\ \A b \in Bricks : refcount'[b] = IF b \in {west, east} THEN refcount[b] + 1
                                      ELSE refcount[b]

\* pg_brick_link adds one edge, and keeps the types.
LEMMA LinkEntries ==
  ASSUME BInv, NEW west \in Bricks, NEW east \in Bricks, pg_brick_link(west, east)
  PROVE  /\ TypeOK'
         /\ \E es, ws \in Sides, i, j \in Indexes : Linking(west, east, es, ws, i, j)
<1>. DEFINE es == Store(east, "WEST")
            ws == Store(west, "EAST")
<1>1. es \in Sides /\ ws \in Sides /\ es = Store(east, es) /\ ws = Store(west, ws)
  BY DEF Store, Sides
<1>2. PICK i \in Indexes, j \in Indexes :
         /\ InsertAt(east, es, i)
         /\ InsertAt(west, ws, j)
         /\ link' = [link EXCEPT ![east][es][i] = west, ![west][ws][j] = east]
         /\ pair' = [pair EXCEPT ![east][es][i] = j, ![west][ws][j] = i]
  BY Zenon DEF pg_brick_link
<1>3. /\ west \in alive /\ east \in alive /\ west # east
      /\ nb[east][es] < Max[east][es] /\ nb[west][ws] < Max[west][ws]
      /\ nb' = [nb EXCEPT ![east][es] = nb[east][es] + 1, ![west][ws] = nb[west][ws] + 1]
      /\ refcount' = [refcount EXCEPT ![east] = @ + 1, ![west] = @ + 1]
      /\ at' = [b \in Bricks |-> IF Kind[b] = "MONOPOLE" /\ b = east THEN "WEST"
                                 ELSE IF Kind[b] = "MONOPOLE" /\ b = west THEN "EAST"
                                 ELSE at[b]]
      /\ UNCHANGED <<alive, walk>>
  BY DEF pg_brick_link, is_place_available, BInv, TypeOK
<1>4. /\ link[east][es][i] = NoBrick /\ i < Max[east][es]
      /\ Kind[east] = "MONOPOLE" => \A k \in Indexes : link[east]["WEST"][k] = NoBrick
  <2>. HIDE DEF es, ws
  <2>1. /\ link[east][es][i] = NoBrick /\ i < Max[east][es]
        /\ Kind[east] # "MULTIPOLE" => Linked(east, es) = {}
    BY <1>1, <1>2, <1>3, FreeIndex
  <2>2. Kind[east] = "MONOPOLE" => es = "WEST"
    BY DEF es, Store
  <2>. QED
    BY <2>1, <2>2 DEF Linked
<1>5. /\ link[west][ws][j] = NoBrick /\ j < Max[west][ws]
      /\ Kind[west] = "MONOPOLE" => \A k \in Indexes : link[west]["WEST"][k] = NoBrick
  <2>. HIDE DEF es, ws
  <2>1. /\ link[west][ws][j] = NoBrick /\ j < Max[west][ws]
        /\ Kind[west] # "MULTIPOLE" => Linked(west, ws) = {}
    BY <1>1, <1>2, <1>3, FreeIndex
  <2>2. Kind[west] = "MONOPOLE" => ws = "WEST"
    BY DEF ws, Store
  <2>. QED
    BY <2>1, <2>2 DEF Linked
<1>. HIDE DEF es, ws
<1>6. /\ link' \in Arrays(Bricks \cup {NoBrick})
      /\ Updated(link, link', east, es, i, west, west, ws, j, east)
  <2>1. /\ link \in Arrays(Bricks \cup {NoBrick})
        /\ west \in Bricks \cup {NoBrick} /\ east \in Bricks \cup {NoBrick}
    BY DEF BInv, TypeOK, Arrays
  <2>2. link' = Update(link, east, es, i, west, west, ws, j, east)
    BY <1>2 DEF Update
  <2>. QED
    BY <1>1, <1>3, <2>1, <2>2, TwoHalves, Zenon
<1>7. /\ pair' \in Arrays(Indexes)
      /\ Updated(pair, pair', east, es, i, j, west, ws, j, i)
  <2>1. pair \in Arrays(Indexes)
    BY DEF BInv, TypeOK, Arrays
  <2>2. pair' = Update(pair, east, es, i, j, west, ws, j, i)
    BY <1>2 DEF Update
  <2>. QED
    BY <1>1, <1>3, <2>1, <2>2, TwoHalves
<1>8. /\ nb' \in [Bricks -> [Sides -> Int]]
      /\ \A b \in Bricks, s \in Sides :
           nb'[b][s] = IF b = east /\ s = es THEN nb[b][s] + 1
                       ELSE IF b = west /\ s = ws THEN nb[b][s] + 1
                       ELSE nb[b][s]
  <2>1. nb \in [Bricks -> [Sides -> Int]]
    BY DEF BInv, TypeOK
  <2>2. nb[east][es] + 1 \in Int /\ nb[west][ws] + 1 \in Int
    BY <1>1, <2>1
  <2>. QED
    BY <1>1, <1>3, <2>1, <2>2, Zenon
<1>9. /\ refcount' \in [Bricks -> Int]
      /\ \A b \in Bricks : refcount'[b] = IF b \in {west, east} THEN refcount[b] + 1
                                          ELSE refcount[b]
  BY <1>3 DEF BInv, TypeOK
<1>10. TypeOK'
  <2>1. at' \in [Bricks -> Sides]
    BY <1>3 DEF BInv, TypeOK, Sides
  <2>. QED
    BY <1>3, <1>6, <1>7, <1>8, <1>9, <2>1, Zenon DEF BInv, TypeOK, Arrays
<1>11. Linking(west, east, es, ws, i, j)
  <2>1. es = Store(east, "WEST") /\ ws = Store(west, "EAST")
    BY DEF es, ws
  <2>. QED
    BY <1>3, <1>4, <1>5, <1>6, <1>7, <1>8, <1>9, <2>1, Zenon DEF Linking
<1>. QED
  BY <1>1, <1>10, <1>11

\* SideOf after the step.
SideNext(b, s) == IF Kind[b] = "MONOPOLE" THEN at'[b] ELSE s

\* The side an edge is on does not change: a monopole that is linked has no
\* room for another edge.
LEMMA LinkKeepsSides ==
  ASSUME BInv, NEW west \in Bricks, NEW east \in Bricks, pg_brick_link(west, east),
         NEW es \in Sides, NEW ws \in Sides, NEW i \in Indexes, NEW j \in Indexes,
         Linking(west, east, es, ws, i, j),
         NEW b \in alive, NEW s \in Sides, NEW k \in Indexes, link[b][s][k] # NoBrick
  PROVE  SideNext(b, s) = SideOf(b, s)
<1>1. b \in Bricks
  BY DEF BInv, TypeOK
<1>2. at'[b] = IF Kind[b] = "MONOPOLE" /\ b = east THEN "WEST"
               ELSE IF Kind[b] = "MONOPOLE" /\ b = west THEN "EAST"
               ELSE at[b]
  BY <1>1 DEF pg_brick_link
<1>3. Kind[b] = "MONOPOLE" => b # east /\ b # west
  BY DEF Linking, BInv, MonoWest, Sides
<1>. QED
  BY <1>2, <1>3 DEF SideOf, SideNext

\* The halves of every edge still name each other.
LEMMA LinkKeepsPairing ==
  ASSUME BInv, NEW west \in Bricks, NEW east \in Bricks, pg_brick_link(west, east),
         NEW es \in Sides, NEW ws \in Sides, NEW i \in Indexes, NEW j \in Indexes,
         Linking(west, east, es, ws, i, j)
  PROVE  Pairing'
<1>. SUFFICES ASSUME NEW b \in alive', NEW s \in Sides, NEW k \in Linked(b, s)'
              PROVE  LET p  == link'[b][s][k]
                         ps == Store(p, Flip(SideNext(b, s)))
                         l  == pair'[b][s][k]
                     IN  /\ p \in alive' /\ p # b
                         /\ link'[p][ps][l] = b /\ pair'[p][ps][l] = k
                         /\ SideNext(p, ps) = Flip(SideNext(b, s))
  BY Zenon DEF Pairing, Halves, Store, SideOf, SideNext
<1>1. /\ alive' = alive /\ b \in alive /\ b \in Bricks /\ k \in Indexes
      /\ link'[b][s][k] # NoBrick
      /\ \A c \in Bricks : at'[c] = IF Kind[c] = "MONOPOLE" /\ c = east THEN "WEST"
                                    ELSE IF Kind[c] = "MONOPOLE" /\ c = west THEN "EAST"
                                    ELSE at[c]
  BY DEF pg_brick_link, BInv, TypeOK, Linked
<1>2. /\ es = Store(east, "WEST") /\ ws = Store(west, "EAST")
      /\ west \in alive /\ east \in alive /\ west # east
  BY DEF Linking
<1>3. SideNext(east, es) = "WEST" /\ SideNext(west, ws) = "EAST"
  BY <1>1, <1>2 DEF SideNext, Store
<1>4. /\ link'[east][es][i] = west /\ pair'[east][es][i] = j
      /\ link'[west][ws][j] = east /\ pair'[west][ws][j] = i
  BY <1>2 DEF Linking, Updated
<1>5. CASE b = east /\ s = es /\ k = i
  BY <1>1, <1>2, <1>3, <1>4, <1>5, Zenon DEF Flip
<1>6. CASE b = west /\ s = ws /\ k = j
  BY <1>1, <1>2, <1>3, <1>4, <1>6, Zenon DEF Flip
<1>7. CASE ~(b = east /\ s = es /\ k = i) /\ ~(b = west /\ s = ws /\ k = j)
  <2>1. /\ link[b][s][k] # NoBrick
        /\ link'[b][s][k] = link[b][s][k] /\ pair'[b][s][k] = pair[b][s][k]
    BY <1>1, <1>7 DEF Linking, Updated
  <2>2. PICK p \in alive, ps \in Sides, l \in Indexes : Other(b, s, k, p, ps, l)
    BY <1>1, <2>1, OtherHalf
  <2>3. /\ p = link[b][s][k] /\ ps = Store(p, Flip(SideOf(b, s))) /\ l = pair[b][s][k]
        /\ p # b /\ p \in Bricks /\ b # NoBrick
        /\ link[p][ps][l] = b /\ pair[p][ps][l] = k
        /\ SideOf(p, ps) = Flip(SideOf(b, s))
    BY <2>2, Zenon DEF Other
  <2>4. ~(p = east /\ ps = es /\ l = i) /\ ~(p = west /\ ps = ws /\ l = j)
    BY <2>3, Zenon DEF Linking
  <2>5. link'[p][ps][l] = b /\ pair'[p][ps][l] = k
    <3>1. /\ Updated(link, link', east, es, i, west, west, ws, j, east)
          /\ Updated(pair, pair', east, es, i, j, west, ws, j, i)
      BY DEF Linking
    <3>2. p \in Bricks
      BY <2>3, Zenon
    <3>3. link'[p][ps][l] = link[p][ps][l] /\ pair'[p][ps][l] = pair[p][ps][l]
      BY ONLY <2>4, <3>1, <3>2, ps \in Sides, l \in Indexes DEF Updated
    <3>. QED
      BY <2>3, <3>3, Zenon
  <2>6. SideNext(b, s) = SideOf(b, s) /\ SideNext(p, ps) = SideOf(p, ps)
    <3>1. link[b][s][k] # NoBrick /\ link[p][ps][l] # NoBrick
      BY <2>1, <2>3, Zenon
    <3>. QED
      BY <1>1, <3>1, LinkKeepsSides
  <2>. QED
    BY <1>1, <2>1, <2>3, <2>5, <2>6, Zenon
<1>. QED
  BY <1>5, <1>6, <1>7, Zenon

\* The counters follow the edges.
LEMMA LinkKeepsCounts ==
  ASSUME BInv, NEW west \in Bricks, NEW east \in Bricks, pg_brick_link(west, east),
         NEW es \in Sides, NEW ws \in Sides, NEW i \in Indexes, NEW j \in Indexes,
         Linking(west, east, es, ws, i, j)
  PROVE  NbCounts' /\ RefCounts' /\ MonoWest'
<1>1. /\ alive' = alive /\ alive \subseteq Bricks
      /\ west \in alive /\ east \in alive /\ west # east
      /\ west # NoBrick /\ east # NoBrick
  BY BrickAssumption DEF pg_brick_link, BInv, TypeOK
<1>2. ASSUME NEW b \in alive, NEW s \in Sides
      PROVE  /\ nb'[b][s] = Cardinality(Linked(b, s)')
             /\ Linked(b, s)' \subseteq 0 .. Max[b][s] - 1
  <2>1. /\ nb[b][s] = Cardinality(Linked(b, s)) /\ b \in Bricks
        /\ Linked(b, s) \subseteq 0 .. Max[b][s] - 1
    BY <1>1 DEF BInv, NbCounts
  <2>2. ASSUME NEW k \in Indexes, k < Max[b][s], link[b][s][k] = NoBrick,
               nb'[b][s] = nb[b][s] + 1,
               Linked(b, s)' = Linked(b, s) \cup {k}
        PROVE  /\ nb'[b][s] = Cardinality(Linked(b, s)')
               /\ Linked(b, s)' \subseteq 0 .. Max[b][s] - 1
    <3>1. k \notin Linked(b, s)
      BY <2>2 DEF Linked
    <3>2. Cardinality(Linked(b, s) \cup {k}) = Cardinality(Linked(b, s)) + 1
      BY <3>1, LinkedFinite, FS_AddElement, Zenon
    <3>3. k \in 0 .. Max[b][s] - 1
      BY <2>1, <2>2, BrickAssumption DEF Indexes
    <3>. QED
      BY <2>1, <2>2, <3>2, <3>3
  <2>3. CASE b = east /\ s = es
    <3>1. Linked(b, s)' = Linked(b, s) \cup {i}
      <4>1. Updated(link, link', east, es, i, west, west, ws, j, east)
        BY DEF Linking
      <4>2. \A k \in Indexes : link'[b][s][k] = IF k = i THEN west ELSE link[b][s][k]
        BY <1>1, <2>1, <2>3, <4>1 DEF Updated, Linking
      <4>. QED
        BY <1>1, <2>3, <4>2 DEF Linked
    <3>2. /\ i < Max[b][s] /\ link[b][s][i] = NoBrick
          /\ nb'[b][s] = nb[b][s] + 1
      BY <2>1, <2>3 DEF Linking
    <3>. QED
      BY <2>2, <3>1, <3>2, Zenon
  <2>4. CASE b = west /\ s = ws
    <3>1. Linked(b, s)' = Linked(b, s) \cup {j}
      <4>1. Updated(link, link', east, es, i, west, west, ws, j, east)
        BY DEF Linking
      <4>2. \A k \in Indexes : link'[b][s][k] = IF k = j THEN east ELSE link[b][s][k]
        BY <1>1, <2>1, <2>4, <4>1 DEF Updated, Linking
      <4>. QED
        BY <1>1, <2>4, <4>2 DEF Linked
    <3>2. /\ j < Max[b][s] /\ link[b][s][j] = NoBrick
          /\ nb'[b][s] = nb[b][s] + 1
      BY <1>1, <2>1, <2>4 DEF Linking
    <3>. QED
      BY <2>2, <3>1, <3>2, Zenon
  <2>5. CASE ~(b = east /\ s = es) /\ ~(b = west /\ s = ws)
    <3>1. Linked(b, s)' = Linked(b, s)
      BY <2>1, <2>5 DEF Linked, Linking, Updated
    <3>2. nb'[b][s] = nb[b][s]
      BY <2>1, <2>5 DEF Linking
    <3>. QED
      BY <2>1, <3>1, <3>2
  <2>. QED
    BY <2>3, <2>4, <2>5
<1>3. NbCounts'
  BY <1>1, <1>2 DEF NbCounts
<1>4. RefCounts'
  <2>. SUFFICES ASSUME NEW b \in alive
                PROVE  refcount'[b] = 1 + nb'[b]["WEST"] + nb'[b]["EAST"]
    BY <1>1 DEF RefCounts
  <2>1. /\ refcount[b] = 1 + nb[b]["WEST"] + nb[b]["EAST"] /\ b \in Bricks
        /\ nb[b]["WEST"] \in Int /\ nb[b]["EAST"] \in Int
    BY <1>1 DEF BInv, RefCounts, TypeOK, Sides
  <2>2. /\ refcount'[b] = IF b \in {west, east} THEN refcount[b] + 1 ELSE refcount[b]
        /\ \A s \in Sides : nb'[b][s] = IF b = east /\ s = es THEN nb[b][s] + 1
                                        ELSE IF b = west /\ s = ws THEN nb[b][s] + 1
                                        ELSE nb[b][s]
    BY <2>1 DEF Linking
  <2>. QED
    BY <1>1, <2>1, <2>2 DEF Sides
<1>5. MonoWest'
  BY <1>1 DEF MonoWest, BInv, Linking, Updated, Store, Sides
<1>. QED
  BY <1>3, <1>4, <1>5

\* pg_brick_link preserves the invariant.
LEMMA LinkKeeps ==
  ASSUME IInv, NEW west \in Bricks, NEW east \in Bricks, pg_brick_link(west, east)
  PROVE  IInv'
<1>1. BInv /\ TypeOK'
  BY LinkEntries DEF IInv
<1>2. PICK es \in Sides, ws \in Sides, i \in Indexes, j \in Indexes :
         Linking(west, east, es, ws, i, j)
  BY <1>1, LinkEntries
<1>3. Pairing' /\ NbCounts' /\ RefCounts' /\ MonoWest'
  BY <1>1, <1>2, LinkKeepsPairing, LinkKeepsCounts
<1>4. WalkOK'
  BY DEF pg_brick_link, Idle, WalkOK
<1>. QED
  BY <1>1, <1>3, <1>4 DEF IInv, BInv

-----------------------------------------------------------------------------
(* do_unlink.                                                              *)

\* Where an edge is kept and the side it is on determine each other.
LEMMA StoreSide ==
  ASSUME BInv, NEW b \in alive, NEW s \in Sides, NEW i \in Indexes, link[b][s][i] # NoBrick
  PROVE  /\ SideOf(b, s) \in Sides
         /\ Flip(Flip(SideOf(b, s))) = SideOf(b, s)
         /\ Store(b, SideOf(b, s)) = s
         /\ Kind[b] = "MONOPOLE" => s = "WEST"
<1>1. at[b] \in Sides
  BY DEF BInv, TypeOK
<1>2. Kind[b] = "MONOPOLE" => s = "WEST"
  BY DEF BInv, MonoWest, Sides
<1>. QED
  BY <1>1, <1>2 DEF SideOf, Store, Flip, Sides

\* The other half of the other half is the half.
LEMMA OtherSym ==
  ASSUME BInv, NEW b \in alive, NEW s \in Sides, NEW i \in Indexes,
         NEW p \in alive, NEW ps \in Sides, NEW j \in Indexes, Other(b, s, i, p, ps, j)
  PROVE  Other(p, ps, j, b, s, i)
<1>1. /\ link[b][s][i] # NoBrick /\ link[p][ps][j] # NoBrick
      /\ SideOf(p, ps) = Flip(SideOf(b, s))
  BY Zenon DEF Other
<1>2. Flip(SideOf(p, ps)) = SideOf(b, s) /\ s = Store(b, Flip(SideOf(p, ps)))
  BY <1>1, StoreSide
<1>. QED
  BY <1>1, <1>2, Zenon DEF Other

\* No half belongs to two edges.
LEMMA OtherUnique ==
  ASSUME BInv, NEW p \in alive, NEW ps \in Sides, NEW j \in Indexes,
         NEW b \in alive, NEW s \in Sides, NEW i \in Indexes, Other(b, s, i, p, ps, j),
         NEW c \in alive, NEW t \in Sides, NEW k \in Indexes, Other(c, t, k, p, ps, j)
  PROVE  c = b /\ t = s /\ k = i
<1>1. Other(p, ps, j, b, s, i) /\ Other(p, ps, j, c, t, k)
  BY OtherSym
<1>. QED
  BY <1>1, Zenon DEF Other

\* What do_unlink does to the edge, entry by entry.
Unlinking(b, s, i, p, ps, j) ==
  /\ Other(b, s, i, p, ps, j)
  /\ Updated(link, link', b, s, i, NoBrick, p, ps, j, NoBrick)
  /\ Updated(pair, pair', b, s, i, 0, p, ps, j, 0)
  /\ \A c \in Bricks, t \in Sides :
       nb'[c][t] = IF c = b /\ t = s THEN nb[c][t] - 1
                   ELSE IF c = p /\ t = ps THEN nb[c][t] - 1
                   ELSE nb[c][t]
  /\ \A c \in Bricks : refcount'[c] = IF c \in {b, p} THEN refcount[c] - 1
                                      ELSE refcount[c]

\* A brick has a reference, and one more when it has an edge.
LEMMA References ==
  ASSUME BInv, NEW b \in alive
  PROVE  /\ refcount[b] \in Int /\ refcount[b] >= 1
         /\ \A s \in Sides, i \in Indexes : link[b][s][i] # NoBrick => refcount[b] >= 2
<1>1. /\ refcount[b] = 1 + nb[b]["WEST"] + nb[b]["EAST"]
      /\ \A s \in Sides : nb[b][s] = Cardinality(Linked(b, s))
  BY DEF BInv, RefCounts, NbCounts
<1>2. /\ nb[b]["WEST"] = Cardinality(Linked(b, "WEST"))
      /\ nb[b]["EAST"] = Cardinality(Linked(b, "EAST"))
  BY <1>1 DEF Sides
<1>3. nb[b]["WEST"] \in Nat /\ nb[b]["EAST"] \in Nat
  BY <1>2, LinkedFinite
<1>4. ASSUME NEW s \in Sides, NEW i \in Indexes, link[b][s][i] # NoBrick
      PROVE  nb[b][s] > 0
  <2>1. Linked(b, s) # {}
    BY <1>4 DEF Linked
  <2>. QED
    BY <1>1, <2>1, LinkedFinite
<1>. QED
  BY <1>1, <1>3, <1>4 DEF Sides

\* do_unlink removes one edge, frees no brick and keeps the types.
LEMMA UnlinkEntries ==
  ASSUME BInv, NEW b \in alive, NEW s \in Sides, NEW i \in Indexes,
         link[b][s][i] # NoBrick, do_unlink(b, s, i), walk' \in Walks
  PROVE  /\ TypeOK' /\ alive' = alive
         /\ \E p \in alive, ps \in Sides, j \in Indexes : Unlinking(b, s, i, p, ps, j)
<1>1. PICK p \in alive, ps \in Sides, j \in Indexes : Other(b, s, i, p, ps, j)
  BY OtherHalf
<1>2. /\ p = link[b][s][i] /\ ps = Store(p, Flip(SideOf(b, s))) /\ j = pair[b][s][i]
      /\ p # b /\ p \in Bricks /\ b \in Bricks
      /\ link[p][ps][j] # NoBrick
  BY <1>1, Zenon DEF Other
<1>3. /\ refcount' = [refcount EXCEPT ![b] = @ - 1, ![p] = @ - 1]
      /\ alive' = {x \in alive : refcount'[x] > 0}
      /\ link' = Update(link, b, s, i, NoBrick, p, ps, j, NoBrick)
      /\ pair' = Update(pair, b, s, i, 0, p, ps, j, 0)
      /\ nb' = [nb EXCEPT ![b][s] = @ - 1, ![p][ps] = @ - 1]
      /\ UNCHANGED at
  BY <1>2, Zenon DEF do_unlink, Update
<1>4. p # b /\ p \in Bricks /\ b \in Bricks /\ link[p][ps][j] # NoBrick
  BY <1>2, Zenon
<1>5. /\ link' \in Arrays(Bricks \cup {NoBrick})
      /\ Updated(link, link', b, s, i, NoBrick, p, ps, j, NoBrick)
  <2>1. link \in Arrays(Bricks \cup {NoBrick}) /\ NoBrick \in Bricks \cup {NoBrick}
    BY DEF BInv, TypeOK, Arrays
  <2>. QED
    BY ONLY <1>3, <1>4, <2>1, TwoHalves, s \in Sides, i \in Indexes, ps \in Sides, j \in Indexes, Zenon
<1>6. /\ pair' \in Arrays(Indexes)
      /\ Updated(pair, pair', b, s, i, 0, p, ps, j, 0)
  <2>1. pair \in Arrays(Indexes)
    BY DEF BInv, TypeOK, Arrays
  <2>2. 0 \in Indexes
    BY BrickAssumption DEF Indexes
  <2>. QED
    BY ONLY <1>3, <1>4, <2>1, <2>2, TwoHalves,
            s \in Sides, i \in Indexes, ps \in Sides, j \in Indexes
<1>7. /\ nb' \in [Bricks -> [Sides -> Int]]
      /\ \A c \in Bricks, t \in Sides :
           nb'[c][t] = IF c = b /\ t = s THEN nb[c][t] - 1
                       ELSE IF c = p /\ t = ps THEN nb[c][t] - 1
                       ELSE nb[c][t]
  <2>1. nb \in [Bricks -> [Sides -> Int]]
    BY DEF BInv, TypeOK
  <2>2. nb[b][s] - 1 \in Int /\ nb[p][ps] - 1 \in Int
    BY <1>4, <2>1
  <2>3. nb' = [nb EXCEPT ![b][s] = nb[b][s] - 1, ![p][ps] = nb[p][ps] - 1]
    BY <1>3, <1>4, <2>1
  <2>. QED
    BY ONLY <1>4, <2>1, <2>2, <2>3, s \in Sides, ps \in Sides, Zenon
<1>8. /\ refcount' \in [Bricks -> Int]
      /\ \A c \in Bricks : refcount'[c] = IF c \in {b, p} THEN refcount[c] - 1
                                          ELSE refcount[c]
  BY <1>3, <1>4 DEF BInv, TypeOK
<1>9. alive' = alive
  <2>1. alive \subseteq Bricks
    BY DEF BInv, TypeOK
  <2>2. \A x \in alive : refcount[x] \in Int /\ refcount[x] >= 1
    BY References
  <2>3. refcount[b] >= 2 /\ refcount[p] >= 2
    BY <1>4, References
  <2>. QED
    BY <1>3, <1>8, <2>1, <2>2, <2>3
<1>10. TypeOK'
  BY <1>3, <1>5, <1>6, <1>7, <1>8, <1>9, Zenon DEF BInv, TypeOK, Arrays
<1>11. Unlinking(b, s, i, p, ps, j)
  BY <1>1, <1>5, <1>6, <1>7, <1>8, Zenon DEF Unlinking
<1>. QED
  BY <1>9, <1>10, <1>11

\* The halves of the edges that stay still name each other.
LEMMA UnlinkKeepsPairing ==
  ASSUME BInv, NEW b \in alive, NEW s \in Sides, NEW i \in Indexes,
         NEW p \in alive, NEW ps \in Sides, NEW j \in Indexes,
         Unlinking(b, s, i, p, ps, j), alive' = alive, at' = at
  PROVE  Pairing'
<1>. SUFFICES ASSUME NEW c \in alive', NEW t \in Sides, NEW k \in Linked(c, t)'
              PROVE  LET q  == link'[c][t][k]
                         qt == Store(q, Flip(SideNext(c, t)))
                         l  == pair'[c][t][k]
                     IN  /\ q \in alive' /\ q # c
                         /\ link'[q][qt][l] = c /\ pair'[q][qt][l] = k
                         /\ SideNext(q, qt) = Flip(SideNext(c, t))
  BY Zenon DEF Pairing, Halves, Store, SideOf, SideNext
<1>1. /\ Updated(link, link', b, s, i, NoBrick, p, ps, j, NoBrick)
      /\ Updated(pair, pair', b, s, i, 0, p, ps, j, 0)
      /\ Other(b, s, i, p, ps, j)
  BY DEF Unlinking
<1>2. /\ c \in Bricks /\ k \in Indexes
      /\ link'[c][t][k] # NoBrick
  BY DEF BInv, TypeOK, Linked
<1>3. ~(c = b /\ t = s /\ k = i) /\ ~(c = p /\ t = ps /\ k = j)
  BY <1>1, <1>2 DEF Updated
<1>4. link'[c][t][k] = link[c][t][k] /\ pair'[c][t][k] = pair[c][t][k]
  BY <1>1, <1>2, <1>3 DEF Updated
<1>5. PICK q \in alive, qt \in Sides, l \in Indexes : Other(c, t, k, q, qt, l)
  BY <1>2, <1>4, OtherHalf
<1>6. q \in Bricks
  BY <1>5, Zenon DEF Other
<1>7. ~(q = b /\ qt = s /\ l = i)
  <2>1. Other(p, ps, j, b, s, i)
    BY <1>1, OtherSym
  <2>. QED
    BY <1>2, <1>3, <1>5, <2>1, OtherUnique
<1>8. ~(q = p /\ qt = ps /\ l = j)
  BY <1>1, <1>2, <1>3, <1>5, OtherUnique
<1>9. link'[q][qt][l] = link[q][qt][l] /\ pair'[q][qt][l] = pair[q][qt][l]
  BY ONLY <1>1, <1>6, <1>7, <1>8, qt \in Sides, l \in Indexes DEF Updated
<1>10. /\ q = link[c][t][k] /\ qt = Store(q, Flip(SideOf(c, t))) /\ l = pair[c][t][k]
       /\ q # c /\ link[q][qt][l] = c /\ pair[q][qt][l] = k
       /\ SideOf(q, qt) = Flip(SideOf(c, t))
  BY <1>5, Zenon DEF Other
<1>11. link'[q][qt][l] = c /\ pair'[q][qt][l] = k
  BY <1>9, <1>10, Zenon
<1>12. SideNext(c, t) = SideOf(c, t) /\ SideNext(q, qt) = SideOf(q, qt)
  BY DEF SideNext, SideOf
<1>. QED
  BY <1>4, <1>10, <1>11, <1>12, Zenon

\* The counters follow the edges.
LEMMA UnlinkKeepsCounts ==
  ASSUME BInv, NEW b \in alive, NEW s \in Sides, NEW i \in Indexes,
         NEW p \in alive, NEW ps \in Sides, NEW j \in Indexes,
         Unlinking(b, s, i, p, ps, j), alive' = alive
  PROVE  NbCounts' /\ RefCounts' /\ MonoWest'
<1>1. /\ Updated(link, link', b, s, i, NoBrick, p, ps, j, NoBrick)
      /\ b # p /\ b \in Bricks /\ p \in Bricks
      /\ link[b][s][i] # NoBrick /\ link[p][ps][j] # NoBrick
      /\ alive \subseteq Bricks
  BY Zenon DEF Unlinking, Other, BInv, TypeOK
<1>2. ASSUME NEW c \in alive, NEW t \in Sides
      PROVE  /\ nb'[c][t] = Cardinality(Linked(c, t)')
             /\ Linked(c, t)' \subseteq 0 .. Max[c][t] - 1
  <2>1. /\ nb[c][t] = Cardinality(Linked(c, t)) /\ c \in Bricks
        /\ Linked(c, t) \subseteq 0 .. Max[c][t] - 1
    BY <1>1 DEF BInv, NbCounts
  <2>2. ASSUME NEW k \in Indexes, link[c][t][k] # NoBrick,
               nb'[c][t] = nb[c][t] - 1,
               Linked(c, t)' = Linked(c, t) \ {k}
        PROVE  /\ nb'[c][t] = Cardinality(Linked(c, t)')
               /\ Linked(c, t)' \subseteq 0 .. Max[c][t] - 1
    <3>1. k \in Linked(c, t)
      BY <2>2 DEF Linked
    <3>2. Cardinality(Linked(c, t) \ {k}) = Cardinality(Linked(c, t)) - 1
      BY <3>1, LinkedFinite, FS_RemoveElement, Zenon
    <3>. QED
      BY <2>1, <2>2, <3>2
  <2>3. CASE c = b /\ t = s
    <3>1. Linked(c, t)' = Linked(c, t) \ {i}
      BY <1>1, <2>1, <2>3 DEF Linked, Updated
    <3>2. nb'[c][t] = nb[c][t] - 1
      BY <2>1, <2>3 DEF Unlinking
    <3>. QED
      BY <1>1, <2>2, <2>3, <3>1, <3>2
  <2>4. CASE c = p /\ t = ps
    <3>1. Linked(c, t)' = Linked(c, t) \ {j}
      BY <1>1, <2>1, <2>4 DEF Linked, Updated
    <3>2. nb'[c][t] = nb[c][t] - 1
      BY <1>1, <2>1, <2>4 DEF Unlinking
    <3>. QED
      BY <1>1, <2>2, <2>4, <3>1, <3>2, Zenon
  <2>5. CASE ~(c = b /\ t = s) /\ ~(c = p /\ t = ps)
    <3>1. Linked(c, t)' = Linked(c, t)
      BY <1>1, <2>1, <2>5 DEF Linked, Updated
    <3>2. nb'[c][t] = nb[c][t]
      BY <2>1, <2>5 DEF Unlinking
    <3>. QED
      BY <2>1, <3>1, <3>2
  <2>. QED
    BY <2>3, <2>4, <2>5
<1>3. NbCounts'
  BY <1>2 DEF NbCounts
<1>4. RefCounts'
  <2>. SUFFICES ASSUME NEW c \in alive
                PROVE  refcount'[c] = 1 + nb'[c]["WEST"] + nb'[c]["EAST"]
    BY DEF RefCounts
  <2>1. /\ refcount[c] = 1 + nb[c]["WEST"] + nb[c]["EAST"] /\ c \in Bricks
        /\ nb[c]["WEST"] \in Int /\ nb[c]["EAST"] \in Int
    BY <1>1 DEF BInv, RefCounts, TypeOK, Sides
  <2>2. /\ refcount'[c] = IF c \in {b, p} THEN refcount[c] - 1 ELSE refcount[c]
        /\ \A t \in Sides : nb'[c][t] = IF c = b /\ t = s THEN nb[c][t] - 1
                                        ELSE IF c = p /\ t = ps THEN nb[c][t] - 1
                                        ELSE nb[c][t]
    BY <2>1 DEF Unlinking
  <2>. QED
    BY <1>1, <2>1, <2>2 DEF Sides
<1>5. MonoWest'
  BY <1>1 DEF MonoWest, BInv, Updated, Sides
<1>. QED
  BY <1>3, <1>4, <1>5

\* do_unlink preserves the invariant, also in the middle of a walk: it frees
\* no brick, and no edge appears.
LEMMA UnlinkKeeps ==
  ASSUME IInv, NEW b \in alive, NEW s \in Sides, NEW i \in Indexes,
         link[b][s][i] # NoBrick, do_unlink(b, s, i), walk' = walk
  PROVE  IInv'
<1>1. BInv /\ walk' \in Walks
  BY DEF IInv, BInv, TypeOK
<1>2. /\ TypeOK' /\ alive' = alive
      /\ \E p \in alive, ps \in Sides, j \in Indexes : Unlinking(b, s, i, p, ps, j)
  BY <1>1, UnlinkEntries
<1>3. PICK p \in alive, ps \in Sides, j \in Indexes : Unlinking(b, s, i, p, ps, j)
  BY <1>2
<1>4. at' = at
  BY Zenon DEF do_unlink
<1>5. Pairing' /\ NbCounts' /\ RefCounts' /\ MonoWest'
  BY <1>1, <1>2, <1>3, <1>4, UnlinkKeepsPairing, UnlinkKeepsCounts
<1>6. WalkOK'
  <2>1. ASSUME NEW c \in Bricks, NEW t \in Sides, NEW k \in Indexes, link[c][t][k] = NoBrick
        PROVE  link'[c][t][k] = NoBrick
    <3>1. Updated(link, link', b, s, i, NoBrick, p, ps, j, NoBrick)
      BY <1>3 DEF Unlinking
    <3>2. link'[c][t][k] = IF c = b /\ t = s /\ k = i THEN NoBrick
                           ELSE IF c = p /\ t = ps /\ k = j THEN NoBrick
                           ELSE link[c][t][k]
      BY <3>1, Zenon DEF Updated
    <3>. QED
      BY <2>1, <3>2
  <2>2. walk # NoWalk => walk.brick \in Bricks /\ walk.side \in Sides
    BY <1>1 DEF IInv, WalkOK, BInv, TypeOK, Walks
  <2>. QED
    BY <1>2, <2>1, <2>2 DEF IInv, WalkOK, Sides
<1>. QED
  BY <1>1, <1>2, <1>5, <1>6 DEF IInv, BInv

-----------------------------------------------------------------------------
(* The other steps.                                                        *)

\* pg_brick_new preserves the invariant: nothing is linked to the new brick.
LEMMA NewKeeps ==
  ASSUME IInv, NEW b \in Bricks, pg_brick_new(b)
  PROVE  IInv'
<1>1. /\ b \notin alive /\ alive' = alive \cup {b} /\ walk' = walk /\ walk = NoWalk
      /\ BInv /\ alive \subseteq Bricks
  BY DEF pg_brick_new, Idle, IInv, BInv, TypeOK
<1>2. TypeOK'
  <2>1. 0 \in Indexes
    BY BrickAssumption DEF Indexes
  <2>2. /\ alive' \subseteq Bricks
        /\ refcount' \in [Bricks -> Int]
        /\ nb' \in [Bricks -> [Sides -> Int]]
        /\ at' \in [Bricks -> Sides]
        /\ walk' \in Walks
    BY <1>1 DEF pg_brick_new, BInv, TypeOK, Sides
  <2>3. link' \in [Bricks -> [Sides -> [Indexes -> Bricks \cup {NoBrick}]]]
    BY <1>1 DEF pg_brick_new, BInv, TypeOK
  <2>4. pair' \in [Bricks -> [Sides -> [Indexes -> Indexes]]]
    BY <1>1, <2>1 DEF pg_brick_new, BInv, TypeOK
  <2>. QED
    BY <2>2, <2>3, <2>4 DEF TypeOK
<1>3. \A s \in Sides : /\ nb'[b][s] = 0 /\ refcount'[b] = 1
                       /\ \A k \in Indexes : link'[b][s][k] = NoBrick
  BY <1>1 DEF pg_brick_new, BInv, TypeOK
<1>4. \A c \in alive : /\ link'[c] = link[c] /\ pair'[c] = pair[c] /\ nb'[c] = nb[c]
                       /\ refcount'[c] = refcount[c] /\ at'[c] = at[c]
  BY <1>1 DEF pg_brick_new, BInv, TypeOK
<1>5. Pairing'
  <2>. SUFFICES ASSUME NEW c \in alive', NEW t \in Sides, NEW k \in Linked(c, t)'
                PROVE  LET q  == link'[c][t][k]
                           qt == Store(q, Flip(SideNext(c, t)))
                           l  == pair'[c][t][k]
                       IN  /\ q \in alive' /\ q # c
                           /\ link'[q][qt][l] = c /\ pair'[q][qt][l] = k
                           /\ SideNext(q, qt) = Flip(SideNext(c, t))
    BY Zenon DEF Pairing, Halves, Store, SideOf, SideNext
  <2>1. k \in Indexes /\ link'[c][t][k] # NoBrick
    BY DEF Linked
  <2>2. c \in alive
    BY <1>1, <1>3, <2>1
  <2>3. link'[c][t][k] = link[c][t][k] /\ pair'[c][t][k] = pair[c][t][k]
    BY <1>4, <2>2
  <2>4. PICK q \in alive, qt \in Sides, l \in Indexes : Other(c, t, k, q, qt, l)
    BY <1>1, <2>1, <2>2, <2>3, OtherHalf
  <2>5. /\ q = link[c][t][k] /\ qt = Store(q, Flip(SideOf(c, t))) /\ l = pair[c][t][k]
        /\ q # c /\ link[q][qt][l] = c /\ pair[q][qt][l] = k
        /\ SideOf(q, qt) = Flip(SideOf(c, t))
    BY <2>4, Zenon DEF Other
  <2>6. link'[q][qt][l] = link[q][qt][l] /\ pair'[q][qt][l] = pair[q][qt][l]
    BY <1>4
  <2>7. link'[q][qt][l] = c /\ pair'[q][qt][l] = k
    BY <2>5, <2>6, Zenon
  <2>8. SideNext(c, t) = SideOf(c, t) /\ SideNext(q, qt) = SideOf(q, qt)
    BY <1>4, <2>2 DEF SideNext, SideOf
  <2>. QED
    BY <1>1, <2>3, <2>5, <2>7, <2>8, Zenon
<1>6. NbCounts'
  <2>1. \A s \in Sides : Linked(b, s)' = {} /\ Cardinality({}) = 0
    BY <1>3, FS_EmptySet DEF Linked
  <2>2. \A c \in alive, s \in Sides : Linked(c, s)' = Linked(c, s)
    BY <1>4 DEF Linked
  <2>. QED
    BY <1>1, <1>3, <1>4, <2>1, <2>2 DEF BInv, NbCounts
<1>7. RefCounts'
  BY <1>1, <1>3, <1>4 DEF BInv, RefCounts, Sides
<1>8. MonoWest'
  BY <1>1, <1>3, <1>4 DEF BInv, MonoWest, Sides
<1>9. WalkOK'
  BY <1>1 DEF WalkOK
<1>. QED
  BY <1>2, <1>5, <1>6, <1>7, <1>8, <1>9 DEF IInv, BInv

\* At the end of the walk the brick has no edge, and its owner's reference.
LEMMA WalkDone ==
  ASSUME IInv, ~Idle, iterator_is_end,
         link[walk.brick][walk.side][walk.edge] = NoBrick
  PROVE  /\ walk.brick \in alive
         /\ \A s \in Sides, i \in Indexes : link[walk.brick][s][i] = NoBrick
         /\ refcount[walk.brick] = 1
<1>. DEFINE b == walk.brick
<1>1. /\ b \in alive /\ b \in Bricks /\ walk.side \in Sides /\ walk.edge \in Indexes
      /\ walk.side = "EAST" => \A i \in Indexes : link[b]["WEST"][i] = NoBrick
      /\ \A i \in Indexes : i < walk.edge => link[b][walk.side][i] = NoBrick
      /\ Kind[b] = "MONOPOLE" => walk.side = "WEST" /\ walk.edge = 0
  BY DEF IInv, WalkOK, Idle, BInv, TypeOK, Walks
<1>2. \A s \in Sides, i \in Indexes : link[b][s][i] # NoBrick => i < Max[b][s]
  <2>1. \A s \in Sides : Max[b][s] \in Int /\ Linked(b, s) \subseteq 0 .. Max[b][s] - 1
    BY <1>1, BrickAssumption DEF IInv, BInv, NbCounts
  <2>. QED
    BY <2>1 DEF Linked
<1>3. /\ Kind[b] = "MONOPOLE" => \A s \in Sides : Max[b][s] <= 1
      /\ \A s \in Sides : Max[b][s] \in Int
      /\ \A i \in Indexes : i \in Int /\ i >= 0
  BY <1>1, BrickAssumption DEF Indexes
<1>4. link[b][walk.side][walk.edge] = NoBrick
  OBVIOUS
<1>5. \/ Kind[b] = "MONOPOLE"
      \/ walk.side = "EAST" /\ walk.edge + 1 >= Max[b][walk.side]
  BY DEF iterator_is_end
<1>6. Kind[b] = "MONOPOLE" => \A i \in Indexes : link[b]["EAST"][i] = NoBrick
  BY <1>1 DEF IInv, BInv, MonoWest
<1>. HIDE DEF b
<1>7. \A s \in Sides, i \in Indexes : link[b][s][i] = NoBrick
  <2>1. CASE Kind[b] = "MONOPOLE"
    <3>1. \A i \in Indexes : i # 0 => link[b]["WEST"][i] = NoBrick
      BY <1>2, <1>3, <2>1 DEF Sides
    <3>. QED
      BY <1>1, <1>4, <1>6, <2>1, <3>1 DEF Sides
  <2>2. CASE walk.side = "EAST" /\ walk.edge + 1 >= Max[b][walk.side]
    <3>1. \A i \in Indexes : link[b]["EAST"][i] # NoBrick => i < walk.edge \/ i = walk.edge
      BY <1>1, <1>2, <1>3, <2>2
    <3>. QED
      BY <1>1, <1>4, <2>2, <3>1 DEF Sides
  <2>. QED
    BY <1>5, <2>1, <2>2
<1>8. nb[b]["WEST"] = 0 /\ nb[b]["EAST"] = 0
  <2>1. Linked(b, "WEST") = {} /\ Linked(b, "EAST") = {}
    BY <1>7 DEF Linked, Sides
  <2>2. Cardinality({}) = 0
    BY FS_EmptySet
  <2>. QED
    BY <1>1, <2>1, <2>2, Zenon DEF IInv, BInv, NbCounts, Sides
<1>9. refcount[b] = 1
  BY <1>1, <1>8 DEF IInv, BInv, RefCounts
<1>. QED
  BY <1>1, <1>7, <1>9 DEF b

\* A step that leaves the edges alone, and frees no brick that is linked,
\* keeps them paired.
LEMMA SamePairing ==
  ASSUME BInv, UNCHANGED <<link, pair, at>>, alive' \subseteq alive,
         \A c \in alive', t \in Sides, k \in Indexes :
           link[c][t][k] # NoBrick => link[c][t][k] \in alive'
  PROVE  Pairing'
<1>. SUFFICES ASSUME NEW c \in alive', NEW t \in Sides, NEW k \in Linked(c, t)'
              PROVE  LET q  == link'[c][t][k]
                         qt == Store(q, Flip(SideNext(c, t)))
                         l  == pair'[c][t][k]
                     IN  /\ q \in alive' /\ q # c
                         /\ link'[q][qt][l] = c /\ pair'[q][qt][l] = k
                         /\ SideNext(q, qt) = Flip(SideNext(c, t))
  BY Zenon DEF Pairing, Halves, Store, SideOf, SideNext
<1>1. k \in Indexes /\ link[c][t][k] # NoBrick /\ c \in alive
  BY DEF Linked
<1>2. PICK q \in alive, qt \in Sides, l \in Indexes : Other(c, t, k, q, qt, l)
  BY <1>1, OtherHalf
<1>3. /\ q = link[c][t][k] /\ qt = Store(q, Flip(SideOf(c, t))) /\ l = pair[c][t][k]
      /\ q # c /\ link[q][qt][l] = c /\ pair[q][qt][l] = k
      /\ SideOf(q, qt) = Flip(SideOf(c, t))
  BY <1>2, Zenon DEF Other
<1>4. q \in alive'
  BY <1>1, <1>3, Zenon
<1>5. SideNext(c, t) = SideOf(c, t) /\ SideNext(q, qt) = SideOf(q, qt)
  BY DEF SideNext, SideOf
<1>. QED
  BY <1>3, <1>4, <1>5, Zenon

\* A step that leaves the bricks and the edges alone keeps what is said of them.
LEMMA SameBricks ==
  ASSUME BInv, UNCHANGED <<alive, refcount, link, pair, nb, at>>, walk' \in Walks
  PROVE  BInv'
<1>1. TypeOK'
  BY DEF BInv, TypeOK
<1>2. Pairing'
  <2>. SUFFICES ASSUME NEW c \in alive, NEW t \in Sides, NEW k \in Indexes,
                       link[c][t][k] # NoBrick
                PROVE  link[c][t][k] \in alive
    BY SamePairing
  <2>1. PICK q \in alive, qt \in Sides, l \in Indexes : Other(c, t, k, q, qt, l)
    BY OtherHalf
  <2>. QED
    BY <2>1, Zenon DEF Other
<1>3. NbCounts'
  BY DEF BInv, NbCounts, Linked
<1>4. RefCounts' /\ MonoWest'
  BY DEF BInv, RefCounts, MonoWest
<1>. QED
  BY <1>1, <1>2, <1>3, <1>4 DEF BInv

\* The end of pg_brick_unlink or pg_brick_destroy preserves the invariant: a
\* brick that is freed has no edge, so no other brick is linked to it.
LEMMA ReturnKeeps ==
  ASSUME IInv, WalkReturns
  PROVE  IInv'
<1>. DEFINE b == walk.brick
<1>1. /\ walk # NoWalk /\ walk' = NoWalk /\ UNCHANGED <<link, pair, nb, at>>
      /\ IF walk.destroy THEN decref(b) ELSE UNCHANGED <<alive, refcount>>
  BY DEF WalkReturns, Idle
<1>2. /\ BInv /\ alive \subseteq Bricks /\ NoWalk \in Walks
      /\ refcount \in [Bricks -> Int]
  BY BrickAssumption DEF IInv, BInv, TypeOK, NoWalk, Walks, Sides, Indexes
<1>3. /\ b \in alive /\ refcount[b] = 1
      /\ \A s \in Sides, i \in Indexes : link[b][s][i] = NoBrick
  BY WalkDone DEF WalkReturns
<1>. HIDE DEF b
<1>4. /\ alive' \subseteq alive /\ alive \ {b} \subseteq alive'
      /\ refcount' \in [Bricks -> Int]
      /\ \A c \in alive' : refcount'[c] = refcount[c]
  <2>1. CASE walk.destroy
    <3>1. /\ refcount' = [refcount EXCEPT ![b] = @ - 1]
          /\ alive' = {x \in alive : refcount'[x] > 0}
      BY <1>1, <2>1 DEF decref
    <3>2. \A x \in alive : refcount[x] \in Int /\ refcount[x] >= 1
      BY <1>2, References
    <3>. QED
      BY <1>2, <1>3, <3>1, <3>2
  <2>2. CASE ~walk.destroy
    BY <1>1, <1>2, <2>2
  <2>. QED
    BY <2>1, <2>2
<1>5. TypeOK'
  BY <1>1, <1>2, <1>4 DEF BInv, TypeOK
<1>6. Pairing'
  <2>. SUFFICES ASSUME NEW c \in alive', NEW t \in Sides, NEW k \in Indexes,
                       link[c][t][k] # NoBrick
                PROVE  link[c][t][k] \in alive'
    BY <1>1, <1>2, <1>4, SamePairing
  <2>1. PICK q \in alive, qt \in Sides, l \in Indexes : Other(c, t, k, q, qt, l)
    BY <1>2, <1>4, OtherHalf
  <2>2. q = link[c][t][k] /\ link[q][qt][l] # NoBrick
    BY <2>1, Zenon DEF Other
  <2>3. q # b
    BY <1>3, <2>2
  <2>. QED
    BY <1>4, <2>2, <2>3
<1>7. NbCounts' /\ RefCounts' /\ MonoWest'
  <2>1. \A c, s : Linked(c, s)' = Linked(c, s)
    BY <1>1 DEF Linked
  <2>. QED
    BY <1>1, <1>2, <1>4, <2>1 DEF BInv, NbCounts, RefCounts, MonoWest
<1>8. WalkOK'
  BY <1>1 DEF WalkOK
<1>. QED
  BY <1>5, <1>6, <1>7, <1>8 DEF IInv, BInv

\* What the walk has passed is not linked: its start and its steps.
LEMMA WalkKeeps ==
  ASSUME IInv,
         \/ \E b \in Bricks, destroy \in BOOLEAN : StartWalk(b, destroy)
         \/ NextEdge
  PROVE  IInv'
<1>1. UNCHANGED <<alive, refcount, link, pair, nb, at>>
  BY DEF StartWalk, NextEdge
<1>2. ASSUME walk' \in Walks, WalkOK'
      PROVE  IInv'
  BY <1>1, <1>2, SameBricks DEF IInv
<1>3. CASE \E b \in Bricks, destroy \in BOOLEAN : StartWalk(b, destroy)
  <2>1. PICK b \in Bricks, destroy \in BOOLEAN : StartWalk(b, destroy)
    BY <1>3
  <2>2. /\ walk' = [brick |-> b, side |-> "WEST", edge |-> 0, destroy |-> destroy]
        /\ b \in alive /\ 0 \in Indexes
    BY <2>1, BrickAssumption DEF StartWalk, Indexes
  <2>3. walk' \in Walks
    BY <2>2 DEF Walks, Sides
  <2>4. WalkOK'
    BY <1>1, <2>2 DEF WalkOK, Indexes
  <2>. QED
    BY <1>2, <2>3, <2>4
<1>4. CASE NextEdge
  <2>1. /\ walk # NoWalk /\ iterator_next
        /\ link[walk.brick][walk.side][walk.edge] = NoBrick
    BY <1>4 DEF NextEdge, Idle
  <2>2. /\ walk \in Walks /\ walk.brick \in alive /\ walk.brick \in Bricks
        /\ walk.side \in Sides /\ walk.edge \in Indexes
        /\ walk.side = "EAST" => \A i \in Indexes : link[walk.brick]["WEST"][i] = NoBrick
        /\ \A i \in Indexes : i < walk.edge => link[walk.brick][walk.side][i] = NoBrick
    BY <2>1 DEF IInv, WalkOK, BInv, TypeOK, Walks
  <2>3. /\ Max[walk.brick][walk.side] \in Int /\ Max[walk.brick][walk.side] <= MaxEdges
        /\ MaxEdges \in Int /\ 0 \in Indexes
    BY <2>2, BrickAssumption DEF Indexes
  <2>4. CASE /\ Kind[walk.brick] # "MONOPOLE"
             /\ walk.edge + 1 < Max[walk.brick][walk.side]
             /\ walk' = [walk EXCEPT !.edge = @ + 1]
    <3>1. walk.edge + 1 \in Indexes
      BY <2>2, <2>3, <2>4 DEF Indexes
    <3>2. /\ walk'.brick = walk.brick /\ walk'.side = walk.side
          /\ walk'.edge = walk.edge + 1 /\ walk' \in Walks
      BY <2>2, <2>4, <3>1 DEF Walks
    <3>3. \A i \in Indexes : i < walk.edge + 1 => link[walk.brick][walk.side][i] = NoBrick
      BY <2>1, <2>2 DEF Indexes
    <3>4. WalkOK'
      BY <1>1, <2>2, <2>4, <3>2, <3>3 DEF WalkOK
    <3>. QED
      BY <1>2, <3>2, <3>4
  <2>5. CASE /\ Kind[walk.brick] # "MONOPOLE"
             /\ walk.edge + 1 >= Max[walk.brick][walk.side]
             /\ walk.side = "WEST"
             /\ walk' = [walk EXCEPT !.side = "EAST", !.edge = 0]
    <3>1. /\ walk'.brick = walk.brick /\ walk'.side = "EAST"
          /\ walk'.edge = 0 /\ walk' \in Walks
      BY <2>2, <2>3, <2>5, Zenon DEF Walks, Sides
    <3>2. \A i \in Indexes : link[walk.brick]["WEST"][i] = NoBrick
      <4>1. Linked(walk.brick, "WEST") \subseteq 0 .. Max[walk.brick]["WEST"] - 1
        BY <2>2 DEF IInv, BInv, NbCounts, Sides
      <4>2. \A i \in Indexes : link[walk.brick]["WEST"][i] # NoBrick =>
                                 i < walk.edge \/ i = walk.edge
        BY <2>2, <2>3, <2>5, <4>1 DEF Linked, Indexes
      <4>. QED
        BY <2>1, <2>2, <2>5, <4>2
    <3>3. WalkOK'
      BY <1>1, <2>2, <2>5, <3>1, <3>2 DEF WalkOK, Indexes
    <3>. QED
      BY <1>2, <3>1, <3>3
  <2>. QED
    BY <2>1, <2>4, <2>5 DEF iterator_next
<1>. QED
  BY <1>3, <1>4

\* Every step preserves the invariant.
LEMMA NextKeeps ==
  ASSUME IInv, [Next]_vars
  PROVE  IInv'
<1>1. ASSUME NEW b \in Bricks, pg_brick_new(b)
      PROVE  IInv'
  BY <1>1, NewKeeps
<1>2. ASSUME NEW b \in Bricks, pg_brick_unlink(b) \/ pg_brick_destroy(b)
      PROVE  IInv'
  BY <1>2, WalkKeeps, Zenon DEF pg_brick_unlink, pg_brick_destroy
<1>3. ASSUME NEW west \in Bricks, NEW east \in Bricks, pg_brick_link(west, east)
      PROVE  IInv'
  BY <1>3, LinkKeeps
<1>4. ASSUME NEW west \in Bricks, NEW east \in Bricks, pg_brick_unlink_edge(west, east)
      PROVE  IInv'
  <2>1. PICK i \in 0 .. Max[west][Store(west, "EAST")] - 1 :
          /\ link[west][Store(west, "EAST")][i] = east
          /\ do_unlink(west, Store(west, "EAST"), i)
    BY <1>4 DEF pg_brick_unlink_edge
  <2>2. /\ west \in alive /\ walk' = walk /\ east # NoBrick
        /\ Store(west, "EAST") \in Sides
    BY <1>4, BrickAssumption DEF pg_brick_unlink_edge, Store, Sides
  <2>3. i \in Indexes
    <3>1. Max[west][Store(west, "EAST")] \in 0 .. MaxEdges
      BY <2>2, BrickAssumption
    <3>. QED
      BY <3>1, BrickAssumption DEF Indexes
  <2>. QED
    BY <2>1, <2>2, <2>3, UnlinkKeeps
<1>5. CASE UnlinkEdge
  <2>1. walk.brick \in alive /\ walk.side \in Sides /\ walk.edge \in Indexes
    BY <1>5 DEF UnlinkEdge, Idle, IInv, WalkOK, BInv, TypeOK, Walks
  <2>. QED
    BY <1>5, <2>1, UnlinkKeeps DEF UnlinkEdge
<1>6. CASE NextEdge
  BY <1>6, WalkKeeps
<1>7. CASE WalkReturns
  BY <1>7, ReturnKeeps
<1>8. CASE UNCHANGED vars
  <2>1. walk' \in Walks
    BY <1>8 DEF vars, IInv, BInv, TypeOK
  <2>2. BInv'
    BY <1>8, <2>1, SameBricks DEF vars, IInv
  <2>. QED
    BY <1>8, <2>2 DEF vars, IInv, WalkOK
<1>. QED
  BY <1>1, <1>2, <1>3, <1>4, <1>5, <1>6, <1>7, <1>8 DEF Next

\* The invariant holds at first: there are no bricks.
LEMMA InitHolds == Init => IInv
<1>. SUFFICES ASSUME Init PROVE IInv
  OBVIOUS
<1>1. 0 \in Indexes
  BY BrickAssumption DEF Indexes
<1>2. TypeOK
  BY <1>1 DEF Init, TypeOK, NoWalk, Walks, Sides
<1>. QED
  BY <1>2 DEF Init, IInv, BInv, Pairing, NbCounts, RefCounts, MonoWest, WalkOK

\* do_unlink removes the two halves of one edge and no other.
LEMMA UnlinkRemovesOne ==
  ASSUME IInv, NEW x \in alive, NEW y \in Sides, NEW z \in Indexes,
         link[x][y][z] # NoBrick, do_unlink(x, y, z), walk' = walk,
         NEW b \in alive, NEW s \in Sides, NEW i \in Indexes,
         NEW c \in alive, NEW t \in Sides, NEW j \in Indexes
  PROVE  RemovesOne(b, s, i, c, t, j)
<1>. SUFFICES
       ASSUME Removed(b, s, i)
       PROVE  /\ link'[link[b][s][i]][Store(link[b][s][i], Flip(SideOf(b, s)))][pair[b][s][i]] = NoBrick
              /\ Removed(c, t, j) => \/ b = c /\ s = t /\ i = j
                                     \/ link[b][s][i] = c /\ pair[b][s][i] = j
  BY Zenon DEF RemovesOne
<1>1. BInv /\ walk' \in Walks
  BY DEF IInv, BInv, TypeOK
<1>2. PICK p \in alive, ps \in Sides, k \in Indexes : Unlinking(x, y, z, p, ps, k)
  BY <1>1, UnlinkEntries
<1>3. /\ Other(x, y, z, p, ps, k)
      /\ Updated(link, link', x, y, z, NoBrick, p, ps, k, NoBrick)
  BY <1>2 DEF Unlinking
<1>4. Other(p, ps, k, x, y, z)
  BY <1>1, <1>3, OtherSym
<1>5. x \in Bricks /\ p \in Bricks /\ x # p /\ alive \subseteq Bricks
  BY <1>1, <1>3, Zenon DEF Other, BInv, TypeOK
<1>6. link'[x][y][z] = NoBrick /\ link'[p][ps][k] = NoBrick
  BY <1>3, <1>5 DEF Updated
<1>7. ASSUME NEW d \in alive, NEW u \in Sides, NEW l \in Indexes, Removed(d, u, l)
      PROVE  (d = x /\ u = y /\ l = z) \/ (d = p /\ u = ps /\ l = k)
  <2>1. link'[d][u][l] = IF d = x /\ u = y /\ l = z THEN NoBrick
                         ELSE IF d = p /\ u = ps /\ l = k THEN NoBrick
                         ELSE link[d][u][l]
    BY <1>3, <1>5, Zenon DEF Updated
  <2>. QED
    BY <1>7, <2>1 DEF Removed
<1>8. /\ p = link[x][y][z] /\ ps = Store(p, Flip(SideOf(x, y))) /\ k = pair[x][y][z]
      /\ x = link[p][ps][k] /\ y = Store(x, Flip(SideOf(p, ps))) /\ z = pair[p][ps][k]
  BY <1>3, <1>4, Zenon DEF Other
<1>9. CASE b = x /\ s = y /\ i = z
  BY <1>6, <1>7, <1>8, <1>9, Zenon
<1>10. CASE b = p /\ s = ps /\ i = k
  <2>1. x = link[b][s][i] /\ y = Store(x, Flip(SideOf(b, s))) /\ z = pair[b][s][i]
    BY <1>8, <1>10, Zenon
  <2>2. link'[link[b][s][i]][Store(link[b][s][i], Flip(SideOf(b, s)))][pair[b][s][i]] = NoBrick
    BY <1>6, <2>1, Zenon
  <2>3. ASSUME Removed(c, t, j)
        PROVE  (b = c /\ s = t /\ i = j) \/ (link[b][s][i] = c /\ pair[b][s][i] = j)
    <3>1. (c = x /\ t = y /\ j = z) \/ (c = p /\ t = ps /\ j = k)
      BY <1>7, <2>3
    <3>. QED
      BY <1>10, <2>1, <3>1, Zenon
  <2>. QED
    BY <2>2, <2>3
<1>. QED
  BY <1>7, <1>9, <1>10, Zenon

-----------------------------------------------------------------------------
(* The theorems.                                                           *)

\* The inductive invariant holds of every behaviour of the calls.
THEOREM Invariance == Spec => []IInv
<1>. QED
  BY InitHolds, NextKeeps, PTL DEF Spec

\* The state of the bricks keeps its types, in particular no index runs past
\* the array of a side.
THEOREM TypeCorrect == Spec => []TypeOK
<1>1. IInv => TypeOK
  BY DEF IInv, BInv
<1>. QED
  BY <1>1, Invariance, PTL

\* Whatever bricks are linked and unlinked, in whatever order, the two halves
\* of every edge name each other.
THEOREM PairingHolds == Spec => []Pairing
<1>1. IInv => Pairing
  BY DEF IInv, BInv
<1>. QED
  BY <1>1, Invariance, PTL

\* nb is the number of edges of a side and never exceeds max: insert_link
\* never reaches its pg_panic.
THEOREM NbCorrect == Spec => []NbCounts
<1>1. IInv => NbCounts
  BY DEF IInv, BInv
<1>. QED
  BY <1>1, Invariance, PTL

\* Every brick has as many references as an owner and edges: no brick is freed
\* while something is linked to it.
THEOREM RefCorrect == Spec => []RefCounts
<1>1. IInv => RefCounts
  BY DEF IInv, BInv
<1>. QED
  BY <1>1, Invariance, PTL

\* pg_brick_unlink leaves no edge from or to the brick, and pg_brick_destroy
\* frees it.
THEOREM UnlinkCompletes == Spec => UnlinkComplete
<1>. DEFINE A == WalkReturns =>
       /\ \A b \in alive', s \in Sides, i \in Indexes : link'[b][s][i] # walk.brick
       /\ \A s \in Sides, i \in Indexes : link'[walk.brick][s][i] = NoBrick
       /\ walk.destroy <=> walk.brick \notin alive'
<1>1. ASSUME IInv, WalkReturns
      PROVE  A
  <2>1. /\ walk.brick \in alive /\ refcount[walk.brick] = 1
        /\ \A s \in Sides, i \in Indexes : link[walk.brick][s][i] = NoBrick
    BY <1>1, WalkDone DEF WalkReturns
  <2>2. /\ link' = link
        /\ IF walk.destroy THEN decref(walk.brick) ELSE UNCHANGED <<alive, refcount>>
    BY <1>1 DEF WalkReturns
  <2>3. /\ walk.destroy <=> walk.brick \notin alive'
        /\ alive' \subseteq alive
    <3>1. refcount \in [Bricks -> Int] /\ walk.brick \in Bricks
      BY <1>1, <2>1 DEF IInv, BInv, TypeOK
    <3>2. CASE walk.destroy
      BY <2>1, <2>2, <3>1, <3>2 DEF decref
    <3>3. CASE ~walk.destroy
      BY <2>1, <2>2, <3>3
    <3>. QED
      BY <3>2, <3>3
  <2>4. ASSUME NEW b \in alive, NEW s \in Sides, NEW i \in Indexes,
               link[b][s][i] = walk.brick
        PROVE  FALSE
    <3>1. BInv /\ link[b][s][i] # NoBrick
      BY <1>1, <2>1, <2>4, BrickAssumption DEF IInv, BInv, TypeOK
    <3>2. PICK p \in alive, ps \in Sides, j \in Indexes : Other(b, s, i, p, ps, j)
      BY <3>1, OtherHalf
    <3>3. p = walk.brick /\ link[p][ps][j] # NoBrick
      BY <2>4, <3>2 DEF Other
    <3>. QED
      BY <2>1, <3>3
  <2>. QED
    BY <2>1, <2>2, <2>3, <2>4
<1>2. IInv => [A]_vars
  BY <1>1
<1>. QED
  BY <1>2, Invariance, PTL DEF UnlinkComplete

\* pg_brick_unlink_edge, and every step of pg_brick_unlink, removes one edge
\* with both of its halves and no other, between bricks with several edges too.
THEOREM OthersStay == Spec => OthersKept
<1>1. ASSUME IInv, Next,
             NEW b \in alive, NEW s \in Sides, NEW i \in Indexes, Removed(b, s, i),
             NEW c \in alive, NEW t \in Sides, NEW j \in Indexes
      PROVE  RemovesOne(b, s, i, c, t, j)
  <2>1. b \in Bricks /\ BInv
    BY <1>1 DEF IInv, BInv, TypeOK
  <2>2. ASSUME link'[b][s][i] = link[b][s][i]
        PROVE  FALSE
    BY <1>1, <2>2 DEF Removed
  <2>3. ASSUME NEW x \in Bricks, pg_brick_new(x)
        PROVE  FALSE
    <3>1. x # b
      BY <2>3 DEF pg_brick_new
    <3>2. link'[b] = link[b]
      BY <2>1, <2>3, <3>1 DEF pg_brick_new, BInv, TypeOK
    <3>. QED
      BY <2>2, <3>2
  <2>4. ASSUME NEW west \in Bricks, NEW east \in Bricks, pg_brick_link(west, east)
        PROVE  FALSE
    <3>1. PICK es \in Sides, ws \in Sides, k \in Indexes, l \in Indexes :
            Linking(west, east, es, ws, k, l)
      BY <2>1, <2>4, LinkEntries
    <3>2. Updated(link, link', east, es, k, west, west, ws, l, east)
      BY <3>1 DEF Linking
    <3>3. west # NoBrick /\ east # NoBrick /\ link[b][s][i] # NoBrick /\ link'[b][s][i] = NoBrick
      BY <1>1, BrickAssumption DEF Removed
    <3>. QED
      BY <2>1, <3>2, <3>3 DEF Updated
  <2>5. ASSUME NEW west \in Bricks, NEW east \in Bricks, pg_brick_unlink_edge(west, east)
        PROVE  \E x \in alive, y \in Sides, z \in Indexes :
                 link[x][y][z] # NoBrick /\ do_unlink(x, y, z) /\ walk' = walk
    <3>1. PICK k \in 0 .. Max[west][Store(west, "EAST")] - 1 :
            /\ link[west][Store(west, "EAST")][k] = east
            /\ do_unlink(west, Store(west, "EAST"), k)
      BY <2>5 DEF pg_brick_unlink_edge
    <3>2. /\ west \in alive /\ walk' = walk /\ east # NoBrick
          /\ Store(west, "EAST") \in Sides
      BY <2>5, BrickAssumption DEF pg_brick_unlink_edge, Store, Sides
    <3>3. k \in Indexes
      <4>1. Max[west][Store(west, "EAST")] \in 0 .. MaxEdges
        BY <3>2, BrickAssumption
      <4>. QED
        BY <4>1, BrickAssumption DEF Indexes
    <3>. QED
      BY <3>1, <3>2, <3>3
  <2>6. ASSUME UnlinkEdge
        PROVE  \E x \in alive, y \in Sides, z \in Indexes :
                 link[x][y][z] # NoBrick /\ do_unlink(x, y, z) /\ walk' = walk
    <3>1. walk.brick \in alive /\ walk.side \in Sides /\ walk.edge \in Indexes
      BY <1>1, <2>6 DEF UnlinkEdge, Idle, IInv, WalkOK, BInv, TypeOK, Walks
    <3>. QED
      BY <2>6, <3>1 DEF UnlinkEdge
  <2>7. \E x \in alive, y \in Sides, z \in Indexes :
          link[x][y][z] # NoBrick /\ do_unlink(x, y, z) /\ walk' = walk
    BY <1>1, <2>2, <2>3, <2>4, <2>5, <2>6, Zenon
       DEF Next, pg_brick_unlink, pg_brick_destroy, StartWalk, NextEdge, WalkReturns
  <2>8. PICK x \in alive, y \in Sides, z \in Indexes :
          link[x][y][z] # NoBrick /\ do_unlink(x, y, z) /\ walk' = walk
    BY <2>7
  <2>. QED
    BY <1>1, <2>8, UnlinkRemovesOne
<1>2. ASSUME IInv, Next, NEW b \in alive, NEW c \in alive,
             NEW s \in Sides, NEW t \in Sides, NEW i \in Indexes, NEW j \in Indexes
      PROVE  RemovesOne(b, s, i, c, t, j)
  <2>1. CASE Removed(b, s, i)
    BY <1>1, <1>2, <2>1
  <2>2. CASE ~Removed(b, s, i)
    BY <2>2, Zenon DEF RemovesOne
  <2>. QED
    BY <2>1, <2>2
<1>3. IInv /\ [Next]_vars =>
        [\A b, c \in alive, s, t \in Sides, i, j \in Indexes : RemovesOne(b, s, i, c, t, j)]_vars
  BY <1>2
<1>. QED
  BY <1>3, Invariance, PTL DEF OthersKept, Spec
=============================================================================
