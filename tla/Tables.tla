------------------------------- MODULE Tables -------------------------------
(***************************************************************************)
(* The two tables of the NPF firewall whose sources are in the tree:       *)
(* liblpm, the longest prefix match of addresses, and libcdb, a constant   *)
(* database with a perfect hash, with the arithmetic it is read with.      *)
(***************************************************************************)
EXTENDS DataPath, TLC, SequencesExt, FiniteSetsExt

CONSTANTS
  LpmWord,         \* bits of a word of an address, 32
  LpmAddrs,        \* the addresses prefixes are made of: sequences of words
  LpmVals,         \* what prefixes are mapped to
  LPM_HASH_STEP,   \* 8, scaled down
  LpmMax,          \* insertions and removals of a behaviour
  CdbKeys,         \* keys of the database
  CdbHashes,       \* what mi_vector_hash may return
  CdbMinEntries,   \* 10, scaled down
  CdbMax,          \* data of a database
  Byte,            \* 256, scaled down
  Width            \* bits of an unsigned integer, 32: a power of 2

-----------------------------------------------------------------------------
(* lpm.c.  A prefix is kept in the hash table of its length; bitmask tells   *)
(* which lengths have had one.  routes is what the table should hold.        *)

lpm_create ==
  [kind |-> "lpm", bitmask |-> {}, defval |-> "NULL", prefix |-> <<>>, routes |-> <<>>, ops |-> 0]

LpmIs == Idle /\ state.kind = "lpm" /\ state.ops < LpmMax

LpmSet(s) == state' = [s EXCEPT !.ops = @ + 1] /\ UNCHANGED <<call, sent>>

NoMap == [size |-> 0, nitems |-> 0, bucket |-> <<>>]

\* The hash table of a length.
Hmap(lpm, preflen) == IF preflen \in DOMAIN lpm.prefix THEN lpm.prefix[preflen] ELSE NoMap

\* fnv1a_hash: some function of the bytes of the key.
fnv1a_hash(key) == FoldLeft(LAMBDA h, w : 3 * h + w, 1, key)

\* The loop of hashmap_rehash: every entry goes to the head of its new bucket.
Rehashed(hmap, size) ==
  LET entries == FoldLeft(LAMBDA all, b : all \o hmap.bucket[b], <<>>, [b \in 1 .. hmap.size |-> b - 1])
  IN [hmap EXCEPT !.size = size,
        !.bucket = FoldLeft(LAMBDA bucket, e :
                              [bucket EXCEPT ![fnv1a_hash(e.key) % size] = <<e>> \o @],
                            [b \in 0 .. size - 1 |-> <<>>], entries)]

\* hashmap_rehash: the smallest power of two that is large enough.
hashmap_rehash(hmap, target) ==
  Rehashed(hmap, Min({s \in {2 ^ k : k \in 0 .. 6} : s >= target}))

\* hashmap_lookup: the position of the key in its bucket, 0 if it is not there.
hashmap_lookup(hmap, key) ==
  LET list == hmap.bucket[fnv1a_hash(key) % hmap.size]
  IN IF \E i \in DOMAIN list : list[i].key = key
     THEN CHOOSE i \in DOMAIN list : list[i].key = key ELSE 0

\* hashmap_insert, once the table is large enough and memory is there.
hashmap_insert(hmap, key, val) ==
  LET i == hashmap_lookup(hmap, key)
      b == fnv1a_hash(key) % hmap.size
  IN IF i # 0 THEN [hmap EXCEPT !.bucket[b][i].val = val]
     ELSE [hmap EXCEPT !.bucket[b] = <<[key |-> key, val |-> val]>> \o @, !.nitems = @ + 1]

\* hashmap_remove: nitems stays as it is.
hashmap_remove(hmap, key) ==
  LET i == hashmap_lookup(hmap, key)
  IN IF i = 0 THEN hmap ELSE [hmap EXCEPT !.bucket[fnv1a_hash(key) % hmap.size] = RemoveAt(@, i)]

\* Word by word, the bits of the address that belong to the prefix.
compute_prefix(addr, preflen) ==
  [i \in DOMAIN addr |->
     LET left == preflen - LpmWord * (i - 1)
     IN IF left <= 0 THEN 0
        ELSE IF left < LpmWord THEN addr[i] - (addr[i] % 2 ^ (LpmWord - left))
        ELSE addr[i]]

\* The bit of a length: the word of the mask, and the bit counted from the lowest.
PrefBit(preflen) == <<(preflen - 1) \div LpmWord, LpmWord - 1 - ((preflen - 1) % LpmWord)>>

Route(addr, preflen) == <<compute_prefix(addr, preflen), preflen>>

lpm_insert(addr, preflen, val) ==
  LET key == compute_prefix(addr, preflen)
      hmap == Hmap(state, preflen)
      target == hmap.nitems + LPM_HASH_STEP
      large == IF hmap.size < target THEN hashmap_rehash(hmap, target) ELSE hmap
  IN /\ LpmIs
     /\ LpmSet(IF preflen = 0 THEN [state EXCEPT !.defval = val]
               ELSE [state EXCEPT !.prefix = (preflen :> hashmap_insert(large, key, val)) @@ @,
                                  !.bitmask = @ \cup {PrefBit(preflen)},
                                  !.routes = (Route(addr, preflen) :> val) @@ @])

\* The insertion finds no memory: for the table, or for the entry.
lpm_insert_no_mem(addr, preflen) ==
  LET hmap == Hmap(state, preflen)
      target == hmap.nitems + LPM_HASH_STEP
  IN /\ LpmIs /\ preflen > 0
     /\ hmap.size >= target => hashmap_lookup(hmap, compute_prefix(addr, preflen)) = 0
     /\ LpmSet(IF hmap.size < target
               THEN [state EXCEPT !.prefix = (preflen :> hashmap_rehash(hmap, target)) @@ @]
               ELSE state)

\* Only for a length that has had an entry: the table of any other has no bucket.
lpm_remove(addr, preflen) ==
  /\ LpmIs
  /\ preflen > 0 => Hmap(state, preflen).size > 0
  /\ LpmSet(IF preflen = 0 THEN [state EXCEPT !.defval = "NULL"]
            ELSE [state EXCEPT !.prefix[preflen] = hashmap_remove(@, compute_prefix(addr, preflen)),
                               !.routes = [r \in DOMAIN @ \ {Route(addr, preflen)} |-> @[r]]])

lpm_clear == LpmIs /\ LpmSet([lpm_create EXCEPT !.ops = state.ops])

\* Mutant: the lowest word of the mask comes first.
LookupOrderUp(lpm, nwords) ==
  SetToSortSeq({b \in lpm.bitmask : b[1] < nwords}, LAMBDA a, b : a[1] < b[1] \/ (a[1] = b[1] /\ a[2] < b[2]))

\* The bits lpm_lookup tries, in order: the words from the last, ffs in each.
LookupOrder(lpm, nwords) ==
  SetToSortSeq({b \in lpm.bitmask : b[1] < nwords}, LAMBDA a, b : a[1] > b[1] \/ (a[1] = b[1] /\ a[2] < b[2]))

lpm_lookup(lpm, addr) ==
  LET order == LookupOrder(lpm, Len(addr))
      from[n \in 1 .. Len(order) + 1] ==
        IF n > Len(order) THEN lpm.defval
        ELSE LET preflen == LpmWord * order[n][1] + LpmWord - order[n][2]
                 key == compute_prefix(addr, preflen)
                 hmap == Hmap(lpm, preflen)
                 i == hashmap_lookup(hmap, key)
             IN IF i = 0 THEN from[n + 1] ELSE hmap.bucket[fnv1a_hash(key) % hmap.size][i].val
  IN from[1]

LpmNext ==
  \/ lpm_clear
  \/ \E addr \in LpmAddrs :
       \E preflen \in 0 .. LpmWord * Len(addr) :
         \/ \E val \in LpmVals : lpm_insert(addr, preflen, val)
         \/ lpm_insert_no_mem(addr, preflen)
         \/ lpm_remove(addr, preflen)

\* lpm_lookup returns the value of the longest prefix of the address that was
\* inserted and not removed, for every address of every length, whatever the
\* insertions that failed, the tables that grew and the lengths that have no prefix
\* any more; the default when there is none.
LpmLongest ==
  state.kind = "lpm" =>
    \A n \in {Len(a) : a \in LpmAddrs} : \A addr \in [1 .. n -> 0 .. 2 ^ LpmWord - 1] :
      LET matching == {p \in 1 .. LpmWord * n : Route(addr, p) \in DOMAIN state.routes}
      IN lpm_lookup(state, addr) =
           IF matching = {} THEN state.defval ELSE state.routes[Route(addr, Max(matching))]
-----------------------------------------------------------------------------
(* bitops.h: division by a number known in advance, with a product and two    *)
(* shifts.  Integers have Width bits.                                         *)

\* fls32: the halves, quarters ... are tried in turn.
fls32(n) ==
  LET halve[k \in {2 ^ i : i \in 0 .. Width}] ==
        IF k = Width THEN [n |-> n, v |-> Width]
        ELSE LET prev == halve[2 * k]
             IN IF prev.n < 2 ^ (Width - k) THEN [n |-> prev.n * 2 ^ k, v |-> prev.v - k] ELSE prev
  IN IF n = 0 THEN 0 ELSE halve[1].v

fast_divide32_prepare(div) ==
  LET l == fls32(div - 1)
  IN [m |-> ((2 ^ Width * (2 ^ l - div)) \div div + 1) % 2 ^ Width,
      s1 |-> IF l > 1 THEN 1 ELSE l, s2 |-> IF l = 0 THEN 0 ELSE l - 1]

fast_divide32(v, p) ==
  LET t == (v * p.m) \div 2 ^ Width
  IN (t + (v - t) \div 2 ^ p.s1) \div 2 ^ p.s2

fast_remainder32(v, div) == v - div * fast_divide32(v, fast_divide32_prepare(div))

-----------------------------------------------------------------------------
(* mi_vector_hash: the bytes of the end of a key that go to each of the three *)
(* words, and where.  A byte is its index, a place the number of bits.        *)

\* le32dec at an offset.
Word32(reg, offset) == {<<reg, offset + j, 8 * j>> : j \in 0 .. 3}

\* A key that is not aligned, byte by byte.
TailBytes(n) ==
  CASE n > 8 -> {<<"c", i, 8 * (i - 7)>> : i \in 8 .. n - 1} \cup Word32("b", 4) \cup Word32("a", 0)
    [] n \in 5 .. 8 -> {<<"b", i, 8 * (i - 4)>> : i \in 4 .. n - 1} \cup Word32("a", 0)
    [] OTHER -> {<<"a", i, 8 * i>> : i \in 0 .. n - 1}

\* word & mask[n - 1]
Masked(word, n) == {w \in word : w[3] < 8 * n}

\* A key that is aligned, word by word under a mask.
TailWords(n) ==
  CASE n > 8 -> {<<w[1], w[2], w[3] + 8>> : w \in Masked(Word32("c", 8), n - 8)}
                  \cup Word32("b", 4) \cup Word32("a", 0)
    [] n \in 5 .. 8 -> Masked(Word32("b", 4), n - 4) \cup Word32("a", 0)
    [] OTHER -> Masked(Word32("a", 0), n)

-----------------------------------------------------------------------------
(* cdbw.c, the writer.  data holds the data with their lengths, keys the index *)
(* of the datum of each key; a datum is the number of the call that made it.   *)

cdbw_open == [kind |-> "cdb", data |-> <<>>, keys |-> <<>>, puts |-> 0]

CdbIs == Idle /\ state.kind = "cdb" /\ state.puts < CdbMax

CdbSet(data, keys) ==
  /\ state' = [state EXCEPT !.data = data, !.keys = keys, !.puts = @ + 1]
  /\ UNCHANGED <<call, sent>>

cdbw_put_data(len) == CdbIs /\ CdbSet(Append(state.data, [id |-> state.puts, len |-> len]), state.keys)

\* A key that is there already, or an index that is not, is refused.
cdbw_put_key(key, idx) ==
  /\ CdbIs /\ key \notin DOMAIN state.keys /\ idx < Len(state.data)
  /\ CdbSet(state.data, (key :> idx) @@ state.keys)

\* cdbw_put: a key that is refused takes its datum back.
cdbw_put(key, len) ==
  /\ CdbIs
  /\ IF key \in DOMAIN state.keys THEN CdbSet(state.data, state.keys)
     ELSE CdbSet(Append(state.data, [id |-> state.puts, len |-> len]), (key :> Len(state.data)) @@ state.keys)

\* remove_vertex: an edge that is alone at a vertex is taken out of the graph.
remove_vertex(graph, edges, v) ==
  LET at == {e \in graph.left : v \in ToSet(edges[e])}
  IN IF Cardinality(at) # 1 THEN graph
     ELSE LET e == CHOOSE e \in at : TRUE
          IN [left |-> graph.left \ {e}, order |-> Append(graph.order, e)]

\* build_graph: all vertices in turn, then the three ends of every edge taken out.
\* The edges are taken out in the order of the result, which holds all of them if
\* the graph has no cycle.
build_graph(edges, entries) ==
  LET first == FoldLeft(LAMBDA g, v : remove_vertex(g, edges, v - 1),
                        [left |-> DOMAIN edges, order |-> <<>>], [v \in 1 .. entries |-> v])
      ends(g, i) == IF i > Len(g.order) THEN g
                    ELSE FoldLeft(LAMBDA h, v : remove_vertex(h, edges, v), g, edges[g.order[i]])
  IN FoldLeft(LAMBDA g, i : ends(g, i), first, [i \in 1 .. Cardinality(DOMAIN edges) |-> i]).order

\* Mutant: the edges are taken in the order they left the graph.
OutputOrderKept(order) == order

\* output_order is filled from its end.
OutputOrder(order) == Reverse(order)

\* assign_nodes: the first vertex of an edge that has no number gets the one that
\* makes their sum the index of the edge.
assign_nodes(edges, idx, order, entries, n) ==
  LET number(st, e) ==
        LET fresh == SelectSeq(edges[e], LAMBDA v : v \notin st.visited)
            v == IF fresh = <<>> THEN edges[e][3] ELSE fresh[1]
            others == FoldSet(LAMBDA w, sum : sum + st.g[w], 0, ToSet(edges[e]) \ {v})
        IN [g |-> [st.g EXCEPT ![v] = (2 * n + idx[e] - others) % n],
            visited |-> st.visited \cup ToSet(edges[e])]
  IN FoldLeft(number, [g |-> [v \in 0 .. entries - 1 |-> 0], visited |-> {}], OutputOrder(order)).g

compute_size(size) == IF size < Byte THEN 1 ELSE IF size < Byte ^ 2 THEN 2 ELSE 4

DataSize(data) == FoldLeft(LAMBDA a, d : a + d.len, 0, data)

\* Bytes that align the offsets.
Padding(bytes, unit) == IF bytes % unit = 0 THEN 0 ELSE unit - (bytes % unit)

\* print_hash: the integers of the file by the place and the number of their bytes;
\* an integer loses the bytes that are not written.
print_hash(data, g, entries, hash) ==
  LET size == compute_size(entries)
      size2 == compute_size(DataSize(data))
      offsets == 40 + entries * size + Padding(entries * size, size2)
      place == offsets + (Len(data) + 1) * size2
  IN [data_size |-> DataSize(data), entries |-> Len(data), entries_index |-> entries, hash |-> hash,
      ints |-> [p \in {<<40 + i * size, size>> : i \in 0 .. entries - 1} |->
                  g[(p[1] - 40) \div size] % Byte ^ size]
               @@ [p \in {<<offsets + i * size2, size2>> : i \in 0 .. Len(data)} |->
                  DataSize(SubSeq(data, 1, (p[1] - offsets) \div size2)) % Byte ^ size2],
      data_base |-> place, data |-> data]

Entries(keys) == Max({keys + (keys + 3) \div 4, CdbMinEntries})

\* cdbw_output: seeds are tried until the hashes of the keys give a graph without
\* cycle, whose edges have three vertices each.
cdbw_output(hash) ==
  LET entries == Entries(Cardinality(DOMAIN state.keys))
      edges == [key \in DOMAIN hash |-> [i \in 1 .. 3 |-> hash[key][i] % entries]]
      order == build_graph(edges, entries)
  IN /\ Idle /\ state.kind = "cdb"
     /\ IF DOMAIN state.keys = {}
        THEN call' = [op |-> "cdb", file |-> print_hash(state.data, <<>>, 0, hash)]
        ELSE /\ \A key \in DOMAIN edges : Cardinality(ToSet(edges[key])) = 3
             /\ Len(order) = Cardinality(DOMAIN edges)
             /\ call' = [op |-> "cdb",
                         file |-> print_hash(state.data,
                                             assign_nodes(edges, state.keys, order, entries, Len(state.data)),
                                             entries, hash)]
     /\ UNCHANGED <<state, sent>>

-----------------------------------------------------------------------------
(* cdbr.c, the reader. *)

\* cdbr_open_mem: the places and the sizes, from the header alone.
cdbr_open_mem(file) ==
  LET offset_size == compute_size(file.data_size)
      index_size == compute_size(file.entries_index)
      bytes == file.entries_index * index_size
      offset_base == 40 + bytes + (IF bytes % offset_size = 0 THEN 0 ELSE offset_size - (bytes % offset_size))
  IN [offset_size |-> offset_size, index_size |-> index_size, hash_base |-> 40,
      offset_base |-> offset_base, data_base |-> offset_base + (file.entries + 1) * offset_size]

\* An integer of the file; another number if there is none at this place.
get_uintX(file, base, idx, size) ==
  IF <<base + idx * size, size>> \in DOMAIN file.ints THEN file.ints[<<base + idx * size, size>>] ELSE -1

\* cdbr_get: the datum as the bytes between two offsets.
cdbr_get(file, idx) ==
  LET r == cdbr_open_mem(file)
      start == get_uintX(file, r.offset_base, idx, r.offset_size)
      end == get_uintX(file, r.offset_base, idx + 1, r.offset_size)
  IN IF idx >= file.entries \/ start > end \/ end > file.data_size THEN [ret |-> -1]
     ELSE [ret |-> 0, at |-> r.data_base + start, len |-> end - start]

cdbr_find(file, key) ==
  LET r == cdbr_open_mem(file)
      at(i) == get_uintX(file, r.hash_base, fast_remainder32(file.hash[key][i], file.entries_index), r.index_size)
  IN IF file.entries_index = 0 THEN [ret |-> -1]
     ELSE cdbr_get(file, fast_remainder32(at(1) + at(2) + at(3), file.entries))

CdbNext ==
  \/ \E len \in 0 .. 2 : cdbw_put_data(len)
  \/ \E key \in CdbKeys :
       \/ \E len \in 0 .. 2 : cdbw_put(key, len)
       \/ \E idx \in 0 .. CdbMax : cdbw_put_key(key, idx)
  \/ state.kind = "cdb" /\ \E hash \in [DOMAIN state.keys -> CdbHashes] : cdbw_output(hash)

TableInit ==
  /\ call = NoCall /\ sent = <<>>
  /\ \/ state \in {lpm_create, cdbw_open}
     \/ \E div \in 1 .. 2 ^ Width - 1 : state = [kind |-> "divide", div |-> div]
     \/ \E n \in 0 .. 11 : state = [kind |-> "tail", len |-> n]

TableNext == LpmNext \/ CdbNext

\* Where the file has the bytes of a datum.
Located(file, idx) ==
  [ret |-> 0, at |-> file.data_base + DataSize(SubSeq(file.data, 1, idx)), len |-> file.data[idx + 1].len]

\* The file cdbw_output writes gives back what was put in it: cdbr_get every datum by
\* its index and no other, cdbr_find the datum of every key, for any hashes of the keys
\* the writer accepted, as long as the indexes fit the integers of the hash table (its
\* size is the one of the number of vertices, not of data).  For this the reader's
\* remainders are the ones of the writer's %, and a key hashes the same wherever it is
\* in memory.
CdbFinds ==
  /\ call.op = "cdb" =>
       LET file == call.file
       IN /\ \A idx \in 0 .. Len(state.data) - 1 : cdbr_get(file, idx) = Located(file, idx)
          /\ cdbr_get(file, Len(state.data)).ret = -1
          /\ Len(state.data) <= Byte ^ compute_size(file.entries_index) =>
               \A key \in DOMAIN state.keys : cdbr_find(file, key) = Located(file, state.keys[key])
  /\ state.kind = "divide" => \A v \in 0 .. 2 ^ Width - 1 : fast_remainder32(v, state.div) = v % state.div
  /\ state.kind = "tail" => TailBytes(state.len) = TailWords(state.len)
=============================================================================
