------------------------------ MODULE MacTable ------------------------------
(***************************************************************************)
(* The table of MAC addresses of the switch and the vtep                   *)
(* (src/src/utils/mac-table.h, mac-table-it-next.h).                       *)
(*                                                                         *)
(* A MAC is cut in two parts of 24 bits.  The first one indexes an array   *)
(* of sub tables, the second one the entries of a sub table; beside each   *)
(* array a mask of 64-bit words tells which of its cells are in use, and   *)
(* only those are ever read.  A table is the function from the first parts *)
(* whose bit is set to their sub tables, a sub table the function from the *)
(* second parts whose bit is set to their entries.  A sub table is         *)
(* allocated in two steps: entries is FALSE between them.                  *)
(*                                                                         *)
(* The operators take a table and return the new one.                      *)
(***************************************************************************)
EXTENDS Integers, Sequences, FiniteSets, Functions, FiniteSetsExt

CONSTANTS
  Word,     \* bits of a word of a mask, 64
  NoEntry   \* NULL

part1(mac) == mac[1]
part2(mac) == mac[2]

\* pg_mac_table_init: no bit is set.  pg_mac_table_clear frees every sub table
\* and gets there too.
EmptyTable == <<>>

is_set(ma, p) == p \in DOMAIN ma

mask_idx(p) == p \div Word

\* pg_mac_table_ptr_set and pg_mac_table_elem_set when they succeed.
ptr_set_ok(ma, mac, entry) ==
  LET sub == IF is_set(ma, part1(mac)) THEN ma[part1(mac)].ptr ELSE <<>>
      new == [q \in DOMAIN sub \cup {part2(mac)} |-> IF q = part2(mac) THEN entry ELSE sub[q]]
  IN [p \in DOMAIN ma \cup {part1(mac)} |->
        IF p = part1(mac) THEN [entries |-> TRUE, ptr |-> new] ELSE ma[p]]

\* What they leave when an allocation fails, before the longjmp: nothing when
\* it is the sub table, a sub table without entries when it is those.
ptr_set_fails(ma, mac) ==
  IF is_set(ma, part1(mac)) THEN {}
  ELSE {ma, [p \in DOMAIN ma \cup {part1(mac)} |->
               IF p = part1(mac) THEN [entries |-> FALSE, ptr |-> <<>>] ELSE ma[p]]}

\* pg_mac_table_ptr_get and pg_mac_table_elem_get.
ptr_get(ma, mac) ==
  IF is_set(ma, part1(mac)) /\ is_set(ma[part1(mac)].ptr, part2(mac))
  THEN ma[part1(mac)].ptr[part2(mac)] ELSE NoEntry

\* pg_mac_table_ptr_unset and pg_mac_table_elem_unset.  The sub table stays.
ptr_unset(ma, mac) ==
  IF is_set(ma, part1(mac)) /\ is_set(ma[part1(mac)].ptr, part2(mac))
  THEN [ma EXCEPT ![part1(mac)].ptr = Restrict(@, DOMAIN @ \ {part2(mac)})]
  ELSE ma

\* The addresses that have an entry.
Keys(ma) == UNION {{<<p, q>> : q \in DOMAIN ma[p].ptr} : p \in DOMAIN ma}

\* pg_mac_table_compute_length: the bits of every sub table.
compute_length(ma) == MapThenSumSet(LAMBDA p : Cardinality(DOMAIN ma[p].ptr), DOMAIN ma)

-----------------------------------------------------------------------------
(* The iterator.  It remembers the words of the two masks it is in (i, j)  *)
(* and the bits of these words that are left (m0 with the sub table it is  *)
(* in, m1), and the address it is at.                                      *)

End == [key |-> <<>>]

Before(k, l) == k[1] < l[1] \/ (k[1] = l[1] /\ k[2] < l[2])

\* The part of a mask in its word w.
MaskWord(mask, w) == {p \in mask : mask_idx(p) = w}

\* The addresses MAC_TABLE_IT_NEXT has before it: what is left of the word it
\* is in, or else the following words of this sub table, and all of the sub
\* tables after it.
IteratorLeft(ma, it) ==
  LET parts == it.m0 \cup {p \in DOMAIN ma : mask_idx(p) > it.i}
  IN IF it.m1 # {} /\ parts # {} THEN {<<Min(parts), q>> : q \in it.m1}
     ELSE {k \in Keys(ma) : /\ k[1] \in parts
                            /\ k[1] = Min(parts) => mask_idx(k[2]) > it.j}

\* MAC_TABLE_IT_NEXT: on to the first of them.
iterator_next(ma, it) ==
  LET left == IteratorLeft(ma, it)
  IN IF left = {} THEN End
     ELSE LET k == CHOOSE x \in left : \A y \in left : x = y \/ Before(x, y)
              w == mask_idx(k[1])
          IN [key |-> k, i |-> w, j |-> mask_idx(k[2]),
              m0 |-> {p \in IF w = it.i THEN it.m0 ELSE MaskWord(DOMAIN ma, w) : p >= k[1]},
              m1 |-> {q \in IF it.m1 # {} THEN it.m1
                            ELSE MaskWord(DOMAIN ma[k[1]].ptr, mask_idx(k[2])) : q > k[2]}]

\* pg_mac_table_iterator_init.
iterator_init(ma) ==
  LET m0 == MaskWord(DOMAIN ma, 0)
      m1 == IF 0 \in m0 THEN MaskWord(DOMAIN ma[0].ptr, 0) ELSE {}
      it == [key |-> <<>>, i |-> 0, j |-> 0, m0 |-> m0, m1 |-> m1]
  IN IF 0 \in m1 THEN [it EXCEPT !.key = <<0, 0>>, !.m1 = m1 \ {0}]
     ELSE iterator_next(ma, it)

\* A turn of PG_MAC_TABLE_FOREACH with a body that unsets the address the iterator
\* is at when it is in doomed.
ForeachTurn(it, ma, doomed) ==
  LET t == IF it.key \in doomed THEN ptr_unset(ma, it.key) ELSE ma
  IN IF it = End THEN <<it, ma>> ELSE <<iterator_next(t, it), t>>

\* The iterator and the table after the last turn.
Foreach(ma, doomed) ==
  LET turn[n \in Nat] ==
        IF n = 0 THEN <<iterator_init(ma), ma>>
        ELSE ForeachTurn(turn[n - 1][1], turn[n - 1][2], doomed)
  IN turn[Cardinality(Keys(ma)) + 1]

\* The table after the loop.
ForeachTable(ma, doomed) == Foreach(ma, doomed)[2]

\* The addresses a loop that changes nothing is at.
Visited(ma) ==
  LET turn[n \in Nat] ==
        IF n = 0 THEN <<iterator_init(ma)>>
        ELSE LET its == turn[n - 1] IN
             IF its[Len(its)] = End THEN its ELSE Append(its, iterator_next(ma, its[Len(its)]))
      its == turn[Cardinality(Keys(ma)) + 1]
  IN [n \in 1 .. Len(its) - 1 |-> its[n].key]

\* The addresses the loop does not get to: when no address begins with 0, m1 is
\* empty at the start and the first word of the first sub table is stepped over.
Skipped(ma) ==
  IF DOMAIN ma = {} \/ 0 \in DOMAIN ma THEN {}
  ELSE {k \in Keys(ma) : k[1] = Min(DOMAIN ma) /\ mask_idx(k[2]) = 0}
=============================================================================
