------------------------------- MODULE Switch -------------------------------
(***************************************************************************)
(* The learning switch (src/src/switch.c) on its table of addresses        *)
(* (MacTable).  Per port it keeps the mask of the packets to forward       *)
(* there; the masks are zeroed as they are forwarded, never before.        *)
(*                                                                         *)
(* The state: linked, the ports that have a neighbour; table and           *)
(* is_table_dead; masks.  An entry of the table is a pointer to            *)
(* sources[edge_index] of a side, that is a port.  trouble counts the      *)
(* bursts from the first one on that leave or may leave masks behind: a    *)
(* neighbour fails, an unlinked index is below the number of edges, or an  *)
(* unlink left an address in the table.                                    *)
(***************************************************************************)
EXTENDS DataPath, MacTable

CONSTANTS
  SwitchMax,       \* edges of each side of the switch
  SwitchMacs,      \* addresses of the stations, pairs of parts
  Multicast, Filtered,   \* an address of a group, an address of is_filtered
  SwitchOutput,    \* the side forwarded to first
  MaxTrouble       \* bound on trouble

SwitchPorts == UNION {{Port(side, i) : i \in 0 .. SwitchMax[side] - 1} : side \in Sides}

ASSUME SwitchAssumption ==
  /\ SwitchMax \in [Sides -> Nat] /\ SwitchOutput \in Sides /\ NoEntry \notin SwitchPorts
  /\ SwitchMacs \subseteq Nat \X Nat
  /\ Multicast \notin SwitchMacs /\ Filtered \notin SwitchMacs /\ Multicast # Filtered

\* Packets by their source and destination: a station, a multicast address,
\* or one of those a bridge must not forward (is_filtered).
SwitchPackets == [src : SwitchMacs, dst : SwitchMacs \cup {Multicast, Filtered}]

nb(side) == Cardinality({p \in state.linked : p[1] = side})

\* An index below nb without a link.
Hole == \E side \in Sides : \E i \in 0 .. nb(side) - 1 : Port(side, i) \notin state.linked

\* switch_init
switch_init ==
  /\ state = [kind |-> "switch", linked |-> {}, table |-> EmptyTable, is_table_dead |-> FALSE,
              masks |-> [p \in SwitchPorts |-> {}], trouble |-> 0]
  /\ call = NoCall
  /\ sent = <<>>

\* insert_link: the first free edge of the side.
switch_link(side) ==
  /\ Idle /\ state.kind = "switch"
  /\ \E i \in 0 .. SwitchMax[side] - 1 :
       /\ Port(side, i) \notin state.linked
       /\ \A k \in 0 .. i - 1 : Port(side, k) \in state.linked
       /\ state' = [state EXCEPT !.linked = @ \cup {Port(side, i)}]
  /\ UNCHANGED <<call, sent>>

\* Mutant: only the index is compared.
unlink_notifySideIgnored(table, port) ==
  ForeachTable(table, {mac \in Keys(table) : ptr_get(table, mac)[2] = port[2]})

\* switch_unlink_notify: the addresses at the port are taken out of the table,
\* as far as the iterator meets them.
switch_unlink_notify(table, port) ==
  ForeachTable(table, {mac \in Keys(table) : ptr_get(table, mac) = port})

\* do_unlink of a link of the switch: unlink_notify, then the edge is reset.
switch_unlink(port) ==
  LET table == IF state.is_table_dead THEN state.table
               ELSE switch_unlink_notify(state.table, port)
      left  == ~state.is_table_dead /\ \E mac \in Keys(table) : ptr_get(table, mac) = port
  IN /\ Idle /\ state.kind = "switch"
     /\ port \in state.linked
     /\ state' = [state EXCEPT !.linked = @ \ {port}, !.table = table,
                               !.trouble = IF left /\ @ = 0 THEN 1 ELSE @]
     /\ UNCHANGED <<call, sent>>

\* learn_addr
learn_addr(table, mac, source) == ptr_set_ok(table, mac, source)

\* The learning of do_learn_filter_multicast, from the lowest bit of the mask on.
Learnt(table, source, pkts, mask) ==
  LET after[n \in Nat] ==
        IF n = 0 THEN table
        ELSE IF n - 1 \in mask THEN learn_addr(after[n - 1], pkts[n - 1].src, source)
        ELSE after[n - 1]
  IN after[BurstMax]

\* The tables a burst goes on with: the one it has, or an empty one when an
\* allocation of learn_addr failed (longjmp: the table is freed, and the burst
\* starts again on a new one) or the table was dead.
TablesOf(pkts, mask) ==
  LET allocates == \E s \in mask : ~is_set(state.table, part1(pkts[s].src))
  IN (IF state.is_table_dead THEN {} ELSE {state.table})
     \cup (IF state.is_table_dead \/ allocates THEN {EmptyTable} ELSE {})

\* flood: every port below nb, whether it has a link or not.
flood == UNION {{Port(side, i) : i \in 0 .. nb(side) - 1} : side \in Sides}

\* The ports the masks of a packet are set for, by do_learn_filter_multicast
\* for a multicast address and by do_switch for another.
do_switch(table, dst) ==
  CASE dst = Filtered  -> {}
    [] dst = Multicast -> flood
    [] OTHER -> IF ptr_get(table, dst) = NoEntry THEN flood ELSE {ptr_get(table, dst)}

\* Mutant: the source port is forgotten only by flood.
SwitchMasksKeepSource(table, source, pkts, mask) ==
  [p \in SwitchPorts |-> state.masks[p] \cup {s \in mask : p \in do_switch(table, pkts[s].dst)}]

\* The masks forward_bursts starts with: the ones of the source port are zeroed.
SwitchMasks(table, source, pkts, mask) ==
  [p \in SwitchPorts |->
     IF p = source THEN {}
     ELSE state.masks[p] \cup {s \in mask : p \in do_switch(table, pkts[s].dst)}]

\* forward: a burst to a port that has a link and packets.
forward(bursts, p, masks) ==
  IF p \in state.linked /\ masks[p] # {} THEN Append(bursts, ToPort(p, masks[p])) ELSE bursts

\* The n-th port of the two loops of forward_bursts: the ports below nb, the
\* output side first.
forward_port(n) ==
  IF n < nb(SwitchOutput) THEN Port(SwitchOutput, n)
  ELSE Port(Flip(SwitchOutput), n - nb(SwitchOutput))

\* forward_bursts, as long as no neighbour fails.
forward_bursts(masks) ==
  LET after[n \in Nat] ==
        IF n = 0 THEN <<>> ELSE forward(after[n - 1], forward_port(n - 1), masks)
  IN after[nb(SwitchOutput) + nb(Flip(SwitchOutput))]

\* switch_burst
switch_burst(from, pkts, mask) ==
  /\ Idle /\ state.kind = "switch"
  /\ from \in state.linked
  /\ state.trouble < MaxTrouble
  /\ \E start \in TablesOf(pkts, mask) :
       LET table == Learnt(start, from, pkts, mask)
           masks == SwitchMasks(table, from, pkts, mask)
           plan  == forward_bursts(masks)
       IN \E failing \in 0 .. Len(plan) :
            LET done == Bursts(plan, failing) IN
            /\ sent' = done
            /\ state' = [state EXCEPT
                 !.table = table, !.is_table_dead = FALSE,
                 !.masks = [p \in SwitchPorts |->
                              IF \E b \in Range(done) : b.port = p THEN {} ELSE masks[p]],
                 !.trouble = IF failing > 0 \/ Hole \/ @ > 0 THEN @ + 1 ELSE @]
            /\ call' = [op |-> "burst", from |-> from, pkts |-> pkts, mask |-> mask,
                        ret |-> IF failing = 0 THEN 0 ELSE -1]

\* switch_burst when the new table cannot be allocated (mac_table_no_mem).
switch_burst_no_mem(from, pkts, mask) ==
  /\ Idle /\ state.kind = "switch"
  /\ from \in state.linked
  /\ state.is_table_dead \/ \E s \in mask : ~is_set(state.table, part1(pkts[s].src))
  /\ state' = [state EXCEPT !.table = EmptyTable, !.is_table_dead = TRUE]
  /\ UNCHANGED sent
  /\ call' = [op |-> "no_mem", ret |-> -1]

\* The arrays of packets a burst may come with.
SwitchBursts == UNION {{<<pkts, mask>> : pkts \in [mask -> SwitchPackets]} : mask \in SUBSET Slots}

SwitchNext ==
  \/ \E side \in Sides : switch_link(side)
  \/ \E port \in SwitchPorts : switch_unlink(port)
  \/ \E from \in SwitchPorts, b \in SwitchBursts :
       \/ switch_burst(from, b[1], b[2])
       \/ switch_burst_no_mem(from, b[1], b[2])

-----------------------------------------------------------------------------
(* Properties. *)

SwitchOnly == state.kind = "switch"

\* As long as no neighbour failed, no burst found a hole among the links and no
\* unlink left an address behind, switch_burst gives every packet to the ports
\* it is for and to no other: to the port its destination was learnt at, to all
\* of them when it is unknown or multicast, never to the port it comes from,
\* once; and no mask survives the burst to meet the packets of the next one.
SwitchExact ==
  SwitchOnly /\ state.trouble = 0 /\ Burst =>
    /\ \A p \in SwitchPorts : state.masks[p] = {}
    /\ \A m, n \in DOMAIN sent : sent[m].port = sent[n].port => m = n
    /\ \A p \in SwitchPorts :
         SentOn(p) = IF p \notin state.linked \/ p = call.from THEN {}
                     ELSE {s \in call.mask :
                             LET dst == call.pkts[s].dst IN
                             \/ dst = Multicast
                             \/ /\ dst \in SwitchMacs
                                /\ ptr_get(state.table, dst) \in {NoEntry, p}}

\* What the table of the switch is, whatever its words, arrays and iterator do.
Learning == INSTANCE LearningTable WITH
  Addresses <- SwitchMacs, Ports <- SwitchPorts, Nowhere <- NoEntry,
  learnt <- [mac \in SwitchMacs |-> IF SwitchOnly THEN ptr_get(state.table, mac) ELSE NoEntry],
  linked <- IF SwitchOnly THEN state.linked ELSE {},
  heard <- IF SwitchOnly /\ call.op = "burst"
           THEN [port |-> call.from, sources |-> {call.pkts[s].src : s \in call.mask}]
           ELSE [port |-> NoEntry, sources |-> {}]

\* The table of the switch (switch_burst, switch_unlink_notify) is a learning
\* table: every source of a burst moves to the port the burst came from, no other
\* address moves, and one goes only with its own port or with the whole table.
SwitchLearns == Learning!Spec
=============================================================================
