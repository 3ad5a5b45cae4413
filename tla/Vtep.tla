-------------------------------- MODULE Vtep --------------------------------
(***************************************************************************)
(* The VXLAN tunnel end point (src/src/vtep-impl.h, vtep.c, vtep6.c).      *)
(*                                                                         *)
(* Its output side has one edge, towards the network the tunnels go        *)
(* through; the edges of the other side are its ports, each with a VNI,    *)
(* the remote end points of the inner addresses it learnt (mac_to_dst) and *)
(* the inner addresses behind it (known_mac).  A table that ran out of     *)
(* memory is freed and marked in dead_tables; the next burst that needs it *)
(* makes a new one.  up tells which tables really are allocated.           *)
(*                                                                         *)
(* The state: flags; linked, the ports that have a neighbour; ports; refs, *)
(* the clones of packets the brick made and did not free; faults, the      *)
(* allocations and prepends that failed, by the place they failed at.  The *)
(* tick of the brick and the lifetime of an entry are kept as the age of   *)
(* the entry, up to the first one that is too old.                         *)
(***************************************************************************)
EXTENDS DataPath, MacTable

CONSTANTS
  VtepMax,      \* ports of the vtep
  VtepVnis,     \* the VNIs each port may be given, not 0
  VtepMacs,     \* inner addresses of stations
  Broadcast,    \* ff:ff:ff:ff:ff:ff
  Group,        \* the multicast address of a VNI
  VtepInner,    \* packets of the ports: source and destination
  VtepOuter,    \* packets of the network: valid VXLAN or not, VNI, end point, inner packet
  VtepFlags,    \* the sets of flags a vtep is made with
  VtepLife,     \* max_lifetime, 1000
  MaxFaults     \* bound on the faults

ASSUME VtepAssumption == VtepMax \in Nat

VtepPorts == 0 .. VtepMax - 1

\* rte_cpu_to_be_32(vni << 8) read as a number by a little endian CPU.
be(vni) == (vni % 256) * 65536 + ((vni \div 256) % 256) * 256 + vni \div 65536

NewPort == [vni |-> 0, multicast_ip |-> FALSE, mac_to_dst |-> EmptyTable,
            known_mac |-> EmptyTable, dead_tables |-> {}, up |-> {}]

vtep_init ==
  /\ \E flags \in VtepFlags :
       state = [kind |-> "vtep", flags |-> flags, linked |-> {},
                ports |-> [i \in VtepPorts |-> NewPort], refs |-> 0, faults |-> <<>>]
  /\ call = NoCall
  /\ sent = <<>>

VtepIdle == Idle /\ state.kind = "vtep"

Nb == Cardinality(state.linked)

Flag(f) == f \in state.flags

vtep_link ==
  /\ VtepIdle
  /\ \E i \in VtepPorts \ state.linked :
       /\ \A k \in 0 .. i - 1 : k \in state.linked
       /\ state' = [state EXCEPT !.linked = @ \cup {i}]
  /\ UNCHANGED <<call, sent>>

-----------------------------------------------------------------------------
(* Configuration. *)

\* multicast4_internal, multicast6_internal: the message that joins or leaves the
\* group of a VNI goes out, unless there is no memory for it or the neighbour of
\* the output refuses it.
MulticastOutcomes == {"sent", "no_mbuf", "refused"}

multicast_internal(action, outcome) ==
  /\ call' = [op |-> action, ret |-> IF outcome = "sent" THEN 0 ELSE -1]
  /\ sent' = IF outcome = "no_mbuf" THEN <<>> ELSE <<ToPort("output", {0})>>

\* do_add_vni on a port that has none: the VNI, the group and two new tables.
do_add_vni(port, vni) ==
  [port EXCEPT !.vni = be(vni), !.multicast_ip = TRUE, !.mac_to_dst = EmptyTable,
               !.known_mac = EmptyTable, !.up = {"MAC_TO_DST", "KNOWN_MAC"}]

\* do_add_mac: the address is behind the port.
do_add_mac(port, mac) == [port EXCEPT !.known_mac = ptr_set_ok(@, mac, TRUE)]

\* pg_vtep_add_vni: the port must be linked and have no VNI yet.  The broadcast
\* address is known on every port.  The port keeps its VNI when the subscription
\* to the group fails.
pg_vtep_add_vni(i, vni) ==
  LET port == state.ports[i] IN
  /\ VtepIdle
  /\ i \in state.linked
  /\ port.vni = 0 /\ ~port.multicast_ip
  /\ \E outcome \in MulticastOutcomes : multicast_internal("subscribe", outcome)
  /\ state' = [state EXCEPT !.ports[i] = do_add_mac(do_add_vni(port, vni), Broadcast)]

\* Mutant: the port keeps its VNI and its tables.
do_remove_vniKeeps(port) == IF ~port.multicast_ip THEN port ELSE [port EXCEPT !.multicast_ip = FALSE]

\* do_remove_vni: the tables that are not dead are freed and the port is cleared.
do_remove_vni(port) ==
  IF ~port.multicast_ip THEN port
  ELSE [NewPort EXCEPT !.up = port.up \cap port.dead_tables]

\* do_unlink of a port: vtep_unlink_notify, then the edge is reset.
vtep_unlink(i) ==
  /\ VtepIdle
  /\ i \in state.linked
  /\ IF state.ports[i].multicast_ip THEN multicast_internal("unsubscribe", "sent")
     ELSE UNCHANGED <<call, sent>>
  /\ state' = [state EXCEPT !.linked = @ \ {i}, !.ports[i] = do_remove_vni(@)]

\* When the message that leaves the group cannot be made or sent, the error
\* stops the unlink before anything is changed.
vtep_unlink_fails(i) ==
  /\ VtepIdle
  /\ i \in state.linked
  /\ state.ports[i].multicast_ip
  /\ \E outcome \in MulticastOutcomes \ {"sent"} : multicast_internal("unsubscribe", outcome)
  /\ UNCHANGED state

\* The first port pg_vtep_add_mac finds a VNI at.
PortOf(vni) == {i \in 0 .. Nb - 1 : /\ state.ports[i].vni = be(vni)
                                    /\ \A k \in 0 .. i - 1 : state.ports[k].vni # be(vni)}

\* pg_vtep_add_mac
pg_vtep_add_mac(vni, mac) ==
  /\ VtepIdle
  /\ \E i \in PortOf(vni) :
       state' = [state EXCEPT !.ports[i] = do_add_mac(@, mac)]
  /\ UNCHANGED <<call, sent>>

\* The same out of memory: known_mac is marked, mac_to_dst is freed.
pg_vtep_add_mac_no_mem(vni, mac) ==
  /\ VtepIdle
  /\ Len(state.faults) < MaxFaults
  /\ \E i \in PortOf(vni) :
       /\ ptr_set_fails(state.ports[i].known_mac, mac) # {}
       /\ state' = [state EXCEPT !.ports[i].dead_tables = {"KNOWN_MAC"},
                                 !.ports[i].up = @ \ {"MAC_TO_DST"},
                                 !.faults = Append(@, "add_mac")]
  /\ call' = [op |-> "add_mac", ret |-> -1]
  /\ UNCHANGED sent

\* pg_vtep_unset_mac: the port is taken at the index vni and its VNI compared in
\* the order of the network.
pg_vtep_unset_mac(vni, mac) ==
  /\ VtepIdle
  /\ Nb > 0
  /\ vni \in VtepPorts
  /\ state.ports[vni].vni = vni
  /\ state' = [state EXCEPT !.ports[vni].mac_to_dst = ptr_unset(@, mac)]
  /\ UNCHANGED <<call, sent>>

\* pg_vtep_clean_all_mac
pg_vtep_clean_all_mac(i) ==
  /\ VtepIdle
  /\ i < Nb
  /\ state' = [state EXCEPT !.ports[i].mac_to_dst = EmptyTable]
  /\ UNCHANGED <<call, sent>>

\* The loop of pg_vtep_cleanup_mac.
cleanup_mac(table) ==
  ForeachTable(table, {mac \in Keys(table) : ptr_get(table, mac).age > VtepLife})

pg_vtep_cleanup_mac(i) ==
  /\ VtepIdle
  /\ i < Nb
  /\ state' = [state EXCEPT !.ports[i].mac_to_dst = cleanup_mac(@)]
  /\ UNCHANGED <<call, sent>>

-----------------------------------------------------------------------------
(* Bursts. *)

\* ++state->vtep_tick: every entry is one burst older.
Older(entry) == [entry EXCEPT !.age = IF @ > VtepLife THEN @ ELSE @ + 1]

Tick(ports) ==
  [i \in VtepPorts |->
     [ports[i] EXCEPT !.mac_to_dst =
        [p \in DOMAIN @ |-> [@[p] EXCEPT !.ptr = [q \in DOMAIN @ |-> Older(@[q])]]]]]

\* try_fix_tables when the memory is there.  dead_tables never holds both.
try_fix_tables(port) ==
  [port EXCEPT !.mac_to_dst = IF "MAC_TO_DST" \in port.dead_tables THEN EmptyTable ELSE @,
               !.known_mac = IF "KNOWN_MAC" \in port.dead_tables THEN EmptyTable ELSE @,
               !.up = @ \cup port.dead_tables,
               !.dead_tables = {}]

\* A fault of a burst: what fails, at which port and packet.
NoFault == [what |-> "none", port |-> 0, slot |-> 0]

Faults(ports, mask) ==
  {NoFault} \cup
  (IF Len(state.faults) < MaxFaults
   THEN [what : {"fix", "clone", "headroom", "mac"}, port : ports, slot : mask] ELSE {})
  \cup [what : {"burst"}, port : ports, slot : {0}]

\* The faults the brick is supposed to get over.
Recorded(f) == IF f.what \in {"none", "burst"} THEN state.faults ELSE Append(state.faults, f.what)

Copies == ~Flag("NO_COPY")

Count(copies, S) == IF copies THEN Cardinality(S) ELSE 0

\* Where vtep_encapsulate sends a packet: the end point its destination was
\* learnt at, else the group.
Destination(port, pkt) ==
  IF pkt.dst # Broadcast /\ ptr_get(port.mac_to_dst, pkt.dst) # NoEntry
  THEN ptr_get(port.mac_to_dst, pkt.dst).ip ELSE Group

\* vtep_header_prepend: an entry in use is young again, the source of a packet
\* to the group is known behind the port.
vtep_header_prepend(port, pkt) ==
  IF Destination(port, pkt) # Group
  THEN [port EXCEPT !.mac_to_dst[part1(pkt.dst)].ptr[part2(pkt.dst)].age = 0]
  ELSE IF Flag("NO_INNERMAC_CHECK") THEN port
  ELSE do_add_mac(port, pkt.src)

\* The port after vtep_encapsulate of the packets of S, in order.
Encapsulated(port, pkts, S) ==
  LET after[n \in Nat] ==
        IF n = 0 THEN port
        ELSE IF n - 1 \in S THEN vtep_header_prepend(after[n - 1], pkts[n - 1])
        ELSE after[n - 1]
  IN after[BurstMax]

\* Can the fault happen in to_vtep, with the port as it is before packet f.slot?
ToVtepFault(port, pkts, f) ==
  LET before == Encapsulated(try_fix_tables(port), pkts, {s \in DOMAIN pkts : s < f.slot}) IN
  CASE f.what = "fix"      -> port.dead_tables # {} /\ f.slot = Min(DOMAIN pkts)
    [] f.what = "clone"    -> port.multicast_ip /\ Copies
    [] f.what = "headroom" -> port.multicast_ip
    [] f.what = "mac"      -> /\ port.multicast_ip /\ ~Flag("NO_INNERMAC_CHECK")
                              /\ Destination(before, pkts[f.slot]) = Group
                              /\ ptr_set_fails(before.known_mac, pkts[f.slot].src) # {}
    [] f.what = "burst"    -> port.multicast_ip
    [] OTHER               -> TRUE

\* The clones to_vtep leaves: the ones made so far when it stops between two
\* packets; when a table runs out of memory all of state->pkts is freed, which
\* does not hold the clone at hand and holds old packets from there on.
ToVtepRefs(f, mask) ==
  CASE f.what \in {"clone", "headroom"} -> Count(Copies, {s \in mask : s < f.slot})
    [] f.what = "mac" -> Count(Copies, {f.slot}) - Count(Copies, {s \in mask : s >= f.slot})
    [] OTHER          -> 0

\* vtep_burst from a port, to_vtep.
to_vtep(i, pkts, mask) ==
  LET ticked == Tick(state.ports)
      port   == ticked[i]
  IN /\ VtepIdle
     /\ i \in state.linked
     /\ \E f \in Faults({i}, mask) :
          /\ ToVtepFault(port, pkts, f)
          /\ LET stop  == IF f.what \in {"clone", "headroom", "mac"} THEN f.slot ELSE Max(mask) + 1
                 fixed == IF f.what = "fix" THEN port ELSE try_fix_tables(port)
                 after == IF port.multicast_ip /\ f.what # "fix"
                          THEN Encapsulated(fixed, pkts, {s \in mask : s < stop}) ELSE fixed
             IN /\ state' = [state EXCEPT
                     !.ports = [ticked EXCEPT ![i] =
                       IF f.what # "mac" THEN after
                       ELSE [after EXCEPT !.dead_tables = {"KNOWN_MAC"}, !.up = @ \ {"KNOWN_MAC"}]],
                     !.refs = @ + (IF port.multicast_ip THEN ToVtepRefs(f, mask) ELSE 0),
                     !.faults = Recorded(f)]
                /\ sent' = IF ~port.multicast_ip \/ f.what \notin {"none", "burst"} THEN <<>>
                           ELSE <<[port |-> "output", mask |-> mask, vni |-> port.vni,
                                   to |-> [s \in mask |->
                                     Destination(Encapsulated(fixed, pkts, {t \in mask : t < s}),
                                                 pkts[s])]]>>
     /\ call' = [op |-> "to_vtep", from |-> i, pkts |-> pkts, mask |-> mask,
                 ret |-> IF sent' = <<>> /\ port.multicast_ip THEN -1 ELSE 0]

-----------------------------------------------------------------------------
(* From the network. *)

\* classify_pkts: the packets with a VXLAN header and, if they have one, a right
\* checksum.
classify_pkts(pkts, mask) == {s \in mask : pkts[s].vxlan}

\* Mutant: the VNI of the packet is not looked at.
VniPktsAll(port, pkts, mask) == IF port.vni = 0 THEN {} ELSE mask

\* check_and_clone_vni_pkts and check_vni_pkts: the packets of the port.
VniPkts(port, pkts, mask) == {s \in mask : be(pkts[s].vni) = port.vni}

\* The packets decapsulate lets through: to an address that is known behind the
\* port, unless the check is off.
InnerMacKnown(port, pkts, S) ==
  IF Flag("NO_INNERMAC_CHECK") THEN S
  ELSE {s \in S : ptr_get(port.known_mac, pkts[s].dst) # NoEntry}

\* Mutant: an inner source that is known is not looked at again.
add_dst_iner_macsOnce(table, pkts, S) ==
  LET after[n \in Nat] ==
        IF n = 0 THEN table
        ELSE IF n - 1 \in S /\ ptr_get(after[n - 1], pkts[n - 1].src) = NoEntry
        THEN ptr_set_ok(after[n - 1], pkts[n - 1].src, [ip |-> pkts[n - 1].from, age |-> 0])
        ELSE after[n - 1]
  IN after[BurstMax]

\* add_dst_iner_macs: the inner source is at the outer one, from the lowest bit of
\* the mask on.
add_dst_iner_macs(table, pkts, S) ==
  LET after[n \in Nat] ==
        IF n = 0 THEN table
        ELSE IF n - 1 \in S
        THEN ptr_set_ok(after[n - 1], pkts[n - 1].src, [ip |-> pkts[n - 1].from, age |-> 0])
        ELSE after[n - 1]
  IN after[BurstMax]

\* from_vtep when a table runs out of memory: the mac_to_dst of every port below
\* nb is freed and marked, whatever was marked before.
FreeAllPorts(ports) ==
  [i \in VtepPorts |->
     IF i >= Nb THEN ports[i]
     ELSE [ports[i] EXCEPT !.dead_tables = {"MAC_TO_DST"}, !.up = @ \ {"MAC_TO_DST"}]]

\* A port of decapsulate and decapsulate_simple.  It takes its packets out of the
\* mask.  d holds the mask that is left, the ports, the bursts made,
\* the clones not freed and whether the burst goes on.  A clone that fails gives
\* up the packets of this port, not the burst.
decapsulate_port(d, i, pkts, f) ==
  LET was   == d.ports[i]
      port  == try_fix_tables(was)
      here  == f.port = i
      vni   == VniPkts(port, pkts, d.mask)
      hit   == InnerMacKnown(port, pkts, vni)
      new   == [port EXCEPT !.mac_to_dst = add_dst_iner_macs(@, pkts, hit)]
      burst == IF i \in state.linked /\ hit # {} THEN <<ToPort(i, hit)>> ELSE <<>>
  IN CASE ~d.on \/ d.mask = {} -> d
       [] here /\ f.what = "fix" /\ was.dead_tables # {} -> [d EXCEPT !.on = FALSE, !.fault = TRUE]
       [] here /\ f.what = "clone" /\ Copies /\ f.slot \in vni ->
            [d EXCEPT !.ports[i] = port, !.fault = TRUE,
                      !.refs = @ + Cardinality({s \in vni : s < f.slot})]
       [] /\ here /\ f.what = "mac" /\ f.slot \in hit
          /\ ptr_set_fails(add_dst_iner_macs(port.mac_to_dst, pkts, {s \in hit : s < f.slot}),
                           pkts[f.slot].src) # {} ->
            [d EXCEPT !.ports = FreeAllPorts([d.ports EXCEPT ![i] = port]), !.on = FALSE,
                      !.fault = TRUE, !.refs = @ + Count(Copies, vni)]
       [] here /\ f.what = "burst" /\ burst # <<>> ->
            [d EXCEPT !.ports[i] = new, !.sent = @ \o burst, !.on = FALSE, !.fault = TRUE]
       [] OTHER ->
            [d EXCEPT !.ports[i] = new, !.sent = @ \o burst, !.mask = @ \ vni]

\* decapsulate and decapsulate_simple: the ports in order.
decapsulate(start, pkts, f) ==
  LET after[n \in Nat] == IF n = 0 THEN start ELSE decapsulate_port(after[n - 1], n - 1, pkts, f)
  IN after[Nb]

\* vtep_burst from the output, from_vtep.
from_vtep(pkts, mask) ==
  LET start == [mask |-> classify_pkts(pkts, mask), ports |-> Tick(state.ports), sent |-> <<>>,
                refs |-> 0, on |-> TRUE, fault |-> FALSE]
  IN /\ VtepIdle
     /\ \E f \in Faults(0 .. Nb - 1, mask) :
          LET d == decapsulate(start, pkts, f) IN
          /\ d.fault = (f # NoFault)
          /\ state' = [state EXCEPT !.ports = d.ports, !.refs = @ + d.refs,
                 !.faults = IF f.what = "mac" THEN Append(@, "mac_to_dst") ELSE Recorded(f)]
          /\ sent' = d.sent
          /\ call' = [op |-> "from_vtep", pkts |-> pkts, mask |-> mask,
                      ret |-> IF d.on THEN 0 ELSE -1]

\* The arrays of packets from a port, and from the network.
Arrays(Packets) == UNION {[mask -> Packets] : mask \in {pg_mask_firsts(n) : n \in 1 .. BurstMax}}

VtepNext ==
  \/ vtep_link
  \/ \E i \in VtepPorts :
       \/ vtep_unlink(i) \/ vtep_unlink_fails(i)
       \/ pg_vtep_clean_all_mac(i) \/ pg_vtep_cleanup_mac(i)
       \/ \E vni \in VtepVnis[i] : pg_vtep_add_vni(i, vni)
       \/ \E pkts \in Arrays(VtepInner) : to_vtep(i, pkts, DOMAIN pkts)
  \/ \E vni \in UNION Range(VtepVnis), mac \in VtepMacs :
       \/ pg_vtep_add_mac(vni, mac) \/ pg_vtep_add_mac_no_mem(vni, mac)
       \/ pg_vtep_unset_mac(vni, mac)
  \/ \E pkts \in Arrays(VtepOuter) : from_vtep(pkts, DOMAIN pkts)

-----------------------------------------------------------------------------
(* Properties. *)

VtepOnly == state.kind = "vtep"

Faulted(places) == \E n \in DOMAIN state.faults : state.faults[n] \in places

\* from_vtep gives a packet of the network to one port at most, to a port with
\* the VNI of the packet, behind which its inner destination is known unless the
\* check is off; and to_vtep sends a packet under the VNI of its port.
VtepIsolates ==
  VtepOnly =>
    /\ call.op = "from_vtep" =>
         /\ \A b \in Range(sent) : \A s \in b.mask :
              /\ call.pkts[s].vxlan
              /\ be(call.pkts[s].vni) = state.ports[b.port].vni
              /\ \/ Flag("NO_INNERMAC_CHECK")
                 \/ Faulted({"add_mac", "mac_to_dst"})
                 \/ ptr_get(state.ports[b.port].known_mac, call.pkts[s].dst) # NoEntry
         /\ \A m, n \in DOMAIN sent : sent[m].mask \cap sent[n].mask # {} => m = n
    /\ call.op = "to_vtep" =>
         \A b \in Range(sent) : /\ b.mask = call.mask
                               /\ b.vni = state.ports[call.from].vni
                               /\ b.vni # 0

\* While no clone and no prepend fails and no table runs out of memory, a VXLAN
\* packet whose VNI has a port (below nb) reaches it if its destination is known
\* there: no port takes it first or drops it.
VtepDelivers ==
  VtepOnly /\ call.op = "from_vtep" /\ call.ret = 0 /\ state.faults = <<>> =>
    \A s \in classify_pkts(call.pkts, call.mask) : \A i \in 0 .. Nb - 1 :
      /\ i \in state.linked
      /\ be(call.pkts[s].vni) = state.ports[i].vni
      /\ \A k \in 0 .. i - 1 : state.ports[k].vni # state.ports[i].vni
      /\ \/ Flag("NO_INNERMAC_CHECK")
         \/ ptr_get(state.ports[i].known_mac, call.pkts[s].dst) # NoEntry
      => s \in SentOn(i)

\* What a vtep forwards goes where its VNI and its inner addresses say: nothing leaks
\* into another network (from_vtep, to_vtep), and nothing is lost in its own.
VtepExact == VtepIsolates /\ VtepDelivers

\* dead_tables tells the truth: a port with a VNI has each of its tables allocated
\* or marked dead, never both, and a port without one has none, so that none is
\* lost, used or freed twice.  It holds as long as only to_vtep runs out of memory.
TablesTold ==
  VtepOnly /\ ~Faulted({"add_mac", "mac_to_dst"}) =>
    \A i \in VtepPorts :
      LET port == state.ports[i] IN
      port.up = IF port.multicast_ip THEN {"MAC_TO_DST", "KNOWN_MAC"} \ port.dead_tables ELSE {}

\* Every clone is freed by the end of the burst that made it, unless a clone, a
\* prepend or a table failed.
VtepRefs == VtepOnly /\ ~Faulted({"clone", "headroom", "mac", "mac_to_dst"}) => state.refs = 0

\* A vtep accounts for what it allocates, over any sequence of calls and failures:
\* its tables (do_add_vni, do_remove_vni, try_fix_tables) and the clones of its bursts.
VtepTables == TablesTold /\ VtepRefs

\* A port learns from what it delivers, and from nothing else: when from_vtep gives
\* it packets with an inner source, mac_to_dst leads from this source to the end
\* point the last of them came from; otherwise an entry never moves to another.
VtepLearns ==
  [][VtepOnly => \A i \in VtepPorts, mac \in VtepMacs :
       LET old == ptr_get(state.ports[i].mac_to_dst, mac)
           new == ptr_get(state.ports[i].mac_to_dst, mac)'
           got == IF call'.op = "from_vtep" THEN {s \in SentOn(i)' : call'.pkts[s].src = mac} ELSE {}
       IN IF got # {} THEN new # NoEntry /\ new.ip = call'.pkts[Max(got)].from
          ELSE new # NoEntry => old # NoEntry /\ new.ip = old.ip]_dpvars
=============================================================================
