------------------------------ MODULE Filters -------------------------------
(***************************************************************************)
(* The bricks that decide packet by packet, or burst by burst, what they   *)
(* let through: nop, diode, user-dipole, hub, antispoof, firewall,         *)
(* udp-filter and pmtud.  state, call and sent are the ones of DataPath.   *)
(*                                                                         *)
(* A packet is a record of the fields the brick looks at.  The decisions   *)
(* do not depend on the other packets of a burst, so that an array that    *)
(* holds one packet of each sort, with a mask of all, one or none of them, *)
(* shows them all.                                                         *)
(***************************************************************************)
EXTENDS DataPath, TLC, SequencesExt, Functions, FiniteSetsExt

CONSTANTS
  HubMax,            \* edges of each side of the hub
  AntispoofIps,      \* addresses a neighbour may claim
  PG_ARP_MAX,        \* entries of the lists of the antispoof (ARP and NDP)
  FirewallRules,     \* the rules the user may add: side, filter, stateful
  FirewallFlows,     \* the connections packets belong to
  FirewallMax,       \* bound on the rules of a firewall
  FirewallFaults,    \* bound on the failures of its initialisation
  UdpFilters,        \* the arrays of filters a udp-filter is made with
  UdpPorts           \* ports of UDP packets

BothSides == Sides \cup {"MAX"}

\* One packet of each sort in an array, and the masks it comes with.
ArrayOf(Packets) ==
  LET seq == FoldSet(LAMBDA p, rest : Append(rest, p), <<>>, Packets)
  IN [i \in 0 .. Len(seq) - 1 |-> seq[i + 1]]

MasksOf(pkts) == {DOMAIN pkts, {}} \cup {{s} : s \in DOMAIN pkts}

Is(kind) == Idle /\ state.kind = kind

\* The bursts of a dipole: one to the other side.
Across(from, mask) == <<ToPort(Port(Flip(from), 0), mask)>>

\* The bursts of a dipole that keeps a burst without packets for itself.
AcrossIfAny(from, mask) == IF mask = {} THEN <<>> ELSE Across(from, mask)

Start(s) == state = s /\ call = NoCall /\ sent = <<>>

\* A call that changes the configuration of the brick and succeeds.
Configure(s) == state' = s /\ UNCHANGED <<call, sent>>

\* One that fails and changes nothing.
Refuse(op) == call' = [op |-> op, ret |-> -1] /\ UNCHANGED <<state, sent>>

-----------------------------------------------------------------------------
(* nop, diode and user-dipole. *)

nop_init == Start([kind |-> "nop"])

nop_burst(from, pkts, mask) == Is("nop") /\ Deliver(from, pkts, mask, Across(from, mask))

diode_init(output) == Start([kind |-> "diode", output |-> output])

\* What comes in from the output side goes nowhere.
diode_burst(from, pkts, mask) ==
  /\ Is("diode")
  /\ Deliver(from, pkts, mask, IF state.output = from THEN <<>> ELSE Across(from, mask))

user_dipole_init == Start([kind |-> "user_dipole"])

\* The callback may take packets out of the mask; a mask without packets is
\* forwarded too.
user_dipole_burst(from, pkts, mask) ==
  /\ Is("user_dipole")
  /\ \E kept \in SUBSET mask : Deliver(from, pkts, mask, Across(from, kept))

-----------------------------------------------------------------------------
(* hub *)

HubPorts == UNION {{Port(side, i) : i \in 0 .. HubMax[side] - 1} : side \in Sides}

hub_init == Start([kind |-> "hub", linked |-> {}, no_backward |-> FALSE])

hub_link(port) ==
  /\ Is("hub")
  /\ port \notin state.linked
  /\ \A k \in 0 .. port[2] - 1 : Port(port[1], k) \in state.linked
  /\ Configure([state EXCEPT !.linked = @ \cup {port}])

hub_unlink(port) ==
  /\ Is("hub")
  /\ port \in state.linked
  /\ Configure([state EXCEPT !.linked = @ \ {port}])

pg_hub_set_no_backward(val) == Is("hub") /\ Configure([state EXCEPT !.no_backward = val])

\* The linked edges of a side in the order of their index, all of max.
Edges(side) ==
  SelectSeq([i \in 1 .. HubMax[side] |-> Port(side, i - 1)], LAMBDA p : p \in state.linked)

\* The loops of hub_burst and hub_burst_one_side over the edges of ports.
HubPlan(ports, mask) == [n \in DOMAIN ports |-> ToPort(ports[n], mask)]

\* The side of the source but the source, then the other side.
HubTargets(from) ==
  SelectSeq(Edges(from[1]), LAMBDA p : p # from) \o Edges(Flip(from[1]))

hub_burst(from, pkts, mask) ==
  /\ Is("hub")
  /\ ~state.no_backward
  /\ from \in state.linked
  /\ Deliver(from, pkts, mask, HubPlan(HubTargets(from), mask))

hub_burst_one_side(from, pkts, mask) ==
  /\ Is("hub")
  /\ state.no_backward
  /\ from \in state.linked
  /\ Deliver(from, pkts, mask, HubPlan(Edges(Flip(from[1])), mask))
-----------------------------------------------------------------------------
(* antispoof.  granted counts, for each list and address, the additions less  *)
(* the removals since the list was emptied: what the user asked for.          *)

\* The two lists work alike: arps of IPv4 addresses, ndps of IPv6 ones.
Lists == {"arp", "ndp"}

antispoof_init(outside) ==
  Start([kind |-> "antispoof", outside |-> outside, enabled |-> {},
         list |-> [l \in Lists |-> <<>>],
         granted |-> [l \in Lists |-> [ip \in AntispoofIps |-> 0]]])

antispoof_enable(l) == Is("antispoof") /\ Configure([state EXCEPT !.enabled = @ \cup {l}])

pg_antispoof_arp_enable == antispoof_enable("arp")
pg_antispoof_ndp_enable == antispoof_enable("ndp")

antispoof_disable(l) == Is("antispoof") /\ Configure([state EXCEPT !.enabled = @ \ {l}])

pg_antispoof_arp_disable == antispoof_disable("arp")
pg_antispoof_ndp_disable == antispoof_disable("ndp")

\* Nothing keeps an address from being added twice.
antispoof_add(l, ip) ==
  /\ Is("antispoof")
  /\ IF Len(state.list[l]) = PG_ARP_MAX THEN Refuse("add")
     ELSE Configure([state EXCEPT !.list[l] = Append(@, ip), !.granted[l][ip] = @ + 1])

pg_antispoof_arp_add(ip) == antispoof_add("arp", ip)
pg_antispoof_ndp_add(ip) == antispoof_add("ndp", ip)

\* Mutant: the last entry is dropped and not moved to the place of the removed one.
RemovedLast(list, index) == Front(list)

\* The last entry takes the place of the removed one.
Removed(list, index) == Front([list EXCEPT ![index] = Last(list)])

\* The first entry with the address goes.
antispoof_del(l, ip) ==
  LET list  == state.list[l]
      found == {i \in DOMAIN list : list[i] = ip}
  IN /\ Is("antispoof")
     /\ IF found = {} THEN Refuse("del")
        ELSE Configure([state EXCEPT !.list[l] = Removed(@, Min(found)), !.granted[l][ip] = @ - 1])

pg_antispoof_arp_del(ip) == antispoof_del("arp", ip)
pg_antispoof_ndp_del(ip) == antispoof_del("ndp", ip)

antispoof_del_all(l) ==
  Is("antispoof") /\ Configure([state EXCEPT !.list[l] = <<>>,
                                             !.granted[l] = [ip \in AntispoofIps |-> 0]])

pg_antispoof_arp_del_all == antispoof_del_all("arp")
pg_antispoof_ndp_del_all == antispoof_del_all("ndp")

\* Packets of the inside: the source address is mine or not.  An ARP packet has
\* the header of ARP for IPv4 or not, and the addresses of the sender; an IPv6
\* packet a payload antispoof_ndp cannot reach, another one, or a neighbour
\* advertisement with its source, its target and a right link layer option or
\* not.
AntispoofPackets ==
  {[mine |-> FALSE, type |-> "other"], [mine |-> TRUE, type |-> "other"],
   [mine |-> TRUE, type |-> "rarp"],
   [mine |-> TRUE, type |-> "ipv6", l4 |-> "unreachable"],
   [mine |-> TRUE, type |-> "ipv6", l4 |-> "other"]}
  \cup {[mine |-> TRUE, type |-> "arp", part1 |-> p, sender_mac |-> m, ip |-> ip] :
          p \in BOOLEAN, m \in BOOLEAN, ip \in AntispoofIps}
  \cup {[mine |-> TRUE, type |-> "ipv6", l4 |-> "na", ip |-> ip, target |-> t, ll |-> ll] :
          ip \in AntispoofIps, t \in AntispoofIps, ll \in BOOLEAN}

\* Some prepared entry has the fixed part and the sender of the packet.
antispoof_arp(pkt) ==
  \E i \in DOMAIN state.list["arp"] :
    pkt.part1 /\ pkt.sender_mac /\ pkt.ip = state.list["arp"][i]

antispoof_ndp(pkt) ==
  /\ pkt.l4 # "unreachable"
  /\ pkt.l4 = "na" => /\ \E i \in DOMAIN state.list["ndp"] :
                            pkt.ip = state.list["ndp"][i] /\ pkt.target = state.list["ndp"][i]
                      /\ pkt.ll

\* The checks of antispoof_burst on a packet of the inside, in their order.
AntispoofPasses(pkt) ==
  /\ pkt.mine
  /\ pkt.type # "rarp"
  /\ "arp" \in state.enabled /\ pkt.type = "arp" => antispoof_arp(pkt)
  /\ "ndp" \in state.enabled /\ pkt.type = "ipv6" => antispoof_ndp(pkt)

antispoof_burst(from, pkts, mask) ==
  /\ Is("antispoof")
  /\ Deliver(from, pkts, mask,
             IF state.outside = from THEN Across(from, mask)
             ELSE AcrossIfAny(from, {s \in mask : AntispoofPasses(pkts[s])}))

-----------------------------------------------------------------------------
(* firewall.  NPF is external: it holds the rules of the last configuration   *)
(* it loaded (active) and the connections its stateful rules let in (conns).  *)
(* nb_firewall counts the firewalls of the program, sysinits the calls of     *)
(* npfk_sysinit that no npfk_sysfini followed.                                *)

NoFirewall == [kind |-> "firewall", alive |-> FALSE, rules |-> <<>>, active |-> {}, conns |-> {},
               nb_firewall |-> 0, sysinits |-> 0, faults |-> 0]

firewall_none == Start(NoFirewall)

\* firewall_side_to_npf_rule
firewall_side_to_npf_rule(side) ==
  CASE side = "WEST" -> {"OUT"} [] side = "EAST" -> {"IN"} [] OTHER -> {"OUT", "IN"}

FIREWALL_SIDE_TO_NPF(side) == IF side = "WEST" THEN "OUT" ELSE "IN"

\* npfk_packet_handler: a packet passes if its connection is known, else if an
\* active rule of its direction accepts it, and one that is stateful may open the
\* connection.
Accepts(rules, dir, flow) ==
  {r \in rules : dir \in firewall_side_to_npf_rule(r.side) /\ flow \in r.filter}

\* The system is initialised again whenever no firewall is counted.
Sysinits == state.sysinits + (IF state.nb_firewall = 0 THEN 1 ELSE 0)

firewall_init ==
  /\ Is("firewall") /\ ~state.alive
  /\ Configure([state EXCEPT !.alive = TRUE, !.rules = <<>>, !.active = {}, !.conns = {},
                             !.nb_firewall = @ + 1, !.sysinits = Sysinits])

\* npfk_sysinit fails; npf_dpdk_create or npf_dpdk_ifattach does, and nothing is
\* undone; the first reload does, after the firewall was counted.
firewall_init_fails(where) ==
  /\ Is("firewall") /\ ~state.alive
  /\ state.faults < FirewallFaults
  /\ state' = [state EXCEPT !.sysinits = IF where = "sysinit" THEN @ ELSE Sysinits,
                            !.nb_firewall = IF where = "reload" THEN @ + 1 ELSE @,
                            !.faults = @ + 1]
  /\ call' = [op |-> "init", ret |-> -1]
  /\ UNCHANGED sent

firewall_destroy ==
  /\ Is("firewall") /\ state.alive
  /\ Configure([state EXCEPT !.alive = FALSE, !.rules = <<>>, !.active = {}, !.conns = {},
                             !.nb_firewall = @ - 1,
                             !.sysinits = IF state.nb_firewall = 1 THEN @ - 1 ELSE @])

\* A filter that does not compile leaves the list as it is.
pg_firewall_rule_add(rule) ==
  /\ Is("firewall") /\ state.alive
  /\ \/ /\ Len(state.rules) < FirewallMax
        /\ Configure([state EXCEPT !.rules = Append(@, rule)])
     \/ Refuse("rule_add")

\* The rules of the side, and the ones of both sides with them.
pg_firewall_rule_flush_side(side) ==
  /\ Is("firewall") /\ state.alive
  /\ Configure([state EXCEPT !.rules = SelectSeq(@, LAMBDA r :
       firewall_side_to_npf_rule(r.side) \cap firewall_side_to_npf_rule(side) = {})])

pg_firewall_rule_flush == Is("firewall") /\ state.alive /\ Configure([state EXCEPT !.rules = <<>>])

\* The new rules replace the old ones or the load fails; what becomes of the
\* connections is up to NPF.
pg_firewall_reload ==
  /\ Is("firewall") /\ state.alive
  /\ \/ \E kept \in SUBSET state.conns :
          Configure([state EXCEPT !.active = ToSet(state.rules), !.conns = kept])
     \/ Refuse("reload")

\* Connections that are too old go.
pg_firewall_gc ==
  /\ Is("firewall") /\ state.alive
  /\ \E kept \in SUBSET state.conns : Configure([state EXCEPT !.conns = kept])

FirewallPackets == {[ip |-> FALSE]} \cup {[ip |-> TRUE, flow |-> f] : f \in FirewallFlows}

\* The packets NPF is not asked about, and the ones it lets through.
FirewallPasses(from, pkt) ==
  \/ ~pkt.ip
  \/ pkt.flow \in state.conns
  \/ Accepts(state.active, FIREWALL_SIDE_TO_NPF(from), pkt.flow) # {}

firewall_burst(from, pkts, mask) ==
  LET passed == {s \in mask : FirewallPasses(from, pkts[s])}
      opened == {pkts[s].flow : s \in {s \in passed : /\ pkts[s].ip
                   /\ \E r \in Accepts(state.active, FIREWALL_SIDE_TO_NPF(from), pkts[s].flow) :
                        r.stateful}}
      plan   == AcrossIfAny(from, passed)
  IN /\ Is("firewall") /\ state.alive
     /\ \E failing \in 0 .. Len(plan), new \in SUBSET opened :
          /\ sent' = Bursts(plan, failing)
          /\ state' = [state EXCEPT !.conns = @ \cup new]
          /\ call' = [op |-> "burst", from |-> from, pkts |-> pkts, mask |-> mask,
                      ret |-> IF failing = 0 THEN 0 ELSE -1, conns |-> state.conns]

-----------------------------------------------------------------------------
(* udp-filter *)

\* rte_cpu_to_be_16
be16(n) == (n % 256) * 256 + n \div 256

\* udp_filter_init stores the ports of a filter in the order of the network.
Stored(filter) ==
  [filter EXCEPT !.udp_src_port = be16(@), !.udp_dst_port = be16(@)]

udp_filter_init(to, filters) ==
  Start([kind |-> "udp_filter", to |-> to, asked |-> filters,
         filters |-> [j \in DOMAIN filters |-> Stored(filters[j])]])

\* The fields of the UDP header as they are in the packet, or whatever is there
\* in a packet of another protocol.
UdpPackets == [udp : BOOLEAN, src_port : {be16(p) : p \in UdpPorts},
               dst_port : {be16(p) : p \in UdpPorts}]

Matches(filter, pkt) ==
  \/ "DST" \in filter.flag /\ pkt.dst_port = filter.udp_dst_port
  \/ "SRC" \in filter.flag /\ pkt.src_port = filter.udp_src_port

\* The ports a packet is put in the masks of: the default one when it is not UDP,
\* and then, UDP or not, the one of the first filter that matches, else the
\* default one.
PortsOf(pkt) ==
  LET hits == {j \in DOMAIN state.filters : Matches(state.filters[j], pkt)}
  IN (IF pkt.udp THEN {} ELSE {0}) \cup {IF hits = {} THEN 0 ELSE Min(hits)}

\* From the filtered side without a choice, else a burst to every port, even
\* without packets.
udp_filter_burst(from, pkts, mask) ==
  /\ Is("udp_filter")
  /\ Deliver(from, pkts, mask,
       IF from = state.to THEN Across(from, mask)
       ELSE [n \in 1 .. Len(state.filters) + 1 |->
               ToPort(Port(state.to, n - 1), {s \in mask : n - 1 \in PortsOf(pkts[s])})])

-----------------------------------------------------------------------------
(* pmtud *)

pmtud_init(output, mtu) == Start([kind |-> "pmtud", output |-> output, eth_mtu_size |-> mtu])

PmtudPackets(mtu) == [ipv4 : BOOLEAN, df : BOOLEAN, pkt_len : {mtu, mtu + 1}]

TooBig(pkt) == pkt.ipv4 /\ pkt.df /\ pkt.pkt_len > state.eth_mtu_size

\* The packets that are too big are answered one by one, as an ICMP message to
\* the side they come from (the mask tells what it is about), then the others go
\* on; a message that is refused ends the burst.
pmtud_burst(from, pkts, mask) ==
  LET big   == IF state.output = from THEN {s \in mask : TooBig(pkts[s])} ELSE {}
      order == SetToSortSeq(big, <)
      icmp  == [n \in DOMAIN order |-> ToPort(Port(from, 0), {order[n]})]
  IN Is("pmtud") /\ Deliver(from, pkts, mask, icmp \o AcrossIfAny(from, mask \ big))

-----------------------------------------------------------------------------
FilterArray ==
  CASE state.kind = "antispoof"  -> ArrayOf(AntispoofPackets)
    [] state.kind = "firewall"   -> ArrayOf(FirewallPackets)
    [] state.kind = "udp_filter" -> ArrayOf(UdpPackets)
    [] state.kind = "pmtud"      -> ArrayOf(PmtudPackets(state.eth_mtu_size))
    [] OTHER                     -> [i \in Slots |-> i]

FilterInit ==
  \/ nop_init \/ user_dipole_init \/ hub_init \/ firewall_none
  \/ \E side \in Sides :
       \/ diode_init(side) \/ antispoof_init(side) \/ pmtud_init(side, 1500)
       \/ \E filters \in UdpFilters : udp_filter_init(side, filters)

FilterBurst ==
  \E mask \in MasksOf(FilterArray) :
    \/ \E from \in Sides :
         \/ nop_burst(from, FilterArray, mask) \/ diode_burst(from, FilterArray, mask)
         \/ user_dipole_burst(from, FilterArray, mask)
         \/ antispoof_burst(from, FilterArray, mask) \/ firewall_burst(from, FilterArray, mask)
         \/ udp_filter_burst(from, FilterArray, mask) \/ pmtud_burst(from, FilterArray, mask)
    \/ \E from \in HubPorts :
         hub_burst(from, FilterArray, mask) \/ hub_burst_one_side(from, FilterArray, mask)

FilterNext ==
  \/ FilterBurst
  \/ \E port \in HubPorts : hub_link(port) \/ hub_unlink(port)
  \/ \E val \in BOOLEAN : pg_hub_set_no_backward(val)
  \/ pg_antispoof_arp_enable \/ pg_antispoof_arp_disable \/ pg_antispoof_arp_del_all
  \/ pg_antispoof_ndp_enable \/ pg_antispoof_ndp_disable \/ pg_antispoof_ndp_del_all
  \/ \E ip \in AntispoofIps :
       \/ pg_antispoof_arp_add(ip) \/ pg_antispoof_arp_del(ip)
       \/ pg_antispoof_ndp_add(ip) \/ pg_antispoof_ndp_del(ip)
  \/ firewall_init \/ firewall_destroy
  \/ \E where \in {"sysinit", "create", "reload"} : firewall_init_fails(where)
  \/ \E rule \in FirewallRules : pg_firewall_rule_add(rule)
  \/ \E side \in BothSides : pg_firewall_rule_flush_side(side)
  \/ pg_firewall_rule_flush \/ pg_firewall_reload \/ pg_firewall_gc

-----------------------------------------------------------------------------
(* Properties. *)

\* What a port should get of the burst at hand, by the kind of the brick.
Wanted(port) ==
  LET from  == call.from
      other == port = Port(Flip(from), 0)
  IN CASE state.kind = "nop" -> IF other THEN call.mask ELSE {}
       [] state.kind = "diode" -> IF other /\ port[1] = state.output THEN call.mask ELSE {}
       [] state.kind = "hub" ->
            IF port \in state.linked \ {from} /\ (state.no_backward => port[1] # from[1])
            THEN call.mask ELSE {}
       [] state.kind = "pmtud" ->
            {s \in call.mask :
               LET pkt    == call.pkts[s]
                   refuse == pkt.ipv4 /\ pkt.df /\ pkt.pkt_len > 1500 /\ from = state.output
               IN IF refuse THEN port = Port(from, 0) ELSE other}
       [] state.kind = "udp_filter" ->
            {s \in call.mask :
               LET pkt == call.pkts[s]
                   hit == {j \in DOMAIN state.asked :
                             LET f == state.asked[j] IN
                             \/ "DST" \in f.flag /\ be16(pkt.dst_port) = f.udp_dst_port
                             \/ "SRC" \in f.flag /\ be16(pkt.src_port) = f.udp_src_port}
               IN IF from = state.to THEN other
                  ELSE port = Port(state.to, IF pkt.udp /\ hit # {} THEN Min(hit) ELSE 0)}

\* A packet another than UDP may also be taken by the filter its bytes match.
Spared(port) ==
  IF state.kind = "udp_filter" /\ port[2] # 0 THEN {s \in call.mask : ~call.pkts[s].udp} ELSE {}

FilterPorts == HubPorts \cup {Port(side, i) : side \in Sides, i \in 0 .. 2}

\* When no neighbour refuses, every packet of a burst reaches the ports the
\* configuration of the brick names and no other: nop_burst the other side;
\* diode_burst the output side only; hub_burst every linked port but the one it
\* comes from, hub_burst_one_side the ones of the other side; udp_filter_burst
\* the port of the first filter the user gave for it, else the default one;
\* pmtud_burst the other side, unless it has to be answered to its sender.  No
\* port gets a packet twice.
ForwardExact ==
  state.kind \in {"nop", "diode", "hub", "pmtud", "udp_filter"} /\ Burst =>
    /\ \A port \in FilterPorts : SentOn(port) \ Spared(port) = Wanted(port)
    /\ \A m, n \in DOMAIN sent :
         sent[m].port = sent[n].port /\ sent[m].mask \cap sent[n].mask # {} => m = n

\* Whatever the history of additions and removals, antispoof_burst lets through
\* from the inside exactly the packets with the address of the owner that are not
\* RARP, of which an ARP one (when ARP is enabled) announces, in full, an address
\* that was added more often than removed, and likewise a neighbour advertisement
\* (when NDP is); from the outside it lets everything through.
AntispoofExact ==
  state.kind = "antispoof" /\ Burst =>
    SentOn(Port(Flip(call.from), 0)) =
      {s \in call.mask :
         LET pkt == call.pkts[s]
             may(l, ip) == state.granted[l][ip] > 0
         IN \/ call.from = state.outside
            \/ /\ pkt.mine /\ pkt.type # "rarp"
               /\ "arp" \in state.enabled /\ pkt.type = "arp" =>
                    pkt.part1 /\ pkt.sender_mac /\ may("arp", pkt.ip)
               /\ "ndp" \in state.enabled /\ pkt.type = "ipv6" =>
                    \/ pkt.l4 = "other"
                    \/ pkt.l4 = "na" /\ pkt.target = pkt.ip /\ pkt.ll /\ may("ndp", pkt.ip)}

\* firewall_burst lets through what is not IP, the connections that are open, and
\* what the rules loaded last accept on the side the user gave them for (the two
\* translations of a side into a direction of NPF agree); and, unless an
\* initialisation failed, NPF is initialised exactly while there is a firewall.
FirewallExact ==
  state.kind = "firewall" =>
    /\ Burst => SentOn(Port(Flip(call.from), 0)) =
         {s \in call.mask :
            LET pkt == call.pkts[s] IN
            \/ ~pkt.ip
            \/ pkt.flow \in call.conns
            \/ \E r \in state.active : r.side \in {call.from, "MAX"} /\ pkt.flow \in r.filter}
    /\ state.faults = 0 => state.sysinits = IF state.alive THEN 1 ELSE 0

\* Every brick that looks at a packet and forwards it, drops it or answers it does so
\* as it was configured last, over any sequence of configuration calls and bursts:
\* nop, diode, hub, udp-filter, pmtud, antispoof and firewall.
FilterExact == ForwardExact /\ AntispoofExact /\ FirewallExact
=============================================================================
