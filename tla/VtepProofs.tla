----------------------------- MODULE VtepProofs -----------------------------
(***************************************************************************)
(* Proofs about the vtep, for any number of ports, stations, packets of a  *)
(* burst and allocations that fail.  They use the table of addresses and   *)
(* the loops of SwitchProofs.                                              *)
(***************************************************************************)
EXTENDS SwitchProofs

-----------------------------------------------------------------------------
(* The loops of the vtep. *)

\* A vtep by itself.
VtepSpec == vtep_init /\ [][VtepNext \/ Return]_dpvars

\* The loop of vtep_encapsulate.
LEMMA EncapsulatedTurns ==
  ASSUME NEW port, NEW pkts, NEW S
  PROVE  \E after : /\ after[0] = port
                    /\ \A n \in Nat : after[n + 1] = PrependTurn(after[n], n, pkts, S)
                    /\ Encapsulated(port, pkts, S) = after[BurstMax]
<1>. DEFINE loop == [name |-> "prepend", pkts |-> pkts, S |-> S]
            after == CHOOSE x : x = [n \in Nat |-> IF n = 0 THEN port ELSE PrependTurn(x[n - 1], n - 1, pkts, S)]
<1>1. \A x, n : LoopTurn(loop, x, n) = PrependTurn(x, n, pkts, S)
  BY DEF LoopTurn
<1>. HIDE DEF loop
<1>2. PICK x : IsLoop(loop, port, x)
  BY LoopExists
<1>3. x = [n \in Nat |-> IF n = 0 THEN port ELSE PrependTurn(x[n - 1], n - 1, pkts, S)]
  BY <1>1, <1>2 DEF IsLoop
<1>4. after = [n \in Nat |-> IF n = 0 THEN port ELSE PrependTurn(after[n - 1], n - 1, pkts, S)]
  BY <1>3
<1>5. Encapsulated(port, pkts, S) = after[BurstMax]
  BY DEF Encapsulated, PrependTurn
<1>. HIDE DEF after
<1>6. ASSUME NEW n \in Nat PROVE after[n + 1] = PrependTurn(after[n], n, pkts, S)
  <2>1. n + 1 \in Nat /\ n + 1 # 0 /\ (n + 1) - 1 = n
    OBVIOUS
  <2>. QED
    BY <1>4, <2>1
<1>. QED
  BY <1>4, <1>5, <1>6

\* The loop of decapsulate.
LEMMA DecapsulateTurns ==
  ASSUME NEW start, NEW pkts, NEW f
  PROVE  \E after : /\ after[0] = start
                    /\ \A n \in Nat : after[n + 1] = decapsulate_port(after[n], n, pkts, f)
                    /\ decapsulate(start, pkts, f) = after[Nb]
<1>. DEFINE loop == [name |-> "ports", pkts |-> pkts, f |-> f]
            after == CHOOSE x : x = [n \in Nat |-> IF n = 0 THEN start ELSE decapsulate_port(x[n - 1], n - 1, pkts, f)]
<1>1. \A x, n : LoopTurn(loop, x, n) = decapsulate_port(x, n, pkts, f)
  BY DEF LoopTurn
<1>. HIDE DEF loop
<1>2. PICK x : IsLoop(loop, start, x)
  BY LoopExists
<1>3. x = [n \in Nat |-> IF n = 0 THEN start ELSE decapsulate_port(x[n - 1], n - 1, pkts, f)]
  BY <1>1, <1>2 DEF IsLoop
<1>4. after = [n \in Nat |-> IF n = 0 THEN start ELSE decapsulate_port(after[n - 1], n - 1, pkts, f)]
  BY <1>3
<1>5. decapsulate(start, pkts, f) = after[Nb]
  BY DEF decapsulate
<1>. HIDE DEF after
<1>6. ASSUME NEW n \in Nat PROVE after[n + 1] = decapsulate_port(after[n], n, pkts, f)
  <2>1. n + 1 \in Nat /\ n + 1 # 0 /\ (n + 1) - 1 = n
    OBVIOUS
  <2>. QED
    BY <1>4, <2>1
<1>. QED
  BY <1>4, <1>5, <1>6

-----------------------------------------------------------------------------
(* What the vtep has allocated. *)

Both == {"MAC_TO_DST", "KNOWN_MAC"}

IsPort(port) ==
  /\ DOMAIN port = {"vni", "multicast_ip", "mac_to_dst", "known_mac", "dead_tables", "up"}
  /\ port.multicast_ip \in BOOLEAN /\ port.dead_tables \subseteq Both

\* dead_tables of a port tells the truth.
Told(port) ==
  /\ port.up = IF port.multicast_ip THEN Both \ port.dead_tables ELSE {}
  /\ ~port.multicast_ip => port.dead_tables = {}

\* A port with the same tables allocated and marked.
SameTables(p, q) ==
  /\ DOMAIN p = DOMAIN q
  /\ p.multicast_ip = q.multicast_ip /\ p.dead_tables = q.dead_tables /\ p.up = q.up

\* The operations on a port.
LEMMA PortOps ==
  ASSUME NEW port, IsPort(port)
  PROVE  /\ \A t : SameTables([port EXCEPT !.mac_to_dst = t], port)
         /\ \A mac : SameTables(do_add_mac(port, mac), port)
         /\ \A pkt : SameTables(vtep_header_prepend(port, pkt), port)
         /\ IsPort(try_fix_tables(port)) /\ (Told(port) => Told(try_fix_tables(port)))
         /\ try_fix_tables(port).dead_tables = {} /\ try_fix_tables(port).multicast_ip = port.multicast_ip
         /\ IsPort(do_remove_vni(port)) /\ (Told(port) => Told(do_remove_vni(port)))
<1>. USE DEF IsPort
<1>1. \A t : SameTables([port EXCEPT !.mac_to_dst = t], port)
  BY DEF SameTables
<1>2. \A t : SameTables([port EXCEPT !.known_mac = t], port)
  BY DEF SameTables
<1>3. \A mac : SameTables(do_add_mac(port, mac), port)
  BY <1>2 DEF do_add_mac
<1>4. ASSUME NEW pkt PROVE SameTables(vtep_header_prepend(port, pkt), port)
  <2>1. SameTables(port, port)
    BY DEF SameTables
  <2>2. SameTables([port EXCEPT !.mac_to_dst[part1(pkt.dst)].ptr[part2(pkt.dst)].age = 0], port)
    BY DEF SameTables
  <2>. QED
    BY <1>3, <2>1, <2>2 DEF vtep_header_prepend
<1>5. /\ IsPort(try_fix_tables(port)) /\ (Told(port) => Told(try_fix_tables(port)))
      /\ try_fix_tables(port).dead_tables = {} /\ try_fix_tables(port).multicast_ip = port.multicast_ip
  <2>. DEFINE a == IF "MAC_TO_DST" \in port.dead_tables THEN EmptyTable ELSE port.mac_to_dst
              b == IF "KNOWN_MAC" \in port.dead_tables THEN EmptyTable ELSE port.known_mac
              q == try_fix_tables(port)
  <2>1. q = [port EXCEPT !.mac_to_dst = a, !.known_mac = b, !.up = port.up \cup port.dead_tables, !.dead_tables = {}]
    BY DEF try_fix_tables
  <2>. HIDE DEF a, b, q
  <2>2. /\ DOMAIN q = DOMAIN port /\ q.multicast_ip = port.multicast_ip
        /\ q.up = port.up \cup port.dead_tables /\ q.dead_tables = {}
    BY <2>1
  <2>3. Told(port) => Told(q)
    BY <2>2 DEF Told
  <2>. QED
    BY <2>2, <2>3 DEF q
<1>6. IsPort(do_remove_vni(port)) /\ (Told(port) => Told(do_remove_vni(port)))
  <2>1. CASE port.multicast_ip
    <3>. DEFINE q == do_remove_vni(port)
    <3>1. q = [NewPort EXCEPT !.up = port.up \cap port.dead_tables]
      BY <2>1 DEF do_remove_vni
    <3>. HIDE DEF q
    <3>2. IsPort(q) /\ q.multicast_ip = FALSE /\ q.dead_tables = {} /\ q.up = port.up \cap port.dead_tables
      BY <3>1 DEF NewPort
    <3>3. Told(port) => q.up = {}
      BY <2>1, <3>2 DEF Told
    <3>. QED
      BY <3>2, <3>3 DEF Told, q
  <2>2. CASE ~port.multicast_ip
    BY <2>2 DEF do_remove_vni
  <2>. QED
    BY <2>1, <2>2
<1>. QED
  BY <1>1, <1>3, <1>4, <1>5, <1>6

\* What depends on the tables of a port only.
LEMMA SameTold ==
  ASSUME NEW p, NEW q, SameTables(p, q), IsPort(q)
  PROVE  IsPort(p) /\ (Told(q) => Told(p))
BY DEF SameTables, IsPort, Told

\* vtep_encapsulate allocates nothing.
LEMMA EncapsulatedSame ==
  ASSUME NEW port, IsPort(port), NEW pkts, NEW S
  PROVE  SameTables(Encapsulated(port, pkts, S), port)
<1>1. PICK after : /\ after[0] = port
                   /\ \A n \in Nat : after[n + 1] = PrependTurn(after[n], n, pkts, S)
                   /\ Encapsulated(port, pkts, S) = after[BurstMax]
  BY EncapsulatedTurns
<1>. DEFINE Good == {n \in Nat : SameTables(after[n], port)}
<1>2. 0 \in Good
  BY <1>1 DEF SameTables
<1>3. ASSUME NEW n \in Nat, n \in Good PROVE n + 1 \in Good
  <2>1. SameTables(after[n], port)
    BY <1>3
  <2>2. IsPort(after[n])
    BY <2>1, SameTold
  <2>3. SameTables(vtep_header_prepend(after[n], pkts[n]), after[n])
    BY <2>2, PortOps, Zenon
  <2>4. SameTables(after[n + 1], after[n])
    BY <1>1, <2>3 DEF PrependTurn, SameTables
  <2>5. SameTables(after[n + 1], port)
    BY <2>1, <2>4 DEF SameTables
  <2>. QED
    BY <2>5
<1>. HIDE DEF Good
<1>4. BurstMax \in Good
  <2>1. BurstMax \in Nat
    BY SlotsAssumption, FS_CardinalityType DEF BurstMax
  <2>. QED
    BY <1>2, <1>3, <2>1, SetInduction
<1>. QED
  BY <1>1, <1>4 DEF Good

\* The ports of a vtep.
PortsOk(ports) == DOMAIN ports = VtepPorts /\ \A i \in VtepPorts : IsPort(ports[i])

PortsTold(ports) == \A i \in VtepPorts : Told(ports[i])

\* From one array of ports to the next nothing is forgotten.
Follows(new, old) == PortsOk(new) /\ (PortsTold(old) => PortsTold(new))

\* One port changes.
LEMMA OnePort ==
  ASSUME NEW ports, PortsOk(ports), NEW i, NEW q,
         i \in VtepPorts => IsPort(q) /\ (Told(ports[i]) => Told(q))
  PROVE  Follows([ports EXCEPT ![i] = q], ports)
BY DEF Follows, PortsOk, PortsTold

LEMMA SamePort ==
  ASSUME NEW ports, PortsOk(ports), NEW i, NEW q,
         i \in VtepPorts => SameTables(q, ports[i])
  PROVE  Follows([ports EXCEPT ![i] = q], ports)
BY OnePort, SameTold, Zenon DEF PortsOk

\* The tick of a burst allocates nothing.
LEMMA TickFollows ==
  ASSUME NEW ports, PortsOk(ports)
  PROVE  Follows(Tick(ports), ports) /\ \A i \in VtepPorts : SameTables(Tick(ports)[i], ports[i])
<1>1. DOMAIN Tick(ports) = VtepPorts
  BY DEF Tick
<1>2. ASSUME NEW i \in VtepPorts PROVE SameTables(Tick(ports)[i], ports[i])
  <2>1. IsPort(ports[i])
    BY DEF PortsOk
  <2>2. PICK t : Tick(ports)[i] = [ports[i] EXCEPT !.mac_to_dst = t]
    BY Zenon DEF Tick
  <2>3. SameTables([ports[i] EXCEPT !.mac_to_dst = t], ports[i])
    BY <2>1, PortOps, Zenon
  <2>. QED
    BY <2>2, <2>3
<1>3. \A i \in VtepPorts : IsPort(Tick(ports)[i]) /\ (Told(ports[i]) => Told(Tick(ports)[i]))
  BY <1>2, SameTold DEF PortsOk
<1>. QED
  BY <1>1, <1>2, <1>3 DEF Follows, PortsOk, PortsTold

\* What a port of decapsulate works on.
IsDecapsulation(d) ==
  /\ DOMAIN d = {"mask", "ports", "sent", "refs", "on", "fault"}
  /\ PortsOk(d.ports)

\* A port of decapsulate.
LEMMA DecapsulatePort ==
  ASSUME NEW d, IsDecapsulation(d), NEW i, NEW pkts, NEW f
  PROVE  LET e == decapsulate_port(d, i, pkts, f)
         IN /\ IsDecapsulation(e)
            /\ f.what # "mac" => (PortsTold(d.ports) => PortsTold(e.ports))
            /\ f.what \notin {"clone", "mac"} => e.refs = d.refs
<1>. DEFINE was  == d.ports[i]
            port == try_fix_tables(was)
            here == f.port = i
            vni  == VniPkts(port, pkts, d.mask)
            hit  == InnerMacKnown(port, pkts, vni)
            t    == add_dst_iner_macs(port.mac_to_dst, pkts, hit)
            new  == [port EXCEPT !.mac_to_dst = t]
            burst == IF i \in state.linked /\ hit # {} THEN <<ToPort(i, hit)>> ELSE <<>>
            lacks == ptr_set_fails(add_dst_iner_macs(port.mac_to_dst, pkts, {s \in hit : s < f.slot}),
                                   pkts[f.slot].src) # {}
            fixed == [d.ports EXCEPT ![i] = port]
            learnt == [d.ports EXCEPT ![i] = new]
            e == decapsulate_port(d, i, pkts, f)
            some == d.refs + Cardinality({s \in vni : s < f.slot})
            all == d.refs + Count(Copies, vni)
<1>1. Follows(fixed, d.ports)
  <2>1. i \in VtepPorts => IsPort(port) /\ (Told(was) => Told(port))
    BY PortOps DEF IsDecapsulation, PortsOk
  <2>. HIDE DEF port
  <2>. QED
    BY <2>1, OnePort DEF IsDecapsulation
<1>2. Follows(learnt, d.ports)
  <2>1. i \in VtepPorts => IsPort(port) /\ (Told(was) => Told(port))
    BY PortOps DEF IsDecapsulation, PortsOk
  <2>. HIDE DEF port, t
  <2>2. i \in VtepPorts => SameTables(new, port)
    BY <2>1, PortOps, Zenon
  <2>. HIDE DEF new
  <2>3. i \in VtepPorts => IsPort(new) /\ (Told(port) => Told(new))
    BY <2>1, <2>2, SameTold
  <2>. QED
    BY <2>1, <2>3, OnePort DEF IsDecapsulation
<1>3. PortsOk(FreeAllPorts(fixed))
  <2>1. PortsOk(fixed)
    BY <1>1 DEF Follows
  <2>. HIDE DEF fixed
  <2>2. ASSUME NEW k \in VtepPorts PROVE IsPort(FreeAllPorts(fixed)[k])
    <3>1. IsPort(fixed[k])
      BY <2>1 DEF PortsOk
    <3>2. \/ FreeAllPorts(fixed)[k] = fixed[k]
          \/ FreeAllPorts(fixed)[k] = [fixed[k] EXCEPT !.dead_tables = {"MAC_TO_DST"}, !.up = @ \ {"MAC_TO_DST"}]
      BY DEF FreeAllPorts
    <3>. QED
      BY <3>1, <3>2, Zenon DEF IsPort, Both
  <2>. QED
    BY <2>2, Zenon DEF PortsOk, FreeAllPorts
<1>4. e = CASE ~d.on \/ d.mask = {} -> d
            [] here /\ f.what = "fix" /\ was.dead_tables # {} -> [d EXCEPT !.on = FALSE, !.fault = TRUE]
            [] here /\ f.what = "clone" /\ Copies /\ f.slot \in vni ->
                 [d EXCEPT !.ports = fixed, !.fault = TRUE, !.refs = some]
            [] here /\ f.what = "mac" /\ f.slot \in hit /\ lacks ->
                 [d EXCEPT !.ports = FreeAllPorts(fixed), !.on = FALSE, !.fault = TRUE, !.refs = all]
            [] here /\ f.what = "burst" /\ burst # <<>> ->
                 [d EXCEPT !.ports = learnt, !.sent = @ \o burst, !.on = FALSE, !.fault = TRUE]
            [] OTHER -> [d EXCEPT !.ports = learnt, !.sent = @ \o burst, !.mask = @ \ vni]
  BY Zenon DEF decapsulate_port
<1>. DEFINE freed == FreeAllPorts(fixed)
<1>. HIDE DEF e, vni, hit, lacks, burst, some, all, fixed, learnt, was, here, freed
<1>5. \/ e = d
      \/ e = [d EXCEPT !.on = FALSE, !.fault = TRUE]
      \/ f.what = "clone" /\ e = [d EXCEPT !.ports = fixed, !.fault = TRUE, !.refs = some]
      \/ f.what = "mac" /\ e = [d EXCEPT !.ports = freed, !.on = FALSE, !.fault = TRUE, !.refs = all]
      \/ e = [d EXCEPT !.ports = learnt, !.sent = @ \o burst, !.on = FALSE, !.fault = TRUE]
      \/ e = [d EXCEPT !.ports = learnt, !.sent = @ \o burst, !.mask = @ \ vni]
  BY <1>4 DEF freed
<1>6. \/ e.ports = d.ports /\ e.refs = d.refs
      \/ f.what = "clone" /\ e.ports = fixed
      \/ f.what = "mac" /\ e.ports = freed
      \/ e.ports = learnt /\ e.refs = d.refs
  BY <1>5, Zenon DEF IsDecapsulation
<1>7. DOMAIN e = DOMAIN d
  BY <1>5, Zenon
<1>8. PortsOk(freed)
  BY <1>3 DEF freed
<1>. QED
  <2>1. IsDecapsulation(e)
    BY <1>1, <1>2, <1>6, <1>7, <1>8 DEF IsDecapsulation, Follows
  <2>2. f.what # "mac" => (PortsTold(d.ports) => PortsTold(e.ports))
    BY <1>1, <1>2, <1>6 DEF Follows
  <2>3. f.what \notin {"clone", "mac"} => e.refs = d.refs
    BY <1>6
  <2>. QED
    BY <2>1, <2>2, <2>3 DEF e

\* All the ports.
LEMMA DecapsulateKeeps ==
  ASSUME NEW start, IsDecapsulation(start), NEW pkts, NEW f, Nb \in Nat
  PROVE  LET d == decapsulate(start, pkts, f)
         IN /\ PortsOk(d.ports)
            /\ f.what # "mac" => (PortsTold(start.ports) => PortsTold(d.ports))
            /\ f.what \notin {"clone", "mac"} => d.refs = start.refs
<1>1. PICK after : /\ after[0] = start
                   /\ \A n \in Nat : after[n + 1] = decapsulate_port(after[n], n, pkts, f)
                   /\ decapsulate(start, pkts, f) = after[Nb]
  BY DecapsulateTurns
<1>. DEFINE Kept(d) == /\ IsDecapsulation(d)
                       /\ f.what # "mac" => (PortsTold(start.ports) => PortsTold(d.ports))
                       /\ f.what \notin {"clone", "mac"} => d.refs = start.refs
            Good == {n \in Nat : Kept(after[n])}
<1>2. 0 \in Good
  BY <1>1
<1>3. ASSUME NEW n \in Nat, n \in Good PROVE n + 1 \in Good
  <2>1. Kept(after[n])
    BY <1>3
  <2>. DEFINE e == decapsulate_port(after[n], n, pkts, f)
  <2>2. /\ IsDecapsulation(e)
        /\ f.what # "mac" => (PortsTold(after[n].ports) => PortsTold(e.ports))
        /\ f.what \notin {"clone", "mac"} => e.refs = after[n].refs
    BY <2>1, DecapsulatePort
  <2>3. after[n + 1] = e
    BY <1>1
  <2>. HIDE DEF e
  <2>4. Kept(after[n + 1])
    BY <2>1, <2>2, <2>3
  <2>. QED
    BY <2>4
<1>. HIDE DEF Good
<1>4. Nb \in Good
  BY <1>2, <1>3, SetInduction
<1>5. Kept(after[Nb])
  BY <1>4 DEF Good
<1>. QED
  BY <1>1, <1>5 DEF IsDecapsulation

-----------------------------------------------------------------------------
(* The invariant. *)

\* Where a fault can be recorded.
Places == {"none", "fix", "clone", "headroom", "mac", "mac_to_dst", "add_mac"}

VtepInv ==
  /\ DOMAIN state = {"kind", "flags", "linked", "ports", "refs", "faults"}
  /\ state.kind = "vtep"
  /\ state.linked \subseteq VtepPorts
  /\ PortsOk(state.ports)
  /\ state.faults \in Seq(Places)
  /\ ~Faulted({"add_mac", "mac_to_dst"}) => PortsTold(state.ports)
  /\ ~Faulted({"clone", "headroom", "mac", "mac_to_dst"}) => state.refs = 0

\* A step that adds at most the fault at this place to the history.
Records(place) ==
  \/ state'.faults = state.faults /\ place = "none"
  \/ state'.faults = Append(state.faults, place)

\* The history of faults only grows.
LEMMA FaultsGrow ==
  ASSUME state.faults \in Seq(Places), NEW place \in Places, Records(place)
  PROVE  /\ state'.faults \in Seq(Places)
         /\ \A places : ~Faulted(places)' => ~Faulted(places) /\ place \notin places \ {"none"}
<1>1. CASE state'.faults = state.faults /\ place = "none"
  BY <1>1 DEF Faulted
<1>2. CASE state'.faults = Append(state.faults, place)
  <2>1. /\ state'.faults \in Seq(Places)
        /\ DOMAIN state.faults = 1 .. Len(state.faults) /\ Len(state.faults) \in Nat
        /\ DOMAIN state'.faults = 1 .. Len(state.faults) + 1
        /\ \A n \in DOMAIN state.faults : state'.faults[n] = state.faults[n]
        /\ state'.faults[Len(state.faults) + 1] = place
    BY <1>2
  <2>2. /\ \A n \in DOMAIN state.faults : n \in DOMAIN state'.faults
        /\ Len(state.faults) + 1 \in DOMAIN state'.faults
    BY <2>1
  <2>. QED
    BY <2>1, <2>2 DEF Faulted
<1>. QED
  BY <1>1, <1>2 DEF Records

\* The step of a call that adds one fault at most.
LEMMA VtepStep ==
  ASSUME VtepInv, NEW place \in Places, Records(place),
         DOMAIN state' = DOMAIN state, state'.kind = state.kind, state'.linked \subseteq VtepPorts,
         PortsOk(state'.ports),
         place \notin {"add_mac", "mac_to_dst"} => (PortsTold(state.ports) => PortsTold(state'.ports)),
         place \notin {"clone", "headroom", "mac", "mac_to_dst"} /\ state.refs = 0 => state'.refs = 0
  PROVE  VtepInv'
<1>1. /\ state'.faults \in Seq(Places)
      /\ \A places : ~Faulted(places)' => ~Faulted(places) /\ place \notin places \ {"none"}
  BY FaultsGrow DEF VtepInv
<1>2. ~Faulted({"add_mac", "mac_to_dst"})' => PortsTold(state'.ports)
  <2>1. ~Faulted({"add_mac", "mac_to_dst"})' =>
          /\ ~Faulted({"add_mac", "mac_to_dst"}) /\ place \notin {"add_mac", "mac_to_dst"} \ {"none"}
    BY <1>1
  <2>. QED
    BY <2>1 DEF VtepInv
<1>3. ~Faulted({"clone", "headroom", "mac", "mac_to_dst"})' => state'.refs = 0
  <2>1. ~Faulted({"clone", "headroom", "mac", "mac_to_dst"})' =>
          /\ ~Faulted({"clone", "headroom", "mac", "mac_to_dst"})
          /\ place \notin {"clone", "headroom", "mac", "mac_to_dst"} \ {"none"}
    BY <1>1
  <2>. QED
    BY <2>1 DEF VtepInv
<1>4. PortsOk(state.ports)' /\ (PortsTold(state.ports)' = PortsTold(state'.ports))
  BY DEF PortsOk, PortsTold, VtepPorts
<1>. QED
  BY <1>1, <1>2, <1>3, <1>4 DEF VtepInv

\* The step of a call that only changes the ports and records no fault.
LEMMA PortsStep ==
  ASSUME VtepInv, NEW ports, state' = [state EXCEPT !.ports = ports], Follows(ports, state.ports)
  PROVE  VtepInv'
<1>1. /\ DOMAIN state' = DOMAIN state /\ state'.kind = state.kind /\ state'.linked \subseteq VtepPorts
      /\ state'.ports = ports /\ state'.refs = state.refs /\ state'.faults = state.faults
  BY DEF VtepInv
<1>2. Records("none")
  BY <1>1 DEF Records
<1>3. PortsOk(state'.ports) /\ (PortsTold(state.ports) => PortsTold(state'.ports))
  BY <1>1 DEF Follows
<1>4. "none" \in Places
  BY DEF Places
<1>5. state.refs = 0 => state'.refs = 0
  BY <1>1
<1>. QED
  BY ONLY <1>1, <1>2, <1>3, <1>4, <1>5, VtepInv, VtepStep

LEMMA VtepInitInv ==
  ASSUME vtep_init
  PROVE  VtepInv
<1>1. PICK flags \in VtepFlags :
        state = [kind |-> "vtep", flags |-> flags, linked |-> {},
                 ports |-> [i \in VtepPorts |-> NewPort], refs |-> 0, faults |-> <<>>]
  BY Zenon DEF vtep_init
<1>2. IsPort(NewPort) /\ Told(NewPort)
  BY DEF NewPort, IsPort, Told
<1>3. PortsOk(state.ports) /\ PortsTold(state.ports)
  BY <1>1, <1>2 DEF PortsOk, PortsTold
<1>. QED
  BY <1>1, <1>3 DEF VtepInv

-----------------------------------------------------------------------------
(* The calls. *)

LEMMA VtepLinks ==
  ASSUME VtepInv, NEW linked, linked \subseteq VtepPorts, NEW ports, Follows(ports, state.ports),
         state' = [state EXCEPT !.linked = linked, !.ports = ports]
  PROVE  VtepInv'
<1>1. /\ DOMAIN state' = DOMAIN state /\ state'.kind = state.kind /\ state'.linked \subseteq VtepPorts
      /\ state'.ports = ports /\ state'.refs = state.refs /\ state'.faults = state.faults
  BY DEF VtepInv
<1>2. Records("none")
  BY <1>1 DEF Records
<1>3. PortsOk(state'.ports) /\ (PortsTold(state.ports) => PortsTold(state'.ports))
  BY <1>1 DEF Follows
<1>4. "none" \in Places
  BY DEF Places
<1>5. state.refs = 0 => state'.refs = 0
  BY <1>1
<1>. QED
  BY ONLY <1>1, <1>2, <1>3, <1>4, <1>5, VtepInv, VtepStep

\* The calls that configure a vtep.
LEMMA VtepConfigures ==
  ASSUME VtepInv
  PROVE  /\ vtep_link => VtepInv'
         /\ \A i \in VtepPorts : /\ vtep_unlink(i) => VtepInv'
                                 /\ pg_vtep_clean_all_mac(i) => VtepInv'
                                 /\ pg_vtep_cleanup_mac(i) => VtepInv'
                                 /\ \A vni : pg_vtep_add_vni(i, vni) => VtepInv'
         /\ \A vni, mac : /\ pg_vtep_add_mac(vni, mac) => VtepInv'
                          /\ pg_vtep_unset_mac(vni, mac) => VtepInv'
<1>. DEFINE ports == state.ports
<1>0. PortsOk(ports) /\ \A i \in VtepPorts : IsPort(ports[i])
  BY DEF VtepInv, PortsOk
<1>1. ASSUME vtep_link PROVE VtepInv'
  <2>1. PICK i \in VtepPorts : state' = [state EXCEPT !.linked = state.linked \cup {i}]
    BY <1>1, Zenon DEF vtep_link
  <2>2. state' = [state EXCEPT !.linked = state.linked \cup {i}, !.ports = ports]
    BY <2>1, Zenon DEF VtepInv
  <2>3. state.linked \cup {i} \subseteq VtepPorts /\ Follows(ports, ports)
    BY <1>0 DEF VtepInv, Follows
  <2>. QED
    BY <2>2, <2>3, VtepLinks, Zenon
<1>2. ASSUME NEW i \in VtepPorts, vtep_unlink(i) PROVE VtepInv'
  <2>. DEFINE q == do_remove_vni(ports[i])
  <2>1. state' = [state EXCEPT !.linked = state.linked \ {i}, !.ports = [ports EXCEPT ![i] = q]]
    BY <1>2 DEF vtep_unlink
  <2>2. IsPort(q) /\ (Told(ports[i]) => Told(q))
    BY <1>0, PortOps
  <2>. HIDE DEF q
  <2>3. state.linked \ {i} \subseteq VtepPorts /\ Follows([ports EXCEPT ![i] = q], ports)
    BY <1>0, <2>2, OnePort, Zenon DEF VtepInv
  <2>. QED
    BY <2>1, <2>3, VtepLinks, Zenon
<1>3. ASSUME NEW i, NEW t, state' = [state EXCEPT !.ports = [ports EXCEPT ![i] = [ports[i] EXCEPT !.mac_to_dst = t]]]
      PROVE  VtepInv'
  <2>1. i \in VtepPorts => SameTables([ports[i] EXCEPT !.mac_to_dst = t], ports[i])
    BY <1>0, PortOps, Zenon
  <2>2. Follows([ports EXCEPT ![i] = [ports[i] EXCEPT !.mac_to_dst = t]], ports)
    BY <1>0, <2>1, SamePort
  <2>. QED
    BY <1>3, <2>2, PortsStep
<1>4. ASSUME NEW i \in VtepPorts, pg_vtep_clean_all_mac(i) PROVE VtepInv'
  <2>1. state' = [state EXCEPT !.ports = [ports EXCEPT ![i] = [ports[i] EXCEPT !.mac_to_dst = EmptyTable]]]
    BY <1>4 DEF pg_vtep_clean_all_mac
  <2>. QED
    BY <1>3, <2>1
<1>5. ASSUME NEW i \in VtepPorts, pg_vtep_cleanup_mac(i) PROVE VtepInv'
  <2>1. state' = [state EXCEPT !.ports =
                   [ports EXCEPT ![i] = [ports[i] EXCEPT !.mac_to_dst = cleanup_mac(ports[i].mac_to_dst)]]]
    BY <1>5 DEF pg_vtep_cleanup_mac
  <2>. QED
    BY <1>3, <2>1
<1>6. ASSUME NEW vni, NEW mac, pg_vtep_unset_mac(vni, mac) PROVE VtepInv'
  <2>1. state' = [state EXCEPT !.ports =
                   [ports EXCEPT ![vni] = [ports[vni] EXCEPT !.mac_to_dst = ptr_unset(ports[vni].mac_to_dst, mac)]]]
    BY <1>6 DEF pg_vtep_unset_mac
  <2>. QED
    BY <1>3, <2>1
<1>7. ASSUME NEW i \in VtepPorts, NEW vni, pg_vtep_add_vni(i, vni) PROVE VtepInv'
  <2>. DEFINE p == do_add_vni(ports[i], vni)
              q == do_add_mac(p, Broadcast)
  <2>1. ~ports[i].multicast_ip /\ state' = [state EXCEPT !.ports = [ports EXCEPT ![i] = q]]
    BY <1>7 DEF pg_vtep_add_vni
  <2>2. IsPort(p) /\ p.multicast_ip = TRUE /\ p.up = Both /\ p.dead_tables = ports[i].dead_tables
    BY <1>0 DEF do_add_vni, IsPort, Both
  <2>. HIDE DEF p
  <2>3. Told(ports[i]) => Told(p)
    BY <2>1, <2>2 DEF Told, Both
  <2>4. SameTables(q, p)
    BY <2>2, PortOps
  <2>. HIDE DEF q
  <2>5. IsPort(q) /\ (Told(ports[i]) => Told(q))
    BY <2>2, <2>3, <2>4, SameTold
  <2>6. Follows([ports EXCEPT ![i] = q], ports)
    BY <1>0, <2>5, OnePort
  <2>. QED
    BY <2>1, <2>6, PortsStep
<1>8. ASSUME NEW vni, NEW mac, pg_vtep_add_mac(vni, mac) PROVE VtepInv'
  <2>1. PICK i : state' = [state EXCEPT !.ports = [ports EXCEPT ![i] = do_add_mac(ports[i], mac)]]
    BY <1>8, Zenon DEF pg_vtep_add_mac
  <2>. DEFINE q == do_add_mac(ports[i], mac)
  <2>2. i \in VtepPorts => SameTables(q, ports[i])
    BY <1>0, PortOps
  <2>. HIDE DEF q
  <2>3. Follows([ports EXCEPT ![i] = q], ports)
    BY <1>0, <2>2, SamePort
  <2>4. state' = [state EXCEPT !.ports = [ports EXCEPT ![i] = q]]
    BY <2>1 DEF q
  <2>. QED
    BY <2>3, <2>4, PortsStep
<1>. QED
  BY <1>1, <1>2, <1>4, <1>5, <1>6, <1>7, <1>8

\* pg_vtep_add_mac out of memory.
LEMMA VtepAddMacNoMem ==
  ASSUME VtepInv, NEW vni, NEW mac, pg_vtep_add_mac_no_mem(vni, mac)
  PROVE  VtepInv'
<1>1. PICK i : state' = [state EXCEPT !.ports[i].dead_tables = {"KNOWN_MAC"},
                                      !.ports[i].up = @ \ {"MAC_TO_DST"},
                                      !.faults = Append(@, "add_mac")]
  BY Zenon DEF pg_vtep_add_mac_no_mem
<1>. DEFINE p == [state.ports[i] EXCEPT !.dead_tables = {"KNOWN_MAC"}]
            half == [state.ports EXCEPT ![i] = p]
            q == [half[i] EXCEPT !.up = @ \ {"MAC_TO_DST"}]
<1>2. /\ DOMAIN state' = DOMAIN state /\ state'.kind = state.kind /\ state'.linked \subseteq VtepPorts
      /\ state'.ports = [half EXCEPT ![i] = q] /\ state'.refs = state.refs
      /\ state'.faults = Append(state.faults, "add_mac")
  BY <1>1 DEF VtepInv
<1>3. PortsOk(state.ports)
  BY DEF VtepInv
<1>4. i \in VtepPorts => IsPort(p)
  BY <1>3 DEF PortsOk, IsPort, Both
<1>. HIDE DEF p
<1>5. PortsOk(half)
  BY <1>3, <1>4 DEF PortsOk
<1>. HIDE DEF half
<1>6. i \in VtepPorts => IsPort(q)
  BY <1>5 DEF PortsOk, IsPort
<1>. HIDE DEF q
<1>7. PortsOk(state'.ports)
  BY <1>2, <1>5, <1>6 DEF PortsOk
<1>8. "add_mac" \in Places
  BY DEF Places
<1>9. Records("add_mac")
  BY <1>2 DEF Records
<1>. QED
  BY <1>2, <1>7, <1>8, <1>9, VtepStep, Zenon

\* What a fault of a burst may be.
LEMMA FaultIs ==
  ASSUME NEW ports, NEW mask, NEW f \in Faults(ports, mask)
  PROVE  f.what \in {"none", "burst", "fix", "clone", "headroom", "mac"}
BY DEF Faults, NoFault

\* to_vtep.
LEMMA VtepSends ==
  ASSUME VtepInv, NEW i \in VtepPorts, NEW pkts, NEW mask, to_vtep(i, pkts, mask)
  PROVE  VtepInv'
<1>. DEFINE ticked == Tick(state.ports)
            port == ticked[i]
            Stop(f) == IF f.what \in {"clone", "headroom", "mac"} THEN f.slot ELSE Max(mask) + 1
            Fixed(f) == IF f.what = "fix" THEN port ELSE try_fix_tables(port)
            After(f) == IF port.multicast_ip /\ f.what # "fix"
                        THEN Encapsulated(Fixed(f), pkts, {s \in mask : s < Stop(f)}) ELSE Fixed(f)
            Made(f) == IF f.what # "mac" THEN After(f)
                       ELSE [After(f) EXCEPT !.dead_tables = {"KNOWN_MAC"}, !.up = @ \ {"KNOWN_MAC"}]
            Clones(f) == IF port.multicast_ip THEN ToVtepRefs(f, mask) ELSE 0
<1>1. PICK f \in Faults({i}, mask) :
        /\ ToVtepFault(port, pkts, f)
        /\ state' = [state EXCEPT !.ports = [ticked EXCEPT ![i] = Made(f)],
                                  !.refs = @ + Clones(f), !.faults = Recorded(f)]
  BY Zenon DEF to_vtep
<1>2. f.what \in {"none", "burst", "fix", "clone", "headroom", "mac"}
  BY FaultIs
<1>3. f.what = "mac" => port.multicast_ip = TRUE
  BY <1>1 DEF ToVtepFault
<1>4. PortsOk(state.ports) /\ Follows(ticked, state.ports) /\ IsPort(port)
  <2>1. Follows(ticked, state.ports)
    BY TickFollows DEF VtepInv
  <2>. QED
    BY <2>1 DEF VtepInv, Follows, PortsOk
<1>5. /\ f.what \notin {"clone", "headroom", "mac"} => Clones(f) = 0
      /\ Recorded(f) = state.faults \/ Recorded(f) = Append(state.faults, f.what)
      /\ f.what \notin {"none", "burst"} => Recorded(f) = Append(state.faults, f.what)
  BY <1>2 DEF ToVtepRefs, Recorded
<1>. DEFINE fixed == Fixed(f)
            after == After(f)
            made == Made(f)
            clones == Clones(f)
            ports == [ticked EXCEPT ![i] = made]
            faults == Recorded(f)
<1>. HIDE DEF ticked
<1>6. /\ IsPort(fixed) /\ (Told(port) => Told(fixed))
      /\ f.what # "fix" => fixed.dead_tables = {} /\ fixed.multicast_ip = port.multicast_ip
  BY <1>4, PortOps
<1>7. SameTables(after, fixed)
  <2>1. SameTables(fixed, fixed)
    BY DEF SameTables
  <2>. HIDE DEF Fixed
  <2>2. \A S : SameTables(Encapsulated(fixed, pkts, S), fixed)
    BY <1>6, EncapsulatedSame
  <2>. QED
    BY <2>1, <2>2
<1>8. IsPort(made) /\ (Told(port) => Told(made))
  <2>1. IsPort(after) /\ (Told(fixed) => Told(after))
    BY <1>6, <1>7, SameTold, Zenon
  <2>2. CASE f.what # "mac"
    <3>1. made = after
      BY <2>2
    <3>. HIDE DEF made, after, fixed
    <3>. QED
      BY <1>6, <2>1, <3>1, Zenon
  <2>3. CASE f.what = "mac"
    <3>1. made = [after EXCEPT !.dead_tables = {"KNOWN_MAC"}, !.up = @ \ {"KNOWN_MAC"}]
      BY <2>3
    <3>. HIDE DEF made, after, fixed
    <3>2. after.dead_tables = {} /\ after.multicast_ip = TRUE
      BY <1>3, <1>6, <1>7, <2>3 DEF SameTables
    <3>3. /\ IsPort(made) /\ made.dead_tables = {"KNOWN_MAC"} /\ made.multicast_ip = TRUE
          /\ made.up = after.up \ {"KNOWN_MAC"}
      BY <2>1, <3>1, <3>2 DEF IsPort, Both
    <3>4. Told(after) => Told(made)
      BY <3>2, <3>3 DEF Told, Both
    <3>. QED
      BY <1>6, <2>1, <3>3, <3>4
  <2>. QED
    BY <2>2, <2>3
<1>9. state' = [state EXCEPT !.ports = ports, !.refs = @ + clones, !.faults = faults]
  BY <1>1
<1>10. Follows(ports, state.ports)
  <2>. HIDE DEF made
  <2>1. Follows(ports, ticked)
    BY <1>4, <1>8, OnePort DEF Follows
  <2>. QED
    BY <1>4, <2>1 DEF Follows
<1>. HIDE DEF ports, clones, faults
<1>11. /\ DOMAIN state' = DOMAIN state /\ state'.kind = state.kind /\ state'.linked \subseteq VtepPorts
       /\ state'.ports = ports /\ state'.refs = state.refs + clones /\ state'.faults = faults
  BY <1>9 DEF VtepInv
<1>. DEFINE place == IF f.what = "burst" THEN "none" ELSE f.what
<1>12. Records(place) /\ place \in Places
  <2>1. place \in Places
    BY <1>2 DEF Places
  <2>2. Records(place)
    BY <1>2, <1>5, <1>11 DEF Records, Recorded, faults
  <2>. QED
    BY <2>1, <2>2
<1>13. place \notin {"clone", "headroom", "mac", "mac_to_dst"} /\ state.refs = 0 => state'.refs = 0
  BY <1>5, <1>11 DEF clones
<1>14. PortsOk(state'.ports) /\ (PortsTold(state.ports) => PortsTold(state'.ports))
  BY <1>10, <1>11 DEF Follows
<1>. HIDE DEF place
<1>. QED
  BY ONLY <1>11, <1>12, <1>13, <1>14, VtepInv, VtepStep

\* from_vtep.
LEMMA VtepReceives ==
  ASSUME VtepInv, NEW pkts, NEW mask, from_vtep(pkts, mask)
  PROVE  VtepInv'
<1>. DEFINE start == [mask |-> classify_pkts(pkts, mask), ports |-> Tick(state.ports), sent |-> <<>>,
                      refs |-> 0, on |-> TRUE, fault |-> FALSE]
<1>1. PICK f \in Faults(0 .. Nb - 1, mask) :
        state' = [state EXCEPT
          !.ports = decapsulate(start, pkts, f).ports, !.refs = @ + decapsulate(start, pkts, f).refs,
          !.faults = IF f.what = "mac" THEN Append(@, "mac_to_dst") ELSE Recorded(f)]
  BY Zenon DEF from_vtep
<1>2. f.what \in {"none", "burst", "fix", "clone", "headroom", "mac"}
  BY FaultIs
<1>3. Nb \in Nat
  <2>1. IsFiniteSet(VtepPorts)
    BY VtepAssumption, FS_Interval DEF VtepPorts
  <2>2. IsFiniteSet(state.linked)
    BY <2>1, FS_Subset DEF VtepInv
  <2>. QED
    BY <2>2, FS_CardinalityType DEF Nb
<1>4. Follows(Tick(state.ports), state.ports)
  BY TickFollows DEF VtepInv
<1>5. IsDecapsulation(start) /\ start.ports = Tick(state.ports) /\ start.refs = 0
  BY <1>4 DEF IsDecapsulation, Follows
<1>. HIDE DEF start
<1>. DEFINE d == decapsulate(start, pkts, f)
            faults == IF f.what = "mac" THEN Append(state.faults, "mac_to_dst") ELSE Recorded(f)
            place == IF f.what = "mac" THEN "mac_to_dst"
                     ELSE IF f.what = "burst" THEN "none" ELSE f.what
<1>6. /\ PortsOk(d.ports)
      /\ f.what # "mac" => (PortsTold(start.ports) => PortsTold(d.ports))
      /\ f.what \notin {"clone", "mac"} => d.refs = start.refs
  BY <1>3, <1>5, DecapsulateKeeps, Zenon
<1>7. state' = [state EXCEPT !.ports = d.ports, !.refs = @ + d.refs, !.faults = faults]
  BY <1>1
<1>. HIDE DEF d
<1>8. /\ faults = state.faults \/ faults = Append(state.faults, place)
      /\ faults = state.faults => place = "none" \/ faults = Append(state.faults, place)
  BY <1>2 DEF Recorded
<1>9. place \in Places
  BY <1>2 DEF Places
<1>. HIDE DEF faults
<1>10. /\ DOMAIN state' = DOMAIN state /\ state'.kind = state.kind /\ state'.linked \subseteq VtepPorts
       /\ state'.ports = d.ports /\ state'.refs = state.refs + d.refs /\ state'.faults = faults
  BY <1>7 DEF VtepInv
<1>11. Records(place)
  BY <1>8, <1>10 DEF Records
<1>12. place \notin {"clone", "headroom", "mac", "mac_to_dst"} /\ state.refs = 0 => state'.refs = 0
  <2>1. place \notin {"clone", "mac_to_dst"} => f.what \notin {"clone", "mac"}
    OBVIOUS
  <2>. QED
    BY <1>5, <1>6, <1>10, <2>1
<1>13. place \notin {"add_mac", "mac_to_dst"} => (PortsTold(state.ports) => PortsTold(state'.ports))
  BY <1>4, <1>5, <1>6, <1>10 DEF Follows
<1>14. PortsOk(state'.ports)
  BY <1>6, <1>10
<1>. HIDE DEF place
<1>. QED
  BY ONLY <1>9, <1>10, <1>11, <1>12, <1>13, <1>14, VtepInv, VtepStep

\* The tables of every port of the vtep and dead_tables agree for every number of
\* ports, packets and allocations that fail, as long as only to_vtep is what runs out
\* of memory, and no clone is left over while none is refused (src/src/vtep-impl.h).
THEOREM VtepTablesHold == VtepSpec => []VtepTables
<1>1. vtep_init => VtepInv
  BY VtepInitInv
<1>2. VtepInv /\ [VtepNext \/ Return]_dpvars => VtepInv'
  <2>. SUFFICES ASSUME VtepInv, [VtepNext \/ Return]_dpvars PROVE VtepInv'
    OBVIOUS
  <2>1. CASE UNCHANGED state
    BY <2>1 DEF VtepInv, PortsOk, PortsTold, Faulted
  <2>2. Return \/ UNCHANGED dpvars \/ (\E i \in VtepPorts : vtep_unlink_fails(i)) => UNCHANGED state
    BY DEF Return, dpvars, vtep_unlink_fails
  <2>3. /\ \A i, pkts, mask : i \in VtepPorts /\ to_vtep(i, pkts, mask) => VtepInv'
        /\ \A pkts, mask : from_vtep(pkts, mask) => VtepInv'
        /\ \A vni, mac : pg_vtep_add_mac_no_mem(vni, mac) => VtepInv'
    BY VtepSends, VtepReceives, VtepAddMacNoMem
  <2>. QED
    BY <2>1, <2>2, <2>3, VtepConfigures, Zenon DEF VtepNext
<1>3. VtepInv => VtepTables
  BY Zenon DEF VtepInv, VtepTables, TablesTold, VtepRefs, PortsTold, Told, Both
<1>. QED
  BY <1>1, <1>2, <1>3, PTL DEF VtepSpec

=============================================================================
