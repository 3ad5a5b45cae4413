----------------------------- MODULE MCBricks -----------------------------
(***************************************************************************)
(* The bricks of packetgraph, each alone with the neighbours that call it  *)
(* and that it calls: one behaviour is the life of one brick, or of one    *)
(* set of graphs.                                                          *)
(***************************************************************************)
EXTENDS Switch, Vtep, Filters, Graph, Buffers, Vhost

\* Two addresses that share neither word of their masks.
MCSwitchMacs == {<<0, 0>>, <<1, 1>>}
MCSwitchMax == [WEST |-> 2, EAST |-> 1]

\* Two VNIs of which one shares its low bytes with none, as the wire order shows.
Station == <<0, 0>>
MCVtepMacs == {Station}
MCBroadcast == <<3, 3>>
MCVtepVnis == [i \in 0 .. 1 |-> IF i = 0 THEN {1, 65536} ELSE {65536}]
MCVtepFlags == {{}, {"NO_COPY", "NO_INNERMAC_CHECK"}}
MCVtepInner == [src : {Station}, dst : {Station, MCBroadcast}]
Outer(vni, from, dst) == [vxlan |-> TRUE, vni |-> vni, from |-> from, src |-> Station, dst |-> dst]
MCVtepOuter == {Outer(1, "r1", MCBroadcast), Outer(1, "r2", Station),
                Outer(65536, "r1", Station), [vxlan |-> FALSE]}

MCHubMax == [WEST |-> 2, EAST |-> 2]
MCFirewallRules ==
  {[side |-> "WEST", filter |-> {"f1"}, stateful |-> FALSE],
   [side |-> "EAST", filter |-> {"f2"}, stateful |-> TRUE],
   [side |-> "MAX", filter |-> {"f1"}, stateful |-> FALSE]}

\* Port 256 is port 1 with its bytes swapped.
Ports(flag, src, dst) == [flag |-> flag, udp_src_port |-> src, udp_dst_port |-> dst]
MCUdpFilters == {<<>>, <<Ports({"SRC"}, 1, 7), Ports({"DST"}, 7, 1)>>,
                 <<Ports({"SRC", "DST"}, 1, 256)>>}

Init ==
  switch_init \/ vtep_init \/ FilterInit \/ graph_none \/ BufferInit \/ vhost_none

Next ==
  \/ SwitchOnly /\ SwitchNext
  \/ VtepOnly /\ VtepNext
  \/ FilterNext
  \/ state.kind = "graph" /\ GraphNext
  \/ state.kind \in BufferKinds /\ BufferNext
  \/ Vhost /\ VhostNext
  \/ Return

Spec == Init /\ [][Next]_dpvars /\ WF_dpvars(accumulator_poll) /\ VhostFairness
=============================================================================
