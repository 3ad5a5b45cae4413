------------------------------ MODULE Buffers -------------------------------
(***************************************************************************)
(* The bricks that hold packets of their own, or take them from and give   *)
(* them to something that is not a brick: accumulator, collect, nic, tap,  *)
(* rxtx, packetsgen, print and fail.                                       *)
(*                                                                         *)
(* The field refs of their states counts the references to packets the     *)
(* brick took (allocations, clones, rte_pktmbuf_refcnt_update) less the    *)
(* ones it gave up (frees, packets the hardware owns from now on).  What   *)
(* a neighbour answers does not change what these bricks do with their     *)
(* packets, so that no burst is modelled as refused.  call and sent of     *)
(* DataPath are not used.                                                  *)
(***************************************************************************)
EXTENDS DataPath, TLC, SequencesExt, Functions, FiniteSetsExt

CONSTANTS
  AccPollMins,    \* the poll_min an accumulator may be given
  AccPackets,     \* bound on the packets an accumulator takes for each side
  TapFrames,      \* bound on the frames the kernel has for a tap
  BufferFaults    \* bound on the faults

\* pg_packets_pack: the packets of a mask in the order of their slots.
pg_packets_pack(mask) == SetToSortSeq(mask, <)

Begin(s) == state = s /\ call = NoCall /\ sent = <<>>

Has(kind) == state.kind = kind

Become(s) == state' = s /\ UNCHANGED <<call, sent>>

Twice(x) == [side \in Sides |-> x]

-----------------------------------------------------------------------------
(* accumulator.  The packets for a side are numbered in the order they come   *)
(* in; taken is the last number, out what was handed to the neighbour, and    *)
(* waited the polls of the side since packets wait for it.                    *)

\* poll_min is kept on 16 bits.
accumulator_init(output, poll_min) ==
  Begin([kind |-> "accumulator", output |-> output, poll_min |-> poll_min % 65536,
         burst_vec |-> Twice(<<>>), poll_count |-> Twice(0),
         taken |-> Twice(0), out |-> Twice(<<>>), waited |-> Twice(0), refs |-> 0])

accumulator_snd_pkts(s, side) ==
  [s EXCEPT !.out[side] = @ \o s.burst_vec[side], !.burst_vec[side] = <<>>,
            !.refs = @ - Len(s.burst_vec[side]), !.waited[side] = 0]

\* Mutant: the vector is sent when it is about to overflow.
TakeLate(s, side) ==
  LET s1 == [s EXCEPT !.burst_vec[side] = Append(@, s.taken[side] + 1), !.taken[side] = @ + 1,
                      !.refs = @ + 1]
  IN IF Len(s1.burst_vec[side]) > BurstMax THEN accumulator_snd_pkts(s1, side) ELSE s1

\* One packet of accumulator_burst; a full vector is sent.
Take(s, side) ==
  LET s1 == [s EXCEPT !.burst_vec[side] = Append(@, s.taken[side] + 1), !.taken[side] = @ + 1,
                      !.refs = @ + 1]
  IN IF Len(s1.burst_vec[side]) = BurstMax THEN accumulator_snd_pkts(s1, side) ELSE s1

\* A burst of n packets.
accumulator_burst(from, n) ==
  LET output == Flip(from) IN
  /\ Has("accumulator")
  /\ state.taken[output] + n <= AccPackets
  /\ Become(FoldLeft(LAMBDA s, i : Take(s, output), state, [i \in 1 .. n |-> i]))

accumulator_try_poll_side(s, dir) ==
  LET waits == IF s.burst_vec[dir] = <<>> THEN 0 ELSE 1 IN
  IF s.poll_count[dir] < s.poll_min
  THEN [s EXCEPT !.poll_count[dir] = @ + 1, !.waited[dir] = @ + waits]
  ELSE accumulator_snd_pkts([s EXCEPT !.poll_count[dir] = 0], dir)

\* Mutant: the side of the configuration itself is polled.
PolledUnflipped(s) == IF s.output = "MAX" THEN <<"WEST", "EAST">> ELSE <<s.output>>

\* The sides accumulator_poll sends to.
Polled(s) == IF s.output = "MAX" THEN <<"WEST", "EAST">> ELSE <<Flip(s.output)>>

accumulator_poll ==
  Has("accumulator") /\ Become(FoldLeft(accumulator_try_poll_side, state, Polled(state)))

-----------------------------------------------------------------------------
(* collect *)

collect_init == Begin([kind |-> "collect", alive |-> TRUE, pkts_mask |-> Twice({}), refs |-> 0])

\* The packets of the burst before are freed, the new ones cloned.
collect_burst(from, mask) ==
  /\ Has("collect") /\ state.alive
  /\ Become([state EXCEPT !.pkts_mask[from] = mask,
                          !.refs = @ - Cardinality(state.pkts_mask[from]) + Cardinality(mask)])

Collected == Cardinality(state.pkts_mask["WEST"]) + Cardinality(state.pkts_mask["EAST"])

collect_reset ==
  /\ Has("collect") /\ state.alive
  /\ Become([state EXCEPT !.pkts_mask = Twice({}), !.refs = @ - Collected])

collect_destroy ==
  /\ Has("collect") /\ state.alive
  /\ Become([state EXCEPT !.alive = FALSE, !.refs = @ - Collected])

-----------------------------------------------------------------------------
(* nic.  extra counts, by slot, the references of the burst at hand the brick  *)
(* still has when it returns; hardware the packets the hardware took in it.    *)
(* port_conf, which is static, tells whether the checksum offload is asked for *)
(* and is shared by all the nics of the program, one after the other here.     *)

\* A packet asks for its checksum or not and is TCP or UDP on IPv4 or not.
NicPackets == [ol_flags : BOOLEAN, tcp_udp : BOOLEAN]

NicNone == [kind |-> "nic", alive |-> FALSE, started |-> FALSE, linked |-> FALSE,
            port_conf |-> FALSE, capable |-> FALSE, offload |-> FALSE, leaked |-> 0,
            extra |-> [s \in Slots |-> 0], hardware |-> <<>>, summed |-> {}, mask |-> {},
            pkts |-> [s \in Slots |-> [ol_flags |-> FALSE, tcp_udp |-> FALSE]], refs |-> 0]

nic_none == Begin(NicNone)

\* nic_init_ports asks for what a port is capable of and for what any port before
\* it was capable of; DPDK refuses the offload a port does not have.
nic_init_ports(port_conf, capable) == port_conf \/ capable

Configured(port_conf, capable) == port_conf => capable

\* The port is attached, configured and started; when one of these fails there is
\* no brick and port_conf stays as it is by then.
nic_init(capable) ==
  LET conf == nic_init_ports(state.port_conf, capable) IN
  /\ Has("nic") /\ ~state.alive
  /\ \/ /\ Configured(conf, capable)
        /\ Become([NicNone EXCEPT !.alive = TRUE, !.started = TRUE, !.port_conf = conf,
                                  !.capable = capable, !.offload = conf,
                                  !.leaked = state.leaked, !.refs = state.refs])
     \/ Become([state EXCEPT !.port_conf = conf])

nic_destroy ==
  /\ Has("nic") /\ state.alive
  /\ Become([NicNone EXCEPT !.port_conf = state.port_conf, !.leaked = state.leaked,
                            !.refs = state.refs])

nic_link == Has("nic") /\ state.alive /\ Become([state EXCEPT !.linked = ~@])

\* nic_burst_no_offload: the packets whose checksum is computed by the brick.
nic_burst_no_offload(pkts, mask) == {s \in mask : pkts[s].ol_flags /\ pkts[s].tcp_udp}

\* The packets the hardware did not take.
Unsent(mask, bursted) ==
  LET exit_pkts == pg_packets_pack(mask) IN {exit_pkts[i] : i \in bursted + 1 .. Len(exit_pkts)}

\* A reference is taken on every packet; the hardware owns those of the packets it
\* takes, the others are freed.
nic_burst(pkts, mask) ==
  /\ Has("nic") /\ state.alive
  /\ \E bursted \in 0 .. Cardinality(mask) :
       LET exit_pkts == pg_packets_pack(mask)
           gone      == SubSeq(exit_pkts, 1, bursted)
           extra     == [s \in Slots |-> (IF s \in mask THEN 1 ELSE 0)
                                         - (IF s \in ToSet(gone) THEN 1 ELSE 0)
                                         - (IF s \in Unsent(mask, bursted) THEN 1 ELSE 0)]
       IN Become([state EXCEPT !.extra = extra, !.hardware = gone, !.pkts = pkts, !.mask = mask,
                               !.summed = IF ~state.offload THEN nic_burst_no_offload(pkts, mask)
                                          ELSE {s \in mask : state.capable /\ pkts[s].ol_flags}])

\* What was received is forwarded and freed, but kept when there is no neighbour.
nic_poll_forward(s, n) ==
  IF s.linked THEN [s EXCEPT !.refs = @ - n] ELSE [s EXCEPT !.leaked = @ + n]

\* The hardware received n packets.
nic_poll(n) ==
  /\ Has("nic") /\ state.alive
  /\ state.linked \/ state.leaked + n <= BufferFaults
  /\ Become(nic_poll_forward([state EXCEPT !.refs = @ + n], n))

-----------------------------------------------------------------------------
(* tap.  kernel holds the frames the kernel has for the brick, numbered in     *)
(* their order, with the ones that fill a whole buffer; read the last one that *)
(* was read, out the ones that were forwarded, cut and missed the numbers of   *)
(* those that filled a buffer and those a failing poll had read.               *)

TapClosed == [kind |-> "tap", open |-> FALSE, linked |-> FALSE, kernel |-> <<>>, read |-> 0,
              out |-> <<>>, cut |-> 0, missed |-> 0, wrote |-> <<>>, mask |-> {}, lost |-> 0,
              frames |-> 0, fds |-> 0, refs |-> 0]

tap_none == Begin(TapClosed)

\* tap_init opens the device, configures it and allocates the packets; when one of
\* them fails, the device is closed.
tap_init ==
  /\ Has("tap") /\ ~state.open
  /\ Become([state EXCEPT !.open = TRUE, !.fds = @ + 1, !.refs = @ + BurstMax])

tap_init_fails(where) ==
  /\ Has("tap") /\ ~state.open
  /\ state.lost < BufferFaults
  /\ Become([state EXCEPT !.fds = CASE where = "open" -> @ [] OTHER -> @ + 1 - 1, !.lost = @ + 1])

tap_destroy ==
  /\ Has("tap") /\ state.open
  /\ Become([TapClosed EXCEPT !.fds = state.fds - 1, !.refs = state.refs - BurstMax,
                              !.lost = state.lost, !.frames = state.frames])

tap_link == Has("tap") /\ state.open /\ Become([state EXCEPT !.linked = ~@])

\* The kernel gets a frame for the brick.
tap_frame(big) ==
  /\ Has("tap") /\ state.open
  /\ state.frames < TapFrames
  /\ Become([state EXCEPT !.kernel = Append(@, [nb |-> state.read + Len(@) + 1, big |-> big]),
                          !.frames = @ + 1])

\* The writes of tap_burst, up to the first that fails.
tap_burst(mask) ==
  /\ Has("tap") /\ state.open
  /\ \E n \in 0 .. Cardinality(mask) :
       Become([state EXCEPT !.wrote = SubSeq(pg_packets_pack(mask), 1, n), !.mask = mask])

\* The frames that were not cut.
Whole(frames) == SelectSeq(frames, LAMBDA f : ~f.big)

\* The reads of tap_poll: until the array is full of frames that were not cut or
\* the kernel has no more.
Reads(kernel) ==
  {n \in 0 .. Len(kernel) :
     /\ \A k \in 0 .. n - 1 : Len(Whole(SubSeq(kernel, 1, k))) < BurstMax
     /\ n = Len(kernel) \/ Len(Whole(SubSeq(kernel, 1, n))) = BurstMax}

tap_poll ==
  /\ Has("tap") /\ state.open
  /\ state.linked
  /\ \E n \in Reads(state.kernel) :
       LET whole == Whole(SubSeq(state.kernel, 1, n)) IN
       Become([state EXCEPT !.kernel = SubSeq(@, n + 1, Len(@)), !.read = @ + n,
                            !.out = @ \o [i \in DOMAIN whole |-> whole[i].nb],
                            !.cut = @ + Cardinality({i \in 1 .. n : state.kernel[i].big})])

\* A read fails after n frames: these are lost.
tap_poll_fails ==
  /\ Has("tap") /\ state.open
  /\ state.linked
  /\ state.lost < BufferFaults
  /\ \E m \in Reads(state.kernel) : \E n \in 0 .. m :
       Become([state EXCEPT !.kernel = SubSeq(@, n + 1, Len(@)), !.read = @ + n,
                            !.missed = @ + n, !.lost = @ + 1])

-----------------------------------------------------------------------------
(* rxtx, packetsgen and fail *)

RxtxNone == [kind |-> "rxtx", alive |-> FALSE, rx |-> FALSE, tx |-> FALSE, got |-> <<>>,
             mask |-> {}, sends |-> 0, burst |-> {}, refs |-> 0]

rxtx_none == Begin(RxtxNone)

\* The packets of the transmit callback are allocated once; without them there is
\* no brick.
rxtx_init(rx, tx) ==
  /\ Has("rxtx") /\ ~state.alive
  /\ \/ Become([RxtxNone EXCEPT !.alive = TRUE, !.rx = rx, !.tx = tx,
                                !.refs = IF tx THEN BurstMax ELSE 0])
     \/ tx /\ Become(RxtxNone)

\* The receive callback gets the packets of the burst, packed.
rxtx_burst(mask) ==
  /\ Has("rxtx") /\ state.alive
  /\ Become(IF ~state.rx THEN state
            ELSE [state EXCEPT !.got = pg_packets_pack(mask), !.mask = mask])

\* The transmit callback fills the first n packets, which go to the neighbour and
\* stay with the brick.
rxtx_poll(n) ==
  /\ Has("rxtx") /\ state.alive /\ state.tx
  /\ Become([state EXCEPT !.burst = pg_mask_firsts(n), !.sends = n])

rxtx_destroy ==
  /\ Has("rxtx") /\ state.alive
  /\ Become([RxtxNone EXCEPT !.refs = state.refs - (IF state.tx THEN BurstMax ELSE 0)])

packetsgen_init(n) == n > 0 /\ Begin([kind |-> "packetsgen", packets_nb |-> n, out |-> {}, refs |-> 0])

\* Clones of all the packets are forwarded and freed.
packetsgen_poll ==
  /\ Has("packetsgen")
  /\ Become([state EXCEPT !.out = pg_mask_firsts(state.packets_nb),
                          !.refs = @ + state.packets_nb - Cardinality(pg_mask_firsts(state.packets_nb))])

\* What comes in goes to the other side.
packetsgen_burst(mask) == Has("packetsgen") /\ Become([state EXCEPT !.out = mask])

fail_init == Begin([kind |-> "fail", ret |-> 0, refs |-> 0])

fail_burst == Has("fail") /\ Become([state EXCEPT !.ret = -1])

-----------------------------------------------------------------------------
(* print.  dumper tells whether the pcap dumper is open, output whether the    *)
(* file is; shown is what the last burst printed, out what it forwarded.       *)

PrintNone == [kind |-> "print", alive |-> FALSE, flags |-> {}, dumper |-> FALSE, output |-> TRUE,
              type_filter |-> {}, mask |-> {}, shown |-> {}, out |-> {}, refs |-> 0]

print_none == Begin(PrintNone)

\* A file is given; with PCAP a dumper is opened on it, which may fail.
print_init(flags, type_filter) ==
  /\ Has("print") /\ ~state.alive /\ state.output
  /\ \/ Become([PrintNone EXCEPT !.alive = TRUE, !.flags = flags, !.dumper = "PCAP" \in flags,
                                 !.type_filter = type_filter])
     \/ "PCAP" \in flags /\ Become(state)

\* Flags may change as long as PCAP stays what it was at the creation: the dumper
\* is made by print_init only.
pg_print_set_flags(flags) ==
  /\ Has("print") /\ state.alive
  /\ "PCAP" \in flags <=> "PCAP" \in state.flags
  /\ Become([state EXCEPT !.flags = flags])

\* With PCAP the packets are dumped but for those above the length of a snapshot,
\* else the ones of the types of the filter are skipped; all are forwarded.
print_burst(mask, long) ==
  /\ Has("print") /\ state.alive
  /\ Become([state EXCEPT !.mask = mask, !.out = mask,
                          !.shown = mask \ (IF "PCAP" \in state.flags THEN long
                                            ELSE state.type_filter)])

\* The dumper is closed with its file, or the file alone when it was given away.
print_destroy ==
  /\ Has("print") /\ state.alive
  /\ Become([PrintNone EXCEPT !.dumper = state.dumper /\ "PCAP" \notin state.flags,
                              !.output = state.output /\ state.flags \cap {"PCAP", "CLOSE_FILE"} = {}])

-----------------------------------------------------------------------------
BufferInit ==
  \/ \E output \in Sides \cup {"MAX"}, poll_min \in AccPollMins : accumulator_init(output, poll_min)
  \/ collect_init \/ nic_none \/ tap_none \/ rxtx_none \/ fail_init \/ print_none
  \/ \E n \in 1 .. BurstMax : packetsgen_init(n)

BufferNext ==
  \/ \E from \in Sides, n \in 0 .. BurstMax : accumulator_burst(from, n)
  \/ accumulator_poll
  \/ \E mask \in SUBSET Slots :
       \/ \E from \in Sides : collect_burst(from, mask)
       \/ \E pkt \in NicPackets : nic_burst([s \in Slots |-> pkt], mask)
       \/ tap_burst(mask) \/ rxtx_burst(mask) \/ packetsgen_burst(mask)
       \/ \E long \in SUBSET Slots : print_burst(mask, long)
  \/ collect_reset \/ collect_destroy
  \/ \E capable \in BOOLEAN : nic_init(capable)
  \/ nic_destroy \/ nic_link \/ \E n \in 0 .. BurstMax : nic_poll(n)
  \/ tap_init \/ \E where \in {"open", "ioctl", "alloc"} : tap_init_fails(where)
  \/ tap_destroy \/ tap_link \/ tap_poll \/ tap_poll_fails
  \/ \E big \in BOOLEAN : tap_frame(big)
  \/ \E rx, tx \in BOOLEAN : rxtx_init(rx, tx)
  \/ \E n \in 0 .. BurstMax : rxtx_poll(n)
  \/ rxtx_destroy
  \/ packetsgen_poll \/ fail_burst
  \/ \E flags \in SUBSET {"PCAP", "CLOSE_FILE"} :
       \/ \E filter \in SUBSET Slots : print_init(flags, filter)
       \/ pg_print_set_flags(flags)
  \/ print_destroy

-----------------------------------------------------------------------------
(* Properties. *)

\* The references a brick is entitled to between two calls.
Entitled ==
  CASE Has("accumulator") -> Len(state.burst_vec["WEST"]) + Len(state.burst_vec["EAST"])
    [] Has("collect")     -> IF state.alive THEN Collected ELSE 0
    [] Has("nic")         -> state.leaked
    [] Has("tap")         -> IF state.open THEN BurstMax ELSE 0
    [] Has("rxtx")        -> IF state.tx THEN BurstMax ELSE 0
    [] OTHER              -> 0

BufferKinds == {"accumulator", "collect", "nic", "tap", "rxtx", "packetsgen", "fail", "print"}

\* No reference to a packet is lost or given up twice, whatever the order of the
\* calls: between two of them a brick has the references of the packets it still
\* holds, the nic (nic_burst: hardware that takes only some) none of any packet
\* of the burst unless it polls without a neighbour, and files and devices are
\* open exactly while a nic, tap or print brick uses them.
RefsBalanced ==
  state.kind \in BufferKinds =>
    /\ state.refs = Entitled
    /\ Has("nic") => /\ \A s \in Slots : state.extra[s] = 0
                     /\ state.started = state.alive
    /\ Has("tap") => state.fds = IF state.open THEN 1 ELSE 0
    /\ Has("print") => /\ state.dumper = (state.alive /\ "PCAP" \in state.flags)
                       /\ state.alive => state.output

IsPrefixOf(s, t) == Len(s) <= Len(t) /\ s = SubSeq(t, 1, Len(s))

\* Nothing is lost, repeated or reordered on the way through a brick: nic_burst
\* gives the hardware the first packets of the burst, the ones that ask for a
\* checksum with theirs; tap_burst writes the first packets; tap_poll forwards the
\* frames of the kernel that were not cut, all of them but the ones a failing poll
\* had read; rxtx_burst shows the burst to the user; print_burst lets it through
\* and shows it but for the types of the filter.
BuffersInOrder ==
  CASE Has("nic") ->
         /\ IsPrefixOf(state.hardware, pg_packets_pack(state.mask))
         /\ \A s \in ToSet(state.hardware) :
              state.pkts[s].ol_flags /\ state.pkts[s].tcp_udp => s \in state.summed
    [] Has("tap") ->
         /\ IsPrefixOf(state.wrote, pg_packets_pack(state.mask))
         /\ \A i, j \in DOMAIN state.out : i < j => state.out[i] < state.out[j]
         /\ Len(state.out) + state.cut + state.missed = state.read
    [] Has("rxtx")  -> state.got = pg_packets_pack(state.mask)
    [] Has("print") -> /\ state.out = state.mask
                       /\ state.shown \subseteq state.mask
    [] OTHER -> TRUE

\* The accumulator is a queue for each side: what accumulator_burst took, less
\* what still waits, was handed on in the order it came; it never holds a full
\* vector, and the packets for a side that is polled wait for poll_min polls at
\* most before accumulator_poll sends them.
AccumulatorFifo ==
  Has("accumulator") =>
    \A side \in Sides :
      /\ state.out[side] \o state.burst_vec[side] = [i \in 1 .. state.taken[side] |-> i]
      /\ Len(state.burst_vec[side]) < BurstMax
      /\ state.waited[side] <= state.poll_min

\* The bricks that keep, make or consume packets account for every one of them: none
\* is lost, freed twice, repeated or overtaken (accumulator, collect, nic, tap, rxtx,
\* packetsgen and print), over any sequence of bursts, polls and failures.
BuffersExact == RefsBalanced /\ BuffersInOrder /\ AccumulatorFifo

\* As long as the brick is polled, the packets that come in from the side the
\* accumulator was configured with leave it (accumulator_poll).
AccumulatorLeaves ==
  \A side \in Sides :
    (Has("accumulator") /\ state.output \in {Flip(side), "MAX"} /\ state.burst_vec[side] # <<>>)
      ~> (Has("accumulator") /\ state.burst_vec[side] = <<>>)
=============================================================================
