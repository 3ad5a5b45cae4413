------------------------------ MODULE Packets -------------------------------
(***************************************************************************)
(* The packet helpers every brick uses: the building of packets, the       *)
(* checksum of the outer headers of a vtep, the walk over the extension    *)
(* headers of IPv6 and its second version in the printer, the length of a  *)
(* packet, the rings of static strings, and the arithmetic of benchmarks.  *)
(*                                                                         *)
(* A pure helper is one step: state holds its input, call what it returns. *)
(***************************************************************************)
EXTENDS DataPath, TLC, SequencesExt, FiniteSetsExt, Functions

CONSTANTS
  CksumWords,     \* the 16 bit words the checksum is tried with
  ExtLens,        \* the length fields of the extension headers of IPv6
  LongChain,      \* extension headers of the longest chain
  RoomUnits,      \* free bytes before and after the data of a new packet
  MaxBuilt,       \* headers put in a packet
  UIntMax,        \* 2^32, scaled down
  RingSize,       \* 8 static strings for MAC addresses, 16 for IPv6 addresses
  UsecPerSec      \* 1000000, scaled down

Compute(ret) == Idle /\ call' = [op |-> state.kind, ret |-> ret] /\ UNCHANGED <<state, sent>>

-----------------------------------------------------------------------------
(* The checksum of the IPv4 header of encapsulated packets. *)

\* __rte_raw_cksum_reduce of DPDK: 32 bits folded twice into 16.
FoldCksum(sum) == (sum \div 65536) + (sum % 65536)

ReduceCksum(sum) == FoldCksum(FoldCksum(sum)) % 65536

\* The words of the header that never change, as the machine reads them: version
\* and header length (0x45, 0), and the time to live with the protocol (64, 17).
pg_ipv4_init_cksum(src) == 69 + 4416 + src[1] + src[2]

\* Mutant: the carry of the first fold is forgotten.
pg_ipv4_udp_cksumFoldOnce(base, len, id, dst) ==
  LET sum == FoldCksum(base + len + id + dst[1] + dst[2]) % 65536
  IN IF sum = 65535 THEN 65535 ELSE 65535 - sum

pg_ipv4_udp_cksum(base, len, id, dst) ==
  LET sum == ReduceCksum(base + len + id + dst[1] + dst[2])
  IN IF sum = 65535 THEN 65535 ELSE 65535 - sum

CksumInputs ==
  [kind : {"checksum"}, src : CksumWords \X CksumWords, len : CksumWords, id : CksumWords,
   dst : CksumWords \X CksumWords]

\* ip4_build: the header a vtep sends; its ten words.
ip4_build(in) ==
  <<69, in.len, in.id, 0, 4416,
    pg_ipv4_udp_cksum(pg_ipv4_init_cksum(in.src), in.len, in.id, in.dst),
    in.src[1], in.src[2], in.dst[1], in.dst[2]>>

Checksum == state.kind = "checksum" /\ Compute(ip4_build(state))

-----------------------------------------------------------------------------
(* The extension headers of IPv6.  A chain is the sequence of the headers that *)
(* follow the one of IPv6, each with its type and its length field, up to one  *)
(* that is not an extension; every byte of them is in the packet.              *)

\* The types as network.h names them: UDP-Lite (0x88) is the one it calls
\* PG_IP_TYPE_IPV6_OPTION_MOBILITY, and mobility (0x87) is none of them.
InEights == {"HOP_BY_HOP", "DESTINATION", "ROUTING", "UDPLITE"}

\* How far pg_utils_get_ipv6_l4 moves over a header.
l4_step(h) ==
  IF h.type = "FRAGMENT" THEN 8
  ELSE IF h.type = "AH" THEN (h.len + 2) * 4
  ELSE (h.len + 1) * 8

\* pg_utils_get_ipv6_l4: the type and the place of the first header it does not
\* step over, or -1 at the eighth.
pg_utils_get_ipv6_l4(chain) ==
  LET from[i \in 1 .. Len(chain) + 1] ==
        IF i = 8 THEN [ret |-> -1]
        ELSE IF i > Len(chain) THEN [ret |-> 0, type |-> "astray"]
        ELSE IF chain[i].type \in InEights \cup {"FRAGMENT", "AH"}
        THEN LET rest == from[i + 1]
             IN IF rest.ret = -1 THEN rest ELSE [rest EXCEPT !.ret = @ + l4_step(chain[i])]
        ELSE [ret |-> 0, type |-> chain[i].type]
  IN from[1]

\* pg_utils_get_ipv6_l3_len: 40 more, the failure included.
pg_utils_get_ipv6_l3_len(chain) == pg_utils_get_ipv6_l4(chain).ret + 40

\* The size the printer gives to a header: 8 bits wide.  ESP and AH end the
\* summary, and mobility has the size of a fragment header.
HeaderSize(h) ==
  IF h.type \in {"FRAGMENT", "MOBILITY"} THEN 8 ELSE ((h.len + 1) * 8) % 256

\* print_l4 of printer.c: the headers it names.  One whose size it gets wrong
\* makes it go on in the middle of the bytes: astray.
print_l4(chain) ==
  LET from[i \in 1 .. Len(chain)] ==
        LET h == chain[i]
        IN <<h.type>> \o
           IF h.type \notin {"HOP_BY_HOP", "DESTINATION", "ROUTING", "FRAGMENT", "MOBILITY"} THEN <<>>
           ELSE IF HeaderSize(h) /= (h.len + 1) * 8 THEN <<"astray">> ELSE from[i + 1]
  IN from[1]

ExtHeaders ==
  [type : {"HOP_BY_HOP", "DESTINATION", "ROUTING", "AH", "MOBILITY"}, len : ExtLens]
    \cup {[type |-> "FRAGMENT", len |-> 0]}

LastHeaders == [type : {"TCP", "UDP", "UDPLITE", "ESP"}, len : {0}]

Chains ==
  {exts \o <<last>> : exts \in SeqOf(ExtHeaders, 2), last \in LastHeaders}
    \cup {[i \in 1 .. n |-> [type |-> "HOP_BY_HOP", len |-> 0]] \o <<last>> :
            n \in 0 .. LongChain, last \in LastHeaders}

Walk ==
  /\ state.kind = "chain"
  /\ Compute([l4 |-> pg_utils_get_ipv6_l4(state.chain),
              l3_len |-> pg_utils_get_ipv6_l3_len(state.chain),
              printed |-> print_l4(state.chain)])

-----------------------------------------------------------------------------
(* The length of a packet, and the clock of a benchmark. *)

pg_packet_max_len(p) == p.buf - p.head

pg_packet_set_len(p, len) ==
  IF len > pg_packet_max_len(p) THEN [ret |-> -1, len |-> p.len] ELSE [ret |-> 0, len |-> len]

pg_packet_compute_len(p, l5) == pg_packet_set_len(p, (l5 + p.l2 + p.l3 + p.l4) % UIntMax)

LenInputs ==
  [kind : {"len"}, buf : {8}, head : {0, 2}, len : {3}, l2 : {0, 2}, l3 : {0, 1}, l4 : {0, 2},
   l5 : 0 .. UIntMax - 1]

SetLen == state.kind = "len" /\ Compute(pg_packet_compute_len(state, state.l5))

\* timeval_subtract: the carry is made on y.
timeval_subtract(x, y) ==
  LET n1 == IF x.usec < y.usec THEN (y.usec - x.usec) \div UsecPerSec + 1 ELSE 0
      y1 == [sec |-> y.sec + n1, usec |-> y.usec - UsecPerSec * n1]
      n2 == IF x.usec - y1.usec > UsecPerSec THEN (x.usec - y1.usec) \div UsecPerSec ELSE 0
      y2 == [sec |-> y1.sec - n2, usec |-> y1.usec + UsecPerSec * n2]
  IN [sec |-> x.sec - y2.sec, usec |-> x.usec - y2.usec, negative |-> x.sec < y2.sec]

Times == [sec : 0 .. 2, usec : 0 .. UsecPerSec - 1]

Subtract == state.kind = "time" /\ Compute(timeval_subtract(state.x, state.y))

-----------------------------------------------------------------------------
(* The building of packets. *)

Nothing == [null |-> TRUE]

\* What rte_pktmbuf_alloc gives: room on both sides of no data.
Alloc == [null |-> FALSE, head |-> RoomUnits, tail |-> RoomUnits, data |-> <<>>, l2_len |-> 0, l3_len |-> 0]

\* A string takes one byte more than its length.
HeaderBytes ==
  [ether |-> 14, ipv4 |-> 20, ipv6 |-> 40, udp |-> 8, vxlan |-> 8, blank |-> 3, buf |-> 2, str |-> 4 + 1]

\* Only the header of IPv6 has no prepend function.
Builders == {<<"append", h>> : h \in DOMAIN HeaderBytes}
              \cup {<<"prepend", h>> : h \in DOMAIN HeaderBytes \ {"ipv6"}}

RoomAt(p, end) == IF end = "append" THEN p.tail ELSE p.head

\* rte_pktmbuf_append or rte_pktmbuf_prepend with room, and the copy of h.
Put(p, end, h) ==
  IF end = "append" THEN [p EXCEPT !.tail = @ - HeaderBytes[h], !.data = Append(@, h)]
  ELSE [p EXCEPT !.head = @ - HeaderBytes[h], !.data = <<h>> \o @]

\* One turn of each loop that finds room.
PG_PACKETS_OPS_BLANK(p, end) == Put(p, end, "blank")
PG_PACKETS_OPS_BUF(p, end) == Put(p, end, "buf")
PG_PACKETS_OPS_STR(p, end) == Put(p, end, "str")
PACKETS_OPS_IPV4(p, end) == [Put(p, end, "ipv4") EXCEPT !.l3_len = HeaderBytes.ipv4]
PACKETS_OPS_IPV6(p, end) == [Put(p, end, "ipv6") EXCEPT !.l3_len = HeaderBytes.ipv6]
PACKETS_OPS_UDP(p, end) == Put(p, end, "udp")
PG_PACKETS_OPS_VXLAN(p, end) == Put(p, end, "vxlan")
PG_PACKETS_OPS_ETHER(p, end) == [Put(p, end, "ether") EXCEPT !.l2_len = HeaderBytes.ether]

PacketOp(p, end, h) ==
  CASE h = "blank" -> PG_PACKETS_OPS_BLANK(p, end)
    [] h = "buf" -> PG_PACKETS_OPS_BUF(p, end)
    [] h = "str" -> PG_PACKETS_OPS_STR(p, end)
    [] h = "ipv4" -> PACKETS_OPS_IPV4(p, end)
    [] h = "ipv6" -> PACKETS_OPS_IPV6(p, end)
    [] h = "udp" -> PACKETS_OPS_UDP(p, end)
    [] h = "vxlan" -> PG_PACKETS_OPS_VXLAN(p, end)
    [] h = "ether" -> PG_PACKETS_OPS_ETHER(p, end)

\* The packets a loop changes: those before the first one without room.
Reached(pkts, mask, end, n) ==
  {s \in mask : ~pkts[s].null
                  /\ \A t \in mask : t <= s /\ ~pkts[t].null => RoomAt(pkts[t], end) >= n}

pg_packets_create(mask) ==
  /\ state.kind = "build" /\ Idle /\ state.built = 0
  /\ \E none \in SUBSET mask :
       state' = [state EXCEPT !.pkts = [s \in Slots |-> IF s \in mask \ none THEN Alloc ELSE Nothing],
                              !.built = 1]
  /\ UNCHANGED <<call, sent>>

\* pg_packets_append_... and pg_packets_prepend_...
Build(end, h, mask) ==
  LET n == HeaderBytes[h]
      done == Reached(state.pkts, mask, end, n)
  IN /\ state.kind = "build" /\ Idle /\ state.built \in 1 .. MaxBuilt
     /\ state' = [state EXCEPT !.pkts = [s \in Slots |-> IF s \in done THEN PacketOp(@[s], end, h) ELSE @[s]],
                               !.built = @ + 1]
     /\ call' = [op |-> "build", end |-> end, h |-> h, mask |-> mask, before |-> state.pkts,
                 ret |-> IF done = {s \in mask : ~state.pkts[s].null} THEN "pkts" ELSE "NULL"]
     /\ UNCHANGED sent

-----------------------------------------------------------------------------
(* pg_s_printable_mac and pg_ipv6_to_str: strings that stay for a while. *)

NextBuffer(i) == (i + 1) % RingSize

\* bufs holds the number of the call that wrote each buffer, log where the last
\* calls put their strings.
pg_s_printable_mac ==
  /\ state.kind = "ring" /\ Idle
  /\ state.calls < 2 * RingSize + 1
  /\ state' = [state EXCEPT !.bufs[state.idx] = state.calls + 1, !.calls = @ + 1,
                            !.idx = NextBuffer(@),
                            !.log = [i \in 1 .. RingSize |-> IF i = 1 THEN state.idx ELSE state.log[i - 1]]]
  /\ UNCHANGED <<call, sent>>

-----------------------------------------------------------------------------
(* pg_bench_run.  passes holds how many packets of each burst reach the brick *)
(* that counts, fails the burst that is refused (0: none).                    *)

\* The brick of the run is still linked after it: only a burst that fails leaves it.
CountBrickLinked(own, fails) == own /\ fails # 0

BenchFailed(own) == call' = [op |-> "bench", own |-> own, ret |-> -1] /\ UNCHANGED state

\* params: the parameters are there; counted: the input brick counted packets and the clock
\* moved, without which the run fails after it has taken its brick away.
pg_bench_run(params, own, passes, fails, counted) ==
  /\ state.kind = "bench" /\ Idle
  /\ IF ~params \/ (own /\ state.linked) THEN BenchFailed(own)       \* or the side is taken
     ELSE LET made == IF fails = 0 THEN passes ELSE SubSeq(passes, 1, fails - 1)
              got == FoldLeft(LAMBDA a, b : a + b, 0, made)
              received == IF own THEN got ELSE state.counter + got
          IN /\ state' = [state EXCEPT !.counter = IF own THEN @ ELSE received,
                                       !.linked = @ \/ CountBrickLinked(own, fails)]
             /\ call' = [op |-> "bench", own |-> own, ret |-> IF fails = 0 /\ counted THEN 0 ELSE -1,
                         got |-> got, received |-> received, before |-> state.counter]
  /\ UNCHANGED sent

-----------------------------------------------------------------------------
PacketInit ==
  /\ call = NoCall /\ sent = <<>>
  /\ \/ state \in CksumInputs \cup LenInputs
     \/ \E chain \in Chains : state = [kind |-> "chain", chain |-> chain]
     \/ \E x, y \in Times : state = [kind |-> "time", x |-> x, y |-> y]
     \/ state = [kind |-> "build", built |-> 0, pkts |-> [s \in Slots |-> Nothing]]
     \/ state = [kind |-> "ring", calls |-> 0, idx |-> 0, bufs |-> [i \in 0 .. RingSize - 1 |-> 0],
                 log |-> [i \in 1 .. RingSize |-> 0]]
     \/ state = [kind |-> "bench", counter |-> 0, linked |-> FALSE]

PacketNext ==
  \/ Checksum \/ Walk \/ SetLen \/ Subtract \/ pg_s_printable_mac
  \/ \E mask \in SUBSET Slots : pg_packets_create(mask)
  \/ \E b \in Builders, mask \in SUBSET Slots : Build(b[1], b[2], mask)
  \/ \E params, own, counted \in BOOLEAN, passes \in [1 .. 2 -> 0 .. 1], fails \in 0 .. 2 :
       /\ state.kind = "bench" => state.counter < 3
       /\ pg_bench_run(params, own, passes, fails, counted)

-----------------------------------------------------------------------------
(* Properties. *)

Microseconds(t) == t.sec * UsecPerSec + t.usec

\* What a summary of the printer must be: the types up to the first header that is
\* no extension.
Readable(chain) ==
  \A i \in 1 .. Len(chain) : chain[i].type \notin {"AH", "MOBILITY", "UDPLITE"} /\ chain[i].len < 31

\* The helpers agree with their definitions where these reach.  The header a vtep
\* builds (ip4_build with the sum kept since vtep_init) verifies: its ten words sum
\* to minus zero.  On headers both know, and that are at most six, pg_utils_get_ipv6_l4
\* and the printer stop at the same header, the one that is no extension, and the
\* offset is the number of bytes before it.  pg_packet_compute_len accepts a length
\* only if the packet can hold it, and it is the one asked for unless 32 bits are not
\* enough for it.  timeval_subtract gives a normalised difference.  A benchmark with
\* its own brick counts the packets of this run alone and takes the brick away.
HelpersExact ==
  /\ call.op = "checksum" =>
       ReduceCksum(FoldLeft(LAMBDA a, b : a + b, 0, call.ret)) = 65535
  /\ call.op = "chain" /\ Readable(state.chain) /\ Len(state.chain) <= 7 =>
       /\ call.ret.l4.type = Last(state.chain).type
       /\ Last(call.ret.printed) = call.ret.l4.type
       /\ call.ret.l3_len = 40 + FoldLeft(LAMBDA a, h : a + (h.len + 1) * 8, 0, Front(state.chain))
  /\ call.op = "chain" /\ Len(state.chain) <= 7 
       /\ {g.type : g \in ToSet(state.chain)} \cap {"MOBILITY", "UDPLITE"} = {} =>
       call.ret.l4.ret = FoldLeft(LAMBDA a, h : a + IF h.type = "AH" THEN 4 * (h.len + 2) ELSE 8 * (h.len + 1),
                                  0, Front(state.chain))
  /\ call.op = "chain" /\ Len(state.chain) > 7 => call.ret.l4.ret = -1
  /\ call.op = "len" =>
       LET asked == state.l5 + state.l2 + state.l3 + state.l4
       IN /\ call.ret.len <= state.buf - state.head
          /\ asked < UIntMax => (call.ret.ret = 0 <=> asked <= state.buf - state.head)
          /\ call.ret.ret = 0 => call.ret.len = asked % UIntMax
  /\ call.op = "time" =>
       /\ Microseconds(call.ret) = Microseconds(state.x) - Microseconds(state.y)
       /\ call.ret.usec \in 0 .. UsecPerSec - 1
       /\ call.ret.negative <=> Microseconds(state.x) < Microseconds(state.y)
  /\ call.op = "bench" /\ call.own /\ call.ret = 0 => call.received = call.got /\ ~state.linked
  /\ state.kind = "ring" =>
       \A i \in 1 .. RingSize : i <= state.calls => state.bufs[state.log[i]] = state.calls + 1 - i

Selected == {s \in call.mask : ~call.before[s].null}

\* A builder never writes outside the buffer of a packet, and what it returns tells
\* what it did: pkts when every packet of the mask got the header, NULL when the
\* packets before the first one without room got it and the others did not, which is
\* why a caller cannot simply call it again.  The lengths l2_len and l3_len of a packet
\* are set exactly when it has such a header.
PacketsBuilt ==
  state.kind = "build" =>
    /\ \A s \in Slots : ~state.pkts[s].null =>
         /\ state.pkts[s].head >= 0 /\ state.pkts[s].tail >= 0
         /\ state.pkts[s].head + state.pkts[s].tail
              + FoldLeft(LAMBDA a, h : a + HeaderBytes[h], 0, state.pkts[s].data) = 2 * RoomUnits
    /\ call.op = "build" =>
         \E done \in SUBSET Selected :
           /\ \A s \in Selected, t \in done : s < t => s \in done
           /\ (call.ret = "pkts") = (done = Selected)
           /\ \A s \in Slots :
                IF s \notin done THEN state.pkts[s] = call.before[s]
                ELSE state.pkts[s].data = IF call.end = "append" THEN Append(call.before[s].data, call.h)
                                          ELSE <<call.h>> \o call.before[s].data
    /\ \A s \in Slots : ~state.pkts[s].null =>
         /\ (state.pkts[s].l2_len = 14) = ("ether" \in ToSet(state.pkts[s].data))
         /\ (state.pkts[s].l3_len # 0) = (ToSet(state.pkts[s].data) \cap {"ipv4", "ipv6"} # {})

\* The helpers on packets do what their callers build on: the checksums, lengths and
\* offsets of HelpersExact, and the builders that stop half-way of PacketsBuilt.
PacketsExact == HelpersExact /\ PacketsBuilt
=============================================================================
