--------------------------- MODULE DataPathProofs ---------------------------
(***************************************************************************)
(* Two components on the data path whose invariants are proved for every   *)
(* value of the constants: the handshake of the vhost brick with the       *)
(* thread of the vhost library, and the memory of sljit.                   *)
(***************************************************************************)
EXTENDS Vhost, ExecMemory, ExecHeapProofs

VhostSpec == vhost_none /\ [][VhostNext]_dpvars

VhostStates ==
  [kind : {"vhost"}, started : BOOLEAN, mutex : BOOLEAN, global : BOOLEAN,
   vm : {"off", "new", "on", "leaving", "spin"}, dev : Nat, faults : Nat,
   worker : {"none", "started", "inserted", "idle", "burst", "poll", "unregister"},
   listed : BOOLEAN, vid : Nat, allow_queuing : BOOLEAN, using : Nat, enabled : BOOLEAN,
   early : BOOLEAN, relisted : BOOLEAN]

Served == state.vm \in {"on", "leaving", "spin"}
Working == state.worker \in {"burst", "poll"}
Resting == state.worker \in {"idle", "unregister"}

\* Without a brick there is no machine, a machine has a device, and only a burst
\* or a poll works with one.
Places ==
  /\ state.worker = "none" => state.vm = "off"
  /\ state.vm # "off" => state.dev > 0
  /\ state.using # 0 => Working

\* As long as the list is not emptied under the brick: it is in the list from the
\* end of vhost_create_socket on; when the flag is free the machine is there and
\* vid is its device; and the thread that took the flag works with this device.
FlagInv ==
  ~state.relisted =>
    /\ state.worker \in {"none", "started"} <=> ~state.listed
    /\ Resting /\ ~state.allow_queuing => Served /\ state.vid = state.dev
    /\ Working => /\ state.allow_queuing /\ Served
                  /\ state.vid = state.dev /\ state.using = state.vid

\* When no machine came early, none is served before vhost_init is done, and
\* afterwards one that is served finds the flag free between two bursts.
OrderlyInv ==
  /\ ~state.early /\ state.worker \in {"started", "inserted"} => ~Served
  /\ Orderly /\ Resting /\ Served => ~state.allow_queuing

VhostInv == state \in VhostStates /\ Places /\ FlagInv /\ OrderlyInv

-----------------------------------------------------------------------------
\* The initial state (vhost_none) satisfies the invariant.
LEMMA VhostInitial == vhost_none => VhostInv
BY DEF vhost_none, VhostInv, VhostStates, Places, FlagInv, OrderlyInv, Served, Working, Resting,
       Orderly

\* Every step of either thread or of the application keeps the invariant.
LEMMA VhostStep == VhostInv /\ [VhostNext]_dpvars => VhostInv'
<1> SUFFICES ASSUME VhostInv, [VhostNext]_dpvars PROVE VhostInv'
  OBVIOUS
<1> USE DEF VhostInv, VhostStates, Places, FlagInv, OrderlyInv, Served, Working, Resting, Orderly,
            VhostSet, Vhost, Worker, Vm
<1>1. CASE pg_vhost_start
  <2>1. state.relisted \in BOOLEAN /\ state.listed \in BOOLEAN
    OBVIOUS
  <2>2. /\ state' \in VhostStates
        /\ state'.listed = FALSE /\ state'.relisted = (state.relisted \/ state.listed)
        /\ UNCHANGED <<state.worker, state.vm, state.dev, state.vid, state.using, state.early,
                       state.allow_queuing>>
    <3>1. (state.relisted \/ state.listed) \in BOOLEAN /\ state.faults + 1 \in Nat
      BY <2>1
    <3>2. CASE state' = [state EXCEPT !.started = TRUE, !.listed = FALSE,
                                      !.relisted = state.relisted \/ state.listed]
      BY <3>1, <3>2, Zenon
    <3>3. CASE state' = [state EXCEPT !.listed = FALSE, !.relisted = state.relisted \/ state.listed,
                                      !.faults = state.faults + 1]
      BY <3>1, <3>3, Zenon
    <3> QED
      BY <1>1, <3>2, <3>3, Zenon DEF pg_vhost_start
  <2> QED
    BY <2>1, <2>2
<1>2. CASE pg_vhost_stop
  BY <1>2, Zenon DEF pg_vhost_stop
<1>3. CASE pg_vhost_global_enable
  BY <1>3, Zenon DEF pg_vhost_global_enable
<1>4. CASE vhost_init
  <2>1. CASE state'.worker = "started"
    <3>1. pg_vhost_enable(FALSE, state.global) \in BOOLEAN
      BY DEF pg_vhost_enable
    <3>2. /\ state' = [state EXCEPT !.worker = "started",
                                    !.enabled = pg_vhost_enable(FALSE, state.global)]
          /\ state.worker = "none"
      BY <1>4, <2>1 DEF vhost_init
    <3> QED
      BY <3>1, <3>2, Zenon
  <2>2. CASE state'.worker # "started"
    <3>1. state' = [state EXCEPT !.faults = state.faults + 1]
      BY <1>4, <2>2, Zenon DEF vhost_init
    <3> QED
      BY <3>1
  <2> QED
    BY <2>1, <2>2
<1>5. CASE vhost_create_socket
  BY <1>5, Zenon DEF vhost_create_socket
<1>6. CASE vhost_init_done
  BY <1>6, Zenon DEF vhost_init_done
<1>7. CASE vhost_burst
  BY <1>7, Zenon DEF vhost_burst
<1>8. CASE vhost_poll
  BY <1>8, Zenon DEF vhost_poll
<1>9. CASE Worked
  <2>1. Working /\ state' = [state EXCEPT !.worker = "idle", !.allow_queuing = FALSE, !.using = 0]
    BY <1>9 DEF Worked
  <2> QED
    BY <2>1, Zenon
<1>10. CASE vhost_destroy
  BY <1>10 DEF vhost_destroy
<1>11. CASE vhost_destroy_done
  BY <1>11, Zenon DEF vhost_destroy_done, NoBrick
<1>12. CASE Connect
  <2>1. /\ state' = [state EXCEPT !.vm = "new", !.dev = state.dev + 1]
        /\ state.vm = "off" /\ state.worker \notin {"none", "unregister"}
    BY <1>12 DEF Connect
  <2>2. state' \in VhostStates /\ state'.dev > 0
    <3>1. state.dev \in Nat /\ state.dev + 1 \in Nat /\ state.dev + 1 > 0
      OBVIOUS
    <3>2. state' \in VhostStates
      BY <2>1, <3>1, Zenon
    <3>3. state'.dev = state.dev + 1
      BY <2>1
    <3> QED
      BY <3>1, <3>2, <3>3
  <2>3. /\ state'.vm = "new"
        /\ UNCHANGED <<state.worker, state.listed, state.relisted, state.vid, state.using,
                       state.early, state.allow_queuing>>
    BY <2>1
  <2> QED
    BY <2>1, <2>2, <2>3
<1>13. CASE new_vm
  <2>1. /\ state.early \in BOOLEAN /\ state.listed \in BOOLEAN /\ state.allow_queuing \in BOOLEAN
        /\ state.dev \in Nat /\ state.vid \in Nat
    OBVIOUS
  <2>2. /\ state.vm = "new" /\ state'.vm = "on"
        /\ state'.early = (state.early \/ state.worker \in {"started", "inserted"})
        /\ state'.vid = (IF state.listed THEN state.dev ELSE state.vid)
        /\ state'.allow_queuing = (state.allow_queuing /\ ~state.listed)
        /\ UNCHANGED <<state.worker, state.listed, state.relisted, state.dev, state.using>>
    BY <1>13, <2>1 DEF new_vm
  <2>3. state' \in VhostStates
    <3> DEFINE early == state.early \/ state.worker \in {"started", "inserted"}
               vid == IF state.listed THEN state.dev ELSE state.vid
               allow == state.allow_queuing /\ ~state.listed
    <3>1. early \in BOOLEAN /\ vid \in Nat /\ allow \in BOOLEAN
      BY <2>1
    <3>2. state' = [state EXCEPT !.vm = "on", !.early = early, !.vid = vid, !.allow_queuing = allow]
      BY <1>13, Zenon DEF new_vm
    <3> HIDE DEF early, vid, allow
    <3> QED
      BY <3>1, <3>2, Zenon
  <2> QED
    BY <2>1, <2>2, <2>3
<1>14. CASE Disconnect
  BY <1>14 DEF Disconnect
<1>15. CASE destroy_vm
  BY <1>15, Zenon DEF destroy_vm
<1>16. CASE destroy_vm_done
  BY <1>16, Zenon DEF destroy_vm_done
<1>17. CASE UNCHANGED dpvars
  BY <1>17 DEF dpvars
<1> QED
  BY <1>1, <1>2, <1>3, <1>4, <1>5, <1>6, <1>7, <1>8, <1>9, <1>10, <1>11, <1>12, <1>13, <1>14,
     <1>15, <1>16, <1>17 DEF VhostNext

\* The invariant of the vhost brick holds whatever the threads of vhost.c do.
THEOREM VhostInvariance == VhostSpec => []VhostInv
BY VhostInitial, VhostStep, PTL DEF VhostSpec

\* No burst or poll of vhost.c works with a device whose destroy_vm has returned,
\* and in an orderly life the flag is free exactly when a machine is served and
\* nobody works with it.
THEOREM VhostExcludes == VhostSpec => []VhostExclusive
<1>1. VhostInv => VhostExclusive
  BY DEF VhostInv, VhostStates, Places, FlagInv, OrderlyInv, Served, Working, Resting, Orderly,
         VhostExclusive, Vhost
<1> QED
  BY <1>1, VhostInvariance, PTL

-----------------------------------------------------------------------------
(* The memory of sljit. *)

\* The blocks of the callers have sizes that add up.
LEMMA UsedSizes ==
  ASSUME NEW m, NEW C, NEW F, NEW U, NEW X, Heap(m, C, F, U, X)
  PROVE  Sized(m, U) /\ \A a \in DOMAIN U : Size(m, a) = m[a].size
<1>1. DOMAIN U \subseteq DOMAIN m /\ Mem(m) /\ IsFiniteSet(DOMAIN U) /\ \A a \in DOMAIN U : m[a].size \notin {0, 1}
  BY DEF Heap, InUse
<1>2. \A a \in DOMAIN m : m[a].size \in Nat
  BY <1>1 DEF Mem, Headers
<1>. QED
  BY <1>1, <1>2 DEF Size, Sized

\* The state of the allocator.
IsExec(s) ==
  /\ DOMAIN s = {"kind", "mem", "free_blocks", "allocated_size", "total_size", "chunks", "used", "ops"}
  /\ s.kind = "exec"

\* The inductive invariant of the allocator, outside of X.
HeapInv(s, X) ==
  /\ IsExec(s) /\ Heap(s.mem, s.chunks, s.free_blocks, s.used, X)
  /\ IsFiniteSet(DOMAIN s.chunks)
  /\ s.allocated_size = Total(s.mem, s.used)
  /\ s.total_size = Room(s.chunks)

\* Counting a call changes nothing of the memory.
LEMMA ExecSetKeeps ==
  ASSUME NEW s, HeapInv(s, {}), ExecSet(s) PROVE HeapInv(state', {})
<1>. DEFINE t == [s EXCEPT !.ops = @ + 1]
<1>1. /\ IsExec(t) /\ t.mem = s.mem /\ t.chunks = s.chunks /\ t.free_blocks = s.free_blocks /\ t.used = s.used
      /\ t.allocated_size = s.allocated_size /\ t.total_size = s.total_size
  BY DEF HeapInv, IsExec
<1>2. state' = t
  BY DEF ExecSet
<1>. HIDE DEF t
<1>. QED
  BY <1>1, <1>2 DEF HeapInv

\* ALIGN_SIZE leaves room for the header and for a free block.
LEMMA AskedSize ==
  ASSUME NEW asked \in Nat
  PROVE  LET size == ALIGN_SIZE(Max({asked, FREE_BLOCK}))
         IN size \in Nat /\ size >= asked + HEADER /\ size >= FREE_BLOCK + HEADER
<1>1. \E x \in {asked, FREE_BLOCK} : \A y \in {asked, FREE_BLOCK} : x >= y
  BY DEF FREE_BLOCK
<1>2. /\ Max({asked, FREE_BLOCK}) \in {asked, FREE_BLOCK}
      /\ \A y \in {asked, FREE_BLOCK} : Max({asked, FREE_BLOCK}) >= y
  BY <1>1 DEF Max
<1>. QED
  BY <1>2 DEF ALIGN_SIZE, HEADER, FREE_BLOCK

\* The block sljit_malloc_exec takes is one of the list.
LEMMA FirstFit ==
  ASSUME NEW F \in Seq(Nat), NEW T, T \subseteq DOMAIN F, T # {}
  PROVE  Min(T) \in T /\ F[Min(T)] \in Range(F)
<1>1. T \subseteq Nat
  OBVIOUS
<1>2. \E x \in T : \A y \in T : x <= y
  BY <1>1, LeastNatural, Zenon
<1>3. Min(T) \in T
  BY <1>2 DEF Min
<1>. QED
  BY <1>3 DEF Range

\* What sljit_malloc_exec knows when it cuts a block.
Fits(s, C, F, U, addr, asked, size) ==
  /\ Heap(s.mem, C, F, U, {}) /\ addr \in Range(F) /\ asked \in Nat /\ size \in Nat
  /\ size >= asked + HEADER /\ size >= FREE_BLOCK + HEADER /\ s.mem[addr].fsize > size

\* HeapCut, for what sljit_malloc_exec knows.
LEMMA CutFits ==
  ASSUME NEW s, NEW C, NEW F, NEW U, NEW addr, NEW asked, NEW size, Fits(s, C, F, U, addr, asked, size)
  PROVE  LET m2 == Cut(s, addr, size)
             new == addr + s.mem[addr].fsize - size
         IN /\ Heap(m2, C, F, With(U, new, asked), {})
            /\ new \notin DOMAIN U /\ Size(m2, new) = size
            /\ SameSizes(m2, s.mem, DOMAIN U)
BY HeapCut, Zenon DEF Fits

\* A block is cut from a free one.
LEMMA CutStep ==
  ASSUME NEW s, HeapInv(s, {}), NEW addr \in Range(s.free_blocks), NEW asked \in Nat, NEW size \in Nat,
         size >= asked + HEADER, size >= FREE_BLOCK + HEADER, s.mem[addr].fsize > size,
         NEW t, t = [s EXCEPT !.mem = Cut(s, addr, size), !.allocated_size = @ + size,
                              !.used = With(@, addr + s.mem[addr].fsize - size, asked)]
  PROVE  HeapInv(t, {})
<1>. DEFINE m2 == Cut(s, addr, size)
            new == addr + s.mem[addr].fsize - size
            V == With(s.used, new, asked)
<1>1. Heap(s.mem, s.chunks, s.free_blocks, s.used, {}) /\ Fits(s, s.chunks, s.free_blocks, s.used, addr, asked, size)
  BY DEF HeapInv, Fits
<1>2. /\ Heap(m2, s.chunks, s.free_blocks, V, {}) /\ new \notin DOMAIN s.used /\ Size(m2, new) = size
      /\ SameSizes(m2, s.mem, DOMAIN s.used)
  BY <1>1, CutFits
<1>3. /\ IsExec(t) /\ t.mem = m2 /\ t.chunks = s.chunks /\ t.free_blocks = s.free_blocks /\ t.used = V
      /\ t.allocated_size = s.allocated_size + size /\ t.total_size = s.total_size
  BY DEF HeapInv, IsExec
<1>. HIDE DEF m2, new
<1>4. Total(m2, V) = Total(s.mem, s.used) + size
  <2>1. Sized(s.mem, s.used)
    BY <1>1, UsedSizes
  <2>. QED
    BY <1>1, <1>2, <2>1, TotalAdd
<1>. HIDE DEF V
<1>. QED
  BY <1>2, <1>3, <1>4 DEF HeapInv

\* A free block is taken as a whole.
LEMMA TakeStep ==
  ASSUME NEW s, HeapInv(s, {}), NEW addr \in Range(s.free_blocks), NEW asked \in Nat,
         NEW whole, whole = s.mem[addr].fsize, whole >= asked + HEADER, whole >= FREE_BLOCK + HEADER,
         NEW t, t = [s EXCEPT !.mem[addr] = Header(whole, @.prev_size, 0),
                              !.free_blocks = sljit_remove_free_block(@, addr),
                              !.allocated_size = @ + whole, !.used = With(@, addr, asked)]
  PROVE  HeapInv(t, {})
<1>. DEFINE m2 == [s.mem EXCEPT ![addr] = Header(s.mem[addr].fsize, s.mem[addr].prev_size, 0)]
            V == With(s.used, addr, asked)
            G == sljit_remove_free_block(s.free_blocks, addr)
<1>1. Heap(s.mem, s.chunks, s.free_blocks, s.used, {})
  BY DEF HeapInv
<1>2. addr \in DOMAIN s.mem /\ whole \in Nat
  <2>1. addr \in DOMAIN s.mem /\ Mem(s.mem)
    BY <1>1 DEF Heap, FreeList
  <2>. QED
    BY <2>1 DEF Mem, Headers
<1>3. /\ Heap(m2, s.chunks, G, V, {}) /\ addr \notin DOMAIN s.used /\ Size(m2, addr) = s.mem[addr].fsize
      /\ SameSizes(m2, s.mem, DOMAIN s.used)
  BY <1>1, HeapTake
<1>4. /\ IsExec(t) /\ t.mem = m2 /\ t.chunks = s.chunks /\ t.free_blocks = G /\ t.used = V
      /\ t.allocated_size = s.allocated_size + whole /\ t.total_size = s.total_size
  BY <1>2 DEF HeapInv, IsExec
<1>. HIDE DEF m2
<1>5. Total(m2, V) = Total(s.mem, s.used) + whole
  <2>1. Sized(s.mem, s.used)
    BY <1>1, UsedSizes
  <2>. QED
    BY <1>1, <1>2, <1>3, <2>1, TotalAdd
<1>. HIDE DEF V, G
<1>. QED
  BY <1>3, <1>4, <1>5 DEF HeapInv

\* sljit_malloc_exec with a free block keeps the invariant.
LEMMA MallocStep ==
  ASSUME HeapInv(state, {}), NEW asked \in Nat, sljit_malloc_exec(asked), ExecSlack \in Nat
  PROVE  HeapInv(state', {})
<1>. DEFINE size == ALIGN_SIZE(Max({asked, FREE_BLOCK}))
            fits == {i \in DOMAIN state.free_blocks : state.mem[state.free_blocks[i]].fsize >= size}
            addr == state.free_blocks[Min(fits)]
            whole == state.mem[addr].fsize
            cut == [state EXCEPT !.mem = Cut(state, addr, size), !.allocated_size = @ + size,
                                 !.used = With(@, addr + whole - size, asked)]
            taken == [state EXCEPT !.mem[addr] = Header(whole, @.prev_size, 0),
                                   !.free_blocks = sljit_remove_free_block(@, addr),
                                   !.allocated_size = @ + whole, !.used = With(@, addr, asked)]
<1>1. size \in Nat /\ size >= asked + HEADER /\ size >= FREE_BLOCK + HEADER
  BY AskedSize
<1>2. fits # {} /\ ((whole > size + ExecSlack /\ ExecSet(cut)) \/ ExecSet(taken))
  BY Zenon DEF sljit_malloc_exec
<1>3. state.free_blocks \in Seq(Nat)
  BY DEF HeapInv, Heap, FreeList
<1>4. Min(fits) \in fits /\ addr \in Range(state.free_blocks)
  BY <1>2, <1>3, FirstFit, Zenon
<1>5. addr \in Range(state.free_blocks) /\ whole >= size
  BY <1>4, Zenon
<1>6. whole \in Nat
  <2>1. addr \in DOMAIN state.mem /\ Mem(state.mem)
    BY <1>5, Zenon DEF HeapInv, Heap, FreeList
  <2>. QED
    BY <2>1, Zenon DEF Mem, Headers
<1>. HIDE DEF size, fits, addr
<1>7. CASE whole > size + ExecSlack /\ ExecSet(cut)
  <2>1. whole > size
    BY <1>1, <1>6, <1>7
  <2>2. HeapInv(cut, {})
    BY <1>1, <1>5, <2>1, CutStep, Zenon
  <2>. QED
    BY <1>7, <2>2, ExecSetKeeps
<1>8. CASE ExecSet(taken)
  <2>1. whole >= asked + HEADER /\ whole >= FREE_BLOCK + HEADER
    BY <1>1, <1>5, <1>6 DEF HEADER, FREE_BLOCK
  <2>2. HeapInv(taken, {})
    BY <1>5, <2>1, TakeStep, Zenon
  <2>. QED
    BY <1>8, <2>2, ExecSetKeeps
<1>. QED
  BY <1>2, <1>7, <1>8

\* What sljit_malloc_exec knows when it takes a chunk.
ChunkFits(m, C, F, U, base, bytes, asked, size) ==
  /\ Heap(m, C, F, U, {}) /\ base \in Nat /\ bytes \in Nat /\ asked \in Nat /\ size \in Nat
  /\ size >= asked + HEADER /\ size >= FREE_BLOCK + HEADER /\ bytes >= size + HEADER
  /\ Clear(C, base, bytes)

ChunkSplits(m, C, F, U, base, bytes, asked, size, G) ==
  ChunkFits(m, C, F, U, base, bytes, asked, size) /\ bytes > size + HEADER /\ G = <<base + size>> \o F

\* HeapChunk, for what sljit_malloc_exec knows of a chunk it does not cut.
LEMMA ChunkWhole ==
  ASSUME NEW m, NEW C, NEW F, NEW U, NEW base, NEW bytes, NEW asked, NEW size,
         ChunkFits(m, C, F, U, base, bytes, asked, size)
  PROVE  LET room == bytes - HEADER
             m2 == With(With(m, base, Header(room, 0, 0)), base + room, Header(1, room, 0))
         IN /\ Heap(m2, With(C, base, bytes), F, With(U, base, asked), {})
            /\ base \notin DOMAIN C /\ base \notin DOMAIN U /\ Size(m2, base) = room
            /\ SameSizes(m2, m, DOMAIN U)
<1>1. /\ Heap(m, C, F, U, {}) /\ base \in Nat /\ bytes \in Nat /\ asked \in Nat /\ Clear(C, base, bytes)
  BY DEF ChunkFits
<1>2. bytes >= asked + HEADER + HEADER /\ bytes >= FREE_BLOCK + HEADER + HEADER
  BY DEF ChunkFits, HEADER, FREE_BLOCK
<1>. QED
  BY <1>1, <1>2, HeapChunk

\* HeapChunkCut, for what it knows of a chunk it cuts.
LEMMA ChunkSplit ==
  ASSUME NEW m, NEW C, NEW F, NEW U, NEW base, NEW bytes, NEW asked, NEW size, NEW G,
         ChunkSplits(m, C, F, U, base, bytes, asked, size, G)
  PROVE  LET room == bytes - HEADER
             m2 == With(With(With(m, base, Header(size, 0, 0)), base + size, Header(0, size, room - size)),
                        base + room, Header(1, room - size, 0))
         IN /\ Heap(m2, With(C, base, bytes), G, With(U, base, asked), {})
            /\ base \notin DOMAIN C /\ base \notin DOMAIN U /\ Size(m2, base) = size
            /\ SameSizes(m2, m, DOMAIN U)
BY HeapChunkCut DEF ChunkSplits, ChunkFits

\* A chunk of the system, taken as a whole or cut.
LEMMA ChunkStep ==
  ASSUME NEW s, HeapInv(s, {}), NEW base, NEW bytes, NEW asked, NEW size,
         ChunkFits(s.mem, s.chunks, s.free_blocks, s.used, base, bytes, asked, size),
         NEW m2, NEW G, NEW taken \in Nat, NEW t, IsExec(t), t.mem = m2, t.free_blocks = G,
         t.chunks = With(s.chunks, base, bytes), t.used = With(s.used, base, asked),
         t.allocated_size = s.allocated_size + taken, t.total_size = s.total_size + (bytes - HEADER),
         Heap(m2, With(s.chunks, base, bytes), G, With(s.used, base, asked), {}),
         base \notin DOMAIN s.chunks, base \notin DOMAIN s.used, Size(m2, base) = taken,
         SameSizes(m2, s.mem, DOMAIN s.used)
  PROVE  HeapInv(t, {})
<1>1. Heap(s.mem, s.chunks, s.free_blocks, s.used, {}) /\ IsFiniteSet(DOMAIN s.chunks) /\ bytes \in Nat
  BY DEF HeapInv, ChunkFits
<1>2. s.chunks \in [DOMAIN s.chunks -> Nat]
  BY <1>1 DEF Heap, Layout, Chunked
<1>3. Total(m2, With(s.used, base, asked)) = Total(s.mem, s.used) + taken
  <2>1. Sized(s.mem, s.used)
    BY <1>1, UsedSizes
  <2>2. /\ base \notin DOMAIN s.used /\ Size(m2, base) = taken /\ taken \in Nat
        /\ SameSizes(m2, s.mem, DOMAIN s.used)
    OBVIOUS
  <2>3. Total(m2, With(s.used, base, asked)) = Total(s.mem, s.used) + Size(m2, base)
    BY ONLY <2>1, <2>2, TotalAdd
  <2>. QED
    BY <2>2, <2>3
<1>4. /\ Room(With(s.chunks, base, bytes)) = Room(s.chunks) + (bytes - HEADER)
      /\ IsFiniteSet(DOMAIN With(s.chunks, base, bytes))
  BY <1>1, <1>2, RoomAdd
<1>. QED
  BY <1>3, <1>4 DEF HeapInv

\* sljit_malloc_exec with a new chunk keeps the invariant.
LEMMA MallocChunkStep ==
  ASSUME HeapInv(state, {}), NEW asked \in Nat, NEW base \in Nat, CHUNK_SIZE \in Nat \ {0}, ExecSlack \in Nat,
         sljit_malloc_exec_chunk(asked, base)
  PROVE  HeapInv(state', {})
<1>. DEFINE size == ALIGN_SIZE(Max({asked, FREE_BLOCK}))
            bytes == RoundUp(size + HEADER, CHUNK_SIZE)
            room == bytes - HEADER
            s == [state EXCEPT !.chunks = With(@, base, bytes), !.total_size = @ + room, !.used = With(@, base, asked)]
            m2 == With(With(With(state.mem, base, Header(size, 0, 0)), base + size, Header(0, size, room - size)),
                        base + room, Header(1, room - size, 0))
            m3 == With(With(state.mem, base, Header(room, 0, 0)), base + room, Header(1, room, 0))
            cut == [s EXCEPT !.mem = With(With(With(@, base, Header(size, 0, 0)),
                                                 base + size, Header(0, size, room - size)),
                                            base + room, Header(1, room - size, 0)),
                               !.free_blocks = <<base + size>> \o @, !.allocated_size = @ + size]
            whole == [s EXCEPT !.mem = With(With(@, base, Header(room, 0, 0)), base + room, Header(1, room, 0)),
                               !.allocated_size = @ + room]
<1>1. size \in Nat /\ size >= asked + HEADER /\ size >= FREE_BLOCK + HEADER
  BY AskedSize
<1>2. Clear(state.chunks, base, bytes) /\ ((room > size + ExecSlack /\ ExecSet(cut)) \/ ExecSet(whole))
  BY Zenon DEF sljit_malloc_exec_chunk, alloc_chunk, Clear
<1>. HIDE DEF size
<1>3. bytes \in Nat /\ bytes >= size + HEADER
  <2>1. size + HEADER \in Nat
    BY <1>1 DEF HEADER
  <2>. QED
    BY <2>1, RoundUpFacts
<1>. HIDE DEF bytes
<1>4. /\ IsExec(s) /\ s.mem = state.mem /\ s.free_blocks = state.free_blocks
      /\ s.chunks = With(state.chunks, base, bytes) /\ s.used = With(state.used, base, asked)
      /\ s.total_size = state.total_size + room /\ s.allocated_size = state.allocated_size
  BY DEF HeapInv, IsExec
<1>5. ChunkFits(state.mem, state.chunks, state.free_blocks, state.used, base, bytes, asked, size)
  BY <1>1, <1>2, <1>3 DEF ChunkFits, HeapInv
<1>6. room \in Nat
  BY <1>1, <1>3 DEF HEADER
<1>. HIDE DEF s
<1>7. CASE room > size + ExecSlack /\ ExecSet(cut)
  <2>. DEFINE G == <<base + size>> \o state.free_blocks
  <2>1. /\ IsExec(cut) /\ cut.mem = m2 /\ cut.free_blocks = G
        /\ cut.chunks = With(state.chunks, base, bytes) /\ cut.used = With(state.used, base, asked)
        /\ cut.allocated_size = state.allocated_size + size /\ cut.total_size = state.total_size + (bytes - HEADER)
    BY <1>4 DEF IsExec
  <2>2. ChunkSplits(state.mem, state.chunks, state.free_blocks, state.used, base, bytes, asked, size, G)
    BY <1>1, <1>3, <1>5, <1>7 DEF HEADER, ChunkSplits
  <2>. HIDE DEF G
  <2>3. /\ Heap(m2, With(state.chunks, base, bytes), G, With(state.used, base, asked), {})
        /\ base \notin DOMAIN state.chunks /\ base \notin DOMAIN state.used /\ Size(m2, base) = size
        /\ SameSizes(m2, state.mem, DOMAIN state.used)
    BY <2>2, ChunkSplit
  <2>. HIDE DEF cut, m2
  <2>4. HeapInv(cut, {})
    BY <1>1, <1>5, <2>1, <2>3, ChunkStep, Zenon
  <2>. QED
    BY <1>7, <2>4, ExecSetKeeps DEF cut
<1>8. CASE ExecSet(whole)
  <2>1. /\ IsExec(whole) /\ whole.mem = m3 /\ whole.free_blocks = state.free_blocks
        /\ whole.chunks = With(state.chunks, base, bytes) /\ whole.used = With(state.used, base, asked)
        /\ whole.allocated_size = state.allocated_size + room /\ whole.total_size = state.total_size + (bytes - HEADER)
    BY <1>4 DEF IsExec
  <2>3. /\ Heap(m3, With(state.chunks, base, bytes), state.free_blocks, With(state.used, base, asked), {})
        /\ base \notin DOMAIN state.chunks /\ base \notin DOMAIN state.used /\ Size(m3, base) = room
        /\ SameSizes(m3, state.mem, DOMAIN state.used)
    BY <1>5, ChunkWhole
  <2>. HIDE DEF whole, m3
  <2>4. HeapInv(whole, {})
    BY <1>5, <1>6, <2>1, <2>3, ChunkStep
  <2>. QED
    BY <1>8, <2>4, ExecSetKeeps DEF whole
<1>. QED
  BY <1>2, <1>7, <1>8

\* While sljit_free_exec is at work: the block at x is free, and the one after it may be.
Half(s, x) == HeapInv(s, {x}) /\ FreeAt(s.mem, x)

\* The block of a caller is theirs no longer, but its header says so still.
GivenBack(s, addr) ==
  [s EXCEPT !.allocated_size = @ - s.mem[addr].size, !.used = [a \in DOMAIN @ \ {addr} |-> @[a]]]

\* The totals after a block is given back.
LEMMA GivenBackFacts ==
  ASSUME NEW s, HeapInv(s, {}), NEW addr \in DOMAIN s.used,
         NEW m2, SameSizes(m2, s.mem, DOMAIN s.used \ {addr})
  PROVE  LET g == GivenBack(s, addr)
         IN /\ IsExec(g) /\ g.mem = s.mem /\ g.chunks = s.chunks /\ g.free_blocks = s.free_blocks
            /\ g.used = Without(s.used, addr) /\ g.total_size = s.total_size
            /\ g.allocated_size = Total(m2, Without(s.used, addr))
<1>1. /\ IsExec(GivenBack(s, addr)) /\ GivenBack(s, addr).mem = s.mem /\ GivenBack(s, addr).chunks = s.chunks
      /\ GivenBack(s, addr).free_blocks = s.free_blocks
      /\ GivenBack(s, addr).used = Without(s.used, addr) /\ GivenBack(s, addr).total_size = s.total_size
      /\ GivenBack(s, addr).allocated_size = s.allocated_size - s.mem[addr].size
  BY DEF HeapInv, IsExec, GivenBack, Without
<1>2. Sized(s.mem, s.used) /\ \A a \in DOMAIN s.used : Size(s.mem, a) = s.mem[a].size
  BY UsedSizes DEF HeapInv
<1>3. Total(m2, Without(s.used, addr)) = Total(s.mem, s.used) - Size(s.mem, addr)
  BY <1>2, TotalRemove
<1>. QED
  BY <1>1, <1>2, <1>3 DEF HeapInv

\* JoinPrevious of sljit_free_exec.
LEMMA JoinPreviousStep ==
  ASSUME NEW s, HeapInv(s, {}), NEW addr \in DOMAIN s.used,
         NEW before, before = JoinPrevious(GivenBack(s, addr), addr)
  PROVE  Half(before.s, before.addr)
<1>. DEFINE g == GivenBack(s, addr)
            h == s.mem[addr]
            prev == addr - h.prev_size
            joined == s.mem[prev].fsize + h.size
            U2 == Without(s.used, addr)
<1>0. Heap(s.mem, s.chunks, s.free_blocks, s.used, {}) /\ IsFiniteSet(DOMAIN s.chunks) /\ s.total_size = Room(s.chunks)
  BY DEF HeapInv
<1>1. IsExec(g) /\ g.mem = s.mem /\ g.chunks = s.chunks /\ g.free_blocks = s.free_blocks
      /\ g.used = U2 /\ g.total_size = s.total_size
  <2>1. SameSizes(s.mem, s.mem, DOMAIN s.used \ {addr})
    BY DEF SameSizes
  <2>. QED
    BY <2>1, GivenBackFacts
<1>2. CASE s.mem[prev].size = 0
  <2>. DEFINE m2 == Merged(s.mem, prev, addr, joined)
  <2>1. prev \in DOMAIN s.mem /\ addr = prev + s.mem[prev].fsize
    BY <1>0, <1>2, FreeBefore
  <2>2. /\ Heap(m2, s.chunks, s.free_blocks, U2, {prev}) /\ FreeAt(m2, prev)
        /\ SameSizes(m2, s.mem, DOMAIN s.used \ {addr})
    <3>1. AfterFree(s.mem, s.chunks, s.free_blocks, s.used, prev, addr, joined)
      BY <1>0, <1>2, <2>1 DEF AfterFree
    <3>. HIDE DEF prev, joined
    <3>. QED
      BY <3>1, HeapJoinPrevious
  <2>3. g.allocated_size = Total(m2, U2)
    BY <2>2, GivenBackFacts, Zenon
  <2>. HIDE DEF g
  <2>4. before.addr = prev /\ before.s = [g EXCEPT !.mem = m2]
    BY <1>1, <1>2 DEF JoinPrevious, Merged, g
  <2>. DEFINE t == [g EXCEPT !.mem = m2]
  <2>5. /\ IsExec(t) /\ t.mem = m2 /\ t.chunks = s.chunks /\ t.free_blocks = s.free_blocks /\ t.used = U2
        /\ t.total_size = s.total_size /\ t.allocated_size = Total(m2, U2)
    BY <1>1, <2>3 DEF IsExec
  <2>. HIDE DEF m2, U2, t, prev
  <2>6. Half(t, prev)
    BY <1>0, <2>2, <2>5 DEF Half, HeapInv
  <2>. QED
    BY <2>4, <2>6 DEF t
<1>3. CASE s.mem[prev].size # 0
  <2>. DEFINE m2 == Marked(s.mem, addr)
              G == <<addr>> \o s.free_blocks
  <2>2. /\ Heap(m2, s.chunks, G, U2, {addr}) /\ FreeAt(m2, addr)
        /\ SameSizes(m2, s.mem, DOMAIN s.used \ {addr})
    <3>1. Alone(s.mem, s.chunks, s.free_blocks, s.used, addr, G)
      BY <1>0, <1>3 DEF Alone
    <3>. HIDE DEF G
    <3>. QED
      BY <3>1, HeapMark, Zenon
  <2>3. g.allocated_size = Total(m2, U2)
    BY <2>2, GivenBackFacts
  <2>. DEFINE t == [g EXCEPT !.mem[addr] = Header(0, h.prev_size, h.size), !.free_blocks = <<addr>> \o @]
  <2>. HIDE DEF g
  <2>4. before.addr = addr /\ before.s = t
    BY <1>1, <1>3 DEF JoinPrevious, g
  <2>5. /\ IsExec(t) /\ t.mem = m2 /\ t.chunks = s.chunks /\ t.free_blocks = G /\ t.used = U2
        /\ t.total_size = s.total_size /\ t.allocated_size = Total(m2, U2)
    BY <1>1, <2>3 DEF IsExec, Marked
  <2>. HIDE DEF m2, U2, t, G
  <2>6. Half(t, addr)
    BY <1>0, <2>2, <2>5 DEF Half, HeapInv
  <2>. QED
    BY <2>4, <2>6
<1>. QED
  BY <1>2, <1>3

\* JoinNext of sljit_free_exec.
LEMMA JoinNextStep ==
  ASSUME NEW s, NEW x, Half(s, x), NEW t, t = JoinNext(s, x)
  PROVE  HeapInv(t, {}) /\ FreeAt(t.mem, x)
<1>. DEFINE next == x + s.mem[x].fsize
            joined == s.mem[x].fsize + s.mem[next].fsize
<1>0. /\ Heap(s.mem, s.chunks, s.free_blocks, s.used, {x}) /\ IsFiniteSet(DOMAIN s.chunks)
      /\ s.total_size = Room(s.chunks) /\ FreeAt(s.mem, x)
  BY DEF Half, HeapInv
<1>1. CASE s.mem[next].size # 0
  <2>1. Heap(s.mem, s.chunks, s.free_blocks, s.used, {})
    BY <1>0, <1>1, HeapNoNext
  <2>2. t = s
    BY <1>1 DEF JoinNext
  <2>. QED
    BY <1>0, <2>1, <2>2 DEF Half, HeapInv
<1>2. CASE s.mem[next].size = 0
  <2>. DEFINE m2 == Merged(s.mem, x, next, joined)
              G == sljit_remove_free_block(s.free_blocks, next)
  <2>1. /\ Heap(m2, s.chunks, G, s.used, {}) /\ FreeAt(m2, x)
        /\ SameSizes(m2, s.mem, DOMAIN s.used)
    <3>1. BeforeFree(s.mem, s.chunks, s.free_blocks, s.used, x, next, joined)
      BY <1>0, <1>2 DEF BeforeFree, FreeAt
    <3>. HIDE DEF next, joined
    <3>. QED
      BY <3>1, HeapJoinNext
  <2>2. Total(m2, s.used) = Total(s.mem, s.used)
    BY <2>1, TotalSame, Zenon
  <2>3. t = [s EXCEPT !.mem = m2, !.free_blocks = G]
    BY <1>2 DEF JoinNext, Merged
  <2>4. /\ IsExec(t) /\ t.mem = m2 /\ t.chunks = s.chunks /\ t.free_blocks = G /\ t.used = s.used
        /\ t.total_size = s.total_size /\ t.allocated_size = s.allocated_size
    BY <2>3 DEF Half, HeapInv, IsExec
  <2>. HIDE DEF m2, G
  <2>. QED
    BY <1>0, <2>1, <2>2, <2>4 DEF Half, HeapInv
<1>. QED
  BY <1>1, <1>2

\* Release of sljit_free_exec.
LEMMA ReleaseStep ==
  ASSUME NEW s, HeapInv(s, {}), NEW x, FreeAt(s.mem, x), NEW t, t = Release(s, x)
  PROVE  HeapInv(t, {})
<1>. DEFINE end == x + s.mem[x].fsize
<1>0. Heap(s.mem, s.chunks, s.free_blocks, s.used, {}) /\ IsFiniteSet(DOMAIN s.chunks)
  BY DEF HeapInv
<1>1. CASE t = s
  BY <1>1
<1>2. CASE t # s
  <2>. DEFINE m2 == Dropped(s.mem, x, end)
              G == sljit_remove_free_block(s.free_blocks, x)
  <2>1. /\ s.mem[x].prev_size = 0 /\ s.mem[end].size = 1
        /\ t = [s EXCEPT !.mem = m2, !.free_blocks = G, !.total_size = @ - s.mem[x].fsize,
                         !.chunks = Without(s.chunks, x)]
    BY <1>2 DEF Release, Without, Dropped
  <2>2. /\ Heap(m2, Without(s.chunks, x), G, s.used, {})
        /\ x \in DOMAIN s.chunks /\ s.chunks[x] = s.mem[x].fsize + HEADER
        /\ SameSizes(m2, s.mem, DOMAIN s.used)
    <3>1. FreeChunk(s.mem, s.chunks, s.free_blocks, s.used, x, end)
      BY <1>0, <2>1 DEF FreeChunk, FreeAt
    <3>. HIDE DEF end
    <3>. QED
      BY <3>1, HeapRelease
  <2>3. Total(m2, s.used) = Total(s.mem, s.used)
    BY <2>2, TotalSame
  <2>4. s.chunks \in [DOMAIN s.chunks -> Nat] /\ s.mem[x].fsize \in Nat
    BY <1>0, Zenon DEF Heap, Layout, Chunked, Mem, Headers, FreeAt
  <2>5. /\ Room(Without(s.chunks, x)) = Room(s.chunks) - s.mem[x].fsize
        /\ IsFiniteSet(DOMAIN Without(s.chunks, x))
    <3>1. /\ Room(Without(s.chunks, x)) = Room(s.chunks) - (s.chunks[x] - HEADER)
          /\ IsFiniteSet(DOMAIN Without(s.chunks, x))
      BY <1>0, <2>2, <2>4, RoomRemove
    <3>2. s.chunks[x] - HEADER = s.mem[x].fsize
      BY <2>2, <2>4 DEF HEADER
    <3>. QED
      BY <3>1, <3>2
  <2>6. /\ IsExec(t) /\ t.mem = m2 /\ t.chunks = Without(s.chunks, x) /\ t.free_blocks = G /\ t.used = s.used
        /\ t.total_size = s.total_size - s.mem[x].fsize /\ t.allocated_size = s.allocated_size
    BY <2>1 DEF HeapInv, IsExec
  <2>. HIDE DEF m2, G
  <2>. QED
    BY <2>2, <2>3, <2>5, <2>6 DEF HeapInv
<1>. QED
  BY <1>1, <1>2

\* sljit_free_exec keeps the invariant.
LEMMA FreeStep ==
  ASSUME HeapInv(state, {}), NEW addr, sljit_free_exec(addr)
  PROVE  HeapInv(state', {})
<1>. DEFINE before == JoinPrevious(GivenBack(state, addr), addr)
            after == JoinNext(before.s, before.addr)
            left == Release(after, before.addr)
<1>1. addr \in DOMAIN state.used /\ ExecSet(left)
  BY DEF sljit_free_exec, GivenBack
<1>2. Half(before.s, before.addr)
  BY <1>1, JoinPreviousStep
<1>. HIDE DEF before
<1>3. HeapInv(after, {}) /\ FreeAt(after.mem, before.addr)
  BY <1>2, JoinNextStep
<1>. HIDE DEF after
<1>4. HeapInv(left, {})
  BY <1>3, ReleaseStep
<1>. HIDE DEF left
<1>. QED
  BY <1>1, <1>4, ExecSetKeeps

\* The allocator, or a stack, by itself.
ExecSpec == ExecInit /\ [][ExecNext]_dpvars

\* The stack of compiled code.
StackInv(s) ==
  /\ DOMAIN s = {"kind", "limit", "max_limit", "released"} /\ s.kind = "jitstack"
  /\ s.limit \in Nat /\ s.max_limit \in Nat /\ s.limit <= s.max_limit /\ s.max_limit % PageSize = 0
  /\ \A w \in s.released : s.limit <= w /\ w < s.max_limit
  /\ Cardinality(s.released) % PageSize = 0

ExecInv == HeapInv(state, {}) \/ StackInv(state)

\* No chunk and no block to begin with, and a stack within its limit.
LEMMA ExecInitial == ExecInit => ExecInv
<1>. USE ExecAssumption
<1>1. CASE state = exec_none
  <2>. DEFINE m == state.mem
  <2>1. /\ IsExec(state) /\ state.mem = <<>> /\ state.free_blocks = <<>> /\ state.chunks = <<>> /\ state.used = <<>>
        /\ state.allocated_size = 0 /\ state.total_size = 0
    BY <1>1 DEF exec_none, IsExec
  <2>2. DOMAIN state.mem = {} /\ DOMAIN state.chunks = {} /\ DOMAIN state.used = {} /\ DOMAIN state.free_blocks = {}
        /\ state.free_blocks \in Seq(Nat)
    BY <2>1
  <2>3. state.mem = [a \in {} |-> state.mem[a]] /\ state.chunks = [a \in {} |-> state.chunks[a]]
    BY <2>1
  <2>4. Mem(state.mem) /\ Apart(state.mem, {})
    BY <2>2, <2>3 DEF Mem, Apart
  <2>5. Layout(Sz(state.mem), Pv(state.mem), state.chunks)
    BY <2>2, <2>3, Zenon DEF Layout, Sound, Forth, Back, Disjoint, Chunked, Sz, Pv
  <2>6. FreeList(state.mem, state.free_blocks)
    BY <2>2 DEF FreeList, IsInjective, Range
  <2>7. InUse(state.mem, state.used)
    BY <2>2, FS_EmptySet DEF InUse
  <2>8. Total(state.mem, state.used) = 0 /\ Room(state.chunks) = 0
    BY <2>2, SumEmpty DEF Total, Room
  <2>9. IsFiniteSet(DOMAIN state.chunks)
    BY <2>2, FS_EmptySet
  <2>. QED
    BY <2>1, <2>4, <2>5, <2>6, <2>7, <2>8, <2>9 DEF ExecInv, HeapInv, Heap
<1>2. ASSUME NEW max \in 1 .. 3 * PageSize, NEW limit \in 1 .. max, state = sljit_allocate_stack(limit, max)
      PROVE  ExecInv
  <2>1. max \in Nat /\ limit \in Nat /\ limit <= max /\ PageSize \in Nat \ {0}
    BY DEF ExecAssumption
  <2>2. RoundUp(max, PageSize) \in Nat /\ RoundUp(max, PageSize) >= max /\ RoundUp(max, PageSize) % PageSize = 0
    BY <2>1, RoundUpFacts
  <2>3. Cardinality({}) = 0 /\ 0 % PageSize = 0
    BY <2>1, FS_EmptySet
  <2>4. /\ DOMAIN state = {"kind", "limit", "max_limit", "released"} /\ state.kind = "jitstack"
        /\ state.limit = limit /\ state.max_limit = RoundUp(max, PageSize) /\ state.released = {}
    BY <1>2 DEF sljit_allocate_stack
  <2>. QED
    BY <2>1, <2>2, <2>3, <2>4 DEF ExecInv, StackInv
<1>. QED
  BY <1>1, <1>2, Zenon DEF ExecInit

\* sljit_stack_resize gives back whole pages, above the new limit.
LEMMA ResizeStep ==
  ASSUME StackInv(state), NEW new_limit \in Nat, sljit_stack_resize(new_limit)
  PROVE  StackInv(state')
<1>. USE ExecAssumption
<1>0. PageSize \in Nat \ {0} /\ state.limit \in Nat /\ state.max_limit \in Nat /\ new_limit <= state.max_limit
      /\ state.limit <= state.max_limit /\ state.max_limit % PageSize = 0
  BY DEF ExecAssumption, StackInv, sljit_stack_resize
<1>. DEFINE words == IF new_limit >= state.limit THEN {} ELSE Released(state.limit, new_limit)
<1>1. /\ DOMAIN state' = DOMAIN state /\ (state').kind = "jitstack" /\ (state').limit = new_limit
      /\ (state').max_limit = state.max_limit /\ (state').released = words
  BY DEF StackInv, sljit_stack_resize
<1>2. CASE new_limit >= state.limit
  <2>1. words = {} /\ Cardinality({}) = 0 /\ 0 % PageSize = 0
    BY <1>0, <1>2, FS_EmptySet
  <2>. QED
    BY <1>0, <1>1, <2>1 DEF StackInv
<1>3. CASE new_limit < state.limit
  <2>. DEFINE lo == RoundUp(new_limit, PageSize)
              hi == RoundUp(state.limit, PageSize)
  <2>1. /\ lo \in Nat /\ lo >= new_limit /\ hi \in Nat /\ lo <= hi /\ (hi - lo) % PageSize = 0
    <3>1. new_limit <= state.limit
      BY <1>0, <1>3
    <3>2. lo \in Nat /\ lo >= new_limit
      BY <1>0, RoundUpFacts
    <3>3. hi \in Nat /\ lo <= hi /\ (hi - lo) % PageSize = 0
      <4>1. /\ hi \in Nat
            /\ \A n \in Nat : n <= state.limit => RoundUp(n, PageSize) <= hi
            /\ \A n \in Nat : n <= state.limit => (hi - RoundUp(n, PageSize)) % PageSize = 0
        BY <1>0, RoundUpFacts, Zenon
      <4>. HIDE DEF hi
      <4>. QED
        BY <3>1, <4>1
    <3>. QED
      BY <3>2, <3>3
  <2>2. hi <= state.max_limit
    BY <1>0, RoundUpFacts, Zenon
  <2>3. words = lo .. hi - 1
    BY <1>0, <1>3 DEF Released
  <2>. HIDE DEF lo, hi, words
  <2>4. \A w \in words : new_limit <= w /\ w < state.max_limit
    BY <1>0, <2>1, <2>2, <2>3
  <2>5. Cardinality(words) = hi - lo
    <3>1. lo \in Int /\ hi - 1 \in Int
      BY <2>1
    <3>2. Cardinality(words) = IF lo > hi - 1 THEN 0 ELSE (hi - 1) - lo + 1
      BY <2>3, <3>1, FS_Interval
    <3>. QED
      BY <2>1, <3>2
  <2>. QED
    BY <1>0, <1>1, <2>1, <2>4, <2>5 DEF StackInv
<1>. QED
  BY <1>0, <1>2, <1>3

\* Every call keeps the invariant.
LEMMA ExecStep == ExecInv /\ [ExecNext]_dpvars => ExecInv'
<1>. SUFFICES ASSUME ExecInv, [ExecNext]_dpvars PROVE ExecInv'
  OBVIOUS
<1>. USE ExecAssumption
<1>1. CASE UNCHANGED dpvars
  BY <1>1 DEF dpvars, ExecInv, HeapInv, StackInv
<1>2. HeapInv(state, {}) => state.kind = "exec"
  BY DEF HeapInv, IsExec
<1>3. StackInv(state) => state.kind = "jitstack"
  BY DEF StackInv
<1>4. ASSUME NEW size \in ExecSizes, sljit_malloc_exec(size) PROVE ExecInv'
  <2>1. HeapInv(state, {}) /\ size \in Nat /\ ExecSlack \in Nat
    BY <1>3, <1>4, Zenon DEF ExecInv, sljit_malloc_exec, ExecIs, ExecAssumption
  <2>2. HeapInv(state', {})
    BY <1>4, <2>1, MallocStep
  <2>. QED
    BY <2>2 DEF ExecInv
<1>5. ASSUME NEW size \in ExecSizes, NEW base \in ChunkBases, sljit_malloc_exec_chunk(size, base) PROVE ExecInv'
  <2>1. HeapInv(state, {}) /\ size \in Nat /\ base \in Nat /\ ExecSlack \in Nat /\ CHUNK_SIZE \in Nat \ {0}
    BY <1>3, <1>5 DEF ExecInv, sljit_malloc_exec_chunk, ExecIs, ExecAssumption
  <2>2. HeapInv(state', {})
    BY <1>5, <2>1, MallocChunkStep
  <2>. QED
    BY <2>2 DEF ExecInv
<1>6. ASSUME NEW addr, state.kind = "exec", sljit_free_exec(addr) PROVE ExecInv'
  <2>1. HeapInv(state, {})
    BY <1>3, <1>6 DEF ExecInv
  <2>2. HeapInv(state', {})
    BY <1>6, <2>1, FreeStep
  <2>. QED
    BY <2>2 DEF ExecInv
<1>7. ASSUME NEW limit \in 0 .. state.max_limit, state.kind = "jitstack", sljit_stack_resize(limit) PROVE ExecInv'
  <2>1. StackInv(state) /\ limit \in Nat
    BY <1>2, <1>7 DEF ExecInv
  <2>2. StackInv(state')
    BY <1>7, <2>1, ResizeStep
  <2>. QED
    BY <2>2 DEF ExecInv
<1>. QED
  BY <1>1, <1>4, <1>5, <1>6, <1>7 DEF ExecNext

\* The invariant says what ExecMemorySound does.
LEMMA ExecSound == ExecInv => ExecMemorySound
<1>. SUFFICES ASSUME ExecInv PROVE ExecMemorySound
  OBVIOUS
<1>. DEFINE m == state.mem
            C == state.chunks
<1>1. CASE HeapInv(state, {})
  <2>0. /\ Mem(m) /\ Layout(Sz(m), Pv(m), C) /\ Apart(m, {}) /\ FreeList(m, state.free_blocks)
        /\ InUse(m, state.used) /\ state.kind = "exec"
    BY <1>1 DEF HeapInv, Heap, IsExec
  <2>1. \A a \in DOMAIN m : SizeOf(state, a) = Size(m, a)
    BY DEF SizeOf, Size
  <2>2. ASSUME NEW a \in Blocks(state)
        PROVE  LET next == a + SizeOf(state, a)
               IN /\ next \in DOMAIN state.mem /\ state.mem[next].prev_size = SizeOf(state, a)
                  /\ ~(state.mem[a].size = 0 /\ state.mem[next].size = 0)
                  /\ (state.mem[a].prev_size = 0) = (a \in DOMAIN state.chunks)
    <3>1. a \in DOMAIN m /\ m[a].size # 1
      BY DEF Blocks
    <3>2. /\ a + Size(m, a) \in DOMAIN m /\ m[a + Size(m, a)].prev_size = Size(m, a)
      BY <2>0, <3>1, HeapFacts, Zenon DEF Size
    <3>3. ~(m[a].size = 0 /\ m[a + Size(m, a)].size = 0)
      BY <2>0, <3>1 DEF Apart, Size
    <3>4. (m[a].prev_size = 0) = (a \in DOMAIN C)
      <4>1. a \in DOMAIN Sz(m) /\ Pv(m)[a] = m[a].prev_size
        BY <3>1 DEF Sz, Pv
      <4>2. Pv(m)[a] = 0 <=> a \in DOMAIN C
        BY <2>0, <4>1, Zenon DEF Layout, Chunked
      <4>. QED
        BY <4>1, <4>2
    <3>. QED
      BY <2>1, <3>1, <3>2, <3>3, <3>4
  <2>3. ASSUME NEW c \in DOMAIN C PROVE m[c + C[c] - HEADER].size = 1
    <3>1. c + C[c] - 2 \in DOMAIN m /\ Sz(m)[c + C[c] - 2] = 0
      BY <2>0, Zenon DEF Layout, Chunked, Sz
    <3>. QED
      BY <2>0, <3>1, HeapFacts, Zenon DEF HEADER
  <2>4. ASSUME NEW a \in Blocks(state), NEW b \in Blocks(state), a # b
        PROVE  Extent(state, a) \cap Extent(state, b) = {}
    <3>1. a \in DOMAIN m /\ m[a].size # 1 /\ b \in DOMAIN m /\ m[b].size # 1
      BY DEF Blocks
    <3>2. /\ a \in Nat /\ b \in Nat /\ Size(m, a) \in Nat /\ Size(m, b) \in Nat
          /\ Sz(m)[a] = Size(m, a) /\ Sz(m)[b] = Size(m, b)
      BY <2>0, <3>1, HeapFacts, Zenon
    <3>3. a + Size(m, a) <= b \/ b + Size(m, b) <= a
      <4>1. a \in DOMAIN Sz(m) /\ b \in DOMAIN Sz(m)
        BY <3>1 DEF Sz
      <4>2. /\ a < b => a + Sz(m)[a] <= b
            /\ b < a => b + Sz(m)[b] <= a
        BY <2>0, <4>1 DEF Layout, Disjoint
      <4>. QED
        BY <2>4, <3>2, <4>2
    <3>. QED
      BY <2>1, <3>1, <3>2, <3>3 DEF Extent
  <2>5. /\ IsInjective(state.free_blocks)
        /\ Range(state.free_blocks) = {a \in Blocks(state) : state.mem[a].size = 0}
        /\ DOMAIN state.used = Blocks(state) \ Range(state.free_blocks)
    <3>1. IsInjective(state.free_blocks) /\ Range(state.free_blocks) = {a \in DOMAIN m : m[a].size = 0}
      BY <2>0 DEF FreeList
    <3>2. DOMAIN state.used = {a \in DOMAIN m : m[a].size \notin {0, 1}}
      BY <2>0 DEF InUse
    <3>. QED
      BY <3>1, <3>2 DEF Blocks
  <2>6. \A a \in DOMAIN state.used : SizeOf(state, a) >= state.used[a] + HEADER
    BY <2>0 DEF InUse, SizeOf
  <2>7. /\ state.allocated_size = SumFunction([a \in DOMAIN state.used |-> SizeOf(state, a)])
        /\ state.total_size = SumFunction([c \in DOMAIN state.chunks |-> state.chunks[c] - HEADER])
    BY <1>1 DEF HeapInv, Total, Room, SizeOf, Size
  <2>. QED
    BY <2>0, <2>2, <2>3, <2>4, <2>5, <2>6, <2>7, Zenon DEF ExecMemorySound
<1>2. CASE StackInv(state)
  BY <1>2 DEF StackInv, ExecMemorySound
<1>. QED
  BY <1>1, <1>2 DEF ExecInv

\* The allocator of sljitExecAllocator.c and the stack of sljitUtils.c are sound, for every
\* size of chunk and page, every size asked for, every place mmap finds and any number of
\* calls: the blocks tile their chunks, free ones are never neighbours and are in the list
\* once, what a caller has is large enough, and the totals that decide on giving a chunk
\* back are right.
THEOREM ExecMemoryIsSound == ExecSpec => []ExecMemorySound
<1>1. ExecSpec => []ExecInv
  BY ExecInitial, ExecStep, PTL DEF ExecSpec
<1>. QED
  BY <1>1, ExecSound, PTL
=============================================================================
