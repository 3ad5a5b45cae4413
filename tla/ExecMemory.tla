----------------------------- MODULE ExecMemory -----------------------------
(***************************************************************************)
(* The memory of sljit: the allocator of executable memory                 *)
(* (sljitExecAllocator.c) and the stack of compiled code (sljitUtils.c).   *)
(* Sizes are in words of 8 bytes.  The lock of the allocator makes a call  *)
(* one step.                                                               *)
(***************************************************************************)
EXTENDS BrickState, FiniteSets, FiniteSetsExt, ExecHeap

CONSTANTS
  CHUNK_SIZE,      \* words of a chunk, 8192
  ExecSizes,       \* sizes asked for
  ExecSlack,       \* the free words worth a block of their own, 8 (64 bytes)
  ChunkBases,      \* addresses mmap may return
  MaxExecOps,      \* calls of a behaviour
  PageSize         \* words of a page

ASSUME ExecAssumption ==
  /\ CHUNK_SIZE \in Nat \ {0} /\ PageSize \in Nat \ {0}
  /\ ExecSizes \subseteq Nat /\ ExecSlack \in Nat /\ ChunkBases \subseteq Nat

exec_none ==
  [kind |-> "exec", mem |-> <<>>, free_blocks |-> <<>>, allocated_size |-> 0, total_size |-> 0,
   chunks |-> <<>>, used |-> <<>>, ops |-> 0]

ExecIs == Idle /\ state.kind = "exec" /\ state.ops < MaxExecOps

ExecSet(s) == state' = [s EXCEPT !.ops = @ + 1] /\ UNCHANGED <<call, sent>>

ALIGN_SIZE(size) == size + HEADER

\* sljit_malloc_exec finds a free block: the first that is large enough.
sljit_malloc_exec(asked) ==
  LET size == ALIGN_SIZE(Max({asked, FREE_BLOCK}))
      fits == {i \in DOMAIN state.free_blocks : state.mem[state.free_blocks[i]].fsize >= size}
      addr == state.free_blocks[Min(fits)]
      whole == state.mem[addr].fsize
  IN /\ ExecIs /\ fits # {}
     /\ IF whole > size + ExecSlack
        THEN ExecSet([state EXCEPT !.mem = Cut(state, addr, size),
                                   !.allocated_size = @ + size,
                                   !.used = With(@, addr + whole - size, asked)])
        ELSE ExecSet([state EXCEPT !.mem[addr] = Header(whole, @.prev_size, 0),
                                   !.free_blocks = sljit_remove_free_block(@, addr),
                                   !.allocated_size = @ + whole,
                                   !.used = With(@, addr, asked)])

\* alloc_chunk: mmap gives memory that nobody has.  When there is none,
\* sljit_malloc_exec returns NULL and nothing changes.
alloc_chunk(base, bytes) ==
  \A c \in DOMAIN state.chunks : base + bytes <= c \/ c + state.chunks[c] <= base

\* It finds none and takes a chunk of the system.
sljit_malloc_exec_chunk(asked, base) ==
  LET size == ALIGN_SIZE(Max({asked, FREE_BLOCK}))
      bytes == RoundUp(size + HEADER, CHUNK_SIZE)
      room == bytes - HEADER
      s == [state EXCEPT !.chunks = With(@, base, bytes), !.total_size = @ + room, !.used = With(@, base, asked)]
  IN /\ ExecIs
     /\ ~\E i \in DOMAIN state.free_blocks : state.mem[state.free_blocks[i]].fsize >= size
     /\ alloc_chunk(base, bytes)
     /\ IF room > size + ExecSlack
        THEN ExecSet([s EXCEPT !.mem = With(With(With(@, base, Header(size, 0, 0)),
                                                 base + size, Header(0, size, room - size)),
                                            base + room, Header(1, room - size, 0)),
                               !.free_blocks = <<base + size>> \o @, !.allocated_size = @ + size])
        ELSE ExecSet([s EXCEPT !.mem = With(With(@, base, Header(room, 0, 0)), base + room, Header(1, room, 0)),
                               !.allocated_size = @ + room])

sljit_free_exec(addr) ==
  /\ ExecIs /\ addr \in DOMAIN state.used
  /\ LET s == [state EXCEPT !.allocated_size = @ - state.mem[addr].size,
                            !.used = [a \in DOMAIN @ \ {addr} |-> @[a]]]
         before == JoinPrevious(s, addr)
     IN ExecSet(Release(JoinNext(before.s, before.addr), before.addr))

-----------------------------------------------------------------------------
(* sljit_stack: released are the words given back to the system by the last   *)
(* call.                                                                      *)

sljit_allocate_stack(limit, max_limit) ==
  [kind |-> "jitstack", limit |-> limit, max_limit |-> RoundUp(max_limit, PageSize), released |-> {}]

Released(old, new) == RoundUp(new, PageSize) .. RoundUp(old, PageSize) - 1

sljit_stack_resize(new_limit) ==
  /\ Idle /\ state.kind = "jitstack" /\ new_limit <= state.max_limit
  /\ state' = [state EXCEPT !.limit = new_limit,
                            !.released = IF new_limit >= state.limit THEN {} ELSE Released(state.limit, new_limit)]
  /\ UNCHANGED <<call, sent>>

ExecInit ==
  /\ call = NoCall /\ sent = <<>>
  /\ \/ state = exec_none
     \/ \E max \in 1 .. 3 * PageSize : \E limit \in 1 .. max : state = sljit_allocate_stack(limit, max)

ExecNext ==
  \/ \E size \in ExecSizes :
       \/ sljit_malloc_exec(size)
       \/ \E base \in ChunkBases : sljit_malloc_exec_chunk(size, base)
  \/ state.kind = "exec" /\ \E addr \in DOMAIN state.used : sljit_free_exec(addr)
  \/ state.kind = "jitstack" /\ \E limit \in 0 .. state.max_limit : sljit_stack_resize(limit)

-----------------------------------------------------------------------------
(* Properties. *)

\* After any calls of sljit_malloc_exec and sljit_free_exec in any order: the blocks
\* of each chunk follow each other from its start to its terminator, both ways, and
\* never overlap; two free blocks are never neighbours; the list holds the free blocks
\* once each; what a caller got is a block in use that is large enough; and the two
\* totals, on which the release of chunks depends, are what the blocks add up to.  The
\* stack of compiled code gives back whole pages beyond its limit only.
ExecMemorySound ==
  /\ state.kind = "exec" =>
       /\ \A a \in Blocks(state) :
            LET next == a + SizeOf(state, a)
            IN /\ next \in DOMAIN state.mem /\ state.mem[next].prev_size = SizeOf(state, a)
               /\ ~(state.mem[a].size = 0 /\ state.mem[next].size = 0)
               /\ (state.mem[a].prev_size = 0) = (a \in DOMAIN state.chunks)
       /\ \A c \in DOMAIN state.chunks :
            state.mem[c + state.chunks[c] - HEADER].size = 1
       /\ \A a, b \in Blocks(state) : a # b => Extent(state, a) \cap Extent(state, b) = {}
       /\ IsInjective(state.free_blocks)
       /\ Range(state.free_blocks) = {a \in Blocks(state) : state.mem[a].size = 0}
       /\ DOMAIN state.used = Blocks(state) \ Range(state.free_blocks)
       /\ \A a \in DOMAIN state.used : SizeOf(state, a) >= state.used[a] + HEADER
       /\ state.allocated_size = SumFunction([a \in DOMAIN state.used |-> SizeOf(state, a)])
       /\ state.total_size = SumFunction([c \in DOMAIN state.chunks |-> state.chunks[c] - HEADER])
  /\ state.kind = "jitstack" =>
       /\ state.limit <= state.max_limit
       /\ \A w \in state.released : state.limit <= w /\ w < state.max_limit
       /\ Cardinality(state.released) % PageSize = 0
=============================================================================
