------------------------------ MODULE ExecHeap ------------------------------
(***************************************************************************)
(* The heap of sljitExecAllocator.c: what the steps of sljit_malloc_exec   *)
(* and sljit_free_exec do to it.  A heap is a record: mem holds the        *)
(* headers of blocks by their address (fsize is the size of a free block,  *)
(* whose size is 0), free_blocks the list of free ones, chunks the size of *)
(* the chunks by their address.  used is what the callers have: block to   *)
(* size asked for.  Sizes are in words of 8 bytes.                         *)
(***************************************************************************)
EXTENDS Integers, Sequences, Functions

HEADER == 2        \* struct block_header
FREE_BLOCK == 5    \* struct free_block

RoundUp(n, unit) == ((n + unit - 1) \div unit) * unit

Header(size, prev, fsize) == [size |-> size, prev_size |-> prev, fsize |-> fsize]

\* A word is written: f with value at x.
With(f, x, value) == [y \in DOMAIN f \cup {x} |-> IF y = x THEN value ELSE f[y]]

sljit_remove_free_block(list, addr) ==
  LET at == CHOOSE i \in DOMAIN list : list[i] = addr
  IN [i \in 1 .. Len(list) - 1 |-> list[IF i < at THEN i ELSE i + 1]]

\* Mutant: the block after the one that is cut keeps its idea of the one before.
CutStale(s, addr, size) ==
  LET left == s.mem[addr].fsize - size
  IN With(With(s.mem, addr, Header(0, s.mem[addr].prev_size, left)), addr + left, Header(size, left, 0))

\* A block of the given size is cut from the end of a free block.
Cut(s, addr, size) ==
  LET left == s.mem[addr].fsize - size
      end == addr + s.mem[addr].fsize
  IN With(With(With(s.mem, addr, Header(0, s.mem[addr].prev_size, left)),
               addr + left, Header(size, left, 0)),
          end, [s.mem[end] EXCEPT !.prev_size = size])

\* The freed block joins the free block before it, or becomes one.
JoinPrevious(s, addr) ==
  LET h == s.mem[addr]
      prev == addr - h.prev_size
      joined == s.mem[prev].fsize + h.size
  IN IF s.mem[prev].size = 0
     THEN [addr |-> prev,
           s |-> [s EXCEPT !.mem = [a \in DOMAIN @ \ {addr} |->
                                     IF a = prev THEN [@[a] EXCEPT !.fsize = joined]
                                     ELSE IF a = prev + joined THEN [@[a] EXCEPT !.prev_size = joined] ELSE @[a]]]]
     ELSE [addr |-> addr,
           s |-> [s EXCEPT !.mem[addr] = Header(0, h.prev_size, h.size), !.free_blocks = <<addr>> \o @]]

\* It takes the free block after it.
JoinNext(s, addr) ==
  LET next == addr + s.mem[addr].fsize
      joined == s.mem[addr].fsize + s.mem[next].fsize
  IN IF s.mem[next].size # 0 THEN s
     ELSE [s EXCEPT !.mem = [a \in DOMAIN @ \ {next} |->
                               IF a = addr THEN [@[a] EXCEPT !.fsize = joined]
                               ELSE IF a = addr + joined THEN [@[a] EXCEPT !.prev_size = joined] ELSE @[a]],
                    !.free_blocks = sljit_remove_free_block(@, next)]

\* A chunk that is free goes back to the system if enough is left.
Release(s, addr) ==
  LET size == s.mem[addr].fsize
  IN IF /\ s.mem[addr].prev_size = 0
        /\ s.mem[addr + size].size = 1
        /\ s.total_size - size > (s.allocated_size * 3) \div 2
     THEN [s EXCEPT !.mem = [a \in DOMAIN @ \ {addr, addr + size} |-> @[a]],
                    !.free_blocks = sljit_remove_free_block(@, addr),
                    !.total_size = @ - size,
                    !.chunks = [c \in DOMAIN @ \ {addr} |-> @[c]]]
     ELSE s

SizeOf(s, addr) == IF s.mem[addr].size = 0 THEN s.mem[addr].fsize ELSE s.mem[addr].size

\* The words of a block.
Extent(s, addr) == addr .. addr + SizeOf(s, addr) - 1

Blocks(s) == {a \in DOMAIN s.mem : s.mem[a].size # 1}
=============================================================================
