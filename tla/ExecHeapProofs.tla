--------------------------- MODULE ExecHeapProofs ---------------------------
(***************************************************************************)
(* What each step of sljit_malloc_exec and sljit_free_exec does to the     *)
(* headers, the list of free blocks and the blocks of the callers.         *)
(***************************************************************************)
EXTENDS MemoryLemmas

\* sljit_malloc_exec cuts a block from the end of a free block.
LEMMA HeapCut ==
  ASSUME NEW s, NEW C, NEW F, NEW U, Heap(s.mem, C, F, U, {}),
         NEW addr \in Range(F), NEW asked \in Nat, NEW size \in Nat,
         size >= asked + HEADER, size >= FREE_BLOCK + HEADER, s.mem[addr].fsize > size
  PROVE  LET m2 == Cut(s, addr, size)
             new == addr + s.mem[addr].fsize - size
         IN /\ Heap(m2, C, F, With(U, new, asked), {})
            /\ new \notin DOMAIN U /\ Size(m2, new) = size
            /\ SameSizes(m2, s.mem, DOMAIN U)
<1>. DEFINE m == s.mem
            whole == m[addr].fsize
            left == whole - size
            m2 == Cut(s, addr, size)
            new == addr + left
            end == addr + whole
<1>0. addr \in DOMAIN m /\ m[addr].size = 0 /\ Mem(m) /\ Layout(Sz(m), Pv(m), C)
  BY DEF Heap, FreeList
<1>1. /\ whole \in Nat /\ m[addr].prev_size \in Nat /\ addr \in Nat
      /\ end \in DOMAIN m /\ Sz(m)[addr] = whole /\ DOMAIN m \subseteq Nat
  BY <1>0, HeapFacts
<1>2. left \in Nat /\ 0 < left /\ left < whole /\ size # 0 /\ size # 1
  BY <1>1 DEF FREE_BLOCK, HEADER
<1>3. new \notin DOMAIN m /\ new # addr /\ new # end /\ end # addr /\ new \in Nat
  <2>1. DOMAIN Sz(m) = DOMAIN m
    BY DEF Sz
  <2>. QED
    BY <1>0, <1>1, <1>2, <2>1 DEF Layout, Disjoint
<1>4. /\ DOMAIN m2 = DOMAIN m \cup {new}
      /\ m2[addr] = Header(0, m[addr].prev_size, left)
      /\ m2[new] = Header(size, left, 0)
      /\ m2[end] = [m[end] EXCEPT !.prev_size = size]
      /\ \A a \in DOMAIN m : a # addr /\ a # end => m2[a] = m[a]
      /\ m2 = [a \in DOMAIN m2 |-> m2[a]]
  BY <1>0, <1>1, <1>3, Zenon DEF Cut, With
<1>5. m2[end] = Header(m[end].size, size, m[end].fsize)
  <2>1. m[end] = Header(m[end].size, m[end].prev_size, m[end].fsize)
    BY <1>0, <1>1, HeapFacts
  <2>. QED
    BY <1>4, <2>1 DEF Header
<1>6. new = addr + s.mem[addr].fsize - size
  BY <1>1
<1>. HIDE DEF m, m2, left, new, end, whole
<1>7. /\ m2[addr].size = 0 /\ m2[addr].prev_size = m[addr].prev_size /\ m2[addr].fsize = left
      /\ m2[new].size = size /\ m2[new].prev_size = left /\ m2[new].fsize = 0
      /\ m2[end].size = m[end].size /\ m2[end].prev_size = size /\ m2[end].fsize = m[end].fsize
  BY <1>4, <1>5 DEF Header
<1>8. /\ \A a \in DOMAIN m : m2[a].size = m[a].size
      /\ \A a \in DOMAIN m : a # addr => m2[a].fsize = m[a].fsize
      /\ \A a \in DOMAIN m : a # end => m2[a].prev_size = m[a].prev_size
  BY <1>0, <1>4, <1>7, Zenon
<1>9. Mem(m2)
  <2>1. m2[addr] \in Headers /\ m2[new] \in Headers /\ m2[end] \in Headers
    <3>1. m[end].size \in Nat /\ m[end].fsize \in Nat
      BY <1>0, <1>1, HeapFacts
    <3>2. \A x, y, z \in Nat : Header(x, y, z) \in Headers
      BY DEF Header, Headers
    <3>3. m2[addr] \in Headers
      BY <1>1, <1>2, <1>4, <3>2
    <3>4. m2[new] \in Headers
      BY <1>2, <1>4, <3>2
    <3>5. m2[end] \in Headers
      BY <1>5, <3>1, <3>2
    <3>. QED
      BY <3>3, <3>4, <3>5
  <2>2. \A a \in DOMAIN m2 : m2[a] \in Headers
    BY <1>0, <1>4, <2>1 DEF Mem
  <2>3. \A a \in DOMAIN m2 : m2[a].size # 1 => Size(m2, a) # 0
    <3>1. \A a \in DOMAIN m : m[a].size # 1 => Size(m, a) # 0
      BY <1>0 DEF Mem
    <3>. QED
      BY <1>2, <1>4, <1>7, <1>8, <3>1 DEF Size
  <2>. QED
    BY <1>4, <2>2, <2>3 DEF Mem
<1>10. Layout(Sz(m2), Pv(m2), C)
  <2>1. DOMAIN Sz(m) = DOMAIN m /\ DOMAIN Sz(m2) = DOMAIN m \cup {new} /\ DOMAIN Pv(m2) = DOMAIN Sz(m2)
    BY <1>4 DEF Sz, Pv
  <2>2. Sz(m2) = [b \in DOMAIN Sz(m2) |-> Sz(m2)[b]] /\ Pv(m2) = [b \in DOMAIN Pv(m2) |-> Pv(m2)[b]]
    BY DEF Sz, Pv
  <2>3. ASSUME NEW b \in DOMAIN Sz(m2)
        PROVE  /\ Sz(m2)[b] = IF b = addr THEN left ELSE IF b = addr + left THEN Sz(m)[addr] - left ELSE Sz(m)[b]
               /\ Pv(m2)[b] = IF b = addr + left THEN left
                              ELSE IF b = addr + Sz(m)[addr] THEN Sz(m)[addr] - left ELSE Pv(m)[b]
    <3>0. Sz(m)[addr] - left = size /\ addr + left = new /\ addr + Sz(m)[addr] = end
      BY <1>1 DEF left, new, end
    <3>1. Sz(m2)[b] = (IF m2[b].size = 1 THEN 0 ELSE Size(m2, b)) /\ Pv(m2)[b] = m2[b].prev_size /\ b \in DOMAIN m2
      BY <1>4, <2>1 DEF Sz, Pv
    <3>2. CASE b = addr
      BY <1>0, <1>1, <1>3, <1>7, <3>0, <3>1, <3>2 DEF Size, Pv
    <3>3. CASE b = new
      BY <1>2, <1>3, <1>7, <3>0, <3>1, <3>3 DEF Size
    <3>4. CASE b \in DOMAIN m /\ b # addr /\ b # new
      <4>1. Sz(m)[b] = (IF m[b].size = 1 THEN 0 ELSE Size(m, b)) /\ Pv(m)[b] = m[b].prev_size
        BY <3>4 DEF Sz, Pv
      <4>2. m2[b].size = m[b].size /\ m2[b].fsize = m[b].fsize
        BY <1>8, <3>4
      <4>3. m2[b].prev_size = IF b = end THEN size ELSE m[b].prev_size
        BY <1>7, <1>8, <3>4
      <4>. QED
        BY <3>0, <3>1, <3>4, <4>1, <4>2, <4>3 DEF Size
    <3>. QED
      BY <2>1, <3>2, <3>3, <3>4
  <2>4. addr \in DOMAIN Sz(m) /\ left \in Nat /\ 0 < left /\ left < Sz(m)[addr] /\ addr + left = new
    BY <1>0, <1>1, <1>2, <2>1 DEF new
  <2>5. DOMAIN Sz(m2) = DOMAIN Sz(m) \cup {addr + left}
    BY <2>1, <2>4
  <2>. DEFINE z == Sz(m)
              z2 == Sz(m2)
              p == Pv(m)
              p2 == Pv(m2)
  <2>6. Layout(z, p, C)
    BY <1>0
  <2>. HIDE DEF z, z2, p, p2
  <2>7. Layout(z2, p2, C)
    BY <2>1, <2>2, <2>3, <2>4, <2>5, <2>6, LayoutSplit DEF z, z2, p, p2
  <2>. QED
    BY <2>7 DEF z2, p2
<1>11. Apart(m2, {})
  <2>. SUFFICES ASSUME NEW a \in DOMAIN m2, m2[a].size = 0 PROVE m2[a + m2[a].fsize].size # 0
    BY DEF Apart
  <2>1. CASE a = addr
    BY <1>2, <1>7, <2>1 DEF new
  <2>2. CASE a \in DOMAIN m /\ a # addr
    <3>1. m2[a].size = m[a].size /\ m2[a].fsize = m[a].fsize
      BY <1>8, <2>2
    <3>2. a + m[a].fsize \in DOMAIN m
      BY <1>0, <2>2, <3>1, FreeFacts
    <3>3. m[a + m[a].fsize].size # 0
      BY <2>2, <3>1 DEF Heap, Apart, m
    <3>. QED
      BY <1>8, <3>1, <3>2, <3>3
  <2>. QED
    BY <1>2, <1>4, <1>7, <2>1, <2>2
<1>12. FreeList(m2, F)
  <2>1. {a \in DOMAIN m2 : m2[a].size = 0} = {a \in DOMAIN m : m[a].size = 0}
    BY <1>2, <1>4, <1>7, <1>8
  <2>. QED
    BY <2>1 DEF Heap, FreeList, m
<1>13. DOMAIN U = {a \in DOMAIN m : m[a].size \notin {0, 1}} /\ IsFiniteSet(DOMAIN U)
  BY DEF Heap, InUse, m
<1>14. InUse(m2, With(U, new, asked))
  <2>1. DOMAIN With(U, new, asked) = DOMAIN U \cup {new}
    BY DEF With
  <2>2. DOMAIN U \cup {new} = {a \in DOMAIN m2 : m2[a].size \notin {0, 1}}
    BY <1>2, <1>4, <1>7, <1>8, <1>13
  <2>3. IsFiniteSet(DOMAIN U \cup {new})
    BY <1>13, FS_AddElement
  <2>4. ASSUME NEW a \in DOMAIN U \cup {new}
        PROVE  LET V == With(U, new, asked)
               IN /\ V[a] \in Nat
                  /\ m2[a].size >= V[a] + HEADER /\ m2[a].size >= FREE_BLOCK + HEADER
    <3>1. CASE a = new
      BY <1>7, <3>1 DEF With
    <3>2. CASE a # new
      <4>1. With(U, new, asked)[a] = U[a] /\ a \in DOMAIN U /\ a \in DOMAIN m /\ m2[a].size = m[a].size
        BY <1>8, <1>13, <3>2 DEF With
      <4>. QED
        BY <4>1 DEF Heap, InUse, m
    <3>. QED
      BY <3>1, <3>2
  <2>. QED
    BY <2>1, <2>2, <2>3, <2>4 DEF InUse
<1>15. new \notin DOMAIN U
  BY <1>3, <1>13
<1>16. SameSizes(m2, m, DOMAIN U)
  BY <1>0, <1>8, <1>13 DEF Size, SameSizes
<1>17. Size(m2, new) = size
  BY <1>2, <1>7 DEF Size
<1>. QED
  BY <1>6, <1>9, <1>10, <1>11, <1>12, <1>14, <1>15, <1>16, <1>17 DEF Heap, m, m2

\* sljit_malloc_exec takes a chunk of the system: the layout, with one block in it.
LEMMA ChunkLayout ==
  ASSUME NEW m, NEW C, Mem(m), Layout(Sz(m), Pv(m), C),
         NEW base \in Nat, NEW bytes \in Nat, bytes > FREE_BLOCK + HEADER,
         Clear(C, base, bytes)
  PROVE  LET room == bytes - HEADER
             m2 == With(With(m, base, Header(room, 0, 0)), base + room, Header(1, room, 0))
         IN /\ Mem(m2) /\ Layout(Sz(m2), Pv(m2), With(C, base, bytes))
            /\ base \notin DOMAIN C /\ \A a \in DOMAIN m : a + 2 <= base \/ base + bytes <= a
<1>. DEFINE room == bytes - HEADER
            end == base + room
            C2 == With(C, base, bytes)
            m2 == With(With(m, base, Header(room, 0, 0)), base + room, Header(1, room, 0))
<1>0. room \in Nat /\ room > 1 /\ room = bytes - 2 /\ end = base + bytes - 2 /\ end # base /\ bytes > 2
  BY DEF FREE_BLOCK, HEADER
<1>1. /\ DOMAIN m2 = DOMAIN m \cup {base, end} /\ m2 = [a \in DOMAIN m2 |-> m2[a]]
      /\ m2[base] = Header(room, 0, 0) /\ m2[end] = Header(1, room, 0)
      /\ \A a \in DOMAIN m : a # base /\ a # end => m2[a] = m[a]
  BY <1>0 DEF With
<1>. HIDE DEF room, m2, C2, end
<1>3. /\ m2[base].size = room /\ m2[base].prev_size = 0 /\ m2[base].fsize = 0
      /\ m2[end].size = 1 /\ m2[end].prev_size = room /\ m2[end].fsize = 0
  BY <1>1 DEF Header
<1>4. DOMAIN Sz(m) = DOMAIN m /\ DOMAIN Pv(m) = DOMAIN m /\ DOMAIN Sz(m2) = DOMAIN m2 /\ DOMAIN Pv(m2) = DOMAIN m2
  BY DEF Sz, Pv
<1>5. ASSUME NEW b \in DOMAIN m2
      PROVE  /\ Sz(m2)[b] = IF b = base THEN room ELSE IF b = end THEN 0 ELSE Sz(m)[b]
             /\ Pv(m2)[b] = IF b = base THEN 0 ELSE IF b = end THEN room ELSE Pv(m)[b]
  <2>1. Sz(m2)[b] = (IF m2[b].size = 1 THEN 0 ELSE Size(m2, b)) /\ Pv(m2)[b] = m2[b].prev_size
    BY DEF Sz, Pv
  <2>2. CASE b \in {base, end}
    BY <1>0, <1>3, <2>1, <2>2 DEF Size
  <2>3. CASE b \in DOMAIN m /\ b \notin {base, end}
    <3>1. m2[b] = m[b]
      BY <1>1, <2>3
    <3>2. Sz(m)[b] = (IF m[b].size = 1 THEN 0 ELSE Size(m, b)) /\ Pv(m)[b] = m[b].prev_size
      BY <2>3 DEF Sz, Pv
    <3>. QED
      BY <2>1, <2>3, <3>1, <3>2 DEF Size
  <2>. QED
    BY <1>1, <2>2, <2>3
<1>6. Layout(Sz(m2), Pv(m2), C2)
  <2>. DEFINE z == Sz(m)
              z2 == Sz(m2)
              p == Pv(m)
              p2 == Pv(m2)
  <2>1. /\ \A b \in DOMAIN z2 : z2[b] = IF b = base THEN bytes - 2 ELSE IF b = base + bytes - 2 THEN 0 ELSE z[b]
        /\ \A b \in DOMAIN z2 : p2[b] = IF b = base THEN 0 ELSE IF b = base + bytes - 2 THEN bytes - 2 ELSE p[b]
    BY <1>0, <1>4, <1>5
  <2>2. z2 = [b \in DOMAIN z2 |-> z2[b]] /\ p2 = [b \in DOMAIN p2 |-> p2[b]]
    BY DEF Sz, Pv
  <2>3. DOMAIN z2 = DOMAIN z \cup {base, base + bytes - 2} /\ DOMAIN p2 = DOMAIN z2
    BY <1>0, <1>1, <1>4
  <2>4. AddsChunk(z, p, C, base, bytes, z2, p2, C2)
    <3>1. /\ DOMAIN C2 = DOMAIN C \cup {base} /\ C2 = [c \in DOMAIN C2 |-> C2[c]]
          /\ \A c \in DOMAIN C2 : C2[c] = IF c = base THEN bytes ELSE C[c]
      BY DEF With, C2
    <3>. HIDE DEF z, z2, p, p2
    <3>. QED
      BY <2>1, <2>2, <2>3, <3>1 DEF AddsChunk
  <2>5. Layout(z, p, C)
    OBVIOUS
  <2>. HIDE DEF z, z2, p, p2
  <2>6. Layout(z2, p2, C2)
    BY <1>0, <2>4, <2>5, LayoutChunk
  <2>. QED
    BY <2>6 DEF z2, p2, C2
<1>8. \A a \in DOMAIN m : a + 2 <= base \/ base + bytes <= a
  BY <1>4, ChunkApart
<1>9. base \notin DOMAIN C
  <2>1. DOMAIN C \subseteq DOMAIN m /\ DOMAIN m \subseteq Nat
    BY <1>4 DEF Layout, Chunked, Sound
  <2>. QED
    BY <1>0, <1>8, <2>1
<1>7. Mem(m2)
  <2>1. \A x, y, z \in Nat : Header(x, y, z) \in Headers
    BY DEF Header, Headers
  <2>2. m2[base] \in Headers
    BY <1>0, <1>1 DEF Header, Headers
  <2>3. m2[end] \in Headers
    BY <1>0, <1>1, <2>1
  <2>4. \A a \in DOMAIN m2 : m2[a] \in Headers
    BY <1>1, <2>2, <2>3 DEF Mem
  <2>5. \A a \in DOMAIN m2 : m2[a].size # 1 => Size(m2, a) # 0
    <3>1. \A a \in DOMAIN m : m[a].size # 1 => Size(m, a) # 0
      BY DEF Mem
    <3>. QED
      BY <1>0, <1>1, <1>3, <3>1 DEF Size
  <2>. QED
    BY <1>1, <2>4, <2>5 DEF Mem
<1>. QED
  BY <1>6, <1>7, <1>8, <1>9 DEF m2, C2, room

\* ... and with two, the second free.
LEMMA ChunkLayoutCut ==
  ASSUME NEW m, NEW C, Mem(m), Layout(Sz(m), Pv(m), C),
         NEW base \in Nat, NEW bytes \in Nat, NEW size \in Nat,
         size >= FREE_BLOCK + HEADER, bytes > size + HEADER,
         Clear(C, base, bytes)
  PROVE  LET room == bytes - HEADER
             m2 == With(With(With(m, base, Header(size, 0, 0)), base + size, Header(0, size, room - size)),
                        base + room, Header(1, room - size, 0))
         IN /\ Mem(m2) /\ Layout(Sz(m2), Pv(m2), With(C, base, bytes))
            /\ base \notin DOMAIN C /\ \A a \in DOMAIN m : a + 2 <= base \/ base + bytes <= a
<1>. DEFINE room == bytes - HEADER
            end == base + room
            mid == base + size
            C2 == With(C, base, bytes)
            m1 == With(With(m, base, Header(room, 0, 0)), base + room, Header(1, room, 0))
            m2 == With(With(With(m, base, Header(size, 0, 0)), base + size, Header(0, size, room - size)),
                       base + room, Header(1, room - size, 0))
<1>0. /\ room \in Nat /\ room - size \in Nat /\ room - size > 0 /\ room > 1 /\ size > 1
      /\ end # base /\ mid # base /\ mid # end /\ bytes > FREE_BLOCK + HEADER /\ room < bytes
      /\ base + room = end /\ base + size = mid /\ room + HEADER = bytes
  BY DEF FREE_BLOCK, HEADER
<1>1. /\ Mem(m1) /\ Layout(Sz(m1), Pv(m1), C2)
      /\ base \notin DOMAIN C /\ \A a \in DOMAIN m : a + 2 <= base \/ base + bytes <= a
  BY <1>0, ChunkLayout
<1>2. DOMAIN m \subseteq Nat
  BY HeapFacts
<1>3. base \notin DOMAIN m /\ mid \notin DOMAIN m /\ end \notin DOMAIN m
  BY <1>0, <1>1, <1>2
<1>4. /\ DOMAIN m1 = DOMAIN m \cup {base, end}
      /\ m1[base] = Header(room, 0, 0) /\ m1[end] = Header(1, room, 0)
      /\ \A a \in DOMAIN m : m1[a] = m[a]
  BY <1>0, <1>3 DEF With
<1>5. /\ DOMAIN m2 = DOMAIN m \cup {base, mid, end} /\ m2 = [a \in DOMAIN m2 |-> m2[a]]
      /\ m2[base] = Header(size, 0, 0) /\ m2[mid] = Header(0, size, room - size)
      /\ m2[end] = Header(1, room - size, 0)
      /\ \A a \in DOMAIN m : m2[a] = m[a]
  BY <1>0, <1>3 DEF With
<1>. HIDE DEF room, end, mid, C2, m1, m2
<1>6. /\ m1[base].size = room /\ m1[base].prev_size = 0 /\ m1[base].fsize = 0
      /\ m1[end].size = 1 /\ m1[end].prev_size = room /\ m1[end].fsize = 0
  BY <1>4 DEF Header
<1>7. /\ m2[base].size = size /\ m2[base].prev_size = 0 /\ m2[base].fsize = 0
      /\ m2[mid].size = 0 /\ m2[mid].prev_size = size /\ m2[mid].fsize = room - size
      /\ m2[end].size = 1 /\ m2[end].prev_size = room - size /\ m2[end].fsize = 0
  BY <1>5 DEF Header
<1>8. DOMAIN Sz(m1) = DOMAIN m1 /\ DOMAIN Sz(m2) = DOMAIN m2 /\ DOMAIN Pv(m2) = DOMAIN m2
  BY DEF Sz, Pv
<1>9. Sz(m1)[base] = room
  BY <1>0, <1>4, <1>6 DEF Sz, Size
<1>10. ASSUME NEW b \in DOMAIN m2
       PROVE  /\ Sz(m2)[b] = IF b = base THEN size ELSE IF b = mid THEN room - size ELSE Sz(m1)[b]
              /\ Pv(m2)[b] = IF b = mid THEN size ELSE IF b = end THEN room - size ELSE Pv(m1)[b]
  <2>1. Sz(m2)[b] = (IF m2[b].size = 1 THEN 0 ELSE Size(m2, b)) /\ Pv(m2)[b] = m2[b].prev_size
    BY DEF Sz, Pv
  <2>2. b # mid => /\ Sz(m1)[b] = (IF m1[b].size = 1 THEN 0 ELSE Size(m1, b))
                   /\ Pv(m1)[b] = m1[b].prev_size
    BY <1>4, <1>5 DEF Sz, Pv
  <2>3. CASE b = base
    BY <1>0, <1>6, <1>7, <2>1, <2>2, <2>3 DEF Size
  <2>4. CASE b = mid
    BY <1>0, <1>7, <2>1, <2>4 DEF Size
  <2>5. CASE b = end
    BY <1>0, <1>6, <1>7, <2>1, <2>2, <2>5 DEF Size
  <2>6. CASE b \in DOMAIN m
    <3>1. b # base /\ b # mid /\ b # end /\ m2[b] = m[b] /\ m1[b] = m[b]
      BY <1>3, <1>4, <1>5, <2>6
    <3>. QED
      BY <2>1, <2>2, <3>1 DEF Size
  <2>. QED
    BY <1>5, <2>3, <2>4, <2>5, <2>6
<1>11. Layout(Sz(m2), Pv(m2), C2)
  <2>. DEFINE z == Sz(m1)
              z2 == Sz(m2)
              p == Pv(m1)
              p2 == Pv(m2)
  <2>1. z2 = [b \in DOMAIN z2 |-> z2[b]] /\ p2 = [b \in DOMAIN p2 |-> p2[b]]
    BY DEF Sz, Pv
  <2>2. DOMAIN z2 = DOMAIN z \cup {base + size} /\ DOMAIN p2 = DOMAIN z2 /\ base \in DOMAIN z
    BY <1>0, <1>4, <1>5, <1>8
  <2>3. z[base] = room /\ z[base] - size = room - size /\ base + z[base] = end /\ 0 < size /\ size < z[base]
    BY <1>0, <1>9
  <2>4. /\ \A b \in DOMAIN z2 : z2[b] = IF b = base THEN size ELSE IF b = base + size THEN z[base] - size ELSE z[b]
        /\ \A b \in DOMAIN z2 : p2[b] = IF b = base + size THEN size
                                        ELSE IF b = base + z[base] THEN z[base] - size ELSE p[b]
    BY <1>0, <1>8, <1>10, <2>3
  <2>5. Layout(z, p, C2)
    BY <1>1
  <2>. HIDE DEF z, z2, p, p2
  <2>6. Layout(z2, p2, C2)
    BY <2>1, <2>2, <2>3, <2>4, <2>5, LayoutSplit
  <2>. QED
    BY <2>6 DEF z2, p2
<1>12. Mem(m2)
  <2>1. \A x, y, z \in Nat : Header(x, y, z) \in Headers
    BY DEF Header, Headers
  <2>2. m2[base] \in Headers
    BY <1>5 DEF Header, Headers
  <2>3. m2[mid] \in Headers
    BY <1>0, <1>5, <2>1
  <2>4. m2[end] \in Headers
    BY <1>0, <1>5, <2>1
  <2>5. \A a \in DOMAIN m2 : m2[a] \in Headers
    BY <1>5, <2>2, <2>3, <2>4 DEF Mem
  <2>6. \A a \in DOMAIN m2 : m2[a].size # 1 => Size(m2, a) # 0
    <3>1. \A a \in DOMAIN m : m[a].size # 1 => Size(m, a) # 0
      BY DEF Mem
    <3>. QED
      BY <1>0, <1>5, <1>7, <3>1 DEF Size
  <2>. QED
    BY <1>5, <2>5, <2>6 DEF Mem
<1>. QED
  BY <1>1, <1>11, <1>12 DEF m2, C2, room

\* The heap with a new chunk, all of which its first caller has.
LEMMA HeapChunk ==
  ASSUME NEW m, NEW C, NEW F, NEW U, Heap(m, C, F, U, {}),
         NEW base \in Nat, NEW bytes \in Nat, NEW asked \in Nat,
         bytes >= asked + HEADER + HEADER, bytes >= FREE_BLOCK + HEADER + HEADER,
         Clear(C, base, bytes)
  PROVE  LET room == bytes - HEADER
             m2 == With(With(m, base, Header(room, 0, 0)), base + room, Header(1, room, 0))
         IN /\ Heap(m2, With(C, base, bytes), F, With(U, base, asked), {})
            /\ base \notin DOMAIN C /\ base \notin DOMAIN U /\ Size(m2, base) = room
            /\ SameSizes(m2, m, DOMAIN U)
<1>. DEFINE room == bytes - HEADER
            end == base + room
            C2 == With(C, base, bytes)
            m2 == With(With(m, base, Header(room, 0, 0)), base + room, Header(1, room, 0))
<1>0. /\ room \in Nat /\ end # base /\ bytes > FREE_BLOCK + HEADER /\ base + room = end
      /\ room >= asked + HEADER /\ room >= FREE_BLOCK + HEADER /\ room > 1 /\ end < base + bytes
  BY DEF FREE_BLOCK, HEADER
<1>1. /\ Mem(m2) /\ Layout(Sz(m2), Pv(m2), C2)
      /\ base \notin DOMAIN C /\ \A a \in DOMAIN m : a + 2 <= base \/ base + bytes <= a
  BY <1>0, ChunkLayout DEF Heap
<1>2. DOMAIN m \subseteq Nat
  BY HeapFacts DEF Heap
<1>3. base \notin DOMAIN m /\ end \notin DOMAIN m
  BY <1>0, <1>1, <1>2
<1>4. /\ DOMAIN m2 = DOMAIN m \cup {base, end}
      /\ m2[base] = Header(room, 0, 0) /\ m2[end] = Header(1, room, 0)
      /\ \A a \in DOMAIN m : m2[a] = m[a]
  BY <1>0, <1>3 DEF With
<1>. HIDE DEF room, end, C2, m2
<1>5. m2[base].size = room /\ m2[end].size = 1
  BY <1>4 DEF Header
<1>6. Apart(m2, {})
  <2>. SUFFICES ASSUME NEW a \in DOMAIN m2, m2[a].size = 0 PROVE m2[a + m2[a].fsize].size # 0
    BY DEF Apart
  <2>1. a \in DOMAIN m /\ m2[a] = m[a]
    BY <1>0, <1>4, <1>5
  <2>2. a + m[a].fsize \in DOMAIN m
    BY <2>1, HeapFacts DEF Heap
  <2>3. m[a + m[a].fsize].size # 0
    BY <2>1 DEF Heap, Apart
  <2>. QED
    BY <1>4, <2>1, <2>2, <2>3
<1>7. FreeList(m2, F)
  <2>1. {a \in DOMAIN m2 : m2[a].size = 0} = {a \in DOMAIN m : m[a].size = 0}
    BY <1>0, <1>4, <1>5
  <2>. QED
    BY <2>1 DEF Heap, FreeList
<1>8. DOMAIN U = {a \in DOMAIN m : m[a].size \notin {0, 1}} /\ IsFiniteSet(DOMAIN U)
  BY DEF Heap, InUse
<1>9. InUse(m2, With(U, base, asked))
  <2>1. DOMAIN With(U, base, asked) = DOMAIN U \cup {base}
    BY DEF With
  <2>2. DOMAIN U \cup {base} = {a \in DOMAIN m2 : m2[a].size \notin {0, 1}}
    BY <1>0, <1>4, <1>5, <1>8
  <2>3. IsFiniteSet(DOMAIN U \cup {base})
    BY <1>8, FS_AddElement
  <2>4. ASSUME NEW a \in DOMAIN U \cup {base}
        PROVE  LET V == With(U, base, asked)
               IN /\ V[a] \in Nat
                  /\ m2[a].size >= V[a] + HEADER /\ m2[a].size >= FREE_BLOCK + HEADER
    <3>1. CASE a = base
      BY <1>0, <1>5, <3>1 DEF With
    <3>2. CASE a # base
      <4>1. With(U, base, asked)[a] = U[a] /\ a \in DOMAIN U /\ m2[a] = m[a]
        BY <1>4, <1>8, <3>2 DEF With
      <4>. QED
        BY <4>1 DEF Heap, InUse
    <3>. QED
      BY <3>1, <3>2
  <2>. QED
    BY <2>1, <2>2, <2>3, <2>4 DEF InUse
<1>10. base \notin DOMAIN U /\ SameSizes(m2, m, DOMAIN U)
  BY <1>3, <1>4, <1>8 DEF Size, SameSizes
<1>11. Size(m2, base) = room
  BY <1>0, <1>5 DEF Size
<1>. QED
  BY <1>1, <1>6, <1>7, <1>9, <1>10, <1>11 DEF Heap, m2, C2, room

\* The same when the chunk is cut into a block in use and a free one.
LEMMA HeapChunkCut ==
  ASSUME NEW m, NEW C, NEW F, NEW U, Heap(m, C, F, U, {}),
         NEW base \in Nat, NEW bytes \in Nat, NEW asked \in Nat, NEW size \in Nat,
         size >= asked + HEADER, size >= FREE_BLOCK + HEADER, bytes > size + HEADER,
         Clear(C, base, bytes)
  PROVE  LET room == bytes - HEADER
             m2 == With(With(With(m, base, Header(size, 0, 0)), base + size, Header(0, size, room - size)),
                        base + room, Header(1, room - size, 0))
         IN /\ Heap(m2, With(C, base, bytes), <<base + size>> \o F, With(U, base, asked), {})
            /\ base \notin DOMAIN C /\ base \notin DOMAIN U /\ Size(m2, base) = size
            /\ SameSizes(m2, m, DOMAIN U)
<1>. DEFINE room == bytes - HEADER
            end == base + room
            mid == base + size
            C2 == With(C, base, bytes)
            m2 == With(With(With(m, base, Header(size, 0, 0)), base + size, Header(0, size, room - size)),
                       base + room, Header(1, room - size, 0))
<1>0. /\ room \in Nat /\ end # base /\ mid # base /\ mid # end /\ base + room = end /\ base + size = mid
      /\ size > 1 /\ end < base + bytes /\ mid < base + bytes /\ mid \in Nat /\ mid + (room - size) = end
      /\ base <= mid /\ base <= end
  BY DEF FREE_BLOCK, HEADER
<1>1. /\ Mem(m2) /\ Layout(Sz(m2), Pv(m2), C2)
      /\ base \notin DOMAIN C /\ \A a \in DOMAIN m : a + 2 <= base \/ base + bytes <= a
  BY ChunkLayoutCut DEF Heap
<1>2. DOMAIN m \subseteq Nat
  BY HeapFacts DEF Heap
<1>3. base \notin DOMAIN m /\ mid \notin DOMAIN m /\ end \notin DOMAIN m
  BY <1>0, <1>1, <1>2
<1>4. /\ DOMAIN m2 = DOMAIN m \cup {base, mid, end}
      /\ m2[base] = Header(size, 0, 0) /\ m2[mid] = Header(0, size, room - size)
      /\ m2[end] = Header(1, room - size, 0)
      /\ \A a \in DOMAIN m : m2[a] = m[a]
  BY <1>0, <1>3 DEF With
<1>. HIDE DEF room, end, mid, C2, m2
<1>5. m2[base].size = size /\ m2[mid].size = 0 /\ m2[mid].fsize = room - size /\ m2[end].size = 1
  BY <1>4 DEF Header
<1>6. Apart(m2, {})
  <2>. SUFFICES ASSUME NEW a \in DOMAIN m2, m2[a].size = 0 PROVE m2[a + m2[a].fsize].size # 0
    BY DEF Apart
  <2>0. CASE a = mid
    BY <1>0, <1>5, <2>0
  <2>1. CASE a # mid
    <3>1. a \in DOMAIN m /\ m2[a] = m[a]
      BY <1>0, <1>4, <1>5, <2>1
    <3>2. a + m[a].fsize \in DOMAIN m
      BY <3>1, HeapFacts DEF Heap
    <3>3. m[a + m[a].fsize].size # 0
      BY <3>1 DEF Heap, Apart
    <3>. QED
      BY <1>4, <3>1, <3>2, <3>3
  <2>. QED
    BY <2>0, <2>1
<1>7. FreeList(m2, <<base + size>> \o F)
  <2>1. {a \in DOMAIN m2 : m2[a].size = 0} = {a \in DOMAIN m : m[a].size = 0} \cup {mid}
    BY <1>0, <1>4, <1>5
  <2>2. F \in Seq(Nat) /\ IsInjective(F) /\ Range(F) = {a \in DOMAIN m : m[a].size = 0}
    BY DEF Heap, FreeList
  <2>3. mid \in Nat /\ mid \notin Range(F)
    BY <1>0, <1>3, <2>2
  <2>. QED
    BY <1>0, <2>1, <2>2, <2>3, ListAdd DEF FreeList
<1>8. DOMAIN U = {a \in DOMAIN m : m[a].size \notin {0, 1}} /\ IsFiniteSet(DOMAIN U)
  BY DEF Heap, InUse
<1>9. InUse(m2, With(U, base, asked))
  <2>1. DOMAIN With(U, base, asked) = DOMAIN U \cup {base}
    BY DEF With
  <2>2. DOMAIN U \cup {base} = {a \in DOMAIN m2 : m2[a].size \notin {0, 1}}
    BY <1>0, <1>4, <1>5, <1>8
  <2>3. IsFiniteSet(DOMAIN U \cup {base})
    BY <1>8, FS_AddElement
  <2>4. ASSUME NEW a \in DOMAIN U \cup {base}
        PROVE  LET V == With(U, base, asked)
               IN /\ V[a] \in Nat
                  /\ m2[a].size >= V[a] + HEADER /\ m2[a].size >= FREE_BLOCK + HEADER
    <3>1. CASE a = base
      BY <1>5, <3>1 DEF With
    <3>2. CASE a # base
      <4>1. With(U, base, asked)[a] = U[a] /\ a \in DOMAIN U /\ m2[a] = m[a]
        BY <1>4, <1>8, <3>2 DEF With
      <4>. QED
        BY <4>1 DEF Heap, InUse
    <3>. QED
      BY <3>1, <3>2
  <2>. QED
    BY <2>1, <2>2, <2>3, <2>4 DEF InUse
<1>10. base \notin DOMAIN U /\ SameSizes(m2, m, DOMAIN U)
  BY <1>3, <1>4, <1>8 DEF Size, SameSizes
<1>11. Size(m2, base) = size
  BY <1>0, <1>5 DEF Size
<1>. QED
  BY <1>1, <1>6, <1>7, <1>9, <1>10, <1>11 DEF Heap, m2, C2, room

\* There is a free block.
FreeAt(m, addr) == addr \in DOMAIN m /\ m[addr].size = 0

Marked(m, addr) == [m EXCEPT ![addr] = Header(0, m[addr].prev_size, m[addr].size)]

\* What sljit_free_exec knows when the block before the freed one is in use.
Alone(m, C, F, U, addr, G) ==
  /\ Heap(m, C, F, U, {}) /\ addr \in DOMAIN U /\ m[addr - m[addr].prev_size].size # 0
  /\ G = <<addr>> \o F

\* The freed block becomes a free one of its own.
LEMMA HeapMark ==
  ASSUME NEW m, NEW C, NEW F, NEW U, NEW addr, NEW G, Alone(m, C, F, U, addr, G)
  PROVE  LET m2 == Marked(m, addr)
         IN /\ Heap(m2, C, G, Without(U, addr), {addr})
            /\ FreeAt(m2, addr)
            /\ SameSizes(m2, m, DOMAIN U \ {addr})
<1>. USE DEF Alone
<1>. DEFINE h == Header(0, m[addr].prev_size, m[addr].size)
            m2 == [m EXCEPT ![addr] = h]
<1>0. addr \in DOMAIN m /\ m[addr].size \notin {0, 1}
  BY DEF Heap, InUse
<1>1. m[addr].size \in Nat /\ m[addr].prev_size \in Nat /\ addr \in Nat
  BY <1>0, HeapFacts DEF Heap
<1>2. h \in Headers /\ h.prev_size = m[addr].prev_size /\ h.size = 0 /\ h.fsize = m[addr].size
  BY <1>1 DEF Header, Headers
<1>3. Mem(m2) /\ Layout(Sz(m2), Pv(m2), C)
  <2>1. (IF h.size = 0 THEN h.fsize ELSE h.size) = Size(m, addr)
    BY <1>0, <1>2 DEF Size
  <2>. HIDE DEF h
  <2>. QED
    BY <1>0, <1>2, <2>1, LayoutKept DEF Heap
<1>4. DOMAIN m2 = DOMAIN m /\ m2[addr] = h /\ \A a \in DOMAIN m : a # addr => m2[a] = m[a]
  BY <1>0 DEF Heap, Mem
<1>. HIDE DEF m2, h
<1>5. Apart(m2, {addr})
  <2>. SUFFICES ASSUME NEW a \in DOMAIN m, a # addr, m2[a].size = 0 PROVE m2[a + m2[a].fsize].size # 0
    BY <1>4 DEF Apart
  <2>1. m2[a] = m[a]
    BY <1>4
  <2>2. /\ a + m[a].fsize \in DOMAIN m /\ m[a + m[a].fsize].prev_size = m[a].fsize
        /\ a \in Nat /\ m[a].fsize \in Nat
    BY <2>1, HeapFacts DEF Heap
  <2>3. m[a + m[a].fsize].size # 0
    BY <2>1 DEF Heap, Apart
  <2>4. a + m[a].fsize # addr
    <3>. SUFFICES ASSUME a + m[a].fsize = addr PROVE FALSE
      OBVIOUS
    <3>1. addr - m[addr].prev_size = a
      BY <2>2
    <3>. QED
      BY <2>1, <3>1
  <2>. QED
    BY <1>4, <2>1, <2>2, <2>3, <2>4
<1>6. FreeList(m2, <<addr>> \o F)
  <2>1. {a \in DOMAIN m2 : m2[a].size = 0} = {a \in DOMAIN m : m[a].size = 0} \cup {addr}
    BY <1>0, <1>2, <1>4
  <2>2. F \in Seq(Nat) /\ IsInjective(F) /\ Range(F) = {a \in DOMAIN m : m[a].size = 0}
    BY DEF Heap, FreeList
  <2>3. addr \notin Range(F)
    BY <1>0, <2>2
  <2>. QED
    BY <1>1, <2>1, <2>2, <2>3, ListAdd DEF FreeList
<1>7. InUse(m2, Without(U, addr))
  <2>1. DOMAIN Without(U, addr) = DOMAIN U \ {addr} /\ \A a \in DOMAIN U \ {addr} : Without(U, addr)[a] = U[a]
    BY DEF Without
  <2>2. DOMAIN U \ {addr} = {a \in DOMAIN m2 : m2[a].size \notin {0, 1}}
    BY <1>0, <1>2, <1>4 DEF Heap, InUse
  <2>3. IsFiniteSet(DOMAIN U \ {addr})
    BY FS_RemoveElement DEF Heap, InUse
  <2>4. \A a \in DOMAIN U \ {addr} : m2[a] = m[a]
    BY <1>4 DEF Heap, InUse
  <2>. QED
    BY <2>1, <2>2, <2>3, <2>4 DEF Heap, InUse
<1>8. SameSizes(m2, m, DOMAIN U \ {addr})
  BY <1>4 DEF Heap, InUse, Size, SameSizes
<1>. QED
  BY <1>0, <1>2, <1>3, <1>4, <1>5, <1>6, <1>7, <1>8 DEF Heap, m2, h, Marked, FreeAt

\* The memory when the free block at addr takes the block next to it.
Merged(m, addr, next, joined) ==
  [a \in DOMAIN m \ {next} |->
     IF a = addr THEN [m[a] EXCEPT !.fsize = joined]
     ELSE IF a = addr + joined THEN [m[a] EXCEPT !.prev_size = joined] ELSE m[a]]

\* Its headers are those of m, but for the size of the block at addr.
Kept(m2, m, addr) ==
  \A a \in DOMAIN m2 : m2[a].size = m[a].size /\ (a # addr => m2[a].fsize = m[a].fsize)

\* What becomes of the two blocks.
Joined(m2, m, C, addr, next, joined) ==
  /\ Mem(m2) /\ Layout(Sz(m2), Pv(m2), C) /\ DOMAIN m2 = DOMAIN m \ {next}
  /\ next \in DOMAIN m /\ next # addr /\ addr + joined = next + Size(m, next)
  /\ m2[addr].fsize = joined /\ Kept(m2, m, addr)

\* What is known of them.
Joinable(m, C, addr, next, joined) ==
  /\ Mem(m) /\ Layout(Sz(m), Pv(m), C) /\ addr \in DOMAIN m /\ m[addr].size = 0
  /\ next = addr + m[addr].fsize /\ m[next].size # 1 /\ joined = m[addr].fsize + Size(m, next)

\* The blocks of the chunks still follow each other when two of them are one.
LEMMA MergedLayout ==
  ASSUME NEW m, NEW C, NEW addr, NEW next, NEW joined, Joinable(m, C, addr, next, joined)
  PROVE  Joined(Merged(m, addr, next, joined), m, C, addr, next, joined)
<1>. USE DEF Joinable
<1>. DEFINE m2 == Merged(m, addr, next, joined)
            end == addr + joined
<1>0. /\ addr \in Nat /\ m[addr].fsize \in Nat /\ m[addr].fsize > 0 /\ next \in DOMAIN m
      /\ Sz(m)[addr] = m[addr].fsize
  BY FreeFacts
<1>1. /\ next \in Nat /\ Size(m, next) \in Nat /\ Size(m, next) > 0 /\ Sz(m)[next] = Size(m, next)
      /\ Sz(m)[next] # 0
  BY <1>0, HeapFacts
<1>2. joined \in Nat /\ end = next + Size(m, next) /\ end # addr /\ end # next /\ next # addr /\ joined > 0
  BY <1>0, <1>1
<1>3. end \in DOMAIN m
  <2>1. DOMAIN Sz(m) = DOMAIN m
    BY DEF Sz
  <2>. QED
    BY <1>0, <1>1, <1>2, <2>1 DEF Layout, Forth
<1>4. /\ DOMAIN m2 = DOMAIN m \ {next} /\ m2 = [a \in DOMAIN m2 |-> m2[a]]
      /\ m2[addr] = [m[addr] EXCEPT !.fsize = joined]
      /\ m2[end] = [m[end] EXCEPT !.prev_size = joined]
      /\ \A a \in DOMAIN m2 : a # addr /\ a # end => m2[a] = m[a]
  BY <1>2, <1>3 DEF Merged
<1>5. m[addr] = Header(0, m[addr].prev_size, m[addr].fsize) /\ m[end] = Header(m[end].size, m[end].prev_size, m[end].fsize)
  BY <1>3, HeapFacts
<1>. HIDE DEF m2, end
<1>6. m2[addr] = Header(0, m[addr].prev_size, joined) /\ m2[end] = Header(m[end].size, joined, m[end].fsize)
  BY <1>4, <1>5 DEF Header
<1>7. /\ m2[addr].size = 0 /\ m2[addr].prev_size = m[addr].prev_size /\ m2[addr].fsize = joined
      /\ m2[end].size = m[end].size /\ m2[end].prev_size = joined /\ m2[end].fsize = m[end].fsize
  <2>1. \A size, prev, fsize : /\ Header(size, prev, fsize).size = size
                               /\ Header(size, prev, fsize).prev_size = prev
                               /\ Header(size, prev, fsize).fsize = fsize
    BY DEF Header
  <2>. HIDE DEF Joinable
  <2>. QED
    BY ONLY <1>6, <2>1
<1>8. /\ \A a \in DOMAIN m2 : m2[a].size = m[a].size /\ (a # addr => m2[a].fsize = m[a].fsize)
      /\ \A a \in DOMAIN m2 : m2[a].prev_size = IF a = end THEN joined ELSE m[a].prev_size
  <2>. SUFFICES ASSUME NEW a \in DOMAIN m2
                PROVE  /\ m2[a].size = m[a].size /\ (a # addr => m2[a].fsize = m[a].fsize)
                       /\ m2[a].prev_size = IF a = end THEN joined ELSE m[a].prev_size
    OBVIOUS
  <2>1. CASE a = addr
    BY <1>2, <1>7, <2>1
  <2>2. CASE a = end
    BY <1>2, <1>7, <2>2
  <2>3. CASE a # addr /\ a # end
    BY <1>4, <2>3
  <2>. QED
    BY <2>1, <2>2, <2>3
<1>9. Mem(m2)
  <2>1. m2[addr] \in Headers
    <3>1. m[addr].prev_size \in Nat
      BY HeapFacts
    <3>. QED
      BY <1>2, <1>6, <3>1 DEF Header, Headers
  <2>2. m2[end] \in Headers
    <3>1. m[end].size \in Nat /\ m[end].fsize \in Nat
      BY <1>3, HeapFacts
    <3>. QED
      BY <1>2, <1>6, <3>1 DEF Header, Headers
  <2>3. \A a \in DOMAIN m2 : m2[a] \in Headers
    BY <1>4, <2>1, <2>2 DEF Mem
  <2>4. \A a \in DOMAIN m2 : m2[a].size # 1 => Size(m2, a) # 0
    <3>1. \A a \in DOMAIN m : m[a].size # 1 => Size(m, a) # 0
      BY DEF Mem
    <3>2. ASSUME NEW a \in DOMAIN m2, m2[a].size # 1 PROVE Size(m2, a) # 0
      <4>1. CASE a = addr
        <5>1. Size(m2, addr) = m2[addr].fsize
          BY <1>7, Zenon DEF Size
        <5>2. joined # 0
          BY <1>2
        <5>. QED
          BY <1>7, <4>1, <5>1, <5>2, Zenon
      <4>2. CASE a # addr
        <5>1. a \in DOMAIN m /\ Size(m2, a) = Size(m, a) /\ m[a].size # 1
          BY <1>4, <1>8, <3>2, <4>2 DEF Size
        <5>. QED
          BY <3>1, <5>1
      <4>. QED
        BY <4>1, <4>2
    <3>. QED
      BY <3>2
  <2>. QED
    BY <1>4, <2>3, <2>4 DEF Mem
<1>10. Layout(Sz(m2), Pv(m2), C)
  <2>. DEFINE z == Sz(m)
              z2 == Sz(m2)
              p == Pv(m)
              p2 == Pv(m2)
  <2>1. DOMAIN z = DOMAIN m /\ DOMAIN z2 = DOMAIN m2 /\ DOMAIN p2 = DOMAIN m2
    BY DEF Sz, Pv
  <2>2. z[addr] = m[addr].fsize /\ z[next] = Size(m, next) /\ addr + z[addr] = next
        /\ z[addr] + z[next] = joined /\ addr + z[addr] + z[next] = end /\ z[next] # 0
    BY <1>0, <1>1, <1>2 DEF end
  <2>3. z2 = [b \in DOMAIN z2 |-> z2[b]] /\ p2 = [b \in DOMAIN p2 |-> p2[b]]
    BY DEF Sz, Pv
  <2>4. ASSUME NEW b \in DOMAIN m2
        PROVE  z2[b] = (IF b = addr THEN joined ELSE z[b]) /\ p2[b] = (IF b = end THEN joined ELSE p[b])
    <3>1. /\ z2[b] = (IF m2[b].size = 1 THEN 0 ELSE Size(m2, b)) /\ p2[b] = m2[b].prev_size
          /\ z[b] = (IF m[b].size = 1 THEN 0 ELSE Size(m, b)) /\ p[b] = m[b].prev_size
      BY <1>4 DEF Sz, Pv
    <3>2. m2[b].size = m[b].size /\ (b # addr => m2[b].fsize = m[b].fsize)
      BY <1>8
    <3>3. m2[b].prev_size = IF b = end THEN joined ELSE m[b].prev_size
      BY <1>8
    <3>4. z2[b] = IF b = addr THEN joined ELSE z[b]
      BY <1>7, <3>1, <3>2 DEF Size
    <3>. QED
      BY <3>1, <3>3, <3>4
  <2>5. /\ \A b \in DOMAIN z2 : z2[b] = IF b = addr THEN z[addr] + z[addr + z[addr]] ELSE z[b]
        /\ \A b \in DOMAIN z2 : p2[b] = IF b = addr + z[addr] + z[addr + z[addr]]
                                        THEN z[addr] + z[addr + z[addr]] ELSE p[b]
    BY <2>1, <2>2, <2>4
  <2>6. /\ addr \in DOMAIN z /\ z[addr] # 0 /\ z[addr + z[addr]] # 0
        /\ DOMAIN z2 = DOMAIN z \ {addr + z[addr]} /\ DOMAIN p2 = DOMAIN z2
    BY <1>0, <1>4, <2>1, <2>2
  <2>7. Layout(z, p, C)
    OBVIOUS
  <2>. HIDE DEF z, z2, p, p2
  <2>8. Layout(z2, p2, C)
    BY <2>3, <2>5, <2>6, <2>7, LayoutMerge
  <2>. QED
    BY <2>8 DEF z2, p2
<1>11. Kept(m2, m, addr)
  BY <1>8 DEF Kept
<1>. QED
  BY <1>0, <1>2, <1>4, <1>7, <1>9, <1>10, <1>11 DEF Joined, m2, end

\* What is before a block in use, if it is free.
LEMMA FreeBefore ==
  ASSUME NEW m, NEW C, NEW F, NEW U, Heap(m, C, F, U, {}), NEW addr \in DOMAIN U,
         m[addr - m[addr].prev_size].size = 0
  PROVE  LET prev == addr - m[addr].prev_size
         IN prev \in DOMAIN m /\ addr = prev + m[prev].fsize
<1>. DEFINE prev == addr - m[addr].prev_size
<1>0. Mem(m) /\ Layout(Sz(m), Pv(m), C) /\ addr \in DOMAIN m /\ m[addr].size \notin {0, 1}
  BY DEF Heap, InUse
<1>1. addr \in Nat /\ m[addr].prev_size \in Nat
  BY <1>0, HeapFacts
<1>2. m[addr].prev_size # 0
  BY <1>0, <1>1
<1>3. prev \in DOMAIN m /\ Sz(m)[prev] = m[addr].prev_size
  <2>1. DOMAIN Sz(m) = DOMAIN m /\ Pv(m)[addr] = m[addr].prev_size
    BY <1>0 DEF Sz, Pv
  <2>. QED
    BY <1>0, <1>2, <2>1 DEF Layout, Back
<1>4. Sz(m)[prev] = m[prev].fsize
  BY <1>0, <1>3, FreeFacts
<1>. QED
  BY <1>1, <1>3, <1>4

\* What sljit_free_exec knows when the block before the freed one is free.
AfterFree(m, C, F, U, prev, addr, joined) ==
  /\ Heap(m, C, F, U, {}) /\ prev \in DOMAIN m /\ m[prev].size = 0
  /\ addr \in DOMAIN U /\ addr = prev + m[prev].fsize /\ joined = m[prev].fsize + m[addr].size

\* The freed block joins the free block before it.
LEMMA HeapJoinPrevious ==
  ASSUME NEW m, NEW C, NEW F, NEW U, NEW prev, NEW addr, NEW joined,
         AfterFree(m, C, F, U, prev, addr, joined)
  PROVE  LET m2 == Merged(m, prev, addr, joined)
         IN /\ Heap(m2, C, F, Without(U, addr), {prev})
            /\ FreeAt(m2, prev)
            /\ SameSizes(m2, m, DOMAIN U \ {addr})
<1>. USE DEF AfterFree
<1>. DEFINE m2 == Merged(m, prev, addr, joined)
<1>0. /\ Mem(m) /\ Layout(Sz(m), Pv(m), C) /\ addr \in DOMAIN m /\ m[addr].size \notin {0, 1}
      /\ DOMAIN U = {a \in DOMAIN m : m[a].size \notin {0, 1}} /\ IsFiniteSet(DOMAIN U)
  BY DEF Heap, InUse
<1>1. addr \in Nat /\ prev \in Nat /\ m[prev].fsize \in Nat /\ m[addr].prev_size = m[prev].fsize
  BY <1>0, FreeFacts
<1>4. Size(m, addr) = m[addr].size
  BY <1>0 DEF Size
<1>5. /\ Mem(m2) /\ Layout(Sz(m2), Pv(m2), C) /\ DOMAIN m2 = DOMAIN m \ {addr}
      /\ addr # prev /\ prev + joined = addr + m[addr].size
      /\ m2[prev].fsize = joined
      /\ \A a \in DOMAIN m2 : m2[a].size = m[a].size /\ (a # prev => m2[a].fsize = m[a].fsize)
  <2>1. Joinable(m, C, prev, addr, joined)
    BY <1>0, <1>4 DEF Joinable
  <2>2. Joined(m2, m, C, prev, addr, joined)
    BY <2>1, MergedLayout
  <2>. QED
    BY <1>4, <2>2 DEF Joined, Kept
<1>. HIDE DEF m2
<1>6. Apart(m2, {prev})
  <2>. SUFFICES ASSUME NEW a \in DOMAIN m2, a # prev, m2[a].size = 0 PROVE m2[a + m2[a].fsize].size # 0
    BY DEF Apart
  <2>1. a \in DOMAIN m /\ m[a].size = 0 /\ m2[a].fsize = m[a].fsize
    BY <1>5
  <2>2. /\ a + m[a].fsize \in DOMAIN m /\ m[a + m[a].fsize].prev_size = m[a].fsize
        /\ a \in Nat /\ m[a].fsize \in Nat
    BY <1>0, <2>1, FreeFacts, Zenon
  <2>3. m[a + m[a].fsize].size # 0
    BY <2>1 DEF Heap, Apart
  <2>4. a + m[a].fsize # addr
    BY <1>1, <2>2
  <2>. QED
    BY <1>5, <2>1, <2>2, <2>3, <2>4
<1>7. FreeList(m2, F)
  <2>1. {a \in DOMAIN m2 : m2[a].size = 0} = {a \in DOMAIN m : m[a].size = 0}
    BY <1>0, <1>5
  <2>. QED
    BY <2>1 DEF Heap, FreeList
<1>8. InUse(m2, Without(U, addr))
  <2>1. DOMAIN Without(U, addr) = DOMAIN U \ {addr} /\ \A a \in DOMAIN U \ {addr} : Without(U, addr)[a] = U[a]
    BY DEF Without
  <2>2. DOMAIN U \ {addr} = {a \in DOMAIN m2 : m2[a].size \notin {0, 1}}
    BY <1>0, <1>5
  <2>3. IsFiniteSet(DOMAIN U \ {addr})
    BY <1>0, FS_RemoveElement
  <2>4. \A a \in DOMAIN U \ {addr} : m2[a].size = m[a].size
    BY <1>0, <1>5
  <2>. QED
    BY <2>1, <2>2, <2>3, <2>4, Zenon DEF Heap, InUse
<1>9. SameSizes(m2, m, DOMAIN U \ {addr})
  BY <1>0, <1>5 DEF Size, SameSizes
<1>. QED
  BY <1>5, <1>6, <1>7, <1>8, <1>9, Zenon DEF Heap, m2, FreeAt

\* What it knows when the block after is free.
BeforeFree(m, C, F, U, addr, next, joined) ==
  /\ Heap(m, C, F, U, {addr}) /\ addr \in DOMAIN m /\ m[addr].size = 0
  /\ next = addr + m[addr].fsize /\ m[next].size = 0 /\ joined = m[addr].fsize + m[next].fsize

\* A free block takes the free block after it.
LEMMA HeapJoinNext ==
  ASSUME NEW m, NEW C, NEW F, NEW U, NEW addr, NEW next, NEW joined,
         BeforeFree(m, C, F, U, addr, next, joined)
  PROVE  LET m2 == Merged(m, addr, next, joined)
         IN /\ Heap(m2, C, sljit_remove_free_block(F, next), U, {})
            /\ FreeAt(m2, addr)
            /\ SameSizes(m2, m, DOMAIN U)
<1>. USE DEF BeforeFree
<1>. DEFINE m2 == Merged(m, addr, next, joined)
<1>0. /\ Mem(m) /\ Layout(Sz(m), Pv(m), C)
      /\ DOMAIN U = {a \in DOMAIN m : m[a].size \notin {0, 1}} /\ IsFiniteSet(DOMAIN U)
  BY DEF Heap, InUse
<1>1. Size(m, next) = m[next].fsize
  BY DEF Size
<1>2. /\ Mem(m2) /\ Layout(Sz(m2), Pv(m2), C) /\ DOMAIN m2 = DOMAIN m \ {next}
      /\ next \in DOMAIN m /\ next # addr /\ addr + joined = next + m[next].fsize
      /\ m2[addr].fsize = joined
      /\ \A a \in DOMAIN m2 : m2[a].size = m[a].size /\ (a # addr => m2[a].fsize = m[a].fsize)
  <2>1. m[next].size # 1 /\ joined = m[addr].fsize + Size(m, next)
    BY <1>1
  <2>2. Joinable(m, C, addr, next, joined)
    BY <1>0, <2>1 DEF Joinable
  <2>3. Joined(m2, m, C, addr, next, joined)
    BY <2>2, MergedLayout
  <2>. QED
    BY <1>1, <2>3, Zenon DEF Joined, Kept
<1>. HIDE DEF m2
<1>3. addr \in Nat /\ m[addr].fsize \in Nat /\ m[next].prev_size = m[addr].fsize
  BY <1>0, FreeFacts
<1>4. Apart(m2, {})
  <2>. SUFFICES ASSUME NEW a \in DOMAIN m2, m2[a].size = 0 PROVE m2[a + m2[a].fsize].size # 0
    BY DEF Apart
  <2>1. CASE a = addr
    <3>1. next \in Nat /\ m[next].fsize \in Nat /\ m[next].fsize > 0 /\ next + m[next].fsize \in DOMAIN m
      BY <1>0, <1>2, FreeFacts
    <3>2. m[next + m[next].fsize].size # 0
      BY <1>2 DEF Heap, Apart
    <3>3. next + m[next].fsize # next
      BY <3>1
    <3>. QED
      BY <1>2, <2>1, <3>1, <3>2, <3>3
  <2>2. CASE a # addr
    <3>1. a \in DOMAIN m /\ m[a].size = 0 /\ m2[a].fsize = m[a].fsize
      BY <1>2, <2>2
    <3>2. /\ a + m[a].fsize \in DOMAIN m /\ m[a + m[a].fsize].prev_size = m[a].fsize
          /\ a \in Nat /\ m[a].fsize \in Nat
      BY <1>0, <3>1, FreeFacts
    <3>3. m[a + m[a].fsize].size # 0
      BY <2>2, <3>1 DEF Heap, Apart
    <3>4. a + m[a].fsize # next
      BY <3>3
    <3>. QED
      BY <1>2, <3>1, <3>2, <3>3, <3>4
  <2>. QED
    BY <2>1, <2>2
<1>5. FreeList(m2, sljit_remove_free_block(F, next))
  <2>1. {a \in DOMAIN m2 : m2[a].size = 0} = {a \in DOMAIN m : m[a].size = 0} \ {next}
    BY <1>2
  <2>2. F \in Seq(Nat) /\ IsInjective(F) /\ Range(F) = {a \in DOMAIN m : m[a].size = 0}
    BY DEF Heap, FreeList
  <2>3. next \in Range(F)
    BY <1>2, <2>2
  <2>. QED
    BY <2>1, <2>2, <2>3, ListRemove DEF FreeList
<1>6. InUse(m2, U)
  <2>1. DOMAIN U = {a \in DOMAIN m2 : m2[a].size \notin {0, 1}}
    BY <1>0, <1>2
  <2>2. \A a \in DOMAIN U : m2[a].size = m[a].size
    BY <1>2, <2>1
  <2>. QED
    BY <2>1, <2>2 DEF Heap, InUse
<1>7. SameSizes(m2, m, DOMAIN U)
  BY <1>0, <1>2 DEF Size, SameSizes
<1>. QED
  BY <1>2, <1>4, <1>5, <1>6, <1>7, Zenon DEF Heap, m2, FreeAt

\* A block without a free one after it.
LEMMA HeapNoNext ==
  ASSUME NEW m, NEW C, NEW F, NEW U, NEW addr, Heap(m, C, F, U, {addr}),
         m[addr + m[addr].fsize].size # 0
  PROVE  Heap(m, C, F, U, {})
BY DEF Heap, Apart

\* What sljit_free_exec knows when it gives a chunk back.
FreeChunk(m, C, F, U, addr, end) ==
  /\ Heap(m, C, F, U, {}) /\ addr \in DOMAIN m /\ m[addr].size = 0 /\ m[addr].prev_size = 0
  /\ end = addr + m[addr].fsize /\ m[end].size = 1

Dropped(m, addr, end) == [a \in DOMAIN m \ {addr, end} |-> m[a]]

\* A chunk that is free goes back to the system: all of it, as its mmap asked for.
LEMMA HeapRelease ==
  ASSUME NEW m, NEW C, NEW F, NEW U, NEW addr, NEW end, FreeChunk(m, C, F, U, addr, end)
  PROVE  LET m2 == Dropped(m, addr, end)
         IN /\ Heap(m2, Without(C, addr), sljit_remove_free_block(F, addr), U, {})
            /\ addr \in DOMAIN C /\ C[addr] = m[addr].fsize + HEADER
            /\ SameSizes(m2, m, DOMAIN U)
<1>. USE DEF FreeChunk
<1>. DEFINE m2 == [a \in DOMAIN m \ {addr, end} |-> m[a]]
<1>0. /\ Mem(m) /\ Layout(Sz(m), Pv(m), C)
      /\ DOMAIN U = {a \in DOMAIN m : m[a].size \notin {0, 1}} /\ IsFiniteSet(DOMAIN U)
      /\ DOMAIN Sz(m) = DOMAIN m /\ DOMAIN Pv(m) = DOMAIN m
  BY DEF Heap, InUse, Sz, Pv
<1>1. /\ addr \in Nat /\ m[addr].fsize \in Nat /\ m[addr].fsize > 0 /\ end \in DOMAIN m
      /\ Sz(m)[addr] = m[addr].fsize /\ Pv(m)[addr] = 0
  BY <1>0, FreeFacts
<1>2. addr \in DOMAIN C /\ addr + Sz(m)[addr] = end /\ Sz(m)[addr + Sz(m)[addr]] = 0
  <2>1. addr \in DOMAIN C
    BY <1>0, <1>1 DEF Layout, Chunked
  <2>2. Sz(m)[end] = 0
    BY <1>1 DEF Sz
  <2>. QED
    BY <1>1, <2>1, <2>2
<1>3. C[addr] = m[addr].fsize + HEADER
  BY <1>0, <1>1, <1>2, ChunkEnd DEF HEADER
<1>4. DOMAIN m2 = DOMAIN m \ {addr, end} /\ \A a \in DOMAIN m2 : m2[a] = m[a] /\ Size(m2, a) = Size(m, a)
  BY DEF Size
<1>5. Layout(Sz(m2), Pv(m2), Without(C, addr))
  <2>1. Sz(m2) = [b \in DOMAIN Sz(m) \ {addr, addr + Sz(m)[addr]} |-> Sz(m)[b]]
    BY <1>0, <1>2, <1>4, Zenon DEF Sz
  <2>2. Pv(m2) = [b \in DOMAIN Sz(m) \ {addr, addr + Sz(m)[addr]} |-> Pv(m)[b]]
    BY <1>0, <1>2, <1>4 DEF Pv
  <2>. HIDE DEF m2
  <2>. QED
    BY <1>0, <1>2, <2>1, <2>2, LayoutDrop DEF Without
<1>6. Mem(m2)
  <2>1. m2 \in [DOMAIN m2 -> Headers]
    BY <1>0 DEF Mem
  <2>. HIDE DEF m2
  <2>. QED
    BY <1>0, <1>4, <2>1 DEF Mem
<1>. HIDE DEF m2
<1>7. Apart(m2, {})
  <2>. SUFFICES ASSUME NEW a \in DOMAIN m2, m2[a].size = 0 PROVE m2[a + m2[a].fsize].size # 0
    BY DEF Apart
  <2>1. a \in DOMAIN m /\ a # addr /\ a # end /\ m2[a] = m[a]
    BY <1>4
  <2>2. /\ a + m[a].fsize \in DOMAIN m /\ m[a + m[a].fsize].prev_size = m[a].fsize
        /\ a \in Nat /\ m[a].fsize \in Nat /\ m[a].fsize > 0
    BY <1>0, <2>1, FreeFacts
  <2>3. m[a + m[a].fsize].size # 0
    BY <2>1 DEF Heap, Apart
  <2>4. a + m[a].fsize # addr
    BY <2>2
  <2>5. a + m[a].fsize # end
    <3>1. m[end].prev_size = m[addr].fsize
      BY <1>0, FreeFacts
    <3>. QED
      BY <1>1, <2>1, <2>2, <3>1
  <2>6. a + m[a].fsize \in DOMAIN m2
    BY <1>4, <2>2, <2>4, <2>5
  <2>. QED
    BY <1>4, <2>1, <2>3, <2>6
<1>8. FreeList(m2, sljit_remove_free_block(F, addr))
  <2>1. {a \in DOMAIN m2 : m2[a].size = 0} = {a \in DOMAIN m : m[a].size = 0} \ {addr}
    BY <1>4
  <2>2. F \in Seq(Nat) /\ IsInjective(F) /\ Range(F) = {a \in DOMAIN m : m[a].size = 0}
    BY DEF Heap, FreeList
  <2>3. addr \in Range(F)
    BY <2>2
  <2>. QED
    BY <2>1, <2>2, <2>3, ListRemove DEF FreeList
<1>9. InUse(m2, U)
  <2>1. DOMAIN U = {a \in DOMAIN m2 : m2[a].size \notin {0, 1}}
    BY <1>0, <1>4
  <2>2. \A a \in DOMAIN U : m2[a].size = m[a].size
    BY <1>4, <2>1
  <2>. QED
    BY <2>1, <2>2 DEF Heap, InUse
<1>10. SameSizes(m2, m, DOMAIN U)
  <2>1. DOMAIN U \subseteq DOMAIN m2
    BY <1>0, <1>4
  <2>. QED
    BY <1>4, <2>1 DEF SameSizes
<1>. QED
  BY <1>2, <1>3, <1>5, <1>6, <1>7, <1>8, <1>9, <1>10 DEF Heap, m2, Dropped
=============================================================================
