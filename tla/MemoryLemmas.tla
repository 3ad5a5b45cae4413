---------------------------- MODULE MemoryLemmas ----------------------------
(***************************************************************************)
(* Lemmas about the operators of ExecHeap: sums over functions, the list   *)
(* of free blocks, rounding, and the layout of blocks in chunks.           *)
(***************************************************************************)
EXTENDS ExecHeap, FiniteSets, WellFoundedInduction, FiniteSetTheorems, TLAPS

-----------------------------------------------------------------------------
(* Induction over the natural numbers, for a set of them, and sums.           *)

\* A set of naturals that is not empty has a least element.
LEMMA LeastNatural ==
  ASSUME NEW T \in SUBSET Nat, T # {}
  PROVE  \E x \in T : \A y \in T : x <= y
<1>. DEFINE less == {ss \in Nat \X Nat : ss[1] < ss[2]}
<1>1. IsWellFoundedOn(less, Nat)
  BY NatLessThanWellFounded DEF OpToRel
<1>2. PICK x \in T : \A y \in T : <<y, x>> \notin less
  <2>. HIDE DEF IsWellFoundedOn, less
  <2>. QED
    BY <1>1, WFMin, Zenon
<1>3. \A y \in Nat : y < x => <<y, x>> \in less
  BY <1>2
<1>. HIDE DEF less
<1>4. ASSUME NEW y \in T PROVE x <= y
  <2>1. ~(y < x)
    BY <1>2, <1>3, Zenon
  <2>. QED
    BY <2>1, <1>2
<1>. QED
  BY <1>4

\* Induction over the naturals, for a set.
LEMMA SetInduction ==
  ASSUME NEW S, 0 \in S, \A n \in Nat : n \in S => n + 1 \in S
  PROVE  Nat \subseteq S
<1>. SUFFICES ASSUME Nat \ S # {} PROVE FALSE
  OBVIOUS
<1>1. PICK x \in Nat \ S : \A y \in Nat \ S : x <= y
  BY LeastNatural, Zenon
<1>2. x - 1 \in Nat
  BY <1>1
<1>3. x - 1 \in S
  BY <1>1, <1>2
<1>. QED
  BY <1>1, <1>2, <1>3

\* What the folds of the community modules take from a set, and how they add.
Element(s) == CHOOSE x \in s : TRUE

Step(f, sum, s) == IF s = {} THEN 0 ELSE f[Element(s)] + sum[s \ {Element(s)}]

Sums(f, D) == CHOOSE sum : sum = [s \in SUBSET D |-> Step(f, sum, s)]

\* SumFunction is the sum over the whole domain.
LEMMA TotalSums == ASSUME NEW f PROVE SumFunction(f) = Sums(f, DOMAIN f)[DOMAIN f]
  BY DEF SumFunction, SumFunctionOnSet, FoldFunctionOnSet, MapThenFoldSet, Sums, Step, Element

\* A subset of a finite set, and what is left of it without one element.
LEMMA Parts ==
  ASSUME NEW D, IsFiniteSet(D), NEW s, s \subseteq D
  PROVE  /\ IsFiniteSet(s) /\ Cardinality(s) \in Nat /\ (Cardinality(s) = 0) = (s = {})
         /\ \A x \in s : s \ {x} \subseteq D /\ Cardinality(s \ {x}) = Cardinality(s) - 1
         /\ s # {} => Element(s) \in s
BY FS_Subset, FS_CardinalityType, FS_EmptySet, FS_RemoveElement DEF Element

\* A set of n + 1 elements without one of them has n.
LEMMA OneLess ==
  ASSUME NEW D, IsFiniteSet(D), NEW s, s \subseteq D, NEW n \in Nat, Cardinality(s) = n + 1
  PROVE  \A x \in s : Cardinality(s \ {x}) = n
<1>1. IsFiniteSet(s)
  BY FS_Subset
<1>2. \A x \in s : Cardinality(s \ {x}) = Cardinality(s) - 1
  BY <1>1, FS_RemoveElement, Zenon
<1>. QED
  BY <1>2

\* The sums of a function over the subsets of a finite set exist.
LEMMA SumsDef ==
  ASSUME NEW f, NEW D, IsFiniteSet(D), NEW t, t \subseteq D
  PROVE  Sums(f, D)[t] = Step(f, Sums(f, D), t)
<1>. DEFINE Upto(n) == {s \in SUBSET D : Cardinality(s) <= n}
            Good(g, n) == g = [s \in Upto(n) |-> Step(f, g, s)]
            Has == {n \in Nat : \E g : Good(g, n)}
<1>1. 0 \in Has
  <2>1. ASSUME NEW s \in Upto(0) PROVE s = {}
    <3>1. Cardinality(s) \in Nat /\ (Cardinality(s) = 0) = (s = {})
      BY Parts, Zenon
    <3>. QED
      BY <3>1
  <2>2. [s \in Upto(0) |-> 0] = [s \in Upto(0) |-> Step(f, [r \in Upto(0) |-> 0], s)]
    <3>. HIDE DEF Upto
    <3>. QED
      BY <2>1, Zenon DEF Step
  <2>. QED
    BY <2>2, Zenon
<1>2. ASSUME NEW n \in Nat, n \in Has PROVE n + 1 \in Has
  <2>1. PICK g : Good(g, n)
    BY <1>2
  <2>. DEFINE h == [s \in Upto(n + 1) |-> Step(f, g, s)]
  <2>2. ASSUME NEW s \in Upto(n) PROVE h[s] = g[s]
    <3>1. s \in Upto(n + 1)
      <4>1. Cardinality(s) \in Nat
        BY Parts, Zenon
      <4>. QED
        BY <4>1
    <3>2. g[s] = Step(f, g, s)
      BY <2>1, Zenon
    <3>. QED
      BY <3>1, <3>2
  <2>3. ASSUME NEW s \in Upto(n + 1) PROVE Step(f, g, s) = Step(f, h, s)
    <3>1. CASE s = {}
      BY <3>1 DEF Step
    <3>2. CASE s # {}
      <4>1. s \ {Element(s)} \in Upto(n)
        <5>1. s \ {Element(s)} \subseteq D /\ Cardinality(s \ {Element(s)}) = Cardinality(s) - 1
          BY Parts, <3>2, Zenon
        <5>2. Cardinality(s) \in Nat
          BY Parts, Zenon
        <5>. QED
          BY <5>1, <5>2
      <4>2. g[s \ {Element(s)}] = h[s \ {Element(s)}]
        BY <2>2, <4>1
      <4>. QED
        BY <3>2, <4>2, Zenon DEF Step
    <3>. QED
      BY <3>1, <3>2
  <2>4. h = [s \in Upto(n + 1) |-> Step(f, h, s)]
    <3>. HIDE DEF Upto
    <3>. QED
      BY <2>3
  <2>. HIDE DEF h
  <2>5. \E r : Good(r, n + 1)
    BY <2>4, Zenon
  <2>6. n + 1 \in Nat
    OBVIOUS
  <2>. QED
    BY <2>5, <2>6, Zenon
<1>3. Cardinality(D) \in Nat /\ Cardinality(D) \in Has
  <2>1. Cardinality(D) \in Nat
    BY FS_CardinalityType
  <2>. HIDE DEF Has
  <2>. QED
    BY <1>1, <1>2, <2>1, SetInduction
<1>4. ASSUME NEW s, s \subseteq D PROVE s \in Upto(Cardinality(D))
  BY <1>4, FS_Subset
<1>5. PICK g : Good(g, Cardinality(D))
  BY <1>3, Zenon
<1>6. Upto(Cardinality(D)) = SUBSET D
  BY <1>4
<1>7. g = [s \in SUBSET D |-> Step(f, g, s)]
  <2>. HIDE DEF Upto
  <2>. QED
    BY <1>5, <1>6, Zenon
<1>8. Sums(f, D) = [s \in SUBSET D |-> Step(f, Sums(f, D), s)]
  BY <1>7, Zenon DEF Sums
<1>9. t \in SUBSET D
  OBVIOUS
<1>. QED
  BY <1>8, <1>9, Zenon

\* ... and are integers that do not depend on where the set and the function go on.
LEMMA SumsAgree ==
  ASSUME NEW D, IsFiniteSet(D), NEW E, IsFiniteSet(E), NEW f, NEW g,
         NEW T, T \subseteq D, T \subseteq E,
         \A x \in T : f[x] = g[x] /\ f[x] \in Int
  PROVE  Sums(f, D)[T] = Sums(g, E)[T] /\ Sums(f, D)[T] \in Int
<1>. DEFINE Same(s) == Sums(f, D)[s] = Sums(g, E)[s] /\ Sums(f, D)[s] \in Int
            Has == {n \in Nat : \A s \in SUBSET T : Cardinality(s) = n => Same(s)}
<1>0. IsFiniteSet(T)
  BY FS_Subset
<1>1. ASSUME NEW s, s \subseteq T
      PROVE  Sums(f, D)[s] = Step(f, Sums(f, D), s) /\ Sums(g, E)[s] = Step(g, Sums(g, E), s)
  <2>1. s \subseteq D /\ s \subseteq E
    BY <1>1
  <2>. QED
    BY <2>1, SumsDef, Zenon
<1>2. 0 \in Has
  <2>. SUFFICES ASSUME NEW s \in SUBSET T, Cardinality(s) = 0 PROVE Same(s)
    OBVIOUS
  <2>1. s = {}
    <3>1. (Cardinality(s) = 0) = (s = {})
      BY <1>0, Parts, Zenon
    <3>. QED
      BY <3>1
  <2>2. Sums(f, D)[s] = 0 /\ Sums(g, E)[s] = 0
    <3>1. s \subseteq T
      OBVIOUS
    <3>. QED
      BY <1>1, <2>1, <3>1, Zenon DEF Step
  <2>. QED
    BY <2>2
<1>3. ASSUME NEW n \in Nat, n \in Has PROVE n + 1 \in Has
  <2>. SUFFICES ASSUME NEW s \in SUBSET T, Cardinality(s) = n + 1 PROVE Same(s)
    OBVIOUS
  <2>0. s \subseteq T
    OBVIOUS
  <2>1. s # {}
    <3>1. (Cardinality(s) = 0) = (s = {})
      BY <1>0, <2>0, Parts, Zenon
    <3>. QED
      BY <3>1
  <2>2. Element(s) \in s /\ s \ {Element(s)} \in SUBSET T /\ Cardinality(s \ {Element(s)}) = n
    <3>1. Element(s) \in s
      BY <1>0, <2>0, <2>1, Parts, Zenon
    <3>2. \A w \in s : Cardinality(s \ {w}) = n
      BY <1>0, <2>0, OneLess, Zenon
    <3>. QED
      BY <3>1, <3>2
  <2>3. Same(s \ {Element(s)})
    <3>. HIDE DEF Same
    <3>. QED
      BY <1>3, <2>2, Zenon
  <2>4. f[Element(s)] = g[Element(s)] /\ f[Element(s)] \in Int
    BY <2>0, <2>2
  <2>5. /\ Sums(f, D)[s] = f[Element(s)] + Sums(f, D)[s \ {Element(s)}]
        /\ Sums(g, E)[s] = g[Element(s)] + Sums(g, E)[s \ {Element(s)}]
    BY <1>1, <2>0, <2>1, Zenon DEF Step
  <2>. QED
    BY <2>3, <2>4, <2>5
<1>4. Cardinality(T) \in Nat /\ Cardinality(T) \in Has
  <2>1. Cardinality(T) \in Nat
    BY <1>0, FS_CardinalityType
  <2>. HIDE DEF Has
  <2>. QED
    BY <1>2, <1>3, <2>1, SetInduction
<1>. QED
  BY <1>4

\* Element element may be added last.
LEMMA SumsRemove ==
  ASSUME NEW D, IsFiniteSet(D), NEW f, \A x \in D : f[x] \in Int,
         NEW T, T \subseteq D, NEW y \in T
  PROVE  Sums(f, D)[T] = f[y] + Sums(f, D)[T \ {y}]
<1>. DEFINE Splits(s, x) == Sums(f, D)[s] = f[x] + Sums(f, D)[s \ {x}]
            Has == {n \in Nat : \A s \in SUBSET D : Cardinality(s) = n => \A x \in s : Splits(s, x)}
<1>0. ASSUME NEW s, s \subseteq D PROVE Sums(f, D)[s] \in Int
  <2>1. \A x \in s : f[x] = f[x] /\ f[x] \in Int
    BY <1>0
  <2>. QED
    BY <1>0, <2>1, SumsAgree, Zenon
<1>1. 0 \in Has
  <2>. SUFFICES ASSUME NEW s \in SUBSET D, Cardinality(s) = 0, NEW x \in s PROVE FALSE
    OBVIOUS
  <2>1. (Cardinality(s) = 0) = (s = {})
    BY Parts, Zenon
  <2>. QED
    BY <2>1
<1>2. ASSUME NEW n \in Nat, n \in Has PROVE n + 1 \in Has
  <2>. SUFFICES ASSUME NEW s \in SUBSET D, Cardinality(s) = n + 1, NEW x \in s PROVE Splits(s, x)
    OBVIOUS
  <2>. DEFINE z == Element(s)
  <2>0. s \subseteq D /\ s # {}
    OBVIOUS
  <2>1. z \in s
    BY <2>0, Parts, Zenon
  <2>2. Splits(s, z)
    <3>1. Sums(f, D)[s] = Step(f, Sums(f, D), s)
      BY <2>0, SumsDef, Zenon
    <3>. QED
      BY <2>0, <3>1, Zenon DEF Step
  <2>. HIDE DEF z
  <2>3. CASE z = x
    BY <2>2, <2>3
  <2>4. CASE z # x
    <3>0. \A w \in s : s \ {w} \in SUBSET D /\ Cardinality(s \ {w}) = n
      <4>1. \A w \in s : Cardinality(s \ {w}) = n
        BY <2>0, OneLess, Zenon
      <4>. QED
        BY <4>1
    <3>1. x \in s \ {z} /\ z \in s \ {x}
      BY <2>1, <2>4
    <3>2. Splits(s \ {z}, x) /\ Splits(s \ {x}, z)
      <4>. HIDE DEF Splits
      <4>. QED
        BY <1>2, <2>1, <3>0, <3>1, Zenon
    <3>3. (s \ {z}) \ {x} = (s \ {x}) \ {z}
      OBVIOUS
    <3>4. f[x] \in Int /\ f[z] \in Int
      BY <2>1
    <3>5. Sums(f, D)[(s \ {x}) \ {z}] \in Int
      <4>1. (s \ {x}) \ {z} \subseteq D
        OBVIOUS
      <4>. QED
        BY <1>0, <4>1, Zenon
    <3>6. Sums(f, D)[s] = f[z] + (f[x] + Sums(f, D)[(s \ {x}) \ {z}])
      BY <2>2, <3>2, <3>3, Zenon
    <3>7. Sums(f, D)[s \ {x}] = f[z] + Sums(f, D)[(s \ {x}) \ {z}]
      BY <3>2, Zenon
    <3>. QED
      BY <3>4, <3>5, <3>6, <3>7
  <2>. QED
    BY <2>3, <2>4
<1>3. Cardinality(T) \in Nat /\ Cardinality(T) \in Has
  <2>1. Cardinality(T) \in Nat
    BY FS_Subset, FS_CardinalityType
  <2>. HIDE DEF Has
  <2>. QED
    BY <1>1, <1>2, <2>1, SetInduction
<1>. QED
  BY <1>3

\* What the sum of a function does when the function gets one more argument.
LEMMA SumAdd ==
  ASSUME NEW D, IsFiniteSet(D), NEW f \in [D -> Int], NEW x, x \notin D,
         NEW g \in [D \cup {x} -> Int], \A y \in D : g[y] = f[y]
  PROVE  SumFunction(g) = SumFunction(f) + g[x] /\ SumFunction(f) \in Int
<1>. DEFINE E == D \cup {x}
<1>1. IsFiniteSet(E) /\ E \ {x} = D /\ DOMAIN g = E /\ DOMAIN f = D
  BY FS_AddElement
<1>2. Sums(g, E)[E] = g[x] + Sums(g, E)[E \ {x}]
  BY <1>1, SumsRemove
<1>3. Sums(f, D)[D] = Sums(g, E)[D] /\ Sums(f, D)[D] \in Int
  BY <1>1, SumsAgree
<1>4. SumFunction(g) = Sums(g, E)[E] /\ SumFunction(f) = Sums(f, D)[D]
  BY <1>1, TotalSums, Zenon
<1>5. g[x] \in Int
  OBVIOUS
<1>6. SumFunction(g) = g[x] + SumFunction(f)
  BY <1>1, <1>2, <1>3, <1>4, Zenon
<1>. QED
  BY <1>3, <1>4, <1>5, <1>6

\* The sum of the empty function.
LEMMA SumEmpty == ASSUME NEW f, DOMAIN f = {} PROVE SumFunction(f) = 0
<1>1. SumFunction(f) = Sums(f, {})[{}]
  BY TotalSums
<1>2. Sums(f, {})[{}] = Step(f, Sums(f, {}), {})
  BY SumsDef, FS_EmptySet
<1>. QED
  BY <1>1, <1>2 DEF Step

-----------------------------------------------------------------------------
(* The blocks of the chunks.  sz is the size of the block at an address, 0    *)
(* for the terminator of a chunk, pv the size of the block before it, ch the  *)
(* size of the chunk that starts at an address.                               *)

Sound(sz, pv) ==
  /\ DOMAIN sz \subseteq Nat /\ sz \in [DOMAIN sz -> Nat] /\ pv \in [DOMAIN sz -> Nat]

Forth(sz, pv) == \A a \in DOMAIN sz : sz[a] # 0 => a + sz[a] \in DOMAIN sz /\ pv[a + sz[a]] = sz[a]

Back(sz, pv) == \A a \in DOMAIN sz : pv[a] # 0 => a - pv[a] \in DOMAIN sz /\ sz[a - pv[a]] = pv[a]

Disjoint(sz) == \A a, b \in DOMAIN sz : a < b => a + sz[a] <= b

Chunked(sz, pv, ch) ==
  /\ DOMAIN ch \subseteq DOMAIN sz /\ ch \in [DOMAIN ch -> Nat]
  /\ \A a \in DOMAIN sz : pv[a] = 0 <=> a \in DOMAIN ch
  /\ \A c \in DOMAIN ch : sz[c] # 0 /\ c + ch[c] - 2 \in DOMAIN sz /\ sz[c + ch[c] - 2] = 0
  /\ \A a \in DOMAIN sz : \E c \in DOMAIN ch :
       c <= a /\ a + 2 <= c + ch[c] /\ (sz[a] = 0 => a + 2 = c + ch[c])
  /\ \A c, d \in DOMAIN ch : c # d => c + ch[c] <= d \/ d + ch[d] <= c

Layout(sz, pv, ch) ==
  Sound(sz, pv) /\ Forth(sz, pv) /\ Back(sz, pv) /\ Disjoint(sz) /\ Chunked(sz, pv, ch)

\* A block is cut in two.
LEMMA LayoutSplit ==
  ASSUME NEW sz, NEW pv, NEW ch, Layout(sz, pv, ch),
         NEW a \in DOMAIN sz, NEW l \in Nat, 0 < l, l < sz[a],
         NEW sz2, NEW pv2, DOMAIN sz2 = DOMAIN sz \cup {a + l}, DOMAIN pv2 = DOMAIN sz2,
         sz2 = [b \in DOMAIN sz2 |-> sz2[b]], pv2 = [b \in DOMAIN pv2 |-> pv2[b]],
         \A b \in DOMAIN sz2 : sz2[b] = IF b = a THEN l ELSE IF b = a + l THEN sz[a] - l ELSE sz[b],
         \A b \in DOMAIN sz2 : pv2[b] = IF b = a + l THEN l ELSE IF b = a + sz[a] THEN sz[a] - l ELSE pv[b]
  PROVE  Layout(sz2, pv2, ch) /\ a + l \notin DOMAIN sz
<1>. DEFINE D == DOMAIN sz
            n == a + l
            e == a + sz[a]
<1>0. /\ D \subseteq Nat /\ \A b \in D : sz[b] \in Nat /\ pv[b] \in Nat
      /\ a \in D /\ a \in Nat /\ sz[a] \in Nat
  BY DEF Layout, Sound
<1>1. n \notin D
  BY <1>0 DEF Layout, Disjoint
<1>2. e \in D /\ pv[e] = sz[a] /\ e # a /\ e # n
  BY <1>0 DEF Layout, Forth
<1>3. ASSUME NEW b \in D, b # a, sz[b] # 0 PROVE b + sz[b] # e
  BY <1>0, <1>2, <1>3 DEF Layout, Forth
<1>4. Sound(sz2, pv2)
  BY <1>0 DEF Sound
<1>5. Forth(sz2, pv2)
  BY <1>0, <1>1, <1>2, <1>3 DEF Forth, Layout
<1>6. Back(sz2, pv2)
  <2>. SUFFICES ASSUME NEW b \in DOMAIN sz2, pv2[b] # 0
                PROVE  b - pv2[b] \in DOMAIN sz2 /\ sz2[b - pv2[b]] = pv2[b]
    BY DEF Back
  <2>1. CASE b = n
    BY <1>0, <1>1, <2>1
  <2>2. CASE b = e
    BY <1>0, <1>1, <1>2, <2>2
  <2>3. CASE b \in D /\ b # e
    BY <1>0, <1>1, <1>2, <2>3 DEF Layout, Back
  <2>. QED
    BY <2>1, <2>2, <2>3
<1>7. Disjoint(sz2)
  <2>. SUFFICES ASSUME NEW b \in DOMAIN sz2, NEW d \in DOMAIN sz2, b < d PROVE b + sz2[b] <= d
    BY DEF Disjoint
  <2>1. CASE b \in D /\ d \in D
    BY <1>0, <1>1, <2>1 DEF Layout, Disjoint
  <2>2. CASE b = n
    BY <1>0, <1>1, <2>2 DEF Layout, Disjoint
  <2>3. CASE b \in D /\ d = n
    BY <1>0, <1>1, <2>3 DEF Layout, Disjoint
  <2>. QED
    BY <2>1, <2>2, <2>3
<1>8. Chunked(sz2, pv2, ch)
  <2>1. n \notin DOMAIN ch /\ e \notin DOMAIN ch
    BY <1>0, <1>1, <1>2 DEF Layout, Chunked
  <2>2. \A b \in DOMAIN sz2 : pv2[b] = 0 <=> b \in DOMAIN ch
    BY <1>0, <1>1, <1>2, <2>1 DEF Layout, Chunked
  <2>3. \A c \in DOMAIN ch : sz2[c] # 0 /\ c + ch[c] - 2 \in DOMAIN sz2 /\ sz2[c + ch[c] - 2] = 0
    BY <1>0, <1>1, <2>1 DEF Layout, Chunked
  <2>4. ASSUME NEW b \in DOMAIN sz2
        PROVE  \E c \in DOMAIN ch : c <= b /\ b + 2 <= c + ch[c] /\ (sz2[b] = 0 => b + 2 = c + ch[c])
    <3>1. CASE b \in D
      <4>1. sz2[b] = 0 => sz[b] = 0
        BY <1>0, <1>1, <3>1
      <4>. QED
        BY <3>1, <4>1 DEF Layout, Chunked
    <3>2. CASE b = n
      <4>1. PICK c \in DOMAIN ch : c <= a /\ a + 2 <= c + ch[c]
        BY <1>0 DEF Layout, Chunked
      <4>2. c \in D /\ c \in Nat /\ ch[c] \in Nat
        BY <1>0 DEF Layout, Chunked
      <4>3. c + ch[c] - 2 \in D /\ sz[c + ch[c] - 2] = 0
        BY DEF Layout, Chunked
      <4>4. a < c + ch[c] - 2
        BY <1>0, <4>1, <4>2, <4>3
      <4>5. a + sz[a] <= c + ch[c] - 2
        BY <1>0, <4>3, <4>4 DEF Layout, Disjoint
      <4>6. sz2[b] # 0
        BY <1>0, <1>1, <3>2
      <4>. QED
        BY <1>0, <3>2, <4>1, <4>2, <4>5, <4>6
    <3>. QED
      BY <3>1, <3>2
  <2>5. /\ DOMAIN ch \subseteq DOMAIN sz2 /\ ch \in [DOMAIN ch -> Nat]
        /\ \A c, d \in DOMAIN ch : c # d => c + ch[c] <= d \/ d + ch[d] <= c
    BY DEF Layout, Chunked
  <2>. QED
    BY <2>2, <2>3, <2>4, <2>5 DEF Chunked
<1>. QED
  BY <1>1, <1>4, <1>5, <1>6, <1>7, <1>8 DEF Layout

\* A block takes the one after it.
LEMMA LayoutMerge ==
  ASSUME NEW sz, NEW pv, NEW ch, Layout(sz, pv, ch),
         NEW a \in DOMAIN sz, sz[a] # 0, sz[a + sz[a]] # 0,
         NEW sz2, NEW pv2, DOMAIN sz2 = DOMAIN sz \ {a + sz[a]}, DOMAIN pv2 = DOMAIN sz2,
         sz2 = [b \in DOMAIN sz2 |-> sz2[b]], pv2 = [b \in DOMAIN pv2 |-> pv2[b]],
         \A b \in DOMAIN sz2 : sz2[b] = IF b = a THEN sz[a] + sz[a + sz[a]] ELSE sz[b],
         \A b \in DOMAIN sz2 : pv2[b] = IF b = a + sz[a] + sz[a + sz[a]] THEN sz[a] + sz[a + sz[a]] ELSE pv[b]
  PROVE  Layout(sz2, pv2, ch)
<1>. DEFINE D == DOMAIN sz
            n == a + sz[a]
            e == n + sz[n]
<1>0. /\ D \subseteq Nat /\ \A b \in D : sz[b] \in Nat /\ pv[b] \in Nat
      /\ a \in D /\ a \in Nat /\ sz[a] \in Nat
  BY DEF Layout, Sound
<1>1. n \in D /\ pv[n] = sz[a] /\ n \in Nat /\ sz[n] \in Nat /\ n # a
  BY <1>0 DEF Layout, Forth
<1>2. e \in D /\ pv[e] = sz[n] /\ e # a /\ e # n
  BY <1>0, <1>1 DEF Layout, Forth
<1>3. ASSUME NEW b \in D, sz[b] # 0 PROVE (b # n => b + sz[b] # e) /\ (b # a => b + sz[b] # n)
  <2>1. b + sz[b] \in D /\ pv[b + sz[b]] = sz[b]
    BY <1>3 DEF Layout, Forth
  <2>. QED
    BY <1>0, <1>1, <1>2, <2>1
<1>4. Sound(sz2, pv2)
  <2>1. a \in DOMAIN sz2 /\ \A b \in DOMAIN sz2 : sz2[b] \in Nat /\ pv2[b] \in Nat
    BY <1>0, <1>1
  <2>. QED
    BY <1>0, <2>1 DEF Sound
<1>5. Forth(sz2, pv2)
  <2>. SUFFICES ASSUME NEW b \in DOMAIN sz2, sz2[b] # 0
                PROVE  b + sz2[b] \in DOMAIN sz2 /\ pv2[b + sz2[b]] = sz2[b]
    BY DEF Forth
  <2>1. CASE b = a
    BY <1>0, <1>1, <1>2, <2>1
  <2>2. CASE b # a
    <3>1. sz2[b] = sz[b] /\ b \in D /\ b # n
      BY <2>2
    <3>2. b + sz[b] \in D /\ pv[b + sz[b]] = sz[b]
      BY <3>1 DEF Layout, Forth
    <3>3. b + sz[b] # n /\ b + sz[b] # e
      BY <1>3, <2>2, <3>1
    <3>. QED
      BY <3>1, <3>2, <3>3
  <2>. QED
    BY <2>1, <2>2
<1>6. Back(sz2, pv2)
  <2>. SUFFICES ASSUME NEW b \in DOMAIN sz2, pv2[b] # 0
                PROVE  b - pv2[b] \in DOMAIN sz2 /\ sz2[b - pv2[b]] = pv2[b]
    BY DEF Back
  <2>1. CASE b = e
    BY <1>0, <1>1, <1>2, <2>1
  <2>2. CASE b # e
    <3>1. pv2[b] = pv[b] /\ b \in D /\ b # n
      BY <2>2
    <3>2. b - pv[b] \in D /\ sz[b - pv[b]] = pv[b]
      BY <3>1 DEF Layout, Back
    <3>3. b - pv[b] # n /\ b - pv[b] # a
      BY <1>0, <1>1, <2>2, <3>1, <3>2
    <3>. QED
      BY <3>1, <3>2, <3>3
  <2>. QED
    BY <2>1, <2>2
<1>7. Disjoint(sz2)
  <2>. SUFFICES ASSUME NEW b \in DOMAIN sz2, NEW d \in DOMAIN sz2, b < d PROVE b + sz2[b] <= d
    BY DEF Disjoint
  <2>1. b \in D /\ d \in D /\ b + sz[b] <= d
    BY DEF Layout, Disjoint
  <2>2. CASE b = a
    <3>1. n < d
      BY <1>0, <1>1, <2>1, <2>2
    <3>2. n + sz[n] <= d
      BY <1>1, <2>1, <3>1 DEF Layout, Disjoint
    <3>. QED
      BY <1>0, <1>1, <2>2, <3>2
  <2>. QED
    BY <2>1, <2>2
<1>8. Chunked(sz2, pv2, ch)
  <2>1. n \notin DOMAIN ch /\ e \notin DOMAIN ch
    BY <1>0, <1>1, <1>2 DEF Layout, Chunked
  <2>2. \A b \in DOMAIN sz2 : pv2[b] = 0 <=> b \in DOMAIN ch
    BY <1>0, <1>1, <1>2, <2>1 DEF Layout, Chunked
  <2>3. \A c \in DOMAIN ch : sz2[c] # 0 /\ c + ch[c] - 2 \in DOMAIN sz2 /\ sz2[c + ch[c] - 2] = 0
    BY <1>0, <1>1, <2>1 DEF Layout, Chunked
  <2>4. ASSUME NEW b \in DOMAIN sz2
        PROVE  \E c \in DOMAIN ch : c <= b /\ b + 2 <= c + ch[c] /\ (sz2[b] = 0 => b + 2 = c + ch[c])
    <3>1. sz2[b] = 0 => sz[b] = 0
      BY <1>0, <1>1
    <3>. QED
      BY <3>1 DEF Layout, Chunked
  <2>5. /\ DOMAIN ch \subseteq DOMAIN sz2 /\ ch \in [DOMAIN ch -> Nat]
        /\ \A c, d \in DOMAIN ch : c # d => c + ch[c] <= d \/ d + ch[d] <= c
    BY <2>1 DEF Layout, Chunked
  <2>. QED
    BY <2>2, <2>3, <2>4, <2>5 DEF Chunked
<1>. QED
  BY <1>4, <1>5, <1>6, <1>7, <1>8 DEF Layout

\* Memory that overlaps no chunk holds no block.
Clear(ch, base, bytes) == \A c \in DOMAIN ch : base + bytes <= c \/ c + ch[c] <= base

\* Memory that mmap finds clear of the chunks holds no header.
LEMMA ChunkApart ==
  ASSUME NEW sz, NEW pv, NEW ch, Layout(sz, pv, ch), NEW base \in Nat, NEW bytes \in Nat,
         Clear(ch, base, bytes)
  PROVE  \A b \in DOMAIN sz : b + 2 <= base \/ base + bytes <= b
<1>. SUFFICES ASSUME NEW b \in DOMAIN sz PROVE b + 2 <= base \/ base + bytes <= b
  OBVIOUS
<1>1. PICK c \in DOMAIN ch : c <= b /\ b + 2 <= c + ch[c]
  BY DEF Layout, Chunked
<1>2. base + bytes <= c \/ c + ch[c] <= base
  BY DEF Clear
<1>3. b \in Nat /\ c \in Nat /\ ch[c] \in Nat
  BY DEF Layout, Sound, Chunked
<1>. QED
  BY <1>1, <1>2, <1>3

\* A chunk of the system, of one block and a terminator.
AddsChunk(sz, pv, ch, base, bytes, sz2, pv2, ch2) ==
  /\ DOMAIN sz2 = DOMAIN sz \cup {base, base + bytes - 2} /\ DOMAIN pv2 = DOMAIN sz2
  /\ DOMAIN ch2 = DOMAIN ch \cup {base}
  /\ sz2 = [b \in DOMAIN sz2 |-> sz2[b]] /\ pv2 = [b \in DOMAIN pv2 |-> pv2[b]]
  /\ ch2 = [c \in DOMAIN ch2 |-> ch2[c]]
  /\ \A b \in DOMAIN sz2 : sz2[b] = IF b = base THEN bytes - 2 ELSE IF b = base + bytes - 2 THEN 0 ELSE sz[b]
  /\ \A b \in DOMAIN sz2 : pv2[b] = IF b = base THEN 0 ELSE IF b = base + bytes - 2 THEN bytes - 2 ELSE pv[b]
  /\ \A c \in DOMAIN ch2 : ch2[c] = IF c = base THEN bytes ELSE ch[c]

\* The layout stays sound when alloc_chunk adds a chunk.
LEMMA LayoutChunk ==
  ASSUME NEW sz, NEW pv, NEW ch, Layout(sz, pv, ch),
         NEW base \in Nat, NEW bytes \in Nat, bytes > 2, Clear(ch, base, bytes),
         NEW sz2, NEW pv2, NEW ch2, AddsChunk(sz, pv, ch, base, bytes, sz2, pv2, ch2)
  PROVE  Layout(sz2, pv2, ch2)
<1>. USE DEF AddsChunk
<1>. DEFINE D == DOMAIN sz
            t == base + bytes - 2
<1>0. /\ D \subseteq Nat /\ \A b \in D : b \in Nat /\ sz[b] \in Nat /\ pv[b] \in Nat
      /\ DOMAIN ch \subseteq D /\ \A c \in DOMAIN ch : c \in Nat /\ ch[c] \in Nat /\ c \in D
      /\ t \in Nat /\ t # base
  BY DEF Layout, Sound, Chunked
<1>1. ASSUME NEW b \in D
      PROVE  \E c \in DOMAIN ch : /\ c <= b /\ b + 2 <= c + ch[c] /\ (sz[b] = 0 => b + 2 = c + ch[c])
                                  /\ c + ch[c] - 2 \in D /\ sz[c + ch[c] - 2] = 0
  BY DEF Layout, Chunked
<1>2. \A b \in D : b + 2 <= base \/ base + bytes <= b
  BY ChunkApart
<1>3. base \notin D /\ t \notin D
  BY <1>0, <1>2
<1>4. Sound(sz2, pv2)
  <2>1. \A b \in DOMAIN sz2 : b \in Nat /\ sz2[b] \in Nat /\ pv2[b] \in Nat
    BY <1>0
  <2>. QED
    BY <2>1 DEF Sound
<1>5. Forth(sz2, pv2)
  BY <1>0, <1>3 DEF Forth, Layout
<1>6. Back(sz2, pv2)
  <2>. SUFFICES ASSUME NEW b \in DOMAIN sz2, pv2[b] # 0
                PROVE  b - pv2[b] \in DOMAIN sz2 /\ sz2[b - pv2[b]] = pv2[b]
    BY DEF Back
  <2>1. CASE b = t
    BY <1>0, <2>1
  <2>2. CASE b \in D
    BY <1>0, <1>3, <2>2 DEF Layout, Back
  <2>. QED
    BY <2>1, <2>2
<1>7. Disjoint(sz2)
  <2>. SUFFICES ASSUME NEW b \in DOMAIN sz2, NEW d \in DOMAIN sz2, b < d PROVE b + sz2[b] <= d
    BY DEF Disjoint
  <2>1. CASE b \in D /\ d \in D
    BY <1>0, <1>3, <2>1 DEF Layout, Disjoint
  <2>2. CASE b = base
    <3>1. d = t \/ d \in D
      BY <2>2
    <3>. QED
      BY <1>0, <1>2, <2>2, <3>1
  <2>3. CASE b = t
    BY <1>0, <2>3
  <2>4. CASE b \in D /\ d \in {base, t}
    <3>1. b + 2 <= base
      BY <1>0, <1>2, <2>4
    <3>2. PICK c \in DOMAIN ch : /\ c <= b /\ b + 2 <= c + ch[c] /\ (sz[b] = 0 => b + 2 = c + ch[c])
                                 /\ c + ch[c] - 2 \in D /\ sz[c + ch[c] - 2] = 0
      BY <1>1, <2>4
    <3>3. c + ch[c] <= base
      BY <1>0, <2>4, <3>1, <3>2 DEF Clear
    <3>4. b + sz[b] <= c + ch[c] - 2
      <4>1. CASE b < c + ch[c] - 2
        BY <2>4, <3>2, <4>1 DEF Layout, Disjoint
      <4>2. CASE b = c + ch[c] - 2
        BY <1>0, <2>4, <3>2, <4>2
      <4>. QED
        BY <1>0, <2>4, <3>2, <4>1, <4>2
    <3>5. sz2[b] = sz[b]
      BY <1>3, <2>4
    <3>. QED
      BY <1>0, <2>4, <3>3, <3>4, <3>5
  <2>. QED
    BY <2>1, <2>2, <2>3, <2>4
<1>8. Chunked(sz2, pv2, ch2)
  <2>1. /\ DOMAIN ch2 \subseteq DOMAIN sz2 /\ ch2 \in [DOMAIN ch2 -> Nat]
        /\ \A c \in DOMAIN ch : ch2[c] = ch[c] /\ c # base /\ c # t
        /\ ch2[base] = bytes
    BY <1>0, <1>3
  <2>2. \A b \in DOMAIN sz2 : pv2[b] = 0 <=> b \in DOMAIN ch2
    <3>1. \A b \in D : pv2[b] = pv[b] /\ (pv[b] = 0 <=> b \in DOMAIN ch) /\ b # base
      BY <1>3 DEF Layout, Chunked
    <3>2. t \notin DOMAIN ch2 /\ pv2[t] # 0 /\ pv2[base] = 0
      BY <1>0, <1>3
    <3>. QED
      BY <3>1, <3>2
  <2>3. ASSUME NEW c \in DOMAIN ch2
        PROVE  sz2[c] # 0 /\ c + ch2[c] - 2 \in DOMAIN sz2 /\ sz2[c + ch2[c] - 2] = 0
    <3>1. CASE c = base
      BY <1>0, <2>1, <3>1
    <3>2. CASE c \in DOMAIN ch
      <4>1. sz[c] # 0 /\ c + ch[c] - 2 \in D /\ sz[c + ch[c] - 2] = 0
        BY <3>2 DEF Layout, Chunked
      <4>. QED
        BY <1>0, <1>3, <2>1, <3>2, <4>1
    <3>. QED
      BY <3>1, <3>2
  <2>4. ASSUME NEW b \in DOMAIN sz2
        PROVE  \E c \in DOMAIN ch2 : c <= b /\ b + 2 <= c + ch2[c] /\ (sz2[b] = 0 => b + 2 = c + ch2[c])
    <3>1. CASE b \in D
      <4>1. sz2[b] = sz[b]
        BY <1>3, <3>1
      <4>2. PICK c \in DOMAIN ch : c <= b /\ b + 2 <= c + ch[c] /\ (sz[b] = 0 => b + 2 = c + ch[c])
        BY <1>1, <3>1
      <4>. QED
        BY <2>1, <4>1, <4>2
    <3>2. CASE b \in {base, t}
      <4>1. base <= b /\ b + 2 <= base + bytes /\ (sz2[b] = 0 => b + 2 = base + bytes)
        BY <1>0, <3>2
      <4>. QED
        BY <2>1, <4>1
    <3>. QED
      BY <3>1, <3>2
  <2>5. \A c, d \in DOMAIN ch2 : c # d => c + ch2[c] <= d \/ d + ch2[d] <= c
    <3>1. \A c, d \in DOMAIN ch : c # d => c + ch[c] <= d \/ d + ch[d] <= c
      BY DEF Layout, Chunked
    <3>. QED
      BY <2>1, <3>1 DEF Clear
  <2>. QED
    BY <2>1, <2>2, <2>3, <2>4, <2>5 DEF Chunked
<1>. QED
  BY <1>4, <1>5, <1>6, <1>7, <1>8 DEF Layout

\* A chunk of one block ends at its terminator.
LEMMA ChunkEnd ==
  ASSUME NEW sz, NEW pv, NEW ch, Layout(sz, pv, ch),
         NEW c \in DOMAIN ch, sz[c + sz[c]] = 0
  PROVE  ch[c] = sz[c] + 2
<1>. DEFINE D == DOMAIN sz
            e == c + sz[c]
<1>0. /\ D \subseteq Nat /\ \A b \in D : b \in Nat /\ sz[b] \in Nat
      /\ \A d \in DOMAIN ch : d \in Nat /\ ch[d] \in Nat /\ d \in D
  BY DEF Layout, Sound, Chunked
<1>1. sz[c] # 0 /\ c + ch[c] - 2 \in D /\ sz[c + ch[c] - 2] = 0
  BY DEF Layout, Chunked
<1>2. e \in D
  BY <1>0, <1>1 DEF Layout, Forth
<1>3. PICK d \in DOMAIN ch : d <= e /\ e + 2 = d + ch[d]
  BY <1>2 DEF Layout, Chunked
<1>4. c <= c + ch[c] - 2
  <2>1. PICK r \in DOMAIN ch : r <= c /\ c + 2 <= r + ch[r]
    BY <1>0 DEF Layout, Chunked
  <2>2. r = c
    <3>1. r # c => r + ch[r] <= c \/ c + ch[c] <= r
      BY DEF Layout, Chunked
    <3>. QED
      BY <1>0, <1>1, <2>1, <3>1
  <2>. QED
    BY <1>0, <2>1, <2>2
<1>5. e <= c + ch[c] - 2
  <2>1. c # c + ch[c] - 2
    BY <1>1
  <2>2. c < c + ch[c] - 2
    BY <1>0, <1>4, <2>1
  <2>. QED
    BY <1>0, <1>1, <2>2 DEF Layout, Disjoint
<1>6. d = c
  <2>1. d # c => d + ch[d] <= c \/ c + ch[c] <= d
    BY DEF Layout, Chunked
  <2>. QED
    BY <1>0, <1>1, <1>2, <1>3, <1>5, <2>1
<1>. QED
  BY <1>0, <1>3, <1>6

\* It goes back to the system.
LEMMA LayoutDrop ==
  ASSUME NEW sz, NEW pv, NEW ch, Layout(sz, pv, ch),
         NEW c \in DOMAIN ch, sz[c + sz[c]] = 0,
         NEW sz2, NEW pv2, NEW ch2,
         sz2 = [b \in DOMAIN sz \ {c, c + sz[c]} |-> sz[b]],
         pv2 = [b \in DOMAIN sz \ {c, c + sz[c]} |-> pv[b]],
         ch2 = [d \in DOMAIN ch \ {c} |-> ch[d]]
  PROVE  Layout(sz2, pv2, ch2)
<1>. DEFINE D == DOMAIN sz
            e == c + sz[c]
            D2 == D \ {c, e}
<1>0. /\ D \subseteq Nat /\ \A b \in D : b \in Nat /\ sz[b] \in Nat /\ pv[b] \in Nat
      /\ \A d \in DOMAIN ch : d \in Nat /\ ch[d] \in Nat /\ d \in D
      /\ sz[c] # 0 /\ pv[c] = 0
  BY DEF Layout, Sound, Chunked
<1>1. e \in D /\ pv[e] = sz[c] /\ ch[c] = sz[c] + 2
  BY <1>0, ChunkEnd DEF Layout, Forth
<1>2. /\ DOMAIN sz2 = D2 /\ DOMAIN pv2 = D2 /\ DOMAIN ch2 = DOMAIN ch \ {c}
      /\ \A b \in D2 : sz2[b] = sz[b] /\ pv2[b] = pv[b]
      /\ \A d \in DOMAIN ch2 : ch2[d] = ch[d]
  OBVIOUS
<1>3. Sound(sz2, pv2)
  BY <1>0 DEF Sound
<1>4. Forth(sz2, pv2)
  <2>. SUFFICES ASSUME NEW b \in D2, sz[b] # 0
                PROVE  b + sz[b] \in D2 /\ pv[b + sz[b]] = sz[b]
    BY <1>2 DEF Forth
  <2>1. b + sz[b] \in D /\ pv[b + sz[b]] = sz[b]
    BY DEF Layout, Forth
  <2>. QED
    BY <1>0, <1>1, <2>1
<1>5. Back(sz2, pv2)
  <2>. SUFFICES ASSUME NEW b \in D2, pv[b] # 0
                PROVE  b - pv[b] \in D2 /\ sz[b - pv[b]] = pv[b]
    BY <1>2 DEF Back
  <2>1. b - pv[b] \in D /\ sz[b - pv[b]] = pv[b]
    BY DEF Layout, Back
  <2>. QED
    BY <1>0, <1>1, <2>1
<1>6. Disjoint(sz2)
  BY <1>2 DEF Layout, Disjoint
<1>7. Chunked(sz2, pv2, ch2)
  <2>1. e \notin DOMAIN ch
    BY <1>0, <1>1 DEF Layout, Chunked
  <2>2. DOMAIN ch2 \subseteq D2 /\ ch2 \in [DOMAIN ch2 -> Nat]
    BY <1>0, <1>2, <2>1
  <2>3. \A b \in D2 : pv2[b] = 0 <=> b \in DOMAIN ch2
    BY <1>2 DEF Layout, Chunked
  <2>4. ASSUME NEW d \in DOMAIN ch2
        PROVE  sz2[d] # 0 /\ d + ch2[d] - 2 \in D2 /\ sz2[d + ch2[d] - 2] = 0
    <3>1. d \in DOMAIN ch /\ d # c
      OBVIOUS
    <3>2. sz[d] # 0 /\ d + ch[d] - 2 \in D /\ sz[d + ch[d] - 2] = 0
      BY <3>1 DEF Layout, Chunked
    <3>3. d + ch[d] <= c \/ c + ch[c] <= d
      BY <3>1 DEF Layout, Chunked
    <3>4. PICK r \in DOMAIN ch : r <= d /\ d + 2 <= r + ch[r]
      BY <1>0, <3>1 DEF Layout, Chunked
    <3>5. r = d
      <4>1. r # d => r + ch[r] <= d \/ d + ch[d] <= r
        BY <3>1 DEF Layout, Chunked
      <4>. QED
        BY <1>0, <3>1, <3>2, <3>4, <4>1
    <3>6. d + ch[d] - 2 # c /\ d + ch[d] - 2 # e
      BY <1>0, <1>1, <3>1, <3>2, <3>3, <3>4, <3>5
    <3>. QED
      BY <1>2, <2>2, <3>1, <3>2, <3>6
  <2>5. ASSUME NEW b \in D2
        PROVE  \E d \in DOMAIN ch2 : d <= b /\ b + 2 <= d + ch2[d] /\ (sz2[b] = 0 => b + 2 = d + ch2[d])
    <3>1. PICK d \in DOMAIN ch : d <= b /\ b + 2 <= d + ch[d] /\ (sz[b] = 0 => b + 2 = d + ch[d])
      BY DEF Layout, Chunked
    <3>2. d # c
      <4>. SUFFICES ASSUME d = c PROVE FALSE
        OBVIOUS
      <4>1. c < b /\ b < e
        BY <1>0, <1>1, <3>1
      <4>. QED
        BY <1>0, <1>1, <4>1 DEF Layout, Disjoint
    <3>. QED
      BY <1>2, <3>1, <3>2
  <2>6. \A d, f \in DOMAIN ch2 : d # f => d + ch2[d] <= f \/ f + ch2[f] <= d
    BY <1>2 DEF Layout, Chunked
  <2>. QED
    BY <1>2, <2>2, <2>3, <2>4, <2>5, <2>6, Zenon DEF Chunked
<1>. QED
  BY <1>3, <1>4, <1>5, <1>6, <1>7 DEF Layout

-----------------------------------------------------------------------------
(* The list of free blocks. *)

\* The list without one of its blocks, and with one more.
LEMMA ListRemove ==
  ASSUME NEW F \in Seq(Nat), IsInjective(F), NEW x \in Range(F)
  PROVE  LET G == sljit_remove_free_block(F, x)
         IN G \in Seq(Nat) /\ IsInjective(G) /\ Range(G) = Range(F) \ {x}
<1>. DEFINE p == CHOOSE i \in DOMAIN F : F[i] = x
            G == sljit_remove_free_block(F, x)
<1>1. p \in DOMAIN F /\ F[p] = x
  BY DEF Range
<1>. HIDE DEF p
<1>2. p \in 1 .. Len(F) /\ Len(F) \in Nat /\ DOMAIN F = 1 .. Len(F)
  BY <1>1
<1>3. G = [i \in 1 .. Len(F) - 1 |-> F[IF i < p THEN i ELSE i + 1]]
  BY DEF sljit_remove_free_block, p
<1>4. \A i \in 1 .. Len(F) - 1 : (IF i < p THEN i ELSE i + 1) \in 1 .. Len(F)
  BY <1>2
<1>5. Len(F) - 1 \in Nat /\ \A i \in 1 .. Len(F) - 1 : F[IF i < p THEN i ELSE i + 1] \in Nat
  BY <1>2, <1>4
<1>6. /\ G \in Seq(Nat) /\ DOMAIN G = 1 .. Len(F) - 1
      /\ \A i \in 1 .. Len(F) - 1 : G[i] = F[IF i < p THEN i ELSE i + 1]
  BY <1>3, <1>5
<1>. HIDE DEF G
<1>7. IsInjective(G)
  <2>. SUFFICES ASSUME NEW i \in 1 .. Len(F) - 1, NEW j \in 1 .. Len(F) - 1, G[i] = G[j] PROVE i = j
    BY <1>6, Zenon DEF IsInjective
  <2>1. (IF i < p THEN i ELSE i + 1) = (IF j < p THEN j ELSE j + 1)
    BY <1>2, <1>4, <1>6, Zenon DEF IsInjective
  <2>. QED
    BY <1>2, <2>1
<1>8. Range(G) \subseteq Range(F) \ {x}
  <2>. SUFFICES ASSUME NEW i \in 1 .. Len(F) - 1 PROVE G[i] \in Range(F) \ {x}
    BY <1>6 DEF Range
  <2>. DEFINE k == IF i < p THEN i ELSE i + 1
  <2>1. k \in 1 .. Len(F) /\ k # p /\ G[i] = F[k]
    BY <1>2, <1>4, <1>6
  <2>. HIDE DEF k
  <2>. QED
    BY <1>1, <1>2, <2>1 DEF IsInjective, Range
<1>9. ASSUME NEW y \in Range(F), y # x PROVE y \in Range(G)
  <2>1. PICK i \in 1 .. Len(F) : F[i] = y
    BY <1>2 DEF Range
  <2>2. CASE i < p
    <3>1. i \in 1 .. Len(F) - 1 /\ G[i] = y
      BY <1>2, <1>6, <2>1, <2>2
    <3>. QED
      BY <1>6, <3>1, Zenon DEF Range
  <2>3. CASE i > p
    <3>1. i - 1 \in 1 .. Len(F) - 1 /\ G[i - 1] = y
      BY <1>2, <1>6, <2>1, <2>3
    <3>. QED
      BY <1>6, <3>1, Zenon DEF Range
  <2>. QED
    BY <1>1, <1>2, <1>9, <2>1, <2>2, <2>3
<1>. QED
  BY <1>6, <1>7, <1>8, <1>9 DEF G

\* A free block that is not in the list joins it at its head.
LEMMA ListAdd ==
  ASSUME NEW F \in Seq(Nat), IsInjective(F), NEW x \in Nat, x \notin Range(F)
  PROVE  LET G == <<x>> \o F
         IN G \in Seq(Nat) /\ IsInjective(G) /\ Range(G) = Range(F) \cup {x}
<1>. DEFINE G == <<x>> \o F
<1>1. /\ G \in Seq(Nat) /\ Len(G) = Len(F) + 1 /\ DOMAIN G = 1 .. Len(F) + 1 /\ Len(F) \in Nat
      /\ DOMAIN F = 1 .. Len(F)
      /\ \A i \in 1 .. Len(F) + 1 : G[i] = IF i = 1 THEN x ELSE F[i - 1]
  <2>1. <<x>> \in Seq(Nat) /\ Len(<<x>>) = 1 /\ <<x>>[1] = x /\ Len(F) \in Nat /\ DOMAIN F = 1 .. Len(F)
    OBVIOUS
  <2>2. /\ G \in Seq(Nat) /\ Len(G) = Len(<<x>>) + Len(F)
        /\ \A i \in 1 .. Len(<<x>>) + Len(F) : G[i] = IF i <= Len(<<x>>) THEN <<x>>[i] ELSE F[i - Len(<<x>>)]
    BY <2>1, SMT
  <2>. HIDE DEF G
  <2>. QED
    BY <2>1, <2>2
<1>. HIDE DEF G
<1>2. \A i \in 1 .. Len(F) : F[i] # x
  BY <1>1, Zenon DEF Range
<1>3. IsInjective(G)
  <2>. SUFFICES ASSUME NEW i \in 1 .. Len(F) + 1, NEW j \in 1 .. Len(F) + 1, G[i] = G[j] PROVE i = j
    BY <1>1 DEF IsInjective
  <2>1. CASE i # 1 /\ j # 1
    <3>1. i - 1 \in DOMAIN F /\ j - 1 \in DOMAIN F /\ F[i - 1] = F[j - 1]
      BY <1>1, <2>1
    <3>2. i - 1 = j - 1
      BY <3>1 DEF IsInjective
    <3>. QED
      BY <3>2
  <2>2. CASE i = 1 \/ j = 1
    <3>1. \A k \in 1 .. Len(F) + 1 : k # 1 => k - 1 \in 1 .. Len(F)
      BY <1>1
    <3>. QED
      BY <1>1, <1>2, <2>2, <3>1
  <2>. QED
    BY <2>1, <2>2
<1>4. Range(G) \subseteq Range(F) \cup {x}
  <2>. SUFFICES ASSUME NEW i \in 1 .. Len(F) + 1 PROVE G[i] \in Range(F) \cup {x}
    BY <1>1 DEF Range
  <2>1. i # 1 => i - 1 \in 1 .. Len(F)
    BY <1>1
  <2>. QED
    BY <1>1, <2>1, Zenon DEF Range
<1>5. x \in Range(G)
  <2>1. 1 \in DOMAIN G /\ G[1] = x
    BY <1>1
  <2>. QED
    BY <2>1 DEF Range
<1>6. ASSUME NEW i \in 1 .. Len(F) PROVE F[i] \in Range(G)
  <2>1. i + 1 \in DOMAIN G /\ G[i + 1] = F[i]
    BY <1>1
  <2>. QED
    BY <2>1 DEF Range
<1>7. Range(F) \subseteq Range(G)
  BY <1>1, <1>6 DEF Range
<1>. QED
  BY <1>1, <1>3, <1>4, <1>5, <1>7 DEF G

-----------------------------------------------------------------------------
(* Rounding, and what the blocks and the chunks add up to. *)

\* Rounding up to a unit: sljit_malloc_exec for a chunk, sljit_stack_resize for a page.
LEMMA RoundUpFacts ==
  ASSUME NEW n \in Nat, NEW unit \in Nat \ {0}
  PROVE  /\ RoundUp(n, unit) \in Nat /\ RoundUp(n, unit) >= n /\ RoundUp(n, unit) % unit = 0
         /\ \A m \in Nat : m <= n => RoundUp(m, unit) <= RoundUp(n, unit)
         /\ \A m \in Nat : m <= n => (RoundUp(n, unit) - RoundUp(m, unit)) % unit = 0
         /\ \A m \in Nat : m <= n /\ n % unit = 0 => RoundUp(m, unit) <= n
<1>. DEFINE U(m) == ((m + unit - 1) \div unit) * unit
<1>1. U(n) >= n /\ U(n) \in Nat
  OBVIOUS
<1>2. U(n) % unit = 0
  OBVIOUS
<1>3. ASSUME NEW m \in Nat, m <= n PROVE U(m) <= U(n)
  BY <1>3
<1>4. ASSUME NEW m \in Nat PROVE (U(n) - U(m)) % unit = 0
  <2>1. \A k, j \in Int : (k * unit - j * unit) % unit = 0
    OBVIOUS
  <2>2. (n + unit - 1) \div unit \in Int /\ (m + unit - 1) \div unit \in Int
    OBVIOUS
  <2>. QED
    BY <2>1, <2>2
<1>5. ASSUME NEW m \in Nat, m <= n, n % unit = 0 PROVE U(m) <= n
  <2>. DEFINE q == (m + unit - 1) \div unit
              k == n \div unit
  <2>1. q \in Int /\ q * unit <= m + unit - 1
    OBVIOUS
  <2>2. k \in Int /\ n = k * unit
    BY <1>5
  <2>. HIDE DEF q, k
  <2>3. q * unit < k * unit + unit
    BY <1>5, <2>1, <2>2
  <2>4. q <= k
    BY <2>1, <2>2, <2>3
  <2>5. q * unit <= k * unit
    BY <2>1, <2>2, <2>4
  <2>. QED
    BY <2>2, <2>5 DEF q
<1>. QED
  BY <1>1, <1>2, <1>3, <1>4, <1>5 DEF RoundUp

\* The size of a block is in one of two fields of its header.
Size(m, a) == IF m[a].size = 0 THEN m[a].fsize ELSE m[a].size

\* The blocks of D have the same sizes in both.
SameSizes(m2, m, D) == \A a \in D : Size(m2, a) = Size(m, a)

\* The callers lose a block.
Without(U, addr) == [a \in DOMAIN U \ {addr} |-> U[a]]

\* What the blocks of the callers and the chunks add up to.
Total(m, U) == SumFunction([a \in DOMAIN U |-> Size(m, a)])

Room(C) == SumFunction([c \in DOMAIN C |-> C[c] - HEADER])

\* Blocks that keep their sizes keep the total.
LEMMA TotalSame ==
  ASSUME NEW m, NEW m2, NEW U, SameSizes(m2, m, DOMAIN U)
  PROVE  Total(m2, U) = Total(m, U)
<1>1. [a \in DOMAIN U |-> Size(m2, a)] = [a \in DOMAIN U |-> Size(m, a)]
  BY DEF SameSizes
<1>. QED
  BY <1>1 DEF Total

\* There is a sum to speak of.
Sized(m, U) == IsFiniteSet(DOMAIN U) /\ \A a \in DOMAIN U : Size(m, a) \in Nat

\* One more block in use adds its size to the total.
LEMMA TotalAdd ==
  ASSUME NEW m, NEW m2, NEW U, NEW new, new \notin DOMAIN U, NEW v, Sized(m, U),
         Size(m2, new) \in Nat, SameSizes(m2, m, DOMAIN U)
  PROVE  Total(m2, With(U, new, v)) = Total(m, U) + Size(m2, new) /\ Total(m, U) \in Int
<1>. USE DEF Sized
<1>. DEFINE f == [a \in DOMAIN U |-> Size(m, a)]
            g == [a \in DOMAIN U \cup {new} |-> Size(m2, a)]
<1>1. DOMAIN With(U, new, v) = DOMAIN U \cup {new}
  BY DEF With
<1>2. f \in [DOMAIN U -> Int] /\ g \in [DOMAIN U \cup {new} -> Int]
  BY DEF SameSizes
<1>3. g[new] = Size(m2, new) /\ \A a \in DOMAIN U : g[a] = f[a]
  BY DEF SameSizes
<1>4. SumFunction(f) = Total(m, U) /\ SumFunction(g) = Total(m2, With(U, new, v))
  BY <1>1 DEF Total
<1>. HIDE DEF f, g
<1>5. SumFunction(g) = SumFunction(f) + g[new] /\ SumFunction(f) \in Int
  BY <1>2, <1>3, SumAdd
<1>. QED
  BY <1>3, <1>4, <1>5

\* A block that is not in use any more takes its size from the total.
LEMMA TotalRemove ==
  ASSUME NEW m, NEW m2, NEW U, NEW addr \in DOMAIN U, Sized(m, U),
         SameSizes(m2, m, DOMAIN U \ {addr})
  PROVE  Total(m2, Without(U, addr)) = Total(m, U) - Size(m, addr)
<1>. DEFINE W == Without(U, addr)
            V == With(W, addr, 0)
<1>1. DOMAIN W = DOMAIN U \ {addr} /\ DOMAIN V = DOMAIN U
  BY DEF Without, With
<1>2. Total(m, V) = Total(m, U)
  BY <1>1 DEF Total
<1>3. Sized(m, W)
  <2>1. IsFiniteSet(DOMAIN W)
    BY <1>1, FS_Subset DEF Sized
  <2>. QED
    BY <1>1, <2>1 DEF Sized
<1>4. addr \notin DOMAIN W /\ Size(m, addr) \in Nat /\ SameSizes(m2, m, DOMAIN W)
  BY <1>1 DEF SameSizes, Sized
<1>. HIDE DEF W
<1>5. Total(m, With(W, addr, 0)) = Total(m, W) + Size(m, addr) /\ Total(m, W) \in Int
  <2>1. SameSizes(m, m, DOMAIN W)
    BY DEF SameSizes
  <2>. QED
    BY <1>3, <1>4, <2>1, TotalAdd
<1>6. Total(m2, W) = Total(m, W)
  BY <1>4, TotalSame
<1>. QED
  BY <1>2, <1>4, <1>5, <1>6 DEF W

\* A chunk more adds its room to that of the chunks.
LEMMA RoomAdd ==
  ASSUME NEW C, IsFiniteSet(DOMAIN C), C \in [DOMAIN C -> Nat], NEW base, base \notin DOMAIN C, NEW bytes \in Nat
  PROVE  /\ Room(With(C, base, bytes)) = Room(C) + (bytes - HEADER) /\ Room(C) \in Int
         /\ IsFiniteSet(DOMAIN With(C, base, bytes))
<1>. DEFINE C2 == With(C, base, bytes)
            f == [c \in DOMAIN C |-> C[c] - HEADER]
            g == [c \in DOMAIN C2 |-> C2[c] - HEADER]
<1>1. DOMAIN C2 = DOMAIN C \cup {base} /\ C2[base] = bytes /\ \A c \in DOMAIN C : C2[c] = C[c]
  BY DEF With
<1>2. Room(C) = SumFunction(f) /\ Room(C2) = SumFunction(g)
  BY DEF Room
<1>. HIDE DEF C2
<1>3. /\ f \in [DOMAIN C -> Int] /\ g \in [DOMAIN C \cup {base} -> Int]
      /\ g[base] = bytes - HEADER /\ \A c \in DOMAIN C : g[c] = f[c]
  BY <1>1 DEF HEADER
<1>. HIDE DEF f, g
<1>4. SumFunction(g) = SumFunction(f) + g[base] /\ SumFunction(f) \in Int
  <2>. DEFINE D == DOMAIN C
  <2>1. /\ IsFiniteSet(D) /\ base \notin D /\ f \in [D -> Int] /\ g \in [D \cup {base} -> Int]
        /\ \A c \in D : g[c] = f[c]
    BY <1>3
  <2>. HIDE DEF D
  <2>. QED
    BY ONLY <2>1, SumAdd, Zenon
<1>5. IsFiniteSet(DOMAIN C2)
  BY <1>1, FS_AddElement
<1>. QED
  BY <1>2, <1>3, <1>4, <1>5 DEF C2

\* A chunk less takes its room.
LEMMA RoomRemove ==
  ASSUME NEW C, IsFiniteSet(DOMAIN C), C \in [DOMAIN C -> Nat], NEW c \in DOMAIN C
  PROVE  Room(Without(C, c)) = Room(C) - (C[c] - HEADER) /\ IsFiniteSet(DOMAIN Without(C, c))
<1>. DEFINE D == Without(C, c)
<1>1. DOMAIN D = DOMAIN C \ {c} /\ D \in [DOMAIN D -> Nat]
  BY DEF Without
<1>2. With(D, c, C[c]) = C
  BY DEF Without, With
<1>3. IsFiniteSet(DOMAIN D)
  BY <1>1, FS_Subset
<1>. HIDE DEF D
<1>4. Room(With(D, c, C[c])) = Room(D) + (C[c] - HEADER) /\ Room(D) \in Int /\ C[c] \in Nat
  BY <1>1, <1>3, RoomAdd
<1>. QED
  BY <1>2, <1>3, <1>4 DEF D, HEADER

-----------------------------------------------------------------------------
(* The memory between two calls.                                              *)

\* The sizes of the blocks, 0 for a terminator, and the sizes of those before them.
Sz(m) == [a \in DOMAIN m |-> IF m[a].size = 1 THEN 0 ELSE Size(m, a)]
Pv(m) == [a \in DOMAIN m |-> m[a].prev_size]

Headers == [size : Nat, prev_size : Nat, fsize : Nat]

\* No block is empty.
Mem(m) == m \in [DOMAIN m -> Headers] /\ \A a \in DOMAIN m : m[a].size # 1 => Size(m, a) # 0

\* No free block is before another, but maybe those of X.
Apart(m, X) == \A a \in DOMAIN m \ X : m[a].size = 0 => m[a + m[a].fsize].size # 0

\* The list holds the free blocks, once each.
FreeList(m, F) ==
  /\ F \in Seq(Nat) /\ IsInjective(F)
  /\ Range(F) = {a \in DOMAIN m : m[a].size = 0}

\* The callers have the blocks in use, which are as large as they asked for.
InUse(m, U) ==
  /\ DOMAIN U = {a \in DOMAIN m : m[a].size \notin {0, 1}}
  /\ IsFiniteSet(DOMAIN U)
  /\ \A a \in DOMAIN U : /\ U[a] \in Nat
                         /\ m[a].size >= U[a] + HEADER /\ m[a].size >= FREE_BLOCK + HEADER

\* All of it: headers m, chunks C, list F, the blocks U of the callers.
Heap(m, C, F, U, X) ==
  Mem(m) /\ Layout(Sz(m), Pv(m), C) /\ Apart(m, X) /\ FreeList(m, F) /\ InUse(m, U)

\* What the invariant says of one address.
LEMMA HeapFacts ==
  ASSUME NEW m, NEW C, Mem(m), Layout(Sz(m), Pv(m), C), NEW a \in DOMAIN m
  PROVE  /\ a \in Nat /\ m[a].size \in Nat /\ m[a].fsize \in Nat /\ m[a].prev_size \in Nat
         /\ m[a] = Header(m[a].size, m[a].prev_size, m[a].fsize)
         /\ Sz(m)[a] \in Nat /\ Pv(m)[a] = m[a].prev_size
         /\ (Sz(m)[a] = 0) = (m[a].size = 1)
         /\ m[a].size # 1 => Sz(m)[a] = Size(m, a)
         /\ m[a].size = 0 => /\ Sz(m)[a] = m[a].fsize /\ m[a].fsize > 0
                             /\ a + m[a].fsize \in DOMAIN m
                             /\ m[a + m[a].fsize].prev_size = m[a].fsize
         /\ m[a].size \notin {0, 1} => /\ Sz(m)[a] = m[a].size
                                       /\ a + m[a].size \in DOMAIN m
                                       /\ m[a + m[a].size].prev_size = m[a].size
<1>1. DOMAIN Sz(m) = DOMAIN m /\ DOMAIN Pv(m) = DOMAIN m
  BY DEF Sz, Pv
<1>2. m[a] \in Headers
  BY DEF Mem
<1>3. m[a].size \in Nat /\ m[a].fsize \in Nat /\ m[a].prev_size \in Nat
      /\ m[a] = Header(m[a].size, m[a].prev_size, m[a].fsize)
  BY <1>2 DEF Headers, Header
<1>4. Sz(m)[a] = (IF m[a].size = 1 THEN 0 ELSE Size(m, a)) /\ Pv(m)[a] = m[a].prev_size
  BY DEF Sz, Pv
<1>5. m[a].size # 1 => Size(m, a) # 0
  BY DEF Mem
<1>6. a \in Nat
  BY <1>1 DEF Layout, Sound
<1>7. Size(m, a) \in Nat
  BY <1>3 DEF Size
<1>8. Sz(m)[a] # 0 => a + Sz(m)[a] \in DOMAIN m /\ m[a + Sz(m)[a]].prev_size = Sz(m)[a]
  BY <1>1 DEF Layout, Forth, Pv
<1>. QED
  BY <1>3, <1>4, <1>5, <1>6, <1>7, <1>8 DEF Size

\* What it says of a free block.
LEMMA FreeFacts ==
  ASSUME NEW m, NEW C, Mem(m), Layout(Sz(m), Pv(m), C), NEW a \in DOMAIN m, m[a].size = 0
  PROVE  /\ a \in Nat /\ m[a].fsize \in Nat /\ m[a].fsize > 0 /\ m[a].prev_size \in Nat
         /\ a + m[a].fsize \in DOMAIN m /\ m[a + m[a].fsize].prev_size = m[a].fsize
         /\ Sz(m)[a] = m[a].fsize /\ Pv(m)[a] = m[a].prev_size
BY HeapFacts

\* The same memory, but for what one block is: its size does not change.
LEMMA LayoutKept ==
  ASSUME NEW m, NEW C, Mem(m), Layout(Sz(m), Pv(m), C), NEW addr \in DOMAIN m,
         NEW h, h \in Headers, h.prev_size = m[addr].prev_size,
         h.size # 1, m[addr].size # 1,
         (IF h.size = 0 THEN h.fsize ELSE h.size) = Size(m, addr)
  PROVE  LET m2 == [m EXCEPT ![addr] = h] IN Mem(m2) /\ Layout(Sz(m2), Pv(m2), C)
<1>. DEFINE m2 == [m EXCEPT ![addr] = h]
<1>1. DOMAIN m2 = DOMAIN m /\ m2[addr] = h /\ \A a \in DOMAIN m : a # addr => m2[a] = m[a]
  BY DEF Mem
<1>. HIDE DEF m2
<1>2. \A a \in DOMAIN m : Size(m2, a) = Size(m, a)
  BY <1>1 DEF Size
<1>3. Mem(m2)
  <2>1. m2 \in [DOMAIN m2 -> Headers]
    BY <1>1 DEF Mem, m2
  <2>. QED
    BY <1>1, <1>2, <2>1 DEF Mem
<1>4. Sz(m2) = Sz(m)
  BY <1>1, <1>2 DEF Sz
<1>5. Pv(m2) = Pv(m)
  BY <1>1 DEF Pv
<1>. QED
  BY <1>3, <1>4, <1>5 DEF m2

\* sljit_malloc_exec takes a whole free block.
LEMMA HeapTake ==
  ASSUME NEW m, NEW C, NEW F, NEW U, Heap(m, C, F, U, {}),
         NEW addr \in Range(F), NEW asked \in Nat,
         m[addr].fsize >= asked + HEADER, m[addr].fsize >= FREE_BLOCK + HEADER
  PROVE  LET m2 == [m EXCEPT ![addr] = Header(m[addr].fsize, m[addr].prev_size, 0)]
         IN /\ Heap(m2, C, sljit_remove_free_block(F, addr), With(U, addr, asked), {})
            /\ addr \notin DOMAIN U /\ Size(m2, addr) = m[addr].fsize
            /\ SameSizes(m2, m, DOMAIN U)
<1>. DEFINE h == Header(m[addr].fsize, m[addr].prev_size, 0)
            m2 == [m EXCEPT ![addr] = h]
<1>0. addr \in DOMAIN m /\ m[addr].size = 0
  BY DEF Heap, FreeList
<1>1. m[addr].fsize \in Nat /\ m[addr].prev_size \in Nat /\ addr \in Nat
  BY <1>0, HeapFacts DEF Heap
<1>2. h \in Headers /\ h.prev_size = m[addr].prev_size /\ h.size = m[addr].fsize /\ h.fsize = 0
  BY <1>1 DEF Header, Headers
<1>3. m[addr].fsize \notin {0, 1}
  BY <1>1 DEF FREE_BLOCK, HEADER
<1>4. Mem(m2) /\ Layout(Sz(m2), Pv(m2), C)
  <2>1. (IF h.size = 0 THEN h.fsize ELSE h.size) = Size(m, addr)
    BY <1>0, <1>2, <1>3 DEF Size
  <2>. HIDE DEF h
  <2>. QED
    BY <1>0, <1>2, <1>3, <2>1, LayoutKept DEF Heap
<1>5. DOMAIN m2 = DOMAIN m /\ m2[addr] = h /\ \A a \in DOMAIN m : a # addr => m2[a] = m[a]
  BY <1>0 DEF Heap, Mem
<1>. HIDE DEF m2, h
<1>6. Apart(m2, {})
  <2>. SUFFICES ASSUME NEW a \in DOMAIN m, m2[a].size = 0 PROVE m2[a + m2[a].fsize].size # 0
    BY <1>5 DEF Apart
  <2>1. a # addr /\ m2[a] = m[a]
    BY <1>2, <1>3, <1>5
  <2>2. a + m[a].fsize \in DOMAIN m
    BY <2>1, HeapFacts DEF Heap
  <2>3. m[a + m[a].fsize].size # 0
    BY <2>1 DEF Heap, Apart
  <2>. QED
    BY <1>2, <1>3, <1>5, <2>1, <2>2, <2>3
<1>7. FreeList(m2, sljit_remove_free_block(F, addr))
  <2>1. {a \in DOMAIN m2 : m2[a].size = 0} = {a \in DOMAIN m : m[a].size = 0} \ {addr}
    BY <1>2, <1>3, <1>5
  <2>. QED
    BY <2>1, ListRemove DEF Heap, FreeList
<1>8. addr \notin DOMAIN U
  BY <1>0 DEF Heap, InUse
<1>9. InUse(m2, With(U, addr, asked))
  <2>1. DOMAIN With(U, addr, asked) = DOMAIN U \cup {addr}
    BY DEF With
  <2>2. DOMAIN U \cup {addr} = {a \in DOMAIN m2 : m2[a].size \notin {0, 1}}
    BY <1>0, <1>2, <1>3, <1>5 DEF Heap, InUse
  <2>3. IsFiniteSet(DOMAIN U \cup {addr})
    BY FS_AddElement, Zenon DEF Heap, InUse
  <2>4. ASSUME NEW a \in DOMAIN U \cup {addr}
        PROVE  LET V == With(U, addr, asked)
               IN /\ V[a] \in Nat
                  /\ m2[a].size >= V[a] + HEADER /\ m2[a].size >= FREE_BLOCK + HEADER
    <3>1. CASE a = addr
      BY <1>2, <1>5, <3>1 DEF With
    <3>2. CASE a # addr
      <4>1. With(U, addr, asked)[a] = U[a] /\ a \in DOMAIN U /\ a \in DOMAIN m /\ m2[a] = m[a]
        BY <1>5, <3>2 DEF With, Heap, InUse
      <4>. QED
        BY <4>1 DEF Heap, InUse
    <3>. QED
      BY <3>1, <3>2
  <2>. QED
    BY <2>1, <2>2, <2>3, <2>4 DEF InUse
<1>10. SameSizes(m2, m, DOMAIN U)
  BY <1>5, <1>8 DEF Heap, InUse, Size, SameSizes
<1>11. Size(m2, addr) = m[addr].fsize
  BY <1>2, <1>3, <1>5 DEF Size
<1>. QED
  BY <1>4, <1>6, <1>7, <1>8, <1>9, <1>10, <1>11 DEF Heap, m2, h
=============================================================================
