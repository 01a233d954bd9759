--------------------------- MODULE GuestHeapProofs ---------------------------
(***************************************************************************)
(* Theorems about GuestHeap, for every size of the pool, the fallback heap *)
(* and the registry.  The invariant IInv relates the lists of free memory, *)
(* the blocks the guest owns, the code in them and what a call of mr_free  *)
(* has still to give back.  It speaks of states in which no free block was *)
(* recorded longer than it was and none is too short for its header        *)
(* (Exact): on an image that does not end where a header may lie the code  *)
(* itself does both (FreesOnlyItsOwn and NodesHoldHeaders in GuestHeap).   *)
(***************************************************************************)
EXTENDS GuestHeap, FreeListProofs, FiniteSetTheorems

(***************************************************************************)
(* Addresses.                                                              *)

\* The layout of memory: the pool, the words the fallback heap skips, the screen's reserve.
LEMMA ConstantFacts ==
  /\ Base \in Nat /\ Base > 0 /\ End \in Nat /\ Base < End
  /\ StackLo \in Nat /\ CodeHi \in Nat /\ End <= StackLo /\ StackLo < CodeHi
  /\ ScreenLo \in Nat /\ MemEnd \in Nat /\ CodeHi <= ScreenLo /\ ScreenLo <= MemEnd
  /\ \A len \in Sizes : len \in Nat /\ len > 0
  /\ MaxModules \in Nat /\ MaxBlocks \in Nat
  BY GuestHeapAssumption DEF Header

\* realLGmemSize: a length that is rounded up holds a header, is at least as long as it
\* was and one word longer at most.
LEMMA RoundedBounds ==
  ASSUME NEW n \in Nat
  PROVE  /\ Rounded(n) \in Nat /\ n <= Rounded(n) /\ Rounded(n) <= n + 1
         /\ n > 0 => Rounded(n) >= 2
  BY DEF Header, Rounded

-----------------------------------------------------------------------------
(***************************************************************************)
(* The inductive invariant.                                                *)

\* What the guest owns, with the block a call of mr_free has just been given.
Owners == blocks \cup IF freeing.to = "block" THEN {freeing.rest} ELSE {}

Reserved == Span(StackLo, CodeHi)

\* A range of the fallback heap, below its top and outside the reserved words.
InHeap(r) ==
  /\ r \in Ranges /\ r.lo < r.hi
  /\ End <= r.lo /\ r.hi <= heap_top
  /\ ~Overlap(r, Reserved)

InPool(r) == r \in Ranges /\ r.lo < r.hi /\ Within(r, Pool)

PoolOK ==
  /\ \A n \in nodes : InPool(n)
  /\ Apart(nodes)

\* Every block of the pool's list holds its header.
HeadersOK == \A n \in nodes : n.lo + Header <= n.hi

TopOK ==
  /\ heap_top \in End..MemEnd /\ screenMoved \in BOOLEAN
  /\ screenMoved /\ ~ghost.late => heap_top <= ScreenLo

FallbackOK ==
  /\ \A n \in bump_free \cup bump_live : InHeap(n)
  /\ Apart(bump_free)
  /\ \A l, m \in bump_live : l # m => ~Overlap(l, m)
  /\ \A n \in bump_free, l \in bump_live : ~Overlap(n, l)

CodeRange(c) ==
  /\ c \in Ranges /\ c.lo < c.hi
  /\ Base <= c.lo /\ c.hi <= heap_top

\* A range of memory that is not empty.
Piece(r) == r \in Ranges /\ r.lo < r.hi

RegistryOK ==
  /\ IsFiniteSet(modules) /\ Cardinality(modules) <= MaxModules
  /\ Nothing \notin modules
  /\ \A c \in Code : CodeRange(c)
  /\ primary \in Ranges /\ pending \in Ranges

\* No free memory is code, as long as the guest put none into the list itself.
CodeApart ==
  /\ \A n \in bump_free, c \in Code : ~Overlap(n, c)
  /\ ~ghost.edited => \A n \in nodes, c \in Code : ~Overlap(n, c)

\* The blocks the guest owns lie apart from each other and from every free block; one
\* that the fallback heap knows begins no later than what the heap knows of it.
OwnerOK(b) ==
  /\ b \in Ranges /\ b.lo < b.hi
  /\ IF Within(b, Pool) THEN InPool(Whole(b)) ELSE InHeap(b)

OwnersOK ==
  /\ \A b \in Owners : OwnerOK(b)
  /\ \A b, d \in Owners : b # d => ~Overlap(Extent(b), Extent(d))
  /\ \A b \in Owners, n \in nodes \cup bump_free : ~Overlap(Extent(b), n)
  /\ \A b \in Owners, l \in bump_live : Overlap(Extent(b), l) => b.lo <= l.lo

FreeingOK ==
  /\ freeing \in [to : {"none", "block", "pool", "bump"}, rest : Ranges]
  /\ freeing.to = "none" => freeing = Idle
  /\ freeing.to = "block" => freeing.rest \notin blocks
  /\ freeing.to = "pool" =>
       /\ InPool(freeing.rest)
       /\ \A n \in nodes : ~Overlap(n, freeing.rest)
  /\ freeing.to = "bump" =>
       /\ InHeap(freeing.rest)
       /\ \A n \in bump_free \cup bump_live : ~Overlap(n, freeing.rest)
  /\ freeing.to \in {"pool", "bump"} =>
       \A b \in Owners : ~Overlap(Extent(b), freeing.rest)

\* PoolIsAccountedFor, also while a call of mr_free is under way.
Accounted(w) ==
  \/ \E n \in nodes : w \in Words(n)
  \/ \E b \in Owners : w \in Words(Extent(b))
  \/ \E v \in {w - 1, w, w + 1} : v \in ghost.code
  \/ freeing.to = "pool" /\ w \in Words(freeing.rest)

Ghosts == [code : SUBSET (0..MemEnd), edited : BOOLEAN, spilled : BOOLEAN, late : BOOLEAN]

\* What mr_free has still to give back to the pool holds a header or lies behind code.
RestOK ==
  freeing.to = "pool" =>
    freeing.rest.lo + Header <= freeing.rest.hi \/ freeing.rest.lo - 1 \in ghost.code

WordsOK ==
  /\ ghost \in Ghosts
  /\ \A c \in Code, w \in Words(Pool) : w \in Words(c) => w \in ghost.code
  /\ ~ghost.edited => \A w \in Words(Pool) : Accounted(w)

IInv == /\ PoolOK /\ HeadersOK /\ TopOK /\ FallbackOK /\ RegistryOK
        /\ CodeApart /\ OwnersOK /\ FreeingOK /\ WordsOK /\ RestOK

\* What the lists, the registry and a call of mr_free are made of, in every state.
CodeSound  == \A c \in Code : Piece(c)
NodesSound == \A n \in nodes : Piece(n)

ListsTyped ==
  /\ NodesSound /\ \A n \in bump_live \cup bump_free : Piece(n)
  /\ heap_top \in End..MemEnd

RegistryTyped ==
  /\ IsFiniteSet(modules) /\ Cardinality(modules) <= MaxModules /\ Nothing \notin modules
  /\ CodeSound /\ primary \in Ranges /\ pending \in Ranges

CallTyped ==
  /\ freeing \in [to : {"none", "block", "pool", "bump"}, rest : Ranges]
  /\ freeing.to # "none" => Piece(freeing.rest)
  /\ \A b \in blocks : Piece(b)

Typed ==
  /\ ListsTyped /\ RegistryTyped /\ CallTyped
  /\ screenMoved \in BOOLEAN /\ ghost \in Ghosts

\* What holds of every state: IInv, until a block was recorded longer than it is or
\* without room for its header.
Inv == Typed /\ (Exact => IInv)

\* A step that adds nothing to the histories but, perhaps, that mark.
GhostKept ==
  /\ ghost' \in Ghosts
  /\ ghost'.code = ghost.code /\ ghost'.edited = ghost.edited /\ ghost'.late = ghost.late

\* The mark is all that such a step changes, and it is never taken back: rests that are
\* too short are marked,
LEMMA RestsAreMarked ==
  ASSUME ghost \in Ghosts, LeavesRests
  PROVE  /\ GhostKept
         /\ Exact' => Exact /\ \A n \in nodes' : ~(Size(n) < Header)
<1>1. PICK p \in BOOLEAN : p <=> \E n \in nodes' : Size(n) < Header
  OBVIOUS
<1>2. ghost' = [ghost EXCEPT !.spilled = ghost.spilled \/ p]
  BY <1>1, Zenon DEF LeavesRests
<1>3. /\ ghost'.code = ghost.code /\ ghost'.edited = ghost.edited /\ ghost'.late = ghost.late
      /\ ghost'.spilled = (ghost.spilled \/ p) /\ ghost' \in Ghosts
  BY <1>2 DEF Ghosts
<1> QED
  BY <1>1, <1>3 DEF GhostKept, Exact

\* and so is a fragment that is recorded longer than it is.
LEMMA FragmentsAreMarked ==
  ASSUME ghost \in Ghosts, NEW r, RoundsUp(r)
  PROVE  /\ GhostKept
         /\ Exact' => Exact
         /\ Exact' /\ freeing.to = "pool" /\ Size(r) >= Header => Size(r) = Rounded(Size(r))
<1>1. PICK p \in BOOLEAN :
        p <=> freeing.to = "pool" /\ Size(r) >= Header /\ Size(r) # Rounded(Size(r))
  OBVIOUS
<1>2. ghost' = [ghost EXCEPT !.spilled = ghost.spilled \/ p]
  BY <1>1, Zenon DEF RoundsUp
<1>3. /\ ghost'.code = ghost.code /\ ghost'.edited = ghost.edited /\ ghost'.late = ghost.late
      /\ ghost'.spilled = (ghost.spilled \/ p) /\ ghost' \in Ghosts
  BY <1>2 DEF Ghosts
<1> QED
  BY <1>1, <1>3 DEF GhostKept, Exact

LEMMA SameGhost ==
  ASSUME ghost \in Ghosts, UNCHANGED ghost
  PROVE  GhostKept
  BY DEF GhostKept

-----------------------------------------------------------------------------
(***************************************************************************)
(* Ranges and code.                                                        *)

LEMMA RangeFacts ==
  /\ \A r \in Ranges : /\ r.lo \in Nat /\ r.hi \in Nat /\ r.lo <= r.hi /\ r.hi <= MemEnd
                       /\ r = Span(r.lo, r.hi)
  /\ \A a, b \in Int : 0 <= a /\ a <= b /\ b <= MemEnd => Span(a, b) \in Ranges
  /\ Nothing \in Ranges
  BY ConstantFacts DEF Ranges, Span, Nothing

LEMMA SpanIsRange ==
  ASSUME NEW a \in Int, NEW b \in Int, 0 <= a, a <= b, b <= MemEnd
  PROVE  Span(a, b) \in Ranges
  BY RangeFacts

LEMMA PoolFacts == Pool.lo = Base /\ Pool.hi = End
  BY SpanFields DEF Pool

\* Code is ranges of memory, and so are the blocks of the pool's list.
LEMMA CodeIsSound ==
  ASSUME RegistryOK
  PROVE  CodeSound
  BY DEF RegistryOK, CodeRange, CodeSound, Piece

LEMMA NodesAreSound ==
  ASSUME PoolOK
  PROVE  NodesSound
  BY DEF PoolOK, InPool, NodesSound, Piece

LEMMA PieceFacts ==
  ASSUME NEW r, Piece(r)
  PROVE  /\ r.lo \in Nat /\ r.hi \in Nat /\ r.lo < r.hi /\ r.hi <= MemEnd
         /\ r = Span(r.lo, r.hi)
  BY RangeFacts DEF Piece

\* Code that the allocator sees is clipped to the range it looks at.
LEMMA CodeInFacts ==
  ASSUME CodeSound, NEW r, r.lo \in Int, r.hi \in Int, r.lo < r.hi
  PROVE  /\ \A d \in CodeIn(r) :
              /\ d.lo \in Int /\ d.hi \in Int
              /\ r.lo <= d.lo /\ d.lo < d.hi /\ d.hi <= r.hi
              /\ \E c \in Code : Within(d, c)
         /\ \A c \in Code : Overlap(c, r) =>
              \E d \in CodeIn(r) : d.lo <= c.lo \/ d.lo = r.lo
<1>1. ASSUME NEW c \in Code
      PROVE  c.lo \in Int /\ c.hi \in Int /\ c.lo < c.hi
  BY <1>1, PieceFacts DEF CodeSound
<1>2. ASSUME NEW c \in Code, Overlap(c, r), NEW d,
             d = Span(IF c.lo > r.lo THEN c.lo ELSE r.lo, IF c.hi < r.hi THEN c.hi ELSE r.hi)
      PROVE  /\ d.lo \in Int /\ d.hi \in Int
             /\ r.lo <= d.lo /\ d.lo < d.hi /\ d.hi <= r.hi
             /\ Within(d, c)
             /\ d.lo <= c.lo \/ d.lo = r.lo
  BY <1>1, <1>2, SpanFields DEF Overlap, Within
<1>3. ASSUME NEW d \in CodeIn(r)
      PROVE  /\ d.lo \in Int /\ d.hi \in Int
             /\ r.lo <= d.lo /\ d.lo < d.hi /\ d.hi <= r.hi
             /\ \E c \in Code : Within(d, c)
  <2>1. PICK c \in Code :
          /\ Overlap(c, r)
          /\ d = Span(IF c.lo > r.lo THEN c.lo ELSE r.lo, IF c.hi < r.hi THEN c.hi ELSE r.hi)
    BY <1>3 DEF CodeIn
  <2> QED
    BY <1>2, <2>1
<1>4. ASSUME NEW c \in Code, Overlap(c, r)
      PROVE  \E d \in CodeIn(r) : d.lo <= c.lo \/ d.lo = r.lo
  <2> DEFINE d == Span(IF c.lo > r.lo THEN c.lo ELSE r.lo, IF c.hi < r.hi THEN c.hi ELSE r.hi)
  <2>1. d \in CodeIn(r)
    BY <1>4 DEF CodeIn
  <2>2. d.lo <= c.lo \/ d.lo = r.lo
    BY <1>2, <1>4
  <2> QED
    BY <2>1, <2>2
<1> QED
  BY <1>3, <1>4

\* Where no code is found there is none.
LEMMA NoCodeIn ==
  ASSUME NEW r
  PROVE  CodeIn(r) = {} <=> \A c \in Code : ~Overlap(c, r)
<1>1. ASSUME NEW c \in Code, Overlap(c, r)
      PROVE  CodeIn(r) # {}
  BY <1>1 DEF CodeIn
<1>2. ASSUME NEW d \in CodeIn(r)
      PROVE  \E c \in Code : Overlap(c, r)
  BY <1>2 DEF CodeIn
<1> QED
  BY <1>1, <1>2

\* The first code of a range: there is one if there is any, and what lies before it is free
\* of code.
LEMMA FirstCodeFacts ==
  ASSUME CodeSound, NEW r, r.lo \in Nat, r.hi \in Nat, r.lo < r.hi
  PROVE  /\ FirstCode(r) = {} => \A c \in Code : ~Overlap(c, r)
         /\ \A d \in FirstCode(r) :
              /\ d.lo \in Nat /\ d.hi \in Nat
              /\ r.lo <= d.lo /\ d.lo < d.hi /\ d.hi <= r.hi
              /\ \E c \in Code : Within(d, c)
              /\ r.lo < d.lo => \A c \in Code : ~Overlap(c, Span(r.lo, d.lo))
<1>1. \A d \in CodeIn(r) :
              /\ d.lo \in Int /\ d.hi \in Int
              /\ r.lo <= d.lo /\ d.lo < d.hi /\ d.hi <= r.hi
              /\ \E c \in Code : Within(d, c)
  BY CodeInFacts
<1>2. \A c \in Code : Overlap(c, r) => \E d \in CodeIn(r) : d.lo <= c.lo \/ d.lo = r.lo
  BY CodeInFacts
<1>3. ASSUME CodeIn(r) # {}
      PROVE  FirstCode(r) # {}
  <2> DEFINE S == {d.lo : d \in CodeIn(r)}
  <2>1. S \subseteq Nat /\ S # {}
    BY <1>1, <1>3
  <2>2. PICK x \in S : \A y \in S : x <= y
    BY <2>1, LowestAddress
  <2>3. PICK d \in CodeIn(r) : d.lo = x
    BY <2>2
  <2>4. d \in FirstCode(r)
    BY <2>2, <2>3 DEF FirstCode
  <2> QED
    BY <2>4
<1>4. ASSUME NEW d \in FirstCode(r), r.lo < d.lo, NEW c \in Code, Overlap(c, Span(r.lo, d.lo))
      PROVE  FALSE
  <2>1. d \in CodeIn(r) /\ \A e \in CodeIn(r) : d.lo <= e.lo
    BY <1>4 DEF FirstCode
  <2>2. c.lo \in Int /\ c.hi \in Int
    BY PieceFacts DEF CodeSound
  <2>3. c.lo < d.lo /\ r.lo < c.hi /\ Overlap(c, r)
    BY <1>1, <1>4, <2>1, <2>2, SpanFields DEF Overlap
  <2>4. PICK e \in CodeIn(r) : e.lo <= c.lo \/ e.lo = r.lo
    BY <1>2, <2>3
  <2> QED
    BY <1>1, <1>4, <2>1, <2>2, <2>3, <2>4
<1>5. FirstCode(r) \subseteq CodeIn(r)
  BY DEF FirstCode
<1>6. FirstCode(r) = {} => \A c \in Code : ~Overlap(c, r)
  BY <1>3, NoCodeIn
<1>7. ASSUME NEW d \in FirstCode(r)
      PROVE  d.lo \in Nat /\ d.hi \in Nat
  BY <1>1, <1>5
<1> QED
  BY <1>1, <1>4, <1>5, <1>6, <1>7

-----------------------------------------------------------------------------
(***************************************************************************)
(* What a request gets.                                                    *)

\* An entry of the pool's list lies in the pool.
LEMMA PoolNodes ==
  ASSUME PoolOK, NEW n \in nodes
  PROVE  /\ n.lo \in Nat /\ n.hi \in Nat /\ n.lo < n.hi
         /\ Base <= n.lo /\ n.hi <= End /\ n = Span(n.lo, n.hi)
<1>1. InPool(n)
  BY DEF PoolOK
<1> QED
  BY <1>1, RangeFacts, PoolFacts DEF InPool, Within

\* A place in an entry of the pool: inside it and free of code.
LEMMA PlaceFacts ==
  ASSUME NodesSound, CodeSound, NEW n \in nodes, NEW len \in Nat, NEW a \in Place(n, len)
  PROVE  /\ a \in Nat /\ n.lo <= a /\ a + len <= n.hi
         /\ \A c \in Code : ~Overlap(c, Span(a, a + len))
<1>1. /\ n.lo \in Nat /\ n.hi \in Nat /\ n.lo < n.hi
  BY PieceFacts DEF NodesSound
<1>2. /\ a \in {n.lo} \cup {c.hi : c \in CodeIn(n)}
      /\ a + len <= n.hi /\ CodeIn(Span(a, a + len)) = {}
  BY DEF Place, FirstPlace, Places
<1>3. \A c \in Code : ~Overlap(c, Span(a, a + len))
  BY <1>2, NoCodeIn
<1>4. CASE a = n.lo
  BY <1>1, <1>2, <1>3, <1>4
<1>5. CASE a \in {c.hi : c \in CodeIn(n)}
  <2>1. PICK d \in CodeIn(n) : a = d.hi
    BY <1>5
  <2>2. d.lo \in Int /\ d.hi \in Int /\ n.lo <= d.lo /\ d.lo < d.hi
    BY <1>1, <2>1, CodeInFacts
  <2> QED
    BY <1>1, <1>2, <1>3, <2>1, <2>2
<1> QED
  BY <1>2, <1>4, <1>5

\* What is left behind a block begins at its end or behind the code that begins there; a
\* word that is left out is code, or lies alone before code.
LEMMA TailFacts ==
  ASSUME CodeSound, NEW e \in Nat, NEW h \in Nat, e <= h,
         NEW l \in TailStarts(e, h)
  PROVE  /\ l \in Nat /\ e <= l /\ l <= h
         /\ \A w \in Int : e <= w /\ w < l =>
              \E c \in Code : (c.lo <= w /\ w < c.hi) \/ (w + 1 < l /\ c.lo <= w + 1 /\ w + 1 < c.hi)
<1> DEFINE near == {c \in FirstCode(Span(e, h)) : c.lo < e + Header}
<1>1. l \in IF near = {} THEN {e} ELSE {c.hi : c \in near}
  BY DEF TailStarts
<1>2. CASE l = e
  BY <1>2
<1>3. CASE l # e
  <2>1. PICK d \in near : l = d.hi
    BY <1>1, <1>3
  <2>2. e < h
    <3>1. SUFFICES ASSUME e = h
                   PROVE  FALSE
      OBVIOUS
    <3>2. d \in CodeIn(Span(e, h))
      BY <2>1 DEF FirstCode
    <3>3. PICK c \in Code :
            /\ Overlap(c, Span(e, h))
            /\ d.hi = IF c.hi < h THEN c.hi ELSE h
      BY <3>2, SpanFields DEF CodeIn
    <3>4. c.lo \in Nat /\ c.hi \in Nat
      BY PieceFacts DEF CodeSound
    <3>5. e < c.hi
      BY <3>3, SpanFields DEF Overlap
    <3> QED
      BY <1>3, <2>1, <3>1, <3>3, <3>4, <3>5
  <2>3. /\ d.lo \in Nat /\ d.hi \in Nat /\ e <= d.lo /\ d.lo < d.hi /\ d.hi <= h
        /\ \E c \in Code : Within(d, c)
    BY <2>1, <2>2, FirstCodeFacts, SpanFields
  <2>4. d.lo < e + 2
    BY <2>1 DEF Header
  <2>5. PICK c \in Code : c.lo <= d.lo /\ d.hi <= c.hi
    BY <2>3 DEF Within
  <2>6. c.lo \in Nat /\ c.hi \in Nat
    BY PieceFacts DEF CodeSound
  <2>7. ASSUME NEW w \in Int, e <= w, w < l
        PROVE  (c.lo <= w /\ w < c.hi) \/ (w + 1 < l /\ c.lo <= w + 1 /\ w + 1 < c.hi)
    BY <2>1, <2>3, <2>4, <2>5, <2>6, <2>7
  <2> QED
    BY <2>1, <2>3, <2>7
<1> QED
  BY <1>2, <1>3

\* What PoolGives does: a block with no code in it leaves its entry, which keeps what lies
\* before it and what lies behind it and the code that follows it.
LEMMA PoolGivesFacts ==
  ASSUME NodesSound, CodeSound, NEW len \in Sizes, NEW a, PoolGives(len, a)
  PROVE  \E n \in nodes, l \in Nat :
           /\ a \in Nat /\ n.lo <= a
           /\ a + len <= a + Rounded(len) /\ a < a + len /\ Rounded(len) \in Nat
           /\ a + Rounded(len) <= l /\ l <= n.hi
           /\ \A c \in Code : ~Overlap(c, Span(a, a + Rounded(len)))
           /\ nodes' = (nodes \ {n}) \cup Rest(n.lo, a) \cup Rest(l, n.hi)
           /\ \A w \in Int : a + Rounded(len) <= w /\ w < l =>
                \E c \in Code : (c.lo <= w /\ w < c.hi) \/ (w + 1 < l /\ c.lo <= w + 1 /\ w + 1 < c.hi)
<1> DEFINE need == Rounded(len)
<1>1. PICK n \in nodes :
        /\ a \in Place(n, need)
        /\ \E l \in TailStarts(a + need, n.hi) :
             nodes' = (nodes \ {n}) \cup Rest(n.lo, a) \cup Rest(l, n.hi)
  BY DEF PoolGives, Reached
<1>2. PICK l \in TailStarts(a + need, n.hi) :
        nodes' = (nodes \ {n}) \cup Rest(n.lo, a) \cup Rest(l, n.hi)
  BY <1>1
<1>3. len \in Nat /\ len > 0 /\ need \in Nat /\ len <= need
  <2>1. len \in Nat /\ len > 0
    BY ConstantFacts
  <2> QED
    BY <2>1, RoundedBounds
<1>4. /\ a \in Nat /\ n.lo <= a /\ a + need <= n.hi
      /\ \A c \in Code : ~Overlap(c, Span(a, a + need))
  BY <1>1, <1>3, PlaceFacts
<1>5. n.lo \in Nat /\ n.hi \in Nat
  BY PieceFacts DEF NodesSound
<1>6. /\ l \in Nat /\ a + need <= l /\ l <= n.hi
      /\ \A w \in Int : a + need <= w /\ w < l =>
           \E c \in Code : (c.lo <= w /\ w < c.hi) \/ (w + 1 < l /\ c.lo <= w + 1 /\ w + 1 < c.hi)
  <2>1. a + need \in Nat
    BY <1>3, <1>4
  <2> QED
    BY <1>2, <1>4, <1>5, <2>1, TailFacts
<1> QED
  BY <1>2, <1>3, <1>4, <1>6

-----------------------------------------------------------------------------
(***************************************************************************)
(* A request keeps the invariant.                                          *)

\* Ranges that overlap do so both ways, and what spares a range spares its parts.
LEMMA OverlapFacts ==
  /\ \A r, s : Overlap(r, s) <=> Overlap(s, r)
  /\ \A x, n, m : /\ x.lo \in Int /\ x.hi \in Int /\ n.lo \in Int /\ n.hi \in Int
                  /\ m.lo \in Int /\ m.hi \in Int
                  /\ Within(n, m) /\ ~Overlap(x, m)
                  => ~Overlap(x, n)
  BY DEF Overlap, Within

\* A block of the fallback heap lies above the pool and below the heap's top.
LEMMA FallbackBlocks ==
  ASSUME FallbackOK, TopOK, NEW n \in bump_free \cup bump_live
  PROVE  /\ n.lo \in Nat /\ n.hi \in Nat /\ n.lo < n.hi
         /\ End <= n.lo /\ n.hi <= heap_top /\ heap_top \in Nat
         /\ n = Span(n.lo, n.hi) /\ n.hi <= MemEnd /\ InHeap(n)
  BY RangeFacts, ConstantFacts DEF FallbackOK, InHeap, TopOK

\* A block the guest owns: where it lies, and how far what it occupies reaches.
LEMMA OwnerFacts ==
  ASSUME TopOK, NEW b, OwnerOK(b)
  PROVE  /\ b.lo \in Nat /\ b.hi \in Nat /\ b.lo < b.hi /\ b.hi <= MemEnd
         /\ Extent(b).lo = b.lo /\ Extent(b).hi \in Nat /\ b.hi <= Extent(b).hi
         /\ Within(b, Pool) => /\ Extent(b) = Whole(b)
                               /\ Base <= b.lo /\ Extent(b).hi <= End
         /\ ~Within(b, Pool) => /\ Extent(b) = b /\ InHeap(b)
                                /\ End <= b.lo /\ b.hi <= heap_top /\ heap_top \in Nat
<1>1. b.lo \in Nat /\ b.hi \in Nat /\ b.lo < b.hi /\ b.hi <= MemEnd
  BY RangeFacts DEF OwnerOK
<1>2. heap_top \in Nat
  BY ConstantFacts DEF TopOK
<1>3. CASE Within(b, Pool)
  <2>1. Extent(b) = Whole(b) /\ InPool(Whole(b))
    BY <1>3 DEF Extent, OwnerOK
  <2>2. b.hi - b.lo \in Nat /\ Size(b) = b.hi - b.lo
    BY <1>1 DEF Size
  <2>3. Whole(b).lo = b.lo /\ Whole(b).hi = b.lo + Rounded(b.hi - b.lo)
    BY <2>2, SpanFields DEF Whole
  <2>4. Rounded(b.hi - b.lo) \in Nat /\ b.hi - b.lo <= Rounded(b.hi - b.lo)
    BY <2>2, RoundedBounds
  <2>5. Base <= Whole(b).lo /\ Whole(b).hi <= End
    BY <2>1, PoolFacts DEF InPool, Within
  <2> QED
    BY <1>1, <1>3, <2>1, <2>3, <2>4, <2>5
<1>4. CASE ~Within(b, Pool)
  <2>1. Extent(b) = b /\ InHeap(b)
    BY <1>4 DEF Extent, OwnerOK
  <2> QED
    BY <1>1, <1>2, <1>4, <2>1 DEF InHeap
<1> QED
  BY <1>3, <1>4

\* A block that is handed out joins what the guest owns.
LEMMA OwnersGain ==
  ASSUME OwnersOK, TopOK, TopOK', PoolOK, FallbackOK, PoolOK', FallbackOK',
         heap_top <= heap_top',
         NEW d, OwnerOK(d)', Owners' = Owners \cup {d},
         \A b \in Owners : ~Overlap(Extent(b), Extent(d)),
         \A n \in nodes' \cup bump_free' :
           /\ ~Overlap(Extent(d), n)
           /\ \E m \in nodes \cup bump_free : Within(n, m),
         \A l \in bump_live' :
           \/ l \in bump_live /\ ~Overlap(Extent(d), l)
           \/ l.lo = d.lo /\ \A b \in Owners : ~Overlap(Extent(b), l)
  PROVE  OwnersOK'
<1>1. \A b \in Owners : OwnerOK(b)'
  <2> SUFFICES ASSUME NEW b \in Owners
               PROVE  OwnerOK(b)'
    OBVIOUS
  <2>1. OwnerOK(b) /\ heap_top \in Int /\ heap_top' \in Int /\ b.hi \in Int
    BY OwnerFacts DEF OwnersOK, TopOK
  <2>2. InHeap(b) => InHeap(b)'
    BY <2>1 DEF InHeap
  <2> QED
    BY <2>1, <2>2 DEF OwnerOK
<1>2. \A b \in Owners' : OwnerOK(b)'
  BY <1>1
<1>3. \A b, c \in Owners' : b # c => ~Overlap(Extent(b), Extent(c))
  BY OverlapFacts DEF OwnersOK
<1>4. ASSUME NEW b \in Owners', NEW n \in nodes' \cup bump_free'
      PROVE  ~Overlap(Extent(b), n)
  <2>1. CASE b = d
    BY <1>4, <2>1
  <2>2. CASE b \in Owners
    <3>1. PICK m \in nodes \cup bump_free : Within(n, m)
      BY <1>4
    <3>2. ~Overlap(Extent(b), m)
      BY <2>2, <3>1 DEF OwnersOK
    <3>3. m.lo \in Int /\ m.hi \in Int
      BY <3>1, PoolNodes, FallbackBlocks
    <3>4. n.lo \in Int /\ n.hi \in Int
      BY RangeFacts DEF PoolOK, FallbackOK, InPool, InHeap
    <3>5. Extent(b).lo \in Int /\ Extent(b).hi \in Int
      BY <2>2, OwnerFacts DEF OwnersOK
    <3> QED
      BY <3>1, <3>2, <3>3, <3>4, <3>5, OverlapFacts
  <2> QED
    BY <2>1, <2>2
<1>5. ASSUME NEW b \in Owners', NEW l \in bump_live', Overlap(Extent(b), l)
      PROVE  b.lo <= l.lo
  <2>1. b.lo \in Nat
    BY <1>2, RangeFacts DEF OwnerOK
  <2> QED
    BY <1>5, <2>1 DEF OwnersOK
<1> QED
  BY <1>2, <1>3, <1>4, <1>5 DEF OwnersOK

\* Code that stays keeps its place while the fallback heap grows.
LEMMA CodeStays ==
  ASSUME RegistryOK, TopOK, TopOK', heap_top <= heap_top', UNCHANGED codeVars
  PROVE  RegistryOK' /\ Code' = Code
<1>1. Code' = Code
  BY DEF codeVars, Code
<1>2. ASSUME NEW c \in Code
      PROVE  CodeRange(c)'
  <2>1. CodeRange(c) /\ c.hi \in Int /\ heap_top \in Int /\ heap_top' \in Int
    BY RangeFacts DEF RegistryOK, CodeRange, TopOK
  <2> QED
    BY <2>1 DEF CodeRange
<1> QED
  BY <1>1, <1>2 DEF RegistryOK, codeVars

LEMMA FallbackStays ==
  ASSUME FallbackOK, UNCHANGED <<heap_top, bump_live, bump_free>>
  PROVE  FallbackOK'
  BY DEF FallbackOK, InHeap

LEMMA TopStays ==
  ASSUME TopOK, UNCHANGED <<heap_top, screenMoved>>, ghost'.late = ghost.late
  PROVE  TopOK'
  BY DEF TopOK

\* What a request that succeeds leaves behind: the state is sound, and the new block
\* overlaps neither what the guest owned nor code.
Served(d) ==
  /\ PoolOK' /\ TopOK' /\ FallbackOK' /\ RegistryOK' /\ Code' = Code
  /\ CodeApart' /\ OwnersOK' /\ WordsOK'
  /\ d \in Ranges /\ d.lo < d.hi
  /\ \A c \in Code : ~Overlap(d, c)
  /\ \A b \in blocks : ~Overlap(Extent(b), Extent(d))

\* The pool serves a request.
LEMMA PoolGivesKeeps ==
  ASSUME IInv, GuestRuns, NEW len \in Sizes, NEW a, PoolGives(len, a),
         UNCHANGED <<codeVars, screenMoved>>, GhostKept,
         Owners' = Owners \cup {Block(a, len)}
  PROVE  Served(Block(a, len))
<1> DEFINE e == a + Rounded(len)
           d == Block(a, len)
<1>0. /\ PoolOK /\ TopOK /\ FallbackOK /\ RegistryOK /\ CodeApart /\ OwnersOK /\ WordsOK
      /\ Owners = blocks
  BY DEF IInv, GuestRuns, Owners, Idle
<1>1. PICK n \in nodes, l \in Nat :
           /\ a \in Nat /\ n.lo <= a
           /\ a + len <= e /\ a < a + len /\ Rounded(len) \in Nat
           /\ e <= l /\ l <= n.hi
           /\ \A c \in Code : ~Overlap(c, Span(a, e))
           /\ nodes' = (nodes \ {n}) \cup Rest(n.lo, a) \cup Rest(l, n.hi)
           /\ \A w \in Int : e <= w /\ w < l =>
                \E c \in Code : (c.lo <= w /\ w < c.hi) \/ (w + 1 < l /\ c.lo <= w + 1 /\ w + 1 < c.hi)
  BY <1>0, NodesAreSound, CodeIsSound, PoolGivesFacts
<1>2. len \in Nat /\ e \in Nat /\ a < e
  BY <1>1, ConstantFacts
<1>3. /\ n.lo \in Nat /\ n.hi \in Nat /\ n.lo < n.hi
      /\ Base <= n.lo /\ n.hi <= End
  BY <1>0, PoolNodes
<1>4. /\ d.lo = a /\ d.hi = a + len /\ d \in Ranges
      /\ Within(d, Pool) /\ Extent(d) = Span(a, e)
      /\ Extent(d).lo = a /\ Extent(d).hi = e
  <2>1. d.lo = a /\ d.hi = a + len
    BY SpanFields DEF Block
  <2>2. Within(d, Pool) /\ d \in Ranges
    BY <1>1, <1>2, <1>3, <2>1, PoolFacts, ConstantFacts, RangeFacts DEF Within, Block
  <2>3. Size(d) = len
    BY <1>1, <1>2, <2>1 DEF Size
  <2>4. Extent(d) = Span(a, e)
    BY <2>1, <2>2, <2>3 DEF Extent, Whole
  <2> QED
    BY <2>1, <2>2, <2>4, SpanFields
<1> HIDE DEF e, d
<1>5. UNCHANGED <<heap_top, bump_live, bump_free>>
  BY DEF PoolGives
<1>6. FallbackOK' /\ TopOK' /\ RegistryOK' /\ Code' = Code
  <2>1. heap_top <= heap_top'
    BY <1>0, <1>5, ConstantFacts DEF TopOK
  <2> QED
    BY <1>0, <1>5, <2>1, FallbackStays, TopStays, CodeStays DEF GhostKept
<1>7. ASSUME NEW x \in nodes', ~(x \in nodes /\ x # n)
      PROVE  /\ x.lo \in Nat /\ x.hi \in Nat /\ x.lo < x.hi /\ x = Span(x.lo, x.hi)
             /\ n.lo <= x.lo /\ x.hi <= n.hi
             /\ x.hi <= a \/ l <= x.lo
  <2>1. CASE x = Span(n.lo, a) /\ n.lo < a
    <3>1. x.lo = n.lo /\ x.hi = a
      BY <2>1, SpanFields
    <3> QED
      BY <1>1, <1>2, <1>3, <2>1, <3>1
  <2>2. CASE x = Span(l, n.hi) /\ l < n.hi
    <3>1. x.lo = l /\ x.hi = n.hi
      BY <2>2, SpanFields
    <3> QED
      BY <1>1, <1>2, <1>3, <2>2, <3>1
  <2> QED
    BY <1>1, <1>7, <2>1, <2>2 DEF Rest
<1>8. PoolOK'
  <2>1. ASSUME NEW x \in nodes'
        PROVE  InPool(x)
    <3>1. CASE x \in nodes /\ x # n
      BY <1>0, <3>1 DEF PoolOK
    <3>2. CASE ~(x \in nodes /\ x # n)
      <4>1. Within(x, Pool)
        BY <1>3, <1>7, <3>2, PoolFacts, ConstantFacts DEF Within
      <4>2. x \in Ranges
        BY <1>3, <1>7, <3>2, ConstantFacts, RangeFacts
      <4> QED
        BY <1>7, <3>2, <4>1, <4>2 DEF InPool
    <3> QED
      BY <3>1, <3>2
  <2>2. Apart(nodes')
    <3> SUFFICES ASSUME NEW x \in nodes', NEW y \in nodes', x # y
                 PROVE  x.hi < y.lo \/ y.hi < x.lo
      BY DEF Apart
    <3>1. \A m \in nodes : m = n \/ n.hi < m.lo \/ m.hi < n.lo
      BY <1>0 DEF PoolOK, Apart
    <3>2. \A m \in nodes : m.lo \in Nat /\ m.hi \in Nat
      BY <1>0, PoolNodes
    <3>3. CASE x \in nodes /\ x # n /\ y \in nodes /\ y # n
      BY <1>0, <3>3 DEF PoolOK, Apart
    <3>4. CASE x \in nodes /\ x # n /\ ~(y \in nodes /\ y # n)
      BY <1>3, <1>7, <3>1, <3>2, <3>4
    <3>5. CASE ~(x \in nodes /\ x # n) /\ y \in nodes /\ y # n
      BY <1>3, <1>7, <3>1, <3>2, <3>5
    <3>6. CASE ~(x \in nodes /\ x # n) /\ ~(y \in nodes /\ y # n)
      <4>1. /\ (x = Span(n.lo, a) /\ n.lo < a) \/ (x = Span(l, n.hi) /\ l < n.hi)
            /\ (y = Span(n.lo, a) /\ n.lo < a) \/ (y = Span(l, n.hi) /\ l < n.hi)
        BY <1>1, <3>6 DEF Rest
      <4>2. a < l
        BY <1>1, <1>2
      <4> QED
        BY <4>1, <4>2, SpanFields
    <3> QED
      BY <3>3, <3>4, <3>5, <3>6
  <2> QED
    BY <2>1, <2>2 DEF PoolOK
<1>9. ASSUME NEW x \in nodes'
      PROVE  \E m \in nodes : Within(x, m)
  BY <1>0, <1>3, <1>7, <1>9, PoolNodes DEF Within
<1>10. \A c \in Code : ~Overlap(d, c)
  <2> SUFFICES ASSUME NEW c \in Code
               PROVE  ~Overlap(d, c)
    OBVIOUS
  <2>1. c.lo \in Int /\ c.hi \in Int
    BY <1>0, RangeFacts DEF RegistryOK, CodeRange
  <2>2. ~Overlap(c, Span(a, e))
    BY <1>1
  <2> QED
    BY <1>1, <1>2, <1>4, <2>1, <2>2, SpanFields DEF Overlap
<1>11. \A b \in Owners : ~Overlap(Extent(b), Extent(d))
  <2> SUFFICES ASSUME NEW b \in Owners
               PROVE  ~Overlap(Extent(b), Extent(d))
    OBVIOUS
  <2>1. ~Overlap(Extent(b), n)
    BY <1>0 DEF OwnersOK
  <2>2. Extent(b).lo \in Int /\ Extent(b).hi \in Int
    BY <1>0, OwnerFacts DEF OwnersOK
  <2> QED
    BY <1>1, <1>2, <1>3, <1>4, <2>1, <2>2 DEF Overlap
<1>12. OwnerOK(d)'
  <2>1. InPool(Whole(d))
    <3>1. Whole(d) = Span(a, e)
      BY <1>4 DEF Extent
    <3>2. Within(Span(a, e), Pool) /\ Span(a, e) \in Ranges
      BY <1>1, <1>2, <1>3, PoolFacts, ConstantFacts, RangeFacts, SpanFields DEF Within
    <3> QED
      BY <1>2, <3>1, <3>2, SpanFields DEF InPool
  <2> QED
    BY <1>1, <1>2, <1>4, <2>1 DEF OwnerOK
<1>13. ASSUME NEW x \in nodes' \cup bump_free'
       PROVE  ~Overlap(Extent(d), x) /\ \E m \in nodes \cup bump_free : Within(x, m)
  <2>1. CASE x \in nodes'
    <3>1. ~Overlap(Extent(d), x)
      <4>1. CASE x \in nodes /\ x # n
        <5>1. n.hi < x.lo \/ x.hi < n.lo
          BY <1>0, <4>1 DEF PoolOK, Apart
        <5>2. x.lo \in Nat /\ x.hi \in Nat
          BY <1>0, <4>1, PoolNodes
        <5> QED
          BY <1>1, <1>2, <1>3, <1>4, <5>1, <5>2 DEF Overlap
      <4>2. CASE ~(x \in nodes /\ x # n)
        BY <1>1, <1>2, <1>4, <1>7, <2>1, <4>2 DEF Overlap
      <4> QED
        BY <4>1, <4>2
    <3> QED
      BY <1>9, <2>1, <3>1
  <2>2. CASE x \in bump_free'
    <3>1. x \in bump_free /\ x.lo \in Nat /\ x.hi \in Nat /\ End <= x.lo
      BY <1>0, <1>5, <2>2, FallbackBlocks
    <3>2. ~Overlap(Extent(d), x)
      BY <1>1, <1>2, <1>3, <1>4, <3>1, ConstantFacts DEF Overlap
    <3> QED
      BY <3>1, <3>2 DEF Within
  <2> QED
    BY <2>1, <2>2
<1>14. ASSUME NEW l2 \in bump_live'
       PROVE  l2 \in bump_live /\ ~Overlap(Extent(d), l2)
  <2>1. l2 \in bump_live /\ l2.lo \in Nat /\ End <= l2.lo
    BY <1>0, <1>5, <1>14, FallbackBlocks
  <2> QED
    BY <1>1, <1>2, <1>3, <1>4, <2>1, ConstantFacts DEF Overlap
<1>15. OwnersOK'
  <2>1. heap_top <= heap_top'
    BY <1>0, <1>5, ConstantFacts DEF TopOK
  <2>2. Owners' = Owners \cup {d}
    BY DEF d
  <2> QED
    BY <1>0, <1>6, <1>8, <1>11, <1>12, <1>13, <1>14, <2>1, <2>2, OwnersGain
<1>16. CodeApart'
  <2>1. \A x \in bump_free', c \in Code' : ~Overlap(x, c)
    BY <1>0, <1>5, <1>6 DEF CodeApart
  <2>2. ASSUME ~ghost'.edited, NEW x \in nodes', NEW c \in Code'
        PROVE  ~Overlap(x, c)
    <3>1. PICK m \in nodes : Within(x, m)
      BY <1>9
    <3>2. ~Overlap(m, c)
      BY <1>0, <1>6, <2>2 DEF CodeApart, GhostKept
    <3>3. /\ x.lo \in Int /\ x.hi \in Int /\ m.lo \in Int /\ m.hi \in Int
          /\ c.lo \in Int /\ c.hi \in Int
      BY <1>0, <1>6, <1>8, RangeFacts DEF PoolOK, InPool, RegistryOK, CodeRange
    <3> QED
      BY <3>1, <3>2, <3>3 DEF Overlap, Within
  <2> QED
    BY <2>1, <2>2 DEF CodeApart
<1>17. WordsOK'
  <2>1. ghost' \in Ghosts /\ ghost'.code = ghost.code /\ ghost'.edited = ghost.edited
    BY DEF GhostKept
  <2>2. ASSUME ~ghost.edited, NEW w \in Words(Pool)
        PROVE  Accounted(w)'
    <3>0. w \in Int
      BY PoolFacts, ConstantFacts DEF Words
    <3>1. Accounted(w)
      BY <1>0, <2>2 DEF WordsOK
    <3>2. CASE \E b \in Owners : w \in Words(Extent(b))
      BY <3>2 DEF Accounted
    <3>3. CASE \E v \in {w - 1, w, w + 1} : v \in ghost.code
      BY <3>3, <2>1 DEF Accounted
    <3>4. CASE \E m \in nodes : m # n /\ w \in Words(m)
      BY <1>1, <3>4 DEF Accounted
    <3>5. CASE w \in Words(n)
      <4>1. n.lo <= w /\ w < n.hi
        BY <1>3, <3>0, <3>5 DEF Words
      <4>2. CASE w < a
        <5>1. w \in Words(Span(n.lo, a)) /\ n.lo < a
          BY <1>1, <1>3, <3>0, <4>1, <4>2, SpanFields DEF Words
        <5> QED
          BY <1>1, <5>1 DEF Accounted, Rest
      <4>3. CASE a <= w /\ w < e
        <5>1. w \in Words(Extent(d))
          BY <1>1, <1>2, <1>4, <3>0, <4>3 DEF Words
        <5>2. d \in Owners'
          BY DEF d
        <5> QED
          BY <5>1, <5>2 DEF Accounted
      <4>4. CASE e <= w /\ w < l
        <5>1. PICK c \in Code : (c.lo <= w /\ w < c.hi) \/ (w + 1 < l /\ c.lo <= w + 1 /\ w + 1 < c.hi)
          BY <1>1, <3>0, <4>4
        <5>2. c.lo \in Int /\ c.hi \in Int
          BY <1>0, RangeFacts DEF RegistryOK, CodeRange
        <5>3. PICK v \in {w, w + 1} : v \in Words(c) /\ v < l
          BY <3>0, <4>4, <5>1, <5>2 DEF Words
        <5>4. v \in Words(Pool)
          BY <1>1, <1>3, <3>0, <4>1, <4>4, <5>2, <5>3, PoolFacts, ConstantFacts DEF Words
        <5>5. v \in ghost.code
          BY <1>0, <5>3, <5>4 DEF WordsOK
        <5> QED
          BY <2>1, <5>3, <5>5 DEF Accounted
      <4>5. CASE l <= w
        <5>1. w \in Words(Span(l, n.hi)) /\ l < n.hi
          BY <1>1, <1>3, <3>0, <4>1, <4>5, SpanFields DEF Words
        <5> QED
          BY <1>1, <5>1 DEF Accounted, Rest
      <4> QED
        BY <1>1, <1>2, <3>0, <4>2, <4>3, <4>4, <4>5
    <3>6. freeing.to # "pool"
      BY DEF GuestRuns, Idle
    <3> QED
      BY <3>1, <3>2, <3>3, <3>4, <3>5, <3>6 DEF Accounted
  <2>3. \A c \in Code', w \in Words(Pool) : w \in Words(c) => w \in ghost'.code
    BY <1>0, <1>6, <2>1 DEF WordsOK
  <2> QED
    BY <1>0, <2>1, <2>2, <2>3 DEF WordsOK
<1>18. d.lo < d.hi
  BY <1>1, <1>4
<1>19. Served(d)
  BY <1>0, <1>4, <1>6, <1>8, <1>10, <1>11, <1>15, <1>16, <1>17, <1>18 DEF Served
<1> QED
  BY <1>19 DEF d

\* A word stays accounted for while the pool's list stays and the guest owns more.
LEMMA WordsStay ==
  ASSUME WordsOK, GuestRuns, UNCHANGED nodes, GhostKept, Code' = Code,
         Owners \subseteq Owners'
  PROVE  WordsOK'
<1>1. ASSUME ~ghost.edited, NEW w \in Words(Pool)
      PROVE  Accounted(w)'
  <2>1. Accounted(w) /\ freeing.to # "pool"
    BY <1>1 DEF WordsOK, GuestRuns, Idle
  <2> QED
    BY <2>1 DEF Accounted, GhostKept
<1> QED
  BY <1>1 DEF WordsOK, GhostKept

\* A block of the fallback heap that is large enough is handed out, whole or its front.
LEMMA BumpReusesKeeps ==
  ASSUME IInv, GuestRuns, NEW len \in Sizes, NEW a, BumpReuses(len, a),
         UNCHANGED <<codeVars, screenMoved>>, GhostKept,
         Owners' = Owners \cup {Block(a, len)}
  PROVE  Served(Block(a, len))
<1> DEFINE d == Block(a, len)
<1>0. /\ PoolOK /\ TopOK /\ FallbackOK /\ RegistryOK /\ CodeApart /\ OwnersOK /\ WordsOK
      /\ Owners = blocks
  BY DEF IInv, GuestRuns, Owners, Idle
<1>1. PICK b \in bump_free :
        /\ Size(b) >= len /\ a = b.lo
        /\ IF Splits(b, len)
           THEN /\ bump_live' = bump_live \cup {Span(a, a + len)}
                /\ bump_free' = (bump_free \ {b}) \cup {Span(a + len, b.hi)}
           ELSE /\ bump_live' = bump_live \cup {b}
                /\ bump_free' = bump_free \ {b}
  BY DEF BumpReuses, Large
<1>2. /\ b.lo \in Nat /\ b.hi \in Nat /\ b.lo < b.hi
      /\ End <= b.lo /\ b.hi <= heap_top /\ heap_top \in Nat /\ b.hi <= MemEnd
      /\ b = Span(b.lo, b.hi) /\ InHeap(b)
  BY <1>0, FallbackBlocks
<1>3. len \in Nat /\ len > 0 /\ a + len <= b.hi
  BY <1>1, <1>2, ConstantFacts DEF Size
<1>4. PICK g :
        /\ g.lo = a /\ g.hi \in Nat /\ a + len <= g.hi /\ g.hi <= b.hi /\ g = Span(g.lo, g.hi)
        /\ bump_live' = bump_live \cup {g}
        /\ \A x \in bump_free' :
             (x \in bump_free /\ x # b) \/ (x = Span(g.hi, b.hi) /\ g.hi < b.hi)
  <2>1. CASE Splits(b, len)
    <3>1. a + len < b.hi
      BY <1>1, <1>2, <1>3, <2>1 DEF Splits, Size, Header
    <3>2. Span(a, a + len).lo = a /\ Span(a, a + len).hi = a + len
      BY SpanFields
    <3>3. /\ bump_live' = bump_live \cup {Span(a, a + len)}
          /\ bump_free' = (bump_free \ {b}) \cup {Span(a + len, b.hi)}
      BY <1>1, <2>1
    <3>4. a + len \in Nat
      BY <1>1, <1>2, <1>3
    <3> QED
      BY <1>3, <3>1, <3>2, <3>3, <3>4
  <2>2. CASE ~Splits(b, len)
    <3>1. /\ bump_live' = bump_live \cup {b}
          /\ bump_free' = bump_free \ {b}
      BY <1>1, <2>2
    <3>2. /\ b.lo = a /\ b.hi \in Nat /\ a + len <= b.hi /\ b.hi <= b.hi
          /\ b = Span(b.lo, b.hi)
      BY <1>1, <1>2, <1>3
    <3>3. \A x \in bump_free' : x \in bump_free /\ x # b
      BY <3>1
    <3> QED
      BY <3>1, <3>2, <3>3
  <2> QED
    BY <2>1, <2>2
<1>5. /\ d.lo = a /\ d.hi = a + len /\ d \in Ranges /\ d.lo < d.hi
      /\ ~Within(d, Pool) /\ Extent(d) = d
  <2>1. d.lo = a /\ d.hi = a + len
    BY SpanFields DEF Block
  <2>2. ~Within(d, Pool) /\ d \in Ranges
    BY <1>1, <1>2, <1>3, <2>1, PoolFacts, ConstantFacts, RangeFacts DEF Within, Block
  <2> QED
    BY <1>1, <1>2, <1>3, <2>1, <2>2 DEF Extent
<1> HIDE DEF d
<1>6. UNCHANGED <<nodes, heap_top>>
  BY DEF BumpReuses
<1>7. PoolOK' /\ TopOK' /\ RegistryOK' /\ Code' = Code /\ heap_top <= heap_top'
  <2>1. heap_top <= heap_top'
    BY <1>2, <1>6
  <2>2. PoolOK'
    BY <1>0, <1>6 DEF PoolOK
  <2> QED
    BY <1>0, <1>6, <2>1, <2>2, TopStays, CodeStays DEF GhostKept
<1>8. \A x : InHeap(x)' <=> InHeap(x)
  BY <1>6 DEF InHeap
<1>9. ASSUME NEW x, x.lo \in Nat, x.hi \in Nat, x.lo < x.hi, b.lo <= x.lo, x.hi <= b.hi,
             x = Span(x.lo, x.hi)
      PROVE  InHeap(x)
  <2>1. Span(x.lo, x.hi) \in Ranges
    <3>1. 0 <= x.lo /\ x.lo <= x.hi /\ x.hi <= MemEnd /\ x.lo \in Int /\ x.hi \in Int
      BY <1>2, <1>9, ConstantFacts
    <3> QED
      BY <3>1, RangeFacts
  <2>2. ~Overlap(x, Reserved)
    BY <1>2, <1>9, ConstantFacts, SpanFields DEF InHeap, Overlap, Reserved
  <2> QED
    BY <1>2, <1>9, <2>1, <2>2, ConstantFacts DEF InHeap
<1>10. InHeap(g) /\ InHeap(d)
  <2>1. d = Span(d.lo, d.hi)
    BY <1>5 DEF d, Block
  <2> QED
    BY <1>1, <1>2, <1>3, <1>4, <1>5, <1>9, <2>1
<1>11. ASSUME NEW x \in bump_free'
       PROVE  /\ InHeap(x) /\ x.lo \in Nat /\ x.hi \in Nat
              /\ (x \in bump_free /\ x # b) \/ (x.lo = g.hi /\ x.hi = b.hi /\ b.lo < x.lo)
  <2>1. CASE x \in bump_free /\ x # b
    <3>1. InHeap(x) /\ x.lo \in Nat /\ x.hi \in Nat
      BY <1>0, <2>1, FallbackBlocks
    <3> QED
      BY <2>1, <3>1
  <2>2. CASE x = Span(g.hi, b.hi) /\ g.hi < b.hi
    <3>1. x.lo = g.hi /\ x.hi = b.hi
      BY <2>2, SpanFields
    <3> QED
      BY <1>1, <1>2, <1>3, <1>4, <1>9, <2>2, <3>1
  <2> QED
    BY <1>4, <2>1, <2>2
<1>12. \A m \in bump_free : m = b \/ b.hi < m.lo \/ m.hi < b.lo
  BY <1>0 DEF FallbackOK, Apart
<1>13. \A m \in bump_free \cup bump_live : m.lo \in Nat /\ m.hi \in Nat
  BY <1>0, FallbackBlocks
<1>14. \A m \in bump_live : m.hi <= b.lo \/ b.hi <= m.lo
  BY <1>0, <1>2, <1>13 DEF FallbackOK, Overlap
<1>15. FallbackOK'
  <2>1. \A x \in bump_free' \cup bump_live' : InHeap(x)'
    BY <1>0, <1>4, <1>8, <1>10, <1>11 DEF FallbackOK
  <2>2. Apart(bump_free')
    <3> SUFFICES ASSUME NEW x \in bump_free', NEW y \in bump_free', x # y
                 PROVE  x.hi < y.lo \/ y.hi < x.lo
      BY DEF Apart
    <3>1. CASE x \in bump_free /\ x # b /\ y \in bump_free /\ y # b
      BY <1>0, <3>1 DEF FallbackOK, Apart
    <3>2. CASE x \in bump_free /\ x # b /\ y.hi = b.hi /\ b.lo < y.lo /\ y.lo \in Nat
      BY <1>2, <1>12, <1>13, <3>2
    <3>3. CASE y \in bump_free /\ y # b /\ x.hi = b.hi /\ b.lo < x.lo /\ x.lo \in Nat
      BY <1>2, <1>12, <1>13, <3>3
    <3>4. CASE x = Span(g.hi, b.hi) /\ y = Span(g.hi, b.hi)
      BY <3>4
    <3> QED
      BY <1>4, <1>11, <3>1, <3>2, <3>3, <3>4
  <2>3. \A l, m \in bump_live' : l # m => ~Overlap(l, m)
    <3>1. \A m \in bump_live : ~Overlap(g, m) /\ ~Overlap(m, g)
      BY <1>1, <1>2, <1>4, <1>13, <1>14 DEF Overlap
    <3> QED
      BY <1>0, <1>4, <3>1 DEF FallbackOK
  <2>4. ASSUME NEW x \in bump_free', NEW l \in bump_live'
        PROVE  ~Overlap(x, l)
    <3>1. CASE x \in bump_free /\ l \in bump_live
      BY <1>0, <3>1 DEF FallbackOK
    <3>2. CASE x \in bump_free /\ x # b /\ l = g
      BY <1>1, <1>2, <1>4, <1>12, <1>13, <3>2 DEF Overlap
    <3>3. CASE x.lo = g.hi /\ x.hi = b.hi /\ b.lo < x.lo /\ l \in bump_live
      BY <1>2, <1>4, <1>11, <1>13, <1>14, <3>3 DEF Overlap
    <3>4. CASE x.lo = g.hi /\ l = g
      BY <1>4, <3>4 DEF Overlap
    <3> QED
      BY <1>4, <1>11, <3>1, <3>2, <3>3, <3>4
  <2> QED
    BY <2>1, <2>2, <2>3, <2>4 DEF FallbackOK
<1>16. ASSUME NEW x \in bump_free'
       PROVE  \E m \in bump_free : Within(x, m)
  BY <1>2, <1>11, <1>13, <1>16 DEF Within
<1>17. \A c \in Code : ~Overlap(d, c)
  <2> SUFFICES ASSUME NEW c \in Code
               PROVE  ~Overlap(d, c)
    OBVIOUS
  <2>1. c.lo \in Int /\ c.hi \in Int
    BY <1>0, RangeFacts DEF RegistryOK, CodeRange
  <2>2. ~Overlap(b, c)
    BY <1>0 DEF CodeApart
  <2> QED
    BY <1>1, <1>2, <1>3, <1>5, <2>1, <2>2 DEF Overlap
<1>18. ASSUME NEW o \in Owners
       PROVE  /\ Extent(o).lo \in Int /\ Extent(o).hi \in Int
              /\ ~Overlap(Extent(o), d) /\ ~Overlap(Extent(o), g)
  <2>1. ~Overlap(Extent(o), b)
    BY <1>0 DEF OwnersOK
  <2>2. Extent(o).lo \in Int /\ Extent(o).hi \in Int
    BY <1>0, OwnerFacts DEF OwnersOK
  <2> QED
    BY <1>1, <1>2, <1>3, <1>4, <1>5, <2>1, <2>2 DEF Overlap
<1>19. OwnerOK(d)'
  BY <1>5, <1>8, <1>10 DEF OwnerOK
<1>20. ASSUME NEW x \in nodes' \cup bump_free'
       PROVE  ~Overlap(Extent(d), x) /\ \E m \in nodes \cup bump_free : Within(x, m)
  <2>1. CASE x \in nodes'
    <3>1. x \in nodes /\ x.lo \in Nat /\ x.hi \in Nat /\ x.hi <= End
      BY <1>0, <1>6, <2>1, PoolNodes
    <3>2. ~Overlap(Extent(d), x)
      BY <1>1, <1>2, <1>3, <1>5, <3>1, ConstantFacts DEF Overlap
    <3> QED
      BY <3>1, <3>2 DEF Within
  <2>2. CASE x \in bump_free'
    <3>1. ~Overlap(Extent(d), x)
      BY <1>1, <1>2, <1>3, <1>4, <1>5, <1>11, <1>12, <1>13, <2>2 DEF Overlap
    <3> QED
      BY <1>16, <2>2, <3>1
  <2> QED
    BY <1>20, <2>1, <2>2
<1>21. ASSUME NEW l \in bump_live'
       PROVE  \/ l \in bump_live /\ ~Overlap(Extent(d), l)
              \/ l.lo = d.lo /\ \A o \in Owners : ~Overlap(Extent(o), l)
  <2>1. CASE l \in bump_live
    BY <1>1, <1>2, <1>3, <1>5, <1>13, <1>14, <2>1 DEF Overlap
  <2>2. CASE l = g
    BY <1>4, <1>5, <1>18, <2>2
  <2> QED
    BY <1>4, <2>1, <2>2
<1>22. Owners' = Owners \cup {d}
  BY DEF d
<1>23. OwnersOK'
  <2>1. \A o \in Owners : ~Overlap(Extent(o), Extent(d))
    BY <1>5, <1>18
  <2> QED
    BY <1>0, <1>7, <1>15, <1>19, <1>20, <1>21, <1>22, <2>1, OwnersGain
<1>24. CodeApart'
  <2>1. ASSUME NEW x \in bump_free', NEW c \in Code'
        PROVE  ~Overlap(x, c)
    <3>1. PICK m \in bump_free : Within(x, m)
      BY <1>16
    <3>2. c.lo \in Int /\ c.hi \in Int /\ ~Overlap(m, c)
      BY <1>0, <1>7, RangeFacts DEF RegistryOK, CodeRange, CodeApart
    <3> QED
      BY <1>11, <1>13, <3>1, <3>2 DEF Overlap, Within
  <2> QED
    BY <1>0, <1>6, <1>7, <2>1 DEF CodeApart, GhostKept
<1>25. WordsOK'
  BY <1>0, <1>6, <1>7, <1>22, WordsStay
<1>26. Served(d)
  BY <1>5, <1>7, <1>15, <1>17, <1>18, <1>0, <1>23, <1>24, <1>25 DEF Served
<1> QED
  BY <1>26 DEF d

\* The top moves up, over the reserved words if it has to.
LEMMA TopFacts ==
  ASSUME TopOK, NEW len \in Nat, len > 0
  PROVE  /\ Top(len) \in Nat /\ heap_top <= Top(len) /\ End <= Top(len)
         /\ Top(len) + len <= StackLo \/ CodeHi <= Top(len)
         /\ Top(len) <= ScreenLo \/ Top(len) = heap_top
  BY ConstantFacts DEF Top, SkipsReserved, TopOK

\* The fallback heap and the guest's blocks stay sound when only its top moves.
LEMMA TopMoves ==
  ASSUME TopOK, FallbackOK, heap_top' \in Nat, heap_top <= heap_top'
  PROVE  \A x : InHeap(x) => InHeap(x)'
<1>1. heap_top \in Int
  BY ConstantFacts DEF TopOK
<1>2. ASSUME NEW x, InHeap(x)
      PROVE  InHeap(x)'
  <2>1. x.hi \in Nat
    BY <1>2, RangeFacts DEF InHeap
  <2> QED
    BY <1>1, <1>2, <2>1 DEF InHeap
<1> QED
  BY <1>2

\* The fallback heap grows by a block.
LEMMA BumpGrowsKeeps ==
  ASSUME IInv, GuestRuns, NEW len \in Sizes, NEW a, BumpGrows(len, a),
         UNCHANGED <<codeVars, screenMoved>>, GhostKept,
         Owners' = Owners \cup {Block(a, len)}
  PROVE  Served(Block(a, len))
<1> DEFINE d == Block(a, len)
<1>0. /\ PoolOK /\ TopOK /\ FallbackOK /\ RegistryOK /\ CodeApart /\ OwnersOK /\ WordsOK
      /\ Owners = blocks
  BY DEF IInv, GuestRuns, Owners, Idle
<1>1. /\ a = Top(len) /\ a + len < Limit
      /\ heap_top' = a + len /\ bump_live' = bump_live \cup {Span(a, a + len)}
      /\ UNCHANGED <<nodes, bump_free>>
  BY DEF BumpGrows
<1>2. len \in Nat /\ len > 0
  BY ConstantFacts
<1>3. /\ a \in Nat /\ heap_top \in Nat /\ heap_top <= a /\ End <= a
      /\ a + len <= StackLo \/ CodeHi <= a
  BY <1>0, <1>1, <1>2, TopFacts, ConstantFacts DEF TopOK
<1>4. /\ d.lo = a /\ d.hi = a + len /\ d.lo < d.hi
      /\ ~Within(d, Pool) /\ Extent(d) = d /\ d = Span(a, a + len)
  <2>1. d.lo = a /\ d.hi = a + len
    BY SpanFields DEF Block
  <2>2. ~Within(d, Pool)
    BY <1>2, <1>3, <2>1, PoolFacts, ConstantFacts DEF Within
  <2> QED
    BY <1>2, <1>3, <2>1, <2>2 DEF Extent, Block
<1> HIDE DEF d
<1>5. heap_top' \in Nat /\ heap_top <= heap_top' /\ heap_top' <= MemEnd
  BY <1>1, <1>2, <1>3, <1>0, ConstantFacts DEF Limit, TopOK
<1>6. d \in Ranges
  BY <1>1, <1>2, <1>3, <1>4, <1>5, RangeFacts
<1>7. TopOK'
  <2>1. screenMoved' => heap_top' <= ScreenLo
    BY <1>1, <1>2, <1>3, ConstantFacts DEF Limit
  <2> QED
    BY <1>0, <1>1, <1>2, <1>3, <1>5, <2>1, ConstantFacts DEF TopOK
<1>8. PoolOK' /\ RegistryOK' /\ Code' = Code
  BY <1>0, <1>1, <1>5, <1>7, CodeStays DEF PoolOK
<1>9. \A x : InHeap(x) => InHeap(x)'
  BY <1>0, <1>5, TopMoves
<1>10. InHeap(d)'
  <2>1. ~Overlap(d, Reserved)
    BY <1>2, <1>3, <1>4, ConstantFacts, SpanFields DEF Overlap, Reserved
  <2> QED
    BY <1>1, <1>3, <1>4, <1>6, <2>1 DEF InHeap
<1>11. \A x \in bump_free \cup bump_live : x.lo \in Nat /\ x.hi \in Nat /\ x.hi <= a
  BY <1>0, <1>3, FallbackBlocks
<1>12. \A x \in bump_free \cup bump_live : ~Overlap(x, d) /\ ~Overlap(d, x)
  BY <1>2, <1>3, <1>4, <1>11 DEF Overlap
<1>13. bump_live' = bump_live \cup {d} /\ bump_free' = bump_free /\ nodes' = nodes
  BY <1>1, <1>4
<1>14. FallbackOK'
  <2>1. \A x \in bump_free' \cup bump_live' : InHeap(x)'
    BY <1>0, <1>9, <1>10, <1>13 DEF FallbackOK
  <2>2. \A l, m \in bump_live' : l # m => ~Overlap(l, m)
    BY <1>0, <1>12, <1>13 DEF FallbackOK
  <2>3. \A x \in bump_free', l \in bump_live' : ~Overlap(x, l)
    BY <1>0, <1>12, <1>13 DEF FallbackOK
  <2> QED
    BY <1>0, <1>13, <2>1, <2>2, <2>3 DEF FallbackOK
<1>15. \A c \in Code : ~Overlap(d, c)
  <2> SUFFICES ASSUME NEW c \in Code
               PROVE  ~Overlap(d, c)
    OBVIOUS
  <2>1. c.hi \in Int /\ c.hi <= a
    BY <1>0, <1>3, RangeFacts DEF RegistryOK, CodeRange
  <2> QED
    BY <1>3, <1>4, <2>1 DEF Overlap
<1>16. \A o \in Owners : ~Overlap(Extent(o), Extent(d))
  <2> SUFFICES ASSUME NEW o \in Owners
               PROVE  ~Overlap(Extent(o), Extent(d))
    OBVIOUS
  <2>1. OwnerOK(o)
    BY <1>0 DEF OwnersOK
  <2>2. Extent(o).hi \in Nat /\ Extent(o).hi <= a
    BY <1>0, <1>3, <2>1, OwnerFacts, ConstantFacts
  <2> QED
    BY <1>3, <1>4, <2>2 DEF Overlap
<1>17. OwnerOK(d)'
  BY <1>4, <1>6, <1>10 DEF OwnerOK
<1>18. ASSUME NEW x \in nodes' \cup bump_free'
       PROVE  ~Overlap(Extent(d), x) /\ \E m \in nodes \cup bump_free : Within(x, m)
  <2>1. x \in nodes \cup bump_free
    BY <1>13
  <2>2. x.lo \in Nat /\ x.hi \in Nat /\ x.hi <= a
    BY <1>0, <1>3, <1>11, <2>1, PoolNodes, ConstantFacts
  <2>3. ~Overlap(Extent(d), x) /\ Within(x, x)
    BY <1>3, <1>4, <2>2 DEF Overlap, Within
  <2> QED
    BY <2>1, <2>3
<1>19. ASSUME NEW l \in bump_live'
       PROVE  \/ l \in bump_live /\ ~Overlap(Extent(d), l)
              \/ l.lo = d.lo /\ \A o \in Owners : ~Overlap(Extent(o), l)
  BY <1>4, <1>12, <1>13, <1>16
<1>20. Owners' = Owners \cup {d}
  BY DEF d
<1>21. OwnersOK'
  BY <1>0, <1>5, <1>7, <1>8, <1>14, <1>16, <1>17, <1>18, <1>19, <1>20, OwnersGain
<1>22. CodeApart'
  BY <1>0, <1>8, <1>13 DEF CodeApart, GhostKept
<1>23. WordsOK'
  BY <1>0, <1>8, <1>13, <1>20, WordsStay
<1>24. Served(d)
  BY <1>0, <1>4, <1>6, <1>7, <1>8, <1>14, <1>15, <1>16, <1>21, <1>22, <1>23 DEF Served
<1> QED
  BY <1>24 DEF d

\* arm_ext_app_mem_malloc: whichever part of the heap serves the request.
LEMMA MallocKeeps ==
  ASSUME IInv, GuestRuns, NEW len \in Sizes, NEW a, Mallocs(len, a),
         UNCHANGED <<codeVars, screenMoved>>, GhostKept,
         Owners' = Owners \cup {Block(a, len)}
  PROVE  Served(Block(a, len))
  BY PoolGivesKeeps, BumpReusesKeeps, BumpGrowsKeeps DEF Mallocs

\* A request that fails moves the top of the fallback heap and nothing else.
LEMMA FailureKeeps ==
  ASSUME IInv, GuestRuns, NEW len \in Sizes, MallocFails(len),
         UNCHANGED <<codeVars, screenMoved, freeing, blocks>>, GhostKept
  PROVE  IInv' /\ Code' = Code
<1>0. /\ PoolOK /\ TopOK /\ FallbackOK /\ RegistryOK /\ CodeApart /\ OwnersOK /\ WordsOK
      /\ FreeingOK /\ HeadersOK
  BY DEF IInv
<1>1. heap_top' = Top(len) /\ UNCHANGED <<nodes, bump_live, bump_free>>
  BY DEF MallocFails, BumpIsFull
<1>2. len \in Nat /\ len > 0
  BY ConstantFacts
<1>3. heap_top \in Nat /\ heap_top' \in Nat /\ heap_top <= heap_top'
  BY <1>0, <1>1, <1>2, TopFacts, ConstantFacts DEF TopOK
<1>4. TopOK'
  BY <1>0, <1>1, <1>2, TopFacts, ConstantFacts DEF TopOK, GhostKept
<1>5. \A x : InHeap(x) => InHeap(x)'
  BY <1>0, <1>3, TopMoves
<1>6. PoolOK' /\ HeadersOK' /\ FallbackOK'
  BY <1>0, <1>1, <1>5 DEF PoolOK, HeadersOK, FallbackOK
<1>7. RegistryOK' /\ Code' = Code
  BY <1>0, <1>3, <1>4, CodeStays
<1>8. CodeApart'
  BY <1>0, <1>1, <1>7 DEF CodeApart, GhostKept
<1>9. Owners' = Owners
  BY DEF Owners
<1>10. OwnersOK'
  <2>1. \A b \in Owners : OwnerOK(b) => OwnerOK(b)'
    BY <1>5 DEF OwnerOK
  <2> QED
    BY <1>0, <1>1, <1>9, <2>1 DEF OwnersOK
<1>11. FreeingOK'
  BY <1>0, <1>1, <1>5, <1>9 DEF FreeingOK, GuestRuns, Idle
<1>12. WordsOK'
  BY <1>0, <1>1, <1>7, <1>9, WordsStay
<1>13. RestOK'
  BY DEF GuestRuns, Idle, RestOK
<1> QED
  BY <1>4, <1>6, <1>7, <1>8, <1>10, <1>11, <1>12, <1>13 DEF IInv

-----------------------------------------------------------------------------
(***************************************************************************)
(* A call of mr_free keeps the invariant.                                  *)

\* What a list becomes when f is given back to it, or is withheld.
GivesBack(list, new, f) ==
  new = list \/ (FreeFor(list, f) /\ new = Insert(list, f))

LEMMA GivesBackSparesOthers ==
  ASSUME NEW list, NEW new, NEW f, GivesBack(list, new, f),
         NEW x, x.lo \in Int, x.hi \in Int, x.lo < x.hi,
         ~Overlap(x, f), \A n \in list : ~Overlap(x, n)
  PROVE  \A n \in new : ~Overlap(x, n)
  BY InsertTouchesNoOther DEF GivesBack

\* A block of the pool that is not free may be given back.
LEMMA PoolFreeFor ==
  ASSUME PoolOK, NEW r, InPool(r), \A n \in nodes : ~Overlap(n, r)
  PROVE  FreeFor(nodes, r)
  BY RangeFacts DEF FreeFor, Proper, PoolOK, InPool

\* The pool's list takes a block as it is if its length needs no rounding and the walk
\* reaches it.
LEMMA PoolTakesFacts ==
  ASSUME PoolOK, NEW r, InPool(r), Size(r) = Rounded(Size(r))
  PROVE  /\ r.lo \in Nat /\ r.hi \in Nat /\ r.lo + Header <= r.hi /\ Size(r) >= Header
         /\ PoolTakes(r) = IF WalkReaches(r) THEN Insert(nodes, r) ELSE nodes
<1>1. r.lo \in Nat /\ r.hi \in Nat /\ r.lo < r.hi /\ r = Span(r.lo, r.hi)
  BY RangeFacts DEF InPool
<1>2. Size(r) = r.hi - r.lo /\ r.hi - r.lo \in Nat /\ r.hi - r.lo > 0
  BY <1>1 DEF Size
<1>3. Rounded(r.hi - r.lo) >= 2
  BY <1>2, RoundedBounds
<1>4. r.lo + Rounded(Size(r)) = r.hi
  BY <1>1, <1>2
<1>5. PoolTakes(r) = IF WalkReaches(r) THEN Insert(nodes, r) ELSE nodes
  BY <1>1, <1>4 DEF PoolTakes, InPool
<1> QED
  BY <1>1, <1>2, <1>3, <1>5 DEF Header

\* Where the guest has not edited the list, no header in it is code.
LEMMA NoneBlocked ==
  ASSUME PoolOK, HeadersOK, RegistryOK, CodeApart, ~ghost.edited, NEW n \in nodes
  PROVE  ~Blocked(n)
<1>1. n.lo \in Nat /\ n.hi \in Nat /\ n.lo + 2 <= n.hi
  BY PoolNodes DEF HeadersOK, Header
<1>2. ASSUME NEW c \in Code
      PROVE  ~Overlap(c, Span(n.lo, n.lo + Header))
  <2>1. c.lo \in Int /\ c.hi \in Int /\ ~Overlap(n, c)
    BY RangeFacts DEF RegistryOK, CodeRange, CodeApart
  <2> QED
    BY <1>1, <2>1, SpanFields DEF Overlap, Header
<1> QED
  BY <1>2, NoCodeIn DEF Blocked

\* A list whose blocks hold their headers keeps doing so when it takes one that does.
LEMMA HeadersGivenBack ==
  ASSUME PoolOK, HeadersOK, NEW r, r.lo \in Nat, r.hi \in Nat,
         GivesBack(nodes, nodes', r), nodes' # nodes => r.lo + Header <= r.hi
  PROVE  HeadersOK'
<1>1. CASE nodes' = nodes
  BY <1>1 DEF HeadersOK
<1>2. CASE nodes' # nodes
  <2>1. FreeFor(nodes, r) /\ nodes' = Insert(nodes, r) /\ r.lo + Header <= r.hi
    BY <1>2 DEF GivesBack
  <2>2. ASSUME NEW n \in nodes'
        PROVE  n.lo + Header <= n.hi
    <3>1. Proper(n) /\ (n \in nodes \/ Within(r, n))
      BY <2>1, <2>2, InsertBlocks
    <3> QED
      BY <2>1, <3>1 DEF HeadersOK, Proper, Within, Header
  <2> QED
    BY <2>2 DEF HeadersOK
<1> QED
  BY <1>1, <1>2

\* The pool's list stays sound when a block is given back to it.
LEMMA PoolGivenBack ==
  ASSUME PoolOK, NEW r, InPool(r), GivesBack(nodes, nodes', r)
  PROVE  PoolOK'
<1>1. CASE nodes' = nodes
  BY <1>1 DEF PoolOK
<1>2. CASE FreeFor(nodes, r) /\ nodes' = Insert(nodes, r)
  <2>1. Apart(nodes')
    BY <1>2, InsertBlocks
  <2>2. ASSUME NEW n \in nodes'
        PROVE  InPool(n)
    <3>1. /\ Proper(n)
          /\ n.lo = r.lo \/ \E m \in nodes : m.lo = n.lo
          /\ n.hi = r.hi \/ \E m \in nodes : m.hi = n.hi
      BY <1>2, <2>2, InsertBlocks
    <3>2. Base <= r.lo /\ r.hi <= End
      BY PoolFacts DEF InPool, Within
    <3>3. Base <= n.lo
      BY <3>1, <3>2, PoolNodes
    <3>4. n.hi <= End
      BY <3>1, <3>2, PoolNodes
    <3>5. n.lo \in Int /\ n.hi \in Int /\ n.lo < n.hi /\ n = Span(n.lo, n.hi)
      BY <3>1 DEF Proper
    <3>6. 0 <= n.lo /\ n.lo <= n.hi /\ n.hi <= MemEnd
      BY <3>3, <3>4, <3>5, ConstantFacts
    <3>7. Span(n.lo, n.hi) \in Ranges
      BY <3>5, <3>6, RangeFacts
    <3>8. n \in Ranges
      BY <3>5, <3>7
    <3> QED
      BY <3>3, <3>4, <3>5, <3>8, PoolFacts DEF InPool, Within
  <2> QED
    BY <2>1, <2>2 DEF PoolOK
<1> QED
  BY <1>1, <1>2 DEF GivesBack

\* The fallback heap stays sound when a block is given back to it.
LEMMA FallbackGivenBack ==
  ASSUME FallbackOK, TopOK, NEW r, InHeap(r), GivesBack(bump_free, bump_free', r),
         \A l \in bump_live : ~Overlap(l, r), UNCHANGED <<heap_top, bump_live>>
  PROVE  FallbackOK'
<1>0. \A x : InHeap(x) <=> InHeap(x)'
  BY DEF InHeap
<1>1. CASE bump_free' = bump_free
  BY <1>0, <1>1 DEF FallbackOK
<1>2. CASE FreeFor(bump_free, r) /\ bump_free' = Insert(bump_free, r)
  <2>1. Apart(bump_free')
    BY <1>2, InsertBlocks
  <2>2. r.lo \in Nat /\ r.hi \in Nat /\ End <= r.lo /\ r.hi <= heap_top
    BY RangeFacts DEF InHeap
  <2>3. ASSUME NEW n \in bump_free'
        PROVE  InHeap(n)
    <3>1. /\ Proper(n)
          /\ n.lo = r.lo \/ \E m \in bump_free : m.lo = n.lo
          /\ n.hi = r.hi \/ \E m \in bump_free : m.hi = n.hi
      BY <1>2, <2>3, InsertBlocks
    <3>2. n.lo \in Int /\ n.hi \in Int /\ n.lo < n.hi /\ n = Span(n.lo, n.hi)
      BY <3>1 DEF Proper
    <3>3. End <= n.lo
      BY <2>2, <3>1, FallbackBlocks
    <3>4. n.hi <= heap_top
      BY <2>2, <3>1, FallbackBlocks
    <3>5. heap_top <= MemEnd /\ heap_top \in Nat
      BY ConstantFacts DEF TopOK
    <3>6. Span(n.lo, n.hi) \in Ranges
      <4>1. 0 <= n.lo /\ n.lo <= n.hi /\ n.hi <= MemEnd
        BY <3>2, <3>3, <3>4, <3>5, ConstantFacts
      <4> QED
        BY <3>2, <4>1, RangeFacts
    <3>7. ~Overlap(n, Reserved)
      <4>1. Reserved.lo = StackLo /\ Reserved.hi = CodeHi
        BY SpanFields DEF Reserved
      <4>2. Reserved.lo \in Int /\ Reserved.hi \in Int /\ Reserved.lo < Reserved.hi
        BY <4>1, ConstantFacts
      <4>3. ~Overlap(Reserved, r) /\ \A m \in bump_free : ~Overlap(Reserved, m)
        BY OverlapFacts DEF FallbackOK, InHeap
      <4> QED
        BY <1>2, <2>3, <4>2, <4>3, InsertTouchesNoOther, OverlapFacts
    <3> QED
      BY <3>2, <3>3, <3>4, <3>6, <3>7 DEF InHeap
  <2>4. ASSUME NEW n \in bump_free', NEW l \in bump_live'
        PROVE  ~Overlap(n, l)
    <3>1. l.lo \in Int /\ l.hi \in Int /\ l.lo < l.hi
      BY FallbackBlocks
    <3>2. ~Overlap(l, r) /\ \A m \in bump_free : ~Overlap(l, m)
      BY OverlapFacts DEF FallbackOK
    <3> QED
      BY <1>2, <3>1, <3>2, InsertTouchesNoOther, OverlapFacts
  <2> QED
    BY <1>0, <2>1, <2>3, <2>4 DEF FallbackOK
<1> QED
  BY <1>1, <1>2 DEF GivesBack

LEMMA FreeingPiece ==
  ASSUME FreeingOK, freeing.to \in {"pool", "bump"}
  PROVE  Piece(freeing.rest)
  BY DEF FreeingOK, InPool, InHeap, Piece

LEMMA FreeingRange ==
  ASSUME FreeingOK, freeing.to \in {"pool", "bump"}
  PROVE  /\ freeing.rest.lo \in Nat /\ freeing.rest.hi \in Nat
         /\ freeing.rest.lo < freeing.rest.hi /\ freeing.rest.hi <= MemEnd
         /\ freeing.rest = Span(freeing.rest.lo, freeing.rest.hi)
  BY RangeFacts DEF FreeingOK, InPool, InHeap

\* A pass of mr_free: a fragment f that holds no code is given back, the code behind it,
\* up to m, is left out, and the rest waits for the next pass.
LEMMA FreeStepFacts ==
  ASSUME CodeSound, FreeStep, Piece(freeing.rest)
  PROVE  \E f \in [lo : Nat, hi : Nat], m \in Nat :
           /\ f.lo = freeing.rest.lo /\ f.lo <= f.hi /\ f.hi <= m /\ m <= freeing.rest.hi
           /\ f = Span(f.lo, f.hi)
           /\ m = f.hi => m = freeing.rest.hi
           /\ f.lo < f.hi => \A c \in Code : ~Overlap(c, f)
           /\ TakesFragment(f)
           /\ freeing' = IF m < freeing.rest.hi
                         THEN [freeing EXCEPT !.rest = Span(m, freeing.rest.hi)] ELSE Idle
           /\ \A w \in Int : f.hi <= w /\ w < m => \E c \in Code : c.lo <= w /\ w < c.hi
<1> DEFINE r == freeing.rest
<1>1. r.lo \in Nat /\ r.hi \in Nat /\ r.lo < r.hi /\ r = Span(r.lo, r.hi)
  BY PieceFacts
<1>2. CASE FirstCode(r) = {} /\ TakesFragment(r) /\ freeing' = Idle
  <2>1. \A c \in Code : ~Overlap(c, r)
    BY <1>1, <1>2, FirstCodeFacts
  <2>2. r \in [lo : Nat, hi : Nat]
    BY <1>1 DEF Span
  <2> HIDE DEF r
  <2>3. freeing' = IF r.hi < r.hi THEN [freeing EXCEPT !.rest = Span(r.hi, r.hi)] ELSE Idle
    BY <1>1, <1>2
  <2>4. /\ r.lo = r.lo /\ r.lo <= r.hi /\ r.hi <= r.hi /\ r.hi <= r.hi /\ r = Span(r.lo, r.hi)
        /\ r.lo < r.hi => \A c \in Code : ~Overlap(c, r)
        /\ TakesFragment(r)
        /\ \A w \in Int : r.hi <= w /\ w < r.hi => \E c \in Code : c.lo <= w /\ w < c.hi
    BY <1>1, <1>2, <2>1
  <2> QED
    BY <1>1, <2>2, <2>3, <2>4 DEF r
<1>3. CASE \E c \in FirstCode(r) :
             /\ TakesFragment(Span(r.lo, c.lo))
             /\ freeing' = IF c.hi < r.hi
                           THEN [freeing EXCEPT !.rest = Span(c.hi, r.hi)] ELSE Idle
  <2>1. PICK d \in FirstCode(r) :
             /\ TakesFragment(Span(r.lo, d.lo))
             /\ freeing' = IF d.hi < r.hi
                           THEN [freeing EXCEPT !.rest = Span(d.hi, r.hi)] ELSE Idle
    BY <1>3
  <2>2. /\ d.lo \in Nat /\ d.hi \in Nat
        /\ r.lo <= d.lo /\ d.lo < d.hi /\ d.hi <= r.hi
        /\ \E c \in Code : Within(d, c)
        /\ r.lo < d.lo => \A c \in Code : ~Overlap(c, Span(r.lo, d.lo))
    BY <1>1, FirstCodeFacts
  <2> DEFINE f == Span(r.lo, d.lo)
  <2>3. f.lo = r.lo /\ f.hi = d.lo /\ f \in [lo : Nat, hi : Nat]
    BY <1>1, <2>2 DEF Span
  <2>4. d.hi = f.hi => d.hi = r.hi
    BY <2>2, <2>3
  <2>5. \A w \in Int : f.hi <= w /\ w < d.hi => \E c \in Code : c.lo <= w /\ w < c.hi
    <3>1. PICK c \in Code : c.lo <= d.lo /\ d.hi <= c.hi
      BY <2>2 DEF Within
    <3>2. c.lo \in Int /\ c.hi \in Int
      BY PieceFacts DEF CodeSound
    <3> QED
      BY <2>2, <2>3, <3>1, <3>2
  <2>6. f = Span(f.lo, f.hi) /\ TakesFragment(f)
        /\ (f.lo < f.hi => \A c \in Code : ~Overlap(c, f))
    BY <2>1, <2>2, <2>3
  <2>7. f.lo = freeing.rest.lo /\ f.lo <= f.hi /\ f.hi <= d.hi /\ d.hi <= freeing.rest.hi
    BY <2>2, <2>3
  <2>8. freeing' = IF d.hi < freeing.rest.hi
                   THEN [freeing EXCEPT !.rest = Span(d.hi, freeing.rest.hi)] ELSE Idle
    BY <2>1
  <2> HIDE DEF f, r
  <2> QED
    BY <2>2, <2>3, <2>4, <2>5, <2>6, <2>7, <2>8
<1> QED
  BY <1>2, <1>3 DEF FreeStep

\* The fragment is given back to the heap it came from, whole or not at all; the pool
\* withholds it only if it holds no header or the guest has edited the list.
LEMMA FragmentGoesBack ==
  ASSUME IInv, FreeStep, NEW f \in [lo : Nat, hi : Nat], NEW m \in Nat,
         f.lo = freeing.rest.lo, f.lo <= f.hi, f.hi <= m, m <= freeing.rest.hi,
         f = Span(f.lo, f.hi), TakesFragment(f), Exact'
  PROVE  \/ /\ freeing.to = "pool" /\ UNCHANGED bump_free
            /\ f.lo < f.hi => InPool(f)
            /\ GivesBack(nodes, nodes', f)
            /\ nodes' # nodes => f.lo + Header <= f.hi /\ WalkReaches(f)
            /\ ~ghost.edited /\ f.lo + Header <= f.hi =>
                 FreeFor(nodes, f) /\ nodes' = Insert(nodes, f)
         \/ /\ freeing.to = "bump" /\ UNCHANGED nodes
            /\ f.lo < f.hi => InHeap(f)
            /\ GivesBack(bump_free, bump_free', f)
<1> DEFINE r == freeing.rest
<1>0. /\ PoolOK /\ HeadersOK /\ FallbackOK /\ TopOK /\ RegistryOK /\ CodeApart /\ FreeingOK
      /\ ghost \in Ghosts
  BY DEF IInv, WordsOK
<1>1. /\ r.lo \in Nat /\ r.hi \in Nat /\ r.lo < r.hi /\ r.hi <= MemEnd
      /\ f.lo \in Nat /\ f.hi \in Nat
  BY <1>0, FreeingRange DEF FreeStep
<1>2. CASE freeing.to = "pool"
  <2>1. InPool(r) /\ \A n \in nodes : ~Overlap(n, r)
    BY <1>0, <1>2 DEF FreeingOK
  <2>2. UNCHANGED bump_free /\ nodes' = IF Size(f) >= Header THEN PoolTakes(f) ELSE nodes
    BY <1>2 DEF TakesFragment
  <2>3. CASE f.lo + Header <= f.hi
    <3>0. f.lo < f.hi /\ Size(f) >= Header
      BY <1>1, <2>3 DEF Size, Header
    <3>1. InPool(f)
      <4>1. Span(f.lo, f.hi) \in Ranges
        BY <1>1, <3>0, ConstantFacts, SpanIsRange
      <4>2. Within(f, Pool)
        BY <1>1, <2>1, PoolFacts, ConstantFacts DEF InPool, Within
      <4> QED
        BY <1>2, <3>0, <4>1, <4>2 DEF InPool
    <3>2. \A n \in nodes : ~Overlap(n, f)
      BY <1>0, <1>1, <2>1, PoolNodes DEF Overlap
    <3>3. FreeFor(nodes, f)
      BY <1>0, <3>1, <3>2, PoolFreeFor
    <3>4. Size(f) = Rounded(Size(f))
      BY <1>0, <1>2, <3>0, FragmentsAreMarked DEF TakesFragment
    <3>5. nodes' = IF WalkReaches(f) THEN Insert(nodes, f) ELSE nodes
      BY <1>0, <2>2, <3>0, <3>1, <3>4, PoolTakesFacts
    <3>6. ~ghost.edited => WalkReaches(f)
      BY <1>0, NoneBlocked DEF WalkReaches
    <3> QED
      BY <1>2, <2>2, <2>3, <3>0, <3>1, <3>3, <3>5, <3>6 DEF GivesBack
  <2>4. CASE ~(f.lo + Header <= f.hi)
    <3>1. ~(Size(f) >= Header)
      BY <1>1, <2>4 DEF Size, Header
    <3>2. nodes' = nodes
      BY <2>2, <3>1
    <3>3. f.lo < f.hi => InPool(f)
      <4>1. SUFFICES ASSUME f.lo < f.hi
                     PROVE  InPool(f)
        OBVIOUS
      <4>2. Span(f.lo, f.hi) \in Ranges
        BY <1>1, <4>1, ConstantFacts, SpanIsRange
      <4>3. Within(f, Pool)
        BY <1>1, <2>1, PoolFacts, ConstantFacts DEF InPool, Within
      <4> QED
        BY <4>1, <4>2, <4>3 DEF InPool
    <3> QED
      BY <1>2, <2>2, <2>4, <3>2, <3>3 DEF GivesBack
  <2> QED
    BY <2>3, <2>4
<1>3. CASE freeing.to = "bump"
  <2>1. InHeap(r) /\ \A n \in bump_free \cup bump_live : ~Overlap(n, r)
    BY <1>0, <1>3 DEF FreeingOK
  <2>2. UNCHANGED nodes /\ bump_free' = IF Size(f) > 0 THEN Insert(bump_free, f) ELSE bump_free
    BY <1>3 DEF TakesFragment
  <2>3. CASE f.lo < f.hi
    <3>1. InHeap(f)
      <4>1. Span(f.lo, f.hi) \in Ranges
        BY <1>1, <2>3, ConstantFacts, SpanIsRange
      <4>2. ~Overlap(f, Reserved)
        BY <1>1, <2>1, ConstantFacts, SpanFields DEF InHeap, Overlap, Reserved
      <4>3. heap_top \in Int
        BY <1>0, ConstantFacts DEF TopOK
      <4> QED
        BY <1>1, <2>1, <2>3, <4>1, <4>2, <4>3, ConstantFacts DEF InHeap
    <3>2. \A n \in bump_free : ~Overlap(n, f)
      BY <1>0, <1>1, <2>1, FallbackBlocks DEF Overlap
    <3>3. FreeFor(bump_free, f)
      BY <1>0, <2>3, <3>2, FallbackBlocks DEF FreeFor, Proper, FallbackOK
    <3>4. bump_free' = Insert(bump_free, f)
      BY <1>1, <2>2, <2>3 DEF Size
    <3> QED
      BY <1>3, <2>2, <3>1, <3>3, <3>4 DEF GivesBack
  <2>4. CASE ~(f.lo < f.hi)
    <3>1. Size(f) = 0
      BY <1>1, <2>4 DEF Size
    <3>2. bump_free' = bump_free
      BY <2>2, <3>1
    <3> QED
      BY <1>3, <2>2, <2>4, <3>2 DEF GivesBack
  <2> QED
    BY <2>3, <2>4
<1> QED
  BY <1>2, <1>3 DEF FreeStep

\* What is left of the block to give back keeps its place.
LEMMA RestOfBlock ==
  ASSUME NEW r, r.lo \in Nat, r.hi \in Nat, NEW m \in Nat, r.lo <= m, m < r.hi,
         NEW x, x = Span(m, r.hi)
  PROVE  /\ x.lo = m /\ x.hi = r.hi /\ x.lo \in Int /\ x.hi \in Int /\ x.lo < x.hi
         /\ Within(x, r)
         /\ r.hi <= MemEnd => x \in Ranges
  BY SpanFields, SpanIsRange DEF Within

\* A pass of mr_free keeps the invariant.
LEMMA FreeStepKeeps ==
  ASSUME IInv, FreeStep, Exact'
  PROVE  IInv'
<1> DEFINE r == freeing.rest
<1>0. /\ PoolOK /\ TopOK /\ FallbackOK /\ RegistryOK /\ CodeApart /\ OwnersOK /\ FreeingOK
      /\ WordsOK /\ HeadersOK /\ RestOK
  BY DEF IInv
<1>1. PICK f \in [lo : Nat, hi : Nat], m \in Nat :
           /\ f.lo = r.lo /\ f.lo <= f.hi /\ f.hi <= m /\ m <= r.hi
           /\ f = Span(f.lo, f.hi)
           /\ m = f.hi => m = r.hi
           /\ f.lo < f.hi => \A c \in Code : ~Overlap(c, f)
           /\ TakesFragment(f)
           /\ freeing' = IF m < r.hi THEN [freeing EXCEPT !.rest = Span(m, r.hi)] ELSE Idle
           /\ \A w \in Int : f.hi <= w /\ w < m => \E c \in Code : c.lo <= w /\ w < c.hi
  BY <1>0, CodeIsSound, FreeingPiece, FreeStepFacts DEF FreeStep
<1>2. \/ /\ freeing.to = "pool" /\ UNCHANGED bump_free
         /\ f.lo < f.hi => InPool(f)
         /\ GivesBack(nodes, nodes', f)
         /\ nodes' # nodes => f.lo + Header <= f.hi /\ WalkReaches(f)
         /\ ~ghost.edited /\ f.lo + Header <= f.hi =>
              FreeFor(nodes, f) /\ nodes' = Insert(nodes, f)
      \/ /\ freeing.to = "bump" /\ UNCHANGED nodes
         /\ f.lo < f.hi => InHeap(f)
         /\ GivesBack(bump_free, bump_free', f)
  BY <1>1, FragmentGoesBack
<1>3. /\ r.lo \in Nat /\ r.hi \in Nat /\ r.lo < r.hi /\ r.hi <= MemEnd
      /\ freeing.to \in {"pool", "bump"} /\ f.lo \in Nat /\ f.hi \in Nat
  BY <1>0, FreeingRange DEF FreeStep
<1>4. UNCHANGED <<heap_top, bump_live, codeVars, screenMoved, blocks>> /\ GhostKept
  BY <1>0, <1>1, FragmentsAreMarked DEF FreeStep, WordsOK, TakesFragment
<1>5. TopOK' /\ RegistryOK' /\ Code' = Code
  <2>1. heap_top <= heap_top'
    BY <1>0, <1>4, ConstantFacts DEF TopOK
  <2> QED
    BY <1>0, <1>4, <2>1, TopStays, CodeStays DEF GhostKept
<1>6. Owners = blocks /\ Owners' = Owners
  <2>1. freeing.to # "block"
    BY <1>3
  <2>2. freeing'.to # "block"
    BY <1>1, <1>3, <1>0 DEF Idle, FreeingOK
  <2> QED
    BY <1>4, <2>1, <2>2 DEF Owners
<1>7. \A x : InHeap(x) <=> InHeap(x)'
  BY <1>4 DEF InHeap
<1>8. f.lo >= f.hi => nodes' = nodes /\ bump_free' = bump_free
  BY <1>1, <1>2, <1>3 DEF GivesBack, FreeFor, Proper
<1>9. \A n \in bump_live : ~Overlap(n, r) /\ ~Overlap(r, n)
  <2> SUFFICES ASSUME NEW n \in bump_live
               PROVE  ~Overlap(n, r) /\ ~Overlap(r, n)
    OBVIOUS
  <2>1. CASE freeing.to = "bump"
    BY <1>0, <2>1, OverlapFacts DEF FreeingOK
  <2>2. CASE freeing.to = "pool"
    <3>1. r.hi <= End
      BY <1>0, <2>2, PoolFacts DEF FreeingOK, InPool, Within
    <3>2. n.lo \in Nat /\ n.hi \in Nat /\ End <= n.lo
      BY <1>0, FallbackBlocks
    <3> QED
      BY <1>3, <3>1, <3>2, ConstantFacts DEF Overlap
  <2> QED
    BY <1>3, <2>1, <2>2
<1>10. PoolOK'
  <2>1. CASE f.lo < f.hi
    BY <1>0, <1>2, <2>1, PoolGivenBack DEF PoolOK
  <2>2. CASE ~(f.lo < f.hi)
    BY <1>0, <1>1, <1>3, <1>8, <2>2 DEF PoolOK
  <2> QED
    BY <2>1, <2>2
<1>11. FallbackOK'
  <2>1. CASE f.lo < f.hi /\ freeing.to = "bump"
    <3>1. \A l \in bump_live : ~Overlap(l, f)
      BY <1>0, <1>1, <1>3, <1>9, FallbackBlocks DEF Overlap
    <3> QED
      BY <1>0, <1>2, <1>4, <2>1, <3>1, FallbackGivenBack
  <2>2. CASE ~(f.lo < f.hi) \/ freeing.to = "pool"
    <3>1. bump_free' = bump_free
      BY <1>1, <1>2, <1>3, <1>8, <2>2
    <3> QED
      BY <1>0, <1>4, <3>1, FallbackStays
  <2> QED
    BY <1>3, <2>1, <2>2
<1>12. ASSUME NEW x, x.lo \in Int, x.hi \in Int, x.lo < x.hi,
              f.lo < f.hi => ~Overlap(x, f)
       PROVE  /\ (\A n \in nodes : ~Overlap(x, n)) => \A n \in nodes' : ~Overlap(x, n)
              /\ (\A n \in bump_free : ~Overlap(x, n)) => \A n \in bump_free' : ~Overlap(x, n)
  <2>1. CASE f.lo < f.hi
    BY <1>2, <1>12, <2>1, GivesBackSparesOthers
  <2>2. CASE ~(f.lo < f.hi)
    BY <1>1, <1>3, <1>8, <2>2
  <2> QED
    BY <2>1, <2>2
<1>13. CodeApart'
  <2>1. ASSUME NEW c \in Code
        PROVE  /\ c.lo \in Int /\ c.hi \in Int /\ c.lo < c.hi
               /\ f.lo < f.hi => ~Overlap(c, f)
    BY <1>0, <1>1, RangeFacts DEF RegistryOK, CodeRange
  <2>2. \A c \in Code, n \in bump_free' : ~Overlap(n, c)
    BY <1>0, <1>12, <2>1, OverlapFacts DEF CodeApart
  <2>3. ~ghost.edited => \A c \in Code, n \in nodes' : ~Overlap(n, c)
    BY <1>0, <1>12, <2>1, OverlapFacts DEF CodeApart
  <2> QED
    BY <1>4, <1>5, <2>2, <2>3 DEF CodeApart, GhostKept
<1>14. ASSUME NEW b \in Owners
       PROVE  /\ Extent(b).lo \in Int /\ Extent(b).hi \in Int /\ Extent(b).lo < Extent(b).hi
              /\ ~Overlap(Extent(b), r) /\ ~Overlap(Extent(b), f)
  <2>1. Extent(b).lo \in Int /\ Extent(b).hi \in Int /\ Extent(b).lo < Extent(b).hi
    BY <1>0, OwnerFacts DEF OwnersOK
  <2>2. ~Overlap(Extent(b), r)
    BY <1>0, <1>3 DEF FreeingOK
  <2> QED
    BY <1>1, <1>3, <2>1, <2>2 DEF Overlap
<1>15. OwnersOK'
  <2>1. \A b \in Owners, n \in nodes' \cup bump_free' : ~Overlap(Extent(b), n)
    BY <1>0, <1>12, <1>14 DEF OwnersOK
  <2>2. \A b \in Owners : OwnerOK(b)'
    BY <1>0, <1>7 DEF OwnersOK, OwnerOK
  <2> QED
    BY <1>0, <1>4, <1>6, <2>1, <2>2 DEF OwnersOK
<1>16. FreeingOK'
  <2>1. CASE m < r.hi
    <3>1. PICK x :
            /\ x = Span(m, r.hi)
            /\ x.lo = m /\ x.hi = r.hi /\ x.lo \in Int /\ x.hi \in Int /\ x.lo < x.hi
            /\ Within(x, r) /\ x \in Ranges
      BY <1>1, <1>3, <2>1, RestOfBlock
    <3>2. freeing' = [to |-> freeing.to, rest |-> x]
      BY <1>0, <1>1, <2>1, <3>1 DEF FreeingOK
    <3>3. ~Overlap(x, f)
      BY <1>1, <1>3, <3>1 DEF Overlap
    <3>4. \A y : y.lo \in Int /\ y.hi \in Int /\ ~Overlap(y, r) => ~Overlap(y, x)
      BY <1>3, <3>1, OverlapFacts
    <3>5. CASE freeing.to = "pool"
      <4>1. InPool(r) /\ \A n \in nodes : ~Overlap(n, r)
        BY <1>0, <3>5 DEF FreeingOK
      <4>2. \A n \in nodes : ~Overlap(x, n)
        BY <1>0, <3>4, <4>1, PoolNodes, OverlapFacts
      <4>3. \A n \in nodes' : ~Overlap(n, x)
        BY <1>12, <3>1, <3>3, <4>2, OverlapFacts
      <4>4. InPool(x)
        BY <1>1, <1>3, <3>1, <3>5, <4>1, PoolFacts, ConstantFacts DEF InPool, Within
      <4>5. \A b \in Owners' : ~Overlap(Extent(b), x)
        BY <1>6, <1>14, <3>4
      <4> QED
        BY <3>1, <3>2, <3>5, <4>3, <4>4, <4>5 DEF FreeingOK
    <3>6. CASE freeing.to = "bump"
      <4>1. InHeap(r) /\ \A n \in bump_free \cup bump_live : ~Overlap(n, r)
        BY <1>0, <3>6 DEF FreeingOK
      <4>2. \A n \in bump_free \cup bump_live : ~Overlap(x, n) /\ ~Overlap(n, x)
        BY <1>0, <3>4, <4>1, FallbackBlocks, OverlapFacts
      <4>3. \A n \in bump_free' \cup bump_live' : ~Overlap(n, x)
        BY <1>4, <1>12, <3>1, <3>3, <4>2, OverlapFacts
      <4>4. InHeap(x)
        <5>1. ~Overlap(x, Reserved)
          <6>1. Reserved.lo \in Int /\ Reserved.hi \in Int
            BY SpanFields, ConstantFacts DEF Reserved
          <6> QED
            BY <3>4, <4>1, <6>1, OverlapFacts DEF InHeap
        <5>2. heap_top \in Int
          BY <1>0, ConstantFacts DEF TopOK
        <5> QED
          BY <1>1, <1>3, <3>1, <4>1, <5>1, <5>2, ConstantFacts DEF InHeap
      <4>5. \A b \in Owners' : ~Overlap(Extent(b), x)
        BY <1>6, <1>14, <3>4
      <4>6. InHeap(x)'
        BY <1>7, <4>4
      <4> QED
        BY <3>1, <3>2, <3>6, <4>3, <4>5, <4>6 DEF FreeingOK
    <3> QED
      BY <1>3, <3>5, <3>6
  <2>2. CASE ~(m < r.hi)
    BY <1>1, <2>2, RangeFacts DEF FreeingOK, Idle
  <2> QED
    BY <2>1, <2>2
<1>17. WordsOK'
  <2>1. ASSUME ~ghost.edited, NEW w \in Words(Pool)
        PROVE  Accounted(w)'
    <3>0. w \in Int
      BY PoolFacts, ConstantFacts DEF Words
    <3>1. Accounted(w)
      BY <1>0, <2>1 DEF WordsOK
    <3>2. CASE \E n \in nodes : w \in Words(n)
      <4>1. \E n \in nodes' : w \in Words(n)
        <5>1. CASE nodes' = nodes
          BY <3>2, <5>1
        <5>2. CASE FreeFor(nodes, f) /\ nodes' = Insert(nodes, f)
          BY <3>0, <3>2, <5>2, InsertWords
        <5> QED
          BY <1>2, <5>1, <5>2 DEF GivesBack
      <4> QED
        BY <4>1 DEF Accounted
    <3>3. CASE \E b \in Owners : w \in Words(Extent(b))
      BY <1>6, <3>3 DEF Accounted
    <3>4. CASE \E v \in {w - 1, w, w + 1} : v \in ghost.code
      BY <1>4, <3>4 DEF Accounted, GhostKept
    <3>5. CASE freeing.to = "pool" /\ w \in Words(r)
      <4>0. r.lo <= w /\ w < r.hi
        BY <1>3, <3>0, <3>5 DEF Words
      <4>1. ASSUME NEW v \in Int, f.hi <= v, v < m
            PROVE  v \in ghost'.code
        <5>1. PICK c \in Code : c.lo <= v /\ v < c.hi
          BY <1>1, <4>1
        <5>2. c.lo \in Int /\ c.hi \in Int
          BY <1>0, RangeFacts DEF RegistryOK, CodeRange
        <5>3. v \in Words(c)
          BY <4>1, <5>1, <5>2 DEF Words
        <5>4. InPool(r)
          BY <1>0, <3>5 DEF FreeingOK
        <5>5. v \in Words(Pool)
          BY <1>1, <1>3, <4>1, <5>4, PoolFacts, ConstantFacts DEF InPool, Within, Words
        <5> QED
          BY <1>0, <1>4, <5>3, <5>5 DEF WordsOK, GhostKept
      <4>2. CASE w < f.hi
        <5>1. w \in Words(f) /\ f.lo < f.hi
          BY <1>1, <1>3, <3>0, <4>0, <4>2 DEF Words
        <5>2. CASE f.lo + Header <= f.hi
          <6>1. FreeFor(nodes, f) /\ nodes' = Insert(nodes, f)
            BY <1>2, <2>1, <3>5, <5>2
          <6>2. \E n \in nodes' : w \in Words(n)
            BY <3>0, <5>1, <6>1, InsertWords
          <6> QED
            BY <6>2 DEF Accounted
        <5>3. CASE ~(f.lo + Header <= f.hi)
          <6>1. w = r.lo /\ f.hi = w + 1
            BY <1>1, <1>3, <3>0, <4>0, <4>2, <5>3 DEF Header
          <6>2. CASE f.hi < m
            BY <1>1, <1>3, <4>1, <6>1, <6>2 DEF Accounted
          <6>3. CASE f.hi = m
            <7>1. r.hi = r.lo + 1
              BY <1>1, <6>1, <6>3
            <7>2. r.lo - 1 \in ghost.code
              BY <1>0, <1>3, <3>5, <7>1 DEF RestOK, Header
            <7> QED
              BY <1>4, <6>1, <7>2 DEF Accounted, GhostKept
          <6> QED
            BY <1>1, <1>3, <6>2, <6>3
        <5> QED
          BY <5>2, <5>3
      <4>4. CASE f.hi <= w /\ w < m
        BY <3>0, <4>1, <4>4 DEF Accounted
      <4>3. CASE m <= w
        <5>1. m < r.hi
          BY <1>3, <3>0, <4>0, <4>3
        <5>2. freeing' = [to |-> freeing.to, rest |-> Span(m, r.hi)]
          BY <1>0, <1>1, <5>1 DEF FreeingOK
        <5>3. w \in Words(Span(m, r.hi))
          BY <1>3, <3>0, <4>0, <4>3, SpanFields DEF Words
        <5> QED
          BY <3>5, <5>2, <5>3 DEF Accounted
      <4> QED
        BY <1>3, <3>0, <4>2, <4>3, <4>4
    <3> QED
      BY <3>1, <3>2, <3>3, <3>4, <3>5 DEF Accounted
  <2> QED
    BY <1>0, <1>4, <1>5, <2>1 DEF WordsOK, GhostKept
<1>18. HeadersOK'
  BY <1>0, <1>1, <1>2, <1>3, HeadersGivenBack DEF HeadersOK
<1>19. RestOK'
  <2>1. SUFFICES ASSUME freeing'.to = "pool"
                 PROVE  freeing'.rest.lo - 1 \in ghost'.code
    BY DEF RestOK
  <2>2. m < r.hi
    BY <1>1, <2>1 DEF Idle
  <2>3. freeing' = [to |-> freeing.to, rest |-> Span(m, r.hi)]
    BY <1>0, <1>1, <2>2 DEF FreeingOK
  <2>4. freeing.to = "pool" /\ freeing'.rest.lo = m
    BY <2>1, <2>3, SpanFields
  <2>5. f.hi <= m - 1 /\ m - 1 < m /\ m - 1 \in Int
    BY <1>1, <1>3, <2>2
  <2>6. PICK c \in Code : c.lo <= m - 1 /\ m - 1 < c.hi
    BY <1>1, <2>5
  <2>7. c.lo \in Int /\ c.hi \in Int
    BY <1>0, RangeFacts DEF RegistryOK, CodeRange
  <2>8. m - 1 \in Words(c)
    BY <2>5, <2>6, <2>7 DEF Words
  <2>9. InPool(r)
    BY <1>0, <2>4 DEF FreeingOK
  <2>10. m - 1 \in Words(Pool)
    BY <1>1, <1>3, <2>2, <2>5, <2>9, PoolFacts, ConstantFacts DEF InPool, Within, Words
  <2> QED
    BY <1>0, <1>4, <2>4, <2>8, <2>10 DEF WordsOK, GhostKept
<1> QED
  BY <1>5, <1>10, <1>11, <1>13, <1>15, <1>16, <1>17, <1>18, <1>19 DEF IInv

\* What a block of the pool occupies, rounded up.
LEMMA WholeFacts ==
  ASSUME NEW b, b.lo \in Nat, b.hi \in Nat, b.lo < b.hi
  PROVE  /\ Whole(b).lo = b.lo /\ Whole(b).hi \in Nat /\ b.hi <= Whole(b).hi
         /\ Whole(b).lo + Header <= Whole(b).hi
         /\ Within(Whole(b), Pool) => Within(b, Pool)
<1>1. b.hi - b.lo \in Nat /\ Size(b) = b.hi - b.lo
  BY DEF Size
<1>2. Whole(b).lo = b.lo /\ Whole(b).hi = b.lo + Rounded(b.hi - b.lo)
  BY <1>1, SpanFields DEF Whole
<1>3. /\ Rounded(b.hi - b.lo) \in Nat /\ b.hi - b.lo <= Rounded(b.hi - b.lo)
      /\ Rounded(b.hi - b.lo) >= 2
  BY <1>1, RoundedBounds
<1>4. Whole(b).hi \in Nat /\ b.hi <= Whole(b).hi /\ Whole(b).lo + Header <= Whole(b).hi
  BY <1>1, <1>2, <1>3 DEF Header
<1>5. Pool.lo \in Int /\ Pool.hi \in Int
  BY PoolFacts, ConstantFacts
<1> QED
  BY <1>2, <1>4, <1>5 DEF Within

\* A block's way back: to the fallback heap if that knows it, or to the pool.
LEMMA FindsOwnerKeeps ==
  ASSUME IInv, FindsOwner
  PROVE  IInv'
<1>0. /\ PoolOK /\ TopOK /\ FallbackOK /\ RegistryOK /\ CodeApart /\ OwnersOK /\ FreeingOK
      /\ WordsOK /\ HeadersOK
  BY DEF IInv
<1>1. PICK b : b = freeing.rest
  OBVIOUS
<1>2. /\ freeing.to = "block"
      /\ \/ \E l \in LiveAt(b) : freeing' = [to |-> "bump", rest |-> l]
         \/ /\ LiveAt(b) = {} /\ Within(Whole(b), Pool)
            /\ freeing' = [to |-> "pool", rest |-> Whole(b)]
         \/ LiveAt(b) = {} /\ ~Within(Whole(b), Pool) /\ freeing' = Idle
      /\ bump_live' = bump_live \ LiveAt(b)
      /\ UNCHANGED <<nodes, heap_top, bump_free, codeVars, screenMoved, blocks, ghost>>
  BY <1>1 DEF FindsOwner
<1>3. /\ Owners = blocks \cup {b} /\ b \notin blocks /\ OwnerOK(b)
      /\ Owners' = blocks
  <2>1. freeing'.to # "block"
    BY <1>2 DEF Idle
  <2> QED
    BY <1>0, <1>1, <1>2, <2>1 DEF Owners, OwnersOK, FreeingOK
<1>4. /\ b.lo \in Nat /\ b.hi \in Nat /\ b.lo < b.hi /\ b.hi <= MemEnd
      /\ Extent(b).lo = b.lo /\ Extent(b).hi \in Nat /\ b.hi <= Extent(b).hi
      /\ Within(b, Pool) => /\ Extent(b) = Whole(b)
                            /\ Base <= b.lo /\ Extent(b).hi <= End
      /\ ~Within(b, Pool) => /\ Extent(b) = b /\ InHeap(b)
                             /\ End <= b.lo /\ b.hi <= heap_top /\ heap_top \in Nat
  BY <1>0, <1>3, OwnerFacts
<1>5. /\ Whole(b).lo = b.lo /\ Whole(b).hi \in Nat /\ b.hi <= Whole(b).hi
      /\ Whole(b).lo + Header <= Whole(b).hi
      /\ Within(Whole(b), Pool) => Within(b, Pool)
  BY <1>4, WholeFacts
<1>6. TopOK' /\ RegistryOK' /\ Code' = Code /\ PoolOK' /\ HeadersOK'
  <2>1. heap_top <= heap_top'
    BY <1>0, <1>2, ConstantFacts DEF TopOK
  <2> QED
    BY <1>0, <1>2, <2>1, TopStays, CodeStays DEF PoolOK, HeadersOK
<1>7. \A x : InHeap(x) <=> InHeap(x)'
  BY <1>2 DEF InHeap
<1>8. FallbackOK'
  BY <1>0, <1>2, <1>7 DEF FallbackOK
<1>9. CodeApart'
  BY <1>0, <1>2, <1>6 DEF CodeApart
<1>10. OwnersOK'
  <2>1. \A d \in Owners' : OwnerOK(d)'
    BY <1>0, <1>3, <1>7 DEF OwnersOK, OwnerOK
  <2> QED
    BY <1>0, <1>2, <1>3, <2>1 DEF OwnersOK
<1>11. CASE \E l \in LiveAt(b) : freeing' = [to |-> "bump", rest |-> l]
  <2>1. PICK l \in LiveAt(b) : freeing' = [to |-> "bump", rest |-> l]
    BY <1>11
  <2>2. /\ l \in bump_live /\ l.lo = b.lo /\ l.lo \in Nat /\ l.hi \in Nat /\ l.lo < l.hi
        /\ End <= l.lo /\ InHeap(l)
    BY <1>0, FallbackBlocks DEF LiveAt
  <2>3. \A n \in bump_free' \cup bump_live' : ~Overlap(n, l)
    <3>1. ASSUME NEW n \in bump_live'
          PROVE  ~Overlap(n, l)
      <4>1. n \in bump_live /\ n # l
        BY <1>2
      <4> QED
        BY <1>0, <2>2, <4>1 DEF FallbackOK
    <3> QED
      BY <1>0, <1>2, <2>2, <3>1 DEF FallbackOK
  <2>4. ASSUME NEW d \in Owners'
        PROVE  ~Overlap(Extent(d), l)
    <3>1. SUFFICES ASSUME Overlap(Extent(d), l)
                   PROVE  FALSE
      OBVIOUS
    <3>2. d \in Owners /\ d # b /\ b \in Owners /\ OwnerOK(d)
      BY <1>0, <1>3 DEF OwnersOK
    <3>3. d.lo <= l.lo /\ ~Overlap(Extent(d), Extent(b))
      BY <1>0, <2>2, <3>1, <3>2 DEF OwnersOK
    <3>4. Extent(d).lo = d.lo /\ Extent(d).hi \in Nat /\ d.lo \in Nat
      BY <1>0, <3>2, OwnerFacts
    <3> QED
      BY <1>4, <2>2, <3>1, <3>3, <3>4 DEF Overlap
  <2>5. FreeingOK'
    <3>1. InHeap(l)' /\ l \in Ranges
      BY <1>7, <2>2 DEF InHeap
    <3> QED
      BY <2>1, <2>3, <2>4, <3>1 DEF FreeingOK
  <2>6. \A w \in Words(Pool) : w \notin Words(Extent(b))
    <3>1. End <= Extent(b).lo
      BY <1>4, <2>2
    <3> QED
      BY <1>4, <3>1, PoolFacts, ConstantFacts DEF Words
  <2>7. WordsOK'
    <3>1. ASSUME ~ghost.edited, NEW w \in Words(Pool)
          PROVE  Accounted(w)'
      <4>1. Accounted(w)
        BY <1>0, <3>1 DEF WordsOK
      <4> QED
        BY <1>2, <1>3, <2>6, <4>1 DEF Accounted
    <3> QED
      BY <1>0, <1>2, <1>6, <3>1 DEF WordsOK
  <2> QED
    BY <1>6, <1>8, <1>9, <1>10, <2>1, <2>5, <2>7 DEF IInv, RestOK
<1>12. CASE /\ LiveAt(b) = {} /\ Within(Whole(b), Pool)
            /\ freeing' = [to |-> "pool", rest |-> Whole(b)]
  <2>1. Extent(b) = Whole(b) /\ InPool(Whole(b))
    BY <1>3, <1>4, <1>5, <1>12 DEF OwnerOK
  <2>2. \A n \in nodes : ~Overlap(n, Whole(b))
    BY <1>0, <1>3, <2>1, OverlapFacts DEF OwnersOK
  <2>3. \A d \in Owners' : ~Overlap(Extent(d), Whole(b))
    BY <1>0, <1>3, <2>1 DEF OwnersOK
  <2>4. FreeingOK'
    <3>1. Whole(b) \in Ranges
      BY <2>1 DEF InPool
    <3> QED
      BY <1>2, <1>12, <2>1, <2>2, <2>3, <3>1 DEF FreeingOK
  <2>5. WordsOK'
    <3>1. ASSUME ~ghost.edited, NEW w \in Words(Pool)
          PROVE  Accounted(w)'
      <4>1. Accounted(w)
        BY <1>0, <3>1 DEF WordsOK
      <4>2. freeing'.to = "pool" /\ freeing'.rest = Extent(b)
        BY <1>12, <2>1
      <4> QED
        BY <1>2, <1>3, <4>1, <4>2 DEF Accounted
    <3> QED
      BY <1>0, <1>2, <1>6, <3>1 DEF WordsOK
  <2> QED
    BY <1>5, <1>6, <1>8, <1>9, <1>10, <1>12, <2>4, <2>5 DEF IInv, RestOK
<1>13. CASE LiveAt(b) = {} /\ ~Within(Whole(b), Pool) /\ freeing' = Idle
  <2>1. ~Within(b, Pool)
    BY <1>3, <1>13 DEF OwnerOK, InPool
  <2>2. \A w \in Words(Pool) : w \notin Words(Extent(b))
    <3>1. End <= Extent(b).lo
      BY <1>4, <2>1
    <3> QED
      BY <1>4, <3>1, PoolFacts, ConstantFacts DEF Words
  <2>3. FreeingOK'
    BY <1>13, RangeFacts DEF FreeingOK, Idle
  <2>4. WordsOK'
    <3>1. ASSUME ~ghost.edited, NEW w \in Words(Pool)
          PROVE  Accounted(w)'
      <4>1. Accounted(w)
        BY <1>0, <3>1 DEF WordsOK
      <4> QED
        BY <1>2, <1>3, <2>2, <4>1 DEF Accounted
    <3> QED
      BY <1>0, <1>2, <1>6, <3>1 DEF WordsOK
  <2> QED
    BY <1>6, <1>8, <1>9, <1>10, <1>13, <2>3, <2>4 DEF IInv, RestOK, Idle
<1> QED
  BY <1>2, <1>11, <1>12, <1>13

-----------------------------------------------------------------------------
(***************************************************************************)
(* The guest's calls keep the invariant.                                   *)

\* A request that leaves no rest too short leaves every block of the pool's list its
\* header.
LEMMA MarkedRests ==
  ASSUME ghost \in Ghosts, LeavesRests, PoolOK', Exact'
  PROVE  HeadersOK'
<1>1. \A n \in nodes' : ~(Size(n) < Header)
  BY RestsAreMarked
<1>2. ASSUME NEW n \in nodes'
      PROVE  n.lo + Header <= n.hi
  <2>1. n \in Ranges
    BY DEF PoolOK, InPool
  <2>2. n.lo \in Nat /\ n.hi \in Nat
    BY <2>1, RangeFacts
  <2> QED
    BY <1>1, <2>2 DEF Size, Header
<1> QED
  BY <1>2 DEF HeadersOK

\* mr_malloc.
LEMMA MallocStep ==
  ASSUME IInv, NEW len \in Sizes, mr_malloc(len), Exact'
  PROVE  IInv'
<1>0. ghost \in Ghosts /\ LeavesRests /\ GhostKept
  BY RestsAreMarked DEF mr_malloc, IInv, WordsOK
<1>1. CASE MallocFails(len) /\ UNCHANGED blocks
  BY <1>0, <1>1, FailureKeeps DEF mr_malloc
<1>2. CASE \E a \in Addresses : Mallocs(len, a) /\ blocks' = blocks \cup {Block(a, len)}
  <2>1. PICK a \in Addresses : Mallocs(len, a) /\ blocks' = blocks \cup {Block(a, len)}
    BY <1>2
  <2>2. GuestRuns /\ UNCHANGED <<codeVars, screenMoved, freeing>>
    BY DEF mr_malloc
  <2>3. Owners' = Owners \cup {Block(a, len)}
    BY <2>1, <2>2 DEF Owners, GuestRuns, Idle
  <2>4. Served(Block(a, len))
    BY <1>0, <2>1, <2>2, <2>3, MallocKeeps
  <2>5. FreeingOK'
    BY <2>2, RangeFacts DEF FreeingOK, GuestRuns, Idle
  <2> QED
    BY <1>0, <2>2, <2>4, <2>5, MarkedRests DEF IInv, Served, RestOK, GuestRuns, Idle
<1> QED
  BY <1>1, <1>2 DEF mr_malloc

\* mr_realloc: the new block is another one, and the old one is on its way back.
LEMMA ReallocStep ==
  ASSUME IInv, NEW len \in Sizes, NEW b \in blocks, mr_realloc(b, len), Exact'
  PROVE  IInv'
<1>0. ghost \in Ghosts /\ LeavesRests /\ GhostKept
  BY RestsAreMarked DEF mr_realloc, IInv, WordsOK
<1>1. CASE MallocFails(len) /\ UNCHANGED <<blocks, freeing>>
  BY <1>0, <1>1, FailureKeeps DEF mr_realloc
<1>2. CASE \E a \in Addresses :
             /\ Mallocs(len, a)
             /\ blocks' = (blocks \ {b}) \cup {Block(a, len)}
             /\ Frees(b)
  <2>1. PICK a \in Addresses :
          /\ Mallocs(len, a)
          /\ blocks' = (blocks \ {b}) \cup {Block(a, len)}
          /\ freeing' = [to |-> "block", rest |-> b]
    BY <1>2 DEF Frees
  <2>2. GuestRuns /\ UNCHANGED <<codeVars, screenMoved>>
    BY DEF mr_realloc
  <2>3. Owners = blocks /\ Owners' = Owners \cup {Block(a, len)}
    BY <2>1, <2>2 DEF Owners, GuestRuns, Idle
  <2>4. Served(Block(a, len))
    BY <1>0, <2>1, <2>2, <2>3, MallocKeeps
  <2>5. b \in Ranges /\ b # Block(a, len)
    <3>1. OwnerOK(b) /\ TopOK /\ ~Overlap(Extent(b), Extent(Block(a, len)))
      BY <2>3, <2>4 DEF IInv, OwnersOK, Served
    <3>2. Extent(b).lo \in Nat /\ Extent(b).hi \in Nat /\ Extent(b).lo < Extent(b).hi
      BY <3>1, OwnerFacts
    <3>3. Overlap(Extent(b), Extent(b))
      BY <3>2 DEF Overlap
    <3> QED
      BY <3>1, <3>3 DEF OwnerOK
  <2>6. FreeingOK'
    BY <2>1, <2>5 DEF FreeingOK
  <2> QED
    BY <1>0, <2>1, <2>4, <2>6, MarkedRests DEF IInv, Served, RestOK
<1> QED
  BY <1>1, <1>2 DEF mr_realloc

\* mr_free is entered: its block is nobody's and not yet free.
LEMMA FreeCallStep ==
  ASSUME IInv, NEW b \in blocks, mr_free(b)
  PROVE  IInv'
<1>0. /\ PoolOK /\ TopOK /\ FallbackOK /\ RegistryOK /\ CodeApart /\ OwnersOK /\ FreeingOK
      /\ WordsOK /\ HeadersOK
  BY DEF IInv
<1>1. /\ freeing = Idle /\ freeing' = [to |-> "block", rest |-> b] /\ blocks' = blocks \ {b}
      /\ UNCHANGED <<nodes, heap_top, bump_live, bump_free, codeVars, screenMoved, ghost>>
  BY DEF mr_free, Frees, GuestRuns, memVars
<1> GhostKept
  BY <1>0, <1>1, SameGhost DEF WordsOK
<1>2. Owners = blocks /\ Owners' = Owners
  BY <1>1 DEF Owners, Idle
<1>3. TopOK' /\ RegistryOK' /\ Code' = Code /\ PoolOK' /\ HeadersOK' /\ FallbackOK'
  <2>1. heap_top <= heap_top'
    BY <1>0, <1>1, ConstantFacts DEF TopOK
  <2> QED
    BY <1>0, <1>1, <2>1, TopStays, CodeStays, FallbackStays DEF PoolOK, HeadersOK
<1>4. CodeApart'
  BY <1>0, <1>1, <1>3 DEF CodeApart
<1>5. OwnersOK'
  BY <1>0, <1>1, <1>2 DEF OwnersOK, OwnerOK, InHeap
<1>6. b \in Ranges
  BY <1>0, <1>2 DEF OwnersOK, OwnerOK
<1>7. FreeingOK'
  BY <1>1, <1>6 DEF FreeingOK
<1>8. WordsOK'
  BY <1>0, <1>1, <1>2, <1>3, WordsStay DEF GuestRuns
<1> QED
  BY <1>1, <1>3, <1>4, <1>5, <1>7, <1>8 DEF IInv, RestOK

\* The guest's own mr_free: the block goes into the list whatever lies in it.
LEMMA WrapperStep ==
  ASSUME IInv, NEW b \in blocks, WrapperFrees(b)
  PROVE  IInv'
<1>0. /\ PoolOK /\ TopOK /\ FallbackOK /\ RegistryOK /\ CodeApart /\ OwnersOK /\ FreeingOK
      /\ WordsOK /\ HeadersOK
  BY DEF IInv
<1>1. /\ freeing = Idle /\ Within(Whole(b), Pool)
      /\ nodes' = Insert(nodes, Whole(b))
      /\ blocks' = blocks \ {b}
      /\ ghost' = [ghost EXCEPT !.edited = @ \/ CodeIn(Whole(b)) # {}]
      /\ UNCHANGED <<heap_top, bump_live, bump_free, codeVars, screenMoved, freeing>>
  BY DEF WrapperFrees, GuestRuns
<1>2. Owners = blocks /\ Owners' = blocks \ {b}
  BY <1>1 DEF Owners, Idle
<1>3. OwnerOK(b)
  BY <1>0, <1>2 DEF OwnersOK
<1>4. PICK r :
        /\ r = Whole(b) /\ Extent(b) = r /\ InPool(r)
        /\ r.lo \in Nat /\ r.hi \in Nat /\ r.lo < r.hi /\ r.lo + Header <= r.hi
  <2>1. b.lo \in Nat /\ b.hi \in Nat /\ b.lo < b.hi
    BY <1>0, <1>3, OwnerFacts
  <2>2. Within(b, Pool) /\ Whole(b).lo + Header <= Whole(b).hi
    BY <1>1, <2>1, WholeFacts
  <2> QED
    BY <1>3, <2>2, RangeFacts DEF OwnerOK, Extent, InPool
<1>5. \A n \in nodes \cup bump_free : ~Overlap(n, r) /\ ~Overlap(r, n)
  BY <1>0, <1>2, <1>4, OverlapFacts DEF OwnersOK
<1>6. FreeFor(nodes, r) /\ nodes' = Insert(nodes, r) /\ GivesBack(nodes, nodes', r)
  BY <1>0, <1>1, <1>4, <1>5, PoolFreeFor DEF GivesBack
<1>7. PoolOK' /\ HeadersOK'
  BY <1>0, <1>4, <1>6, PoolGivenBack, HeadersGivenBack
<1>8. /\ ghost' \in Ghosts /\ ghost'.code = ghost.code /\ ghost'.late = ghost.late
      /\ ~ghost'.edited => ~ghost.edited /\ \A c \in Code : ~Overlap(c, r)
  <2>1. ghost \in Ghosts
    BY <1>0 DEF WordsOK
  <2>2. /\ ghost'.code = ghost.code /\ ghost'.late = ghost.late
        /\ ghost'.edited = (ghost.edited \/ CodeIn(r) # {})
    BY <1>1, <1>4, <2>1 DEF Ghosts
  <2>3. ghost' \in Ghosts
    BY <1>1, <1>4, <2>1 DEF Ghosts
  <2>4. ~ghost'.edited => ~ghost.edited /\ CodeIn(r) = {}
    BY <2>2
  <2> QED
    BY <2>2, <2>3, <2>4, NoCodeIn
<1>9. TopOK' /\ RegistryOK' /\ Code' = Code /\ FallbackOK'
  <2>1. heap_top <= heap_top'
    BY <1>0, <1>1, ConstantFacts DEF TopOK
  <2> QED
    BY <1>0, <1>1, <1>8, <2>1, TopStays, CodeStays, FallbackStays
<1>10. CodeApart'
  <2>1. ASSUME ~ghost'.edited, NEW c \in Code
        PROVE  \A n \in nodes' : ~Overlap(n, c)
    <3>1. c.lo \in Int /\ c.hi \in Int /\ c.lo < c.hi
      BY <1>0, RangeFacts DEF RegistryOK, CodeRange
    <3>2. ~Overlap(c, r) /\ \A n \in nodes : ~Overlap(c, n)
      BY <1>0, <1>8, <2>1, OverlapFacts DEF CodeApart
    <3> QED
      BY <1>6, <3>1, <3>2, GivesBackSparesOthers, OverlapFacts
  <2> QED
    BY <1>0, <1>1, <1>9, <2>1 DEF CodeApart
<1>11. OwnersOK'
  <2>1. ASSUME NEW d \in Owners'
        PROVE  \A n \in nodes' : ~Overlap(Extent(d), n)
    <3>1. d \in Owners /\ d # b /\ b \in Owners
      BY <1>2
    <3>2. Extent(d).lo \in Int /\ Extent(d).hi \in Int /\ Extent(d).lo < Extent(d).hi
      BY <1>0, <3>1, OwnerFacts DEF OwnersOK
    <3>3. ~Overlap(Extent(d), r) /\ \A n \in nodes : ~Overlap(Extent(d), n)
      BY <1>0, <1>4, <3>1 DEF OwnersOK
    <3> QED
      BY <1>6, <3>2, <3>3, GivesBackSparesOthers
  <2>2. \A d \in Owners' : OwnerOK(d)'
    BY <1>0, <1>1, <1>2 DEF OwnersOK, OwnerOK, InHeap
  <2> QED
    BY <1>0, <1>1, <1>2, <2>1, <2>2 DEF OwnersOK
<1>12. FreeingOK'
  BY <1>1, RangeFacts DEF FreeingOK, Idle
<1>13. WordsOK'
  <2>1. ASSUME ~ghost'.edited, NEW w \in Words(Pool)
        PROVE  Accounted(w)'
    <3>0. w \in Int
      BY PoolFacts, ConstantFacts DEF Words
    <3>1. Accounted(w) /\ freeing.to # "pool"
      BY <1>0, <1>1, <1>8, <2>1 DEF WordsOK, Idle
    <3>2. CASE (\E n \in nodes : w \in Words(n)) \/ w \in Words(Extent(b))
      <4>1. \E n \in nodes' : w \in Words(n)
        BY <1>4, <1>6, <3>0, <3>2, InsertWords
      <4> QED
        BY <4>1 DEF Accounted
    <3>3. CASE \E d \in Owners : d # b /\ w \in Words(Extent(d))
      BY <1>2, <3>3 DEF Accounted
    <3>4. CASE \E v \in {w - 1, w, w + 1} : v \in ghost.code
      BY <1>8, <3>4 DEF Accounted
    <3> QED
      BY <3>1, <3>2, <3>3, <3>4 DEF Accounted
  <2> QED
    BY <1>0, <1>9, <1>8, <2>1 DEF WordsOK
<1> QED
  BY <1>1, <1>7, <1>9, <1>10, <1>11, <1>12, <1>13 DEF IInv, RestOK, Idle

-----------------------------------------------------------------------------
(***************************************************************************)
(* Modules: the steps that load, register and drop code.                   *)

\* Code that may be registered: inside the heap, and nothing free overlaps it.
CodeFits(r) ==
  /\ CodeRange(r)
  /\ \A n \in bump_free : ~Overlap(n, r)
  /\ ~ghost.edited => \A n \in nodes : ~Overlap(n, r)

\* Code that is registered fits.
LEMMA CodeItselfFits ==
  ASSUME RegistryOK, CodeApart, NEW c \in Code
  PROVE  CodeFits(c)
  BY DEF RegistryOK, CodeApart, CodeFits

\* An image the guest has read into one of its blocks fits.
LEMMA ImageFits ==
  ASSUME IInv, GuestRuns, NEW r \in Images
  PROVE  CodeFits(r) /\ r # Nothing /\ r \in Ranges /\ \E b \in blocks : Within(r, b)
<1>0. TopOK /\ OwnersOK /\ Owners = blocks /\ heap_top \in Nat /\ End <= heap_top
  BY ConstantFacts DEF IInv, TopOK, GuestRuns, Owners, Idle
<1>1. /\ r \in [lo : Base..MemEnd, hi : Base..MemEnd] /\ r.lo < r.hi
      /\ \E b \in blocks : Within(r, b)
  BY DEF Images
<1>2. PICK b \in blocks : Within(r, b)
  BY <1>1
<1>3. r.lo \in Nat /\ r.hi \in Nat /\ Base <= r.lo /\ r.hi <= MemEnd
  BY <1>1, ConstantFacts
<1>4. r \in Ranges
  BY <1>1, <1>3 DEF Ranges
<1>5. OwnerOK(b)
  BY <1>0 DEF OwnersOK
<1>6. /\ b.lo \in Nat /\ b.hi \in Nat /\ Extent(b).lo = b.lo /\ Extent(b).hi \in Nat
      /\ b.hi <= Extent(b).hi /\ b.hi <= heap_top
  <2>1. CASE Within(b, Pool)
    BY <1>0, <1>5, <2>1, OwnerFacts, ConstantFacts
  <2>2. CASE ~Within(b, Pool)
    BY <1>0, <1>5, <2>2, OwnerFacts
  <2> QED
    BY <2>1, <2>2
<1>7. CodeRange(r)
  BY <1>0, <1>1, <1>2, <1>3, <1>4, <1>6 DEF CodeRange, Within
<1>8. ASSUME NEW n \in nodes \cup bump_free
      PROVE  ~Overlap(n, r)
  <2>1. ~Overlap(Extent(b), n)
    BY <1>0 DEF OwnersOK
  <2>2. n.lo \in Nat /\ n.hi \in Nat
    BY PoolNodes, FallbackBlocks DEF IInv
  <2> QED
    BY <1>2, <1>3, <1>6, <2>1, <2>2 DEF Overlap, Within
<1>9. r # Nothing
  BY <1>1, SpanFields DEF Nothing
<1> QED
  BY <1>1, <1>4, <1>7, <1>8, <1>9 DEF CodeFits

\* What is left of a list when code is cut out of it.
LEMMA TrimmedFacts ==
  ASSUME NEW list, NEW r, r.lo \in Int, r.hi \in Int, r.lo < r.hi,
         \A b \in list : b.lo \in Int /\ b.hi \in Int /\ b.lo < b.hi /\ b = Span(b.lo, b.hi)
  PROVE  /\ \A x \in Trimmed(list, r) :
              /\ x.lo \in Int /\ x.hi \in Int /\ x.lo < x.hi /\ x = Span(x.lo, x.hi)
              /\ \E b \in list : Within(x, b)
         /\ (\A b \in list : ~Overlap(b, r)) => Trimmed(list, r) = list
         /\ (\A b, d \in list : b # d => ~Overlap(b, d)) =>
              \A x, y \in Trimmed(list, r) : x # y => ~Overlap(x, y)
<1> DEFINE Cut(x, b) ==
             /\ Within(x, b)
             /\ x.lo \in Int /\ x.hi \in Int /\ x.lo < x.hi /\ x = Span(x.lo, x.hi)
             /\ \/ x = b /\ ~Overlap(b, r)
                \/ Overlap(b, r) /\ x = Span(b.lo, r.lo) /\ b.lo < r.lo
                \/ Overlap(b, r) /\ x = Span(r.hi, b.hi) /\ r.hi < b.hi
<1>1. ASSUME NEW x \in Trimmed(list, r)
      PROVE  \E b \in list : Cut(x, b)
  <2>1. CASE x \in {b \in list : ~Overlap(b, r)}
    <3>1. x \in list /\ ~Overlap(x, r) /\ Within(x, x)
      BY <2>1 DEF Within
    <3> QED
      BY <3>1
  <2>2. CASE \E b \in list : Overlap(b, r) /\ b.lo < r.lo /\ x = Span(b.lo, r.lo)
    <3>1. PICK b \in list : Overlap(b, r) /\ b.lo < r.lo /\ x = Span(b.lo, r.lo)
      BY <2>2
    <3>2. x.lo = b.lo /\ x.hi = r.lo
      BY <3>1, SpanFields
    <3>3. Within(x, b)
      BY <3>1, <3>2 DEF Within, Overlap
    <3> QED
      BY <3>1, <3>2, <3>3
  <2>3. CASE \E b \in list : Overlap(b, r) /\ r.hi < b.hi /\ x = Span(r.hi, b.hi)
    <3>1. PICK b \in list : Overlap(b, r) /\ r.hi < b.hi /\ x = Span(r.hi, b.hi)
      BY <2>3
    <3>2. x.lo = r.hi /\ x.hi = b.hi
      BY <3>1, SpanFields
    <3>3. Within(x, b)
      BY <3>1, <3>2 DEF Within, Overlap
    <3> QED
      BY <3>1, <3>2, <3>3
  <2> QED
    BY <2>1, <2>2, <2>3 DEF Trimmed
<1>2. ASSUME \A b \in list : ~Overlap(b, r)
      PROVE  Trimmed(list, r) = list
  BY <1>2 DEF Trimmed
<1>3. ASSUME \A b, d \in list : b # d => ~Overlap(b, d),
             NEW x \in Trimmed(list, r), NEW y \in Trimmed(list, r), x # y
      PROVE  ~Overlap(x, y)
  <2>1. PICK b \in list : Cut(x, b)
    BY <1>1
  <2>2. PICK d \in list : Cut(y, d)
    BY <1>1
  <2>3. CASE b # d
    BY <1>3, <2>1, <2>2, <2>3 DEF Overlap, Within
  <2>4. CASE b = d
    BY <1>3, <2>1, <2>2, <2>4, SpanFields DEF Overlap
  <2> QED
    BY <2>3, <2>4
<1> QED
  BY <1>1, <1>2, <1>3

\* Images that are dropped only make room,
LEMMA FewerImages ==
  ASSUME IsFiniteSet(modules), Cardinality(modules) <= MaxModules, NEW mods \in SUBSET modules
  PROVE  IsFiniteSet(mods) /\ Cardinality(mods) <= MaxModules
<1>1. IsFiniteSet(mods) /\ Cardinality(mods) <= Cardinality(modules)
  BY FS_Subset
<1>2. Cardinality(modules) \in Nat /\ Cardinality(mods) \in Nat /\ MaxModules \in Nat
  BY <1>1, FS_CardinalityType, ConstantFacts
<1> QED
  BY <1>1, <1>2

\* and one is registered only where there is room.
LEMMA RegistryBounds ==
  ASSUME IsFiniteSet(modules), Cardinality(modules) <= MaxModules, NEW mods \in SUBSET modules,
         NEW r, Registers(mods, r)
  PROVE  /\ modules' \subseteq modules \cup {r}
         /\ IsFiniteSet(modules') /\ Cardinality(modules') <= MaxModules
<1>1. IsFiniteSet(mods) /\ Cardinality(mods) <= MaxModules
  BY FewerImages
<1>2. CASE r \in mods \/ ~HasRoom(mods, r)
  <2>1. modules' = mods
    BY <1>2 DEF Registers, HasRoom
  <2> QED
    BY <1>1, <2>1
<1>3. CASE r \notin mods /\ HasRoom(mods, r)
  <2>1. IsFiniteSet(mods \cup {r}) /\ Cardinality(mods \cup {r}) = Cardinality(mods) + 1
    BY <1>1, <1>3, FS_AddElement
  <2>2. Cardinality(mods) \in Nat /\ MaxModules \in Nat /\ Cardinality(mods) < MaxModules
    BY <1>1, <1>3, FS_CardinalityType, ConstantFacts DEF HasRoom
  <2>3. modules' = mods \cup {r}
    BY <1>3 DEF Registers
  <2> QED
    BY <2>1, <2>2, <2>3
<1> QED
  BY <1>2, <1>3

\* Registering an image: its words leave the fallback heap's lists, the registry stays in
\* its bounds.
LEMMA RegistersFacts ==
  ASSUME IInv, NEW r, CodeFits(r), r # Nothing, NEW mods \in SUBSET modules,
         Registers(mods, r), heap_top' = heap_top
  PROVE  /\ modules' \subseteq modules \cup {r} /\ Nothing \notin modules'
         /\ IsFiniteSet(modules') /\ Cardinality(modules') <= MaxModules
         /\ bump_free' = bump_free /\ FallbackOK'
         /\ \A l \in bump_live' : \E m \in bump_live : Within(l, m)
<1>0. TopOK /\ FallbackOK /\ RegistryOK
  BY DEF IInv
<1>1. /\ modules' \subseteq modules \cup {r} /\ Nothing \notin modules'
      /\ IsFiniteSet(modules') /\ Cardinality(modules') <= MaxModules
  BY <1>0, RegistryBounds DEF RegistryOK
<1>4. \A b \in bump_free \cup bump_live :
        b.lo \in Int /\ b.hi \in Int /\ b.lo < b.hi /\ b = Span(b.lo, b.hi)
  BY <1>0, FallbackBlocks
<1>5. r.lo \in Int /\ r.hi \in Int /\ r.lo < r.hi
  BY RangeFacts DEF CodeFits, CodeRange
<1>6. \A x : InHeap(x) <=> InHeap(x)'
  BY DEF InHeap
<1>7. CASE HasRoom(mods, r)
  <2>1. /\ modules' = mods \cup {r}
        /\ bump_live' = Trimmed(bump_live, r) /\ bump_free' = Trimmed(bump_free, r)
    BY <1>7 DEF Registers
  <2>3. bump_free' = bump_free
    BY <1>4, <1>5, <2>1, TrimmedFacts DEF CodeFits
  <2>4. \A x \in bump_live' :
          /\ x.lo \in Int /\ x.hi \in Int /\ x.lo < x.hi /\ x = Span(x.lo, x.hi)
          /\ \E b \in bump_live : Within(x, b)
    BY <1>4, <1>5, <2>1, TrimmedFacts
  <2>5. \A x, y \in bump_live' : x # y => ~Overlap(x, y)
    <3>1. \A b, d \in bump_live : b # d => ~Overlap(b, d)
      BY <1>0 DEF FallbackOK
    <3> QED
      BY <1>4, <1>5, <2>1, <3>1, TrimmedFacts
  <2>6. ASSUME NEW x \in bump_live'
        PROVE  InHeap(x) /\ \A n \in bump_free : ~Overlap(n, x)
    <3>1. PICK b \in bump_live : Within(x, b)
      BY <2>4
    <3>2. /\ b.lo \in Nat /\ b.hi \in Nat /\ End <= b.lo /\ b.hi <= heap_top /\ b.hi <= MemEnd
          /\ heap_top \in Nat /\ InHeap(b)
      BY <1>0, FallbackBlocks
    <3>3. x.lo \in Int /\ x.hi \in Int /\ x.lo < x.hi /\ x = Span(x.lo, x.hi)
      BY <2>4
    <3>4. b.lo <= x.lo /\ x.hi <= b.hi
      BY <3>1 DEF Within
    <3>5. Span(x.lo, x.hi) \in Ranges
      BY <3>2, <3>3, <3>4, ConstantFacts, SpanIsRange
    <3>6. ~Overlap(x, Reserved)
      BY <3>2, <3>3, <3>4, ConstantFacts, SpanFields DEF InHeap, Overlap, Reserved
    <3>7. End <= x.lo /\ x.hi <= heap_top
      BY <3>2, <3>3, <3>4, ConstantFacts
    <3>8. \A n \in bump_free : ~Overlap(n, b)
      BY <1>0 DEF FallbackOK
    <3>9. \A n \in bump_free : ~Overlap(n, x)
      BY <1>4, <3>1, <3>2, <3>3, <3>8, OverlapFacts
    <3> QED
      BY <3>3, <3>5, <3>6, <3>7, <3>9 DEF InHeap
  <2>7. FallbackOK'
    BY <1>0, <1>6, <2>3, <2>5, <2>6 DEF FallbackOK
  <2> QED
    BY <1>1, <2>3, <2>4, <2>7
<1>8. CASE ~HasRoom(mods, r)
  <2>1. modules' = mods /\ UNCHANGED <<bump_live, bump_free>>
    BY <1>8 DEF Registers
  <2>2. FallbackOK'
    BY <1>0, <2>1, FallbackStays
  <2>3. \A l \in bump_live : Within(l, l)
    BY <1>4 DEF Within
  <2> QED
    BY <1>1, <2>1, <2>2, <2>3
<1> QED
  BY <1>7, <1>8

\* What the steps of the module registry have in common: code is old code or an image
\* that fits, and what becomes code is remembered.
LEMMA ModulesChange ==
  ASSUME IInv, GuestRuns, FallbackOK', RegistryOK',
         UNCHANGED <<nodes, heap_top, screenMoved, freeing, blocks, bump_free>>,
         \A l \in bump_live' : \E m \in bump_live : Within(l, m),
         \A c \in Code' : CodeFits(c),
         ghost' \in Ghosts, ghost'.edited = ghost.edited, ghost'.late = ghost.late,
         ghost.code \subseteq ghost'.code,
         \A c \in Code', w \in Words(Pool) : w \in Words(c) => w \in ghost'.code
  PROVE  IInv'
<1>0. /\ PoolOK /\ TopOK /\ FallbackOK /\ RegistryOK /\ CodeApart /\ OwnersOK /\ FreeingOK
      /\ WordsOK /\ HeadersOK
  BY DEF IInv
<1>1. Owners' = Owners /\ freeing = Idle
  BY DEF Owners, GuestRuns
<1>2. PoolOK' /\ HeadersOK' /\ TopOK'
  BY <1>0, TopStays DEF PoolOK, HeadersOK
<1>3. CodeApart'
  BY DEF CodeApart, CodeFits
<1>4. OwnersOK'
  <2>1. ASSUME NEW b \in Owners, NEW l \in bump_live', Overlap(Extent(b), l)
        PROVE  b.lo <= l.lo
    <3>1. PICK m \in bump_live : Within(l, m)
      BY <2>1
    <3>2. m.lo \in Nat /\ m.hi \in Nat
      BY <1>0, FallbackBlocks
    <3>3. l.lo \in Nat /\ l.hi \in Nat
      BY <2>1, RangeFacts DEF FallbackOK, InHeap
    <3>4. Extent(b).lo \in Nat /\ Extent(b).hi \in Nat /\ b.lo \in Nat
      BY <1>0, <2>1, OwnerFacts DEF OwnersOK
    <3>5. Overlap(Extent(b), m)
      BY <2>1, <3>1, <3>2, <3>3, <3>4, OverlapFacts
    <3>6. b.lo <= m.lo
      BY <1>0, <2>1, <3>5 DEF OwnersOK
    <3> QED
      BY <3>1, <3>2, <3>3, <3>4, <3>6 DEF Within
  <2>2. \A b \in Owners : OwnerOK(b)'
    BY <1>0 DEF OwnersOK, OwnerOK, InHeap
  <2> QED
    BY <1>0, <1>1, <2>1, <2>2 DEF OwnersOK
<1>5. FreeingOK'
  BY <1>1, RangeFacts DEF FreeingOK, Idle
<1>6. WordsOK'
  <2>1. ASSUME ~ghost'.edited, NEW w \in Words(Pool)
        PROVE  Accounted(w)'
    <3>1. Accounted(w)
      BY <1>0, <2>1 DEF WordsOK
    <3> QED
      BY <1>1, <3>1 DEF Accounted, Idle
  <2> QED
    BY <2>1 DEF WordsOK
<1> QED
  BY <1>1, <1>2, <1>3, <1>4, <1>5, <1>6 DEF IInv, RestOK, Idle

\* What becomes code is in the history from then on.
LEMMA Remembered ==
  ASSUME ghost \in Ghosts, Remembers
  PROVE  /\ ghost' \in Ghosts /\ ghost'.edited = ghost.edited /\ ghost'.late = ghost.late
         /\ ghost'.spilled = ghost.spilled /\ ghost.code \subseteq ghost'.code
         /\ \A c \in Code', w \in Words(Pool) : w \in Words(c) => w \in ghost'.code
<1> DEFINE new == {w \in Words(Pool) : \E c \in Code' : w \in Words(c)}
<1>1. ghost' = [ghost EXCEPT !.code = ghost.code \cup new]
  BY DEF Remembers
<1>2. new \subseteq 0..MemEnd
  BY PoolFacts, ConstantFacts DEF Words
<1>3. \A c \in Code', w \in Words(Pool) : w \in Words(c) => w \in new
  OBVIOUS
<1> HIDE DEF new
<1>4. ghost'.code = ghost.code \cup new /\ ghost'.edited = ghost.edited
      /\ ghost'.late = ghost.late /\ ghost'.spilled = ghost.spilled
  BY <1>1 DEF Ghosts
<1>5. ghost' \in Ghosts
  BY <1>1, <1>2 DEF Ghosts
<1> QED
  BY <1>3, <1>4, <1>5

\* The registry is sound when its code fits and its images are few enough.
LEMMA RegistryFits ==
  ASSUME IsFiniteSet(modules'), Cardinality(modules') <= MaxModules, Nothing \notin modules',
         \A c \in Code' : CodeFits(c), primary' \in Ranges, pending' \in Ranges,
         heap_top' = heap_top
  PROVE  RegistryOK'
  BY DEF RegistryOK, CodeFits, CodeRange

\* Images that are dropped only make room.
LEMMA FewerModules ==
  ASSUME IInv, modules' \subseteq modules
  PROVE  IsFiniteSet(modules') /\ Cardinality(modules') <= MaxModules /\ Nothing \notin modules'
<1>1. IsFiniteSet(modules) /\ Cardinality(modules) <= MaxModules /\ Nothing \notin modules
  BY DEF IInv, RegistryOK
<1>2. PICK mods \in SUBSET modules : mods = modules'
  OBVIOUS
<1> QED
  BY <1>1, <1>2, FewerImages

LEMMA ListsStay ==
  ASSUME IInv, UNCHANGED memVars
  PROVE  /\ UNCHANGED <<nodes, heap_top, bump_free>> /\ FallbackOK'
         /\ \A l \in bump_live' : \E m \in bump_live : Within(l, m)
<1>1. UNCHANGED <<nodes, heap_top, bump_live, bump_free>>
  BY DEF memVars
<1>2. FallbackOK'
  BY <1>1, FallbackStays DEF IInv
<1>3. \A l \in bump_live : Within(l, l)
  BY FallbackBlocks DEF IInv, Within
<1> QED
  BY <1>1, <1>2, <1>3

\* The loader announces an image.
LEMMA CacheSyncStep ==
  ASSUME IInv, NEW r \in Images, mr_cacheSync(r)
  PROVE  IInv' /\ Code' \subseteq Code \cup {r}
<1>1. /\ GuestRuns /\ modules' \subseteq modules /\ pending' \in {Nothing, r}
      /\ UNCHANGED primary /\ Remembers
      /\ UNCHANGED <<memVars, screenMoved, freeing, blocks>>
  BY DEF mr_cacheSync, Left
<1>2. RegistryOK /\ CodeApart /\ ghost \in Ghosts
  BY DEF IInv, WordsOK
<1>3. CodeFits(r) /\ r \in Ranges
  BY <1>1, ImageFits
<1>4. Code' \subseteq Code \cup {r}
  BY <1>1 DEF Code
<1>5. \A c \in Code' : CodeFits(c)
  BY <1>2, <1>3, <1>4, CodeItselfFits
<1>6. primary' \in Ranges /\ pending' \in Ranges
  BY <1>1, <1>2, <1>3, RangeFacts DEF RegistryOK
<1>7. RegistryOK'
  BY <1>1, <1>5, <1>6, FewerModules, RegistryFits DEF memVars
<1>8. IInv'
  BY <1>1, <1>2, <1>5, <1>7, ListsStay, Remembered, ModulesChange
<1> QED
  BY <1>4, <1>8

\* The steps that register r, which was announced, is an image, or comes back.
LEMMA RegisteringStep ==
  ASSUME IInv, GuestRuns, NEW r, CodeFits(r), r # Nothing, r \in Ranges,
         NEW mods \in SUBSET modules, Registers(mods, r), Remembers,
         primary' \in {primary, r}, pending' \in {pending, Nothing},
         UNCHANGED <<nodes, heap_top, screenMoved, freeing, blocks>>
  PROVE  IInv' /\ Code' \subseteq Code \cup {r}
<1>1. RegistryOK /\ CodeApart /\ ghost \in Ghosts
  BY DEF IInv, WordsOK
<1>2. /\ modules' \subseteq modules \cup {r} /\ Nothing \notin modules'
      /\ IsFiniteSet(modules') /\ Cardinality(modules') <= MaxModules
      /\ bump_free' = bump_free /\ FallbackOK'
      /\ \A l \in bump_live' : \E m \in bump_live : Within(l, m)
  BY RegistersFacts
<1>3. Code' \subseteq Code \cup {r}
  BY <1>2 DEF Code
<1>4. \A c \in Code' : CodeFits(c)
  BY <1>1, <1>3, CodeItselfFits
<1>5. primary' \in Ranges /\ pending' \in Ranges
  BY <1>1, RangeFacts DEF RegistryOK
<1>6. RegistryOK'
  BY <1>2, <1>4, <1>5, RegistryFits
<1>7. IInv'
  BY <1>1, <1>2, <1>4, <1>6, Remembered, ModulesChange
<1> QED
  BY <1>3, <1>7

\* The announced image is entered.
LEMMA EntersStep ==
  ASSUME IInv, EntersChild
  PROVE  IInv' /\ Code' \subseteq Code
<1>1. /\ GuestRuns /\ pending # Nothing /\ Registers(modules, pending)
      /\ primary' \in {primary, pending} /\ pending' = Nothing /\ Remembers
      /\ UNCHANGED <<nodes, heap_top, screenMoved, freeing, blocks>>
  BY DEF EntersChild, FirstIsPrimary
<1>2. RegistryOK /\ CodeApart
  BY DEF IInv
<1>3. PICK r : r = pending
  OBVIOUS
<1>4. r \in Code /\ CodeFits(r) /\ r # Nothing /\ r \in Ranges
  BY <1>1, <1>2, <1>3, CodeItselfFits DEF Code, RegistryOK
<1>5. IInv' /\ Code' \subseteq Code \cup {r}
  BY <1>1, <1>3, <1>4, RegisteringStep
<1> QED
  BY <1>4, <1>5

\* An image registers itself.
LEMMA FunctionNewStep ==
  ASSUME IInv, NEW r \in Images, mr_c_function_new(r)
  PROVE  IInv' /\ Code' \subseteq Code \cup {r}
<1>1. /\ GuestRuns /\ Registers(modules, r) /\ primary' \in {primary, r}
      /\ pending' \in {pending, Nothing} /\ Remembers
      /\ UNCHANGED <<nodes, heap_top, screenMoved, freeing, blocks>>
  BY DEF mr_c_function_new, FirstIsPrimary
<1>2. CodeFits(r) /\ r # Nothing /\ r \in Ranges
  BY <1>1, ImageFits
<1> QED
  BY <1>1, <1>2, RegisteringStep

\* Data is read over images.
LEMMA ReadStep ==
  ASSUME IInv, NEW r \in Images, mr_read(r)
  PROVE  IInv' /\ Code' \subseteq Code
<1>1. /\ GuestRuns /\ pending' \in {pending, Nothing} /\ UNCHANGED primary /\ Remembers
      /\ UNCHANGED <<nodes, heap_top, screenMoved, freeing, blocks>>
  BY DEF mr_read
<1>2. PICK keep \in SUBSET Stale(r) :
        IF primary # Nothing /\ Within(primary, r)
        THEN Registers(Left(r, keep), primary)
        ELSE modules' = Left(r, keep) /\ UNCHANGED <<bump_live, bump_free>>
  BY DEF mr_read
<1>3. PICK mods \in SUBSET modules : mods = Left(r, keep)
  BY DEF Left
<1>4. RegistryOK /\ CodeApart /\ ghost \in Ghosts
  BY DEF IInv, WordsOK
<1>5. CASE primary # Nothing /\ Within(primary, r)
  <2>1. PICK p : p = primary
    OBVIOUS
  <2>2. p \in Code /\ CodeFits(p) /\ p # Nothing /\ p \in Ranges /\ Registers(mods, p)
    BY <1>2, <1>3, <1>4, <1>5, <2>1, CodeItselfFits DEF Code, RegistryOK
  <2>3. primary' \in {primary, p}
    BY <1>1
  <2>4. IInv' /\ Code' \subseteq Code \cup {p}
    BY <1>1, <2>2, <2>3, RegisteringStep
  <2> QED
    BY <2>2, <2>4
<1>6. CASE ~(primary # Nothing /\ Within(primary, r))
  <2>1. modules' \subseteq modules /\ UNCHANGED memVars
    BY <1>1, <1>2, <1>3, <1>6 DEF memVars
  <2>2. Code' \subseteq Code
    BY <1>1, <2>1 DEF Code
  <2>3. \A c \in Code' : CodeFits(c)
    BY <1>4, <2>2, CodeItselfFits
  <2>4. primary' \in Ranges /\ pending' \in Ranges
    BY <1>1, <1>4, RangeFacts DEF RegistryOK
  <2>5. RegistryOK'
    BY <1>1, <2>1, <2>3, <2>4, FewerModules, RegistryFits
  <2>6. IInv'
    BY <1>1, <1>4, <2>1, <2>3, <2>5, ListsStay, Remembered, ModulesChange
  <2> QED
    BY <2>2, <2>6
<1> QED
  BY <1>5, <1>6

\* A child is closed.
LEMMA ResetStep ==
  ASSUME IInv, arm_ext_reset_child_modules
  PROVE  IInv' /\ Code' \subseteq Code
<1>1. /\ GuestRuns /\ modules' \subseteq modules
      /\ UNCHANGED <<memVars, primary, pending, screenMoved, freeing, blocks, ghost>>
  BY DEF arm_ext_reset_child_modules
<1>2. RegistryOK /\ CodeApart /\ WordsOK
  BY DEF IInv
<1>3. Code' \subseteq Code
  BY <1>1 DEF Code
<1>4. \A c \in Code' : CodeFits(c)
  BY <1>2, <1>3, CodeItselfFits
<1>5. RegistryOK'
  BY <1>1, <1>2, <1>4, FewerModules, RegistryFits DEF memVars, RegistryOK
<1>6. /\ ghost' \in Ghosts
      /\ \A c \in Code', w \in Words(Pool) : w \in Words(c) => w \in ghost'.code
  BY <1>1, <1>2, <1>3 DEF WordsOK
<1>7. IInv'
  BY <1>1, <1>4, <1>5, <1>6, ListsStay, ModulesChange
<1> QED
  BY <1>3, <1>7

\* The screen's buffer moves.
LEMMA ScreenStep ==
  ASSUME IInv, hook_screen_dim_write
  PROVE  IInv'
<1>0. ghost \in Ghosts /\ heap_top \in Int /\ ScreenLo \in Int
  BY ConstantFacts DEF IInv, WordsOK, TopOK
<1>1. /\ screenMoved' = TRUE
      /\ UNCHANGED <<memVars, codeVars, freeing, blocks>>
  BY DEF hook_screen_dim_write
<1>11. PICK p \in BOOLEAN : p <=> heap_top > ScreenLo
  OBVIOUS
<1>12. ghost' = [ghost EXCEPT !.late = ghost.late \/ p]
  BY <1>11, Zenon DEF hook_screen_dim_write
<1>13. /\ ghost' \in Ghosts /\ ghost'.code = ghost.code /\ ghost'.edited = ghost.edited
       /\ ghost'.late = (ghost.late \/ p)
  BY <1>0, <1>12 DEF Ghosts
<1>2. TopOK' /\ UNCHANGED <<nodes, heap_top, bump_live, bump_free>>
  BY <1>0, <1>1, <1>11, <1>13 DEF IInv, TopOK, memVars
<1>3. heap_top <= heap_top'
  BY <1>2, ConstantFacts DEF IInv, TopOK
<1>4. RegistryOK' /\ Code' = Code
  BY <1>1, <1>2, <1>3, CodeStays DEF IInv
<1>5. PoolOK' /\ HeadersOK' /\ FallbackOK' /\ CodeApart'
  BY <1>1, <1>2, <1>4, <1>13, FallbackStays DEF IInv, PoolOK, HeadersOK, CodeApart
<1>6. Owners' = Owners
  BY <1>1 DEF Owners
<1>7. \A x : InHeap(x) <=> InHeap(x)'
  BY <1>2 DEF InHeap
<1>8. OwnersOK'
  BY <1>2, <1>6, <1>7 DEF IInv, OwnersOK, OwnerOK
<1>9. FreeingOK'
  BY <1>1, <1>2, <1>6, <1>7 DEF IInv, FreeingOK
<1>10. WordsOK' /\ RestOK'
  BY <1>1, <1>2, <1>4, <1>6, <1>13 DEF IInv, WordsOK, Accounted, RestOK
<1> QED
  BY <1>2, <1>4, <1>5, <1>8, <1>9, <1>10 DEF IInv

-----------------------------------------------------------------------------
(***************************************************************************)
(* The variables keep their types, and what is marked stays marked.        *)

\* A set of addresses has a highest one.
LEMMA HighestAddress ==
  ASSUME NEW S, S \subseteq 0..MemEnd, S # {}
  PROVE  \E x \in S : \A y \in S : y <= x
<1> DEFINE D == {MemEnd - y : y \in S}
<1>1. MemEnd \in Nat
  BY ConstantFacts
<1>2. D \subseteq Nat /\ D # {}
  <2>1. \A y \in S : y \in Int /\ y <= MemEnd
    BY <1>1
  <2>2. \A y \in S : MemEnd - y \in Nat
    BY <1>1, <2>1
  <2> QED
    BY <2>2
<1>3. PICK d \in D : \A e \in D : d <= e
  BY <1>2, LowestAddress
<1>4. PICK x \in S : d = MemEnd - x
  BY <1>3
<1>5. ASSUME NEW y \in S
      PROVE  y <= x
  <2>1. d <= MemEnd - y
    BY <1>3
  <2> QED
    BY <1>1, <1>4, <2>1
<1> QED
  BY <1>5

\* What mr_free merges is a range of memory, in whatever list, and begins where the block
\* does or where one below it did.
LEMMA MergedTypes ==
  ASSUME NEW list, \A n \in list : Piece(n), NEW r, Piece(r)
  PROVE  /\ Piece(Merged(list, r))
         /\ \/ Merged(list, r).lo = r.lo
            \/ \E k \in list : k.lo = Merged(list, r).lo /\ k.lo < r.lo
<1> DEFINE starts == {n.lo : n \in Before(list, r)} \cup {r.lo}
           ends   == {n.hi : n \in After(list, r)} \cup {r.hi}
           lo == CHOOSE a \in starts : \A s \in starts : a <= s
           hi == CHOOSE b \in ends : \A e \in ends : e <= b
<1>1. r.lo \in Nat /\ r.hi \in Nat /\ r.lo < r.hi /\ r.hi <= MemEnd /\ MemEnd \in Nat
  BY PieceFacts, ConstantFacts
<1>2. \A n \in list : n.lo \in Nat /\ n.hi \in Nat /\ n.hi <= MemEnd
  BY PieceFacts
<1>3. starts \subseteq Nat /\ r.lo \in starts
  BY <1>1, <1>2 DEF Before
<1>4. ends \subseteq 0..MemEnd /\ r.hi \in ends
  BY <1>1, <1>2 DEF After
<1>5. lo \in starts /\ lo <= r.lo
  <2>1. \E a \in starts : \A s \in starts : a <= s
    BY <1>3, LowestAddress
  <2> QED
    BY <1>3, <2>1
<1>6. hi \in ends /\ r.hi <= hi
  <2>1. \E b \in ends : \A e \in ends : e <= b
    BY <1>4, HighestAddress
  <2> QED
    BY <1>4, <2>1
<1>7. Merged(list, r) = Span(lo, hi)
  BY DEF Merged
<1>8. lo = r.lo \/ \E k \in list : k.lo = lo /\ k.lo < r.lo
  BY <1>5 DEF Before
<1>9. lo \in Nat /\ hi \in 0..MemEnd
  BY <1>3, <1>4, <1>5, <1>6
<1> HIDE DEF starts, ends, lo, hi
<1>10. lo < hi /\ hi <= MemEnd /\ lo \in Int /\ hi \in Int
  BY <1>1, <1>5, <1>6, <1>9
<1>11. Span(lo, hi) \in Ranges
  BY <1>9, <1>10, SpanIsRange
<1>12. Merged(list, r).lo = lo /\ Merged(list, r).hi = hi
  BY <1>7, SpanFields
<1> QED
  BY <1>7, <1>8, <1>10, <1>11, <1>12 DEF Piece

\* The same of every block of the list that mr_free leaves.
LEMMA InsertTypes ==
  ASSUME NEW list, \A n \in list : Piece(n), NEW r, Piece(r)
  PROVE  \A n \in Insert(list, r) :
           /\ Piece(n)
           /\ n \in list \/ n.lo = r.lo \/ \E k \in list : k.lo = n.lo /\ k.lo < r.lo
<1>1. /\ Piece(Merged(list, r))
      /\ \/ Merged(list, r).lo = r.lo
         \/ \E k \in list : k.lo = Merged(list, r).lo /\ k.lo < r.lo
  BY MergedTypes
<1>2. \A n \in Insert(list, r) : n \in list \/ n = Merged(list, r)
  BY DEF Insert
<1> QED
  BY <1>1, <1>2

\* A range of whole addresses.
LEMMA SpanIsPiece ==
  ASSUME NEW a \in Int, NEW b \in Int, 0 <= a, a < b, b <= MemEnd
  PROVE  Piece(Span(a, b))
  BY SpanIsRange, SpanFields DEF Piece

\* The guest's heap when the guest is loaded.
LEMMA InitTyped ==
  ASSUME Init
  PROVE  Typed
<1>1. /\ nodes = {Pool} /\ heap_top = End /\ bump_live = {} /\ bump_free = {}
      /\ screenMoved = FALSE
      /\ modules = {} /\ primary = Nothing /\ pending = Nothing
      /\ freeing = Idle /\ blocks = {}
      /\ ghost = [code |-> {}, edited |-> FALSE, spilled |-> FALSE, late |-> FALSE]
  BY DEF Init
<1>2. ListsTyped
  <2>1. Piece(Pool)
    BY ConstantFacts, SpanIsPiece DEF Pool
  <2>2. End \in End..MemEnd
    BY ConstantFacts
  <2> QED
    BY <1>1, <2>1, <2>2 DEF ListsTyped, NodesSound
<1>3. RegistryTyped
  <2>1. Code = {}
    BY <1>1 DEF Code
  <2> QED
    BY <1>1, <2>1, FS_EmptySet, ConstantFacts, RangeFacts DEF RegistryTyped, CodeSound
<1>4. CallTyped
  BY <1>1, RangeFacts DEF CallTyped, Idle
<1>5. ghost \in Ghosts
  BY <1>1 DEF Ghosts
<1> QED
  BY <1>1, <1>2, <1>3, <1>4, <1>5 DEF Typed

LEMMA ListsKept ==
  ASSUME ListsTyped, UNCHANGED memVars
  PROVE  ListsTyped'
<1>1. UNCHANGED <<nodes, heap_top, bump_live, bump_free>>
  BY DEF memVars
<1> QED
  BY <1>1 DEF ListsTyped, NodesSound

LEMMA RegistryKept ==
  ASSUME RegistryTyped, UNCHANGED codeVars
  PROVE  RegistryTyped'
<1>1. UNCHANGED <<modules, primary, pending>>
  BY DEF codeVars
<1>2. Code' = Code
  BY <1>1 DEF Code
<1> QED
  BY <1>1, <1>2 DEF RegistryTyped, CodeSound

\* What is left before or behind a block is a range of memory, or nothing.
LEMMA RestTypes ==
  ASSUME NEW a \in Nat, NEW b \in Nat, b <= MemEnd
  PROVE  \A n \in Rest(a, b) : Piece(n)
  BY SpanIsPiece DEF Rest

\* A request that is served.
LEMMA RequestTypes ==
  ASSUME Typed, NEW len \in Sizes, NEW a, Mallocs(len, a)
  PROVE  ListsTyped' /\ Piece(Block(a, len))
<1>0. /\ NodesSound /\ CodeSound /\ \A n \in bump_live \cup bump_free : Piece(n)
      /\ heap_top \in End..MemEnd
  BY DEF Typed, ListsTyped, RegistryTyped
<1>1. len \in Nat /\ len > 0 /\ MemEnd \in Nat /\ End \in Nat
  BY ConstantFacts
<1>2. ASSUME PoolGives(len, a)
      PROVE  ListsTyped' /\ Piece(Block(a, len))
  <2>1. PICK n \in nodes, l \in Nat :
           /\ a \in Nat /\ n.lo <= a
           /\ a + len <= a + Rounded(len) /\ a < a + len /\ Rounded(len) \in Nat
           /\ a + Rounded(len) <= l /\ l <= n.hi
           /\ nodes' = (nodes \ {n}) \cup Rest(n.lo, a) \cup Rest(l, n.hi)
    BY <1>0, <1>2, PoolGivesFacts
  <2>2. n.lo \in Nat /\ n.hi \in Nat /\ n.hi <= MemEnd
    BY <1>0, PieceFacts DEF NodesSound
  <2>3. a + len <= MemEnd /\ a <= MemEnd
    BY <1>1, <2>1, <2>2
  <2>4. Piece(Block(a, len))
    BY <1>1, <2>1, <2>3, SpanIsPiece DEF Block
  <2>5. \A k \in Rest(n.lo, a) \cup Rest(l, n.hi) : Piece(k)
    BY <2>1, <2>2, <2>3, RestTypes
  <2>6. UNCHANGED <<heap_top, bump_live, bump_free>>
    BY <1>2 DEF PoolGives
  <2> QED
    BY <1>0, <2>1, <2>4, <2>5, <2>6 DEF ListsTyped, NodesSound
<1>3. ASSUME BumpReuses(len, a)
      PROVE  ListsTyped' /\ Piece(Block(a, len))
  <2>1. PICK b \in Large(len) :
          /\ a = b.lo
          /\ IF Splits(b, len)
             THEN /\ bump_live' = bump_live \cup {Span(a, a + len)}
                  /\ bump_free' = (bump_free \ {b}) \cup {Span(a + len, b.hi)}
             ELSE /\ bump_live' = bump_live \cup {b}
                  /\ bump_free' = bump_free \ {b}
    BY <1>3 DEF BumpReuses
  <2>2. b \in bump_free /\ Size(b) >= len
    BY <2>1 DEF Large
  <2>3. b.lo \in Nat /\ b.hi \in Nat /\ b.lo < b.hi /\ b.hi <= MemEnd /\ Piece(b)
    BY <1>0, <2>2, PieceFacts
  <2>4. a + len <= b.hi
    BY <1>1, <2>1, <2>2, <2>3 DEF Size
  <2>5. Piece(Span(a, a + len))
    BY <1>1, <2>1, <2>3, <2>4, SpanIsPiece
  <2>6. Splits(b, len) => Piece(Span(a + len, b.hi))
    <3>1. Splits(b, len) => a + len < b.hi
      BY <1>1, <2>1, <2>3 DEF Splits, Size, Header
    <3> QED
      BY <1>1, <2>1, <2>3, <3>1, SpanIsPiece
  <2>7. UNCHANGED <<nodes, heap_top>>
    BY <1>3 DEF BumpReuses
  <2>8. \A n \in bump_live' \cup bump_free' : Piece(n)
    BY <1>0, <2>1, <2>3, <2>5, <2>6
  <2> QED
    BY <1>0, <2>5, <2>7, <2>8 DEF ListsTyped, NodesSound, Block
<1>4. ASSUME BumpGrows(len, a)
      PROVE  ListsTyped' /\ Piece(Block(a, len))
  <2>1. /\ a = Top(len) /\ a + len < Limit
        /\ heap_top' = a + len /\ bump_live' = bump_live \cup {Span(a, a + len)}
        /\ UNCHANGED <<nodes, bump_free>>
    BY <1>4 DEF BumpGrows
  <2>2. a \in Nat /\ End <= a /\ a + len <= MemEnd
    BY <1>0, <1>1, <2>1, ConstantFacts DEF Top, Limit
  <2>3. Piece(Span(a, a + len))
    BY <1>1, <2>2, SpanIsPiece
  <2>4. heap_top' \in End..MemEnd
    BY <1>1, <2>1, <2>2
  <2> QED
    BY <1>0, <2>1, <2>3, <2>4 DEF ListsTyped, NodesSound, Block
<1> QED
  BY <1>2, <1>3, <1>4 DEF Mallocs

\* A request that fails.
LEMMA FailureTypes ==
  ASSUME Typed, NEW len \in Sizes, MallocFails(len)
  PROVE  ListsTyped'
<1>0. ListsTyped
  BY DEF Typed
<1>1. heap_top' = Top(len) /\ UNCHANGED <<nodes, bump_live, bump_free>>
  BY DEF MallocFails, BumpIsFull
<1>2. heap_top' \in End..MemEnd
  BY <1>0, <1>1, ConstantFacts DEF Top, ListsTyped
<1> QED
  BY <1>0, <1>1, <1>2 DEF ListsTyped, NodesSound

\* What every step does: it keeps the types and takes no mark back.
Kept == Typed' /\ (Exact' => Exact)

LEMMA MallocKept ==
  ASSUME Typed, NEW len \in Sizes, mr_malloc(len)
  PROVE  Kept
<1>1. ghost \in Ghosts /\ LeavesRests /\ UNCHANGED <<codeVars, screenMoved, freeing>>
  BY DEF Typed, mr_malloc
<1>2. ghost' \in Ghosts /\ (Exact' => Exact)
  BY <1>1, RestsAreMarked DEF GhostKept
<1>3. RegistryTyped'
  BY <1>1, RegistryKept DEF Typed
<1>4. ListsTyped' /\ \A b \in blocks' : Piece(b)
  <2>1. \A b \in blocks : Piece(b)
    BY DEF Typed, CallTyped
  <2>2. CASE MallocFails(len) /\ UNCHANGED blocks
    BY <2>1, <2>2, FailureTypes
  <2>3. CASE \E a \in Addresses : Mallocs(len, a) /\ blocks' = blocks \cup {Block(a, len)}
    BY <2>1, <2>3, RequestTypes
  <2> QED
    BY <2>2, <2>3 DEF mr_malloc
<1>5. CallTyped'
  BY <1>1, <1>4 DEF Typed, CallTyped
<1> QED
  BY <1>1, <1>2, <1>3, <1>4, <1>5 DEF Typed, Kept

LEMMA ReallocKept ==
  ASSUME Typed, NEW len \in Sizes, NEW b \in blocks, mr_realloc(b, len)
  PROVE  Kept
<1>1. ghost \in Ghosts /\ LeavesRests /\ UNCHANGED <<codeVars, screenMoved>>
  BY DEF Typed, mr_realloc
<1>2. ghost' \in Ghosts /\ (Exact' => Exact)
  BY <1>1, RestsAreMarked DEF GhostKept
<1>3. RegistryTyped'
  BY <1>1, RegistryKept DEF Typed
<1>4. CallTyped /\ \A d \in blocks : Piece(d)
  BY DEF Typed, CallTyped
<1>5. CASE MallocFails(len) /\ UNCHANGED <<blocks, freeing>>
  <2>1. ListsTyped' /\ CallTyped'
    BY <1>4, <1>5, FailureTypes DEF CallTyped
  <2> QED
    BY <1>1, <1>2, <1>3, <2>1 DEF Typed, Kept
<1>6. CASE \E a \in Addresses :
             /\ Mallocs(len, a)
             /\ blocks' = (blocks \ {b}) \cup {Block(a, len)}
             /\ Frees(b)
  <2>1. PICK a \in Addresses :
          /\ Mallocs(len, a)
          /\ blocks' = (blocks \ {b}) \cup {Block(a, len)}
          /\ freeing' = [to |-> "block", rest |-> b]
    BY <1>6 DEF Frees
  <2>2. ListsTyped' /\ Piece(Block(a, len))
    BY <2>1, RequestTypes
  <2>3. Piece(b) /\ b \in Ranges
    BY <1>4 DEF Piece
  <2>4. CallTyped'
    BY <1>4, <2>1, <2>2, <2>3 DEF CallTyped
  <2> QED
    BY <1>1, <1>2, <1>3, <2>2, <2>4 DEF Typed, Kept
<1> QED
  BY <1>5, <1>6 DEF mr_realloc

LEMMA FreeCallKept ==
  ASSUME Typed, NEW b \in blocks, mr_free(b)
  PROVE  Kept
<1>1. /\ freeing' = [to |-> "block", rest |-> b] /\ blocks' = blocks \ {b}
      /\ UNCHANGED <<memVars, codeVars, screenMoved, ghost>>
  BY DEF mr_free, Frees
<1>2. Piece(b) /\ b \in Ranges /\ \A d \in blocks' : Piece(d)
  BY <1>1 DEF Typed, CallTyped, Piece
<1>3. CallTyped'
  BY <1>1, <1>2 DEF CallTyped
<1>4. ListsTyped' /\ RegistryTyped'
  BY <1>1, ListsKept, RegistryKept DEF Typed
<1> QED
  BY <1>1, <1>3, <1>4 DEF Typed, Kept, Exact

\* A block of the pool with the word it is rounded up by.
LEMMA WholeTypes ==
  ASSUME NEW b, Piece(b), Within(Whole(b), Pool)
  PROVE  Piece(Whole(b))
<1>1. b.lo \in Nat /\ b.hi \in Nat /\ b.lo < b.hi
  BY PieceFacts
<1>2. Whole(b).lo = b.lo /\ Whole(b).hi \in Nat /\ b.hi <= Whole(b).hi
  BY <1>1, WholeFacts
<1>3. Whole(b).hi <= MemEnd
  BY <1>2, PoolFacts, ConstantFacts DEF Within
<1>4. Whole(b) = Span(Whole(b).lo, Whole(b).hi)
  BY SpanFields DEF Whole
<1> QED
  BY <1>1, <1>2, <1>3, <1>4, SpanIsPiece

LEMMA WrapperKept ==
  ASSUME Typed, NEW b \in blocks, WrapperFrees(b)
  PROVE  Kept
<1>1. /\ Within(Whole(b), Pool) /\ nodes' = Insert(nodes, Whole(b)) /\ blocks' = blocks \ {b}
      /\ UNCHANGED <<heap_top, bump_live, bump_free, codeVars, screenMoved, freeing>>
  BY DEF WrapperFrees
<1>2. PICK p \in BOOLEAN : p <=> CodeIn(Whole(b)) # {}
  OBVIOUS
<1>3. ghost' = [ghost EXCEPT !.edited = ghost.edited \/ p]
  BY <1>2, Zenon DEF WrapperFrees
<1>4. ghost' \in Ghosts /\ ghost'.spilled = ghost.spilled
  BY <1>3 DEF Typed, Ghosts
<1>5. \A n \in nodes' : Piece(n)
  <2>1. Piece(b) /\ \A n \in nodes : Piece(n)
    BY DEF Typed, CallTyped, ListsTyped, NodesSound
  <2>2. Piece(Whole(b))
    BY <1>1, <2>1, WholeTypes
  <2> QED
    BY <1>1, <2>1, <2>2, InsertTypes
<1>6. ListsTyped'
  BY <1>1, <1>5 DEF Typed, ListsTyped, NodesSound
<1>7. CallTyped'
  BY <1>1 DEF Typed, CallTyped
<1>8. RegistryTyped'
  BY <1>1, RegistryKept DEF Typed
<1> QED
  BY <1>1, <1>4, <1>6, <1>7, <1>8 DEF Typed, Kept, Exact

LEMMA FindsOwnerKept ==
  ASSUME Typed, FindsOwner
  PROVE  Kept
<1> DEFINE b == freeing.rest
<1>1. /\ freeing.to = "block"
      /\ UNCHANGED <<nodes, heap_top, bump_free, codeVars, screenMoved, blocks, ghost>>
      /\ bump_live' \subseteq bump_live
  BY DEF FindsOwner
<1>2. Piece(b) /\ \A l \in bump_live : Piece(l)
  BY <1>1 DEF Typed, CallTyped, ListsTyped
<1>3. freeing' \in [to : {"none", "block", "pool", "bump"}, rest : Ranges]
      /\ (freeing'.to # "none" => Piece(freeing'.rest))
  <2>1. CASE \E l \in LiveAt(b) : freeing' = [to |-> "bump", rest |-> l]
    <3>1. PICK l \in LiveAt(b) : freeing' = [to |-> "bump", rest |-> l]
      BY <2>1
    <3>2. Piece(l) /\ l \in Ranges
      BY <1>2, <3>1 DEF LiveAt, Piece
    <3> QED
      BY <3>1, <3>2
  <2>2. CASE Within(Whole(b), Pool) /\ freeing' = [to |-> "pool", rest |-> Whole(b)]
    <3>1. PICK w : w = Whole(b)
      OBVIOUS
    <3>2. Piece(w) /\ w \in Ranges /\ freeing' = [to |-> "pool", rest |-> w]
      BY <1>2, <2>2, <3>1, WholeTypes DEF Piece
    <3> QED
      BY <3>2
  <2>3. CASE freeing' = Idle
    BY <2>3, RangeFacts DEF Idle
  <2> QED
    BY <2>1, <2>2, <2>3 DEF FindsOwner
<1>4. ListsTyped' /\ RegistryTyped' /\ CallTyped'
  BY <1>1, <1>3, RegistryKept DEF Typed, ListsTyped, NodesSound, CallTyped
<1> QED
  BY <1>1, <1>4 DEF Typed, Kept, Exact

LEMMA FreeStepKept ==
  ASSUME Typed, FreeStep
  PROVE  Kept
<1> DEFINE r == freeing.rest
<1>0. /\ CodeSound /\ NodesSound /\ Piece(r) /\ ghost \in Ghosts
      /\ \A n \in bump_live \cup bump_free : Piece(n)
  BY DEF Typed, RegistryTyped, ListsTyped, CallTyped, FreeStep
<1>1. PICK f \in [lo : Nat, hi : Nat], m \in Nat :
           /\ f.lo = r.lo /\ f.lo <= f.hi /\ f.hi <= m /\ m <= r.hi
           /\ f = Span(f.lo, f.hi)
           /\ TakesFragment(f)
           /\ freeing' = IF m < r.hi THEN [freeing EXCEPT !.rest = Span(m, r.hi)] ELSE Idle
  BY <1>0, FreeStepFacts
<1>2. r.lo \in Nat /\ r.hi \in Nat /\ r.hi <= MemEnd /\ MemEnd \in Nat
  BY <1>0, PieceFacts, ConstantFacts
<1>3. f.lo \in Nat /\ f.hi \in Nat /\ f.hi <= MemEnd /\ Size(f) = f.hi - f.lo
  BY <1>1, <1>2 DEF Size
<1>4. UNCHANGED <<heap_top, bump_live, codeVars, screenMoved, blocks>>
  BY DEF FreeStep
<1>5. ghost' \in Ghosts /\ (Exact' => Exact)
  BY <1>0, <1>1, FragmentsAreMarked DEF TakesFragment, GhostKept
<1>6. freeing' \in [to : {"none", "block", "pool", "bump"}, rest : Ranges]
      /\ (freeing'.to # "none" => Piece(freeing'.rest))
  <2>1. CASE m < r.hi
    <3>1. PICK w : w = Span(m, r.hi)
      OBVIOUS
    <3>2. Piece(w) /\ w \in Ranges
      BY <1>1, <1>2, <2>1, <3>1, SpanIsPiece DEF Piece
    <3>3. freeing' = [freeing EXCEPT !.rest = w]
      BY <1>1, <2>1, <3>1
    <3> QED
      BY <3>2, <3>3 DEF Typed, CallTyped
  <2>2. CASE ~(m < r.hi)
    BY <1>1, <2>2, RangeFacts DEF Idle
  <2> QED
    BY <2>1, <2>2
<1>7. \A n \in nodes' : Piece(n)
  <2>1. CASE nodes' = PoolTakes(f) /\ Size(f) >= Header
    <3>1. f.lo < f.hi
      BY <1>3, <2>1 DEF Header
    <3>2. Piece(f)
      BY <1>1, <1>3, <3>1, SpanIsPiece
    <3>3. PICK w : w = Whole(f)
      OBVIOUS
    <3>4. nodes' = IF Within(w, Pool) /\ WalkReaches(w) THEN Insert(nodes, w) ELSE nodes
      BY <2>1, <3>3 DEF PoolTakes, Whole
    <3>5. Within(w, Pool) => Piece(w)
      BY <3>2, <3>3, WholeTypes
    <3> QED
      BY <1>0, <3>4, <3>5, InsertTypes DEF NodesSound
  <2>2. CASE nodes' = nodes
    BY <1>0, <2>2 DEF NodesSound
  <2> QED
    BY <1>1, <2>1, <2>2 DEF TakesFragment
<1>8. \A n \in bump_free' : Piece(n)
  <2>1. CASE bump_free' = Insert(bump_free, f) /\ Size(f) > 0
    <3>1. Piece(f)
      BY <1>1, <1>3, <2>1, SpanIsPiece
    <3> QED
      BY <1>0, <2>1, <3>1, InsertTypes
  <2>2. CASE bump_free' = bump_free
    BY <1>0, <2>2
  <2> QED
    BY <1>1, <2>1, <2>2 DEF TakesFragment
<1>9. ListsTyped' /\ RegistryTyped' /\ CallTyped'
  BY <1>0, <1>4, <1>6, <1>7, <1>8, RegistryKept
  DEF Typed, ListsTyped, NodesSound, CallTyped
<1> QED
  BY <1>4, <1>5, <1>9 DEF Typed, Kept

\* An image lies in memory.
LEMMA ImageTypes ==
  ASSUME NEW r \in Images
  PROVE  Piece(r) /\ r # Nothing /\ r \in Ranges
<1>1. r \in [lo : Base..MemEnd, hi : Base..MemEnd] /\ r.lo < r.hi
  BY DEF Images
<1>2. r \in Ranges
  BY <1>1, ConstantFacts DEF Ranges
<1>3. r # Nothing
  BY <1>1, SpanFields DEF Nothing
<1> QED
  BY <1>1, <1>2, <1>3 DEF Piece

\* What the fallback heap keeps when an image is cut out of its list.
LEMMA TrimmedTypes ==
  ASSUME NEW list, \A n \in list : Piece(n), NEW r, Piece(r)
  PROVE  \A x \in Trimmed(list, r) : Piece(x)
<1>1. /\ r.lo \in Int /\ r.hi \in Int /\ r.lo < r.hi
      /\ \A b \in list : /\ b.lo \in Int /\ b.hi \in Int /\ b.lo < b.hi
                         /\ b = Span(b.lo, b.hi)
  BY PieceFacts
<1>2. ASSUME NEW x \in Trimmed(list, r)
      PROVE  Piece(x)
  <2>1. /\ x.lo \in Int /\ x.hi \in Int /\ x.lo < x.hi /\ x = Span(x.lo, x.hi)
        /\ \E b \in list : Within(x, b)
    BY <1>1, TrimmedFacts
  <2>2. PICK b \in list : Within(x, b)
    BY <2>1
  <2>3. b.lo \in Nat /\ b.hi \in Nat /\ b.hi <= MemEnd
    BY <2>2, PieceFacts
  <2>4. 0 <= x.lo /\ x.hi <= MemEnd
    BY <2>1, <2>2, <2>3, ConstantFacts DEF Within
  <2> QED
    BY <2>1, <2>4, SpanIsPiece
<1> QED
  BY <1>2

\* The steps of the registry: code is old code or the image r, and the lists only shrink.
LEMMA RegistryStepKept ==
  ASSUME Typed, NEW r, Piece(r),
         IsFiniteSet(modules'), Cardinality(modules') <= MaxModules,
         Nothing \notin modules', Code' \subseteq Code \cup {r},
         primary' \in Ranges, pending' \in Ranges,
         \A n \in bump_live' \cup bump_free' : Piece(n),
         UNCHANGED <<nodes, heap_top, screenMoved, freeing, blocks>>,
         Remembers \/ UNCHANGED ghost
  PROVE  Kept
<1>1. ghost' \in Ghosts /\ ghost'.spilled = ghost.spilled
  BY Remembered DEF Typed
<1>2. ListsTyped' /\ CallTyped'
  BY DEF Typed, ListsTyped, NodesSound, CallTyped
<1>3. CodeSound'
  BY DEF Typed, RegistryTyped, CodeSound
<1>4. RegistryTyped'
  BY <1>3 DEF RegistryTyped
<1> QED
  BY <1>1, <1>2, <1>4 DEF Typed, Kept, Exact

\* Images are dropped.
LEMMA DroppingKept ==
  ASSUME Typed, modules' \subseteq modules, UNCHANGED primary,
         NEW r, Piece(r), pending' \in {pending, Nothing, r},
         UNCHANGED <<memVars, screenMoved, freeing, blocks>>,
         Remembers \/ UNCHANGED ghost
  PROVE  Kept
<1>1. UNCHANGED <<nodes, heap_top, bump_live, bump_free>>
  BY DEF memVars
<1>2. PICK mods \in SUBSET modules : mods = modules'
  OBVIOUS
<1>3. IsFiniteSet(modules') /\ Cardinality(modules') <= MaxModules /\ Nothing \notin modules'
  BY <1>2, FewerImages DEF Typed, RegistryTyped
<1>4. Code' \subseteq Code \cup {r}
  BY DEF Code
<1>5. primary' \in Ranges /\ pending' \in Ranges
  BY RangeFacts DEF Typed, RegistryTyped, Piece
<1>6. \A n \in bump_live' \cup bump_free' : Piece(n)
  BY <1>1 DEF Typed, ListsTyped
<1> QED
  BY <1>1, <1>3, <1>4, <1>5, <1>6, RegistryStepKept

\* An image is registered.
LEMMA RegisteringKept ==
  ASSUME Typed, NEW r, Piece(r), r # Nothing, NEW mods \in SUBSET modules,
         Registers(mods, r), Remembers,
         primary' \in {primary, r}, pending' \in {pending, Nothing},
         UNCHANGED <<nodes, heap_top, screenMoved, freeing, blocks>>
  PROVE  Kept
<1>0. IsFiniteSet(modules) /\ Cardinality(modules) <= MaxModules /\ Nothing \notin modules
  BY DEF Typed, RegistryTyped
<1>1. /\ modules' \subseteq modules \cup {r}
      /\ IsFiniteSet(modules') /\ Cardinality(modules') <= MaxModules
  BY <1>0, RegistryBounds
<1>2. Nothing \notin modules'
  BY <1>0, <1>1
<1>3. Code' \subseteq Code \cup {r}
  BY <1>1 DEF Code
<1>4. primary' \in Ranges /\ pending' \in Ranges
  BY RangeFacts DEF Typed, RegistryTyped, Piece
<1>5. \A n \in bump_live \cup bump_free : Piece(n)
  BY DEF Typed, ListsTyped
<1>6. \A n \in bump_live' \cup bump_free' : Piece(n)
  <2>1. CASE HasRoom(mods, r)
    <3>1. bump_live' = Trimmed(bump_live, r) /\ bump_free' = Trimmed(bump_free, r)
      BY <2>1 DEF Registers
    <3> QED
      BY <1>5, <3>1, TrimmedTypes
  <2>2. CASE ~HasRoom(mods, r)
    <3>1. UNCHANGED <<bump_live, bump_free>>
      BY <2>2 DEF Registers
    <3> QED
      BY <1>5, <3>1
  <2> QED
    BY <2>1, <2>2
<1> QED
  BY <1>1, <1>2, <1>3, <1>4, <1>6, RegistryStepKept

LEMMA CacheSyncKept ==
  ASSUME Typed, NEW r \in Images, mr_cacheSync(r)
  PROVE  Kept
<1>1. /\ modules' \subseteq modules /\ pending' \in {pending, Nothing, r} /\ UNCHANGED primary
      /\ Remembers /\ UNCHANGED <<memVars, screenMoved, freeing, blocks>>
  BY DEF mr_cacheSync, Left
<1> QED
  BY <1>1, ImageTypes, DroppingKept

LEMMA EntersKept ==
  ASSUME Typed, EntersChild
  PROVE  Kept
<1>1. /\ pending # Nothing /\ Registers(modules, pending)
      /\ primary' \in {primary, pending} /\ pending' = Nothing /\ Remembers
      /\ UNCHANGED <<nodes, heap_top, screenMoved, freeing, blocks>>
  BY DEF EntersChild, FirstIsPrimary
<1>2. PICK r : r = pending
  OBVIOUS
<1>3. Piece(r)
  BY <1>1, <1>2 DEF Typed, RegistryTyped, CodeSound, Code
<1> QED
  BY <1>1, <1>2, <1>3, RegisteringKept

LEMMA FunctionNewKept ==
  ASSUME Typed, NEW r \in Images, mr_c_function_new(r)
  PROVE  Kept
<1>1. /\ Registers(modules, r) /\ primary' \in {primary, r}
      /\ pending' \in {pending, Nothing} /\ Remembers
      /\ UNCHANGED <<nodes, heap_top, screenMoved, freeing, blocks>>
  BY DEF mr_c_function_new, FirstIsPrimary
<1> QED
  BY <1>1, ImageTypes, RegisteringKept

LEMMA ReadKept ==
  ASSUME Typed, NEW r \in Images, mr_read(r)
  PROVE  Kept
<1>1. /\ pending' \in {pending, Nothing} /\ UNCHANGED primary /\ Remembers
      /\ UNCHANGED <<nodes, heap_top, screenMoved, freeing, blocks>>
  BY DEF mr_read
<1>2. PICK keep \in SUBSET Stale(r) :
        IF primary # Nothing /\ Within(primary, r)
        THEN Registers(Left(r, keep), primary)
        ELSE modules' = Left(r, keep) /\ UNCHANGED <<bump_live, bump_free>>
  BY DEF mr_read
<1>3. PICK mods \in SUBSET modules : mods = Left(r, keep)
  BY DEF Left
<1>4. CASE primary # Nothing /\ Within(primary, r)
  <2>1. PICK p : p = primary
    OBVIOUS
  <2>2. Piece(p) /\ p # Nothing /\ Registers(mods, p)
    BY <1>2, <1>3, <1>4, <2>1 DEF Typed, RegistryTyped, CodeSound, Code
  <2>3. primary' \in {primary, p}
    BY <1>1
  <2> QED
    BY <1>1, <2>2, <2>3, RegisteringKept
<1>5. CASE ~(primary # Nothing /\ Within(primary, r))
  <2>1. modules' \subseteq modules /\ UNCHANGED memVars
    BY <1>1, <1>2, <1>3, <1>5 DEF memVars
  <2> QED
    BY <1>1, <2>1, ImageTypes, DroppingKept
<1> QED
  BY <1>4, <1>5

LEMMA ResetKept ==
  ASSUME Typed, arm_ext_reset_child_modules
  PROVE  Kept
<1>1. /\ modules' \subseteq modules
      /\ UNCHANGED <<memVars, primary, pending, screenMoved, freeing, blocks, ghost>>
  BY DEF arm_ext_reset_child_modules
<1>2. PICK r : r = Pool
  OBVIOUS
<1>3. Piece(r)
  BY <1>2, ConstantFacts, SpanIsPiece DEF Pool
<1>4. UNCHANGED primary /\ pending' \in {pending, Nothing, r}
      /\ UNCHANGED <<memVars, screenMoved, freeing, blocks>> /\ UNCHANGED ghost
  BY <1>1
<1> QED
  BY <1>1, <1>3, <1>4, DroppingKept

LEMMA ScreenKept ==
  ASSUME Typed, hook_screen_dim_write
  PROVE  Kept
<1>1. screenMoved' = TRUE /\ UNCHANGED <<memVars, codeVars, freeing, blocks>>
  BY DEF hook_screen_dim_write
<1>2. PICK p \in BOOLEAN : p <=> heap_top > ScreenLo
  OBVIOUS
<1>3. ghost' = [ghost EXCEPT !.late = ghost.late \/ p]
  BY <1>2, Zenon DEF hook_screen_dim_write
<1>4. ghost' \in Ghosts /\ ghost'.spilled = ghost.spilled
  BY <1>3 DEF Typed, Ghosts
<1>5. ListsTyped' /\ RegistryTyped' /\ CallTyped'
  BY <1>1, ListsKept, RegistryKept DEF Typed, CallTyped
<1> QED
  BY <1>1, <1>4, <1>5 DEF Typed, Kept, Exact

LEMMA StepKept ==
  ASSUME Typed, [Next]_vars
  PROVE  Kept
<1>1. ASSUME NEW len \in Sizes, mr_malloc(len)
      PROVE  Kept
  BY <1>1, MallocKept
<1>2. ASSUME NEW len \in Sizes, NEW b \in blocks, mr_realloc(b, len)
      PROVE  Kept
  BY <1>2, ReallocKept
<1>3. ASSUME NEW b \in blocks, mr_free(b)
      PROVE  Kept
  BY <1>3, FreeCallKept
<1>4. ASSUME NEW b \in blocks, WrapperFrees(b)
      PROVE  Kept
  BY <1>4, WrapperKept
<1>5. ASSUME NEW r \in Images, mr_cacheSync(r)
      PROVE  Kept
  BY <1>5, CacheSyncKept
<1>6. ASSUME NEW r \in Images, mr_c_function_new(r)
      PROVE  Kept
  BY <1>6, FunctionNewKept
<1>7. ASSUME NEW r \in Images, mr_read(r)
      PROVE  Kept
  BY <1>7, ReadKept
<1>8. CASE UNCHANGED vars
  <2>1. UNCHANGED <<memVars, codeVars, screenMoved, freeing, blocks, ghost>>
    BY <1>8 DEF vars
  <2>2. ListsTyped' /\ RegistryTyped' /\ CallTyped'
    BY <2>1, ListsKept, RegistryKept DEF Typed, CallTyped
  <2> QED
    BY <2>1, <2>2 DEF Typed, Kept, Exact
<1> QED
  BY <1>1, <1>2, <1>3, <1>4, <1>5, <1>6, <1>7, <1>8, FindsOwnerKept, FreeStepKept, EntersKept,
     ResetKept, ScreenKept DEF Next

-----------------------------------------------------------------------------
(***************************************************************************)
(* The invariant, and what follows from it.                                *)

\* The heap when the guest is loaded.
LEMMA InitHolds ==
  ASSUME Init
  PROVE  IInv
<1>1. /\ nodes = {Pool} /\ heap_top = End /\ bump_live = {} /\ bump_free = {}
      /\ screenMoved = FALSE
      /\ modules = {} /\ primary = Nothing /\ pending = Nothing
      /\ freeing = Idle /\ blocks = {}
      /\ ghost = [code |-> {}, edited |-> FALSE, spilled |-> FALSE, late |-> FALSE]
  BY DEF Init
<1>2. Owners = {} /\ Code = {}
  BY <1>1 DEF Owners, Idle, Code
<1>3. PoolOK /\ HeadersOK
  <2>1. Pool \in Ranges
    BY ConstantFacts, SpanIsRange DEF Pool
  <2>2. InPool(Pool)
    BY <2>1, PoolFacts, ConstantFacts DEF InPool, Within
  <2>3. Base + Header <= End
    BY GuestHeapAssumption
  <2> QED
    BY <1>1, <2>2, <2>3, PoolFacts DEF PoolOK, Apart, HeadersOK
<1>4. TopOK
  <2>1. heap_top \in End..MemEnd /\ heap_top <= ScreenLo
    BY <1>1, ConstantFacts
  <2>2. screenMoved \in BOOLEAN
    BY <1>1
  <2> QED
    BY <2>1, <2>2 DEF TopOK
<1>5. FallbackOK
  BY <1>1 DEF FallbackOK, Apart
<1>6. RegistryOK
  BY <1>1, <1>2, FS_EmptySet, ConstantFacts, RangeFacts DEF RegistryOK
<1>7. CodeApart /\ OwnersOK
  BY <1>1, <1>2 DEF CodeApart, OwnersOK
<1>8. FreeingOK
  BY <1>1, RangeFacts DEF FreeingOK, Idle
<1>9. WordsOK /\ RestOK
  <2>1. ghost \in Ghosts
    BY <1>1 DEF Ghosts
  <2>2. \A w \in Words(Pool) : Accounted(w)
    BY <1>1 DEF Accounted
  <2> QED
    BY <1>1, <1>2, <2>1, <2>2 DEF WordsOK, RestOK, Idle
<1> QED
  BY <1>3, <1>4, <1>5, <1>6, <1>7, <1>8, <1>9 DEF IInv

LEMMA StutterHolds ==
  ASSUME IInv, UNCHANGED vars
  PROVE  IInv'
<1>1. /\ UNCHANGED <<nodes, heap_top, bump_live, bump_free, screenMoved, freeing, blocks, ghost>>
      /\ UNCHANGED <<modules, primary, pending>>
  BY DEF vars, memVars, codeVars
<1>2. Code' = Code /\ Owners' = Owners
  BY <1>1 DEF Code, Owners
<1>3. \A x : InHeap(x) <=> InHeap(x)'
  BY <1>1 DEF InHeap
<1>4. \A x : CodeRange(x) <=> CodeRange(x)'
  BY <1>1 DEF CodeRange
<1>5. PoolOK' /\ HeadersOK' /\ TopOK' /\ FallbackOK' /\ RegistryOK' /\ CodeApart'
  BY <1>1, <1>2, <1>3, <1>4 DEF IInv, PoolOK, HeadersOK, TopOK, FallbackOK, RegistryOK, CodeApart
<1>6. OwnersOK'
  BY <1>1, <1>2, <1>3 DEF IInv, OwnersOK, OwnerOK
<1>7. FreeingOK'
  BY <1>1, <1>2, <1>3 DEF IInv, FreeingOK
<1>8. WordsOK' /\ RestOK'
  BY <1>1, <1>2 DEF IInv, WordsOK, Accounted, RestOK
<1> QED
  BY <1>5, <1>6, <1>7, <1>8 DEF IInv

\* Every step keeps the invariant, unless it marks the list.
LEMMA StepHolds ==
  ASSUME IInv, [Next]_vars, Exact'
  PROVE  IInv'
<1>1. ASSUME NEW len \in Sizes, mr_malloc(len)
      PROVE  IInv'
  BY <1>1, MallocStep
<1>2. ASSUME NEW len \in Sizes, NEW b \in blocks, mr_realloc(b, len)
      PROVE  IInv'
  BY <1>2, ReallocStep
<1>3. ASSUME NEW b \in blocks, mr_free(b)
      PROVE  IInv'
  BY <1>3, FreeCallStep
<1>4. ASSUME NEW b \in blocks, WrapperFrees(b)
      PROVE  IInv'
  BY <1>4, WrapperStep
<1>5. ASSUME NEW r \in Images, mr_cacheSync(r)
      PROVE  IInv'
  BY <1>5, CacheSyncStep
<1>6. ASSUME NEW r \in Images, mr_c_function_new(r)
      PROVE  IInv'
  BY <1>6, FunctionNewStep
<1>7. ASSUME NEW r \in Images, mr_read(r)
      PROVE  IInv'
  BY <1>7, ReadStep
<1> QED
  BY <1>1, <1>2, <1>3, <1>4, <1>5, <1>6, <1>7, FindsOwnerKeeps, FreeStepKeeps, EntersStep,
     ResetStep, ScreenStep, StutterHolds DEF Next

\* The invariant holds in every state the guest can reach before the list is marked, and
\* the variables have their types in every state.
LEMMA HeapHolds == Spec => []Inv
<1>1. Init => Inv
  BY InitHolds, InitTyped DEF Inv
<1>2. Inv /\ [Next]_vars => Inv'
  BY StepHolds, StepKept DEF Inv, Kept
<1> QED
  BY <1>1, <1>2, PTL DEF Spec

\* The allocator's lists, its registry and the state of a call of mr_free have their
\* types in every state the guest can reach (mem_state of aex_mem.c, nested_modules),
\* also after a fragment was rounded up or a rest was left too short.
THEOREM HeapTypeOK == Spec => []TypeOK
<1>1. ASSUME Typed
      PROVE  TypeOK
  <2>1. nodes \subseteq Ranges /\ bump_live \subseteq Ranges /\ bump_free \subseteq Ranges
    BY <1>1 DEF Typed, ListsTyped, NodesSound, Piece
  <2>2. blocks \subseteq Ranges
    BY <1>1 DEF Typed, CallTyped, Piece
  <2>3. modules \subseteq Ranges
    BY <1>1 DEF Typed, RegistryTyped, CodeSound, Code, Piece
  <2> QED
    BY <1>1, <2>1, <2>2, <2>3
    DEF TypeOK, Typed, ListsTyped, RegistryTyped, CallTyped, Ghosts
<1> QED
  BY <1>1, HeapHolds, PTL DEF Inv

\* The list of the pool, which the guest walks itself, stays sound whatever is allocated,
\* freed, loaded and dropped, until a fragment is rounded up or a rest is left too short:
\* each block holds its header and no two touch (arm_ext_guest_mem_malloc,
\* arm_ext_guest_mem_free).
THEOREM PoolListStaysSound == Spec => []ListIsWellFormed
<1>1. ASSUME IInv
      PROVE  WellFormed(nodes)
  <2>1. PoolOK /\ HeadersOK
    BY <1>1 DEF IInv
  <2>2. ASSUME NEW n \in nodes
        PROVE  Size(n) >= Header
    BY <2>1, PoolNodes DEF HeadersOK, Size, Header
  <2>3. \A n, m \in nodes : n # m => n.hi < m.lo \/ m.hi < n.lo
    BY <2>1 DEF PoolOK, Apart
  <2> QED
    BY <2>2, <2>3 DEF WellFormed
<1>2. Inv => ListIsWellFormed
  BY <1>1 DEF Inv, ListIsWellFormed
<1> QED
  BY <1>2, HeapHolds, PTL

\* No word of the pool is lost: unless the guest edited the list around its code, every
\* word is free, owned, or was once code or lies next to such a word (the fragments mr_free
\* cuts a block into), until a fragment is rounded up or a rest is left too short.
THEOREM NoWordIsLost == Spec => []PoolIsAccountedFor
<1>1. ASSUME Inv
      PROVE  PoolIsAccountedFor
  <2> SUFFICES ASSUME GuestRuns, Exact, ~ghost.edited, NEW w \in Words(Pool)
               PROVE  \/ \E n \in nodes : w \in Words(n)
                      \/ \E b \in blocks : w \in Words(Extent(b))
                      \/ \E v \in {w - 1, w, w + 1} : v \in ghost.code
    BY DEF PoolIsAccountedFor
  <2>1. Owners = blocks /\ freeing.to # "pool"
    BY DEF GuestRuns, Owners, Idle
  <2>2. Accounted(w)
    BY <1>1 DEF Inv, IInv, WordsOK
  <2> QED
    BY <2>1, <2>2 DEF Accounted
<1> QED
  BY <1>1, HeapHolds, PTL

\* What the guest owns is in no list of free memory, is not what mr_free has still to
\* give back, and lies in none of the areas the fallback heap skips (mr_malloc, mr_free,
\* arm_alloc), until a fragment is rounded up or a rest is left too short; the screen's
\* reserve is such an area unless the heap had grown into it before the canvas did.
THEOREM OwnedIsNeverFree == Spec => []NothingOwnedIsFree
<1>1. ASSUME IInv
      PROVE  NothingOwnedIsFree
  <2>1. TopOK /\ OwnersOK /\ FreeingOK /\ FallbackOK /\ PoolOK /\ heap_top \in Nat
        /\ End <= heap_top
    BY <1>1, ConstantFacts DEF IInv, TopOK
  <2>2. ASSUME NEW b \in blocks
        PROVE  /\ \A n \in nodes \cup bump_free : ~Overlap(Extent(b), n)
               /\ freeing # Idle => ~Overlap(Extent(b), freeing.rest)
               /\ ~Overlap(b, Span(StackLo, CodeHi))
               /\ screenMoved /\ ~ghost.late => ~Overlap(b, Span(ScreenLo, MemEnd))
    <3>1. b \in Owners /\ OwnerOK(b)
      BY <2>1 DEF Owners, OwnersOK
    <3>2. \A n \in nodes \cup bump_free : ~Overlap(Extent(b), n)
      BY <2>1, <3>1 DEF OwnersOK
    <3>3. /\ b.lo \in Nat /\ b.hi \in Nat /\ b.lo < b.hi
          /\ Extent(b).lo = b.lo /\ Extent(b).hi \in Nat /\ b.hi <= Extent(b).hi
          /\ Within(b, Pool) => Extent(b).hi <= End
          /\ ~Within(b, Pool) => InHeap(b) /\ b.hi <= heap_top
      BY <2>1, <3>1, OwnerFacts
    <3>4. ASSUME freeing.to = "block"
          PROVE  ~Overlap(Extent(b), freeing.rest)
      <4>1. PICK d : d = freeing.rest
        OBVIOUS
      <4>2. d \in Owners /\ d # b /\ OwnerOK(d)
        BY <2>1, <3>4, <4>1 DEF Owners, OwnersOK, FreeingOK
      <4>3. ~Overlap(Extent(b), Extent(d))
        BY <2>1, <3>1, <4>2 DEF OwnersOK
      <4>4. /\ d.lo \in Nat /\ d.hi \in Nat
            /\ Extent(d).lo = d.lo /\ Extent(d).hi \in Nat /\ d.hi <= Extent(d).hi
        BY <2>1, <4>2, OwnerFacts
      <4> QED
        BY <3>3, <4>1, <4>3, <4>4 DEF Overlap
    <3>5. freeing.to \in {"pool", "bump"} => ~Overlap(Extent(b), freeing.rest)
      BY <2>1, <3>1 DEF FreeingOK
    <3>6. freeing # Idle => freeing.to \in {"block", "pool", "bump"}
      BY <2>1 DEF FreeingOK
    <3>7. ~Overlap(b, Span(StackLo, CodeHi))
      <4>1. CASE Within(b, Pool)
        BY <3>3, <4>1, ConstantFacts, SpanFields DEF Overlap
      <4>2. CASE ~Within(b, Pool)
        BY <3>3, <4>2 DEF InHeap, Reserved
      <4> QED
        BY <4>1, <4>2
    <3>8. screenMoved /\ ~ghost.late => ~Overlap(b, Span(ScreenLo, MemEnd))
      <4>1. screenMoved /\ ~ghost.late => heap_top <= ScreenLo
        BY <2>1 DEF TopOK
      <4>2. b.hi <= heap_top
        BY <2>1, <3>3, ConstantFacts
      <4> QED
        BY <2>1, <3>3, <4>1, <4>2, ConstantFacts, SpanFields DEF Overlap
    <3> QED
      BY <3>2, <3>4, <3>5, <3>6, <3>7, <3>8
  <2>3. \A n \in bump_free, l \in bump_live : ~Overlap(n, l)
    BY <2>1 DEF FallbackOK
  <2> QED
    BY <2>2, <2>3 DEF NothingOwnedIsFree
<1>2. Inv => NothingOwnedIsFree
  BY <1>1 DEF Inv, NothingOwnedIsFree
<1> QED
  BY <1>2, HeapHolds, PTL

-----------------------------------------------------------------------------
(***************************************************************************)
(* What a step may never do, and what the two heaps promise together.      *)

\* A pass of mr_free puts no header over code, also when the guest's own walk has left an
\* entry there: what it gives back begins with none, however much longer it is recorded,
\* and the walk stops at a header that is code.
LEMMA FreeStepSparesCode ==
  ASSUME Typed, FreeStep, NEW n \in nodes', n \notin nodes
  PROVE  ~Blocked(n)
<1> DEFINE r == freeing.rest
<1>0. CodeSound /\ NodesSound /\ Piece(r)
  BY DEF Typed, RegistryTyped, ListsTyped, CallTyped, FreeStep
<1>1. PICK f \in [lo : Nat, hi : Nat], m \in Nat :
           /\ f.lo = r.lo /\ f.lo <= f.hi /\ f.hi <= m /\ m <= r.hi
           /\ f.lo < f.hi => \A c \in Code : ~Overlap(c, f)
           /\ TakesFragment(f)
  BY <1>0, FreeStepFacts
<1>2. Size(f) >= Header /\ nodes' = PoolTakes(f)
  BY <1>1 DEF TakesFragment
<1>3. f.lo \in Nat /\ f.hi \in Nat /\ f.lo + 2 <= f.hi /\ Size(f) = f.hi - f.lo
  BY <1>1, <1>2 DEF Size, Header
<1>4. PICK w : w = Span(f.lo, f.lo + Rounded(Size(f)))
  OBVIOUS
<1>5. Within(w, Pool) /\ WalkReaches(w) /\ nodes' = Insert(nodes, w)
  BY <1>2, <1>4 DEF PoolTakes
<1>6. w.lo = f.lo /\ Piece(w)
  <2>1. w.lo = f.lo /\ w.hi = f.lo + Rounded(f.hi - f.lo)
    BY <1>3, <1>4, SpanFields
  <2>2. f.hi - f.lo \in Nat /\ Rounded(f.hi - f.lo) \in Nat /\ Rounded(f.hi - f.lo) >= 2
    BY <1>3, RoundedBounds
  <2>3. w.hi <= End
    BY <1>5, PoolFacts DEF Within
  <2>4. w.lo \in Int /\ w.hi \in Int /\ 0 <= w.lo /\ w.lo < w.hi /\ w.hi <= MemEnd
    BY <1>3, <2>1, <2>2, <2>3, ConstantFacts
  <2>5. w = Span(w.lo, w.hi)
    BY <1>4, SpanFields
  <2>6. Span(w.lo, w.hi) \in Ranges
    BY <2>4, SpanIsRange
  <2> QED
    BY <2>1, <2>4, <2>5, <2>6 DEF Piece
<1>7. n.lo = w.lo \/ \E k \in nodes : k.lo = n.lo /\ k.lo < w.lo
  BY <1>0, <1>5, <1>6, InsertTypes DEF NodesSound
<1>8. CASE \E k \in nodes : k.lo = n.lo /\ k.lo < w.lo
  BY <1>5, <1>8 DEF WalkReaches, Blocked
<1>9. CASE n.lo = w.lo
  <2>1. ASSUME NEW c \in Code
        PROVE  ~Overlap(c, Span(n.lo, n.lo + Header))
    <3>1. c.lo \in Int /\ c.hi \in Int /\ ~Overlap(c, f)
      BY <1>0, <1>1, <1>3, PieceFacts DEF CodeSound
    <3> QED
      BY <1>3, <1>6, <1>9, <3>1, SpanFields DEF Overlap, Header
  <2> QED
    BY <2>1, NoCodeIn DEF Blocked
<1> QED
  BY <1>7, <1>8, <1>9

\* mr_free writes no header over registered code, wherever that lies, however the free is
\* cut and whatever the guest did to its list (arm_ext_guest_mem_free and the walk it
\* shares with arm_ext_guest_mem_malloc).
THEOREM FreeingSparesCode == Spec => FreeSparesCode
<1>1. ASSUME Typed, [Next]_vars
      PROVE  [FreeStep => \A n \in nodes' \ nodes : ~Blocked(n)]_vars
  BY <1>1, FreeStepSparesCode
<1> QED
  BY <1>1, HeapHolds, PTL DEF Spec, FreeSparesCode, Inv

\* What a request gets is what the heap may allocate.
LEMMA ServedFits ==
  ASSUME IInv, GuestRuns, NEW d, Served(d)
  PROVE  H!Fits(d)
<1>1. d.lo \in Nat /\ d.hi \in Nat /\ d.lo < d.hi /\ Extent(d).lo = d.lo
      /\ Extent(d).hi \in Nat /\ d.hi <= Extent(d).hi
  <2>1. d.lo \in Nat /\ d.hi \in Nat /\ d.lo < d.hi
    BY RangeFacts DEF Served
  <2>2. CASE Within(d, Pool)
    <3>1. Extent(d) = Whole(d)
      BY <2>2 DEF Extent
    <3> QED
      BY <2>1, <3>1, WholeFacts
  <2>3. CASE ~Within(d, Pool)
    BY <2>1, <2>3 DEF Extent
  <2> QED
    BY <2>2, <2>3
<1>2. ASSUME NEW b \in blocks
      PROVE  ~Overlap(d, b)
  <2>1. ~Overlap(Extent(b), Extent(d))
    BY DEF Served
  <2>2. OwnerOK(b) /\ TopOK
    BY DEF IInv, OwnersOK, Owners
  <2>3. /\ b.lo \in Nat /\ b.hi \in Nat /\ Extent(b).lo = b.lo
        /\ Extent(b).hi \in Nat /\ b.hi <= Extent(b).hi
    BY <2>2, OwnerFacts
  <2> QED
    BY <1>1, <2>1, <2>3 DEF Overlap
<1>3. \A c \in Code : ~Overlap(d, c)
  BY DEF Served
<1> QED
  BY <1>1, <1>2, <1>3 DEF H!Fits, H!Overlap, Overlap

HeapStep == [H!Allocate \/ H!Release \/ H!Move \/ H!Load]_<<blocks, Code>>

\* A step that leaves the guest's blocks alone loads code into them, or drops code.
LEMMA CodeStepMaps ==
  ASSUME UNCHANGED blocks, \A r \in Code' \ Code : \E b \in blocks : Within(r, b)
  PROVE  HeapStep
  BY DEF HeapStep, H!Load, H!Within, Within

LEMMA MallocMaps ==
  ASSUME IInv, NEW len \in Sizes, mr_malloc(len)
  PROVE  HeapStep
<1>0. GhostKept
  BY RestsAreMarked DEF mr_malloc, IInv, WordsOK
<1>1. CASE MallocFails(len) /\ UNCHANGED blocks
  <2>1. Code' = Code
    BY <1>0, <1>1, FailureKeeps DEF mr_malloc
  <2> QED
    BY <1>1, <2>1 DEF HeapStep
<1>2. CASE \E a \in Addresses : Mallocs(len, a) /\ blocks' = blocks \cup {Block(a, len)}
  <2>1. PICK a \in Addresses : Mallocs(len, a) /\ blocks' = blocks \cup {Block(a, len)}
    BY <1>2
  <2>2. GuestRuns /\ UNCHANGED <<codeVars, screenMoved, freeing>>
    BY DEF mr_malloc
  <2>3. Owners' = Owners \cup {Block(a, len)}
    BY <2>1, <2>2 DEF Owners, GuestRuns, Idle
  <2>4. Served(Block(a, len))
    BY <1>0, <2>1, <2>2, <2>3, MallocKeeps
  <2>5. H!Fits(Block(a, len)) /\ Code' = Code
    BY <2>2, <2>4, ServedFits DEF Served
  <2>6. H!Allocate
    BY <2>1, <2>5 DEF H!Allocate
  <2> QED
    BY <2>6 DEF HeapStep
<1> QED
  BY <1>1, <1>2 DEF mr_malloc

LEMMA ReallocMaps ==
  ASSUME IInv, NEW len \in Sizes, NEW b \in blocks, mr_realloc(b, len)
  PROVE  HeapStep
<1>0. GhostKept
  BY RestsAreMarked DEF mr_realloc, IInv, WordsOK
<1>1. CASE MallocFails(len) /\ UNCHANGED <<blocks, freeing>>
  <2>1. Code' = Code
    BY <1>0, <1>1, FailureKeeps DEF mr_realloc
  <2> QED
    BY <1>1, <2>1 DEF HeapStep
<1>2. CASE \E a \in Addresses :
             /\ Mallocs(len, a)
             /\ blocks' = (blocks \ {b}) \cup {Block(a, len)}
             /\ Frees(b)
  <2>1. PICK a \in Addresses :
          /\ Mallocs(len, a)
          /\ blocks' = (blocks \ {b}) \cup {Block(a, len)}
          /\ freeing' = [to |-> "block", rest |-> b]
    BY <1>2 DEF Frees
  <2>2. GuestRuns /\ UNCHANGED <<codeVars, screenMoved>>
    BY DEF mr_realloc
  <2>3. Owners' = Owners \cup {Block(a, len)}
    BY <2>1, <2>2 DEF Owners, GuestRuns, Idle
  <2>4. Served(Block(a, len))
    BY <1>0, <2>1, <2>2, <2>3, MallocKeeps
  <2>5. H!Fits(Block(a, len)) /\ Code' = Code
    BY <2>2, <2>4, ServedFits DEF Served
  <2>6. H!Move
    BY <2>1, <2>5 DEF H!Move
  <2> QED
    BY <2>6 DEF HeapStep
<1> QED
  BY <1>1, <1>2 DEF mr_realloc

LEMMA ReleaseMaps ==
  ASSUME IInv, NEW b \in blocks, mr_free(b) \/ WrapperFrees(b)
  PROVE  HeapStep
<1>1. blocks' = blocks \ {b} /\ UNCHANGED codeVars
  BY DEF mr_free, WrapperFrees
<1>2. Code' = Code
  BY <1>1 DEF codeVars, Code
<1>3. H!Release
  BY <1>1, <1>2 DEF H!Release
<1> QED
  BY <1>3 DEF HeapStep

LEMMA ImageMaps ==
  ASSUME IInv, NEW r \in Images,
         mr_cacheSync(r) \/ mr_c_function_new(r) \/ mr_read(r)
  PROVE  HeapStep
<1>1. GuestRuns /\ UNCHANGED blocks
  BY DEF mr_cacheSync, mr_c_function_new, mr_read
<1>2. Code' \subseteq Code \cup {r}
  BY CacheSyncStep, FunctionNewStep, ReadStep
<1>3. \E b \in blocks : Within(r, b)
  BY <1>1, ImageFits
<1> QED
  BY <1>1, <1>2, <1>3, CodeStepMaps

LEMMA QuietMaps ==
  ASSUME IInv,
         \/ FindsOwner \/ FreeStep \/ EntersChild \/ arm_ext_reset_child_modules
         \/ hook_screen_dim_write \/ UNCHANGED vars
  PROVE  HeapStep
<1>1. UNCHANGED blocks
  BY DEF FindsOwner, FreeStep, EntersChild, arm_ext_reset_child_modules,
         hook_screen_dim_write, vars
<1>2. CASE EntersChild \/ arm_ext_reset_child_modules
  <2>1. Code' \subseteq Code
    BY <1>2, EntersStep, ResetStep
  <2> QED
    BY <1>1, <2>1, CodeStepMaps
<1>3. CASE FindsOwner \/ FreeStep \/ hook_screen_dim_write \/ UNCHANGED vars
  <2>1. Code' = Code
    BY <1>3 DEF FindsOwner, FreeStep, hook_screen_dim_write, vars, codeVars, Code
  <2> QED
    BY <1>1, <2>1 DEF HeapStep
<1> QED
  BY <1>2, <1>3

\* Every step is one of the abstract heap, or leaves that alone.
LEMMA StepMaps ==
  ASSUME IInv, [Next]_vars
  PROVE  HeapStep
<1>1. ASSUME NEW len \in Sizes, mr_malloc(len)
      PROVE  HeapStep
  BY <1>1, MallocMaps
<1>2. ASSUME NEW len \in Sizes, NEW b \in blocks, mr_realloc(b, len)
      PROVE  HeapStep
  BY <1>2, ReallocMaps
<1>3. ASSUME NEW b \in blocks, mr_free(b) \/ WrapperFrees(b)
      PROVE  HeapStep
  BY <1>3, ReleaseMaps
<1>4. ASSUME NEW r \in Images, mr_cacheSync(r) \/ mr_c_function_new(r) \/ mr_read(r)
      PROVE  HeapStep
  BY <1>4, ImageMaps
<1> QED
  BY <1>1, <1>2, <1>3, <1>4, QuietMaps DEF Next

\* The pool and the fallback heap together implement Heap: memory that is handed out
\* overlaps neither owned memory nor code, wherever the free blocks lie and whoever freed
\* what (mr_malloc, mr_free, mr_realloc and the registry of aex_module.c), in every step
\* from a state in which no fragment was rounded up and no rest left too short.
THEOREM GuestHeapImplementsHeap == Spec => ImplementsHeap
<1>1. Init => H!Init
  BY DEF Init, H!Init, Code
<1>2. Inv /\ [Next]_vars => [H!Next \/ ~Exact]_<<blocks, Code>>
  BY StepMaps DEF HeapStep, Inv, H!Next
<1> QED
  BY <1>1, <1>2, HeapHolds, PTL DEF Spec, ImplementsHeap

\* A call of mr_free that rounds no fragment up gives the pool no word of another block
\* (FreesOnlyItsOwn, which a fragment that is rounded up breaks).
THEOREM FreesWithoutRoundingAreExact ==
  Spec => [][freeing.to = "pool" /\ Exact' =>
    \A n \in nodes' : \A w \in Words(n) :
      w \in Words(freeing.rest) \/ \E m \in nodes : w \in Words(m)]_vars
<1>1. ASSUME IInv, FreeStep, freeing.to = "pool", Exact', NEW n \in nodes', NEW w \in Words(n)
      PROVE  w \in Words(freeing.rest) \/ \E m \in nodes : w \in Words(m)
  <2>1. RegistryOK /\ FreeingOK /\ PoolOK /\ PoolOK'
    BY <1>1, FreeStepKeeps DEF IInv
  <2>2. PICK f \in [lo : Nat, hi : Nat], m \in Nat :
           /\ f.lo = freeing.rest.lo /\ f.lo <= f.hi /\ f.hi <= m /\ m <= freeing.rest.hi
           /\ f = Span(f.lo, f.hi)
           /\ TakesFragment(f)
    BY <1>1, <2>1, CodeIsSound, FreeingPiece, FreeStepFacts
  <2>3. GivesBack(nodes, nodes', f)
    BY <1>1, <2>2, FragmentGoesBack
  <2>4. w \in Int
    BY <1>1, <2>1, RangeFacts DEF PoolOK, InPool, Words
  <2>5. w \in Words(f) \/ \E k \in nodes : w \in Words(k)
    BY <1>1, <2>3, <2>4, InsertWords DEF GivesBack
  <2>6. freeing.rest.lo \in Nat /\ freeing.rest.hi \in Nat
    BY <1>1, <2>1, FreeingRange
  <2>7. w \in Words(f) => w \in Words(freeing.rest)
    BY <2>2, <2>4, <2>6 DEF Words
  <2> QED
    BY <2>5, <2>7
<1>2. ASSUME IInv, [Next]_vars, freeing.to = "pool", ~FreeStep
      PROVE  nodes' = nodes
  <2>1. ~GuestRuns
    BY <1>2 DEF GuestRuns, Idle
  <2>2. ASSUME NEW r \in Images
        PROVE  ~(mr_cacheSync(r) \/ mr_c_function_new(r) \/ mr_read(r))
    BY <2>1 DEF mr_cacheSync, mr_c_function_new, mr_read
  <2>3. ~(EntersChild \/ arm_ext_reset_child_modules \/ hook_screen_dim_write)
    BY <2>1 DEF EntersChild, arm_ext_reset_child_modules, hook_screen_dim_write
  <2>4. ASSUME NEW len, NEW b
        PROVE  ~(mr_malloc(len) \/ mr_realloc(b, len) \/ mr_free(b) \/ WrapperFrees(b))
    BY <2>1 DEF mr_malloc, mr_realloc, mr_free, WrapperFrees
  <2>5. ~FindsOwner
    BY <1>2 DEF FindsOwner
  <2>6. CASE UNCHANGED vars
    BY <2>6 DEF vars, memVars
  <2> QED
    BY <1>2, <2>2, <2>3, <2>4, <2>5, <2>6 DEF Next
<1>3. ASSUME Inv, [Next]_vars
      PROVE  [freeing.to = "pool" /\ Exact' =>
               \A n \in nodes' : \A w \in Words(n) :
                 w \in Words(freeing.rest) \/ \E m \in nodes : w \in Words(m)]_vars
  BY <1>1, <1>2, <1>3, StepKept DEF Inv, Kept
<1> QED
  BY <1>3, HeapHolds, PTL DEF Spec
=============================================================================
