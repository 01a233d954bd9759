---------------------------- MODULE FreeListProofs ----------------------------
(***************************************************************************)
(* What mr_free does to a free list, for every list and every block: it    *)
(* adds the block's words and no others, touches no range that is disjoint *)
(* from both, and keeps the list well formed.  GuestHeapProofs cites these *)
(* facts for the pool and for the fallback heap.                           *)
(***************************************************************************)
EXTENDS FreeList, WellFoundedInduction, TLAPS

\* A range with a word in it.
Proper(r) == r = Span(r.lo, r.hi) /\ r.lo \in Int /\ r.hi \in Int /\ r.lo < r.hi

\* No two blocks overlap, and none ends where another begins.
Apart(list) == \A n, m \in list : n = m \/ n.hi < m.lo \/ m.hi < n.lo

\* What the walk of mr_free may be called with: the block is not free yet.
FreeFor(list, r) ==
  /\ \A n \in list : Proper(n)
  /\ Apart(list)
  /\ Proper(r)
  /\ \A n \in list : ~Overlap(n, r)

LEMMA SpanFields ==
  \A lo, hi : Span(lo, hi).lo = lo /\ Span(lo, hi).hi = hi
  BY DEF Span

\* In a list whose blocks lie apart, the neighbours are the blocks that touch r.
LEMMA NeighboursTouch ==
  ASSUME NEW list, NEW r, FreeFor(list, r)
  PROVE  /\ Before(list, r) = {n \in list : n.hi = r.lo}
         /\ After(list, r) = {n \in list : n.lo = r.hi}
         /\ ~AlreadyFree(list, r)
         /\ \A n, m \in Before(list, r) : n = m
         /\ \A n, m \in After(list, r) : n = m
<1>0. /\ r.lo \in Int /\ r.hi \in Int /\ r.lo < r.hi
      /\ \A n \in list : n.lo \in Int /\ n.hi \in Int /\ n.lo < n.hi
      /\ \A n \in list : n.hi <= r.lo \/ r.hi <= n.lo
  BY DEF FreeFor, Proper, Overlap
<1>1. ASSUME NEW n \in list, n.hi = r.lo
      PROVE  n.lo < r.lo /\ \A m \in list : m.lo < r.lo => m.lo <= n.lo
  BY <1>0, <1>1 DEF FreeFor, Apart
<1>2. ASSUME NEW n \in list, n.lo = r.hi
      PROVE  \A m \in list : m.lo >= r.lo => m.lo >= n.lo
  BY <1>0, <1>2
<1>3. Before(list, r) = {n \in list : n.hi = r.lo}
  BY <1>1 DEF Before
<1>4. After(list, r) = {n \in list : n.lo = r.hi}
  BY <1>2 DEF After
<1>5. ~AlreadyFree(list, r)
  BY <1>0 DEF AlreadyFree
<1>6. \A n, m \in Before(list, r) : n = m
  BY <1>0, <1>3 DEF FreeFor, Apart
<1>7. \A n, m \in After(list, r) : n = m
  BY <1>0, <1>4 DEF FreeFor, Apart
<1> QED
  BY <1>3, <1>4, <1>5, <1>6, <1>7

\* The merged block begins where r or its lower neighbour does, and ends likewise.
LEMMA MergedBounds ==
  ASSUME NEW list, NEW r, FreeFor(list, r)
  PROVE  \E lo, hi \in Int :
           /\ Merged(list, r) = Span(lo, hi)
           /\ lo <= r.lo /\ r.hi <= hi
           /\ \/ lo = r.lo /\ \A n \in list : n.hi # r.lo
              \/ \E n \in list : n.hi = r.lo /\ n.lo = lo
           /\ \/ hi = r.hi /\ \A n \in list : n.lo # r.hi
              \/ \E n \in list : n.lo = r.hi /\ n.hi = hi
<1>0. /\ r.lo \in Int /\ r.hi \in Int /\ r.lo < r.hi
      /\ \A n \in list : n.lo \in Int /\ n.hi \in Int /\ n.lo < n.hi
  BY DEF FreeFor, Proper
<1>1. /\ Before(list, r) = {n \in list : n.hi = r.lo}
      /\ After(list, r) = {n \in list : n.lo = r.hi}
      /\ \A n, m \in Before(list, r) : n = m
      /\ \A n, m \in After(list, r) : n = m
  BY NeighboursTouch
<1> DEFINE starts == {n.lo : n \in Before(list, r)} \cup {r.lo}
           ends   == {n.hi : n \in After(list, r)} \cup {r.hi}
           lo == CHOOSE a \in starts : \A s \in starts : a <= s
           hi == CHOOSE b \in ends : \A e \in ends : e <= b
<1>2. /\ lo \in Int /\ lo <= r.lo
      /\ \/ lo = r.lo /\ \A n \in list : n.hi # r.lo
         \/ \E n \in list : n.hi = r.lo /\ n.lo = lo
  <2>1. CASE \A n \in list : n.hi # r.lo
    <3>1. starts = {r.lo}
      BY <1>1, <2>1
    <3>2. lo = r.lo
      BY <1>0, <3>1
    <3> HIDE DEF starts, ends, lo, hi
    <3> QED
      BY <1>0, <2>1, <3>2
  <2>2. CASE \E n \in list : n.hi = r.lo
    <3>1. PICK n \in list : n.hi = r.lo
      BY <2>2
    <3>2. Before(list, r) = {n}
      BY <1>1, <3>1
    <3>3. starts = {n.lo, r.lo} /\ n.lo < r.lo /\ n.lo \in Int
      BY <1>0, <3>1, <3>2
    <3>4. \E a \in starts : \A s \in starts : a <= s
      BY <1>0, <3>3
    <3>5. lo \in starts /\ \A s \in starts : lo <= s
      BY <3>4
    <3>6. lo = n.lo
      BY <1>0, <3>3, <3>5
    <3> HIDE DEF lo, starts
    <3> QED
      BY <1>0, <3>1, <3>3, <3>6
  <2> HIDE DEF lo, starts
  <2> QED
    BY <2>1, <2>2
<1>3. /\ hi \in Int /\ r.hi <= hi
      /\ \/ hi = r.hi /\ \A n \in list : n.lo # r.hi
         \/ \E n \in list : n.lo = r.hi /\ n.hi = hi
  <2>1. CASE \A n \in list : n.lo # r.hi
    <3>1. ends = {r.hi}
      BY <1>1, <2>1
    <3>2. hi = r.hi
      BY <1>0, <3>1
    <3> HIDE DEF starts, ends, lo, hi
    <3> QED
      BY <1>0, <2>1, <3>2
  <2>2. CASE \E n \in list : n.lo = r.hi
    <3>1. PICK n \in list : n.lo = r.hi
      BY <2>2
    <3>2. After(list, r) = {n}
      BY <1>1, <3>1
    <3>3. ends = {n.hi, r.hi} /\ r.hi < n.hi /\ n.hi \in Int
      BY <1>0, <3>1, <3>2
    <3>4. \E b \in ends : \A e \in ends : e <= b
      BY <1>0, <3>3
    <3>5. hi \in ends /\ \A e \in ends : e <= hi
      BY <3>4
    <3>6. hi = n.hi
      BY <1>0, <3>3, <3>5
    <3> HIDE DEF hi, ends
    <3> QED
      BY <1>0, <3>1, <3>3, <3>6
  <2> HIDE DEF hi, ends
  <2> QED
    BY <2>1, <2>2
<1>4. Merged(list, r) = Span(lo, hi)
  BY DEF Merged
<1> HIDE DEF starts, ends, lo, hi
<1> QED
  BY <1>2, <1>3, <1>4

\* mr_free replaces the blocks that touch r by one block that reaches over them and r.
LEMMA InsertIs ==
  ASSUME NEW list, NEW r, FreeFor(list, r)
  PROVE  \E lo, hi \in Int :
           /\ Insert(list, r) =
                {n \in list : n.hi # r.lo /\ n.lo # r.hi} \cup {Span(lo, hi)}
           /\ lo <= r.lo /\ r.hi <= hi
           /\ \/ lo = r.lo /\ \A n \in list : n.hi # r.lo
              \/ \E n \in list : n.hi = r.lo /\ n.lo = lo
           /\ \/ hi = r.hi /\ \A n \in list : n.lo # r.hi
              \/ \E n \in list : n.lo = r.hi /\ n.hi = hi
<1>1. PICK lo \in Int, hi \in Int :
        /\ Merged(list, r) = Span(lo, hi)
        /\ lo <= r.lo /\ r.hi <= hi
        /\ \/ lo = r.lo /\ \A n \in list : n.hi # r.lo
           \/ \E n \in list : n.hi = r.lo /\ n.lo = lo
        /\ \/ hi = r.hi /\ \A n \in list : n.lo # r.hi
           \/ \E n \in list : n.lo = r.hi /\ n.hi = hi
  BY MergedBounds
<1>2. Insert(list, r) = {n \in list : n.hi # r.lo /\ n.lo # r.hi} \cup {Span(lo, hi)}
  BY <1>1, NeighboursTouch DEF Insert
<1> QED
  BY <1>1, <1>2

\* The list mr_free leaves has blocks that lie apart, each begins where one of the old
\* blocks or r does and ends where one of them does, and only r adds a beginning.
LEMMA InsertBlocks ==
  ASSUME NEW list, NEW r, FreeFor(list, r)
  PROVE  /\ Apart(Insert(list, r))
         /\ \A n \in Insert(list, r) :
              /\ Proper(n)
              /\ n.lo = r.lo \/ \E m \in list : m.lo = n.lo
              /\ n.hi = r.hi \/ \E m \in list : m.hi = n.hi
              /\ n \in list \/ Within(r, n)
              /\ n \in list \/ n.lo = r.lo \/ \E m \in list : m.lo = n.lo /\ m.lo < r.lo
<1>1. PICK lo \in Int, hi \in Int :
        /\ Insert(list, r) =
             {n \in list : n.hi # r.lo /\ n.lo # r.hi} \cup {Span(lo, hi)}
        /\ lo <= r.lo /\ r.hi <= hi
        /\ \/ lo = r.lo /\ \A n \in list : n.hi # r.lo
           \/ \E n \in list : n.hi = r.lo /\ n.lo = lo
        /\ \/ hi = r.hi /\ \A n \in list : n.lo # r.hi
           \/ \E n \in list : n.lo = r.hi /\ n.hi = hi
  BY InsertIs
<1>2. /\ r.lo \in Int /\ r.hi \in Int /\ r.lo < r.hi
      /\ \A n \in list : n.lo \in Int /\ n.hi \in Int /\ n.lo < n.hi /\ n = Span(n.lo, n.hi)
      /\ \A n \in list : n.hi <= r.lo \/ r.hi <= n.lo
      /\ \A n, m \in list : n = m \/ n.hi < m.lo \/ m.hi < n.lo
  BY DEF FreeFor, Proper, Overlap, Apart
<1> DEFINE s == Span(lo, hi)
<1>3. s.lo = lo /\ s.hi = hi /\ lo < hi /\ s = Span(s.lo, s.hi)
  BY <1>1, <1>2, SpanFields
<1> HIDE DEF s
<1>4. ASSUME NEW n \in list, n.hi # r.lo, n.lo # r.hi
      PROVE  n.hi < s.lo \/ s.hi < n.lo
  BY <1>1, <1>2, <1>3, <1>4
<1>5. Insert(list, r) = {n \in list : n.hi # r.lo /\ n.lo # r.hi} \cup {s}
  BY <1>1 DEF s
<1>6. Apart(Insert(list, r))
  BY <1>2, <1>4, <1>5 DEF Apart
<1>7. ASSUME NEW n \in Insert(list, r)
      PROVE  /\ Proper(n)
             /\ n.lo = r.lo \/ \E m \in list : m.lo = n.lo
             /\ n.hi = r.hi \/ \E m \in list : m.hi = n.hi
             /\ n \in list \/ Within(r, n)
             /\ n \in list \/ n.lo = r.lo \/ \E m \in list : m.lo = n.lo /\ m.lo < r.lo
  <2>1. CASE n \in list
    BY <1>2, <2>1 DEF Proper
  <2>2. CASE n = s
    <3>1. Proper(n) /\ Within(r, n)
      BY <1>1, <1>2, <1>3, <2>2 DEF Proper, Within
    <3>2. n.lo = r.lo \/ \E m \in list : m.lo = n.lo /\ m.lo < r.lo
      BY <1>1, <1>2, <1>3, <2>2
    <3>3. n.hi = r.hi \/ \E m \in list : m.hi = n.hi
      BY <1>1, <1>3, <2>2
    <3> QED
      BY <3>1, <3>2, <3>3
  <2> QED
    BY <1>5, <2>1, <2>2
<1> QED
  BY <1>6, <1>7

\* A range that is disjoint from the list and from r is disjoint from the new list.
LEMMA InsertTouchesNoOther ==
  ASSUME NEW list, NEW r, FreeFor(list, r),
         NEW x, x.lo \in Int, x.hi \in Int, x.lo < x.hi,
         ~Overlap(x, r), \A n \in list : ~Overlap(x, n)
  PROVE  \A n \in Insert(list, r) : ~Overlap(x, n)
<1>1. PICK lo \in Int, hi \in Int :
        /\ Insert(list, r) =
             {n \in list : n.hi # r.lo /\ n.lo # r.hi} \cup {Span(lo, hi)}
        /\ lo <= r.lo /\ r.hi <= hi
        /\ \/ lo = r.lo /\ \A n \in list : n.hi # r.lo
           \/ \E n \in list : n.hi = r.lo /\ n.lo = lo
        /\ \/ hi = r.hi /\ \A n \in list : n.lo # r.hi
           \/ \E n \in list : n.lo = r.hi /\ n.hi = hi
  BY InsertIs
<1>2. /\ r.lo \in Int /\ r.hi \in Int /\ r.lo < r.hi
      /\ \A n \in list : n.lo \in Int /\ n.hi \in Int /\ n.lo < n.hi
      /\ \A n \in list : x.hi <= n.lo \/ n.hi <= x.lo
      /\ x.hi <= r.lo \/ r.hi <= x.lo
  BY DEF FreeFor, Proper, Overlap
<1>3. x.hi <= lo \/ hi <= x.lo
  BY <1>1, <1>2
<1>4. ~Overlap(x, Span(lo, hi))
  BY <1>1, <1>2, <1>3, SpanFields DEF Overlap
<1> QED
  BY <1>1, <1>4

\* The words of the new list are those of the old list and of r.
LEMMA InsertWords ==
  ASSUME NEW list, NEW r, FreeFor(list, r), NEW w \in Int
  PROVE  (\E n \in Insert(list, r) : w \in Words(n))
           <=> w \in Words(r) \/ \E n \in list : w \in Words(n)
<1>1. PICK lo \in Int, hi \in Int :
        /\ Insert(list, r) =
             {n \in list : n.hi # r.lo /\ n.lo # r.hi} \cup {Span(lo, hi)}
        /\ lo <= r.lo /\ r.hi <= hi
        /\ \/ lo = r.lo /\ \A n \in list : n.hi # r.lo
           \/ \E n \in list : n.hi = r.lo /\ n.lo = lo
        /\ \/ hi = r.hi /\ \A n \in list : n.lo # r.hi
           \/ \E n \in list : n.lo = r.hi /\ n.hi = hi
  BY InsertIs
<1>2. /\ r.lo \in Int /\ r.hi \in Int /\ r.lo < r.hi
      /\ \A n \in list : n.lo \in Int /\ n.hi \in Int /\ n.lo < n.hi
      /\ \A n, m \in list : n = m \/ n.hi < m.lo \/ m.hi < n.lo
  BY DEF FreeFor, Proper, Apart
<1>3. ASSUME NEW x, x.lo \in Int, x.hi \in Int
      PROVE  w \in Words(x) <=> x.lo <= w /\ w < x.hi
  BY <1>3 DEF Words
<1>4. w \in Words(Span(lo, hi)) <=> lo <= w /\ w < hi
  BY <1>1, <1>3, SpanFields
<1>5. w \in Words(r) <=> r.lo <= w /\ w < r.hi
  BY <1>2, <1>3
<1>6. \A n \in list : w \in Words(n) <=> n.lo <= w /\ w < n.hi
  BY <1>2, <1>3
<1>7. ASSUME NEW n \in list, w \in Words(n)
      PROVE  \E m \in Insert(list, r) : w \in Words(m)
  <2>1. CASE n.hi # r.lo /\ n.lo # r.hi
    BY <1>1, <1>7, <2>1
  <2>2. CASE n.hi = r.lo
    <3>1. n.lo = lo
      BY <1>1, <1>2, <2>2
    <3> QED
      BY <1>1, <1>2, <1>4, <1>6, <1>7, <2>2, <3>1
  <2>3. CASE n.lo = r.hi
    <3>1. n.hi = hi
      BY <1>1, <1>2, <2>3
    <3> QED
      BY <1>1, <1>2, <1>4, <1>6, <1>7, <2>3, <3>1
  <2> QED
    BY <2>1, <2>2, <2>3
<1>8. ASSUME w \in Words(r)
      PROVE  \E m \in Insert(list, r) : w \in Words(m)
  BY <1>1, <1>2, <1>4, <1>5, <1>8
<1>9. ASSUME NEW m \in Insert(list, r), w \in Words(m), w \notin Words(r)
      PROVE  \E n \in list : w \in Words(n)
  <2>1. CASE m \in list
    BY <1>9, <2>1
  <2>2. CASE m = Span(lo, hi)
    <3>1. lo <= w /\ w < hi /\ (w < r.lo \/ r.hi <= w)
      BY <1>2, <1>4, <1>5, <1>9, <2>2
    <3> QED
      BY <1>1, <1>2, <1>6, <3>1
  <2> QED
    BY <1>1, <1>9, <2>1, <2>2
<1> QED
  BY <1>7, <1>8, <1>9

\* Giving back a block that holds a header and is not free keeps a list sound: its
\* blocks hold their headers, no two overlap and none touches the next (mr_free).
THEOREM InsertKeepsWellFormed ==
  ASSUME NEW list, NEW r, FreeFor(list, r), WellFormed(list), Size(r) >= Header
  PROVE  WellFormed(Insert(list, r))
<1>1. /\ r.lo \in Int /\ r.hi \in Int
      /\ \A n \in list : n.lo \in Int /\ n.hi \in Int
  BY DEF FreeFor, Proper
<1>2. ASSUME NEW n \in Insert(list, r)
      PROVE  Size(n) >= Header
  <2>1. Proper(n) /\ (n \in list \/ Within(r, n))
    BY <1>2, InsertBlocks
  <2> QED
    BY <1>1, <2>1 DEF WellFormed, Size, Header, Within, Proper
<1>3. \A n, m \in Insert(list, r) : n # m => n.hi < m.lo \/ m.hi < n.lo
  BY InsertBlocks DEF Apart
<1> QED
  BY <1>2, <1>3 DEF WellFormed

\* A set of addresses has a lowest one.
LEMMA LowestAddress ==
  ASSUME NEW S, S \subseteq Nat, S # {}
  PROVE  \E x \in S : \A y \in S : x <= y
<1> DEFINE R == OpToRel(<, Nat)
<1>1. IsWellFoundedOn(R, Nat)
  BY NatLessThanWellFounded
<1>2. \A x, y \in Nat : x < y => <<x, y>> \in R
  BY DEF OpToRel
<1> HIDE DEF R
<1>3. PICK x \in S : \A y \in S : ~(<<y, x>> \in R)
  BY <1>1, WFMin
<1>4. ASSUME NEW y \in S
      PROVE  x <= y
  <2>1. x \in Nat /\ y \in Nat
    OBVIOUS
  <2>2. ~(y < x)
    BY <1>2, <1>3, <2>1, Zenon
  <2> QED
    BY <2>1, <2>2
<1> QED
  BY <1>4
=============================================================================
