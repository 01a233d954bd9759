------------------------------- MODULE FreeList -------------------------------
(***************************************************************************)
(* The free list of mythroad/mem.c, which the guest heap of                *)
(* arm_ext/aex_mem.c follows statement by statement: blocks of memory in   *)
(* address order, each holding the offset of the next one and its length   *)
(* in its first eight bytes.  Here the list is the set of its blocks, and  *)
(* memory is counted in words of four bytes.                               *)
(***************************************************************************)
EXTENDS Integers, FiniteSets

Span(lo, hi)  == [lo |-> lo, hi |-> hi]     \* the words lo .. hi - 1
Size(r)       == r.hi - r.lo
Overlap(r, s) == r.lo < s.hi /\ s.lo < r.hi
Within(r, s)  == s.lo <= r.lo /\ r.hi <= s.hi
Words(r)      == r.lo..(r.hi - 1)

Header     == 2               \* words of LG_mem_free_t
Rounded(n) == n + (n % Header)  \* realLGmemSize

\* The block the walk of mr_free stops behind, if it ends where r begins.
Before(nodes, r) ==
  { n \in nodes : n.lo < r.lo /\ n.hi = r.lo
                  /\ \A m \in nodes : m.lo < r.lo => m.lo <= n.lo }

\* Mutant: a block is merged with the one before it only.
merges_one_side(nodes, r) == {}

\* The block the walk stops before, if it begins where r ends.
After(nodes, r) ==
  { n \in nodes : n.lo = r.hi /\ \A m \in nodes : m.lo >= r.lo => m.lo >= n.lo }

AlreadyFree(nodes, r) == \E n \in nodes : n.lo = r.lo

\* r with the neighbours it is merged with.
Merged(nodes, r) ==
  LET starts == { n.lo : n \in Before(nodes, r) } \cup {r.lo}
      ends   == { n.hi : n \in After(nodes, r) } \cup {r.hi}
  IN  Span(CHOOSE a \in starts : \A s \in starts : a <= s,
           CHOOSE b \in ends : \A e \in ends : e <= b)

\* mr_free, from the walk on.
Insert(nodes, r) ==
  IF AlreadyFree(nodes, r) THEN nodes
  ELSE (nodes \ (Before(nodes, r) \cup After(nodes, r))) \cup {Merged(nodes, r)}

-----------------------------------------------------------------------------

\* A list that mr_free and mr_malloc keep: every block holds its header, no two
\* blocks overlap, and none ends where another begins.
WellFormed(nodes) ==
  /\ \A n \in nodes : Size(n) >= Header
  /\ \A n, m \in nodes : n # m => n.hi < m.lo \/ m.hi < n.lo
=============================================================================
