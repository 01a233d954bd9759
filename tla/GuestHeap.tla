------------------------------ MODULE GuestHeap ------------------------------
(***************************************************************************)
(* The memory of a guest that runs native ARM code (arm_ext/aex_mem.c and  *)
(* the module registry of arm_ext/aex_module.c): mr_malloc, mr_free,       *)
(* mr_realloc and the buffers of readFile.                                 *)
(*                                                                         *)
(* A request is served from a pool with the first-fit list the guest can   *)
(* see, then from the blocks of the fallback heap that were given back,    *)
(* then from the top of that heap, which skips the wrapper's stack and     *)
(* code.  Some of the memory handed out becomes code: the guest reads a    *)
(* module into a block, announces it with mr_cacheSync and enters it.      *)
(* From then on its words must not be handed out, also after the guest     *)
(* frees the block they lie in, until the module is dropped.               *)
(***************************************************************************)
EXTENDS FreeList

CONSTANTS
  Base, End,              \* the pool, LG_mem_base and LG_mem_end
  StackLo, CodeHi,        \* what the fallback heap skips
  ScreenLo, MemEnd,       \* the reserve for a large screen, and the end of memory
  Sizes,                  \* lengths of requests
  MaxModules,             \* ARM_EXT_NESTED_MODULE_MAX
  MaxBlocks               \* bound on the blocks the guest owns

ASSUME GuestHeapAssumption ==
  /\ Base \in Nat \ {0} /\ End \in Nat /\ Base + Header <= End
  /\ (End - Base) % Header = 0
  /\ StackLo \in Nat /\ CodeHi \in Nat /\ End <= StackLo /\ StackLo < CodeHi
  /\ ScreenLo \in Nat /\ MemEnd \in Nat /\ CodeHi <= ScreenLo /\ ScreenLo <= MemEnd
  /\ Sizes \subseteq Nat \ {0}
  /\ MaxModules \in Nat /\ MaxBlocks \in Nat

VARIABLES
  nodes,       \* the free list of the pool
  heap_top,    \* the end of the fallback heap
  bump_live,   \* its blocks the guest may give back
  bump_free,   \* its blocks that were given back
  screenMoved, \* the screen buffer lies in its reserve
  modules,     \* nested_modules: the images that are registered
  primary,     \* the first of them, or Nothing
  pending,     \* the image announced and not yet entered, or Nothing
  freeing,     \* what a call of mr_free has still to give back
  blocks,      \* history: what the guest owns, as it asked for it
  ghost        \* history: the words of the pool that were code, and what went wrong:
               \* the guest edited the list around its code, a free block was recorded
               \* longer than it was, the canvas grew after the heap

memVars  == <<nodes, heap_top, bump_live, bump_free>>
codeVars == <<modules, primary, pending>>
vars     == <<memVars, codeVars, screenMoved, freeing, blocks, ghost>>

Nothing == Span(0, 0)
Pool    == Span(Base, End)
Idle    == [to |-> "none", rest |-> Nothing]

Init ==
  /\ nodes = {Pool} /\ heap_top = End /\ bump_live = {} /\ bump_free = {}
  /\ screenMoved = FALSE
  /\ modules = {} /\ primary = Nothing /\ pending = Nothing
  /\ freeing = Idle /\ blocks = {}
  /\ ghost = [code |-> {}, edited |-> FALSE, spilled |-> FALSE, late |-> FALSE]

GuestRuns == freeing = Idle
-----------------------------------------------------------------------------
(* Registered code as the allocator sees it.                               *)

Code == (modules \cup {primary, pending}) \ {Nothing}

\* arm_ext_find_first_registered_code_overlap: the first part of r that is code.
CodeIn(r) ==
  { Span(IF c.lo > r.lo THEN c.lo ELSE r.lo, IF c.hi < r.hi THEN c.hi ELSE r.hi) :
      c \in { c \in Code : Overlap(c, r) } }
FirstCode(r) == { c \in CodeIn(r) : \A d \in CodeIn(r) : c.lo <= d.lo }

\* A list entry whose header would be code stops every walk over it.
Blocked(n) == CodeIn(Span(n.lo, n.lo + Header)) # {}

\* arm_ext_first_unprotected_subrange: where in n a block of len words may begin.
Places(n, len) ==
  { a \in {n.lo} \cup { c.hi : c \in CodeIn(n) } :
      a + len <= n.hi /\ CodeIn(Span(a, a + len)) = {} }
FirstPlace(n, len) == { a \in Places(n, len) : \A b \in Places(n, len) : a <= b }
-----------------------------------------------------------------------------
(* The pool.                                                               *)

\* Mutant: a block is taken from the front of the entry, whatever lies there.
front_of(n, len) == IF Size(n) >= len THEN {n.lo} ELSE {}

Place(n, len) == FirstPlace(n, len)

\* Entries that a walk looking for len words reaches, the last one included.
Reached(len) ==
  { n \in nodes : \A m \in nodes :
      /\ m.lo <= n.lo => ~Blocked(m)
      /\ m.lo < n.lo => Place(m, len) = {} }

\* Where what is left behind l begins: code at its front is left out.
TailStarts(l, hi) ==
  LET near == { c \in FirstCode(Span(l, hi)) : c.lo < l + Header } IN
  IF near = {} THEN {l} ELSE { c.hi : c \in near }

\* Mutant: a rest that holds a header and no more is not put back.
drops_small(lo, hi) == IF lo + Header < hi THEN {Span(lo, hi)} ELSE {}

Rest(lo, hi) == IF lo < hi THEN {Span(lo, hi)} ELSE {}

\* arm_ext_guest_mem_malloc, when it finds room for len words at a.
PoolGives(len, a) ==
  LET need == Rounded(len) IN
  /\ \E n \in Reached(need) :
       /\ a \in Place(n, need)
       /\ \E l \in TailStarts(a + need, n.hi) :
            nodes' = (nodes \ {n}) \cup Rest(n.lo, a) \cup Rest(l, n.hi)
  /\ UNCHANGED <<heap_top, bump_live, bump_free>>

PoolIsFull(len) == \A n \in Reached(Rounded(len)) : Place(n, Rounded(len)) = {}

\* Mutant: entries that code overlaps are walked over.
walks_on(r) == TRUE

\* Every entry the walk to r passes, and the one it stops at, has a sound header.
WalkReaches(r) ==
  \A n \in nodes :
    n.lo < r.lo \/ (\A m \in nodes : m.lo >= r.lo => n.lo <= m.lo) => ~Blocked(n)

\* arm_ext_guest_mem_free_unprotected
PoolTakes(r) ==
  LET whole == Span(r.lo, r.lo + Rounded(Size(r))) IN
  IF Within(whole, Pool) /\ WalkReaches(whole) THEN Insert(nodes, whole) ELSE nodes
-----------------------------------------------------------------------------
(* The fallback heap.                                                      *)

Splits(b, len) == Size(b) - len >= Header

Large(len) == { b \in bump_free : Size(b) >= len }

\* arm_ext_bump_reuse: the lowest block that is large enough.
BumpReuses(len, a) ==
  /\ \E b \in Large(len) :
       /\ \A c \in Large(len) : b.lo <= c.lo
       /\ a = b.lo
       /\ IF Splits(b, len)
          THEN /\ bump_live' = bump_live \cup {Span(a, a + len)}
               /\ bump_free' = (bump_free \ {b}) \cup {Span(a + len, b.hi)}
          ELSE /\ bump_live' = bump_live \cup {b}
               /\ bump_free' = bump_free \ {b}
  /\ UNCHANGED <<nodes, heap_top>>

\* Mutant: a heap that has reached the reserved words is taken to have passed them.
stops_short(len) == heap_top < StackLo /\ heap_top + len > StackLo

SkipsReserved(len) == heap_top < CodeHi /\ heap_top + len > StackLo

Top(len) == IF SkipsReserved(len) THEN CodeHi ELSE heap_top
Limit    == IF screenMoved THEN ScreenLo ELSE MemEnd

\* arm_alloc, for a request of the guest.  The top moves though the heap is full.
BumpGrows(len, a) ==
  /\ a = Top(len) /\ a + len < Limit
  /\ heap_top' = a + len
  /\ bump_live' = bump_live \cup {Span(a, a + len)}
  /\ UNCHANGED <<nodes, bump_free>>

BumpIsFull(len) ==
  /\ Top(len) + len >= Limit
  /\ heap_top' = Top(len)
  /\ UNCHANGED <<nodes, bump_live, bump_free>>

\* arm_ext_app_mem_malloc
Mallocs(len, a) ==
  \/ PoolGives(len, a)
  \/ PoolIsFull(len) /\ BumpReuses(len, a)
  \/ PoolIsFull(len) /\ Large(len) = {} /\ BumpGrows(len, a)

MallocFails(len) == PoolIsFull(len) /\ Large(len) = {} /\ BumpIsFull(len)
-----------------------------------------------------------------------------
(* The guest's calls.                                                      *)

Addresses == Base..MemEnd
Block(a, len) == Span(a, a + len)

\* History: malloc wrote the header of a rest that is too short to hold it.
LeavesRests ==
  ghost' = [ghost EXCEPT !.spilled = @ \/ \E n \in nodes' : Size(n) < Header]

mr_malloc(len) ==
  /\ GuestRuns /\ Cardinality(blocks) < MaxBlocks
  /\ \/ \E a \in Addresses : Mallocs(len, a) /\ blocks' = blocks \cup {Block(a, len)}
     \/ MallocFails(len) /\ UNCHANGED blocks
  /\ LeavesRests
  /\ UNCHANGED <<codeVars, screenMoved, freeing>>

\* arm_ext_app_mem_free is entered; nothing else runs until it returns.
Frees(b) == freeing' = [to |-> "block", rest |-> b]

mr_free(b) ==
  /\ GuestRuns
  /\ Frees(b) /\ blocks' = blocks \ {b}
  /\ UNCHANGED <<memVars, codeVars, screenMoved, ghost>>

\* A new block, then the old one is given back; without a new block nothing happens.
\* No old block makes it mr_malloc, no new length mr_free.
mr_realloc(b, len) ==
  /\ GuestRuns
  /\ \/ \E a \in Addresses :
          /\ Mallocs(len, a)
          /\ blocks' = (blocks \ {b}) \cup {Block(a, len)}
          /\ Frees(b)
     \/ MallocFails(len) /\ UNCHANGED <<blocks, freeing>>
  /\ LeavesRests
  /\ UNCHANGED <<codeVars, screenMoved>>

\* A block the fallback heap knows goes back there, another one to the pool it lies in.
LiveAt(b) == { l \in bump_live : l.lo = b.lo }
Whole(b)  == Span(b.lo, b.lo + Rounded(Size(b)))

FindsOwner ==
  LET b == freeing.rest IN
  /\ freeing.to = "block"
  /\ \/ \E l \in LiveAt(b) : freeing' = [to |-> "bump", rest |-> l]
     \/ /\ LiveAt(b) = {} /\ Within(Whole(b), Pool)
        /\ freeing' = [to |-> "pool", rest |-> Whole(b)]
     \/ LiveAt(b) = {} /\ ~Within(Whole(b), Pool) /\ freeing' = Idle
  /\ bump_live' = bump_live \ LiveAt(b)
  /\ UNCHANGED <<nodes, heap_top, bump_free, codeVars, screenMoved, blocks, ghost>>

\* History: a fragment between code is recorded rounded up.
RoundsUp(r) ==
  ghost' = [ghost EXCEPT !.spilled =
              @ \/ (freeing.to = "pool" /\ Size(r) >= Header /\ Size(r) # Rounded(Size(r)))]

\* One fragment goes back, if it can hold a header.
TakesFragment(r) ==
  /\ RoundsUp(r)
  /\ \/ /\ freeing.to = "pool"
        /\ nodes' = IF Size(r) >= Header THEN PoolTakes(r) ELSE nodes
        /\ UNCHANGED bump_free
     \/ /\ freeing.to = "bump"
        /\ bump_free' = IF Size(r) > 0 THEN Insert(bump_free, r) ELSE bump_free
        /\ UNCHANGED nodes

\* A pass of the loops of arm_ext_guest_mem_free and arm_ext_bump_recycle.
FreeStep ==
  LET r == freeing.rest IN
  /\ freeing.to \in {"pool", "bump"}
  /\ \/ /\ FirstCode(r) = {}
        /\ TakesFragment(r) /\ freeing' = Idle
     \/ \E c \in FirstCode(r) :
          /\ TakesFragment(Span(r.lo, c.lo))
          /\ freeing' = IF c.hi < r.hi
                        THEN [freeing EXCEPT !.rest = Span(c.hi, r.hi)] ELSE Idle
  /\ UNCHANGED <<heap_top, bump_live, codeVars, screenMoved, blocks>>

\* External: the guest, whose mr_free is its own, puts a block into the list as it is.
WrapperFrees(b) ==
  /\ GuestRuns /\ Within(Whole(b), Pool)
  /\ nodes' = Insert(nodes, Whole(b))
  /\ blocks' = blocks \ {b}
  /\ ghost' = [ghost EXCEPT !.edited = @ \/ CodeIn(Whole(b)) # {}]
  /\ UNCHANGED <<heap_top, bump_live, bump_free, codeVars, screenMoved, freeing>>
-----------------------------------------------------------------------------
(* Modules.                                                                *)

\* A file read into a block, of any whole number of words.
Images == { r \in [lo : Base..MemEnd, hi : Base..MemEnd] :
              r.lo < r.hi /\ \E b \in blocks : Within(r, b) }

\* arm_ext_drop_overlapping_stale_nested_modules: the loader's chunk vouches for keep.
Stale(r)     == { mod \in modules : Overlap(mod, r) /\ mod # primary }
Left(r, keep) == modules \ (Stale(r) \ keep)

\* arm_ext_bump_block_remove_range
Trimmed(list, r) ==
  { b \in list : ~Overlap(b, r) }
    \cup { Span(b.lo, r.lo) : b \in { b \in list : Overlap(b, r) /\ b.lo < r.lo } }
    \cup { Span(r.hi, b.hi) : b \in { b \in list : Overlap(b, r) /\ r.hi < b.hi } }

HasRoom(mods, r) == r \in mods \/ Cardinality(mods) < MaxModules

\* arm_ext_record_nested_module, with a registry that holds mods.
Registers(mods, r) ==
  IF HasRoom(mods, r)
  THEN /\ modules' = mods \cup {r}
       /\ bump_live' = Trimmed(bump_live, r) /\ bump_free' = Trimmed(bump_free, r)
  ELSE modules' = mods /\ UNCHANGED <<bump_live, bump_free>>

Remembers ==
  ghost' = [ghost EXCEPT !.code = @ \cup { w \in Words(Pool) : \E c \in Code' : w \in Words(c) }]

\* The loader's mr_cacheSync(9, r).  A range around the primary image is a restore.
mr_cacheSync(r) ==
  /\ GuestRuns
  /\ \E keep \in SUBSET Stale(r) : modules' = Left(r, keep)
  /\ pending' = IF primary # Nothing /\ Within(primary, r) THEN Nothing ELSE r
  /\ UNCHANGED primary /\ Remembers
  /\ UNCHANGED <<memVars, screenMoved, freeing, blocks>>

FirstIsPrimary(r) == primary' = IF primary = Nothing THEN r ELSE primary

\* arm_ext_sync_internal_nested_module finds the chunk that describes the announced image.
EntersChild ==
  /\ GuestRuns /\ pending # Nothing
  /\ Registers(modules, pending)
  /\ FirstIsPrimary(pending) /\ pending' = Nothing
  /\ Remembers
  /\ UNCHANGED <<nodes, heap_top, screenMoved, freeing, blocks>>

\* table[25], called by the image itself.
mr_c_function_new(r) ==
  /\ GuestRuns
  /\ Registers(modules, r)
  /\ FirstIsPrimary(r) /\ UNCHANGED pending
  /\ Remembers
  /\ UNCHANGED <<nodes, heap_top, screenMoved, freeing, blocks>>

\* mr_read puts data into r: the modules there are retired, but a saved primary image
\* that comes back is recorded again.
mr_read(r) ==
  /\ GuestRuns /\ CodeIn(r) # {}
  /\ pending' = IF Overlap(pending, r) THEN Nothing ELSE pending
  /\ \E keep \in SUBSET Stale(r) :
       IF primary # Nothing /\ Within(primary, r)
       THEN Registers(Left(r, keep), primary)
       ELSE modules' = Left(r, keep) /\ UNCHANGED <<bump_live, bump_free>>
  /\ UNCHANGED primary /\ Remembers
  /\ UNCHANGED <<nodes, heap_top, screenMoved, freeing, blocks>>

\* A child was closed: what no chunk vouches for goes with it.
arm_ext_reset_child_modules ==
  /\ GuestRuns
  /\ \E keep \in SUBSET (modules \ {primary}) : modules' = keep \cup (modules \cap {primary})
  /\ UNCHANGED <<memVars, primary, pending, screenMoved, freeing, blocks, ghost>>

\* hook_screen_dim_write: a canvas larger than the buffer moves it into the reserve.
hook_screen_dim_write ==
  /\ GuestRuns /\ ~screenMoved
  /\ screenMoved' = TRUE
  /\ ghost' = [ghost EXCEPT !.late = @ \/ heap_top > ScreenLo]
  /\ UNCHANGED <<memVars, codeVars, freeing, blocks>>

Next ==
  \/ \E len \in Sizes : mr_malloc(len) \/ \E b \in blocks : mr_realloc(b, len)
  \/ \E b \in blocks : mr_free(b) \/ WrapperFrees(b)
  \/ FindsOwner \/ FreeStep
  \/ \E r \in Images : mr_cacheSync(r) \/ mr_c_function_new(r) \/ mr_read(r)
  \/ EntersChild \/ arm_ext_reset_child_modules \/ hook_screen_dim_write

Spec == Init /\ [][Next]_vars
-----------------------------------------------------------------------------
(* Properties.                                                             *)

Ranges == { r \in [lo : 0..MemEnd, hi : 0..MemEnd] : r.lo <= r.hi }

\* The lists hold ranges of memory.
TypeOK ==
  /\ nodes \subseteq Ranges /\ bump_live \subseteq Ranges /\ bump_free \subseteq Ranges
  /\ heap_top \in End..MemEnd /\ screenMoved \in BOOLEAN
  /\ modules \subseteq Ranges /\ Cardinality(modules) <= MaxModules
  /\ primary \in Ranges /\ pending \in Ranges
  /\ freeing \in [to : {"none", "block", "pool", "bump"}, rest : Ranges]
  /\ blocks \subseteq Ranges
  /\ ghost \in [code : SUBSET (0..MemEnd), edited : BOOLEAN,
                spilled : BOOLEAN, late : BOOLEAN]

\* Images lie where the guest puts them.  The two places where the allocator reckons in
\* headers are where it can go wrong: a fragment beside code that is rounded up, and a
\* rest too short for its header.  Neither has happened:
Exact == ~ghost.spilled

\* The guest walks the pool's list itself: whatever was allocated, freed, loaded and
\* dropped, every block of it holds its header and no two touch.
ListIsWellFormed == Exact => WellFormed(nodes)

\* What the guest owns is not in a list of free memory, is not what mr_free has still
\* to give back, and lies in none of the areas the fallback heap skips, unless the
\* canvas grew when blocks lay in its reserve already.
Extent(b) == IF Within(b, Pool) THEN Whole(b) ELSE b

NothingOwnedIsFree == Exact =>
  /\ \A b \in blocks :
       /\ \A n \in nodes \cup bump_free : ~Overlap(Extent(b), n)
       /\ freeing # Idle => ~Overlap(Extent(b), freeing.rest)
       /\ ~Overlap(b, Span(StackLo, CodeHi))
       /\ screenMoved /\ ~ghost.late => ~Overlap(b, Span(ScreenLo, MemEnd))
  /\ \A n \in bump_free, l \in bump_live : ~Overlap(n, l)

\* No word of the pool is lost: unless the guest edited the list around its code, a word
\* is free, owned, or was once code or next to it, the only memory mr_free withholds.
PoolIsAccountedFor ==
  GuestRuns /\ Exact /\ ~ghost.edited =>
    \A w \in Words(Pool) :
      \/ \E n \in nodes : w \in Words(n)
      \/ \E b \in blocks : w \in Words(Extent(b))
      \/ \E v \in {w - 1, w, w + 1} : v \in ghost.code

\* Memory handed out overlaps neither owned memory nor code that is registered or
\* announced, wherever the free blocks lie and whoever freed what.
H == INSTANCE Heap WITH owned <- blocks, code <- Code
ImplementsHeap == H!Init /\ [][H!Next \/ ~Exact]_<<blocks, Code>>

\* "Do not write LG_mem free-list nodes over registered executable images": a header
\* that mr_free writes or extends does not lie over code, also when the guest's own walk
\* has left an entry there.
FreeSparesCode ==
  [][FreeStep => \A n \in nodes' \ nodes : ~Blocked(n)]_vars

\* "Protected executable bytes cannot be free-list metadata": nor does one that mr_malloc
\* writes behind the block it hands out.
MallocSparesCode ==
  [][(\E len \in Sizes : mr_malloc(len)) => \A n \in nodes' \ nodes : ~Blocked(n)]_vars

\* "Each valid free-list node occupies at least eight" bytes: what is left behind a block
\* holds the header that mr_malloc writes there.
NodesHoldHeaders == \A n \in nodes : Size(n) >= Header

\* Once the screen's buffer lies in the reserve, "this area is closed to the bump heap,
\* otherwise the host's drawing would overwrite what was allocated": nothing there is
\* handed out any more.
ReserveIsClosed ==
  [][screenMoved => \A b \in blocks' \ blocks : ~Overlap(b, Span(ScreenLo, MemEnd))]_vars

\* Freeing a block that holds code returns "only the non-code fragments": no free block
\* of the pool reaches over the end of what was given back.
FreesOnlyItsOwn == [][freeing.to = "pool" =>
  \A n \in nodes' : \A w \in Words(n) :
    w \in Words(freeing.rest) \/ \E m \in nodes : w \in Words(m)]_vars
=============================================================================
