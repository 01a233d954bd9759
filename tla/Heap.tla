--------------------------------- MODULE Heap ---------------------------------
(***************************************************************************)
(* What a heap promises its caller, whatever free space it keeps: memory   *)
(* that is handed out overlaps neither memory already handed out nor       *)
(* memory that holds code; memory is given up by its owner only; and a     *)
(* block that cannot be moved stays.                                       *)
(***************************************************************************)
EXTENDS FreeList

VARIABLES
  owned,  \* the blocks handed out
  code    \* the ranges that hold code

Init == owned = {} /\ code = {}

Fits(b) ==
  /\ b.lo < b.hi
  /\ \A r \in owned \cup code : ~Overlap(b, r)

Allocate == \E b \in owned' : Fits(b) /\ owned' = owned \cup {b} /\ UNCHANGED code
Release  == \E b \in owned : owned' = owned \ {b} /\ UNCHANGED code
Move     == \E b \in owned, c \in owned' :
              Fits(c) /\ owned' = (owned \ {b}) \cup {c} /\ UNCHANGED code

\* Code is loaded into memory the caller owns, or forgotten.
Load ==
  /\ UNCHANGED owned
  /\ \A r \in code' \ code : \E b \in owned : Within(r, b)

Next == Allocate \/ Release \/ Move \/ Load

Spec == Init /\ [][Next]_<<owned, code>>
=============================================================================
