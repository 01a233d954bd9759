----------------------------- MODULE MCGuestHeap -----------------------------
(* A guest heap of a few words: bounds for TLC. *)
EXTENDS GuestHeap
=============================================================================
