----------------------------- MODULE CommandFifo -----------------------------
(***************************************************************************)
(* What the command queue of skyengine_api.c promises the two sides of it: *)
(* a bounded first-in first-out queue in which a newer pointer move        *)
(* replaces the newest command if that is a move too.  Every command that  *)
(* leaves the queue leaves it to the one who has to free its text.         *)
(***************************************************************************)
EXTENDS Sequences, CommandQueue

CONSTANT Commands

VARIABLES
  pending,   \* the commands in the queue, oldest first
  taken      \* the last command that was popped

Init == pending = << >> /\ taken = << >>

Queue(cmd) ==
  /\ pending' = Offer(pending, cmd)
  /\ UNCHANGED taken

Pop ==
  /\ pending # << >>
  /\ taken' = <<Head(pending)>>
  /\ pending' = Tail(pending)

Clear == pending' = << >> /\ UNCHANGED taken

Next == Pop \/ Clear \/ \E cmd \in Commands : Queue(cmd)

Spec == Init /\ [][Next]_<<pending, taken>>
=============================================================================
