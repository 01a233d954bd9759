------------------------------ MODULE MCMythroad ------------------------------
(* Three applications in two runs of the host: bounds for TLC. *)
EXTENDS Mythroad
=============================================================================
