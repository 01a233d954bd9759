----------------------------- MODULE MCHostBridge -----------------------------
(* Two runs and two edits: bounds for TLC. *)
EXTENDS HostBridge
=============================================================================
