---------------------------- MODULE MCApiRunner -----------------------------
(* Model-checking values for ApiRunner: the host's calls and the guest's   *)
(* callbacks each run uses.                                                *)
EXTENDS ApiRunner

SafeOps    == {"key", "move", "motion", "pause", "resume", "timer"}
LiveOps    == {"dsm", "timer", "pause", "resume", "text", "cancel"}
DsmOps     == {"key", "dsm"}
TimerOps   == {"key", "dsm", "pause", "resume", "timer"}
ManualOps  == {"timer"}
SensorOps  == {"motion"}
PauseOps   == {"pause", "resume"}

ExitGuest  == {"exit"}
TimerGuest == {"timerStart", "timerStop", "exit"}
LiveGuest  == {"timerStart", "exit", "editCreate", "editRelease", "shake"}
=============================================================================
