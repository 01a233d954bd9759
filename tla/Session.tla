------------------------------ MODULE Session -------------------------------
(***************************************************************************)
(* What the runner of skyengine_api.c promises about who drives the guest. *)
(* The engine has no locks of its own, so at any time at most one thread   *)
(* may be inside it: the host while a run boots, the worker while the run  *)
(* is open.  Closing a run does not wait for a dispatch under way; but the *)
(* worker takes nothing new from then on, and the next run boots only when *)
(* the worker has let go of what it held.                                  *)
(***************************************************************************)
VARIABLES
  state,    \* of the run: "shut", "booting" or "open"
  driver,   \* the thread inside the engine: "nobody", "host" or "worker"
  held      \* the worker holds a command or a timer it has not finished

vars == <<state, driver, held>>

Init == state = "shut" /\ driver = "nobody" /\ held = FALSE

Boot == /\ state = "shut" /\ driver = "nobody" /\ ~held
        /\ state' = "booting" /\ driver' = "host"
        /\ UNCHANGED held

BootEnds(next) == /\ state = "booting" /\ driver = "host"
                  /\ state' = next /\ driver' = "nobody"
                  /\ UNCHANGED held

Close == /\ state = "open"
         /\ state' = "shut"
         /\ UNCHANGED <<driver, held>>

Take == /\ state = "open" /\ ~held
        /\ held' = TRUE
        /\ UNCHANGED <<state, driver>>

Enter == /\ held /\ driver = "nobody"
         /\ driver' = "worker"
         /\ UNCHANGED <<state, held>>

Leave == /\ held
         /\ driver' = "nobody" /\ held' = FALSE
         /\ UNCHANGED state

Next == \/ Boot
        \/ \E next \in {"open", "shut"} : BootEnds(next)
        \/ Close
        \/ Take \/ Enter \/ Leave

Spec == Init /\ [][Next]_vars
=============================================================================
