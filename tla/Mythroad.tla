------------------------------- MODULE Mythroad -------------------------------
(***************************************************************************)
(* The life of the applications a Mythroad runtime runs one after the      *)
(* other: mythroad.c.                                                      *)
(*                                                                         *)
(* An application is Lua code in a VM; it may load one ARM extension, run  *)
(* its code, and register native functions that take events, timer ticks   *)
(* and the stop before the VM does.  It may ask for another application,   *)
(* which a tick of the runtime's only timer then starts, or name one that  *)
(* takes over when it exits.  ARM code has words of its own for mr_state   *)
(* and mr_timer_state, written before a call and read back after it: three *)
(* records of one timer (the host's is the third) may come apart.  The     *)
(* host, whose thread runs all of this, starts a run, gives it events and  *)
(* ticks, and stops it (external: ApiRunner models it); what the guest's   *)
(* code does is left open.                                                 *)
(***************************************************************************)
EXTENDS Integers

CONSTANTS
  MaxApps, MaxRuns,   \* bounds: applications started, runs of the host
  EndsInBoot          \* TRUE: an application may exit in its file's code or its entry

ASSUME MythroadAssumption ==
  MaxApps \in Nat \ {0} /\ MaxRuns \in Nat \ {0} /\ EndsInBoot \in BOOLEAN

VARIABLES
  vm,      \* vm_state: the number of its application, whether it is open, whether it loaded
  ext,     \* native_ext: its application (0: NULL) and run, whether its stop function kept
           \* mr_stop from freeing it; fns: the native_*_functions set
  state,   \* mr_state
  timer,   \* mr_timer_state
  old,     \* old_pack_filename is set
  at,      \* the guest code that runs, or the step of mythroad.c that is next
  arm,     \* in: ARM code runs, in a call of its own or one by Lua code; state, timer: its
           \* words for the two; pending: host_timer_pending, it has armed the host's timer
  host,    \* run: its number; up: it lasts; armed: its timer; exit: the guest ended it
  ghost    \* history: what guest code did to the timer since it was last armed

vars == <<vm, ext, state, timer, old, at, arm, host, ghost>>

Fns == {"event", "timer", "stop"}

\* Guest code, by what called it.  In Lua code the extension may be called too.
LuaCode == {"boot", "entry", "luaEvent", "luaTimer"}
Registered == {"nativeEvent", "nativeTimer"}
Called == {"extEvent", "extTimer"}
ArmCode == Registered \cup Called

NotIn == [in |-> FALSE, state |-> "IDLE", timer |-> "IDLE", pending |-> FALSE]

NoExt == [app |-> 0, run |-> 0, kept |-> FALSE, fns |-> {}]

Init ==
  /\ vm = [app |-> 0, open |-> FALSE, loaded |-> FALSE]
  /\ ext = NoExt
  /\ state = "IDLE" /\ timer = "IDLE" /\ old = FALSE /\ at = "none"
  /\ arm = NotIn /\ ghost = {}
  /\ host = [run |-> 0, up |-> FALSE, armed |-> FALSE, exit |-> FALSE]
-----------------------------------------------------------------------------
(* The end of an application.                                              *)

\* Mutant: mr_stop_ex does not call native_ext_reset.
keeps_native(e) == e

Unloaded(e) == NoExt

\* Mutant: mr_stop_ex does not say that nothing runs any more.
stays(s) == s

Stopped(s) == "IDLE"

\* A native stop function goes first, and may make it the end of mr_stop.
Consumed(e) ==
  IF e.app # 0 /\ "stop" \in e.fns THEN {[e EXCEPT !.kept = TRUE, !.fns = @ \ {"stop"}]} ELSE {}

\* arm_ext_unload takes the flag with it.
Without(e) == [arm EXCEPT !.pending = @ /\ e.app # 0]

\* mr_stop, met in the VM v, state s and timer state t; else mr_stop_ex.
Stops(v, s, t) ==
  /\ \/ ext' \in Consumed(ext) /\ vm' = v /\ state' = s /\ timer' = t
     \/ /\ ext' = Unloaded(ext) /\ vm' = [v EXCEPT !.open = FALSE]
        /\ state' = Stopped(s) /\ timer' = "IDLE"
  /\ arm' = Without(ext')

Armed(h) == [h EXCEPT !.armed = TRUE]

\* mr_restart_old_app with an old application, and the like: the timer is to start it.
Restarts ==
  /\ vm.app < MaxApps
  /\ state' = "RESTART" /\ timer' = "RUNNING" /\ host' = Armed(host)

\* Mutant: the host is not told.
tells_nobody(h) == h

Exited(h) == [h EXCEPT !.exit = TRUE]

\* mr_exit, met in state s, with the timer c and with or without an old application: that
\* one, or the end of the run.
Exits(s, c, o) ==
  \/ o /\ Restarts
  \/ ~o /\ state' = s /\ timer' = c.timer /\ host' = Exited([host EXCEPT !.armed = c.armed])

\* _mr_pcall when the code it called failed, in state s: the code had called Exit, or an
\* error is shown or, if the application said so, ends the run.
Fails(s) ==
  \/ s = "STOP" /\ Stops(vm, s, timer) /\ UNCHANGED <<old, host>>
  \/ /\ s # "STOP" /\ state' = "ERROR"
     /\ \/ UNCHANGED <<old, host>>
        \/ /\ old' = FALSE /\ host' = Exited(host)
     /\ UNCHANGED <<vm, ext, timer, arm>>
-----------------------------------------------------------------------------
(* What guest code may do.                                                 *)

RunsLua == at \in LuaCode /\ ~arm.in

MRF_TimerStart ==
  /\ RunsLua /\ state = "RUN"
  /\ timer' = "RUNNING" /\ host' = Armed(host) /\ ghost' = {}
  /\ UNCHANGED <<vm, ext, state, old, at, arm>>

\* Mutant: the host's timer is stopped, mr_timer_state is not.
stays_running(t) == t

Halted(t) == "IDLE"

Disarmed == timer' = Halted(timer) /\ host' = [host EXCEPT !.armed = FALSE] /\ ghost' = {"stopped"}

\* Whatever the state: of a restart, too, that waits for the timer.
MRF_TimerStop ==
  /\ RunsLua
  /\ Disarmed
  /\ UNCHANGED <<vm, ext, state, old, at, arm>>

MRF_RunFile ==
  /\ RunsLua
  /\ Restarts /\ ghost' = {}
  /\ UNCHANGED <<vm, ext, old, at, arm>>

\* _strCom 3, from Lua and from table[131]: the application to return to, or none.
SetsOldApp ==
  /\ at \in LuaCode \/ arm.in
  /\ old' \in BOOLEAN
  /\ UNCHANGED <<vm, ext, state, timer, at, arm, host, ghost>>

\* _strCom 800: the extension is replaced, or on failure gone.
LoadsExt ==
  /\ RunsLua
  /\ \/ ext' = [app |-> vm.app, run |-> host.run, kept |-> FALSE, fns |-> {}]
     \/ ext' = NoExt
  /\ arm' = [arm EXCEPT !.pending = FALSE]
  /\ UNCHANGED <<vm, state, timer, old, at, host, ghost>>

\* _mr_TestCom 2 to 4.
Registers ==
  /\ at \in LuaCode \/ arm.in
  /\ \E f \in Fns : ext' = [ext EXCEPT !.fns = @ \cup {f}] \/ ext' = [ext EXCEPT !.fns = @ \ {f}]
  /\ UNCHANGED <<vm, state, timer, old, at, arm, host, ghost>>

\* sync_internal_state_to_arm, in a state s and timer state t: ARM code starts, with p for
\* the flag (a call for a tick has taken it).
Entered(s, t, p) == [in |-> TRUE, state |-> s, timer |-> t, pending |-> p]

\* _strCom 801: Lua code calls the extension, for a tick too.
CallsArm ==
  /\ RunsLua /\ ext.app # 0
  /\ arm' \in {Entered(state, timer, arm.pending), Entered(state, timer, FALSE)}
  /\ UNCHANGED <<vm, ext, state, timer, old, at, host, ghost>>

\* table[31].
TableTimerStart ==
  /\ arm.in
  /\ timer' = "RUNNING" /\ host' = Armed(host) /\ ghost' = {}
  /\ arm' = [arm EXCEPT !.timer = "RUNNING", !.pending = TRUE]
  /\ UNCHANGED <<vm, ext, state, old, at>>

\* table[32].
TableTimerStop ==
  /\ arm.in
  /\ Disarmed
  /\ arm' = [arm EXCEPT !.timer = "IDLE", !.pending = FALSE]
  /\ UNCHANGED <<vm, ext, state, old, at>>

\* ARM code writes its words itself.  Of the timer's, it is on its own where the flag does
\* not speak against what it writes.
ArmWrites ==
  /\ arm.in
  /\ \/ \E s \in {"RUN", "RESTART", "STOP"} :
          /\ s = "RESTART" => vm.app < MaxApps
          /\ arm' = [arm EXCEPT !.state = s] /\ UNCHANGED ghost
     \/ \E t \in {"IDLE", "RUNNING"} :
          /\ arm' = [arm EXCEPT !.timer = t]
          /\ ghost' = IF t = "IDLE" /\ arm.pending THEN ghost ELSE ghost \cup {"wrote"}
  /\ UNCHANGED <<vm, ext, state, timer, old, at, host>>

\* table[54]: mr_exit, with no word to ARM.
TableExit ==
  /\ arm.in
  /\ Exits(state, [timer |-> timer, armed |-> host.armed], old) /\ ghost' = {"exited"}
  /\ UNCHANGED <<vm, ext, old, at, arm>>
-----------------------------------------------------------------------------
(* Where the control goes when guest code is over.                         *)

\* dofile and the call of the entry; the application's file has been read.
AfterCode == [boot |-> "called", entry |-> "booted", luaEvent |-> "none", luaTimer |-> "none"]

\* MRF_Exit: with an old application the code goes on, else it is left by an error.
MRF_Exit ==
  /\ RunsLua
  /\ \/ old /\ Restarts /\ ghost' = {} /\ UNCHANGED <<vm, ext, old, at, arm>>
     \/ /\ ~old /\ (at \in {"boot", "entry"} => EndsInBoot)
        /\ Stops(vm, "STOP", timer) /\ host' = Exited(host)
        /\ at' = AfterCode[at] /\ UNCHANGED <<old, ghost>>

\* Lua code fails.
Errs ==
  /\ RunsLua /\ (at \in {"boot", "entry"} /\ state = "STOP" => EndsInBoot)
  /\ Fails(state)
  /\ at' = AfterCode[at] /\ UNCHANGED ghost

\* Lua code returns.
LuaReturns ==
  /\ RunsLua
  /\ at' = AfterCode[at]
  /\ UNCHANGED <<vm, ext, state, timer, old, arm, host, ghost>>

\* The build's call of the entry, if there is such a function ...
CallsEntry ==
  /\ at = "called"
  /\ at' \in {"booted"} \cup (IF vm.open THEN {"entry"} ELSE {})
  /\ UNCHANGED <<vm, ext, state, timer, old, arm, host, ghost>>

\* ... which ends on the VM's stack; and the end of _mr_intra_start, the timer of an
\* application that has a dealtimer and no timer yet.
EndsBoot ==
  /\ at = "booted" /\ at' = "none"
  /\ \/ timer = "IDLE" /\ state = "RUN" /\ timer' = "RUNNING" /\ host' = Armed(host) /\ ghost' = {}
     \/ UNCHANGED <<timer, host, ghost>>
  /\ UNCHANGED <<vm, ext, state, old, arm>>

\* What mr_event and mr_timer try after a native function that answered MR_IGNORE, or
\* when there is none.
EventInLua == {"luaEvent"} \cup (IF ext.app # 0 THEN {"extEvent"} ELSE {"none"})
TimerInLua == {"luaTimer", "none"}
TimerInExt == IF ext.app # 0 THEN {"extTimer"} ELSE TimerInLua

Ignored ==
  CASE at = "nativeEvent" -> EventInLua
    [] at = "extEvent"    -> {"none"}
    [] at = "nativeTimer" -> TimerInExt
    [] at = "extTimer"    -> TimerInLua
    [] OTHER              -> {}

\* What runs when a call of ARM code is over: its caller; or what the caller tries next, at
\* once if next is a; if that is ARM code it finds the state s, timer state t, flag p.
GoesOn(a, s, t, p) ==
  \/ at \in LuaCode /\ at' = at /\ arm' = [NotIn EXCEPT !.pending = p]
  \/ /\ at \notin LuaCode /\ at' \in a
     /\ arm' = IF at' \in ArmCode THEN Entered(s, t, p /\ at' # "extTimer")
                                 ELSE [NotIn EXCEPT !.pending = p]

\* Mutant: the word is read back whatever the flag says.
reads_the_word == arm.timer

\* sync_timer_state_from_arm: the word is read back, but a timer that the flag says is armed
\* stays so.
Read == IF arm.pending /\ timer = "RUNNING" THEN "RUNNING" ELSE arm.timer

\* The timer after that, and after an extension that has work queued but no timer got one
\* from its caller: in a call for a tick, or (late) of a page that a dialog has left.
Synced == [timer |-> Read, pending |-> arm.pending /\ Read = "RUNNING",
           armed |-> host.armed, ghost |-> ghost]
Revived == [timer |-> "RUNNING", pending |-> TRUE, armed |-> TRUE, ghost |-> {}]
Kept == {Synced} \cup (IF Synced.pending THEN {} ELSE {Revived})

Takes(c) == timer' = c.timer /\ host' = [host EXCEPT !.armed = c.armed]

\* The state is the runtime's own.
Leaves(c) == Takes(c) /\ ghost' = c.ghost /\ UNCHANGED <<state, old>>

\* arm_ext_finish_callback_state, with the timer c: the word of the state is taken over if
\* it says RESTART, for which ARM code is trusted to have armed a timer, or STOP, with ARM's
\* name of the old application; a wrapper left suspended with nothing to do exits.
FinishesCallback(c) ==
  /\ at = "extEvent" => c = Synced
  /\ \/ /\ arm.state = "RESTART" /\ state' = "RESTART" /\ Takes(c) /\ old' \in BOOLEAN
        /\ ghost' = c.ghost \cup (IF c.timer = "RUNNING" THEN {} ELSE {"unarmed"})
     \/ /\ arm.state = "STOP" /\ old' \in BOOLEAN
        /\ Exits("STOP", c, old') /\ ghost' = {}
     \/ /\ arm.state \notin {"RESTART", "STOP"} /\ c.timer = "IDLE"
        /\ Exits(state, c, old) /\ ghost' = {} /\ UNCHANGED old

\* ARM code returns, MR_IGNORE or an answer.  A function called as registered (arm_ext_
\* invoke0, invoke3) has its timer read back, not its state.
ArmReturns ==
  /\ arm.in
  /\ \/ at \in Registered /\ Leaves(Synced)
        /\ GoesOn({"none"} \cup Ignored, state', timer', Synced.pending)
     \/ /\ at \notin Registered
        /\ \E c \in Kept :
             \/ /\ arm.state \notin {"RESTART", "STOP"} /\ Leaves(c)
                /\ GoesOn({"none"} \cup Ignored, state', timer', c.pending)
             \/ FinishesCallback(c) /\ GoesOn({"none"}, state', timer', c.pending)
  /\ UNCHANGED <<vm, ext>>

\* The emulator gives up: a call of a registered function has then been ignored.
ArmFails ==
  /\ arm.in
  /\ \E c \in IF at \in Registered THEN {Synced} ELSE Kept :
       /\ Leaves(c)
       /\ GoesOn(IF at \in Registered THEN Ignored ELSE {"none"}, state', timer', c.pending)
  /\ UNCHANGED <<vm, ext>>

Returns == CallsEntry \/ EndsBoot \/ ArmReturns \/ ArmFails
-----------------------------------------------------------------------------
(* mr_start_dsm, mr_event and mr_timer.                                    *)

\* _mr_intra_start up to dofile, in the VM v: the file runs, or cannot be read or parsed,
\* and then what it has is stopped.
Boots(v) ==
  \/ /\ vm' = v /\ state' = "RUN" /\ timer' = "IDLE" /\ at' = "boot" /\ UNCHANGED <<ext, arm>>
  \/ /\ Stops([v EXCEPT !.loaded = FALSE], "RUN", "IDLE") /\ at' = "none"

NextVm == [app |-> vm.app + 1, open |-> TRUE, loaded |-> TRUE]

\* startEngine.
HostStarts ==
  /\ ~host.up /\ at = "none" /\ host.run < MaxRuns /\ vm.app < MaxApps
  /\ old' = FALSE /\ ghost' = {}
  /\ Boots(NextVm)
  /\ host' = [run |-> host.run + 1, up |-> vm'.loaded, armed |-> FALSE, exit |-> FALSE]

Waits == host.up /\ at = "none"

mr_event ==
  /\ Waits /\ ~host.exit /\ state = "RUN"
  /\ GoesOn(IF ext.app # 0 /\ "event" \in ext.fns THEN {"nativeEvent"} ELSE EventInLua,
            state, timer, arm.pending)
  /\ UNCHANGED <<vm, ext, state, timer, old, host, ghost>>

\* Mutant: mr_timer does what it does in RUN only.
ignores_restart(s) == FALSE

IsRestart(s) == s = "RESTART"

\* mr_timer in RUN.
RunTick ==
  /\ state = "RUN" /\ timer' = "IDLE"
  /\ GoesOn(IF ext.app # 0 /\ "timer" \in ext.fns THEN {"nativeTimer"} ELSE TimerInExt,
            state, "IDLE", arm.pending)
  /\ ghost' = {} /\ UNCHANGED <<vm, ext, state>>

\* ... in RESTART: the application is stopped, first if its native function agrees, and
\* the next one started in what that left.
RestartTick ==
  /\ IsRestart(state) /\ timer' = "IDLE"
  /\ \/ /\ ext' \in Consumed(ext) \cup {Unloaded(ext)}
        /\ vm' = NextVm /\ state' = "RUN" /\ at' = "boot"
     \/ /\ ext' = Unloaded(ext)
        /\ vm' = [NextVm EXCEPT !.open = FALSE, !.loaded = FALSE]
        /\ state' = Stopped("RUN") /\ at' = "none"
  /\ arm' = Without(ext') /\ ghost' = {}

\* The host's timer fires.
HostTick ==
  /\ Waits /\ host.armed
  /\ host' = [host EXCEPT !.armed = FALSE]
  /\ UNCHANGED old
  /\ \/ (host.exit \/ timer # "RUNNING") /\ UNCHANGED <<vm, ext, state, timer, at, arm, ghost>>
     \/ /\ ~host.exit /\ timer = "RUNNING"
        /\ \/ RunTick
           \/ RestartTick
           \/ /\ state # "RUN" /\ ~IsRestart(state)
              /\ timer' = "IDLE" /\ UNCHANGED <<vm, ext, state, at, arm, ghost>>

\* stopEngine, which leaves what mythroad.c keeps.
HostStops ==
  /\ Waits
  /\ host' = [host EXCEPT !.up = FALSE, !.armed = FALSE]
  /\ UNCHANGED <<vm, ext, state, timer, old, at, arm, ghost>>

Next ==
  \/ MRF_TimerStart \/ MRF_TimerStop \/ MRF_RunFile \/ SetsOldApp \/ LoadsExt \/ Registers
  \/ CallsArm \/ TableTimerStart \/ TableTimerStop \/ ArmWrites \/ TableExit
  \/ MRF_Exit \/ Errs \/ LuaReturns \/ Returns
  \/ HostStarts \/ mr_event \/ HostTick \/ HostStops

Spec == Init /\ [][Next]_vars

\* Guest code returns, Lua code however often it calls ARM code; a timer that is armed
\* fires, and an ended run is stopped.
Fairness ==
  /\ WF_vars(Returns) /\ SF_vars(LuaReturns)
  /\ WF_vars(HostTick) /\ WF_vars(host.exit /\ HostStops)

FairSpec == Spec /\ Fairness
-----------------------------------------------------------------------------
(* Properties.                                                             *)

States == {"IDLE", "RUN", "RESTART", "STOP", "ERROR"}
Timers == {"IDLE", "RUNNING"}

TypeOK ==
  /\ vm \in [app : 0..MaxApps, open : BOOLEAN, loaded : BOOLEAN]
  /\ ext \in [app : 0..MaxApps, run : 0..MaxRuns, kept : BOOLEAN, fns : SUBSET Fns]
  /\ state \in States /\ timer \in Timers /\ old \in BOOLEAN
  /\ at \in {"none", "called", "booted"} \cup LuaCode \cup ArmCode
  /\ arm \in [in : BOOLEAN, state : States, timer : Timers, pending : BOOLEAN]
  /\ host \in [run : 0..MaxRuns, up : BOOLEAN, armed : BOOLEAN, exit : BOOLEAN]
  /\ ghost \subseteq {"stopped", "wrote", "exited", "unarmed"}

\* The VM is open while its code runs, and when mythroad.c looks for more of it: no event,
\* tick or entry reaches a VM that mr_stop has closed.
VmIsOpen == at \in LuaCode \cup {"called", "booted"} => vm.open

\* The native code that takes events and ticks belongs to the application that runs: none
\* outlives a restart, but one whose stop function kept mr_stop from its work.  (What an
\* earlier run of the host left is not looked at: see the README.)
RestartForgetsNatives == at \in ArmCode /\ ext.run = host.run /\ ~ext.kept => ext.app = vm.app

\* While the runtime believes that its timer runs, the host's timer is armed and a tick
\* comes, unless ARM code itself wrote that it runs.
TickIsArmed ==
  host.up /\ ~host.exit /\ timer = "RUNNING" => host.armed \/ "wrote" \in ghost

\* A runtime that waits with no application left has told the host that the run is over,
\* unless the application it was to start could not be loaded.
EndIsTold == Waits /\ state \in {"IDLE", "STOP"} => host.exit \/ ~vm.loaded

\* Whether the timer that a restart waits for is armed, and known to be.
RestartTimerRuns == host.armed /\ timer = "RUNNING"

\* A runtime that waits in RESTART has a timer that ends it, unless guest code since stopped
\* the timer or wrote its word, wrote RESTART with no timer, or exited by table[54].
RestartIsArmed == Waits /\ ~host.exit /\ state = "RESTART" /\ ghost = {} => RestartTimerRuns

\* A restart that is asked for takes place, unless the run ends or guest code did one of
\* these.
RestartHappens ==
  state = "RESTART" /\ ghost = {} ~> state # "RESTART" \/ host.exit \/ ~host.up \/ ghost # {}

\* Fails: mr_exit called by ARM code returns to the old application where there is one.
ExitReturns ==
  Waits /\ ~host.exit /\ state = "RESTART" /\ ghost = {"exited"} => RestartTimerRuns

\* Fails: when a call of ARM code is over, the RESTART it wrote is the runtime's state.
StateIsTakenOver ==
  [][ArmReturns /\ arm.state = "RESTART" /\ state = "RUN" => state' = "RESTART"]_vars
=============================================================================
