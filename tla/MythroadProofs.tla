----------------------------- MODULE MythroadProofs -----------------------------
(* Theorems about Mythroad: what holds of any number of applications and runs. *)
EXTENDS Mythroad, TLAPS

Vms == [app : 0..MaxApps, open : BOOLEAN, loaded : BOOLEAN]
Ext == [app : 0..MaxApps, run : 0..MaxRuns, kept : BOOLEAN, fns : SUBSET Fns]
Arms == [in : BOOLEAN, state : States, timer : Timers, pending : BOOLEAN]
Hosts == [run : 0..MaxRuns, up : BOOLEAN, armed : BOOLEAN, exit : BOOLEAN]
Ghosts == SUBSET {"stopped", "wrote", "exited", "unarmed"}
Clocks == [timer : Timers, pending : BOOLEAN, armed : BOOLEAN, ghost : Ghosts]
Places == {"none", "called", "booted"} \cup LuaCode \cup ArmCode

\* An application that asks for another, or ARM code that is about to, leaves room for it
\* (the bound of the model); ARM code runs only where guest code does.
ArmInv ==
  /\ state = "RESTART" \/ arm.state = "RESTART" => vm.app < MaxApps
  /\ arm.state = "RESTART" => arm.in
  /\ arm.in => at \in LuaCode \cup ArmCode

TypeInv == TypeOK /\ ArmInv

LEMMA TypeParts ==
  TypeOK <=> /\ vm \in Vms /\ ext \in Ext /\ state \in States /\ timer \in Timers
             /\ old \in BOOLEAN /\ at \in Places /\ arm \in Arms /\ host \in Hosts
             /\ ghost \in Ghosts
  BY DEF TypeOK, Vms, Ext, Places, Arms, Hosts, Ghosts

LEMMA TypePartsNext ==
  TypeOK' <=> /\ vm' \in Vms /\ ext' \in Ext /\ state' \in States /\ timer' \in Timers
              /\ old' \in BOOLEAN /\ at' \in Places /\ arm' \in Arms /\ host' \in Hosts
              /\ ghost' \in Ghosts
  BY DEF TypeOK, Vms, Ext, Places, Arms, Hosts, Ghosts

LEMMA NoExtType == NoExt \in Ext
<1>1. 0 \in 0..MaxApps /\ 0 \in 0..MaxRuns
  BY MythroadAssumption
<1>2. {} \in SUBSET Fns
  OBVIOUS
<1>3. QED
  BY <1>1, <1>2 DEF NoExt, Ext

LEMMA TypeInit == Init => TypeInv
<1> SUFFICES ASSUME Init PROVE TypeInv
  OBVIOUS
<1>1. ext \in Ext
  BY NoExtType DEF Init
<1>2. 0 \in 0..MaxApps /\ 0 \in 0..MaxRuns
  BY MythroadAssumption
<1>3. vm \in Vms /\ host \in Hosts
  BY <1>2 DEF Init, Vms, Hosts
<1>4. arm \in Arms /\ ghost \in Ghosts /\ state \in States /\ timer \in Timers
      /\ old \in BOOLEAN /\ at \in Places
  BY DEF Init, Arms, Ghosts, NotIn, States, Timers, Places
<1>5. QED
  BY <1>1, <1>3, <1>4, TypeParts DEF Init, TypeInv, ArmInv, NotIn

\* The host's record of its timer and of the exit.
LEMMA HostTypes ==
  ASSUME NEW h \in Hosts, NEW b \in BOOLEAN
  PROVE  /\ Armed(h) \in Hosts /\ Exited(h) \in Hosts
         /\ [h EXCEPT !.armed = b] \in Hosts
         /\ [h EXCEPT !.up = FALSE, !.armed = FALSE] \in Hosts
         /\ Exited([h EXCEPT !.armed = b]) \in Hosts
         /\ Armed(h).armed = TRUE /\ Exited(h).exit = TRUE
         /\ Exited([h EXCEPT !.armed = b]).exit = TRUE
  BY DEF Hosts, Armed, Exited

\* What mr_stop leaves of the extension and its flag has its type.
LEMMA ExtTypes ==
  ASSUME ext \in Ext, arm \in Arms
  PROVE  /\ Consumed(ext) \cup {Unloaded(ext)} \subseteq Ext
         /\ \A e : Without(e) \in Arms /\ Without(e).in = arm.in
                   /\ Without(e).state = arm.state /\ Without(e).timer = arm.timer
<1>1. Consumed(ext) \subseteq Ext
  BY DEF Consumed, Ext
<1>2. Unloaded(ext) \in Ext
  BY NoExtType DEF Unloaded
<1>3. ASSUME NEW e PROVE Without(e) \in Arms /\ Without(e).in = arm.in
                   /\ Without(e).state = arm.state /\ Without(e).timer = arm.timer
  BY DEF Without, Arms
<1>4. QED
  BY <1>1, <1>2, <1>3

LEMMA StopsTypes ==
  ASSUME TypeOK, NEW v \in Vms, NEW s \in States, NEW t \in Timers, Stops(v, s, t)
  PROVE  /\ vm' \in Vms /\ ext' \in Ext /\ state' \in States /\ timer' \in Timers
         /\ arm' \in Arms /\ arm'.in = arm.in /\ arm'.state = arm.state
         /\ arm'.timer = arm.timer
<1>1. ext \in Ext /\ arm \in Arms
  BY TypeParts
<1>2. ext' \in Consumed(ext) \cup {Unloaded(ext)} /\ arm' = Without(ext')
  BY DEF Stops
<1>3. [v EXCEPT !.open = FALSE] \in Vms
  BY DEF Vms
<1>4. QED
  BY <1>1, <1>2, <1>3, ExtTypes DEF Stops, Stopped, States, Timers

\* The next application's VM.
LEMMA NextVmType ==
  ASSUME vm \in Vms, vm.app < MaxApps
  PROVE  /\ NextVm \in Vms /\ [NextVm EXCEPT !.loaded = FALSE] \in Vms
         /\ [NextVm EXCEPT !.open = FALSE, !.loaded = FALSE] \in Vms
<1>1. vm.app + 1 \in 0..MaxApps
  BY MythroadAssumption DEF Vms
<1>2. NextVm \in Vms
  BY <1>1 DEF NextVm, Vms
<1>3. \A v \in Vms : /\ [v EXCEPT !.loaded = FALSE] \in Vms
                    /\ [v EXCEPT !.open = FALSE, !.loaded = FALSE] \in Vms
  BY DEF Vms
<1>4. QED
  BY <1>2, <1>3

\* What a call of ARM code leaves of the timer.
LEMMA KeptTypes ==
  ASSUME TypeOK
  PROVE  Kept \subseteq Clocks
<1>1. arm \in Arms /\ host \in Hosts /\ timer \in Timers /\ ghost \in Ghosts
  BY TypeParts
<1>2. Read \in Timers
  BY <1>1 DEF Read, Arms, Timers
<1>3. arm.pending \in BOOLEAN /\ host.armed \in BOOLEAN
  BY <1>1 DEF Arms, Hosts
<1>4. Synced \in Clocks
  BY <1>1, <1>2, <1>3 DEF Synced, Clocks
<1>5. Revived \in Clocks
  BY DEF Revived, Clocks, Timers, Ghosts
<1>6. QED
  BY <1>4, <1>5 DEF Kept

\* Where a call of ARM code leads: back into Lua code, or to what the caller tries next.
Tried == {"none"} \cup EventInLua \cup TimerInExt \cup TimerInLua
         \cup (IF ext.app # 0 THEN Registered ELSE {})

LEMMA GoesOnTypes ==
  ASSUME at \in Places, NEW a, a \subseteq Tried, state' \in States, timer' \in Timers,
         NEW p \in BOOLEAN, GoesOn(a, state', timer', p)
  PROVE  /\ at' \in Places /\ arm' \in Arms
         /\ at' \in ArmCode => ext.app # 0
         /\ arm'.in => at' \in ArmCode /\ arm'.timer = timer' /\ arm'.state = state'
         /\ ~arm'.in => arm'.state = "IDLE" /\ arm'.timer = "IDLE"
<1>1. CASE at \in LuaCode /\ at' = at /\ arm' = [NotIn EXCEPT !.pending = p]
  BY <1>1 DEF NotIn, Arms, States, Timers, Places, LuaCode, ArmCode, Registered, Called
<1>2. CASE /\ at' \in a
           /\ arm' = IF at' \in ArmCode THEN Entered(state', timer', p /\ at' # "extTimer")
                                        ELSE [NotIn EXCEPT !.pending = p]
  <2>1. at' \in Places /\ (at' \in ArmCode => ext.app # 0)
    BY <1>2 DEF Tried, EventInLua, TimerInExt, TimerInLua, Places, LuaCode, ArmCode,
                Registered, Called
  <2>2. CASE at' \in ArmCode
    BY <1>2, <2>1, <2>2 DEF Entered, Arms
  <2>3. CASE at' \notin ArmCode
    BY <1>2, <2>1, <2>3 DEF NotIn, Arms, States, Timers
  <2>4. QED
    BY <2>2, <2>3
<1>3. QED
  BY <1>1, <1>2 DEF GoesOn

\* The end of a call, whether it returns or fails: with one of the timers that may be, the
\* state is left alone or taken over.
LEMMA EndOfCall ==
  ASSUME TypeOK, ArmReturns \/ ArmFails
  PROVE  \E c \in Kept, a \in SUBSET Tried :
           /\ Leaves(c) \/ FinishesCallback(c)
           /\ GoesOn(a, state', timer', c.pending)
<1>1. Synced \in Kept
  BY DEF Kept
<1>2. {"none"} \cup Ignored \subseteq Tried /\ {"none"} \subseteq Tried /\ Ignored \subseteq Tried
  BY DEF Ignored, Tried
<1>3. CASE ArmReturns
  <2>1. CASE /\ Leaves(Synced)
             /\ GoesOn({"none"} \cup Ignored, state', timer', Synced.pending)
    BY <1>1, <1>2, <2>1
  <2>2. CASE \E c \in Kept :
               \/ /\ arm.state \notin {"RESTART", "STOP"} /\ Leaves(c)
                  /\ GoesOn({"none"} \cup Ignored, state', timer', c.pending)
               \/ FinishesCallback(c) /\ GoesOn({"none"}, state', timer', c.pending)
    <3>1. PICK c \in Kept :
               \/ /\ arm.state \notin {"RESTART", "STOP"} /\ Leaves(c)
                  /\ GoesOn({"none"} \cup Ignored, state', timer', c.pending)
               \/ FinishesCallback(c) /\ GoesOn({"none"}, state', timer', c.pending)
      BY <2>2
    <3>2. QED
      BY <1>2, <3>1
  <2>3. QED
    BY <1>3, <2>1, <2>2 DEF ArmReturns
<1>4. CASE ArmFails
  <2>1. PICK c \in IF at \in Registered THEN {Synced} ELSE Kept :
          /\ Leaves(c)
          /\ GoesOn(IF at \in Registered THEN Ignored ELSE {"none"}, state', timer', c.pending)
    BY <1>4 DEF ArmFails
  <2>2. c \in Kept
    BY <1>1, <2>1
  <2>3. QED
    BY <1>2, <2>1, <2>2
<1>5. QED
  BY <1>3, <1>4

\* What a call leaves has its type.
LEMMA EndOfCallTypes ==
  ASSUME TypeInv, NEW c \in Kept, Leaves(c) \/ FinishesCallback(c)
  PROVE  /\ state' \in States /\ timer' \in Timers /\ old' \in BOOLEAN
         /\ host' \in Hosts /\ ghost' \in Ghosts
         /\ state' = "RESTART" => vm.app < MaxApps
<1> TypeOK
  BY DEF TypeInv
<1>1. c.timer \in Timers /\ c.armed \in BOOLEAN /\ c.ghost \in Ghosts
  BY KeptTypes DEF Clocks
<1>2. host \in Hosts /\ state \in States /\ old \in BOOLEAN
  BY TypeParts
<1>3. [host EXCEPT !.armed = c.armed] \in Hosts /\ Armed(host) \in Hosts
      /\ Exited([host EXCEPT !.armed = c.armed]) \in Hosts
  BY <1>1, <1>2, HostTypes
<1>4. CASE Leaves(c)
  BY <1>1, <1>2, <1>3, <1>4 DEF Leaves, Takes, TypeInv, ArmInv
<1>5. CASE FinishesCallback(c)
  <2>1. CASE /\ arm.state = "RESTART" /\ state' = "RESTART" /\ Takes(c) /\ old' \in BOOLEAN
             /\ ghost' = c.ghost \cup (IF c.timer = "RUNNING" THEN {} ELSE {"unarmed"})
    BY <1>1, <1>3, <2>1 DEF Takes, States, Ghosts, TypeInv, ArmInv
  <2>2. ASSUME NEW s \in States, NEW o, Exits(s, c, o), ghost' = {},
               s = "RESTART" => vm.app < MaxApps
        PROVE  /\ state' \in States /\ timer' \in Timers /\ host' \in Hosts
               /\ ghost' \in Ghosts /\ (state' = "RESTART" => vm.app < MaxApps)
    BY <1>1, <1>3, <2>2 DEF Exits, Restarts, States, Timers, Ghosts
  <2>3. CASE /\ arm.state = "STOP" /\ old' \in BOOLEAN
             /\ Exits("STOP", c, old') /\ ghost' = {}
    BY <2>2, <2>3 DEF States
  <2>4. CASE Exits(state, c, old) /\ ghost' = {} /\ UNCHANGED old
    BY <1>2, <2>2, <2>4 DEF TypeInv, ArmInv
  <2>5. QED
    BY <1>5, <2>1, <2>3, <2>4 DEF FinishesCallback
<1>6. QED
  BY <1>4, <1>5

LEMMA TypeStep == TypeInv /\ [Next]_vars => TypeOK' /\ ArmInv'
<1> SUFFICES ASSUME TypeInv, [Next]_vars PROVE TypeOK' /\ ArmInv'
  OBVIOUS
<1> TypeOK /\ ArmInv
  BY DEF TypeInv
<1>a. /\ vm \in Vms /\ ext \in Ext /\ state \in States /\ timer \in Timers
      /\ old \in BOOLEAN /\ at \in Places /\ arm \in Arms /\ host \in Hosts
      /\ ghost \in Ghosts
  BY TypeParts
<1>b. {} \in Ghosts /\ {"stopped"} \in Ghosts /\ {"exited"} \in Ghosts
      /\ "RUNNING" \in Timers /\ "IDLE" \in Timers
  BY DEF Ghosts, Timers
<1>c. Armed(host) \in Hosts /\ Exited(host) \in Hosts
      /\ [host EXCEPT !.armed = FALSE] \in Hosts
      /\ [host EXCEPT !.up = FALSE, !.armed = FALSE] \in Hosts
  BY <1>a, HostTypes
<1>1. CASE MRF_TimerStart
  BY <1>1, <1>a, <1>b, <1>c, TypePartsNext DEF MRF_TimerStart, ArmInv
<1>2. CASE MRF_TimerStop
  BY <1>2, <1>a, <1>b, <1>c, TypePartsNext DEF MRF_TimerStop, Disarmed, Halted, ArmInv
<1>3. CASE MRF_RunFile
  BY <1>3, <1>a, <1>b, <1>c, TypePartsNext DEF MRF_RunFile, Restarts, States, ArmInv
<1>4. CASE SetsOldApp
  BY <1>4, <1>a, TypePartsNext DEF SetsOldApp, ArmInv
<1>5. CASE LoadsExt
  <2>1. [app |-> vm.app, run |-> host.run, kept |-> FALSE, fns |-> {}] \in Ext
    BY <1>a DEF Vms, Hosts, Ext
  <2>2. arm' \in Arms /\ arm'.in = arm.in /\ arm'.state = arm.state
    BY <1>5, <1>a DEF LoadsExt, Arms
  <2>3. QED
    BY <1>5, <1>a, <2>1, <2>2, NoExtType, TypePartsNext DEF LoadsExt, ArmInv
<1>6. CASE Registers
  <2>1. ext' \in Ext
    BY <1>6, <1>a DEF Registers, Ext, Fns
  <2>2. QED
    BY <1>6, <1>a, <2>1, TypePartsNext DEF Registers, ArmInv
<1>7. CASE CallsArm
  <2>1. arm.pending \in BOOLEAN
    BY <1>a DEF Arms
  <2>3. \A p \in BOOLEAN : /\ Entered(state, timer, p) \in Arms
                         /\ Entered(state, timer, p).in
                         /\ Entered(state, timer, p).state = state
    BY <1>a DEF Entered, Arms
  <2>4. arm' \in Arms /\ arm'.in /\ arm'.state = state
    BY <1>7, <2>1, <2>3 DEF CallsArm
  <2>2. QED
    BY <1>7, <1>a, <2>4, TypePartsNext DEF CallsArm, RunsLua, ArmInv
<1>8. CASE TableTimerStart
  <2>1. arm' \in Arms /\ arm'.in = arm.in /\ arm'.state = arm.state
    BY <1>8, <1>a DEF TableTimerStart, Arms, Timers
  <2>2. QED
    BY <1>8, <1>a, <1>b, <1>c, <2>1, TypePartsNext DEF TableTimerStart, ArmInv
<1>9. CASE TableTimerStop
  <2>1. arm' \in Arms /\ arm'.in = arm.in /\ arm'.state = arm.state
    BY <1>9, <1>a DEF TableTimerStop, Arms, Timers
  <2>2. QED
    BY <1>9, <1>a, <1>b, <1>c, <2>1, TypePartsNext DEF TableTimerStop, Disarmed, Halted, ArmInv
<1>10. CASE ArmWrites
  <2>1. CASE \E s \in {"RUN", "RESTART", "STOP"} :
               /\ s = "RESTART" => vm.app < MaxApps
               /\ arm' = [arm EXCEPT !.state = s] /\ UNCHANGED ghost
    <3>1. PICK s \in {"RUN", "RESTART", "STOP"} :
               /\ s = "RESTART" => vm.app < MaxApps
               /\ arm' = [arm EXCEPT !.state = s] /\ UNCHANGED ghost
      BY <2>1
    <3>2. arm' \in Arms /\ arm'.in = arm.in /\ arm'.state = s
      BY <3>1, <1>a DEF Arms, States
    <3>3. QED
      BY <1>10, <1>a, <3>1, <3>2, TypePartsNext DEF ArmWrites, ArmInv
  <2>2. CASE \E t \in {"IDLE", "RUNNING"} :
               /\ arm' = [arm EXCEPT !.timer = t]
               /\ ghost' = IF t = "IDLE" /\ arm.pending THEN ghost ELSE ghost \cup {"wrote"}
    <3>1. arm' \in Arms /\ arm'.in = arm.in /\ arm'.state = arm.state
      BY <2>2, <1>a DEF Arms, Timers
    <3>2. ghost' \in Ghosts
      BY <2>2, <1>a DEF Ghosts
    <3>3. QED
      BY <1>10, <1>a, <3>1, <3>2, TypePartsNext DEF ArmWrites, ArmInv
  <2>3. QED
    BY <1>10, <2>1, <2>2 DEF ArmWrites
<1>11. CASE TableExit
  <2>1. host.armed \in BOOLEAN
    BY <1>a DEF Hosts
  <2>2. Exited([host EXCEPT !.armed = host.armed]) \in Hosts
    BY <1>a, <2>1, HostTypes
  <2>3. QED
    BY <1>11, <1>a, <1>b, <1>c, <2>2, TypePartsNext
       DEF TableExit, Exits, Restarts, States, ArmInv
<1>12. CASE MRF_Exit
  <2>1. AfterCode[at] \in Places /\ "STOP" \in States /\ ~arm.in
    BY <1>12 DEF MRF_Exit, RunsLua, AfterCode, LuaCode, Places, States
  <2>2. CASE Restarts /\ ghost' = {} /\ UNCHANGED <<vm, ext, old, at, arm>>
    BY <1>a, <1>b, <1>c, <2>2, TypePartsNext DEF Restarts, States, ArmInv
  <2>3. CASE Stops(vm, "STOP", timer) /\ host' = Exited(host) /\ at' = AfterCode[at]
             /\ UNCHANGED <<old, ghost>>
    <3>1. /\ vm' \in Vms /\ ext' \in Ext /\ state' \in States /\ timer' \in Timers
          /\ arm' \in Arms /\ arm'.in = arm.in /\ arm'.state = arm.state
      BY <1>a, <2>1, <2>3, StopsTypes
    <3>2. state' # "RESTART"
      BY <2>3 DEF Stops, Stopped
    <3>3. QED
      BY <1>a, <1>c, <2>1, <2>3, <3>1, <3>2, TypePartsNext DEF ArmInv
  <2>4. QED
    BY <1>12, <2>2, <2>3 DEF MRF_Exit
<1>13. CASE Errs
  <2>1. AfterCode[at] \in Places /\ ~arm.in
    BY <1>13 DEF Errs, RunsLua, AfterCode, LuaCode, Places
  <2>2. CASE state = "STOP" /\ Stops(vm, state, timer) /\ UNCHANGED <<old, host>>
    <3>1. /\ vm' \in Vms /\ ext' \in Ext /\ state' \in States /\ timer' \in Timers
          /\ arm' \in Arms /\ arm'.in = arm.in /\ arm'.state = arm.state
      BY <1>a, <2>2, StopsTypes
    <3>2. state' # "RESTART"
      BY <2>2 DEF Stops, Stopped
    <3>3. QED
      BY <1>13, <1>a, <2>1, <2>2, <3>1, <3>2, TypePartsNext DEF Errs, ArmInv
  <2>3. CASE /\ state' = "ERROR" /\ UNCHANGED <<vm, ext, timer, arm>>
             /\ \/ UNCHANGED <<old, host>>
                \/ old' = FALSE /\ host' = Exited(host)
    BY <1>13, <1>a, <1>c, <2>1, <2>3, TypePartsNext DEF Errs, States, ArmInv
  <2>4. QED
    BY <1>13, <2>2, <2>3 DEF Errs, Fails
<1>14. CASE LuaReturns
  <2>1. AfterCode[at] \in Places /\ ~arm.in
    BY <1>14 DEF LuaReturns, RunsLua, AfterCode, LuaCode, Places
  <2>2. QED
    BY <1>14, <1>a, <2>1, TypePartsNext DEF LuaReturns, ArmInv
<1>15. CASE CallsEntry
  <2>1. at' \in Places /\ ~arm.in
    BY <1>15 DEF CallsEntry, ArmInv, Places, LuaCode, ArmCode, Registered, Called
  <2>2. QED
    BY <1>15, <1>a, <2>1, TypePartsNext DEF CallsEntry, ArmInv
<1>16. CASE EndsBoot
  <2>1. at' \in Places /\ ~arm.in
    BY <1>16 DEF EndsBoot, ArmInv, Places, LuaCode, ArmCode, Registered, Called
  <2>2. QED
    BY <1>16, <1>a, <1>b, <1>c, <2>1, TypePartsNext DEF EndsBoot, ArmInv
<1>17. CASE ArmReturns \/ ArmFails
  <2>1. PICK c \in Kept, a \in SUBSET Tried :
          /\ Leaves(c) \/ FinishesCallback(c)
          /\ GoesOn(a, state', timer', c.pending)
    BY <1>17, EndOfCall
  <2>2. /\ state' \in States /\ timer' \in Timers /\ old' \in BOOLEAN
        /\ host' \in Hosts /\ ghost' \in Ghosts
        /\ state' = "RESTART" => vm.app < MaxApps
    BY <2>1, EndOfCallTypes
  <2>3. c.pending \in BOOLEAN
    BY <2>1, KeptTypes DEF Clocks
  <2>4. /\ at' \in Places /\ arm' \in Arms
        /\ arm'.in => at' \in ArmCode /\ arm'.timer = timer' /\ arm'.state = state'
        /\ ~arm'.in => arm'.state = "IDLE" /\ arm'.timer = "IDLE"
    BY <1>a, <2>1, <2>2, <2>3, GoesOnTypes
  <2>5. UNCHANGED <<vm, ext>>
    BY <1>17 DEF ArmReturns, ArmFails
  <2>6. QED
    BY <1>a, <2>2, <2>4, <2>5, TypePartsNext DEF ArmInv
<1>18. CASE HostStarts
  <2>1. NextVm \in Vms /\ [NextVm EXCEPT !.loaded = FALSE] \in Vms
    BY <1>18, <1>a, NextVmType DEF HostStarts
  <2>2. ~arm.in
    BY <1>18 DEF HostStarts, ArmInv, LuaCode, ArmCode, Registered, Called
  <2>3. /\ vm' \in Vms /\ ext' \in Ext /\ state' \in States /\ timer' \in Timers
        /\ arm' \in Arms /\ arm'.in = arm.in /\ arm'.state = arm.state
        /\ at' \in Places /\ state' # "RESTART"
    <3>1. CASE /\ vm' = NextVm /\ state' = "RUN" /\ timer' = "IDLE" /\ at' = "boot"
               /\ UNCHANGED <<ext, arm>>
      BY <1>a, <1>b, <2>1, <3>1 DEF States, Places, LuaCode
    <3>2. CASE Stops([NextVm EXCEPT !.loaded = FALSE], "RUN", "IDLE") /\ at' = "none"
      <4>1. "RUN" \in States /\ at' \in Places
        BY <3>2 DEF States, Places
      <4>2. state' # "RESTART"
        BY <3>2 DEF Stops, Stopped
      <4>3. QED
        BY <1>b, <2>1, <3>2, <4>1, <4>2, StopsTypes
    <3>3. QED
      BY <1>18, <3>1, <3>2 DEF HostStarts, Boots
  <2>4. host' \in Hosts
    <3>1. host.run + 1 \in 0..MaxRuns
      BY <1>18, <1>a, MythroadAssumption DEF HostStarts, Hosts
    <3>2. vm'.loaded \in BOOLEAN
      BY <2>3 DEF Vms
    <3>3. QED
      BY <1>18, <3>1, <3>2 DEF HostStarts, Hosts
  <2>5. QED
    BY <1>18, <1>b, <2>2, <2>3, <2>4, TypePartsNext DEF HostStarts, ArmInv
<1>19. CASE mr_event
  <2>1. \E a \in SUBSET Tried : GoesOn(a, state', timer', arm.pending)
    <3>1. CASE ext.app # 0
      <4>1. {"nativeEvent"} \subseteq Tried /\ EventInLua \subseteq Tried
        BY <3>1 DEF Tried, Registered
      <4>2. QED
        BY <1>19, <4>1 DEF mr_event
    <3>2. CASE ext.app = 0
      <4>1. EventInLua \subseteq Tried
        BY DEF Tried
      <4>2. QED
        BY <1>19, <3>2, <4>1 DEF mr_event
    <3>3. QED
      BY <3>1, <3>2
  <2>2. arm.pending \in BOOLEAN /\ state' \in States /\ timer' \in Timers
    BY <1>19, <1>a DEF mr_event, Arms
  <2>3. /\ at' \in Places /\ arm' \in Arms
        /\ arm'.in => at' \in ArmCode /\ arm'.state = state'
        /\ ~arm'.in => arm'.state = "IDLE"
    BY <1>a, <2>1, <2>2, GoesOnTypes
  <2>4. QED
    BY <1>19, <1>a, <2>3, TypePartsNext DEF mr_event, ArmInv
<1>20. CASE HostTick
  <2>1. host' \in Hosts /\ old' \in BOOLEAN /\ at = "none" /\ ~arm.in
    BY <1>20, <1>a, <1>c DEF HostTick, Waits, ArmInv, LuaCode, ArmCode, Registered, Called
  <2>2. CASE UNCHANGED <<vm, ext, state, at, arm, ghost>> /\ timer' \in {timer, "IDLE"}
    BY <1>a, <1>b, <2>1, <2>2, TypePartsNext DEF ArmInv
  <2>3. CASE RunTick
    <3>1. arm.pending \in BOOLEAN /\ state' \in States /\ timer' = "IDLE" /\ state' = state
          /\ timer' \in Timers
      BY <2>3, <1>a, <1>b DEF RunTick, Arms
    <3>2. /\ at' \in Places /\ arm' \in Arms
          /\ arm'.in => at' \in ArmCode /\ arm'.state = state'
          /\ ~arm'.in => arm'.state = "IDLE"
      <4>1. \E a \in SUBSET Tried : GoesOn(a, state', timer', arm.pending)
        <5>1. CASE ext.app # 0
          <6>1. {"nativeTimer"} \subseteq Tried /\ TimerInExt \subseteq Tried
            BY <5>1 DEF Tried, Registered
          <6>2. QED
            BY <2>3, <3>1, <6>1 DEF RunTick
        <5>2. CASE ext.app = 0
          <6>1. TimerInExt \subseteq Tried
            BY DEF Tried
          <6>2. QED
            BY <2>3, <3>1, <5>2, <6>1 DEF RunTick
        <5>3. QED
          BY <5>1, <5>2
      <4>2. QED
        BY <1>a, <3>1, <4>1, GoesOnTypes
    <3>3. QED
      BY <1>a, <1>b, <2>1, <2>3, <3>1, <3>2, TypePartsNext DEF RunTick, ArmInv
  <2>4. CASE RestartTick
    <3>1. NextVm \in Vms /\ [NextVm EXCEPT !.open = FALSE, !.loaded = FALSE] \in Vms
      BY <2>4, <1>a, NextVmType DEF RestartTick, IsRestart, ArmInv
    <3>2. ext' \in Ext /\ arm' \in Arms /\ arm'.in = arm.in /\ arm'.state = arm.state
      BY <2>4, <1>a, ExtTypes DEF RestartTick
    <3>3. state' \in States /\ state' # "RESTART" /\ at' \in Places
      BY <2>4 DEF RestartTick, Stopped, States, Places, LuaCode
    <3>4. QED
      BY <1>b, <2>1, <2>4, <3>1, <3>2, <3>3, TypePartsNext DEF RestartTick, ArmInv
  <2>5. QED
    BY <1>20, <2>2, <2>3, <2>4 DEF HostTick
<1>21. CASE HostStops
  BY <1>21, <1>a, <1>c, TypePartsNext DEF HostStops, ArmInv
<1>22. CASE UNCHANGED vars
  BY <1>22, <1>a, TypePartsNext DEF vars, ArmInv
<1>23. QED
  BY <1>1, <1>2, <1>3, <1>4, <1>5, <1>6, <1>7, <1>8, <1>9, <1>10, <1>11, <1>12, <1>13,
     <1>14, <1>15, <1>16, <1>17, <1>18, <1>19, <1>20, <1>21, <1>22 DEF Next, Returns

\* Every variable keeps its type, and a restart that is asked for has its place.
THEOREM MythroadTypes == Spec => []TypeInv
<1>1. Init => TypeInv
  BY TypeInit
<1>2. TypeInv /\ [Next]_vars => TypeInv'
  BY TypeStep DEF TypeInv
<1>3. QED
  BY <1>1, <1>2, PTL DEF Spec

\* The type invariant of the runs.
THEOREM MythroadTypeOK == Spec => []TypeOK
<1>1. TypeInv => TypeOK
  BY DEF TypeInv
<1>2. QED
  BY <1>1, MythroadTypes, PTL
-----------------------------------------------------------------------------
\* The VM is open whenever code runs or may be run.
OpenInv == (at # "none" \/ state = "RUN") => vm.open

LEMMA OpenStep == ~EndsInBoot /\ TypeInv /\ OpenInv /\ [Next]_vars => OpenInv'
<1> SUFFICES ASSUME ~EndsInBoot, TypeInv, OpenInv, [Next]_vars PROVE OpenInv'
  OBVIOUS
<1>1. CASE at # "none" /\ UNCHANGED vm
  BY <1>1 DEF OpenInv
<1>2. CASE /\ UNCHANGED <<vm, state>>
           /\ at' = "none" \/ at' = at
  BY <1>2 DEF OpenInv
<1>3. CASE \/ MRF_TimerStart \/ MRF_TimerStop \/ SetsOldApp \/ LoadsExt \/ Registers
           \/ CallsArm \/ TableTimerStart \/ TableTimerStop \/ ArmWrites \/ HostStops
           \/ UNCHANGED vars
  BY <1>2, <1>3 DEF MRF_TimerStart, MRF_TimerStop, SetsOldApp, LoadsExt, Registers, CallsArm,
     TableTimerStart, TableTimerStop, ArmWrites, HostStops, vars
<1>4. CASE MRF_RunFile \/ TableExit \/ LuaReturns \/ CallsEntry \/ EndsBoot \/ ArmReturns \/ ArmFails
  <2>1. arm.in => at # "none"
    BY DEF TypeInv, ArmInv, LuaCode, ArmCode, Registered, Called
  <2>2. at # "none" /\ UNCHANGED vm
    BY <1>4, <2>1 DEF MRF_RunFile, TableExit, LuaReturns, CallsEntry, EndsBoot, ArmReturns,
       ArmFails, RunsLua, LuaCode
  <2>3. QED
    BY <1>1, <2>2
<1>6. CASE MRF_Exit
  <2>1. at # "none"
    BY <1>6 DEF MRF_Exit, RunsLua, LuaCode
  <2>2. CASE UNCHANGED vm
    BY <1>1, <2>1, <2>2
  <2>3. CASE Stops(vm, "STOP", timer) /\ at' = "none"
    BY <2>3 DEF Stops, Stopped, OpenInv
  <2>4. QED
    BY <1>6, <2>2, <2>3 DEF MRF_Exit, RunsLua, AfterCode, LuaCode
<1>7. CASE Errs
  <2>1. at # "none"
    BY <1>7 DEF Errs, RunsLua, LuaCode
  <2>2. CASE UNCHANGED vm
    BY <1>1, <2>1, <2>2
  <2>3. CASE state = "STOP" /\ Stops(vm, state, timer) /\ at' = "none"
    BY <2>3 DEF Stops, Stopped, OpenInv
  <2>4. QED
    BY <1>7, <2>2, <2>3 DEF Errs, RunsLua, Fails, AfterCode, LuaCode
<1>8. CASE HostStarts
  BY <1>8 DEF HostStarts, Boots, Stops, Stopped, NextVm, OpenInv
<1>9. CASE mr_event
  BY <1>9 DEF mr_event, OpenInv
<1>10. CASE HostTick
  <2>1. CASE RunTick
    BY <2>1 DEF RunTick, OpenInv
  <2>2. CASE RestartTick
    BY <2>2 DEF RestartTick, Stopped, NextVm, OpenInv
  <2>3. CASE UNCHANGED <<vm, state, at>>
    BY <1>2, <2>3
  <2>4. QED
    BY <1>10, <2>1, <2>2, <2>3 DEF HostTick
<1>11. QED
  BY <1>3, <1>4, <1>6, <1>7, <1>8, <1>9, <1>10 DEF Next, Returns

\* Where no application exits in its file's code or its entry, no event, tick or entry
\* reaches a VM that mr_stop has closed.
THEOREM ClosedVmIsLeftAlone == ~EndsInBoot => (Spec => []VmIsOpen)
<1> SUFFICES ASSUME ~EndsInBoot PROVE Spec => []VmIsOpen
  OBVIOUS
<1>1. Init => OpenInv
  BY DEF Init, OpenInv
<1>2. TypeInv /\ OpenInv /\ [Next]_vars => OpenInv'
  BY OpenStep
<1>3. OpenInv => VmIsOpen
  BY DEF OpenInv, VmIsOpen, LuaCode
<1>4. QED
  BY <1>1, <1>2, <1>3, MythroadTypes, PTL DEF Spec
-----------------------------------------------------------------------------
\* Native code runs in an extension that is there, and an extension of this run that no
\* stop function kept is the application's own.
OwnInv ==
  /\ ext.run <= host.run
  /\ at \in ArmCode => ext.app # 0
  /\ ext.app # 0 /\ ext.run = host.run /\ ~ext.kept => ext.app = vm.app

\* mr_stop frees the extension, or marks it as kept.
LEMMA StopsOwn ==
  ASSUME TypeOK, NEW v, NEW s, NEW t, Stops(v, s, t)
  PROVE  \/ ext'.app = 0 /\ ext'.run = 0
         \/ ext'.kept /\ ext'.run = ext.run
<1>1. \A e \in Consumed(ext) : e.kept /\ e.run = ext.run
  BY DEF Consumed, TypeOK
<1>2. CASE ext' \in Consumed(ext)
  BY <1>1, <1>2
<1>3. CASE ext' = Unloaded(ext)
  BY <1>3 DEF Unloaded, NoExt
<1>4. QED
  BY <1>2, <1>3 DEF Stops

LEMMA OwnStep == TypeInv /\ OwnInv /\ [Next]_vars => OwnInv'
<1> SUFFICES ASSUME TypeInv, OwnInv, [Next]_vars PROVE OwnInv'
  OBVIOUS
<1> TypeOK
  BY DEF TypeInv
<1> host.run \in Nat /\ ext.run \in Nat /\ vm.app \in Nat
  BY MythroadAssumption DEF TypeOK
<1>1. CASE /\ UNCHANGED <<vm, ext>> /\ host'.run = host.run
           /\ at' \in ArmCode => at' = at \/ ext.app # 0
  BY <1>1 DEF OwnInv
<1>2. CASE /\ ext'.run <= host'.run /\ (ext'.app = 0 \/ ext'.kept)
           /\ at' \notin ArmCode
  BY <1>2 DEF OwnInv
<1>a. /\ Armed(host).run = host.run /\ Exited(host).run = host.run
      /\ \A b : /\ [host EXCEPT !.armed = b].run = host.run
               /\ Exited([host EXCEPT !.armed = b]).run = host.run
  BY DEF Armed, Exited, TypeOK
<1>3. CASE \/ MRF_TimerStart \/ MRF_TimerStop \/ MRF_RunFile \/ SetsOldApp \/ CallsArm
           \/ TableTimerStart \/ TableTimerStop \/ ArmWrites \/ HostStops \/ UNCHANGED vars
  BY <1>1, <1>3, <1>a DEF MRF_TimerStart, MRF_TimerStop, Disarmed, MRF_RunFile, Restarts,
     SetsOldApp, CallsArm, TableTimerStart, TableTimerStop, ArmWrites, HostStops, vars, TypeOK
<1>4. CASE TableExit
  BY <1>1, <1>4, <1>a DEF TableExit, Exits, Restarts
<1>5. CASE LoadsExt
  <2>1. at' \notin ArmCode /\ UNCHANGED <<vm, host>>
    BY <1>5 DEF LoadsExt, RunsLua, LuaCode, ArmCode, Registered, Called
  <2>2. QED
    BY <1>5, <2>1 DEF LoadsExt, NoExt, OwnInv
<1>6. CASE Registers
  <2>1. ext'.app = ext.app /\ ext'.run = ext.run /\ ext'.kept = ext.kept
    BY <1>6 DEF Registers, TypeOK
  <2>2. QED
    BY <1>6, <2>1 DEF Registers, OwnInv
<1>7. CASE MRF_Exit
  <2>1. AfterCode[at] \notin ArmCode
    BY <1>7 DEF MRF_Exit, RunsLua, AfterCode, LuaCode, ArmCode, Registered, Called
  <2>2. CASE Restarts /\ UNCHANGED <<vm, ext, old, at, arm>>
    BY <1>1, <1>a, <2>2 DEF Restarts
  <2>3. CASE Stops(vm, "STOP", timer) /\ host' = Exited(host) /\ at' = AfterCode[at]
    BY <1>2, <1>a, <2>1, <2>3, StopsOwn DEF OwnInv
  <2>4. QED
    BY <1>7, <2>2, <2>3 DEF MRF_Exit
<1>8. CASE Errs
  <2>1. AfterCode[at] \notin ArmCode
    BY <1>8 DEF Errs, RunsLua, AfterCode, LuaCode, ArmCode, Registered, Called
  <2>2. CASE Stops(vm, state, timer) /\ UNCHANGED <<old, host>>
    BY <1>2, <1>8, <2>1, <2>2, StopsOwn DEF Errs, OwnInv
  <2>3. CASE UNCHANGED <<vm, ext>> /\ (host' = host \/ host' = Exited(host))
    BY <1>1, <1>8, <1>a, <2>1, <2>3 DEF Errs
  <2>4. QED
    BY <1>8, <2>2, <2>3 DEF Errs, Fails
<1>9. CASE LuaReturns \/ CallsEntry \/ EndsBoot
  <2>1. at' \notin ArmCode
    BY <1>9 DEF LuaReturns, RunsLua, CallsEntry, EndsBoot, AfterCode, LuaCode, ArmCode,
       Registered, Called
  <2>2. QED
    BY <1>1, <1>9, <1>a, <2>1 DEF LuaReturns, CallsEntry, EndsBoot
<1>10. CASE ArmReturns \/ ArmFails
  <2>1. PICK c \in Kept, a \in SUBSET Tried :
          /\ Leaves(c) \/ FinishesCallback(c)
          /\ GoesOn(a, state', timer', c.pending)
    BY <1>10, EndOfCall
  <2>2. host'.run = host.run
    BY <1>a, <2>1 DEF Leaves, FinishesCallback, Takes, Exits, Restarts
  <2>3. c.pending \in BOOLEAN /\ state' \in States /\ timer' \in Timers
    BY <2>1, KeptTypes, EndOfCallTypes DEF Clocks
  <2>4. at' \in ArmCode => ext.app # 0
    BY <2>1, <2>3, GoesOnTypes, TypeParts
  <2>5. QED
    BY <1>1, <1>10, <2>2, <2>4 DEF ArmReturns, ArmFails
<1>11. CASE HostStarts
  <2>1. host'.run = host.run + 1
    BY <1>11 DEF HostStarts
  <2>2. ext' = ext \/ (\E v, s, t : Stops(v, s, t))
    BY <1>11 DEF HostStarts, Boots
  <2>3. ext'.run \in Nat /\ ext'.run <= host.run
    BY <2>2, StopsOwn DEF OwnInv
  <2>4. at' \notin ArmCode
    BY <1>11 DEF HostStarts, Boots, ArmCode, Registered, Called
  <2>5. ext'.run # host'.run /\ ext'.run <= host'.run
    BY <2>1, <2>3
  <2>6. QED
    BY <2>4, <2>5 DEF OwnInv
<1>12. CASE mr_event
  <2>1. at' \in ArmCode => ext.app # 0
    BY <1>12 DEF mr_event, GoesOn, EventInLua, ArmCode, Registered, Called, Waits, LuaCode
  <2>2. QED
    BY <1>1, <1>12, <2>1 DEF mr_event
<1>13. CASE HostTick
  <2> host'.run = host.run /\ at = "none"
    BY <1>13 DEF HostTick, Waits, TypeOK
  <2>1. CASE RunTick
    <3>1. at' \in ArmCode => ext.app # 0
      BY <2>1 DEF RunTick, GoesOn, TimerInExt, TimerInLua, ArmCode, Registered, Called, LuaCode
    <3>2. QED
      BY <1>1, <2>1, <3>1 DEF RunTick
  <2>2. CASE RestartTick
    <3>1. \A e \in Consumed(ext) : e.kept /\ e.run = ext.run
      BY DEF Consumed, TypeOK
    <3>2. QED
      BY <1>2, <2>2, <3>1 DEF RestartTick, Unloaded, NoExt, OwnInv, ArmCode, Registered, Called
  <2>3. CASE UNCHANGED <<vm, ext, at>>
    BY <1>1, <2>3
  <2>4. QED
    BY <1>13, <2>1, <2>2, <2>3 DEF HostTick
<1>14. QED
  BY <1>3, <1>4, <1>5, <1>6, <1>7, <1>8, <1>9, <1>10, <1>11, <1>12, <1>13 DEF Next, Returns

\* In a run of the host, the native code that takes events and ticks is the application's
\* own, unless a stop function kept mr_stop from freeing it.
THEOREM NativesDieWithTheirApplication == Spec => []RestartForgetsNatives
<1>1. Init => OwnInv
  BY DEF Init, NoExt, OwnInv, ArmCode, Registered, Called
<1>2. TypeInv /\ OwnInv /\ [Next]_vars => OwnInv'
  BY OwnStep
<1>3. OwnInv => RestartForgetsNatives
  BY DEF OwnInv, RestartForgetsNatives
<1>4. QED
  BY <1>1, <1>2, <1>3, MythroadTypes, PTL DEF Spec
-----------------------------------------------------------------------------
\* In a run that lasts, wherever the control is, an application that is over has told so.
EndInv == host.up /\ state \in {"IDLE", "STOP"} => host.exit \/ ~vm.loaded

LEMMA EndStep == TypeInv /\ EndInv /\ [Next]_vars => EndInv'
<1> SUFFICES ASSUME TypeInv, EndInv, [Next]_vars PROVE EndInv'
  OBVIOUS
<1> TypeOK
  BY DEF TypeInv
<1>1. CASE UNCHANGED <<vm, state>> /\ host'.exit = host.exit /\ (host'.up => host.up)
  BY <1>1 DEF EndInv
<1>2. CASE host'.exit
  BY <1>2 DEF EndInv
<1>3. CASE state' \notin {"IDLE", "STOP"}
  BY <1>3 DEF EndInv
<1>a. /\ Exited(host).exit /\ Armed(host).exit = host.exit /\ Armed(host).up = host.up
      /\ \A b : /\ [host EXCEPT !.armed = b].exit = host.exit
               /\ [host EXCEPT !.armed = b].up = host.up
               /\ Exited([host EXCEPT !.armed = b]).exit
  BY DEF Armed, Exited, TypeOK
<1>4. CASE \/ MRF_TimerStart \/ MRF_TimerStop \/ SetsOldApp \/ LoadsExt \/ Registers \/ CallsArm
           \/ TableTimerStart \/ TableTimerStop \/ ArmWrites \/ HostStops \/ mr_event
           \/ UNCHANGED vars
  BY <1>1, <1>4, <1>a DEF MRF_TimerStart, MRF_TimerStop, Disarmed, SetsOldApp, LoadsExt,
     Registers, CallsArm, TableTimerStart, TableTimerStop, ArmWrites, HostStops, mr_event,
     vars, TypeOK
<1>5. CASE MRF_RunFile
  BY <1>3, <1>5 DEF MRF_RunFile, Restarts
<1>6. ASSUME NEW s, NEW c, NEW o, Exits(s, c, o) PROVE EndInv'
  BY <1>2, <1>3, <1>6, <1>a DEF Exits, Restarts
<1>7. CASE TableExit
  BY <1>6, <1>7 DEF TableExit
<1>8. CASE MRF_Exit
  BY <1>2, <1>3, <1>8, <1>a DEF MRF_Exit, Restarts
<1>9. CASE Errs
  <2>1. CASE state = "STOP" /\ Stops(vm, state, timer) /\ UNCHANGED <<old, host>>
    BY <2>1 DEF Stops, EndInv, TypeOK
  <2>2. CASE state' = "ERROR"
    BY <1>3, <2>2
  <2>3. QED
    BY <1>9, <2>1, <2>2 DEF Errs, Fails
<1>10. CASE LuaReturns \/ CallsEntry \/ EndsBoot
  BY <1>1, <1>10, <1>a DEF LuaReturns, CallsEntry, EndsBoot
<1>11. CASE ArmReturns \/ ArmFails
  <2>1. PICK c \in Kept : Leaves(c) \/ FinishesCallback(c)
    BY <1>11, EndOfCall
  <2>2. CASE Leaves(c)
    BY <1>1, <1>11, <1>a, <2>2 DEF Leaves, Takes, ArmReturns, ArmFails
  <2>3. CASE FinishesCallback(c)
    BY <1>3, <1>6, <2>3 DEF FinishesCallback
  <2>4. QED
    BY <2>1, <2>2, <2>3
<1>12. CASE HostStarts
  <2>1. CASE vm' = NextVm /\ state' = "RUN"
    BY <1>3, <2>1
  <2>2. CASE Stops([NextVm EXCEPT !.loaded = FALSE], "RUN", "IDLE")
    BY <2>2 DEF Stops, NextVm, EndInv
  <2>3. QED
    BY <1>12, <2>1, <2>2 DEF HostStarts, Boots
<1>13. CASE HostTick
  <2>1. host'.exit = host.exit /\ host'.up = host.up
    BY <1>13 DEF HostTick, TypeOK
  <2>2. CASE RunTick \/ UNCHANGED <<vm, state>>
    BY <1>1, <2>1, <2>2 DEF RunTick
  <2>3. CASE RestartTick
    BY <1>3, <2>3 DEF RestartTick, NextVm, EndInv
  <2>4. QED
    BY <1>13, <2>2, <2>3 DEF HostTick
<1>14. QED
  BY <1>4, <1>5, <1>7, <1>8, <1>9, <1>10, <1>11, <1>12, <1>13 DEF Next, Returns

\* A runtime with no application left has told the host that the run is over, unless the
\* application it was to start could not be loaded.
THEOREM TheEndIsTold == Spec => []EndIsTold
<1>1. Init => EndInv
  BY DEF Init, EndInv
<1>2. TypeInv /\ EndInv /\ [Next]_vars => EndInv'
  BY EndStep
<1>3. EndInv => EndIsTold
  BY DEF EndInv, EndIsTold, Waits
<1>4. QED
  BY <1>1, <1>2, <1>3, MythroadTypes, PTL DEF Spec
-----------------------------------------------------------------------------
\* What any of the two words of the timer says is so, unless ARM code wrote it; and a restart
\* has its timer, and ARM code that runs then cannot take it away unnoticed.
TimerInv ==
  /\ ~arm.in => arm.timer = "IDLE"
  /\ host.up /\ ~host.exit /\ "RUNNING" \in {timer, arm.timer} => host.armed \/ "wrote" \in ghost
  /\ host.up /\ ~host.exit /\ state = "RESTART" /\ ghost = {} =>
       timer = "RUNNING" /\ (arm.in => arm.timer = "RUNNING" \/ arm.pending)

LEMMA TimerStep == TypeInv /\ TimerInv /\ [Next]_vars => TimerInv'
<1> SUFFICES ASSUME TypeInv, TimerInv, [Next]_vars PROVE TimerInv'
  OBVIOUS
<1> TypeOK /\ ArmInv
  BY DEF TypeInv
<1>a. arm \in Arms /\ host \in Hosts /\ timer \in Timers /\ state \in States /\ ghost \in Ghosts
  BY TypeParts
<1>b. /\ Exited(host).exit /\ Armed(host).armed /\ Armed(host).exit = host.exit
      /\ Armed(host).up = host.up
      /\ \A b : /\ [host EXCEPT !.armed = b].exit = host.exit
               /\ [host EXCEPT !.armed = b].up = host.up
               /\ [host EXCEPT !.armed = b].armed = b
               /\ Exited([host EXCEPT !.armed = b]).exit
  BY <1>a DEF Armed, Exited, Hosts
<1>1. CASE UNCHANGED <<timer, host, state, ghost, arm>>
  BY <1>1 DEF TimerInv
<1>2. CASE timer' = "IDLE" /\ ~arm'.in /\ arm'.timer = "IDLE" /\ (state' # "RESTART" \/ ghost' # {})
  BY <1>2 DEF TimerInv
<1>3. CASE host'.exit /\ (~arm'.in => arm'.timer = "IDLE")
  BY <1>3 DEF TimerInv
<1>4. CASE timer' = "RUNNING" /\ host' = Armed(host) /\ (arm'.in => arm'.timer = "RUNNING")
           /\ (~arm'.in => arm'.timer = "IDLE")
  BY <1>4, <1>b DEF TimerInv
<1>5. CASE MRF_TimerStart \/ MRF_RunFile
  BY <1>4, <1>5 DEF MRF_TimerStart, MRF_RunFile, Restarts, RunsLua, TimerInv
<1>6. CASE MRF_TimerStop
  BY <1>2, <1>6 DEF MRF_TimerStop, Disarmed, Halted, RunsLua, TimerInv
<1>7. CASE SetsOldApp \/ Registers \/ UNCHANGED vars
  BY <1>1, <1>7 DEF SetsOldApp, Registers, vars
<1>8. CASE LoadsExt
  <2>1. arm'.in = arm.in /\ arm'.timer = arm.timer /\ ~arm.in
    BY <1>8, <1>a DEF LoadsExt, RunsLua, Arms
  <2>2. QED
    BY <1>8, <2>1 DEF LoadsExt, TimerInv
<1>9. CASE CallsArm
  <2>1. arm'.in /\ arm'.timer = timer
    BY <1>9 DEF CallsArm, Entered
  <2>2. QED
    BY <1>9, <2>1 DEF CallsArm, TimerInv
<1>10. CASE TableTimerStart
  <2>1. arm'.in = arm.in /\ arm'.timer = "RUNNING"
    BY <1>10, <1>a DEF TableTimerStart, Arms
  <2>2. QED
    BY <1>4, <1>10, <2>1 DEF TableTimerStart
<1>11. CASE TableTimerStop
  <2>1. arm'.in = arm.in /\ arm'.timer = "IDLE" /\ timer' = "IDLE" /\ ghost' # {}
    BY <1>11, <1>a DEF TableTimerStop, Disarmed, Halted, Arms
  <2>2. QED
    BY <1>11, <2>1 DEF TimerInv
<1>12. CASE ArmWrites
  <2>1. CASE \E s \in {"RUN", "RESTART", "STOP"} :
               /\ s = "RESTART" => vm.app < MaxApps
               /\ arm' = [arm EXCEPT !.state = s] /\ UNCHANGED ghost
    <3>1. arm'.in = arm.in /\ arm'.timer = arm.timer /\ arm'.pending = arm.pending
      BY <2>1, <1>a DEF Arms
    <3>2. QED
      BY <1>12, <2>1, <3>1 DEF ArmWrites, TimerInv
  <2>2. CASE \E t \in {"IDLE", "RUNNING"} :
               /\ arm' = [arm EXCEPT !.timer = t]
               /\ ghost' = IF t = "IDLE" /\ arm.pending THEN ghost ELSE ghost \cup {"wrote"}
    <3>1. PICK t \in {"IDLE", "RUNNING"} :
               /\ arm' = [arm EXCEPT !.timer = t]
               /\ ghost' = IF t = "IDLE" /\ arm.pending THEN ghost ELSE ghost \cup {"wrote"}
      BY <2>2
    <3>2. arm'.in = arm.in /\ arm'.timer = t /\ arm'.pending = arm.pending /\ arm.in
      BY <1>12, <3>1, <1>a DEF ArmWrites, Arms
    <3>3. CASE t = "IDLE" /\ arm.pending
      BY <1>12, <3>1, <3>2, <3>3 DEF ArmWrites, TimerInv
    <3>4. CASE ~(t = "IDLE" /\ arm.pending)
      <4>1. ghost' = ghost \cup {"wrote"}
        BY <3>1, <3>4
      <4>2. "wrote" \in ghost' /\ ghost' # {}
        BY <4>1
      <4>3. QED
        BY <3>2, <4>2 DEF TimerInv
    <3>5. QED
      BY <3>3, <3>4
  <2>3. QED
    BY <1>12, <2>1, <2>2 DEF ArmWrites
<1>13. CASE TableExit
  <2>1. CASE Restarts
    BY <1>13, <1>b, <2>1 DEF TableExit, Restarts, TimerInv
  <2>2. CASE host'.exit
    BY <1>3, <1>13, <2>2 DEF TableExit, TimerInv
  <2>3. QED
    BY <1>13, <1>b, <2>1, <2>2 DEF TableExit, Exits
<1>14. CASE MRF_Exit
  <2>1. ~arm.in /\ arm.timer = "IDLE"
    BY <1>14 DEF MRF_Exit, RunsLua, TimerInv
  <2>2. CASE Restarts /\ ghost' = {} /\ UNCHANGED <<vm, ext, old, at, arm>>
    BY <1>4, <2>1, <2>2 DEF Restarts
  <2>3. CASE Stops(vm, "STOP", timer) /\ host' = Exited(host)
    <3>1. arm' = Without(ext')
      BY <2>3 DEF Stops
    <3>2. arm'.in = arm.in /\ arm'.timer = arm.timer
      BY <1>a, <3>1 DEF Without, Arms
    <3>3. QED
      BY <1>3, <1>b, <2>1, <2>3, <3>2
  <2>4. QED
    BY <1>14, <2>2, <2>3 DEF MRF_Exit
<1>15. CASE Errs
  <2>1. ~arm.in /\ arm.timer = "IDLE"
    BY <1>15 DEF Errs, RunsLua, TimerInv
  <2>2. CASE state = "STOP" /\ Stops(vm, state, timer) /\ UNCHANGED <<old, host>>
    <3>1. arm' = Without(ext') /\ timer' \in {timer, "IDLE"} /\ state' # "RESTART"
      BY <2>2 DEF Stops, Stopped
    <3>2. arm'.in = arm.in /\ arm'.timer = arm.timer
      BY <1>a, <3>1 DEF Without, Arms
    <3>3. QED
      BY <1>15, <2>1, <2>2, <3>1, <3>2 DEF Errs, TimerInv
  <2>3. CASE state' = "ERROR" /\ UNCHANGED <<timer, arm>> /\ (host' = host \/ host' = Exited(host))
    BY <1>15, <1>b, <2>1, <2>3 DEF Errs, TimerInv
  <2>4. QED
    BY <1>15, <2>2, <2>3 DEF Errs, Fails
<1>16. CASE LuaReturns \/ CallsEntry
  BY <1>1, <1>16 DEF LuaReturns, CallsEntry
<1>17. CASE EndsBoot
  <2>1. ~arm.in
    BY <1>17 DEF EndsBoot, ArmInv, LuaCode, ArmCode, Registered, Called
  <2>2. QED
    BY <1>1, <1>4, <1>17, <2>1 DEF EndsBoot, TimerInv
<1>18. CASE ArmReturns \/ ArmFails
  <2>1. PICK c \in Kept, a \in SUBSET Tried :
          /\ Leaves(c) \/ FinishesCallback(c)
          /\ GoesOn(a, state', timer', c.pending)
    BY <1>18, EndOfCall
  <2>2. c.pending \in BOOLEAN /\ state' \in States /\ timer' \in Timers
    BY <2>1, KeptTypes, EndOfCallTypes DEF Clocks
  <2>3. /\ arm'.in => arm'.timer = timer'
        /\ ~arm'.in => arm'.timer = "IDLE"
    BY <2>1, <2>2, GoesOnTypes, TypeParts
  <2>4. arm.in
    BY <1>18 DEF ArmReturns, ArmFails
  <2>5. /\ c.timer = "RUNNING" =>
             \/ c.armed
             \/ "wrote" \in c.ghost
             \/ ~host.up \/ host.exit
        /\ host.up /\ ~host.exit /\ state = "RESTART" /\ c.ghost = {} => c.timer = "RUNNING"
    <3>1. CASE c = Revived
      BY <3>1 DEF Revived
    <3>2. CASE c = Synced
      <4>1. c.timer = Read /\ c.armed = host.armed /\ c.ghost = ghost
        BY <3>2 DEF Synced
      <4>2. Read = "RUNNING" => "RUNNING" \in {timer, arm.timer}
        BY DEF Read
      <4>3. timer = "RUNNING" /\ (arm.timer = "RUNNING" \/ arm.pending) => Read = "RUNNING"
        BY DEF Read
      <4>4. QED
        BY <2>4, <4>1, <4>2, <4>3 DEF TimerInv
    <3>3. QED
      BY <3>1, <3>2 DEF Kept
  <2>6. CASE Leaves(c)
    <3>1. /\ host'.up = host.up /\ host'.exit = host.exit /\ host'.armed = c.armed
          /\ timer' = c.timer /\ ghost' = c.ghost /\ state' = state
      BY <1>b, <2>6 DEF Leaves, Takes
    <3>2. QED
      BY <2>3, <2>5, <3>1 DEF TimerInv
  <2>7. CASE /\ arm.state = "RESTART" /\ state' = "RESTART" /\ Takes(c) /\ old' \in BOOLEAN
             /\ ghost' = c.ghost \cup (IF c.timer = "RUNNING" THEN {} ELSE {"unarmed"})
    <3>1. /\ host'.up = host.up /\ host'.exit = host.exit /\ host'.armed = c.armed
          /\ timer' = c.timer
      BY <1>b, <2>7 DEF Takes
    <3>2. (c.timer # "RUNNING" => ghost' # {}) /\ c.ghost \subseteq ghost'
      BY <2>7
    <3>3. QED
      BY <2>3, <2>5, <3>1, <3>2 DEF TimerInv
  <2>8. ASSUME NEW s, NEW o, Exits(s, c, o) PROVE TimerInv'
    <3>1. CASE Restarts
      BY <1>b, <2>3, <3>1 DEF Restarts, TimerInv
    <3>2. CASE host'.exit
      BY <1>3, <2>3, <3>2
    <3>3. QED
      BY <1>b, <2>8, <3>1, <3>2 DEF Exits
  <2>9. QED
    BY <2>1, <2>6, <2>7, <2>8 DEF FinishesCallback
<1>19. CASE HostStarts
  <2>1. ~arm.in /\ arm.timer = "IDLE"
    BY <1>19 DEF HostStarts, ArmInv, TimerInv, LuaCode, ArmCode, Registered, Called
  <2>2. timer' = "IDLE" /\ state' # "RESTART"
    BY <1>19 DEF HostStarts, Boots, Stops, Stopped
  <2>3. arm' = arm \/ arm' = Without(ext')
    BY <1>19 DEF HostStarts, Boots, Stops
  <2>4. arm'.in = arm.in /\ arm'.timer = arm.timer
    BY <1>a, <2>3 DEF Without, Arms
  <2>5. QED
    BY <1>2, <2>1, <2>2, <2>4
<1>20. CASE mr_event
  <2>1. /\ arm'.in => arm'.timer = timer
        /\ ~arm'.in => arm'.timer = "IDLE"
    BY <1>20 DEF mr_event, GoesOn, Entered, NotIn, Waits, LuaCode
  <2>2. QED
    BY <1>20, <2>1 DEF mr_event, TimerInv
<1>21. CASE HostTick
  <2>1. ~arm.in /\ arm.timer = "IDLE"
    BY <1>21 DEF HostTick, Waits, ArmInv, TimerInv, LuaCode, ArmCode, Registered, Called
  <2>2. host'.exit = host.exit /\ host'.up = host.up
    BY <1>21, <1>b DEF HostTick
  <2>3. CASE host.exit /\ UNCHANGED arm
    BY <1>3, <2>1, <2>2, <2>3
  <2>4. CASE timer # "RUNNING" /\ UNCHANGED <<state, timer, arm, ghost>>
    BY <2>1, <2>2, <2>4 DEF TimerInv
  <2>5. CASE RunTick
    <3>1. /\ arm'.in => arm'.timer = "IDLE"
          /\ ~arm'.in => arm'.timer = "IDLE"
      BY <1>21, <2>5 DEF HostTick, RunTick, GoesOn, Entered, NotIn, Waits, LuaCode
    <3>2. QED
      BY <2>5, <3>1 DEF RunTick, TimerInv
  <2>6. CASE RestartTick
    <3>1. arm'.in = arm.in /\ arm'.timer = arm.timer
      BY <1>a, <2>6 DEF RestartTick, Without, Arms
    <3>2. QED
      BY <1>2, <2>1, <2>6, <3>1 DEF RestartTick, Stopped
  <2>7. CASE state # "RUN" /\ ~IsRestart(state) /\ timer' = "IDLE" /\ UNCHANGED <<state, arm, ghost>>
    BY <1>2, <2>1, <2>7 DEF IsRestart
  <2>8. QED
    BY <1>21, <2>3, <2>4, <2>5, <2>6, <2>7 DEF HostTick
<1>22. CASE HostStops
  <2>1. ~host'.up /\ UNCHANGED arm
    BY <1>22, <1>a DEF HostStops, Hosts
  <2>2. QED
    BY <2>1 DEF TimerInv
<1>23. QED
  BY <1>5, <1>6, <1>7, <1>8, <1>9, <1>10, <1>11, <1>12, <1>13, <1>14, <1>15, <1>16, <1>17,
     <1>18, <1>19, <1>20, <1>21, <1>22 DEF Next, Returns

\* The two, in every state.
THEOREM TimersAgree == Spec => []TimerInv
<1>1. Init => TimerInv
  BY DEF Init, NotIn, TimerInv
<1>2. TypeInv /\ TimerInv /\ [Next]_vars => TimerInv'
  BY TimerStep
<1>3. QED
  BY <1>1, <1>2, MythroadTypes, PTL DEF Spec

\* While the runtime believes that its timer runs, the host's timer is armed, unless ARM code
\* itself wrote that it runs.
THEOREM ARunningTimerTicks == Spec => []TickIsArmed
<1>1. TimerInv => TickIsArmed
  BY DEF TimerInv, TickIsArmed
<1>2. QED
  BY <1>1, TimersAgree, PTL

\* A restart that waits has the timer that ends it, unless guest code took it away, wrote
\* RESTART with none, or exited by table[54].
THEOREM ARestartIsArmed == Spec => []RestartIsArmed
<1>1. TimerInv => RestartIsArmed
  BY DEF TimerInv, RestartIsArmed, RestartTimerRuns, Waits
<1>2. QED
  BY <1>1, TimersAgree, PTL
=============================================================================
