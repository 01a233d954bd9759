------------------------------ MODULE HostBridge ------------------------------
(***************************************************************************)
(* The HarmonyOS host between the emulator page and the engine:            *)
(* vmrp_napi.cpp and the sensor part of vmrp_engine.cpp.                   *)
(*                                                                         *)
(* The main thread runs the page's calls and the callbacks posted to it;   *)
(* TimerLoop, a thread of its own while a run lasts, looks for the guest's *)
(* end, for edits to show and for sensors to follow.  They share flags and *)
(* no lock.  The engine, whose own thread runs the guest, is seen through  *)
(* is_running, is_edit_active and motion_active.                           *)
(***************************************************************************)
EXTENDS Integers

CONSTANTS
  MaxRuns, MaxEdits,    \* bounds on the runs and on the edits the guest opens
  QueueCap              \* answers the engine queues before it refuses

ASSUME HostBridgeAssumption ==
  /\ MaxRuns \in Nat \ {0} /\ MaxEdits \in Nat /\ QueueCap \in Nat \ {0}

VARIABLES
  guest,       \* the engine: run, running, edit (0 for none), edits, listens, answers
  flags,       \* g_engine_running, g_timer_running, g_edit_notified, background_
  timer,       \* TimerLoop: where it is, and the edit state it read
  main,        \* where the main thread is
  page,        \* Emulator.ets: shown, runningState, dialogs; posted: callbacks to run
  foreground,  \* EntryAbility.ets
  sensor       \* marked: sensor_subscribed_; subscribed: what OH_Sensor holds; refused:
               \* its last answer was no (read by properties only)

vars == <<guest, flags, timer, main, page, foreground, sensor>>

Init ==
  /\ guest = [run |-> 0, running |-> FALSE, edit |-> 0, edits |-> 0,
              listens |-> FALSE, answers |-> 0]
  /\ flags = [engine |-> FALSE, timer |-> FALSE, notified |-> FALSE, background |-> FALSE]
  /\ timer = [pc |-> "none", active |-> FALSE]
  /\ main = "idle"
  /\ page = [shown |-> FALSE, runningState |-> FALSE, dialogs |-> 0,
             posted |-> [edit |-> 0, exit |-> FALSE]]
  /\ foreground = TRUE
  /\ sensor = [marked |-> FALSE, subscribed |-> FALSE, refused |-> FALSE]
-----------------------------------------------------------------------------
(* The guest, in the engine's thread, as far as the host sees it.          *)

GuestOpensEdit ==
  /\ guest.running /\ guest.edits < MaxEdits
  /\ guest' = [guest EXCEPT !.edits = @ + 1, !.edit = guest.edits + 1]
  /\ UNCHANGED <<flags, timer, main, page, foreground, sensor>>

GuestClosesEdit ==
  /\ guest.running /\ guest.edit # 0
  /\ guest' = [guest EXCEPT !.edit = 0]
  /\ UNCHANGED <<flags, timer, main, page, foreground, sensor>>

GuestTakesAnswer ==
  /\ guest.running /\ guest.answers > 0
  /\ guest' = [guest EXCEPT !.answers = @ - 1, !.edit = 0]
  /\ UNCHANGED <<flags, timer, main, page, foreground, sensor>>

GuestListens ==
  /\ guest.running
  /\ guest' = [guest EXCEPT !.listens = ~@]
  /\ UNCHANGED <<flags, timer, main, page, foreground, sensor>>

GuestExits ==
  /\ guest.running
  /\ guest' = [guest EXCEPT !.running = FALSE]
  /\ UNCHANGED <<flags, timer, main, page, foreground, sensor>>
-----------------------------------------------------------------------------
(* TimerLoop.                                                              *)

Goes(to) == timer' = [timer EXCEPT !.pc = to]

\* The loop goes on while both flags are set; then NotifyEditIfNeeded, up to the call
\* of EditActive.
LoopTop ==
  /\ timer.pc = "top"
  /\ \/ ~(flags.timer /\ flags.engine) /\ Goes("done")
     \/ /\ flags.timer /\ flags.engine
        /\ timer' = [pc |-> "post", active |-> guest.edit # 0]
  /\ UNCHANGED <<guest, flags, main, page, foreground, sensor>>

\* The rest of NotifyEditIfNeeded.
PostsEdit ==
  /\ timer.pc = "post" /\ Goes("poll")
  /\ \/ /\ timer.active /\ ~flags.notified
        /\ flags' = [flags EXCEPT !.notified = TRUE]
        /\ page' = [page EXCEPT !.posted.edit = @ + 1]
     \/ timer.active /\ flags.notified /\ UNCHANGED <<flags, page>>
     \/ /\ ~timer.active
        /\ flags' = [flags EXCEPT !.notified = FALSE] /\ UNCHANGED page
  /\ UNCHANGED <<guest, main, foreground, sensor>>

\* PollMotionShake, the test of background_.
PollsMotion ==
  /\ timer.pc = "poll"
  /\ Goes(IF flags.background THEN "check" ELSE "sense")
  /\ UNCHANGED <<guest, flags, main, page, foreground, sensor>>

\* Mutant: the loop subscribes and never unsubscribes.
only_subscribes(listens, marked) == IF listens /\ ~marked THEN "start" ELSE "check"

\* Its rest: what the loop does, as motion_active and sensor_subscribed_ say.
Follow(listens, marked) ==
  IF listens = marked THEN "check" ELSE IF listens THEN "start" ELSE "stop"

FollowsMotion ==
  /\ timer.pc = "sense"
  /\ Goes(Follow(guest.listens, sensor.marked))
  /\ UNCHANGED <<guest, flags, main, page, foreground, sensor>>

\* StartSensor up to the answer of OH_Sensor_Subscribe, which may refuse.
StartSensor ==
  /\ timer.pc = "start"
  /\ \/ /\ Goes("mark")
        /\ sensor' = [sensor EXCEPT !.subscribed = TRUE, !.refused = FALSE]
     \/ /\ Goes("check")
        /\ sensor' = [sensor EXCEPT !.refused = TRUE]
  /\ UNCHANGED <<guest, flags, main, page, foreground>>

\* Mutant: the flag is reset, the subscription is not given up.
only_unmarks(s) == [s EXCEPT !.marked = FALSE]

\* StopSensor up to the flag; main thread and loop may both be inside it.
Unsubscribed(s) == [s EXCEPT !.subscribed = FALSE]

StopSensor ==
  /\ timer.pc = "stop"
  /\ \/ ~sensor.marked /\ Goes("check") /\ UNCHANGED sensor
     \/ sensor.marked /\ Goes("unmark") /\ sensor' = Unsubscribed(sensor)
  /\ UNCHANGED <<guest, flags, main, page, foreground>>

\* The last assignment of either.
MarksSensor ==
  /\ timer.pc \in {"mark", "unmark"} /\ Goes("check")
  /\ sensor' = [sensor EXCEPT !.marked = timer.pc = "mark"]
  /\ UNCHANGED <<guest, flags, main, page, foreground>>

\* Mutant: an exit under an open dialog is not told.
tells_unless_edit(p) == [p EXCEPT !.posted.exit = p.dialogs = 0]

Told(p) == [p EXCEPT !.posted.exit = TRUE]

\* A run that has ended is reported, and the loop is left with g_timer_running set.
ChecksRunning ==
  /\ timer.pc = "check"
  /\ \/ guest.running /\ Goes("top") /\ UNCHANGED <<flags, page>>
     \/ /\ ~guest.running /\ Goes("done")
        /\ flags' = [flags EXCEPT !.engine = FALSE]
        /\ page' = Told(page)
  /\ UNCHANGED <<guest, main, foreground, sensor>>

Loop ==
  \/ LoopTop \/ PostsEdit \/ PollsMotion \/ FollowsMotion \/ StartSensor \/ StopSensor
  \/ MarksSensor \/ ChecksRunning
-----------------------------------------------------------------------------
(* The main thread: NAPI calls, each in the steps the others can see.      *)

Idle == main = "idle"

\* The emulator page opens; what the page before it had posted has been delivered.
\* init forgets the edit of the run before; start runs the guest's first event, in which
\* it may open an edit.
InitEngine ==
  /\ Idle /\ foreground /\ ~page.shown /\ guest.run < MaxRuns
  /\ page.posted = [edit |-> 0, exit |-> FALSE]
  /\ page' = [page EXCEPT !.shown = TRUE]
  /\ \E opens \in {0} \cup (1..MaxEdits \cap {guest.edits + 1}) :
       guest' = [guest EXCEPT !.run = @ + 1, !.running = TRUE, !.listens = FALSE,
                              !.edits = IF opens = 0 THEN @ ELSE opens, !.edit = opens]
  /\ main' = "started"
  /\ UNCHANGED <<flags, timer, foreground, sensor>>

\* StartEngine, after the start: a run that is over already gets no loop, and a loop
\* that is believed to run is not started again.
StartEngine ==
  /\ main = "started" /\ main' = "show"
  /\ \/ ~guest.running /\ UNCHANGED <<flags, timer>>
     \/ /\ guest.running /\ flags' = [flags EXCEPT !.engine = TRUE, !.timer = TRUE]
        /\ IF flags.timer THEN UNCHANGED timer
           ELSE timer.pc \in {"none", "done"} /\ timer' = [pc |-> "top", active |-> FALSE]
  /\ UNCHANGED <<guest, page, foreground, sensor>>

ShowsState ==
  /\ main = "show" /\ main' = "idle"
  /\ page' = [page EXCEPT !.runningState = guest.running]
  /\ UNCHANGED <<guest, flags, timer, foreground, sensor>>

\* Mutant: StopEngine leaves the flag of the loop.
leaves_flag(f) == [f EXCEPT !.engine = FALSE]

Stopped(f) == [f EXCEPT !.engine = FALSE, !.timer = FALSE]

\* The page is left, or told that the run is over: StopEngine.
StopEngine ==
  /\ Idle
  /\ page.shown \/ page.posted.exit
  /\ main' = "join"
  /\ page' = [page EXCEPT !.posted.exit = FALSE]
  /\ flags' = Stopped(flags)
  /\ UNCHANGED <<guest, timer, foreground, sensor>>

\* ... which waits for the loop and destroys the engine.
Destroys ==
  /\ main = "join" /\ main' = "idle"
  /\ timer.pc \in {"none", "done"} /\ timer' = [pc |-> "none", active |-> FALSE]
  /\ guest' = [guest EXCEPT !.running = FALSE, !.edit = 0, !.answers = 0]
  /\ page' = [page EXCEPT !.shown = FALSE, !.runningState = FALSE]
  /\ UNCHANGED <<flags, foreground, sensor>>

\* CallJsEdit: openEditDialog.
CallJsEdit ==
  /\ Idle /\ page.posted.edit > 0
  /\ page' = [page EXCEPT !.posted.edit = @ - 1, !.dialogs = @ + 1]
  /\ UNCHANGED <<guest, flags, timer, main, foreground, sensor>>

Queued(g) == IF g.running /\ g.edit # 0 /\ g.answers < QueueCap THEN 1 ELSE 0

\* SubmitEdit and CancelEdit: the answer is queued while an edit is active, ...
AnswersEdit ==
  /\ Idle /\ foreground /\ page.dialogs > 0
  /\ page' = [page EXCEPT !.dialogs = @ - 1]
  /\ guest' = [guest EXCEPT !.answers = @ + Queued(guest)]
  /\ main' = "answered"
  /\ UNCHANGED <<flags, timer, foreground, sensor>>

\* Mutant: the flag is left for the loop to reset.
leaves_notified(f) == f

Answered(f) == [f EXCEPT !.notified = FALSE]

\* ... then the flag is reset.
ForgetsNotice ==
  /\ main = "answered" /\ main' = "idle"
  /\ flags' = Answered(flags)
  /\ UNCHANGED <<guest, timer, page, foreground, sensor>>

\* onBackground: MediaPause sets background_, then stops the sensor.
MediaPause ==
  /\ Idle /\ foreground /\ foreground' = FALSE
  /\ \/ ~guest.running /\ UNCHANGED <<flags, main>>
     \/ /\ guest.running
        /\ flags' = [flags EXCEPT !.background = TRUE] /\ main' = "unsense"
  /\ UNCHANGED <<guest, timer, page, sensor>>

\* ... in StopSensor, the same steps as the loop's.
SetBackground ==
  /\ \/ main = "unsense" /\ ~sensor.marked /\ main' = "idle" /\ UNCHANGED sensor
     \/ /\ main = "unsense" /\ sensor.marked /\ main' = "unmark"
        /\ sensor' = Unsubscribed(sensor)
     \/ main = "unmark" /\ main' = "idle" /\ sensor' = [sensor EXCEPT !.marked = FALSE]
  /\ UNCHANGED <<guest, flags, timer, page, foreground>>

\* onForeground: MediaResume, if a guest runs.
MediaResume ==
  /\ Idle /\ ~foreground /\ foreground' = TRUE
  /\ flags' = [flags EXCEPT !.background = @ /\ ~guest.running]
  /\ UNCHANGED <<guest, timer, main, page, sensor>>

\* What the main thread does on its own: the rest of a call, then what was posted.
MainGoesOn ==
  \/ StartEngine \/ ShowsState \/ Destroys \/ ForgetsNotice \/ SetBackground \/ CallJsEdit

ExitIsDelivered == StopEngine /\ page.posted.exit

Next ==
  \/ GuestOpensEdit \/ GuestClosesEdit \/ GuestTakesAnswer \/ GuestListens \/ GuestExits
  \/ Loop \/ MainGoesOn
  \/ InitEngine \/ StopEngine \/ AnswersEdit \/ MediaPause \/ MediaResume

Spec == Init /\ [][Next]_vars

\* Both threads are scheduled, a callback posted to the main thread has its turn between
\* the calls, the engine takes what is queued, and a user comes back to the ability and
\* answers a dialog that is shown.
Fairness ==
  /\ WF_vars(Loop) /\ WF_vars(MainGoesOn) /\ SF_vars(ExitIsDelivered) /\ SF_vars(CallJsEdit)
  /\ WF_vars(GuestTakesAnswer) /\ SF_vars(AnswersEdit) /\ SF_vars(MediaResume)

FairSpec == Spec /\ Fairness
-----------------------------------------------------------------------------
(* Properties.                                                             *)

TypeOK ==
  /\ guest \in [run : 0..MaxRuns, running : BOOLEAN, edit : 0..MaxEdits,
                edits : 0..MaxEdits, listens : BOOLEAN, answers : 0..QueueCap]
  /\ flags \in [engine : BOOLEAN, timer : BOOLEAN, notified : BOOLEAN, background : BOOLEAN]
  /\ timer \in [pc : {"none", "top", "post", "poll", "sense", "start", "mark", "stop",
                     "unmark", "check", "done"},
                active : BOOLEAN]
  /\ main \in {"idle", "started", "show", "join", "answered", "unsense", "unmark"}
  /\ page \in [shown : BOOLEAN, runningState : BOOLEAN, dialogs : Nat,
               posted : [edit : Nat, exit : BOOLEAN]]
  /\ foreground \in BOOLEAN
  /\ sensor \in [marked : BOOLEAN, subscribed : BOOLEAN, refused : BOOLEAN]

\* A guest that runs while its page waits is polled: it has a TimerLoop that goes on,
\* in every run, whichever way the run before it ended.
RunningGuestIsPolled ==
  Idle /\ page.shown /\ guest.running =>
    flags.engine /\ flags.timer /\ timer.pc \notin {"none", "done"}

\* The page whose guest ends is told, and stops the engine.
ExitIsTold == page.runningState /\ ~guest.running ~> ~page.runningState

\* An edit the guest opens is shown and answered, or closed by the guest, or ends with
\* the run: no stale g_edit_notified hides it for ever.
EditIsAnswered ==
  \A e \in 1..MaxEdits : guest.edit = e ~> guest.edit # e \/ ~guest.running

\* While the ability is in the foreground and the guest runs, the sensor comes to be
\* subscribed exactly if the guest listens, unless OH_Sensor refuses for ever; a
\* background_ left set by an earlier guest is ForegroundHears' case.
SensorFollowsGuest ==
  \A want \in BOOLEAN :
    <>[](foreground /\ guest.running /\ guest.listens = want /\ ~flags.background)
      => <>[](sensor.subscribed = want) \/ (want /\ []<>sensor.refused)

Stopping == "unmark" \in {timer.pc, main}

\* sensor_subscribed_ says what OH_Sensor holds whenever no thread is between the call
\* and the flag, though both threads call and set without a lock: no subscription is
\* forgotten, and none is believed in that there is not.
SubscriptionIsKnown ==
  timer.pc # "mark" /\ ~Stopping => sensor.marked = sensor.subscribed

\* vmrp_engine.cpp:471: no subscription in the background, one that a tick under way
\* makes excepted.  It is violated: the loop subscribes after the test that precedes the
\* move to the background, and no later tick undoes it.
BackgroundIsSilent ==
  Idle /\ flags.background /\ timer.pc = "top" => ~sensor.subscribed

\* vmrp_napi.cpp:649: on return to the foreground the background flag is cleared, so that
\* the next tick subscribes the sensor again.  It is violated: a guest that ends in the
\* background leaves the flag to the next one.
ForegroundHears == Idle /\ foreground /\ guest.running => ~flags.background

\* vmrp_engine.cpp:465: PollMotionShake needs no lock, since it only reads atomic state.
\* It is violated: the loop and the main thread are in StopSensor at once, and both give
\* the same subscriber back.
OneThreadStops == ~(timer.pc = "unmark" /\ main = "unmark")

\* vmrp_napi.cpp:218: the page is told when an edit appears.  It is violated: it is told
\* again of an edit whose answer is on its way to the guest.
NoDialogForAnswered ==
  [][page'.posted.edit > page.posted.edit => guest.answers = 0]_vars
=============================================================================
