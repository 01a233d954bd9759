--------------------------- MODULE HostBridgeProofs ---------------------------
(***************************************************************************)
(* Theorems about HostBridge, for any number of runs and edits: its types, *)
(* that a running guest always has a loop that polls it, and that the host *)
(* never loses count of its subscription to the sensor.                    *)
(***************************************************************************)
EXTENDS HostBridge, TLAPS

\* Every step is one of these.
LEMMA StepCases ==
  ASSUME NEW A, [Next]_vars,
         GuestOpensEdit => A, GuestClosesEdit => A, GuestTakesAnswer => A,
         GuestListens => A, GuestExits => A,
         LoopTop => A, PostsEdit => A, PollsMotion => A, FollowsMotion => A,
         StartSensor => A, StopSensor => A, MarksSensor => A, ChecksRunning => A,
         InitEngine => A, StartEngine => A, ShowsState => A, StopEngine => A,
         Destroys => A, CallJsEdit => A, AnswersEdit => A, ForgetsNotice => A,
         MediaPause => A, SetBackground => A, MediaResume => A, UNCHANGED vars => A
  PROVE  A
BY DEF Next, Loop, MainGoesOn
-----------------------------------------------------------------------------
(* Types.                                                                  *)

GuestOK ==
  guest \in [run : 0..MaxRuns, running : BOOLEAN, edit : 0..MaxEdits,
             edits : 0..MaxEdits, listens : BOOLEAN, answers : 0..QueueCap]

FlagsOK ==
  flags \in [engine : BOOLEAN, timer : BOOLEAN, notified : BOOLEAN, background : BOOLEAN]

TimerOK ==
  timer \in [pc : {"none", "top", "post", "poll", "sense", "start", "mark", "stop",
                  "unmark", "check", "done"},
             active : BOOLEAN]

PageOK ==
  page \in [shown : BOOLEAN, runningState : BOOLEAN, dialogs : Nat,
            posted : [edit : Nat, exit : BOOLEAN]]

OthersOK ==
  /\ main \in {"idle", "started", "show", "join", "answered", "unsense", "unmark"}
  /\ foreground \in BOOLEAN
  /\ sensor \in [marked : BOOLEAN, subscribed : BOOLEAN, refused : BOOLEAN]

LEMMA TypeParts == TypeOK <=> GuestOK /\ FlagsOK /\ TimerOK /\ PageOK /\ OthersOK
BY DEF TypeOK, GuestOK, FlagsOK, TimerOK, PageOK, OthersOK

\* The guest and the calls that change what the host sees of it keep its types: no more
\* edits, answers and runs than the bounds allow.
LEMMA GuestKeepsType == GuestOK /\ [Next]_vars => GuestOK'
<1> SUFFICES ASSUME GuestOK, [Next]_vars PROVE GuestOK'
  OBVIOUS
<1>0. /\ guest.run \in Nat /\ guest.edits \in Nat /\ guest.answers \in 0..QueueCap
      /\ MaxRuns \in Nat /\ MaxEdits \in Nat /\ QueueCap \in Nat
      /\ 0 \in 0..MaxEdits /\ 0 \in 0..QueueCap
  BY HostBridgeAssumption DEF GuestOK
<1>1. CASE GuestOpensEdit
  <2>1. guest.edits + 1 \in 0..MaxEdits  BY <1>0, <1>1 DEF GuestOpensEdit
  <2> QED  BY <1>1, <2>1 DEF GuestOpensEdit, GuestOK
<1>2. CASE GuestClosesEdit  BY <1>0, <1>2 DEF GuestClosesEdit, GuestOK
<1>3. CASE GuestTakesAnswer
  <2>1. guest.answers - 1 \in 0..QueueCap  BY <1>0, <1>3 DEF GuestTakesAnswer
  <2> QED  BY <1>0, <1>3, <2>1 DEF GuestTakesAnswer, GuestOK
<1>4. CASE GuestListens  BY <1>4 DEF GuestListens, GuestOK
<1>5. CASE GuestExits  BY <1>5 DEF GuestExits, GuestOK
<1>6. CASE InitEngine
  <2>1. guest.run + 1 \in 0..MaxRuns  BY <1>0, <1>6 DEF InitEngine
  <2>2. PICK opens \in {0} \cup (1..MaxEdits \cap {guest.edits + 1}) :
          guest' = [guest EXCEPT !.run = @ + 1, !.running = TRUE, !.listens = FALSE,
                                 !.edits = IF opens = 0 THEN @ ELSE opens,
                                 !.edit = opens]
    BY <1>6 DEF InitEngine
  <2>3. opens \in 0..MaxEdits  BY <1>0
  <2>4. (IF opens = 0 THEN guest.edits ELSE opens) \in 0..MaxEdits  BY <2>3 DEF GuestOK
  <2> QED  BY <2>1, <2>2, <2>3, <2>4 DEF GuestOK
<1>7. CASE Destroys  BY <1>0, <1>7 DEF Destroys, GuestOK
<1>8. CASE AnswersEdit
  <2>1. guest.answers + Queued(guest) \in 0..QueueCap  BY <1>0 DEF Queued
  <2> QED  BY <1>8, <2>1 DEF AnswersEdit, GuestOK
<1>9. guest' = guest => GuestOK'  BY DEF GuestOK
<1> QED
  BY <1>1, <1>2, <1>3, <1>4, <1>5, <1>6, <1>7, <1>8, <1>9, StepCases
     DEF LoopTop, PostsEdit, PollsMotion, FollowsMotion, StartSensor, StopSensor,
         MarksSensor, ChecksRunning, StartEngine,
         ShowsState, StopEngine, CallJsEdit, ForgetsNotice, MediaPause, SetBackground,
         MediaResume, vars

\* So do the flags of both threads, ...
LEMMA FlagsKeepType == GuestOK /\ FlagsOK /\ [Next]_vars => FlagsOK'
<1> SUFFICES ASSUME GuestOK, FlagsOK, [Next]_vars PROVE FlagsOK'
  OBVIOUS
<1> USE DEF FlagsOK
<1>1. CASE PostsEdit  BY <1>1 DEF PostsEdit
<1>2. CASE ChecksRunning  BY <1>2 DEF ChecksRunning
<1>3. CASE StartEngine
  <2>1. [flags EXCEPT !.engine = TRUE, !.timer = TRUE]
          \in [engine : BOOLEAN, timer : BOOLEAN, notified : BOOLEAN, background : BOOLEAN]
    OBVIOUS
  <2> QED  BY <1>3, <2>1 DEF StartEngine
<1>4. CASE StopEngine
  <2>1. flags' = Stopped(flags)  BY <1>4 DEF StopEngine
  <2> QED  BY <2>1 DEF Stopped
<1>5. CASE ForgetsNotice  BY <1>5 DEF ForgetsNotice, Answered
<1>6. CASE MediaPause
  <2>1. flags' = flags \/ flags' = [flags EXCEPT !.background = TRUE]
    BY <1>6 DEF MediaPause
  <2> QED  BY <2>1
<1>7. CASE MediaResume
  <2> DEFINE b == flags.background /\ ~guest.running
  <2>1. b \in BOOLEAN  OBVIOUS
  <2>2. flags' = [flags EXCEPT !.background = b]  BY <1>7 DEF MediaResume
  <2> HIDE DEF b
  <2> QED  BY <2>1, <2>2
<1>8. flags' = flags => FlagsOK'  OBVIOUS
<1> QED
  BY <1>1, <1>2, <1>3, <1>4, <1>5, <1>6, <1>7, <1>8, StepCases
     DEF GuestOpensEdit, GuestClosesEdit, GuestTakesAnswer, GuestListens, GuestExits,
         LoopTop, PollsMotion, FollowsMotion, StartSensor, StopSensor, MarksSensor, InitEngine, ShowsState, Destroys,
         CallJsEdit, AnswersEdit, SetBackground, vars

\* ... the loop, ...
LEMMA TimerKeepsType == TimerOK /\ [Next]_vars => TimerOK'
<1> SUFFICES ASSUME TimerOK, [Next]_vars PROVE TimerOK'
  OBVIOUS
<1> USE DEF TimerOK, Goes
<1>1. CASE LoopTop
  <2> DEFINE b == guest.edit # 0
  <2>1. b \in BOOLEAN  OBVIOUS
  <2>2. timer' = [timer EXCEPT !.pc = "done"] \/ timer' = [pc |-> "post", active |-> b]
    BY <1>1 DEF LoopTop
  <2> HIDE DEF b
  <2> QED  BY <2>1, <2>2
<1>2. CASE PostsEdit  BY <1>2 DEF PostsEdit
<1>3. CASE PollsMotion  BY <1>3 DEF PollsMotion
<1>4. CASE FollowsMotion \/ StartSensor \/ StopSensor \/ MarksSensor
  <2>1. \E to \in {"check", "start", "stop", "mark", "unmark"} : Goes(to)
    BY <1>4 DEF FollowsMotion, Follow, StartSensor, StopSensor, MarksSensor
  <2> QED  BY <2>1
<1>5. CASE ChecksRunning
  <2>1. timer' = [timer EXCEPT !.pc = "top"] \/ timer' = [timer EXCEPT !.pc = "done"]
    BY <1>5 DEF ChecksRunning
  <2> QED  BY <2>1
<1>6. CASE StartEngine
  <2>1. timer' = timer \/ timer' = [pc |-> "top", active |-> FALSE]
    BY <1>6 DEF StartEngine
  <2>2. CASE timer' = timer  BY <2>2
  <2>3. CASE timer' = [pc |-> "top", active |-> FALSE]
    <3>1. FALSE \in BOOLEAN  OBVIOUS
    <3> QED  BY <2>3, <3>1
  <2> QED  BY <2>1, <2>2, <2>3
<1>7. CASE Destroys  BY <1>7 DEF Destroys
<1>8. timer' = timer => TimerOK'  OBVIOUS
<1> QED
  BY <1>1, <1>2, <1>3, <1>4, <1>5, <1>6, <1>7, <1>8, StepCases
     DEF GuestOpensEdit, GuestClosesEdit, GuestTakesAnswer, GuestListens, GuestExits,
         InitEngine, ShowsState, StopEngine, CallJsEdit, AnswersEdit, ForgetsNotice,
         MediaPause, SetBackground, MediaResume, vars

\* ... the page, ...
LEMMA PageKeepsType == GuestOK /\ PageOK /\ [Next]_vars => PageOK'
<1> SUFFICES ASSUME GuestOK, PageOK, [Next]_vars PROVE PageOK'
  OBVIOUS
<1>0. /\ page.posted \in [edit : Nat, exit : BOOLEAN] /\ page.posted.edit \in Nat
      /\ page.dialogs \in Nat /\ guest.running \in BOOLEAN
  BY DEF PageOK, GuestOK
<1>1. CASE PostsEdit
  <2>1. [page.posted EXCEPT !.edit = @ + 1] \in [edit : Nat, exit : BOOLEAN]
    BY <1>0
  <2> QED  BY <1>1, <2>1 DEF PostsEdit, PageOK
<1>2. CASE ChecksRunning
  <2>1. [page.posted EXCEPT !.exit = TRUE] \in [edit : Nat, exit : BOOLEAN]
    BY <1>0
  <2> QED  BY <1>2, <2>1 DEF ChecksRunning, Told, PageOK
<1>3. CASE InitEngine  BY <1>3 DEF InitEngine, PageOK
<1>4. CASE ShowsState  BY <1>0, <1>4 DEF ShowsState, PageOK
<1>5. CASE StopEngine
  <2>1. [page.posted EXCEPT !.exit = FALSE] \in [edit : Nat, exit : BOOLEAN]
    BY <1>0
  <2> QED  BY <1>5, <2>1 DEF StopEngine, PageOK
<1>6. CASE Destroys  BY <1>6 DEF Destroys, PageOK
<1>7. CASE CallJsEdit
  <2>1. page.posted.edit - 1 \in Nat /\ page.dialogs + 1 \in Nat
    BY <1>0, <1>7 DEF CallJsEdit
  <2>2. [page.posted EXCEPT !.edit = @ - 1] \in [edit : Nat, exit : BOOLEAN]
    BY <1>0, <2>1
  <2> QED  BY <1>7, <2>1, <2>2 DEF CallJsEdit, PageOK
<1>8. CASE AnswersEdit
  <2>1. page.dialogs - 1 \in Nat  BY <1>0, <1>8 DEF AnswersEdit
  <2> QED  BY <1>8, <2>1 DEF AnswersEdit, PageOK
<1>9. page' = page => PageOK'  BY DEF PageOK
<1> QED
  BY <1>1, <1>2, <1>3, <1>4, <1>5, <1>6, <1>7, <1>8, <1>9, StepCases
     DEF GuestOpensEdit, GuestClosesEdit, GuestTakesAnswer, GuestListens, GuestExits,
         LoopTop, PollsMotion, FollowsMotion, StartSensor, StopSensor, MarksSensor,
         StartEngine, ForgetsNotice, MediaPause, SetBackground, MediaResume, vars

\* ... the main thread and the sensor.
LEMMA SensorKeepsType ==
  ASSUME OthersOK,
         \/ StartSensor \/ StopSensor \/ MarksSensor \/ SetBackground
  PROVE  sensor' \in [marked : BOOLEAN, subscribed : BOOLEAN, refused : BOOLEAN]
<1> DEFINE b == timer.pc = "mark"
<1>1. b \in BOOLEAN  OBVIOUS
<1>2. \/ sensor' = sensor
      \/ sensor' = [sensor EXCEPT !.subscribed = TRUE, !.refused = FALSE]
      \/ sensor' = [sensor EXCEPT !.refused = TRUE]
      \/ sensor' = [sensor EXCEPT !.subscribed = FALSE]
      \/ sensor' = [sensor EXCEPT !.marked = b]
      \/ sensor' = [sensor EXCEPT !.marked = FALSE]
  BY DEF StartSensor, StopSensor, MarksSensor, SetBackground, Unsubscribed
<1> HIDE DEF b
<1> QED  BY <1>1, <1>2 DEF OthersOK

LEMMA OthersKeepType == OthersOK /\ [Next]_vars => OthersOK'
<1> SUFFICES ASSUME OthersOK, [Next]_vars PROVE OthersOK'
  OBVIOUS
<1> USE DEF OthersOK
<1>1. CASE StartSensor \/ StopSensor \/ MarksSensor
  <2>1. UNCHANGED <<main, foreground>>
    BY <1>1 DEF StartSensor, StopSensor, MarksSensor
  <2> QED  BY <1>1, <2>1, SensorKeepsType
<1>2. CASE InitEngine  BY <1>2 DEF InitEngine
<1>3. CASE StartEngine  BY <1>3 DEF StartEngine
<1>4. CASE ShowsState  BY <1>4 DEF ShowsState
<1>5. CASE StopEngine  BY <1>5 DEF StopEngine
<1>6. CASE Destroys  BY <1>6 DEF Destroys
<1>7. CASE AnswersEdit  BY <1>7 DEF AnswersEdit
<1>8. CASE ForgetsNotice  BY <1>8 DEF ForgetsNotice
<1>9. CASE MediaPause  BY <1>9 DEF MediaPause
<1>10. CASE SetBackground
  <2>1. main' \in {"idle", "unmark"} /\ UNCHANGED foreground  BY <1>10 DEF SetBackground
  <2> QED  BY <1>10, <2>1, SensorKeepsType
<1>11. CASE MediaResume  BY <1>11 DEF MediaResume
<1>12. UNCHANGED <<main, foreground, sensor>> => OthersOK'  OBVIOUS
<1> QED
  BY <1>1, <1>2, <1>3, <1>4, <1>5, <1>6, <1>7, <1>8, <1>9, <1>10, <1>11, <1>12, StepCases
     DEF GuestOpensEdit, GuestClosesEdit, GuestTakesAnswer, GuestListens, GuestExits,
         LoopTop, PostsEdit, PollsMotion, FollowsMotion, ChecksRunning, CallJsEdit, vars

\* Flags, threads, page and counters keep their types, and the guest's edits and answers
\* their bounds.
THEOREM HostTypeOK == Spec => []TypeOK
<1>1. Init => TypeOK
  <2> SUFFICES ASSUME Init PROVE TypeOK  OBVIOUS
  <2>1. 0 \in 0..MaxRuns /\ 0 \in 0..MaxEdits /\ 0 \in 0..QueueCap
    BY HostBridgeAssumption
  <2>2. GuestOK  BY <2>1 DEF Init, GuestOK
  <2>3. FlagsOK /\ TimerOK /\ OthersOK
    BY DEF Init, FlagsOK, TimerOK, OthersOK
  <2>4. PageOK  BY DEF Init, PageOK
  <2> QED  BY <2>2, <2>3, <2>4, TypeParts
<1>2. TypeOK /\ [Next]_vars => TypeOK'
  <2>1. TypeOK' <=> GuestOK' /\ FlagsOK' /\ TimerOK' /\ PageOK' /\ OthersOK'
    BY DEF TypeOK, GuestOK, FlagsOK, TimerOK, PageOK, OthersOK
  <2> QED
    BY <2>1, TypeParts, GuestKeepsType, FlagsKeepType, TimerKeepsType, PageKeepsType,
       OthersKeepType
<1> QED  BY <1>1, <1>2, PTL DEF Spec
-----------------------------------------------------------------------------
(* The loop and the guest.                                                 *)

Looping == flags.engine /\ flags.timer /\ timer.pc \notin {"none", "done"}

Silent == ~flags.timer /\ timer.pc = "none"

\* A page that is not shown has left neither guest nor loop behind; one that is shown has
\* started the loop before it waits, and only a guest that has ended lets the loop go.
LoopInv ==
  /\ main \notin {"started", "join"} /\ page.shown /\ guest.running => Looping
  /\ main # "join" /\ ~page.shown => Silent
  /\ main = "started" => Silent
  /\ main = "join" => ~flags.timer
  /\ main \in {"started", "show"} => page.shown
  /\ ~page.shown => ~guest.running

LEMMA LoopInvHolds == TypeOK /\ LoopInv /\ [Next]_vars => LoopInv'
<1> SUFFICES ASSUME TypeOK, LoopInv, [Next]_vars PROVE LoopInv'
  OBVIOUS
<1> USE DEF TypeOK, LoopInv, Looping, Silent
<1>1. CASE GuestOpensEdit  BY <1>1 DEF GuestOpensEdit
<1>2. CASE GuestClosesEdit  BY <1>2 DEF GuestClosesEdit
<1>3. CASE GuestTakesAnswer  BY <1>3 DEF GuestTakesAnswer
<1>4. CASE GuestListens  BY <1>4 DEF GuestListens
<1>5. CASE GuestExits  BY <1>5 DEF GuestExits
<1>6. CASE LoopTop  BY <1>6 DEF LoopTop, Goes
<1>7. CASE PostsEdit  BY <1>7 DEF PostsEdit, Goes
<1>8. CASE PollsMotion  BY <1>8 DEF PollsMotion, Goes
<1>9. CASE FollowsMotion \/ StartSensor \/ StopSensor \/ MarksSensor
  <2>1. /\ timer.pc \notin {"none", "done"} /\ UNCHANGED <<guest, flags, main, page>>
        /\ \E to \in {"check", "start", "stop", "mark", "unmark"} : Goes(to)
    BY <1>9 DEF FollowsMotion, Follow, StartSensor, StopSensor, MarksSensor
  <2>2. timer'.pc \notin {"none", "done"}  BY <2>1 DEF Goes
  <2> QED  BY <2>1, <2>2
<1>10. CASE ChecksRunning  BY <1>10 DEF ChecksRunning, Goes, Told
<1>11. CASE InitEngine  BY <1>11 DEF InitEngine, Idle
<1>12. CASE StartEngine
  <2>1. main = "started" /\ main' = "show" /\ page' = page /\ guest' = guest /\ page.shown
    BY <1>12 DEF StartEngine
  <2>2. CASE ~guest.running  BY <2>1, <2>2
  <2>3. CASE guest.running
    <3>1. flags' = [flags EXCEPT !.engine = TRUE, !.timer = TRUE]
      BY <1>12, <2>3 DEF StartEngine
    <3>2. flags'.engine /\ flags'.timer  BY <3>1
    <3>3. timer' = [pc |-> "top", active |-> FALSE]
      BY <1>12, <2>1, <2>3 DEF StartEngine
    <3>4. timer'.pc \notin {"none", "done"}  BY <3>3
    <3> QED  BY <2>1, <3>2, <3>4
  <2> QED  BY <2>2, <2>3
<1>13. CASE ShowsState  BY <1>13 DEF ShowsState
<1>14. CASE StopEngine  BY <1>14 DEF StopEngine, Stopped, Idle
<1>15. CASE Destroys  BY <1>15 DEF Destroys
<1>16. CASE CallJsEdit  BY <1>16 DEF CallJsEdit, Idle
<1>17. CASE AnswersEdit  BY <1>17 DEF AnswersEdit, Idle
<1>18. CASE ForgetsNotice  BY <1>18 DEF ForgetsNotice, Answered
<1>19. CASE MediaPause  BY <1>19 DEF MediaPause, Idle
<1>20. CASE SetBackground  BY <1>20 DEF SetBackground
<1>21. CASE MediaResume  BY <1>21 DEF MediaResume, Idle
<1>22. CASE UNCHANGED vars  BY <1>22 DEF vars
<1> QED
  BY <1>1, <1>2, <1>3, <1>4, <1>5, <1>6, <1>7, <1>8, <1>9, <1>10, <1>11, <1>12, <1>13,
     <1>14, <1>15, <1>16, <1>17, <1>18, <1>19, <1>20, <1>21, <1>22, StepCases

\* A guest that runs while its page waits has a TimerLoop that goes on, in every run and
\* whichever way the run before it ended: vmrp_napi.cpp leaves g_timer_running set when
\* the loop breaks, and StopEngine is what resets it.
THEOREM RunningGuestsArePolled == Spec => []RunningGuestIsPolled
<1>1. Init => LoopInv  BY DEF Init, LoopInv, Silent, Looping
<1>2. TypeOK /\ LoopInv => RunningGuestIsPolled
  BY DEF TypeOK, LoopInv, Looping, RunningGuestIsPolled, Idle
<1> QED  BY <1>1, <1>2, LoopInvHolds, HostTypeOK, PTL DEF Spec
-----------------------------------------------------------------------------
(* The sensor and its flag.                                                *)

\* The loop starts a subscription only if it has seen the flag down, and then the main
\* thread finds nothing to stop; while the main thread stops one, background_ keeps the
\* loop from starting another.
SensorInv ==
  /\ main \in {"unsense", "unmark"} => flags.background
  /\ timer.pc \in {"start", "mark"} => ~sensor.marked /\ main # "unmark"
  /\ timer.pc = "sense" /\ main = "unmark" => sensor.marked
  /\ timer.pc = "mark" => sensor.subscribed
  /\ Stopping => ~sensor.subscribed
  /\ SubscriptionIsKnown

LEMMA SensorInvHolds == TypeOK /\ SensorInv /\ [Next]_vars => SensorInv'
<1> SUFFICES ASSUME TypeOK, SensorInv, [Next]_vars PROVE SensorInv'
  OBVIOUS
<1> USE DEF TypeOK, SensorInv, SubscriptionIsKnown, Stopping
<1>1. CASE LoopTop  BY <1>1 DEF LoopTop, Goes
<1>2. CASE PostsEdit
  <2>1. flags'.background = flags.background /\ timer'.pc = "poll" /\ timer.pc = "post"
    BY <1>2 DEF PostsEdit, Goes
  <2> QED  BY <1>2, <2>1 DEF PostsEdit
<1>3. CASE PollsMotion  BY <1>3 DEF PollsMotion, Goes
<1>4. CASE FollowsMotion  BY <1>4 DEF FollowsMotion, Follow, Goes
<1>5. CASE StartSensor
  <2>1. timer.pc = "start" /\ UNCHANGED <<main, flags>> /\ sensor'.marked = sensor.marked
    BY <1>5 DEF StartSensor
  <2>2. \/ timer'.pc = "mark" /\ sensor'.subscribed = TRUE
        \/ timer'.pc = "check" /\ sensor'.subscribed = sensor.subscribed
    BY <1>5 DEF StartSensor, Goes
  <2> QED  BY <2>1, <2>2
<1>6. CASE StopSensor
  <2>1. timer.pc = "stop" /\ UNCHANGED <<main, flags>> /\ sensor'.marked = sensor.marked
    BY <1>6 DEF StopSensor, Unsubscribed
  <2>2. \/ timer'.pc = "unmark" /\ sensor'.subscribed = FALSE
        \/ timer'.pc = "check" /\ sensor'.subscribed = sensor.subscribed
    BY <1>6 DEF StopSensor, Goes, Unsubscribed
  <2> QED  BY <2>1, <2>2
<1>7. CASE MarksSensor
  <2>1. /\ timer.pc \in {"mark", "unmark"} /\ timer'.pc = "check"
        /\ UNCHANGED <<main, flags>> /\ sensor'.subscribed = sensor.subscribed
    BY <1>7 DEF MarksSensor, Goes
  <2>2. sensor' = [sensor EXCEPT !.marked = (timer.pc = "mark")]
    BY <1>7 DEF MarksSensor
  <2>3. CASE timer.pc = "mark"
    <3>1. sensor' = [sensor EXCEPT !.marked = TRUE]  BY <2>2, <2>3
    <3>2. sensor'.marked = TRUE  BY <3>1
    <3> QED  BY <2>1, <2>3, <3>2
  <2>4. CASE timer.pc = "unmark"
    <3>1. sensor' = [sensor EXCEPT !.marked = FALSE]  BY <2>2, <2>4
    <3>2. sensor'.marked = FALSE  BY <3>1
    <3> QED  BY <2>1, <2>4, <3>2
  <2> QED  BY <2>1, <2>3, <2>4
<1>8. CASE ChecksRunning  BY <1>8 DEF ChecksRunning, Goes
<1>9. CASE StartEngine
  <2>1. flags'.background = flags.background /\ main = "started" /\ main' = "show"
    BY <1>9 DEF StartEngine
  <2>2. timer' = timer \/ timer' = [pc |-> "top", active |-> FALSE]
    BY <1>9 DEF StartEngine
  <2>3. timer' # timer => timer.pc \in {"none", "done"}
    BY <1>9, <2>2 DEF StartEngine
  <2>4. timer' = timer \/ (timer.pc \in {"none", "done"} /\ timer'.pc = "top")
    BY <2>2, <2>3
  <2>5. sensor' = sensor
    BY <1>9 DEF StartEngine
  <2> QED  BY <2>1, <2>4, <2>5
<1>10. CASE StopEngine  BY <1>10 DEF StopEngine, Stopped, Idle
<1>11. CASE Destroys  BY <1>11 DEF Destroys
<1>12. CASE ForgetsNotice  BY <1>12 DEF ForgetsNotice, Answered
<1>13. CASE MediaPause  BY <1>13 DEF MediaPause, Idle
<1>14. CASE SetBackground
  <2>1. UNCHANGED <<flags, timer>>  BY <1>14 DEF SetBackground
  <2>2. CASE main = "unsense" /\ ~sensor.marked
    <3>1. main' = "idle" /\ sensor' = sensor
      BY <1>14, <2>2 DEF SetBackground
    <3> QED  BY <2>1, <2>2, <3>1
  <2>3. CASE main = "unsense" /\ sensor.marked
    <3>1. main' = "unmark" /\ sensor'.marked = sensor.marked /\ sensor'.subscribed = FALSE
      BY <1>14, <2>3 DEF SetBackground, Unsubscribed
    <3> QED  BY <2>1, <2>3, <3>1
  <2>4. CASE main = "unmark"
    <3>1. main' = "idle" /\ sensor'.marked = FALSE
          /\ sensor'.subscribed = sensor.subscribed
      BY <1>14, <2>4 DEF SetBackground
    <3>2. sensor.subscribed = FALSE /\ timer.pc \notin {"start", "mark"}
      BY <2>4
    <3> QED  BY <2>1, <2>4, <3>1, <3>2
  <2>5. main = "unsense" \/ main = "unmark"
    BY <1>14 DEF SetBackground
  <2>6. sensor.marked \/ ~sensor.marked
    OBVIOUS
  <2> HIDE DEF TypeOK, SensorInv, SubscriptionIsKnown, Stopping
  <2> QED  BY <2>2, <2>3, <2>4, <2>5, <2>6
<1>15. CASE MediaResume  BY <1>15 DEF MediaResume, Idle
<1>16. CASE InitEngine  BY <1>16 DEF InitEngine, Idle
<1>17. CASE AnswersEdit  BY <1>17 DEF AnswersEdit, Idle
<1>18. UNCHANGED <<flags, timer, main, sensor>> => SensorInv'  OBVIOUS
<1> QED
  BY <1>1, <1>2, <1>3, <1>4, <1>5, <1>6, <1>7, <1>8, <1>9, <1>10, <1>11, <1>12, <1>13,
     <1>14, <1>15, <1>16, <1>17, <1>18, StepCases
     DEF GuestOpensEdit, GuestClosesEdit, GuestTakesAnswer, GuestListens, GuestExits,
         ShowsState, CallJsEdit, vars

\* Though the poll thread and the main thread call StartSensor and StopSensor without a
\* lock, sensor_subscribed_ says what OH_Sensor holds whenever neither is between the
\* call and the flag (vmrp_engine.cpp).
THEOREM SubscriptionsAreKnown == Spec => []SubscriptionIsKnown
<1>1. Init => SensorInv
  BY DEF Init, SensorInv, SubscriptionIsKnown, Stopping
<1>2. SensorInv => SubscriptionIsKnown
  BY DEF SensorInv
<1> QED  BY <1>1, <1>2, SensorInvHolds, HostTypeOK, PTL DEF Spec
=============================================================================
