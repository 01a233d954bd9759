----------------------------- MODULE ApiRunner ------------------------------
(***************************************************************************)
(* The asynchronous runner of vmrp/src/skyengine_api.c (with               *)
(* VMRP_API_ASYNC_RUNNER set) over the exit flag of vmrp/src/skyengine.c.  *)
(*                                                                         *)
(* Four threads meet here:                                                 *)
(*   - the control thread, which the host serialises with engine_mtx_: it  *)
(*     starts and stops runs and sends keys, touches and edit answers;     *)
(*   - the poll thread (TimerLoop), which asks skyengine_api_is_running    *)
(*     and takes the shake request;                                        *)
(*   - the sensor thread, which calls skyengine_api_motion with no lock    *)
(*     and is not waited for when a run stops;                             *)
(*   - the worker that skyengine_api_start creates, the one that is meant  *)
(*     to run the guest.                                                   *)
(* A step is a section under api_mutex, or one unlocked access to shared   *)
(* state.  The guest's callbacks (timerStart, editCreate, ...) are steps   *)
(* of whichever thread is inside the engine.                               *)
(***************************************************************************)
EXTENDS Integers, Sequences, CommandQueue

CONSTANTS
  HostOps,         \* the calls of the control thread a model uses
  GuestOps,        \* the callbacks of the guest a model uses
  Speeds,          \* the multipliers the page asks for
  MaxDelay,        \* bound on the argument of timerStart, in ticks
  MaxRuns,         \* bound on the calls of skyengine_api_start
  MaxCmds,         \* bound on the commands the queue accepts
  MaxEdits         \* bound on the calls of editCreate

AllHostOps ==
  {"key", "move", "motion", "text", "cancel", "pause", "resume", "timer", "dsm"}
AllGuestOps == {"timerStart", "timerStop", "editCreate", "editRelease", "shake", "exit"}

ASSUME ConstantsAssumption ==
  /\ HostOps \subseteq AllHostOps
  /\ GuestOps \subseteq AllGuestOps
  /\ Speeds \subseteq Int
  /\ MaxDelay \in Nat /\ MaxRuns \in Nat /\ MaxCmds \in Nat /\ MaxEdits \in Nat

VARIABLES
  api_running,
  api_worker_stop,
  api_thread_started,
  api_paused,
  api_timer_active,
  timer_due,              \* api_timer_due_ms - api_now_ms(), never below 0
  api_pause_remaining_ms,
  speed_multiplier,       \* of the patch OHOS_SPEED_MULT
  api_queue,              \* the pending commands, oldest first
  exit_requested,         \* skyengine_exit_requested
  edit_active,
  shake_request,
  workerPc,               \* where the worker is in api_worker_main
  alarm,                  \* the time left of its api_wait_until
  job,                    \* the command or timer it has taken
  ctlPc,                  \* the call the control thread is in
  ctlArg,                 \* the command of that call, or what follows the join
  phase,                  \* how far the host is in its init, start, destroy cycle
  pollPc,
  sensorPc,
  ghost                   \* history, read by properties only

runVars    == <<api_running, api_worker_stop, api_thread_started, api_paused>>
engineVars == <<exit_requested, edit_active, shake_request>>
hostVars   == <<ctlPc, ctlArg, phase>>
timerVars  == <<api_timer_active, timer_due, api_pause_remaining_ms, speed_multiplier>>
workerVars == <<workerPc, alarm, job>>
vars == <<runVars, timerVars, api_queue, engineVars, workerVars, hostVars,
          pollPc, sensorPc, ghost>>

Never == -1      \* api_wait_forever: no alarm
NoJob == [kind |-> "none", id |-> 0, run |-> 0, edit |-> 0]

(***************************************************************************)
(* The ghost: run numbers the calls of skyengine_api_start, lastId the     *)
(* accepted commands, edits the calls of editCreate; timerRun is the run   *)
(* that armed the timer; owed is the time the guest's timer still has to   *)
(* run outside pauses, and inPause whether a pause kept the multiplier     *)
(* from it; served is the last command the worker took; answered counts    *)
(* the answers that reached the current edit; opened numbers the runs that *)
(* came up, sampled is that number when the sensor's call looked.          *)
(***************************************************************************)
InitGhost == [run |-> 0, lastId |-> 0, edits |-> 0, timerRun |-> 0,
              owed |-> 0, inPause |-> FALSE, served |-> 0, answered |-> 0,
              opened |-> 0, sampled |-> 0]

Init ==
  /\ api_running = FALSE /\ api_worker_stop = FALSE /\ api_thread_started = FALSE
  /\ api_paused = FALSE /\ api_timer_active = FALSE
  /\ timer_due = 0 /\ api_pause_remaining_ms = 0 /\ speed_multiplier = 1
  /\ api_queue = << >>
  /\ exit_requested = FALSE /\ edit_active = FALSE /\ shake_request = "none"
  /\ workerPc = "none" /\ alarm = Never /\ job = NoJob
  /\ ctlPc = "idle" /\ ctlArg = NoJob /\ phase = "down"
  /\ pollPc = "idle" /\ sensorPc = "idle"
  /\ ghost = InitGhost

-----------------------------------------------------------------------------
(* api_signal wakes the worker if it waits on api_cond.                    *)
api_signal ==
  /\ workerPc' = IF workerPc = "asleep" THEN "scan" ELSE workerPc
  /\ alarm' = IF workerPc = "asleep" THEN Never ELSE alarm
  /\ UNCHANGED job

MinusOneTick(n) == IF n > 0 THEN n - 1 ELSE n

\* The passage of time, in ticks of the guest's timer.
Tick ==
  /\ timer_due' = MinusOneTick(timer_due)
  /\ alarm' = MinusOneTick(alarm)
  /\ ghost' = IF api_paused THEN ghost
              ELSE [ghost EXCEPT !.owed = MinusOneTick(@)]
  /\ UNCHANGED <<runVars, api_timer_active, api_pause_remaining_ms, speed_multiplier,
                 api_queue, engineVars, workerPc, job, hostVars, pollPc, sensorPc>>

-----------------------------------------------------------------------------
(* The guest's callbacks.  A thread is inside the engine when the worker   *)
(* dispatches, while startEngine runs, and in a start_dsm call.            *)
InGuest == workerPc = "engine" \/ ctlPc \in {"boot", "dsm"}

\* Every api_timer_active = 0 settles the guest's claim on its timer.
NoClaim == [ghost EXCEPT !.owed = 0, !.inPause = FALSE]

\* The build divides what timerStart asks for.
Scaled(t) == t \div speed_multiplier

\* A claim of t; in a pause, timerStart keeps the undivided t for the resume.
Claim(t) == [ghost EXCEPT !.owed = Scaled(t), !.timerRun = ghost.run,
                          !.inPause = api_paused /\ Scaled(t) # t]

\* Mutant: the worker is not told of the new due time.
timerStartSilently(t) ==
  /\ InGuest /\ "timerStart" \in GuestOps
  /\ api_timer_active' = (t > 0)
  /\ api_pause_remaining_ms' = t
  /\ timer_due' = IF api_paused THEN timer_due ELSE Scaled(t)
  /\ ghost' = Claim(t)
  /\ UNCHANGED <<runVars, speed_multiplier, api_queue, engineVars, workerVars, hostVars, pollPc, sensorPc>>

timerStart(t) ==
  /\ InGuest /\ "timerStart" \in GuestOps
  /\ api_timer_active' = (t > 0)
  /\ api_pause_remaining_ms' = t
  /\ timer_due' = IF api_paused THEN timer_due ELSE Scaled(t)
  /\ api_signal
  /\ ghost' = Claim(t)
  /\ UNCHANGED <<runVars, speed_multiplier, api_queue, engineVars, hostVars, pollPc, sensorPc>>

timerStop ==
  /\ InGuest /\ "timerStop" \in GuestOps
  /\ api_timer_active' = FALSE
  /\ api_signal
  /\ ghost' = NoClaim
  /\ UNCHANGED <<runVars, timer_due, api_pause_remaining_ms, speed_multiplier,
                 api_queue, engineVars, hostVars, pollPc, sensorPc>>

editCreate ==
  /\ InGuest /\ "editCreate" \in GuestOps
  /\ ghost.edits < MaxEdits
  /\ edit_active' = TRUE
  /\ ghost' = [ghost EXCEPT !.edits = @ + 1, !.answered = 0]
  /\ UNCHANGED <<runVars, timerVars, api_queue, exit_requested, shake_request,
                 workerVars, hostVars, pollPc, sensorPc>>

editRelease ==
  /\ InGuest /\ "editRelease" \in GuestOps
  /\ edit_active' = FALSE
  /\ UNCHANGED <<runVars, timerVars, api_queue, exit_requested, shake_request,
                 workerVars, hostVars, pollPc, sensorPc, ghost>>

\* guiStartShake and guiStopShake: the last request stands until it is taken.
guiShake(request) ==
  /\ InGuest /\ "shake" \in GuestOps
  /\ shake_request' = request
  /\ UNCHANGED <<runVars, timerVars, api_queue, exit_requested, edit_active,
                 workerVars, hostVars, pollPc, sensorPc, ghost>>

skyengine_request_exit ==
  /\ InGuest /\ "exit" \in GuestOps
  /\ exit_requested' = TRUE
  /\ UNCHANGED <<runVars, timerVars, api_queue, edit_active, shake_request,
                 workerVars, hostVars, pollPc, sensorPc, ghost>>

-----------------------------------------------------------------------------
(* The worker.                                                             *)

\* api_finish_if_exited, once the exit flag was seen set.
FinishRun ==
  /\ api_running' = FALSE
  /\ api_timer_active' = FALSE
  /\ api_paused' = FALSE
  /\ api_pause_remaining_ms' = 0
  /\ api_worker_stop' = TRUE
  /\ api_queue' = << >>
  /\ ghost' = NoClaim
  /\ UNCHANGED <<api_thread_started, timer_due, speed_multiplier>>

Leaving == api_worker_stop \/ ~api_running

WorkerStops ==
  /\ workerPc = "scan"
  /\ Leaving
  /\ workerPc' = "done"
  /\ UNCHANGED <<runVars, timerVars, api_queue, engineVars, alarm, job, hostVars,
                 pollPc, sensorPc, ghost>>

WorkerTakesCommand ==
  /\ workerPc = "scan"
  /\ ~Leaving /\ ~api_paused
  /\ api_queue # << >>
  /\ job' = Head(api_queue)
  /\ api_queue' = Tail(api_queue)
  /\ workerPc' = IF job'.kind \in {"text", "cancel"} THEN "apply" ELSE "deliver"
  /\ ghost' = [ghost EXCEPT !.served = job'.id]
  /\ UNCHANGED <<runVars, timerVars, engineVars, alarm, hostVars, pollPc, sensorPc>>

WorkerTakesTimer ==
  /\ workerPc = "scan"
  /\ ~Leaving /\ ~api_paused
  /\ api_queue = << >>
  /\ api_timer_active /\ timer_due = 0
  /\ api_timer_active' = FALSE
  /\ job' = [NoJob EXCEPT !.kind = "timer", !.run = ghost.timerRun]
  /\ workerPc' = "deliver"
  /\ ghost' = NoClaim
  /\ UNCHANGED <<runVars, timer_due, api_pause_remaining_ms, speed_multiplier,
                 api_queue, engineVars, alarm, hostVars, pollPc, sensorPc>>

\* api_wait_forever, or api_wait_until the timer is due.
WorkerSleeps ==
  /\ workerPc = "scan"
  /\ ~Leaving
  /\ api_paused \/ api_queue = << >>
  /\ IF api_paused \/ ~api_timer_active THEN alarm' = Never
     ELSE timer_due > 0 /\ alarm' = timer_due
  /\ workerPc' = "asleep"
  /\ UNCHANGED <<runVars, timerVars, api_queue, engineVars, job, hostVars, pollPc,
                 sensorPc, ghost>>

\* The timed wait ends, or the wait wakes spuriously.
WorkerWakes(atAlarm) ==
  /\ workerPc = "asleep"
  /\ atAlarm => alarm = 0
  /\ workerPc' = "scan"
  /\ alarm' = Never
  /\ UNCHANGED <<runVars, timerVars, api_queue, engineVars, job, hostVars, pollPc,
                 sensorPc, ghost>>

\* Mutant: edit_active is not looked at again.
WorkerAnswersAnyEdit ==
  /\ workerPc = "apply"
  /\ edit_active' = FALSE
  /\ workerPc' = "deliver"
  /\ ghost' = [ghost EXCEPT !.answered = @ + 1]
  /\ UNCHANGED <<runVars, timerVars, api_queue, exit_requested, shake_request,
                 alarm, job, hostVars, pollPc, sensorPc>>

\* Mutant: the edit stays open after its answer.
WorkerLeavesEditOpen ==
  /\ workerPc = "apply"
  /\ workerPc' = IF edit_active THEN "deliver" ELSE "finish"
  /\ UNCHANGED <<runVars, timerVars, api_queue, engineVars, alarm, job, hostVars,
                 pollPc, sensorPc, ghost>>

\* api_apply_edit_text_command and api_apply_cancel_edit_command up to event(6).
WorkerAnswersEdit ==
  /\ workerPc = "apply"
  /\ IF edit_active
     THEN /\ edit_active' = FALSE
          /\ workerPc' = "deliver"
          /\ ghost' = [ghost EXCEPT !.answered = @ + 1]
     ELSE /\ workerPc' = "finish"
          /\ UNCHANGED <<edit_active, ghost>>
  /\ UNCHANGED <<runVars, timerVars, api_queue, exit_requested, shake_request,
                 alarm, job, hostVars, pollPc, sensorPc>>

\* event, timer and skyengine_motion_input refuse after an exit.
WorkerDelivers ==
  /\ workerPc = "deliver"
  /\ workerPc' = IF exit_requested THEN "finish" ELSE "engine"
  /\ UNCHANGED <<runVars, timerVars, api_queue, engineVars, alarm, job, hostVars,
                 pollPc, sensorPc, ghost>>

WorkerReturns ==
  /\ workerPc = "engine"
  /\ workerPc' = "finish"
  /\ UNCHANGED <<runVars, timerVars, api_queue, engineVars, alarm, job, hostVars,
                 pollPc, sensorPc, ghost>>

WorkerFinishes ==
  /\ workerPc = "finish"
  /\ workerPc' = "scan"
  /\ job' = NoJob
  /\ IF exit_requested THEN FinishRun
     ELSE UNCHANGED <<runVars, timerVars, api_queue, ghost>>
  /\ UNCHANGED <<engineVars, alarm, hostVars, pollPc, sensorPc>>

-----------------------------------------------------------------------------
(* Calls of the control thread.  Each begins with an unlocked look at the  *)
(* run; what it found may be stale when the call goes on under api_mutex.  *)
Alive == api_running /\ ~exit_requested

Command(kind) == [kind |-> kind, id |-> 0, run |-> ghost.run, edit |-> ghost.edits]

MayQueue == ghost.lastId < MaxCmds

\* The part of a call that follows the look.
Body(op) ==
  CASE op \in {"key", "move"}    -> "submit"
    [] op \in {"text", "cancel"} -> "edit"
    [] OTHER                     -> op

HostCall(op) ==
  /\ ctlPc = "idle"
  /\ op \in HostOps \ {"motion"}
  /\ Body(op) \in {"submit", "edit"} => MayQueue
  /\ IF Alive
     THEN /\ ctlPc' = Body(op)
          /\ ctlArg' = Command(op)
          /\ UNCHANGED api_running
     ELSE /\ api_running' = IF op \in {"pause", "resume", "dsm"} THEN api_running
                            ELSE FALSE
          /\ UNCHANGED <<ctlPc, ctlArg>>
  /\ UNCHANGED <<api_worker_stop, api_thread_started, api_paused, timerVars,
                 api_queue, engineVars, workerVars, phase, pollPc, sensorPc, ghost>>

CtlReturns == ctlPc' = "idle" /\ ctlArg' = NoJob

\* set_edit_text and cancel_edit look at edit_active, unlock, and go on.
CtlLooksForEdit ==
  /\ ctlPc = "edit"
  /\ IF edit_active
     THEN ctlPc' = "submit" /\ ctlArg' = Command(ctlArg.kind)
     ELSE CtlReturns
  /\ UNCHANGED <<runVars, timerVars, api_queue, engineVars, workerVars, phase,
                 pollPc, sensorPc, ghost>>

\* Mutant: the worker is signalled only when the queue was not empty.
QueueCommandSilently(cmd) ==
  LET stamped == [cmd EXCEPT !.id = ghost.lastId + 1]
  IN  IF Leaving
      THEN UNCHANGED <<api_queue, workerVars, ghost>>
      ELSE /\ api_queue' = Offer(api_queue, stamped)
           /\ IF api_queue # << >> THEN api_signal ELSE UNCHANGED workerVars
           /\ ghost' = IF api_queue' = api_queue THEN ghost
                       ELSE [ghost EXCEPT !.lastId = stamped.id]

\* api_queue_command
QueueCommand(cmd) ==
  LET stamped == [cmd EXCEPT !.id = ghost.lastId + 1]
  IN  IF Leaving
      THEN UNCHANGED <<api_queue, workerVars, ghost>>
      ELSE /\ api_queue' = Offer(api_queue, stamped)
           /\ IF Appends(api_queue, stamped) THEN api_signal ELSE UNCHANGED workerVars
           /\ ghost' = IF api_queue' = api_queue THEN ghost
                       ELSE [ghost EXCEPT !.lastId = stamped.id]

CtlSubmits ==
  /\ ctlPc = "submit"
  /\ QueueCommand(ctlArg)
  /\ CtlReturns
  /\ UNCHANGED <<runVars, timerVars, engineVars, phase, pollPc, sensorPc>>

\* Mutant: a second pause takes the remaining time again.
CtlPausesTwice ==
  /\ ctlPc = "pause"
  /\ api_paused' = TRUE
  /\ api_pause_remaining_ms' = IF api_timer_active THEN timer_due ELSE 0
  /\ api_signal
  /\ CtlReturns
  /\ UNCHANGED <<api_running, api_worker_stop, api_thread_started, api_timer_active,
                 timer_due, speed_multiplier, api_queue, engineVars, phase, pollPc,
                 sensorPc, ghost>>

\* Mutant: a pause stops the guest's timer.
CtlPausesAndForgets ==
  /\ ctlPc = "pause"
  /\ api_paused' = TRUE
  /\ api_timer_active' = FALSE
  /\ api_pause_remaining_ms' = IF api_paused THEN api_pause_remaining_ms
                               ELSE IF api_timer_active THEN timer_due ELSE 0
  /\ api_signal
  /\ CtlReturns
  /\ UNCHANGED <<api_running, api_worker_stop, api_thread_started,
                 timer_due, speed_multiplier, api_queue, engineVars, phase, pollPc,
                 sensorPc, ghost>>

CtlPauses ==
  /\ ctlPc = "pause"
  /\ api_paused' = TRUE
  /\ api_pause_remaining_ms' = IF api_paused THEN api_pause_remaining_ms
                               ELSE IF api_timer_active THEN timer_due ELSE 0
  /\ api_signal
  /\ CtlReturns
  /\ UNCHANGED <<api_running, api_worker_stop, api_thread_started, api_timer_active,
                 timer_due, speed_multiplier, api_queue, engineVars, phase, pollPc,
                 sensorPc, ghost>>

CtlResumes ==
  /\ ctlPc = "resume"
  /\ api_paused' = FALSE
  /\ timer_due' = IF api_paused /\ api_timer_active THEN api_pause_remaining_ms
                  ELSE timer_due
  /\ api_signal
  /\ CtlReturns
  /\ UNCHANGED <<api_running, api_worker_stop, api_thread_started, api_timer_active,
                 api_pause_remaining_ms, speed_multiplier, api_queue, engineVars,
                 phase, pollPc, sensorPc, ghost>>

\* skyengine_api_timer: the guest's timer is cleared, timer() is not called.
CtlStepsTimer ==
  /\ ctlPc = "timer"
  /\ api_timer_active' = FALSE
  /\ api_signal
  /\ ghost' = NoClaim
  /\ CtlReturns
  /\ UNCHANGED <<runVars, timer_due, api_pause_remaining_ms, speed_multiplier,
                 api_queue, engineVars, phase, pollPc, sensorPc>>

\* skyengine_api_start_dsmB, dsmC and dsm_ex run the guest on this thread.
CtlLeavesDsm ==
  /\ ctlPc = "dsm"
  /\ CtlReturns
  /\ UNCHANGED <<runVars, timerVars, api_queue, engineVars, workerVars, phase,
                 pollPc, sensorPc, ghost>>

-----------------------------------------------------------------------------
(* The life cycle: skyengine_api_init, _start and _destroy.  The host joins *)
(* its poll thread first, and calls start only after init; it does not     *)
(* wait for the sensor's thread.                                           *)
Quiet == pollPc = "idle"

\* Mutant: the worker is waited for but not woken.
StopWorkerSilently(next) ==
  /\ ctlPc = "idle"
  /\ Quiet
  /\ phase' = "stopping"
  /\ IF api_thread_started
     THEN /\ api_worker_stop' = TRUE /\ api_timer_active' = FALSE
          /\ api_paused' = FALSE /\ api_pause_remaining_ms' = 0
          /\ api_queue' = << >>
          /\ ghost' = NoClaim
          /\ ctlPc' = "join"
          /\ ctlArg' = [NoJob EXCEPT !.kind = next]
          /\ UNCHANGED <<api_running, api_thread_started, timer_due, speed_multiplier,
                        workerVars>>
     ELSE /\ ctlPc' = next
          /\ UNCHANGED <<runVars, timerVars, api_queue, workerVars, ctlArg, ghost>>
  /\ UNCHANGED <<engineVars, pollPc, sensorPc>>

\* api_stop_worker, with which both init and destroy begin.
StopWorker(next) ==
  /\ ctlPc = "idle"
  /\ Quiet
  /\ phase' = "stopping"
  /\ IF api_thread_started
     THEN /\ api_worker_stop' = TRUE
          /\ api_timer_active' = FALSE
          /\ api_paused' = FALSE
          /\ api_pause_remaining_ms' = 0
          /\ api_queue' = << >>
          /\ api_signal
          /\ ghost' = NoClaim
          /\ ctlPc' = "join"
          /\ ctlArg' = [NoJob EXCEPT !.kind = next]
          /\ UNCHANGED <<api_running, api_thread_started, timer_due, speed_multiplier>>
     ELSE /\ ctlPc' = next
          /\ UNCHANGED <<runVars, timerVars, api_queue, workerVars, ctlArg, ghost>>
  /\ UNCHANGED <<engineVars, pollPc, sensorPc>>

\* Mutant: api_thread_started survives the join.
JoinWorkerKeepsFlag ==
  /\ ctlPc = "join"
  /\ workerPc = "done"
  /\ workerPc' = "none"
  /\ ctlPc' = ctlArg.kind
  /\ ctlArg' = NoJob
  /\ UNCHANGED <<runVars, timerVars, api_queue,
                 engineVars, alarm, job, phase, pollPc, sensorPc, ghost>>

\* Mutant: the join gives up on a busy worker.
JoinWorkerTimesOut ==
  /\ ctlPc = "join"
  /\ workerPc' = IF workerPc = "done" THEN "none" ELSE workerPc
  /\ api_thread_started' = FALSE
  /\ ctlPc' = ctlArg.kind
  /\ ctlArg' = NoJob
  /\ UNCHANGED <<api_running, api_worker_stop, api_paused, timerVars, api_queue,
                 engineVars, alarm, job, phase, pollPc, sensorPc, ghost>>

JoinWorker ==
  /\ ctlPc = "join"
  /\ workerPc = "done"
  /\ workerPc' = "none"
  /\ api_thread_started' = FALSE
  /\ ctlPc' = ctlArg.kind
  /\ ctlArg' = NoJob
  /\ UNCHANGED <<api_running, api_worker_stop, api_paused, timerVars, api_queue,
                 engineVars, alarm, job, phase, pollPc, sensorPc, ghost>>

\* Mutant: init leaves api_timer_active alone.
InitKeepsTimer ==
  /\ ctlPc = "init"
  /\ api_running' = FALSE /\ api_worker_stop' = FALSE /\ api_paused' = FALSE
  /\ api_pause_remaining_ms' = 0
  /\ api_queue' = << >>
  /\ edit_active' = FALSE /\ shake_request' = "none"
  /\ CtlReturns
  /\ phase' = "ready"
  /\ UNCHANGED <<api_thread_started, api_timer_active, timer_due, speed_multiplier,
                 exit_requested, workerVars, pollPc, sensorPc, ghost>>

\* skyengine_api_init after api_stop_worker.
InitResets ==
  /\ ctlPc = "init"
  /\ api_running' = FALSE /\ api_worker_stop' = FALSE /\ api_paused' = FALSE
  /\ api_timer_active' = FALSE /\ api_pause_remaining_ms' = 0
  /\ api_queue' = << >>
  /\ edit_active' = FALSE /\ shake_request' = "none"
  /\ ghost' = NoClaim
  /\ CtlReturns
  /\ phase' = "ready"
  /\ UNCHANGED <<api_thread_started, timer_due, speed_multiplier, exit_requested,
                 workerVars, pollPc, sensorPc>>

\* The screen buffers cannot be allocated: init returns before its resets.
InitFails ==
  /\ ctlPc = "init"
  /\ CtlReturns
  /\ phase' = "down"
  /\ UNCHANGED <<runVars, timerVars, api_queue, engineVars, workerVars, pollPc,
                 sensorPc, ghost>>

\* skyengine_api_destroy after api_stop_worker.
Destroys ==
  /\ ctlPc = "destroy"
  /\ exit_requested' = FALSE
  /\ api_running' = FALSE /\ api_paused' = FALSE
  /\ api_pause_remaining_ms' = 0
  /\ edit_active' = FALSE
  /\ CtlReturns
  /\ phase' = "down"
  /\ UNCHANGED <<api_worker_stop, api_thread_started, api_timer_active, timer_due,
                 speed_multiplier, api_queue, shake_request, workerVars, pollPc,
                 sensorPc, ghost>>

\* startEngine runs the guest's start-up on the caller's thread.
Starts ==
  /\ ctlPc = "idle"
  /\ phase = "ready"
  /\ ghost.run < MaxRuns
  /\ exit_requested' = FALSE
  /\ ghost' = [ghost EXCEPT !.run = @ + 1]
  /\ ctlPc' = "boot"
  /\ UNCHANGED <<runVars, timerVars, api_queue, edit_active, shake_request,
                 workerVars, ctlArg, phase, pollPc, sensorPc>>

\* startEngine fails, or the guest exited during its start-up.
BootEndsRun ==
  /\ ctlPc = "boot"
  /\ api_running' = FALSE
  /\ CtlReturns
  /\ phase' = "down"
  /\ UNCHANGED <<api_worker_stop, api_thread_started, api_paused, timerVars,
                 api_queue, engineVars, workerVars, pollPc, sensorPc, ghost>>

\* The guest runs: api_start_worker.
BootOpensRun ==
  /\ ctlPc = "boot"
  /\ ~exit_requested
  /\ api_running' = TRUE
  /\ IF api_thread_started
     THEN UNCHANGED <<api_worker_stop, api_thread_started, workerVars>>
     ELSE /\ api_worker_stop' = FALSE
          /\ api_thread_started' = TRUE
          /\ workerPc' = "scan"
          /\ UNCHANGED <<alarm, job>>
  /\ CtlReturns
  /\ phase' = "up"
  /\ ghost' = [ghost EXCEPT !.opened = @ + 1]
  /\ UNCHANGED <<api_paused, timerVars, api_queue, engineVars, pollPc, sensorPc>>

\* pthread_create fails: the engine is stopped again.
BootFindsNoThread ==
  /\ ctlPc = "boot"
  /\ ~exit_requested /\ ~api_thread_started
  /\ api_worker_stop' = FALSE
  /\ api_running' = FALSE
  /\ exit_requested' = FALSE
  /\ CtlReturns
  /\ phase' = "down"
  /\ UNCHANGED <<api_thread_started, api_paused, timerVars, api_queue, edit_active,
                 shake_request, workerVars, pollPc, sensorPc, ghost>>

-----------------------------------------------------------------------------
(* The poll thread: skyengine_api_is_running and skyengine_api_take_shake. *)
\* Mutant: the poll closes the run without asking skyengine_is_exited.
PollSeesAnyRun ==
  /\ phase = "up" /\ pollPc = "idle"
  /\ pollPc' = "closing"
  /\ UNCHANGED <<runVars, timerVars, api_queue, engineVars, workerVars, hostVars,
                 sensorPc, ghost>>

PollSeesExit ==
  /\ phase = "up" /\ pollPc = "idle"
  /\ exit_requested
  /\ pollPc' = "closing"
  /\ UNCHANGED <<runVars, timerVars, api_queue, engineVars, workerVars, hostVars,
                 sensorPc, ghost>>

\* Mutant: the poll ends the run and does not wake the worker.
PollFinishesSilently ==
  /\ pollPc = "closing"
  /\ FinishRun
  /\ pollPc' = "idle"
  /\ UNCHANGED <<engineVars, workerVars, hostVars, sensorPc>>

PollFinishesRun ==
  /\ pollPc = "closing"
  /\ FinishRun
  /\ api_signal
  /\ pollPc' = "idle"
  /\ UNCHANGED <<engineVars, hostVars, sensorPc>>

PollTakesShake ==
  /\ phase = "up" /\ pollPc = "idle"
  /\ shake_request' = "none"
  /\ UNCHANGED <<runVars, timerVars, api_queue, exit_requested, edit_active,
                 workerVars, hostVars, pollPc, sensorPc, ghost>>

(* The sensor thread: skyengine_api_motion, outside engine_mtx_.  It calls *)
(* when a run has once been up, and may go on when that run is stopped.    *)
SensorCalls ==
  /\ "motion" \in HostOps
  /\ sensorPc = "idle"
  /\ ghost.opened > 0
  /\ MayQueue
  /\ sensorPc' = IF Alive THEN "submit" ELSE "refused"
  /\ ghost' = [ghost EXCEPT !.sampled = ghost.opened]
  /\ UNCHANGED <<runVars, timerVars, api_queue, engineVars, workerVars, hostVars,
                 pollPc>>

SensorRefused ==
  /\ sensorPc = "refused"
  /\ api_running' = FALSE
  /\ sensorPc' = "idle"
  /\ UNCHANGED <<api_worker_stop, api_thread_started, api_paused, timerVars,
                 api_queue, engineVars, workerVars, hostVars, pollPc, ghost>>

SensorSubmits ==
  /\ sensorPc = "submit"
  /\ QueueCommand(Command("motion"))
  /\ sensorPc' = "idle"
  /\ UNCHANGED <<runVars, timerVars, engineVars, hostVars, pollPc>>

(* The page's speed button, with no look at the run and no engine_mtx_.    *)
Clamped(mult) == IF mult < 1 THEN 1 ELSE IF mult > 4 THEN 4 ELSE mult

\* A timer that waits is made due, to be armed again at the new speed.
skyengine_set_speed_multiplier(mult) ==
  /\ speed_multiplier' = Clamped(mult)
  /\ timer_due' = IF api_timer_active THEN 0 ELSE timer_due
  /\ api_signal
  /\ ghost' = [ghost EXCEPT !.owed = IF api_timer_active THEN 0 ELSE @,
                            !.inPause = @ \/ (api_timer_active /\ api_paused)]
  /\ UNCHANGED <<runVars, api_timer_active, api_pause_remaining_ms, api_queue,
                 engineVars, hostVars, pollPc, sensorPc>>

-----------------------------------------------------------------------------
Guest ==
  \/ \E t \in 0..MaxDelay : timerStart(t)
  \/ timerStop
  \/ editCreate
  \/ editRelease
  \/ \E request \in {"on", "off"} : guiShake(request)
  \/ skyengine_request_exit

Worker ==
  \/ WorkerStops
  \/ WorkerTakesCommand
  \/ WorkerTakesTimer
  \/ WorkerSleeps
  \/ WorkerWakes(TRUE)
  \/ WorkerAnswersEdit
  \/ WorkerDelivers
  \/ WorkerReturns
  \/ WorkerFinishes

\* The rest of a call of the control thread, once begun.
CtlGoesOn ==
  \/ CtlLooksForEdit
  \/ CtlSubmits
  \/ CtlPauses
  \/ CtlResumes
  \/ CtlStepsTimer
  \/ CtlLeavesDsm
  \/ JoinWorker
  \/ InitResets
  \/ InitFails
  \/ Destroys
  \/ BootEndsRun
  \/ BootOpensRun
  \/ BootFindsNoThread

CtlBegins ==
  \/ \E op \in AllHostOps : HostCall(op)
  \/ \E next \in {"init", "destroy"} : StopWorker(next)
  \/ Starts

Sensor == SensorCalls \/ SensorRefused \/ SensorSubmits

PollExit == PollSeesExit \/ PollFinishesRun

Next ==
  \/ Guest
  \/ Worker
  \/ WorkerWakes(FALSE)
  \/ CtlBegins
  \/ CtlGoesOn
  \/ PollExit
  \/ PollTakesShake
  \/ Sensor
  \/ \E mult \in Speeds : skyengine_set_speed_multiplier(mult)
  \/ Tick

Spec == Init /\ [][Next]_vars

(* The worker is scheduled, a guest dispatch returns, a call once begun    *)
(* goes on, TimerLoop polls every 16 ms, and time passes.  Nothing makes   *)
(* the host call or the guest act.                                         *)
Fairness ==
  /\ WF_vars(Worker)
  /\ WF_vars(CtlGoesOn)
  /\ WF_vars(PollExit)
  /\ WF_vars(SensorRefused \/ SensorSubmits)
  /\ WF_vars(Tick)

FairSpec == Spec /\ Fairness

-----------------------------------------------------------------------------
(* Properties.                                                             *)

Commands == [kind : {"none", "timer", "key", "move", "motion", "text", "cancel",
                     "pause", "resume", "dsm", "init", "destroy"},
             id : Nat, run : Nat, edit : Nat]

Ghosts == [run : Nat, lastId : Nat, edits : Nat, timerRun : Nat,
           owed : 0..MaxDelay, inPause : BOOLEAN, served : Nat, answered : Nat,
           opened : Nat, sampled : Nat]

FlagsOK ==
  /\ api_running \in BOOLEAN /\ api_worker_stop \in BOOLEAN
  /\ api_thread_started \in BOOLEAN /\ api_paused \in BOOLEAN
  /\ api_timer_active \in BOOLEAN
  /\ exit_requested \in BOOLEAN /\ edit_active \in BOOLEAN
  /\ shake_request \in {"none", "on", "off"}

TimesOK ==
  /\ timer_due \in 0..MaxDelay /\ api_pause_remaining_ms \in 0..MaxDelay
  /\ alarm \in Never..MaxDelay /\ speed_multiplier \in 1..4
  /\ ghost \in Ghosts

ThreadsOK ==
  /\ workerPc \in {"none", "scan", "asleep", "apply", "deliver", "engine", "finish", "done"}
  /\ ctlPc \in {"idle", "submit", "edit", "pause", "resume", "timer", "dsm", "join",
                "init", "destroy", "boot"}
  /\ phase \in {"down", "ready", "up", "stopping"}
  /\ pollPc \in {"idle", "closing"} /\ sensorPc \in {"idle", "submit", "refused"}

CommandsOK ==
  /\ api_queue \in Seq(Commands) /\ Len(api_queue) <= QueueCap
  /\ job \in Commands /\ ctlArg \in Commands

\* Every variable has a value of its type: a queue within API_QUEUE_CAP, timer
\* values within the range of the timer, threads at places of their code.
TypeOK == FlagsOK /\ TimesOK /\ ThreadsOK /\ CommandsOK

\* How the flags, the worker and the host's cycle hang together.  It is what the
\* life cycle calls rely on when they look at api_thread_started with no lock:
\* the flag tells whether there is a worker, no worker is left when init, destroy
\* and start touch what it uses, and a queue without a worker is empty and shut.
Lifecycle ==
  /\ api_thread_started <=> workerPc # "none"
  /\ phase \in {"down", "ready"} \/ ctlPc \in {"init", "destroy"} => workerPc = "none"
  /\ workerPc = "none" => api_queue = << >> /\ Leaving
  /\ ctlPc = "boot" => phase = "ready"
  /\ phase = "ready" => ~api_running
  /\ phase = "stopping" <=> ctlPc \in {"join", "init", "destroy"}
  /\ ctlPc = "join" => api_worker_stop /\ api_queue = << >> /\ workerPc # "none"
  /\ ctlPc = "join" => ctlArg.kind \in {"init", "destroy"}
  /\ phase = "up" => workerPc # "none"
  /\ phase = "up" /\ api_running => ~api_worker_stop /\ workerPc # "done"
  /\ pollPc = "closing" => phase = "up"

\* The engine has no locks: no two threads are ever inside it, and it is not
\* torn down or reset under a dispatch (README.md, the single-thread rule of
\* the engine; api_stop_worker joins the worker first).
OneThreadInEngine ==
  workerPc = "engine" => ctlPc \notin {"boot", "dsm", "init", "destroy"}

\* While the host has a run it believes running, the worker that serves it
\* exists (api_start_worker, api_worker_main): a run is never a dead shell that
\* refuses every call.
RunningRunIsServed ==
  phase = "up" /\ api_running =>
    /\ ~api_worker_stop
    /\ workerPc \notin {"none", "done"}

\* The worker never sleeps through work: whoever gives it something to do
\* signals api_cond, and a timed sleep ends when the guest's timer is due.
NoLostWakeup ==
  workerPc = "asleep" =>
    /\ ~api_worker_stop
    /\ ~api_paused => /\ api_queue = << >>
                      /\ api_timer_active => alarm = timer_due

\* What is left of the guest's timer.
Left == IF api_paused THEN api_pause_remaining_ms ELSE timer_due

\* The guest's timer is owed what was asked, divided by the multiplier, less the
\* time spent outside pauses.  Whatever the order of timerStart, pause, resume and
\* changes of speed, it never has less left, and it has no more unless it was armed
\* or hurried while the run was paused.
PauseKeepsTimer ==
  phase = "up" /\ api_timer_active =>
    /\ Left >= ghost.owed
    /\ ghost.inPause \/ Left = ghost.owed

\* What the patch promises: the interval is divided by the multiplier, and a change
\* of speed makes a waiting timer due.  (Refuted: not while the run is paused.)
SpeedShortensTimer == phase = "up" /\ api_timer_active => Left <= ghost.owed

\* Nothing of an earlier run reaches a later one: neither a queued command, nor
\* one the worker holds, nor a timer armed by the earlier run's guest, also when
\* that run failed to boot (skyengine_api_init clears all three).
RunIsolation ==
  /\ \A i \in 1..Len(api_queue) : api_queue[i].run = ghost.run
  /\ job # NoJob => job.run = ghost.run
  /\ phase = "up" /\ api_timer_active => ghost.timerRun = ghost.run

\* When init sets the queue's indices to zero, without a free, no command with a
\* text is in it: every way in which a run ends has emptied the queue before
\* (api_finish_if_exited, api_stop_worker) and closed it.
ResetLosesNothing == ctlPc \in {"init", "destroy"} => api_queue = << >>

\* The guest's timer ends when it fires, when the guest stops it, with the run, or
\* by the step call of a host that schedules it: pauses, changes of speed, commands
\* and late answers leave it to the guest.
HostKeepsTimer ==
  [][api_timer_active /\ ~api_timer_active' =>
       \/ job'.kind = "timer" /\ job' # job
       \/ InGuest \/ exit_requested \/ phase' # "up" \/ ctlPc = "timer"]_vars

\* What skyengine_api.h says of skyengine_api_timer, that it serves hosts which do
\* the scheduling: the step it takes is a tick of the guest's timer.  (Refuted: it
\* only clears the timer.)
TimerStepIsTick ==
  [][api_timer_active /\ ~api_timer_active' =>
       job' # job \/ InGuest \/ exit_requested \/ phase' # "up"]_vars

\* One editCreate is answered at most once, though text and cancel may both be
\* queued for it (api_apply_edit_text_command, api_apply_cancel_edit_command).
EditAnsweredOnce == ghost.answered <= 1

\* The worker takes commands in the order the host's calls were accepted;
\* replacing a pending move by a newer one never lets it pass another command.
DispatchInOrder ==
  [][ghost.served' # ghost.served => ghost.served' > ghost.served]_vars

\* A sample that was refused before the run at hand came up.
Straddles == sensorPc = "refused" /\ ghost.sampled # ghost.opened

\* A run ends only because its guest exited or its host stops it, or by a sample that
\* was refused before the run came up: no other call that comes late takes it down.
RunEndsForAReason ==
  [][api_running /\ ~api_running' =>
       exit_requested \/ ctlPc \in {"init", "destroy"} \/ Straddles]_vars

\* What skyengine_api.h says of a sample nobody listens to: it is dropped.  (Refuted:
\* one that comes between two runs takes the second down.)
StraySampleIsDropped ==
  [][api_running /\ ~api_running' => exit_requested \/ ctlPc \in {"init", "destroy"}]_vars

\* The runner keeps the promise of Session.
driver == IF ctlPc = "boot" THEN "host"
          ELSE IF workerPc = "engine" THEN "worker" ELSE "nobody"
runState == IF ctlPc = "boot" THEN "booting"
            ELSE IF api_running /\ ~api_worker_stop THEN "open" ELSE "shut"
S == INSTANCE Session WITH state <- runState, driver <- driver,
                           held <- workerPc \in {"apply", "deliver", "engine"}

\* At most one thread drives the guest, and after a stop or an exit at most the
\* dispatch under way completes before the next run boots.
KeepsSession == S!Spec

Pending(i) == \E k \in 1..Len(api_queue) : api_queue[k].id = i

\* A command the queue accepted is taken, replaced by a newer move, or thrown
\* away with its run, unless the host pauses the run.
AcceptedIsServed == \A i \in 1..MaxCmds : Pending(i) ~> ~Pending(i) \/ api_paused

\* An armed timer comes to the guest, is stopped by it, or ends with the run,
\* unless the host pauses the run or goes on entering the guest with start_dsm
\* calls, in which the guest may arm the timer afresh each time.
TimerFires ==
  phase = "up" /\ api_timer_active
    ~> ~api_timer_active \/ api_paused \/ phase # "up" \/ ctlPc = "dsm"

\* An answer that was accepted for the open edit closes it: the guest is not left
\* waiting on a dialog the host has dismissed.
EditGetsAnswer ==
  \A e \in 1..MaxEdits :
    (edit_active /\ \E k \in 1..Len(api_queue) :
                      api_queue[k].kind \in {"text", "cancel"} /\ api_queue[k].edit = e)
      ~> (~edit_active \/ ghost.edits # e \/ exit_requested \/ phase # "up" \/ api_paused)

\* init and destroy come back: the worker they join ends whatever it was doing.
StopReturns == ctlPc = "join" ~> ctlPc = "idle"

\* After the guest's exit the worker winds down by itself, also when the exit
\* came from a start_dsm call while the worker slept.
ExitWindsDown ==
  exit_requested /\ phase = "up" ~> workerPc \in {"none", "done"} \/ phase # "up"
=============================================================================
