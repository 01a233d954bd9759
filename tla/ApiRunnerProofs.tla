--------------------------- MODULE ApiRunnerProofs ---------------------------
(***************************************************************************)
(* What holds of the runner for every queue capacity, every bound and      *)
(* every choice of host calls and guest callbacks.                         *)
(***************************************************************************)
EXTENDS ApiRunner, SequenceTheorems, TLAPS

LEMMA LifecycleKept == Lifecycle /\ [Next]_vars => Lifecycle'
<1> SUFFICES ASSUME Lifecycle, [Next]_vars PROVE Lifecycle'
  OBVIOUS
<1> USE DEF Lifecycle, Leaving, runVars, timerVars, engineVars, workerVars, hostVars
<1>1. ASSUME NEW t \in 0..MaxDelay, timerStart(t) PROVE Lifecycle'
  BY <1>1 DEF timerStart, api_signal
<1>2. CASE timerStop
  BY <1>2 DEF timerStop, api_signal
<1>3. CASE editCreate
  BY <1>3 DEF editCreate
<1>4. CASE editRelease
  BY <1>4 DEF editRelease
<1>5. ASSUME NEW request \in {"on", "off"}, guiShake(request) PROVE Lifecycle'
  BY <1>5 DEF guiShake
<1>6. CASE skyengine_request_exit
  BY <1>6 DEF skyengine_request_exit
<1>7. CASE WorkerStops
  BY <1>7 DEF WorkerStops
<1>8. CASE WorkerTakesCommand
  BY <1>8 DEF WorkerTakesCommand
<1>9. CASE WorkerTakesTimer
  BY <1>9 DEF WorkerTakesTimer
<1>10. CASE WorkerSleeps
  BY <1>10 DEF WorkerSleeps
<1>11. ASSUME NEW b \in BOOLEAN, WorkerWakes(b) PROVE Lifecycle'
  BY <1>11 DEF WorkerWakes
<1>12. CASE WorkerAnswersEdit
  BY <1>12 DEF WorkerAnswersEdit
<1>13. CASE WorkerDelivers
  BY <1>13 DEF WorkerDelivers
<1>14. CASE WorkerReturns
  BY <1>14 DEF WorkerReturns
<1>15. CASE WorkerFinishes
  BY <1>15 DEF WorkerFinishes, FinishRun
<1>16. ASSUME NEW op \in AllHostOps, HostCall(op) PROVE Lifecycle'
  BY <1>16 DEF HostCall, Body, Alive, AllHostOps
<1>17. ASSUME NEW next \in {"init", "destroy"}, StopWorker(next) PROVE Lifecycle'
  BY <1>17 DEF StopWorker, api_signal, Quiet, NoJob
<1>18. CASE Starts
  BY <1>18 DEF Starts
<1>19. CASE CtlLooksForEdit
  BY <1>19 DEF CtlLooksForEdit, CtlReturns
<1>20. CASE CtlSubmits
  BY <1>20 DEF CtlSubmits, CtlReturns, QueueCommand, api_signal
<1>21. CASE CtlPauses
  BY <1>21 DEF CtlPauses, CtlReturns, api_signal
<1>22. CASE CtlResumes
  BY <1>22 DEF CtlResumes, CtlReturns, api_signal
<1>23. CASE CtlStepsTimer
  BY <1>23 DEF CtlStepsTimer, CtlReturns, api_signal
<1>24. CASE CtlLeavesDsm
  BY <1>24 DEF CtlLeavesDsm, CtlReturns
<1>25. CASE JoinWorker
  BY <1>25 DEF JoinWorker
<1>26. CASE InitResets
  BY <1>26 DEF InitResets, CtlReturns
<1>27. CASE InitFails
  BY <1>27 DEF InitFails, CtlReturns
<1>28. CASE Destroys
  BY <1>28 DEF Destroys, CtlReturns
<1>29. CASE BootEndsRun
  BY <1>29 DEF BootEndsRun, CtlReturns
<1>30. CASE BootOpensRun
  BY <1>30 DEF BootOpensRun, CtlReturns
<1>31. CASE BootFindsNoThread
  BY <1>31 DEF BootFindsNoThread, CtlReturns
<1>32. CASE PollSeesExit
  BY <1>32 DEF PollSeesExit
<1>33. CASE PollFinishesRun
  BY <1>33 DEF PollFinishesRun, FinishRun, api_signal
<1>34. CASE PollTakesShake
  BY <1>34 DEF PollTakesShake
<1>35. CASE SensorCalls
  BY <1>35 DEF SensorCalls
<1>36. CASE SensorRefused
  BY <1>36 DEF SensorRefused
<1>37. CASE SensorSubmits
  BY <1>37 DEF SensorSubmits, QueueCommand, api_signal
<1>38. CASE Tick
  BY <1>38 DEF Tick
<1>39. CASE UNCHANGED vars
  BY <1>39 DEF vars
<1>40. ASSUME NEW mult \in Speeds, skyengine_set_speed_multiplier(mult) PROVE Lifecycle'
  BY <1>40 DEF skyengine_set_speed_multiplier, api_signal
<1> QED
  BY <1>1, <1>2, <1>3, <1>4, <1>5, <1>6, <1>7, <1>8, <1>9, <1>10, <1>11, <1>12, <1>13, <1>14, <1>15, <1>16, <1>17, <1>18, <1>19, <1>20, <1>21, <1>22, <1>23, <1>24, <1>25, <1>26, <1>27, <1>28, <1>29, <1>30, <1>31, <1>32, <1>33, <1>34, <1>35, <1>36, <1>37, <1>38, <1>39, <1>40
     DEF Next, Guest, Worker, CtlBegins, CtlGoesOn, PollExit, Sensor

LEMMA FlagsKept ==
  ASSUME FlagsOK, [Next]_vars
  PROVE  FlagsOK'
<1> USE DEF FlagsOK, runVars, timerVars, engineVars, workerVars, hostVars
<1>1. ASSUME NEW t \in 0..MaxDelay, timerStart(t) PROVE FlagsOK'
  BY <1>1 DEF timerStart, api_signal
<1>2. CASE timerStop
  BY <1>2 DEF timerStop, api_signal
<1>3. CASE editCreate
  BY <1>3 DEF editCreate
<1>4. CASE editRelease
  BY <1>4 DEF editRelease
<1>5. ASSUME NEW request \in {"on", "off"}, guiShake(request) PROVE FlagsOK'
  BY <1>5 DEF guiShake
<1>6. CASE skyengine_request_exit
  BY <1>6 DEF skyengine_request_exit
<1>7. CASE WorkerStops
  BY <1>7 DEF WorkerStops
<1>8. CASE WorkerTakesCommand
  BY <1>8 DEF WorkerTakesCommand
<1>9. CASE WorkerTakesTimer
  BY <1>9 DEF WorkerTakesTimer
<1>10. CASE WorkerSleeps
  BY <1>10 DEF WorkerSleeps
<1>11. ASSUME NEW b \in BOOLEAN, WorkerWakes(b) PROVE FlagsOK'
  BY <1>11 DEF WorkerWakes
<1>12. CASE WorkerAnswersEdit
  BY <1>12 DEF WorkerAnswersEdit
<1>13. CASE WorkerDelivers
  BY <1>13 DEF WorkerDelivers
<1>14. CASE WorkerReturns
  BY <1>14 DEF WorkerReturns
<1>15. CASE WorkerFinishes
  BY <1>15 DEF WorkerFinishes, FinishRun
<1>16. ASSUME NEW op \in AllHostOps, HostCall(op) PROVE FlagsOK'
  BY <1>16 DEF HostCall, Alive
<1>17. ASSUME NEW next \in {"init", "destroy"}, StopWorker(next) PROVE FlagsOK'
  BY <1>17 DEF StopWorker, api_signal
<1>18. CASE Starts
  BY <1>18 DEF Starts
<1>19. CASE CtlLooksForEdit
  BY <1>19 DEF CtlLooksForEdit, CtlReturns
<1>20. CASE CtlSubmits
  BY <1>20 DEF CtlSubmits, CtlReturns, QueueCommand, api_signal
<1>21. CASE CtlPauses
  BY <1>21 DEF CtlPauses, CtlReturns, api_signal
<1>22. CASE CtlResumes
  BY <1>22 DEF CtlResumes, CtlReturns, api_signal
<1>23. CASE CtlStepsTimer
  BY <1>23 DEF CtlStepsTimer, CtlReturns, api_signal
<1>24. CASE CtlLeavesDsm
  BY <1>24 DEF CtlLeavesDsm, CtlReturns
<1>25. CASE JoinWorker
  BY <1>25 DEF JoinWorker
<1>26. CASE InitResets
  BY <1>26 DEF InitResets, CtlReturns
<1>27. CASE InitFails
  BY <1>27 DEF InitFails, CtlReturns
<1>28. CASE Destroys
  BY <1>28 DEF Destroys, CtlReturns
<1>29. CASE BootEndsRun
  BY <1>29 DEF BootEndsRun, CtlReturns
<1>30. CASE BootOpensRun
  BY <1>30 DEF BootOpensRun, CtlReturns
<1>31. CASE BootFindsNoThread
  BY <1>31 DEF BootFindsNoThread, CtlReturns
<1>32. CASE PollSeesExit
  BY <1>32 DEF PollSeesExit
<1>33. CASE PollFinishesRun
  BY <1>33 DEF PollFinishesRun, FinishRun, api_signal
<1>34. CASE PollTakesShake
  BY <1>34 DEF PollTakesShake
<1>35. CASE SensorCalls
  BY <1>35 DEF SensorCalls
<1>36. CASE SensorRefused
  BY <1>36 DEF SensorRefused
<1>37. CASE SensorSubmits
  BY <1>37 DEF SensorSubmits, QueueCommand, api_signal
<1>38. CASE Tick
  BY <1>38 DEF Tick
<1>39. CASE UNCHANGED vars
  BY <1>39 DEF vars
<1>40. ASSUME NEW mult \in Speeds, skyengine_set_speed_multiplier(mult) PROVE FlagsOK'
  BY <1>40 DEF skyengine_set_speed_multiplier, api_signal
<1> QED
  BY <1>1, <1>2, <1>3, <1>4, <1>5, <1>6, <1>7, <1>8, <1>9, <1>10, <1>11,
     <1>12, <1>13, <1>14, <1>15, <1>16, <1>17, <1>18, <1>19, <1>20, <1>21,
     <1>22, <1>23, <1>24, <1>25, <1>26, <1>27, <1>28, <1>29, <1>30, <1>31,
     <1>32, <1>33, <1>34, <1>35, <1>36, <1>37, <1>38, <1>39, <1>40
  DEF Next, Guest, Worker, CtlBegins, CtlGoesOn, PollExit, Sensor

LEMMA ThreadsKept ==
  ASSUME Lifecycle, ThreadsOK, [Next]_vars
  PROVE  ThreadsOK'
<1> USE DEF ThreadsOK, runVars, timerVars, engineVars, workerVars, hostVars
<1>1. ASSUME NEW t \in 0..MaxDelay, timerStart(t) PROVE ThreadsOK'
  BY <1>1 DEF timerStart, api_signal
<1>2. CASE timerStop
  BY <1>2 DEF timerStop, api_signal
<1>3. CASE editCreate
  BY <1>3 DEF editCreate
<1>4. CASE editRelease
  BY <1>4 DEF editRelease
<1>5. ASSUME NEW request \in {"on", "off"}, guiShake(request) PROVE ThreadsOK'
  BY <1>5 DEF guiShake
<1>6. CASE skyengine_request_exit
  BY <1>6 DEF skyengine_request_exit
<1>7. CASE WorkerStops
  BY <1>7 DEF WorkerStops
<1>8. CASE WorkerTakesCommand
  BY <1>8 DEF WorkerTakesCommand
<1>9. CASE WorkerTakesTimer
  BY <1>9 DEF WorkerTakesTimer
<1>10. CASE WorkerSleeps
  BY <1>10 DEF WorkerSleeps
<1>11. ASSUME NEW b \in BOOLEAN, WorkerWakes(b) PROVE ThreadsOK'
  BY <1>11 DEF WorkerWakes
<1>12. CASE WorkerAnswersEdit
  BY <1>12 DEF WorkerAnswersEdit
<1>13. CASE WorkerDelivers
  BY <1>13 DEF WorkerDelivers
<1>14. CASE WorkerReturns
  BY <1>14 DEF WorkerReturns
<1>15. CASE WorkerFinishes
  BY <1>15 DEF WorkerFinishes, FinishRun
<1>16. ASSUME NEW op \in AllHostOps, HostCall(op) PROVE ThreadsOK'
  BY <1>16 DEF HostCall, Body, AllHostOps
<1>17. ASSUME NEW next \in {"init", "destroy"}, StopWorker(next) PROVE ThreadsOK'
  BY <1>17 DEF StopWorker, api_signal
<1>18. CASE Starts
  BY <1>18 DEF Starts
<1>19. CASE CtlLooksForEdit
  BY <1>19 DEF CtlLooksForEdit, CtlReturns
<1>20. CASE CtlSubmits
  BY <1>20 DEF CtlSubmits, CtlReturns, QueueCommand, api_signal
<1>21. CASE CtlPauses
  BY <1>21 DEF CtlPauses, CtlReturns, api_signal
<1>22. CASE CtlResumes
  BY <1>22 DEF CtlResumes, CtlReturns, api_signal
<1>23. CASE CtlStepsTimer
  BY <1>23 DEF CtlStepsTimer, CtlReturns, api_signal
<1>24. CASE CtlLeavesDsm
  BY <1>24 DEF CtlLeavesDsm, CtlReturns
<1>25. CASE JoinWorker
  BY <1>25 DEF JoinWorker, Lifecycle
<1>26. CASE InitResets
  BY <1>26 DEF InitResets, CtlReturns
<1>27. CASE InitFails
  BY <1>27 DEF InitFails, CtlReturns
<1>28. CASE Destroys
  BY <1>28 DEF Destroys, CtlReturns
<1>29. CASE BootEndsRun
  BY <1>29 DEF BootEndsRun, CtlReturns
<1>30. CASE BootOpensRun
  BY <1>30 DEF BootOpensRun, CtlReturns
<1>31. CASE BootFindsNoThread
  BY <1>31 DEF BootFindsNoThread, CtlReturns
<1>32. CASE PollSeesExit
  BY <1>32 DEF PollSeesExit
<1>33. CASE PollFinishesRun
  BY <1>33 DEF PollFinishesRun, FinishRun, api_signal
<1>34. CASE PollTakesShake
  BY <1>34 DEF PollTakesShake
<1>35. CASE SensorCalls
  BY <1>35 DEF SensorCalls
<1>36. CASE SensorRefused
  BY <1>36 DEF SensorRefused
<1>37. CASE SensorSubmits
  BY <1>37 DEF SensorSubmits, QueueCommand, api_signal
<1>38. CASE Tick
  BY <1>38 DEF Tick
<1>39. CASE UNCHANGED vars
  BY <1>39 DEF vars
<1>40. ASSUME NEW mult \in Speeds, skyengine_set_speed_multiplier(mult) PROVE ThreadsOK'
  BY <1>40 DEF skyengine_set_speed_multiplier, api_signal
<1> QED
  BY <1>1, <1>2, <1>3, <1>4, <1>5, <1>6, <1>7, <1>8, <1>9, <1>10, <1>11,
     <1>12, <1>13, <1>14, <1>15, <1>16, <1>17, <1>18, <1>19, <1>20, <1>21,
     <1>22, <1>23, <1>24, <1>25, <1>26, <1>27, <1>28, <1>29, <1>30, <1>31,
     <1>32, <1>33, <1>34, <1>35, <1>36, <1>37, <1>38, <1>39, <1>40
  DEF Next, Guest, Worker, CtlBegins, CtlGoesOn, PollExit, Sensor

LEMMA GhostType ==
  ASSUME TimesOK, NEW owed \in 0..MaxDelay, NEW late \in BOOLEAN
  PROVE  [ghost EXCEPT !.owed = owed, !.inPause = late] \in Ghosts
<1>1. ghost \in Ghosts
  BY DEF TimesOK
<1> QED
  BY <1>1 DEF Ghosts

LEMMA NoClaimType ==
  ASSUME TimesOK
  PROVE  NoClaim \in Ghosts
<1>1. ghost \in Ghosts /\ 0 \in 0..MaxDelay
  BY ConstantsAssumption DEF TimesOK
<1> QED
  BY <1>1 DEF NoClaim, Ghosts

LEMMA ScaledType ==
  ASSUME TimesOK, NEW t \in 0..MaxDelay
  PROVE  Scaled(t) \in 0..t /\ Scaled(t) \in 0..MaxDelay
<1>1. MaxDelay \in Nat /\ speed_multiplier \in {1, 2, 3, 4}
  BY ConstantsAssumption DEF TimesOK
<1>2. t \div 1 \in 0..t /\ t \div 2 \in 0..t /\ t \div 3 \in 0..t /\ t \div 4 \in 0..t
  BY <1>1
<1> QED
  BY <1>1, <1>2 DEF Scaled

LEMMA TimesKept ==
  ASSUME TimesOK, CommandsOK, [Next]_vars
  PROVE  TimesOK'
<1> USE ConstantsAssumption DEF TimesOK, Ghosts, NoClaim, MinusOneTick, Never, runVars, timerVars, engineVars, workerVars, hostVars
<1>1. ASSUME NEW t \in 0..MaxDelay, timerStart(t) PROVE TimesOK'
  <2>1. Scaled(t) \in 0..MaxDelay
    BY ScaledType
  <2>2. /\ ghost' = [ghost EXCEPT !.owed = Scaled(t), !.timerRun = ghost.run,
                                 !.inPause = api_paused /\ Scaled(t) # t]
        /\ timer_due' \in {timer_due, Scaled(t)} /\ api_pause_remaining_ms' = t
        /\ alarm' \in {alarm, Never} /\ UNCHANGED speed_multiplier
    BY <1>1 DEF timerStart, Claim, api_signal
  <2> DEFINE late == api_paused /\ Scaled(t) # t
  <2>3. late \in BOOLEAN
    OBVIOUS
  <2> HIDE DEF late
  <2>4. ghost' \in Ghosts
    BY <2>1, <2>2, <2>3 DEF late
  <2> HIDE DEF Ghosts
  <2> QED
    BY <2>1, <2>2, <2>4
<1>2. CASE timerStop
  <2>1. /\ ghost' = NoClaim /\ alarm' \in {alarm, Never}
        /\ UNCHANGED <<timer_due, api_pause_remaining_ms, speed_multiplier>>
    BY <1>2 DEF timerStop, api_signal
  <2>2. NoClaim \in Ghosts /\ Never \in Never..MaxDelay
    BY NoClaimType
  <2> HIDE DEF NoClaim, Ghosts, Never
  <2> QED
    BY <2>1, <2>2
<1>3. CASE editCreate
  <2>1. ghost' = [ghost EXCEPT !.edits = ghost.edits + 1, !.answered = 0]
    BY <1>3 DEF editCreate
  <2>2. ghost.edits + 1 \in Nat /\ ghost \in Ghosts
    OBVIOUS
  <2>3. ghost' \in Ghosts
    BY <2>1, <2>2
  <2> QED
    BY <1>3, <2>3 DEF editCreate
<1>4. CASE editRelease
  BY <1>4 DEF editRelease
<1>5. ASSUME NEW request \in {"on", "off"}, guiShake(request) PROVE TimesOK'
  BY <1>5 DEF guiShake
<1>6. CASE skyengine_request_exit
  BY <1>6 DEF skyengine_request_exit
<1>7. CASE WorkerStops
  BY <1>7 DEF WorkerStops
<1>8. CASE WorkerTakesCommand
  <2>1. job' \in Commands
    BY <1>8 DEF WorkerTakesCommand, CommandsOK
  <2>2. job'.id \in Nat
    BY <2>1 DEF Commands
  <2> QED
    BY <1>8, <2>2 DEF WorkerTakesCommand
<1>9. CASE WorkerTakesTimer
  BY <1>9 DEF WorkerTakesTimer
<1>10. CASE WorkerSleeps
  BY <1>10 DEF WorkerSleeps
<1>11. ASSUME NEW b \in BOOLEAN, WorkerWakes(b) PROVE TimesOK'
  BY <1>11 DEF WorkerWakes
<1>12. CASE WorkerAnswersEdit
  BY <1>12 DEF WorkerAnswersEdit
<1>13. CASE WorkerDelivers
  BY <1>13 DEF WorkerDelivers
<1>14. CASE WorkerReturns
  BY <1>14 DEF WorkerReturns
<1>15. CASE WorkerFinishes
  <2>1. /\ ghost' \in {ghost, NoClaim} /\ UNCHANGED <<timer_due, speed_multiplier, alarm>>
        /\ api_pause_remaining_ms' \in {api_pause_remaining_ms, 0} /\ job' = NoJob
    BY <1>15 DEF WorkerFinishes, FinishRun
  <2>2. NoClaim \in Ghosts /\ 0 \in 0..MaxDelay
    BY NoClaimType
  <2> HIDE DEF NoClaim, Ghosts, Never
  <2> QED
    BY <2>1, <2>2 DEF NoJob
<1>16. ASSUME NEW op \in AllHostOps, HostCall(op) PROVE TimesOK'
  <2>1. UNCHANGED <<timer_due, api_pause_remaining_ms, speed_multiplier, alarm, ghost>>
    BY <1>16 DEF HostCall
  <2> QED
    BY <2>1
<1>17. ASSUME NEW next \in {"init", "destroy"}, StopWorker(next) PROVE TimesOK'
  <2>1. ghost' \in {ghost, NoClaim}
    BY <1>17 DEF StopWorker
  <2>2. /\ UNCHANGED <<timer_due, speed_multiplier>>
        /\ api_pause_remaining_ms' \in {api_pause_remaining_ms, 0} /\ alarm' \in {alarm, Never}
    BY <1>17 DEF StopWorker, api_signal
  <2>3. NoClaim \in Ghosts /\ 0 \in 0..MaxDelay /\ Never \in Never..MaxDelay
    BY NoClaimType
  <2> HIDE DEF NoClaim, Ghosts, Never
  <2> QED
    BY <2>1, <2>2, <2>3
<1>18. CASE Starts
  BY <1>18 DEF Starts
<1>19. CASE CtlLooksForEdit
  BY <1>19 DEF CtlLooksForEdit, CtlReturns
<1>20. CASE CtlSubmits
  BY <1>20 DEF CtlSubmits, CtlReturns, QueueCommand, api_signal
<1>21. CASE CtlPauses
  <2>1. /\ UNCHANGED <<ghost, timer_due, speed_multiplier>> /\ alarm' \in {alarm, Never}
        /\ api_pause_remaining_ms' \in {api_pause_remaining_ms, timer_due, 0}
    BY <1>21 DEF CtlPauses, api_signal
  <2>2. 0 \in 0..MaxDelay /\ Never \in Never..MaxDelay
    OBVIOUS
  <2> HIDE DEF Ghosts, Never
  <2> QED
    BY <2>1, <2>2
<1>22. CASE CtlResumes
  BY <1>22 DEF CtlResumes, CtlReturns, api_signal
<1>23. CASE CtlStepsTimer
  <2>1. /\ ghost' = NoClaim /\ alarm' \in {alarm, Never}
        /\ UNCHANGED <<timer_due, api_pause_remaining_ms, speed_multiplier>>
    BY <1>23 DEF CtlStepsTimer, api_signal
  <2>2. NoClaim \in Ghosts /\ Never \in Never..MaxDelay
    BY NoClaimType
  <2> HIDE DEF NoClaim, Ghosts, Never
  <2> QED
    BY <2>1, <2>2
<1>24. CASE CtlLeavesDsm
  BY <1>24 DEF CtlLeavesDsm, CtlReturns
<1>25. CASE JoinWorker
  BY <1>25 DEF JoinWorker
<1>26. CASE InitResets
  <2>1. NoClaim \in Ghosts /\ 0 \in 0..MaxDelay
    BY NoClaimType
  <2>2. ghost' = NoClaim /\ api_pause_remaining_ms' = 0
        /\ UNCHANGED <<timer_due, speed_multiplier, alarm>>
    BY <1>26 DEF InitResets
  <2> HIDE DEF NoClaim, Ghosts
  <2> QED
    BY <2>1, <2>2
<1>27. CASE InitFails
  BY <1>27 DEF InitFails, CtlReturns
<1>28. CASE Destroys
  BY <1>28 DEF Destroys, CtlReturns
<1>29. CASE BootEndsRun
  BY <1>29 DEF BootEndsRun, CtlReturns
<1>30. CASE BootOpensRun
  BY <1>30 DEF BootOpensRun, CtlReturns
<1>31. CASE BootFindsNoThread
  BY <1>31 DEF BootFindsNoThread, CtlReturns
<1>32. CASE PollSeesExit
  BY <1>32 DEF PollSeesExit
<1>33. CASE PollFinishesRun
  <2>1. ghost' \in {ghost, NoClaim}
    BY <1>33 DEF PollFinishesRun, FinishRun
  <2>2. /\ UNCHANGED <<timer_due, speed_multiplier>>
        /\ api_pause_remaining_ms' \in {api_pause_remaining_ms, 0} /\ alarm' \in {alarm, Never}
    BY <1>33 DEF PollFinishesRun, FinishRun, api_signal
  <2>3. NoClaim \in Ghosts /\ 0 \in 0..MaxDelay /\ Never \in Never..MaxDelay
    BY NoClaimType
  <2> HIDE DEF NoClaim, Ghosts, Never
  <2> QED
    BY <2>1, <2>2, <2>3
<1>34. CASE PollTakesShake
  BY <1>34 DEF PollTakesShake
<1>35. CASE SensorCalls
  BY <1>35 DEF SensorCalls
<1>36. CASE SensorRefused
  BY <1>36 DEF SensorRefused
<1>37. CASE SensorSubmits
  BY <1>37 DEF SensorSubmits, QueueCommand, api_signal
<1>38. CASE Tick
  BY <1>38 DEF Tick
<1>39. CASE UNCHANGED vars
  BY <1>39 DEF vars
<1>40. ASSUME NEW mult \in Speeds, skyengine_set_speed_multiplier(mult) PROVE TimesOK'
  <2>1. Clamped(mult) \in 1..4
    BY DEF Clamped
  <2>2. \E owed \in {ghost.owed, 0}, late \in BOOLEAN :
          ghost' = [ghost EXCEPT !.owed = owed, !.inPause = late]
    BY <1>40 DEF skyengine_set_speed_multiplier
  <2>3. ghost' \in Ghosts
    <3>1. ghost.owed \in 0..MaxDelay /\ 0 \in 0..MaxDelay
      OBVIOUS
    <3> HIDE DEF Ghosts
    <3> QED
      BY <2>2, <3>1, GhostType
  <2>4. /\ timer_due' \in {timer_due, 0} /\ speed_multiplier' = Clamped(mult)
        /\ alarm' \in {alarm, Never} /\ UNCHANGED api_pause_remaining_ms
    BY <1>40 DEF skyengine_set_speed_multiplier, api_signal
  <2> HIDE DEF Ghosts
  <2> QED
    BY <2>1, <2>3, <2>4
<1> QED
  BY <1>1, <1>2, <1>3, <1>4, <1>5, <1>6, <1>7, <1>8, <1>9, <1>10, <1>11,
     <1>12, <1>13, <1>14, <1>15, <1>16, <1>17, <1>18, <1>19, <1>20, <1>21,
     <1>22, <1>23, <1>24, <1>25, <1>26, <1>27, <1>28, <1>29, <1>30, <1>31,
     <1>32, <1>33, <1>34, <1>35, <1>36, <1>37, <1>38, <1>39, <1>40
  DEF Next, Guest, Worker, CtlBegins, CtlGoesOn, PollExit, Sensor

\* The queue stays a queue of its commands and within its capacity.
LEMMA OfferType ==
  ASSUME NEW X, NEW queue \in Seq(X), Len(queue) <= QueueCap, NEW cmd \in X
  PROVE  Offer(queue, cmd) \in Seq(X) /\ Len(Offer(queue, cmd)) <= QueueCap
<1> USE QueueCapAssumption
<1>1. CASE Coalesces(queue, cmd)
  <2>1. Len(queue) \in 1..Len(queue)
    BY <1>1, EmptySeq DEF Coalesces
  <2>2. /\ [queue EXCEPT ![Len(queue)] = cmd] \in Seq(X)
        /\ Len([queue EXCEPT ![Len(queue)] = cmd]) = Len(queue)
    BY <2>1, ExceptSeq
  <2> QED
    BY <1>1, <2>2 DEF Offer
<1>2. CASE ~Coalesces(queue, cmd) /\ Full(queue)
  BY <1>2 DEF Offer
<1>3. CASE ~Coalesces(queue, cmd) /\ ~Full(queue)
  <2>1. Append(queue, cmd) \in Seq(X) /\ Len(Append(queue, cmd)) = Len(queue) + 1
    BY AppendProperties
  <2> QED
    BY <1>3, <2>1 DEF Offer, Full
<1> QED
  BY <1>1, <1>2, <1>3

\* Stamping a command with its number leaves it a command.
LEMMA StampType ==
  ASSUME NEW cmd \in Commands, NEW n \in Nat
  PROVE  [cmd EXCEPT !.id = n] \in Commands
  BY DEF Commands

LEMMA QueueCommandType ==
  ASSUME CommandsOK, ghost \in Ghosts, NEW cmd \in Commands, QueueCommand(cmd)
  PROVE  api_queue' \in Seq(Commands) /\ Len(api_queue') <= QueueCap /\ job' \in Commands
<1> DEFINE stamped == [cmd EXCEPT !.id = ghost.lastId + 1]
<1>1. stamped \in Commands
  BY StampType DEF Ghosts
<1>2. Offer(api_queue, stamped) \in Seq(Commands) /\ Len(Offer(api_queue, stamped)) <= QueueCap
  BY <1>1, OfferType DEF CommandsOK
<1>3. api_queue' = api_queue \/ api_queue' = Offer(api_queue, stamped)
  BY DEF QueueCommand
<1>4. job' = job
  BY DEF QueueCommand, api_signal, workerVars
<1> QED
  BY <1>2, <1>3, <1>4 DEF CommandsOK

\* The command a host call carries.
LEMMA CommandType ==
  ASSUME ghost \in Ghosts
  PROVE  /\ \A op \in AllHostOps : Command(op) \in Commands
         /\ \A cmd \in Commands : Command(cmd.kind) \in Commands
         /\ NoJob \in Commands
         /\ \A next \in {"init", "destroy"} : [NoJob EXCEPT !.kind = next] \in Commands
         /\ [NoJob EXCEPT !.kind = "timer", !.run = ghost.timerRun] \in Commands
  BY DEF Command, Commands, AllHostOps, Ghosts, NoJob

LEMMA CommandsKept ==
  ASSUME TimesOK, CommandsOK, [Next]_vars
  PROVE  CommandsOK'
<1> USE QueueCapAssumption DEF CommandsOK, runVars, timerVars, engineVars, workerVars, hostVars
<1>1. ASSUME NEW t \in 0..MaxDelay, timerStart(t) PROVE CommandsOK'
  BY <1>1 DEF timerStart, api_signal
<1>2. CASE timerStop
  BY <1>2 DEF timerStop, api_signal
<1>3. CASE editCreate
  BY <1>3 DEF editCreate
<1>4. CASE editRelease
  BY <1>4 DEF editRelease
<1>5. ASSUME NEW request \in {"on", "off"}, guiShake(request) PROVE CommandsOK'
  BY <1>5 DEF guiShake
<1>6. CASE skyengine_request_exit
  BY <1>6 DEF skyengine_request_exit
<1>7. CASE WorkerStops
  BY <1>7 DEF WorkerStops
<1>8. CASE WorkerTakesCommand
  <2>1. api_queue \in Seq(Commands) /\ api_queue # << >>
    BY <1>8 DEF WorkerTakesCommand
  <2>2. /\ Head(api_queue) \in Commands
        /\ Tail(api_queue) \in Seq(Commands)
        /\ Len(Tail(api_queue)) = Len(api_queue) - 1
        /\ Len(api_queue) \in Nat
    BY <2>1, HeadTailProperties
  <2> QED
    BY <1>8, <2>2, QueueCapAssumption DEF WorkerTakesCommand
<1>9. CASE WorkerTakesTimer
  BY <1>9, CommandType DEF WorkerTakesTimer, TimesOK
<1>10. CASE WorkerSleeps
  BY <1>10 DEF WorkerSleeps
<1>11. ASSUME NEW b \in BOOLEAN, WorkerWakes(b) PROVE CommandsOK'
  BY <1>11 DEF WorkerWakes
<1>12. CASE WorkerAnswersEdit
  BY <1>12 DEF WorkerAnswersEdit
<1>13. CASE WorkerDelivers
  BY <1>13 DEF WorkerDelivers
<1>14. CASE WorkerReturns
  BY <1>14 DEF WorkerReturns
<1>15. CASE WorkerFinishes
  <2>1. << >> \in Seq(Commands) /\ Len(<< >>) <= QueueCap
    BY EmptySeq
  <2>2. job' \in Commands /\ ctlArg' = ctlArg
    BY <1>15, CommandType DEF WorkerFinishes, TimesOK
  <2>3. api_queue' = << >> \/ api_queue' = api_queue
    BY <1>15 DEF WorkerFinishes, FinishRun
  <2> QED
    BY <2>1, <2>2, <2>3
<1>16. ASSUME NEW op \in AllHostOps, HostCall(op) PROVE CommandsOK'
  BY <1>16, CommandType DEF HostCall, TimesOK
<1>17. ASSUME NEW next \in {"init", "destroy"}, StopWorker(next) PROVE CommandsOK'
  <2>1. << >> \in Seq(Commands) /\ Len(<< >>) <= QueueCap
    BY EmptySeq
  <2>2. CASE api_thread_started
    <3>1. ctlArg' \in Commands
      BY <1>17, <2>2, CommandType DEF StopWorker, TimesOK
    <3>2. api_queue' = << >> /\ job' = job
      BY <1>17, <2>2 DEF StopWorker, api_signal
    <3> QED
      BY <2>1, <3>1, <3>2
  <2>3. CASE ~api_thread_started
    BY <1>17, <2>3 DEF StopWorker
  <2> QED
    BY <2>2, <2>3
<1>18. CASE Starts
  BY <1>18 DEF Starts
<1>19. CASE CtlLooksForEdit
  BY <1>19, CommandType DEF CtlLooksForEdit, CtlReturns, TimesOK
<1>20. CASE CtlSubmits
  <2>1. /\ api_queue' \in Seq(Commands) /\ Len(api_queue') <= QueueCap
        /\ job' \in Commands
    BY <1>20, QueueCommandType DEF CtlSubmits, TimesOK
  <2> QED
    BY <1>20, <2>1, CommandType DEF CtlSubmits, CtlReturns, TimesOK
<1>21. CASE CtlPauses
  BY <1>21, CommandType DEF CtlPauses, CtlReturns, api_signal, TimesOK
<1>22. CASE CtlResumes
  BY <1>22, CommandType DEF CtlResumes, CtlReturns, api_signal, TimesOK
<1>23. CASE CtlStepsTimer
  BY <1>23, CommandType DEF CtlStepsTimer, CtlReturns, api_signal, TimesOK
<1>24. CASE CtlLeavesDsm
  BY <1>24, CommandType DEF CtlLeavesDsm, CtlReturns, TimesOK
<1>25. CASE JoinWorker
  BY <1>25, CommandType DEF JoinWorker, TimesOK
<1>26. CASE InitResets
  BY <1>26, CommandType, EmptySeq DEF InitResets, CtlReturns, TimesOK
<1>27. CASE InitFails
  BY <1>27, CommandType DEF InitFails, CtlReturns, TimesOK
<1>28. CASE Destroys
  BY <1>28, CommandType DEF Destroys, CtlReturns, TimesOK
<1>29. CASE BootEndsRun
  BY <1>29, CommandType DEF BootEndsRun, CtlReturns, TimesOK
<1>30. CASE BootOpensRun
  BY <1>30, CommandType DEF BootOpensRun, CtlReturns, TimesOK
<1>31. CASE BootFindsNoThread
  BY <1>31, CommandType DEF BootFindsNoThread, CtlReturns, TimesOK
<1>32. CASE PollSeesExit
  BY <1>32 DEF PollSeesExit
<1>33. CASE PollFinishesRun
  BY <1>33, EmptySeq DEF PollFinishesRun, FinishRun, api_signal
<1>34. CASE PollTakesShake
  BY <1>34 DEF PollTakesShake
<1>35. CASE SensorCalls
  BY <1>35 DEF SensorCalls
<1>36. CASE SensorRefused
  BY <1>36 DEF SensorRefused
<1>37. CASE SensorSubmits
  <2>1. Command("motion") \in Commands
    BY CommandType DEF AllHostOps, TimesOK
  <2>2. /\ api_queue' \in Seq(Commands) /\ Len(api_queue') <= QueueCap
        /\ job' \in Commands
    BY <1>37, <2>1, QueueCommandType DEF SensorSubmits, TimesOK
  <2> QED
    BY <1>37, <2>2 DEF SensorSubmits
<1>38. CASE Tick
  BY <1>38 DEF Tick
<1>39. CASE UNCHANGED vars
  BY <1>39 DEF vars
<1>40. ASSUME NEW mult \in Speeds, skyengine_set_speed_multiplier(mult) PROVE CommandsOK'
  BY <1>40 DEF skyengine_set_speed_multiplier, api_signal
<1> QED
  BY <1>1, <1>2, <1>3, <1>4, <1>5, <1>6, <1>7, <1>8, <1>9, <1>10, <1>11,
     <1>12, <1>13, <1>14, <1>15, <1>16, <1>17, <1>18, <1>19, <1>20, <1>21,
     <1>22, <1>23, <1>24, <1>25, <1>26, <1>27, <1>28, <1>29, <1>30, <1>31,
     <1>32, <1>33, <1>34, <1>35, <1>36, <1>37, <1>38, <1>39, <1>40
  DEF Next, Guest, Worker, CtlBegins, CtlGoesOn, PollExit, Sensor

LEMMA InitHolds == Init => TypeOK /\ Lifecycle
<1> SUFFICES ASSUME Init PROVE TypeOK /\ Lifecycle
  OBVIOUS
<1> USE QueueCapAssumption, ConstantsAssumption DEF Init
<1>1. FlagsOK
  BY DEF FlagsOK
<1>2. TimesOK
  BY DEF TimesOK, InitGhost, Ghosts, Never
<1>3. ThreadsOK
  BY DEF ThreadsOK
<1>4. CommandsOK
  <2>1. NoJob \in Commands
    BY DEF NoJob, Commands
  <2> QED
    BY <2>1, EmptySeq DEF CommandsOK
<1>5. Lifecycle
  BY DEF Lifecycle, Leaving
<1> QED
  BY <1>1, <1>2, <1>3, <1>4, <1>5 DEF TypeOK

Safe == TypeOK /\ Lifecycle

LEMMA SafeKept == Safe /\ [Next]_vars => Safe'
  BY LifecycleKept, FlagsKept, ThreadsKept, TimesKept, CommandsKept DEF Safe, TypeOK

LEMMA AlwaysSafe == Spec => []Safe
<1>1. Init => Safe
  BY InitHolds DEF Safe
<1> QED
  BY <1>1, SafeKept, PTL DEF Spec

\* Every variable stays within its type in every reachable state, whatever the
\* bounds: the queue never exceeds API_QUEUE_CAP.
THEOREM TypeCorrect == Spec => []TypeOK
<1>1. Safe => TypeOK
  BY DEF Safe
<1> QED
  BY <1>1, AlwaysSafe, PTL

\* The flags of the life cycle tell the truth about the worker thread.
THEOREM LifecycleHolds == Spec => []Lifecycle
<1>1. Safe => Lifecycle
  BY DEF Safe
<1> QED
  BY <1>1, AlwaysSafe, PTL

\* A run the host believes running has a worker that serves it.
THEOREM RunIsServed == Spec => []RunningRunIsServed
<1>1. Safe => RunningRunIsServed
  BY DEF Safe, Lifecycle, RunningRunIsServed
<1> QED
  BY <1>1, AlwaysSafe, PTL

\* The queue is empty whenever init resets its indices or destroy returns.
THEOREM ResetIsSafe == Spec => []ResetLosesNothing
<1>1. Safe => ResetLosesNothing
  BY DEF Safe, Lifecycle, ResetLosesNothing
<1> QED
  BY <1>1, AlwaysSafe, PTL

-----------------------------------------------------------------------------
(* The worker never sleeps through work.                                   *)

LEMMA WakeupKept ==
  ASSUME TypeOK, Lifecycle, NoLostWakeup, [Next]_vars
  PROVE  NoLostWakeup'
<1> USE DEF NoLostWakeup, TypeOK, FlagsOK, TimesOK, runVars, timerVars, engineVars, workerVars, hostVars
<1>1. ASSUME NEW t \in 0..MaxDelay, timerStart(t) PROVE NoLostWakeup'
  BY <1>1 DEF timerStart, api_signal
<1>2. CASE timerStop
  BY <1>2 DEF timerStop, api_signal
<1>3. CASE editCreate
  BY <1>3 DEF editCreate
<1>4. CASE editRelease
  BY <1>4 DEF editRelease
<1>5. ASSUME NEW request \in {"on", "off"}, guiShake(request) PROVE NoLostWakeup'
  BY <1>5 DEF guiShake
<1>6. CASE skyengine_request_exit
  BY <1>6 DEF skyengine_request_exit
<1>7. CASE WorkerStops
  BY <1>7 DEF WorkerStops
<1>8. CASE WorkerTakesCommand
  BY <1>8 DEF WorkerTakesCommand
<1>9. CASE WorkerTakesTimer
  BY <1>9 DEF WorkerTakesTimer
<1>10. CASE WorkerSleeps
  BY <1>10 DEF WorkerSleeps, Leaving
<1>11. ASSUME NEW b \in BOOLEAN, WorkerWakes(b) PROVE NoLostWakeup'
  BY <1>11 DEF WorkerWakes
<1>12. CASE WorkerAnswersEdit
  BY <1>12 DEF WorkerAnswersEdit
<1>13. CASE WorkerDelivers
  BY <1>13 DEF WorkerDelivers
<1>14. CASE WorkerReturns
  BY <1>14 DEF WorkerReturns
<1>15. CASE WorkerFinishes
  BY <1>15 DEF WorkerFinishes, FinishRun
<1>16. ASSUME NEW op \in AllHostOps, HostCall(op) PROVE NoLostWakeup'
  BY <1>16 DEF HostCall
<1>17. ASSUME NEW next \in {"init", "destroy"}, StopWorker(next) PROVE NoLostWakeup'
  BY <1>17 DEF StopWorker, api_signal
<1>18. CASE Starts
  BY <1>18 DEF Starts
<1>19. CASE CtlLooksForEdit
  BY <1>19 DEF CtlLooksForEdit, CtlReturns
<1>20. CASE CtlSubmits
  BY <1>20 DEF CtlSubmits, CtlReturns, QueueCommand, api_signal, Appends, Offer
<1>21. CASE CtlPauses
  BY <1>21 DEF CtlPauses, CtlReturns, api_signal
<1>22. CASE CtlResumes
  BY <1>22 DEF CtlResumes, CtlReturns, api_signal
<1>23. CASE CtlStepsTimer
  BY <1>23 DEF CtlStepsTimer, CtlReturns, api_signal
<1>24. CASE CtlLeavesDsm
  BY <1>24 DEF CtlLeavesDsm, CtlReturns
<1>25. CASE JoinWorker
  BY <1>25 DEF JoinWorker
<1>26. CASE InitResets
  BY <1>26 DEF InitResets, CtlReturns
<1>27. CASE InitFails
  BY <1>27 DEF InitFails, CtlReturns
<1>28. CASE Destroys
  BY <1>28 DEF Destroys, CtlReturns, Lifecycle
<1>29. CASE BootEndsRun
  BY <1>29 DEF BootEndsRun, CtlReturns
<1>30. CASE BootOpensRun
  BY <1>30 DEF BootOpensRun, CtlReturns
<1>31. CASE BootFindsNoThread
  BY <1>31 DEF BootFindsNoThread, CtlReturns
<1>32. CASE PollSeesExit
  BY <1>32 DEF PollSeesExit
<1>33. CASE PollFinishesRun
  BY <1>33 DEF PollFinishesRun, FinishRun, api_signal
<1>34. CASE PollTakesShake
  BY <1>34 DEF PollTakesShake
<1>35. CASE SensorCalls
  BY <1>35 DEF SensorCalls
<1>36. CASE SensorRefused
  BY <1>36 DEF SensorRefused
<1>37. CASE SensorSubmits
  BY <1>37 DEF SensorSubmits, QueueCommand, api_signal, Appends, Offer
<1>38. CASE Tick
  BY <1>38 DEF Tick, MinusOneTick, Never
<1>39. CASE UNCHANGED vars
  BY <1>39 DEF vars
<1>40. ASSUME NEW mult \in Speeds, skyengine_set_speed_multiplier(mult) PROVE NoLostWakeup'
  BY <1>40 DEF skyengine_set_speed_multiplier, api_signal
<1> QED
  BY <1>1, <1>2, <1>3, <1>4, <1>5, <1>6, <1>7, <1>8, <1>9, <1>10, <1>11,
     <1>12, <1>13, <1>14, <1>15, <1>16, <1>17, <1>18, <1>19, <1>20, <1>21,
     <1>22, <1>23, <1>24, <1>25, <1>26, <1>27, <1>28, <1>29, <1>30, <1>31,
     <1>32, <1>33, <1>34, <1>35, <1>36, <1>37, <1>38, <1>39, <1>40
  DEF Next, Guest, Worker, CtlBegins, CtlGoesOn, PollExit, Sensor

\* Whoever gives the worker something to do wakes it, and its timed wait ends
\* when the guest's timer is due.
THEOREM NoWakeupIsLost == Spec => []NoLostWakeup
<1>1. Init => NoLostWakeup
  BY DEF Init, NoLostWakeup
<1>2. Safe /\ NoLostWakeup /\ [Next]_vars => NoLostWakeup'
  BY WakeupKept DEF Safe
<1> QED
  BY <1>1, <1>2, AlwaysSafe, PTL DEF Spec

-----------------------------------------------------------------------------
(* Pauses keep the guest's timer.                                          *)

\* The claim of PauseKeepsTimer, also while the run boots.
TimerKept ==
  phase \in {"ready", "up"} /\ api_timer_active =>
    /\ Left >= ghost.owed
    /\ ghost.inPause \/ Left = ghost.owed

LEMMA TimerKeptKept ==
  ASSUME TypeOK, Lifecycle, TimerKept, [Next]_vars
  PROVE  TimerKept'
<1> USE DEF TimerKept, Left, TypeOK, FlagsOK, TimesOK, Ghosts, NoClaim, runVars, timerVars, engineVars, workerVars, hostVars
<1>1. ASSUME NEW t \in 0..MaxDelay, timerStart(t) PROVE TimerKept'
  <2>1. /\ ghost'.owed = Scaled(t) /\ ghost'.inPause = (api_paused /\ Scaled(t) # t)
        /\ timer_due' = (IF api_paused THEN timer_due ELSE Scaled(t))
        /\ api_pause_remaining_ms' = t /\ api_paused' = api_paused
    BY <1>1 DEF timerStart, Claim
  <2>2. Scaled(t) <= t /\ Scaled(t) \in Nat
    BY ScaledType, ConstantsAssumption
  <2> QED
    BY <2>1, <2>2
<1>2. CASE timerStop
  BY <1>2 DEF timerStop, api_signal
<1>3. CASE editCreate
  BY <1>3 DEF editCreate
<1>4. CASE editRelease
  BY <1>4 DEF editRelease
<1>5. ASSUME NEW request \in {"on", "off"}, guiShake(request) PROVE TimerKept'
  BY <1>5 DEF guiShake
<1>6. CASE skyengine_request_exit
  BY <1>6 DEF skyengine_request_exit
<1>7. CASE WorkerStops
  BY <1>7 DEF WorkerStops
<1>8. CASE WorkerTakesCommand
  BY <1>8 DEF WorkerTakesCommand
<1>9. CASE WorkerTakesTimer
  BY <1>9 DEF WorkerTakesTimer
<1>10. CASE WorkerSleeps
  BY <1>10 DEF WorkerSleeps
<1>11. ASSUME NEW b \in BOOLEAN, WorkerWakes(b) PROVE TimerKept'
  BY <1>11 DEF WorkerWakes
<1>12. CASE WorkerAnswersEdit
  BY <1>12 DEF WorkerAnswersEdit
<1>13. CASE WorkerDelivers
  BY <1>13 DEF WorkerDelivers
<1>14. CASE WorkerReturns
  BY <1>14 DEF WorkerReturns
<1>15. CASE WorkerFinishes
  BY <1>15 DEF WorkerFinishes, FinishRun
<1>16. ASSUME NEW op \in AllHostOps, HostCall(op) PROVE TimerKept'
  BY <1>16 DEF HostCall
<1>17. ASSUME NEW next \in {"init", "destroy"}, StopWorker(next) PROVE TimerKept'
  BY <1>17 DEF StopWorker, api_signal
<1>18. CASE Starts
  BY <1>18 DEF Starts
<1>19. CASE CtlLooksForEdit
  BY <1>19 DEF CtlLooksForEdit, CtlReturns
<1>20. CASE CtlSubmits
  BY <1>20 DEF CtlSubmits, CtlReturns, QueueCommand, api_signal
<1>21. CASE CtlPauses
  BY <1>21 DEF CtlPauses, CtlReturns, api_signal
<1>22. CASE CtlResumes
  BY <1>22 DEF CtlResumes, CtlReturns, api_signal
<1>23. CASE CtlStepsTimer
  BY <1>23 DEF CtlStepsTimer, CtlReturns, api_signal
<1>24. CASE CtlLeavesDsm
  BY <1>24 DEF CtlLeavesDsm, CtlReturns
<1>25. CASE JoinWorker
  BY <1>25 DEF JoinWorker
<1>26. CASE InitResets
  BY <1>26 DEF InitResets, CtlReturns
<1>27. CASE InitFails
  BY <1>27 DEF InitFails, CtlReturns
<1>28. CASE Destroys
  <2>1. phase' = "down"
    BY <1>28 DEF Destroys
  <2> QED
    BY <2>1
<1>29. CASE BootEndsRun
  BY <1>29 DEF BootEndsRun, CtlReturns
<1>30. CASE BootOpensRun
  BY <1>30 DEF BootOpensRun, CtlReturns, Lifecycle
<1>31. CASE BootFindsNoThread
  BY <1>31 DEF BootFindsNoThread, CtlReturns
<1>32. CASE PollSeesExit
  BY <1>32 DEF PollSeesExit
<1>33. CASE PollFinishesRun
  BY <1>33 DEF PollFinishesRun, FinishRun, api_signal
<1>34. CASE PollTakesShake
  BY <1>34 DEF PollTakesShake
<1>35. CASE SensorCalls
  BY <1>35 DEF SensorCalls
<1>36. CASE SensorRefused
  BY <1>36 DEF SensorRefused
<1>37. CASE SensorSubmits
  BY <1>37 DEF SensorSubmits, QueueCommand, api_signal
<1>38. CASE Tick
  BY <1>38 DEF Tick, MinusOneTick
<1>39. CASE UNCHANGED vars
  BY <1>39 DEF vars
<1>40. ASSUME NEW mult \in Speeds, skyengine_set_speed_multiplier(mult) PROVE TimerKept'
  BY <1>40 DEF skyengine_set_speed_multiplier, api_signal
<1> QED
  BY <1>1, <1>2, <1>3, <1>4, <1>5, <1>6, <1>7, <1>8, <1>9, <1>10, <1>11,
     <1>12, <1>13, <1>14, <1>15, <1>16, <1>17, <1>18, <1>19, <1>20, <1>21,
     <1>22, <1>23, <1>24, <1>25, <1>26, <1>27, <1>28, <1>29, <1>30, <1>31,
     <1>32, <1>33, <1>34, <1>35, <1>36, <1>37, <1>38, <1>39, <1>40
  DEF Next, Guest, Worker, CtlBegins, CtlGoesOn, PollExit, Sensor

\* Pauses and changes of speed neither lose nor shorten the guest's timer, and stretch
\* none but one that is armed or hurried in a pause (timerStart with its patch,
\* skyengine_api_pause, skyengine_api_resume, skyengine_set_speed_multiplier).
THEOREM PausesKeepTimer == Spec => []PauseKeepsTimer
<1>1. Init => TimerKept
  BY DEF Init, TimerKept
<1>2. Safe /\ TimerKept /\ [Next]_vars => TimerKept'
  BY TimerKeptKept DEF Safe
<1>3. TimerKept => PauseKeepsTimer
  BY DEF TimerKept, PauseKeepsTimer
<1> QED
  BY <1>1, <1>2, <1>3, AlwaysSafe, PTL DEF Spec

-----------------------------------------------------------------------------
(* One thread in the engine, as long as the host makes no start_dsm call.  *)

\* Only a host that calls start_dsmB, dsmC or dsm_ex is ever inside one.
NoDsm == "dsm" \in HostOps \/ ctlPc # "dsm"

LEMMA NoDsmKept ==
  ASSUME Lifecycle, NoDsm, [Next]_vars
  PROVE  NoDsm'
<1> USE DEF NoDsm, runVars, timerVars, engineVars, workerVars, hostVars
<1>1. ASSUME NEW t \in 0..MaxDelay, timerStart(t) PROVE NoDsm'
  BY <1>1 DEF timerStart, api_signal
<1>2. CASE timerStop
  BY <1>2 DEF timerStop, api_signal
<1>3. CASE editCreate
  BY <1>3 DEF editCreate
<1>4. CASE editRelease
  BY <1>4 DEF editRelease
<1>5. ASSUME NEW request \in {"on", "off"}, guiShake(request) PROVE NoDsm'
  BY <1>5 DEF guiShake
<1>6. CASE skyengine_request_exit
  BY <1>6 DEF skyengine_request_exit
<1>7. CASE WorkerStops
  BY <1>7 DEF WorkerStops
<1>8. CASE WorkerTakesCommand
  BY <1>8 DEF WorkerTakesCommand
<1>9. CASE WorkerTakesTimer
  BY <1>9 DEF WorkerTakesTimer
<1>10. CASE WorkerSleeps
  BY <1>10 DEF WorkerSleeps
<1>11. ASSUME NEW b \in BOOLEAN, WorkerWakes(b) PROVE NoDsm'
  BY <1>11 DEF WorkerWakes
<1>12. CASE WorkerAnswersEdit
  BY <1>12 DEF WorkerAnswersEdit
<1>13. CASE WorkerDelivers
  BY <1>13 DEF WorkerDelivers
<1>14. CASE WorkerReturns
  BY <1>14 DEF WorkerReturns
<1>15. CASE WorkerFinishes
  BY <1>15 DEF WorkerFinishes, FinishRun
<1>16. ASSUME NEW op \in AllHostOps, HostCall(op) PROVE NoDsm'
  BY <1>16 DEF HostCall, Body, AllHostOps
<1>17. ASSUME NEW next \in {"init", "destroy"}, StopWorker(next) PROVE NoDsm'
  BY <1>17 DEF StopWorker, api_signal
<1>18. CASE Starts
  BY <1>18 DEF Starts
<1>19. CASE CtlLooksForEdit
  BY <1>19 DEF CtlLooksForEdit, CtlReturns
<1>20. CASE CtlSubmits
  BY <1>20 DEF CtlSubmits, CtlReturns, QueueCommand, api_signal
<1>21. CASE CtlPauses
  BY <1>21 DEF CtlPauses, CtlReturns, api_signal
<1>22. CASE CtlResumes
  BY <1>22 DEF CtlResumes, CtlReturns, api_signal
<1>23. CASE CtlStepsTimer
  BY <1>23 DEF CtlStepsTimer, CtlReturns, api_signal
<1>24. CASE CtlLeavesDsm
  BY <1>24 DEF CtlLeavesDsm, CtlReturns
<1>25. CASE JoinWorker
  BY <1>25 DEF JoinWorker, Lifecycle
<1>26. CASE InitResets
  BY <1>26 DEF InitResets, CtlReturns
<1>27. CASE InitFails
  BY <1>27 DEF InitFails, CtlReturns
<1>28. CASE Destroys
  BY <1>28 DEF Destroys, CtlReturns
<1>29. CASE BootEndsRun
  BY <1>29 DEF BootEndsRun, CtlReturns
<1>30. CASE BootOpensRun
  BY <1>30 DEF BootOpensRun, CtlReturns
<1>31. CASE BootFindsNoThread
  BY <1>31 DEF BootFindsNoThread, CtlReturns
<1>32. CASE PollSeesExit
  BY <1>32 DEF PollSeesExit
<1>33. CASE PollFinishesRun
  BY <1>33 DEF PollFinishesRun, FinishRun, api_signal
<1>34. CASE PollTakesShake
  BY <1>34 DEF PollTakesShake
<1>35. CASE SensorCalls
  BY <1>35 DEF SensorCalls
<1>36. CASE SensorRefused
  BY <1>36 DEF SensorRefused
<1>37. CASE SensorSubmits
  BY <1>37 DEF SensorSubmits, QueueCommand, api_signal
<1>38. CASE Tick
  BY <1>38 DEF Tick
<1>39. CASE UNCHANGED vars
  BY <1>39 DEF vars
<1>40. ASSUME NEW mult \in Speeds, skyengine_set_speed_multiplier(mult) PROVE NoDsm'
  BY <1>40 DEF skyengine_set_speed_multiplier, api_signal
<1> QED
  BY <1>1, <1>2, <1>3, <1>4, <1>5, <1>6, <1>7, <1>8, <1>9, <1>10, <1>11,
     <1>12, <1>13, <1>14, <1>15, <1>16, <1>17, <1>18, <1>19, <1>20, <1>21,
     <1>22, <1>23, <1>24, <1>25, <1>26, <1>27, <1>28, <1>29, <1>30, <1>31,
     <1>32, <1>33, <1>34, <1>35, <1>36, <1>37, <1>38, <1>39, <1>40
  DEF Next, Guest, Worker, CtlBegins, CtlGoesOn, PollExit, Sensor

\* Without start_dsm calls no two threads are ever inside the engine, and nobody
\* tears it down or boots it under a dispatch.
THEOREM OneThread ==
  ASSUME "dsm" \notin HostOps
  PROVE  Spec => []OneThreadInEngine
<1>1. Init => NoDsm
  BY DEF Init, NoDsm
<1>2. Safe /\ NoDsm /\ [Next]_vars => NoDsm'
  BY NoDsmKept DEF Safe
<1>3. Safe /\ NoDsm => OneThreadInEngine
  BY DEF Safe, Lifecycle, NoDsm, OneThreadInEngine
<1> QED
  BY <1>1, <1>2, <1>3, AlwaysSafe, PTL DEF Spec

-----------------------------------------------------------------------------
(* The runner implements Session.                                          *)

LEMMA StepRefines ==
  ASSUME TypeOK, Lifecycle, [Next]_vars
  PROVE  [S!Next]_(S!vars)
<1> USE DEF Lifecycle, FlagsOK, TypeOK, Leaving, runState, driver, S!vars, S!Next, runVars, timerVars, engineVars, workerVars, hostVars
<1>1. ASSUME NEW t \in 0..MaxDelay, timerStart(t) PROVE [S!Next]_(S!vars)
  BY <1>1 DEF timerStart, api_signal
<1>2. CASE timerStop
  BY <1>2 DEF timerStop, api_signal
<1>3. CASE editCreate
  BY <1>3 DEF editCreate
<1>4. CASE editRelease
  BY <1>4 DEF editRelease
<1>5. ASSUME NEW request \in {"on", "off"}, guiShake(request) PROVE [S!Next]_(S!vars)
  BY <1>5 DEF guiShake
<1>6. CASE skyengine_request_exit
  BY <1>6 DEF skyengine_request_exit
<1>7. CASE WorkerStops
  BY <1>7 DEF WorkerStops
<1>8. CASE WorkerTakesCommand
  BY <1>8 DEF WorkerTakesCommand, S!Take
<1>9. CASE WorkerTakesTimer
  BY <1>9 DEF WorkerTakesTimer, S!Take
<1>10. CASE WorkerSleeps
  BY <1>10 DEF WorkerSleeps
<1>11. ASSUME NEW b \in BOOLEAN, WorkerWakes(b) PROVE [S!Next]_(S!vars)
  BY <1>11 DEF WorkerWakes
<1>12. CASE WorkerAnswersEdit
  BY <1>12 DEF WorkerAnswersEdit, S!Leave
<1>13. CASE WorkerDelivers
  BY <1>13 DEF WorkerDelivers, S!Enter, S!Leave
<1>14. CASE WorkerReturns
  BY <1>14 DEF WorkerReturns, S!Leave
<1>15. CASE WorkerFinishes
  <2>1. ctlPc # "boot" /\ ctlPc' = ctlPc
    BY <1>15 DEF WorkerFinishes
  <2>2. /\ driver' = driver
        /\ (workerPc \in {"apply", "deliver", "engine"})'
             = (workerPc \in {"apply", "deliver", "engine"})
    BY <1>15, <2>1 DEF WorkerFinishes
  <2>3. runState' = runState \/ (runState = "open" /\ runState' = "shut")
    BY <1>15, <2>1 DEF WorkerFinishes, FinishRun
  <2> HIDE DEF runState, driver
  <2> QED
    BY <2>2, <2>3 DEF S!Close
<1>16. ASSUME NEW op \in AllHostOps, HostCall(op) PROVE [S!Next]_(S!vars)
  BY <1>16 DEF HostCall, S!Close, Body, AllHostOps
<1>17. ASSUME NEW next \in {"init", "destroy"}, StopWorker(next) PROVE [S!Next]_(S!vars)
  BY <1>17 DEF StopWorker, api_signal, S!Close
<1>18. CASE Starts
  BY <1>18 DEF Starts, S!Boot
<1>19. CASE CtlLooksForEdit
  BY <1>19 DEF CtlLooksForEdit, CtlReturns
<1>20. CASE CtlSubmits
  BY <1>20 DEF CtlSubmits, CtlReturns, QueueCommand, api_signal
<1>21. CASE CtlPauses
  BY <1>21 DEF CtlPauses, CtlReturns, api_signal
<1>22. CASE CtlResumes
  BY <1>22 DEF CtlResumes, CtlReturns, api_signal
<1>23. CASE CtlStepsTimer
  BY <1>23 DEF CtlStepsTimer, CtlReturns, api_signal
<1>24. CASE CtlLeavesDsm
  BY <1>24 DEF CtlLeavesDsm, CtlReturns
<1>25. CASE JoinWorker
  BY <1>25 DEF JoinWorker
<1>26. CASE InitResets
  BY <1>26 DEF InitResets, CtlReturns
<1>27. CASE InitFails
  BY <1>27 DEF InitFails, CtlReturns
<1>28. CASE Destroys
  BY <1>28 DEF Destroys, CtlReturns
<1>29. CASE BootEndsRun
  BY <1>29 DEF BootEndsRun, CtlReturns, S!BootEnds
<1>30. CASE BootOpensRun
  BY <1>30 DEF BootOpensRun, CtlReturns, S!BootEnds
<1>31. CASE BootFindsNoThread
  BY <1>31 DEF BootFindsNoThread, CtlReturns, S!BootEnds
<1>32. CASE PollSeesExit
  BY <1>32 DEF PollSeesExit
<1>33. CASE PollFinishesRun
  BY <1>33 DEF PollFinishesRun, FinishRun, api_signal, S!Close
<1>34. CASE PollTakesShake
  BY <1>34 DEF PollTakesShake
<1>35. CASE SensorCalls
  BY <1>35 DEF SensorCalls
<1>36. CASE SensorRefused
  BY <1>36 DEF SensorRefused, S!Close
<1>37. CASE SensorSubmits
  BY <1>37 DEF SensorSubmits, QueueCommand, api_signal
<1>38. CASE Tick
  BY <1>38 DEF Tick
<1>39. CASE UNCHANGED vars
  BY <1>39 DEF vars
<1>40. ASSUME NEW mult \in Speeds, skyengine_set_speed_multiplier(mult) PROVE [S!Next]_(S!vars)
  BY <1>40 DEF skyengine_set_speed_multiplier, api_signal
<1> QED
  BY <1>1, <1>2, <1>3, <1>4, <1>5, <1>6, <1>7, <1>8, <1>9, <1>10, <1>11,
     <1>12, <1>13, <1>14, <1>15, <1>16, <1>17, <1>18, <1>19, <1>20, <1>21,
     <1>22, <1>23, <1>24, <1>25, <1>26, <1>27, <1>28, <1>29, <1>30, <1>31,
     <1>32, <1>33, <1>34, <1>35, <1>36, <1>37, <1>38, <1>39, <1>40
  DEF Next, Guest, Worker, CtlBegins, CtlGoesOn, PollExit, Sensor

\* Whatever the host, the guest and the threads do, a run is driven as Session
\* says: the boot and the worker never overlap, and after a stop or an exit the
\* worker finishes at most the dispatch it holds before the next run boots.
THEOREM RunnerImplementsSession == Spec => KeepsSession
<1>1. Init => S!Init
  BY DEF Init, S!Init, runState, driver
<1>2. Safe /\ [Next]_vars => [S!Next]_(S!vars)
  BY StepRefines DEF Safe
<1> QED
  BY <1>1, <1>2, AlwaysSafe, PTL DEF Spec, KeepsSession, S!Spec

-----------------------------------------------------------------------------
(* What the queue's operations do to its elements.                         *)

\* Offer changes nothing, or puts the command last; the others stay in place.
LEMMA OfferElements ==
  ASSUME NEW queue \in Seq(Commands), NEW cmd \in Commands
  PROVE  /\ Offer(queue, cmd) \in Seq(Commands)
         /\ \A i \in 1..Len(Offer(queue, cmd)) :
              i # Len(Offer(queue, cmd)) =>
                i \in 1..Len(queue) /\ Offer(queue, cmd)[i] = queue[i]
         /\ Offer(queue, cmd) = queue
            \/ /\ Len(Offer(queue, cmd)) \in 1..Len(Offer(queue, cmd))
               /\ Offer(queue, cmd)[Len(Offer(queue, cmd))] = cmd
<1>1. CASE Coalesces(queue, cmd)
  <2>1. Len(queue) \in 1..Len(queue)
    BY <1>1, EmptySeq DEF Coalesces
  <2>2. Offer(queue, cmd) = [queue EXCEPT ![Len(queue)] = cmd]
    BY <1>1 DEF Offer
  <2>3. /\ [queue EXCEPT ![Len(queue)] = cmd] \in Seq(Commands)
        /\ Len([queue EXCEPT ![Len(queue)] = cmd]) = Len(queue)
        /\ \A i \in 1..Len(queue) :
             [queue EXCEPT ![Len(queue)] = cmd][i] = IF i = Len(queue) THEN cmd ELSE queue[i]
    BY <2>1, ExceptSeq
  <2> DEFINE new == Offer(queue, cmd)
  <2>4. /\ new \in Seq(Commands) /\ Len(new) = Len(queue)
        /\ \A i \in 1..Len(queue) : new[i] = IF i = Len(queue) THEN cmd ELSE queue[i]
    BY <2>2, <2>3
  <2> HIDE DEF new
  <2>5. /\ new \in Seq(Commands)
        /\ \A i \in 1..Len(new) : i # Len(new) => i \in 1..Len(queue) /\ new[i] = queue[i]
        /\ Len(new) \in 1..Len(new) /\ new[Len(new)] = cmd
    BY <2>1, <2>4
  <2> QED
    BY <2>5 DEF new
<1>2. CASE ~Coalesces(queue, cmd) /\ Full(queue)
  <2>1. Offer(queue, cmd) = queue
    BY <1>2 DEF Offer
  <2> QED
    BY <2>1
<1>3. CASE ~Coalesces(queue, cmd) /\ ~Full(queue)
  <2>1. Offer(queue, cmd) = Append(queue, cmd)
    BY <1>3 DEF Offer
  <2>2. /\ Append(queue, cmd) \in Seq(Commands)
        /\ Len(Append(queue, cmd)) = Len(queue) + 1
        /\ \A i \in 1..Len(queue) : Append(queue, cmd)[i] = queue[i]
        /\ Append(queue, cmd)[Len(queue) + 1] = cmd
    BY AppendProperties
  <2>3. Len(queue) \in Nat
    BY LenProperties
  <2>4. \A i \in 1..(Len(queue) + 1) : i # Len(queue) + 1 => i \in 1..Len(queue)
    BY <2>3
  <2>5. Len(queue) + 1 \in 1..(Len(queue) + 1)
    BY <2>3
  <2> QED
    BY <2>1, <2>2, <2>4, <2>5
<1> QED
  BY <1>1, <1>2, <1>3

\* api_queue_command leaves the queue alone or puts a command last whose id is new.
LEMMA QueueCommandElements ==
  ASSUME TypeOK, NEW cmd \in Commands, QueueCommand(cmd)
  PROVE  /\ api_queue' \in Seq(Commands)
         /\ \/ api_queue' = api_queue /\ ghost' = ghost
            \/ /\ \A i \in 1..Len(api_queue') :
                    i # Len(api_queue') =>
                      i \in 1..Len(api_queue) /\ api_queue'[i] = api_queue[i]
               /\ Len(api_queue') \in 1..Len(api_queue')
               /\ api_queue'[Len(api_queue')] = [cmd EXCEPT !.id = ghost.lastId + 1]
               /\ ghost' = [ghost EXCEPT !.lastId = @ + 1]
         /\ job' = job
<1> DEFINE stamped == [cmd EXCEPT !.id = ghost.lastId + 1]
<1>1. stamped \in Commands /\ api_queue \in Seq(Commands)
  <2>1. ghost.lastId \in Nat /\ api_queue \in Seq(Commands)
    BY DEF TypeOK, TimesOK, Ghosts, CommandsOK
  <2>2. ghost.lastId + 1 \in Nat
    BY <2>1
  <2> QED
    BY <2>1, <2>2 DEF Commands
<1>2. stamped.id = ghost.lastId + 1
  BY DEF Commands
<1>3. CASE Leaving
  BY <1>1, <1>3 DEF QueueCommand, workerVars
<1>4. CASE ~Leaving
  <2>1. /\ api_queue' = Offer(api_queue, stamped)
        /\ ghost' = IF api_queue' = api_queue THEN ghost
                    ELSE [ghost EXCEPT !.lastId = stamped.id]
        /\ job' = job
    BY <1>4 DEF QueueCommand, api_signal, workerVars
  <2> HIDE DEF stamped
  <2>2. /\ Offer(api_queue, stamped) \in Seq(Commands)
        /\ \A i \in 1..Len(Offer(api_queue, stamped)) :
             i # Len(Offer(api_queue, stamped)) =>
               i \in 1..Len(api_queue) /\ Offer(api_queue, stamped)[i] = api_queue[i]
        /\ Offer(api_queue, stamped) = api_queue
           \/ /\ Len(Offer(api_queue, stamped)) \in 1..Len(Offer(api_queue, stamped))
              /\ Offer(api_queue, stamped)[Len(Offer(api_queue, stamped))] = stamped
    BY <1>1, OfferElements
  <2>3. stamped = [cmd EXCEPT !.id = ghost.lastId + 1]
    BY DEF stamped
  <2> QED
    BY <1>2, <2>1, <2>2, <2>3
<1> QED
  BY <1>3, <1>4

\* The head is taken and the others move up.
LEMMA TakeElements ==
  ASSUME TypeOK, WorkerTakesCommand
  PROVE  /\ 1 \in 1..Len(api_queue) /\ job' = api_queue[1]
         /\ \A i \in 1..Len(api_queue') :
              i + 1 \in 1..Len(api_queue) /\ api_queue'[i] = api_queue[i + 1]
<1>1. api_queue \in Seq(Commands) /\ api_queue # << >>
  BY DEF WorkerTakesCommand, TypeOK, CommandsOK
<1>2. /\ Len(api_queue) \in Nat /\ Len(api_queue) > 0
      /\ Head(api_queue) = api_queue[1]
      /\ Tail(api_queue) \in Seq(Commands)
      /\ Len(Tail(api_queue)) = Len(api_queue) - 1
      /\ \A i \in 1..(Len(api_queue) - 1) : Tail(api_queue)[i] = api_queue[i + 1]
  BY <1>1, EmptySeq, LenProperties, HeadTailProperties
<1> QED
  BY <1>2 DEF WorkerTakesCommand

-----------------------------------------------------------------------------
(* Nothing of an earlier run reaches a later one.                          *)

\* Commands, jobs and the timer belong to the run they are used in; a call that
\* is under way holds a command of this run, and init leaves no timer behind.
RunsAgree ==
  /\ \A i \in 1..Len(api_queue) : api_queue[i].run = ghost.run
  /\ job # NoJob => job.run = ghost.run
  /\ workerPc \notin {"apply", "deliver", "engine", "finish"} => job = NoJob
  /\ ctlPc \in {"submit", "edit"} => ctlArg.run = ghost.run
  /\ phase = "ready" => ctlPc \in {"idle", "boot"}
  /\ phase = "ready" /\ ctlPc = "idle" => ~api_timer_active
  /\ phase \in {"ready", "up"} /\ api_timer_active => ghost.timerRun = ghost.run

LEMMA RunsAgreeKept ==
  ASSUME TypeOK, Lifecycle, RunsAgree, [Next]_vars
  PROVE  RunsAgree'
<1> USE DEF RunsAgree, runVars, timerVars, engineVars, workerVars, hostVars
<1>0. ghost \in Ghosts /\ api_queue \in Seq(Commands) /\ job \in Commands /\ ctlArg \in Commands
  BY DEF TypeOK, TimesOK, CommandsOK
<1>1. ASSUME NEW t \in 0..MaxDelay, timerStart(t) PROVE RunsAgree'
  <2>1. ghost'.run = ghost.run /\ ghost'.timerRun = ghost.run
    BY <1>1, <1>0 DEF timerStart, Claim, Ghosts
  <2>2. phase = "ready" => ctlPc # "idle"
    BY <1>1 DEF timerStart, InGuest, Lifecycle
  <2> QED
    BY <1>1, <2>1, <2>2 DEF timerStart, api_signal
<1>2. CASE timerStop
  BY <1>2, <1>0 DEF timerStop, api_signal, NoClaim, Ghosts
<1>3. CASE editCreate
  BY <1>3, <1>0 DEF editCreate, Ghosts
<1>4. CASE editRelease
  BY <1>4 DEF editRelease
<1>5. ASSUME NEW request \in {"on", "off"}, guiShake(request) PROVE RunsAgree'
  BY <1>5 DEF guiShake
<1>6. CASE skyengine_request_exit
  BY <1>6 DEF skyengine_request_exit
<1>7. CASE WorkerStops
  BY <1>7 DEF WorkerStops, Lifecycle
<1>8. CASE WorkerTakesCommand
  <2>1. /\ 1 \in 1..Len(api_queue) /\ job' = api_queue[1]
        /\ \A i \in 1..Len(api_queue') :
             i + 1 \in 1..Len(api_queue) /\ api_queue'[i] = api_queue[i + 1]
    BY <1>8, TakeElements
  <2>2. ghost'.run = ghost.run /\ ghost'.timerRun = ghost.timerRun
    BY <1>8, <1>0 DEF WorkerTakesCommand, Ghosts
  <2> QED
    BY <1>8, <2>1, <2>2 DEF WorkerTakesCommand
<1>9. CASE WorkerTakesTimer
  <2>1. phase = "up"
    BY <1>9 DEF WorkerTakesTimer, Leaving, Lifecycle, TypeOK, ThreadsOK
  <2>2. /\ ghost'.run = ghost.run /\ ghost'.timerRun = ghost.timerRun
        /\ job'.run = ghost.timerRun
    BY <1>9, <1>0 DEF WorkerTakesTimer, NoClaim, Ghosts, NoJob
  <2> QED
    BY <1>9, <2>1, <2>2 DEF WorkerTakesTimer
<1>10. CASE WorkerSleeps
  BY <1>10 DEF WorkerSleeps
<1>11. ASSUME NEW b \in BOOLEAN, WorkerWakes(b) PROVE RunsAgree'
  BY <1>11 DEF WorkerWakes
<1>12. CASE WorkerAnswersEdit
  BY <1>12, <1>0 DEF WorkerAnswersEdit, Ghosts
<1>13. CASE WorkerDelivers
  BY <1>13 DEF WorkerDelivers
<1>14. CASE WorkerReturns
  BY <1>14 DEF WorkerReturns
<1>15. CASE WorkerFinishes
  <2>1. NoClaim.run = ghost.run /\ NoClaim.timerRun = ghost.timerRun
    BY <1>0 DEF NoClaim, Ghosts
  <2> QED
    BY <1>15, <2>1, EmptySeq DEF WorkerFinishes, FinishRun
<1>16. ASSUME NEW op \in AllHostOps, HostCall(op) PROVE RunsAgree'
  <2>1. CASE Alive
    <3>1. /\ ctlPc' = Body(op) /\ ctlArg'.run = ghost.run
          /\ phase' = phase /\ phase # "ready"
      BY <1>16, <2>1 DEF HostCall, Alive, Command, Lifecycle
    <3> QED
      BY <1>16, <3>1 DEF HostCall
  <2>2. CASE ~Alive
    BY <1>16, <2>2 DEF HostCall
  <2> QED
    BY <2>1, <2>2
<1>17. ASSUME NEW next \in {"init", "destroy"}, StopWorker(next) PROVE RunsAgree'
  <2>1. NoClaim.run = ghost.run /\ NoClaim.timerRun = ghost.timerRun
    BY <1>0 DEF NoClaim, Ghosts
  <2> QED
    BY <1>17, <2>1, EmptySeq DEF StopWorker, api_signal
<1>18. CASE Starts
  BY <1>18, <1>0, EmptySeq DEF Starts, Ghosts, Lifecycle
<1>19. CASE CtlLooksForEdit
  BY <1>19, <1>0 DEF CtlLooksForEdit, CtlReturns, Command
<1>20. CASE CtlSubmits
  <2>1. QueueCommand(ctlArg) /\ ctlArg \in Commands /\ ctlArg.run = ghost.run
    BY <1>20, <1>0 DEF CtlSubmits
  <2>2. /\ [ctlArg EXCEPT !.id = ghost.lastId + 1].run = ghost.run
        /\ [ghost EXCEPT !.lastId = @ + 1].run = ghost.run
        /\ [ghost EXCEPT !.lastId = @ + 1].timerRun = ghost.timerRun
    BY <1>0, <2>1 DEF Commands, Ghosts
  <2>3. /\ \A i \in 1..Len(api_queue') : api_queue'[i].run = ghost.run
        /\ ghost'.run = ghost.run /\ ghost'.timerRun = ghost.timerRun
        /\ job' = job
    BY <2>1, <2>2, QueueCommandElements
  <2> QED
    BY <1>20, <2>3 DEF CtlSubmits, CtlReturns, QueueCommand, api_signal
<1>21. CASE CtlPauses
  BY <1>21 DEF CtlPauses, CtlReturns, api_signal
<1>22. CASE CtlResumes
  BY <1>22 DEF CtlResumes, CtlReturns, api_signal
<1>23. CASE CtlStepsTimer
  BY <1>23, <1>0 DEF CtlStepsTimer, CtlReturns, api_signal, NoClaim, Ghosts
<1>24. CASE CtlLeavesDsm
  BY <1>24 DEF CtlLeavesDsm, CtlReturns
<1>25. CASE JoinWorker
  BY <1>25, <1>0 DEF JoinWorker, Lifecycle
<1>26. CASE InitResets
  BY <1>26, <1>0, EmptySeq DEF InitResets, CtlReturns, NoClaim, Ghosts
<1>27. CASE InitFails
  BY <1>27 DEF InitFails, CtlReturns
<1>28. CASE Destroys
  BY <1>28 DEF Destroys, CtlReturns
<1>29. CASE BootEndsRun
  BY <1>29 DEF BootEndsRun, CtlReturns
<1>30. CASE BootOpensRun
  BY <1>30 DEF BootOpensRun, CtlReturns, Lifecycle
<1>31. CASE BootFindsNoThread
  BY <1>31 DEF BootFindsNoThread, CtlReturns
<1>32. CASE PollSeesExit
  BY <1>32 DEF PollSeesExit
<1>33. CASE PollFinishesRun
  BY <1>33, <1>0, EmptySeq DEF PollFinishesRun, FinishRun, api_signal, NoClaim, Ghosts
<1>34. CASE PollTakesShake
  BY <1>34 DEF PollTakesShake
<1>35. CASE SensorCalls
  BY <1>35 DEF SensorCalls
<1>36. CASE SensorRefused
  BY <1>36 DEF SensorRefused
<1>37. CASE SensorSubmits
  <2>0. Command("motion") \in Commands /\ Command("motion").run = ghost.run
    BY <1>0, CommandType DEF AllHostOps, Command
  <2>1. QueueCommand(Command("motion")) /\ Command("motion") \in Commands /\ Command("motion").run = ghost.run
    BY <1>37, <1>0, <2>0 DEF SensorSubmits
  <2>2. /\ [Command("motion") EXCEPT !.id = ghost.lastId + 1].run = ghost.run
        /\ [ghost EXCEPT !.lastId = @ + 1].run = ghost.run
        /\ [ghost EXCEPT !.lastId = @ + 1].timerRun = ghost.timerRun
    BY <1>0, <2>1 DEF Commands, Ghosts
  <2>3. /\ \A i \in 1..Len(api_queue') : api_queue'[i].run = ghost.run
        /\ ghost'.run = ghost.run /\ ghost'.timerRun = ghost.timerRun
        /\ job' = job
    BY <2>1, <2>2, QueueCommandElements
  <2> QED
    BY <1>37, <2>3 DEF SensorSubmits, QueueCommand, api_signal
<1>38. CASE Tick
  BY <1>38, <1>0 DEF Tick, Ghosts
<1>39. CASE UNCHANGED vars
  BY <1>39 DEF vars
<1>40. ASSUME NEW mult \in Speeds, skyengine_set_speed_multiplier(mult) PROVE RunsAgree'
  BY <1>40, <1>0 DEF Ghosts, skyengine_set_speed_multiplier, api_signal
<1> QED
  BY <1>1, <1>2, <1>3, <1>4, <1>5, <1>6, <1>7, <1>8, <1>9, <1>10, <1>11,
     <1>12, <1>13, <1>14, <1>15, <1>16, <1>17, <1>18, <1>19, <1>20, <1>21,
     <1>22, <1>23, <1>24, <1>25, <1>26, <1>27, <1>28, <1>29, <1>30, <1>31,
     <1>32, <1>33, <1>34, <1>35, <1>36, <1>37, <1>38, <1>39, <1>40
  DEF Next, Guest, Worker, CtlBegins, CtlGoesOn, PollExit, Sensor

LEMMA AlwaysRunsAgree == Spec => [](Safe /\ RunsAgree)
<1>1. Init => RunsAgree
  BY EmptySeq DEF Init, InitGhost, RunsAgree
<1>2. Safe /\ RunsAgree /\ [Next]_vars => RunsAgree'
  BY RunsAgreeKept DEF Safe
<1> QED
  BY <1>1, <1>2, AlwaysSafe, PTL DEF Spec

\* No command, no job and no armed timer of an earlier run reaches a later one,
\* whatever calls the host and the sensor thread interleave with stop, init and
\* start (skyengine_api_init, api_stop_worker, api_finish_if_exited).
THEOREM RunsAreIsolated == Spec => []RunIsolation
<1>1. RunsAgree => RunIsolation
  BY DEF RunsAgree, RunIsolation
<1> QED
  BY <1>1, AlwaysRunsAgree, PTL

-----------------------------------------------------------------------------
(* Answers and the order of dispatch.                                      *)

\* A step that neither fills the queue, nor serves from it, nor concerns an edit
\* otherwise than by closing it.
QuietStep ==
  /\ api_queue' \in {api_queue, << >>}
  /\ ghost'.served = ghost.served /\ ghost'.lastId = ghost.lastId
  /\ ghost'.answered = ghost.answered
  /\ edit_active' => edit_active

Counted ==
  \/ QuietStep
  \/ editCreate \/ WorkerAnswersEdit
  \/ WorkerTakesCommand \/ CtlSubmits \/ SensorSubmits

LEMMA StepsCounted ==
  ASSUME TypeOK, [Next]_vars
  PROVE  Counted
<1> USE DEF Counted, QuietStep, runVars, timerVars, engineVars, workerVars, hostVars
<1>0. ghost \in Ghosts
  BY DEF TypeOK, TimesOK
<1>1. ASSUME NEW t \in 0..MaxDelay, timerStart(t) PROVE Counted
  BY <1>1, <1>0 DEF timerStart, Claim, api_signal, Ghosts
<1>2. CASE timerStop
  BY <1>2, <1>0 DEF timerStop, api_signal, NoClaim, Ghosts
<1>3. CASE editCreate
  BY <1>3 DEF Counted
<1>4. CASE editRelease
  BY <1>4 DEF editRelease
<1>5. ASSUME NEW request \in {"on", "off"}, guiShake(request) PROVE Counted
  BY <1>5 DEF guiShake
<1>6. CASE skyengine_request_exit
  BY <1>6 DEF skyengine_request_exit
<1>7. CASE WorkerStops
  BY <1>7 DEF WorkerStops
<1>8. CASE WorkerTakesCommand
  BY <1>8 DEF Counted
<1>9. CASE WorkerTakesTimer
  BY <1>9, <1>0 DEF WorkerTakesTimer, NoClaim, Ghosts
<1>10. CASE WorkerSleeps
  BY <1>10 DEF WorkerSleeps
<1>11. ASSUME NEW b \in BOOLEAN, WorkerWakes(b) PROVE Counted
  BY <1>11 DEF WorkerWakes
<1>12. CASE WorkerAnswersEdit
  BY <1>12 DEF Counted
<1>13. CASE WorkerDelivers
  BY <1>13 DEF WorkerDelivers
<1>14. CASE WorkerReturns
  BY <1>14 DEF WorkerReturns
<1>15. CASE WorkerFinishes
  BY <1>15, <1>0 DEF WorkerFinishes, FinishRun, NoClaim, Ghosts
<1>16. ASSUME NEW op \in AllHostOps, HostCall(op) PROVE Counted
  BY <1>16 DEF HostCall
<1>17. ASSUME NEW next \in {"init", "destroy"}, StopWorker(next) PROVE Counted
  BY <1>17, <1>0 DEF StopWorker, api_signal, NoClaim, Ghosts
<1>18. CASE Starts
  BY <1>18, <1>0 DEF Starts, Ghosts
<1>19. CASE CtlLooksForEdit
  BY <1>19 DEF CtlLooksForEdit, CtlReturns
<1>20. CASE CtlSubmits
  BY <1>20 DEF Counted
<1>21. CASE CtlPauses
  BY <1>21 DEF CtlPauses, CtlReturns, api_signal
<1>22. CASE CtlResumes
  BY <1>22 DEF CtlResumes, CtlReturns, api_signal
<1>23. CASE CtlStepsTimer
  BY <1>23, <1>0 DEF CtlStepsTimer, CtlReturns, api_signal, NoClaim, Ghosts
<1>24. CASE CtlLeavesDsm
  BY <1>24 DEF CtlLeavesDsm, CtlReturns
<1>25. CASE JoinWorker
  BY <1>25 DEF JoinWorker
<1>26. CASE InitResets
  BY <1>26, <1>0 DEF InitResets, CtlReturns, NoClaim, Ghosts
<1>27. CASE InitFails
  BY <1>27 DEF InitFails, CtlReturns
<1>28. CASE Destroys
  BY <1>28 DEF Destroys, CtlReturns
<1>29. CASE BootEndsRun
  BY <1>29 DEF BootEndsRun, CtlReturns
<1>30. CASE BootOpensRun
  BY <1>30 DEF BootOpensRun, CtlReturns
<1>31. CASE BootFindsNoThread
  BY <1>31 DEF BootFindsNoThread, CtlReturns
<1>32. CASE PollSeesExit
  BY <1>32 DEF PollSeesExit
<1>33. CASE PollFinishesRun
  BY <1>33, <1>0 DEF PollFinishesRun, FinishRun, api_signal, NoClaim, Ghosts
<1>34. CASE PollTakesShake
  BY <1>34 DEF PollTakesShake
<1>35. CASE SensorCalls
  BY <1>35 DEF SensorCalls
<1>36. CASE SensorRefused
  BY <1>36 DEF SensorRefused
<1>37. CASE SensorSubmits
  BY <1>37 DEF Counted
<1>38. CASE Tick
  BY <1>38, <1>0 DEF Tick, Ghosts
<1>39. CASE UNCHANGED vars
  BY <1>39 DEF vars
<1>40. ASSUME NEW mult \in Speeds, skyengine_set_speed_multiplier(mult) PROVE Counted
  BY <1>40, <1>0 DEF Ghosts, skyengine_set_speed_multiplier, api_signal
<1> QED
  BY <1>1, <1>2, <1>3, <1>4, <1>5, <1>6, <1>7, <1>8, <1>9, <1>10, <1>11,
     <1>12, <1>13, <1>14, <1>15, <1>16, <1>17, <1>18, <1>19, <1>20, <1>21,
     <1>22, <1>23, <1>24, <1>25, <1>26, <1>27, <1>28, <1>29, <1>30, <1>31,
     <1>32, <1>33, <1>34, <1>35, <1>36, <1>37, <1>38, <1>39, <1>40
  DEF Next, Guest, Worker, CtlBegins, CtlGoesOn, PollExit, Sensor

\* An edit that is still open has had no answer.
AnswersAgree ==
  /\ edit_active => ghost.answered = 0
  /\ ghost.answered <= 1

LEMMA AnswersAgreeKept ==
  ASSUME TypeOK, AnswersAgree, [Next]_vars
  PROVE  AnswersAgree'
<1> USE DEF AnswersAgree
<1>0. ghost \in Ghosts
  BY DEF TypeOK, TimesOK
<1>1. CASE QuietStep
  BY <1>1 DEF QuietStep
<1>2. CASE editCreate
  BY <1>0, <1>2 DEF editCreate, Ghosts
<1>3. CASE WorkerAnswersEdit
  BY <1>0, <1>3 DEF WorkerAnswersEdit, Ghosts
<1>4. CASE WorkerTakesCommand
  BY <1>0, <1>4 DEF WorkerTakesCommand, engineVars, Ghosts
<1>5. ASSUME NEW cmd, QueueCommand(cmd), UNCHANGED engineVars
      PROVE  AnswersAgree'
  <2>1. ghost'.answered = ghost.answered
    BY <1>0, <1>5 DEF QueueCommand, Ghosts
  <2> QED
    BY <1>5, <2>1 DEF engineVars
<1>6. CASE CtlSubmits \/ SensorSubmits
  BY <1>5, <1>6 DEF CtlSubmits, SensorSubmits
<1> QED
  BY <1>1, <1>2, <1>3, <1>4, <1>6, StepsCounted DEF Counted

\* One editCreate is answered at most once, in every interleaving of text, cancel,
\* editRelease and the worker (api_apply_edit_text_command,
\* api_apply_cancel_edit_command look at edit_active again).
THEOREM EditsAnsweredOnce == Spec => []EditAnsweredOnce
<1>1. Init => AnswersAgree
  BY DEF Init, InitGhost, AnswersAgree
<1>2. Safe /\ AnswersAgree /\ [Next]_vars => AnswersAgree'
  BY AnswersAgreeKept DEF Safe
<1>3. AnswersAgree => EditAnsweredOnce
  BY DEF AnswersAgree, EditAnsweredOnce
<1> QED
  BY <1>1, <1>2, <1>3, AlwaysSafe, PTL DEF Spec

\* The pending commands are numbered in the order of their acceptance, all after
\* the last one served.
IdsAscend ==
  /\ ghost.served <= ghost.lastId
  /\ \A i \in 1..Len(api_queue) :
       ghost.served < api_queue[i].id /\ api_queue[i].id <= ghost.lastId
  /\ \A i, j \in 1..Len(api_queue) : i < j => api_queue[i].id < api_queue[j].id

LEMMA IdsAscendKept ==
  ASSUME TypeOK, IdsAscend, [Next]_vars
  PROVE  /\ IdsAscend'
         /\ ghost'.served # ghost.served => ghost'.served > ghost.served
<1> USE DEF IdsAscend
<1>0. /\ ghost \in Ghosts /\ ghost.served \in Nat /\ ghost.lastId \in Nat
      /\ api_queue \in Seq(Commands) /\ Len(api_queue) \in Nat
      /\ \A i \in 1..Len(api_queue) : api_queue[i].id \in Nat
      /\ ctlArg \in Commands
  <2>1. ghost \in Ghosts /\ api_queue \in Seq(Commands) /\ ctlArg \in Commands
    BY DEF TypeOK, TimesOK, CommandsOK
  <2>2. ghost.served \in Nat /\ ghost.lastId \in Nat
    BY <2>1 DEF Ghosts
  <2>3. Len(api_queue) \in Nat /\ \A i \in 1..Len(api_queue) : api_queue[i] \in Commands
    BY <2>1, LenProperties, ElementOfSeq
  <2>4. \A cmd \in Commands : cmd.id \in Nat
    BY DEF Commands
  <2> QED
    BY <2>1, <2>2, <2>3, <2>4
<1>1. CASE QuietStep
  <2>1. /\ ghost'.served = ghost.served /\ ghost'.lastId = ghost.lastId
        /\ api_queue' = api_queue \/ api_queue' = << >>
    BY <1>1 DEF QuietStep
  <2>2. Len(<< >>) = 0
    OBVIOUS
  <2> QED
    BY <2>1, <2>2
<1>2. CASE editCreate \/ WorkerAnswersEdit
  BY <1>0, <1>2 DEF editCreate, WorkerAnswersEdit, Ghosts
<1>3. CASE WorkerTakesCommand
  <2>1. /\ 1 \in 1..Len(api_queue) /\ job' = api_queue[1]
        /\ \A i \in 1..Len(api_queue') :
             i + 1 \in 1..Len(api_queue) /\ api_queue'[i] = api_queue[i + 1]
    BY <1>3, TakeElements
  <2>2. ghost'.served = api_queue[1].id /\ ghost'.lastId = ghost.lastId
    BY <1>0, <1>3, <2>1 DEF WorkerTakesCommand, Ghosts
  <2>3. \A i \in 1..Len(api_queue') : 1 < i + 1
    OBVIOUS
  <2>4. \A i, j \in 1..Len(api_queue') : i < j => i + 1 < j + 1
    OBVIOUS
  <2>5. /\ ghost.served < api_queue[1].id /\ api_queue[1].id <= ghost.lastId
        /\ api_queue[1].id \in Nat
    BY <1>0, <2>1
  <2>6. \A i \in 1..Len(api_queue') :
          api_queue[1].id < api_queue'[i].id /\ api_queue'[i].id <= ghost.lastId
    BY <2>1, <2>3
  <2>7. \A i, j \in 1..Len(api_queue') : i < j => api_queue'[i].id < api_queue'[j].id
    BY <2>1, <2>4
  <2> QED
    BY <1>0, <2>2, <2>5, <2>6, <2>7
<1>4. ASSUME NEW cmd \in Commands, QueueCommand(cmd)
      PROVE  IdsAscend' /\ ghost'.served = ghost.served
  <2> DEFINE n == Len(api_queue')
  <2>1. \/ api_queue' = api_queue /\ ghost' = ghost
        \/ /\ \A i \in 1..n :
                i # n => i \in 1..Len(api_queue) /\ api_queue'[i] = api_queue[i]
           /\ n \in 1..n
           /\ api_queue'[n] = [cmd EXCEPT !.id = ghost.lastId + 1]
           /\ ghost' = [ghost EXCEPT !.lastId = @ + 1]
    BY <1>4, QueueCommandElements
  <2>2. /\ [cmd EXCEPT !.id = ghost.lastId + 1].id = ghost.lastId + 1
        /\ [ghost EXCEPT !.lastId = @ + 1].lastId = ghost.lastId + 1
        /\ [ghost EXCEPT !.lastId = @ + 1].served = ghost.served
    BY <1>0 DEF Commands, Ghosts
  <2>3. CASE api_queue' = api_queue /\ ghost' = ghost
    BY <2>3
  <2>4. CASE /\ \A i \in 1..n :
                  i # n => i \in 1..Len(api_queue) /\ api_queue'[i] = api_queue[i]
             /\ n \in 1..n
             /\ api_queue'[n].id = ghost.lastId + 1
             /\ ghost'.lastId = ghost.lastId + 1 /\ ghost'.served = ghost.served
    <3>1. \A i \in 1..n : i # n => /\ ghost.served < api_queue'[i].id
                                   /\ api_queue'[i].id <= ghost.lastId
                                   /\ api_queue'[i].id \in Nat
      BY <1>0, <2>4
    <3>2. \A i \in 1..n : /\ ghost.served < api_queue'[i].id
                          /\ api_queue'[i].id <= ghost.lastId + 1
      BY <1>0, <2>4, <3>1
    <3>3. ASSUME NEW i \in 1..n, NEW j \in 1..n, i < j
          PROVE  api_queue'[i].id < api_queue'[j].id
      <4>1. i # n /\ i \in 1..Len(api_queue) /\ api_queue'[i] = api_queue[i]
        BY <2>4, <3>3
      <4>2. CASE j = n
        BY <1>0, <2>4, <3>1, <4>1, <4>2
      <4>3. CASE j # n
        BY <2>4, <3>3, <4>1, <4>3
      <4> QED
        BY <4>2, <4>3
    <3> QED
      BY <1>0, <2>4, <3>2, <3>3
  <2> QED
    BY <2>1, <2>2, <2>3, <2>4
<1>5. CASE CtlSubmits
  BY <1>0, <1>4, <1>5 DEF CtlSubmits
<1>6. CASE SensorSubmits
  <2>1. Command("motion") \in Commands
    BY <1>0, CommandType DEF AllHostOps
  <2> QED
    BY <1>4, <1>6, <2>1 DEF SensorSubmits
<1>7. CASE QuietStep \/ editCreate \/ WorkerAnswersEdit
  <2>1. ghost'.served = ghost.served
    BY <1>0, <1>7 DEF QuietStep, editCreate, WorkerAnswersEdit, Ghosts
  <2> QED
    BY <1>1, <1>2, <1>7, <2>1
<1>8. CASE WorkerTakesCommand
  <2>1. ghost'.served = api_queue[1].id /\ 1 \in 1..Len(api_queue)
    BY <1>0, <1>8, TakeElements DEF WorkerTakesCommand, Ghosts
  <2> QED
    BY <1>0, <1>3, <1>8, <2>1
<1> QED
  BY <1>5, <1>6, <1>7, <1>8, StepsCounted DEF Counted, IdsAscend

\* The worker takes the commands in the order in which the calls were accepted,
\* also across a move that replaces a pending one, a stop and a restart
\* (api_queue_command_locked, api_pop_command_locked).
THEOREM DispatchesInOrder == Spec => DispatchInOrder
<1>1. Init => IdsAscend
  BY EmptySeq DEF Init, InitGhost, IdsAscend
<1>2. Safe /\ IdsAscend /\ [Next]_vars => IdsAscend'
  BY IdsAscendKept DEF Safe
<1>3. Safe /\ IdsAscend /\ [Next]_vars =>
        [ghost.served' # ghost.served => ghost.served' > ghost.served]_vars
  BY IdsAscendKept DEF Safe
<1> QED
  BY <1>1, <1>2, <1>3, AlwaysSafe, PTL DEF Spec, DispatchInOrder

-----------------------------------------------------------------------------
(* Why a run, and its guest's timer, end.                                  *)

\* Whoever is about to close the run has seen the guest's exit, or a run that was
\* closed already, unless it looked before this run came up.
ClosersSawExit ==
  /\ pollPc = "closing" => exit_requested
  /\ ghost.sampled <= ghost.opened
  /\ sensorPc = "refused" /\ ~Straddles => exit_requested \/ ~api_running

LEMMA ClosersKept ==
  ASSUME TypeOK, Lifecycle, ClosersSawExit, [Next]_vars
  PROVE  ClosersSawExit'
<1>0. ghost \in Ghosts
  BY DEF TypeOK, TimesOK
<1> USE <1>0 DEF ClosersSawExit, Straddles, Ghosts, NoClaim, runVars, timerVars, engineVars, workerVars, hostVars
<1>1. ASSUME NEW t \in 0..MaxDelay, timerStart(t) PROVE ClosersSawExit'
  BY <1>1 DEF timerStart, Claim, api_signal
<1>2. CASE timerStop
  BY <1>2 DEF timerStop, api_signal
<1>3. CASE editCreate
  BY <1>3 DEF editCreate
<1>4. CASE editRelease
  BY <1>4 DEF editRelease
<1>5. ASSUME NEW request \in {"on", "off"}, guiShake(request) PROVE ClosersSawExit'
  BY <1>5 DEF guiShake
<1>6. CASE skyengine_request_exit
  BY <1>6 DEF skyengine_request_exit
<1>7. CASE WorkerStops
  BY <1>7 DEF WorkerStops
<1>8. CASE WorkerTakesCommand
  BY <1>8 DEF WorkerTakesCommand
<1>9. CASE WorkerTakesTimer
  BY <1>9 DEF WorkerTakesTimer
<1>10. CASE WorkerSleeps
  BY <1>10 DEF WorkerSleeps
<1>11. ASSUME NEW b \in BOOLEAN, WorkerWakes(b) PROVE ClosersSawExit'
  BY <1>11 DEF WorkerWakes
<1>12. CASE WorkerAnswersEdit
  BY <1>12 DEF WorkerAnswersEdit
<1>13. CASE WorkerDelivers
  BY <1>13 DEF WorkerDelivers
<1>14. CASE WorkerReturns
  BY <1>14 DEF WorkerReturns
<1>15. CASE WorkerFinishes
  BY <1>15 DEF WorkerFinishes, FinishRun
<1>16. ASSUME NEW op \in AllHostOps, HostCall(op) PROVE ClosersSawExit'
  BY <1>16 DEF HostCall
<1>17. ASSUME NEW next \in {"init", "destroy"}, StopWorker(next) PROVE ClosersSawExit'
  BY <1>17 DEF StopWorker, api_signal, Quiet
<1>18. CASE Starts
  BY <1>18 DEF Starts, Lifecycle
<1>19. CASE CtlLooksForEdit
  BY <1>19 DEF CtlLooksForEdit, CtlReturns
<1>20. CASE CtlSubmits
  BY <1>20 DEF CtlSubmits, CtlReturns, QueueCommand, api_signal
<1>21. CASE CtlPauses
  BY <1>21 DEF CtlPauses, CtlReturns, api_signal
<1>22. CASE CtlResumes
  BY <1>22 DEF CtlResumes, CtlReturns, api_signal
<1>23. CASE CtlStepsTimer
  BY <1>23 DEF CtlStepsTimer, CtlReturns, api_signal
<1>24. CASE CtlLeavesDsm
  BY <1>24 DEF CtlLeavesDsm, CtlReturns
<1>25. CASE JoinWorker
  BY <1>25 DEF JoinWorker
<1>26. CASE InitResets
  BY <1>26 DEF InitResets, CtlReturns, Lifecycle
<1>27. CASE InitFails
  BY <1>27 DEF InitFails, CtlReturns, Lifecycle
<1>28. CASE Destroys
  BY <1>28 DEF Destroys, CtlReturns, Lifecycle
<1>29. CASE BootEndsRun
  BY <1>29 DEF BootEndsRun, CtlReturns, Lifecycle
<1>30. CASE BootOpensRun
  BY <1>30 DEF BootOpensRun, CtlReturns, Lifecycle
<1>31. CASE BootFindsNoThread
  BY <1>31 DEF BootFindsNoThread, CtlReturns, Lifecycle
<1>32. CASE PollSeesExit
  BY <1>32 DEF PollSeesExit
<1>33. CASE PollFinishesRun
  BY <1>33 DEF PollFinishesRun, FinishRun, api_signal
<1>34. CASE PollTakesShake
  BY <1>34 DEF PollTakesShake
<1>35. CASE SensorCalls
  BY <1>35 DEF SensorCalls, Alive
<1>36. CASE SensorRefused
  BY <1>36 DEF SensorRefused
<1>37. CASE SensorSubmits
  BY <1>37 DEF SensorSubmits, QueueCommand, api_signal
<1>38. CASE Tick
  BY <1>38 DEF Tick
<1>39. CASE UNCHANGED vars
  BY <1>39 DEF vars
<1>40. ASSUME NEW mult \in Speeds, skyengine_set_speed_multiplier(mult) PROVE ClosersSawExit'
  BY <1>40 DEF skyengine_set_speed_multiplier, api_signal
<1> QED
  BY <1>1, <1>2, <1>3, <1>4, <1>5, <1>6, <1>7, <1>8, <1>9, <1>10, <1>11,
     <1>12, <1>13, <1>14, <1>15, <1>16, <1>17, <1>18, <1>19, <1>20, <1>21,
     <1>22, <1>23, <1>24, <1>25, <1>26, <1>27, <1>28, <1>29, <1>30, <1>31,
     <1>32, <1>33, <1>34, <1>35, <1>36, <1>37, <1>38, <1>39, <1>40
  DEF Next, Guest, Worker, CtlBegins, CtlGoesOn, PollExit, Sensor

LEMMA AlwaysClosersSawExit == Spec => [](Safe /\ ClosersSawExit)
<1>1. Init => ClosersSawExit
  BY DEF Init, InitGhost, ClosersSawExit
<1>2. Safe /\ ClosersSawExit /\ [Next]_vars => ClosersSawExit'
  BY ClosersKept DEF Safe
<1> QED
  BY <1>1, <1>2, AlwaysSafe, PTL DEF Spec

\* What RunEndsForAReason asks of one step.
EndsForAReason ==
  api_running /\ ~api_running' =>
    exit_requested \/ ctlPc \in {"init", "destroy"} \/ Straddles

LEMMA RunEndsStep ==
  ASSUME FlagsOK, Lifecycle, ClosersSawExit, [Next]_vars
  PROVE  EndsForAReason
<1> USE DEF EndsForAReason, FlagsOK, runVars, timerVars, engineVars, workerVars, hostVars
<1>1. CASE Guest
  <2>1. ASSUME NEW t \in 0..MaxDelay, timerStart(t) PROVE UNCHANGED runVars
    BY <2>1 DEF timerStart
  <2>2. ASSUME NEW request \in {"on", "off"}, guiShake(request) PROVE UNCHANGED runVars
    BY <2>2 DEF guiShake
  <2>3. CASE timerStop \/ editCreate \/ editRelease \/ skyengine_request_exit
    BY <2>3 DEF timerStop, editCreate, editRelease, skyengine_request_exit
  <2> QED
    BY <1>1, <2>1, <2>2, <2>3 DEF Guest
<1>2. CASE Worker \/ WorkerWakes(FALSE)
  <2>1. CASE WorkerFinishes
    BY <2>1 DEF WorkerFinishes
  <2>2. CASE ~WorkerFinishes
    <3>1. UNCHANGED runVars
      BY <1>2, <2>2 DEF Worker, WorkerStops, WorkerTakesCommand, WorkerTakesTimer,
           WorkerSleeps, WorkerWakes, WorkerAnswersEdit, WorkerDelivers, WorkerReturns
    <3> QED
      BY <3>1
  <2> QED
    BY <2>1, <2>2
<1>3. CASE CtlBegins
  <2>1. ASSUME NEW op \in AllHostOps, HostCall(op) PROVE EndsForAReason
    BY <2>1 DEF HostCall, Alive
  <2>2. ASSUME NEW next \in {"init", "destroy"}, StopWorker(next) PROVE EndsForAReason
    BY <2>2 DEF StopWorker
  <2>3. CASE Starts
    BY <2>3 DEF Starts
  <2> QED
    BY <1>3, <2>1, <2>2, <2>3 DEF CtlBegins
<1>4. CASE CtlGoesOn
  <2>1. ctlPc = "boot" => ~api_running
    BY DEF Lifecycle
  <2>2. CASE BootEndsRun \/ BootOpensRun \/ BootFindsNoThread
    BY <2>1, <2>2 DEF BootEndsRun, BootOpensRun, BootFindsNoThread
  <2>3. CASE InitResets \/ Destroys
    BY <2>3 DEF InitResets, Destroys
  <2>4. CASE ~(InitResets \/ Destroys \/ BootEndsRun \/ BootOpensRun \/ BootFindsNoThread)
    <3>1. api_running' = api_running
      BY <1>4, <2>4 DEF CtlGoesOn, CtlLooksForEdit, CtlSubmits, CtlPauses, CtlResumes,
           CtlStepsTimer, CtlLeavesDsm, JoinWorker, InitFails
    <3> QED
      BY <3>1
  <2> QED
    BY <2>2, <2>3, <2>4
<1>5. CASE PollSeesExit \/ PollTakesShake
  BY <1>5 DEF PollSeesExit, PollTakesShake
<1>6. CASE PollFinishesRun
  BY <1>6 DEF PollFinishesRun, ClosersSawExit
<1>7. CASE SensorCalls \/ SensorSubmits
  BY <1>7 DEF SensorCalls, SensorSubmits
<1>8. CASE SensorRefused
  BY <1>8 DEF SensorRefused, ClosersSawExit
<1>9. CASE Tick \/ UNCHANGED vars
  BY <1>9 DEF Tick, vars
<1>10. ASSUME NEW mult \in Speeds, skyengine_set_speed_multiplier(mult) PROVE EndsForAReason
  BY <1>10 DEF skyengine_set_speed_multiplier
<1> HIDE DEF EndsForAReason
<1> QED
  BY <1>1, <1>2, <1>3, <1>4, <1>5, <1>6, <1>7, <1>8, <1>9, <1>10 DEF Next, PollExit, Sensor

\* A run ends only because its guest exited or its host stops it, or by a motion
\* sample that was refused before the run came up: of the unlocked writes that close
\* a run on a late call (skyengine_api_motion, the other calls of the host,
\* api_finish_if_exited) no other ever hits a run that is alive.
THEOREM RunsEndForAReason == Spec => RunEndsForAReason
<1>1. Safe /\ ClosersSawExit /\ [Next]_vars =>
        [api_running /\ ~api_running' =>
           exit_requested \/ ctlPc \in {"init", "destroy"} \/ Straddles]_vars
  BY RunEndsStep DEF Safe, TypeOK, EndsForAReason
<1> QED
  BY <1>1, AlwaysClosersSawExit, PTL DEF Spec, RunEndsForAReason

\* What HostKeepsTimer asks of one step.
KeepsTimer ==
  api_timer_active /\ ~api_timer_active' =>
    \/ job'.kind = "timer" /\ job' # job
    \/ InGuest \/ exit_requested \/ phase' # "up" \/ ctlPc = "timer"

LEMMA TimerEndsStep ==
  ASSUME RunsAgree, ClosersSawExit, [Next]_vars
  PROVE  KeepsTimer
<1> USE DEF KeepsTimer, runVars, timerVars, engineVars, workerVars, hostVars
<1>1. CASE Guest
  <2>1. InGuest
    <3>1. ASSUME NEW t \in 0..MaxDelay, timerStart(t) PROVE InGuest
      BY <3>1 DEF timerStart
    <3>2. ASSUME NEW request \in {"on", "off"}, guiShake(request) PROVE InGuest
      BY <3>2 DEF guiShake
    <3>3. CASE timerStop \/ editCreate \/ editRelease \/ skyengine_request_exit
      BY <3>3 DEF timerStop, editCreate, editRelease, skyengine_request_exit
    <3> QED
      BY <1>1, <3>1, <3>2, <3>3 DEF Guest
  <2> QED
    BY <2>1
<1>2. CASE WorkerTakesTimer
  <2>1. job = NoJob /\ job'.kind = "timer"
    BY <1>2 DEF WorkerTakesTimer, RunsAgree, NoJob
  <2> QED
    BY <2>1 DEF NoJob
<1>3. CASE WorkerFinishes
  BY <1>3 DEF WorkerFinishes
<1>4. CASE (Worker /\ ~WorkerTakesTimer /\ ~WorkerFinishes) \/ WorkerWakes(FALSE)
  <2>1. api_timer_active' = api_timer_active
    BY <1>4 DEF Worker, WorkerStops, WorkerTakesCommand, WorkerSleeps,
                WorkerWakes, WorkerAnswersEdit, WorkerDelivers, WorkerReturns
  <2> QED
    BY <2>1
<1>5. CASE CtlBegins
  <2>1. ASSUME NEW op \in AllHostOps, HostCall(op) PROVE KeepsTimer
    BY <2>1 DEF HostCall
  <2>2. ASSUME NEW next \in {"init", "destroy"}, StopWorker(next) PROVE KeepsTimer
    BY <2>2 DEF StopWorker
  <2>3. CASE Starts
    BY <2>3 DEF Starts
  <2> QED
    BY <1>5, <2>1, <2>2, <2>3 DEF CtlBegins
<1>6. CASE CtlGoesOn
  <2>1. CASE CtlStepsTimer
    BY <2>1 DEF CtlStepsTimer
  <2>2. CASE InitResets
    BY <2>2 DEF InitResets
  <2>3. CASE ~InitResets /\ ~CtlStepsTimer
    <3>1. api_timer_active' = api_timer_active
      BY <1>6, <2>3 DEF CtlGoesOn, CtlLooksForEdit, CtlSubmits, CtlPauses,
           CtlResumes, CtlLeavesDsm, JoinWorker, InitFails, Destroys,
           BootEndsRun, BootOpensRun, BootFindsNoThread
    <3> QED
      BY <3>1
  <2> QED
    BY <2>1, <2>2, <2>3
<1>7. CASE PollSeesExit \/ PollTakesShake
  BY <1>7 DEF PollSeesExit, PollTakesShake
<1>8. CASE PollFinishesRun
  BY <1>8 DEF PollFinishesRun, ClosersSawExit
<1>9. CASE Sensor
  BY <1>9 DEF Sensor, SensorCalls, SensorRefused, SensorSubmits
<1>10. CASE Tick \/ UNCHANGED vars
  BY <1>10 DEF Tick, vars
<1>11. ASSUME NEW mult \in Speeds, skyengine_set_speed_multiplier(mult) PROVE KeepsTimer
  BY <1>11 DEF skyengine_set_speed_multiplier
<1> HIDE DEF KeepsTimer
<1> QED
  BY <1>1, <1>2, <1>3, <1>4, <1>5, <1>6, <1>7, <1>8, <1>9, <1>10, <1>11 DEF Next, PollExit

\* An armed timer ends by firing, by an act of the guest, by its exit, with the run,
\* or by skyengine_api_timer.  No pause, resume, change of speed, key, edit answer
\* or poll takes it away.
THEOREM HostsKeepTimer == Spec => HostKeepsTimer
<1>1. RunsAgree /\ ClosersSawExit /\ [Next]_vars =>
        [api_timer_active /\ ~api_timer_active' =>
           \/ job'.kind = "timer" /\ job' # job
           \/ InGuest \/ exit_requested \/ phase' # "up" \/ ctlPc = "timer"]_vars
  BY TimerEndsStep DEF KeepsTimer
<1> QED
  BY <1>1, AlwaysRunsAgree, AlwaysClosersSawExit, PTL DEF Spec, HostKeepsTimer
=============================================================================
