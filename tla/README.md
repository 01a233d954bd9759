# A verification project for vmrp-ohos

vmrp-ohos runs MRP applications (games and tools of pre-smartphone feature phones) on
HarmonyOS. The guest is an interpreter and ARM code that knows one thread; the host is a
program of many threads. This directory holds TLA+ models of the code between the two, the
TLC runs that check them on small instances, and TLAPS proofs of their most important
properties for all instances.

File names in this text are relative to the repository (`src/` omitted). `api` stands for
`vmrp/src/skyengine_api.c`.

## 1. Inventory

### Asynchronous runner (`api`, with `VMRP_API_ASYNC_RUNNER`)
State: `api_running`, `api_worker_stop`, `api_thread_started`, `api_paused`; the guest's timer
(`api_timer_active`, `api_timer_due_ms`, `api_pause_remaining_ms`) and, in this build, the speed
multiplier it is divided by (`scripts/CMakeLists.txt:931-953`); the command queue, a circular
array of 64 entries; mutex and condition variable; screen buffers.
Operations: `skyengine_api_init`, `_start`, `_destroy`, `_pause`, `_resume`, `_timer`,
`_event`, `_motion`, `_set_edit_text`, `_cancel_edit`, `_is_running`, `_take_shake`,
`skyengine_set_speed_multiplier`; the worker
`api_worker_main`; the callbacks of the guest `timerStart`, `timerStop`, `editCreate`,
`editRelease`, `guiStartShake`, `guiStopShake`.
Interactions: the host's control thread, poll thread and sensor thread call in; the worker
calls the guest; the guest calls back on whichever thread runs it.
Hard: four threads, some reads and writes with no lock, sleep and wakeup, timer against pause,
stop against a dispatch under way, restart, exit seen by two threads.
Correct if: one thread at a time is in the guest; no wakeup, command or timer is lost; nothing
of one run reaches the next; a run ends only for a reason; stop returns; each edit is answered
once.

### Engine exit flag and dispatch gate (`vmrp/src/skyengine.c`)
State: `skyengine_exit_requested`, motion listeners. Operations: `startEngine`, `event`,
`timer`, `skyengine_motion_input`, `skyengine_is_exited`. Correct if: nothing enters a guest
that has exited, and an exit always closes the run.

### Command queue (`api` 33-97, 389-440)
State: array, head, tail, count, heap-owned texts. Operations: queue (a move replaces a pending
move, a full queue drops moves and refuses the rest), pop, clear, reset. Hard: wraparound,
capacity, who frees a text. Correct if: it is a bounded queue and every text is freed once.

### HarmonyOS host (`entry/src/main/cpp/vmrp_engine.cpp`, `vmrp_napi.cpp`, with the page
`Emulator.ets` and `EntryAbility.ets`)
State: `engine_mtx_`, `g_engine_running`, `g_timer_running`, `g_edit_notified`, `background_`,
`sensor_subscribed_`, the posted callbacks, the RGB565 frame; the page's `runningState`.
Operations: StartEngine, StopEngine, SendEvent, SubmitEdit, CancelEdit, MediaPause, MediaResume,
the start_dsm calls, TimerLoop (polls every 16 ms), OnAccelerometerData, TryRenderForce.
Hard: main thread and poll thread share flags and no lock; callbacks are posted and run later;
the loop leaves by itself when the guest ends; the ability may be in the background at any of
these moments. Correct if: a running guest is polled, its end reaches the page, every edit gets
a dialog and an answer, the sensor follows the guest, a frame is never read after it was freed.

### Audio output (`vmrp_audio.cpp`)
State: the OH renderer, its volume, background flag. Correct if: a background pause ends in the
state it began in.

### Platform UI (`ohos_src/native_modal_menu.c`, `ohos_src/native_text_widget.c`, and the
funnel `skyengine_runtime_event` in `vmrp/src/runtime_native_mythroad.c`)
State: the menu `g_menu` with its focus; the text `tw` with its scroll position; the key and
the touch each has captured; the mirror of the guest's frame, the depth of a transition, a
restore put off. Operations: show, release, create, refresh; `filter_event` of both; the
capture of guest frames; begin and end of a transition.
Interactions: every input goes to menu, text or guest, in this order; menu and text post events
to the guest, whose callback may open and close layers before it returns.
Hard: the layer that took a press may be gone, or another one there, when the release comes.
Correct if: releases and UPs go to whoever took the press and the DOWN; a choice is of the menu
the user saw; the guest's frame is back when the last layer closes and never flashes before.

### Guest memory (`vmrp/src/mythroad/mem.c`, `vmrp/src/arm_ext/aex_mem.c`, the module registry
of `aex_module.c`)
State: an address-ordered free list the guest sees and may edit; a fallback heap that grows up
to the end of memory, with lists of its live and returned blocks; the registered, primary and
announced images. Operations: malloc, free, realloc, announcing, entering, overwriting and
dropping an image, the move of the screen buffer. Hard: code lies inside blocks the guest may
free; a free is cut into fragments around it; headers lie in the memory they describe. Correct
if: what is handed out overlaps nothing that is owned or code, no header is written over code,
no word is lost.

### Network bridge (`ohos_src/network.c`)
State: the sockets, the mode (CMNET or CMWAP), the host map with its generation, the table of
route tokens. Operations: init and close of the network, socket, connect (blocking, or on a
detached thread), send (in CMWAP the first one looks up and connects), recv, close, lookups on
the guest's thread and on detached ones, a new map from the host. Hard: threads nobody joins
answer when socket, map or mode are gone. Correct if: a token means one endpoint as long as it
is valid and none of an old map is, no descriptor leaks or is closed twice, the guest sees the
state of its own connection.

### Mythroad's life cycle (`vmrp/src/mythroad/mythroad.c`, with the calls into ARM code of
`arm_ext_executor.c` and the timer and exit entries of `aex_table.c`)
State: `vm_state`, `mr_state`, `mr_timer_state`, the words ARM code has for the last two,
`native_ext` and the native functions, `old_pack_filename`. Operations: `mr_start_dsm`, `mr_event`, `mr_timer`, `mr_stop`, and from the
guest Exit, RunFile, timer start and stop, `_strCom` 3, 800 and 801, `_mr_TestCom` 2 to 4, and
from ARM code the table's timer and exit. Hard: an application may end anywhere in its code,
which goes on returning afterwards; one timer serves ticks and restarts and is recorded in three
places; native functions are globals. Correct if: a closed VM is not used, native
code dies with its application, an armed state means an armed timer, a restart happens, the
host hears of the end.

### The rest
The instruction emulation and ABI bridge of the ARM executor and its timer lists, GIF, image and
MIDI decoders (`ohos_src/ohos_image_decode.cpp`, `ohos_midi_tsf.c`), the interpreter itself, the
native DSM table, desktop front end, ArkTS lists and settings, build scripts, third-party code:
computation, file I/O, drawing or generated and vendored code. The ArkTS page maps touch pad,
gamepad buttons and stick to keys through two sets, which is a protocol but not modelled yet.

`PROJECT.json` lists every component with its files, its status and the reason, and the hazards
of the code at the lines where they bite.

## 2. Plan

Order, most important behaviour first:
1. `CommandQueue`, `ApiRunner`, refining the abstract `Session` - done.
2. `CommandRing`, refining the abstract `CommandFifo` - done.
3. `PlatformUi` - done.
4. `DnsRoutes` and `Network`, the second composing its sockets with the first - done.
5. `FreeList` and `GuestHeap`, refining the abstract `Heap` - done.
6. `HostBridge`: poll thread, edit dialog, exit callback, sensor, background - done. The render
   thread's frame buffers and the audio states are left.
7. `Mythroad`: applications one after the other, timer, restart, native functions - done.
8. Left: the key sources of the ArkTS page composed with the funnel; the timer lists of
   `aex_timer`; the media timers of `dsm.c` and the GIF scheduler; the keyboard latch of the
   desktop front end.
9. Proofs: every safety property and every refinement a passing run checks has its theorem (section
   6). Left is what the prover cannot state, liveness above all, and the components of item 8.

Each is one module with constants and named assumptions, one action per operation, no
`RECURSIVE` operator, an MC module with its values, and a proof module when the invariant is
worth it.

## 3. Modules and the code

| module | models | refines |
| --- | --- | --- |
| `CommandQueue` | the rules of `api_queue_command_locked` on a sequence, used by ApiRunner and CommandFifo | |
| `ApiRunner` | runner, worker, exit flag, the host's calls, poll and sensor thread | `Session` |
| `Session` | who may be in the engine between boot and stop (abstract) | |
| `CommandRing` | the circular array, its indices and the ownership of texts | `CommandFifo` |
| `CommandFifo` | a bounded queue with replacement of moves (abstract) | |
| `PlatformUi` | menu, text widget, funnel, mirror and screen | |
| `DnsRoutes` | host map, lookups, route tokens | |
| `Network` | sockets, connect threads, CMNET and CMWAP, payment socket, over DnsRoutes | |
| `FreeList` | the list of `mem.c`: insertion and coalescing | |
| `GuestHeap` | pool, fallback heap, module registry, over FreeList | `Heap` |
| `Heap` | memory handed out and given back next to code (abstract) | |
| `HostBridge` | main thread and poll thread of the N-API bridge, the page, the sensor | |
| `Mythroad` | the applications a runtime runs one after the other | |
| `MC...` | values for the runs | |
| `FreeListProofs` | what an insertion does to the words, the order and the gaps of any list | |
| `...Proofs` (ApiRunner, CommandRing, PlatformUi, Network, GuestHeap, HostBridge, Mythroad) | theorems and proofs | |

The definitions named "Mutant" are plausible bugs (a missing signal, a flag not reset); each
stands before the definition it breaks and is used by nothing.

### ApiRunner
A step is one section under `api_mutex` or one unlocked access to shared state. `workerPc` is
where the worker stands in `api_worker_main`: scanning for work, asleep (with `alarm`, the time
left of `api_wait_until`), holding a job (`apply` for an edit answer that is first applied,
`deliver` before it enters the engine, `engine`, `finish`), or `done`. `ctlPc` is the call the control
thread is in: the host serialises those calls with `engine_mtx_`, so there is one at a time.
`phase` is the host's cycle of init, start, destroy. `pollPc` and `sensorPc` are the two threads
that call without `engine_mtx_`. The guest's callbacks are steps of whoever is inside the engine
(`InGuest`). `timer_due` is what is left of the timer rather than the clock, so `Tick` needs no
bound. `timerStart` divides by `speed_multiplier` as the patched source does, but keeps the
undivided time for a resume; `skyengine_set_speed_multiplier` is a call of the page's thread without
`engine_mtx_`, so it comes between any two steps. The sensor's thread is not waited for when a
run stops. `ghost` records history for the properties; no guard reads it except to bound a run.

### CommandRing
The array, `head`, `tail` and `count` as in the code, `live` for the texts on the heap and
`hand` for the command the worker has popped. `open` says whether a run takes commands; init
resets the indices without freeing, which is right only because every end of a run clears the
queue. The refinement maps the slots from head onwards to the sequence of `CommandFifo`.

### PlatformUi
`dispatch` is the event the guest is handling; while it is, the guest opens, refreshes and closes
layers and draws in any order, and `GuestReturns` ends it, and with it the transition begun for
it. `screen` abstracts `screen_buf` to whose frame it holds: the guest's latest (`guest`), an
older one of the guest (`old`), the menu's or the text's. `Areas` are the places of the display
that the hit tests tell apart. Any number of keys may be held; `ghost.keys` are those whose press the guest got and
`ghost.lost` those a layer forgot. The funnel passes y to the widget as the build patches it
(`scripts/CMakeLists.txt:498-511`). `tw_drag` counts in whole lines. The guest draws whole frames.

### DnsRoutes and Network
A lookup has two steps because the code holds `dnsMapLock` twice with `getaddrinfo` between:
`getDnsLookupTarget` and `LookupAnswers`, which also makes the route (`createDnsMappedRoute`).
`Callers` are the guest's thread and detached ones. A token is `Prefix` plus the sequence number
modulo `SeqRange`, and the last value is the one that is skipped, `UINT32_MAX` in the code.
`promised` remembers what was handed out under the current map. `Network` adds the sockets: a
handle is `new`, `open` or `closed`; `connector[id]` is the thread of `my_connectAsync`, which
writes `realState` and then `state` in two steps; `heir` is the handle that may sit where the
socket of a running thread has been freed. `sending` is a first send of CMWAP that waits for its
lookup: the guest's thread does nothing else meanwhile. The guest connects a socket only while
its state is WAITING, as the polling protocol of the platform has it.

### FreeList, GuestHeap and Heap
Memory is counted in words of four bytes, so that code can end in the middle of the eight bytes
of a header. The free list is the set of its entries; walks are said by what they reach
(`Reached`, `WalkReaches`). A free is a sequence of steps (`freeing`), one for each fragment
around code, in the order of the loops. `Code` is what
`arm_ext_find_first_registered_code_overlap` finds: registered, primary and announced images.
`keep` in the actions on modules is the loader's chunk that vouches for an image, which lies in
guest memory and may say anything. An image may begin and end at any word of an owned block.
Where the code reckons in whole headers it can go wrong on such images; `ghost.spilled` says that
it has (a fragment was rounded up, or a rest is too short for its header), and `Exact` that it has
not. `ghost.late` says that the screen moved over a fallback heap that had grown into the reserve,
which the code does not look at. `WrapperFrees` is the guest's own copy of `mr_free`, which
edits the list without looking for code. `Heap` says what both heaps together promise: memory
handed out overlaps neither owned memory nor code.

### HostBridge
`timer.pc` is where TimerLoop stands, `main` where the main thread is in StartEngine, StopEngine,
an answer or a move to the background; `page.posted` are the callbacks queued to the main thread, which run between its
calls. The engine is seen as `guest`, with the answers it has queued. `InitEngine` and
`StartEngine` are two steps of one call, because the guest may end between the start of the
engine and the look at whether it runs. The sensor's start and stop are cut where the other
thread can come in between: the tests of `background_` and `sensor_subscribed_`, the call of
OH_Sensor, which may refuse a subscription, and the assignment of the flag; both threads run the
stop.

### Mythroad
`at` is the guest code that runs or the next step of `mythroad.c`. Lua code may do whatever its
library lets it, a call of ARM code included, and ARM code what the table lets it, in any order,
until it returns or fails. `arm` holds ARM's words for state and timer, which `Entered` writes
before a call, ARM code may write itself (`ArmWrites`) and `Read` takes back afterwards
(`sync_timer_state_from_arm`), so runtime, ARM and host each have a record of the timer.
`FinishesCallback` takes over a RESTART or STOP that ARM wrote and arms nothing; `Revived` is what
the executor arms for an extension with work queued. `ghost` lists what guest code has done to
the timer since it was last armed. `Stops(v, s, t)` is `mr_stop` with the native stop function first. `vm.app` numbers the
VMs, so that "the same application" can be said. The run's host (timer, exit request, stop) is
external: ApiRunner models it.

## 4. Runs

| run | asks | bounds |
| --- | --- | --- |
| `api_safety` | who serves a run, why it ends, order, timer against pauses, speed and restart, refinement of Session, over two runs with failing boots and inits and a sensor thread that outlives its run (4.7 million states) | queue of 2, 3 commands, 2 runs, delays up to 2 ticks, multipliers 1 and 2 |
| `api_live` | commands served, timers fire, edits answered, stops return, exits wind down (fair; 143 000 states) | 1 run, 2 commands, 1 edit, delay 1 |
| `ring` | ownership of texts, refinement of CommandFifo | 3 slots, 6 commands |
| `platform_ui` | releases, UPs, choices, screen (7.0 million states) | 1 menu of up to 2 items, text of up to 2 lines in a window of 1, 4 spots, 2 keys of which both may be held |
| `network` | tokens, routes, states shown, connects answered (fair; 667 000 states) | 2 sockets, 2 descriptors, 1 name, 2 addresses, 1 route, 3 tokens, 2 generations, 1 lookup thread next to the guest's |
| `guest_heap` | what is handed out, free, lost; headers and code; refinement of Heap (1.4 million states) | pool of 4 words, fallback heap of 5 with a reserved word and a screen reserve of 2, requests of 2 and 3 words, 2 blocks, 1 module that may lie anywhere |
| `host` | polling, exit, edits, sensor (fair; 148 000 states) | 2 runs, 2 edits, 1 queued answer |
| `app` | VM, natives, timer, restart, end (fair; 1.0 million states) | 3 applications, 2 runs of the host |
| `api_dsm`, `net_close`, `heap_code`, `app_exit` | the disagreements of section 7 | smallest that show them |

A run checks no property that a theorem of section 6 states and no step of the run could break
in a way another property would not show: the type invariants, `Lifecycle`, `NoLostWakeup`,
`ResetLosesNothing`, `RingConsistent`, `FocusInRange` and `DescriptorsOwnedOnce` were checked by
TLC before they were proved and are left to the proofs.

Why the bounds suffice. Two runs show everything that leaks from one to the next, as `init`
resets all that `start` uses. A queue of 2 is full, has a newest and an oldest entry and room for
a move to replace; with three commands it is filled again; the ring has 3 slots so that full,
empty and wrapped states differ and the index before the tail wraps. A delay of 2 ticks is paused
before, in the middle and at the end, and is halved by a multiplier of 2. Two menu items give a
focus that wraps, and a refresh that makes the menu shorter; two lines in a window of one can be
scrolled. A text or a menu that is opened again replaces the old one, so more of them add no
state. Of two keys one is taken by a layer while the other is held. In `network` two sockets are
the one a thread works on and the one that takes its place; one route makes the table full with
the second answer; three tokens of which one is skipped wrap around at once; two generations are
the map of a lookup and the next. In `guest_heap` a pool of four words is split, exhausted and
cut around code at the front, in the middle and at the end of a block; requests of 3 words
exercise the rounding; the fallback heap meets the reserved word, the moved screen and its end.
In `host` a second page follows a run that ended, was stopped, or both. In `app` three
applications are one that names an old one, the old one, and what either starts next; two runs
of the host show what the first leaves. The proofs of section 6 remove the bounds for the
properties they cover.

Four larger or more special instances are kept as configurations and gave the same result:
`ApiTimer.cfg` (delays up to 4 ticks, multipliers 0 to 3, which the code clamps, start_dsm calls;
415 000 states), `UiKeys.cfg` (three keys, all of which may be held; 2.4 million), `GuestPool.cfg`
(a pool of six words, the fallback heap empty; 2.3 million) and `HostSensor.cfg` (the sensor
alone).

Runs with `CHECK_DEADLOCK FALSE` are of systems that really stop: with the bounds on runs,
commands, applications or blocks used up and the host done, nothing is left to do. `MaxCmds`
bounds the commands a run accepts; a host that never stops sending starves the guest's timer,
because the worker takes commands before a due timer (`api` 511-526). `TimerFires` therefore
speaks of finitely many commands. One constant leaves something out on purpose, `EndsInBoot` of
Mythroad, and the run `app_exit` shows what.

## 5. Fairness

ApiRunner: weak fairness of the worker's steps (it is a thread of its own, and a dispatch
returns; the return of the guest is assumed, an application that loops for ever hangs the run),
of the rest of a call of the control thread (ordinary code that waits only for the join and the
mutex), the poll of TimerLoop (every 16 ms), the rest of a motion call, and the passage of time.
The host's calls, the guest's callbacks and spurious wakeups (`WorkerWakes(FALSE)`) are unfair:
nothing makes them happen. `TimerFires` and `AcceptedIsServed` exempt a host that pauses, and
`TimerFires` a host that enters the guest with start_dsm calls, in each of which the guest may
arm its timer again.

Network: weak fairness of the connect threads only; `connect` returns, after its timeout at the
latest. Lookups need not answer, the guest need not call.

HostBridge: weak fairness of the poll loop, of the rest of a call of the main thread, and of the
engine taking a queued answer (`AcceptedIsServed` of ApiRunner). Strong fairness of what is
enabled again and again but may be overtaken: the posted callbacks, which have their turn
between the page's calls, a user who answers a dialog on the screen, and one who comes back to
the ability. Without the last two nothing can be said about an edit. OH_Sensor may refuse a
subscription as often as it likes; `SensorFollowsGuest` exempts one that refuses for ever.

Mythroad: weak fairness of the return of ARM code and of the steps of `mythroad.c`, strong
fairness of the return of Lua code, which may call ARM code any number of times before; weak
fairness of an armed timer (`TimerFires` of
ApiRunner) and of the stop of a run that has ended (`ExitWindsDown`).

## 6. Proofs

All theorems hold for every value of the constants that the named assumptions allow.

`ApiRunnerProofs`. The inductive invariant is `Safe == TypeOK /\ Lifecycle`. `TypeOK` alone is
not inductive, and none of the safety properties is: that init and destroy find no worker depends
on `api_thread_started` telling the truth, which depends on where the worker and the control
thread stand. `Lifecycle` says how flags, worker, queue and the host's cycle hang together; one
step per action proves it. From it follow `TypeCorrect`, `LifecycleHolds`, `RunIsServed`,
`ResetIsSafe`. `NoWakeupIsLost` and `PausesKeepTimer` have invariants of their own on top of
`Safe`; the latter says that what is left of the timer is never less than what is owed to the
guest, and more only where a pause kept the multiplier from it. `OneThread` assumes that the host makes no start_dsm call (`"dsm" \notin HostOps`); the
run `api_dsm` shows that it is needed. `RunnerImplementsSession` proves that every step of the
runner is a step of Session or a stutter; a start_dsm call is invisible to Session, whose
driver is the boot or the worker.

The properties that speak of history each need an invariant that says what the history can be
at every place a thread may stand. `RunsAgree` (commands, jobs and the call under way carry the
number of the present run; `init` has left no timer) gives `RunsAreIsolated`. `AnswersAgree` (an
edit that is open has had no answer) gives `EditsAnsweredOnce`. `IdsAscend` (pending commands are
numbered in the order of their acceptance, all after the last one served, which a move that
replaces a pending one keeps) gives `DispatchesInOrder`. `ClosersSawExit` (whoever is about to
close the run has seen its guest's exit, or looked at `api_running` before this run came up) gives
`RunsEndForAReason` and, with `RunsAgree`, `HostsKeepTimer`. Both hold for every host and name
what the code lets through, a sample from between two runs and the step call; section 7 says
which comments these contradict.

`CommandRingProofs`. The inductive invariant is types, `RingConsistent` and the shape of what the
worker holds. `RingSafe` and `RingImplementsFifo` follow; the arithmetic of the wraparound is in
lemmas about `Wrap`, with a case split instead of `%` where the prover needs it. `RingOwnsTexts` counts nothing:
`Owned` numbers the places a text can be in, the worker's hand and the pending commands from the
head on, and says that no text is in two; that the queue of an ended run is empty is part of it,
as `skyengine_api_init` resets the indices without a free.

`PlatformUiProofs`. `Safe` has five parts: types, `FocusInv` (a shown menu has an item, the focus
is on one, the scroll position within the text), `TouchInv` (the captured target is the one of
the touch under way and of the menu shown), `TransitionInv` (a transition is open exactly while
the guest handles an event a layer posted, and a restore is pending only then) and `ScreenInv`
(without a layer the guest's frame is on the screen or to be restored). The screen properties are
not inductive without `TransitionInv`, nor `TransitionInv` without the pending restore of a menu
that was closed by a choice. `KeysArePaired` adds `KeyInv`: a key that is down is the guest's, is
remembered by the layer that took its press, or has been forgotten for a later press. It holds
for any number of held keys.

`NetworkProofs`. Two invariants. `DnsInv`: no two routes share a token, every route is of the
current map, every promise is a route of the table, and a lookup that no new map has overtaken
carries a port of the current one; the step that makes a route rests on the sequence number
skipping tokens in use. `TokensAreImmutable` and `RoutesFollowMap` follow, for any number of
names, threads and routes; that a free token exists is the assumption `MaxRoutes + 1 < SeqRange`
(256 and 2^28 in the code). `SocketInv`: types, `DescriptorsOwnedOnce`, and that a virtual or
closed socket has no descriptor, on which closing rests. The steps of the connect threads do
not touch a descriptor, and the lookups no socket, so each half is proved over its own steps.
`StateInv` gives `StateShownIsReal`: between the two writes of a thread the real state is the
thread's result, a send that waits is on an open socket of CMWAP, and, until a socket is closed
under its thread, each thread has an open socket of its own. From the last part also follows
`OnlyStraysWriteElsewhere`: what the run `net_close` shows has no other cause.

`FreeListProofs`. `InsertKeepsWellFormed`, for any list whose entries lie apart and any block that
overlaps none of them: the entry that results spans the block and the neighbours it touches, all
others stay as they are, no word is won or lost, and no two entries touch. "Apart" includes that
no entries touch, without which one insertion could leave two that do.

`GuestHeapProofs`. `IInv` has ten parts. `PoolOK`, `HeadersOK`, `TopOK` and `FallbackOK`: the
entries of both heaps are inside their heap, outside the reserved areas and apart, and those of
the pool hold their headers. `RegistryOK`: the images, which may lie anywhere, are below the top.
`CodeApart`: no free block of the fallback heap is code, and none of the pool unless the guest's
own walk put it there. `OwnersOK`: what is owned, rounded as the heap rounds it, overlaps nothing
owned or free; a block that is being freed counts as owned until its first fragment is.
`FreeingOK` and `RestOK`: what a free has still to give back is apart from all of this and holds a
header or lies behind code. `WordsOK`: where the words of the pool are. No property is inductive
alone: that a malloc hands out no code needs `CodeApart`, which a free keeps because of
`FreeingOK`, which rests on `OwnersOK` when the free begins. `Inv` is `IInv` while `Exact` holds,
and `Typed`, a weaker invariant that is kept afterwards too.

Nothing is assumed of where images begin and end, or of when the screen moves. From `Inv` follow
`PoolListStaysSound`, `NoWordIsLost`, `OwnedIsNeverFree` and `GuestHeapImplementsHeap`, each until
`Exact` first fails, which it can: `heap_code` and `HeapRest.cfg` show how. `HeapTypeOK` and
`FreeingSparesCode` follow from `Typed` and hold without any such condition.
`FreesWithoutRoundingAreExact` says that rounding is the only cause of what `heap_code` shows. The
refinement goes step by step: a malloc is one of `Heap` because what it takes was free and spares
code, and the steps of a free after the one that gives the block up are stutters.
The named assumption has `StackLo < CodeHi`: the reserve of stack and code between the two halves
of the fallback heap is not empty, or a merge could span it.

`HostBridgeProofs`. `RunningGuestIsPolled` alone says nothing of the moments between two calls.
`LoopInv` adds that a page that is not shown leaves neither guest nor loop, that StartEngine
finds no loop, that StopEngine clears the flag before it joins, and that only a guest that has
ended lets a loop go by itself. `SensorInv` gives `SubscriptionsAreKnown`: a loop that is about to
subscribe has seen the flag down, so the main thread finds nothing to stop, and while the main
thread stops, `background_` keeps the loop from subscribing.

`MythroadProofs`. On top of the types (with the bound on applications that a restart keeps),
`OpenInv`: the VM is open whenever code runs, is about to be called, or the state is RUN;
`OwnInv`: an extension of this run that no stop function kept is the application's own; `EndInv`:
a run that lasts in state IDLE or STOP has been told, wherever the control is. `TimerInv` gives
`ARunningTimerTicks` and `ARestartIsArmed`: neither property is inductive, as a call of ARM code
reads the timer back from ARM's word, so the invariant speaks of that word and of
`host_timer_pending` while ARM code runs. What guest code may do against them (stop the timer that
a restart waits for, write the word, write RESTART with no timer, exit by table[54]) is history
in `ghost` and part of the statements. `ClosedVmIsLeftAlone` assumes `~EndsInBoot`; the run
`app_exit` shows that it is needed.

Only model-checked: liveness, as fairness and `ENABLED` are out of the prover's reach
(`AcceptedIsServed`, `EditGetsAnswer`, `TimerFires`, `StopReturns`, `ExitWindsDown` of the runner;
`ConnectIsAnswered`; `EditIsAnswered`, `SensorFollowsGuest`, `ExitIsTold` of the bridge;
`RestartHappens`). Three theorems carry a condition whose absence breaks the property: `OneThread`
(no start_dsm calls), `OnlyStraysWriteElsewhere` (no socket closed under its thread) and
`ClosedVmIsLeftAlone` (no Exit while booting). Induction over data is out of reach too; no module
proved about has a `RECURSIVE` operator.

## 7. Where code and documentation disagree

Four runs show one each:
- `api_dsm`: `README.md:256` and `:302` say one mutex and one worker drive the engine. The
  start_dsm calls run the guest on the caller's thread while the worker may be in it.
- `net_close`: the comment at `ohos_src/network.c:144-148` says the threads own their payload. The
  payload of a connect thread points to the guest's socket record, which `my_closeSocket` frees.
- `heap_code`: the comment at `aex_mem.c:357-361` promises that only non-code fragments of a freed
  block return to the pool. A fragment behind code that ends at 4 mod 8 is rounded up and takes
  four bytes of the next block with it.
- `app_exit`: the comment at `mythroad.c:2712` says nobody need care when `mr_stop` is called.
  The call of the entry that the build adds uses the VM after the application's Exit closed it.

The others are refuted by TLC in the same way; each has a configuration, which is not among the
runs, and a definition whose comment says what is promised. What
holds instead is checked by the runs of section 4.
- `StraySampleIsDropped` (`ApiSample.cfg`): `skyengine_api.h:87` says samples are dropped when
  nobody listens. `skyengine_api_motion` reads `api_running` and writes 0 without a lock
  (`api:813-815`); a sample that comes across a restart takes the new run down.
- `TimerStepIsTick` (`ApiManual.cfg`): `skyengine_api.h:106-107` and `README.md:275` have
  `skyengine_api_timer` for hosts that schedule the timer themselves. With the runner it only
  takes the armed timer away (`api:868`).
- `SpeedShortensTimer` (`ApiSpeed.cfg`): `scripts/CMakeLists.txt:934` and `README.md:346` say the
  interval is divided and a change makes a waiting timer due. A timer that is armed while the
  guest is paused keeps its undivided time for the resume (`api:956`), and a change of speed in a
  pause is lost to it.
- `NoReleaseLeaks` (`UiLeak.cfg`): the comment at `native_modal_menu.c:55-56` says the release of a
  captured key does not reach the guest. Menu and text remember one key (`:383`); the front end
  holds several (`Emulator.ets:260-274`), and the release of the first one leaks.
- `LayerCovers` (add it to `PlatformUi.cfg`): closing one of two stacked layers shows the guest's
  frame over the other, against `skyengine_api.c:214-216`.
- `DragFollowsFinger` (with `Spots <- BodySpots`): the anchor of a drag moves away from the finger
  (`native_text_widget.c:596`), so a text scrolls on and on.
- `MallocSparesCode` (`HeapMalloc.cfg`): `aex_mem.c:201` says code cannot be free-list metadata. A
  block is taken before two images that touch; the header of the rest behind the first is written
  into the second (`:228` looks once).
- `NodesHoldHeaders` (`HeapRest.cfg`): `aex_mem.c:89` says a node is eight bytes at least. What is
  left behind an image that ends at 4 mod 8 may be four (`:235`).
- `ReserveIsClosed` (`HeapScreen.cfg`): `aex_mem.c:1242-1243` closes the screen's reserve to the
  fallback heap. Blocks that were allocated there before the screen moved are recycled into it
  (`:526-548`).
- `BackgroundIsSilent` (`HostBackground.cfg`): `vmrp_engine.cpp:471` and `vmrp_napi.cpp:638` say no
  sensor is subscribed in the background. PollMotionShake subscribes after its test of
  `background_` (`:472`), and no later tick takes that back.
- `ForegroundHears` (`HostForeground.cfg`): `vmrp_napi.cpp:649` says the flag is cleared on return.
  EntryAbility skips MediaResume when no guest runs (`EntryAbility.ets:115`), so a guest that ended
  in the background leaves `background_` set, and the next one is never subscribed.
- `OneThreadStops` (`HostStops.cfg`): `vmrp_engine.cpp:465-466` says PollMotionShake needs no lock.
  Both threads may be in StopSensor (`:441`) and destroy one subscriber.
- `NoDialogForAnswered` (`HostDialog.cfg`): `vmrp_napi.cpp:218` tells the page when an edit appears.
  A notice withdrawn by an answer while the loop looks (`:222`) tells it twice of one edit.
- `ExitReturns` (`AppReturn.cfg`): `arm_ext_executor.c:1567-1568` says an exit to the host goes
  through `mr_exit` with its restart of the old application. After table[54]
  (`aex_table.c:953-961`) the copy of ARM's word (`aex_timer.c:206`) sets the timer to IDLE, and
  `mr_timer` then ignores the tick that should restart.
- `StateIsTakenOver` (`AppState.cfg`): `arm_ext_executor.c:1519-1521` says a RESTART that ARM code
  wrote is taken over. `arm_ext_invoke0` and `_invoke3` (`:3051`, `:3084`) do not, so one written
  inside a registered native function is lost.
- `RestartForgetsNatives` without `ext.run = host.run` (Mythroad): `stopEngine` does not call
  `mr_stop`, so the extension and native functions of one run are there in the next, until its
  own code replaces them.

Behaviour no document speaks of, kept in the models as it is: an edit answer carries no handle,
so one queued for an edit that was released reaches the next; after an init that failed,
`api_worker_stop` stays set and calls are refused; the text widget captures no touch, so the UP
after a DOWN on its soft key may reach the guest and the UP of the touch that opened it is
swallowed; `tw_drag_active` outlives a text and a run; in CMWAP a first send that fails is the
last attempt to connect; a fallback allocation that fails may still move `heap_top`; an
application that asks for another and then stops the timer waits for ever, with `mr_state` RESTART
and no event taken (`RestartIsArmed` and `RestartHappens` except it by name); `mr_timer` ignores
the result of a restart, which is why `EndIsTold` exempts an application that could not be loaded.

## 8. Not modelled

Drawing, fonts, text layout, image, sound and archive decoding (computation without protocol);
the interpreter and the emulation of ARM code (the guest is any sequence of callbacks); file
paths and screen buffers of `skyengine_api_start`; a change of the display size (`plat(101)`);
paths that run out of the host's memory; the build without `VMRP_API_ASYNC_RUNNER`; EGL and N-API
calls. The share of the repository's lines that is modelled is small for this reason: most of
it is interpreter, tables, decoders, headers of sample programs and the executor's
patches for single games.

- Network: the bytes sent and received, the buffers of the payment answers, UDP and the Windows
  branch. `NoPort` stands for "no entry" and "an entry without a port", which are looked up
  alike. `getaddrinfo` and `createDnsMappedRoute` are one step, since nothing is shared between
  them. The null guards that the build adds (`scripts/CMakeLists.txt:906-917`) are assumed.
- GuestHeap: the statistics `note_origin_mem_*`, the dynamic arenas and compact heaps, blocks the
  host allocates for its own structures, the shorter copy of `host_cache_sync`.
- HostBridge: rendering, the frame buffers, audio. Posted callbacks are delivered before the next
  page opens; a dialog stays until it is answered; `QueueCap` stands for the runner's queue.
- Mythroad: the state PAUSE (`mr_pauseApp` has no caller in this build), `mr_stop_ex` called by the
  guest itself (table[22], `aex_table.c:295-301`), what a registered stop function does to the
  timer, the call of ARM code by the result of an SMS, words of the timer other than IDLE and
  RUNNING, the flag that keeps the VM over a stop, the name of the timer's function, `mr_exit_cb`,
  and Lua code that catches the error Exit raises.
