----------------------------- MODULE CommandRing -----------------------------
(***************************************************************************)
(* The circular array behind the command queue of skyengine_api.c, and the *)
(* texts its commands own.                                                 *)
(*                                                                         *)
(* Every operation runs under api_mutex and is one step.  A set_edit_text  *)
(* command owns a heap text, and whoever drops the command frees it:       *)
(* api_queue_command when it is refused, api_clear_queue_locked, or the    *)
(* worker after the dispatch.  open stands for the run: api_running and    *)
(* not api_worker_stop, which ApiRunner models in full.                    *)
(***************************************************************************)
EXTENDS Integers, Sequences, FiniteSets, CommandQueue

CONSTANTS
  Commands,    \* records with the fields kind and text
  NoText,      \* the text of a command that has none
  Unused       \* a slot before its first use

ASSUME CommandsAssumption ==
  /\ \A cmd \in Commands : IsMove(cmd) => cmd.text = NoText
  /\ Unused \notin Commands

Slots == 0..(QueueCap - 1)

Texts == {cmd.text : cmd \in Commands} \ {NoText}

\* One command or none.
AtMostOne == {<<cmd>> : cmd \in Commands} \cup {<< >>}

VARIABLES
  api_queue,          \* the slots
  api_queue_head,
  api_queue_tail,
  api_queue_count,
  open,
  hand,               \* the command the worker took and has not finished
  taken,              \* history: the last command popped
  live                \* the texts allocated and not yet freed

ringVars == <<api_queue, api_queue_head, api_queue_tail, api_queue_count>>
vars == <<ringVars, open, hand, taken, live>>

Init ==
  /\ api_queue = [slot \in Slots |-> Unused]
  /\ api_queue_head = 0 /\ api_queue_tail = 0 /\ api_queue_count = 0
  /\ open = TRUE
  /\ hand = << >> /\ taken = << >>
  /\ live = {}

-----------------------------------------------------------------------------
Wrap(n) == n % QueueCap

\* The slot of the newest command, one before the tail.
Newest == Wrap(api_queue_tail - 1 + QueueCap)

\* Mutant: the command is compared with the oldest one.
ReplacesOldestMove(cmd) ==
  /\ IsMove(cmd)
  /\ api_queue_count > 0
  /\ IsMove(api_queue[api_queue_head])

ReplacesMove(cmd) ==
  /\ IsMove(cmd)
  /\ api_queue_count > 0
  /\ IsMove(api_queue[Newest])

HasRoom == api_queue_count < QueueCap

\* api_queue_command of a command whose text, if any, was just allocated.  A
\* move takes over the old move's slot; a command that is refused is freed.
api_queue_command(cmd) ==
  /\ cmd.text \notin live
  /\ IF open /\ ReplacesMove(cmd)
     THEN /\ api_queue' = [api_queue EXCEPT ![Newest] = cmd]
          /\ UNCHANGED <<api_queue_head, api_queue_tail, api_queue_count, live>>
     ELSE IF open /\ HasRoom
     THEN /\ api_queue' = [api_queue EXCEPT ![api_queue_tail] = cmd]
          /\ api_queue_tail' = Wrap(api_queue_tail + 1)
          /\ api_queue_count' = api_queue_count + 1
          /\ live' = live \cup ({cmd.text} \ {NoText})
          /\ UNCHANGED api_queue_head
     ELSE UNCHANGED <<ringVars, live>>
  /\ UNCHANGED <<open, hand, taken>>

\* api_pop_command_locked, by the worker.
api_pop_command ==
  /\ open /\ hand = << >>
  /\ api_queue_count > 0
  /\ hand' = <<api_queue[api_queue_head]>>
  /\ taken' = hand'
  /\ api_queue_head' = Wrap(api_queue_head + 1)
  /\ api_queue_count' = api_queue_count - 1
  /\ UNCHANGED <<api_queue, api_queue_tail, open, live>>

\* The end of a dispatch: free(cmd.text), unless api_apply_edit_text_command did.
WorkerFrees ==
  /\ hand # << >>
  /\ hand' = << >>
  /\ live' = live \ {hand[1].text}
  /\ UNCHANGED <<ringVars, open, taken>>

\* Slot of the i-th pending command, counted from 1.
SlotOf(i) == Wrap(api_queue_head + i - 1)

PendingTexts == {api_queue[SlotOf(i)].text : i \in 1..api_queue_count}

\* Mutant: the queue is emptied without freeing what was in it.
api_clear_queue_leaks ==
  /\ api_queue_head' = Wrap(api_queue_head + api_queue_count)
  /\ api_queue_count' = 0
  /\ open' = FALSE
  /\ UNCHANGED <<api_queue, api_queue_tail, hand, taken, live>>

\* api_clear_queue_locked pops and frees all; it is called where a run ends.
api_clear_queue ==
  /\ api_queue_head' = Wrap(api_queue_head + api_queue_count)
  /\ api_queue_count' = 0
  /\ live' = live \ PendingTexts
  /\ open' = FALSE
  /\ UNCHANGED <<api_queue, api_queue_tail, hand, taken>>

\* skyengine_api_init, when the worker is gone, sets the indices to zero.
InitResets ==
  /\ ~open /\ hand = << >>
  /\ api_queue_head' = 0 /\ api_queue_tail' = 0 /\ api_queue_count' = 0
  /\ open' = TRUE
  /\ UNCHANGED <<api_queue, hand, taken, live>>

Next ==
  \/ \E cmd \in Commands : api_queue_command(cmd)
  \/ api_pop_command
  \/ WorkerFrees
  \/ api_clear_queue
  \/ InitResets

Spec == Init /\ [][Next]_vars

-----------------------------------------------------------------------------
(* Properties.                                                             *)

\* The indices stay within the array and the count within its capacity.
RingTypeOK ==
  /\ api_queue \in [Slots -> Commands \cup {Unused}]
  /\ api_queue_head \in Slots /\ api_queue_tail \in Slots
  /\ api_queue_count \in 0..QueueCap

TypeOK ==
  /\ RingTypeOK
  /\ open \in BOOLEAN
  /\ hand \in AtMostOne /\ taken \in AtMostOne
  /\ live \subseteq Texts

\* Head, tail and count agree, and the slots between hold commands: the three
\* are updated apart from each other in queue, pop, clear and init.
RingConsistent ==
  /\ api_queue_tail = Wrap(api_queue_head + api_queue_count)
  /\ \A i \in 1..api_queue_count : api_queue[SlotOf(i)] # Unused

\* A text is alive exactly while one pending command, or the worker, holds it:
\* nothing leaks, nothing is freed while a command still points to it, and no
\* two commands share one.
Holders(text) ==
  {i \in 1..api_queue_count : api_queue[SlotOf(i)].text = text}
    \cup {i \in {0} : hand # << >> /\ hand[1].text = text}

TextsOwnedOnce ==
  \A text \in Texts :
    Cardinality(Holders(text)) = IF text \in live THEN 1 ELSE 0

\* The ring is the bounded queue of CommandFifo.
pending == [i \in 1..api_queue_count |-> api_queue[SlotOf(i)]]
F == INSTANCE CommandFifo

ImplementsFifo == F!Spec
=============================================================================
