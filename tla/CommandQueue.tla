---------------------------- MODULE CommandQueue ----------------------------
(***************************************************************************)
(* The host-to-guest command queue of skyengine_api.c, as operators on the *)
(* sequence of pending commands.  ApiRunner uses them for api_queue; the   *)
(* circular array that stores the sequence is the business of CommandRing. *)
(*                                                                         *)
(* A command is any record with a field kind; "move" is an API_CMD_EVENT   *)
(* whose code is VMRP_MOUSE_MOVE, the only kind the queue looks at.        *)
(***************************************************************************)
EXTENDS Naturals, Sequences

CONSTANT QueueCap        \* API_QUEUE_CAP

ASSUME QueueCapAssumption == QueueCap \in Nat \ {0}

IsMove(cmd) == cmd.kind = "move"

\* The newest pending command is a pointer move, so another move replaces it.
Coalesces(queue, cmd) ==
  /\ IsMove(cmd)
  /\ queue # << >>
  /\ IsMove(queue[Len(queue)])

Full(queue) == Len(queue) >= QueueCap

\* api_queue_command_locked appends a command and signals the worker.
Appends(queue, cmd) == ~Coalesces(queue, cmd) /\ ~Full(queue)

\* Mutant: a move replaces any pending move, not only the newest command.
OfferInto(queue, cmd) ==
  LET moves == {i \in 1..Len(queue) : IsMove(queue[i])}
  IN  IF IsMove(cmd) /\ moves # {}
      THEN [queue EXCEPT ![CHOOSE i \in moves : TRUE] = cmd]
      ELSE IF Full(queue) THEN queue ELSE Append(queue, cmd)

\* The queue after the call.
Offer(queue, cmd) ==
  IF Coalesces(queue, cmd) THEN [queue EXCEPT ![Len(queue)] = cmd]
  ELSE IF Full(queue) THEN queue
  ELSE Append(queue, cmd)

\* The call returns 0.  A move that finds the queue full is dropped with 0.
Accepted(queue, cmd) == IsMove(cmd) \/ ~Full(queue)
=============================================================================
