--------------------------- MODULE MCCommandRing ----------------------------
(* Model-checking values for CommandRing: two commands without a text, two *)
(* moves, and two answers whose texts are told apart.                      *)
EXTENDS CommandRing

CONSTANTS none, unused, t1, t2

Cmd(kind, id, text) == [kind |-> kind, id |-> id, text |-> text]

SmallCommands ==
  { Cmd("key", 1, none), Cmd("key", 2, none), Cmd("move", 1, none),
    Cmd("move", 2, none), Cmd("text", 1, t1), Cmd("text", 2, t2) }
=============================================================================
