---------------------------- MODULE MCLabjackT4 ----------------------------
(* Instance of LabjackT4 for TLC. *)
EXTENDS LabjackT4

Upd(mine, channel, val) ==
    [op |-> "update", mine |-> mine, channel |-> channel, val |-> val]
Motor(mine, direction, duration) ==
    [op |-> "start_motor", mine |-> mine, direction |-> direction,
     duration |-> duration]

\* Updates of the motor's channels and of another; a motor with a duration and
\* without; one of each for another localid.
MCCommands ==
    {Upd(TRUE, "a", 1), Upd(TRUE, "d", 1), Upd(TRUE, "x", 1),
     Upd(FALSE, "c", 1), Motor(TRUE, "open", 3), Motor(TRUE, "close", 0),
     Motor(FALSE, "close", 3)}
=============================================================================
