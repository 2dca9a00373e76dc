---------------------------- MODULE CommandCalls ----------------------------
(***************************************************************************)
(* What the control connection promises to the host that sends commands,   *)
(* with no threads, semaphores or multimap left in it: commands are        *)
(* posted; some are executed, by anyone and any number of times, while     *)
(* they are open; an executed command is closed when its response is       *)
(* picked up, and the response is sent once or lost.  So no command is     *)
(* answered twice, and none is answered that nobody executed.              *)
(***************************************************************************)
EXTENDS Naturals

VARIABLES
  posted,     \* how many commands were posted
  open,       \* the numbers of the commands still open
  executed,   \* the numbers of the commands executed at least once
  response,   \* at most one number: the response picked up and not yet sent
  answered    \* the numbers of the commands whose response was sent

vars == <<posted, open, executed, response, answered>>

Init ==
  /\ posted = 0
  /\ open = {}
  /\ executed = {}
  /\ response = {}
  /\ answered = {}

Post ==
  /\ posted' = posted + 1
  /\ open' = open \cup {posted + 1}
  /\ UNCHANGED <<executed, response, answered>>

\* Somebody executes some of the open commands.
Execute ==
  /\ executed \subseteq executed'
  /\ executed' \subseteq executed \cup open
  /\ UNCHANGED <<posted, open, response, answered>>

\* The response of an open command that was executed is picked up.
Pick ==
  \E n \in open \cap executed :
    /\ response = {}
    /\ response' = {n}
    /\ open' = open \ {n}
    /\ UNCHANGED <<posted, executed, answered>>

\* The response is sent to the host ...
Answer ==
  /\ answered' = answered \cup response
  /\ response' = {}
  /\ UNCHANGED <<posted, open, executed>>

\* ... or lost with the connection.
Lose ==
  /\ response' = {}
  /\ UNCHANGED <<posted, open, executed, answered>>

Next == Post \/ Execute \/ Pick \/ Answer \/ Lose

Spec == Init /\ [][Next]_vars
=============================================================================
