--------------------------- MODULE CommandResponse ---------------------------
(***************************************************************************)
(* The command path of the Mech server.  The control thread receives a     *)
(* message with commands from the host; for each one it inserts an entry   *)
(* in the multimap localidComm and raises the semaphore of the worker the  *)
(* command's localid belongs to (doCommand); then it waits two seconds for *)
(* semRespID, looks for a response to the last command, and sends it or    *)
(* "none" to the host (processHostCommand).  A worker (doControl and       *)
(* handleCommand of Upnp_ushare and Dsp_share) polls its semaphore, walks  *)
(* localidComm, executes what it knows how to, and raises semRespID.       *)
(*                                                                         *)
(* doCommand, the search for the response and handleCommand hold           *)
(* controlMutex from beginning to end: each is one action.  The semaphores *)
(* are not under the mutex, except the worker's when doCommand raises it.  *)
(* What a response says is abstracted to which worker executed which       *)
(* command; localids are numbered in the order of their strings.           *)
(***************************************************************************)
EXTENDS Naturals

CONSTANTS
  Localids,      \* the localids a command may name, in the order of the multimap
  Workers,       \* those that belong to a worker with a command loop
  Ops,           \* operations a command may ask for
  Handles,       \* the operations each worker knows
  SemMax,        \* SEMVMX, the highest value of a System V semaphore
  MaxBatch,      \* bound: commands in one message
  MaxCommands    \* bound: commands ever received

ASSUME CommandResponseAssumption ==
  /\ Localids \subseteq Nat \ {0}
  /\ Workers \subseteq Localids
  /\ Handles \in [Workers -> SUBSET Ops]
  /\ SemMax \in Nat \ {0}
  /\ MaxBatch \in Nat
  /\ MaxCommands \in Nat

VARIABLES
  localidComm,   \* set of entries [n, localid, stan, op, status, by]
  sem,           \* each worker's semaphore
  semResp,       \* value of semRespID
  step,          \* where the control thread is
  c,             \* the command processHostCommand holds: [n, localid, stan]
  left,          \* commands of the message not yet passed to doCommand
  resp,          \* the response found, as a set of at most one [n, by]
  timedOut,      \* the wait for semRespID ended without a permit
  at,            \* where each worker is
  posted,        \* number of commands received
  executed,      \* history: <<n, w>> when worker w executed command n
  again,         \* history: some command was executed after it had its response
  answered,      \* history: numbers of the commands whose response was sent
  clean          \* history: see Tidy

controlVars == <<step, c, left, resp, timedOut>>
historyVars == <<executed, again, answered, clean>>
vars == <<localidComm, sem, semResp, at, posted, controlVars, historyVars>>

\* commType: status is 0 when the command is received and 2 when it has a response;
\* n is its number and `by` the worker its response comes from (0 for none).
Entry == [n : Nat \ {0}, localid : Localids, stan : Nat, op : Ops,
          status : {0, 2}, by : Workers \cup {0}]

\* No element of the message was read yet.
NoCommand == [n |-> 0, localid |-> 0, stan |-> 0]

\* What a loop from localidComm.find(l) to localidComm.end() visits.
From(l) ==
  IF \E e \in localidComm : e.localid = l
  THEN {e \in localidComm : l <= e.localid}
  ELSE {}

\* The order of the multimap: by localid, equal ones in the order of insertion.
Precedes(d, e) == d.localid < e.localid \/ (d.localid = e.localid /\ d.n <= e.n)

\* A worker of its own executes the command when it gets to it.
HasWorker(l, op) == l \in Workers /\ op \in Handles[l]

\* semRelease: at SEMVMX semop fails and only logs.
Raised(value) == IF value < SemMax THEN value + 1 ELSE value

Init ==
  /\ localidComm = {}
  /\ sem = [w \in Workers |-> 0]
  /\ semResp = 0
  /\ step = "read"
  /\ c = NoCommand
  /\ left = 0
  /\ resp = {}
  /\ timedOut = FALSE
  /\ at = [w \in Workers |-> "poll"]
  /\ posted = 0
  /\ executed = {}
  /\ again = FALSE
  /\ answered = {}
  /\ clean = TRUE

-----------------------------------------------------------------------------
(***************************************************************************)
(* The control thread.                                                     *)
(***************************************************************************)

\* READCLIENT: a message with k commands arrives, perhaps with none.
ReadMessage ==
  /\ step = "read"
  /\ \E k \in 0 .. MaxBatch :
       /\ posted + k <= MaxCommands
       /\ left' = k
       /\ clean' = (clean /\ k = 1)
  /\ c' = NoCommand
  /\ step' = "commands"
  /\ UNCHANGED <<localidComm, sem, semResp, at, posted, resp, timedOut,
                 executed, again, answered>>

\* Mutant: the worker is not signalled.
SignalledNobody(l) == sem

\* doCommand signals the worker of the command's localid, if there is one.
Signalled(l) ==
  IF l \in Workers THEN [sem EXCEPT ![l] = Raised(@)] ELSE sem

\* The next element of the message is read into c, which keeps the stan of the
\* one before when the element has none (0 at first), and goes to doCommand.
DoCommand ==
  /\ step = "commands"
  /\ left > 0
  /\ left' = left - 1
  /\ posted' = posted + 1
  /\ \E l \in Localids, op \in Ops, stan \in {c.stan, posted + 1} :
       /\ c' = [n |-> posted + 1, localid |-> l, stan |-> stan]
       /\ localidComm' = localidComm \cup
            {[n |-> posted + 1, localid |-> l, stan |-> stan, op |-> op,
              status |-> 0, by |-> 0]}
       /\ sem' = Signalled(l)
       /\ clean' = (clean /\ HasWorker(l, op))
  /\ UNCHANGED <<semResp, step, resp, timedOut, at, executed, again, answered>>

AllDone ==
  /\ step = "commands"
  /\ left = 0
  /\ step' = "wait"
  /\ UNCHANGED <<localidComm, sem, semResp, c, left, resp, timedOut, at, posted, historyVars>>

\* semGet(semRespID, 0, 2) gets a permit, whoever released it ...
ResponseGet ==
  /\ step = "wait"
  /\ semResp > 0
  /\ semResp' = semResp - 1
  /\ timedOut' = FALSE
  /\ step' = "collect"
  /\ UNCHANGED <<localidComm, sem, c, left, resp, at, posted, historyVars>>

\* Mutant: semGet without a timeout.
ResponseNoTimeout == FALSE

\* ... or none comes in two seconds.
ResponseTimeout ==
  /\ step = "wait"
  /\ semResp = 0
  /\ timedOut' = TRUE
  /\ clean' = FALSE
  /\ step' = "collect"
  /\ UNCHANGED <<localidComm, sem, semResp, c, left, resp, at, posted, executed, again, answered>>

\* Mutants: any status will do; the stan is not compared.
MatchesAnyStatus(e) == e.stan = c.stan
MatchesAnyStan(e) == e.status = 2

Matches(e) == e.stan = c.stan /\ e.status = 2

\* Mutant: the entry whose response was found stays in the multimap.
Kept(found) == localidComm

Erased(found) == localidComm \ found

\* The first entry from c.localid on with the stan of c and a response is erased
\* and its response taken; with none the response is "none".
Collect ==
  /\ step = "collect"
  /\ \E found \in SUBSET From(c.localid) :
       /\ found = {e \in From(c.localid) :
                     Matches(e) /\ \A d \in From(c.localid) : Matches(d) => Precedes(e, d)}
       /\ resp' = {[n |-> e.n, by |-> e.by] : e \in found}
       /\ localidComm' = Erased(found)
  /\ step' = "send"
  /\ UNCHANGED <<sem, semResp, c, left, timedOut, at, posted, historyVars>>

\* SENDCLIENTDATA: the response goes to the host, or the connection breaks and is
\* opened again.
Send ==
  /\ step = "send"
  /\ answered' \in {answered, answered \cup {r.n : r \in resp}}
  /\ resp' = {}
  /\ step' = "read"
  /\ UNCHANGED <<localidComm, sem, semResp, c, left, timedOut, at, posted, executed, again, clean>>

ControlStep ==
  \/ ReadMessage
  \/ DoCommand
  \/ AllDone
  \/ ResponseGet
  \/ ResponseTimeout
  \/ Collect
  \/ Send

-----------------------------------------------------------------------------
(***************************************************************************)
(* A worker.                                                               *)
(***************************************************************************)

\* Every 25 ms: semGet(semNum, offset, 0, 10).
Poll(w) ==
  /\ at[w] = "poll"
  /\ sem[w] > 0
  /\ sem' = [sem EXCEPT ![w] = @ - 1]
  /\ at' = [at EXCEPT ![w] = "handle"]
  /\ UNCHANGED <<localidComm, semResp, posted, controlVars, historyVars>>

\* handleCommand: from the worker's first entry to the end of the multimap, every
\* entry with an operation it knows is executed and gets a response.
HandleCommand(w) ==
  /\ at[w] = "handle"
  /\ \E run \in SUBSET From(w) :
       /\ run = {e \in From(w) : e.op \in Handles[w]}
       /\ localidComm' = (localidComm \ run) \cup
            {[n |-> e.n, localid |-> e.localid, stan |-> e.stan, op |-> e.op,
              status |-> 2, by |-> w] : e \in run}
       /\ executed' = executed \cup {<<e.n, w>> : e \in run}
       /\ again' = (again \/ \E e \in run : e.status = 2)
  /\ at' = [at EXCEPT ![w] = "respond"]
  /\ UNCHANGED <<sem, semResp, posted, controlVars, answered, clean>>

\* The worker raises semRespID, once for the signal it received.
Respond(w) ==
  /\ at[w] = "respond"
  /\ semResp' = Raised(semResp)
  /\ at' = [at EXCEPT ![w] = "poll"]
  /\ UNCHANGED <<localidComm, sem, posted, controlVars, historyVars>>

WorkerStep(w) == Poll(w) \/ HandleCommand(w) \/ Respond(w)

Next == ControlStep \/ \E w \in Workers : WorkerStep(w)

Spec == Init /\ [][Next]_vars

\* The control thread goes on with a message it has read, and each worker goes on
\* polling and doing what it is signalled for; messages come when the host likes.
Fairness ==
  /\ WF_vars(ControlStep /\ step # "read")
  /\ \A w \in Workers : WF_vars(WorkerStep(w))

FairSpec == Spec /\ Fairness

-----------------------------------------------------------------------------
(***************************************************************************)
(* Properties.                                                             *)
(***************************************************************************)

\* Type invariant: commType entries, the semaphores, and the program counters.
TypeOK ==
  /\ localidComm \subseteq Entry
  /\ \A d, e \in localidComm : d.n = e.n => d = e
  /\ \A e \in localidComm : e.n <= posted /\ (e.status = 2 <=> e.by # 0)
  /\ sem \in [Workers -> 0 .. SemMax]
  /\ semResp \in 0 .. SemMax
  /\ step \in {"read", "commands", "wait", "collect", "send"}
  /\ c \in [n : Nat, localid : Localids \cup {0}, stan : Nat]
  /\ left \in 0 .. MaxBatch
  /\ resp \subseteq [n : 1 .. posted, by : Workers]
  /\ timedOut \in BOOLEAN
  /\ at \in [Workers -> {"poll", "handle", "respond"}]
  /\ posted \in Nat
  /\ posted + left <= MaxCommands
  /\ executed \subseteq (1 .. posted) \X Workers
  /\ again \in BOOLEAN
  /\ answered \subseteq 1 .. posted
  /\ clean \in BOOLEAN

\* A command waiting for a worker that knows its operation is never forgotten:
\* the worker's semaphore is up or the worker is about to walk the multimap,
\* although it takes its permit before, and without, controlMutex.
NoneForgotten ==
  \A e \in localidComm :
    e.status = 0 /\ HasWorker(e.localid, e.op) =>
      sem[e.localid] > 0 \/ at[e.localid] = "handle"

\* A response sent for a command the host gave a stan of its own (not 0, not left
\* over from the element before) is the response to that command, although the
\* search runs on into the entries of other localids.
AnswersTheQuestion ==
  c.n > 0 /\ c.stan = c.n => \A r \in resp : r.n = c.n

\* Tidy: so far every message held one command, for a worker that knows it, and no
\* wait ended without a permit.  Then the permit the control thread gets is the one
\* for its own command, whose response is there when it looks.
TidyPermit ==
  clean /\ step = "collect" =>
    \E e \in localidComm : e.n = c.n /\ e.status = 2

\* ... and no command is executed twice, or by a worker of another localid.
TidyExecution ==
  clean =>
    /\ ~again
    /\ \A e \in localidComm : e.by \in {0, e.localid}
    /\ \A p, q \in executed : p[1] = q[1] => p[2] = q[2]

\* Each message is dealt with some day, response or not, whatever the workers do.
EveryMessageAnswered == step # "read" ~> step = "read"

\* Each command for a worker that knows it is executed some day by that worker,
\* with one way out: a worker of a lower localid, whose walk goes on into the
\* entries of the higher ones, executed it first, and its response was already
\* taken from the multimap.
EveryCommandExecuted ==
  \A n \in 1 .. MaxCommands, w \in Workers :
    (\E e \in localidComm : e.n = n /\ e.localid = w /\ e.op \in Handles[w] /\ e.status = 0)
      ~> \/ <<n, w>> \in executed
         \/ /\ \E v \in Workers : v < w /\ <<n, v>> \in executed
            /\ \A e \in localidComm : e.n # n

\* The abstract specification: a command is answered at most once, and only after
\* it was executed.
Calls == INSTANCE CommandCalls WITH
  open <- {e.n : e \in localidComm},
  executed <- {p[1] : p \in executed},
  response <- {r.n : r \in resp}

\* The multimap, the mutex and the semaphores implement it, repeated execution, late
\* responses and lost connections included.
ImplementsCalls == Calls!Spec

\* What the comment at Mech.cc:1126 says of doCommand ("signal appropriate worker
\* thread to do the command"): a command is executed by its localid's worker only.
AppropriateWorker ==
  \A e \in localidComm : e.by # 0 => e.by = e.localid
=============================================================================
