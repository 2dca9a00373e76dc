------------------------ MODULE CommandResponseProofs ------------------------
(***************************************************************************)
(* Proofs about CommandResponse, for every set of localids, workers and    *)
(* operations and every bound: type correctness, no command forgotten, the *)
(* answers go to the commands they answer, the semRespID protocol while it *)
(* is in step, and the refinement of CommandCalls.  And about the messages *)
(* that commands and answers go by (Framing), whatever they are composed   *)
(* of: what Icomm prints is what it reads, and what a reader returns is    *)
(* what was sent.                                                          *)
(***************************************************************************)
EXTENDS CommandResponse, Framing, SequenceTheorems, WellFoundedInduction, TLAPS

\* Numbers and stans: a stan is never larger than the number of its command, and the
\* command the control thread holds is the last one received.
Numbered ==
  /\ \A e \in localidComm : e.stan <= e.n
  /\ c.n \in {0, posted}
  /\ c.stan <= c.n
  /\ step # "send" => resp = {}

\* A response was found for an executed command.
Backed ==
  \A e \in localidComm : e.status = 2 => <<e.n, e.by>> \in executed

\* Nothing is under way: no permit anywhere, no worker at work.
Quiet ==
  /\ semResp = 0
  /\ \A w \in Workers : sem[w] = 0 /\ at[w] = "poll"

\* The only entry is that of c, whose worker is about to execute it, or has.
Pending(e) ==
  /\ localidComm = {e}
  /\ e.n = c.n /\ e.localid = c.localid /\ e.stan = c.stan
  /\ HasWorker(e.localid, e.op)
  /\ e.by \in {0, e.localid}
  /\ e.status = 0 => \A p \in executed : p[1] # e.n

\* The one permit of that command, on its way from semaphore to semaphore.
OnePermit(e) ==
  /\ \A w \in Workers \ {e.localid} : sem[w] = 0 /\ at[w] = "poll"
  /\ \/ sem[e.localid] = 1 /\ at[e.localid] = "poll" /\ semResp = 0 /\ e.status = 0
     \/ sem[e.localid] = 0 /\ at[e.localid] = "handle" /\ semResp = 0 /\ e.status = 0
     \/ sem[e.localid] = 0 /\ at[e.localid] = "respond" /\ semResp = 0 /\ e.status = 2
     \/ sem[e.localid] = 0 /\ at[e.localid] = "poll" /\ semResp = 1 /\ e.status = 2

\* The protocol in step.
InStep ==
  clean =>
    /\ ~again
    /\ \A p, q \in executed : p[1] = q[1] => p[2] = q[2]
    /\ step \in {"read", "send"} => Quiet /\ localidComm = {}
    /\ step = "commands" /\ left > 0 => left = 1 /\ Quiet /\ localidComm = {}
    /\ (step = "commands" /\ left = 0) \/ step = "wait" =>
         \E e \in localidComm : Pending(e) /\ OnePermit(e)
    /\ step = "collect" => Quiet /\ \E e \in localidComm : Pending(e) /\ e.status = 2

IInv ==
  /\ TypeOK
  /\ NoneForgotten
  /\ Numbered
  /\ Backed
  /\ AnswersTheQuestion
  /\ InStep

-----------------------------------------------------------------------------
LEMMA RaisedRange ==
  ASSUME NEW v \in 0 .. SemMax
  PROVE  Raised(v) \in 0 .. SemMax /\ Raised(v) > 0
  BY CommandResponseAssumption DEF Raised

\* At most one entry is found, one of those From visits.
LEMMA OneFound ==
  ASSUME TypeOK, NEW found \in SUBSET From(c.localid),
         found = {e \in From(c.localid) :
                    Matches(e) /\ \A d \in From(c.localid) : Matches(d) => Precedes(e, d)}
  PROVE  /\ found \subseteq localidComm
         /\ \A e \in found : Matches(e)
         /\ \A d, e \in found : d = e
<1>1. found \subseteq localidComm
  BY DEF From
<1>2. \A d, e \in found : Precedes(d, e) /\ Precedes(e, d)
  OBVIOUS
<1>3. \A e \in found : e \in Entry
  BY <1>1 DEF TypeOK
<1>4. \A e \in Entry : e.n \in Nat /\ e.localid \in Nat
  BY CommandResponseAssumption DEF Entry
<1>5. \A d, e \in found : d.n = e.n
  BY <1>2, <1>3, <1>4 DEF Precedes
<1>6. QED
  BY <1>1, <1>5 DEF TypeOK

\* The entry a walk leaves in the place of e.
Done(e, w) == [n |-> e.n, localid |-> e.localid, stan |-> e.stan, op |-> e.op,
               status |-> 2, by |-> w]

LEMMA DoneEntry ==
  ASSUME NEW e \in Entry, NEW w \in Workers
  PROVE  /\ Done(e, w) \in Entry
         /\ Done(e, w).n = e.n /\ Done(e, w).localid = e.localid
         /\ Done(e, w).stan = e.stan /\ Done(e, w).op = e.op
         /\ Done(e, w).status = 2 /\ Done(e, w).by = w
  BY DEF Entry, Done

\* What the walk of a worker does to the entries.
LEMMA Walk ==
  ASSUME TypeOK, NEW w \in Workers, HandleCommand(w)
  PROVE  \E run \in SUBSET localidComm :
           /\ \A e \in localidComm :
                e.localid = w /\ e.op \in Handles[w] => e \in run
           /\ \A e \in run : e.op \in Handles[w]
           /\ localidComm' = (localidComm \ run) \cup {Done(e, w) : e \in run}
           /\ executed' = executed \cup {<<e.n, w>> : e \in run}
           /\ again' = (again \/ \E e \in run : e.status = 2)
<1>1. PICK run \in SUBSET From(w) :
        /\ run = {e \in From(w) : e.op \in Handles[w]}
        /\ localidComm' = (localidComm \ run) \cup
             {[n |-> e.n, localid |-> e.localid, stan |-> e.stan, op |-> e.op,
               status |-> 2, by |-> w] : e \in run}
        /\ executed' = executed \cup {<<e.n, w>> : e \in run}
        /\ again' = (again \/ \E e \in run : e.status = 2)
  BY DEF HandleCommand
<1>2. run \subseteq localidComm
  BY DEF From
<1>3. \A e \in localidComm : e.localid = w /\ e.op \in Handles[w] => e \in run
  <2>1. w \in Nat /\ w >= w
    BY CommandResponseAssumption
  <2>2. \A e \in localidComm : e.localid = w => e \in From(w)
    BY <2>1 DEF From
  <2>3. QED
    BY <1>1, <2>2
<1>4. QED
  BY <1>1, <1>2, <1>3 DEF Done

\* What doCommand does with an element of the message.
LEMMA Element ==
  ASSUME TypeOK, DoCommand
  PROVE  \E l \in Localids, op \in Ops, stan \in {c.stan, posted + 1} :
           \E new \in Entry :
             /\ new = [n |-> posted + 1, localid |-> l, stan |-> stan, op |-> op,
                       status |-> 0, by |-> 0]
             /\ c' = [n |-> posted + 1, localid |-> l, stan |-> stan]
             /\ localidComm' = localidComm \cup {new}
             /\ sem' = Signalled(l)
             /\ clean' = (clean /\ HasWorker(l, op))
<1>1. PICK l \in Localids, op \in Ops, stan \in {c.stan, posted + 1} :
        /\ c' = [n |-> posted + 1, localid |-> l, stan |-> stan]
        /\ localidComm' = localidComm \cup
             {[n |-> posted + 1, localid |-> l, stan |-> stan, op |-> op,
               status |-> 0, by |-> 0]}
        /\ sem' = Signalled(l)
        /\ clean' = (clean /\ HasWorker(l, op))
  BY DEF DoCommand
<1>2. stan \in Nat /\ posted + 1 \in Nat \ {0}
  BY DEF TypeOK
<1>3. [n |-> posted + 1, localid |-> l, stan |-> stan, op |-> op,
       status |-> 0, by |-> 0] \in Entry
  BY <1>2 DEF Entry
<1>4. QED
  BY <1>1, <1>3

LEMMA TypeInit == Init => TypeOK
<1> SUFFICES ASSUME Init PROVE TypeOK
  OBVIOUS
<1>1. /\ sem \in [Workers -> 0 .. SemMax] /\ semResp \in 0 .. SemMax
      /\ left \in 0 .. MaxBatch /\ posted + left <= MaxCommands
  BY CommandResponseAssumption DEF Init
<1>2. c \in [n : Nat, localid : Localids \cup {0}, stan : Nat]
  BY DEF Init, NoCommand
<1>3. QED
  BY <1>1, <1>2 DEF Init, TypeOK

LEMMA TypeStep == TypeOK /\ [Next]_vars => TypeOK'
<1> SUFFICES ASSUME TypeOK, [Next]_vars PROVE TypeOK'
  OBVIOUS
<1> USE CommandResponseAssumption DEF TypeOK, controlVars, historyVars
<1>1. CASE ReadMessage
  BY <1>1 DEF ReadMessage, NoCommand
<1>2. CASE DoCommand
  <2>1. PICK l \in Localids, op \in Ops, stan \in {c.stan, posted + 1}, new \in Entry :
          /\ new = [n |-> posted + 1, localid |-> l, stan |-> stan, op |-> op,
                    status |-> 0, by |-> 0]
          /\ c' = [n |-> posted + 1, localid |-> l, stan |-> stan]
          /\ localidComm' = localidComm \cup {new}
          /\ sem' = Signalled(l)
          /\ clean' = (clean /\ HasWorker(l, op))
    BY <1>2, Element
  <2>2. /\ posted' = posted + 1 /\ left' = left - 1 /\ left > 0
        /\ UNCHANGED <<semResp, step, resp, timedOut, at, executed, again, answered>>
    BY <1>2 DEF DoCommand
  <2>3. new.n = posted + 1 /\ new.status = 0 /\ new.by = 0
    BY <2>1
  <2>4. /\ localidComm' \subseteq Entry
        /\ \A e \in localidComm' : e.n <= posted' /\ (e.status = 2 <=> e.by # 0)
    <3>1. \A e \in localidComm : e.n \in Nat
      BY DEF Entry
    <3>2. QED
      BY <2>1, <2>2, <2>3, <3>1
  <2>5. \A d, e \in localidComm' : d.n = e.n => d = e
    <3>1. \A e \in localidComm : e.n \in Nat /\ e.n <= posted
      BY DEF Entry
    <3>2. \A e \in localidComm : e.n # new.n
      BY <2>3, <3>1
    <3>3. QED
      BY <2>1, <3>2
  <2>6. sem' \in [Workers -> 0 .. SemMax]
    BY <2>1, RaisedRange DEF Signalled
  <2>7. c' \in [n : Nat, localid : Localids \cup {0}, stan : Nat]
    BY <2>1
  <2>8. posted' \in Nat /\ left' \in 0 .. MaxBatch /\ posted' + left' <= MaxCommands
    BY <2>2
  <2>9. resp' \subseteq [n : 1 .. posted', by : Workers]
    BY <2>2
  <2>10. executed' \subseteq (1 .. posted') \X Workers /\ answered' \subseteq 1 .. posted'
    BY <2>2
  <2>11. clean' \in BOOLEAN
    BY <2>1
  <2>12. QED
    BY <2>2, <2>4, <2>5, <2>6, <2>7, <2>8, <2>9, <2>10, <2>11
<1>3. CASE AllDone
  BY <1>3 DEF AllDone
<1>4. CASE ResponseGet
  <2>1. semResp' \in 0 .. SemMax
    BY <1>4 DEF ResponseGet
  <2>2. QED
    BY <1>4, <2>1 DEF ResponseGet
<1>5. CASE ResponseTimeout
  BY <1>5 DEF ResponseTimeout
<1>6. CASE Collect
  <2>1. PICK found \in SUBSET From(c.localid) :
          /\ found = {e \in From(c.localid) :
                        Matches(e) /\ \A d \in From(c.localid) : Matches(d) => Precedes(e, d)}
          /\ resp' = {[n |-> e.n, by |-> e.by] : e \in found}
          /\ localidComm' = Erased(found)
    BY <1>6 DEF Collect
  <2>2. found \subseteq localidComm /\ \A e \in found : Matches(e)
    BY <2>1, OneFound
  <2>3. resp' \subseteq [n : 1 .. posted, by : Workers]
    <3>1. \A e \in found : e \in Entry /\ e.n <= posted /\ e.by # 0
      BY <2>2 DEF Matches
    <3>2. \A e \in found : e.n \in 1 .. posted /\ e.by \in Workers
      BY <3>1 DEF Entry
    <3>3. QED
      BY <2>1, <3>2
  <2>4. /\ step' = "send"
        /\ UNCHANGED <<sem, semResp, c, left, timedOut, at, posted, executed, again, answered, clean>>
    BY <1>6 DEF Collect
  <2>5. localidComm' \subseteq localidComm
    BY <2>1 DEF Erased
  <2>6. QED
    BY <2>3, <2>4, <2>5
<1>7. CASE Send
  <2>1. {r.n : r \in resp} \subseteq 1 .. posted
    OBVIOUS
  <2>2. answered' \subseteq 1 .. posted
    BY <1>7, <2>1 DEF Send
  <2>3. QED
    BY <1>7, <2>2 DEF Send
<1>8. ASSUME NEW w \in Workers, Poll(w) PROVE TypeOK'
  BY <1>8, RaisedRange DEF Poll
<1>9. ASSUME NEW w \in Workers, HandleCommand(w) PROVE TypeOK'
  <2>1. PICK run \in SUBSET localidComm :
          /\ localidComm' = (localidComm \ run) \cup {Done(e, w) : e \in run}
          /\ executed' = executed \cup {<<e.n, w>> : e \in run}
          /\ again' = (again \/ \E e \in run : e.status = 2)
    BY <1>9, Walk
  <2>2. /\ at' = [at EXCEPT ![w] = "respond"]
        /\ UNCHANGED <<sem, semResp, posted, step, c, left, resp, timedOut, answered, clean>>
    BY <1>9 DEF HandleCommand
  <2>3. \A e \in run : e \in Entry /\ e.n \in 1 .. posted
    BY DEF Entry
  <2>4. \A e \in run : /\ Done(e, w) \in Entry /\ Done(e, w).n = e.n
                       /\ Done(e, w).status = 2 /\ Done(e, w).by = w
    BY <2>3, DoneEntry
  <2>5. \A d, e \in localidComm' : d.n = e.n => d = e
    <3>1. \A e \in localidComm' : \/ e \in localidComm \ run
                                  \/ \E f \in run : e = Done(f, w)
      BY <2>1
    <3>2. SUFFICES ASSUME NEW d \in localidComm', NEW e \in localidComm', d.n = e.n
                   PROVE  d = e
      OBVIOUS
    <3>3. CASE d \in localidComm \ run /\ e \in localidComm \ run
      BY <3>2, <3>3
    <3>4. ASSUME NEW f \in run, d = Done(f, w) PROVE d = e
      BY <2>4, <3>1, <3>2, <3>4
    <3>5. ASSUME NEW f \in run, e = Done(f, w) PROVE d = e
      BY <2>4, <3>1, <3>2, <3>5
    <3>6. QED
      BY <3>1, <3>3, <3>4, <3>5
  <2>6. /\ localidComm' \subseteq Entry
        /\ \A e \in localidComm' : e.n <= posted /\ (e.status = 2 <=> e.by # 0)
    BY <2>1, <2>3, <2>4
  <2>7. executed' \subseteq (1 .. posted) \X Workers
    BY <2>1, <2>3
  <2>8. again' \in BOOLEAN
    BY <2>1
  <2>9. at' \in [Workers -> {"poll", "handle", "respond"}]
    BY <2>2
  <2>10. QED
    BY <2>2, <2>5, <2>6, <2>7, <2>8, <2>9
<1>10. ASSUME NEW w \in Workers, Respond(w) PROVE TypeOK'
  BY <1>10, RaisedRange DEF Respond
<1>11. CASE UNCHANGED vars
  BY <1>11 DEF vars
<1>12. QED
  BY <1>1, <1>2, <1>3, <1>4, <1>5, <1>6, <1>7, <1>8, <1>9, <1>10, <1>11
     DEF Next, ControlStep, WorkerStep

-----------------------------------------------------------------------------
(***************************************************************************)
(* No command is forgotten.                                                *)
(***************************************************************************)

LEMMA ForgottenStep ==
  TypeOK /\ NoneForgotten /\ [Next]_vars => NoneForgotten'
<1> SUFFICES ASSUME TypeOK, NoneForgotten, [Next]_vars PROVE NoneForgotten'
  OBVIOUS
<1> USE DEF controlVars, historyVars
<1>0. \A e \in localidComm : e \in Entry
  BY DEF TypeOK
<1>1. CASE ReadMessage
  BY <1>1 DEF ReadMessage, NoneForgotten
<1>2. CASE DoCommand
  <2>1. PICK l \in Localids, op \in Ops, stan \in {c.stan, posted + 1}, new \in Entry :
          /\ new = [n |-> posted + 1, localid |-> l, stan |-> stan, op |-> op,
                    status |-> 0, by |-> 0]
          /\ c' = [n |-> posted + 1, localid |-> l, stan |-> stan]
          /\ localidComm' = localidComm \cup {new}
          /\ sem' = Signalled(l)
          /\ clean' = (clean /\ HasWorker(l, op))
    BY <1>2, Element
  <2>2. new.localid = l /\ at' = at
    BY <1>2, <2>1 DEF DoCommand
  <2>3. \A w \in Workers : sem[w] > 0 => sem'[w] > 0
    BY <2>1, RaisedRange DEF Signalled, TypeOK
  <2>4. l \in Workers => sem'[l] > 0
    BY <2>1, RaisedRange DEF Signalled, TypeOK
  <2>5. QED
    BY <2>1, <2>2, <2>3, <2>4 DEF NoneForgotten, HasWorker
<1>3. CASE AllDone
  BY <1>3 DEF AllDone, NoneForgotten
<1>4. CASE ResponseGet
  BY <1>4 DEF ResponseGet, NoneForgotten
<1>5. CASE ResponseTimeout
  BY <1>5 DEF ResponseTimeout, NoneForgotten
<1>6. CASE Collect
  BY <1>6 DEF Collect, Erased, NoneForgotten
<1>7. CASE Send
  BY <1>7 DEF Send, NoneForgotten
<1>8. ASSUME NEW w \in Workers, Poll(w) PROVE NoneForgotten'
  <2>1. at'[w] = "handle" /\ localidComm' = localidComm
    BY <1>8 DEF Poll, TypeOK
  <2>2. \A v \in Workers \ {w} : sem'[v] = sem[v] /\ at'[v] = at[v]
    BY <1>8 DEF Poll, TypeOK
  <2>3. QED
    BY <2>1, <2>2 DEF NoneForgotten, HasWorker
<1>9. ASSUME NEW w \in Workers, HandleCommand(w) PROVE NoneForgotten'
  <2>1. PICK run \in SUBSET localidComm :
          /\ \A e \in localidComm :
               e.localid = w /\ e.op \in Handles[w] => e \in run
          /\ localidComm' = (localidComm \ run) \cup {Done(e, w) : e \in run}
    BY <1>9, Walk
  <2>2. \A e \in run : Done(e, w).status = 2
    BY <1>0, DoneEntry
  <2>3. sem' = sem /\ \A v \in Workers \ {w} : at'[v] = at[v]
    BY <1>9 DEF HandleCommand, TypeOK
  <2>4. SUFFICES ASSUME NEW e \in localidComm', e.status = 0, HasWorker(e.localid, e.op)
                 PROVE  sem'[e.localid] > 0 \/ at'[e.localid] = "handle"
    BY DEF NoneForgotten, HasWorker
  <2>5. e \in localidComm \ run
    BY <2>1, <2>2, <2>4
  <2>6. e.localid # w
    BY <2>1, <2>4, <2>5 DEF HasWorker
  <2>7. QED
    BY <2>3, <2>4, <2>5, <2>6 DEF NoneForgotten, HasWorker
<1>10. ASSUME NEW w \in Workers, Respond(w) PROVE NoneForgotten'
  <2>1. at[w] = "respond" /\ localidComm' = localidComm /\ sem' = sem
    BY <1>10 DEF Respond
  <2>2. \A v \in Workers \ {w} : at'[v] = at[v]
    BY <1>10 DEF Respond, TypeOK
  <2>3. QED
    BY <2>1, <2>2 DEF NoneForgotten, HasWorker
<1>11. CASE UNCHANGED vars
  BY <1>11 DEF vars, NoneForgotten
<1>12. QED
  BY <1>1, <1>2, <1>3, <1>4, <1>5, <1>6, <1>7, <1>8, <1>9, <1>10, <1>11
     DEF Next, ControlStep, WorkerStep

-----------------------------------------------------------------------------
(***************************************************************************)
(* Answers belong to executed commands, and to the command they answer.    *)
(***************************************************************************)

LEMMA NumberedStep ==
  TypeOK /\ Numbered /\ [Next]_vars => Numbered'
<1> SUFFICES ASSUME TypeOK, Numbered, [Next]_vars PROVE Numbered'
  OBVIOUS
<1> USE DEF controlVars, historyVars
<1>0. /\ \A e \in localidComm : e \in Entry
      /\ c.n \in Nat /\ c.stan \in Nat /\ posted \in Nat
  BY DEF TypeOK
<1>1. CASE ReadMessage
  BY <1>1 DEF ReadMessage, Numbered, NoCommand
<1>2. CASE DoCommand
  <2>1. PICK l \in Localids, op \in Ops, stan \in {c.stan, posted + 1}, new \in Entry :
          /\ new = [n |-> posted + 1, localid |-> l, stan |-> stan, op |-> op,
                    status |-> 0, by |-> 0]
          /\ c' = [n |-> posted + 1, localid |-> l, stan |-> stan]
          /\ localidComm' = localidComm \cup {new}
          /\ sem' = Signalled(l)
          /\ clean' = (clean /\ HasWorker(l, op))
    BY <1>2, Element
  <2>2. stan <= posted + 1
    BY <1>0 DEF Numbered
  <2>3. /\ new.n = posted + 1 /\ new.stan = stan
        /\ c'.n = posted + 1 /\ c'.stan = stan
    BY <2>1
  <2>4. posted' = posted + 1 /\ step = "commands" /\ step' = step /\ resp' = resp
    BY <1>2 DEF DoCommand
  <2>5. QED
    BY <2>1, <2>2, <2>3, <2>4 DEF Numbered
<1>3. CASE AllDone
  BY <1>3 DEF AllDone, Numbered
<1>4. CASE ResponseGet
  BY <1>4 DEF ResponseGet, Numbered
<1>5. CASE ResponseTimeout
  BY <1>5 DEF ResponseTimeout, Numbered
<1>6. CASE Collect
  BY <1>6 DEF Collect, Erased, Numbered
<1>7. CASE Send
  BY <1>7 DEF Send, Numbered
<1>8. ASSUME NEW w \in Workers, Poll(w) PROVE Numbered'
  BY <1>8 DEF Poll, Numbered
<1>9. ASSUME NEW w \in Workers, HandleCommand(w) PROVE Numbered'
  <2>1. PICK run \in SUBSET localidComm :
          localidComm' = (localidComm \ run) \cup {Done(e, w) : e \in run}
    BY <1>9, Walk
  <2>2. \A e \in run : Done(e, w).n = e.n /\ Done(e, w).stan = e.stan
    BY <1>0, DoneEntry
  <2>3. QED
    BY <1>9, <2>1, <2>2 DEF HandleCommand, Numbered
<1>10. ASSUME NEW w \in Workers, Respond(w) PROVE Numbered'
  BY <1>10 DEF Respond, Numbered
<1>11. CASE UNCHANGED vars
  BY <1>11 DEF vars, Numbered
<1>12. QED
  BY <1>1, <1>2, <1>3, <1>4, <1>5, <1>6, <1>7, <1>8, <1>9, <1>10, <1>11
     DEF Next, ControlStep, WorkerStep

LEMMA BackedStep ==
  TypeOK /\ Backed /\ [Next]_vars => Backed'
<1> SUFFICES ASSUME TypeOK, Backed, [Next]_vars PROVE Backed'
  OBVIOUS
<1> USE DEF controlVars, historyVars
<1>0. \A e \in localidComm : e \in Entry
  BY DEF TypeOK
<1>1. CASE DoCommand
  <2>1. PICK l \in Localids, op \in Ops, stan \in {c.stan, posted + 1}, new \in Entry :
          /\ new = [n |-> posted + 1, localid |-> l, stan |-> stan, op |-> op,
                    status |-> 0, by |-> 0]
          /\ localidComm' = localidComm \cup {new}
    BY <1>1, Element
  <2>2. new.status # 2 /\ executed' = executed
    BY <1>1, <2>1 DEF DoCommand
  <2>3. QED
    BY <2>1, <2>2 DEF Backed
<1>2. CASE Collect
  BY <1>2 DEF Collect, Erased, Backed
<1>3. ASSUME NEW w \in Workers, HandleCommand(w) PROVE Backed'
  <2>1. PICK run \in SUBSET localidComm :
          /\ localidComm' = (localidComm \ run) \cup {Done(e, w) : e \in run}
          /\ executed' = executed \cup {<<e.n, w>> : e \in run}
    BY <1>3, Walk
  <2>2. \A e \in run : Done(e, w).n = e.n /\ Done(e, w).by = w
    BY <1>0, DoneEntry
  <2>3. QED
    BY <2>1, <2>2 DEF Backed
<1>4. UNCHANGED <<localidComm, executed>> => Backed'
  BY DEF Backed
<1>5. QED
  BY <1>1, <1>2, <1>3, <1>4
     DEF Next, ControlStep, WorkerStep, ReadMessage, AllDone, ResponseGet,
         ResponseTimeout, Send, Poll, Respond, vars

\* The search is for the stan of the last command: no earlier one has a stan of
\* that value, because none is larger than its own number.
LEMMA AnswersStep ==
  TypeOK /\ Numbered /\ AnswersTheQuestion /\ [Next]_vars => AnswersTheQuestion'
<1> SUFFICES ASSUME TypeOK, Numbered, AnswersTheQuestion, [Next]_vars
             PROVE  AnswersTheQuestion'
  OBVIOUS
<1> USE DEF controlVars, historyVars
<1>1. CASE ReadMessage
  BY <1>1 DEF ReadMessage, NoCommand, AnswersTheQuestion
<1>2. CASE DoCommand
  BY <1>2 DEF DoCommand, Numbered, AnswersTheQuestion
<1>3. CASE Collect
  <2>1. PICK found \in SUBSET From(c.localid) :
          /\ found = {e \in From(c.localid) :
                        Matches(e) /\ \A d \in From(c.localid) : Matches(d) => Precedes(e, d)}
          /\ resp' = {[n |-> e.n, by |-> e.by] : e \in found}
          /\ localidComm' = Erased(found)
    BY <1>3 DEF Collect
  <2>2. found \subseteq localidComm /\ \A e \in found : Matches(e)
    BY <2>1, OneFound
  <2>3. SUFFICES ASSUME c.n > 0, c.stan = c.n, NEW e \in found PROVE e.n = c.n
    BY <1>3, <2>1 DEF Collect, AnswersTheQuestion
  <2>4. e \in Entry /\ e.n <= posted /\ e.stan = c.stan /\ e.stan <= e.n
    BY <2>2 DEF TypeOK, Numbered, Matches
  <2>5. e.n \in Nat /\ c.n \in Nat /\ posted \in Nat /\ c.n \in {0, posted}
    BY <2>4 DEF Entry, TypeOK, Numbered
  <2>6. QED
    BY <2>3, <2>4, <2>5
<1>4. CASE Send
  BY <1>4 DEF Send, AnswersTheQuestion
<1>5. UNCHANGED <<c, resp>> => AnswersTheQuestion'
  BY DEF AnswersTheQuestion
<1>6. QED
  BY <1>1, <1>2, <1>3, <1>4, <1>5
     DEF Next, ControlStep, WorkerStep, AllDone, ResponseGet, ResponseTimeout,
         Poll, HandleCommand, Respond, vars

-----------------------------------------------------------------------------
(***************************************************************************)
(* The semRespID protocol while it is in step.                             *)
(***************************************************************************)

\* In step, a worker that has a permit or is at work is that of the pending command.
LEMMA Busy ==
  ASSUME InStep, clean, NEW w \in Workers, sem[w] # 0 \/ at[w] # "poll",
         step \in {"read", "commands", "wait", "collect", "send"},
         left \in Nat
  PROVE  /\ (step = "commands" /\ left = 0) \/ step = "wait"
         /\ \E e \in localidComm : Pending(e) /\ OnePermit(e) /\ e.localid = w
<1>1. ~Quiet
  BY DEF Quiet
<1>2. (step = "commands" /\ left = 0) \/ step = "wait"
  BY <1>1 DEF InStep
<1>3. PICK e \in localidComm : Pending(e) /\ OnePermit(e)
  BY <1>2 DEF InStep
<1>4. e.localid = w
  BY <1>3 DEF OnePermit
<1>5. QED
  BY <1>2, <1>3, <1>4

\* The steps of the control thread but the one that queues the command.
LEMMA InStepControl ==
  ASSUME TypeOK, InStep,
         ReadMessage \/ AllDone \/ ResponseGet \/ ResponseTimeout \/ Collect \/ Send
  PROVE  InStep'
<1> SUFFICES ASSUME clean' PROVE InStep'
  BY DEF InStep
<1> USE DEF controlVars, historyVars
<1>1. CASE ReadMessage
  <2>1. /\ clean /\ step = "read" /\ step' = "commands" /\ left' = 1
        /\ UNCHANGED <<localidComm, sem, semResp, at, executed, again>>
    BY <1>1 DEF ReadMessage
  <2>2. Quiet /\ localidComm = {}
    BY <2>1 DEF InStep
  <2>3. Quiet' /\ localidComm' = {}
    BY <2>1, <2>2 DEF Quiet
  <2>4. QED
    BY <2>1, <2>3 DEF InStep
<1>2. CASE AllDone
  <2>1. /\ clean /\ step = "commands" /\ left = 0 /\ step' = "wait"
        /\ UNCHANGED <<localidComm, sem, semResp, at, executed, again, c>>
    BY <1>2 DEF AllDone
  <2>2. PICK e \in localidComm : Pending(e) /\ OnePermit(e)
    BY <2>1 DEF InStep
  <2>3. Pending(e)' /\ OnePermit(e)'
    BY <2>1, <2>2 DEF Pending, OnePermit
  <2>4. QED
    BY <2>1, <2>2, <2>3 DEF InStep
<1>3. CASE ResponseGet
  <2>1. /\ clean /\ step = "wait" /\ step' = "collect"
        /\ semResp > 0 /\ semResp' = semResp - 1
        /\ UNCHANGED <<localidComm, sem, at, executed, again, c>>
    BY <1>3 DEF ResponseGet
  <2>2. PICK e \in localidComm : Pending(e) /\ OnePermit(e)
    BY <2>1 DEF InStep
  <2>3. /\ sem[e.localid] = 0 /\ at[e.localid] = "poll"
        /\ semResp = 1 /\ e.status = 2
    BY <2>1, <2>2 DEF OnePermit
  <2>4. Quiet'
    BY <2>1, <2>2, <2>3 DEF Quiet, OnePermit
  <2>5. Pending(e)'
    BY <2>1, <2>2 DEF Pending
  <2>6. QED
    BY <2>1, <2>2, <2>3, <2>4, <2>5 DEF InStep
<1>4. CASE ResponseTimeout
  BY <1>4 DEF ResponseTimeout
<1>5. CASE Collect
  <2>1. /\ clean /\ step = "collect" /\ step' = "send"
        /\ UNCHANGED <<sem, semResp, at, executed, again>>
    BY <1>5 DEF Collect
  <2>2. PICK e \in localidComm : Pending(e) /\ e.status = 2
    BY <2>1 DEF InStep
  <2>3. Quiet'
    BY <2>1 DEF InStep, Quiet
  <2>4. PICK found \in SUBSET From(c.localid) :
          /\ found = {d \in From(c.localid) :
                        Matches(d) /\ \A f \in From(c.localid) : Matches(f) => Precedes(d, f)}
          /\ localidComm' = Erased(found)
    BY <1>5 DEF Collect
  <2>5. e.localid \in Nat /\ e.n \in Nat
    BY CommandResponseAssumption DEF TypeOK, Entry
  <2>6. From(c.localid) = {e}
    BY <2>2, <2>5 DEF Pending, From
  <2>7. Matches(e) /\ Precedes(e, e)
    BY <2>2, <2>5 DEF Pending, Matches, Precedes
  <2>8. localidComm' = {}
    BY <2>2, <2>4, <2>6, <2>7 DEF Pending, Erased
  <2>9. QED
    BY <2>1, <2>3, <2>8 DEF InStep
<1>6. CASE Send
  <2>1. /\ clean /\ step = "send" /\ step' = "read"
        /\ UNCHANGED <<localidComm, sem, semResp, at, executed, again>>
    BY <1>6 DEF Send
  <2>2. QED
    BY <2>1 DEF InStep, Quiet
<1>7. QED
  BY <1>1, <1>2, <1>3, <1>4, <1>5, <1>6

\* doCommand finds everything quiet and gives out the one permit.
LEMMA InStepDoCommand ==
  ASSUME TypeOK, InStep, DoCommand
  PROVE  InStep'
<1> SUFFICES ASSUME clean' PROVE InStep'
  BY DEF InStep
<1>1. PICK l \in Localids, op \in Ops, stan \in {c.stan, posted + 1}, new \in Entry :
        /\ new = [n |-> posted + 1, localid |-> l, stan |-> stan, op |-> op,
                  status |-> 0, by |-> 0]
        /\ c' = [n |-> posted + 1, localid |-> l, stan |-> stan]
        /\ localidComm' = localidComm \cup {new}
        /\ sem' = Signalled(l)
        /\ clean' = (clean /\ HasWorker(l, op))
  BY Element
<1>2. /\ step = "commands" /\ step' = step /\ left > 0 /\ left' = left - 1
      /\ UNCHANGED <<semResp, at, executed, again>>
  BY DEF DoCommand
<1>3. clean /\ l \in Workers /\ op \in Handles[l]
  BY <1>1 DEF HasWorker
<1>4. Quiet /\ localidComm = {} /\ left' = 0
  BY <1>2, <1>3 DEF InStep
<1>5. /\ new.n = posted + 1 /\ new.localid = l /\ new.stan = stan
      /\ new.op = op /\ new.status = 0 /\ new.by = 0
      /\ c'.n = posted + 1 /\ c'.localid = l /\ c'.stan = stan
  BY <1>1
<1>6. \A p \in executed : p[1] # posted + 1
  BY DEF TypeOK
<1>7. Pending(new)'
  BY <1>1, <1>2, <1>3, <1>4, <1>5, <1>6 DEF Pending, HasWorker
<1>8. sem' = [sem EXCEPT ![l] = 1]
  <2>1. sem[l] = 0 /\ Raised(0) = 1
    BY <1>3, <1>4, CommandResponseAssumption DEF Raised, Quiet
  <2>2. QED
    BY <1>1, <1>3, <2>1 DEF Signalled
<1>9. OnePermit(new)'
  BY <1>2, <1>3, <1>4, <1>5, <1>8 DEF OnePermit, Quiet, TypeOK
<1>10. QED
  BY <1>1, <1>2, <1>3, <1>4, <1>7, <1>9 DEF InStep

\* A worker moves the permit on; the walk of the one that has it executes exactly
\* the pending command.
LEMMA InStepWorker ==
  ASSUME TypeOK, InStep, NEW w \in Workers, WorkerStep(w)
  PROVE  InStep'
<1> SUFFICES ASSUME clean' PROVE InStep'
  BY DEF InStep
<1> USE DEF controlVars, historyVars
<1>1. clean /\ UNCHANGED <<step, left, c, clean>>
  BY DEF WorkerStep, Poll, HandleCommand, Respond
<1>2. sem[w] # 0 \/ at[w] # "poll"
  <2>1. sem[w] \in Nat
    BY CommandResponseAssumption DEF TypeOK
  <2>2. sem[w] > 0 \/ at[w] = "handle" \/ at[w] = "respond"
    BY DEF WorkerStep, Poll, HandleCommand, Respond
  <2>3. QED
    BY <2>1, <2>2
<1>3. /\ (step = "commands" /\ left = 0) \/ step = "wait"
      /\ \E e \in localidComm : Pending(e) /\ OnePermit(e) /\ e.localid = w
  BY <1>1, <1>2, Busy DEF TypeOK
<1>4. PICK e \in localidComm : Pending(e) /\ OnePermit(e) /\ e.localid = w
  BY <1>3
<1>5. \A v \in Workers \ {w} : sem[v] = 0 /\ at[v] = "poll"
  BY <1>4 DEF OnePermit
<1>6. e \in Entry
  BY DEF TypeOK
<1>7. CASE Poll(w)
  <2>1. /\ UNCHANGED <<localidComm, semResp, executed, again>>
        /\ sem[w] = 1 /\ semResp = 0 /\ e.status = 0
    BY <1>4, <1>7 DEF Poll, OnePermit
  <2>2. /\ sem'[w] = 0 /\ at'[w] = "handle"
        /\ \A v \in Workers \ {w} : sem'[v] = sem[v] /\ at'[v] = at[v]
    BY <1>7, <2>1 DEF Poll, TypeOK
  <2>3. Pending(e)' /\ OnePermit(e)'
    BY <1>1, <1>4, <1>5, <2>1, <2>2 DEF Pending, OnePermit
  <2>4. QED
    BY <1>1, <1>3, <1>4, <2>1, <2>3 DEF InStep
<1>8. CASE Respond(w)
  <2>1. /\ UNCHANGED <<localidComm, sem, executed, again>>
        /\ sem[w] = 0 /\ semResp = 0 /\ e.status = 2
    BY <1>4, <1>8 DEF Respond, OnePermit
  <2>2. /\ semResp' = 1 /\ at'[w] = "poll"
        /\ \A v \in Workers \ {w} : at'[v] = at[v]
    BY <1>8, <2>1, CommandResponseAssumption DEF Respond, Raised, TypeOK
  <2>3. Pending(e)' /\ OnePermit(e)'
    BY <1>1, <1>4, <1>5, <2>1, <2>2 DEF Pending, OnePermit
  <2>4. QED
    BY <1>1, <1>3, <1>4, <2>1, <2>3 DEF InStep
<1>9. CASE HandleCommand(w)
  <2>1. PICK run \in SUBSET localidComm :
          /\ \A d \in localidComm :
               d.localid = w /\ d.op \in Handles[w] => d \in run
          /\ localidComm' = (localidComm \ run) \cup {Done(d, w) : d \in run}
          /\ executed' = executed \cup {<<d.n, w>> : d \in run}
          /\ again' = (again \/ \E d \in run : d.status = 2)
    BY <1>9, Walk
  <2>2. run = {e}
    BY <1>4, <2>1 DEF Pending, HasWorker
  <2>3. /\ UNCHANGED <<sem, semResp>>
        /\ sem[w] = 0 /\ semResp = 0 /\ e.status = 0
    BY <1>4, <1>9 DEF HandleCommand, OnePermit
  <2>4. /\ at'[w] = "respond"
        /\ \A v \in Workers \ {w} : at'[v] = at[v]
    BY <1>9 DEF HandleCommand, TypeOK
  <2>5. /\ localidComm' = {Done(e, w)}
        /\ executed' = executed \cup {<<e.n, w>>}
        /\ again' = again
    <3>1. again' = again
      <4>1. \A d \in run : d.status # 2
        BY <2>2, <2>3
      <4>2. again \in BOOLEAN
        BY DEF TypeOK
      <4>3. QED
        BY <2>1, <4>1, <4>2, Zenon
    <3>2. QED
      BY <1>4, <2>1, <2>2, <3>1 DEF Pending
  <2>6. \A p, q \in executed' : p[1] = q[1] => p[2] = q[2]
    <3>1. \A p \in executed : p[1] # e.n
      BY <1>4, <2>3 DEF Pending
    <3>2. \A p, q \in executed : p[1] = q[1] => p[2] = q[2]
      BY <1>1 DEF InStep
    <3>3. QED
      BY <2>5, <3>1, <3>2
  <2>7. /\ Done(e, w).n = e.n /\ Done(e, w).localid = w /\ Done(e, w).stan = e.stan
        /\ Done(e, w).op = e.op /\ Done(e, w).status = 2 /\ Done(e, w).by = w
    BY <1>4, <1>6, DoneEntry
  <2>8. Pending(Done(e, w))'
    BY <1>1, <1>4, <2>5, <2>7 DEF Pending
  <2>9. OnePermit(Done(e, w))'
    BY <1>5, <2>3, <2>4, <2>7 DEF OnePermit
  <2>10. Done(e, w) \in localidComm' /\ ~again'
    BY <1>1, <2>5 DEF InStep
  <2>11. QED
    BY <1>1, <1>3, <2>6, <2>8, <2>9, <2>10 DEF InStep
<1>10. QED
  BY <1>7, <1>8, <1>9 DEF WorkerStep

LEMMA InStepStep ==
  TypeOK /\ InStep /\ [Next]_vars => InStep'
<1> SUFFICES ASSUME TypeOK, InStep, [Next]_vars PROVE InStep'
  OBVIOUS
<1>1. CASE UNCHANGED vars
  BY <1>1 DEF vars, controlVars, historyVars, InStep, Quiet, Pending, OnePermit
<1>2. QED
  BY <1>1, InStepControl, InStepDoCommand, InStepWorker DEF Next, ControlStep

-----------------------------------------------------------------------------
(***************************************************************************)
(* The theorems.                                                           *)
(***************************************************************************)

LEMMA Invariant == Spec => []IInv
<1>1. Init => IInv
  <2> SUFFICES ASSUME Init PROVE IInv
    OBVIOUS
  <2>1. TypeOK
    BY TypeInit
  <2>2. NoneForgotten /\ Backed
    BY DEF Init, NoneForgotten, Backed
  <2>3. Numbered /\ AnswersTheQuestion
    BY DEF Init, NoCommand, Numbered, AnswersTheQuestion
  <2>4. InStep
    BY DEF Init, InStep, Quiet
  <2>5. QED
    BY <2>1, <2>2, <2>3, <2>4 DEF IInv
<1>2. IInv /\ [Next]_vars => IInv'
  BY TypeStep, ForgottenStep, NumberedStep, BackedStep, AnswersStep, InStepStep DEF IInv
<1>3. QED
  BY <1>1, <1>2, PTL DEF Spec

\* The entries keep the form doCommand gives them, the semaphores stay between 0
\* and SEMVMX, and every number in the histories is that of a command received.
THEOREM TypeCorrect == Spec => []TypeOK
<1>1. IInv => TypeOK
  BY DEF IInv
<1>2. QED
  BY <1>1, Invariant, PTL

\* A command waiting for a worker that knows it always has a permit in the worker's
\* semaphore, or the worker on its way to localidComm.
THEOREM Remembered == Spec => []NoneForgotten
<1>1. IInv => NoneForgotten
  BY DEF IInv
<1>2. QED
  BY <1>1, Invariant, PTL

\* A command with a stan of its own is never answered with the response to another.
THEOREM RightAnswer == Spec => []AnswersTheQuestion
<1>1. IInv => AnswersTheQuestion
  BY DEF IInv
<1>2. QED
  BY <1>1, Invariant, PTL

\* While the host sends one command at a time, each for a worker that knows it, and
\* no wait times out, the permit from semRespID means that the response is there.
THEOREM PermitMeansResponse == Spec => []TidyPermit
<1>1. IInv => TidyPermit
  BY DEF IInv, InStep, Pending, TidyPermit
<1>2. QED
  BY <1>1, Invariant, PTL

\* Under the same conditions no command is executed twice or by another's worker.
THEOREM ExecutedOnce == Spec => []TidyExecution
<1>1. IInv => TidyExecution
  <2> SUFFICES ASSUME IInv, clean PROVE TidyExecution
    BY DEF TidyExecution
  <2>1. \A e \in localidComm : e.by \in {0, e.localid}
    <3>1. left = 0 \/ left > 0
      BY DEF IInv, TypeOK
    <3>2. localidComm = {} \/ \E e \in localidComm : Pending(e)
      BY <3>1 DEF IInv, TypeOK, InStep
    <3>3. QED
      BY <3>2 DEF Pending
  <2>2. QED
    BY <2>1 DEF IInv, InStep, TidyExecution
<1>2. QED
  BY <1>1, Invariant, PTL

-----------------------------------------------------------------------------
(***************************************************************************)
(* The refinement.                                                         *)
(***************************************************************************)

LEMMA CallsInit == Init => Calls!Init
  BY DEF Init, Calls!Init

LEMMA CallsDoCommand ==
  ASSUME TypeOK, DoCommand
  PROVE  Calls!Post
<1>1. PICK l \in Localids, op \in Ops, stan \in {c.stan, posted + 1}, new \in Entry :
        /\ new = [n |-> posted + 1, localid |-> l, stan |-> stan, op |-> op,
                  status |-> 0, by |-> 0]
        /\ localidComm' = localidComm \cup {new}
  BY Element
<1>2. new.n = posted + 1
  BY <1>1
<1>3. {e.n : e \in localidComm'} = {e.n : e \in localidComm} \cup {posted + 1}
  BY <1>1, <1>2
<1>4. posted' = posted + 1 /\ UNCHANGED <<executed, resp, answered>>
  BY DEF DoCommand
<1>5. QED
  BY <1>3, <1>4 DEF Calls!Post

LEMMA CallsHandleCommand ==
  ASSUME TypeOK, NEW w \in Workers, HandleCommand(w)
  PROVE  Calls!Execute
<1>1. PICK run \in SUBSET localidComm :
        /\ localidComm' = (localidComm \ run) \cup {Done(e, w) : e \in run}
        /\ executed' = executed \cup {<<e.n, w>> : e \in run}
  BY Walk
<1>2. \A e \in run : Done(e, w).n = e.n
  BY DoneEntry DEF TypeOK
<1>3. {e.n : e \in localidComm'} = {e.n : e \in localidComm}
  BY <1>1, <1>2
<1>4. /\ {p[1] : p \in executed} \subseteq {p[1] : p \in executed'}
      /\ {p[1] : p \in executed'} \subseteq
           {p[1] : p \in executed} \cup {e.n : e \in localidComm}
  <2>1. executed \subseteq executed'
    BY <1>1
  <2>2. ASSUME NEW p \in executed' \ executed PROVE \E e \in localidComm : p[1] = e.n
    <3>1. PICK e \in run : p = <<e.n, w>>
      BY <1>1, <2>2
    <3>2. QED
      BY <3>1
  <2>3. QED
    BY <2>1, <2>2
<1>5. UNCHANGED <<posted, resp, answered>>
  BY DEF HandleCommand, controlVars
<1>6. QED
  BY <1>3, <1>4, <1>5 DEF Calls!Execute

\* What is found has its response, so it was executed, and nothing was left to send.
LEMMA CallsCollect ==
  ASSUME TypeOK, Numbered, Backed, Collect
  PROVE  Calls!Pick \/ UNCHANGED Calls!vars
<1>1. PICK found \in SUBSET From(c.localid) :
        /\ found = {e \in From(c.localid) :
                      Matches(e) /\ \A d \in From(c.localid) : Matches(d) => Precedes(e, d)}
        /\ resp' = {[n |-> e.n, by |-> e.by] : e \in found}
        /\ localidComm' = Erased(found)
  BY DEF Collect
<1>2. /\ found \subseteq localidComm
      /\ \A e \in found : Matches(e)
      /\ \A d, e \in found : d = e
  BY <1>1, OneFound
<1>3. resp = {} /\ UNCHANGED <<posted, executed, answered>>
  BY DEF Collect, Numbered, historyVars
<1>4. CASE found = {}
  <2>1. resp' = resp /\ localidComm' = localidComm
    BY <1>1, <1>3, <1>4 DEF Erased
  <2>2. QED
    BY <1>3, <2>1 DEF Calls!vars
<1>5. ASSUME NEW e \in found PROVE Calls!Pick
  <2>1. found = {e}
    BY <1>2
  <2>2. {r.n : r \in resp'} = {e.n}
    <3>1. resp' = {[n |-> e.n, by |-> e.by]}
      BY <1>1, <2>1
    <3>2. QED
      BY <3>1
  <2>3. {d.n : d \in localidComm'} = {d.n : d \in localidComm} \ {e.n}
    BY <1>1, <1>2, <2>1 DEF Erased, TypeOK
  <2>4. e.n \in {d.n : d \in localidComm}
    BY <1>2
  <2>5. e.n \in {p[1] : p \in executed}
    <3>1. <<e.n, e.by>> \in executed
      BY <1>2 DEF Backed, Matches
    <3>2. QED
      BY <3>1
  <2>6. QED
    BY <1>3, <2>2, <2>3, <2>4, <2>5 DEF Calls!Pick
<1>6. QED
  BY <1>4, <1>5

LEMMA CallsStep ==
  IInv /\ [Next]_vars => [Calls!Next]_Calls!vars
<1> SUFFICES ASSUME IInv, [Next]_vars PROVE Calls!Next \/ UNCHANGED Calls!vars
  OBVIOUS
<1> USE DEF controlVars, historyVars
<1>1. CASE DoCommand
  BY <1>1, CallsDoCommand DEF IInv, Calls!Next
<1>2. CASE Collect
  BY <1>2, CallsCollect DEF IInv, Calls!Next
<1>3. CASE Send
  <2>1. {r.n : r \in resp'} = {}
    BY <1>3 DEF Send
  <2>2. QED
    BY <1>3, <2>1 DEF Send, Calls!Answer, Calls!Lose, Calls!Next
<1>4. ASSUME NEW w \in Workers, HandleCommand(w) PROVE Calls!Next
  BY <1>4, CallsHandleCommand DEF IInv, Calls!Next
<1>5. UNCHANGED <<localidComm, executed, resp, posted, answered>> => UNCHANGED Calls!vars
  BY DEF Calls!vars
<1>6. QED
  BY <1>1, <1>2, <1>3, <1>4, <1>5
     DEF Next, ControlStep, WorkerStep, ReadMessage, AllDone, ResponseGet,
         ResponseTimeout, Poll, Respond, vars

\* The command path answers each command at most once, and only after a worker
\* executed it.
THEOREM Refinement == Spec => ImplementsCalls
<1>1. QED
  BY Invariant, CallsInit, CallsStep, PTL DEF Spec, ImplementsCalls, Calls!Spec

-----------------------------------------------------------------------------
(* Messages.                                                                 *)

\* Induction over the numbers up to n.
LEMMA Steps ==
    ASSUME NEW n \in Nat, NEW S, 0 \in S,
           \A i \in 1 .. n : i - 1 \in S => i \in S
    PROVE  \A i \in 0 .. n : i \in S
  <1> DEFINE T == {i \in 0 .. n : i \notin S}
  <1> SUFFICES ASSUME T # {} PROVE FALSE
    OBVIOUS
  <1>0. T \subseteq Nat
    OBVIOUS
  <1>1. PICK x \in T : \A y \in T : ~ <<y, x>> \in OpToRel(<, Nat)
    <2> HIDE DEF T
    <2> QED BY <1>0, NatLessThanWellFounded, WFMin
  <1>2. x \in 1 .. n /\ x - 1 \in 0 .. n /\ x - 1 < x
    OBVIOUS
  <1>3. \A y \in T : ~ y < x
    BY <1>0, <1>1 DEF OpToRel
  <1>4. x - 1 \notin T
    BY <1>2, <1>3
  <1> QED BY <1>2, <1>4

\* What a loop makes step by step, from a on, is a function.
Runs(n, V, a, next) ==
    \E f \in [0 .. n -> V] :
        f = [i \in 0 .. n |-> IF i = 0 THEN a ELSE next[i][f[i - 1]]]

LEMMA LoopExists ==
    ASSUME NEW n \in Nat, NEW V, NEW a \in V, NEW next \in [1 .. n -> [V -> V]]
    PROVE  Runs(n, V, a, next)
  <1> DEFINE Upto(k, f) == \A i \in 0 .. k : f[i] = IF i = 0 THEN a
                                                    ELSE next[i][f[i - 1]]
             T == {k \in 0 .. n : \E f \in [0 .. n -> V] : Upto(k, f)}
  <1>1. 0 \in T
    <2> DEFINE f == [i \in 0 .. n |-> a]
    <2>1. f \in [0 .. n -> V] /\ Upto(0, f)
      OBVIOUS
    <2>2. 0 \in 0 .. n
      OBVIOUS
    <2> HIDE DEF f, Upto
    <2> QED BY <2>1, <2>2
  <1>2. ASSUME NEW k \in 1 .. n, k - 1 \in T PROVE k \in T
    <2>1. PICK f \in [0 .. n -> V] : Upto(k - 1, f)
      BY <1>2
    <2> DEFINE g == [f EXCEPT ![k] = next[k][f[k - 1]]]
    <2>2. k - 1 \in 0 .. n /\ k \in 0 .. n /\ f[k - 1] \in V
      OBVIOUS
    <2>3. next[k][f[k - 1]] \in V
      BY <2>2
    <2>4. /\ g \in [0 .. n -> V] /\ g[k] = next[k][f[k - 1]]
          /\ \A i \in 0 .. k - 1 : g[i] = f[i]
      BY <2>2, <2>3
    <2> HIDE DEF g
    <2>5. ASSUME NEW i \in 0 .. k
          PROVE  g[i] = IF i = 0 THEN a ELSE next[i][g[i - 1]]
      <3>1. CASE i = k
        <4>1. k # 0 /\ k - 1 \in 0 .. k - 1
          OBVIOUS
        <4> QED BY <2>4, <3>1, <4>1
      <3>2. CASE i # k
        <4>1. i \in 0 .. k - 1 /\ (i # 0 => i - 1 \in 0 .. k - 1)
          BY <3>2
        <4> QED BY <2>1, <2>4, <4>1
      <3> QED BY <3>1, <3>2
    <2>6. Upto(k, g)
      BY <2>5
    <2> HIDE DEF Upto
    <2> QED BY <2>2, <2>4, <2>6
  <1>3. n \in T
    <2> HIDE DEF T
    <2>1. \A k \in 0 .. n : k \in T
      <3>1. \A k \in 1 .. n : k - 1 \in T => k \in T
        BY <1>2
      <3> QED BY <1>1, <3>1, Steps, Zenon
    <2> QED BY <2>1
  <1>4. PICK f \in [0 .. n -> V] : Upto(n, f)
    BY <1>3
  <1>5. f = [i \in 0 .. n |-> f[i]]
    OBVIOUS
  <1>6. f = [i \in 0 .. n |-> IF i = 0 THEN a ELSE next[i][f[i - 1]]]
    BY <1>4, <1>5
  <1> QED BY <1>6 DEF Runs

\* So is what it makes when it begins with 1.
RunsFromOne(n, V, a, next) ==
    \E f \in [1 .. n -> V] :
        f = [i \in 1 .. n |-> IF i = 1 THEN a ELSE next[i][f[i - 1]]]

LEMMA LoopFromOneExists ==
    ASSUME NEW n \in Nat \ {0}, NEW V, NEW a \in V,
           NEW next \in [2 .. n -> [V -> V]]
    PROVE  RunsFromOne(n, V, a, next)
  <1> DEFINE m == n - 1
             later == [i \in 1 .. m |-> next[i + 1]]
  <1>1. m \in Nat /\ later \in [1 .. m -> [V -> V]]
    OBVIOUS
  <1>2. PICK g \in [0 .. m -> V] :
           g = [i \in 0 .. m |-> IF i = 0 THEN a ELSE later[i][g[i - 1]]]
    <2> HIDE DEF m, later
    <2>1. Runs(m, V, a, later)
      BY <1>1, LoopExists
    <2> QED BY <2>1 DEF Runs
  <1>3. g[0] = a /\ \A i \in 1 .. m : g[i] = next[i + 1][g[i - 1]]
    <2>1. 0 \in 0 .. m /\ \A i \in 1 .. m : i \in 0 .. m /\ i # 0
      OBVIOUS
    <2>2. \A i \in 1 .. m : later[i] = next[i + 1]
      OBVIOUS
    <2> HIDE DEF m, later
    <2> QED BY <1>2, <2>1, <2>2
  <1> DEFINE f == [i \in 1 .. n |-> g[i - 1]]
  <1>7. f \in [1 .. n -> V] /\ f[1] = a
    <2>1. \A i \in 1 .. n : i - 1 \in 0 .. m
      OBVIOUS
    <2> HIDE DEF m
    <2>2. \A i \in 1 .. n : g[i - 1] \in V
      BY <2>1
    <2> QED BY <1>3, <2>2
  <1>4. ASSUME NEW i \in 1 .. n
        PROVE  f[i] = IF i = 1 THEN a ELSE next[i][f[i - 1]]
    <2>1. CASE i = 1
      BY <1>7, <2>1
    <2>2. CASE i # 1
      <3>1. i - 1 \in 1 .. m /\ i - 1 \in 1 .. n /\ (i - 1) + 1 = i
        BY <2>2
      <3>2. g[i - 1] = next[i][g[(i - 1) - 1]]
        BY <1>3, <3>1
      <3>3. f[i] = g[i - 1] /\ f[i - 1] = g[(i - 1) - 1]
        BY <3>1
      <3> QED BY <2>2, <3>2, <3>3
    <2> QED BY <2>1, <2>2
  <1>5. f = [i \in 1 .. n |-> f[i]]
    OBVIOUS
  <1> HIDE DEF f
  <1>6. f = [i \in 1 .. n |-> IF i = 1 THEN a ELSE next[i][f[i - 1]]]
    BY <1>4, <1>5
  <1> QED BY <1>7, <1>6 DEF RunsFromOne

-----------------------------------------------------------------------------
(* What is composed.                                                         *)

Values == Seq(Letters \cup {Space}) \ {<<>>}
FieldMaps == UNION {[D -> Values] : D \in SUBSET (1 .. 127)}

\* The bits of the header are those of the fields, and bit 1 if a field of the
\* second bitmap is among them.
GoodIcomms ==
    {q \in [type : Nat, header : SUBSET (1 .. 127), fields : FieldMaps] :
        /\ DOMAIN q.fields \subseteq q.header
        /\ q.header \subseteq DOMAIN q.fields \cup {1}
        /\ \A id \in q.header : id > 64 => 1 \in q.header}

LEMMA GoodIcomm ==
    ASSUME NEW q \in GoodIcomms
    PROVE  /\ q.type \in Nat /\ q.header \subseteq 1 .. 127
           /\ q.fields \in [DOMAIN q.fields -> Values]
           /\ DOMAIN q.fields \subseteq q.header
           /\ q.header \subseteq DOMAIN q.fields \cup {1}
           /\ \A id \in q.header : id > 64 => 1 \in q.header
           /\ q = [type |-> q.type, header |-> q.header, fields |-> q.fields]
  <1>1. q \in [type : Nat, header : SUBSET (1 .. 127), fields : FieldMaps]
    BY DEF GoodIcomms
  <1>2. PICK D \in SUBSET (1 .. 127) : q.fields \in [D -> Values]
    BY <1>1 DEF FieldMaps
  <1>3. q.fields \in [DOMAIN q.fields -> Values]
    BY <1>2
  <1> QED BY <1>1, <1>3 DEF GoodIcomms

\* To prove that something is one.
LEMMA IsGoodIcomm ==
    ASSUME NEW type \in Nat, NEW header \in SUBSET (1 .. 127),
           NEW D \in SUBSET (1 .. 127), NEW fields \in [D -> Values],
           D \subseteq header, header \subseteq D \cup {1},
           \A id \in header : id > 64 => 1 \in header
    PROVE  [type |-> type, header |-> header, fields |-> fields] \in GoodIcomms
  <1>1. fields \in FieldMaps /\ DOMAIN fields = D
    BY DEF FieldMaps
  <1> QED BY <1>1 DEF GoodIcomms

LEMMA NewIsGood ==
    ASSUME NEW type \in Nat
    PROVE  NewIcomm(type) \in GoodIcomms
  <1>1. <<>> \in [{} -> Values]
    OBVIOUS
  <1>2. [type |-> type, header |-> {}, fields |-> <<>>] \in GoodIcomms
    BY <1>1, IsGoodIcomm
  <1> QED BY <1>2 DEF NewIcomm

LEMMA SetKeepsGood ==
    ASSUME NEW q \in GoodIcomms, NEW id \in Int,
           NEW value \in Seq(Letters \cup {Space})
    PROVE  Set(q, id, value) \in GoodIcomms
  <1>1. CASE id \notin 1 .. 127 \/ value = <<>>
    BY <1>1 DEF Set
  <1>2. CASE id \in 1 .. 127 /\ value # <<>>
    <2> DEFINE D == DOMAIN q.fields
               E == D \cup {id}
               more == IF id > 64 THEN {1, id} ELSE {id}
               header == q.header \cup more
               fields == [x \in E |-> IF x = id THEN value ELSE q.fields[x]]
    <2>1. value \in Values
      BY <1>2 DEF Values
    <2>2. /\ q.type \in Nat /\ q.header \subseteq 1 .. 127
          /\ q.fields \in [D -> Values]
          /\ D \subseteq q.header /\ q.header \subseteq D \cup {1}
          /\ \A k \in q.header : k > 64 => 1 \in q.header
      BY GoodIcomm
    <2>3. fields \in [E -> Values]
      BY <2>1, <2>2
    <2>4. /\ id \in more /\ more \subseteq {1, id} /\ (id > 64 => 1 \in more)
          /\ {1, id} \subseteq 1 .. 127
      BY <1>2
    <2>5. Set(q, id, value)
             = [type |-> q.type, header |-> header, fields |-> fields]
      BY <1>2 DEF Set
    <2> HIDE DEF D, more
    <2>6. E \in SUBSET (1 .. 127) /\ header \in SUBSET (1 .. 127)
      BY <1>2, <2>2, <2>4
    <2>7. E \subseteq header /\ header \subseteq E \cup {1}
      BY <2>2, <2>4
    <2>8. \A k \in header : k > 64 => 1 \in header
      BY <2>2, <2>4
    <2> HIDE DEF E, header, fields
    <2>9. [type |-> q.type, header |-> header, fields |-> fields] \in GoodIcomms
      BY <2>2, <2>3, <2>6, <2>7, <2>8, IsGoodIcomm, Zenon
    <2> QED BY <2>5, <2>9
  <1> QED BY <1>1, <1>2

LEMMA AddKeepsGood ==
    ASSUME NEW q \in GoodIcomms, NEW id \in Int,
           NEW value \in Seq(Letters \cup {Space})
    PROVE  Add(q, id, value) \in GoodIcomms
  <1> DEFINE S == Seq(Letters \cup {Space})
  <1>1. Text(q, id) \in S
    BY GoodIcomm DEF Text, Values
  <1>2. <<Space>> \in S
    OBVIOUS
  <1>3. (Text(q, id) \o <<Space>>) \o value \in S
    BY <1>1, <1>2, ConcatProperties
  <1> QED BY <1>3, SetKeepsGood DEF Add

\* Whatever calls of set and add a message is composed with.
LEMMA ComposedIsGood ==
    ASSUME NEW m \in Messages
    PROVE  Composed(m) \in GoodIcomms
  <1> DEFINE CallSet == [op : {"set", "add"}, id : Int, value : Seq(Letters)]
             n == Len(m.calls)
             start == NewIcomm(m.type)
             next == [i \in 1 .. n |-> [q \in GoodIcomms |-> Call(q, m.calls[i])]]
             Eq(f) == f = [i \in 0 .. n |-> IF i = 0 THEN start
                                            ELSE Call(f[i - 1], m.calls[i])]
  <1>1. m.type \in Nat /\ m.calls \in Seq(CallSet) /\ n \in Nat
    <2>1. m \in [type : Nat, calls : Seq(CallSet)]
      BY FramingAssumption
    <2> HIDE DEF CallSet
    <2> QED BY <2>1
  <1>2. start \in GoodIcomms
    BY <1>1, NewIsGood
  <1>3. ASSUME NEW i \in 1 .. n, NEW q \in GoodIcomms
        PROVE  Call(q, m.calls[i]) \in GoodIcomms
    <2>1. m.calls[i] \in CallSet
      <3> HIDE DEF CallSet
      <3> QED BY <1>1
    <2>2. /\ m.calls[i].id \in Int
          /\ m.calls[i].value \in Seq(Letters \cup {Space})
      BY <2>1
    <2> QED BY <2>2, SetKeepsGood, AddKeepsGood DEF Call
  <1>4. next \in [1 .. n -> [GoodIcomms -> GoodIcomms]]
    BY <1>3
  <1>5. Composed(m) = (CHOOSE f : Eq(f))[n]
    BY DEF Composed
  <1>6. PICK f \in [0 .. n -> GoodIcomms] :
           f = [i \in 0 .. n |-> IF i = 0 THEN start ELSE next[i][f[i - 1]]]
    <2>1. Runs(n, GoodIcomms, start, next)
      <3> HIDE DEF n, start, next
      <3> QED BY <1>1, <1>2, <1>4, LoopExists
    <2> QED BY <2>1 DEF Runs
  <1>7. Eq(f)
    <2>1. ASSUME NEW i \in 0 .. n
          PROVE  (IF i = 0 THEN start ELSE next[i][f[i - 1]])
                    = IF i = 0 THEN start ELSE Call(f[i - 1], m.calls[i])
      <3>1. CASE i = 0
        BY <3>1
      <3>2. CASE i # 0
        <4>1. i \in 1 .. n /\ i - 1 \in 0 .. n /\ f[i - 1] \in GoodIcomms
          <5> HIDE DEF n
          <5> QED BY <1>1, <3>2
        <4> QED BY <3>2, <4>1
      <3> QED BY <3>1, <3>2
    <2> HIDE DEF start, next, n
    <2>2. [i \in 0 .. n |-> IF i = 0 THEN start ELSE next[i][f[i - 1]]]
             = [i \in 0 .. n |-> IF i = 0 THEN start
                                 ELSE Call(f[i - 1], m.calls[i])]
      BY <2>1
    <2> QED BY <1>6, <2>2
  <1>8. ASSUME NEW g, Eq(g) PROVE g[n] \in GoodIcomms
    <2> DEFINE T == {i \in 0 .. n : g[i] \in GoodIcomms}
    <2>1. 0 \in T
      BY <1>1, <1>2, <1>8
    <2>2. ASSUME NEW i \in 1 .. n, i - 1 \in T PROVE i \in T
      <3>1. i \in 0 .. n /\ i # 0 /\ g[i] = Call(g[i - 1], m.calls[i])
        BY <1>8
      <3> QED BY <1>3, <2>2, <3>1
    <2>3. n \in T
      <3> HIDE DEF T, n
      <3>1. \A i \in 1 .. n : i - 1 \in T => i \in T
        BY <2>2
      <3>2. \A i \in 0 .. n : i \in T
        BY <1>1, <2>1, <3>1, Steps, Zenon
      <3> QED BY <1>1, <3>2
    <2> QED BY <2>3
  <1> HIDE DEF Eq, n
  <1>9. PICK g : Eq(g) /\ Composed(m) = g[n]
    BY <1>5, <1>7
  <1> QED BY <1>8, <1>9

-----------------------------------------------------------------------------
(* What is printed.                                                          *)

Characters ==
    Letters \cup {Space, Zero} \cup {Num(n) : n \in Nat}
        \cup {Bits(S) : S \in SUBSET (1 .. 127)}

Printers == [chars : Seq(Characters), fill : {Space, Zero}, left : BOOLEAN]

\* The characters of a field.
Piece(q, id) ==
    IF Def[id].kind # "fixed"
    THEN <<Num(Len(q.fields[id]))>> \o q.fields[id]
    ELSE Filled(q, id)

\* The stream when the fields up to i are printed: what it fills with, unless
\* std::left was set for field 44.
PrinterInv(q, o, i) ==
    /\ o \in Printers
    /\ o.left => /\ 44 \in DOMAIN q.fields /\ 44 <= i
                 /\ Def[44].kind = "fixed" /\ Def[44].alpha
    /\ ~ o.left => o.fill = FilledWith(q, i + 1)

LEMMA DefFacts ==
    ASSUME NEW id \in 1 .. 127
    PROVE  /\ Def[id].kind \in {"fixed", "length"}
           /\ Def[id].alpha \in BOOLEAN /\ (Def[id].alpha => id = 44)
           /\ Def[id].kind = "fixed" => Def[id].size = FixedSize
           /\ FixedSize \in Nat \ {0} /\ Base \in Nat \ {0, 1}
  BY FramingAssumption DEF Def

\* A value of a message, and its length.
LEMMA ValueFacts ==
    ASSUME NEW q \in GoodIcomms, NEW id \in DOMAIN q.fields
    PROVE  /\ q.fields[id] \in Seq(Characters) /\ q.fields[id] # <<>>
           /\ Len(q.fields[id]) \in Nat \ {0}
           /\ id \in 1 .. 127 /\ id \in q.header
           /\ Text(q, id) = q.fields[id]
  <1>1. q.fields[id] \in Values /\ id \in q.header /\ id \in 1 .. 127
    BY GoodIcomm
  <1>2. Letters \cup {Space} \subseteq Characters
    BY DEF Characters
  <1>3. q.fields[id] \in Seq(Characters) /\ q.fields[id] # <<>>
    BY <1>1, <1>2, SeqMonotonic DEF Values
  <1>4. Len(q.fields[id]) \in Nat \ {0}
    BY <1>3, EmptySeq
  <1> QED BY <1>1, <1>3, <1>4 DEF Text

LEMMA FillFacts ==
    ASSUME NEW v \in Seq(Characters), NEW size \in Nat, Len(v) <= size,
           NEW ch \in {Space, Zero}
    PROVE  /\ Fill(v, size, ch) \in Seq(Characters)
           /\ v \o Fill(v, size, ch) \in Seq(Characters)
           /\ Fill(v, size, ch) \o v \in Seq(Characters)
           /\ Len(v \o Fill(v, size, ch)) = size
           /\ Len(Fill(v, size, ch) \o v) = size
  <1> DEFINE n == size - Len(v)  f == [i \in 1 .. n |-> ch]
  <1>1. ch \in Characters /\ n \in Nat
    BY DEF Characters
  <1>2. f \in Seq(Characters) /\ Len(f) = n
    <2> HIDE DEF n
    <2> QED BY <1>1
  <1>3. Fill(v, size, ch) = f
    BY DEF Fill
  <1> HIDE DEF f
  <1>4. /\ v \o f \in Seq(Characters) /\ Len(v \o f) = Len(v) + Len(f)
        /\ f \o v \in Seq(Characters) /\ Len(f \o v) = Len(f) + Len(v)
    BY <1>2, ConcatProperties
  <1> QED BY <1>2, <1>3, <1>4

LEMMA FilledWithFacts ==
    ASSUME NEW q, NEW id
    PROVE  FilledWith(q, id) \in {Space, Zero}
  BY DEF FilledWith

\* A fixed field, filled up, is as long as its size.
LEMMA FilledFacts ==
    ASSUME NEW q \in GoodIcomms, Fits(q), NEW id \in DOMAIN q.fields
    PROVE  /\ Filled(q, id) \in Seq(Characters) /\ Filled(q, id) # <<>>
           /\ Def[id].kind # "fixed" =>
                 /\ Filled(q, id) = q.fields[id]
                 /\ Digits(Len(q.fields[id])) = <<Num(Len(q.fields[id]))>>
           /\ Def[id].kind = "fixed" => Len(Filled(q, id)) = FixedSize
  <1> DEFINE v == q.fields[id]
  <1>1. /\ v \in Seq(Characters) /\ v # <<>> /\ Len(v) \in Nat \ {0}
        /\ id \in 1 .. 127
    BY ValueFacts
  <1>2. IF Def[id].kind = "fixed" THEN Len(v) <= Def[id].size ELSE Len(v) < Base
    BY DEF Fits
  <1>3. /\ FilledWith(q, id) \in {Space, Zero}
        /\ FixedSize \in Nat \ {0} /\ Def[id].alpha \in BOOLEAN
        /\ Def[id].kind = "fixed" => Def[id].size = FixedSize
    BY <1>1, DefFacts, FilledWithFacts
  <1> HIDE DEF v
  <1>4. CASE Def[id].kind # "fixed"
    <2>1. Filled(q, id) = v
      BY <1>4 DEF Filled, v
    <2>2. Digits(Len(v)) = <<Num(Len(v))>>
      BY <1>2, <1>4 DEF Digits
    <2> QED BY <1>1, <1>4, <2>1, <2>2 DEF v
  <1>5. CASE Def[id].kind = "fixed"
    <2>1. /\ v \o Fill(v, FixedSize, FilledWith(q, id)) \in Seq(Characters)
          /\ Len(v \o Fill(v, FixedSize, FilledWith(q, id))) = FixedSize
          /\ Fill(v, FixedSize, Zero) \o v \in Seq(Characters)
          /\ Len(Fill(v, FixedSize, Zero) \o v) = FixedSize
      BY <1>1, <1>2, <1>3, <1>5, FillFacts, ZenonT(60)
    <2>2. Filled(q, id) = IF Def[id].alpha
                          THEN v \o Fill(v, FixedSize, FilledWith(q, id))
                          ELSE Fill(v, FixedSize, Zero) \o v
      BY <1>3, <1>5, ZenonT(60) DEF Filled, v
    <2>3. Filled(q, id) \in Seq(Characters) /\ Len(Filled(q, id)) = FixedSize
      BY <2>1, <2>2
    <2>4. Filled(q, id) # <<>>
      BY <1>3, <2>3, EmptySeq
    <2> QED BY <1>5, <2>3, <2>4
  <1> QED BY <1>4, <1>5

LEMMA PieceFacts ==
    ASSUME NEW q \in GoodIcomms, Fits(q), NEW id \in DOMAIN q.fields
    PROVE  Piece(q, id) \in Seq(Characters)
  <1>1. /\ q.fields[id] \in Seq(Characters) /\ Len(q.fields[id]) \in Nat
        /\ Filled(q, id) \in Seq(Characters)
    BY ValueFacts, FilledFacts
  <1>2. <<Num(Len(q.fields[id]))>> \in Seq(Characters)
    BY <1>1 DEF Characters
  <1>3. <<Num(Len(q.fields[id]))>> \o q.fields[id] \in Seq(Characters)
    BY <1>1, <1>2, ConcatProperties
  <1> QED BY <1>1, <1>3 DEF Piece

\* A field printed, in a message whose values fit.
LEMMA FieldPrinted ==
    ASSUME NEW q \in GoodIcomms, Fits(q), NEW i \in 2 .. 127, i \in DOMAIN q.fields,
           NEW o, PrinterInv(q, o, i - 1)
    PROVE  /\ PrintField(o, i, q.fields[i]).chars = o.chars \o Piece(q, i)
           /\ PrinterInv(q, PrintField(o, i, q.fields[i]), i)
  <1> DEFINE v == q.fields[i]  p == PrintField(o, i, v)
  <1>1. /\ i \in 1 .. 127 /\ i - 1 \in Nat /\ (i - 1) + 1 = i
        /\ o \in Printers /\ o.chars \in Seq(Characters)
        /\ Piece(q, i) \in Seq(Characters)
        /\ o.chars \o Piece(q, i) \in Seq(Characters)
    <2>1. o \in Printers /\ o.chars \in Seq(Characters)
      BY DEF PrinterInv, Printers
    <2>2. Piece(q, i) \in Seq(Characters)
      BY PieceFacts
    <2>3. o.chars \o Piece(q, i) \in Seq(Characters)
      BY <2>1, <2>2, ConcatProperties, Zenon
    <2>4. i \in 1 .. 127 /\ i - 1 \in Nat /\ (i - 1) + 1 = i
      OBVIOUS
    <2> QED BY <2>1, <2>2, <2>3, <2>4
  <1>2. /\ Def[i].kind \in {"fixed", "length"} /\ Def[i].alpha \in BOOLEAN
        /\ Def[i].alpha => i = 44
        /\ Def[i].kind = "fixed" => Def[i].size = FixedSize
    BY <1>1, DefFacts
  <1>3. CASE Def[i].kind # "fixed"
    <2>1. Digits(Len(v)) = <<Num(Len(v))>>
      BY <1>3, FilledFacts
    <2>2. p = [o EXCEPT !.chars = @ \o Digits(Len(v)) \o v]
      BY <1>3 DEF PrintField
    <2>3. (o.chars \o <<Num(Len(v))>>) \o v = o.chars \o (<<Num(Len(v))>> \o v)
      <3>1. v \in Seq(Characters) /\ Len(v) \in Nat
        BY ValueFacts
      <3> HIDE DEF v
      <3>2. Num(Len(v)) \in Characters
        BY <3>1 DEF Characters
      <3>3. <<Num(Len(v))>> \in Seq(Characters)
        BY <3>2
      <3> DEFINE x == o.chars  y == <<Num(Len(v))>>
      <3>4. x \in Seq(Characters) /\ y \in Seq(Characters)
        BY <1>1, <3>3
      <3> HIDE DEF x, y
      <3>5. (x \o y) \o v = x \o (y \o v)
        BY <3>1, <3>4, ConcatAssociative
      <3> QED BY <3>5 DEF x, y
    <2>4. p = [o EXCEPT !.chars = o.chars \o Piece(q, i)]
      BY <1>3, <2>1, <2>2, <2>3 DEF Piece
    <2>5. FilledWith(q, i + 1) = FilledWith(q, i)
      <3>1. \A j \in 2 .. (i + 1) - 1 : j = i \/ j \in 2 .. i - 1
        OBVIOUS
      <3>2. 2 .. i - 1 \subseteq 2 .. (i + 1) - 1
        OBVIOUS
      <3>3. (\E j \in DOMAIN q.fields \cap 2 .. (i + 1) - 1 : Def[j].kind = "fixed")
               <=> \E j \in DOMAIN q.fields \cap 2 .. i - 1 : Def[j].kind = "fixed"
        BY <1>3, <3>1, <3>2
      <3> QED BY <3>3 DEF FilledWith
    <2> HIDE DEF p
    <2>6. /\ p.chars = o.chars \o Piece(q, i) /\ p.left = o.left
          /\ p.fill = o.fill /\ p \in Printers
      BY <1>1, <2>4 DEF Printers
    <2>7. PrinterInv(q, p, i)
      BY <1>1, <2>5, <2>6 DEF PrinterInv
    <2> QED BY <2>6, <2>7 DEF p
  <1>4. CASE Def[i].kind = "fixed"
    <2>1. ~ o.left
      <3>1. \A j \in DOMAIN q.fields :
               ~ (j < i /\ Def[j].kind = "fixed" /\ Def[j].alpha
                        /\ Def[i].kind = "fixed")
        BY DEF Fits
      <3>2. o.left => 44 \in DOMAIN q.fields /\ 44 < i
                      /\ Def[44].kind = "fixed" /\ Def[44].alpha
        BY <1>1 DEF PrinterInv
      <3> QED BY <1>4, <3>1, <3>2
    <2>2. o.fill = FilledWith(q, i)
      BY <1>1, <2>1 DEF PrinterInv
    <2>3. Piece(q, i) = IF Def[i].alpha
                        THEN v \o Fill(v, FixedSize, o.fill)
                        ELSE Fill(v, FixedSize, Zero) \o v
      BY <1>2, <1>4, <2>2, Zenon DEF Piece, Filled
    <2>4. CASE Def[i].alpha
      <3>1. p = [chars |-> (o.chars \o v) \o Fill(v, FixedSize, o.fill),
                 fill |-> Space, left |-> TRUE]
        BY <1>2, <1>4, <2>4, Zenon DEF PrintField
      <3>2. p.chars = o.chars \o Piece(q, i)
        <4>1. v \in Seq(Characters) /\ Fill(v, FixedSize, o.fill) \in Seq(Characters)
          <5>1. /\ v \in Seq(Characters) /\ Len(v) <= FixedSize
                /\ FixedSize \in Nat /\ o.fill \in {Space, Zero}
            BY <1>1, <1>2, <1>4, ValueFacts, FramingAssumption DEF Fits, Printers
          <5> HIDE DEF v
          <5> QED BY <5>1, FillFacts
        <4> HIDE DEF v
        <4>2. p.chars = (o.chars \o v) \o Fill(v, FixedSize, o.fill)
          <5> HIDE DEF p
          <5> QED BY <3>1
        <4>3. (o.chars \o v) \o Fill(v, FixedSize, o.fill)
                 = o.chars \o (v \o Fill(v, FixedSize, o.fill))
          <5> DEFINE x == o.chars  y == Fill(v, FixedSize, o.fill)
          <5>1. x \in Seq(Characters) /\ y \in Seq(Characters)
            BY <1>1, <4>1
          <5> HIDE DEF x, y
          <5>2. (x \o v) \o y = x \o (v \o y)
            BY <4>1, <5>1, ConcatAssociative
          <5> QED BY <5>2 DEF x, y
        <4> QED BY <2>3, <2>4, <4>2, <4>3
      <3>3. p.fill = Space /\ p.left = TRUE /\ p = [chars |-> p.chars,
                  fill |-> Space, left |-> TRUE]
        BY <3>1
      <3> HIDE DEF p
      <3>4. p \in Printers
        BY <1>1, <3>2, <3>3 DEF Printers
      <3>5. i = 44
        BY <1>2, <2>4
      <3>6. PrinterInv(q, p, i)
        BY <1>4, <2>4, <3>3, <3>4, <3>5 DEF PrinterInv
      <3> QED BY <3>2, <3>6 DEF p
    <2>5. CASE ~ Def[i].alpha
      <3>1. p = [o EXCEPT !.fill = Zero,
                          !.chars = @ \o (Fill(v, FixedSize, Zero) \o v)]
        BY <1>2, <1>4, <2>1, <2>5 DEF PrintField
      <3>2. p = [chars |-> o.chars \o Piece(q, i), fill |-> Zero, left |-> FALSE]
        <4> HIDE DEF v
        <4> QED BY <1>1, <2>1, <2>3, <2>5, <3>1 DEF Printers
      <3> HIDE DEF p
      <3>3. /\ p.chars = o.chars \o Piece(q, i) /\ p.left = FALSE
            /\ p.fill = Zero /\ p \in Printers
        BY <1>1, <3>2 DEF Printers
      <3>4. FilledWith(q, i + 1) = Zero
        <4>1. i \in DOMAIN q.fields \cap 2 .. (i + 1) - 1
          OBVIOUS
        <4> QED BY <1>4, <4>1 DEF FilledWith
      <3>5. PrinterInv(q, p, i)
        BY <3>3, <3>4 DEF PrinterInv
      <3> QED BY <3>3, <3>5 DEF p
    <2> QED BY <1>2, <2>4, <2>5
  <1> QED BY <1>2, <1>3, <1>4

\* No field printed.
LEMMA NothingPrinted ==
    ASSUME NEW q \in GoodIcomms, NEW i \in 2 .. 127, i \notin DOMAIN q.fields,
           NEW o, PrinterInv(q, o, i - 1)
    PROVE  PrinterInv(q, o, i)
  <1>1. (i - 1) + 1 = i
    OBVIOUS
  <1>2. DOMAIN q.fields \cap 2 .. (i + 1) - 1 = DOMAIN q.fields \cap 2 .. i - 1
    <2>1. \A j \in 2 .. (i + 1) - 1 : j = i \/ j \in 2 .. i - 1
      OBVIOUS
    <2>2. 2 .. i - 1 \subseteq 2 .. (i + 1) - 1
      OBVIOUS
    <2> QED BY <2>1, <2>2
  <1>3. FilledWith(q, i + 1) = FilledWith(q, i)
    BY <1>2 DEF FilledWith
  <1> QED BY <1>1, <1>3 DEF PrinterInv

LEMMA JoinedOnes ==
    ASSUME NEW S, NEW x \in S, NEW y \in S, NEW z \in S
    PROVE  /\ <<x>> \o (<<y>> \o <<z>>) = <<x, y, z>>
           /\ <<x>> \o (<<y>> \o <<>>) = <<x, y>>
  <1> DEFINE a == <<y>> \o <<z>>  b == <<x>> \o a  d == <<x, y, z>>
             e == <<x>> \o <<y>>  f == <<x, y>>
  <1>1. /\ <<x>> \in Seq(S) /\ <<y>> \in Seq(S) /\ <<z>> \in Seq(S)
        /\ d \in Seq(S) /\ f \in Seq(S)
    OBVIOUS
  <1>2. /\ Len(<<x>>) = 1 /\ Len(<<y>>) = 1 /\ Len(<<z>>) = 1
        /\ Len(d) = 3 /\ Len(f) = 2
        /\ <<x>>[1] = x /\ <<y>>[1] = y /\ <<z>>[1] = z
        /\ d[1] = x /\ d[2] = y /\ d[3] = z /\ f[1] = x /\ f[2] = y
    OBVIOUS
  <1>3. /\ a \in Seq(S) /\ Len(a) = 2
        /\ \A i \in 1 .. 2 : a[i] = IF i <= 1 THEN <<y>>[i] ELSE <<z>>[i - 1]
    BY <1>1, <1>2, ConcatProperties
  <1>4. a[1] = y /\ a[2] = z
    BY <1>2, <1>3
  <1> HIDE DEF a, d, f
  <1>5. /\ b \in Seq(S) /\ Len(b) = 3
        /\ \A i \in 1 .. 3 : b[i] = IF i <= 1 THEN <<x>>[i] ELSE a[i - 1]
    BY <1>1, <1>2, <1>3, ConcatProperties, SMTT(30)
  <1>6. b[1] = x /\ b[2] = y /\ b[3] = z
    BY <1>2, <1>4, <1>5
  <1>7. /\ e \in Seq(S) /\ Len(e) = 2
        /\ \A i \in 1 .. 2 : e[i] = IF i <= 1 THEN <<x>>[i] ELSE <<y>>[i - 1]
    BY <1>1, <1>2, ConcatProperties
  <1>8. e[1] = x /\ e[2] = y
    BY <1>2, <1>7
  <1> HIDE DEF b, e
  <1>9. b = d
    <2>1. \A i \in 1 .. 3 : i = 1 \/ i = 2 \/ i = 3
      OBVIOUS
    <2>2. \A i \in 1 .. 3 : b[i] = d[i]
      BY <1>2, <1>6, <2>1
    <2> QED BY <1>1, <1>2, <1>5, <2>2, SeqEqual
  <1>10. e = f
    <2>1. \A i \in 1 .. 2 : i = 1 \/ i = 2
      OBVIOUS
    <2>2. \A i \in 1 .. 2 : e[i] = f[i]
      BY <1>2, <1>8, <2>1
    <2> QED BY <1>1, <1>2, <1>7, <2>2, SeqEqual
  <1>11. <<y>> \o <<>> = <<y>>
    BY <1>1, ConcatEmptySeq
  <1> QED BY <1>9, <1>10, <1>11 DEF a, b, d, e, f

LEMMA BitmapsFacts ==
    ASSUME NEW q \in GoodIcomms
    PROVE  /\ PrinterStart(q) \in Printers /\ PrinterInv(q, PrinterStart(q), 1)
           /\ PrinterStart(q).chars
                 = IF 1 \in q.header
                   THEN <<Num(q.type), Bits(q.header \cap 1 .. 64),
                          Bits(q.header \cap 65 .. 127)>>
                   ELSE <<Num(q.type), Bits(q.header \cap 1 .. 64)>>
  <1> DEFINE t == Num(q.type)  b == Bits(q.header \cap 1 .. 64)
             b2 == Bits(q.header \cap 65 .. 127)
             s == PrinterStart(q)
  <1>1. t \in Characters /\ b \in Characters /\ b2 \in Characters
    <2>1. q.type \in Nat /\ q.header \subseteq 1 .. 127
      BY GoodIcomm
    <2>2. /\ q.header \cap 1 .. 64 \in SUBSET (1 .. 127)
          /\ q.header \cap 65 .. 127 \in SUBSET (1 .. 127)
      BY <2>1
    <2> QED BY <2>1, <2>2 DEF Characters
  <1>2. Bitmaps(q) = <<b>> \o IF 1 \in q.header THEN <<b2>> ELSE <<>>
    BY DEF Bitmaps
  <1>3. s = [chars |-> <<t>> \o Bitmaps(q), fill |-> Space, left |-> FALSE]
    BY DEF PrinterStart
  <1> HIDE DEF t, b, b2, s
  <1>4. <<t>> \o Bitmaps(q) = IF 1 \in q.header THEN <<t, b, b2>> ELSE <<t, b>>
    <2>1. CASE 1 \in q.header
      <3>1. <<t>> \o (<<b>> \o <<b2>>) = <<t, b, b2>>
        BY <1>1, JoinedOnes
      <3> QED BY <1>2, <2>1, <3>1
    <2>2. CASE 1 \notin q.header
      <3>1. <<t>> \o (<<b>> \o <<>>) = <<t, b>>
        BY <1>1, JoinedOnes
      <3> QED BY <1>2, <2>2, <3>1
    <2> QED BY <2>1, <2>2
  <1>5. <<t, b, b2>> \in Seq(Characters) /\ <<t, b>> \in Seq(Characters)
    BY <1>1
  <1>6. /\ s.chars = (IF 1 \in q.header THEN <<t, b, b2>> ELSE <<t, b>>)
        /\ s.fill = Space /\ s.left = FALSE /\ s \in Printers
    BY <1>3, <1>4, <1>5 DEF Printers
  <1>7. FilledWith(q, 2) = Space
    <2>1. \A j \in 2 .. 2 - 1 : FALSE
      OBVIOUS
    <2> QED BY <2>1 DEF FilledWith
  <1>8. PrinterInv(q, s, 1)
    BY <1>6, <1>7 DEF PrinterInv
  <1> QED BY <1>6, <1>8 DEF t, b, b2, s

\* What is printed, field by field.
ByFields(q, P) ==
    /\ P[1] = PrinterStart(q)
    /\ \A i \in 2 .. 127 :
          P[i].chars = IF i \in DOMAIN q.fields THEN P[i - 1].chars \o Piece(q, i)
                       ELSE P[i - 1].chars
    /\ Printed(q) = P[127].chars

LEMMA PrintedByFields ==
    ASSUME NEW q \in GoodIcomms, Fits(q)
    PROVE  \E P \in [1 .. 127 -> Printers] : ByFields(q, P)
  <1> DEFINE start == PrinterStart(q)
             Fld(o, i) == IF i \in q.header THEN PrintField(o, i, Text(q, i)) ELSE o
             Eq(f) == f = [id \in 1 .. 127 |->
                              IF id = 1 THEN start
                              ELSE IF id \in q.header
                              THEN PrintField(f[id - 1], id, Text(q, id))
                              ELSE f[id - 1]]
             next == [i \in 2 .. 127 |-> [o \in Printers |->
                         IF PrinterInv(q, o, i - 1) THEN Fld(o, i) ELSE o]]
  <1>1. start \in Printers /\ PrinterInv(q, start, 1)
    BY BitmapsFacts
  <1>2. ASSUME NEW i \in 2 .. 127, NEW o, PrinterInv(q, o, i - 1)
        PROVE  /\ Fld(o, i) \in Printers /\ PrinterInv(q, Fld(o, i), i)
               /\ Fld(o, i).chars = IF i \in DOMAIN q.fields
                                    THEN o.chars \o Piece(q, i) ELSE o.chars
    <2>1. i \in q.header <=> i \in DOMAIN q.fields
      BY GoodIcomm
    <2>2. CASE i \in DOMAIN q.fields
      <3>1. Text(q, i) = q.fields[i]
        BY <2>2, ValueFacts
      <3>2. Fld(o, i) = PrintField(o, i, q.fields[i])
        BY <2>1, <2>2, <3>1, SMTT(30)
      <3> HIDE DEF Fld
      <3>3. /\ Fld(o, i).chars = o.chars \o Piece(q, i)
            /\ PrinterInv(q, Fld(o, i), i)
        BY <1>2, <2>2, <3>2, FieldPrinted, Zenon
      <3> QED BY <2>2, <3>3 DEF PrinterInv
    <2>3. CASE i \notin DOMAIN q.fields
      <3>1. Fld(o, i) = o
        BY <2>1, <2>3
      <3>2. PrinterInv(q, o, i)
        BY <1>2, <2>3, NothingPrinted
      <3> HIDE DEF Fld
      <3> QED BY <2>3, <3>1, <3>2 DEF PrinterInv
    <2> QED BY <2>2, <2>3
  <1>3. next \in [2 .. 127 -> [Printers -> Printers]]
    <2> HIDE DEF Fld
    <2> QED BY <1>2
  <1>4. PICK f \in [1 .. 127 -> Printers] :
           f = [i \in 1 .. 127 |-> IF i = 1 THEN start ELSE next[i][f[i - 1]]]
    <2> HIDE DEF next, start
    <2>1. 127 \in Nat \ {0}
      OBVIOUS
    <2>2. RunsFromOne(127, Printers, start, next)
      BY <1>1, <1>3, <2>1, LoopFromOneExists
    <2> QED BY <2>2 DEF RunsFromOne
  <1>5. /\ f[1] = start
        /\ \A i \in 2 .. 127 : i - 1 \in 1 .. 127 /\ f[i] = next[i][f[i - 1]]
    <2> HIDE DEF next, start
    <2> DEFINE h == [i \in 1 .. 127 |->
                       IF i = 1 THEN start ELSE next[i][f[i - 1]]]
    <2>1. \A i \in 2 .. 127 : /\ i \in 1 .. 127 /\ i - 1 \in 1 .. 127
                              /\ h[i] = next[i][f[i - 1]]
      OBVIOUS
    <2>2. h[1] = start
      OBVIOUS
    <2>3. f = h
      BY <1>4, ZenonT(60)
    <2> HIDE DEF h
    <2> QED BY <2>1, <2>2, <2>3
  <1>6. ASSUME NEW i \in 2 .. 127, PrinterInv(q, f[i - 1], i - 1)
        PROVE  f[i] = Fld(f[i - 1], i)
    <2> HIDE DEF Fld
    <2>1. f[i - 1] \in Printers
      BY <1>5
    <2>2. next[i][f[i - 1]] = Fld(f[i - 1], i)
      BY <1>6, <2>1
    <2> HIDE DEF next
    <2> QED BY <1>5, <2>2
  <1>7. ASSUME NEW g, g[1] = start,
               \A i \in 2 .. 127 : PrinterInv(q, g[i - 1], i - 1) =>
                                     g[i] = Fld(g[i - 1], i)
        PROVE  \A i \in 1 .. 127 : PrinterInv(q, g[i], i)
    <2> DEFINE T == {k \in 0 .. 126 : PrinterInv(q, g[k + 1], k + 1)}
    <2> HIDE DEF Fld, start
    <2>1. 0 \in T
      BY <1>1, <1>7
    <2>2. ASSUME NEW k \in 1 .. 126, k - 1 \in T PROVE k \in T
      <3>1. (k - 1) + 1 = k /\ k + 1 \in 2 .. 127 /\ (k + 1) - 1 = k /\ k \in 0 .. 126
        OBVIOUS
      <3>2. PrinterInv(q, g[k], k)
        BY <2>2, <3>1
      <3>3. g[k + 1] = Fld(g[k], k + 1)
        BY <1>7, <3>1, <3>2
      <3>4. PrinterInv(q, Fld(g[k], k + 1), k + 1)
        BY <1>2, <3>1, <3>2
      <3> QED BY <3>1, <3>3, <3>4
    <2> HIDE DEF T
    <2>3. \A k \in 1 .. 126 : k - 1 \in T => k \in T
      BY <2>2
    <2>4. 126 \in Nat
      OBVIOUS
    <2>5. \A k \in 0 .. 126 : k \in T
      BY <2>1, <2>3, <2>4, Steps, ZenonT(60)
    <2>6. ASSUME NEW i \in 1 .. 127 PROVE PrinterInv(q, g[i], i)
      <3>1. i - 1 \in 0 .. 126 /\ (i - 1) + 1 = i
        OBVIOUS
      <3>2. i - 1 \in T
        BY <2>5, <3>1
      <3> QED BY <3>1, <3>2 DEF T
    <2> QED BY <2>6
  <1>8. Eq(f)
    <2>4. \A i \in 1 .. 127 : PrinterInv(q, f[i], i)
      <3> HIDE DEF Fld, next, start
      <3> QED BY <1>5, <1>6, <1>7, ZenonT(60)
    <2>1. \A i \in 1 .. 127 : f[i] = IF i = 1 THEN start ELSE Fld(f[i - 1], i)
      <3> SUFFICES ASSUME NEW i \in 1 .. 127, i # 1
                   PROVE  f[i] = Fld(f[i - 1], i)
        <4> HIDE DEF Fld
        <4> QED BY <1>5
      <3> HIDE DEF Fld
      <3>1. i \in 2 .. 127 /\ i - 1 \in 1 .. 127
        OBVIOUS
      <3> QED BY <1>6, <2>4, <3>1, ZenonT(30)
    <2>2. f = [i \in 1 .. 127 |-> f[i]]
      OBVIOUS
    <2>3. f = [i \in 1 .. 127 |-> IF i = 1 THEN start ELSE Fld(f[i - 1], i)]
      <3> HIDE DEF Fld
      <3> QED BY <2>1, <2>2
    <2> HIDE DEF start
    <2> QED BY <2>3
  <1>9. Printed(q) = (CHOOSE g : Eq(g))[127].chars
    <2>1. ~ q.type > 999
      <3>1. q.type \in Nat /\ q.type <= 999
        BY GoodIcomm DEF Fits
      <3> QED BY <3>1
    <2> QED BY <2>1, Zenon DEF Printed
  <1> HIDE DEF Eq
  <1>10. PICK g : Eq(g) /\ Printed(q) = g[127].chars
    BY <1>8, <1>9
  <1>11. /\ g = [i \in 1 .. 127 |-> g[i]]
         /\ g[1] = start
         /\ \A i \in 2 .. 127 : g[i] = Fld(g[i - 1], i)
    <2> HIDE DEF start
    <2>1. g = [i \in 1 .. 127 |-> IF i = 1 THEN start ELSE Fld(g[i - 1], i)]
      BY <1>10, SMTT(30) DEF Eq
    <2>2. \A i \in 2 .. 127 : i \in 1 .. 127 /\ i # 1
      OBVIOUS
    <2> HIDE DEF Fld
    <2> QED BY <2>1, <2>2
  <1>12. \A i \in 1 .. 127 : PrinterInv(q, g[i], i)
    <2> HIDE DEF Fld, start
    <2> QED BY <1>7, <1>11
  <1>13. g \in [1 .. 127 -> Printers]
    <2>1. \A i \in 1 .. 127 : g[i] \in Printers
      BY <1>12 DEF PrinterInv
    <2> QED BY <1>11, <2>1
  <1>14. ASSUME NEW i \in 2 .. 127
         PROVE  g[i].chars = IF i \in DOMAIN q.fields
                             THEN g[i - 1].chars \o Piece(q, i)
                             ELSE g[i - 1].chars
    <2> HIDE DEF Fld
    <2>1. i - 1 \in 1 .. 127
      OBVIOUS
    <2>2. PrinterInv(q, g[i - 1], i - 1) /\ g[i] = Fld(g[i - 1], i)
      BY <1>11, <1>12, <2>1, ZenonT(60)
    <2> QED BY <1>2, <2>2, SMTT(30)
  <1>15. ByFields(q, g)
    BY <1>10, <1>11, <1>14, Zenon DEF ByFields
  <1> QED BY <1>13, <1>15

-----------------------------------------------------------------------------
(* What is read of it.                                                       *)

LEMMA Regrouped ==
    \A x, y, z \in Seq(Characters) : (x \o y) \o z = x \o (y \o z)
  BY ConcatAssociative

\* What stands in the middle of a string.
LEMMA Middle ==
    ASSUME NEW S, NEW b \in Seq(S), NEW p \in Seq(S), NEW a \in Seq(S)
    PROVE  /\ SubSeq((b \o p) \o a, Len(b) + 1, Len(b) + Len(p)) = p
           /\ \A k \in 1 .. Len(p) : ((b \o p) \o a)[Len(b) + k] = p[k]
           /\ Len(b \o p) = Len(b) + Len(p) /\ Len(b) \in Nat /\ Len(p) \in Nat
  <1> DEFINE l == Len(b)  n == Len(p)  s == (b \o p) \o a  t == SubSeq(s, l + 1, l + n)
  <1>1. /\ l \in Nat /\ n \in Nat /\ Len(a) \in Nat
        /\ b \o p \in Seq(S) /\ Len(b \o p) = l + n
        /\ \A i \in 1 .. l + n : (b \o p)[i] = IF i <= l THEN b[i] ELSE p[i - l]
    BY ConcatProperties
  <1>2. /\ s \in Seq(S) /\ Len(s) = l + n + Len(a)
        /\ \A i \in 1 .. l + n : s[i] = (b \o p)[i]
    <2> DEFINE x == b \o p
    <2>1. x \in Seq(S) /\ Len(x) = l + n
      BY <1>1
    <2> HIDE DEF x, l, n
    <2>2. /\ x \o a \in Seq(S) /\ Len(x \o a) = l + n + Len(a)
          /\ \A i \in 1 .. l + n + Len(a) :
                (x \o a)[i] = IF i <= l + n THEN x[i] ELSE a[i - (l + n)]
      BY <2>1, ConcatProperties
    <2>3. \A i \in 1 .. l + n : (x \o a)[i] = x[i]
      BY <1>1, <2>2
    <2> QED BY <2>2, <2>3 DEF x
  <1> HIDE DEF l, n, s
  <1>3. \A k \in 1 .. n : s[l + k] = p[k]
    <2> SUFFICES ASSUME NEW k \in 1 .. n PROVE s[l + k] = p[k]
      OBVIOUS
    <2>1. l + k \in 1 .. l + n /\ ~ l + k <= l /\ (l + k) - l = k
      BY <1>1
    <2> QED BY <1>1, <1>2, <2>1
  <1>4. /\ t \in Seq(S) /\ Len(t) = n
        /\ \A k \in 1 .. n : t[k] = s[l + k]
    <2>1. l + 1 \in Int /\ l + n \in Int /\ \A i \in l + 1 .. l + n : s[i] \in S
      BY <1>1, <1>2
    <2>2. /\ t \in Seq(S)
          /\ Len(t) = IF l + 1 <= l + n THEN (l + n) - (l + 1) + 1 ELSE 0
          /\ \A k \in 1 .. (l + n) - (l + 1) + 1 : t[k] = s[(l + 1) + k - 1]
      BY <2>1, SubSeqProperties, SMTT(30)
    <2>3. /\ (l + n) - (l + 1) + 1 = n
          /\ \A k \in 1 .. n : (l + 1) + k - 1 = l + k
          /\ ~ l + 1 <= l + n => n = 0
      BY <1>1
    <2> HIDE DEF t
    <2> QED BY <2>2, <2>3
  <1> HIDE DEF t
  <1>5. n = Len(p)
    BY DEF n
  <1>6. t = p
    BY <1>3, <1>4, <1>5, SeqEqual
  <1> QED BY <1>1, <1>3, <1>6 DEF l, n, s, t

\* What is printed begins with what is printed of the fields up to i.
LEMMA PrintedBegins ==
    ASSUME NEW q \in GoodIcomms, Fits(q), NEW P \in [1 .. 127 -> Printers],
           ByFields(q, P)
    PROVE  \A i \in 1 .. 127 : \E rest \in Seq(Characters) :
              Printed(q) = P[i].chars \o rest
  <1> DEFINE Begins(i) == \E rest \in Seq(Characters) :
                             Printed(q) = P[i].chars \o rest
             T == {k \in 0 .. 126 : Begins(127 - k)}
  <1>1. \A i \in 1 .. 127 : P[i].chars \in Seq(Characters)
    BY DEF Printers
  <1>2. 0 \in T
    <2>1. <<>> \in Seq(Characters) /\ 127 \in 1 .. 127
      OBVIOUS
    <2>2. P[127].chars \o <<>> = P[127].chars
      BY <1>1, <2>1, ConcatEmptySeq
    <2>3. Printed(q) = P[127].chars
      BY DEF ByFields
    <2>4. Begins(127)
      BY <2>1, <2>2, <2>3
    <2> HIDE DEF Begins
    <2> QED BY <2>4
  <1>3. ASSUME NEW k \in 1 .. 126, k - 1 \in T PROVE k \in T
    <2> DEFINE i == 128 - k
    <2>1. i \in 2 .. 127 /\ i - 1 = 127 - k /\ i = 127 - (k - 1)
          /\ i - 1 \in 1 .. 127 /\ i \in 1 .. 127 /\ k \in 0 .. 126
      OBVIOUS
    <2>2. Begins(i)
      <3> HIDE DEF Begins, i
      <3> QED BY <1>3, <2>1, SMTT(30)
    <2> HIDE DEF i
    <2>3. PICK rest \in Seq(Characters) : Printed(q) = P[i].chars \o rest
      BY <2>2
    <2>4. CASE i \in DOMAIN q.fields
      <3> DEFINE x == P[i - 1].chars  y == Piece(q, i)
      <3>1. x \in Seq(Characters) /\ y \in Seq(Characters)
        BY <1>1, <2>1, <2>4, PieceFacts
      <3>2. P[i].chars = x \o y
        BY <2>1, <2>4, ZenonT(60) DEF ByFields
      <3> HIDE DEF x, y
      <3>3. y \o rest \in Seq(Characters)
        BY <3>1, ConcatProperties
      <3>4. Printed(q) = x \o (y \o rest)
        <4>1. (x \o y) \o rest = x \o (y \o rest)
          BY <3>1, Regrouped, ZenonT(60)
        <4> QED BY <2>3, <3>2, <4>1
      <3>5. Begins(i - 1)
        BY <3>3, <3>4, Zenon DEF x
      <3> HIDE DEF Begins
      <3> QED BY <2>1, <3>5
    <2>5. CASE i \notin DOMAIN q.fields
      <3>1. P[i].chars = P[i - 1].chars
        BY <2>1, <2>5, ZenonT(60) DEF ByFields
      <3>2. Begins(i - 1)
        BY <2>3, <3>1, Zenon
      <3> HIDE DEF Begins
      <3> QED BY <2>1, <3>2
    <2> QED BY <2>4, <2>5
  <1>4. \A k \in 0 .. 126 : k \in T
    <2> HIDE DEF T
    <2>1. 126 \in Nat /\ \A k \in 1 .. 126 : k - 1 \in T => k \in T
      BY <1>3
    <2> QED BY <1>2, <2>1, Steps, ZenonT(60)
  <1>5. ASSUME NEW i \in 1 .. 127 PROVE Begins(i)
    <2>1. 127 - i \in 0 .. 126 /\ 127 - (127 - i) = i
      OBVIOUS
    <2> HIDE DEF Begins
    <2> QED BY <1>4, <2>1
  <1> QED BY <1>5, Zenon

\* What the reader has of a message after the fields up to i.
Partly(q, i) ==
    [type |-> q.type, header |-> q.header,
     fields |-> [id \in DOMAIN q.fields \cap 2 .. i |-> Filled(q, id)]]

LEMMA OneMore ==
    ASSUME NEW i \in 2 .. 127
    PROVE  2 .. i = (2 .. i - 1) \cup {i} /\ i \notin 2 .. i - 1
  OBVIOUS

\* A field more.
LEMMA SetMore ==
    ASSUME NEW q \in GoodIcomms, NEW i \in 2 .. 127, i \in DOMAIN q.fields,
           NEW V, V[i] # <<>>
    PROVE  Set([type |-> q.type, header |-> q.header,
                fields |-> [id \in DOMAIN q.fields \cap 2 .. i - 1 |-> V[id]]], i, V[i])
              = [type |-> q.type, header |-> q.header,
                 fields |-> [id \in DOMAIN q.fields \cap 2 .. i |-> V[id]]]
  <1>2. 2 .. i = (2 .. i - 1) \cup {i} /\ i \notin 2 .. i - 1
    BY OneMore
  <1> DEFINE D == DOMAIN q.fields \cap 2 .. i - 1
             E == DOMAIN q.fields \cap 2 .. i
             f == [id \in D |-> V[id]]
             g == [id \in E |-> V[id]]
             more == IF i > 64 THEN {1, i} ELSE {i}
             h == [x \in D \cup {i} |-> IF x = i THEN V[i] ELSE f[x]]
  <1>1. i \in 1 .. 127
    OBVIOUS
  <1>3. E = D \cup {i} /\ i \notin D
    BY <1>2
  <1>4. q.header \cup more = q.header
    <2>1. i \in q.header /\ (i > 64 => 1 \in q.header)
      BY GoodIcomm
    <2> QED BY <2>1
  <1>5. g = h
    <2>1. \A x \in D \cup {i} :
             V[x] = IF x = i THEN V[i] ELSE f[x]
      BY <1>3
    <2> HIDE DEF D, E, f
    <2> QED BY <1>3, <2>1
  <1> DEFINE p == [type |-> q.type, header |-> q.header, fields |-> f]
  <1>6. /\ p.type = q.type /\ p.header = q.header /\ p.fields = f
        /\ DOMAIN f = D
    OBVIOUS
  <1> HIDE DEF p, D, f
  <1>7. Set(p, i, V[i])
           = [type |-> q.type, header |-> q.header \cup more, fields |-> h]
    <2> HIDE DEF more
    <2>1. Set(p, i, V[i])
             = [type |-> p.type, header |-> p.header \cup more,
                fields |-> [x \in DOMAIN p.fields \cup {i} |->
                               IF x = i THEN V[i] ELSE p.fields[x]]]
      BY <1>1, Zenon DEF Set, more
    <2> QED BY <1>6, <2>1
  <1> HIDE DEF more, h, g
  <1>8. Set(p, i, V[i]) = [type |-> q.type, header |-> q.header, fields |-> g]
    BY <1>4, <1>5, <1>7
  <1> QED BY <1>8 DEF p, f, D, g, E

LEMMA SetRead ==
    ASSUME NEW q \in GoodIcomms, Fits(q), NEW i \in 2 .. 127, i \in DOMAIN q.fields
    PROVE  Set(Partly(q, i - 1), i, Filled(q, i)) = Partly(q, i)
  <1> DEFINE V == [id \in 1 .. 127 |-> Filled(q, id)]
             With(n) == [id \in DOMAIN q.fields \cap 2 .. n |-> V[id]]
  <1>1. V[i] = Filled(q, i) /\ Filled(q, i) # <<>>
    <2>1. i \in 1 .. 127
      OBVIOUS
    <2> QED BY <2>1, FilledFacts
  <1>2. ASSUME NEW n \in 1 .. 127
        PROVE  Partly(q, n) = [type |-> q.type, header |-> q.header, fields |-> With(n)]
    <2>1. \A id \in DOMAIN q.fields \cap 2 .. n : V[id] = Filled(q, id)
      <3>1. \A id \in 2 .. n : id \in 1 .. 127
        OBVIOUS
      <3> QED BY <3>1
    <2> HIDE DEF V
    <2>2. With(n) = [id \in DOMAIN q.fields \cap 2 .. n |-> Filled(q, id)]
      BY <2>1
    <2> QED BY <2>2 DEF Partly
  <1> HIDE DEF V
  <1>3. V[i] # <<>>
    BY <1>1
  <1>4. Set([type |-> q.type, header |-> q.header, fields |-> With(i - 1)], i, V[i])
           = [type |-> q.type, header |-> q.header, fields |-> With(i)]
    BY <1>3, SetMore, Zenon
  <1>5. i \in 1 .. 127 /\ i - 1 \in 1 .. 127
    OBVIOUS
  <1> QED BY <1>1, <1>2, <1>4, <1>5, Zenon

\* The reader takes from a string the field that was printed there.
LEMMA FieldRead ==
    ASSUME NEW q \in GoodIcomms, Fits(q), NEW i \in 2 .. 127, i \in DOMAIN q.fields,
           NEW b \in Seq(Characters), NEW rest \in Seq(Characters),
           NEW s, s = (b \o Piece(q, i)) \o rest
    PROVE  FieldOfString(s, [pos |-> Len(b) + 1, c |-> Partly(q, i - 1)], i)
              = [pos |-> Len(b \o Piece(q, i)) + 1, c |-> Partly(q, i)]
  <1> DEFINE p == Piece(q, i)  v == q.fields[i]
             r == [pos |-> Len(b) + 1, c |-> Partly(q, i - 1)]
  <1>1. p \in Seq(Characters) /\ v \in Seq(Characters) /\ i \in 1 .. 127
    BY PieceFacts, ValueFacts
  <1>2. r.pos = Len(b) + 1 /\ r.c = Partly(q, i - 1)
    OBVIOUS
  <1> HIDE DEF p, r
  <1>3. CASE Def[i].kind = "fixed"
    <2>1. p = Filled(q, i) /\ Len(p) = FixedSize /\ Def[i].size = FixedSize
      BY <1>1, <1>3, FilledFacts, DefFacts DEF Piece, p
    <2>2. /\ SubSeq(s, Len(b) + 1, Len(b) + Len(p)) = p
          /\ Len(b \o p) = Len(b) + Len(p) /\ Len(b) \in Nat /\ Len(p) \in Nat
      BY <1>1, Middle DEF p
    <2>3. FieldOfString(s, r, i)
             = [pos |-> r.pos + FixedSize,
                c |-> Set(r.c, i, SubSeq(s, r.pos, r.pos + FixedSize - 1))]
      BY <1>3, <2>1, Zenon DEF FieldOfString
    <2>4. /\ r.pos + FixedSize = Len(b \o p) + 1
          /\ r.pos + FixedSize - 1 = Len(b) + Len(p)
      BY <1>2, <2>1, <2>2, SMTT(30)
    <2>5. SubSeq(s, r.pos, r.pos + FixedSize - 1) = Filled(q, i)
      BY <1>2, <2>1, <2>2, <2>4
    <2>6. FieldOfString(s, r, i)
             = [pos |-> Len(b \o p) + 1,
                c |-> Set(Partly(q, i - 1), i, Filled(q, i))]
      BY <1>2, <2>3, <2>4, <2>5
    <2> QED BY <2>6, SetRead DEF p, r
  <1>4. CASE Def[i].kind # "fixed"
    <2> DEFINE l == Len(v)  n == Num(l)
               d == b \o <<n>>
    <2>1. /\ l \in Nat /\ n \in Characters /\ <<n>> \in Seq(Characters)
          /\ Len(<<n>>) = 1 /\ <<n>>[1] = n /\ 1 \in 1 .. 1
      <3>1. l \in Nat
        BY ValueFacts
      <3> HIDE DEF l
      <3>2. n \in Characters
        BY <3>1 DEF Characters
      <3> HIDE DEF n
      <3> QED BY <3>1, <3>2
    <2>2. p = <<n>> \o v /\ Filled(q, i) = v
      BY <1>4, FilledFacts DEF Piece, p
    <2>3. Atoi(n) = l
      BY DEF Atoi, Num
    <2> HIDE DEF v, n, l
    <2>4. d \in Seq(Characters) /\ Len(d) = Len(b) + 1 /\ Len(b) \in Nat
          /\ v \o rest \in Seq(Characters)
      BY <1>1, <2>1, ConcatProperties
    <2>5. b \o p = d \o v
      BY <1>1, <2>1, <2>2, ConcatAssociative, SMTT(30)
    <2>6. s = (d \o v) \o rest
      BY <2>5 DEF p
    <2>7. s = d \o (v \o rest)
      <3> HIDE DEF d
      <3>1. (d \o v) \o rest = d \o (v \o rest)
        <4>1. v \in Seq(Characters) /\ d \in Seq(Characters)
          BY <1>1, <2>4 DEF v
        <4> QED BY <4>1, Regrouped, ZenonT(60)
      <3> QED BY <2>6, <3>1
    <2>8. s[Len(b) + 1] = n
      <3> DEFINE a == v \o rest
      <3>1. a \in Seq(Characters) /\ s = (b \o <<n>>) \o a
        BY <2>4, <2>7
      <3> HIDE DEF a
      <3>2. \A k \in 1 .. Len(<<n>>) : ((b \o <<n>>) \o a)[Len(b) + k] = <<n>>[k]
        BY <2>1, <3>1, Middle
      <3> QED BY <2>1, <3>1, <3>2
    <2> HIDE DEF d
    <2>9. /\ SubSeq(s, Len(d) + 1, Len(d) + Len(v)) = v
          /\ Len(d \o v) = Len(d) + Len(v)
      <3>1. v \in Seq(Characters) /\ d \in Seq(Characters)
        BY <1>1, <2>4 DEF v
      <3> QED BY <2>6, <3>1, Middle
    <2>10. FieldOfString(s, r, i)
              = [pos |-> r.pos + 1 + Atoi(s[r.pos]),
                 c |-> Set(r.c, i, SubSeq(s, r.pos + 1,
                                          r.pos + 1 + Atoi(s[r.pos]) - 1))]
      BY <1>4, Zenon DEF FieldOfString
    <2>11. Atoi(s[r.pos]) = l /\ l = Len(v)
      BY <1>2, <2>3, <2>8 DEF l
    <2>12. /\ r.pos + 1 = Len(d) + 1 /\ r.pos + 1 + l - 1 = Len(d) + Len(v)
           /\ r.pos + 1 + l = Len(b \o p) + 1
      BY <1>2, <2>1, <2>4, <2>5, <2>9, <2>11
    <2>13. FieldOfString(s, r, i)
             = [pos |-> Len(b \o p) + 1,
                c |-> Set(Partly(q, i - 1), i, Filled(q, i))]
      BY <1>2, <2>2, <2>9, <2>10, <2>11, <2>12
    <2> QED BY <2>13, SetRead DEF p, r
  <1> QED BY <1>3, <1>4

\* The bitmaps, read from what is printed.
LEMMA StartRead ==
    ASSUME NEW q \in GoodIcomms, Fits(q), NEW P \in [1 .. 127 -> Printers],
           ByFields(q, P)
    PROVE  StringStart(Printed(q)) = [pos |-> Len(P[1].chars) + 1, c |-> Partly(q, 1)]
  <1> DEFINE s == Printed(q)  b == P[1].chars
             low == q.header \cap 1 .. 64  high == q.header \cap 65 .. 127
             two == 1 \in q.header
  <1>1. /\ b \in Seq(Characters)
        /\ b = IF two THEN <<Num(q.type), Bits(low), Bits(high)>>
               ELSE <<Num(q.type), Bits(low)>>
    BY BitmapsFacts, ZenonT(30) DEF ByFields, Printers
  <1>2. PICK rest \in Seq(Characters) : s = b \o rest
    <2>1. 1 \in 1 .. 127
      OBVIOUS
    <2> QED BY <2>1, PrintedBegins, Zenon
  <1>3. /\ q.header \subseteq 1 .. 127
        /\ \A id \in q.header : id > 64 => two
    BY GoodIcomm
  <1>4. /\ two <=> 1 \in low
        /\ low \cup (IF two THEN high ELSE {}) = q.header
    <2>1. \A id \in q.header : /\ id \in 1 .. 64 \/ id \in 65 .. 127
                               /\ id \in 65 .. 127 => two
      <3> SUFFICES ASSUME NEW id \in q.header
                   PROVE  /\ id \in 1 .. 64 \/ id \in 65 .. 127
                          /\ id \in 65 .. 127 => two
        OBVIOUS
      <3>1. id \in 1 .. 127 /\ (id > 64 => two)
        BY <1>3
      <3>2. id \in 65 .. 127 => id > 64
        OBVIOUS
      <3> HIDE DEF two
      <3> QED BY <3>1, <3>2
    <2>2. 1 \in 1 .. 64
      OBVIOUS
    <2>3. CASE two
      BY <2>1, <2>2, <2>3
    <2>4. CASE ~ two
      BY <2>1, <2>2, <2>4
    <2> QED BY <2>3, <2>4
  <1>5. Len(b) = IF two THEN 3 ELSE 2
    BY <1>1
  <1>6. /\ b[1] = Num(q.type) /\ b[2] = Bits(low)
        /\ two => b[3] = Bits(high)
    BY <1>1
  <1>7. \A k \in 1 .. Len(b) : s[k] = b[k]
    <2> HIDE DEF b, s
    <2>1. Len(b) \in Nat /\ Len(rest) \in Nat
      BY <1>1
    <2>2. \A k \in 1 .. Len(b) + Len(rest) :
             (b \o rest)[k] = IF k <= Len(b) THEN b[k] ELSE rest[k - Len(b)]
      <3>1. b \in Seq(Characters)
        BY <1>1
      <3> QED BY <3>1, ConcatProperties
    <2> QED BY <1>2, <2>1, <2>2
  <1>8. s[1] = Num(q.type) /\ s[2] = Bits(low) /\ (two => s[3] = Bits(high))
    <2> HIDE DEF s, b, two, low, high
    <2>1. 1 \in 1 .. Len(b) /\ 2 \in 1 .. Len(b) /\ (two => 3 \in 1 .. Len(b))
      BY <1>5
    <2> QED BY <1>6, <1>7, <2>1
  <1> HIDE DEF s, b
  <1>9. Atoi(s[1]) = q.type /\ s[2][2] = low /\ (two => s[3][2] = high)
    <2>1. /\ Num(q.type)[1] = "number" /\ Num(q.type)[2] = q.type
          /\ Bits(low)[2] = low /\ Bits(high)[2] = high
      BY DEF Num, Bits
    <2> HIDE DEF low, high, two
    <2>2. Atoi(s[1]) = q.type
      BY <1>8, <2>1 DEF Atoi
    <2> QED BY <1>8, <2>1, <2>2
  <1>10. StringStart(s)
            = [pos |-> IF two THEN 4 ELSE 3,
               c |-> [NewIcomm(q.type) EXCEPT
                         !.header = low \cup IF two THEN high ELSE {}]]
    <2> HIDE DEF low, high
    <2>1. (IF 1 \in low THEN s[3][2] ELSE {}) = (IF two THEN high ELSE {})
      BY <1>4, <1>9
    <2>2. (IF 1 \in low THEN 4 ELSE 3) = (IF two THEN 4 ELSE 3)
      BY <1>4
    <2> QED BY <1>9, <2>1, <2>2 DEF StringStart
  <1>11. [NewIcomm(q.type) EXCEPT !.header = q.header] = Partly(q, 1)
    <2>1. DOMAIN q.fields \cap 2 .. 1 = {}
      OBVIOUS
    <2>2. [id \in {} |-> Filled(q, id)] = <<>>
      OBVIOUS
    <2>3. Partly(q, 1) = [type |-> q.type, header |-> q.header, fields |-> <<>>]
      BY <2>1, <2>2 DEF Partly
    <2>4. [NewIcomm(q.type) EXCEPT !.header = q.header]
             = [type |-> q.type, header |-> q.header, fields |-> <<>>]
      <3> DEFINE x == NewIcomm(q.type)
      <3>1. x \in GoodIcomms
        BY GoodIcomm, NewIsGood
      <3>2. x.type = q.type /\ x.fields = <<>>
        BY DEF NewIcomm
      <3> HIDE DEF x
      <3>3. [x EXCEPT !.header = q.header]
               = [type |-> x.type, header |-> q.header, fields |-> x.fields]
        <4>1. x \in [type : Nat, header : SUBSET (1 .. 127), fields : FieldMaps]
          BY <3>1 DEF GoodIcomms
        <4> DEFINE h == q.header
        <4> HIDE DEF h
        <4>2. [x EXCEPT !.header = h]
                 = [type |-> x.type, header |-> h, fields |-> x.fields]
          <5> DEFINE y == [x EXCEPT !.header = h]
          <5>1. /\ y \in [type : Nat, header : {h}, fields : FieldMaps]
                /\ y.type = x.type /\ y.fields = x.fields /\ y.header = h
            BY <4>1
          <5> HIDE DEF y
          <5>2. y = [type |-> y.type, header |-> y.header, fields |-> y.fields]
            BY <5>1
          <5> QED BY <5>1, <5>2 DEF y
        <4> QED BY <4>2 DEF h
      <3> QED BY <3>2, <3>3 DEF x
    <2> QED BY <2>3, <2>4
  <1>12. Len(b) + 1 = IF two THEN 4 ELSE 3
    BY <1>5
  <1> HIDE DEF low, high, two
  <1>13. StringStart(s) = [pos |-> Len(b) + 1, c |-> Partly(q, 1)]
    BY <1>4, <1>10, <1>11, <1>12
  <1> QED BY <1>13 DEF s, b

\* The reader of strings makes of what is printed the message that was printed,
\* its fields filled up.
LEMMA ReadBack ==
    ASSUME NEW q \in GoodIcomms, Fits(q)
    PROVE  ReadString(Printed(q)) = AsRead(q)
  <1> DEFINE s == Printed(q)
             start == StringStart(s)
             Eq(f) == f = [id \in 1 .. 126 |->
                              IF id = 1 THEN start
                              ELSE IF id \in start.c.header
                              THEN FieldOfString(s, f[id - 1], id)
                              ELSE f[id - 1]]
  <1>1. PICK P \in [1 .. 127 -> Printers] : ByFields(q, P)
    BY PrintedByFields
  <1> DEFINE R(i) == [pos |-> Len(P[i].chars) + 1, c |-> Partly(q, i)]
  <1>2. start = R(1) /\ start.c.header = q.header
    <2>1. start = R(1)
      BY <1>1, StartRead
    <2> QED BY <2>1 DEF Partly
  <1>3. ASSUME NEW i \in 2 .. 126
        PROVE  R(i) = IF i \in q.header THEN FieldOfString(s, R(i - 1), i)
                      ELSE R(i - 1)
    <2>1. i \in 2 .. 127 /\ i \in 1 .. 127 /\ i - 1 \in 1 .. 127
      OBVIOUS
    <2>2. i \in q.header <=> i \in DOMAIN q.fields
      BY GoodIcomm
    <2>3. P[i].chars = IF i \in DOMAIN q.fields
                       THEN P[i - 1].chars \o Piece(q, i) ELSE P[i - 1].chars
      BY <1>1, <2>1, ZenonT(60) DEF ByFields
    <2>4. P[i - 1].chars \in Seq(Characters)
      BY <2>1, ZenonT(60) DEF Printers
    <2>5. PICK rest \in Seq(Characters) : s = P[i].chars \o rest
      BY <1>1, <2>1, PrintedBegins, Zenon
    <2> HIDE DEF s
    <2>6. CASE i \in DOMAIN q.fields
      <3> DEFINE b == P[i - 1].chars
      <3>1. b \in Seq(Characters) /\ s = (b \o Piece(q, i)) \o rest
            /\ P[i].chars = b \o Piece(q, i)
        BY <2>3, <2>4, <2>5, <2>6, ZenonT(60)
      <3> HIDE DEF b
      <3>2. FieldOfString(s, [pos |-> Len(b) + 1, c |-> Partly(q, i - 1)], i)
               = [pos |-> Len(b \o Piece(q, i)) + 1, c |-> Partly(q, i)]
        BY <2>1, <2>6, <3>1, FieldRead, Zenon
      <3> QED BY <2>2, <2>6, <3>1, <3>2, ZenonT(60) DEF b
    <2>7. CASE i \notin DOMAIN q.fields
      <3>1. DOMAIN q.fields \cap 2 .. i = DOMAIN q.fields \cap 2 .. i - 1
        <4>1. \A j \in 2 .. i : j = i \/ j \in 2 .. i - 1
          OBVIOUS
        <4>2. 2 .. i - 1 \subseteq 2 .. i
          OBVIOUS
        <4> QED BY <2>7, <4>1, <4>2
      <3>2. Partly(q, i) = Partly(q, i - 1)
        BY <3>1 DEF Partly
      <3> QED BY <2>2, <2>3, <2>7, <3>2
    <2> QED BY <2>6, <2>7
  <1> HIDE DEF start, R, s
  <1> DEFINE g == [i \in 1 .. 126 |-> R(i)]
  <1>4. Eq(g)
    <2>1. ASSUME NEW i \in 1 .. 126
          PROVE  R(i) = IF i = 1 THEN start
                        ELSE IF i \in start.c.header
                        THEN FieldOfString(s, g[i - 1], i) ELSE g[i - 1]
      <3>1. CASE i = 1
        BY <1>2, <3>1
      <3>2. CASE i # 1
        <4>1. i \in 2 .. 126 /\ i - 1 \in 1 .. 126
          BY <3>2
        <4>2. g[i - 1] = R(i - 1)
          BY <4>1
        <4> HIDE DEF g
        <4> QED BY <1>2, <1>3, <3>2, <4>1, <4>2
      <3> QED BY <3>1, <3>2
    <2> DEFINE h == [i \in 1 .. 126 |-> IF i = 1 THEN start
                        ELSE IF i \in start.c.header
                        THEN FieldOfString(s, g[i - 1], i) ELSE g[i - 1]]
    <2>2. \A i \in 1 .. 126 : g[i] = h[i]
      <3> SUFFICES ASSUME NEW i \in 1 .. 126 PROVE g[i] = h[i]
        OBVIOUS
      <3>1. g[i] = R(i)
        OBVIOUS
      <3> HIDE DEF g
      <3> QED BY <2>1, <3>1, SMTT(30)
    <2>3. g = h
      <3>1. g = [i \in 1 .. 126 |-> g[i]] /\ h = [i \in 1 .. 126 |-> h[i]]
        OBVIOUS
      <3> HIDE DEF g, h
      <3> QED BY <2>2, <3>1
    <2> QED BY <2>3, Zenon
  <1>5. ReadString(s) = (CHOOSE f : Eq(f))[126].c
    BY Zenon DEF ReadString, start
  <1> HIDE DEF Eq, g
  <1>6. PICK f : Eq(f) /\ ReadString(s) = f[126].c
    BY <1>4, <1>5
  <1>7. /\ f[1] = start
        /\ \A i \in 2 .. 126 : f[i] = IF i \in start.c.header
                                      THEN FieldOfString(s, f[i - 1], i)
                                      ELSE f[i - 1]
    <2>1. f = [id \in 1 .. 126 |-> IF id = 1 THEN start
                                   ELSE IF id \in start.c.header
                                   THEN FieldOfString(s, f[id - 1], id)
                                   ELSE f[id - 1]]
      BY <1>6 DEF Eq
    <2>2. 1 \in 1 .. 126 /\ \A i \in 2 .. 126 : i \in 1 .. 126 /\ i # 1
      OBVIOUS
    <2> QED BY <2>1, <2>2
  <1>8. f[126] = R(126)
    <2> DEFINE T == {k \in 0 .. 125 : f[k + 1] = R(k + 1)}
    <2>1. 0 \in T
      BY <1>2, <1>7
    <2>2. ASSUME NEW k \in 1 .. 125, k - 1 \in T PROVE k \in T
      <3>1. (k - 1) + 1 = k /\ k + 1 \in 2 .. 126 /\ (k + 1) - 1 = k /\ k \in 0 .. 125
        OBVIOUS
      <3>2. f[k] = R(k)
        BY <2>2, <3>1
      <3>3. f[k + 1] = IF k + 1 \in q.header THEN FieldOfString(s, R(k), k + 1)
                       ELSE R(k)
        BY <1>2, <1>7, <3>1, <3>2
      <3>4. R(k + 1) = IF k + 1 \in q.header THEN FieldOfString(s, R(k), k + 1)
                       ELSE R(k)
        BY <1>3, <3>1
      <3> QED BY <3>1, <3>3, <3>4
    <2> HIDE DEF T
    <2>3. \A k \in 1 .. 125 : k - 1 \in T => k \in T
      BY <2>2
    <2>4. 125 \in Nat
      OBVIOUS
    <2>6. 125 \in 0 .. 125 /\ 125 + 1 = 126
      OBVIOUS
    <2>5. \A k \in 0 .. 125 : k \in T
      BY <2>1, <2>3, <2>4, Steps, ZenonT(60)
    <2> QED BY <2>5, <2>6 DEF T
  <1>9. R(126).c = Partly(q, 126)
    BY DEF R
  <1>10. AsRead(q) = Partly(q, 126)
    <2> DEFINE F == [id \in DOMAIN q.fields \cap 2 .. 126 |-> Filled(q, id)]
    <2>1. AsRead(q) = [q EXCEPT !.fields = F]
      BY DEF AsRead
    <2> HIDE DEF F
    <2>2. [q EXCEPT !.fields = F]
             = [type |-> q.type, header |-> q.header, fields |-> F]
      BY DEF GoodIcomms
    <2> QED BY <2>1, <2>2 DEF Partly, F
  <1> QED BY <1>6, <1>8, <1>9, <1>10 DEF s

-----------------------------------------------------------------------------
(* What is sent.                                                             *)

ComposedOnly ==
    codec = "icomm" => sent \in Seq({Composed(m) : m \in Messages})

LEMMA ComposedInit == FramingInit => ComposedOnly
  BY DEF FramingInit, ComposedOnly

\* Nothing but Compose sends a message, and the codec stays.
LEMMA OnlyComposeSends ==
    ASSUME [FramingNext]_framingVars
    PROVE  codec' = codec /\ (sent' = sent \/ Compose)
  <1>1. CASE UNCHANGED framingVars
    BY <1>1 DEF framingVars
  <1>2. CASE Writer
    <2>1. CASE Compose
      BY <2>1 DEF Compose
    <2>2. CASE Write
      BY <2>2 DEF Write
    <2>3. CASE WriteFails
      BY <2>3 DEF WriteFails
    <2> QED BY <1>2, <2>1, <2>2, <2>3 DEF Writer
  <1>3. CASE Connection
    <2>1. CASE OpenClient
      BY <2>1 DEF OpenClient, writerVars
    <2>2. CASE StartUpSSL
      BY <2>2 DEF StartUpSSL, writerVars
    <2>3. CASE DoClose
      BY <2>3 DEF DoClose, writerVars
    <2> QED BY <1>3, <2>1, <2>2, <2>3 DEF Connection
  <1>4. CASE Reader
    <2>1. CASE ReadFirst
      BY <2>1 DEF ReadFirst, DoRead, writerVars
    <2>2. CASE ReadType
      BY <2>2 DEF ReadType, DoRead, writerVars
    <2>3. CASE ReadBitmap
      BY <2>3 DEF ReadBitmap, DoRead, writerVars
    <2>4. CASE ReadLength
      BY <2>4 DEF ReadLength, DoRead, writerVars
    <2>5. CASE ReadValue
      BY <2>5 DEF ReadValue, DoRead, writerVars
    <2>6. CASE ReadEtx
      BY <2>6 DEF ReadEtx, DoRead, writerVars
    <2>7. CASE ReadLrc
      BY <2>7 DEF ReadLrc, DoRead, writerVars
    <2>8. CASE ReadPacket
      BY <2>8 DEF ReadPacket, DoRead, writerVars
    <2>9. CASE ReadPacketLrc
      BY <2>9 DEF ReadPacketLrc, DoRead, writerVars
    <2>10. CASE ReadLen
      BY <2>10 DEF ReadLen, DoRead, writerVars
    <2>11. CASE ReadJunk
      BY <2>11 DEF ReadJunk, DoRead, writerVars
    <2>12. CASE ReadData
      BY <2>12 DEF ReadData, DoRead, writerVars
    <2>13. CASE ReadEnd
      BY <2>13 DEF ReadEnd, DoRead, writerVars
    <2>14. CASE ReadLine
      BY <2>14 DEF ReadLine, DoRead, writerVars
    <2>15. CASE ReadDummy
      BY <2>15 DEF ReadDummy, DoRead, writerVars
    <2> QED BY <1>4, <2>1, <2>2, <2>3, <2>4, <2>5, <2>6, <2>7, <2>8, <2>9,
               <2>10, <2>11, <2>12, <2>13, <2>14, <2>15 DEF Reader
  <1>5. CASE Damage
    BY <1>5 DEF Damage, writerVars
  <1> QED BY <1>1, <1>2, <1>3, <1>4, <1>5 DEF FramingNext

LEMMA ComposedStep ==
    ASSUME ComposedOnly, [FramingNext]_framingVars
    PROVE  ComposedOnly'
  <1> SUFFICES ASSUME codec' = "icomm"
               PROVE  sent' \in Seq({Composed(m) : m \in Messages})
    BY DEF ComposedOnly
  <1> DEFINE C == {Composed(m) : m \in Messages}
  <1>1. codec = "icomm" /\ sent \in Seq(C) /\ (sent' = sent \/ Compose)
    BY OnlyComposeSends DEF ComposedOnly
  <1>2. CASE Compose
    <2>1. PICK o \in Offers : sent' = Append(sent, o.what)
      BY <1>2 DEF Compose
    <2>2. o.what \in C
      BY <1>1, <2>1 DEF Offers
    <2>3. Append(sent, o.what) \in Seq(C)
      <3> HIDE DEF C
      <3> QED BY <1>1, <2>2
    <2> QED BY <2>1, <2>3
  <1> QED BY <1>1, <1>2

\* Whatever messages the program composes, and however it goes about it: what is
\* printed of one whose values fit, Icomm::read of a string makes that message
\* of, its fields filled up; after any calls of set and add, with one bitmap or
\* two (Icomm::print, printField, read, readField).
THEOREM PrintsReadBack == FramingSpec => []PrintedReadsBack
  <1>1. FramingInit => ComposedOnly
    BY ComposedInit
  <1>2. ComposedOnly /\ [FramingNext]_framingVars => ComposedOnly'
    BY ComposedStep
  <1>3. ComposedOnly => PrintedReadsBack
    <2> SUFFICES ASSUME ComposedOnly, codec = "icomm", NEW k \in DOMAIN sent,
                        Fits(sent[k])
                 PROVE  ReadString(Printed(sent[k])) = AsRead(sent[k])
      BY DEF PrintedReadsBack
    <2>1. PICK m \in Messages : sent[k] = Composed(m)
      <3> DEFINE C == {Composed(m) : m \in Messages}
      <3>1. sent[k] \in C
        <4> HIDE DEF C
        <4>1. sent \in Seq(C)
          BY DEF ComposedOnly, C
        <4> QED BY <4>1
      <3> QED BY <3>1
    <2>2. sent[k] \in GoodIcomms
      BY <2>1, ComposedIsGood
    <2> QED BY <2>2, ReadBack
  <1> QED BY <1>1, <1>2, <1>3, PTL DEF FramingSpec

-----------------------------------------------------------------------------
(* Frames: what goes over the line for one message.                          *)

IsSequence(s) == Len(s) \in Nat /\ s = [i \in 1 .. Len(s) |-> s[i]]

LEMMA ThreeParts ==
    ASSUME NEW S, NEW x \in Seq(S), NEW y \in Seq(S), NEW z \in Seq(S)
    PROVE  /\ (x \o y) \o z \in Seq(S)
           /\ Len((x \o y) \o z) = Len(x) + Len(y) + Len(z)
           /\ \A i \in 1 .. Len(x) : ((x \o y) \o z)[i] = x[i]
           /\ \A i \in 1 .. Len(y) : ((x \o y) \o z)[Len(x) + i] = y[i]
           /\ \A i \in 1 .. Len(z) : ((x \o y) \o z)[Len(x) + Len(y) + i] = z[i]
  <1> DEFINE a == x \o y  w == a \o z
  <1>1. x \in Seq(S) /\ y \in Seq(S) /\ z \in Seq(S)
    OBVIOUS
  <1>2. Len(x) \in Nat /\ Len(y) \in Nat /\ Len(z) \in Nat
    OBVIOUS
  <1>3. /\ a \in Seq(S) /\ Len(a) = Len(x) + Len(y)
        /\ \A i \in 1 .. Len(x) + Len(y) :
              a[i] = IF i <= Len(x) THEN x[i] ELSE y[i - Len(x)]
    BY <1>1, ConcatProperties
  <1> HIDE DEF a
  <1>4. /\ w \in Seq(S) /\ Len(w) = Len(a) + Len(z)
        /\ \A i \in 1 .. Len(a) + Len(z) :
              w[i] = IF i <= Len(a) THEN a[i] ELSE z[i - Len(a)]
    <2>1. a \in Seq(S)
      BY <1>3
    <2> QED BY <1>1, <2>1, ConcatProperties
  <1> HIDE DEF w
  <1>5. ASSUME NEW i \in 1 .. Len(x) PROVE w[i] = x[i]
    <2>1. i \in 1 .. Len(x) + Len(y) /\ i \in 1 .. Len(a) + Len(z) /\ i <= Len(a)
      BY <1>2, <1>3
    <2> QED BY <1>3, <1>4, <2>1
  <1>6. ASSUME NEW i \in 1 .. Len(y) PROVE w[Len(x) + i] = y[i]
    <2>1. /\ Len(x) + i \in 1 .. Len(x) + Len(y)
          /\ Len(x) + i \in 1 .. Len(a) + Len(z)
          /\ Len(x) + i <= Len(a) /\ ~ Len(x) + i <= Len(x) /\ (Len(x) + i) - Len(x) = i
      BY <1>2, <1>3
    <2> QED BY <1>3, <1>4, <2>1
  <1>7. ASSUME NEW i \in 1 .. Len(z) PROVE w[Len(x) + Len(y) + i] = z[i]
    <2>1. /\ Len(x) + Len(y) + i \in 1 .. Len(a) + Len(z)
          /\ ~ Len(x) + Len(y) + i <= Len(a) /\ (Len(x) + Len(y) + i) - Len(a) = i
      BY <1>2, <1>3
    <2> QED BY <1>4, <2>1
  <1> QED BY <1>2, <1>3, <1>4, <1>5, <1>6, <1>7 DEF a, w

\* STX, a text, ETX and the LRC.
LEMMA LrcFrame ==
    ASSUME NEW S, NEW v \in Seq(S),
           NEW w, w = (<<STX>> \o v) \o <<ETX, Lrc(Append(v, ETX))>>
    PROVE  /\ Len(w) = Len(v) + 3 /\ Len(v) \in Nat /\ w = [i \in 1 .. Len(w) |-> w[i]]
           /\ w[1] = STX /\ \A i \in 1 .. Len(v) : w[1 + i] = v[i]
           /\ w[Len(v) + 2] = ETX /\ w[Len(v) + 3] = Lrc(Append(v, ETX))
  <1> DEFINE l == Lrc(Append(v, ETX))  x == <<STX>>  z == <<ETX, l>>
  <1>1. /\ x \in Seq({STX}) /\ Len(x) = 1 /\ x[1] = STX
        /\ z \in Seq({ETX, l}) /\ Len(z) = 2 /\ z[1] = ETX /\ z[2] = l
    <2> HIDE DEF l
    <2> QED OBVIOUS
  <1> HIDE DEF x, z, l
  <1>2. /\ w \in Seq({STX} \cup S \cup {ETX, l})
        /\ Len(w) = Len(x) + Len(v) + Len(z)
        /\ \A i \in 1 .. Len(x) : w[i] = x[i]
        /\ \A i \in 1 .. Len(v) : w[Len(x) + i] = v[i]
        /\ \A i \in 1 .. Len(z) : w[Len(x) + Len(v) + i] = z[i]
    <2>1. w = (x \o v) \o z
      BY DEF x, z, l
    <2> DEFINE u == (x \o v) \o z  T == {STX} \cup S \cup {ETX, l}
    <2>3. x \in Seq(T) /\ v \in Seq(T) /\ z \in Seq(T)
      BY <1>1, SeqMonotonic
    <2> HIDE DEF T
    <2>2. /\ u \in Seq(T)
          /\ Len(u) = Len(x) + Len(v) + Len(z)
          /\ \A i \in 1 .. Len(x) : u[i] = x[i]
          /\ \A i \in 1 .. Len(v) : u[Len(x) + i] = v[i]
          /\ \A i \in 1 .. Len(z) : u[Len(x) + Len(v) + i] = z[i]
      BY <2>3, ThreeParts
    <2> HIDE DEF u
    <2> QED BY <2>1, <2>2 DEF u, T
  <1>3. Len(v) \in Nat /\ 1 \in 1 .. 1 /\ 1 \in 1 .. 2 /\ 2 \in 1 .. 2
    OBVIOUS
  <1>4. w[1] = STX /\ w[1 + Len(v) + 1] = ETX /\ w[1 + Len(v) + 2] = l
    BY <1>1, <1>2, <1>3
  <1>5. 1 + Len(v) + 1 = Len(v) + 2 /\ 1 + Len(v) + 2 = Len(v) + 3
    BY <1>3
  <1>6. w = [i \in 1 .. Len(w) |-> w[i]]
    BY <1>2
  <1> QED BY <1>1, <1>2, <1>3, <1>4, <1>5, <1>6 DEF l

LEMMA LenFrame ==
    ASSUME NEW S, NEW v \in Seq(S), NEW junk,
           NEW w, w = WithLength(v, junk)
    PROVE  /\ Len(w) = Len(v) + 4 /\ Len(v) \in Nat /\ w = [i \in 1 .. Len(w) |-> w[i]]
           /\ w[1] = STX /\ w[2] = Num(Len(v)) /\ w[3] = junk
           /\ \A i \in 1 .. Len(v) : w[3 + i] = v[i]
           /\ w[Len(v) + 4] = ETX
  <1> DEFINE n == Num(Len(v))  x == <<STX, n, junk>>  z == <<ETX>>
  <1>1. /\ x \in Seq({STX, n, junk}) /\ Len(x) = 3 /\ x[1] = STX /\ x[2] = n
        /\ x[3] = junk /\ z \in Seq({ETX}) /\ Len(z) = 1 /\ z[1] = ETX
    <2> HIDE DEF n
    <2> QED OBVIOUS
  <1> HIDE DEF x, z, n
  <1>2. /\ w \in Seq({STX, n, junk} \cup S \cup {ETX})
        /\ Len(w) = Len(x) + Len(v) + Len(z)
        /\ \A i \in 1 .. Len(x) : w[i] = x[i]
        /\ \A i \in 1 .. Len(v) : w[Len(x) + i] = v[i]
        /\ \A i \in 1 .. Len(z) : w[Len(x) + Len(v) + i] = z[i]
    <2>1. w = (x \o v) \o z
      BY DEF x, z, n, WithLength
    <2> DEFINE u == (x \o v) \o z  T == {STX, n, junk} \cup S \cup {ETX}
    <2>3. x \in Seq(T) /\ v \in Seq(T) /\ z \in Seq(T)
      BY <1>1, SeqMonotonic
    <2> HIDE DEF T
    <2>2. /\ u \in Seq(T)
          /\ Len(u) = Len(x) + Len(v) + Len(z)
          /\ \A i \in 1 .. Len(x) : u[i] = x[i]
          /\ \A i \in 1 .. Len(v) : u[Len(x) + i] = v[i]
          /\ \A i \in 1 .. Len(z) : u[Len(x) + Len(v) + i] = z[i]
      BY <2>3, ThreeParts
    <2> HIDE DEF u
    <2> QED BY <2>1, <2>2 DEF u, T
  <1>3. Len(v) \in Nat /\ 1 \in 1 .. 1 /\ 1 \in 1 .. 3 /\ 2 \in 1 .. 3 /\ 3 \in 1 .. 3
    OBVIOUS
  <1>4. w[1] = STX /\ w[2] = n /\ w[3] = junk /\ w[3 + Len(v) + 1] = ETX
    BY <1>1, <1>2, <1>3
  <1>5. 3 + Len(v) + 1 = Len(v) + 4
    BY <1>3
  <1>6. w = [i \in 1 .. Len(w) |-> w[i]]
    BY <1>2
  <1> QED BY <1>1, <1>2, <1>3, <1>4, <1>5, <1>6 DEF n

LEMMA LineFrame ==
    ASSUME NEW S, NEW v \in Seq(S), NEW e \in LineEnds,
           NEW w, w = v \o e
    PROVE  /\ Len(v) \in Nat /\ IsSequence(w)
           /\ \A i \in 1 .. Len(v) : w[i] = v[i]
           /\ \/ Len(w) = Len(v) + 1 /\ w[Len(v) + 1] = LF
              \/ /\ Len(w) = Len(v) + 2
                 /\ w[Len(v) + 1] = CR /\ w[Len(v) + 2] = LF
  <1>1. /\ e \in Seq({CR, LF})
        /\ \/ Len(e) = 1 /\ e[1] = LF
           \/ Len(e) = 2 /\ e[1] = CR /\ e[2] = LF
    BY SMTT(30) DEF LineEnds
  <1>2. v \in Seq(S \cup {CR, LF}) /\ e \in Seq(S \cup {CR, LF})
    BY <1>1, SeqMonotonic
  <1> DEFINE T == S \cup {CR, LF}
  <1> HIDE DEF T
  <1>3. /\ w \in Seq(T) /\ Len(w) = Len(v) + Len(e)
        /\ \A i \in 1 .. Len(v) + Len(e) :
              w[i] = IF i <= Len(v) THEN v[i] ELSE e[i - Len(v)]
    BY <1>2, ConcatProperties DEF T
  <1>4. Len(v) \in Nat /\ Len(e) \in Nat
    BY <1>1
  <1>5. \A i \in 1 .. Len(v) : w[i] = v[i]
    BY <1>3, <1>4
  <1>6. \A i \in 1 .. Len(e) : w[Len(v) + i] = e[i]
    <2> SUFFICES ASSUME NEW i \in 1 .. Len(e) PROVE w[Len(v) + i] = e[i]
      OBVIOUS
    <2>1. Len(v) + i \in 1 .. Len(v) + Len(e) /\ ~ Len(v) + i <= Len(v)
          /\ (Len(v) + i) - Len(v) = i
      BY <1>4
    <2> QED BY <1>3, <2>1
  <1>7. w = [i \in 1 .. Len(w) |-> w[i]]
    BY <1>3, LenProperties
  <1>8. 1 \in 1 .. 1 /\ 1 \in 1 .. 2 /\ 2 \in 1 .. 2
    OBVIOUS
  <1>9. Len(w) = Len(v) + Len(e) /\ IsSequence(w)
    BY <1>3, <1>4, <1>7 DEF IsSequence
  <1>10. \/ Len(w) = Len(v) + 1 /\ w[Len(v) + 1] = LF
         \/ Len(w) = Len(v) + 2 /\ w[Len(v) + 1] = CR /\ w[Len(v) + 2] = LF
    BY <1>1, <1>3, <1>6, <1>8
  <1> QED BY <1>4, <1>5, <1>9, <1>10

-----------------------------------------------------------------------------
(* Messages without control characters among their letters.                  *)

\* A message that fits its fields and has none of the characters that its codec
\* gives a meaning: the writers escape nothing (Icomm::print, writePacket).
PlainFor(cd, v) ==
    CASE cd = "icomm" ->
           /\ Fits(v)
           /\ \A id \in DOMAIN v.fields : {STX, ETX} \cap Range(v.fields[id]) = {}
      [] cd \in {"packet", "len"} -> {STX, ETX} \cap Range(v) = {}
      [] cd = "line" -> {CR, LF} \cap Range(v) = {} /\ (v # <<>> => v[1] # ACK)

\* What is printed of the fields up to i.
Printing(q) == CHOOSE P \in [1 .. 127 -> Printers] : ByFields(q, P)
Prefix(q, i) == Printing(q)[i].chars

LEMMA PrefixFacts ==
    ASSUME NEW q \in GoodIcomms, Fits(q)
    PROVE  /\ \A i \in 1 .. 127 :
                 /\ Prefix(q, i) \in Seq(Characters)
                 /\ \E rest \in Seq(Characters) : Printed(q) = Prefix(q, i) \o rest
           /\ Prefix(q, 1) = PrinterStart(q).chars
           /\ Prefix(q, 127) = Printed(q)
           /\ \A i \in 2 .. 127 :
                 Prefix(q, i) = IF i \in DOMAIN q.fields
                                THEN Prefix(q, i - 1) \o Piece(q, i)
                                ELSE Prefix(q, i - 1)
  <1>1. Printing(q) \in [1 .. 127 -> Printers] /\ ByFields(q, Printing(q))
    BY PrintedByFields DEF Printing
  <1> DEFINE P == Printing(q)
  <1>2. P \in [1 .. 127 -> Printers] /\ ByFields(q, P)
    BY <1>1
  <1>3. \A i : Prefix(q, i) = P[i].chars
    BY DEF Prefix
  <1> HIDE DEF P
  <1>4. \A i \in 1 .. 127 : P[i].chars \in Seq(Characters)
    BY <1>2, Zenon DEF Printers
  <1>5. \A i \in 1 .. 127 : \E rest \in Seq(Characters) :
           Printed(q) = P[i].chars \o rest
    BY <1>2, PrintedBegins, ZenonT(30)
  <1>6. /\ P[1].chars = PrinterStart(q).chars
        /\ P[127].chars = Printed(q)
        /\ \A i \in 2 .. 127 :
              P[i].chars = IF i \in DOMAIN q.fields THEN P[i - 1].chars \o Piece(q, i)
                           ELSE P[i - 1].chars
    BY <1>2 DEF ByFields
  <1>7. ASSUME NEW i \in 1 .. 127
        PROVE  /\ Prefix(q, i) \in Seq(Characters)
               /\ \E rest \in Seq(Characters) : Printed(q) = Prefix(q, i) \o rest
    <2>1. Prefix(q, i) = P[i].chars
      BY <1>3
    <2>2. P[i].chars \in Seq(Characters)
      BY <1>4
    <2>3. \E rest \in Seq(Characters) : Printed(q) = P[i].chars \o rest
      BY <1>5
    <2> QED BY <2>1, <2>2, <2>3
  <1>8. Prefix(q, 1) = PrinterStart(q).chars /\ Prefix(q, 127) = Printed(q)
    BY <1>3, <1>6
  <1>9. ASSUME NEW i \in 2 .. 127
        PROVE  Prefix(q, i) = IF i \in DOMAIN q.fields
                              THEN Prefix(q, i - 1) \o Piece(q, i)
                              ELSE Prefix(q, i - 1)
    <2>1. Prefix(q, i) = P[i].chars /\ Prefix(q, i - 1) = P[i - 1].chars
      BY <1>3
    <2>2. P[i].chars = IF i \in DOMAIN q.fields THEN P[i - 1].chars \o Piece(q, i)
                       ELSE P[i - 1].chars
      BY <1>6
    <2> QED BY <2>1, <2>2, Zenon
  <1> QED BY <1>7, <1>8, <1>9, Zenon

LEMMA PrefixIn ==
    ASSUME NEW q \in GoodIcomms, Fits(q), NEW i \in 1 .. 127
    PROVE  /\ Prefix(q, i) \in Seq(Characters) /\ Printed(q) \in Seq(Characters)
           /\ Len(Prefix(q, i)) \in Nat /\ Len(Printed(q)) \in Nat
           /\ Len(Prefix(q, i)) <= Len(Printed(q))
           /\ \A k \in 1 .. Len(Prefix(q, i)) : Printed(q)[k] = Prefix(q, i)[k]
  <1> DEFINE b == Prefix(q, i)  s == Printed(q)
  <1>1. PICK rest \in Seq(Characters) : s = b \o rest
    BY PrefixFacts
  <1>2. b \in Seq(Characters)
    BY PrefixFacts
  <1> HIDE DEF b, s
  <1>3. /\ b \o rest \in Seq(Characters) /\ Len(b \o rest) = Len(b) + Len(rest)
        /\ \A k \in 1 .. Len(b) + Len(rest) :
              (b \o rest)[k] = IF k <= Len(b) THEN b[k] ELSE rest[k - Len(b)]
    BY <1>2, ConcatProperties
  <1>4. Len(b) \in Nat /\ Len(rest) \in Nat
    BY <1>2
  <1>5. \A k \in 1 .. Len(b) : k \in 1 .. Len(b) + Len(rest) /\ k <= Len(b)
    BY <1>4
  <1>6. s \in Seq(Characters) /\ Len(s) = Len(b) + Len(rest)
    BY <1>1, <1>3
  <1>7. \A k \in 1 .. Len(b) : s[k] = b[k]
    BY <1>1, <1>3, <1>5
  <1> QED BY <1>2, <1>4, <1>6, <1>7 DEF b, s

\* Where in what is printed the characters of a field stand.
LEMMA PieceIn ==
    ASSUME NEW q \in GoodIcomms, Fits(q), NEW i \in 2 .. 127, i \in DOMAIN q.fields
    PROVE  /\ Len(Prefix(q, i)) = Len(Prefix(q, i - 1)) + Len(Piece(q, i))
           /\ Len(Piece(q, i)) \in Nat
           /\ \A k \in 1 .. Len(Piece(q, i)) :
                 Printed(q)[Len(Prefix(q, i - 1)) + k] = Piece(q, i)[k]
  <1> DEFINE b == Prefix(q, i - 1)  p == Piece(q, i)  s == Printed(q)
  <1>1. /\ i \in 1 .. 127 /\ i - 1 \in 1 .. 127
        /\ p \in Seq(Characters) /\ b \in Seq(Characters) /\ Prefix(q, i) = b \o p
    <2>1. i \in 1 .. 127 /\ i - 1 \in 1 .. 127
      OBVIOUS
    <2>2. p \in Seq(Characters)
      BY PieceFacts, SMTT(30)
    <2>3. b \in Seq(Characters)
      BY <2>1, PrefixFacts
    <2>4. Prefix(q, i) = b \o p
      BY PrefixFacts, Zenon
    <2> QED BY <2>1, <2>2, <2>3, <2>4
  <1>2. PICK rest \in Seq(Characters) : s = (b \o p) \o rest
    BY <1>1, PrefixFacts
  <1> HIDE DEF b, p, s
  <1>3. /\ \A k \in 1 .. Len(p) : ((b \o p) \o rest)[Len(b) + k] = p[k]
        /\ Len(b \o p) = Len(b) + Len(p) /\ Len(b) \in Nat /\ Len(p) \in Nat
    BY <1>1, Middle
  <1> QED BY <1>1, <1>2, <1>3 DEF b, p, s

\* Between two fields that follow each other nothing is printed.
LEMMA NothingBetween ==
    ASSUME NEW q \in GoodIcomms, Fits(q), NEW i \in 1 .. 127, NEW j \in i .. 127,
           DOMAIN q.fields \cap (i + 1) .. j = {}
    PROVE  Prefix(q, j) = Prefix(q, i)
  <1> DEFINE n == j - i
             T == {k \in 0 .. n : Prefix(q, i + k) = Prefix(q, i)}
  <1>1. n \in Nat /\ i + n = j
    OBVIOUS
  <1> HIDE DEF n
  <1>2. 0 \in T
    <2>1. i + 0 = i /\ 0 \in 0 .. n
      BY <1>1
    <2> QED BY <2>1
  <1>3. ASSUME NEW k \in 1 .. n, k - 1 \in T PROVE k \in T
    <2>1. i + k \in 2 .. 127 /\ i + k \in (i + 1) .. j /\ (i + k) - 1 = i + (k - 1)
          /\ k \in 0 .. n
      BY <1>1
    <2>2. i + k \notin DOMAIN q.fields
      BY <2>1, SMTT(30)
    <2>3. Prefix(q, i + k) = Prefix(q, (i + k) - 1)
      BY <2>1, <2>2, PrefixFacts
    <2>4. Prefix(q, i + (k - 1)) = Prefix(q, i)
      BY <1>3
    <2> QED BY <2>1, <2>3, <2>4
  <1> HIDE DEF T
  <1>4. \A k \in 1 .. n : k - 1 \in T => k \in T
    BY <1>3
  <1>5. \A k \in 0 .. n : k \in T
    BY <1>1, <1>2, <1>4, Steps, ZenonT(60)
  <1>6. n \in T
    BY <1>1, <1>5
  <1> QED BY <1>1, <1>6 DEF T

\* The type and the bitmaps.
LEMMA StartIn ==
    ASSUME NEW q \in GoodIcomms, Fits(q)
    PROVE  /\ Len(Prefix(q, 1)) = IF 1 \in q.header THEN 3 ELSE 2
           /\ Printed(q)[1] = Num(q.type)
           /\ Printed(q)[2] = Bits(q.header \cap 1 .. 64)
           /\ 1 \in q.header => Printed(q)[3] = Bits(q.header \cap 65 .. 127)
           /\ Len(Printed(q)) >= 2 /\ (1 \in q.header => Len(Printed(q)) >= 3)
  <1> DEFINE b == Prefix(q, 1)  two == 1 \in q.header
             t == Num(q.type)  low == Bits(q.header \cap 1 .. 64)
             high == Bits(q.header \cap 65 .. 127)
  <1>1. 1 \in 1 .. 127
    OBVIOUS
  <1>2. b = IF two THEN <<t, low, high>> ELSE <<t, low>>
    BY PrefixFacts, BitmapsFacts
  <1>3. /\ Len(Printed(q)) \in Nat /\ Len(b) <= Len(Printed(q))
        /\ \A k \in 1 .. Len(b) : Printed(q)[k] = b[k]
    BY <1>1, PrefixIn
  <1> HIDE DEF t, low, high, two
  <1>4. /\ Len(b) = IF two THEN 3 ELSE 2
        /\ b[1] = t /\ b[2] = low /\ (two => b[3] = high)
    <2> HIDE DEF b
    <2> QED BY <1>2
  <1> HIDE DEF b
  <1>5. 1 \in 1 .. Len(b) /\ 2 \in 1 .. Len(b) /\ (two => 3 \in 1 .. Len(b))
    BY <1>4
  <1> QED BY <1>3, <1>4, <1>5 DEF b, t, low, high, two

NoControl(s) == \A k \in 1 .. Len(s) : s[k] \notin {STX, ETX}

LEMMA NoControlJoined ==
    ASSUME NEW a \in Seq(Characters), NEW b \in Seq(Characters),
           NoControl(a), NoControl(b)
    PROVE  NoControl(a \o b)
  <1>1. /\ Len(a \o b) = Len(a) + Len(b) /\ Len(a) \in Nat /\ Len(b) \in Nat
        /\ \A k \in 1 .. Len(a) + Len(b) :
              (a \o b)[k] = IF k <= Len(a) THEN a[k] ELSE b[k - Len(a)]
    BY ConcatProperties
  <1>2. ASSUME NEW k \in 1 .. Len(a) + Len(b)
        PROVE  (a \o b)[k] \notin {STX, ETX}
    <2>1. CASE k <= Len(a)
      <3>1. k \in 1 .. Len(a) /\ (a \o b)[k] = a[k]
        BY <1>1, <2>1
      <3> QED BY <3>1 DEF NoControl
    <2>2. CASE ~ k <= Len(a)
      <3>1. k - Len(a) \in 1 .. Len(b) /\ (a \o b)[k] = b[k - Len(a)]
        BY <1>1, <2>2
      <3> QED BY <3>1 DEF NoControl
    <2> QED BY <2>1, <2>2
  <1> QED BY <1>1, <1>2 DEF NoControl

LEMMA NoControlTokens ==
    /\ \A n : Num(n) \notin {STX, ETX, Quote}
    /\ \A S : Bits(S) \notin {STX, ETX, Quote}
    /\ Space \notin {STX, ETX} /\ Zero \notin {STX, ETX}
    /\ STX # ETX /\ STX # Quote /\ ETX # Quote /\ Space # Quote
  BY DEF Num, Bits, STX, ETX, Quote, Space, Zero, Chr

LEMMA NoControlFilled ==
    ASSUME NEW v \in Seq(Characters), NEW size \in Nat, Len(v) <= size,
           NEW ch \in {Space, Zero}, NoControl(v)
    PROVE  /\ NoControl(v \o Fill(v, size, ch))
           /\ NoControl(Fill(v, size, ch) \o v)
  <1> DEFINE f == Fill(v, size, ch)
  <1>1. f \in Seq(Characters)
    BY FillFacts
  <1>2. NoControl(f)
    <2> DEFINE n == size - Len(v)
    <2>1. n \in Nat
      OBVIOUS
    <2>2. f = [i \in 1 .. n |-> ch]
      BY DEF Fill
    <2> HIDE DEF f, n
    <2>3. Len(f) = n
      BY <2>1, <2>2
    <2> QED BY <2>2, <2>3, NoControlTokens DEF NoControl
  <1> HIDE DEF f
  <1> QED BY <1>1, <1>2, NoControlJoined DEF f

LEMMA NoControlPiece ==
    ASSUME NEW q \in GoodIcomms, PlainFor("icomm", q), NEW id \in DOMAIN q.fields
    PROVE  NoControl(Piece(q, id))
  <1> DEFINE v == q.fields[id]
  <1>1. /\ Fits(q) /\ {STX, ETX} \cap Range(v) = {}
    BY DEF PlainFor
  <1>2. /\ v \in Seq(Characters) /\ Len(v) \in Nat /\ id \in 1 .. 127
    BY ValueFacts
  <1>3. NoControl(v)
    <2> HIDE DEF v
    <2>1. \A k \in 1 .. Len(v) : v[k] \in Range(v)
      BY <1>2 DEF Range
    <2> QED BY <1>1, <2>1 DEF NoControl
  <1>4. IF Def[id].kind = "fixed" THEN Len(v) <= Def[id].size ELSE Len(v) < Base
    BY <1>1 DEF Fits
  <1>5. /\ FilledWith(q, id) \in {Space, Zero} /\ Zero \in {Space, Zero}
        /\ FixedSize \in Nat /\ Def[id].alpha \in BOOLEAN
        /\ Def[id].kind = "fixed" => Def[id].size = FixedSize
    BY <1>2, DefFacts, FilledWithFacts
  <1>6. CASE Def[id].kind # "fixed"
    <2> DEFINE n == Num(Len(v))
    <2>1. n \in Characters
      BY <1>2 DEF Characters
    <2>2. n \notin {STX, ETX}
      BY NoControlTokens
    <2>3. Piece(q, id) = <<n>> \o v
      BY <1>6 DEF Piece
    <2> HIDE DEF n, v
    <2>4. <<n>> \in Seq(Characters) /\ NoControl(<<n>>)
      BY <2>1, <2>2 DEF NoControl
    <2> QED BY <1>2, <1>3, <2>3, <2>4, NoControlJoined
  <1>7. CASE Def[id].kind = "fixed"
    <2>1. Piece(q, id) = IF Def[id].alpha
                         THEN v \o Fill(v, FixedSize, FilledWith(q, id))
                         ELSE Fill(v, FixedSize, Zero) \o v
      BY <1>5, <1>7, ZenonT(60) DEF Piece, Filled
    <2> HIDE DEF v
    <2>2. Len(v) <= FixedSize
      BY <1>4, <1>5, <1>7
    <2>3. /\ NoControl(v \o Fill(v, FixedSize, FilledWith(q, id)))
          /\ NoControl(Fill(v, FixedSize, Zero) \o v)
      BY <1>2, <1>3, <1>5, <2>2, NoControlFilled
    <2> QED BY <2>1, <2>3
  <1> QED BY <1>6, <1>7

LEMMA NoControlPrinted ==
    ASSUME NEW q \in GoodIcomms, PlainFor("icomm", q)
    PROVE  NoControl(Printed(q))
  <1>1. Fits(q)
    BY DEF PlainFor
  <1> DEFINE T == {k \in 0 .. 126 : NoControl(Prefix(q, k + 1))}
  <1>2. 0 \in T
    <2> DEFINE t == Num(q.type)  low == Bits(q.header \cap 1 .. 64)
               high == Bits(q.header \cap 65 .. 127)
    <2>1. Prefix(q, 1) = IF 1 \in q.header THEN <<t, low, high>> ELSE <<t, low>>
      BY <1>1, PrefixFacts, BitmapsFacts
    <2>2. t \notin {STX, ETX} /\ low \notin {STX, ETX} /\ high \notin {STX, ETX}
      BY NoControlTokens
    <2> HIDE DEF t, low, high
    <2>3. NoControl(<<t, low, high>>) /\ NoControl(<<t, low>>)
      BY <2>2 DEF NoControl
    <2>4. NoControl(Prefix(q, 1))
      BY <2>1, <2>3
    <2> QED BY <2>4
  <1>3. ASSUME NEW k \in 1 .. 126, k - 1 \in T PROVE k \in T
    <2>1. k + 1 \in 2 .. 127 /\ (k + 1) - 1 = k /\ (k - 1) + 1 = k /\ k \in 0 .. 126
          /\ k \in 1 .. 127
      OBVIOUS
    <2>2. NoControl(Prefix(q, k))
      BY <1>3, <2>1, SMTT(30)
    <2>3. Prefix(q, k) \in Seq(Characters)
          /\ Prefix(q, k + 1) = IF k + 1 \in DOMAIN q.fields
                                THEN Prefix(q, k) \o Piece(q, k + 1)
                                ELSE Prefix(q, k)
      BY <1>1, <2>1, PrefixFacts
    <2>4. CASE k + 1 \in DOMAIN q.fields
      <3>1. /\ Piece(q, k + 1) \in Seq(Characters)
            /\ NoControl(Piece(q, k + 1))
        BY <1>1, <2>4, PieceFacts, NoControlPiece
      <3>2. NoControl(Prefix(q, k) \o Piece(q, k + 1))
        BY <2>2, <2>3, <3>1, NoControlJoined
      <3> QED BY <2>1, <2>3, <2>4, <3>2
    <2> QED BY <2>1, <2>2, <2>3, <2>4
  <1> HIDE DEF T
  <1>4. 126 \in Nat /\ \A k \in 1 .. 126 : k - 1 \in T => k \in T
    BY <1>3
  <1>5. \A k \in 0 .. 126 : k \in T
    BY <1>2, <1>4, Steps, ZenonT(60)
  <1>6. 126 \in 0 .. 126 /\ 126 + 1 = 127
    OBVIOUS
  <1>7. NoControl(Prefix(q, 127))
    BY <1>5, <1>6 DEF T
  <1> QED BY <1>1, <1>7, PrefixFacts

-----------------------------------------------------------------------------
(* The stream: what was written and not yet read, and what is left to write,  *)
(* each character with its message and its place in the frame of that message. *)

Drop(T, d) == [i \in 1 .. Len(T) - d |-> T[i + d]]
Keep(T, d) == [i \in 1 .. d |-> T[i]]
Joined(T, f, k) ==
    [i \in 1 .. Len(T) + Len(f) |->
        IF i <= Len(T) THEN T[i] ELSE [t |-> f[i - Len(T)], m |-> k, p |-> i - Len(T)]]

Follows(F, x, y) ==
    \/ y.m = x.m /\ y.p = x.p + 1
    \/ x.p = Len(F[x.m]) /\ y.p = 1 /\ y.m > x.m

\* F are the frames of the messages 1 .. n.
Laid(F, n, T) ==
    /\ n \in Nat /\ IsSequence(T)
    /\ \A k \in 1 .. n : IsSequence(F[k])
    /\ \A i \in 1 .. Len(T) :
          /\ T[i].m \in 1 .. n /\ T[i].p \in 1 .. Len(F[T[i].m])
          /\ T[i].t = F[T[i].m][T[i].p]
    /\ \A i \in 1 .. Len(T) - 1 : Follows(F, T[i], T[i + 1])
    /\ \A i, j \in 1 .. Len(T) :
          i < j => T[i].m <= T[j].m /\ (T[j].p = 1 => T[i].m < T[j].m)

LEMMA FunctionIsSequence ==
    ASSUME NEW n \in Nat, NEW s, s = [i \in 1 .. n |-> s[i]]
    PROVE  Len(s) = n /\ IsSequence(s)
  <1>1. Len(s) = n
    BY LenProperties
  <1> QED BY <1>1 DEF IsSequence

LEMMA DropFacts ==
    ASSUME NEW T, IsSequence(T), NEW d \in 0 .. Len(T)
    PROVE  /\ Len(Drop(T, d)) = Len(T) - d /\ IsSequence(Drop(T, d))
           /\ \A i \in 1 .. Len(T) - d : Drop(T, d)[i] = T[i + d]
  <1> DEFINE n == Len(T) - d  s == Drop(T, d)
  <1>1. n \in Nat /\ s = [i \in 1 .. n |-> T[i + d]]
    BY DEF IsSequence, Drop
  <1> HIDE DEF s, n
  <1>2. \A i \in 1 .. n : s[i] = T[i + d]
    BY <1>1
  <1>3. s = [i \in 1 .. n |-> s[i]]
    BY <1>1
  <1> QED BY <1>1, <1>2, <1>3, FunctionIsSequence DEF s, n

LEMMA DropLaid ==
    ASSUME NEW F, NEW n, NEW T, Laid(F, n, T), NEW d \in 0 .. Len(T)
    PROVE  Laid(F, n, Drop(T, d))
  <1> DEFINE U == Drop(T, d)
  <1>1. /\ Len(U) = Len(T) - d /\ IsSequence(U) /\ Len(T) \in Nat
        /\ \A i \in 1 .. Len(U) : U[i] = T[i + d] /\ i + d \in 1 .. Len(T)
    <2>1. IsSequence(T) /\ Len(T) \in Nat
      BY DEF Laid, IsSequence
    <2>2. /\ Len(U) = Len(T) - d /\ IsSequence(U)
          /\ \A i \in 1 .. Len(T) - d : U[i] = T[i + d]
      BY <2>1, DropFacts
    <2>3. \A i \in 1 .. Len(T) - d : i + d \in 1 .. Len(T)
      BY <2>1
    <2> QED BY <2>1, <2>2, <2>3
  <1> HIDE DEF U
  <1>2. n \in Nat /\ \A k \in 1 .. n : IsSequence(F[k])
    BY DEF Laid
  <1>3. ASSUME NEW i \in 1 .. Len(U)
        PROVE  /\ U[i].m \in 1 .. n /\ U[i].p \in 1 .. Len(F[U[i].m])
               /\ U[i].t = F[U[i].m][U[i].p]
    BY <1>1 DEF Laid
  <1>4. ASSUME NEW i \in 1 .. Len(U) - 1 PROVE Follows(F, U[i], U[i + 1])
    <2>1. /\ i \in 1 .. Len(U) /\ i + 1 \in 1 .. Len(U)
          /\ i + d \in 1 .. Len(T) - 1 /\ (i + 1) + d = (i + d) + 1
      BY <1>1
    <2>2. U[i] = T[i + d] /\ U[i + 1] = T[(i + d) + 1]
      BY <1>1, <2>1
    <2>3. Follows(F, T[i + d], T[(i + d) + 1])
      BY <2>1 DEF Laid
    <2> QED BY <2>2, <2>3
  <1>5. ASSUME NEW i \in 1 .. Len(U), NEW j \in 1 .. Len(U), i < j
        PROVE  U[i].m <= U[j].m /\ (U[j].p = 1 => U[i].m < U[j].m)
    <2>1. /\ i + d \in 1 .. Len(T) /\ j + d \in 1 .. Len(T) /\ i + d < j + d
          /\ U[i] = T[i + d] /\ U[j] = T[j + d]
      BY <1>1, <1>5
    <2> QED BY <2>1 DEF Laid
  <1> QED BY <1>1, <1>2, <1>3, <1>4, <1>5 DEF Laid, U

LEMMA KeepLaid ==
    ASSUME NEW F, NEW n, NEW T, Laid(F, n, T), NEW d \in 0 .. Len(T)
    PROVE  /\ Laid(F, n, Keep(T, d)) /\ Len(Keep(T, d)) = d
           /\ \A i \in 1 .. d : Keep(T, d)[i] = T[i]
  <1> DEFINE U == Keep(T, d)
  <1>1. Len(T) \in Nat /\ d \in Nat /\ \A i \in 1 .. d : i \in 1 .. Len(T)
    BY DEF Laid, IsSequence
  <1>2. /\ Len(U) = d /\ IsSequence(U)
        /\ \A i \in 1 .. d : U[i] = T[i]
    <2>1. U = [i \in 1 .. d |-> T[i]]
      BY DEF Keep
    <2> HIDE DEF U
    <2>2. U = [i \in 1 .. d |-> U[i]] /\ \A i \in 1 .. d : U[i] = T[i]
      BY <2>1
    <2> QED BY <1>1, <2>2, FunctionIsSequence
  <1> HIDE DEF U
  <1>3. n \in Nat /\ \A k \in 1 .. n : IsSequence(F[k])
    BY DEF Laid
  <1>4. ASSUME NEW i \in 1 .. d
        PROVE  /\ U[i].m \in 1 .. n /\ U[i].p \in 1 .. Len(F[U[i].m])
               /\ U[i].t = F[U[i].m][U[i].p]
    BY <1>1, <1>2 DEF Laid
  <1>5. ASSUME NEW i \in 1 .. d - 1 PROVE Follows(F, U[i], U[i + 1])
    <2>1. i \in 1 .. d /\ i + 1 \in 1 .. d /\ i \in 1 .. Len(T) - 1
      BY <1>1
    <2>2. U[i] = T[i] /\ U[i + 1] = T[i + 1]
      BY <1>2, <2>1
    <2>3. Follows(F, T[i], T[i + 1])
      BY <2>1 DEF Laid
    <2> QED BY <2>2, <2>3
  <1>6. ASSUME NEW i \in 1 .. d, NEW j \in 1 .. d, i < j
        PROVE  U[i].m <= U[j].m /\ (U[j].p = 1 => U[i].m < U[j].m)
    <2>1. i \in 1 .. Len(T) /\ j \in 1 .. Len(T) /\ U[i] = T[i] /\ U[j] = T[j]
      BY <1>1, <1>2
    <2> QED BY <1>6, <2>1 DEF Laid
  <1> QED BY <1>2, <1>3, <1>4, <1>5, <1>6 DEF Laid, U

\* A message more, behind what is there.
LEMMA JoinedLaid ==
    ASSUME NEW F, NEW n, NEW T, Laid(F, n, T),
           NEW f, IsSequence(f), NEW G, G[n + 1] = f, \A k \in 1 .. n : G[k] = F[k],
           Len(T) > 0 => T[Len(T)].p = Len(F[T[Len(T)].m])
    PROVE  /\ Laid(G, n + 1, Joined(T, f, n + 1))
           /\ Len(Joined(T, f, n + 1)) = Len(T) + Len(f)
           /\ \A i \in 1 .. Len(T) : Joined(T, f, n + 1)[i] = T[i]
           /\ \A i \in 1 .. Len(f) :
                 Joined(T, f, n + 1)[Len(T) + i] = [t |-> f[i], m |-> n + 1, p |-> i]
  <1> DEFINE U == Joined(T, f, n + 1)  a == Len(T)  b == Len(f)
  <1>1. n \in Nat /\ a \in Nat /\ b \in Nat /\ a + b \in Nat
    BY DEF Laid, IsSequence
  <1>2. /\ Len(U) = a + b /\ IsSequence(U)
        /\ \A i \in 1 .. a + b :
              U[i] = IF i <= a THEN T[i] ELSE [t |-> f[i - a], m |-> n + 1, p |-> i - a]
    <2>1. U = [i \in 1 .. a + b |->
                 IF i <= a THEN T[i] ELSE [t |-> f[i - a], m |-> n + 1, p |-> i - a]]
      BY DEF Joined
    <2> HIDE DEF U, a, b
    <2>2. /\ U = [i \in 1 .. a + b |-> U[i]]
          /\ \A i \in 1 .. a + b :
                U[i] = IF i <= a THEN T[i] ELSE [t |-> f[i - a], m |-> n + 1, p |-> i - a]
      BY <2>1
    <2> QED BY <1>1, <2>2, FunctionIsSequence
  <1> HIDE DEF U
  <1>3. /\ \A k \in 1 .. n : IsSequence(F[k])
        /\ \A i \in 1 .. a :
              /\ T[i].m \in 1 .. n /\ T[i].p \in 1 .. Len(F[T[i].m])
              /\ T[i].t = F[T[i].m][T[i].p]
        /\ \A i \in 1 .. a - 1 : Follows(F, T[i], T[i + 1])
        /\ \A i, j \in 1 .. a :
              i < j => T[i].m <= T[j].m /\ (T[j].p = 1 => T[i].m < T[j].m)
    BY DEF Laid
  <1> HIDE DEF a, b
  <1>4. \A i \in 1 .. a : U[i] = T[i]
    BY <1>1, <1>2
  <1>5. ASSUME NEW i \in 1 .. b
        PROVE  U[a + i] = [t |-> f[i], m |-> n + 1, p |-> i]
    <2>1. a + i \in 1 .. a + b /\ ~ a + i <= a /\ (a + i) - a = i
      BY <1>1
    <2> QED BY <1>2, <2>1
  <1>13. ASSUME NEW i \in 1 .. b PROVE U[a + i].m = n + 1 /\ U[a + i].p = i
    <2> DEFINE z == [t |-> f[i], m |-> n + 1, p |-> i]
    <2>1. U[a + i] = z
      BY <1>5
    <2>2. z.m = n + 1 /\ z.p = i
      OBVIOUS
    <2> HIDE DEF z
    <2> QED BY <2>1, <2>2
  <1>6. \A i \in 1 .. a + b : i \in 1 .. a \/ \E j \in 1 .. b : i = a + j
    <2> SUFFICES ASSUME NEW i \in 1 .. a + b, i \notin 1 .. a
                 PROVE  \E j \in 1 .. b : i = a + j
      OBVIOUS
    <2>1. i - a \in 1 .. b /\ i = a + (i - a)
      BY <1>1
    <2> QED BY <2>1
  <1>7. ASSUME NEW k \in 1 .. n + 1 PROVE IsSequence(G[k])
    <2>1. k \in 1 .. n \/ k = n + 1
      BY <1>1
    <2> QED BY <1>3, <2>1
  <1>8. ASSUME NEW i \in 1 .. a + b
        PROVE  /\ U[i].m \in 1 .. n + 1 /\ U[i].p \in 1 .. Len(G[U[i].m])
               /\ U[i].t = G[U[i].m][U[i].p]
    <2>1. CASE i \in 1 .. a
      <3>1. U[i] = T[i] /\ T[i].m \in 1 .. n + 1 /\ G[T[i].m] = F[T[i].m]
        BY <1>1, <1>3, <1>4, <2>1
      <3> QED BY <1>3, <2>1, <3>1
    <2>2. CASE i \notin 1 .. a
      <3>1. PICK j \in 1 .. b : i = a + j
        BY <1>6, <2>2
      <3>2. U[i] = [t |-> f[j], m |-> n + 1, p |-> j] /\ n + 1 \in 1 .. n + 1
        BY <1>1, <1>5, <3>1
      <3> QED BY <3>1, <3>2 DEF b
    <2> QED BY <2>1, <2>2
  <1>9. ASSUME NEW i \in 1 .. (a + b) - 1 PROVE Follows(G, U[i], U[i + 1])
    <2>1. CASE i \in 1 .. a - 1
      <3>1. i \in 1 .. a /\ i + 1 \in 1 .. a
        BY <1>1, <2>1
      <3>2. Follows(F, T[i], T[i + 1]) /\ G[T[i].m] = F[T[i].m]
        BY <1>3, <2>1, <3>1
      <3> QED BY <1>4, <3>1, <3>2 DEF Follows
    <2>2. CASE i = a
      <3>1. a \in 1 .. a /\ 1 \in 1 .. b
        BY <1>1, <2>2
      <3>2. U[a] = T[a] /\ T[a].m \in 1 .. n /\ G[T[a].m] = F[T[a].m]
        BY <1>3, <1>4, <3>1
      <3>3. U[a + 1].m = n + 1 /\ U[a + 1].p = 1
        BY <1>13, <3>1
      <3>4. T[a].p = Len(F[T[a].m])
        BY <1>1, <3>1 DEF a
      <3>5. n + 1 > T[a].m
        BY <1>1, <3>2
      <3> QED BY <2>2, <3>2, <3>3, <3>4, <3>5 DEF Follows
    <2>3. CASE i \in (a + 1) .. (a + b) - 1
      <3>1. /\ i - a \in 1 .. b /\ (i - a) + 1 \in 1 .. b
            /\ i = a + (i - a) /\ i + 1 = a + ((i - a) + 1)
        BY <1>1, <2>3
      <3>2. /\ U[i].m = n + 1 /\ U[i].p = i - a
            /\ U[i + 1].m = n + 1 /\ U[i + 1].p = (i - a) + 1
        BY <1>13, <3>1
      <3> QED BY <3>2 DEF Follows
    <2>4. i \in 1 .. a - 1 \/ i = a \/ i \in (a + 1) .. (a + b) - 1
      BY <1>1
    <2> QED BY <2>1, <2>2, <2>3, <2>4
  <1>10. ASSUME NEW i \in 1 .. a + b, NEW j \in 1 .. a + b, i < j
         PROVE  U[i].m <= U[j].m /\ (U[j].p = 1 => U[i].m < U[j].m)
    <2>1. CASE j \in 1 .. a
      <3>1. i \in 1 .. a /\ U[i] = T[i] /\ U[j] = T[j]
        BY <1>1, <1>4, <1>10, <2>1
      <3> QED BY <1>3, <1>10, <2>1, <3>1
    <2>2. CASE j \notin 1 .. a
      <3>1. PICK k \in 1 .. b : j = a + k
        BY <1>6, <2>2
      <3>2. U[j].m = n + 1 /\ U[j].p = k
        BY <1>13, <3>1
      <3>3. CASE i \in 1 .. a
        <4>1. U[i].m \in 1 .. n
          BY <1>3, <1>4, <3>3
        <4> QED BY <1>1, <3>2, <4>1
      <3>4. CASE i \notin 1 .. a
        <4>1. PICK l \in 1 .. b : i = a + l
          BY <1>6, <3>4
        <4>2. U[i].m = n + 1
          BY <1>13, <4>1
        <4>3. k # 1
          BY <1>1, <1>10, <3>1, <4>1
        <4> QED BY <1>1, <3>2, <4>2, <4>3
      <3> QED BY <3>3, <3>4
    <2> QED BY <2>1, <2>2
  <1>11. n + 1 \in Nat
    BY <1>1
  <1>12. Laid(G, n + 1, U)
    BY <1>2, <1>7, <1>8, <1>9, <1>10, <1>11 DEF Laid
  <1> QED BY <1>2, <1>4, <1>5, <1>12 DEF U, a, b

\* What comes next, from the place p in the frame of message m on.
Ahead(T, m, p) == Len(T) > 0 => T[1].m = m /\ T[1].p = p + 1

LEMMA AheadOf ==
    ASSUME NEW F, NEW n, NEW T, Laid(F, n, T), NEW m, NEW p \in Nat,
           Ahead(T, m, p), NEW d \in 0 .. Len(T), p + d <= Len(F[m])
    PROVE  /\ \A k \in 1 .. d : /\ T[k].m = m /\ T[k].p = p + k
                                /\ T[k].t = F[m][p + k]
           /\ p + d < Len(F[m]) => Ahead(Drop(T, d), m, p + d)
           /\ p + d = Len(F[m]) /\ Len(T) > d => T[d + 1].p = 1 \/ d = 0
  <1> DEFINE a == Len(T)
             S == {k \in 0 .. d : k > 0 => T[k].m = m /\ T[k].p = p + k}
  <1>1. /\ a \in Nat /\ d \in Nat /\ d <= a
        /\ \A i \in 1 .. a : T[i].p \in Nat /\ T[i].t = F[T[i].m][T[i].p]
                             /\ T[i].p <= Len(F[T[i].m])
        /\ \A i \in 1 .. a - 1 : Follows(F, T[i], T[i + 1])
    BY DEF Laid, IsSequence
  <1>2. n \in Nat /\ (a > 0 => m \in 1 .. n /\ Len(F[m]) \in Nat)
    <2>1. a > 0 => 1 \in 1 .. a
      BY <1>1
    <2> QED BY <2>1 DEF Laid, IsSequence, Ahead
  <1> HIDE DEF a
  <1>3. ASSUME NEW k \in 1 .. a, NEW j \in Nat, k = j + 1, j > 0,
               T[j].m = m, T[j].p = p + j, p + j < Len(F[m])
        PROVE  T[k].m = m /\ T[k].p = p + k
    <2>1. j \in 1 .. a - 1 /\ a > 0
      BY <1>1, <1>3
    <2>2. Follows(F, T[j], T[k])
      BY <1>1, <1>3, <2>1
    <2>3. T[j].p # Len(F[T[j].m])
      BY <1>2, <1>3, <2>1
    <2> QED BY <1>3, <2>2, <2>3 DEF Follows
  <1>4. 0 \in S
    BY <1>1
  <1>5. ASSUME NEW k \in 1 .. d, k - 1 \in S PROVE k \in S
    <2>1. k \in 1 .. a /\ k \in 0 .. d /\ k - 1 \in Nat /\ k = (k - 1) + 1 /\ a > 0
      BY <1>1
    <2>2. CASE k = 1
      BY <2>1, <2>2 DEF Ahead, a
    <2>3. CASE k # 1
      <3>1. k - 1 > 0 /\ p + (k - 1) < Len(F[m])
        BY <1>2, <2>1, <2>3
      <3>2. T[k - 1].m = m /\ T[k - 1].p = p + (k - 1)
        BY <1>5, <3>1
      <3>3. T[k].m = m /\ T[k].p = p + k
        BY <1>3, <2>1, <3>1, <3>2
      <3> QED BY <2>1, <3>3
    <2> QED BY <2>2, <2>3
  <1> HIDE DEF S
  <1>6. \A k \in 1 .. d : k - 1 \in S => k \in S
    BY <1>5
  <1>7. \A k \in 0 .. d : k \in S
    BY <1>1, <1>4, <1>6, Steps, ZenonT(60)
  <1>8. \A k \in 1 .. d : k \in 0 .. d /\ k > 0
    BY <1>1
  <1>9. \A k \in 1 .. d : T[k].m = m /\ T[k].p = p + k
    BY <1>7, <1>8 DEF S
  <1>10. \A k \in 1 .. d : T[k].t = F[m][p + k]
    <2>1. \A k \in 1 .. d : k \in 1 .. a
      BY <1>1
    <2> QED BY <1>1, <1>9, <2>1
  <1>11. ASSUME p + d < Len(F[m]) PROVE Ahead(Drop(T, d), m, p + d)
    <2> SUFFICES ASSUME a - d > 0
                 PROVE  Drop(T, d)[1].m = m /\ Drop(T, d)[1].p = (p + d) + 1
      <3>1. IsSequence(T)
        BY DEF Laid
      <3> QED BY <3>1, DropFacts DEF Ahead, a
    <2>1. 1 \in 1 .. a - d /\ Drop(T, d)[1] = T[1 + d]
      <3>1. IsSequence(T)
        BY DEF Laid
      <3>2. 1 \in 1 .. a - d
        BY <1>1
      <3> QED BY <3>1, <3>2, DropFacts DEF a
    <2>2. CASE d = 0
      BY <1>1, <2>1, <2>2 DEF Ahead, a
    <2>3. CASE d # 0
      <3>1. d \in 1 .. d /\ 1 + d \in 1 .. a /\ 1 + d = d + 1 /\ d > 0
        BY <1>1, <2>3
      <3>2. T[1 + d].m = m /\ T[1 + d].p = p + (1 + d)
        BY <1>1, <1>3, <1>9, <1>11, <3>1
      <3> QED BY <1>1, <2>1, <3>2
    <2> QED BY <2>2, <2>3
  <1>12. ASSUME p + d = Len(F[m]), a > d, d # 0 PROVE T[d + 1].p = 1
    <2>1. d \in 1 .. d /\ d \in 1 .. a - 1 /\ d + 1 \in 1 .. a
      BY <1>1, <1>12
    <2>2. Follows(F, T[d], T[d + 1]) /\ T[d].m = m /\ T[d].p = Len(F[m])
      BY <1>1, <1>9, <1>12, <2>1
    <2>3. T[d + 1].m = m => T[d + 1].p <= Len(F[m])
      BY <1>1, <2>1
    <2>4. T[d + 1].p = T[d].p + 1 => ~ T[d + 1].p <= Len(F[m])
      BY <1>1, <1>2, <1>12, <2>2
    <2> QED BY <2>2, <2>3, <2>4 DEF Follows
  <1> QED BY <1>9, <1>10, <1>11, <1>12 DEF a

-----------------------------------------------------------------------------
(* The frame of a message, and where a reader is in it.                      *)

Framed(cd, v, f) ==
    CASE cd = "icomm" -> v \in GoodIcomms /\ f = Sent(v)
      [] cd = "packet" -> v \in Seq(Range(v)) /\ f = Packet(v)
      [] cd = "len" -> /\ v \in Seq(Range(v))
                       /\ \E junk \in {Nul, ETX} : f = WithLength(v, junk)
      [] cd = "line" -> /\ v \in Seq(Range(v))
                        /\ \E e \in LineEnds : f = v \o e

LEMMA IcommFrame ==
    ASSUME NEW q, NEW f, Framed("icomm", q, f), PlainFor("icomm", q)
    PROVE  /\ q \in GoodIcomms /\ Fits(q) /\ IsSequence(f)
           /\ Len(Printed(q)) \in Nat /\ Len(Printed(q)) >= 2
           /\ Len(f) = Len(Printed(q)) + 3
           /\ f[1] = STX
           /\ \A i \in 1 .. Len(Printed(q)) : /\ f[1 + i] = Printed(q)[i]
                                              /\ f[1 + i] \notin {STX, ETX}
           /\ f[Len(Printed(q)) + 2] = ETX
           /\ f[Len(Printed(q)) + 3] = Lrc(Append(Printed(q), ETX))
  <1> DEFINE s == Printed(q)
  <1>1. q \in GoodIcomms /\ Fits(q) /\ f = Sent(q)
    BY DEF Framed, PlainFor
  <1>2. s \in Seq(Characters)
    <2>1. 1 \in 1 .. 127
      OBVIOUS
    <2> QED BY <1>1, <2>1, PrefixIn
  <1>3. Len(s) >= 2
    BY <1>1, StartIn
  <1>4. NoControl(s)
    BY <1>1, NoControlPrinted
  <1>5. f = (<<STX>> \o s) \o <<ETX, Lrc(Append(s, ETX))>>
    BY <1>1 DEF Sent
  <1> HIDE DEF s
  <1>6. /\ Len(f) = Len(s) + 3 /\ Len(s) \in Nat /\ f = [i \in 1 .. Len(f) |-> f[i]]
        /\ f[1] = STX /\ \A i \in 1 .. Len(s) : f[1 + i] = s[i]
        /\ f[Len(s) + 2] = ETX /\ f[Len(s) + 3] = Lrc(Append(s, ETX))
    BY <1>2, <1>5, LrcFrame
  <1>7. \A i \in 1 .. Len(s) : f[1 + i] \notin {STX, ETX}
    BY <1>4, <1>6 DEF NoControl
  <1>8. IsSequence(f)
    BY <1>6 DEF IsSequence
  <1> QED BY <1>1, <1>3, <1>6, <1>7, <1>8 DEF s

LEMMA PacketFrame ==
    ASSUME NEW v, NEW f, Framed("packet", v, f), PlainFor("packet", v)
    PROVE  /\ v \in Seq(Range(v)) /\ IsSequence(f)
           /\ Len(v) \in Nat /\ Len(f) = Len(v) + 3
           /\ f[1] = STX
           /\ \A i \in 1 .. Len(v) : f[1 + i] = v[i] /\ v[i] \notin {STX, ETX}
           /\ f[Len(v) + 2] = ETX /\ f[Len(v) + 3] = Lrc(Append(v, ETX))
  <1>1. v \in Seq(Range(v)) /\ f = Packet(v) /\ {STX, ETX} \cap Range(v) = {}
    BY DEF Framed, PlainFor
  <1>2. f = (<<STX>> \o v) \o <<ETX, Lrc(Append(v, ETX))>>
    BY <1>1 DEF Packet
  <1>3. /\ Len(f) = Len(v) + 3 /\ Len(v) \in Nat /\ f = [i \in 1 .. Len(f) |-> f[i]]
        /\ f[1] = STX /\ \A i \in 1 .. Len(v) : f[1 + i] = v[i]
        /\ f[Len(v) + 2] = ETX /\ f[Len(v) + 3] = Lrc(Append(v, ETX))
    BY <1>1, <1>2, LrcFrame
  <1>4. \A i \in 1 .. Len(v) : v[i] \notin {STX, ETX}
    <2>1. \A i \in 1 .. Len(v) : v[i] \in Range(v)
      BY <1>1
    <2> QED BY <1>1, <2>1
  <1>5. IsSequence(f)
    BY <1>3 DEF IsSequence
  <1> QED BY <1>1, <1>3, <1>4, <1>5

LEMMA LengthFrame ==
    ASSUME NEW v, NEW f, Framed("len", v, f), PlainFor("len", v)
    PROVE  /\ v \in Seq(Range(v)) /\ IsSequence(f)
           /\ Len(v) \in Nat /\ Len(f) = Len(v) + 4
           /\ f[1] = STX /\ f[2] = Num(Len(v)) /\ f[3] \in {Nul, ETX}
           /\ \A i \in 1 .. Len(v) : f[3 + i] = v[i] /\ v[i] \notin {STX, ETX}
           /\ f[Len(v) + 4] = ETX
  <1>1. v \in Seq(Range(v)) /\ {STX, ETX} \cap Range(v) = {}
    BY DEF Framed, PlainFor
  <1>2. PICK junk \in {Nul, ETX} : f = WithLength(v, junk)
    BY DEF Framed
  <1>3. /\ Len(f) = Len(v) + 4 /\ Len(v) \in Nat /\ f = [i \in 1 .. Len(f) |-> f[i]]
        /\ f[1] = STX /\ f[2] = Num(Len(v)) /\ f[3] = junk
        /\ \A i \in 1 .. Len(v) : f[3 + i] = v[i]
        /\ f[Len(v) + 4] = ETX
    BY <1>1, <1>2, LenFrame
  <1>4. \A i \in 1 .. Len(v) : v[i] \notin {STX, ETX}
    <2>1. \A i \in 1 .. Len(v) : v[i] \in Range(v)
      BY <1>1
    <2> QED BY <1>1, <2>1
  <1>5. IsSequence(f)
    BY <1>3 DEF IsSequence
  <1> QED BY <1>1, <1>2, <1>3, <1>4, <1>5

LEMMA LineOfFrame ==
    ASSUME NEW v, NEW f, Framed("line", v, f), PlainFor("line", v)
    PROVE  /\ v \in Seq(Range(v)) /\ IsSequence(f) /\ Len(v) \in Nat
           /\ \A i \in 1 .. Len(v) : f[i] = v[i] /\ v[i] \notin {CR, LF}
           /\ Len(v) > 0 => v[1] # ACK
           /\ \/ Len(f) = Len(v) + 1 /\ f[Len(v) + 1] = LF
              \/ /\ Len(f) = Len(v) + 2
                 /\ f[Len(v) + 1] = CR /\ f[Len(v) + 2] = LF
  <1>1. v \in Seq(Range(v)) /\ {CR, LF} \cap Range(v) = {} /\ (v # <<>> => v[1] # ACK)
    BY DEF Framed, PlainFor
  <1>2. PICK e \in LineEnds : f = v \o e
    BY DEF Framed
  <1>3. /\ Len(v) \in Nat /\ IsSequence(f)
        /\ \A i \in 1 .. Len(v) : f[i] = v[i]
        /\ \/ Len(f) = Len(v) + 1 /\ f[Len(v) + 1] = LF
           \/ /\ Len(f) = Len(v) + 2
              /\ f[Len(v) + 1] = CR /\ f[Len(v) + 2] = LF
    <2>1. Len(v) \in Nat /\ IsSequence(f)
      BY <1>1, <1>2, LineFrame
    <2>2. \A i \in 1 .. Len(v) : f[i] = v[i]
      BY <1>1, <1>2, LineFrame
    <2>3. \/ Len(f) = Len(v) + 1 /\ f[Len(v) + 1] = LF
          \/ /\ Len(f) = Len(v) + 2
             /\ f[Len(v) + 1] = CR /\ f[Len(v) + 2] = LF
      BY <1>1, <1>2, LineFrame
    <2> QED BY <2>1, <2>2, <2>3
  <1>4. \A i \in 1 .. Len(v) : v[i] \notin {CR, LF}
    <2>1. \A i \in 1 .. Len(v) : v[i] \in Range(v)
      BY <1>1
    <2> QED BY <1>1, <2>1
  <1>6. Len(v) > 0 => v[1] # ACK
    BY <1>1
  <1> QED BY <1>1, <1>3, <1>4, <1>6

\* A frame is never empty, and has an STX at its beginning and nowhere else.
LEMMA FrameFacts ==
    ASSUME NEW cd \in {"icomm", "packet", "len", "line"}, NEW v, NEW f,
           Framed(cd, v, f), PlainFor(cd, v)
    PROVE  /\ IsSequence(f) /\ Len(f) > 0
           /\ cd # "line" => \A i \in 1 .. Len(f) : f[i] = STX <=> i = 1
  <1>1. \A t : <<"lrc", t>> # STX
    BY DEF STX, Chr
  <1>2. \A s : Lrc(s) # STX
    BY <1>1 DEF Lrc
  <1>3. ETX # STX /\ Nul # STX /\ \A k : Num(k) # STX
    BY DEF STX, ETX, Nul, Chr, Num
  <1>4. CASE cd = "icomm"
    <2> DEFINE n == Len(Printed(v))
    <2>1. /\ IsSequence(f) /\ n \in Nat /\ Len(f) = n + 3 /\ f[1] = STX
          /\ \A i \in 1 .. n : f[1 + i] \notin {STX, ETX}
          /\ f[n + 2] # STX /\ f[n + 3] # STX
      BY <1>2, <1>3, <1>4, IcommFrame
    <2> HIDE DEF n
    <2>2. ASSUME NEW i \in 1 .. Len(f) PROVE f[i] = STX <=> i = 1
      <3>1. i = 1 \/ i = n + 2 \/ i = n + 3 \/ (i - 1 \in 1 .. n /\ i = 1 + (i - 1))
        BY <2>1
      <3>2. n + 2 # 1 /\ n + 3 # 1
        BY <2>1
      <3>3. i - 1 \in 1 .. n => f[i] # STX /\ i # 1
        BY <2>1
      <3> QED BY <2>1, <3>1, <3>2, <3>3
    <2> QED BY <2>1, <2>2
  <1>5. CASE cd = "packet"
    <2> DEFINE n == Len(v)
    <2>1. /\ IsSequence(f) /\ n \in Nat /\ Len(f) = n + 3 /\ f[1] = STX
          /\ \A i \in 1 .. n : f[1 + i] \notin {STX, ETX}
          /\ f[n + 2] # STX /\ f[n + 3] # STX
      BY <1>2, <1>3, <1>5, PacketFrame
    <2> HIDE DEF n
    <2>2. ASSUME NEW i \in 1 .. Len(f) PROVE f[i] = STX <=> i = 1
      <3>1. i = 1 \/ i = n + 2 \/ i = n + 3 \/ (i - 1 \in 1 .. n /\ i = 1 + (i - 1))
        BY <2>1
      <3>2. n + 2 # 1 /\ n + 3 # 1
        BY <2>1
      <3>3. i - 1 \in 1 .. n => f[i] # STX /\ i # 1
        BY <2>1
      <3> QED BY <2>1, <3>1, <3>2, <3>3
    <2> QED BY <2>1, <2>2
  <1>6. CASE cd = "len"
    <2> DEFINE n == Len(v)
    <2>1. /\ IsSequence(f) /\ n \in Nat /\ Len(f) = n + 4 /\ f[1] = STX
          /\ \A i \in 1 .. n : f[3 + i] \notin {STX, ETX}
          /\ f[2] # STX /\ f[3] # STX /\ f[n + 4] # STX
      BY <1>3, <1>6, LengthFrame
    <2> HIDE DEF n
    <2>2. ASSUME NEW i \in 1 .. Len(f) PROVE f[i] = STX <=> i = 1
      <3>1. \/ i = 1 \/ i = 2 \/ i = 3 \/ i = n + 4
            \/ (i - 3 \in 1 .. n /\ i = 3 + (i - 3))
        BY <2>1
      <3>2. n + 4 # 1
        BY <2>1
      <3>3. i - 3 \in 1 .. n => f[i] # STX /\ i # 1
        BY <2>1
      <3> QED BY <2>1, <3>1, <3>2, <3>3
    <2> QED BY <2>1, <2>2
  <1>7. CASE cd = "line"
    BY <1>7, LineOfFrame
  <1> QED BY <1>4, <1>5, <1>6, <1>7

-----------------------------------------------------------------------------
(* What Icomm::read has made of a message.                                   *)

\* The message as far as the field i.
Heard(q, i) ==
    [type |-> q.type, header |-> q.header,
     fields |-> [id \in DOMAIN q.fields \cap 2 .. i |-> Cleaned(Filled(q, id))]]

LEMMA HeardAll ==
    ASSUME NEW q \in GoodIcomms
    PROVE  WithoutQuotes(AsRead(q)) = Heard(q, 126)
  <1> DEFINE D == DOMAIN q.fields \cap 2 .. 126
             F == [id \in D |-> Filled(q, id)]
             G == [id \in D |-> Cleaned(Filled(q, id))]
             z == [type |-> q.type, header |-> q.header, fields |-> F]
  <1>1. AsRead(q) = z
    <2>1. AsRead(q) = [q EXCEPT !.fields = F]
      BY DEF AsRead
    <2> HIDE DEF F
    <2>2. [q EXCEPT !.fields = F]
             = [type |-> q.type, header |-> q.header, fields |-> F]
      BY DEF GoodIcomms
    <2> QED BY <2>1, <2>2
  <1>2. WithoutQuotes(z) = [type |-> q.type, header |-> q.header, fields |-> G]
    <2>1. WithoutQuotes(z)
             = [z EXCEPT !.fields = [id \in DOMAIN @ |-> Cleaned(@[id])]]
      BY DEF WithoutQuotes
    <2>2. [id \in DOMAIN F |-> Cleaned(F[id])] = G
      OBVIOUS
    <2> HIDE DEF F, G
    <2>3. [z EXCEPT !.fields = [id \in DOMAIN @ |-> Cleaned(@[id])]]
             = [type |-> q.type, header |-> q.header,
                fields |-> [id \in DOMAIN F |-> Cleaned(F[id])]]
      OBVIOUS
    <2> QED BY <2>1, <2>2, <2>3
  <1> HIDE DEF z
  <1> QED BY <1>1, <1>2 DEF Heard

LEMMA CleanedFacts ==
    ASSUME NEW S, NEW s \in Seq(S)
    PROVE  /\ Len(Cleaned(s)) = Len(s) /\ (s # <<>> => Cleaned(s) # <<>>)
           /\ Cleaned(s) = [i \in 1 .. Len(s) |-> IF s[i] = Quote THEN Space ELSE s[i]]
  <1>1. DOMAIN s = 1 .. Len(s) /\ Len(s) \in Nat
    OBVIOUS
  <1>2. Cleaned(s) = [i \in 1 .. Len(s) |-> IF s[i] = Quote THEN Space ELSE s[i]]
    BY <1>1 DEF Cleaned
  <1>3. Len(Cleaned(s)) = Len(s)
    BY <1>1, <1>2
  <1>4. s # <<>> => Len(s) > 0
    BY SMTT(30)
  <1> QED BY <1>1, <1>2, <1>3, <1>4

LEMMA HeardMore ==
    ASSUME NEW q \in GoodIcomms, Fits(q), NEW i \in 2 .. 126, i \in DOMAIN q.fields
    PROVE  Set(Heard(q, i - 1), i, Cleaned(Filled(q, i))) = Heard(q, i)
  <1> DEFINE V == [id \in 1 .. 127 |-> Cleaned(Filled(q, id))]
             With(n) == [id \in DOMAIN q.fields \cap 2 .. n |-> V[id]]
  <1>1. V[i] = Cleaned(Filled(q, i)) /\ Cleaned(Filled(q, i)) # <<>>
    <2>1. i \in 1 .. 127
      OBVIOUS
    <2> QED BY <2>1, FilledFacts, CleanedFacts
  <1>2. ASSUME NEW n \in 1 .. 127
        PROVE  Heard(q, n) = [type |-> q.type, header |-> q.header, fields |-> With(n)]
    <2>1. \A id \in DOMAIN q.fields \cap 2 .. n : V[id] = Cleaned(Filled(q, id))
      <3>1. \A id \in 2 .. n : id \in 1 .. 127
        OBVIOUS
      <3> QED BY <3>1
    <2> HIDE DEF V
    <2>2. With(n) = [id \in DOMAIN q.fields \cap 2 .. n |-> Cleaned(Filled(q, id))]
      BY <2>1
    <2> QED BY <2>2 DEF Heard
  <1> HIDE DEF V
  <1>3. V[i] # <<>> /\ i \in 2 .. 127
    BY <1>1
  <1>4. Set([type |-> q.type, header |-> q.header, fields |-> With(i - 1)], i, V[i])
           = [type |-> q.type, header |-> q.header, fields |-> With(i)]
    BY <1>3, SetMore, Zenon
  <1>5. i \in 1 .. 127 /\ i - 1 \in 1 .. 127
    OBVIOUS
  <1> QED BY <1>1, <1>2, <1>4, <1>5

LEMMA HeardStart ==
    ASSUME NEW q
    PROVE  Heard(q, 1) = [type |-> q.type, header |-> q.header, fields |-> <<>>]
  <1>1. DOMAIN q.fields \cap 2 .. 1 = {}
    OBVIOUS
  <1>2. [id \in {} |-> Cleaned(Filled(q, id))] = <<>>
    OBVIOUS
  <1> QED BY <1>1, <1>2 DEF Heard

\* A number that is the least of some.
LEMMA LeastOf ==
    ASSUME NEW S, S \subseteq Nat, S # {}
    PROVE  Min(S) \in S /\ \A x \in S : Min(S) <= x
  <1>1. PICK x \in S : \A y \in S : ~ <<y, x>> \in OpToRel(<, Nat)
    BY NatLessThanWellFounded, WFMin
  <1>2. \A y \in S : ~ y < x
    BY <1>1 DEF OpToRel
  <1>3. \A y \in S : x <= y
    BY <1>2
  <1> QED BY <1>3 DEF Min

\* After the field i comes the next one that the message has.
NextField(q, i, todo) ==
    \/ todo = {} /\ Upcoming(todo) = "etx" /\ Heard(q, i) = Heard(q, 126)
    \/ \E j \in 2 .. 126 :
          /\ j \in DOMAIN q.fields /\ todo = DOMAIN q.fields \cap j .. 126
          /\ Prefix(q, j - 1) = Prefix(q, i) /\ Heard(q, j - 1) = Heard(q, i)
          /\ Upcoming(todo) = IF Def[j].kind = "fixed" THEN "value" ELSE "length"

LEMMA UpcomingFacts ==
    ASSUME NEW q \in GoodIcomms, Fits(q), NEW i \in 1 .. 126,
           NEW todo, todo = DOMAIN q.fields \cap (i + 1) .. 126
    PROVE  NextField(q, i, todo)
  <1>1. CASE todo = {}
    <2>1. \A k \in 2 .. 126 : k \in 2 .. i \/ k \in (i + 1) .. 126
      OBVIOUS
    <2>2. 2 .. i \subseteq 2 .. 126
      OBVIOUS
    <2>3. DOMAIN q.fields \cap 2 .. 126 = DOMAIN q.fields \cap 2 .. i
      BY <1>1, <2>1, <2>2
    <2>4. Heard(q, i) = Heard(q, 126)
      BY <2>3 DEF Heard
    <2> QED BY <1>1, <2>4 DEF Upcoming, NextField
  <1>2. CASE todo # {}
    <2> DEFINE j == Min(todo)
    <2>1. todo \subseteq Nat
      OBVIOUS
    <2>2. j \in todo /\ \A x \in todo : j <= x
      BY <1>2, <2>1, LeastOf
    <2> HIDE DEF j
    <2>3. /\ j \in 2 .. 126 /\ j \in DOMAIN q.fields /\ j \in (i + 1) .. 126
          /\ j - 1 \in i .. 127 /\ i \in 1 .. 127
      BY <2>2
    <2>4. DOMAIN q.fields \cap (i + 1) .. (j - 1) = {}
      <3> SUFFICES ASSUME NEW x \in DOMAIN q.fields, x \in (i + 1) .. (j - 1)
                   PROVE  FALSE
        OBVIOUS
      <3>1. x \in (i + 1) .. 126 /\ ~ j <= x
        BY <2>3
      <3> QED BY <2>2, <3>1
    <2>5. todo = DOMAIN q.fields \cap j .. 126
      <3>1. \A x \in (i + 1) .. 126 : j <= x => x \in j .. 126
        BY <2>3
      <3>2. j .. 126 \subseteq (i + 1) .. 126
        BY <2>3
      <3> QED BY <2>2, <3>1, <3>2
    <2>6. Prefix(q, j - 1) = Prefix(q, i)
      BY <2>3, <2>4, NothingBetween, Zenon
    <2>7. Heard(q, j - 1) = Heard(q, i)
      <3>1. \A k \in 2 .. j - 1 : k \in 2 .. i \/ k \in (i + 1) .. (j - 1)
        BY <2>3
      <3>2. 2 .. i \subseteq 2 .. j - 1
        BY <2>3
      <3>3. DOMAIN q.fields \cap 2 .. j - 1 = DOMAIN q.fields \cap 2 .. i
        BY <2>4, <3>1, <3>2
      <3> QED BY <3>3 DEF Heard
    <2>8. Upcoming(todo) = IF Def[j].kind = "fixed" THEN "value" ELSE "length"
      BY <1>2, Zenon DEF Upcoming, j
    <2> QED BY <2>3, <2>5, <2>6, <2>7, <2>8 DEF NextField
  <1> QED BY <1>1, <1>2

-----------------------------------------------------------------------------
(* Where the readers are.                                                    *)

\* The stream goes on with what follows the place p of message m; it is at an
\* end there only when the connection is broken.
Await(T, b, m, p) ==
    /\ Len(T) > 0 => T[1].m = m /\ T[1].p = p + 1
    /\ Len(T) = 0 => b

\* What is read next is not the ETX that the reader looks for.
Lost(T) == Len(T) > 0 => T[1].t # ETX

\* Nothing is missing of the last message, as long as the connection lasts.
Whole(F, T, b) ==
    ~ b /\ Len(T) > 0 => T[Len(T)].p = Len(F[T[Len(T)].m])

IcommAt(q, r, T, b, m) ==
    \/ r.pc = "icomm" /\ r.c = NewIcomm(0) /\ Await(T, b, m, 1)
    \/ r.pc = "bitmap" /\ r.c = NewIcomm(q.type) /\ Await(T, b, m, 2)
    \/ /\ r.pc = "bitmap2" /\ 1 \in q.header /\ Await(T, b, m, 3)
       /\ r.c = [type |-> q.type, header |-> q.header \cap 1 .. 64, fields |-> <<>>]
    \/ \E i \in 2 .. 126 :
          /\ i \in DOMAIN q.fields /\ r.todo = DOMAIN q.fields \cap i .. 126
          /\ r.c = Heard(q, i - 1)
          /\ \/ /\ r.pc = IF Def[i].kind = "fixed" THEN "value" ELSE "length"
                /\ Await(T, b, m, 1 + Len(Prefix(q, i - 1)))
             \/ /\ r.pc = "value" /\ Def[i].kind # "fixed"
                /\ r.need = Len(q.fields[i])
                /\ Await(T, b, m, 2 + Len(Prefix(q, i - 1)))
    \/ r.pc = "etx" /\ (r.c = WithoutQuotes(AsRead(q)) \/ Lost(T))
    \/ r.pc = "lrc" /\ r.c = WithoutQuotes(AsRead(q))

Begins(s, v) ==
    IsSequence(s) /\ Len(s) <= Len(v) /\ \A i \in 1 .. Len(s) : s[i] = v[i]

PacketAt(v, r, T, b, m) ==
    \/ r.pc = "packet" /\ Begins(r.buf, v) /\ Await(T, b, m, Len(r.buf) + 1)
    \/ r.pc = "packetlrc" /\ r.buf = v

LenAt(v, r, T, b, m) ==
    \/ r.pc = "len" /\ Await(T, b, m, 1)
    \/ r.pc = "junk" /\ r.need = Len(v) /\ Await(T, b, m, 2)
    \/ /\ r.pc = "data" /\ r.need = Len(v) /\ Len(v) > 0
       /\ Await(T, b, m, 2) \/ Await(T, b, m, 3)
    \/ r.pc = "end" /\ (r.buf = v \/ Lost(T))

LineAt(v, f, r, T, b, m) ==
    \/ r.pc = "line" /\ Begins(r.buf, v) /\ Await(T, b, m, Len(r.buf))
    \/ r.pc = "dummy" /\ r.buf = v /\ Await(T, b, m, Len(f) - 1)

Reads(cd, v, f, r, T, b) ==
    CASE cd = "icomm" -> IcommAt(v, r, T, b, r.from)
      [] cd = "packet" -> PacketAt(v, r, T, b, r.from)
      [] cd = "len" -> LenAt(v, r, T, b, r.from)
      [] cd = "line" -> LineAt(v, f, r, T, b, r.from)

\* Reading d characters, the reader gets those of its message.
LEMMA AwaitDrop ==
    ASSUME NEW F, NEW n, NEW T, Laid(F, n, T), NEW b \in BOOLEAN, Whole(F, T, b),
           NEW m, NEW p \in Nat, Await(T, b, m, p),
           NEW d \in 0 .. Len(T), p + d <= Len(F[m])
    PROVE  /\ \A k \in 1 .. d : T[k].m = m /\ T[k].p = p + k /\ T[k].t = F[m][p + k]
           /\ p + d < Len(F[m]) => Await(Drop(T, d), b, m, p + d)
  <1> DEFINE U == Drop(T, d)
  <1>1. Ahead(T, m, p)
    BY DEF Ahead, Await
  <1>2. /\ \A k \in 1 .. d : T[k].m = m /\ T[k].p = p + k /\ T[k].t = F[m][p + k]
        /\ p + d < Len(F[m]) => Ahead(U, m, p + d)
    BY <1>1, AheadOf
  <1>3. Len(U) = Len(T) - d /\ Len(T) \in Nat
    BY DropFacts DEF Laid, IsSequence
  <1> HIDE DEF U
  <1>4. ASSUME p + d < Len(F[m]), Len(U) = 0, ~ b PROVE FALSE
    <2>1. d = Len(T)
      BY <1>3, <1>4
    <2>2. CASE d = 0
      BY <1>4, <2>1, <2>2 DEF Await
    <2>3. CASE d # 0
      <3>1. Len(T) > 0 /\ Len(T) \in 1 .. d
        BY <1>3, <2>1, <2>3
      <3>2. T[Len(T)].m = m /\ T[Len(T)].p = p + d
        BY <1>2, <2>1, <3>1
      <3>3. T[Len(T)].p = Len(F[m])
        BY <1>4, <3>1, <3>2 DEF Whole
      <3> QED BY <1>4, <3>2, <3>3
    <2> QED BY <2>2, <2>3
  <1> QED BY <1>2, <1>4 DEF Ahead, Await, U

-----------------------------------------------------------------------------
(* The invariant: what is on its way, and what the reader makes of it.       *)

\* No character changed on the way, and only plain messages were sent.
Undisturbed ==
    accidents.damages = 0 /\ \A k \in DOMAIN sent : PlainFor(codec, sent[k])

\* A reader of lines loses its place when its time runs out.
Steady == Undisturbed /\ (codec = "line" => accidents.timeouts = 0)

Whats == IF codec = "icomm" THEN {Composed(m) : m \in Messages} ELSE Payloads

FrTypes ==
    /\ codec \in {"icomm", "packet", "len", "line"}
    /\ conn \in {"down", "tcp", "up", "broken"}
    /\ sent \in Seq(Whats)
    /\ accidents \in [timeouts : Nat, damages : Nat, breaks : Nat]

\* The stream T, of which w characters are on the wire.
Flow(F, T, w) ==
    /\ Laid(F, Len(sent), T) /\ Whole(F, T, conn = "broken")
    /\ \A k \in 1 .. Len(sent) : Framed(codec, sent[k], F[k])
    /\ w \in 0 .. Len(T)
    /\ wire = [i \in 1 .. w |-> [t |-> T[i].t, m |-> T[i].m]]
    /\ out = [i \in 1 .. Len(T) - w |-> T[w + i].t]
    /\ \A i \in w + 1 .. Len(T) : T[i].m = Len(sent)
    /\ conn = "broken" => w = Len(T)
    /\ conn \in {"down", "tcp"} => Len(T) = 0

IsReader(r) ==
    r = [pc |-> r.pc, from |-> r.from, c |-> r.c, todo |-> r.todo,
         need |-> r.need, lrc |-> r.lrc, buf |-> r.buf]

\* No message up to m is still to begin.
Fresh(T, m) == \A i \in 1 .. Len(T) : T[i].p = 1 => m < T[i].m

\* A line is read from its beginning.
Starting(T) == Len(T) > 0 => T[1].p = 1

ReadingIn(cd, s, F, T, r, b) ==
    \/ r = Idle /\ (cd = "line" => Starting(T))
    \/ /\ IsReader(r) /\ r.from \in 1 .. Len(s) /\ Fresh(T, r.from)
       /\ Reads(cd, s[r.from], F[r.from], r, T, b)

Reading(F, T) == ReadingIn(codec, sent, F, T, rd, conn = "broken")

GoodContent(cd, v, content) ==
    content = IF cd = "icomm" THEN WithoutQuotes(AsRead(v)) ELSE v

TakenIn(cd, s, T, r, acc) ==
    /\ IsSequence(acc)
    /\ \A k \in 1 .. Len(acc) :
          /\ acc[k].m \in 1 .. Len(s) /\ Fresh(T, acc[k].m)
          /\ GoodContent(cd, s[acc[k].m], acc[k].content)
          /\ r # Idle => acc[k].m < r.from
          /\ \A j \in 1 .. k - 1 : acc[j].m < acc[k].m

Taken(T) == TakenIn(codec, sent, T, rd, accepted)

Delivers(F, T, w) == Flow(F, T, w) /\ Reading(F, T) /\ Taken(T)

FrInv == FrTypes /\ (Steady => \E F, T, w : Delivers(F, T, w))

LEMMA FreshDrop ==
    ASSUME NEW T, IsSequence(T), NEW d \in 0 .. Len(T), NEW m, Fresh(T, m)
    PROVE  Fresh(Drop(T, d), m)
  <1>1. /\ Len(Drop(T, d)) = Len(T) - d /\ Len(T) \in Nat
        /\ \A i \in 1 .. Len(T) - d : Drop(T, d)[i] = T[i + d] /\ i + d \in 1 .. Len(T)
    <2>1. Len(T) \in Nat /\ \A i \in 1 .. Len(T) - d : i + d \in 1 .. Len(T)
      BY DEF IsSequence
    <2> QED BY <2>1, DropFacts
  <1> QED BY <1>1 DEF Fresh

\* What the invariant says in the end.
LEMMA DeliversAccepted ==
    ASSUME FrInv, Undisturbed
    PROVE  AcceptedWasSent
  <1> SUFFICES ASSUME codec = "line" => accidents.timeouts = 0,
                      NEW k \in DOMAIN accepted
               PROVE  /\ codec = "icomm" =>
                            accepted[k].content
                               = WithoutQuotes(AsRead(sent[accepted[k].m]))
                      /\ codec # "icomm" =>
                            accepted[k].content = sent[accepted[k].m]
                      /\ \A j \in 1 .. k - 1 : accepted[j].m < accepted[k].m
    BY DEF AcceptedWasSent
  <1>1. PICK F, T, w : Delivers(F, T, w)
    BY DEF FrInv, Steady
  <1>2. /\ IsSequence(accepted)
        /\ \A l \in 1 .. Len(accepted) :
              /\ GoodContent(codec, sent[accepted[l].m], accepted[l].content)
              /\ \A j \in 1 .. l - 1 : accepted[j].m < accepted[l].m
    BY <1>1 DEF Delivers, Taken, TakenIn
  <1>3. k \in 1 .. Len(accepted)
    BY <1>2 DEF IsSequence
  <1> QED BY <1>2, <1>3 DEF GoodContent

-----------------------------------------------------------------------------
(* The types.                                                                *)

LEMMA FrTypesInit == FramingInit => FrTypes
  BY FramingAssumption DEF FramingInit, FrTypes, Whats, NoAccident

LEMMA AccidentFacts ==
    ASSUME FrTypes, NEW kind \in {"timeouts", "damages", "breaks"}, Accident(kind)
    PROVE  /\ accidents' \in [timeouts : Nat, damages : Nat, breaks : Nat]
           /\ accidents'[kind] = accidents[kind] + 1
           /\ \A other \in {"timeouts", "damages", "breaks"} :
                 other # kind => accidents'[other] = accidents[other]
  BY DEF Accident, FrTypes

\* An accident is not forgotten.
NotForgotten ==
    /\ accidents' \in [timeouts : Nat, damages : Nat, breaks : Nat]
    /\ accidents'.damages = 0 => accidents.damages = 0
    /\ accidents'.timeouts = 0 => accidents.timeouts = 0

LEMMA AccidentRemembered ==
    ASSUME FrTypes, NEW kind \in {"timeouts", "damages", "breaks"}, Accident(kind)
    PROVE  NotForgotten
  <1>1. /\ accidents \in [timeouts : Nat, damages : Nat, breaks : Nat]
        /\ accidents' \in [timeouts : Nat, damages : Nat, breaks : Nat]
        /\ accidents'[kind] = accidents[kind] + 1
        /\ \A other \in {"timeouts", "damages", "breaks"} :
              other # kind => accidents'[other] = accidents[other]
    BY AccidentFacts DEF FrTypes
  <1>2. CASE kind = "timeouts"
    BY <1>1, <1>2 DEF NotForgotten
  <1>3. CASE kind = "damages"
    BY <1>1, <1>3 DEF NotForgotten
  <1>4. CASE kind = "breaks"
    BY <1>1, <1>4 DEF NotForgotten
  <1> QED BY <1>2, <1>3, <1>4

LEMMA DoReadRemembers ==
    ASSUME FrTypes, NEW n, Arrive(n) \/ Lapse(n)
    PROVE  NotForgotten
  <1>1. CASE UNCHANGED accidents
    BY <1>1 DEF FrTypes, NotForgotten
  <1>2. CASE Accident("timeouts")
    BY <1>2, AccidentRemembered
  <1> QED BY <1>1, <1>2 DEF Arrive, Lapse

LEMMA ReaderReads ==
    ASSUME Reader
    PROVE  /\ \E n : Arrive(n) \/ Lapse(n)
           /\ UNCHANGED <<writerVars, conn, cut>>
  <1>1. CASE ReadFirst
    BY <1>1 DEF ReadFirst, DoRead
  <1>2. CASE ReadType
    BY <1>2 DEF ReadType, DoRead
  <1>3. CASE ReadBitmap
    BY <1>3 DEF ReadBitmap, DoRead
  <1>4. CASE ReadLength
    BY <1>4 DEF ReadLength, DoRead
  <1>5. CASE ReadValue
    BY <1>5 DEF ReadValue, DoRead
  <1>6. CASE ReadEtx
    BY <1>6 DEF ReadEtx, DoRead
  <1>7. CASE ReadLrc
    BY <1>7 DEF ReadLrc, DoRead
  <1>8. CASE ReadPacket
    BY <1>8 DEF ReadPacket, DoRead
  <1>9. CASE ReadPacketLrc
    BY <1>9 DEF ReadPacketLrc, DoRead
  <1>10. CASE ReadLen
    BY <1>10 DEF ReadLen, DoRead
  <1>11. CASE ReadJunk
    BY <1>11 DEF ReadJunk, DoRead
  <1>12. CASE ReadData
    BY <1>12 DEF ReadData, DoRead
  <1>13. CASE ReadEnd
    BY <1>13 DEF ReadEnd, DoRead
  <1>14. CASE ReadLine
    BY <1>14 DEF ReadLine, DoRead
  <1>15. CASE ReadDummy
    BY <1>15 DEF ReadDummy, DoRead
  <1> QED BY <1>1, <1>2, <1>3, <1>4, <1>5, <1>6, <1>7, <1>8, <1>9, <1>10,
             <1>11, <1>12, <1>13, <1>14, <1>15 DEF Reader

LEMMA FrTypesStep ==
    ASSUME FrTypes, [FramingNext]_framingVars
    PROVE  FrTypes' /\ codec' = codec /\ NotForgotten
  <1>0. codec' = codec /\ (sent' = sent \/ Compose)
    BY OnlyComposeSends
  <1>1. NotForgotten /\ conn' \in {"down", "tcp", "up", "broken"}
    <2>1. CASE UNCHANGED framingVars
      BY <2>1 DEF framingVars, FrTypes, NotForgotten
    <2>2. CASE Compose \/ Write
      BY <2>2 DEF Compose, Write, FrTypes, NotForgotten
    <2>3. CASE WriteFails
      BY <2>3, AccidentRemembered DEF WriteFails
    <2>4. CASE OpenClient \/ DoClose
      BY <2>4 DEF OpenClient, DoClose, FrTypes, NotForgotten
    <2>5. CASE StartUpSSL
      <3>1. CASE UNCHANGED accidents
        BY <2>5, <3>1 DEF StartUpSSL, FrTypes, NotForgotten
      <3>2. CASE Accident("breaks")
        BY <2>5, <3>2, AccidentRemembered DEF StartUpSSL
      <3> QED BY <2>5, <3>1, <3>2 DEF StartUpSSL
    <2>6. CASE Reader
      <3>1. conn' = conn
        BY <2>6, ReaderReads
      <3> QED BY <2>6, <3>1, ReaderReads, DoReadRemembers DEF FrTypes
    <2>7. CASE Damage
      <3>1. conn' = conn /\ Accident("damages")
        BY <2>7 DEF Damage
      <3> QED BY <3>1, AccidentRemembered DEF FrTypes
    <2> QED BY <2>1, <2>2, <2>3, <2>4, <2>5, <2>6, <2>7
            DEF FramingNext, Writer, Connection
  <1>2. sent' \in Seq(Whats)
    <2>1. sent \in Seq(Whats)
      BY DEF FrTypes
    <2>2. CASE Compose
      <3>1. PICK o \in Offers : sent' = Append(sent, o.what)
        BY <2>2 DEF Compose
      <3>2. o.what \in Whats
        BY <3>1 DEF Offers, Whats, FrTypes
      <3> QED BY <2>1, <3>1, <3>2
    <2> QED BY <1>0, <2>1, <2>2
  <1>3. Whats' = Whats
    BY <1>0 DEF Whats
  <1> QED BY <1>0, <1>1, <1>2, <1>3 DEF FrTypes, NotForgotten

\* What was not disturbed afterwards was not disturbed before.
LEMMA SteadyBefore ==
    ASSUME FrTypes, [FramingNext]_framingVars, Steady'
    PROVE  Steady /\ ~ Damage
  <1>1. codec' = codec /\ NotForgotten /\ (sent' = sent \/ Compose)
    BY FrTypesStep, OnlyComposeSends
  <1>2. \A k \in DOMAIN sent : k \in DOMAIN sent' /\ sent'[k] = sent[k]
    <2>1. CASE Compose
      <3>1. PICK o \in Offers : sent' = Append(sent, o.what)
        BY <2>1 DEF Compose
      <3> QED BY <3>1 DEF FrTypes
    <2> QED BY <1>1, <2>1
  <1>3. ~ Damage
    <2> SUFFICES ASSUME Damage PROVE FALSE
      OBVIOUS
    <2>1. accidents'.damages = accidents.damages + 1 /\ accidents.damages \in Nat
      BY AccidentFacts DEF Damage, FrTypes
    <2> QED BY <2>1 DEF Steady, Undisturbed
  <1> QED BY <1>1, <1>2, <1>3 DEF Steady, Undisturbed, NotForgotten

-----------------------------------------------------------------------------
(* The writer and the connection.                                            *)

LEMMA ReadsOn ==
    ASSUME NEW cd \in {"icomm", "packet", "len", "line"}, NEW v, NEW f, NEW r,
           NEW T, NEW b, Reads(cd, v, f, r, T, b), NEW U, NEW z,
           \A m, p : Await(T, b, m, p) => Await(U, z, m, p),
           cd # "line" => (Lost(T) => Lost(U))
    PROVE  Reads(cd, v, f, r, U, z)
  <1>1. CASE cd = "icomm"
    <2>1. IcommAt(v, r, T, b, r.from)
      BY <1>1 DEF Reads
    <2>2. CASE r.pc \in {"icomm", "bitmap", "bitmap2"}
      <3>1. IcommAt(v, r, U, z, r.from)
        BY <2>1, <2>2, ZenonT(30) DEF IcommAt
      <3> QED BY <1>1, <3>1 DEF Reads
    <2>3. CASE \E i \in 2 .. 126 :
                  /\ i \in DOMAIN v.fields /\ r.todo = DOMAIN v.fields \cap i .. 126
                  /\ r.c = Heard(v, i - 1)
                  /\ \/ /\ r.pc = IF Def[i].kind = "fixed" THEN "value" ELSE "length"
                        /\ Await(T, b, r.from, 1 + Len(Prefix(v, i - 1)))
                     \/ /\ r.pc = "value" /\ Def[i].kind # "fixed"
                        /\ r.need = Len(v.fields[i])
                        /\ Await(T, b, r.from, 2 + Len(Prefix(v, i - 1)))
      <3>1. \E i \in 2 .. 126 :
                  /\ i \in DOMAIN v.fields /\ r.todo = DOMAIN v.fields \cap i .. 126
                  /\ r.c = Heard(v, i - 1)
                  /\ \/ /\ r.pc = IF Def[i].kind = "fixed" THEN "value" ELSE "length"
                        /\ Await(U, z, r.from, 1 + Len(Prefix(v, i - 1)))
                     \/ /\ r.pc = "value" /\ Def[i].kind # "fixed"
                        /\ r.need = Len(v.fields[i])
                        /\ Await(U, z, r.from, 2 + Len(Prefix(v, i - 1)))
        BY <2>3, Zenon
      <3>2. IcommAt(v, r, U, z, r.from)
        BY <3>1, Zenon DEF IcommAt
      <3> QED BY <1>1, <3>2 DEF Reads
    <2>4. CASE r.pc \in {"etx", "lrc"}
      <3>1. IcommAt(v, r, U, z, r.from)
        BY <1>1, <2>1, <2>4, Zenon DEF IcommAt
      <3> QED BY <1>1, <3>1 DEF Reads
    <2> QED BY <2>1, <2>2, <2>3, <2>4, Zenon DEF IcommAt
  <1>2. CASE cd = "packet"
    BY <1>2 DEF Reads, PacketAt
  <1>3. CASE cd = "len"
    BY <1>3 DEF Reads, LenAt
  <1>4. CASE cd = "line"
    BY <1>4 DEF Reads, LineAt
  <1> QED BY <1>1, <1>2, <1>3, <1>4

LEMMA EmptyFunction ==
    ASSUME NEW n \in Nat, NEW s, s = [i \in 1 .. n |-> s[i]]
    PROVE  s = <<>> <=> n = 0
  <1>1. CASE n = 0
    <2>1. 1 .. n = {}
      BY <1>1
    <2>2. s = [i \in {} |-> s[i]]
      BY <2>1
    <2> QED BY <1>1, <2>2
  <1>2. CASE n # 0
    <2>1. Len(s) = n /\ Len(<<>>) = 0
      BY FunctionIsSequence
    <2> QED BY <1>2, <2>1
  <1> QED BY <1>1, <1>2

LEMMA FlowLengths ==
    ASSUME NEW F, NEW T, NEW w, Flow(F, T, w)
    PROVE  /\ Len(T) \in Nat /\ w \in Nat /\ w <= Len(T) /\ Len(sent) \in Nat
           /\ IsSequence(T)
           /\ Len(wire) = w /\ \A i \in 1 .. w : wire[i].t = T[i].t /\ wire[i].m = T[i].m
           /\ Len(out) = Len(T) - w /\ \A i \in 1 .. Len(T) - w : out[i] = T[w + i].t
           /\ wire = <<>> <=> w = 0
           /\ out = <<>> <=> w = Len(T)
  <1> DEFINE a == Len(T)  z == Len(T) - w
  <1>1. a \in Nat /\ w \in Nat /\ w <= a /\ z \in Nat /\ Len(sent) \in Nat /\ IsSequence(T)
    BY DEF Flow, Laid, IsSequence
  <1> HIDE DEF a, z
  <1>2. /\ wire = [i \in 1 .. w |-> [t |-> T[i].t, m |-> T[i].m]]
        /\ out = [i \in 1 .. z |-> T[w + i].t]
    BY DEF Flow, z
  <1>3. /\ Len(wire) = w /\ Len(out) = z
        /\ wire = [i \in 1 .. w |-> wire[i]] /\ out = [i \in 1 .. z |-> out[i]]
    BY <1>1, <1>2
  <1>4. \A i \in 1 .. w : wire[i].t = T[i].t /\ wire[i].m = T[i].m
    <2> SUFFICES ASSUME NEW i \in 1 .. w
                 PROVE  wire[i].t = T[i].t /\ wire[i].m = T[i].m
      OBVIOUS
    <2>1. wire[i] = [t |-> T[i].t, m |-> T[i].m]
      BY <1>2
    <2> QED BY <2>1
  <1>5. \A i \in 1 .. z : out[i] = T[w + i].t
    BY <1>2
  <1>6. wire = <<>> <=> w = 0
    BY <1>1, <1>2, <1>3, EmptyFunction
  <1>7. out = <<>> <=> z = 0
    BY <1>1, <1>2, <1>3, EmptyFunction
  <1> QED BY <1>1, <1>3, <1>4, <1>5, <1>6, <1>7 DEF a, z

LEMMA OffersFramed ==
    ASSUME FrTypes, NEW o \in Offers
    PROVE  Framed(codec, o.what, o.chars)
  <1>1. CASE codec = "icomm"
    <2>1. PICK m \in Messages : o.what = Composed(m) /\ o.chars = Sent(Composed(m))
      BY <1>1 DEF Offers
    <2> QED BY <1>1, <2>1, ComposedIsGood DEF Framed
  <1>2. CASE codec = "packet"
    <2>1. o.what \in Payloads /\ o.chars = Packet(o.what)
      BY <1>2 DEF Offers
    <2> QED BY <1>2, <2>1, FramingAssumption DEF Framed
  <1>3. CASE codec = "len"
    <2>1. PICK v \in Payloads, j \in {Nul, ETX} :
             o = [what |-> v, chars |-> WithLength(v, j), junk |-> j]
      BY <1>3 DEF Offers
    <2>2. o.what = v /\ o.chars = WithLength(v, j)
      BY <2>1
    <2> QED BY <1>3, <2>1, <2>2, FramingAssumption DEF Framed
  <1>4. CASE codec = "line"
    <2>1. PICK v \in Payloads, e \in LineEnds :
             o = [what |-> v, chars |-> v \o e, junk |-> Nul]
      BY <1>4 DEF Offers
    <2>2. o.what = v /\ o.chars = v \o e
      BY <2>1
    <2> QED BY <1>4, <2>1, <2>2, FramingAssumption DEF Framed
  <1> QED BY <1>1, <1>2, <1>3, <1>4 DEF FrTypes

LEMMA ComposeDelivers ==
    ASSUME FrTypes, FrTypes', codec' = codec, Steady', NEW F, NEW T, NEW w,
           Delivers(F, T, w), Compose
    PROVE  \E G, U, x : Delivers(G, U, x)'
  <1>1. PICK o \in Offers : sent' = Append(sent, o.what) /\ out' = o.chars
    BY DEF Compose
  <1>17. PICK n, f, G, U :
            /\ n = Len(sent) /\ f = o.chars
            /\ G = [k \in 1 .. n + 1 |-> IF k = n + 1 THEN f ELSE F[k]]
            /\ U = Joined(T, f, n + 1)
    OBVIOUS
  <1>2. /\ n \in Nat /\ n + 1 \in Nat /\ Len(sent') = n + 1 /\ sent'[n + 1] = o.what
        /\ \A k \in 1 .. n : sent'[k] = sent[k] /\ k \in 1 .. n + 1
    BY <1>1, <1>17 DEF FrTypes
  <1>3. G[n + 1] = f /\ \A k \in 1 .. n : G[k] = F[k]
    BY <1>2, <1>17
  <1>4. /\ Framed(codec, o.what, f) /\ PlainFor(codec, o.what)
        /\ codec \in {"icomm", "packet", "len", "line"}
    <2>1. n + 1 \in DOMAIN sent'
      BY <1>2 DEF FrTypes
    <2> QED BY <1>2, <2>1, <1>17, OffersFramed DEF FrTypes, Steady, Undisturbed
  <1>5. /\ IsSequence(f) /\ Len(f) > 0 /\ Len(f) \in Nat
        /\ codec # "line" => \A i \in 1 .. Len(f) : f[i] = STX <=> i = 1
    BY <1>4, FrameFacts DEF IsSequence
  <1>6. /\ Flow(F, T, w) /\ Reading(F, T) /\ Taken(T) /\ conn = "up" /\ conn' = "up"
        /\ out = <<>> /\ UNCHANGED <<wire, rd, accepted>>
    BY DEF Delivers, Compose, readerVars
  <1>7. w = Len(T) /\ w \in Nat
    BY <1>6, FlowLengths
  <1>8. Laid(F, n, T) /\ (Len(T) > 0 => T[Len(T)].p = Len(F[T[Len(T)].m]))
    BY <1>6, <1>17 DEF Flow, Whole
  <1>9. /\ Laid(G, n + 1, U) /\ Len(U) = Len(T) + Len(f)
        /\ \A i \in 1 .. Len(T) : U[i] = T[i]
        /\ \A i \in 1 .. Len(f) :
              U[Len(T) + i] = [t |-> f[i], m |-> n + 1, p |-> i]
    <2> QED BY <1>3, <1>5, <1>8, <1>17, JoinedLaid, SMTT(30)
  <1>10. \A i \in 1 .. Len(f) :
            /\ U[Len(T) + i].t = f[i] /\ U[Len(T) + i].m = n + 1
            /\ U[Len(T) + i].p = i
    <2> SUFFICES ASSUME NEW i \in 1 .. Len(f)
                 PROVE  /\ U[Len(T) + i].t = f[i] /\ U[Len(T) + i].m = n + 1
                        /\ U[Len(T) + i].p = i
      OBVIOUS
    <2>1. U[Len(T) + i] = [t |-> f[i], m |-> n + 1, p |-> i]
      BY <1>9
    <2> QED BY <2>1
  <1>11. Flow(G, U, w)'
    <2>1. Whole(G, U, FALSE)
      <3>1. Len(f) \in 1 .. Len(f) /\ Len(U) = Len(T) + Len(f)
        BY <1>5, <1>9
      <3>2. U[Len(U)].m = n + 1 /\ U[Len(U)].p = Len(f)
        BY <1>10, <3>1
      <3> QED BY <1>3, <3>2 DEF Whole
    <2>2. \A k \in 1 .. n + 1 : Framed(codec, sent'[k], G[k])
      <3>1. \A k \in 1 .. n : Framed(codec, sent[k], F[k])
        BY <1>6, <1>17 DEF Flow
      <3>2. \A k \in 1 .. n + 1 : k = n + 1 \/ k \in 1 .. n
        BY <1>2
      <3> QED BY <1>2, <1>3, <1>4, <3>1, <3>2
    <2>3. w \in 0 .. Len(U) /\ Len(U) - w = Len(f)
      BY <1>5, <1>7, <1>9
    <2>4. wire' = [i \in 1 .. w |-> [t |-> U[i].t, m |-> U[i].m]]
      <3>1. wire = [i \in 1 .. w |-> [t |-> T[i].t, m |-> T[i].m]]
        BY <1>6 DEF Flow
      <3>2. \A i \in 1 .. w : U[i] = T[i]
        BY <1>7, <1>9
      <3> QED BY <1>6, <3>1, <3>2
    <2>5. out' = [i \in 1 .. Len(U) - w |-> U[w + i].t]
      <3>1. out' = [i \in 1 .. Len(f) |-> f[i]]
        BY <1>1, <1>5, <1>17 DEF IsSequence
      <3> QED BY <1>7, <1>10, <2>3, <3>1
    <2>6. \A i \in w + 1 .. Len(U) : U[i].m = n + 1
      <3> SUFFICES ASSUME NEW i \in w + 1 .. Len(U) PROVE U[i].m = n + 1
        OBVIOUS
      <3>1. i - w \in 1 .. Len(f) /\ Len(T) + (i - w) = i
        BY <1>5, <1>7, <1>9
      <3> QED BY <1>10, <3>1
    <2>7. Laid(G, Len(sent'), U)
      BY <1>2, <1>9
    <2> QED BY <1>2, <1>6, <2>1, <2>2, <2>3, <2>4, <2>5, <2>6, <2>7 DEF Flow
  <1>12. Len(T) = 0 => Len(U) > 0 /\ U[1].t = f[1] /\ U[1].p = 1
    <2>1. Len(T) = 0 => Len(T) + 1 = 1 /\ Len(U) = Len(f) /\ 1 \in 1 .. Len(f)
      BY <1>5, <1>9
    <2> QED BY <1>5, <1>10, <2>1
  <1>13. Len(T) > 0 => Len(U) > 0 /\ U[1] = T[1]
    BY <1>5, <1>7, <1>9
  <1>14. Reading(G, U)'
    <2>1. CASE rd = Idle /\ (codec = "line" => Starting(T))
      <3>1. codec = "line" => Starting(U)
        BY <1>7, <1>12, <1>13, <2>1 DEF Starting
      <3> QED BY <1>6, <2>1, <3>1 DEF Reading, ReadingIn
    <2>2. CASE /\ IsReader(rd) /\ rd.from \in 1 .. n /\ Fresh(T, rd.from)
               /\ Reads(codec, sent[rd.from], F[rd.from], rd, T, FALSE)
      <3>1. \A m, p : Await(T, FALSE, m, p) => Await(U, FALSE, m, p)
        BY <1>7, <1>13 DEF Await
      <3>2. codec # "line" => (Lost(T) => Lost(U))
        <4>1. codec # "line" => f[1] # ETX
          <5>1. 1 \in 1 .. Len(f)
            BY <1>5
          <5> QED BY <1>5, <5>1, NoControlTokens
        <4> QED BY <1>7, <1>12, <1>13, <4>1 DEF Lost
      <3>3. Reads(codec, sent[rd.from], F[rd.from], rd, U, FALSE)
        BY <1>4, <2>2, <3>1, <3>2, ReadsOn
      <3>4. sent'[rd.from] = sent[rd.from] /\ G[rd.from] = F[rd.from]
            /\ rd.from \in 1 .. n + 1
        BY <1>2, <1>3, <2>2
      <3>5. Fresh(U, rd.from)
        <4> SUFFICES ASSUME NEW i \in 1 .. Len(U), U[i].p = 1
                     PROVE  rd.from < U[i].m
          BY DEF Fresh
        <4>1. CASE i \in 1 .. Len(T)
          BY <1>9, <2>2, <4>1 DEF Fresh
        <4>2. CASE i \notin 1 .. Len(T)
          <5>1. i - Len(T) \in 1 .. Len(f) /\ Len(T) + (i - Len(T)) = i
            BY <1>5, <1>7, <1>9, <4>2
          <5>2. U[i].m = n + 1
            BY <1>10, <5>1
          <5> QED BY <1>2, <2>2, <5>2
        <4> QED BY <4>1, <4>2
      <3> QED BY <1>2, <1>6, <2>2, <3>3, <3>4, <3>5 DEF Reading, ReadingIn
    <2>3. (conn = "broken") = FALSE
      BY <1>6
    <2> QED BY <1>6, <1>17, <2>1, <2>2, <2>3 DEF Reading, ReadingIn
  <1>15. Taken(U)'
    <2>1. TakenIn(codec, sent, T, rd, accepted)
      BY <1>6 DEF Taken
    <2>2. ASSUME NEW k \in 1 .. Len(accepted)
          PROVE  /\ accepted[k].m \in 1 .. n + 1 /\ Fresh(U, accepted[k].m)
                 /\ GoodContent(codec, sent'[accepted[k].m], accepted[k].content)
      <3>1. /\ accepted[k].m \in 1 .. n /\ Fresh(T, accepted[k].m)
            /\ GoodContent(codec, sent[accepted[k].m], accepted[k].content)
        BY <1>17, <2>1 DEF TakenIn
      <3>2. accepted[k].m \in 1 .. n + 1 /\ sent'[accepted[k].m] = sent[accepted[k].m]
        BY <1>2, <3>1
      <3>3. Fresh(U, accepted[k].m)
        <4> SUFFICES ASSUME NEW i \in 1 .. Len(U), U[i].p = 1
                     PROVE  accepted[k].m < U[i].m
          BY DEF Fresh
        <4>1. CASE i \in 1 .. Len(T)
          BY <1>9, <3>1, <4>1 DEF Fresh
        <4>2. CASE i \notin 1 .. Len(T)
          <5>1. i - Len(T) \in 1 .. Len(f) /\ Len(T) + (i - Len(T)) = i
            BY <1>5, <1>7, <1>9, <4>2
          <5>2. U[i].m = n + 1
            BY <1>10, <5>1
          <5> QED BY <1>2, <3>1, <5>2
        <4> QED BY <4>1, <4>2
      <3> QED BY <3>1, <3>2, <3>3
    <2>3. TakenIn(codec, sent', U, rd, accepted)
      BY <1>2, <2>1, <2>2 DEF TakenIn
    <2> QED BY <1>6, <2>3 DEF Taken
  <1>16. Delivers(G, U, w)'
    BY <1>11, <1>14, <1>15 DEF Delivers
  <1> QED BY <1>16

LEMMA JoinedSequences ==
    ASSUME NEW a, NEW b, IsSequence(a), IsSequence(b)
    PROVE  a \o b = [i \in 1 .. Len(a) + Len(b) |->
                        IF i <= Len(a) THEN a[i] ELSE b[i - Len(a)]]
  <1> DEFINE S == {a[i] : i \in 1 .. Len(a)} \cup {b[i] : i \in 1 .. Len(b)}
             x == Len(a)  y == Len(b)
             z == [i \in 1 .. x + y |-> IF i <= x THEN a[i] ELSE b[i - x]]
  <1>1. x \in Nat /\ y \in Nat /\ a = [i \in 1 .. x |-> a[i]] /\ b = [i \in 1 .. y |-> b[i]]
    BY DEF IsSequence
  <1>2. \A i \in 1 .. x : a[i] \in S
    OBVIOUS
  <1>3. \A i \in 1 .. y : b[i] \in S
    OBVIOUS
  <1> HIDE DEF S
  <1>4. a \in Seq(S) /\ b \in Seq(S)
    <2>1. a \in [1 .. x -> S] /\ b \in [1 .. y -> S]
      <3> HIDE DEF x, y
      <3> QED BY <1>1, <1>2, <1>3
    <2> QED BY <1>1, <2>1, SeqDef
  <1>5. /\ a \o b \in Seq(S) /\ Len(a \o b) = x + y
        /\ \A i \in 1 .. x + y : (a \o b)[i] = IF i <= x THEN a[i] ELSE b[i - x]
    BY <1>4, ConcatProperties
  <1> DEFINE d == a \o b
  <1>10. d \in Seq(S) /\ Len(d) = x + y
    BY <1>5
  <1> HIDE DEF d, x, y
  <1>6. d = [i \in 1 .. x + y |-> d[i]]
    BY <1>10
  <1>7. \A i \in 1 .. x + y : d[i] = z[i]
    <2> SUFFICES ASSUME NEW i \in 1 .. x + y PROVE d[i] = z[i]
      OBVIOUS
    <2>1. d[i] = IF i <= x THEN a[i] ELSE b[i - x]
      BY <1>5 DEF d, x, y
    <2> QED BY <2>1
  <1>8. z = [i \in 1 .. x + y |-> z[i]]
    OBVIOUS
  <1> HIDE DEF z
  <1>9. d = z
    BY <1>6, <1>7, <1>8
  <1> QED BY <1>9 DEF d, z, x, y

LEMMA RestOfSequence ==
    ASSUME NEW s, IsSequence(s), NEW d \in 0 .. Len(s)
    PROVE  SubSeq(s, d + 1, Len(s)) = [i \in 1 .. Len(s) - d |-> s[i + d]]
  <1> DEFINE S == {s[i] : i \in 1 .. Len(s)}
             x == Len(s)  r == SubSeq(s, d + 1, x)
             z == [i \in 1 .. x - d |-> s[i + d]]
  <1>1. x \in Nat /\ s = [i \in 1 .. x |-> s[i]]
    BY DEF IsSequence
  <1>2. \A i \in 1 .. x : s[i] \in S
    OBVIOUS
  <1> HIDE DEF S
  <1>3. \A i \in d + 1 .. x : s[i] \in S
    BY <1>1, <1>2
  <1>4. d + 1 \in Int /\ x \in Int
    BY <1>1
  <1> HIDE DEF x
  <1>5. /\ r \in Seq(S)
        /\ Len(r) = IF d + 1 <= x THEN x - (d + 1) + 1 ELSE 0
        /\ \A i \in 1 .. x - (d + 1) + 1 : r[i] = s[(d + 1) + i - 1]
    BY <1>3, <1>4, SubSeqProperties
  <1>6. x - (d + 1) + 1 = x - d /\ (~ d + 1 <= x => x - d = 0) /\ x - d \in Nat
        /\ \A i \in 1 .. x - d : (d + 1) + i - 1 = i + d
    BY <1>1 DEF x
  <1> HIDE DEF r
  <1>7. Len(r) = x - d /\ \A i \in 1 .. x - d : r[i] = s[i + d]
    BY <1>5, <1>6
  <1>8. r = [i \in 1 .. x - d |-> r[i]]
    BY <1>5, <1>7
  <1>9. r = z
    BY <1>7, <1>8
  <1> QED BY <1>9 DEF r, z, x

LEMMA WriteDelivers ==
    ASSUME FrTypes, FrTypes', codec' = codec, NEW F, NEW T, NEW w,
           Delivers(F, T, w), Write
    PROVE  \E G, U, x : Delivers(G, U, x)'
  <1>1. /\ Flow(F, T, w) /\ Reading(F, T) /\ Taken(T)
        /\ conn = "up" /\ conn' = "up" /\ out # <<>>
        /\ UNCHANGED <<sent, rd, accepted>>
    BY DEF Delivers, Write, readerVars
  <1>2. /\ Len(T) \in Nat /\ w \in Nat /\ w <= Len(T) /\ Len(wire) = w
        /\ Len(out) = Len(T) - w /\ w # Len(T)
        /\ \A i \in 1 .. Len(T) - w : out[i] = T[w + i].t
    BY <1>1, FlowLengths
  <1>3. PICK n \in 1 .. Len(out) :
           /\ out' = SubSeq(out, n + 1, Len(out))
           /\ wire' = wire \o [i \in 1 .. n |-> [t |-> out[i], m |-> Len(sent)]]
    <2>1. Len(out) \in 1 .. Len(out)
      BY <1>2
    <2>2. PICK n \in IF tls THEN {Len(out)} ELSE 1 .. Len(out) :
             /\ out' = SubSeq(out, n + 1, Len(out))
             /\ wire' = wire \o [i \in 1 .. n |-> [t |-> out[i], m |-> Len(sent)]]
      BY DEF Write
    <2>3. n \in 1 .. Len(out)
      BY <2>1, <2>2
    <2> QED BY <2>2, <2>3
  <1>4. n \in Nat /\ n <= Len(T) - w /\ n \in 0 .. Len(out)
    BY <1>2
  <1>5. /\ wire = [i \in 1 .. w |-> [t |-> T[i].t, m |-> T[i].m]]
        /\ out = [i \in 1 .. Len(T) - w |-> T[w + i].t]
        /\ \A i \in w + 1 .. Len(T) : T[i].m = Len(sent)
    BY <1>1 DEF Flow
  <1>6. IsSequence(wire) /\ IsSequence(out)
    <2>1. wire = [i \in 1 .. w |-> wire[i]]
      BY <1>5
    <2>2. out = [i \in 1 .. Len(T) - w |-> out[i]]
      BY <1>5
    <2>3. Len(T) - w \in Nat
      BY <1>2
    <2> QED BY <1>2, <2>1, <2>2, <2>3, FunctionIsSequence
  <1>7. wire' = [i \in 1 .. w + n |-> [t |-> T[i].t, m |-> T[i].m]]
    <2> DEFINE e == [i \in 1 .. n |-> [t |-> out[i], m |-> Len(sent)]]
    <2>1. e = [i \in 1 .. n |-> e[i]]
      OBVIOUS
    <2>2. Len(e) = n /\ IsSequence(e)
      <3> HIDE DEF e
      <3> QED BY <1>4, <2>1, FunctionIsSequence
    <2>3. wire' = [i \in 1 .. w + n |-> IF i <= w THEN wire[i] ELSE e[i - w]]
      <3> HIDE DEF e
      <3>1. wire \o e = [i \in 1 .. Len(wire) + Len(e) |->
                            IF i <= Len(wire) THEN wire[i] ELSE e[i - Len(wire)]]
        BY <1>6, <2>2, JoinedSequences
      <3> QED BY <1>2, <1>3, <2>2, <3>1 DEF e
    <2>4. ASSUME NEW i \in 1 .. w + n
          PROVE  (IF i <= w THEN wire[i] ELSE e[i - w]) = [t |-> T[i].t, m |-> T[i].m]
      <3>1. CASE i <= w
        <4>1. i \in 1 .. w
          BY <1>2, <3>1
        <4> HIDE DEF e
        <4> QED BY <1>5, <3>1, <4>1
      <3>2. CASE ~ i <= w
        <4>1. /\ i - w \in 1 .. n /\ i - w \in 1 .. Len(T) - w /\ w + (i - w) = i
              /\ i \in w + 1 .. Len(T)
          BY <1>2, <1>4, <3>2
        <4>2. e[i - w] = [t |-> out[i - w], m |-> Len(sent)]
          BY <4>1
        <4>3. out[i - w] = T[i].t /\ T[i].m = Len(sent)
          BY <1>2, <1>5, <4>1, Zenon
        <4> HIDE DEF e
        <4> QED BY <3>2, <4>2, <4>3
      <3> QED BY <3>1, <3>2
    <2> HIDE DEF e
    <2> QED BY <2>3, <2>4
  <1>8. out' = [i \in 1 .. Len(T) - (w + n) |-> T[(w + n) + i].t]
    <2>1. out' = [i \in 1 .. Len(out) - n |-> out[i + n]]
      BY <1>3, <1>4, <1>6, RestOfSequence
    <2>2. Len(out) - n = Len(T) - (w + n)
      BY <1>2, <1>4
    <2>3. ASSUME NEW i \in 1 .. Len(T) - (w + n)
          PROVE  out[i + n] = T[(w + n) + i].t
      <3>1. i + n \in 1 .. Len(T) - w /\ w + (i + n) = (w + n) + i
        BY <1>2, <1>4
      <3> QED BY <1>2, <3>1
    <2> QED BY <2>1, <2>2, <2>3
  <1>9. w + n \in 0 .. Len(T) /\ \A i \in (w + n) + 1 .. Len(T) : i \in w + 1 .. Len(T)
    BY <1>2, <1>4
  <1>10. Flow(F, T, w + n)'
    BY <1>1, <1>5, <1>7, <1>8, <1>9 DEF Flow
  <1>11. Delivers(F, T, w + n)'
    BY <1>1, <1>10 DEF Delivers, Reading, Taken
  <1> QED BY <1>11

LEMMA WriteFailsDelivers ==
    ASSUME FrTypes, FrTypes', codec' = codec, NEW F, NEW T, NEW w,
           Delivers(F, T, w), WriteFails
    PROVE  \E G, U, x : Delivers(G, U, x)'
  <1>1. /\ Flow(F, T, w) /\ Reading(F, T) /\ Taken(T)
        /\ conn = "up" /\ conn' = "broken" /\ out' = <<>>
        /\ UNCHANGED <<sent, wire, rd, accepted>>
    BY DEF Delivers, WriteFails, readerVars
  <1>2. PICK U : U = Keep(T, w)
    OBVIOUS
  <1>3. /\ Len(T) \in Nat /\ w \in Nat /\ w <= Len(T) /\ w \in 0 .. Len(T)
    BY <1>1, FlowLengths
  <1>4. /\ Laid(F, Len(sent), U) /\ Len(U) = w
        /\ \A i \in 1 .. w : U[i] = T[i]
    BY <1>1, <1>2, <1>3, KeepLaid DEF Flow
  <1>5. Flow(F, U, w)'
    <2>1. wire = [i \in 1 .. w |-> [t |-> U[i].t, m |-> U[i].m]]
      BY <1>1, <1>4 DEF Flow
    <2>2. out' = [i \in 1 .. Len(U) - w |-> U[w + i].t]
      <3> DEFINE z == [i \in 1 .. Len(U) - w |-> U[w + i].t]
      <3>1. Len(U) - w = 0 /\ z = [i \in 1 .. Len(U) - w |-> z[i]]
        BY <1>3, <1>4
      <3> HIDE DEF z
      <3>2. z = <<>>
        BY <3>1, EmptyFunction
      <3> QED BY <1>1, <3>2 DEF z
    <2>3. w \in 0 .. Len(U) /\ \A i \in w + 1 .. Len(U) : U[i].m = Len(sent)
      BY <1>3, <1>4
    <2>4. \A k \in 1 .. Len(sent) : Framed(codec, sent[k], F[k])
      BY <1>1 DEF Flow
    <2> QED BY <1>1, <1>4, <2>1, <2>2, <2>3, <2>4 DEF Flow, Whole
  <1>6. \A m : Fresh(T, m) => Fresh(U, m)
    BY <1>3, <1>4 DEF Fresh
  <1>7. Len(U) > 0 => Len(T) > 0 /\ U[1] = T[1]
    BY <1>3, <1>4
  <1>8. Reading(F, U)'
    <2>1. CASE rd = Idle /\ (codec = "line" => Starting(T))
      <3>1. codec = "line" => Starting(U)
        BY <1>7, <2>1 DEF Starting
      <3> QED BY <1>1, <2>1, <3>1 DEF Reading, ReadingIn
    <2>2. CASE /\ IsReader(rd) /\ rd.from \in 1 .. Len(sent) /\ Fresh(T, rd.from)
               /\ Reads(codec, sent[rd.from], F[rd.from], rd, T, FALSE)
      <3>1. \A m, p : Await(T, FALSE, m, p) => Await(U, TRUE, m, p)
        BY <1>7 DEF Await
      <3>2. Lost(T) => Lost(U)
        BY <1>7 DEF Lost
      <3>3. Reads(codec, sent[rd.from], F[rd.from], rd, U, TRUE)
        BY <2>2, <3>1, <3>2, ReadsOn DEF FrTypes
      <3> QED BY <1>1, <1>6, <2>2, <3>3 DEF Reading, ReadingIn
    <2>3. (conn = "broken") = FALSE
      BY <1>1
    <2> QED BY <1>1, <2>1, <2>2, <2>3 DEF Reading, ReadingIn
  <1>9. Taken(U)'
    <2>1. TakenIn(codec, sent, T, rd, accepted)
      BY <1>1 DEF Taken
    <2>2. TakenIn(codec, sent, U, rd, accepted)
      BY <1>6, <2>1 DEF TakenIn
    <2> QED BY <1>1, <2>2 DEF Taken
  <1> QED BY <1>5, <1>8, <1>9 DEF Delivers

LEMMA ConnectionDelivers ==
    ASSUME FrTypes, FrTypes', codec' = codec, NEW F, NEW T, NEW w,
           Delivers(F, T, w), Connection
    PROVE  \E G, U, x : Delivers(G, U, x)'
  <1>1. Flow(F, T, w) /\ Reading(F, T) /\ Taken(T)
    BY DEF Delivers
  <1>2. CASE OpenClient \/ StartUpSSL
    <2>1. /\ conn \in {"down", "tcp"} /\ conn' \in {"down", "tcp", "up"}
          /\ UNCHANGED <<sent, out, wire, rd, accepted>>
      BY <1>2 DEF OpenClient, StartUpSSL, writerVars, readerVars
    <2>2. Len(T) = 0
      BY <1>1, <2>1 DEF Flow
    <2>3. /\ (conn = "broken") = FALSE /\ (conn' = "broken") = FALSE
      BY <2>1
    <2>4. Flow(F, T, w)'
      BY <1>1, <2>1, <2>2, <2>3 DEF Flow
    <2>5. Reading(F, T)' /\ Taken(T)'
      BY <1>1, <2>1, <2>3 DEF Reading, Taken
    <2> QED BY <2>4, <2>5 DEF Delivers
  <1>3. CASE DoClose
    <2>1. /\ conn = "broken" /\ conn' = "down" /\ rd = Idle /\ wire' = <<>>
          /\ UNCHANGED <<sent, out, rd, accepted>>
      BY <1>3 DEF DoClose, writerVars, readerVars
    <2>2. PICK U : U = Drop(T, Len(T))
      OBVIOUS
    <2>3. w = Len(T) /\ Len(T) \in Nat /\ Len(T) \in 0 .. Len(T) /\ IsSequence(T)
      BY <1>1, <2>1, FlowLengths DEF Flow
    <2>4. /\ Laid(F, Len(sent), U) /\ Len(U) = 0
          /\ \A m : Fresh(T, m) => Fresh(U, m)
      <3>1. Len(U) = Len(T) - Len(T)
        BY <2>2, <2>3, DropFacts
      <3> QED BY <1>1, <2>2, <2>3, <3>1, DropLaid, FreshDrop DEF Flow
    <2>5. Flow(F, U, 0)'
      <3>1. wire' = [i \in 1 .. 0 |-> [t |-> U[i].t, m |-> U[i].m]]
        <4> DEFINE z == [i \in 1 .. 0 |-> [t |-> U[i].t, m |-> U[i].m]]
        <4>1. z = [i \in 1 .. 0 |-> z[i]]
          OBVIOUS
        <4> HIDE DEF z
        <4>2. z = <<>>
          BY <4>1, EmptyFunction
        <4> QED BY <2>1, <4>2 DEF z
      <3>2. out' = [i \in 1 .. Len(U) - 0 |-> U[0 + i].t]
        <4> DEFINE z == [i \in 1 .. Len(U) - 0 |-> U[0 + i].t]
        <4>1. z = [i \in 1 .. Len(U) - 0 |-> z[i]] /\ Len(U) - 0 = 0
          BY <2>4
        <4> HIDE DEF z
        <4>2. z = <<>>
          BY <4>1, EmptyFunction
        <4>3. out = <<>>
          BY <1>1, <2>3, FlowLengths
        <4> QED BY <2>1, <4>2, <4>3 DEF z
      <3>3. \A k \in 1 .. Len(sent) : Framed(codec, sent[k], F[k])
        BY <1>1 DEF Flow
      <3>4. 0 \in 0 .. Len(U) /\ \A i \in 0 + 1 .. Len(U) : U[i].m = Len(sent)
        BY <2>4
      <3>5. Whole(F, U, conn' = "broken")
        BY <2>4 DEF Whole
      <3> QED BY <2>1, <2>4, <3>1, <3>2, <3>3, <3>4, <3>5 DEF Flow
    <2>6. Reading(F, U)'
      BY <2>1, <2>4 DEF Reading, ReadingIn, Starting
    <2>7. Taken(U)'
      <3>1. TakenIn(codec, sent, T, rd, accepted)
        BY <1>1 DEF Taken
      <3>2. TakenIn(codec, sent, U, rd, accepted)
        BY <2>4, <3>1 DEF TakenIn
      <3> QED BY <2>1, <3>2 DEF Taken
    <2> QED BY <2>5, <2>6, <2>7 DEF Delivers
  <1> QED BY <1>2, <1>3 DEF Connection

-----------------------------------------------------------------------------
(* The readers: what all of them have in common.                             *)

\* Message m is the one that is read, or was when it was returned.
Current(U, m) ==
    /\ m \in 1 .. Len(sent) /\ Fresh(U, m)
    /\ \A k \in 1 .. Len(accepted) : accepted[k].m < m

\* d characters are taken, and U is what is left.
Takes(T, w, d, U) ==
    /\ d \in 0 .. w /\ U = Drop(T, d)
    /\ wire' = [i \in 1 .. w - d |-> wire[i + d]]

GivesUp(U) ==
    rd' = Idle /\ UNCHANGED accepted /\ (codec = "line" => Starting(U))

GoesOn(F, U, m) ==
    /\ IsReader(rd') /\ rd'.from = m /\ UNCHANGED accepted
    /\ Reads(codec, sent[m], F[m], rd', U, conn = "broken")

Returns(U, m) ==
    /\ rd' = Idle /\ (codec = "line" => Starting(U))
    /\ \E z : /\ GoodContent(codec, sent[m], z)
              /\ accepted' = Append(accepted, [m |-> m, content |-> z])

ReaderStep(F, T, w) ==
    \E d, U : /\ Takes(T, w, d, U)
              /\ \/ GivesUp(U)
                 \/ \E m : Current(U, m) /\ (GoesOn(F, U, m) \/ Returns(U, m))

LEMMA TakesFlow ==
    ASSUME NEW F, NEW T, NEW w, Flow(F, T, w), NEW d, NEW U, Takes(T, w, d, U),
           UNCHANGED <<writerVars, conn, cut>>
    PROVE  Flow(F, U, w - d)' /\ \A m : Fresh(T, m) => Fresh(U, m)
  <1>1. /\ Len(T) \in Nat /\ w \in Nat /\ w <= Len(T) /\ IsSequence(T)
        /\ d \in 0 .. w /\ d \in 0 .. Len(T) /\ Len(wire) = w
    BY FlowLengths DEF Takes
  <1>2. /\ Laid(F, Len(sent), U) /\ Len(U) = Len(T) - d
        /\ \A i \in 1 .. Len(T) - d : U[i] = T[i + d]
        /\ \A m : Fresh(T, m) => Fresh(U, m)
    BY <1>1, DropLaid, DropFacts, FreshDrop DEF Flow, Takes
  <1>3. UNCHANGED <<codec, out, sent, conn>>
    BY DEF writerVars
  <1>4. wire' = [i \in 1 .. w - d |-> [t |-> U[i].t, m |-> U[i].m]]
    <2>1. wire = [i \in 1 .. w |-> [t |-> T[i].t, m |-> T[i].m]]
      BY DEF Flow
    <2>2. ASSUME NEW i \in 1 .. w - d
          PROVE  wire[i + d] = [t |-> U[i].t, m |-> U[i].m]
      <3>1. i + d \in 1 .. w /\ i \in 1 .. Len(T) - d
        BY <1>1
      <3> QED BY <1>2, <2>1, <3>1
    <2> QED BY <2>2 DEF Takes
  <1>5. out' = [i \in 1 .. Len(U) - (w - d) |-> U[(w - d) + i].t]
    <2>1. out = [i \in 1 .. Len(T) - w |-> T[w + i].t]
      BY DEF Flow
    <2>2. Len(U) - (w - d) = Len(T) - w
      BY <1>1, <1>2
    <2>3. ASSUME NEW i \in 1 .. Len(T) - w PROVE U[(w - d) + i] = T[w + i]
      <3>1. (w - d) + i \in 1 .. Len(T) - d /\ ((w - d) + i) + d = w + i
        BY <1>1
      <3> QED BY <1>2, <3>1
    <2> QED BY <1>3, <2>1, <2>2, <2>3
  <1>6. \A i \in (w - d) + 1 .. Len(U) : U[i].m = Len(sent)
    <2> SUFFICES ASSUME NEW i \in (w - d) + 1 .. Len(U) PROVE U[i].m = Len(sent)
      OBVIOUS
    <2>1. i \in 1 .. Len(T) - d /\ i + d \in w + 1 .. Len(T)
      BY <1>1, <1>2
    <2> QED BY <1>2, <2>1 DEF Flow
  <1>7. Whole(F, U, conn = "broken")
    <2> SUFFICES ASSUME conn # "broken", Len(U) > 0
                 PROVE  U[Len(U)].p = Len(F[U[Len(U)].m])
      BY DEF Whole
    <2>1. Len(U) \in 1 .. Len(T) - d /\ Len(U) + d = Len(T) /\ Len(T) > 0
      BY <1>1, <1>2
    <2>2. U[Len(U)] = T[Len(T)]
      BY <1>2, <2>1
    <2> QED BY <2>1, <2>2 DEF Flow, Whole
  <1>8. /\ w - d \in 0 .. Len(U) /\ (conn = "broken" => w - d = Len(U))
        /\ conn \in {"down", "tcp"} => Len(U) = 0
    BY <1>1, <1>2 DEF Flow
  <1>9. \A k \in 1 .. Len(sent) : Framed(codec, sent[k], F[k])
    BY DEF Flow
  <1> QED BY <1>2, <1>3, <1>4, <1>5, <1>6, <1>7, <1>8, <1>9 DEF Flow

LEMMA AppendedSequence ==
    ASSUME NEW s, IsSequence(s), NEW e
    PROVE  /\ Len(Append(s, e)) = Len(s) + 1 /\ IsSequence(Append(s, e))
           /\ \A i \in 1 .. Len(s) : Append(s, e)[i] = s[i]
           /\ Append(s, e)[Len(s) + 1] = e
  <1> DEFINE S == {s[i] : i \in 1 .. Len(s)} \cup {e}  n == Len(s)
  <1>1. n \in Nat /\ s = [i \in 1 .. n |-> s[i]] /\ \A i \in 1 .. n : s[i] \in S
    BY DEF IsSequence
  <1> HIDE DEF S
  <1>2. s \in Seq(S) /\ e \in S
    <2>1. s \in [1 .. n -> S]
      <3> HIDE DEF n
      <3> QED BY <1>1
    <2> QED BY <1>1, <2>1, SeqDef DEF S
  <1>3. /\ Append(s, e) \in Seq(S) /\ Len(Append(s, e)) = n + 1
        /\ \A i \in 1 .. n : Append(s, e)[i] = s[i]
        /\ Append(s, e)[n + 1] = e
    BY <1>2, AppendProperties
  <1>4. Append(s, e) = [i \in 1 .. n + 1 |-> Append(s, e)[i]]
    <2> DEFINE a == Append(s, e)
    <2>1. a \in Seq(S) /\ Len(a) = n + 1
      BY <1>3
    <2> HIDE DEF a, n
    <2>2. a = [i \in 1 .. n + 1 |-> a[i]]
      BY <2>1
    <2> QED BY <2>2 DEF a
  <1> QED BY <1>1, <1>3, <1>4 DEF IsSequence

LEMMA StepDelivers ==
    ASSUME FrTypes, NEW F, NEW T, NEW w, Delivers(F, T, w), ReaderStep(F, T, w),
           UNCHANGED <<writerVars, conn, cut>>
    PROVE  \E G, U, x : Delivers(G, U, x)'
  <1>1. PICK d, U : /\ Takes(T, w, d, U)
                    /\ \/ GivesUp(U)
                       \/ \E m : Current(U, m) /\ (GoesOn(F, U, m) \/ Returns(U, m))
    BY DEF ReaderStep
  <1>2. UNCHANGED <<codec, sent, conn>>
    BY DEF writerVars
  <1>3. Flow(F, U, w - d)' /\ \A m : Fresh(T, m) => Fresh(U, m)
    BY <1>1, TakesFlow DEF Delivers
  <1>4. TakenIn(codec, sent, T, rd, accepted)
    BY DEF Delivers, Taken
  <1>5. /\ IsSequence(accepted)
        /\ \A k \in 1 .. Len(accepted) :
              /\ accepted[k].m \in 1 .. Len(sent) /\ Fresh(U, accepted[k].m)
              /\ GoodContent(codec, sent[accepted[k].m], accepted[k].content)
              /\ \A j \in 1 .. k - 1 : accepted[j].m < accepted[k].m
    BY <1>3, <1>4 DEF TakenIn
  <1>6. CASE GivesUp(U)
    <2>1. TakenIn(codec, sent, U, rd', accepted)
      BY <1>5, <1>6 DEF TakenIn, GivesUp
    <2>2. Reading(F, U)'
      BY <1>2, <1>6 DEF Reading, ReadingIn, GivesUp
    <2>3. Taken(U)'
      BY <1>2, <1>6, <2>1 DEF Taken, GivesUp
    <2> QED BY <1>3, <2>2, <2>3 DEF Delivers
  <1>7. ASSUME NEW m, Current(U, m), GoesOn(F, U, m)
        PROVE  \E G, V, x : Delivers(G, V, x)'
    <2>1. TakenIn(codec, sent, U, rd', accepted)
      BY <1>5, <1>7 DEF TakenIn, GoesOn, Current
    <2>2. Reading(F, U)'
      BY <1>2, <1>7 DEF Reading, ReadingIn, GoesOn, Current
    <2>3. Taken(U)'
      BY <1>2, <1>7, <2>1 DEF Taken, GoesOn
    <2> QED BY <1>3, <2>2, <2>3 DEF Delivers
  <1>8. ASSUME NEW m, Current(U, m), Returns(U, m)
        PROVE  \E G, V, x : Delivers(G, V, x)'
    <2> DEFINE n == Len(accepted)
    <2>1. PICK z : /\ GoodContent(codec, sent[m], z)
                   /\ accepted' = Append(accepted, [m |-> m, content |-> z])
      BY <1>8 DEF Returns
    <2>2. PICK e : e = [m |-> m, content |-> z]
      OBVIOUS
    <2>3. e.m = m /\ e.content = z /\ accepted' = Append(accepted, e)
      BY <2>1, <2>2
    <2>4. /\ Len(accepted') = n + 1 /\ IsSequence(accepted') /\ n \in Nat
          /\ \A i \in 1 .. n : accepted'[i] = accepted[i]
          /\ accepted'[n + 1] = e
      BY <1>5, <2>3, AppendedSequence DEF IsSequence
    <2> HIDE DEF n
    <2>5. m \in 1 .. Len(sent) /\ Fresh(U, m) /\ \A k \in 1 .. n : accepted[k].m < m
      BY <1>8 DEF Current, n
    <2>6. ASSUME NEW k \in 1 .. n + 1
          PROVE  /\ accepted'[k].m \in 1 .. Len(sent) /\ Fresh(U, accepted'[k].m)
                 /\ GoodContent(codec, sent[accepted'[k].m], accepted'[k].content)
                 /\ \A j \in 1 .. k - 1 : accepted'[j].m < accepted'[k].m
      <3>1. CASE k \in 1 .. n
        <4>1. \A j \in 1 .. k - 1 : j \in 1 .. n
          BY <2>4, <3>1
        <4> QED BY <1>5, <2>4, <3>1, <4>1 DEF n
      <3>2. CASE k = n + 1
        <4>1. \A j \in 1 .. k - 1 : j \in 1 .. n
          BY <2>4, <3>2
        <4> QED BY <2>1, <2>3, <2>4, <2>5, <3>2, <4>1
      <3> QED BY <2>4, <3>1, <3>2
    <2>7. rd' = Idle /\ (codec = "line" => Starting(U))
      BY <1>8 DEF Returns
    <2>8. TakenIn(codec, sent, U, rd', accepted')
      BY <2>4, <2>6, <2>7 DEF TakenIn
    <2>9. Reading(F, U)' /\ Taken(U)'
      BY <1>2, <2>7, <2>8 DEF Reading, ReadingIn, Taken
    <2> QED BY <1>3, <2>9 DEF Delivers
  <1> QED BY <1>1, <1>6, <1>7, <1>8

LEMMA ArriveTakes ==
    ASSUME NEW F, NEW T, NEW w, Flow(F, T, w), NEW n \in Nat, Arrive(n)
    PROVE  /\ Takes(T, w, n, Drop(T, n)) /\ n \in 0 .. w /\ n \in 0 .. Len(T)
           /\ \A i \in 1 .. n : wire[i].t = T[i].t /\ wire[i].m = T[i].m
  <1>1. /\ w \in Nat /\ w <= Len(T) /\ Len(T) \in Nat /\ Len(wire) = w
        /\ \A i \in 1 .. w : wire[i].t = T[i].t /\ wire[i].m = T[i].m
    BY FlowLengths
  <1>2. n \in 0 .. w /\ n \in 0 .. Len(T) /\ \A i \in 1 .. n : i \in 1 .. w
    BY <1>1 DEF Arrive
  <1>3. IsSequence(wire)
    <2>1. wire = [i \in 1 .. w |-> [t |-> T[i].t, m |-> T[i].m]]
      BY DEF Flow
    <2>2. wire = [i \in 1 .. w |-> wire[i]]
      BY <2>1
    <2> QED BY <1>1, <2>2, FunctionIsSequence
  <1>4. wire' = [i \in 1 .. w - n |-> wire[i + n]]
    BY <1>1, <1>2, <1>3, RestOfSequence DEF Arrive
  <1> QED BY <1>1, <1>2, <1>4 DEF Takes

LEMMA LapseTakes ==
    ASSUME NEW F, NEW T, NEW w, Flow(F, T, w), NEW n \in Nat, Lapse(n)
    PROVE  /\ Takes(T, w, w, Drop(T, w)) /\ w < n /\ w \in 0 .. Len(T)
           /\ \/ conn = "broken" \/ w = Len(T) \/ Accident("timeouts")
  <1>1. /\ w \in Nat /\ w <= Len(T) /\ Len(T) \in Nat /\ Len(wire) = w
        /\ out = <<>> <=> w = Len(T)
    BY FlowLengths
  <1>2. wire' = [i \in 1 .. w - w |-> wire[i + w]]
    <2> DEFINE z == [i \in 1 .. w - w |-> wire[i + w]]
    <2>1. z = [i \in 1 .. w - w |-> z[i]] /\ w - w = 0
      BY <1>1
    <2> HIDE DEF z
    <2>2. z = <<>>
      BY <2>1, EmptyFunction
    <2> QED BY <2>2 DEF z, Lapse
  <1>3. w \in 0 .. w /\ w \in 0 .. Len(T) /\ w < n
    BY <1>1 DEF Lapse
  <1>4. conn = "broken" \/ w = Len(T) \/ Accident("timeouts")
    BY <1>1 DEF Lapse, Starved
  <1> QED BY <1>2, <1>3, <1>4 DEF Takes

\* A reader in the middle of a message.
LEMMA InMessage ==
    ASSUME FrTypes, Steady, NEW F, NEW T, NEW w, Delivers(F, T, w), rd # Idle
    PROVE  /\ IsReader(rd) /\ rd.from \in 1 .. Len(sent)
           /\ Reads(codec, sent[rd.from], F[rd.from], rd, T, conn = "broken")
           /\ Framed(codec, sent[rd.from], F[rd.from])
           /\ PlainFor(codec, sent[rd.from])
           /\ Laid(F, Len(sent), T) /\ Whole(F, T, conn = "broken")
           /\ \A d \in 0 .. Len(T) : Current(Drop(T, d), rd.from)
  <1>1. Flow(F, T, w) /\ Reading(F, T) /\ Taken(T)
    BY DEF Delivers
  <1>2. /\ IsReader(rd) /\ rd.from \in 1 .. Len(sent) /\ Fresh(T, rd.from)
        /\ Reads(codec, sent[rd.from], F[rd.from], rd, T, conn = "broken")
    BY <1>1 DEF Reading, ReadingIn
  <1>3. Framed(codec, sent[rd.from], F[rd.from])
    BY <1>1, <1>2 DEF Flow
  <1>4. PlainFor(codec, sent[rd.from])
    <2>1. rd.from \in DOMAIN sent
      BY <1>2 DEF FrTypes
    <2> QED BY <2>1 DEF Steady, Undisturbed
  <1>5. IsSequence(T)
    BY <1>1, FlowLengths
  <1>6. \A k \in 1 .. Len(accepted) : accepted[k].m < rd.from
    BY <1>1 DEF Taken, TakenIn
  <1>7. \A d \in 0 .. Len(T) : Current(Drop(T, d), rd.from)
    BY <1>2, <1>5, <1>6, FreshDrop DEF Current
  <1> QED BY <1>1, <1>2, <1>3, <1>4, <1>7 DEF Flow

-----------------------------------------------------------------------------
(* The first character, and the readers of packets and of lengths.           *)

LEMMA BeginsFacts ==
    ASSUME NEW S, NEW v \in Seq(S), NEW s, Begins(s, v)
    PROVE  /\ Len(s) = Len(v) => s = v
           /\ \A e : /\ IsSequence(e) /\ Len(e) = 1 /\ Len(s) < Len(v)
                     /\ e[1] = v[Len(s) + 1]
                     => Begins(s \o e, v) /\ Len(s \o e) = Len(s) + 1
  <1> DEFINE a == Len(s)  l == Len(v)
  <1>1. /\ a \in Nat /\ l \in Nat /\ a <= l /\ s = [i \in 1 .. a |-> s[i]]
        /\ \A i \in 1 .. a : s[i] = v[i]
    BY DEF Begins, IsSequence
  <1>2. v = [i \in 1 .. l |-> v[i]]
    BY LenProperties
  <1>3. a = l => s = v
    <2> HIDE DEF a, l
    <2> QED BY <1>1, <1>2
  <1>4. ASSUME NEW e, IsSequence(e), Len(e) = 1, a < l, e[1] = v[a + 1]
        PROVE  Begins(s \o e, v) /\ Len(s \o e) = a + 1
    <2>1. s \o e = [i \in 1 .. a + 1 |-> IF i <= a THEN s[i] ELSE e[i - a]]
      <3>1. s \o e = [i \in 1 .. Len(s) + Len(e) |->
                        IF i <= Len(s) THEN s[i] ELSE e[i - Len(s)]]
        BY <1>4, JoinedSequences DEF Begins
      <3> QED BY <1>4, <3>1
    <2> DEFINE j == s \o e
    <2> HIDE DEF j
    <2>2. j = [i \in 1 .. a + 1 |-> j[i]]
      BY <2>1 DEF j
    <2> HIDE DEF a, l
    <2>3. a + 1 \in Nat /\ a + 1 <= l
      BY <1>1, <1>4
    <2>4. Len(j) = a + 1 /\ IsSequence(j)
      BY <2>2, <2>3, FunctionIsSequence
    <2>5. ASSUME NEW i \in 1 .. a + 1 PROVE j[i] = v[i]
      <3>1. j[i] = IF i <= a THEN s[i] ELSE e[i - a]
        BY <2>1 DEF j
      <3>2. CASE i <= a
        <4>1. i \in 1 .. a
          BY <1>1, <3>2
        <4> QED BY <1>1, <3>1, <3>2, <4>1
      <3>3. CASE ~ i <= a
        <4>1. i = a + 1 /\ i - a = 1
          BY <1>1, <3>3
        <4> QED BY <1>4, <3>1, <3>3, <4>1
      <3> QED BY <3>2, <3>3
    <2> QED BY <2>3, <2>4, <2>5 DEF Begins, j, l
  <1> QED BY <1>3, <1>4

\* Reading one character.
LEMMA AwaitOne ==
    ASSUME NEW F, NEW n, NEW T, Laid(F, n, T), NEW b \in BOOLEAN, Whole(F, T, b),
           NEW m, NEW p \in Nat, Await(T, b, m, p), 1 \in 0 .. Len(T),
           p + 1 <= Len(F[m])
    PROVE  /\ T[1].t = F[m][p + 1]
           /\ p + 1 < Len(F[m]) => Await(Drop(T, 1), b, m, p + 1)
  <1>1. 1 \in 1 .. 1
    OBVIOUS
  <1>2. \A k \in 1 .. 1 : T[k].t = F[m][p + k]
    BY AwaitDrop
  <1>3. p + 1 < Len(F[m]) => Await(Drop(T, 1), b, m, p + 1)
    BY AwaitDrop
  <1> QED BY <1>1, <1>2, <1>3

LEMMA IdleIsReader ==
    /\ IsReader(Idle) /\ Idle.pc = "idle" /\ Idle.buf = <<>>
    /\ Idle.c = NewIcomm(0)
  BY DEF Idle, IsReader

LEMMA FirstStep ==
    ASSUME FrTypes, Steady, NEW F, NEW T, NEW w, Delivers(F, T, w), ReadFirst
    PROVE  ReaderStep(F, T, w)
  <1>1. /\ rd = Idle /\ wire # <<>> /\ codec # "line" /\ Flow(F, T, w)
        /\ Taken(T)
    BY DEF Delivers, ReadFirst
  <1>2. CASE rd' = Idle /\ UNCHANGED accepted /\ (Arrive(1) \/ Lapse(1))
    <2>1. \E d : Takes(T, w, d, Drop(T, d))
      BY <1>1, <1>2, ArriveTakes, LapseTakes
    <2> QED BY <1>1, <1>2, <2>1 DEF ReaderStep, GivesUp
  <1>3. CASE /\ Arrive(1) /\ wire[1].t = STX /\ UNCHANGED accepted
             /\ rd' = [Idle EXCEPT !.pc = codec, !.from = Head(wire).m]
    <2>1. PICK U, m : U = Drop(T, 1) /\ m = T[1].m
      OBVIOUS
    <2>2. /\ Takes(T, w, 1, U) /\ 1 \in 0 .. w /\ 1 \in 0 .. Len(T) /\ 1 \in 1 .. Len(T)
          /\ wire[1].t = T[1].t /\ wire[1].m = T[1].m
      <3>1. Len(T) \in Nat
        BY <1>1, FlowLengths
      <3> QED BY <1>1, <1>3, <2>1, <3>1, ArriveTakes
    <2>3. Head(wire).m = m
      BY <2>1, <2>2
    <2>4. /\ Laid(F, Len(sent), T) /\ Whole(F, T, conn = "broken")
          /\ m \in 1 .. Len(sent) /\ T[1].p \in 1 .. Len(F[m])
          /\ F[m][T[1].p] = STX /\ Framed(codec, sent[m], F[m])
      BY <1>1, <1>3, <2>1, <2>2 DEF Flow, Laid
    <2>5. PlainFor(codec, sent[m])
      <3>1. m \in DOMAIN sent
        BY <2>4 DEF FrTypes
      <3> QED BY <3>1 DEF Steady, Undisturbed
    <2>6. T[1].p = 1
      <3>1. \A i \in 1 .. Len(F[m]) : F[m][i] = STX <=> i = 1
        BY <1>1, <2>4, <2>5, FrameFacts DEF FrTypes
      <3> QED BY <2>4, <3>1
    <2>7. Current(U, m)
      <3>1. /\ Len(U) = Len(T) - 1 /\ Len(T) \in Nat
            /\ \A i \in 1 .. Len(T) - 1 : U[i] = T[i + 1]
        <4>1. Len(T) \in Nat /\ IsSequence(T)
          BY <1>1, FlowLengths
        <4> QED BY <2>1, <2>2, <4>1, DropFacts
      <3>2. Fresh(U, m)
        <4> SUFFICES ASSUME NEW i \in 1 .. Len(T) - 1, T[i + 1].p = 1
                     PROVE  m < T[i + 1].m
          BY <3>1 DEF Fresh
        <4>1. i + 1 \in 1 .. Len(T) /\ 1 < i + 1
          BY <3>1
        <4> QED BY <2>1, <2>2, <2>4, <4>1 DEF Laid
      <3>3. \A k \in 1 .. Len(accepted) : accepted[k].m < m
        BY <1>1, <2>1, <2>2, <2>6 DEF Taken, TakenIn, Fresh
      <3> QED BY <2>4, <3>2, <3>3 DEF Current
    <2>8. /\ Len(F[m]) > 1 /\ (codec = "packet" => Len(sent[m]) \in Nat)
      BY <1>1, <2>4, <2>5, IcommFrame, PacketFrame, LengthFrame DEF FrTypes
    <2>9. Await(U, conn = "broken", m, 1)
      <3>1. Await(T, conn = "broken", m, 0)
        BY <2>1, <2>2, <2>6 DEF Await
      <3>2. 0 \in Nat /\ 0 + 1 < Len(F[m]) /\ 0 + 1 <= Len(F[m]) /\ 0 + 1 = 1
            /\ Len(F[m]) \in Nat /\ (conn = "broken") \in BOOLEAN
        BY <2>4, <2>8 DEF Laid, IsSequence
      <3> DEFINE b == conn = "broken"
      <3>3. b \in BOOLEAN /\ Await(T, b, m, 0) /\ Whole(F, T, b)
        BY <2>4, <3>1
      <3> HIDE DEF b
      <3>4. Await(U, b, m, 0 + 1)
        BY <2>1, <2>2, <2>4, <3>2, <3>3, AwaitOne
      <3> QED BY <3>2, <3>4 DEF b
    <2>10. /\ IsReader(rd') /\ rd'.from = m /\ rd'.pc = codec /\ rd'.buf = <<>>
           /\ rd'.c = NewIcomm(0)
      BY <1>3, <2>3 DEF Idle, IsReader
    <2>11. codec = "packet" => Begins(<<>>, sent[m]) /\ Len(<<>>) + 1 = 1
      <3>1. codec = "packet" => Len(sent[m]) \in Nat
        BY <2>8
      <3>2. IsSequence(<<>>) /\ Len(<<>>) = 0
        <4>1. <<>> = [i \in 1 .. 0 |-> <<>>[i]]
          OBVIOUS
        <4> QED BY <4>1 DEF IsSequence
      <3> QED BY <3>1, <3>2 DEF Begins
    <2>12. Reads(codec, sent[m], F[m], rd', U, conn = "broken")
      <3>1. CASE codec = "icomm"
        BY <2>9, <2>10, <3>1 DEF Reads, IcommAt
      <3>2. CASE codec = "packet"
        BY <2>9, <2>10, <2>11, <3>2 DEF Reads, PacketAt
      <3>3. CASE codec = "len"
        BY <2>9, <2>10, <3>3 DEF Reads, LenAt
      <3> QED BY <1>1, <3>1, <3>2, <3>3 DEF FrTypes
    <2> QED BY <1>3, <2>2, <2>7, <2>10, <2>12 DEF ReaderStep, GoesOn
  <1> QED BY <1>2, <1>3 DEF ReadFirst, DoRead, Refuse, To

\* A reader that gives up loses what it has.
LEMMA Refused ==
    ASSUME FrTypes, NEW F, NEW T, NEW w, Delivers(F, T, w), codec # "line",
           NEW n \in Nat, Arrive(n) \/ Lapse(n), Refuse
    PROVE  ReaderStep(F, T, w)
  <1>1. \E d : Takes(T, w, d, Drop(T, d))
    BY ArriveTakes, LapseTakes DEF Delivers
  <1> QED BY <1>1 DEF ReaderStep, GivesUp, Refuse, To

LEMMA PacketStep ==
    ASSUME FrTypes, Steady, NEW F, NEW T, NEW w, Delivers(F, T, w),
           ReadPacket \/ ReadPacketLrc
    PROVE  ReaderStep(F, T, w)
  <1>0. rd.pc \in {"packet", "packetlrc"} /\ rd # Idle /\ (conn = "broken") \in BOOLEAN
    BY IdleIsReader DEF ReadPacket, ReadPacketLrc
  <1>1. PICK m, v, f : m = rd.from /\ v = sent[m] /\ f = F[m]
    OBVIOUS
  <1>2. /\ IsReader(rd) /\ Reads(codec, v, f, rd, T, conn = "broken")
        /\ Framed(codec, v, f) /\ PlainFor(codec, v)
        /\ Laid(F, Len(sent), T) /\ Whole(F, T, conn = "broken")
        /\ \A d \in 0 .. Len(T) : Current(Drop(T, d), m)
    BY <1>0, <1>1, InMessage
  <1>3. codec = "packet" /\ PacketAt(v, rd, T, conn = "broken", m)
    BY <1>0, <1>1, <1>2, Zenon DEF Reads, IcommAt, LenAt, LineAt, FrTypes
  <1>4. /\ v \in Seq(Range(v)) /\ Len(v) \in Nat /\ Len(f) = Len(v) + 3
        /\ \A i \in 1 .. Len(v) : f[1 + i] = v[i] /\ v[i] \notin {STX, ETX}
        /\ f[Len(v) + 2] = ETX
    BY <1>2, <1>3, PacketFrame
  <1>5. CASE Refuse /\ (Arrive(1) \/ Lapse(1))
    BY <1>3, <1>5, Refused
  <1>6. CASE /\ Arrive(1) /\ rd.pc = "packet"
             /\ IF wire[1].t = ETX THEN Goto("packetlrc")
                ELSE To([rd EXCEPT !.buf = @ \o [i \in 1 .. 1 |-> wire[i].t]])
    <2>1. PICK U : U = Drop(T, 1)
      OBVIOUS
    <2>2. /\ Takes(T, w, 1, U) /\ 1 \in 0 .. Len(T) /\ wire[1].t = T[1].t
          /\ Current(U, m)
      BY <1>2, <1>6, <2>1, ArriveTakes DEF Delivers
    <2> DEFINE p == Len(rd.buf) + 1
    <2>3. /\ Begins(rd.buf, v) /\ Await(T, conn = "broken", m, p)
          /\ Len(rd.buf) \in Nat /\ Len(rd.buf) <= Len(v)
      BY <1>3, <1>6 DEF PacketAt, Begins, IsSequence
    <2>4. p \in Nat /\ p + 1 < Len(F[m]) /\ p + 1 <= Len(F[m]) /\ 1 \in 1 .. 1
      BY <1>1, <1>4, <2>3
    <2> HIDE DEF p
    <2>5. T[1].t = f[p + 1] /\ Await(U, conn = "broken", m, p + 1)
      <3> DEFINE b == conn = "broken"
      <3>1. b \in BOOLEAN /\ Await(T, b, m, p) /\ Whole(F, T, b)
        BY <1>2, <2>3
      <3> HIDE DEF b
      <3>2. T[1].t = F[m][p + 1] /\ Await(U, b, m, p + 1)
        BY <1>2, <2>1, <2>2, <2>4, <3>1, AwaitOne
      <3> QED BY <1>1, <3>2 DEF b
    <2>6. CASE Len(rd.buf) = Len(v)
      <3>1. rd.buf = v
        BY <1>4, <2>3, <2>6, BeginsFacts
      <3>2. p + 1 = Len(v) + 2
        BY <1>4, <2>6 DEF p
      <3>3. T[1].t = ETX
        BY <1>4, <2>5, <3>2
      <3>4. rd' = [rd EXCEPT !.pc = "packetlrc"] /\ UNCHANGED accepted
        BY <1>6, <2>2, <3>3 DEF Goto, To
      <3>5. IsReader(rd') /\ rd'.from = m /\ rd'.pc = "packetlrc" /\ rd'.buf = v
        BY <1>1, <1>2, <3>1, <3>4 DEF IsReader
      <3>6. GoesOn(F, U, m)
        BY <1>1, <1>3, <3>4, <3>5 DEF GoesOn, Reads, PacketAt
      <3> QED BY <2>2, <3>6 DEF ReaderStep
    <2>7. CASE Len(rd.buf) # Len(v)
      <3>1. /\ Len(rd.buf) + 1 \in 1 .. Len(v) /\ Len(rd.buf) < Len(v)
            /\ 1 + (Len(rd.buf) + 1) = p + 1
        BY <1>4, <2>3, <2>7 DEF p
      <3>2. T[1].t = v[Len(rd.buf) + 1] /\ T[1].t # ETX
        BY <1>4, <2>5, <3>1
      <3>3. PICK e : e = [i \in 1 .. 1 |-> wire[i].t]
        OBVIOUS
      <3>4. IsSequence(e) /\ Len(e) = 1 /\ e[1] = T[1].t
        <4>1. e = [i \in 1 .. 1 |-> e[i]] /\ e[1] = wire[1].t /\ 1 \in Nat
          BY <3>3
        <4> QED BY <2>2, <4>1, FunctionIsSequence
      <3>5. Begins(rd.buf \o e, v) /\ Len(rd.buf \o e) = Len(rd.buf) + 1
        BY <1>4, <2>3, <3>1, <3>2, <3>4, BeginsFacts
      <3>6. rd' = [rd EXCEPT !.buf = @ \o e] /\ UNCHANGED accepted
        BY <1>6, <2>2, <3>2, <3>3 DEF To
      <3>7. /\ IsReader(rd') /\ rd'.from = m /\ rd'.pc = "packet"
            /\ rd'.buf = rd.buf \o e
        BY <1>1, <1>2, <1>6, <3>6 DEF IsReader
      <3>8. Len(rd'.buf) + 1 = p + 1
        BY <2>3, <3>5, <3>7 DEF p
      <3>9. PacketAt(v, rd', U, conn = "broken", m)
        BY <2>5, <3>5, <3>7, <3>8 DEF PacketAt
      <3>10. GoesOn(F, U, m)
        BY <1>1, <1>3, <3>6, <3>7, <3>9 DEF GoesOn, Reads
      <3> QED BY <2>2, <3>10 DEF ReaderStep
    <2> QED BY <2>6, <2>7
  <1>7. CASE Arrive(1) /\ rd.pc = "packetlrc" /\ Return(rd.buf)
    <2>1. PICK U : U = Drop(T, 1)
      OBVIOUS
    <2>2. Takes(T, w, 1, U) /\ Current(U, m)
      BY <1>2, <1>7, <2>1, ArriveTakes DEF Delivers
    <2>3. rd.buf = v
      BY <1>3, <1>7 DEF PacketAt
    <2>4. Returns(U, m)
      BY <1>1, <1>3, <1>7, <2>3 DEF Returns, Return, GoodContent
    <2> QED BY <2>2, <2>4 DEF ReaderStep
  <1> QED BY <1>5, <1>6, <1>7 DEF ReadPacket, ReadPacketLrc, DoRead

LEMMA LenStep ==
    ASSUME FrTypes, Steady, NEW F, NEW T, NEW w, Delivers(F, T, w),
           ReadLen \/ ReadJunk \/ ReadData \/ ReadEnd
    PROVE  ReaderStep(F, T, w)
  <1> DEFINE b == conn = "broken"
  <1>0. rd.pc \in {"len", "junk", "data", "end"} /\ rd # Idle /\ b \in BOOLEAN
    BY IdleIsReader DEF ReadLen, ReadJunk, ReadData, ReadEnd
  <1>1. PICK m, v, f : m = rd.from /\ v = sent[m] /\ f = F[m]
    OBVIOUS
  <1>2. /\ IsReader(rd) /\ Reads(codec, v, f, rd, T, b)
        /\ Framed(codec, v, f) /\ PlainFor(codec, v)
        /\ Laid(F, Len(sent), T) /\ Whole(F, T, b)
        /\ \A d \in 0 .. Len(T) : Current(Drop(T, d), m)
    BY <1>0, <1>1, InMessage
  <1>3. codec = "len" /\ LenAt(v, rd, T, b, m)
    BY <1>0, <1>1, <1>2, Zenon DEF Reads, IcommAt, PacketAt, LineAt, FrTypes
  <1>4. /\ v \in Seq(Range(v)) /\ Len(v) \in Nat /\ Len(f) = Len(v) + 4
        /\ f[2] = Num(Len(v)) /\ f[3] \in {Nul, ETX}
        /\ \A i \in 1 .. Len(v) : f[3 + i] = v[i] /\ v[i] \notin {STX, ETX}
    BY <1>2, <1>3, LengthFrame
  <1>5. CASE Refuse /\ (Arrive(1) \/ Lapse(1) \/ Arrive(rd.need) \/ Lapse(rd.need))
    <2>1. rd.need \in Nat \/ Arrive(1) \/ Lapse(1)
      <3>1. ReadLen \/ ReadJunk \/ ReadEnd => Arrive(1) \/ Lapse(1)
        BY DEF ReadLen, ReadJunk, ReadEnd, DoRead
      <3>2. ReadData => rd.need = Len(v)
        BY <1>3 DEF ReadData, LenAt
      <3> QED BY <1>4, <3>1, <3>2
    <2>2. \E n \in Nat : Arrive(n) \/ Lapse(n)
      <3>1. 1 \in Nat
        OBVIOUS
      <3> QED BY <1>5, <2>1, <3>1
    <2> QED BY <1>3, <1>5, <2>2, Refused
  <1> HIDE DEF b
  <1>6. CASE /\ Arrive(1) /\ rd.pc = "len" /\ wire[1].t # ETX
             /\ To([rd EXCEPT !.pc = "junk", !.need = Atoi(wire[1].t)])
    <2>1. PICK U : U = Drop(T, 1)
      OBVIOUS
    <2>2. /\ Takes(T, w, 1, U) /\ 1 \in 0 .. Len(T) /\ wire[1].t = T[1].t
          /\ Current(U, m)
      BY <1>2, <1>6, <2>1, ArriveTakes DEF Delivers
    <2>3. Await(T, b, m, 1)
      BY <1>3, <1>6 DEF LenAt
    <2>4. 1 \in Nat /\ 1 + 1 < Len(F[m]) /\ 1 + 1 <= Len(F[m]) /\ 1 + 1 = 2
      BY <1>1, <1>4
    <2>5. T[1].t = f[1 + 1] /\ Await(U, b, m, 1 + 1)
      BY <1>0, <1>1, <1>2, <2>1, <2>2, <2>3, <2>4, AwaitOne
    <2>6. Atoi(wire[1].t) = Len(v)
      BY <1>4, <2>2, <2>4, <2>5 DEF Atoi, Num
    <2>7. /\ IsReader(rd') /\ rd'.from = m /\ rd'.pc = "junk" /\ rd'.need = Len(v)
          /\ UNCHANGED accepted
      BY <1>1, <1>2, <1>6, <2>6 DEF IsReader, To
    <2>8. GoesOn(F, U, m)
      BY <1>1, <1>3, <2>4, <2>5, <2>7 DEF GoesOn, Reads, LenAt, b
    <2> QED BY <2>2, <2>8 DEF ReaderStep
  <1>7. CASE /\ Arrive(1) /\ rd.pc = "junk" /\ wire[1].t # ETX /\ rd.need # 0
             /\ Goto("data")
    <2>1. PICK U : U = Drop(T, 1)
      OBVIOUS
    <2>2. /\ Takes(T, w, 1, U) /\ 1 \in 0 .. Len(T) /\ Current(U, m)
      BY <1>2, <1>7, <2>1, ArriveTakes DEF Delivers
    <2>3. Await(T, b, m, 2) /\ rd.need = Len(v) /\ Len(v) > 0
      BY <1>3, <1>4, <1>7 DEF LenAt
    <2>4. 2 \in Nat /\ 2 + 1 < Len(F[m]) /\ 2 + 1 <= Len(F[m]) /\ 2 + 1 = 3
      BY <1>1, <1>4
    <2>5. Await(U, b, m, 2 + 1)
      BY <1>0, <1>1, <1>2, <2>1, <2>2, <2>3, <2>4, AwaitOne
    <2>6. /\ IsReader(rd') /\ rd'.from = m /\ rd'.pc = "data" /\ rd'.need = Len(v)
          /\ UNCHANGED accepted
      BY <1>1, <1>2, <1>7, <2>3 DEF IsReader, Goto, To
    <2>7. GoesOn(F, U, m)
      BY <1>1, <1>3, <2>3, <2>4, <2>5, <2>6 DEF GoesOn, Reads, LenAt, b
    <2> QED BY <2>2, <2>7 DEF ReaderStep
  <1>8. CASE Lapse(1) /\ rd.pc = "junk" /\ rd.need # 0 /\ Goto("data")
    <2>1. PICK U : U = Drop(T, w)
      OBVIOUS
    <2>2. Takes(T, w, w, U) /\ w < 1 /\ w \in 0 .. Len(T) /\ Current(U, m)
      BY <1>2, <1>8, <2>1, LapseTakes DEF Delivers
    <2>3. Await(T, b, m, 2) /\ rd.need = Len(v) /\ Len(v) > 0
      BY <1>3, <1>4, <1>8 DEF LenAt
    <2>4. w = 0
      BY <2>2
    <2>5. Await(U, b, m, 2)
      <3>1. 2 \in Nat /\ 2 + w < Len(F[m]) /\ 2 + w <= Len(F[m]) /\ 2 + w = 2
        BY <1>1, <1>4, <2>4
      <3>2. Await(U, b, m, 2 + w)
        BY <1>0, <1>2, <2>1, <2>2, <2>3, <3>1, AwaitDrop
      <3> QED BY <3>1, <3>2
    <2>6. /\ IsReader(rd') /\ rd'.from = m /\ rd'.pc = "data" /\ rd'.need = Len(v)
          /\ UNCHANGED accepted
      BY <1>1, <1>2, <1>8, <2>3 DEF IsReader, Goto, To
    <2>7. GoesOn(F, U, m)
      BY <1>1, <1>3, <2>3, <2>5, <2>6 DEF GoesOn, Reads, LenAt, b
    <2> QED BY <2>2, <2>7 DEF ReaderStep
  <1>9. CASE /\ Arrive(rd.need) /\ rd.pc = "data"
             /\ To([rd EXCEPT !.pc = "end", !.buf = [i \in 1 .. rd.need |-> wire[i].t]])
    <2>1. /\ rd.need = Len(v) /\ Len(v) > 0
          /\ Await(T, b, m, 2) \/ Await(T, b, m, 3)
      BY <1>3, <1>9 DEF LenAt
    <2>2. PICK n, U : n = Len(v) /\ U = Drop(T, n)
      OBVIOUS
    <2>3. /\ Takes(T, w, n, U) /\ n \in 0 .. Len(T) /\ Current(U, m) /\ n \in Nat
          /\ \A i \in 1 .. n : wire[i].t = T[i].t
      BY <1>2, <1>4, <1>9, <2>1, <2>2, ArriveTakes DEF Delivers
    <2>4. /\ IsReader(rd') /\ rd'.from = m /\ rd'.pc = "end"
          /\ rd'.buf = [i \in 1 .. n |-> wire[i].t] /\ UNCHANGED accepted
      BY <1>1, <1>2, <1>9, <2>1, <2>2 DEF IsReader, To
    <2>5. CASE Await(T, b, m, 3)
      <3>1. 3 \in Nat /\ 3 + n <= Len(F[m])
        BY <1>1, <1>4, <2>2
      <3>2. \A i \in 1 .. n : T[i].t = F[m][3 + i]
        BY <1>0, <1>2, <2>3, <2>5, <3>1, AwaitDrop
      <3>3. rd'.buf = [i \in 1 .. n |-> v[i]]
        BY <1>1, <1>4, <2>2, <2>3, <2>4, <3>2
      <3>4. v = [i \in 1 .. Len(v) |-> v[i]]
        BY <1>4, LenProperties
      <3>5. rd'.buf = v
        BY <2>2, <3>3, <3>4
      <3>6. GoesOn(F, U, m)
        BY <1>1, <1>3, <2>4, <3>5 DEF GoesOn, Reads, LenAt, b
      <3> QED BY <2>3, <3>6 DEF ReaderStep
    <2>6. CASE Await(T, b, m, 2)
      <3>1. Lost(U)
        <4> SUFFICES ASSUME Len(U) > 0 PROVE U[1].t # ETX
          BY DEF Lost
        <4>1. IsSequence(T) /\ Len(T) \in Nat
          BY <1>2 DEF Laid, IsSequence
        <4>2. /\ Len(U) = Len(T) - n
              /\ \A i \in 1 .. Len(T) - n : U[i] = T[i + n]
          BY <2>2, <2>3, <4>1, DropFacts
        <4>3. 1 \in 1 .. Len(T) - n /\ n + 1 \in 0 .. Len(T) /\ n + 1 \in 1 .. n + 1
          BY <2>3, <4>1, <4>2
        <4>4. U[1].t = T[n + 1].t
          <5>1. U[1] = T[1 + n] /\ 1 + n = n + 1
            BY <2>3, <4>2, <4>3
          <5> QED BY <5>1
        <4>5. 2 \in Nat /\ 2 + (n + 1) <= Len(F[m]) /\ 2 + (n + 1) = 3 + n /\ n \in 1 .. Len(v)
          BY <1>1, <1>4, <2>1, <2>2
        <4>6. PICK d : d = n + 1
          OBVIOUS
        <4>7. d \in 0 .. Len(T) /\ 2 + d <= Len(F[m]) /\ d \in 1 .. d
          BY <4>3, <4>5, <4>6
        <4>8. T[d].t = F[m][2 + d]
          BY <1>0, <1>2, <2>6, <4>5, <4>7, AwaitDrop, SMTT(30)
        <4>9. F[m][2 + d] = f[3 + n]
          BY <1>1, <4>5, <4>6
        <4>10. f[3 + n] # ETX
          BY <1>4, <4>5
        <4> QED BY <4>4, <4>6, <4>8, <4>9, <4>10
      <3>2. GoesOn(F, U, m)
        BY <1>1, <1>3, <2>4, <3>1 DEF GoesOn, Reads, LenAt, b
      <3> QED BY <2>3, <3>2 DEF ReaderStep
    <2> QED BY <2>1, <2>5, <2>6
  <1>10. CASE Arrive(1) /\ rd.pc = "end" /\ wire[1].t = ETX /\ Return(rd.buf)
    <2>1. PICK U : U = Drop(T, 1)
      OBVIOUS
    <2>2. /\ Takes(T, w, 1, U) /\ 1 \in 0 .. Len(T) /\ wire[1].t = T[1].t
          /\ Current(U, m) /\ Len(T) > 0
      <3>1. Len(T) \in Nat
        BY <1>2 DEF Laid, IsSequence
      <3> QED BY <1>2, <1>10, <2>1, <3>1, ArriveTakes DEF Delivers
    <2>3. rd.buf = v
      BY <1>3, <1>10, <2>2 DEF LenAt, Lost
    <2>4. Returns(U, m)
      BY <1>1, <1>3, <1>10, <2>3 DEF Returns, Return, GoodContent
    <2> QED BY <2>2, <2>4 DEF ReaderStep
  <1>11. CASE ReadLen
    BY <1>5, <1>6, <1>11 DEF ReadLen, DoRead
  <1>12. CASE ReadJunk
    BY <1>5, <1>7, <1>8, <1>12 DEF ReadJunk, DoRead
  <1>13. CASE ReadData
    BY <1>5, <1>9, <1>13 DEF ReadData, DoRead
  <1>14. CASE ReadEnd
    BY <1>5, <1>10, <1>14 DEF ReadEnd, DoRead
  <1> QED BY <1>11, <1>12, <1>13, <1>14

-----------------------------------------------------------------------------
(* The reader of lines.                                                      *)

\* Reading what the stream begins with, or what follows in the message.
LEMMA LineStep ==
    ASSUME FrTypes, Steady, Steady', NEW F, NEW T, NEW w, Delivers(F, T, w), ReadLine
    PROVE  ReaderStep(F, T, w)
  <1> DEFINE b == conn = "broken"
  <1>0. /\ codec = "line" /\ (rd.pc = "idle" \/ rd.pc = "line") /\ b \in BOOLEAN
        /\ rd = Idle => wire # <<>>
    BY DEF ReadLine
  <1>1. /\ Flow(F, T, w) /\ Reading(F, T) /\ Taken(T)
        /\ Laid(F, Len(sent), T) /\ Whole(F, T, b) /\ IsSequence(T) /\ Len(T) \in Nat
        /\ w \in Nat /\ w <= Len(T) /\ (wire = <<>> <=> w = 0)
    BY FlowLengths DEF Delivers, Flow
  \* The message m, of which p characters are read.
  <1>2. PICK m, p :
           /\ p = Len(rd.buf) /\ (rd = Idle => m = T[1].m) /\ (rd # Idle => m = rd.from)
    OBVIOUS
  <1>3. PICK v, f : v = sent[m] /\ f = F[m]
    OBVIOUS
  <1>4. /\ m \in 1 .. Len(sent) /\ Await(T, b, m, p) /\ Begins(rd.buf, v)
        /\ IsReader(rd)
        /\ \A d \in 1 .. Len(T) : Current(Drop(T, d), m)
    <2>1. CASE rd = Idle
      <3>1. rd.buf = <<>> /\ Len(<<>>) = 0 /\ p = 0 /\ IsReader(rd)
        BY <1>2, <2>1, IdleIsReader
      <3>2. Len(T) > 0 /\ 1 \in 1 .. Len(T) /\ T[1].p = 1
        <4>1. Starting(T)
          BY <1>0, <1>1, <2>1 DEF Reading, ReadingIn, Reads, LineAt, Idle
        <4> QED BY <1>0, <1>1, <2>1, <4>1 DEF Starting
      <3>3. m \in 1 .. Len(sent)
        BY <1>1, <1>2, <2>1, <3>2 DEF Laid
      <3>4. Begins(<<>>, v)
        <4>1. Framed(codec, v, f) /\ PlainFor(codec, v)
          <5>1. m \in DOMAIN sent
            BY <3>3 DEF FrTypes
          <5> QED BY <1>1, <1>3, <3>3, <5>1 DEF Flow, Steady, Undisturbed
        <4>2. Len(v) \in Nat
          BY <1>0, <4>1, LineOfFrame
        <4>3. IsSequence(<<>>)
          <5>1. <<>> = [i \in 1 .. 0 |-> <<>>[i]]
            OBVIOUS
          <5> QED BY <5>1 DEF IsSequence
        <4> QED BY <3>1, <4>2, <4>3 DEF Begins
      <3>5. ASSUME NEW d \in 1 .. Len(T) PROVE Current(Drop(T, d), m)
        <4>1. /\ Len(Drop(T, d)) = Len(T) - d
              /\ \A i \in 1 .. Len(T) - d : Drop(T, d)[i] = T[i + d]
          <5>1. d \in 0 .. Len(T)
            OBVIOUS
          <5> QED BY <1>1, <5>1, DropFacts
        <4>2. Fresh(Drop(T, d), m)
          <5> SUFFICES ASSUME NEW i \in 1 .. Len(T) - d, T[i + d].p = 1
                       PROVE  m < T[i + d].m
            BY <4>1 DEF Fresh
          <5>1. i + d \in 1 .. Len(T) /\ 1 < i + d
            BY <1>1
          <5> QED BY <1>1, <1>2, <2>1, <3>2, <5>1 DEF Laid
        <4>3. \A k \in 1 .. Len(accepted) : accepted[k].m < m
          BY <1>1, <1>2, <2>1, <3>2 DEF Taken, TakenIn, Fresh
        <4> QED BY <3>3, <4>2, <4>3 DEF Current
      <3> QED BY <1>2, <2>1, <3>1, <3>2, <3>3, <3>4, <3>5 DEF Await
    <2>2. CASE rd # Idle
      <3>1. /\ IsReader(rd) /\ m \in 1 .. Len(sent)
            /\ Reads(codec, v, f, rd, T, b)
            /\ \A d \in 0 .. Len(T) : Current(Drop(T, d), m)
        BY <1>2, <1>3, <2>2, InMessage
      <3>2. LineAt(v, f, rd, T, b, m)
        BY <1>0, <1>2, <2>2, <3>1 DEF Reads
      <3>3. Begins(rd.buf, v) /\ Await(T, b, m, p)
        BY <1>0, <1>2, <3>2 DEF LineAt
      <3>4. \A d \in 1 .. Len(T) : d \in 0 .. Len(T)
        BY <1>1
      <3> QED BY <3>1, <3>3, <3>4
    <2> QED BY <2>1, <2>2
  <1>5. Framed("line", v, f) /\ PlainFor("line", v)
    <2>1. m \in DOMAIN sent
      BY <1>4 DEF FrTypes
    <2> QED BY <1>0, <1>1, <1>3, <1>4, <2>1 DEF Flow, Steady, Undisturbed
  <1>6. /\ v \in Seq(Range(v)) /\ Len(v) \in Nat /\ Len(f) \in Nat
        /\ \A i \in 1 .. Len(v) : f[i] = v[i] /\ v[i] \notin {CR, LF}
        /\ Len(v) > 0 => v[1] # ACK
        /\ \/ Len(f) = Len(v) + 1 /\ f[Len(v) + 1] = LF
           \/ /\ Len(f) = Len(v) + 2
              /\ f[Len(v) + 1] = CR /\ f[Len(v) + 2] = LF
    BY <1>5, LineOfFrame DEF IsSequence
  <1>7. p \in Nat /\ p <= Len(v) /\ p + 1 \in 1 .. Len(f) /\ p + 1 <= Len(F[m])
    BY <1>2, <1>3, <1>4, <1>6 DEF Begins, IsSequence
  <1>8. LF # CR /\ LF # ACK /\ CR # ACK
    BY DEF LF, CR, ACK, Chr
  <1> HIDE DEF b
  <1>9. CASE Lapse(1) /\ Refuse
    <2>1. Takes(T, w, w, Drop(T, w)) /\ w < 1 /\ w \in 0 .. Len(T)
          /\ (conn = "broken" \/ w = Len(T) \/ Accident("timeouts"))
      BY <1>1, <1>9, LapseTakes
    <2>2. ~ Accident("timeouts")
      <3> SUFFICES ASSUME Accident("timeouts") PROVE FALSE
        OBVIOUS
      <3>1. accidents'.timeouts = accidents.timeouts + 1 /\ accidents.timeouts \in Nat
        BY AccidentFacts DEF FrTypes
      <3>2. codec' = "line"
        BY <1>0 DEF ReadLine, DoRead, writerVars
      <3> QED BY <3>1, <3>2 DEF Steady
    <2>3. w = Len(T)
      BY <1>1, <2>1, <2>2 DEF Flow
    <2>4. Len(Drop(T, w)) = 0
      BY <1>1, <2>1, <2>3, DropFacts
    <2>5. GivesUp(Drop(T, w))
      BY <1>9, <2>4 DEF GivesUp, Refuse, To, Starting
    <2> QED BY <2>1, <2>5 DEF ReaderStep
  <1>10. CASE Arrive(1)
    <2>1. PICK U, t : U = Drop(T, 1) /\ t = T[1].t
      OBVIOUS
    <2>2. /\ Takes(T, w, 1, U) /\ 1 \in 0 .. Len(T) /\ 1 \in 1 .. Len(T)
          /\ wire[1].t = t /\ wire[1].m = T[1].m /\ 1 \in 1 .. w
      BY <1>1, <1>10, <2>1, ArriveTakes
    <2>3. Current(U, m)
      BY <1>4, <2>1, <2>2
    <2>4. /\ t = f[p + 1] /\ (p + 1 < Len(f) => Await(U, b, m, p + 1))
      BY <1>0, <1>1, <1>3, <1>4, <1>7, <2>1, <2>2, AwaitOne
    <2>5. (IF rd = Idle THEN Head(wire).m ELSE rd.from) = m
      <3>1. Head(wire) = wire[1]
        OBVIOUS
      <3> QED BY <1>2, <2>2, <3>1
    <2>6. rd = Idle => p = 0
      BY <1>2, IdleIsReader
    <2>7. t # ACK \/ rd # Idle
      <3> SUFFICES ASSUME rd = Idle PROVE t # ACK
        OBVIOUS
      <3>1. p + 1 = 1 /\ (Len(v) > 0 => 1 \in 1 .. Len(v)) /\ (Len(v) = 0 => Len(v) + 1 = 1)
        BY <1>6, <2>6
      <3>2. CASE Len(v) > 0
        BY <1>6, <2>4, <3>1, <3>2
      <3>3. CASE Len(v) = 0
        BY <1>6, <1>8, <2>4, <3>1, <3>3
      <3> QED BY <1>6, <3>2, <3>3
    <2> DEFINE next == [rd EXCEPT !.pc = "line", !.from = m]
    <2>12. LET e == [i \in 1 .. 1 |-> wire[i].t] IN
           CASE t = ACK /\ rd = Idle -> Refuse
             [] t = LF ->
                  /\ rd' = Idle
                  /\ accepted' = Append(accepted, [m |-> m, content |-> rd.buf])
             [] t = CR -> To([next EXCEPT !.pc = "dummy"])
             [] OTHER -> To([next EXCEPT !.buf = @ \o e])
      <3> DEFINE from == IF rd = Idle THEN Head(wire).m ELSE rd.from
                 line(x, s) ==
                    CASE s[1] = ACK /\ rd = Idle -> Refuse
                      [] s[1] = LF ->
                           /\ rd' = Idle
                           /\ accepted' = Append(accepted, [m |-> x, content |-> rd.buf])
                      [] s[1] = CR -> To([[rd EXCEPT !.pc = "line", !.from = x]
                                             EXCEPT !.pc = "dummy"])
                      [] OTHER -> To([[rd EXCEPT !.pc = "line", !.from = x]
                                         EXCEPT !.buf = @ \o s])
      <3>1. ~ Lapse(1)
        BY <1>10 DEF Arrive, Lapse
      <3>2. line(from, [i \in 1 .. 1 |-> wire[i].t])
        BY <3>1 DEF ReadLine, DoRead
      <3>3. from = m
        BY <2>5
      <3> HIDE DEF from
      <3>4. line(m, [i \in 1 .. 1 |-> wire[i].t])
        BY <3>2, <3>3
      <3>5. [i \in 1 .. 1 |-> wire[i].t][1] = t
        BY <2>2
      <3> QED BY <3>4, <3>5
    <2>8. CASE p < Len(v)
      <3>1. p + 1 \in 1 .. Len(v) /\ p + 1 < Len(f)
        BY <1>6, <1>7, <2>8
      <3>2. t = v[p + 1] /\ t # CR /\ t # LF /\ Await(U, b, m, p + 1)
        BY <1>6, <2>4, <3>1
      <3>3. PICK e : e = [i \in 1 .. 1 |-> wire[i].t]
        OBVIOUS
      <3>4. IsSequence(e) /\ Len(e) = 1 /\ e[1] = t
        <4>1. e = [i \in 1 .. 1 |-> e[i]] /\ e[1] = wire[1].t /\ 1 \in Nat
          BY <3>3
        <4> QED BY <2>2, <4>1, FunctionIsSequence
      <3>5. Begins(rd.buf \o e, v) /\ Len(rd.buf \o e) = p + 1
        BY <1>2, <1>4, <1>6, <2>8, <3>2, <3>4, BeginsFacts
      <3>6. rd' = [next EXCEPT !.buf = @ \o e] /\ UNCHANGED accepted
        BY <2>7, <3>2, <3>3, <3>4, <2>12 DEF To
      <3>7. /\ IsReader(rd') /\ rd'.from = m /\ rd'.pc = "line"
            /\ rd'.buf = rd.buf \o e
        BY <1>4, <3>6 DEF IsReader
      <3>8. LineAt(v, f, rd', U, b, m)
        BY <3>2, <3>5, <3>7 DEF LineAt
      <3>9. GoesOn(F, U, m)
        BY <1>0, <1>3, <3>6, <3>7, <3>8 DEF GoesOn, Reads, b
      <3> QED BY <2>2, <2>3, <3>9 DEF ReaderStep
    <2>9. CASE p = Len(v) /\ t = LF
      <3>1. rd.buf = v
        BY <1>2, <1>4, <1>6, <2>9, BeginsFacts
      <3>2. p + 1 = Len(f)
        BY <1>6, <1>8, <2>4, <2>9
      <3>3. Starting(U)
        <4>1. Ahead(T, m, p) /\ 1 > 0
          BY <1>4 DEF Ahead, Await
        <4>2. Len(T) > 1 => T[1 + 1].p = 1
          <5>1. p + 1 = Len(F[m]) /\ p + 1 <= Len(F[m]) /\ 1 # 0
            BY <1>3, <1>7, <3>2
          <5> QED BY <1>1, <1>7, <2>2, <4>1, <5>1, AheadOf
        <4>3. /\ Len(U) = Len(T) - 1
              /\ \A i \in 1 .. Len(T) - 1 : U[i] = T[i + 1]
          BY <1>1, <2>1, <2>2, DropFacts
        <4> SUFFICES ASSUME Len(U) > 0 PROVE U[1].p = 1
          BY DEF Starting
        <4>4. Len(T) > 1 /\ 1 \in 1 .. Len(T) - 1 /\ U[1] = T[1 + 1]
          BY <1>1, <4>3
        <4> QED BY <4>2, <4>4
      <3>4. rd' = Idle /\ accepted' = Append(accepted, [m |-> m, content |-> v])
        BY <1>8, <2>7, <2>9, <2>12, <3>1
      <3>5. Returns(U, m)
        BY <1>0, <1>3, <3>3, <3>4 DEF Returns, GoodContent
      <3> QED BY <2>2, <2>3, <3>5 DEF ReaderStep
    <2>10. CASE p = Len(v) /\ t = CR
      <3>1. rd.buf = v
        BY <1>2, <1>4, <1>6, <2>10, BeginsFacts
      <3>2. p + 1 < Len(f) /\ p + 1 = Len(f) - 1
        BY <1>6, <1>8, <2>4, <2>10
      <3>3. rd' = [next EXCEPT !.pc = "dummy"] /\ UNCHANGED accepted
        BY <1>8, <2>7, <2>10, <2>12 DEF To
      <3>4. IsReader(rd') /\ rd'.from = m /\ rd'.pc = "dummy" /\ rd'.buf = v
        BY <1>4, <3>1, <3>3 DEF IsReader
      <3>5. Await(U, b, m, Len(f) - 1)
        BY <2>4, <3>2
      <3>6. LineAt(v, f, rd', U, b, m)
        BY <3>4, <3>5 DEF LineAt
      <3>7. GoesOn(F, U, m)
        BY <1>0, <1>3, <3>3, <3>4, <3>6 DEF GoesOn, Reads, b
      <3> QED BY <2>2, <2>3, <3>7 DEF ReaderStep
    <2>11. p < Len(v) \/ (p = Len(v) /\ (t = LF \/ t = CR))
      <3>1. p < Len(v) \/ p = Len(v)
        BY <1>6, <1>7
      <3> QED BY <1>6, <2>4, <3>1
    <2> QED BY <2>8, <2>9, <2>10, <2>11
  <1>11. Arrive(1) \/ (Lapse(1) /\ Refuse)
    BY DEF ReadLine, DoRead
  <1> QED BY <1>9, <1>10, <1>11

\* Reading the last character of a line.
LEMMA DummyStep ==
    ASSUME FrTypes, Steady, Steady', NEW F, NEW T, NEW w, Delivers(F, T, w), ReadDummy
    PROVE  ReaderStep(F, T, w)
  <1> DEFINE b == conn = "broken"
  <1>0. rd.pc = "dummy" /\ rd # Idle /\ b \in BOOLEAN
    BY IdleIsReader DEF ReadDummy
  <1>1. PICK m, v, f : m = rd.from /\ v = sent[m] /\ f = F[m]
    OBVIOUS
  <1>2. /\ IsReader(rd) /\ Reads(codec, v, f, rd, T, b)
        /\ Framed(codec, v, f) /\ PlainFor(codec, v)
        /\ Laid(F, Len(sent), T) /\ Whole(F, T, b)
        /\ \A d \in 0 .. Len(T) : Current(Drop(T, d), m)
    BY <1>0, <1>1, InMessage
  <1>3. codec = "line" /\ LineAt(v, f, rd, T, b, m)
    BY <1>0, <1>1, <1>2 DEF Reads, IcommAt, PacketAt, LenAt, FrTypes
  <1>4. Len(f) \in Nat /\ Len(f) > 0
    BY <1>2, <1>3, FrameFacts DEF IsSequence
  <1> DEFINE p == Len(f) - 1
  <1>5. /\ rd.buf = v /\ Await(T, b, m, p) /\ p \in Nat /\ p + 1 = Len(F[m])
    BY <1>0, <1>1, <1>3, <1>4 DEF LineAt
  <1>6. Flow(F, T, w) /\ IsSequence(T) /\ Len(T) \in Nat
    BY FlowLengths DEF Delivers
  <1> HIDE DEF b, p
  <1>7. ASSUME NEW U, Starting(U), Return(rd.buf) PROVE Returns(U, m)
    BY <1>1, <1>3, <1>5, <1>7 DEF Returns, Return, GoodContent
  <1>8. CASE Arrive(1) /\ Return(rd.buf)
    <2>1. PICK U : U = Drop(T, 1)
      OBVIOUS
    <2>2. Takes(T, w, 1, U) /\ 1 \in 0 .. Len(T) /\ Current(U, m)
      BY <1>2, <1>6, <1>8, <2>1, ArriveTakes
    <2>3. Starting(U)
      <3>1. Ahead(T, m, p) /\ 1 # 0
        BY <1>5 DEF Ahead, Await
      <3>2. Len(T) > 1 => T[1 + 1].p = 1
        BY <1>2, <1>5, <2>2, <3>1, AheadOf
      <3>3. /\ Len(U) = Len(T) - 1
            /\ \A i \in 1 .. Len(T) - 1 : U[i] = T[i + 1]
        BY <1>6, <2>1, <2>2, DropFacts
      <3> SUFFICES ASSUME Len(U) > 0 PROVE U[1].p = 1
        BY DEF Starting
      <3>4. Len(T) > 1 /\ 1 \in 1 .. Len(T) - 1 /\ U[1] = T[1 + 1]
        BY <1>6, <3>3
      <3> QED BY <3>2, <3>4
    <2>4. Returns(U, m)
      BY <1>7, <1>8, <2>3
    <2> QED BY <2>2, <2>4 DEF ReaderStep
  <1>9. CASE Lapse(1) /\ Return(rd.buf)
    <2>1. PICK U : U = Drop(T, w)
      OBVIOUS
    <2>2. /\ Takes(T, w, w, U) /\ w < 1 /\ w \in 0 .. Len(T)
          /\ (conn = "broken" \/ w = Len(T) \/ Accident("timeouts"))
      BY <1>6, <1>9, <2>1, LapseTakes
    <2>3. ~ Accident("timeouts")
      <3> SUFFICES ASSUME Accident("timeouts") PROVE FALSE
        OBVIOUS
      <3>1. accidents'.timeouts = accidents.timeouts + 1 /\ accidents.timeouts \in Nat
        BY AccidentFacts DEF FrTypes
      <3>2. codec' = "line"
        BY <1>3 DEF ReadDummy, DoRead, writerVars
      <3> QED BY <3>1, <3>2 DEF Steady
    <2>4. w = Len(T)
      BY <1>6, <2>2, <2>3 DEF Flow
    <2>5. Len(U) = 0
      BY <1>6, <2>1, <2>2, <2>4, DropFacts
    <2>6. Starting(U) /\ Current(U, m)
      BY <1>2, <2>1, <2>2, <2>5 DEF Starting
    <2>7. Returns(U, m)
      BY <1>7, <1>9, <2>6
    <2> QED BY <2>2, <2>6, <2>7 DEF ReaderStep
  <1> QED BY <1>8, <1>9 DEF ReadDummy, DoRead

-----------------------------------------------------------------------------
(* Icomm::read.                                                              *)

\* A read that fails leaves the reader in the middle of its message.
LEMMA Missing ==
    ASSUME NEW F, NEW n, NEW T, Laid(F, n, T), NEW b \in BOOLEAN, Whole(F, T, b),
           NEW m, NEW q, Framed("icomm", q, F[m]), PlainFor("icomm", q),
           NEW p \in Nat, p >= 1, Await(T, b, m, p), NEW w \in 0 .. Len(T),
           NEW k \in Nat, w < k, p + k <= 1 + Len(Printed(q))
    PROVE  Lost(Drop(T, w))
  <1>1. /\ Len(Printed(q)) \in Nat /\ Len(F[m]) = Len(Printed(q)) + 3
        /\ \A i \in 1 .. Len(Printed(q)) : F[m][1 + i] # ETX
    BY IcommFrame
  <1>2. IsSequence(T) /\ Len(T) \in Nat
    BY DEF Laid, IsSequence
  <1>3. PICK U, d : U = Drop(T, w) /\ d = w + 1
    OBVIOUS
  <1> SUFFICES ASSUME Len(U) > 0 PROVE U[1].t # ETX
    BY <1>3 DEF Lost
  <1>4. Len(U) = Len(T) - w /\ \A i \in 1 .. Len(T) - w : U[i] = T[i + w]
    BY <1>2, <1>3, DropFacts
  <1>5. 1 \in 1 .. Len(T) - w /\ 1 + w = d /\ d \in 0 .. Len(T) /\ d \in 1 .. d
    BY <1>2, <1>3, <1>4
  <1>6. U[1] = T[d]
    BY <1>4, <1>5
  <1>7. p + d <= Len(F[m]) /\ p + d - 1 \in 1 .. Len(Printed(q))
        /\ 1 + (p + d - 1) = p + d
    BY <1>1, <1>3
  <1>8. T[d].t = F[m][p + d]
    BY <1>5, <1>7, AwaitDrop
  <1>9. F[m][p + d] # ETX
    BY <1>1, <1>7
  <1> QED BY <1>6, <1>8, <1>9

\* What a step of the reader starts from, and a read that succeeds.
LEMMA IcommBusy ==
    ASSUME FrTypes, Steady, NEW F, NEW T, NEW w, Delivers(F, T, w), rd # Idle,
           codec = "icomm"
    PROVE  /\ IsReader(rd) /\ rd.from \in 1 .. Len(sent)
           /\ IcommAt(sent[rd.from], rd, T, conn = "broken", rd.from)
           /\ sent[rd.from] \in GoodIcomms /\ Fits(sent[rd.from])
           /\ Framed("icomm", sent[rd.from], F[rd.from])
           /\ PlainFor("icomm", sent[rd.from])
           /\ Laid(F, Len(sent), T) /\ Whole(F, T, conn = "broken")
           /\ Flow(F, T, w)
           /\ \A d \in 0 .. Len(T) : Current(Drop(T, d), rd.from)
  <1>1. /\ Framed("icomm", sent[rd.from], F[rd.from])
        /\ PlainFor("icomm", sent[rd.from])
        /\ Reads("icomm", sent[rd.from], F[rd.from], rd, T, conn = "broken")
    BY InMessage
  <1>2. sent[rd.from] \in GoodIcomms /\ Fits(sent[rd.from])
    BY <1>1, IcommFrame
  <1>3. IcommAt(sent[rd.from], rd, T, conn = "broken", rd.from)
    BY <1>1 DEF Reads
  <1>4. Flow(F, T, w)
    BY DEF Delivers
  <1> QED BY <1>1, <1>2, <1>3, <1>4, InMessage

LEMMA IcommArrives ==
    ASSUME FrTypes, Steady, NEW F, NEW T, NEW w, Delivers(F, T, w), rd # Idle,
           codec = "icomm", NEW p \in Nat, p >= 1,
           Await(T, conn = "broken", rd.from, p),
           NEW k \in Nat, p + k <= 1 + Len(Printed(sent[rd.from])), Arrive(k)
    PROVE  /\ Takes(T, w, k, Drop(T, k)) /\ Current(Drop(T, k), rd.from)
           /\ Await(Drop(T, k), conn = "broken", rd.from, p + k)
           /\ \A i \in 1 .. k : wire[i].t = Printed(sent[rd.from])[p + i - 1]
  <1>1. PICK m, q, U : m = rd.from /\ q = sent[rd.from] /\ U = Drop(T, k)
    OBVIOUS
  <1> DEFINE b == conn = "broken"
  <1>2. /\ Framed("icomm", q, F[m]) /\ PlainFor("icomm", q)
        /\ Laid(F, Len(sent), T) /\ Whole(F, T, b) /\ Flow(F, T, w)
        /\ b \in BOOLEAN /\ Await(T, b, m, p)
        /\ \A d \in 0 .. Len(T) : Current(Drop(T, d), m)
    BY <1>1, IcommBusy
  <1>3. /\ Takes(T, w, k, U) /\ k \in 0 .. Len(T)
        /\ \A i \in 1 .. k : wire[i].t = T[i].t
    BY <1>1, <1>2, ArriveTakes
  <1>4. /\ Len(Printed(q)) \in Nat /\ Len(F[m]) = Len(Printed(q)) + 3
        /\ \A i \in 1 .. Len(Printed(q)) : F[m][1 + i] = Printed(q)[i]
    BY <1>2, IcommFrame
  <1>5. p + k < Len(F[m]) /\ p + k <= Len(F[m])
    BY <1>1, <1>4
  <1> HIDE DEF b
  <1>6. Await(U, b, m, p + k) /\ \A i \in 1 .. k : T[i].t = F[m][p + i]
    BY <1>1, <1>2, <1>3, <1>5, AwaitDrop
  <1>7. ASSUME NEW i \in 1 .. k PROVE wire[i].t = Printed(q)[p + i - 1]
    <2>1. p + i - 1 \in 1 .. Len(Printed(q)) /\ 1 + (p + i - 1) = p + i
      BY <1>1, <1>4
    <2>2. F[m][p + i] = Printed(q)[p + i - 1]
      BY <1>4, <2>1
    <2> QED BY <1>3, <1>6, <2>2
  <1>8. Current(U, m)
    BY <1>1, <1>2, <1>3
  <1> QED BY <1>1, <1>3, <1>6, <1>7, <1>8 DEF b

LEMMA IcommLapses ==
    ASSUME FrTypes, Steady, NEW F, NEW T, NEW w, Delivers(F, T, w), rd # Idle,
           codec = "icomm", NEW p \in Nat, p >= 1,
           Await(T, conn = "broken", rd.from, p),
           NEW k \in Nat, p + k <= 1 + Len(Printed(sent[rd.from])),
           Lapse(k), Goto("etx")
    PROVE  ReaderStep(F, T, w)
  <1>1. PICK m, q, U : m = rd.from /\ q = sent[rd.from] /\ U = Drop(T, w)
    OBVIOUS
  <1> DEFINE b == conn = "broken"
  <1>2. /\ IsReader(rd)
        /\ Framed("icomm", q, F[m]) /\ PlainFor("icomm", q)
        /\ Laid(F, Len(sent), T) /\ Whole(F, T, b) /\ Flow(F, T, w)
        /\ b \in BOOLEAN /\ Await(T, b, m, p)
        /\ \A d \in 0 .. Len(T) : Current(Drop(T, d), m)
    BY <1>1, IcommBusy
  <1>3. Takes(T, w, w, U) /\ w < k /\ w \in 0 .. Len(T)
    BY <1>1, <1>2, LapseTakes
  <1> HIDE DEF b
  <1>4. Lost(U)
    BY <1>1, <1>2, <1>3, Missing
  <1>5. IsReader(rd') /\ rd'.from = m /\ rd'.pc = "etx" /\ UNCHANGED accepted
    BY <1>1, <1>2 DEF Goto, To, IsReader
  <1>6. GoesOn(F, U, m)
    <2>1. IcommAt(q, rd', U, b, m)
      BY <1>4, <1>5, Zenon DEF IcommAt
    <2> QED BY <1>1, <1>5, <2>1 DEF GoesOn, Reads, b
  <1>7. Current(U, m)
    BY <1>1, <1>2, <1>3
  <1> QED BY <1>3, <1>6, <1>7 DEF ReaderStep

\* The reader goes on with the next field, or with the ETX.
LEMMA Continues ==
    ASSUME NEW q \in GoodIcomms, Fits(q), NEW i \in 1 .. 126, NEW r,
           r.todo = DOMAIN q.fields \cap (i + 1) .. 126,
           r.pc = Upcoming(r.todo), r.c = Heard(q, i),
           NEW U, NEW b, NEW m, Await(U, b, m, 1 + Len(Prefix(q, i)))
    PROVE  IcommAt(q, r, U, b, m)
  <1>1. PICK todo : todo = r.todo
    OBVIOUS
  <1>2. NextField(q, i, todo)
    BY <1>1, UpcomingFacts
  <1>3. CASE todo = {} /\ Upcoming(todo) = "etx" /\ Heard(q, i) = Heard(q, 126)
    <2>1. r.pc = "etx" /\ r.c = WithoutQuotes(AsRead(q))
      BY <1>1, <1>3, HeardAll
    <2> QED BY <2>1, Zenon DEF IcommAt
  <1>4. ASSUME NEW j \in 2 .. 126, j \in DOMAIN q.fields,
               todo = DOMAIN q.fields \cap j .. 126,
               Prefix(q, j - 1) = Prefix(q, i), Heard(q, j - 1) = Heard(q, i),
               Upcoming(todo) = IF Def[j].kind = "fixed" THEN "value" ELSE "length"
        PROVE  IcommAt(q, r, U, b, m)
    <2>1. r.todo = DOMAIN q.fields \cap j .. 126 /\ r.c = Heard(q, j - 1)
      BY <1>1, <1>4
    <2>2. r.pc = IF Def[j].kind = "fixed" THEN "value" ELSE "length"
      BY <1>1, <1>4
    <2>3. Await(U, b, m, 1 + Len(Prefix(q, j - 1)))
      BY <1>4
    <2> QED BY <1>4, <2>1, <2>2, <2>3, Zenon DEF IcommAt
  <1> QED BY <1>2, <1>3, <1>4, Zenon DEF NextField

LEMMA IcommTypeStep ==
    ASSUME FrTypes, Steady, NEW F, NEW T, NEW w, Delivers(F, T, w), ReadType,
           codec = "icomm"
    PROVE  ReaderStep(F, T, w)
  <1>0. rd.pc = "icomm" /\ rd # Idle
    BY IdleIsReader DEF ReadType
  <1>1. PICK m, q : m = rd.from /\ q = sent[m]
    OBVIOUS
  <1>2. /\ IsReader(rd) /\ IcommAt(q, rd, T, conn = "broken", m)
        /\ q \in GoodIcomms /\ Fits(q)
    BY <1>0, <1>1, IcommBusy
  <1>3. rd.c = NewIcomm(0) /\ Await(T, conn = "broken", m, 1)
    BY <1>0, <1>2 DEF IcommAt
  <1>4. /\ 1 + 1 <= 1 + Len(Printed(q)) /\ Printed(q)[1] = Num(q.type)
        /\ 1 + 1 - 1 = 1 /\ 1 + 1 = 2 /\ 1 \in 1 .. 1 /\ 1 \in Nat /\ 1 >= 1
    <2>1. /\ Len(Printed(q)) >= 2 /\ Printed(q)[1] = Num(q.type)
      BY <1>2, StartIn
    <2>2. Len(Printed(q)) \in Nat
      <3>1. 1 \in 1 .. 127
        OBVIOUS
      <3> QED BY <1>2, <3>1, PrefixIn
    <2> QED BY <2>1, <2>2
  <1>5. CASE Lapse(1) /\ Goto("etx")
    BY <1>0, <1>1, <1>3, <1>4, <1>5, IcommLapses
  <1>6. CASE /\ Arrive(1)
             /\ To([rd EXCEPT !.pc = "bitmap", !.lrc = [i \in 1 .. 1 |-> wire[i].t],
                              !.c.type = Atoi(wire[1].t)])
    <2>1. PICK U : U = Drop(T, 1)
      OBVIOUS
    <2>2. /\ Takes(T, w, 1, U) /\ Current(U, m)
          /\ Await(U, conn = "broken", m, 1 + 1)
          /\ \A i \in 1 .. 1 : wire[i].t = Printed(q)[1 + i - 1]
      BY <1>0, <1>1, <1>3, <1>4, <1>6, <2>1, IcommArrives
    <2>3. Atoi(wire[1].t) = q.type
      <3>1. wire[1].t = Num(q.type)
        BY <1>4, <2>2
      <3> QED BY <3>1 DEF Atoi, Num
    <2>4. /\ IsReader(rd') /\ rd'.from = m /\ rd'.pc = "bitmap" /\ UNCHANGED accepted
          /\ rd'.c = [rd.c EXCEPT !.type = q.type]
      BY <1>1, <1>2, <1>6, <2>3 DEF To, IsReader
    <2>5. rd'.c = NewIcomm(q.type)
      <3>1. ASSUME NEW t, NEW e
            PROVE  [[type |-> 0, header |-> {}, fields |-> e] EXCEPT !.type = t]
                      = [type |-> t, header |-> {}, fields |-> e]
        OBVIOUS
      <3>2. [NewIcomm(0) EXCEPT !.type = q.type] = NewIcomm(q.type)
        BY <3>1, Zenon DEF NewIcomm
      <3> QED BY <1>3, <2>4, <3>2
    <2>6. IcommAt(q, rd', U, conn = "broken", m)
      BY <1>4, <2>2, <2>4, <2>5 DEF IcommAt
    <2>7. GoesOn(F, U, m)
      BY <1>1, <2>4, <2>6 DEF GoesOn, Reads
    <2> QED BY <2>2, <2>7 DEF ReaderStep
  <1> QED BY <1>5, <1>6 DEF ReadType, DoRead

\* What the two bitmaps say.
LEMMA HeaderFacts ==
    ASSUME NEW q \in GoodIcomms
    PROVE  /\ 1 \in q.header <=> 1 \in q.header \cap 1 .. 64
           /\ (q.header \cap 1 .. 64) \cup {1} \cup (q.header \cap 65 .. 127)
                 = q.header \cup {1}
           /\ q.header \cap 2 .. 126 = DOMAIN q.fields \cap 2 .. 126
           /\ 1 \notin q.header => q.header \cap 1 .. 64 = q.header
  <1>1. /\ q.header \subseteq 1 .. 127 /\ DOMAIN q.fields \subseteq q.header
        /\ q.header \subseteq DOMAIN q.fields \cup {1}
        /\ \A id \in q.header : id > 64 => 1 \in q.header
    BY GoodIcomm
  <1>2. \A id \in 1 .. 127 : id \in 1 .. 64 \/ (id \in 65 .. 127 /\ id > 64)
    OBVIOUS
  <1>3. 1 \in 1 .. 64 /\ 1 \notin 2 .. 126
    OBVIOUS
  <1>4. (q.header \cap 1 .. 64) \cup {1} \cup (q.header \cap 65 .. 127)
           = q.header \cup {1}
    BY <1>1, <1>2
  <1>5. q.header \cap 2 .. 126 = DOMAIN q.fields \cap 2 .. 126
    BY <1>1, <1>3
  <1>6. 1 \notin q.header => q.header \cap 1 .. 64 = q.header
    BY <1>1, <1>2
  <1> QED BY <1>3, <1>4, <1>5, <1>6

LEMMA BitmapStep ==
    ASSUME FrTypes, Steady, NEW F, NEW T, NEW w, Delivers(F, T, w), ReadBitmap,
           codec = "icomm"
    PROVE  ReaderStep(F, T, w)
  <1> DEFINE b == conn = "broken"
  <1>0. rd.pc \in {"bitmap", "bitmap2"} /\ rd # Idle
    BY IdleIsReader DEF ReadBitmap
  <1>1. PICK m, q : m = rd.from /\ q = sent[m]
    OBVIOUS
  <1>2. /\ IsReader(rd) /\ IcommAt(q, rd, T, b, m)
        /\ q \in GoodIcomms /\ Fits(q)
    BY <1>0, <1>1, IcommBusy
  <1>3. PICK p : p = IF rd.pc = "bitmap" THEN 2 ELSE 3
    OBVIOUS
  <1>4. /\ rd.pc = "bitmap" => rd.c = NewIcomm(q.type)
        /\ rd.pc = "bitmap2" =>
              /\ 1 \in q.header
              /\ rd.c = [type |-> q.type, header |-> q.header \cap 1 .. 64,
                         fields |-> <<>>]
        /\ Await(T, b, m, p)
    <2>1. CASE rd.pc = "bitmap"
      BY <1>2, <1>3, <2>1 DEF IcommAt
    <2>2. CASE rd.pc = "bitmap2"
      BY <1>2, <1>3, <2>2 DEF IcommAt
    <2> QED BY <1>0, <2>1, <2>2
  <1>5. /\ p \in Nat /\ p >= 1 /\ p + 1 <= 1 + Len(Printed(q)) /\ p + 1 - 1 = p
        /\ 1 \in Nat /\ 1 \in 1 .. 1 /\ (p = 2 \/ p = 3)
        /\ Printed(q)[2] = Bits(q.header \cap 1 .. 64)
        /\ 1 \in q.header => Printed(q)[3] = Bits(q.header \cap 65 .. 127)
    <2>1. Len(Printed(q)) \in Nat
      <3>1. 1 \in 1 .. 127
        OBVIOUS
      <3> QED BY <1>2, <3>1, PrefixIn
    <2>2. /\ Printed(q)[2] = Bits(q.header \cap 1 .. 64)
          /\ 1 \in q.header => Printed(q)[3] = Bits(q.header \cap 65 .. 127)
          /\ Len(Printed(q)) >= 2 /\ (1 \in q.header => Len(Printed(q)) >= 3)
      BY <1>2, StartIn
    <2>3. p = 2 \/ (p = 3 /\ 1 \in q.header)
      BY <1>0, <1>3, <1>4
    <2> QED BY <2>1, <2>2, <2>3
  <1>6. CASE Lapse(1) /\ Goto("etx")
    BY <1>0, <1>1, <1>4, <1>5, <1>6, IcommLapses
  <1> HIDE DEF b
  <1> DEFINE heard == SetHeader(rd.c, wire[1].t)
             todo == heard.header \cap 2 .. 126
  <1>7. CASE /\ Arrive(1)
             /\ To([rd EXCEPT !.c = heard, !.lrc = @ \o [i \in 1 .. 1 |-> wire[i].t],
                              !.todo = todo,
                              !.pc = IF rd.pc = "bitmap" /\ 1 \in heard.header
                                     THEN "bitmap2" ELSE Upcoming(todo)])
    <2>1. PICK U : U = Drop(T, 1)
      OBVIOUS
    <2>2. /\ Takes(T, w, 1, U) /\ Current(U, m)
          /\ Await(U, b, m, p + 1)
          /\ \A i \in 1 .. 1 : wire[i].t = Printed(q)[p + i - 1]
      BY <1>0, <1>1, <1>4, <1>5, <1>7, <2>1, IcommArrives DEF b
    <2>3. wire[1].t = Printed(q)[p]
      BY <1>5, <2>2
    <2>4. PICK x, y : x = heard /\ y = todo
      OBVIOUS
    <2> HIDE DEF heard, todo
    <2>5. /\ IsReader(rd') /\ rd'.from = m /\ rd'.c = x /\ rd'.todo = y
          /\ rd'.pc = IF rd.pc = "bitmap" /\ 1 \in x.header
                      THEN "bitmap2" ELSE Upcoming(y)
          /\ UNCHANGED accepted
      BY <1>1, <1>2, <1>7, <2>4 DEF To, IsReader
    <2>6. CASE rd.pc = "bitmap"
      <3>1. x = [type |-> q.type, header |-> q.header \cap 1 .. 64, fields |-> <<>>]
        <4>1. wire[1].t = Bits(q.header \cap 1 .. 64)
          BY <1>3, <1>5, <2>3, <2>6
        <4>2. x = [NewIcomm(q.type) EXCEPT !.header = {} \cup (q.header \cap 1 .. 64)]
          BY <1>4, <2>4, <2>6, <4>1, SMTT(30) DEF heard, SetHeader, Bits
        <4> QED BY <4>2 DEF NewIcomm
      <3>2. ASSUME 1 \in q.header
            PROVE  IcommAt(q, rd', U, b, m)
        <4>1. rd'.pc = "bitmap2"
          BY <1>2, <2>5, <2>6, <3>1, <3>2, HeaderFacts
        <4>2. Await(U, b, m, 3)
          <5>1. p + 1 = 3
            BY <1>3, <2>6
          <5> QED BY <2>2, <5>1
        <4>3. rd'.c = [type |-> q.type, header |-> q.header \cap 1 .. 64, fields |-> <<>>]
          BY <2>5, <3>1
        <4> QED BY <3>2, <4>1, <4>2, <4>3, Zenon DEF IcommAt
      <3>3. ASSUME 1 \notin q.header
            PROVE  IcommAt(q, rd', U, b, m)
        <4>1. x = [type |-> q.type, header |-> q.header, fields |-> <<>>]
          BY <1>2, <3>1, <3>3, HeaderFacts
        <4>2. rd'.c = Heard(q, 1)
          BY <2>5, <4>1, HeardStart
        <4>3. y = DOMAIN q.fields \cap (1 + 1) .. 126
          BY <1>2, <2>4, <4>1, HeaderFacts DEF todo
        <4>4. rd'.pc = Upcoming(y)
          BY <2>5, <3>3, <4>1
        <4>5. Await(U, b, m, 1 + Len(Prefix(q, 1)))
          <5>1. Len(Prefix(q, 1)) = 2
            BY <1>2, <3>3, StartIn
          <5>2. p + 1 = 3
            BY <1>3, <2>6
          <5>3. 1 + Len(Prefix(q, 1)) = 3
            <6>1. 1 + 2 = 3
              OBVIOUS
            <6> QED BY <5>1, <6>1, Zenon
          <5> QED BY <2>2, <5>2, <5>3, Zenon
        <4>6. 1 \in 1 .. 126
          OBVIOUS
        <4>7. /\ rd'.todo = DOMAIN q.fields \cap (1 + 1) .. 126
              /\ rd'.pc = Upcoming(rd'.todo)
          BY <2>5, <4>3, <4>4
        <4> QED BY <1>2, <4>2, <4>5, <4>6, <4>7, Continues
      <3>4. IcommAt(q, rd', U, b, m)
        BY <3>2, <3>3, Zenon
      <3>5. GoesOn(F, U, m)
        BY <1>1, <2>5, <3>4 DEF GoesOn, Reads, b
      <3> QED BY <2>2, <3>5 DEF ReaderStep
    <2>7. CASE rd.pc = "bitmap2"
      <3>1. x = [type |-> q.type, header |-> q.header, fields |-> <<>>]
        <4>1. wire[1].t = Bits(q.header \cap 65 .. 127)
          BY <1>3, <1>4, <1>5, <2>3, <2>7
        <4>2. x = [rd.c EXCEPT !.header = (@ \cup {1}) \cup (q.header \cap 65 .. 127)]
          BY <2>4, <2>7, <4>1 DEF heard, SetHeader, Bits
        <4>3. x = [type |-> q.type,
                   header |-> ((q.header \cap 1 .. 64) \cup {1})
                                 \cup (q.header \cap 65 .. 127),
                   fields |-> <<>>]
          <5>1. PICK lo, hi : lo = q.header \cap 1 .. 64 /\ hi = q.header \cap 65 .. 127
            OBVIOUS
          <5>2. rd.c = [type |-> q.type, header |-> lo, fields |-> <<>>]
            BY <1>4, <2>7, <5>1
          <5>3. x = [rd.c EXCEPT !.header = (@ \cup {1}) \cup hi]
            BY <4>2, <5>1
          <5>4. ASSUME NEW t, NEW e
                PROVE  [[type |-> t, header |-> lo, fields |-> e]
                           EXCEPT !.header = (@ \cup {1}) \cup hi]
                          = [type |-> t, header |-> (lo \cup {1}) \cup hi, fields |-> e]
            OBVIOUS
          <5>5. x = [type |-> q.type, header |-> (lo \cup {1}) \cup hi, fields |-> <<>>]
            BY <5>2, <5>3, <5>4
          <5> QED BY <5>1, <5>5
        <4>4. q.header \cup {1} = q.header
          BY <1>4, <2>7
        <4> QED BY <1>2, <4>3, <4>4, HeaderFacts
      <3>2. rd'.c = Heard(q, 1)
        BY <2>5, <3>1, HeardStart
      <3>3. y = DOMAIN q.fields \cap (1 + 1) .. 126
        BY <1>2, <2>4, <3>1, HeaderFacts DEF todo
      <3>4. rd'.pc = Upcoming(y)
        BY <2>5, <2>7
      <3>5. Await(U, b, m, 1 + Len(Prefix(q, 1)))
        <4>1. Len(Prefix(q, 1)) = 3
          BY <1>2, <1>4, <2>7, StartIn
        <4>2. p + 1 = 4
          BY <1>3, <2>7
        <4>3. 1 + Len(Prefix(q, 1)) = 4
          <5>1. 1 + 3 = 4
            OBVIOUS
          <5> QED BY <4>1, <5>1, Zenon
        <4> QED BY <2>2, <4>2, <4>3, Zenon
      <3>6. /\ 1 \in 1 .. 126 /\ rd'.todo = DOMAIN q.fields \cap (1 + 1) .. 126
            /\ rd'.pc = Upcoming(rd'.todo)
        BY <2>5, <3>3, <3>4
      <3>7. IcommAt(q, rd', U, b, m)
        BY <1>2, <3>2, <3>5, <3>6, Continues
      <3>8. GoesOn(F, U, m)
        BY <1>1, <2>5, <3>7 DEF GoesOn, Reads, b
      <3> QED BY <2>2, <3>8 DEF ReaderStep
    <2> QED BY <1>0, <2>6, <2>7
  <1> QED BY <1>6, <1>7 DEF ReadBitmap, DoRead

\* The characters of a field within what is printed.
LEMMA FieldIn ==
    ASSUME NEW q \in GoodIcomms, Fits(q), NEW i \in 2 .. 126, i \in DOMAIN q.fields
    PROVE  /\ Len(Prefix(q, i - 1)) \in Nat /\ Len(Prefix(q, i)) \in Nat
           /\ Len(Prefix(q, i)) <= Len(Printed(q)) /\ Len(Printed(q)) \in Nat
           /\ Filled(q, i) \in Seq(Characters)
           /\ Def[i].kind = "fixed" =>
                 /\ Len(Filled(q, i)) = Def[i].size
                 /\ Len(Prefix(q, i)) = Len(Prefix(q, i - 1)) + Len(Filled(q, i))
                 /\ \A k \in 1 .. Len(Filled(q, i)) :
                       Printed(q)[Len(Prefix(q, i - 1)) + k] = Filled(q, i)[k]
           /\ Def[i].kind # "fixed" =>
                 /\ Len(Filled(q, i)) = Len(q.fields[i])
                 /\ Len(Prefix(q, i)) = Len(Prefix(q, i - 1)) + Len(Filled(q, i)) + 1
                 /\ Printed(q)[Len(Prefix(q, i - 1)) + 1] = Num(Len(q.fields[i]))
                 /\ \A k \in 1 .. Len(Filled(q, i)) :
                       Printed(q)[Len(Prefix(q, i - 1)) + 1 + k] = Filled(q, i)[k]
  <1>1. i \in 1 .. 127 /\ i - 1 \in 1 .. 127 /\ i \in 2 .. 127
    OBVIOUS
  <1>2. PICK a, e, f, v, pc, s :
           /\ a = Len(Prefix(q, i - 1)) /\ e = Len(Prefix(q, i)) /\ f = Filled(q, i)
           /\ v = q.fields[i] /\ pc = Piece(q, i) /\ s = Printed(q)
    OBVIOUS
  <1>3. a \in Nat /\ e \in Nat /\ e <= Len(s) /\ Len(s) \in Nat
    BY <1>1, <1>2, PrefixIn
  <1>4. /\ e = a + Len(pc) /\ Len(pc) \in Nat
        /\ \A k \in 1 .. Len(pc) : s[a + k] = pc[k]
    BY <1>1, <1>2, PieceIn
  <1>5. /\ f \in Seq(Characters) /\ v \in Seq(Characters)
        /\ Def[i].kind # "fixed" => f = v
        /\ Def[i].kind = "fixed" => Len(f) = FixedSize /\ Def[i].size = FixedSize
    BY <1>1, <1>2, FilledFacts, ValueFacts, DefFacts
  <1>6. pc = IF Def[i].kind # "fixed" THEN <<Num(Len(v))>> \o v ELSE f
    BY <1>2 DEF Piece
  <1>7. CASE Def[i].kind = "fixed"
    BY <1>2, <1>3, <1>4, <1>5, <1>6, <1>7
  <1>8. CASE Def[i].kind # "fixed"
    <2>1. PICK n : n = Num(Len(v))
      OBVIOUS
    <2>2. n \in Characters
      BY <1>5, <2>1 DEF Characters
    <2>3. pc = <<n>> \o v
      BY <1>6, <1>8, <2>1
    <2>4. /\ Len(<<n>>) = 1 /\ <<n>> \in Seq(Characters) /\ <<n>>[1] = n
      BY <2>2
    <2>5. /\ Len(pc) = 1 + Len(v) /\ Len(v) \in Nat
          /\ \A k \in 1 .. 1 + Len(v) :
                pc[k] = IF k <= 1 THEN <<n>>[k] ELSE v[k - 1]
      BY <1>5, <2>3, <2>4, ConcatProperties
    <2>6. s[a + 1] = n
      <3>1. 1 \in 1 .. Len(pc) /\ 1 \in 1 .. 1 + Len(v) /\ 1 <= 1
        BY <2>5
      <3> QED BY <1>4, <2>4, <2>5, <3>1
    <2>7. ASSUME NEW k \in 1 .. Len(v) PROVE s[a + 1 + k] = v[k]
      <3>1. /\ 1 + k \in 1 .. Len(pc) /\ 1 + k \in 1 .. 1 + Len(v)
            /\ ~ 1 + k <= 1 /\ 1 + k - 1 = k /\ a + (1 + k) = a + 1 + k
        BY <1>3, <2>5
      <3>2. s[a + (1 + k)] = pc[1 + k]
        BY <1>4, <3>1
      <3>3. pc[1 + k] = v[k]
        BY <2>5, <3>1
      <3> QED BY <3>1, <3>2, <3>3
    <2>8. e = a + Len(v) + 1
      BY <1>3, <1>4, <2>5
    <2> QED BY <1>2, <1>3, <1>5, <1>8, <2>1, <2>6, <2>7, <2>8
  <1> QED BY <1>7, <1>8

LEMMA LengthStep ==
    ASSUME FrTypes, Steady, NEW F, NEW T, NEW w, Delivers(F, T, w), ReadLength,
           codec = "icomm"
    PROVE  ReaderStep(F, T, w)
  <1> DEFINE b == conn = "broken"
  <1>0. rd.pc = "length" /\ rd # Idle
    BY IdleIsReader DEF ReadLength
  <1>1. PICK m, q : m = rd.from /\ q = sent[m]
    OBVIOUS
  <1>2. /\ IsReader(rd) /\ IcommAt(q, rd, T, b, m)
        /\ q \in GoodIcomms /\ Fits(q)
    BY <1>0, <1>1, IcommBusy, SMTT(30)
  <1> HIDE DEF b
  <1>3. PICK i \in 2 .. 126 :
           /\ i \in DOMAIN q.fields /\ rd.todo = DOMAIN q.fields \cap i .. 126
           /\ rd.c = Heard(q, i - 1) /\ Def[i].kind # "fixed"
           /\ Await(T, b, m, 1 + Len(Prefix(q, i - 1)))
    BY <1>0, <1>2, ZenonT(30) DEF IcommAt
  <1>4. PICK p, s, n :
           p = 1 + Len(Prefix(q, i - 1)) /\ s = Printed(q) /\ n = Len(q.fields[i])
    OBVIOUS
  <1>5. /\ p \in Nat /\ p >= 1 /\ p + 1 <= 1 + Len(s) /\ s[p] = Num(n)
        /\ 1 \in Nat /\ 1 \in 1 .. 1 /\ p + 1 - 1 = p
        /\ p + 1 = 2 + Len(Prefix(q, i - 1))
    <2>1. PICK a, l, e :
             a = Len(Prefix(q, i - 1)) /\ l = Len(Filled(q, i)) /\ e = Len(Prefix(q, i))
      BY Zenon
    <2>2. /\ a \in Nat /\ e = a + l + 1 /\ e <= Len(s) /\ Len(s) \in Nat
          /\ s[a + 1] = Num(n) /\ Filled(q, i) \in Seq(Characters)
      BY <1>2, <1>3, <1>4, <2>1, FieldIn, ZenonT(30)
    <2>3. l \in Nat /\ p = 1 + a /\ p = a + 1
      BY <1>4, <2>1, <2>2
    <2>4. /\ p \in Nat /\ p >= 1 /\ p + 1 <= 1 + Len(s) /\ s[p] = Num(n)
          /\ 1 \in Nat /\ 1 \in 1 .. 1 /\ p + 1 - 1 = p /\ p + 1 = 2 + a
      BY <2>2, <2>3
    <2> QED BY <2>1, <2>4
  <1>6. CASE Lapse(1) /\ Goto("etx")
    BY <1>0, <1>1, <1>3, <1>4, <1>5, <1>6, IcommLapses DEF b
  <1>7. CASE /\ Arrive(1)
             /\ To([rd EXCEPT !.pc = "value", !.lrc = @ \o [k \in 1 .. 1 |-> wire[k].t],
                              !.need = Atoi(wire[1].t)])
    <2>1. PICK U : U = Drop(T, 1)
      OBVIOUS
    <2>2. /\ Takes(T, w, 1, U) /\ Current(U, m) /\ Await(U, b, m, p + 1)
          /\ \A k \in 1 .. 1 : wire[k].t = s[p + k - 1]
      BY <1>0, <1>1, <1>3, <1>4, <1>5, <1>7, <2>1, IcommArrives DEF b
    <2>3. Atoi(wire[1].t) = n
      <3>1. wire[1].t = Num(n)
        BY <1>5, <2>2
      <3> QED BY <3>1 DEF Atoi, Num
    <2>4. /\ IsReader(rd') /\ rd'.from = m /\ rd'.pc = "value" /\ UNCHANGED accepted
          /\ rd'.c = rd.c /\ rd'.todo = rd.todo /\ rd'.need = n
      BY <1>1, <1>2, <1>7, <2>3 DEF To, IsReader
    <2>5. Await(U, b, m, 2 + Len(Prefix(q, i - 1)))
      BY <1>5, <2>2
    <2>6. IcommAt(q, rd', U, b, m)
      <3>1. rd'.todo = DOMAIN q.fields \cap i .. 126 /\ rd'.c = Heard(q, i - 1)
            /\ rd'.need = Len(q.fields[i])
        BY <1>3, <1>4, <2>4
      <3> QED BY <1>3, <2>4, <2>5, <3>1, Zenon DEF IcommAt
    <2>7. GoesOn(F, U, m)
      BY <1>1, <2>4, <2>6 DEF GoesOn, Reads, b
    <2> QED BY <2>2, <2>7 DEF ReaderStep
  <1> QED BY <1>6, <1>7 DEF ReadLength, DoRead

LEMMA ValueStep ==
    ASSUME FrTypes, Steady, NEW F, NEW T, NEW w, Delivers(F, T, w), ReadValue,
           codec = "icomm"
    PROVE  ReaderStep(F, T, w)
  <1> DEFINE b == conn = "broken"
  <1>0. rd.pc = "value" /\ rd # Idle
    BY IdleIsReader DEF ReadValue
  <1>1. PICK m, q : m = rd.from /\ q = sent[m]
    OBVIOUS
  <1>2. /\ IsReader(rd) /\ IcommAt(q, rd, T, b, m)
        /\ q \in GoodIcomms /\ Fits(q)
    BY <1>0, <1>1, IcommBusy, SMTT(30)
  <1> HIDE DEF b
  \* The field i, its value in the stream from the place p on.
  <1>11. PICK i \in 2 .. 126 : \E p :
           /\ i \in DOMAIN q.fields /\ rd.todo = DOMAIN q.fields \cap i .. 126
           /\ rd.c = Heard(q, i - 1) /\ Await(T, b, m, p)
           /\ \/ Def[i].kind = "fixed" /\ p = 1 + Len(Prefix(q, i - 1))
              \/ /\ Def[i].kind # "fixed" /\ p = 2 + Len(Prefix(q, i - 1))
                 /\ rd.need = Len(q.fields[i])
    BY <1>0, <1>2, ZenonT(30) DEF IcommAt
  <1>3. PICK p :
           /\ i \in DOMAIN q.fields /\ rd.todo = DOMAIN q.fields \cap i .. 126
           /\ rd.c = Heard(q, i - 1) /\ Await(T, b, m, p)
           /\ \/ Def[i].kind = "fixed" /\ p = 1 + Len(Prefix(q, i - 1))
              \/ /\ Def[i].kind # "fixed" /\ p = 2 + Len(Prefix(q, i - 1))
                 /\ rd.need = Len(q.fields[i])
    BY <1>11
  <1>4. PICK s, f, n :
           /\ s = Printed(q) /\ f = Filled(q, i)
           /\ n = IF Def[i].kind = "fixed" THEN Def[i].size ELSE rd.need
    OBVIOUS
  <1>5. /\ f \in Seq(Characters) /\ f # <<>> /\ n = Len(f) /\ n \in Nat
    <2>1. f # <<>>
      BY <1>2, <1>3, <1>4, FilledFacts, SMTT(30)
    <2>2. f \in Seq(Characters) /\ n = Len(f)
      BY <1>2, <1>3, <1>4, FieldIn
    <2> QED BY <2>1, <2>2
  <1>6. /\ p \in Nat /\ p >= 1 /\ p + n <= 1 + Len(s)
        /\ p + n = 1 + Len(Prefix(q, i))
        /\ \A k \in 1 .. n : s[p + k - 1] = f[k]
    <2>1. PICK a, e : a = Len(Prefix(q, i - 1)) /\ e = Len(Prefix(q, i))
      OBVIOUS
    <2>2. a \in Nat /\ e \in Nat /\ e <= Len(s) /\ Len(s) \in Nat
      BY <1>2, <1>3, <1>4, <2>1, FieldIn
    <2>3. CASE Def[i].kind = "fixed"
      <3>1. e = a + n /\ p = 1 + a /\ \A k \in 1 .. n : s[a + k] = f[k]
        BY <1>2, <1>3, <1>4, <1>5, <2>1, <2>3, FieldIn, ZenonT(30)
      <3>2. \A k \in 1 .. n : p + k - 1 = a + k
        BY <2>2, <3>1
      <3>3. p \in Nat /\ p >= 1 /\ p + n <= 1 + Len(s) /\ p + n = 1 + e
        BY <1>5, <2>2, <3>1
      <3> QED BY <2>1, <3>1, <3>2, <3>3
    <2>4. CASE Def[i].kind # "fixed"
      <3>1. e = a + n + 1 /\ p = 2 + a /\ \A k \in 1 .. n : s[a + 1 + k] = f[k]
        BY <1>2, <1>3, <1>4, <1>5, <2>1, <2>4, FieldIn, ZenonT(30)
      <3>2. \A k \in 1 .. n : p + k - 1 = a + 1 + k
        BY <2>2, <3>1
      <3>3. p \in Nat /\ p >= 1 /\ p + n <= 1 + Len(s) /\ p + n = 1 + e
        BY <1>5, <2>2, <3>1
      <3> QED BY <2>1, <3>1, <3>2, <3>3
    <2> QED BY <2>3, <2>4
  <1>7. Min(rd.todo) = i
    <2>1. rd.todo \subseteq Nat /\ i \in rd.todo /\ \A x \in rd.todo : i <= x
      BY <1>3
    <2>2. Min(rd.todo) \in rd.todo /\ \A x \in rd.todo : Min(rd.todo) <= x
      BY <2>1, LeastOf
    <2>3. Min(rd.todo) <= i /\ i <= Min(rd.todo) /\ Min(rd.todo) \in Nat
      BY <2>1, <2>2
    <2> QED BY <2>3
  <1>8. CASE Lapse(n) /\ Goto("etx")
    BY <1>0, <1>1, <1>3, <1>4, <1>5, <1>6, <1>8, IcommLapses DEF b
  <1> DEFINE got == [k \in 1 .. n |-> wire[k].t]
  <1>9. CASE /\ Arrive(n)
             /\ IF got = <<>> THEN Goto("etx")
                ELSE To([rd EXCEPT !.pc = Upcoming(rd.todo \ {i}),
                                   !.todo = @ \ {i}, !.lrc = @ \o Cleaned(got),
                                   !.c = Set(@, i, Cleaned(got))])
    <2>1. PICK U : U = Drop(T, n)
      OBVIOUS
    <2>2. /\ Takes(T, w, n, U) /\ Current(U, m) /\ Await(U, b, m, p + n)
          /\ \A k \in 1 .. n : wire[k].t = s[p + k - 1]
      BY <1>0, <1>1, <1>3, <1>4, <1>5, <1>6, <1>9, <2>1, IcommArrives, SMTT(30) DEF b
    <2>3. got = f
      <3>1. got = [k \in 1 .. n |-> f[k]]
        BY <1>6, <2>2
      <3>2. f = [k \in 1 .. Len(f) |-> f[k]]
        BY <1>5, LenProperties
      <3> QED BY <1>5, <3>1, <3>2
    <2> HIDE DEF got
    <2>4. /\ IsReader(rd') /\ rd'.from = m /\ UNCHANGED accepted
          /\ rd'.todo = rd.todo \ {i} /\ rd'.pc = Upcoming(rd.todo \ {i})
          /\ rd'.c = Set(rd.c, i, Cleaned(f))
      BY <1>1, <1>2, <1>5, <1>9, <2>3 DEF To, IsReader
    <2>5. rd'.c = Heard(q, i)
      BY <1>2, <1>3, <1>4, <2>4, HeardMore
    <2>6. rd.todo \ {i} = DOMAIN q.fields \cap (i + 1) .. 126
      <3>1. \A x \in i .. 126 : x = i \/ x \in (i + 1) .. 126
        OBVIOUS
      <3>2. \A x \in (i + 1) .. 126 : x \in i .. 126 /\ x # i
        OBVIOUS
      <3> QED BY <1>3, <3>1, <3>2
    <2>7. Await(U, b, m, 1 + Len(Prefix(q, i)))
      BY <1>6, <2>2
    <2>8. IcommAt(q, rd', U, b, m)
      <3>1. /\ i \in 1 .. 126 /\ rd'.pc = Upcoming(rd'.todo)
            /\ rd'.todo = DOMAIN q.fields \cap (i + 1) .. 126
        BY <2>4, <2>6
      <3> QED BY <1>2, <2>5, <2>7, <3>1, Continues
    <2>9. GoesOn(F, U, m)
      BY <1>1, <2>4, <2>8 DEF GoesOn, Reads, b
    <2> QED BY <2>2, <2>9 DEF ReaderStep
  <1>10. \/ Lapse(n) /\ Goto("etx")
         \/ /\ Arrive(n)
            /\ IF got = <<>> THEN Goto("etx")
               ELSE To([rd EXCEPT !.pc = Upcoming(rd.todo \ {i}),
                                  !.todo = @ \ {i}, !.lrc = @ \o Cleaned(got),
                                  !.c = Set(@, i, Cleaned(got))])
    <2> DEFINE j == Min(rd.todo)
               l == IF Def[j].kind = "fixed" THEN Def[j].size ELSE rd.need
               one(k, d, x) ==
                  \/ Lapse(d) /\ Goto("etx")
                  \/ /\ Arrive(d)
                     /\ IF x = <<>> THEN Goto("etx")
                        ELSE To([rd EXCEPT !.pc = Upcoming(rd.todo \ {k}),
                                           !.todo = @ \ {k}, !.lrc = @ \o Cleaned(x),
                                           !.c = Set(@, k, Cleaned(x))])
    <2>1. one(j, l, [k \in 1 .. l |-> wire[k].t])
      BY DEF ReadValue, DoRead
    <2>2. j = i
      BY <1>7
    <2> HIDE DEF j
    <2>3. l = n
      BY <1>4, <2>2
    <2> HIDE DEF l
    <2> QED BY <2>1, <2>2, <2>3
  <1> QED BY <1>8, <1>9, <1>10

LEMMA EtxStep ==
    ASSUME FrTypes, Steady, NEW F, NEW T, NEW w, Delivers(F, T, w), ReadEtx \/ ReadLrc,
           codec = "icomm"
    PROVE  ReaderStep(F, T, w)
  <1> DEFINE b == conn = "broken"
  <1>0. rd.pc \in {"etx", "lrc"} /\ rd # Idle
    BY IdleIsReader DEF ReadEtx, ReadLrc
  <1>1. PICK m, q, good : m = rd.from /\ q = sent[m] /\ good = WithoutQuotes(AsRead(q))
    OBVIOUS
  <1>2. /\ IsReader(rd) /\ IcommAt(q, rd, T, b, m) /\ Flow(F, T, w)
        /\ \A d \in 0 .. Len(T) : Current(Drop(T, d), m)
    BY <1>0, <1>1, IcommBusy
  <1> HIDE DEF b
  <1>3. /\ rd.pc = "etx" => rd.c = good \/ Lost(T)
        /\ rd.pc = "lrc" => rd.c = good
    <2>1. CASE rd.pc = "etx"
      BY <1>1, <1>2, <2>1 DEF IcommAt
    <2>2. CASE rd.pc = "lrc"
      BY <1>1, <1>2, <2>2 DEF IcommAt
    <2> QED BY <2>1, <2>2
  <1>4. CASE Refuse /\ (Arrive(1) \/ Lapse(1))
    <2>1. 1 \in Nat /\ codec # "line"
      OBVIOUS
    <2> QED BY <1>4, <2>1, Refused
  <1>5. ASSUME Arrive(1)
        PROVE  \E U : /\ Takes(T, w, 1, U) /\ Current(U, m)
                      /\ Len(T) > 0 /\ wire[1].t = T[1].t
    <2>1. PICK U : U = Drop(T, 1)
      OBVIOUS
    <2>2. /\ Takes(T, w, 1, U) /\ 1 \in 0 .. Len(T) /\ wire[1].t = T[1].t
      BY <1>2, <1>5, <2>1, ArriveTakes
    <2>3. Len(T) > 0
      <3>1. Len(T) \in Nat
        BY <1>2, FlowLengths
      <3> QED BY <2>2, <3>1
    <2> QED BY <1>2, <2>1, <2>2, <2>3
  <1>6. CASE /\ Arrive(1) /\ rd.pc = "etx" /\ wire[1].t = ETX
             /\ To([rd EXCEPT !.pc = "lrc", !.lrc = @ \o [i \in 1 .. 1 |-> wire[i].t]])
    <2>1. PICK U : /\ Takes(T, w, 1, U) /\ Current(U, m)
                   /\ Len(T) > 0 /\ wire[1].t = T[1].t
      BY <1>5, <1>6
    <2>2. rd.c = good
      BY <1>3, <1>6, <2>1 DEF Lost
    <2>3. /\ IsReader(rd') /\ rd'.from = m /\ rd'.pc = "lrc" /\ rd'.c = good
          /\ UNCHANGED accepted
      BY <1>1, <1>2, <1>6, <2>2 DEF To, IsReader
    <2>4. IcommAt(q, rd', U, b, m)
      BY <1>1, <2>3, Zenon DEF IcommAt
    <2>5. GoesOn(F, U, m)
      BY <1>1, <2>3, <2>4 DEF GoesOn, Reads, b
    <2> QED BY <2>1, <2>5 DEF ReaderStep
  <1>7. CASE Arrive(1) /\ rd.pc = "lrc" /\ Return(rd.c)
    <2>1. PICK U : Takes(T, w, 1, U) /\ Current(U, m)
      BY <1>5, <1>7
    <2>2. Returns(U, m)
      BY <1>1, <1>3, <1>7 DEF Returns, Return, GoodContent
    <2> QED BY <2>1, <2>2 DEF ReaderStep
  <1>8. CASE ReadEtx
    BY <1>4, <1>6, <1>8 DEF ReadEtx, DoRead
  <1>9. CASE ReadLrc
    BY <1>4, <1>7, <1>9 DEF ReadLrc, DoRead
  <1> QED BY <1>8, <1>9

-----------------------------------------------------------------------------
(* All steps together.                                                       *)

LEMMA IcommReads ==
    ASSUME FrTypes, Steady, NEW F, NEW T, NEW w, Delivers(F, T, w),
           rd.pc \in {"icomm", "bitmap", "bitmap2", "length", "value", "etx", "lrc"}
    PROVE  codec = "icomm"
  <1> DEFINE b == conn = "broken"
  <1>1. rd # Idle
    BY IdleIsReader
  <1>2. Reads(codec, sent[rd.from], F[rd.from], rd, T, b)
    BY <1>1, InMessage
  <1> HIDE DEF b
  <1> QED BY <1>2 DEF Reads, PacketAt, LenAt, LineAt, FrTypes

LEMMA ReaderSteps ==
    ASSUME FrTypes, Steady, Steady', NEW F, NEW T, NEW w, Delivers(F, T, w), Reader
    PROVE  ReaderStep(F, T, w)
  <1>1. CASE ReadFirst
    BY <1>1, FirstStep
  <1>2. CASE ReadType
    <2>1. codec = "icomm"
      BY <1>2, IcommReads DEF ReadType
    <2> QED BY <1>2, <2>1, IcommTypeStep
  <1>3. CASE ReadBitmap
    <2>1. codec = "icomm"
      BY <1>3, IcommReads DEF ReadBitmap
    <2> QED BY <1>3, <2>1, BitmapStep
  <1>4. CASE ReadLength
    <2>1. codec = "icomm"
      BY <1>4, IcommReads DEF ReadLength
    <2> QED BY <1>4, <2>1, LengthStep
  <1>5. CASE ReadValue
    <2>1. codec = "icomm"
      BY <1>5, IcommReads DEF ReadValue
    <2> QED BY <1>5, <2>1, ValueStep
  <1>6. CASE ReadEtx \/ ReadLrc
    <2>1. codec = "icomm"
      BY <1>6, IcommReads DEF ReadEtx, ReadLrc
    <2> QED BY <1>6, <2>1, EtxStep
  <1>7. CASE ReadPacket \/ ReadPacketLrc
    BY <1>7, PacketStep
  <1>8. CASE ReadLen \/ ReadJunk \/ ReadData \/ ReadEnd
    BY <1>8, LenStep
  <1>9. CASE ReadLine
    BY <1>9, LineStep
  <1>10. CASE ReadDummy
    BY <1>10, DummyStep
  <1> QED BY <1>1, <1>2, <1>3, <1>4, <1>5, <1>6, <1>7, <1>8, <1>9, <1>10
      DEF Reader

LEMMA FrInvInit == FramingInit => FrInv
  <1> SUFFICES ASSUME FramingInit PROVE \E F, T, w : Delivers(F, T, w)
    BY FrTypesInit DEF FrInv
  <1>1. /\ out = <<>> /\ wire = <<>> /\ sent = <<>> /\ accepted = <<>> /\ rd = Idle
        /\ conn = "down"
    BY DEF FramingInit
  <1>2. /\ IsSequence(<<>>) /\ Len(<<>>) = 0
        /\ \A f, d : [i \in 1 .. 0 |-> f[d + i]] = <<>>
    <2>1. <<>> = [i \in 1 .. 0 |-> <<>>[i]]
      OBVIOUS
    <2>2. \A f, d : [i \in 1 .. 0 |-> f[d + i]] = <<>>
      OBVIOUS
    <2> QED BY <2>1, <2>2 DEF IsSequence
  <1>3. Laid(<<>>, 0, <<>>)
    BY <1>2 DEF Laid
  <1>4. Flow(<<>>, <<>>, 0)
    <2>1. wire = [i \in 1 .. 0 |-> [t |-> <<>>[i].t, m |-> <<>>[i].m]]
      BY <1>1
    <2>2. out = [i \in 1 .. 0 - 0 |-> <<>>[0 + i].t]
      BY <1>1
    <2> QED BY <1>1, <1>2, <1>3, <2>1, <2>2 DEF Flow, Whole
  <1>5. Reading(<<>>, <<>>)
    BY <1>1, <1>2 DEF Reading, ReadingIn, Starting
  <1>6. Taken(<<>>)
    BY <1>1, <1>2 DEF Taken, TakenIn
  <1> QED BY <1>4, <1>5, <1>6 DEF Delivers

LEMMA FrInvStep ==
    ASSUME FrInv, [FramingNext]_framingVars
    PROVE  FrInv'
  <1>1. FrTypes /\ FrTypes' /\ codec' = codec
    BY FrTypesStep DEF FrInv
  <1> SUFFICES ASSUME Steady' PROVE (\E F, T, w : Delivers(F, T, w))'
    BY <1>1 DEF FrInv
  <1>2. Steady /\ ~ Damage
    BY <1>1, SteadyBefore
  <1>3. PICK F, T, w : Delivers(F, T, w)
    BY <1>2 DEF FrInv
  <1>4. CASE Compose
    BY <1>1, <1>3, <1>4, ComposeDelivers
  <1>5. CASE Write
    BY <1>1, <1>3, <1>5, WriteDelivers
  <1>6. CASE WriteFails
    BY <1>1, <1>3, <1>6, WriteFailsDelivers
  <1>7. CASE Connection
    BY <1>1, <1>3, <1>7, ConnectionDelivers
  <1>8. CASE Reader
    <2>1. ReaderStep(F, T, w)
      BY <1>1, <1>2, <1>3, <1>8, ReaderSteps
    <2>2. UNCHANGED <<writerVars, conn, cut>>
      BY <1>8, ReaderReads
    <2> QED BY <1>1, <1>3, <2>1, <2>2, StepDelivers
  <1>9. CASE UNCHANGED framingVars
    <2>1. UNCHANGED <<codec, tls, conn, out, wire, sent, rd, accepted>>
      BY <1>9 DEF framingVars
    <2>2. Flow(F, T, w)'
      BY <1>3, <2>1 DEF Delivers, Flow
    <2>3. Reading(F, T)' /\ Taken(T)'
      BY <1>3, <2>1 DEF Delivers, Reading, Taken
    <2>4. Delivers(F, T, w)'
      BY <2>2, <2>3 DEF Delivers
    <2> QED BY <2>4
  <1> QED BY <1>2, <1>4, <1>5, <1>6, <1>7, <1>8, <1>9 DEF FramingNext, Writer

\* What a reader returns was sent, but for quotes, each message at most once and
\* in order: however much of a message a write or a read takes at a time, with
\* time running out in the middle of a message, connections that break and are
\* opened again, and whatever messages came before; as long as no character
\* changes on the way and the messages are plain (SocketIO::doRead, Icomm::read,
\* doReadPacket, doReadLen, doReadLine).
THEOREM ReadAsSent == FramingSpec => [](Undisturbed => AcceptedWasSent)
  <1>1. FramingInit => FrInv
    BY FrInvInit
  <1>2. FrInv /\ [FramingNext]_framingVars => FrInv'
    BY FrInvStep
  <1>3. FrInv => (Undisturbed => AcceptedWasSent)
    BY DeliversAccepted
  <1> QED BY <1>1, <1>2, <1>3, PTL DEF FramingSpec
=============================================================================
