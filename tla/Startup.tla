------------------------------ MODULE Startup ------------------------------
(***************************************************************************)
(* The start of the server (Mech::doWork): the main thread starts one      *)
(* worker per configured localid and waits for each, for 15 seconds, on    *)
(* semInitID; it lowers the rights of the process, releases the workers    *)
(* that wait on semRunID, and starts the control thread.  A worker finds   *)
(* the entry of the configuration it serves by comparing with _threadID,   *)
(* which every thread increments when it begins, and takes the number of   *)
(* a semaphore from DssSems.  A worker that takes commands starts a        *)
(* command thread, which looks up which semaphore to poll.                 *)
(***************************************************************************)
EXTENDS Integers, Sequences, FiniteSets, SequencesExt

CONSTANTS
    Setups,       \* configuration files, see SetupSet
    Localids,     \* names a configuration may give to its entries
    SetSize,      \* SEMSETSIZE: semaphores in a set
    MaxSets,      \* MAXSEMSETS: sets
    MaxAccidents  \* bound, for each configuration: waits of 15 s that end
                  \* while the worker works, and failures of pthread_create

\* What a library does of the handshake: no library, or none for the model;
\* an interface that releases semInitID and starts; one that waits on
\* semRunID before it starts; one with a command thread.
Kinds == {"nolibrary", "nomodel", "plain", "netlink", "command"}

\* entries: the localid entries in the order of configMap.  rights: the
\* process is root and both runuid and rungid are set, only one is, or
\* nothing is to be lowered.  control, listener: startcontrolport and
\* listenerport are on.
SetupSet ==
    [entries : Seq([localid : Localids, kind : Kinds]),
     rights : {"both", "one", "keep"}, control : BOOLEAN, listener : BOOLEAN]

ASSUME StartupAssumption ==
    /\ Setups \subseteq SetupSet
    /\ SetSize \in Nat \ {0} /\ MaxSets \in Nat \ {0}
    /\ MaxAccidents \in [Setups -> Nat]

VARIABLES
    setup,        \* configMap, read at the start
    threadID,     \* _threadID
    configidx,    \* configMap["configidx"], 0 before the first is set
    controlMutex, \* worker that holds it, 0 when it is free
    dssLocked,    \* dssMutex was left locked by initSemaphores
    semQ,         \* stack of semaphore numbers, its top is last
    currentIndex, \* sets created
    localidSems,  \* number of a localid's semaphore
    semInit,      \* value of semInitID
    semRun,       \* value of semRunID
    main,         \* main thread: pc, j
    worker,       \* threads 1, 2, ... of doWork(threadID), in order of start
    command,      \* command thread of a worker
    control,      \* control thread: pc, reg
    hurries,      \* waits that ended while their worker was under way
    failures,     \* threads that could not be created
    raced         \* an insertion into localidSems was lost

dss == <<dssLocked, semQ, currentIndex>>
sems == <<semInit, semRun>>
threads == <<worker, command, control>>
maps == <<configidx, localidSems>>
accidents == <<hurries, failures, raced>>
vars == <<setup, threadID, maps, controlMutex, dss, sems, main, threads,
          accidents>>

Entries == Len(setup.entries)
Workers == 1 .. Entries
Localid(k) == setup.entries[k].localid

\* The number before a worker has one, and the -1 of getUserSemaphore.
Unset == -2
NoNumber == -1

NewWorker == [pc |-> "none", reg |-> 0, j |-> 1, entry |-> 0, number |-> Unset]
NewCommand == [pc |-> "none", idx |-> 0, number |-> 0]

SetNumbersAscending(k) == [i \in 1 .. SetSize |-> (k + 1) * SetSize - i]
\* The numbers of set k, the last on top (initSemaphores).
SetNumbers(k) == [i \in 1 .. SetSize |-> k * SetSize + i - 1]
Offset(number) == number % SetSize

\* DssSems::init creates the first set before any thread runs.
Init ==
    /\ setup \in Setups
    /\ threadID = 0 /\ configidx = 0 /\ localidSems = <<>>
    /\ controlMutex = 0 /\ dssLocked = FALSE
    /\ semQ = SetNumbers(0) /\ currentIndex = 1
    /\ semInit = 0 /\ semRun = 0
    /\ main = [pc |-> "start", j |-> 0]
    /\ worker = [w \in Workers |-> NewWorker]
    /\ command = [w \in Workers |-> NewCommand]
    /\ control = [pc |-> "none", reg |-> 0]
    /\ hurries = 0 /\ failures = 0 /\ raced = FALSE

-----------------------------------------------------------------------------
\* Main thread

AccidentPossible == hurries + failures < MaxAccidents[setup]

AwaitNoWorker == [pc |-> "start", j |-> main.j + 1]
AwaitWorker == [pc |-> "wait", j |-> main.j + 1]

\* startThread(true, 1): the new thread runs, or it could not be created.
StartWorker ==
    /\ main.pc = "start" /\ main.j < Entries
    /\ main' = AwaitWorker
    /\ \/ worker' = [worker EXCEPT ![main.j + 1].pc = "new"]
          /\ UNCHANGED failures
       \/ AccidentPossible
          /\ failures' = failures + 1
          /\ worker' = [worker EXCEPT ![main.j + 1].pc = "exited"]
    /\ UNCHANGED <<setup, threadID, maps, controlMutex, dss, sems, command,
                   control, hurries, raced>>

\* Where the main thread goes on after a wait for semInitID.
AfterWait == [main EXCEPT !.pc = IF @ = "wait" THEN "start" ELSE "listen"]

\* semGet(semInitID) takes a permit, of whichever thread it is.
GetInit ==
    /\ main.pc \in {"wait", "waitcontrol"}
    /\ semInit > 0 /\ semInit' = semInit - 1
    /\ main' = AfterWait
    /\ UNCHANGED <<setup, threadID, maps, controlMutex, dss, semRun, threads,
                   accidents>>

\* A worker that will not release semInitID any more: it has ended, or it
\* waits for a dssMutex that nobody will unlock, or for controlMutex, which
\* such a worker holds.
Settled(w) ==
    \/ worker[w].pc \in {"exited", "waitrun", "serving", "early"}
    \/ dssLocked /\ worker[w].pc \in {"get", "lock"} /\ controlMutex # 0

InitTimeoutNever == FALSE /\ UNCHANGED vars
\* The wait ends after 15 seconds; its result is not looked at.  The control
\* thread may take any time to connect.
InitTimeout ==
    /\ main.pc \in {"wait", "waitcontrol"} /\ semInit = 0
    /\ IF main.pc = "wait" /\ ~ Settled(main.j)
       THEN AccidentPossible /\ hurries' = hurries + 1
       ELSE UNCHANGED hurries
    /\ main' = AfterWait
    /\ UNCHANGED <<setup, threadID, maps, controlMutex, dss, sems, threads,
                   failures, raced>>

\* setresuid and setresgid, when the process is root and both are set.
LowerRights ==
    /\ main.pc = "start" /\ main.j = Entries
    /\ main' = [pc |-> "run", j |-> 0]
    /\ UNCHANGED <<setup, threadID, maps, controlMutex, dss, sems, threads,
                   accidents>>

\* One semRelease(semRunID) per worker.
ReleaseRun ==
    /\ main.pc = "run" /\ main.j < Entries
    /\ semRun' = semRun + 1
    /\ main' = [main EXCEPT !.j = @ + 1]
    /\ UNCHANGED <<setup, threadID, maps, controlMutex, dss, semInit, threads,
                   accidents>>

StartControl ==
    /\ main.pc = "run" /\ main.j = Entries
    /\ main' = [main EXCEPT !.pc = IF setup.control THEN "waitcontrol"
                                                    ELSE "listen"]
    /\ control' = [control EXCEPT !.pc = IF setup.control THEN "new" ELSE @]
    /\ UNCHANGED <<setup, threadID, maps, controlMutex, dss, sems, worker,
                   command, accidents>>

StartListener ==
    /\ main.pc = "listen"
    /\ main' = [main EXCEPT !.pc = "running"]
    /\ UNCHANGED <<setup, threadID, maps, controlMutex, dss, sems, threads,
                   accidents>>

Main ==
    \/ StartWorker \/ GetInit \/ InitTimeout \/ LowerRights \/ ReleaseRun
    \/ StartControl \/ StartListener

RightsLowered == main.pc \notin {"start", "wait"}

-----------------------------------------------------------------------------
\* Worker threads

\* The read of _threadID++ in initThread; no lock is held.
LoadThreadID(w) ==
    /\ worker[w].pc = "new"
    /\ worker' = [worker EXCEPT ![w].pc = "store", ![w].reg = threadID]
    /\ UNCHANGED <<setup, threadID, maps, controlMutex, dss, sems, main,
                   command, control, accidents>>

\* Its write.
StoreThreadID(w) ==
    /\ worker[w].pc = "store"
    /\ threadID' = worker[w].reg + 1
    /\ worker' = [worker EXCEPT ![w].pc = "scan", ![w].reg = 0]
    /\ UNCHANGED <<setup, maps, controlMutex, dss, sems, main, command,
                   control, accidents>>

\* One localid entry of configMap, compared with what _threadID is by now.
Scan(w) ==
    /\ worker[w].pc = "scan" /\ worker[w].j <= Entries
    /\ worker' = [worker EXCEPT
           ![w].entry = IF worker[w].j = threadID THEN threadID ELSE @,
           ![w].j = @ + 1]
    /\ UNCHANGED <<setup, threadID, maps, controlMutex, dss, sems, main,
                   command, control, accidents>>

\* Without an entry the worker returns, and releases nothing.
Parsed(w) ==
    /\ worker[w].pc = "scan" /\ worker[w].j > Entries
    /\ IF worker[w].entry = 0
       THEN worker' = [worker EXCEPT ![w].pc = "exited"] /\ UNCHANGED configidx
       ELSE /\ worker' = [worker EXCEPT ![w].pc = "lock"]
            /\ configidx' = worker[w].entry
    /\ UNCHANGED <<setup, threadID, localidSems, controlMutex, dss, sems, main,
                   command, control, accidents>>

LockControl(w) ==
    /\ worker[w].pc = "lock" /\ controlMutex = 0
    /\ controlMutex' = w
    /\ worker' = [worker EXCEPT ![w].pc = "get"]
    /\ UNCHANGED <<setup, threadID, maps, dss, sems, main, command, control,
                   accidents>>

\* The stack that is popped: when it was empty, that of a new set, if one is
\* left.
Stack == IF semQ = <<>> /\ currentIndex < MaxSets
         THEN SetNumbers(currentIndex) ELSE semQ

NotPopped(stack) == stack
Popped(stack) == Front(stack)

\* getUserSemaphore: the top of the stack.  When there is none, -1, and
\* initSemaphores leaves dssMutex locked.
GetUserSemaphore(w) ==
    /\ worker[w].pc = "get" /\ ~ dssLocked
    /\ currentIndex' = IF semQ # Stack THEN currentIndex + 1 ELSE currentIndex
    /\ semQ' = IF Stack = <<>> THEN semQ ELSE Popped(Stack)
    /\ dssLocked' = (Stack = <<>>)
    /\ worker' = [worker EXCEPT ![w].pc = "unlock",
           ![w].number = IF Stack = <<>> THEN NoNumber ELSE Last(Stack)]
    /\ UNCHANGED <<setup, threadID, maps, controlMutex, sems, main, command,
                   control, accidents>>

UnlockControl(w) ==
    /\ worker[w].pc = "unlock"
    /\ controlMutex' = 0
    /\ worker' = [worker EXCEPT ![w].pc = "name"]
    /\ UNCHANGED <<setup, threadID, maps, dss, sems, main, command, control,
                   accidents>>

\* Another thread that may be inserting into localidSems: no lock is held.
AtLocalidSems(w) ==
    \/ \E v \in Workers \ {w} : worker[v].pc = "name"
    \/ \E v \in Workers : command[v].pc = "look"

Assigned(l, n) ==
    [k \in DOMAIN localidSems \cup {l} |->
        IF k = l THEN n ELSE localidSems[k]]

\* localidSems[_localID] = localidsem, after the mutex was unlocked.  An
\* insertion that meets another one may be lost.
SetLocalidSem(w) ==
    LET l == Localid(worker[w].entry) IN
    /\ worker[w].pc = "name"
    /\ \/ localidSems' = Assigned(l, worker[w].number) /\ UNCHANGED raced
       \/ /\ AtLocalidSems(w) /\ l \notin DOMAIN localidSems
          /\ raced' = TRUE
          /\ UNCHANGED localidSems
    /\ worker' = [worker EXCEPT ![w].pc = "library"]
    /\ UNCHANGED <<setup, threadID, configidx, controlMutex, dss, sems, main,
                   command, control, hurries, failures>>

\* The library is opened and its main called, which releases semInitID
\* unless it does not know the model.
Launch(w) ==
    LET kind == setup.entries[worker[w].entry].kind IN
    /\ worker[w].pc = "library"
    /\ semInit' = semInit + (IF kind = "nomodel" THEN 0 ELSE 1)
    /\ worker' = [worker EXCEPT ![w].pc =
           CASE kind \in {"nolibrary", "nomodel"} -> "exited"
             [] kind = "netlink" -> "waitrun"
             [] OTHER -> "serving"]
    /\ command' = [command EXCEPT ![w].pc =
           IF kind = "command" /\ setup.control THEN "new" ELSE @]
    /\ UNCHANGED <<setup, threadID, maps, controlMutex, dss, semRun, main,
                   control, accidents>>

RunPermitIgnored == TRUE
RunPermit == semRun > 0

\* semGet(semRunID) of System_netlink, which gives up after 15 seconds.
GetRun(w) ==
    /\ worker[w].pc = "waitrun"
    /\ \/ /\ RunPermit /\ semRun' = semRun - 1
          /\ worker' = [worker EXCEPT ![w].pc = "serving"]
       \/ /\ semRun = 0 /\ UNCHANGED semRun
          /\ worker' = [worker EXCEPT ![w].pc = "early"]
    /\ UNCHANGED <<setup, threadID, maps, controlMutex, dss, semInit, main,
                   command, control, accidents>>

Worker(w) ==
    \/ LoadThreadID(w) \/ StoreThreadID(w) \/ Scan(w) \/ Parsed(w)
    \/ LockControl(w) \/ GetUserSemaphore(w) \/ UnlockControl(w)
    \/ SetLocalidSem(w) \/ Launch(w) \/ GetRun(w)

-----------------------------------------------------------------------------
\* Command threads of the workers with commands, and the control thread

\* The command thread's configMap.find("configidx"): the entry a worker, this
\* one or a later one, has set last.
ReadIdx(w) ==
    /\ command[w].pc = "new"
    /\ command' = [command EXCEPT ![w].pc = "look", ![w].idx = configidx]
    /\ UNCHANGED <<setup, threadID, maps, controlMutex, dss, sems, main, worker,
                   control, accidents>>

FoundNothing(l) == 0
Found(l) == IF l \in DOMAIN localidSems THEN localidSems[l] ELSE 0

\* localidSems[localid], which adds the localid with 0 when it is missing.
LookSemaphore(w) ==
    /\ command[w].pc = "look"
    /\ LET l == Localid(command[w].idx) IN
       /\ localidSems' = Assigned(l, Found(l))
       /\ command' = [command EXCEPT ![w].pc = "polls", ![w].number = Found(l)]
    /\ UNCHANGED <<setup, threadID, configidx, controlMutex, dss, sems, main,
                   worker, control, accidents>>

\* The control thread is a thread like the others: it increments _threadID.
LoadThreadIDControl ==
    /\ control.pc = "new"
    /\ control' = [pc |-> "store", reg |-> threadID]
    /\ UNCHANGED <<setup, threadID, maps, controlMutex, dss, sems, main, worker,
                   command, accidents>>

StoreThreadIDControl ==
    /\ control.pc = "store"
    /\ threadID' = control.reg + 1
    /\ control' = [pc |-> "connect", reg |-> 0]
    /\ UNCHANGED <<setup, maps, controlMutex, dss, sems, main, worker, command,
                   accidents>>

\* Connected to the host: semInitID is released.  While the process is still
\* root, with a runuid or a rungid, the thread then waits on semRunID.
Connect ==
    /\ control.pc = "connect"
    /\ semInit' = semInit + 1
    /\ control' = [control EXCEPT !.pc = IF setup.rights = "one" THEN "waitrun"
                                                                 ELSE "session"]
    /\ UNCHANGED <<setup, threadID, maps, controlMutex, dss, semRun, main,
                   worker, command, accidents>>

GetRunControl ==
    /\ control.pc = "waitrun"
    /\ semRun' = IF semRun > 0 THEN semRun - 1 ELSE semRun
    /\ control' = [control EXCEPT !.pc = "session"]
    /\ UNCHANGED <<setup, threadID, maps, controlMutex, dss, semInit, main,
                   worker, command, accidents>>

Control ==
    \/ LoadThreadIDControl \/ StoreThreadIDControl \/ Connect \/ GetRunControl

Next ==
    \/ Main
    \/ \E w \in Workers : Worker(w) \/ ReadIdx(w) \/ LookSemaphore(w)
    \/ Control

-----------------------------------------------------------------------------
\* Type invariant: every variable has the type its declaration names.
StartupTypeOK ==
    /\ setup \in Setups
    /\ threadID \in Nat /\ configidx \in 0 .. Entries
    /\ controlMutex \in 0 .. Entries /\ dssLocked \in BOOLEAN
    /\ semQ \in Seq(Nat) /\ currentIndex \in 1 .. MaxSets
    /\ DOMAIN localidSems \subseteq Localids
    /\ \A l \in DOMAIN localidSems : localidSems[l] \in Nat \cup {NoNumber}
    /\ semInit \in Nat /\ semRun \in Nat
    /\ main \in [pc : {"start", "wait", "run", "waitcontrol", "listen",
                       "running"}, j : 0 .. Entries]
    /\ worker \in [Workers ->
           [pc : {"none", "new", "store", "scan", "lock", "get", "unlock",
                  "name", "library", "waitrun", "serving", "early", "exited"},
            reg : Nat, j : 1 .. Entries + 1, entry : 0 .. Entries,
            number : Nat \cup {NoNumber, Unset}]]
    /\ command \in [Workers ->
           [pc : {"none", "new", "look", "polls"}, idx : 0 .. Entries,
            number : Nat \cup {NoNumber}]]
    /\ control \in [pc : {"none", "new", "store", "connect", "waitrun",
                          "session"}, reg : Nat]
    /\ hurries \in Nat /\ failures \in Nat
    /\ hurries + failures <= MaxAccidents[setup]
    /\ raced \in BOOLEAN

\* No two workers share a semaphore, and none is held and free at once,
\* however their starts interleave: a shared one would give a worker the
\* signals of another's commands.
OneSemaphoreEach ==
    /\ \A v, w \in Workers :
          v # w /\ worker[v].number = worker[w].number
             => worker[v].number \in {NoNumber, Unset}
    /\ \A w \in Workers, i \in DOMAIN semQ : worker[w].number # semQ[i]

\* Two workers never serve the same entry of the configuration, although each
\* finds its own by comparing with a counter that all threads increment
\* without a lock: the wait of 15 seconds is what keeps them apart.
EntryOfItsOwn ==
    hurries = 0 => \A v, w \in Workers :
        v # w /\ worker[v].entry = worker[w].entry => worker[v].entry = 0

\* Commands for a localid go to the last entry that has this localid, also
\* when its worker has ended (dss.conf.default gives one localid to several
\* entries): earlier ones are never signalled.
Named == {w \in Workers : worker[w].entry # 0 /\
              worker[w].pc \in {"library", "waitrun", "serving", "early",
                                "exited"}}
LastWorkerOwnsLocalid ==
    \A w \in Named :
        (\A v \in Named : worker[v].entry > worker[w].entry
              => Localid(worker[v].entry) # Localid(worker[w].entry))
        => localidSems[Localid(worker[w].entry)] = worker[w].number

\* A command thread polls a semaphore of its own worker's localid or of that
\* of a later entry (configidx is shared, and read after the worker has
\* released the main thread), which may be that of a third worker that
\* started first; or number 0, when the later entry is the first of its
\* localid and its worker has not assigned a number yet.
PollsOwnOrLater ==
    \A w \in Workers : command[w].pc = "polls" =>
        /\ command[w].idx >= worker[w].entry
        /\ \/ \E v \in Named : worker[v].number = command[w].number
                  /\ Localid(worker[v].entry) = Localid(command[w].idx)
           \/ command[w].number = 0 /\ command[w].idx > worker[w].entry

\* Together: whom a command for a localid wakes, and who listens, unless a
\* worker was overtaken or an insertion into localidSems was lost.
CommandsFindWorkers ==
    hurries = 0 /\ ~ raced => LastWorkerOwnsLocalid /\ PollsOwnOrLater

\* dssMutex is left locked, and so controlMutex held for ever by the next
\* worker, only when every semaphore of every set has been handed out.
LockedOnlyWhenExhausted ==
    dssLocked =>
        Cardinality({w \in Workers : worker[w].number >= 0})
            = SetSize * MaxSets

\* doCommand signals no worker whose semaphore has offset 0 in its set: that
\* one is handed out last, when every other of the set has its worker.
DeafIsLast ==
    \A w \in Workers : worker[w].number >= 0 /\ Offset(worker[w].number) = 0
        => \A i \in 1 .. SetSize - 1 : \E v \in Workers :
              worker[v].number = worker[w].number + i

\* The allocator works to its limit: nobody is given the semaphore that
\* doCommand never signals, and nobody waits for ever on the locked mutex,
\* while another semaphore of the set, or of any set, is left.
UsableFirst == LockedOnlyWhenExhausted /\ DeafIsLast

\* No worker passes semRunID by a permit before the rights are lowered, and
\* when all are released each waiting worker finds one, although the control
\* thread may take one too (it does so as root with only one of runuid and
\* rungid): a permit can then be missing only if every worker waits for one.
WaitsForRun(w) ==
    worker[w].entry # 0 /\ setup.entries[worker[w].entry].kind = "netlink"
RunSignal ==
    /\ \A w \in Workers :
          worker[w].pc = "serving" /\ WaitsForRun(w) => RightsLowered
    /\ RightsLowered /\ ~ (main.pc = "run" /\ main.j < Entries)
          /\ (setup.rights # "one" \/ \E w \in Workers : ~ WaitsForRun(w))
       => Cardinality({w \in Workers : worker[w].pc = "waitrun"}) <= semRun

\* The start ends: no thread that fails, blocks or never connects keeps the
\* main thread from its session with the host, for every wait has a timeout.
StartupEnds == <>(main.pc = "running")

=============================================================================
