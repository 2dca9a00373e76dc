--------------------------- MODULE StartupProofs ---------------------------
(***************************************************************************)
(* Proofs about Startup and LocalListener, for every set of configuration  *)
(* files, all sizes of the semaphore sets and any number of clients.       *)
(***************************************************************************)
EXTENDS LocalListener, FiniteSetTheorems, SequenceTheorems, TLAPS

\* The parts of the type invariant, each with a name.
MainSet == [pc : {"start", "wait", "run", "waitcontrol", "listen", "running"},
            j : 0 .. Entries]
WorkerSet ==
    [pc : {"none", "new", "store", "scan", "lock", "get", "unlock", "name",
           "library", "waitrun", "serving", "early", "exited"},
     reg : Nat, j : 1 .. Entries + 1, entry : 0 .. Entries,
     number : Nat \cup {NoNumber, Unset}]
CommandSet == [pc : {"none", "new", "look", "polls"}, idx : 0 .. Entries,
               number : Nat \cup {NoNumber}]
ControlSet == [pc : {"none", "new", "store", "connect", "waitrun", "session"},
               reg : Nat]
SemsTyped == /\ DOMAIN localidSems \subseteq Localids
             /\ \A l \in DOMAIN localidSems :
                   localidSems[l] \in Nat \cup {NoNumber}
AllocTyped == /\ controlMutex \in 0 .. Entries /\ dssLocked \in BOOLEAN
              /\ semQ \in Seq(Nat) /\ currentIndex \in 1 .. MaxSets
AccidentsTyped == /\ hurries \in Nat /\ failures \in Nat
                  /\ hurries + failures <= MaxAccidents[setup]
                  /\ raced \in BOOLEAN

LEMMA TypeParts ==
    StartupTypeOK <=>
        /\ setup \in Setups /\ threadID \in Nat /\ configidx \in 0 .. Entries
        /\ AllocTyped /\ SemsTyped
        /\ semInit \in Nat /\ semRun \in Nat
        /\ main \in MainSet /\ worker \in [Workers -> WorkerSet]
        /\ command \in [Workers -> CommandSet] /\ control \in ControlSet
        /\ AccidentsTyped
  BY DEF StartupTypeOK, AllocTyped, SemsTyped, AccidentsTyped, MainSet,
     WorkerSet, CommandSet, ControlSet

\* What a thread has done by the step it is in.
Past(w) ==
    /\ worker[w].pc \in {"none", "new", "store", "scan", "lock", "get"}
          => worker[w].number = Unset
    /\ worker[w].pc \in {"lock", "get", "unlock", "name", "library", "waitrun",
                         "serving", "early"}
          => worker[w].entry # 0 /\ configidx # 0
    /\ worker[w].pc \in {"unlock", "name", "library"}
          => worker[w].number # Unset
    /\ command[w].pc = "new" => configidx # 0
    /\ command[w].pc = "look" => command[w].idx # 0

\* The main thread starts the workers one after the other.
NotStarted ==
    main.pc \in {"start", "wait"} =>
        \A w \in Workers : w > main.j => worker[w].pc = "none"

StartupInv == StartupTypeOK /\ NotStarted /\ \A w \in Workers : Past(w)

LEMMA Constants ==
    ASSUME setup \in Setups
    PROVE  /\ Entries \in Nat /\ Workers = 1 .. Entries
           /\ \A k \in 1 .. Entries : Localid(k) \in Localids
           /\ SetSize \in Nat \ {0} /\ MaxSets \in Nat \ {0}
           /\ MaxAccidents[setup] \in Nat
  <1>1. setup \in SetupSet
    BY StartupAssumption
  <1>2. setup.entries \in Seq([localid : Localids, kind : Kinds])
    BY <1>1 DEF SetupSet
  <1>3. \A k \in 1 .. Len(setup.entries) :
           setup.entries[k] \in [localid : Localids, kind : Kinds]
    BY ZenonT(30), <1>2, ElementOfSeq
  <1> QED BY <1>2, <1>3, StartupAssumption DEF Entries, Workers, Localid

\* The configuration is read once.
LEMMA SetupKept ==
    ASSUME [LNext]_<<vars, lvars>>
    PROVE  setup' = setup
  BY ZenonT(30) DEF LNext, Next, Main, Worker, Control, Listener, ClientThread, vars,
     StartWorker, GetInit, InitTimeout, LowerRights, ReleaseRun, StartControl,
     StartListener, LoadThreadID, StoreThreadID, Scan, Parsed, LockControl,
     GetUserSemaphore, UnlockControl, SetLocalidSem, Launch, GetRun, ReadIdx,
     LookSemaphore, LoadThreadIDControl, StoreThreadIDControl, Connect,
     GetRunControl, LoadThreadIDListener, StoreThreadIDListener, Accept,
     StartClientThread, LoadThreadIDClient, StoreThreadIDClient, GetClientFD,
     ReadClient, ProcessLocalMsg, SendAck, SendSignonAck, EndClient

-----------------------------------------------------------------------------
\* The type invariant of the start, action by action.

LEMMA MainType ==
    ASSUME StartupInv, setup' = setup, Main
    PROVE  StartupInv'
  <1>0. Entries' = Entries /\ Workers' = Workers
    BY DEF Entries, Workers
  <1>1. /\ setup \in Setups /\ threadID \in Nat /\ configidx \in 0 .. Entries
        /\ AllocTyped /\ SemsTyped /\ semInit \in Nat /\ semRun \in Nat
        /\ main \in MainSet /\ worker \in [Workers -> WorkerSet]
        /\ command \in [Workers -> CommandSet] /\ control \in ControlSet
        /\ AccidentsTyped
    BY TypeParts DEF StartupInv
  <1>2. Entries \in Nat /\ MaxAccidents[setup] \in Nat /\ Workers = 1 .. Entries
    BY <1>1, Constants
  <1>3. /\ UNCHANGED <<threadID, maps, controlMutex, dss, command, raced>>
    BY DEF Main, StartWorker, GetInit, InitTimeout, LowerRights, ReleaseRun,
       StartControl, StartListener, accidents, threads
  <1>4. AllocTyped' /\ SemsTyped'
    BY <1>0, <1>1, <1>3 DEF AllocTyped, SemsTyped, dss, maps
  <1>5. main' \in MainSet
    BY <1>1, <1>2 DEF Main, StartWorker, GetInit, InitTimeout, LowerRights,
       ReleaseRun, StartControl, StartListener, AwaitWorker, AfterWait, MainSet
  <1>6. semInit' \in Nat /\ semRun' \in Nat
    BY <1>1 DEF Main, StartWorker, GetInit, InitTimeout, LowerRights,
       ReleaseRun, StartControl, StartListener, sems
  <1>7. \/ worker' = worker
        \/ \E pc \in {"new", "exited"} :
              worker' = [worker EXCEPT ![main.j + 1].pc = pc]
    BY DEF Main, StartWorker, GetInit, InitTimeout, LowerRights, ReleaseRun,
       StartControl, StartListener, threads
  <1>8. worker' \in [Workers -> WorkerSet]
    BY <1>1, <1>7 DEF WorkerSet
  <1>9. control' \in ControlSet
    BY <1>1 DEF Main, StartWorker, GetInit, InitTimeout, LowerRights,
       ReleaseRun, StartControl, StartListener, threads, ControlSet
  <1>10. AccidentsTyped'
    <2>1. \/ hurries' = hurries /\ failures' = failures
          \/ AccidentPossible /\ hurries' = hurries + 1 /\ failures' = failures
          \/ AccidentPossible /\ hurries' = hurries /\ failures' = failures + 1
      BY DEF Main, StartWorker, GetInit, InitTimeout, LowerRights, ReleaseRun,
         StartControl, StartListener, accidents
    <2> QED BY <1>1, <1>2, <1>3, <2>1 DEF AccidentsTyped, AccidentPossible
  <1>11. StartupTypeOK'
    BY <1>0, <1>1, <1>3, <1>4, <1>5, <1>6, <1>8, <1>9, <1>10, TypeParts
    DEF maps, StartupTypeOK, AllocTyped, SemsTyped, AccidentsTyped, MainSet,
        WorkerSet, CommandSet, ControlSet
  <1>12. \A w \in Workers : Past(w)'
    <2> SUFFICES ASSUME NEW w \in Workers PROVE Past(w)'
      BY <1>0
    <2>1. Past(w)
      BY DEF StartupInv
    <2>2. CASE worker' = worker
      BY <1>3, <2>1, <2>2 DEF Past, maps
    <2>4. worker' # worker => main.pc \in {"start", "wait"}
      BY DEF Main, StartWorker, GetInit, InitTimeout, LowerRights, ReleaseRun,
         StartControl, StartListener, threads
    <2>3. ASSUME NEW pc \in {"new", "exited"}, worker' # worker,
                 worker' = [worker EXCEPT ![main.j + 1].pc = pc]
          PROVE  Past(w)'
      <3>1. CASE w = main.j + 1 /\ pc = "new"
        <4>1. worker[w].pc = "none"
          <5>1. main.j \in Nat /\ w > main.j
            BY <1>1, <1>2, <3>1 DEF MainSet
          <5> QED BY <2>3, <2>4, <5>1 DEF NotStarted, StartupInv
        <4> QED BY <1>1, <1>3, <2>1, <2>3, <3>1, <4>1 DEF Past, maps, WorkerSet
      <3>2. CASE ~ (w = main.j + 1 /\ pc = "new")
        BY <1>1, <1>3, <2>1, <2>3, <3>2 DEF Past, maps, WorkerSet
      <3> QED BY <3>1, <3>2
    <2> QED BY <1>7, <2>2, <2>3
  <1>13. NotStarted'
    <2>1. \/ StartWorker
          \/ worker' = worker /\ main'.pc \notin {"start", "wait"}
          \/ /\ worker' = worker /\ main'.j = main.j
             /\ main.pc \in {"start", "wait"}
      BY <1>1 DEF Main, GetInit, InitTimeout, LowerRights, ReleaseRun,
         StartControl, StartListener, threads, AfterWait, MainSet
    <2>2. CASE StartWorker
      <3>1. main'.j = main.j + 1 /\ main.pc = "start" /\ main.j \in Nat
        BY <1>1, <1>2, <2>2 DEF StartWorker, AwaitWorker, MainSet
      <3>2. \A w \in Workers : w > main.j + 1 =>
               w > main.j /\ worker'[w] = worker[w]
        BY SMTT(30), <1>1, <1>2, <1>7, <3>1
      <3> QED BY <1>0, <3>1, <3>2 DEF NotStarted, StartupInv
    <2> QED BY <1>0, <2>1, <2>2 DEF NotStarted, StartupInv
  <1> QED BY <1>0, <1>11, <1>12, <1>13 DEF StartupInv

\* The numbers on the stack, and those of a new set.
LEMMA StackType ==
    ASSUME StartupTypeOK
    PROVE  /\ Stack \in Seq(Nat)
           /\ Stack # <<>> => /\ Last(Stack) \in Nat
                              /\ Popped(Stack) \in Seq(Nat)
           /\ semQ # Stack => currentIndex + 1 \in 1 .. MaxSets
  <1>1. /\ semQ \in Seq(Nat) /\ currentIndex \in 1 .. MaxSets
        /\ setup \in Setups
    BY DEF StartupTypeOK
  <1>2. SetSize \in Nat \ {0} /\ MaxSets \in Nat \ {0}
    BY StartupAssumption
  <1>3. SetNumbers(currentIndex) \in Seq(Nat)
    <2>1. \A i \in 1 .. SetSize : currentIndex * SetSize + i - 1 \in Nat
      <3>1. currentIndex * SetSize \in Nat
        BY <1>1, <1>2
      <3> QED BY <1>2, <3>1
    <2> QED BY <1>2, <2>1, IsASeq DEF SetNumbers
  <1>4. Stack \in Seq(Nat)
    BY <1>1, <1>3 DEF Stack
  <1>5. ASSUME Stack # <<>>
        PROVE  Last(Stack) \in Nat /\ Popped(Stack) \in Seq(Nat)
    <2>1. Len(Stack) \in Nat \ {0}
      BY <1>4, <1>5, EmptySeq
    <2>2. Last(Stack) \in Nat
      BY <1>4, <2>1, ElementOfSeq DEF Last
    <2>3. SubSeq(Stack, 1, Len(Stack) - 1) \in Seq(Nat)
      BY <1>4, <2>1, SubSeqProperties
    <2> QED BY <2>2, <2>3 DEF Popped, Front
  <1>6. semQ # Stack => currentIndex + 1 \in 1 .. MaxSets
    BY <1>1, <1>2 DEF Stack
  <1> QED BY <1>4, <1>5, <1>6

\* localidSems with one entry set.
LEMMA AssignedType ==
    ASSUME SemsTyped, NEW l \in Localids, NEW n \in Nat \cup {NoNumber},
           localidSems' = Assigned(l, n)
    PROVE  SemsTyped'
  BY DEF SemsTyped, Assigned

LEMMA WorkerType ==
    ASSUME StartupInv, setup' = setup, NEW w \in Workers, Worker(w)
    PROVE  StartupInv'
  <1>0. Entries' = Entries /\ Workers' = Workers
    BY DEF Entries, Workers
  <1>1. /\ setup \in Setups /\ threadID \in Nat /\ configidx \in 0 .. Entries
        /\ AllocTyped /\ SemsTyped /\ semInit \in Nat /\ semRun \in Nat
        /\ main \in MainSet /\ worker \in [Workers -> WorkerSet]
        /\ command \in [Workers -> CommandSet] /\ control \in ControlSet
        /\ AccidentsTyped
    BY TypeParts DEF StartupInv
  <1>2. /\ Entries \in Nat /\ Workers = 1 .. Entries
        /\ \A k \in 1 .. Entries : Localid(k) \in Localids
    BY <1>1, Constants
  <1>3. /\ UNCHANGED <<main, control, hurries, failures>>
        /\ worker[w].pc # "none"
        /\ \A v \in Workers : v # w =>
              /\ worker'[v] = worker[v]
              /\ command'[v] = command[v]
    BY <1>1 DEF Worker, LoadThreadID, StoreThreadID, Scan, Parsed, LockControl,
       GetUserSemaphore, UnlockControl, SetLocalidSem, Launch, GetRun, threads,
       accidents, WorkerSet, CommandSet
  <1>4. worker[w] \in WorkerSet /\ Past(w)
    BY <1>1 DEF StartupInv
  <1>5. /\ threadID' \in Nat /\ configidx' \in 0 .. Entries
        /\ (configidx # 0 => configidx' # 0)
    BY <1>1, <1>4 DEF Worker, LoadThreadID, StoreThreadID, Scan, Parsed,
       LockControl, GetUserSemaphore, UnlockControl, SetLocalidSem, Launch,
       GetRun, WorkerSet, maps
  <1>6. AllocTyped'
    <2>1. CASE GetUserSemaphore(w)
      <3>1. /\ Stack \in Seq(Nat)
            /\ Stack # <<>> => Popped(Stack) \in Seq(Nat)
            /\ semQ # Stack => currentIndex + 1 \in 1 .. MaxSets
        BY StackType DEF StartupInv
      <3> QED BY <1>0, <1>1, <2>1, <3>1 DEF GetUserSemaphore, AllocTyped
    <2>2. CASE ~ GetUserSemaphore(w)
      BY <1>0, <1>1, <1>2, <2>2 DEF Worker, LoadThreadID, StoreThreadID, Scan,
         Parsed, LockControl, UnlockControl, SetLocalidSem, Launch, GetRun,
         AllocTyped, dss
    <2> QED BY <2>1, <2>2
  <1>7. SemsTyped'
    <2>1. CASE SetLocalidSem(w)
      <3>1. worker[w].entry \in 1 .. Entries
        BY <1>2, <1>4, <2>1 DEF SetLocalidSem, Past, WorkerSet
      <3>2. worker[w].number \in Nat \cup {NoNumber}
        BY <1>4, <2>1 DEF SetLocalidSem, Past, WorkerSet
      <3>3. \/ localidSems' = Assigned(Localid(worker[w].entry),
                                      worker[w].number)
            \/ localidSems' = localidSems
        BY <2>1 DEF SetLocalidSem
      <3> QED BY <1>1, <1>2, <3>1, <3>2, <3>3, AssignedType DEF SemsTyped
    <2>2. CASE ~ SetLocalidSem(w)
      BY <1>1, <2>2 DEF Worker, LoadThreadID, StoreThreadID, Scan,
         Parsed, LockControl, UnlockControl, GetUserSemaphore, Launch, GetRun,
         SemsTyped, maps
    <2> QED BY <2>1, <2>2
  <1>8. semInit' \in Nat /\ semRun' \in Nat
    BY <1>1 DEF Worker, LoadThreadID, StoreThreadID, Scan, Parsed, LockControl,
       GetUserSemaphore, UnlockControl, SetLocalidSem, Launch, GetRun, sems,
       RunPermit
  <1>9. worker' \in [Workers -> WorkerSet]
    <2>1. CASE Scan(w)
      BY SMTT(30), <1>1, <1>2, <2>1 DEF Scan, WorkerSet
    <2>2. CASE GetUserSemaphore(w)
      <3>1. Stack # <<>> => Last(Stack) \in Nat
        BY StackType DEF StartupInv
      <3>2. PICK n \in Nat \cup {NoNumber} :
               worker' = [worker EXCEPT ![w].pc = "unlock", ![w].number = n]
        BY <2>2, <3>1 DEF GetUserSemaphore
      <3>3. [worker[w] EXCEPT !.pc = "unlock", !.number = n] \in WorkerSet
        BY <1>4 DEF WorkerSet
      <3> QED BY <1>1, <3>2, <3>3
    <2>3. CASE Launch(w)
      <3>1. \E pc \in {"exited", "waitrun", "serving"} :
               worker' = [worker EXCEPT ![w].pc = pc]
        BY <2>3 DEF Launch
      <3> QED BY <1>1, <3>1 DEF WorkerSet
    <2>4. CASE ~ Scan(w) /\ ~ GetUserSemaphore(w) /\ ~ Launch(w)
      BY <1>1, <2>4 DEF Worker, LoadThreadID, StoreThreadID, Parsed,
         LockControl, UnlockControl, SetLocalidSem, GetRun, WorkerSet
    <2> QED BY <2>1, <2>2, <2>3, <2>4
  <1>10. /\ command' \in [Workers -> CommandSet]
         /\ command'[w].idx = command[w].idx
         /\ ~ Launch(w) => command' = command
    <2>1. CASE Launch(w)
      <3>1. \E pc \in {"new", command[w].pc} :
               command' = [command EXCEPT ![w].pc = pc]
        BY <2>1 DEF Launch
      <3> QED BY <1>1, <2>1, <3>1 DEF CommandSet
    <2>2. CASE ~ Launch(w)
      <3>1. command' = command
        BY <2>2 DEF Worker, LoadThreadID, StoreThreadID, Scan, Parsed,
           LockControl, GetUserSemaphore, UnlockControl, SetLocalidSem, GetRun,
           threads
      <3> QED BY <1>1, <2>2, <3>1
    <2> QED BY <2>1, <2>2
  <1>11. AccidentsTyped'
    <2>1. raced' \in BOOLEAN
      BY <1>1 DEF Worker, LoadThreadID, StoreThreadID, Scan, Parsed,
         LockControl, GetUserSemaphore, UnlockControl, SetLocalidSem, Launch,
         GetRun, accidents, AccidentsTyped
    <2> QED BY <1>1, <1>3, <2>1 DEF AccidentsTyped
  <1>12. StartupTypeOK'
    BY <1>0, <1>1, <1>3, <1>5, <1>6, <1>7, <1>8, <1>9, <1>10, <1>11
    DEF StartupTypeOK, AllocTyped, SemsTyped, AccidentsTyped, MainSet,
        WorkerSet, CommandSet, ControlSet
  <1>13. NotStarted'
    <2>1. \A v \in Workers : main.pc \in {"start", "wait"} /\ v > main.j
             => worker'[v].pc = "none"
      BY <1>3 DEF NotStarted, StartupInv
    <2> QED BY <1>0, <1>3, <2>1 DEF NotStarted
  <1>14. Past(w)'
    <2>1. CASE Launch(w)
      BY <1>1, <1>4, <1>5, <2>1 DEF Launch, Past, WorkerSet, CommandSet, maps
    <2>2. CASE GetUserSemaphore(w)
      <3>1. Stack # <<>> => Last(Stack) \in Nat
        BY StackType DEF StartupInv
      <3>2. worker'[w].number # Unset
        BY <1>1, <2>2, <3>1 DEF GetUserSemaphore, Unset, NoNumber, WorkerSet
      <3> QED BY <1>1, <1>4, <2>2, <3>2
           DEF GetUserSemaphore, Past, WorkerSet, maps, threads
    <2>3. CASE Parsed(w)
      BY <1>1, <1>4, <2>3 DEF Parsed, Past, WorkerSet
    <2>4. CASE ~ Launch(w) /\ ~ GetUserSemaphore(w) /\ ~ Parsed(w)
      BY <1>1, <1>4, <2>4 DEF Worker, LoadThreadID, StoreThreadID, Scan,
         LockControl, UnlockControl, SetLocalidSem, GetRun, WorkerSet, Past,
         maps
    <2> QED BY <2>1, <2>2, <2>3, <2>4
  <1>15. \A v \in Workers : Past(v)'
    <2> SUFFICES ASSUME NEW v \in Workers, v # w PROVE Past(v)'
      BY <1>14
    <2>1. Past(v)
      BY DEF StartupInv
    <2> QED BY <1>3, <1>5, <2>1 DEF Past
  <1> QED BY <1>0, <1>12, <1>13, <1>15 DEF StartupInv

LEMMA CommandType ==
    ASSUME StartupInv, setup' = setup, NEW w \in Workers,
           ReadIdx(w) \/ LookSemaphore(w)
    PROVE  StartupInv'
  <1>0. Entries' = Entries /\ Workers' = Workers
    BY DEF Entries, Workers
  <1>1. /\ setup \in Setups /\ threadID \in Nat /\ configidx \in 0 .. Entries
        /\ AllocTyped /\ SemsTyped /\ semInit \in Nat /\ semRun \in Nat
        /\ main \in MainSet /\ worker \in [Workers -> WorkerSet]
        /\ command \in [Workers -> CommandSet] /\ control \in ControlSet
        /\ AccidentsTyped
    BY TypeParts DEF StartupInv
  <1>2. /\ Entries \in Nat /\ Workers = 1 .. Entries
        /\ \A k \in 1 .. Entries : Localid(k) \in Localids
    BY <1>1, Constants
  <1>3. UNCHANGED <<threadID, configidx, controlMutex, dss, sems, main, worker,
                    control, accidents>>
    BY DEF ReadIdx, LookSemaphore, maps
  <1>4. command[w] \in CommandSet /\ Past(w)
    BY <1>1 DEF StartupInv
  <1>5. ASSUME LookSemaphore(w)
        PROVE  /\ Localid(command[w].idx) \in Localids
               /\ Found(Localid(command[w].idx)) \in Nat \cup {NoNumber}
    <2>1. command[w].idx \in 1 .. Entries
      BY <1>2, <1>4, <1>5 DEF LookSemaphore, Past, CommandSet
    <2> QED BY <1>1, <1>2, <2>1 DEF Found, SemsTyped
  <1>6. SemsTyped'
    <2>1. CASE ReadIdx(w)
      BY <1>1, <2>1 DEF ReadIdx, SemsTyped, maps
    <2>2. CASE LookSemaphore(w)
      BY <1>1, <1>5, <2>2, AssignedType DEF LookSemaphore
    <2> QED BY <2>1, <2>2
  <1>7. command' \in [Workers -> CommandSet]
    BY <1>1, <1>5 DEF ReadIdx, LookSemaphore, CommandSet
  <1>8. StartupTypeOK'
    BY <1>0, <1>1, <1>3, <1>6, <1>7
    DEF StartupTypeOK, AllocTyped, SemsTyped, AccidentsTyped, MainSet,
        WorkerSet, CommandSet, ControlSet, dss, sems, accidents
  <1>9. \A v \in Workers : Past(v)'
    BY <1>1, <1>3 DEF StartupInv, Past, ReadIdx, LookSemaphore, CommandSet
  <1> QED BY <1>0, <1>3, <1>8, <1>9 DEF StartupInv, NotStarted

LEMMA ControlType ==
    ASSUME StartupInv, setup' = setup, Control
    PROVE  StartupInv'
  <1>0. Entries' = Entries /\ Workers' = Workers
    BY DEF Entries, Workers
  <1>1. /\ threadID \in Nat /\ control \in ControlSet /\ semInit \in Nat
        /\ semRun \in Nat
    BY TypeParts DEF StartupInv
  <1>2. /\ UNCHANGED <<maps, controlMutex, dss, main, worker, command,
                      accidents>>
        /\ threadID' \in Nat /\ control' \in ControlSet
        /\ semInit' \in Nat /\ semRun' \in Nat
    BY <1>1 DEF Control, LoadThreadIDControl, StoreThreadIDControl, Connect,
       GetRunControl, ControlSet, sems, accidents
  <1>3. StartupTypeOK'
    BY SMTT(30), <1>0, <1>2 DEF StartupInv, StartupTypeOK, ControlSet, maps, dss,
       accidents
  <1> QED BY <1>0, <1>2, <1>3 DEF StartupInv, NotStarted, Past, maps

\* The listener and its threads leave the start as it is, but for _threadID
\* and a thread that could not be created.
LEMMA ListenerFrame ==
    ASSUME Listener \/ \E c \in Clients : ClientThread(c)
    PROVE  /\ UNCHANGED <<setup, maps, controlMutex, dss, sems, main, threads,
                         hurries, raced>>
           /\ \/ failures' = failures
              \/ AccidentPossible /\ failures' = failures + 1
           /\ \/ threadID' = threadID \/ threadID' = listener.reg + 1
              \/ \E c \in Clients : threadID' = thread[c].reg + 1
           /\ threadID' # threadID =>
                 listener.pc = "store" \/ \E c \in Clients :
                                              thread[c].pc = "store"
  BY ZenonT(30) DEF Listener, ClientThread, LoadThreadIDListener, StoreThreadIDListener,
     Accept, StartClientThread, LoadThreadIDClient, StoreThreadIDClient,
     GetClientFD, ReadClient, ProcessLocalMsg, SendAck, SendSignonAck,
     EndClient, vars, accidents

-----------------------------------------------------------------------------
\* The type invariant of the listener.

ThreadSet ==
    [pc : {"none", "new", "store", "pop", "read", "process", "ack",
           "signonack", "end", "ended"},
     reg : Nat, fd : {0} \cup Clients, status : 0 .. 2, msg : Messages]
ListenerSet == [pc : {"none", "store", "poll", "create"}, reg : Nat,
                accepted : {0} \cup Clients]

\* A thread that serves has a descriptor.
Serves(t) ==
    /\ t.pc \in {"read", "process", "ack", "signonack", "end"} => t.fd # 0
    /\ t.pc \in {"none", "new", "store", "pop"} => t.fd = 0
Served(c) == Serves(thread[c])

\* A thread is started for each accepted client, after it was accepted.
Unspawned ==
    /\ listener.pc = "create" => listener.accepted \in Clients
    /\ \A c \in Clients :
          c > listener.accepted \/ (listener.pc = "create" /\ c = listener.accepted)
              => thread[c].pc = "none"

TypeInv ==
    StartupInv /\ TypeOK /\ Unspawned /\ \A c \in Clients : Served(c)

LEMMA ListenerParts ==
    ASSUME TypeOK
    PROVE  /\ listener \in ListenerSet /\ clientFDs \in Seq(Clients)
           /\ thread \in [Clients -> ThreadSet] /\ lost \in Nat
           /\ sent \in [Clients -> Seq(Items)]
           /\ stream \in [Clients -> Seq(Items)]
           /\ queued \in [Clients -> Seq(Items)]
           /\ answers \in [Clients -> Seq({"ACK", "signonAck", "EOT"})]
  BY DEF TypeOK, ListenerSet, ThreadSet

LEMMA StartupByListener ==
    ASSUME TypeInv, Listener \/ \E c \in Clients : ClientThread(c)
    PROVE  StartupInv'
  <1>0. /\ UNCHANGED <<setup, maps, controlMutex, dss, sems, main, threads,
                      hurries, raced>>
        /\ \/ failures' = failures
           \/ AccidentPossible /\ failures' = failures + 1
        /\ \/ threadID' = threadID \/ threadID' = listener.reg + 1
           \/ \E c \in Clients : threadID' = thread[c].reg + 1
    BY ListenerFrame
  <1>1. Entries' = Entries /\ Workers' = Workers
    BY <1>0 DEF Entries, Workers
  <1>2. listener \in ListenerSet /\ thread \in [Clients -> ThreadSet]
    BY ListenerParts DEF TypeInv
  <1>3. threadID \in Nat /\ AccidentsTyped /\ setup \in Setups
    BY TypeParts DEF TypeInv, StartupInv
  <1>4. threadID' \in Nat
    BY <1>0, <1>2, <1>3 DEF ListenerSet, ThreadSet
  <1>5. MaxAccidents[setup] \in Nat
    BY <1>3, Constants
  <1>6. AccidentsTyped'
    BY <1>0, <1>3, <1>5 DEF AccidentsTyped, AccidentPossible
  <1>7. StartupTypeOK'
    BY <1>0, <1>1, <1>4, <1>6 DEF TypeInv, StartupInv, StartupTypeOK,
       AccidentsTyped, maps, dss, sems, threads
  <1> QED BY <1>0, <1>1, <1>7 DEF TypeInv, StartupInv, NotStarted, Past, maps,
             threads

LEMMA ListenerType ==
    ASSUME TypeInv, Listener
    PROVE  TypeInv'
  <1>1. /\ listener \in ListenerSet /\ clientFDs \in Seq(Clients)
        /\ thread \in [Clients -> ThreadSet] /\ lost \in Nat
        /\ sent \in [Clients -> Seq(Items)]
        /\ stream \in [Clients -> Seq(Items)] /\ threadID \in Nat
    BY ListenerParts, TypeParts DEF TypeInv, StartupInv
  <1>2. StartupInv'
    BY StartupByListener
  <1>3. queued' = queued /\ answers' = answers
    BY DEF Listener, LoadThreadIDListener, StoreThreadIDListener, Accept,
       StartClientThread
  <1>n. NumClients \in Nat /\ Clients = 1 .. NumClients
    BY ListenerAssumption DEF Clients
  <1>4. listener' \in ListenerSet
    <2>1. CASE LoadThreadIDListener
      BY <1>1, <2>1 DEF LoadThreadIDListener, ListenerSet
    <2>2. CASE StoreThreadIDListener
      BY <1>1, <2>2 DEF StoreThreadIDListener, ListenerSet
    <2>3. CASE Accept
      BY <1>1, <2>3 DEF Accept, ListenerSet
    <2>4. CASE StartClientThread
      BY <1>1, <2>4 DEF StartClientThread, ListenerSet
    <2> QED BY <2>1, <2>2, <2>3, <2>4 DEF Listener
  <1>p. lost' \in Nat
    BY <1>1 DEF Listener, LoadThreadIDListener, StoreThreadIDListener, Accept,
       StartClientThread
  <1>5. clientFDs' \in Seq(Clients)
    <2>1. CASE Accept
      <3>1. listener.accepted + 1 \in Clients
            /\ clientFDs' = Append(clientFDs, listener.accepted + 1)
        BY <2>1 DEF Accept
      <3> QED BY <1>1, <3>1, AppendProperties
    <2>2. CASE ~ Accept
      BY <1>1, <2>2 DEF Listener, LoadThreadIDListener, StoreThreadIDListener,
         StartClientThread
    <2> QED BY <2>1, <2>2
  <1>6. sent' \in [Clients -> Seq(Items)] /\ stream' \in [Clients -> Seq(Items)]
    <2>1. \A script \in Scripts : script \in Seq(Items)
      BY ListenerAssumption
    <2> QED BY <1>1, <2>1 DEF Listener, LoadThreadIDListener,
               StoreThreadIDListener, Accept, StartClientThread
  <1>7. \/ thread' = thread
        \/ /\ listener.pc = "create" /\ listener.accepted \in Clients
           /\ thread' = [thread EXCEPT ![listener.accepted].pc = "new"]
           /\ thread[listener.accepted].pc = "none"
           /\ listener'.pc = "poll" /\ listener'.accepted = listener.accepted
    BY <1>1 DEF Listener, LoadThreadIDListener, StoreThreadIDListener, Accept,
       StartClientThread, TypeInv, Unspawned, ListenerSet
  <1>8. /\ thread' \in [Clients -> ThreadSet]
        /\ \A c \in Clients : Served(c)'
    <2>0. \A c \in Clients : Served(c)
      BY DEF TypeInv
    <2>1. CASE thread' = thread
      BY <1>1, <2>0, <2>1 DEF Served
    <2>2. CASE thread' # thread
      <3> DEFINE c == listener.accepted
      <3> DEFINE t == [thread[c] EXCEPT !.pc = "new"]
      <3>1. c \in Clients /\ thread' = [thread EXCEPT ![c] = t]
            /\ thread[c].pc = "none"
        BY <1>7, <2>2
      <3>2. t \in ThreadSet /\ Serves(t)
        BY ZenonT(30), <1>1, <2>0, <3>1 DEF ThreadSet, Served, Serves
      <3> HIDE DEF t, c
      <3> QED BY <1>1, <2>0, <3>1, <3>2 DEF Served
    <2> QED BY <2>1, <2>2
  <1>9. TypeOK'
    BY <1>1, <1>2, <1>3, <1>4, <1>5, <1>6, <1>8, <1>p, ListenerParts
    DEF TypeInv, StartupInv, TypeOK, ListenerSet, ThreadSet
  <1>10. Unspawned'
    <2>1. CASE LoadThreadIDListener \/ StoreThreadIDListener
      BY <1>1, <2>1 DEF LoadThreadIDListener, StoreThreadIDListener, TypeInv,
         Unspawned, ListenerSet
    <2>2. CASE Accept
      <3>1. /\ listener'.accepted = listener.accepted + 1
            /\ listener.accepted + 1 \in Clients /\ thread' = thread
            /\ listener.accepted \in Nat
        BY <1>1, <1>n, <2>2 DEF Accept, ListenerSet
      <3>2. \A c \in Clients : c >= listener.accepted + 1
               => c > listener.accepted
        BY <1>n, <3>1
      <3> QED BY <1>n, <3>1, <3>2 DEF TypeInv, Unspawned
    <2>3. CASE StartClientThread
      <3>1. /\ listener'.pc = "poll" /\ listener'.accepted = listener.accepted
            /\ listener.accepted \in Nat
        BY <1>1, <1>n, <2>3 DEF StartClientThread, ListenerSet
      <3>2. \A c \in Clients : c # listener.accepted => thread'[c] = thread[c]
        BY <1>1, <1>7
      <3> QED BY <1>n, <3>1, <3>2 DEF TypeInv, Unspawned
    <2> QED BY <2>1, <2>2, <2>3 DEF Listener
  <1> QED BY <1>2, <1>8, <1>9, <1>10 DEF TypeInv

LEMMA ClientType ==
    ASSUME TypeInv, NEW c \in Clients, ClientThread(c)
    PROVE  TypeInv'
  <1>1. /\ listener \in ListenerSet /\ clientFDs \in Seq(Clients)
        /\ thread \in [Clients -> ThreadSet] /\ lost \in Nat
        /\ sent \in [Clients -> Seq(Items)]
        /\ stream \in [Clients -> Seq(Items)] /\ threadID \in Nat
        /\ queued \in [Clients -> Seq(Items)]
        /\ answers \in [Clients -> Seq({"ACK", "signonAck", "EOT"})]
    BY SMTT(30), ListenerParts, TypeParts DEF TypeInv, StartupInv
  <1>2. StartupInv'
    BY StartupByListener
  <1>3. UNCHANGED <<listener, lost, sent>>
    BY DEF ClientThread, LoadThreadIDClient, StoreThreadIDClient, GetClientFD,
       ReadClient, ProcessLocalMsg, SendAck, SendSignonAck, EndClient
  <1>4. thread[c] \in ThreadSet /\ Served(c)
    BY <1>1 DEF TypeInv
  <1>5. clientFDs # <<>> => /\ Last(clientFDs) \in Clients
                            /\ FDsPopped \in Seq(Clients)
    <2> SUFFICES ASSUME clientFDs # <<>>
                 PROVE  /\ Last(clientFDs) \in Clients
                        /\ FDsPopped \in Seq(Clients)
      OBVIOUS
    <2>1. Len(clientFDs) \in Nat \ {0}
      BY <1>1, EmptySeq
    <2>2. Last(clientFDs) \in Clients
      BY <1>1, <2>1, ElementOfSeq DEF Last
    <2>3. SubSeq(clientFDs, 1, Len(clientFDs) - 1) \in Seq(Clients)
      BY SMTT(30), <1>1, <2>1, SubSeqProperties
    <2> QED BY <2>2, <2>3 DEF FDsPopped, Front
  <1>6. clientFDs' \in Seq(Clients)
    BY <1>1, <1>5 DEF ClientThread, LoadThreadIDClient, StoreThreadIDClient,
       GetClientFD, ReadClient, ProcessLocalMsg, SendAck, SendSignonAck,
       EndClient
  <1>7. \A d \in Clients : stream[d] # <<>> =>
           /\ Head(stream[d]) \in Items /\ Tail(stream[d]) \in Seq(Items)
    BY <1>1, HeadTailProperties
  <1>f. thread[c].pc \in {"read", "process", "ack", "signonack", "end"}
           => thread[c].fd \in Clients
    BY <1>4 DEF Served, Serves, ThreadSet
  <1>8. /\ stream' \in [Clients -> Seq(Items)]
        /\ queued' \in [Clients -> Seq(Items)]
    <2>2. CASE ReadClient(c)
      BY <1>1, <1>7, <1>f, <2>2 DEF ReadClient
    <2>3. CASE ProcessLocalMsg(c)
      <3> DEFINE fd == thread[c].fd
      <3>1. \/ stream' = stream /\ queued' = queued
            \/ /\ stream[fd] # <<>>
               /\ stream' = [stream EXCEPT ![fd] = Tail(stream[fd])]
               /\ queued' = [queued EXCEPT ![fd] =
                                Append(queued[fd], Head(stream[fd]))]
        BY <1>1, <1>f, <2>3 DEF ProcessLocalMsg
      <3>2. fd \in Clients
        BY <1>f, <2>3 DEF ProcessLocalMsg
      <3>3. stream[fd] # <<>> =>
               Append(queued[fd], Head(stream[fd])) \in Seq(Items)
        BY <1>1, <1>7, <3>2, AppendProperties
      <3> HIDE DEF fd
      <3> QED BY ZenonT(30), <1>1, <1>7, <3>1, <3>2, <3>3
    <2>4. CASE ~ ReadClient(c) /\ ~ ProcessLocalMsg(c)
      BY <1>1, <2>4 DEF ClientThread, LoadThreadIDClient, StoreThreadIDClient,
       GetClientFD, SendAck, SendSignonAck, EndClient
    <2> QED BY <2>2, <2>3, <2>4
  <1>9. answers' \in [Clients -> Seq({"ACK", "signonAck", "EOT"})]
    <2>1. \A a \in {"ACK", "signonAck", "EOT"}, d \in Clients :
             Append(answers[d], a) \in Seq({"ACK", "signonAck", "EOT"})
      BY <1>1, AppendProperties
    <2>2. \/ answers' = answers
          \/ \E a \in {"ACK", "signonAck", "EOT"} :
                /\ thread[c].fd \in Clients
                /\ answers' = [answers EXCEPT ![thread[c].fd] =
                                  Append(answers[thread[c].fd], a)]
      BY ZenonT(30), <1>f DEF ClientThread, LoadThreadIDClient,
         StoreThreadIDClient, GetClientFD, ReadClient, ProcessLocalMsg,
         SendAck, SendSignonAck, EndClient
    <2>3. ASSUME NEW a \in {"ACK", "signonAck", "EOT"},
                 thread[c].fd \in Clients,
                 answers' = [answers EXCEPT ![thread[c].fd] =
                               Append(answers[thread[c].fd], a)]
          PROVE  answers' \in [Clients -> Seq({"ACK", "signonAck", "EOT"})]
      <3> DEFINE fd == thread[c].fd
      <3> DEFINE s == Append(answers[fd], a)
      <3>1. s \in Seq({"ACK", "signonAck", "EOT"}) /\ fd \in Clients
        BY <2>1, <2>3
      <3>2. answers' = [answers EXCEPT ![fd] = s]
        BY <2>3
      <3> HIDE DEF fd, s
      <3> QED BY <1>1, <3>1, <3>2
    <2> QED BY ZenonT(30), <1>1, <2>2, <2>3
  <1>10. \E t \in ThreadSet :
            thread' = [thread EXCEPT ![c] = t] /\ Serves(t)
    <2>s. Serves(thread[c])
      BY <1>4 DEF Served
    <2>1. CASE LoadThreadIDClient(c)
      <3> DEFINE t == [thread[c] EXCEPT !.pc = "store", !.reg = threadID]
      <3>1. t \in ThreadSet /\ Serves(t)
        BY <1>1, <1>4, <2>s, <2>1 DEF ThreadSet, Serves, LoadThreadIDClient
      <3>2. thread' = [thread EXCEPT ![c] = t]
        BY <2>1 DEF LoadThreadIDClient
      <3> QED BY <3>1, <3>2
    <2>2. CASE StoreThreadIDClient(c)
      <3> DEFINE t == [thread[c] EXCEPT !.pc = "pop", !.reg = 0]
      <3>1. t \in ThreadSet /\ Serves(t)
        BY <1>4, <2>s, <2>2 DEF ThreadSet, Serves, StoreThreadIDClient
      <3>2. thread' = [thread EXCEPT ![c] = t]
        BY <2>2 DEF StoreThreadIDClient
      <3> QED BY <3>1, <3>2
    <2>3. CASE GetClientFD(c)
      <3>1. CASE clientFDs = <<>>
        <4> DEFINE t == [thread[c] EXCEPT !.pc = "ended"]
        <4>1. t \in ThreadSet /\ Serves(t)
          BY <1>4 DEF ThreadSet, Serves
        <4>2. thread' = [thread EXCEPT ![c] = t]
          BY <2>3, <3>1 DEF GetClientFD
        <4> QED BY <4>1, <4>2
      <3>2. CASE clientFDs # <<>>
        <4> DEFINE t == [thread[c] EXCEPT !.pc = "read", !.fd = Last(clientFDs)]
        <4>0. Last(clientFDs) \in Clients /\ Last(clientFDs) # 0
          BY <1>5, <3>2, ListenerAssumption DEF Clients
        <4>1. t \in ThreadSet /\ Serves(t)
          BY <1>4, <4>0 DEF ThreadSet, Serves
        <4>2. thread' = [thread EXCEPT ![c] = t]
          BY <2>3, <3>2 DEF GetClientFD
        <4> QED BY <4>1, <4>2
      <3> QED BY <3>1, <3>2
    <2>4. CASE ReadClient(c)
      <3> DEFINE fd == thread[c].fd
      <3>0. thread[c].pc = "read" /\ fd \in Clients
        BY <1>f, <2>4 DEF ReadClient
      <3>1. CASE stream[fd] = <<>>
        <4> DEFINE t == [thread[c] EXCEPT !.pc = "end"]
        <4>1. t \in ThreadSet /\ Serves(t)
          BY <1>4, <2>s, <3>0 DEF ThreadSet, Serves
        <4>2. thread' = [thread EXCEPT ![c] = t]
          BY <2>4, <3>1 DEF ReadClient, BadRead
        <4> QED BY <4>1, <4>2
      <3>2. CASE stream[fd] # <<>> /\ Head(stream[fd]).type \in {"pass", "body"}
        <4>1. thread' = [thread EXCEPT ![c] = thread[c]]
          BY <1>1, <2>4, <3>2 DEF ReadClient
        <4> QED BY <1>4, <2>s, <4>1
      <3>3. CASE stream[fd] # <<>> /\ Head(stream[fd]).type \notin {"pass", "body"}
        <4> DEFINE m == Head(stream[fd]).type
        <4> DEFINE t == [thread[c] EXCEPT !.pc = "process", !.msg = m]
        <4>0. m \in Messages
          BY <1>7, <3>0, <3>3 DEF Items
        <4>2. thread' = [thread EXCEPT ![c] = t]
          BY <2>4, <3>3 DEF ReadClient
        <4> HIDE DEF m
        <4>1. t \in ThreadSet /\ Serves(t)
          BY <1>4, <2>s, <3>0, <4>0 DEF ThreadSet, Serves
        <4> QED BY <4>1, <4>2
      <3> QED BY <3>1, <3>2, <3>3
    <2>5. CASE ProcessLocalMsg(c)
      <3> DEFINE p == IF thread[c].msg = "signon" THEN "signonack" ELSE "ack"
      <3> DEFINE n == CASE thread[c].msg = "signon" -> 1
                        [] thread[c].msg = "signonAck" -> 2
                        [] OTHER -> thread[c].status
      <3> DEFINE t == [thread[c] EXCEPT !.pc = p, !.status = n]
      <3>1. p \in {"signonack", "ack"} /\ n \in 0 .. 2
        BY <1>4 DEF ThreadSet
      <3>2. thread' = [thread EXCEPT ![c] = t] /\ thread[c].pc = "process"
        BY <2>5 DEF ProcessLocalMsg
      <3> HIDE DEF p, n
      <3>3. t \in ThreadSet /\ Serves(t)
        BY <1>4, <2>s, <3>1, <3>2 DEF ThreadSet, Serves
      <3> QED BY <3>2, <3>3
    <2>6. CASE SendAck(c) \/ SendSignonAck(c) \/ EndClient(c)
      <3>1. PICK p \in {"read", "end", "ended"} :
               thread' = [thread EXCEPT ![c].pc = p]
        BY <2>6 DEF SendAck, SendSignonAck, EndClient
      <3>2. thread[c].fd # 0
        BY <2>s, <2>6 DEF SendAck, SendSignonAck, EndClient, Serves
      <3> DEFINE t == [thread[c] EXCEPT !.pc = p]
      <3>3. t \in ThreadSet /\ Serves(t)
        BY <1>4, <3>2 DEF ThreadSet, Serves
      <3> QED BY <3>1, <3>3
    <2> QED BY <2>1, <2>2, <2>3, <2>4, <2>5, <2>6 DEF ClientThread
  <1>11. /\ thread' \in [Clients -> ThreadSet] /\ Served(c)'
         /\ \A d \in Clients \ {c} : thread'[d] = thread[d]
    BY <1>1, <1>10 DEF Served
  <1>12. TypeOK'
    BY <1>1, <1>2, <1>3, <1>6, <1>8, <1>9, <1>11
    DEF StartupInv, TypeOK, ListenerSet, ThreadSet
  <1>13. thread[c].pc # "none"
    BY DEF ClientThread, LoadThreadIDClient, StoreThreadIDClient, GetClientFD,
       ReadClient, ProcessLocalMsg, SendAck, SendSignonAck, EndClient
  <1>14. Unspawned'
    BY <1>3, <1>11, <1>13 DEF TypeInv, Unspawned
  <1> QED BY <1>2, <1>11, <1>12, <1>14 DEF TypeInv, Served

-----------------------------------------------------------------------------
\* The type invariant of both.

LEMMA InitType == LInit => TypeInv
  <1> SUFFICES ASSUME LInit PROVE TypeInv
    OBVIOUS
  <1>1. setup \in Setups /\ Entries \in Nat /\ Workers = 1 .. Entries
        /\ MaxAccidents[setup] \in Nat /\ SetSize \in Nat \ {0}
        /\ MaxSets \in Nat \ {0}
    BY Constants DEF LInit, Init
  <1>2. SetNumbers(0) \in Seq(Nat)
    <2>1. \A i \in 1 .. SetSize : 0 * SetSize + i - 1 \in Nat
      BY <1>1
    <2> QED BY <1>1, <2>1, IsASeq DEF SetNumbers
  <1>3. AllocTyped /\ AccidentsTyped
    <2>1. /\ controlMutex = 0 /\ dssLocked = FALSE /\ semQ = SetNumbers(0)
          /\ currentIndex = 1 /\ hurries = 0 /\ failures = 0 /\ raced = FALSE
      BY DEF LInit, Init
    <2>2. AllocTyped
      <3>1. 0 \in 0 .. Entries /\ 1 \in 1 .. MaxSets
        BY <1>1
      <3> QED BY <1>2, <2>1, <3>1 DEF AllocTyped
    <2>3. AccidentsTyped
      <3>1. \A n \in Nat : 0 + 0 <= n
        OBVIOUS
      <3>2. 0 + 0 <= MaxAccidents[setup]
        BY <1>1, <3>1
      <3> QED BY <2>1, <3>2 DEF AccidentsTyped
    <2> QED BY <2>2, <2>3
  <1>4. localidSems = <<>> /\ DOMAIN localidSems = {}
    BY DEF LInit, Init
  <1>5. SemsTyped
    BY <1>4 DEF SemsTyped
  <1>6. worker \in [Workers -> WorkerSet] /\ command \in [Workers -> CommandSet]
    BY <1>1 DEF LInit, Init, WorkerSet, CommandSet, NewWorker, NewCommand
  <1>7. main \in MainSet /\ control \in ControlSet
    BY <1>1 DEF LInit, Init, MainSet, ControlSet
  <1>8. StartupTypeOK
    BY SMTT(30), <1>1, <1>3, <1>5, <1>6, <1>7, TypeParts DEF LInit, Init
  <1>9. StartupInv
    BY <1>1, <1>8 DEF StartupInv, NotStarted, Past, LInit, Init, NewWorker,
       NewCommand
  <1>10. NewThread \in ThreadSet
    BY DEF NewThread, ThreadSet, Messages
  <1>11. thread \in [Clients -> ThreadSet]
    BY <1>10 DEF LInit
  <1>12. listener \in ListenerSet
    BY DEF LInit, ListenerSet
  <1>13. /\ sent \in [Clients -> Seq(Items)] /\ stream \in [Clients -> Seq(Items)]
         /\ queued \in [Clients -> Seq(Items)]
         /\ answers \in [Clients -> Seq({"ACK", "signonAck", "EOT"})]
         /\ clientFDs \in Seq(Clients)
    BY DEF LInit
  <1>14. TypeOK
    BY <1>8, <1>11, <1>12, <1>13 DEF TypeOK, ThreadSet, ListenerSet, LInit
  <1>15. Unspawned /\ \A c \in Clients : Served(c)
    BY DEF LInit, Unspawned, Served, Serves, NewThread
  <1> QED BY <1>9, <1>14, <1>15 DEF TypeInv

LEMMA StepType == TypeInv /\ [LNext]_<<vars, lvars>> => TypeInv'
  <1> SUFFICES ASSUME TypeInv, [LNext]_<<vars, lvars>> PROVE TypeInv'
    OBVIOUS
  <1>0. setup' = setup
    BY SetupKept
  <1>1. ASSUME StartupInv', UNCHANGED lvars PROVE TypeInv'
    <2>1. TypeOK'
      BY <1>1 DEF TypeInv, TypeOK, StartupInv, lvars
    <2> QED BY <1>1, <2>1 DEF TypeInv, Unspawned, Served, lvars
  <1>2. CASE Next /\ UNCHANGED lvars
    <2>1. StartupInv
      BY DEF TypeInv
    <2>2. StartupInv'
      BY <1>0, <1>2, <2>1, MainType, WorkerType, CommandType, ControlType
      DEF Next
    <2> QED BY <1>1, <1>2, <2>2
  <1>3. CASE Listener
    BY <1>3, ListenerType
  <1>4. CASE \E c \in Clients : ClientThread(c)
    BY <1>4, ClientType
  <1>5. CASE UNCHANGED <<vars, lvars>>
    <2>1. StartupInv'
      BY SMTT(30), <1>5 DEF TypeInv, StartupInv, StartupTypeOK, NotStarted, Past, vars,
         maps, dss, sems, threads, accidents, Entries, Workers
    <2> QED BY <1>1, <1>5, <2>1
  <1> QED BY <1>2, <1>3, <1>4, <1>5 DEF LNext

\* Every variable of the start and of the listener keeps its type, whatever
\* the interleaving of the threads: a worker that goes on has an entry of the
\* configuration and a semaphore's number, a client thread that reads has a
\* descriptor.
THEOREM TypeCorrect == Spec => []TypeOK
  <1>1. TypeInv => TypeOK
    BY DEF TypeInv
  <1> QED BY <1>1, InitType, StepType, PTL DEF Spec

-----------------------------------------------------------------------------
\* The allocator.

\* The first number of the set that is being handed out, and the numbers that
\* have been: all below, and those the stack, with left of the set, no longer
\* has.
Base == (currentIndex - 1) * SetSize
Out(n, base, left) == n < base \/ (base + left <= n /\ n < base + SetSize)
Handed(n) == Out(n, Base, Len(semQ))

\* What is handed out is what workers have, each number one worker.
AllocInv ==
    /\ Len(semQ) <= SetSize
    /\ \A i \in 1 .. Len(semQ) : semQ[i] = Base + i - 1
    /\ \A w \in Workers : worker[w].number \in Nat => Handed(worker[w].number)
    /\ \A n \in Nat : Handed(n) => \E w \in Workers : worker[w].number = n
    /\ \A v, w \in Workers : v # w /\ worker[v].number = worker[w].number
          => worker[v].number \notin Nat
    /\ dssLocked => semQ = <<>> /\ currentIndex = MaxSets

LEMMA BaseType ==
    ASSUME TypeInv
    PROVE  /\ Base \in Nat /\ SetSize \in Nat \ {0}
           /\ currentIndex \in Nat \ {0} /\ currentIndex * SetSize = Base + SetSize
  <1>1. currentIndex \in 1 .. MaxSets /\ MaxSets \in Nat /\ SetSize \in Nat \ {0}
    BY StartupAssumption, TypeParts DEF TypeInv, StartupInv, AllocTyped
  <1>2. PICK k \in Nat : currentIndex = k + 1
    <2>1. currentIndex - 1 \in Nat /\ currentIndex = (currentIndex - 1) + 1
      BY <1>1
    <2> QED BY <2>1
  <1>3. k * SetSize \in Nat /\ (k + 1) * SetSize = k * SetSize + SetSize
    BY <1>1
  <1>4. Base = k * SetSize
    BY <1>2 DEF Base
  <1> QED BY <1>1, <1>2, <1>3, <1>4

LEMMA AllocInit == LInit => AllocInv
  <1> SUFFICES ASSUME LInit PROVE AllocInv
    OBVIOUS
  <1>1. /\ semQ = SetNumbers(0) /\ currentIndex = 1 /\ dssLocked = FALSE
        /\ worker = [w \in Workers |-> NewWorker] /\ SetSize \in Nat \ {0}
    BY StartupAssumption DEF LInit, Init
  <1>2. Base = 0
    BY <1>1 DEF Base
  <1>3. Len(semQ) = SetSize /\ \A i \in 1 .. Len(semQ) : semQ[i] = Base + i - 1
    <2>1. 0 * SetSize = 0
      BY <1>1
    <2>2. semQ = [i \in 1 .. SetSize |-> 0 + i - 1]
      BY <1>1, <2>1 DEF SetNumbers
    <2>3. Len(semQ) = SetSize
      BY <1>1, <2>2
    <2> QED BY <1>1, <1>2, <2>2, <2>3
  <1>4. \A w \in Workers : worker[w].number = Unset /\ worker[w].number \notin Nat
    BY <1>1 DEF NewWorker, Unset
  <1>5. \A n \in Nat : ~ Handed(n)
    BY <1>1, <1>2, <1>3 DEF Handed, Out
  <1> QED BY <1>1, <1>3, <1>4, <1>5 DEF AllocInv

LEMMA AllocFrame ==
    ASSUME TypeInv, AllocInv, setup' = setup, semQ' = semQ,
           currentIndex' = currentIndex, dssLocked' = dssLocked,
           \A w \in Workers : worker'[w].number = worker[w].number
    PROVE  AllocInv'
  BY ZenonT(30) DEF AllocInv, Base, Handed, Workers, Entries

\* The stack pops the largest of its numbers: of the set's, or, when a set is
\* used up and another can be made, of the new set's.
LEMMA PopStep ==
    ASSUME TypeInv, AllocInv, NEW w \in Workers, GetUserSemaphore(w),
           Stack # <<>>
    PROVE  /\ dssLocked' = FALSE
           /\ Len(semQ') \in Nat /\ Len(semQ') < SetSize
           /\ worker'[w].number = Base' + Len(semQ')
           /\ \A i \in 1 .. Len(semQ') : semQ'[i] = Base' + i - 1
           /\ Base' \in Nat
           /\ \A n \in Nat : Out(n, Base', Len(semQ')) <=>
                               Handed(n) \/ n = Base' + Len(semQ')
           /\ ~ Handed(Base' + Len(semQ'))
  <1>0. /\ Base \in Nat /\ SetSize \in Nat \ {0} /\ currentIndex \in Nat \ {0}
        /\ currentIndex * SetSize = Base + SetSize
    BY BaseType
  <1>1. /\ dssLocked' = FALSE /\ semQ' = Front(Stack)
        /\ worker'[w].number = Last(Stack)
        /\ currentIndex' = IF semQ # Stack THEN currentIndex + 1
                                           ELSE currentIndex
    <2>1. worker \in [Workers -> WorkerSet]
      BY TypeParts DEF TypeInv, StartupInv
    <2> QED BY <2>1 DEF GetUserSemaphore, Popped, WorkerSet
  <1>2. semQ \in Seq(Nat) /\ Stack \in Seq(Nat)
    BY StackType, TypeParts DEF TypeInv, StartupInv, AllocTyped
  <1>3. Len(Stack) \in Nat \ {0}
    BY <1>2, EmptySeq
  <1>4. /\ Len(semQ') = Len(Stack) - 1
        /\ \A i \in 1 .. Len(semQ') : semQ'[i] = Stack[i]
    <2>1. semQ' = SubSeq(Stack, 1, Len(Stack) - 1)
      BY <1>1 DEF Front
    <2>2. \A n \in Nat \ {0} :
            /\ n - 1 \in Int /\ (n - 1) - 1 + 1 = n - 1
            /\ (IF 1 <= n - 1 THEN (n - 1) - 1 + 1 ELSE 0) = n - 1
            /\ \A i \in 1 .. n - 1 : i \in 1 .. n /\ 1 + i - 1 = i
      OBVIOUS
    <2>3. /\ Len(semQ') = IF 1 <= Len(Stack) - 1 THEN (Len(Stack) - 1) - 1 + 1
                                                ELSE 0
          /\ \A i \in 1 .. (Len(Stack) - 1) - 1 + 1 : semQ'[i] = Stack[1 + i - 1]
      <3>1. Len(Stack) - 1 \in Int /\ 1 \in Int
            /\ \A i \in 1 .. Len(Stack) - 1 : Stack[i] \in Nat
        BY <1>2, <1>3, <2>2, ElementOfSeq
      <3> DEFINE q == Stack
      <3> DEFINE n == Len(Stack) - 1
      <3>2. /\ Len(SubSeq(q, 1, n)) = IF 1 <= n THEN n - 1 + 1 ELSE 0
            /\ \A i \in 1 .. n - 1 + 1 : SubSeq(q, 1, n)[i] = q[1 + i - 1]
        <4>1. n \in Int /\ 1 \in Int /\ \A i \in 1 .. n : q[i] \in Nat
          BY <3>1
        <4> HIDE DEF n, q
        <4> QED BY <4>1, SubSeqProperties
      <3>3. semQ' = SubSeq(q, 1, n)
        BY <2>1
      <3>4. /\ Len(semQ') = IF 1 <= n THEN n - 1 + 1 ELSE 0
            /\ \A i \in 1 .. n - 1 + 1 : semQ'[i] = q[1 + i - 1]
        <4> HIDE DEF n, q
        <4> QED BY <3>2, <3>3
      <3> QED BY <3>4
    <2>5. Len(semQ') = Len(Stack) - 1
      BY <1>3, <2>2, <2>3
    <2>4. \A i \in 1 .. Len(Stack) - 1 : semQ'[i] = Stack[i]
      BY <1>3, <2>2, <2>3
    <2> QED BY <2>4, <2>5
  <1>5. worker'[w].number = Stack[Len(Stack)]
    BY <1>1 DEF Last
  <1>6. /\ Len(Stack) <= SetSize
        /\ \A i \in 1 .. Len(Stack) : Stack[i] = Base' + i - 1
        /\ \/ Base' = Base /\ Len(Stack) = Len(semQ)
           \/ Base' = Base + SetSize /\ Len(Stack) = SetSize /\ Len(semQ) = 0
    <2>1. CASE semQ = Stack
      <3>1. Base' = Base
        BY <1>1, <2>1 DEF Base
      <3> QED BY <2>1, <3>1 DEF AllocInv
    <2>2. CASE semQ # Stack
      <3>1. Stack = SetNumbers(currentIndex) /\ semQ = <<>>
        BY <2>2 DEF Stack
      <3>2. Base' = currentIndex * SetSize
        <4>1. currentIndex' - 1 = currentIndex
          BY <1>0, <1>1, <2>2
        <4> QED BY <4>1 DEF Base
      <3>3. Stack = [i \in 1 .. SetSize |-> Base' + i - 1]
        BY <3>1, <3>2 DEF SetNumbers
      <3>4. Len(Stack) = SetSize
        BY <1>0, <3>3
      <3>5. Len(semQ) = 0
        BY <3>1
      <3> QED BY <1>0, <3>2, <3>3, <3>4, <3>5
    <2> QED BY <2>1, <2>2
  <1>7. Len(semQ') \in Nat /\ Len(semQ') < SetSize /\ Base' \in Nat
    BY <1>0, <1>3, <1>4, <1>6
  <1>8. worker'[w].number = Base' + Len(semQ')
    <2>1. Stack[Len(Stack)] = Base' + Len(Stack) - 1
      BY <1>3, <1>6
    <2> QED BY <1>3, <1>4, <1>5, <1>7, <2>1
  <1>9. \A i \in 1 .. Len(semQ') : semQ'[i] = Base' + i - 1
    BY <1>3, <1>4, <1>6
  <1>a. \A b, l, n \in Nat : l + 1 <= SetSize =>
           (Out(n, b, l) <=> Out(n, b, l + 1) \/ n = b + l)
             /\ ~ Out(b + l, b, l + 1)
    BY <1>0 DEF Out
  <1>b. \A n \in Nat : Handed(n) <=> Out(n, Base', Len(Stack))
    <2>1. CASE Base' = Base /\ Len(Stack) = Len(semQ)
      BY <2>1 DEF Handed
    <2>2. CASE Base' = Base + SetSize /\ Len(Stack) = SetSize /\ Len(semQ) = 0
      BY <1>0, <2>2 DEF Handed, Out
    <2> QED BY <1>6, <2>1, <2>2
  <1>c. Len(Stack) = Len(semQ') + 1 /\ Len(semQ') + 1 <= SetSize
    BY <1>0, <1>3, <1>4, <1>6
  <1>10. \A n \in Nat : Out(n, Base', Len(semQ')) <=>
                        Handed(n) \/ n = Base' + Len(semQ')
    <2> SUFFICES ASSUME NEW n \in Nat
                 PROVE  Out(n, Base', Len(semQ')) <=>
                          Handed(n) \/ n = Base' + Len(semQ')
      OBVIOUS
    <2>1. Out(n, Base', Len(semQ')) <=>
            Out(n, Base', Len(semQ') + 1) \/ n = Base' + Len(semQ')
      BY <1>7, <1>a, <1>c
    <2>2. Handed(n) <=> Out(n, Base', Len(semQ') + 1)
      BY <1>b, <1>c
    <2> QED BY <2>1, <2>2
  <1>11. ~ Handed(Base' + Len(semQ'))
    <2>1. Base' + Len(semQ') \in Nat
      BY <1>7
    <2> QED BY <1>7, <1>a, <1>b, <1>c, <2>1
  <1> QED BY <1>1, <1>7, <1>8, <1>9, <1>10, <1>11

LEMMA AllocStep == TypeInv /\ AllocInv /\ [LNext]_<<vars, lvars>> => AllocInv'
  <1> SUFFICES ASSUME TypeInv, AllocInv, [LNext]_<<vars, lvars>>
               PROVE  AllocInv'
    OBVIOUS
  <1>0. setup' = setup /\ Workers' = Workers
    BY SetupKept DEF Workers, Entries
  <1>t. worker \in [Workers -> WorkerSet]
    BY TypeParts DEF TypeInv, StartupInv
  <1>1. ASSUME NEW w \in Workers, GetUserSemaphore(w) PROVE AllocInv'
    <2>1. /\ worker[w].number = Unset /\ worker[w].number \notin Nat
          /\ \A v \in Workers \ {w} : worker'[v] = worker[v]
      BY <1>1, <1>t DEF TypeInv, StartupInv, Past, GetUserSemaphore, Unset
    <2>2. CASE Stack = <<>>
      <3>1. /\ semQ' = semQ /\ semQ = <<>> /\ currentIndex' = currentIndex
            /\ worker'[w].number = NoNumber /\ currentIndex = MaxSets
        <4>1. semQ = <<>> /\ ~ currentIndex < MaxSets
          <5>1. SetSize \in Nat \ {0}
            BY StartupAssumption
          <5>2. SetNumbers(currentIndex) # <<>>
            <6>1. Len(SetNumbers(currentIndex)) = SetSize
              BY <5>1 DEF SetNumbers
            <6> QED BY <5>1, <6>1
          <5> QED BY <2>2, <5>2 DEF Stack
        <4>2. currentIndex \in 1 .. MaxSets /\ MaxSets \in Nat
          BY StartupAssumption, TypeParts DEF TypeInv, StartupInv, AllocTyped
        <4> QED BY <1>1, <1>t, <2>2, <4>1, <4>2 DEF GetUserSemaphore, WorkerSet
      <3>2. \A n \in Nat : \A v \in Workers : worker'[v].number = n <=>
                                              worker[v].number = n
        BY <2>1, <3>1 DEF NoNumber
      <3>3. \A v \in Workers : worker'[v].number \in Nat =>
               worker'[v].number = worker[v].number
        BY <3>2
      <3>4. Base' = Base
        BY <3>1 DEF Base
      <3> QED BY <1>0, <3>1, <3>2, <3>3, <3>4 DEF AllocInv, Handed
    <2>3. CASE Stack # <<>>
      <3> DEFINE new == Base' + Len(semQ')
      <3>1. /\ dssLocked' = FALSE /\ Len(semQ') \in Nat /\ Len(semQ') < SetSize
            /\ worker'[w].number = new /\ new \in Nat
            /\ \A i \in 1 .. Len(semQ') : semQ'[i] = Base' + i - 1
            /\ \A n \in Nat : Out(n, Base', Len(semQ')) <=> Handed(n) \/ n = new
            /\ ~ Handed(new)
        <4>1. \A b, l \in Nat : b + l \in Nat
          OBVIOUS
        <4> QED BY <1>1, <2>3, <4>1, PopStep
      <3>2. Len(semQ') <= SetSize
        BY <3>1, StartupAssumption
      <3> HIDE DEF new
      <3>3. \A v \in Workers : worker'[v].number \in Nat
               => Out(worker'[v].number, Base', Len(semQ'))
        BY <2>1, <3>1 DEF AllocInv
      <3>4. \A n \in Nat : Out(n, Base', Len(semQ')) =>
               \E v \in Workers : worker'[v].number = n
        <4> SUFFICES ASSUME NEW n \in Nat, Out(n, Base', Len(semQ'))
                     PROVE  \E v \in Workers : worker'[v].number = n
          OBVIOUS
        <4>1. CASE n = new
          BY <3>1, <4>1
        <4>2. CASE n # new
          <5>1. PICK v \in Workers : worker[v].number = n
            BY SMTT(30), <3>1, <4>2 DEF AllocInv
          <5> QED BY <2>1, <5>1
        <4> QED BY <4>1, <4>2
      <3>5. \A u, v \in Workers : u # v /\ worker'[u].number = worker'[v].number
               => worker'[u].number \notin Nat
        BY <2>1, <3>1 DEF AllocInv
      <3> QED BY <1>0, <3>1, <3>2, <3>3, <3>4, <3>5 DEF AllocInv, Handed
    <2> QED BY <2>2, <2>3
  <1>2. ASSUME \A w \in Workers : ~ GetUserSemaphore(w) PROVE AllocInv'
    <2>1. /\ semQ' = semQ /\ currentIndex' = currentIndex
          /\ dssLocked' = dssLocked
      BY ZenonT(30), <1>2 DEF LNext, Next, Main, Worker, Control, Listener, ClientThread,
     vars, dss, StartWorker, GetInit, InitTimeout, LowerRights, ReleaseRun,
     StartControl, StartListener, LoadThreadID, StoreThreadID, Scan, Parsed,
     LockControl, UnlockControl, SetLocalidSem, Launch, GetRun, ReadIdx,
     LookSemaphore, LoadThreadIDControl, StoreThreadIDControl, Connect,
     GetRunControl, LoadThreadIDListener, StoreThreadIDListener, Accept,
     StartClientThread, LoadThreadIDClient, StoreThreadIDClient, GetClientFD,
     ReadClient, ProcessLocalMsg, SendAck, SendSignonAck, EndClient
    <2>2. \A v \in Workers : worker'[v].number = worker[v].number
      <3>1. CASE Next /\ UNCHANGED lvars
        <4>1. CASE Main
          BY <1>t, <4>1 DEF Main, StartWorker, GetInit, InitTimeout, LowerRights,
             ReleaseRun, StartControl, StartListener, threads, WorkerSet
        <4>2. ASSUME NEW w \in Workers, Worker(w)
              PROVE  \A v \in Workers : worker'[v].number = worker[v].number
          BY <1>2, <1>t, <4>2 DEF Worker, LoadThreadID, StoreThreadID, Scan,
             Parsed, LockControl, UnlockControl, SetLocalidSem, Launch, GetRun,
             WorkerSet
        <4>3. ASSUME NEW w \in Workers, ReadIdx(w) \/ LookSemaphore(w)
              PROVE  worker' = worker
          BY <4>3 DEF ReadIdx, LookSemaphore
        <4>4. CASE Control
          BY <4>4 DEF Control, LoadThreadIDControl, StoreThreadIDControl,
             Connect, GetRunControl
        <4> QED BY <3>1, <4>1, <4>2, <4>3, <4>4 DEF Next
      <3>2. CASE Listener \/ \E c \in Clients : ClientThread(c)
        BY <3>2, ListenerFrame DEF threads
      <3>3. CASE UNCHANGED <<vars, lvars>>
        BY <3>3 DEF vars, threads
      <3> QED BY <3>1, <3>2, <3>3 DEF LNext
    <2> QED BY <1>0, <2>1, <2>2, AllocFrame
  <1> QED BY <1>1, <1>2

\* No two workers share a semaphore and none is held and free at once, for any
\* number of workers, any size of a set and any number of sets: also when the
\* sets are used up.
THEOREM SemaphoresDistinct == Spec => []OneSemaphoreEach
  <1>1. TypeInv /\ AllocInv => OneSemaphoreEach
    <2> SUFFICES ASSUME TypeInv, AllocInv PROVE OneSemaphoreEach
      OBVIOUS
    <2>0. worker \in [Workers -> WorkerSet] /\ semQ \in Seq(Nat)
      BY TypeParts DEF TypeInv, StartupInv, AllocTyped
    <2>1. \A v, w \in Workers :
             v # w /\ worker[v].number = worker[w].number
                => worker[v].number \in {NoNumber, Unset}
      BY <2>0 DEF AllocInv, WorkerSet
    <2>2. ASSUME NEW w \in Workers, NEW i \in DOMAIN semQ,
                 worker[w].number = semQ[i]
          PROVE  FALSE
      <3>1. Base \in Nat /\ Len(semQ) \in Nat /\ i \in 1 .. Len(semQ)
        BY <2>0, BaseType
      <3>2. semQ[i] = Base + i - 1
        BY <3>1 DEF AllocInv
      <3>3. semQ[i] \in Nat /\ ~ Handed(semQ[i])
        BY <3>1, <3>2 DEF Handed, Out
      <3> QED BY <2>2, <3>3 DEF AllocInv
    <2> QED BY <2>1, <2>2 DEF OneSemaphoreEach
  <1> QED BY <1>1, InitType, StepType, AllocInit, AllocStep, PTL DEF Spec

\* A number with offset 0 is the first of its set; all other numbers of the
\* set are larger.
LEMMA SetArithmetic ==
    ASSUME NEW n \in Nat, NEW k \in Nat, NEW S \in Nat \ {0}, n % S = 0
    PROVE  /\ n < k * S => n + S <= k * S
           /\ k * S <= n /\ n < k * S + S => n = k * S
  <1>1. PICK q \in Nat : n = S * q
    <2>1. n = S * (n \div S) /\ n \div S \in Nat
      BY SMTT(30)
    <2> QED BY <2>1
  <1>2. ASSUME n < k * S PROVE n + S <= k * S
    <2>1. q < k
      BY <1>1, <1>2
    <2>2. S * q + S <= k * S
      BY <2>1
    <2> QED BY <1>1, <2>2
  <1>3. ASSUME k * S <= n, n < k * S + S PROVE n = k * S
    <2>1. ~ k < q
      <3> SUFFICES ASSUME k < q PROVE FALSE
        OBVIOUS
      <3>1. k * S + S <= S * q
        OBVIOUS
      <3> QED BY <1>1, <1>3, <3>1
    <2>2. ~ q < k
      <3> SUFFICES ASSUME q < k PROVE FALSE
        OBVIOUS
      <3>1. S * q + S <= k * S
        OBVIOUS
      <3> QED BY <1>1, <1>3, <3>1
    <2>3. q = k
      BY <2>1, <2>2
    <2> QED BY <1>1, <2>3
  <1> QED BY <1>2, <1>3

\* The allocator works to its limit, for any sizes: the mutex is left locked
\* only when every semaphore of every set has a worker, and the one that is
\* never signalled is handed out only when all others of its set are.
THEOREM AllocatorToItsLimit == Spec => []UsableFirst
  <1>1. TypeInv /\ AllocInv => UsableFirst
    <2> SUFFICES ASSUME TypeInv, AllocInv PROVE UsableFirst
      OBVIOUS
    <2>0. /\ worker \in [Workers -> WorkerSet] /\ semQ \in Seq(Nat)
          /\ currentIndex \in 1 .. MaxSets /\ MaxSets \in Nat \ {0}
          /\ Len(semQ) \in Nat
      BY TypeParts, StartupAssumption DEF TypeInv, StartupInv, AllocTyped
    <2>1. /\ Base \in Nat /\ SetSize \in Nat \ {0}
          /\ currentIndex * SetSize = Base + SetSize
      BY BaseType
    <2>2. \A w \in Workers : worker[w].number >= 0 <=> worker[w].number \in Nat
      BY <2>0 DEF WorkerSet, NoNumber, Unset
    <2>3. DeafIsLast
      <3> SUFFICES ASSUME NEW w \in Workers, worker[w].number >= 0,
                          Offset(worker[w].number) = 0,
                          NEW i \in 1 .. SetSize - 1
                   PROVE  \E v \in Workers :
                             worker[v].number = worker[w].number + i
        BY DEF DeafIsLast
      <3> DEFINE n == worker[w].number
      <3>1. n \in Nat /\ Handed(n) /\ n % SetSize = 0
        BY <2>2 DEF AllocInv, Offset
      <3>2. PICK k \in Nat : Base = k * SetSize
        <4>1. currentIndex - 1 \in Nat
          BY <2>0
        <4> QED BY <4>1 DEF Base
      <3>3. /\ n < Base => n + SetSize <= Base
            /\ Base <= n /\ n < Base + SetSize => n = Base
        BY <2>1, <3>1, <3>2, SetArithmetic
      <3> HIDE DEF n
      <3>4. i \in Nat /\ i < SetSize
        BY <2>1
      <3>5. Handed(n + i) /\ n + i \in Nat
        BY <2>0, <2>1, <3>1, <3>3, <3>4 DEF Handed, Out
      <3>6. \E v \in Workers : worker[v].number = n + i
        BY <3>5 DEF AllocInv
      <3> QED BY <3>6 DEF n
    <2>4. LockedOnlyWhenExhausted
      <3> DEFINE H == {w \in Workers : worker[w].number >= 0}
      <3> SUFFICES ASSUME dssLocked
                   PROVE  Cardinality(H) = SetSize * MaxSets
        BY DEF LockedOnlyWhenExhausted
      <3> DEFINE T == 0 .. (SetSize * MaxSets - 1)
      <3>1. semQ = <<>> /\ currentIndex = MaxSets
        BY DEF AllocInv
      <3>2. Base + SetSize = SetSize * MaxSets /\ Len(semQ) = 0
            /\ SetSize * MaxSets \in Nat
        BY <2>0, <2>1, <3>1
      <3>3. \A n \in Nat : Handed(n) <=> n \in T
        BY <2>1, <3>2 DEF Handed, Out
      <3> DEFINE f == [w \in H |-> worker[w].number]
      <3>4. f \in Bijection(H, T)
        <4>1. f \in [H -> T]
          BY <2>2, <3>3 DEF AllocInv
        <4>2. \A v, w \in H : f[v] = f[w] => v = w
          BY <2>2 DEF AllocInv
        <4>3. \A n \in T : \E w \in H : f[w] = n
          <5> SUFFICES ASSUME NEW n \in T PROVE \E w \in H : f[w] = n
            OBVIOUS
          <5>1. n \in Nat /\ Handed(n)
            BY <3>2, <3>3
          <5>2. PICK w \in Workers : worker[w].number = n
            BY <5>1 DEF AllocInv
          <5> QED BY <2>2, <5>1, <5>2
        <4> HIDE DEF f, H, T
        <4>4. f \in Injection(H, T)
          BY <4>1, <4>2 DEF Injection, IsInjective
        <4>5. f \in Surjection(H, T)
          BY <4>1, <4>3 DEF Surjection
        <4> QED BY <4>4, <4>5 DEF Bijection
      <3>5. ExistsBijection(H, T)
        BY <3>4 DEF ExistsBijection
      <3>6. IsFiniteSet(T) /\ Cardinality(T) = SetSize * MaxSets
        <4> DEFINE m == SetSize * MaxSets
        <4>1. m \in Nat
          BY <3>2
        <4> HIDE DEF m
        <4>2. 0 \in Int /\ m - 1 \in Int
              /\ (IF 0 > m - 1 THEN 0 ELSE (m - 1) - 0 + 1) = m
          BY <4>1
        <4>3. /\ IsFiniteSet(0 .. (m - 1))
              /\ Cardinality(0 .. (m - 1)) =
                     IF 0 > m - 1 THEN 0 ELSE (m - 1) - 0 + 1
          BY <4>2, FS_Interval
        <4> QED BY <4>2, <4>3 DEF m
      <3>7. IsFiniteSet(H)
        <4>1. IsFiniteSet(Workers)
          <5>1. Entries \in Int /\ Workers = 1 .. Entries
            BY Constants DEF TypeInv, StartupInv, StartupTypeOK
          <5> QED BY <5>1, FS_Interval
        <4> QED BY <4>1, FS_Subset
      <3> HIDE DEF f, H, T
      <3> QED BY <3>5, <3>6, <3>7, FS_Bijection
    <2> QED BY <2>3, <2>4 DEF UsableFirst
  <1> QED BY <1>1, InitType, StepType, AllocInit, AllocStep, PTL DEF Spec

-----------------------------------------------------------------------------
\* The descriptors of accepted clients.

Waiting == {c \in Clients : thread[c].pc \in {"new", "store", "pop"}}

\* Only accepted clients have a descriptor, and none has two.
ServeInv ==
    /\ ServedOnce
    /\ \A i \in 1 .. Len(clientFDs) : clientFDs[i] <= listener.accepted
    /\ \A i, j \in 1 .. Len(clientFDs) : clientFDs[i] = clientFDs[j] => i = j
    /\ \A c \in Clients : thread[c].fd <= listener.accepted

LEMMA WaitingFinite ==
    /\ IsFiniteSet(Waiting) /\ Cardinality(Waiting) \in Nat
    /\ \A c \in Waiting : Cardinality(Waiting \ {c}) = Cardinality(Waiting) - 1
    /\ \A c \in Clients \ Waiting :
          Cardinality(Waiting \cup {c}) = Cardinality(Waiting) + 1
  <1>1. IsFiniteSet(Clients)
    BY ListenerAssumption, FS_Interval DEF Clients
  <1>2. IsFiniteSet(Waiting)
    BY <1>1, FS_Subset DEF Waiting
  <1> QED BY <1>2, FS_CardinalityType, FS_AddElement, FS_RemoveElement

LEMMA ServeInit == LInit => ServeInv
  <1> SUFFICES ASSUME LInit PROVE ServeInv
    OBVIOUS
  <1>1. /\ clientFDs = <<>> /\ Len(clientFDs) = 0 /\ lost = 0
        /\ listener.accepted = 0 /\ listener.pc = "none"
        /\ \A c \in Clients : thread[c].fd = 0 /\ thread[c].pc = "none"
    BY DEF LInit, NewThread
  <1>2. Cardinality({c \in Clients : thread[c].pc \in {"new", "store", "pop"}})
           = 0
    <2>1. {c \in Clients : thread[c].pc \in {"new", "store", "pop"}} = {}
      BY <1>1
    <2> QED BY <2>1, FS_EmptySet
  <1>3. \A c, d \in Clients : c # d /\ thread[c].fd = thread[d].fd
           => thread[c].fd = 0
    BY <1>1
  <1>4. \A c \in Clients, i \in DOMAIN clientFDs : thread[c].fd # clientFDs[i]
    BY <1>1
  <1>5. ServedOnce
    BY <1>1, <1>2, <1>3, <1>4 DEF ServedOnce
  <1> QED BY <1>1, <1>5 DEF ServeInv

\* What is left as it is when neither the stack nor who waits or serves changes.
LEMMA ServeFrame ==
    ASSUME ServeInv, clientFDs' = clientFDs, lost' = lost,
           listener'.accepted = listener.accepted,
           listener'.pc = "create" <=> listener.pc = "create",
           \A c \in Clients : thread'[c].fd = thread[c].fd, Waiting' = Waiting
    PROVE  ServeInv'
  <1>1. ServedOnce'
    BY ZenonT(30) DEF ServeInv, ServedOnce, Waiting
  <1> QED BY <1>1 DEF ServeInv

LEMMA ServeStep == TypeInv /\ ServeInv /\ [LNext]_<<vars, lvars>> => ServeInv'
  <1> SUFFICES ASSUME TypeInv, ServeInv, [LNext]_<<vars, lvars>>
               PROVE  ServeInv'
    OBVIOUS
  <1>1. /\ listener \in ListenerSet /\ clientFDs \in Seq(Clients)
        /\ thread \in [Clients -> ThreadSet] /\ lost \in Nat
    BY ListenerParts DEF TypeInv
  <1>n. NumClients \in Nat /\ Clients = 1 .. NumClients
    BY ListenerAssumption DEF Clients
  <1>l. Len(clientFDs) \in Nat /\ DOMAIN clientFDs = 1 .. Len(clientFDs)
    BY <1>1
  <1>a. listener.accepted \in Nat
    BY <1>1, <1>n DEF ListenerSet
  <1>w. /\ Cardinality(Waiting) \in Nat
        /\ \A c \in Waiting :
              Cardinality(Waiting \ {c}) = Cardinality(Waiting) - 1
        /\ \A c \in Clients \ Waiting :
              Cardinality(Waiting \cup {c}) = Cardinality(Waiting) + 1
    BY WaitingFinite
  <1>c. Cardinality(Waiting) + (IF listener.pc = "create" THEN 1 ELSE 0) + lost
           = Len(clientFDs)
    BY DEF ServeInv, ServedOnce, Waiting
  <1>2. CASE UNCHANGED lvars
    BY <1>2, ServeFrame DEF lvars, Waiting
  <1>3. CASE LoadThreadIDListener \/ StoreThreadIDListener
    <2>1. /\ thread' = thread /\ clientFDs' = clientFDs /\ lost' = lost
          /\ listener'.accepted = listener.accepted
          /\ listener'.pc # "create" /\ listener.pc # "create"
      BY <1>1, <1>3 DEF LoadThreadIDListener, StoreThreadIDListener, ListenerSet
    <2> QED BY <2>1, ServeFrame DEF Waiting
  <1>4. CASE Accept
    <2> DEFINE new == listener.accepted + 1
    <2>1. /\ thread' = thread /\ lost' = lost /\ listener.pc = "poll"
          /\ listener'.accepted = new /\ listener'.pc = "create"
          /\ clientFDs' = Append(clientFDs, new)
      BY <1>1, <1>4 DEF Accept, ListenerSet
    <2>2. /\ Len(clientFDs') = Len(clientFDs) + 1
          /\ \A i \in 1 .. Len(clientFDs) : clientFDs'[i] = clientFDs[i]
          /\ clientFDs'[Len(clientFDs) + 1] = new
          /\ DOMAIN clientFDs' = 1 .. Len(clientFDs')
      BY <1>1, <2>1
    <2>3. new \in Nat /\ \A n \in 0 .. listener.accepted : n # new /\ n <= new
      BY <1>a
    <2>4. \A i \in 1 .. Len(clientFDs) : clientFDs[i] \in 0 .. listener.accepted
      BY <1>1, <1>a, <1>l, <1>n, ElementOfSeq DEF ServeInv
    <2>5. \A c \in Clients : thread[c].fd \in 0 .. listener.accepted
      <3>1. \A c \in Clients : thread[c].fd \in {0} \cup Clients
        BY <1>1 DEF ThreadSet
      <3> QED BY <1>a, <1>n, <3>1 DEF ServeInv
    <2> HIDE DEF new
    <2>6. \A i \in 1 .. Len(clientFDs') :
             i \in 1 .. Len(clientFDs) \/ i = Len(clientFDs) + 1
      BY <1>l, <2>2
    <2>7. \A i, j \in 1 .. Len(clientFDs') :
             clientFDs'[i] = clientFDs'[j] => i = j
      BY <2>2, <2>3, <2>4, <2>6 DEF ServeInv
    <2>8. \A i \in 1 .. Len(clientFDs') : clientFDs'[i] <= new
      BY <2>2, <2>3, <2>4, <2>6
    <2>9. \A c \in Clients, i \in DOMAIN clientFDs' :
             thread'[c].fd # clientFDs'[i]
      BY <1>l, <2>1, <2>2, <2>3, <2>5, <2>6 DEF ServeInv, ServedOnce
    <2>10. Cardinality(Waiting') + 1 + lost' = Len(clientFDs')
      <3>1. Waiting' = Waiting
        BY <2>1 DEF Waiting
      <3>2. Cardinality(Waiting) + 0 + lost = Len(clientFDs)
        BY <1>c, <2>1
      <3> QED BY <1>1, <1>l, <1>w, <2>1, <2>2, <3>1, <3>2
    <2>11. ServedOnce'
      BY <2>1, <2>9, <2>10 DEF ServeInv, ServedOnce, Waiting
    <2> QED BY <2>1, <2>3, <2>5, <2>7, <2>8, <2>11 DEF ServeInv
  <1>5. CASE StartClientThread
    <2> DEFINE a == listener.accepted
    <2>1. /\ clientFDs' = clientFDs /\ listener.pc = "create"
          /\ listener'.pc = "poll" /\ listener'.accepted = a
          /\ a \in Clients /\ thread[a].pc = "none"
          /\ \/ thread' = [thread EXCEPT ![a].pc = "new"] /\ lost' = lost
             \/ thread' = thread /\ lost' = lost + 1
      BY <1>1, <1>5 DEF StartClientThread, ListenerSet, TypeInv, Unspawned
    <2> HIDE DEF a
    <2>2. \A c \in Clients : thread'[c].fd = thread[c].fd
      BY <1>1, <2>1 DEF ThreadSet
    <2>3. Cardinality(Waiting') + 0 + lost' = Len(clientFDs)
      <3>0. Cardinality(Waiting) + 1 + lost = Len(clientFDs)
        BY <1>c, <2>1
      <3>1. CASE thread' = thread /\ lost' = lost + 1
        <4>1. Waiting' = Waiting
          BY <3>1 DEF Waiting
        <4> QED BY <1>1, <1>w, <3>0, <3>1, <4>1
      <3>2. CASE thread' = [thread EXCEPT ![a].pc = "new"] /\ lost' = lost
        <4>1. /\ thread'[a].pc = "new"
              /\ \A c \in Clients \ {a} : thread'[c] = thread[c]
          BY <1>1, <2>1, <3>2 DEF ThreadSet
        <4>2. Waiting' = Waiting \cup {a} /\ a \in Clients \ Waiting
          BY <2>1, <4>1 DEF Waiting
        <4>3. Cardinality(Waiting') = Cardinality(Waiting) + 1
          BY <1>w, <4>2
        <4> QED BY <1>1, <1>w, <3>0, <3>2, <4>3
      <3> QED BY <2>1, <3>1, <3>2
    <2>4. ServedOnce'
      BY <2>1, <2>2, <2>3 DEF ServeInv, ServedOnce, Waiting
    <2> QED BY <2>1, <2>2, <2>4 DEF ServeInv, a
  <1>6. ASSUME NEW c \in Clients, GetClientFD(c) PROVE ServeInv'
    <2>1. thread[c].pc = "pop" /\ c \in Waiting /\ thread[c].fd = 0
      BY <1>6 DEF GetClientFD, Waiting, TypeInv, Served, Serves
    <2>2. Len(clientFDs) # 0 /\ clientFDs # <<>>
      <3>1. Cardinality(Waiting) # 0
        <4>1. IsFiniteSet(Waiting) /\ Waiting # {}
          BY <2>1, WaitingFinite
        <4> QED BY <4>1, FS_EmptySet
      <3>2. Len(clientFDs) # 0
        BY <1>1, <1>c, <1>w, <3>1
      <3> QED BY <3>2
    <2> DEFINE k == Len(clientFDs)
    <2>3. k \in Nat \ {0}
      BY <1>l, <2>2
    <2>4. /\ clientFDs' = SubSeq(clientFDs, 1, k - 1)
          /\ thread' = [thread EXCEPT ![c].pc = "read", ![c].fd = clientFDs[k]]
          /\ listener' = listener /\ lost' = lost
      BY <1>6, <2>2 DEF GetClientFD, FDsPopped, Front, Last
    <2>5. /\ Len(clientFDs') = k - 1 /\ DOMAIN clientFDs' = 1 .. k - 1
          /\ \A i \in 1 .. k - 1 : clientFDs'[i] = clientFDs[i]
      <3>1. \A i \in 1 .. k - 1 : clientFDs[i] \in Clients
        BY <1>1, <1>l, ElementOfSeq
      <3>2. clientFDs' \in Seq(Clients)
        BY <2>3, <2>4, <3>1, SubSeqProperties
      <3> HIDE DEF k
      <3>3. /\ 1 \in Int /\ k - 1 \in Int /\ (k - 1) - 1 + 1 = k - 1
            /\ (IF 1 <= k - 1 THEN (k - 1) - 1 + 1 ELSE 0) = k - 1
            /\ \A i \in 1 .. k - 1 : 1 + i - 1 = i
        BY <2>3
      <3>4. /\ Len(clientFDs') = IF 1 <= k - 1 THEN (k - 1) - 1 + 1 ELSE 0
            /\ \A i \in 1 .. (k - 1) - 1 + 1 : clientFDs'[i] = clientFDs[1 + i - 1]
        BY <2>4, <3>1, <3>3, SubSeqProperties
      <3> QED BY <3>2, <3>3, <3>4
    <2>6. /\ thread'[c].fd = clientFDs[k] /\ thread'[c].pc = "read"
          /\ \A d \in Clients \ {c} : thread'[d] = thread[d]
      BY <1>1, <2>4 DEF ThreadSet
    <2>7. k \in 1 .. k /\ k \in DOMAIN clientFDs /\ \A i \in 1 .. k - 1 :
             i \in 1 .. k /\ i # k /\ i \in DOMAIN clientFDs
      <3>1. \A n \in Nat \ {0} :
               n \in 1 .. n /\ \A i \in 1 .. n - 1 : i \in 1 .. n /\ i # n
        OBVIOUS
      <3>2. DOMAIN clientFDs = 1 .. k
        BY <1>l
      <3> HIDE DEF k
      <3> QED BY <2>3, <3>1, <3>2
    <2>8. \A d, e \in Clients : d # e /\ thread'[d].fd = thread'[e].fd
             => thread'[d].fd = 0
      BY SMTT(30), <2>6, <2>7 DEF ServeInv, ServedOnce
    <2>9. \A d \in Clients, i \in DOMAIN clientFDs' :
             thread'[d].fd # clientFDs'[i]
      BY <2>5, <2>6, <2>7 DEF ServeInv, ServedOnce
    <2>10. Cardinality(Waiting') + (IF listener.pc = "create" THEN 1 ELSE 0)
              + lost = k - 1
      <3>1. Waiting' = Waiting \ {c}
        BY <2>1, <2>6 DEF Waiting
      <3>2. Cardinality(Waiting') = Cardinality(Waiting) - 1
        BY <1>w, <2>1, <3>1
      <3> DEFINE e == IF listener.pc = "create" THEN 1 ELSE 0
      <3>3. e \in Nat /\ Cardinality(Waiting) + e + lost = k
        BY <1>c
      <3> HIDE DEF e, k
      <3>4. Cardinality(Waiting') + e + lost = k - 1
        BY <1>1, <1>w, <2>3, <3>2, <3>3
      <3> QED BY <3>4 DEF e
    <2>11. ServedOnce'
      BY <2>4, <2>5, <2>8, <2>9, <2>10 DEF ServedOnce, Waiting
    <2>12. \A i, j \in 1 .. Len(clientFDs') :
              clientFDs'[i] = clientFDs'[j] => i = j
      BY <2>5, <2>7 DEF ServeInv
    <2>13. \A i \in 1 .. Len(clientFDs') : clientFDs'[i] <= listener.accepted
      BY <2>5, <2>7 DEF ServeInv
    <2>14. \A d \in Clients : thread'[d].fd <= listener.accepted
      BY SMTT(30), <2>6, <2>7 DEF ServeInv
    <2> QED BY <2>4, <2>11, <2>12, <2>13, <2>14 DEF ServeInv
  <1>7. ASSUME NEW c \in Clients, ClientThread(c), ~ GetClientFD(c)
        PROVE  ServeInv'
    <2>1. UNCHANGED <<clientFDs, listener, lost>>
      BY SMTT(30), <1>7 DEF ClientThread, LoadThreadIDClient, StoreThreadIDClient,
         ReadClient, ProcessLocalMsg, SendAck, SendSignonAck, EndClient
    <2>2. /\ thread'[c].fd = thread[c].fd
          /\ \A d \in Clients \ {c} : thread'[d] = thread[d]
          /\ thread'[c].pc \in {"new", "store", "pop"} <=>
                 thread[c].pc \in {"new", "store", "pop"}
      BY <1>1, <1>7 DEF ClientThread, LoadThreadIDClient, StoreThreadIDClient,
         ReadClient, ProcessLocalMsg, SendAck, SendSignonAck, EndClient,
         ThreadSet, BadRead
    <2>3. Waiting' = Waiting
      BY <2>2 DEF Waiting
    <2> QED BY <2>1, <2>2, <2>3, ServeFrame
  <1>8. CASE UNCHANGED <<vars, lvars>>
    BY <1>2, <1>8
  <1> QED
    BY <1>2, <1>3, <1>4, <1>5, <1>6, <1>7, <1>8 DEF LNext, Listener

\* Each accepted client is served by one thread at most, and a thread that
\* takes a descriptor from the stack finds one: for any number of clients, in
\* every interleaving of the listener with its threads, also when some could
\* not be created.
THEOREM DescriptorsServedOnce == Spec => []ServedOnce
  <1>1. ServeInv => ServedOnce
    BY DEF ServeInv
  <1> QED BY <1>1, InitType, StepType, ServeInit, ServeStep, PTL DEF Spec

-----------------------------------------------------------------------------
\* The signal that the rights are lowered.

\* Permits released so far, workers a permit has let through, and the permit
\* the control thread may have taken.
Released == CASE ~ RightsLowered -> 0
              [] main.pc = "run" -> main.j
              [] OTHER -> Entries
Through == {w \in Workers : worker[w].pc = "serving" /\ WaitsForRun(w)}
AtRun == {w \in Workers : worker[w].pc = "waitrun"}
Spent == IF setup.rights = "one" /\ control.pc = "session" THEN 1 ELSE 0

\* Every permit that was released is left, or let a worker through, or went to
\* the control thread.
RunInv ==
    /\ Released <= semRun + Cardinality(Through) + Spent
    /\ ~ RightsLowered => semRun = 0 /\ Through = {}
    /\ \A w \in AtRun : WaitsForRun(w)
    /\ main.pc \in {"start", "wait", "run"} => control.pc = "none"
    /\ control.pc = "waitrun" => setup.rights = "one"

LEMMA WorkersFinite ==
    ASSUME setup \in Setups
    PROVE  /\ IsFiniteSet(Workers) /\ Cardinality(Workers) = Entries
           /\ \A S \in SUBSET Workers :
                 IsFiniteSet(S) /\ Cardinality(S) \in Nat
  <1>1. Entries \in Nat /\ Workers = 1 .. Entries
    BY Constants
  <1>2. /\ IsFiniteSet(1 .. Entries)
        /\ Cardinality(1 .. Entries) = IF 1 > Entries THEN 0 ELSE Entries - 1 + 1
    BY <1>1, FS_Interval
  <1>3. IsFiniteSet(Workers) /\ Cardinality(Workers) = Entries
    BY <1>1, <1>2
  <1>4. ASSUME NEW S \in SUBSET Workers
        PROVE  IsFiniteSet(S) /\ Cardinality(S) \in Nat
    <2>1. IsFiniteSet(S)
      BY <1>3, FS_Subset
    <2> QED BY <2>1, FS_CardinalityType
  <1> QED BY <1>3, <1>4

LEMMA RunInit == LInit => RunInv
  <1> SUFFICES ASSUME LInit PROVE RunInv
    OBVIOUS
  <1>1. /\ main.pc = "start" /\ semRun = 0 /\ control.pc = "none"
        /\ \A w \in Workers : worker[w].pc = "none"
    BY DEF LInit, Init, NewWorker
  <1>2. Through = {} /\ AtRun = {} /\ Released = 0 /\ Spent = 0
    BY <1>1 DEF Through, AtRun, Released, RightsLowered, Spent
  <1>3. Cardinality(Through) = 0
    BY <1>2, FS_EmptySet
  <1> QED BY <1>1, <1>2, <1>3 DEF RunInv

\* A step after which the same workers wait and the same are through.
LEMMA RunFrame ==
    ASSUME TypeInv, RunInv, setup' = setup, main' = main, semRun' = semRun,
           control' = control,
           \A w \in Workers :
               /\ worker'[w].pc = "serving" /\ WaitsForRun(w)' <=>
                     worker[w].pc = "serving" /\ WaitsForRun(w)
               /\ worker'[w].pc = "waitrun" => WaitsForRun(w)'
    PROVE  RunInv'
  <1>1. Workers' = Workers /\ Entries' = Entries
    BY DEF Workers, Entries
  <1>2. Through' = Through /\ \A w \in AtRun' : WaitsForRun(w)'
    BY <1>1 DEF Through, AtRun
  <1>3. Released' = Released /\ Spent' = Spent
        /\ (RightsLowered' <=> RightsLowered)
    BY <1>1 DEF Released, Spent, RightsLowered
  <1> QED BY <1>2, <1>3 DEF RunInv

LEMMA RunMain ==
    ASSUME TypeInv, RunInv, setup' = setup, Main
    PROVE  RunInv'
  <1>1. /\ main \in MainSet /\ worker \in [Workers -> WorkerSet]
        /\ control \in ControlSet /\ semRun \in Nat /\ setup \in Setups
        /\ NotStarted /\ Workers' = Workers /\ Entries' = Entries
    BY TypeParts DEF TypeInv, StartupInv, Workers, Entries
  <1>2. Entries \in Nat /\ Workers = 1 .. Entries
    BY <1>1, Constants
  <1>3. Through \subseteq Workers /\ Cardinality(Through) \in Nat
    BY <1>1, WorkersFinite DEF Through
  <1>4. \A w \in Workers :
           /\ worker'[w].entry = worker[w].entry
           /\ worker'[w].pc \in {"serving", "waitrun"} \/
                 worker[w].pc \in {"serving", "waitrun"}
              => worker'[w] = worker[w]
    <2>1. CASE StartWorker
      <3>1. PICK pc \in {"new", "exited"} :
               worker' = [worker EXCEPT ![main.j + 1].pc = pc]
        BY <2>1 DEF StartWorker
      <3>2. main.j \in Nat /\ main.j + 1 \in Workers
            /\ main.pc = "start" /\ main.j + 1 > main.j
        BY <1>1, <1>2, <2>1 DEF StartWorker, MainSet
      <3>3. worker[main.j + 1].pc = "none"
        BY <1>1, <3>2 DEF NotStarted
      <3> DEFINE n == main.j + 1
      <3>4. /\ worker'[n].pc = pc /\ worker'[n].entry = worker[n].entry
            /\ \A w \in Workers \ {n} : worker'[w] = worker[w]
        BY <1>1, <3>1, <3>2 DEF WorkerSet
      <3> HIDE DEF n
      <3> QED BY <3>3, <3>4 DEF n
    <2>2. CASE ~ StartWorker
      BY <2>2 DEF Main, GetInit, InitTimeout, LowerRights, ReleaseRun,
         StartControl, StartListener, threads
    <2> QED BY <2>1, <2>2
  <1>5. /\ Through' = Through
        /\ \A w \in AtRun' : w \in AtRun /\ (WaitsForRun(w)' <=> WaitsForRun(w))
    BY <1>1, <1>4 DEF Through, AtRun, WaitsForRun
  <1>6. CASE StartWorker \/ GetInit \/ InitTimeout \/ StartListener
    <2>1. /\ semRun' = semRun /\ control' = control
          /\ (RightsLowered' <=> RightsLowered)
          /\ main'.pc \in {"start", "wait", "run"} =>
                main.pc \in {"start", "wait", "run"}
          /\ main'.pc # "run" /\ main.pc # "run"
      BY <1>1, <1>6 DEF StartWorker, GetInit, InitTimeout, StartListener, sems,
         threads, MainSet, AwaitWorker, AfterWait, RightsLowered
    <2>2. Released' = Released /\ Spent' = Spent
      BY <1>1, <2>1 DEF Released, Spent
    <2> QED BY <1>5, <2>1, <2>2 DEF RunInv
  <1>7. CASE LowerRights
    <2>1. /\ main.pc = "start" /\ main' = [pc |-> "run", j |-> 0]
          /\ semRun' = semRun /\ control' = control
      BY <1>7 DEF LowerRights, sems, threads
    <2>2. Released' = 0 /\ Spent' = Spent /\ RightsLowered' /\ Spent \in {0, 1}
      BY <2>1 DEF Released, Spent, RightsLowered
    <2>3. 0 <= semRun + Cardinality(Through) + Spent
      BY <1>1, <1>3, <2>2
    <2> QED BY <1>5, <2>1, <2>2, <2>3 DEF RunInv
  <1>8. CASE ReleaseRun
    <2>1. /\ main.pc = "run" /\ main'.pc = "run" /\ main'.j = main.j + 1
          /\ semRun' = semRun + 1 /\ control' = control /\ main.j \in Nat
      BY <1>1, <1>2, <1>8 DEF ReleaseRun, MainSet, threads
    <2>2. /\ Released = main.j /\ Released' = main.j + 1 /\ Spent' = Spent
          /\ RightsLowered' /\ Spent \in {0, 1}
      BY <2>1 DEF Released, Spent, RightsLowered
    <2>3. Released' <= semRun' + Cardinality(Through) + Spent'
      BY <1>1, <1>3, <2>1, <2>2 DEF RunInv
    <2> QED BY <1>5, <2>1, <2>2, <2>3 DEF RunInv
  <1>9. CASE StartControl
    <2>1. /\ main.pc = "run" /\ main.j = Entries
          /\ main'.pc \in {"waitcontrol", "listen"}
          /\ semRun' = semRun /\ control'.pc \in {"none", "new"}
          /\ control.pc = "none"
      BY <1>1, <1>9 DEF StartControl, MainSet, ControlSet, RunInv, sems
    <2>2. Released' = Released /\ Spent' = 0 /\ Spent = 0 /\ RightsLowered'
      BY <1>1, <2>1 DEF Released, Spent, RightsLowered
    <2> QED BY <1>5, <2>1, <2>2 DEF RunInv
  <1> QED BY <1>6, <1>7, <1>8, <1>9 DEF Main

LEMMA RunWorker ==
    ASSUME TypeInv, RunInv, setup' = setup, NEW w \in Workers, Worker(w)
    PROVE  RunInv'
  <1>1. /\ worker \in [Workers -> WorkerSet] /\ semRun \in Nat
        /\ setup \in Setups /\ Workers' = Workers /\ Past(w)
        /\ main \in MainSet
    BY TypeParts DEF TypeInv, StartupInv, Workers, Entries
  <1>2. /\ main' = main /\ control' = control
        /\ \A v \in Workers \ {w} : worker'[v] = worker[v]
    BY <1>1 DEF Worker, LoadThreadID, StoreThreadID, Scan, Parsed, LockControl,
       GetUserSemaphore, UnlockControl, SetLocalidSem, Launch, GetRun, threads
  <1>3. \A v \in Workers \ {w} : WaitsForRun(v)' <=> WaitsForRun(v)
    BY <1>2 DEF WaitsForRun
  <1>4. CASE GetRun(w) /\ semRun > 0
    <2>1. /\ worker[w].pc = "waitrun" /\ semRun' = semRun - 1
          /\ worker'[w].pc = "serving" /\ worker'[w].entry = worker[w].entry
      BY <1>1, <1>4 DEF GetRun, WorkerSet
    <2>2. WaitsForRun(w) /\ WaitsForRun(w)' /\ w \notin Through /\ RightsLowered
      BY <1>1, <2>1, <1>4 DEF RunInv, AtRun, WaitsForRun, Through
    <2>3. Through' = Through \cup {w}
      BY <1>1, <1>2, <1>3, <2>1, <2>2 DEF Through
    <2>4. IsFiniteSet(Through) /\ Cardinality(Through) \in Nat
      BY <1>1, WorkersFinite DEF Through
    <2>5. Cardinality(Through') = Cardinality(Through) + 1
      BY <2>2, <2>3, <2>4, FS_AddElement
    <2>6. /\ Released' = Released /\ Spent' = Spent /\ Spent \in {0, 1}
          /\ RightsLowered'
      BY <1>2, <2>2 DEF Released, Spent, RightsLowered, Entries
    <2>7. Released \in Nat
      <3>1. Entries \in Nat
        BY <1>1, Constants
      <3> QED BY <1>1, <3>1 DEF Released, MainSet
    <2>8. Released' <= semRun' + Cardinality(Through') + Spent'
      BY <1>1, <1>4, <2>1, <2>4, <2>5, <2>6, <2>7 DEF RunInv
    <2>9. \A v \in AtRun' : WaitsForRun(v)'
      BY <1>1, <1>2, <1>3, <2>1 DEF RunInv, AtRun
    <2> QED BY <1>2, <2>6, <2>8, <2>9 DEF RunInv
  <1>5. CASE ~ (GetRun(w) /\ semRun > 0)
    <2>1. semRun' = semRun
      <3>1. CASE GetRun(w)
        BY <1>1, <1>5, <3>1 DEF GetRun, RunPermit
      <3>2. CASE ~ GetRun(w)
        BY <3>2 DEF Worker, LoadThreadID, StoreThreadID, Scan, Parsed,
           LockControl, GetUserSemaphore, UnlockControl, SetLocalidSem, Launch,
           sems
      <3> QED BY <3>1, <3>2
    <2>2. /\ worker'[w].pc = "serving" /\ WaitsForRun(w)' <=>
                worker[w].pc = "serving" /\ WaitsForRun(w)
          /\ worker'[w].pc = "waitrun" => WaitsForRun(w)'
      <3>1. CASE Launch(w)
        <4> DEFINE kind == setup.entries[worker[w].entry].kind
        <4>1. /\ worker[w].pc = "library" /\ worker'[w].entry = worker[w].entry
              /\ worker'[w].pc = "waitrun" <=> kind = "netlink"
              /\ worker[w].entry # 0
              /\ worker'[w].pc = "serving" => kind # "netlink"
          BY <1>1, <3>1 DEF Launch, WorkerSet, Past
        <4> QED BY <4>1 DEF WaitsForRun
      <3>2. CASE ~ Launch(w)
        <4>1. worker[w].pc # "serving" /\ worker'[w].pc \notin {"serving", "waitrun"}
          BY <1>1, <1>5, <3>2 DEF Worker, LoadThreadID, StoreThreadID, Scan,
             Parsed, LockControl, GetUserSemaphore, UnlockControl,
             SetLocalidSem, GetRun, WorkerSet, RunPermit
        <4> QED BY <4>1
      <3> QED BY <3>1, <3>2
    <2>3. \A v \in Workers :
             /\ worker'[v].pc = "serving" /\ WaitsForRun(v)' <=>
                   worker[v].pc = "serving" /\ WaitsForRun(v)
             /\ worker'[v].pc = "waitrun" => WaitsForRun(v)'
      BY <1>2, <1>3, <2>2 DEF RunInv, AtRun
    <2> QED BY <1>2, <2>1, <2>3, RunFrame
  <1> QED BY <1>4, <1>5

LEMMA RunControl ==
    ASSUME TypeInv, RunInv, setup' = setup, Control
    PROVE  RunInv'
  <1>1. /\ semRun \in Nat /\ control \in ControlSet /\ setup \in Setups
        /\ Entries \in Nat /\ main \in MainSet
    BY TypeParts, Constants DEF TypeInv, StartupInv
  <1>2. /\ main' = main /\ worker' = worker /\ Workers' = Workers
        /\ control.pc # "none" /\ Entries' = Entries
    BY DEF Control, LoadThreadIDControl, StoreThreadIDControl, Connect,
       GetRunControl, Workers, Entries
  <1>3. /\ Through' = Through /\ Released' = Released
        /\ (RightsLowered' <=> RightsLowered)
        /\ AtRun' = AtRun /\ \A w \in Workers : WaitsForRun(w)' <=> WaitsForRun(w)
    BY <1>2 DEF Through, Released, RightsLowered, AtRun, WaitsForRun
  <1>4. Cardinality(Through) \in Nat /\ AtRun \subseteq Workers
    BY <1>1, WorkersFinite DEF Through, AtRun
  <1>5. Released \in Nat
    BY <1>1 DEF Released, MainSet
  <1>6. CASE GetRunControl
    <2>1. /\ setup.rights = "one" /\ Spent = 0 /\ Spent' = 1
          /\ semRun' = IF semRun > 0 THEN semRun - 1 ELSE semRun
          /\ control'.pc = "session"
      BY <1>1, <1>6 DEF GetRunControl, Spent, RunInv, ControlSet
    <2>2. Released <= semRun' + Cardinality(Through) + 1
      BY <1>1, <1>4, <1>5, <2>1 DEF RunInv
    <2>3. semRun = 0 => semRun' = 0
      BY <2>1
    <2> QED BY <1>2, <1>3, <1>4, <2>1, <2>2, <2>3 DEF RunInv
  <1>7. CASE ~ GetRunControl
    <2>1. /\ semRun' = semRun /\ control.pc \notin {"session", "waitrun"}
          /\ control'.pc \in {"session", "waitrun"} =>
                (control'.pc = "waitrun" <=> setup.rights = "one")
      BY <1>1, <1>7 DEF Control, LoadThreadIDControl, StoreThreadIDControl,
         Connect, ControlSet, sems
    <2>2. Spent' = 0 /\ Spent = 0
      BY <2>1 DEF Spent
    <2> QED BY <1>2, <1>3, <1>4, <2>1, <2>2 DEF RunInv
  <1> QED BY <1>6, <1>7

LEMMA RunStep == TypeInv /\ RunInv /\ [LNext]_<<vars, lvars>> => RunInv'
  <1> SUFFICES ASSUME TypeInv, RunInv, [LNext]_<<vars, lvars>> PROVE RunInv'
    OBVIOUS
  <1>1. setup' = setup
    BY SetupKept
  <1>2. ASSUME main' = main, semRun' = semRun, control' = control,
               worker' = worker
        PROVE  RunInv'
    BY <1>1, <1>2, RunFrame DEF WaitsForRun, RunInv, AtRun
  <1>3. CASE Next /\ UNCHANGED lvars
    <2>1. ASSUME NEW w \in Workers, ReadIdx(w) \/ LookSemaphore(w)
          PROVE  RunInv'
      BY <1>2, <2>1 DEF ReadIdx, LookSemaphore, sems
    <2> QED BY <1>1, <1>3, <2>1, RunMain, RunWorker, RunControl DEF Next
  <1>4. CASE Listener \/ \E c \in Clients : ClientThread(c)
    BY <1>2, <1>4, ListenerFrame DEF threads, sems
  <1>5. CASE UNCHANGED <<vars, lvars>>
    BY <1>2, <1>5 DEF vars, threads, sems
  <1> QED BY <1>3, <1>4, <1>5 DEF LNext

\* No worker is let through before the rights are lowered, and afterwards there
\* is a permit for each that waits, for every configuration, whatever the waits
\* of 15 seconds do: one can be missing only when all workers wait and the
\* control thread took a permit too.
THEOREM PermitForEach == Spec => []RunSignal
  <1>1. TypeInv /\ RunInv => RunSignal
    <2> SUFFICES ASSUME TypeInv, RunInv PROVE RunSignal
      OBVIOUS
    <2>1. /\ setup \in Setups /\ semRun \in Nat /\ main \in MainSet
          /\ Entries \in Nat
      BY TypeParts, Constants DEF TypeInv, StartupInv
    <2>2. \A w \in Workers : worker[w].pc = "serving" /\ WaitsForRun(w)
             => RightsLowered
      BY DEF RunInv, Through
    <2>3. ASSUME RightsLowered, ~ (main.pc = "run" /\ main.j < Entries),
                 setup.rights # "one" \/ \E w \in Workers : ~ WaitsForRun(w)
          PROVE  Cardinality(AtRun) <= semRun
      <3>1. Released = Entries /\ Spent \in {0, 1}
            /\ (setup.rights # "one" => Spent = 0)
        BY <2>1, <2>3 DEF Released, MainSet, Spent
      <3>2. /\ IsFiniteSet(AtRun) /\ IsFiniteSet(Through)
            /\ Cardinality(AtRun) \in Nat /\ Cardinality(Through) \in Nat
            /\ AtRun \cap Through = {}
        BY <2>1, WorkersFinite DEF AtRun, Through
      <3>3. Cardinality(AtRun \cup Through) =
               Cardinality(AtRun) + Cardinality(Through)
        <4>1. Cardinality(AtRun \cap Through) = 0
          BY <3>2, FS_EmptySet
        <4>2. Cardinality(AtRun \cup Through) =
                 Cardinality(AtRun) + Cardinality(Through)
                    - Cardinality(AtRun \cap Through)
          BY <3>2, FS_Union
        <4> QED BY <3>2, <4>1, <4>2
      <3>4. CASE setup.rights # "one"
        <4>1. Cardinality(AtRun \cup Through) <= Entries
          BY <2>1, WorkersFinite, FS_Subset DEF AtRun, Through
        <4> QED BY <2>1, <3>1, <3>2, <3>3, <3>4, <4>1 DEF RunInv
      <3>5. ASSUME NEW w \in Workers, ~ WaitsForRun(w)
            PROVE  Cardinality(AtRun) <= semRun
        <4>1. AtRun \cup Through \subseteq Workers \ {w}
          BY <3>5 DEF AtRun, Through, RunInv
        <4>2. IsFiniteSet(Workers \ {w}) /\ Cardinality(Workers \ {w}) = Entries - 1
          BY <2>1, WorkersFinite, FS_RemoveElement
        <4>3. Cardinality(AtRun \cup Through) <= Entries - 1
          BY <4>1, <4>2, FS_Subset
        <4> QED BY <2>1, <3>1, <3>2, <3>3, <4>3 DEF RunInv
      <3> QED BY <2>3, <3>4, <3>5
    <2> QED BY <2>2, <2>3 DEF RunSignal, AtRun
  <1> QED BY <1>1, InitType, StepType, RunInit, RunStep, PTL DEF Spec

-----------------------------------------------------------------------------
\* What is queued for the host.

\* The queue of a client that has sent the first n items of a script.
InOrder(q, script, n) ==
    LET accepted == Accepted(script, n) IN
    /\ Len(q) = Cardinality(accepted)
    /\ \A i \in accepted : q[Cardinality(accepted \cap 1 .. i)] = script[i]

\* What is still to be read of a script.
Rest(s, script) ==
    /\ Len(s) <= Len(script)
    /\ \A i \in 1 .. Len(s) : s[i] = script[Len(script) - Len(s) + i]

\* A thread that has read the first n items of a script, and has processed all
\* of them but the message it holds: it is signed on when the client is, and
\* leaves no body that it would take.
Follows(t, script, n) ==
    /\ t.status > 0 <=> Signed(script, IF t.pc = "process" THEN n - 1 ELSE n)
    /\ t.pc = "process" => n >= 1 /\ t.msg = script[n].type
    /\ t.pc # "process" /\ n \in 1 .. Len(script) - 1
          /\ script[n].type = "data" => t.status = 0

QueueInv ==
    /\ \A c \in Clients : /\ WellFormed(sent[c]) /\ Rest(stream[c], sent[c])
                          /\ InOrder(queued[c], sent[c], Taken(c))
    /\ \A c \in Clients : thread[c].fd = 0 => thread[c].status = 0
    /\ \A f \in Clients : (\A c \in Clients : thread[c].fd # f) => Taken(f) = 0
    /\ \A c, f \in Clients :
          thread[c].fd = f => Follows(thread[c], sent[f], Taken(f))

LEMMA AcceptedType ==
    ASSUME NEW script, NEW n \in Nat
    PROVE  /\ Accepted(script, n) \subseteq 2 .. n
           /\ IsFiniteSet(Accepted(script, n))
           /\ Cardinality(Accepted(script, n)) \in Nat
           /\ n = 0 => Cardinality(Accepted(script, n)) = 0
  <1>1. Accepted(script, n) \subseteq 2 .. n
    BY DEF Accepted
  <1>2. IsFiniteSet(2 .. n)
    BY FS_Interval
  <1>3. IsFiniteSet(Accepted(script, n))
    BY <1>1, <1>2, FS_Subset
  <1>4. ASSUME n = 0 PROVE Accepted(script, n) = {}
    BY <1>1, <1>4
  <1> QED BY <1>1, <1>3, <1>4, FS_CardinalityType, FS_EmptySet

\* One more item.
LEMMA AcceptedNext ==
    ASSUME NEW script, NEW n \in Nat
    PROVE  /\ IsBody(script[n + 1]) /\ script[n].type = "data"
                 /\ Signed(script, n)
              => Accepted(script, n + 1) = Accepted(script, n) \cup {n + 1}
           /\ ~ (IsBody(script[n + 1]) /\ script[n].type = "data"
                 /\ Signed(script, n))
              => Accepted(script, n + 1) = Accepted(script, n)
  <1>1. Signed(script, n) => n >= 1
    BY DEF Signed
  <1>2. \A i : i \in 2 .. n + 1 <=> i \in 2 .. n \/ (n >= 1 /\ i = n + 1)
    OBVIOUS
  <1>3. (n + 1) - 1 = n
    OBVIOUS
  <1>4. n + 1 \notin 2 .. n
    OBVIOUS
  <1> DEFINE Keep(i) == /\ IsBody(script[i]) /\ script[i - 1].type = "data"
                        /\ Signed(script, i - 1)
  <1>5. Keep(n + 1) <=> IsBody(script[n + 1]) /\ script[n].type = "data"
                           /\ Signed(script, n)
    BY <1>3
  <1>6. \A m : Accepted(script, m) = {i \in 2 .. m : Keep(i)}
    BY DEF Accepted
  <1>7. Keep(n + 1) => n >= 1
    BY <1>1, <1>5
  <1> HIDE DEF Keep
  <1>8. CASE Keep(n + 1)
    <2>1. \A i : i \in Accepted(script, n + 1) <=>
                   i \in Accepted(script, n) \cup {n + 1}
      BY <1>2, <1>6, <1>7, <1>8
    <2> QED BY <1>5, <1>8, <2>1
  <1>9. CASE ~ Keep(n + 1)
    <2>1. \A i : i \in Accepted(script, n + 1) <=> i \in Accepted(script, n)
      BY <1>2, <1>6, <1>9
    <2> QED BY <1>5, <1>6, <1>9, <2>1
  <1> QED BY <1>8, <1>9

LEMMA InOrderAppend ==
    ASSUME NEW script, NEW n \in Nat, NEW S, NEW q \in Seq(S),
           script[n + 1] \in S, InOrder(q, script, n),
           IsBody(script[n + 1]), script[n].type = "data", Signed(script, n)
    PROVE  InOrder(Append(q, script[n + 1]), script, n + 1)
  <1> DEFINE A == Accepted(script, n)
  <1> DEFINE B == Accepted(script, n + 1)
  <1> DEFINE r == Append(q, script[n + 1])
  <1>1. B = A \cup {n + 1}
    BY AcceptedNext
  <1>2. A \subseteq 2 .. n /\ IsFiniteSet(A) /\ Cardinality(A) \in Nat
    BY AcceptedType
  <1>3. n + 1 \notin A
    BY <1>2
  <1>4. Cardinality(B) = Cardinality(A) + 1
    BY <1>1, <1>2, <1>3, FS_AddElement
  <1>5. Len(q) = Cardinality(A)
        /\ \A i \in A : q[Cardinality(A \cap 1 .. i)] = script[i]
    BY DEF InOrder
  <1>6. /\ Len(r) = Len(q) + 1 /\ r[Len(q) + 1] = script[n + 1]
        /\ \A k \in 1 .. Len(q) : r[k] = q[k]
    BY AppendProperties
  <1>7. ASSUME NEW i \in A
        PROVE  r[Cardinality(B \cap 1 .. i)] = script[i]
    <2>1. i \in 2 .. n
      BY <1>2
    <2>2. B \cap 1 .. i = A \cap 1 .. i
      <3>1. n + 1 \notin 1 .. i
        BY <2>1
      <3> HIDE DEF A, B
      <3> QED BY <1>1, <3>1
    <2> DEFINE C == A \cap 1 .. i
    <2>3. C \subseteq A /\ i \in C
      BY <2>1
    <2>4. IsFiniteSet(C) /\ Cardinality(C) <= Cardinality(A)
      BY <1>2, <2>3, FS_Subset
    <2>5. Cardinality(C) \in Nat /\ Cardinality(C) # 0
      BY <2>3, <2>4, FS_CardinalityType, FS_EmptySet
    <2>6. Cardinality(C) \in 1 .. Len(q)
      <3> HIDE DEF A, C
      <3> QED BY <1>2, <1>5, <2>4, <2>5
    <2> QED BY <1>5, <1>6, <2>2, <2>6
  <1>8. r[Cardinality(B \cap 1 .. n + 1)] = script[n + 1]
    <2>1. B \cap 1 .. n + 1 = B
      BY <1>1, <1>2
    <2> QED BY <1>4, <1>5, <1>6, <2>1
  <1>9. \A i \in B : r[Cardinality(B \cap 1 .. i)] = script[i]
    <2> HIDE DEF A, B, r
    <2> QED BY <1>1, <1>7, <1>8
  <1>10. Len(r) = Cardinality(B)
    <2> HIDE DEF A, B, r
    <2> QED BY <1>4, <1>5, <1>6
  <1> QED BY <1>9, <1>10 DEF InOrder

LEMMA InOrderSkip ==
    ASSUME NEW script, NEW n \in Nat, NEW q, InOrder(q, script, n),
           ~ (IsBody(script[n + 1]) /\ script[n].type = "data"
              /\ Signed(script, n))
    PROVE  InOrder(q, script, n + 1)
  BY AcceptedNext DEF InOrder

LEMMA SignedNext ==
    ASSUME NEW script, NEW n \in Nat
    PROVE  /\ ~ Signed(script, 0)
           /\ Signed(script, n + 1) <=>
                Signed(script, n)
                \/ script[n + 1].type \in {"signon", "signonAck"}
  <1>1. 1 .. n + 1 = (1 .. n) \cup {n + 1}
    OBVIOUS
  <1> QED BY <1>1 DEF Signed

\* The first item that is left of a script.
LEMMA RestHead ==
    ASSUME NEW script \in Seq(Items), NEW s \in Seq(Items), Rest(s, script)
    PROVE  LET n == Len(script) - Len(s) IN
           /\ n \in 0 .. Len(script)
           /\ s = <<>> <=> n = Len(script)
           /\ s # <<>> =>
                 /\ n + 1 \in 1 .. Len(script) /\ Head(s) = script[n + 1]
                 /\ script[n + 1] \in Items
                 /\ Tail(s) \in Seq(Items) /\ Rest(Tail(s), script)
                 /\ Len(script) - Len(Tail(s)) = n + 1
  <1> DEFINE n == Len(script) - Len(s)
  <1>n. n = Len(script) - Len(s)
    OBVIOUS
  <1> HIDE DEF n
  <1>1. /\ Len(s) \in Nat /\ Len(script) \in Nat /\ Len(s) <= Len(script)
        /\ s = <<>> <=> Len(s) = 0
    BY DEF Rest
  <1>2. ASSUME s # <<>>
        PROVE  /\ n + 1 \in 1 .. Len(script) /\ Head(s) = script[n + 1]
               /\ script[n + 1] \in Items
               /\ Tail(s) \in Seq(Items) /\ Rest(Tail(s), script)
               /\ Len(script) - Len(Tail(s)) = n + 1
    <2>1. /\ Head(s) = s[1] /\ Tail(s) \in Seq(Items)
          /\ Len(Tail(s)) = Len(s) - 1
          /\ \A i \in 1 .. Len(Tail(s)) : Tail(s)[i] = s[i + 1]
      BY <1>2, HeadTailProperties
    <2>2. n + 1 \in 1 .. Len(script) /\ 1 \in 1 .. Len(s)
      BY <1>n, <1>1, <1>2
    <2>3. Head(s) = script[n + 1] /\ script[n + 1] \in Items
      BY <2>1, <2>2, ElementOfSeq, <1>n DEF Rest
    <2> DEFINE t == Tail(s)
    <2>4. ASSUME NEW i \in 1 .. Len(t)
          PROVE  t[i] = script[Len(script) - Len(t) + i]
      <3>1. /\ i + 1 \in 1 .. Len(s)
            /\ Len(script) - Len(s) + (i + 1) = Len(script) - Len(t) + i
        BY <1>n, <1>1, <2>1
      <3> QED BY <2>1, <3>1 DEF Rest
    <2>5. Len(t) <= Len(script) /\ Len(script) - Len(t) = n + 1
      BY <1>n, <1>1, <2>1
    <2> HIDE DEF t
    <2>6. Rest(t, script)
      BY <2>4, <2>5 DEF Rest
    <2> QED BY <2>1, <2>2, <2>3, <2>5, <2>6 DEF t
  <1>3. n \in 0 .. Len(script) /\ (s = <<>> <=> n = Len(script))
    BY <1>n, <1>1
  <1> QED BY <1>2, <1>3 DEF n

LEMMA QueueInit == LInit => QueueInv
  <1> SUFFICES ASSUME LInit PROVE QueueInv
    OBVIOUS
  <1>1. ASSUME NEW c \in Clients
        PROVE  /\ thread[c].fd = 0 /\ thread[c].status = 0
               /\ sent[c] = <<>> /\ stream[c] = <<>> /\ queued[c] = <<>>
               /\ Taken(c) = 0
    BY DEF LInit, NewThread, Taken
  <1>2. Cardinality(Accepted(<<>>, 0)) = 0 /\ Accepted(<<>>, 0) \subseteq 2 .. 0
    BY AcceptedType
  <1>3. InOrder(<<>>, <<>>, 0)
    BY <1>2 DEF InOrder
  <1>4. WellFormed(<<>>) /\ Rest(<<>>, <<>>)
    BY DEF WellFormed, Rest
  <1>5. 0 \notin Clients
    BY ListenerAssumption DEF Clients
  <1>6. \A c \in Clients : Taken(c) = 0
    BY <1>1
  <1> QED BY <1>1, <1>3, <1>4, <1>5, <1>6 DEF QueueInv

\* A step of the thread that serves client f, after which it follows f's script
\* and the queue of f is in order.
LEMMA QueueByThread ==
    ASSUME TypeInv, ServeInv, QueueInv, NEW c \in Clients, NEW f \in Clients,
           sent' = sent, thread'[c].fd = f,
           \A d \in Clients \ {c} :
               thread'[d] = thread[d] /\ thread[d].fd # f,
           \A g \in Clients \ {f} :
               stream'[g] = stream[g] /\ queued'[g] = queued[g],
           thread[c].fd \in {0, f},
           Rest(stream[f], sent[f])', InOrder(queued[f], sent[f], Taken(f))',
           Follows(thread'[c], sent[f], Taken(f)')
    PROVE  QueueInv'
  <1>1. \A g \in Clients \ {f} : Taken(g)' = Taken(g)
    BY DEF Taken
  <1>2. f # 0
    BY ListenerAssumption DEF Clients
  <1>3. ASSUME NEW g \in Clients
        PROVE  /\ WellFormed(sent[g])' /\ Rest(stream[g], sent[g])'
               /\ InOrder(queued[g], sent[g], Taken(g))'
    <2>1. CASE g = f
      BY <2>1 DEF QueueInv
    <2>2. CASE g # f
      BY <1>1, <2>2 DEF QueueInv
    <2> QED BY <2>1, <2>2
  <1>4. ASSUME NEW d \in Clients, thread'[d].fd = 0
        PROVE  thread'[d].status = 0
    BY <1>2, <1>4 DEF QueueInv
  <1>5. ASSUME NEW g \in Clients, \A d \in Clients : thread'[d].fd # g
        PROVE  Taken(g)' = 0
    <2>1. g # f /\ g # 0
      BY <1>5, ListenerAssumption DEF Clients
    <2>2. \A d \in Clients : thread[d].fd # g
      BY <1>5, <2>1
    <2> QED BY <1>1, <2>1, <2>2 DEF QueueInv
  <1>6. ASSUME NEW d \in Clients, NEW g \in Clients, thread'[d].fd = g
        PROVE  Follows(thread'[d], sent'[g], Taken(g)')
    <2>1. CASE d = c
      <3>1. g = f
        BY <1>6, <2>1
      <3> QED BY <2>1, <3>1
    <2>2. CASE d # c
      <3>1. thread'[d] = thread[d] /\ g # f
        BY <1>6, <2>2
      <3>2. Taken(g)' = Taken(g)
        BY <1>1, <3>1
      <3> QED BY <1>6, <3>1, <3>2 DEF QueueInv
    <2> QED BY <2>1, <2>2
  <1> QED BY <1>3, <1>4, <1>5, <1>6 DEF QueueInv

LEMMA QueueByClient ==
    ASSUME TypeInv, ServeInv, QueueInv, NEW c \in Clients, ClientThread(c)
    PROVE  QueueInv'
  <1>1. /\ clientFDs \in Seq(Clients) /\ thread \in [Clients -> ThreadSet]
        /\ sent \in [Clients -> Seq(Items)]
        /\ stream \in [Clients -> Seq(Items)]
        /\ queued \in [Clients -> Seq(Items)]
    BY SMTT(30), ListenerParts DEF TypeInv
  <1>2. Served(c)
    BY SMTT(30) DEF TypeInv
  <1>3. sent' = sent
    BY DEF ClientThread, LoadThreadIDClient, StoreThreadIDClient, GetClientFD,
       ReadClient, ProcessLocalMsg, SendAck, SendSignonAck, EndClient
  <1>0. 0 \notin Clients
    BY ListenerAssumption DEF Clients
  <1>4. ASSUME stream' = stream, queued' = queued,
               \A d \in Clients : thread'[d].fd = thread[d].fd
                   /\ thread'[d].status = thread[d].status,
               thread[c].fd = 0, \A d \in Clients \ {c} : thread'[d] = thread[d]
        PROVE  QueueInv'
    <2>1. \A g \in Clients : Taken(g)' = Taken(g)
      BY <1>3, <1>4 DEF Taken
    <2>2. ASSUME NEW d \in Clients, NEW g \in Clients, thread'[d].fd = g
          PROVE  Follows(thread'[d], sent'[g], Taken(g)')
      <3>1. d # c
        BY <1>0, <1>4, <2>2
      <3>2. thread'[d] = thread[d] /\ thread[d].fd = g
        BY <1>4, <2>2, <3>1
      <3> QED BY <1>3, <2>1, <3>2 DEF QueueInv
    <2> QED BY <1>3, <1>4, <2>1, <2>2 DEF QueueInv
  <1>5. CASE LoadThreadIDClient(c) \/ StoreThreadIDClient(c)
    <2>1. /\ stream' = stream /\ queued' = queued /\ thread[c].fd = 0
      BY <1>2, <1>5 DEF LoadThreadIDClient, StoreThreadIDClient, Served, Serves
    <2>2. /\ thread'[c].fd = thread[c].fd
          /\ thread'[c].status = thread[c].status
          /\ \A d \in Clients \ {c} : thread'[d] = thread[d]
      BY <1>1, <1>5 DEF LoadThreadIDClient, StoreThreadIDClient, ThreadSet
    <2>3. \A d \in Clients : thread'[d].fd = thread[d].fd
             /\ thread'[d].status = thread[d].status
      BY <2>2
    <2> QED BY <1>4, <2>1, <2>2, <2>3
  <1>6. CASE GetClientFD(c) /\ clientFDs = <<>>
    <2>1. /\ stream' = stream /\ queued' = queued /\ thread[c].fd = 0
      BY <1>2, <1>6 DEF GetClientFD, Served, Serves
    <2>2. /\ thread'[c].fd = thread[c].fd
          /\ thread'[c].status = thread[c].status
          /\ \A d \in Clients \ {c} : thread'[d] = thread[d]
      BY <1>1, <1>6 DEF GetClientFD, ThreadSet
    <2>3. \A d \in Clients : thread'[d].fd = thread[d].fd
             /\ thread'[d].status = thread[d].status
      BY <2>2
    <2> QED BY <1>4, <2>1, <2>2, <2>3
  <1>7. CASE GetClientFD(c) /\ clientFDs # <<>>
    <2> DEFINE k == Len(clientFDs)
    <2>0. k \in DOMAIN clientFDs /\ clientFDs[k] \in Clients
      BY <1>1, <1>7, ElementOfSeq
    <2>1. PICK f \in Clients : f = clientFDs[k]
      BY <2>0
    <2>2. \A d \in Clients : thread[d].fd # f
      BY <2>0, <2>1 DEF ServeInv, ServedOnce
    <2>3. /\ thread' = [thread EXCEPT ![c].pc = "read", ![c].fd = f]
          /\ stream' = stream /\ queued' = queued /\ thread[c].fd = 0
      BY <1>2, <1>7, <2>1 DEF GetClientFD, Last, Served, Serves
    <2>4. /\ thread'[c].fd = f /\ thread'[c].pc = "read"
          /\ thread'[c].status = thread[c].status
          /\ \A d \in Clients \ {c} : thread'[d] = thread[d]
      BY <1>1, <2>3 DEF ThreadSet
    <2>5. Taken(f) = 0 /\ Taken(f)' = 0 /\ thread[c].status = 0
      BY <1>3, <2>1, <2>2, <2>3 DEF QueueInv, Taken
    <2>6. Follows(thread'[c], sent[f], 0)
      <3>1. ~ Signed(sent[f], 0) /\ 0 \notin 1 .. Len(sent[f]) - 1
        BY SignedNext
      <3>2. ~ (thread'[c].status > 0) /\ thread'[c].pc # "process"
        BY <2>4, <2>5
      <3> QED BY <3>1, <3>2 DEF Follows
    <2>7. /\ Rest(stream[f], sent[f])' /\ InOrder(queued[f], sent[f], Taken(f))'
      BY <1>3, <2>1, <2>3, <2>5 DEF QueueInv
    <2>8. Follows(thread'[c], sent[f], Taken(f)')
      BY <2>5, <2>6
    <2>9. \A g \in Clients \ {f} :
             stream'[g] = stream[g] /\ queued'[g] = queued[g]
      BY <2>3
    <2>10. /\ thread'[c].fd = f /\ thread[c].fd \in {0, f}
           /\ \A d \in Clients \ {c} : thread'[d] = thread[d] /\ thread[d].fd # f
      BY <2>2, <2>3, <2>4
    <2> QED BY <1>3, <2>7, <2>8, <2>9, <2>10, QueueByThread
  <1>8. ASSUME ReadClient(c) \/ ProcessLocalMsg(c) \/ SendAck(c)
               \/ SendSignonAck(c) \/ EndClient(c)
        PROVE  QueueInv'
    <2>f. PICK f \in Clients : thread[c].fd = f
      <3>1. thread[c].fd # 0
        BY <1>2, <1>8 DEF ReadClient, ProcessLocalMsg, SendAck, SendSignonAck,
           EndClient, Served, Serves
      <3> QED BY <1>1, <3>1 DEF ThreadSet
    <2> DEFINE s == stream[f]
               script == sent[f]
               n == Taken(f)
               t == thread[c]
    <2>0. /\ t \in ThreadSet /\ script \in Seq(Items) /\ s \in Seq(Items)
          /\ queued[f] \in Seq(Items)
      BY <1>1
    <2>1. /\ WellFormed(script) /\ Rest(s, script) /\ InOrder(queued[f], script, n)
          /\ Follows(t, script, n)
      BY <2>f DEF QueueInv
    <2>2. n = Len(script) - Len(s)
      BY DEF Taken
    <2>3. /\ n \in 0 .. Len(script)
          /\ s = <<>> <=> n = Len(script)
          /\ s # <<>> =>
                /\ n + 1 \in 1 .. Len(script) /\ Head(s) = script[n + 1]
                /\ script[n + 1] \in Items
                /\ Tail(s) \in Seq(Items) /\ Rest(Tail(s), script)
                /\ Len(script) - Len(Tail(s)) = n + 1
      <3> HIDE DEF s, script, n
      <3>1. s \in Seq(Items) /\ script \in Seq(Items) /\ Rest(s, script)
        BY <2>0, <2>1
      <3> QED BY ONLY <2>2, <3>1, RestHead
    <2>4. \A d \in Clients \ {c} : thread[d].fd # f
      BY <1>0, <2>f DEF ServeInv, ServedOnce
    <2>5. /\ thread'[c].fd = f
          /\ \A d \in Clients \ {c} : thread'[d] = thread[d]
          /\ \A g \in Clients \ {f} :
                stream'[g] = stream[g] /\ queued'[g] = queued[g]
      BY SMTT(30), <1>1, <1>8, <2>f DEF ReadClient, ProcessLocalMsg, SendAck,
         SendSignonAck, EndClient, ThreadSet
    <2>6. Taken(f)' = Len(script) - Len(stream'[f])
      BY <1>3 DEF Taken
    <2> HIDE DEF s, script, n, t
    <2>7. ASSUME Rest(stream'[f], script), InOrder(queued'[f], script, Taken(f)'),
                 Follows(thread'[c], script, Taken(f)')
          PROVE  QueueInv'
      BY <1>3, <2>f, <2>4, <2>5, <2>7, QueueByThread DEF script
    <2>8. ASSUME stream'[f] = s, queued'[f] = queued[f],
                 thread'[c].status = t.status,
                 t.pc # "process", thread'[c].pc # "process"
          PROVE  QueueInv'
      <3>1. Taken(f)' = n
        BY <2>0, <2>2, <2>6, <2>8
      <3> QED BY <2>1, <2>7, <2>8, <3>1 DEF Follows
    <2>9. CASE SendAck(c) \/ SendSignonAck(c) \/ EndClient(c)
      <3>1. /\ stream' = stream /\ queued' = queued
            /\ thread'[c].status = t.status
            /\ t.pc # "process" /\ thread'[c].pc # "process"
        BY <1>1, <2>9 DEF SendAck, SendSignonAck, EndClient, ThreadSet, t
      <3> QED BY <2>8, <3>1 DEF s
    <2>10. CASE ReadClient(c) /\ s = <<>>
      <3>1. /\ stream' = stream /\ queued' = queued
            /\ thread'[c].status = t.status
            /\ t.pc # "process" /\ thread'[c].pc # "process"
        BY <1>1, <2>f, <2>10 DEF ReadClient, BadRead, ThreadSet, t, s
      <3> QED BY <2>8, <3>1 DEF s
    <2>11. CASE ReadClient(c) /\ s # <<>>
      <3>1. /\ stream'[f] = Tail(s) /\ queued'[f] = queued[f] /\ t.pc = "read"
            /\ thread'[c].status = t.status
            /\ IF Head(s).type \in {"pass", "body"} THEN thread'[c].pc = "read"
               ELSE thread'[c].pc = "process" /\ thread'[c].msg = Head(s).type
        BY <1>1, <2>f, <2>11 DEF ReadClient, ThreadSet, t, s
      <3>2. Taken(f)' = n + 1 /\ Rest(stream'[f], script) /\ n \in Nat
        <4>1. Len(script) - Len(Tail(s)) = n + 1 /\ Rest(Tail(s), script)
          BY <2>3, <2>11
        <4>2. n \in Nat
          BY <2>0, <2>3
        <4> QED BY <2>6, <3>1, <4>1, <4>2
      <3>3. InOrder(queued'[f], script, n + 1)
        <4>1. ~ (IsBody(script[n + 1]) /\ script[n].type = "data"
                 /\ Signed(script, n))
          <5>1. n = 0 => ~ Signed(script, n)
            BY SignedNext
          <5>2. n < Len(script)
            BY <2>3, <2>11
          <5>3. Signed(script, n) => t.status # 0
            BY <2>0, <2>1, <3>1 DEF Follows, ThreadSet
          <5> QED BY <2>1, <2>3, <3>1, <3>2, <5>1, <5>2, <5>3 DEF Follows
        <4> QED BY <2>1, <3>1, <3>2, <4>1, InOrderSkip
      <3>4. Follows(thread'[c], script, n + 1)
        <4>1. Head(s) = script[n + 1]
          BY <2>3, <2>11
        <4>2. Signed(script, n) <=> t.status > 0
          BY <2>1, <3>1 DEF Follows
        <4>3. Signed(script, n + 1) <=>
                Signed(script, n)
                \/ script[n + 1].type \in {"signon", "signonAck"}
          BY <3>2, SignedNext
        <4>4. n + 1 >= 1 /\ (n + 1) - 1 = n
          BY <3>2
        <4> QED BY <3>1, <4>1, <4>2, <4>3, <4>4 DEF Follows
      <3> QED BY <2>7, <3>1, <3>2, <3>3, <3>4
    <2>12. CASE ProcessLocalMsg(c)
      <3>1. /\ t.pc = "process" /\ thread'[c].pc \in {"signonack", "ack"}
            /\ thread'[c].status = CASE t.msg = "signon" -> 1
                                     [] t.msg = "signonAck" -> 2
                                     [] OTHER -> t.status
            /\ IF t.status > 0 /\ t.msg = "data" /\ s # <<>>
               THEN /\ stream'[f] = Tail(s)
                    /\ queued'[f] = Append(queued[f], Head(s))
               ELSE stream'[f] = s /\ queued'[f] = queued[f]
        BY <1>1, <2>f, <2>12 DEF ProcessLocalMsg, Takes, ThreadSet, t, s
      <3>2. /\ n \in Nat /\ n >= 1 /\ t.msg = script[n].type
            /\ t.status > 0 <=> Signed(script, n - 1)
        BY <2>1, <2>3, <3>1 DEF Follows
      <3>3. Signed(script, n) <=>
                Signed(script, n - 1)
                \/ script[n].type \in {"signon", "signonAck"}
        <4>1. n - 1 \in Nat /\ (n - 1) + 1 = n
          BY <3>2
        <4> QED BY <4>1, SignedNext
      <3>4. thread'[c].status > 0 <=> Signed(script, n)
        BY <2>0, <3>1, <3>2, <3>3
      <3>5. CASE t.status > 0 /\ t.msg = "data" /\ s # <<>>
        <4>1. /\ Taken(f)' = n + 1 /\ Rest(stream'[f], script)
              /\ script[n + 1] \in Items /\ Head(s) = script[n + 1]
          BY <2>3, <2>6, <3>1, <3>5
        <4>2. IsBody(script[n + 1])
          <5>1. n \in 1 .. Len(script) - 1
            BY <2>3, <3>2, <3>5
          <5> QED BY <2>1, <3>2, <3>5, <5>1 DEF WellFormed
        <4>3. script[n].type = "data" /\ Signed(script, n)
          BY <3>2, <3>3, <3>5
        <4>4. InOrder(queued'[f], script, n + 1)
          BY <2>0, <2>1, <3>1, <3>2, <3>5, <4>1, <4>2, <4>3, InOrderAppend
        <4>5. Signed(script, n + 1)
          BY <3>2, <4>3, SignedNext
        <4>6. Follows(thread'[c], script, n + 1)
          BY <3>1, <3>4, <4>2, <4>3, <4>5 DEF Follows, IsBody
        <4> QED BY <2>7, <4>1, <4>4, <4>6
      <3>6. CASE ~ (t.status > 0 /\ t.msg = "data" /\ s # <<>>)
        <4>1. Taken(f)' = n /\ Rest(stream'[f], script)
              /\ InOrder(queued'[f], script, n)
          BY <2>0, <2>1, <2>2, <2>6, <3>1, <3>6
        <4>2. n \in 1 .. Len(script) - 1 /\ script[n].type = "data"
                 => thread'[c].status = 0
          <5>1. n \in 1 .. Len(script) - 1 => s # <<>>
            BY <2>3
          <5>2. t.status \in 0 .. 2
            BY <2>0 DEF ThreadSet
          <5> QED BY <3>1, <3>2, <3>6, <5>1, <5>2
        <4>3. Follows(thread'[c], script, n)
          BY <3>1, <3>4, <4>2 DEF Follows
        <4> QED BY <2>7, <4>1, <4>3
      <3> QED BY <3>5, <3>6
    <2> QED BY <1>8, <2>9, <2>10, <2>11, <2>12
  <1> QED BY <1>5, <1>6, <1>7, <1>8 DEF ClientThread

LEMMA QueueStep ==
    TypeInv /\ ServeInv /\ QueueInv /\ [LNext]_<<vars, lvars>> => QueueInv'
  <1> SUFFICES ASSUME TypeInv, ServeInv, QueueInv, [LNext]_<<vars, lvars>>
               PROVE  QueueInv'
    OBVIOUS
  <1>1. /\ thread \in [Clients -> ThreadSet] /\ listener \in ListenerSet
        /\ sent \in [Clients -> Seq(Items)] /\ stream \in [Clients -> Seq(Items)]
        /\ queued \in [Clients -> Seq(Items)]
    BY ListenerParts DEF TypeInv
  <1>2. ASSUME UNCHANGED <<sent, stream, queued>>,
               \A c \in Clients :
                   /\ thread'[c].fd = thread[c].fd
                   /\ thread'[c].status = thread[c].status
                   /\ thread[c].fd # 0 => thread'[c] = thread[c]
        PROVE  QueueInv'
    <2>1. \A g \in Clients : Taken(g)' = Taken(g)
      BY <1>2 DEF Taken
    <2>2. ASSUME NEW d \in Clients, NEW g \in Clients, thread'[d].fd = g
          PROVE  Follows(thread'[d], sent'[g], Taken(g)')
      <3>1. thread[d].fd = g /\ g # 0
        BY <1>2, <2>2, ListenerAssumption DEF Clients
      <3>2. thread'[d] = thread[d]
        BY <1>2, <3>1
      <3> QED BY <1>2, <2>1, <3>1, <3>2 DEF QueueInv
    <2> QED BY <1>2, <2>1, <2>2 DEF QueueInv
  <1>3. CASE UNCHANGED lvars
    BY <1>2, <1>3 DEF lvars
  <1>4. CASE LoadThreadIDListener \/ StoreThreadIDListener
    BY <1>2, <1>4 DEF LoadThreadIDListener, StoreThreadIDListener
  <1>5. CASE StartClientThread
    <2>1. /\ UNCHANGED <<sent, stream, queued>> /\ listener.pc = "create"
          /\ \/ thread' = thread
             \/ thread' = [thread EXCEPT ![listener.accepted].pc = "new"]
      BY <1>5 DEF StartClientThread
    <2>2. /\ listener.accepted \in Clients
          /\ thread[listener.accepted].pc = "none"
      BY <2>1 DEF TypeInv, Unspawned
    <2>3. thread[listener.accepted].fd = 0
      BY <2>2 DEF TypeInv, Served, Serves
    <2>4. PICK a \in Clients : a = listener.accepted
      BY <2>2
    <2>5. /\ thread'[a].fd = thread[a].fd
          /\ thread'[a].status = thread[a].status
          /\ \A c \in Clients \ {a} : thread'[c] = thread[c]
      BY ZenonT(30), <1>1, <2>1, <2>4 DEF ThreadSet
    <2>6. \A c \in Clients : /\ thread'[c].fd = thread[c].fd
                             /\ thread'[c].status = thread[c].status
                             /\ thread[c].fd # 0 => thread'[c] = thread[c]
      BY <2>3, <2>4, <2>5
    <2> QED BY <1>2, <2>1, <2>6
  <1>6. CASE Accept
    <2>0. PICK new \in Clients : new = listener.accepted + 1
      BY <1>6 DEF Accept
    <2>1. PICK script \in Scripts :
             /\ sent' = [sent EXCEPT ![new] = script]
             /\ stream' = [stream EXCEPT ![new] = script]
      BY <1>6, <2>0 DEF Accept
    <2>2. thread' = thread /\ queued' = queued
      BY <1>6 DEF Accept
    <2>3. \A c \in Clients : thread[c].fd # new
      <3>1. listener.accepted \in Nat
        BY <1>1, ListenerAssumption DEF ListenerSet, Clients
      <3>2. \A c \in Clients : thread[c].fd \in Nat
        BY <1>1, ListenerAssumption DEF ThreadSet, Clients
      <3> QED BY <2>0, <3>1, <3>2 DEF ServeInv
    <2>4. Taken(new) = 0 /\ InOrder(queued[new], sent[new], 0)
      BY <2>2, <2>3 DEF QueueInv
    <2>5. Len(queued[new]) = 0
      BY <2>4, AcceptedType DEF InOrder
    <2>6. script \in Seq(Items) /\ WellFormed(script)
      BY ListenerAssumption
    <2>7. /\ sent'[new] = script /\ stream'[new] = script /\ Taken(new)' = 0
          /\ \A g \in Clients \ {new} : sent'[g] = sent[g]
                /\ stream'[g] = stream[g] /\ Taken(g)' = Taken(g)
      BY <1>1, <2>1, <2>2, <2>6 DEF Taken
    <2>8. Rest(script, script)
      BY <2>6 DEF Rest
    <2>9. InOrder(queued[new], script, 0)
      BY <2>5, AcceptedType DEF InOrder
    <2>10. ASSUME NEW g \in Clients
           PROVE  /\ WellFormed(sent[g])' /\ Rest(stream[g], sent[g])'
                  /\ InOrder(queued[g], sent[g], Taken(g))'
      <3>1. CASE g = new
        BY <2>2, <2>6, <2>7, <2>8, <2>9, <3>1
      <3>2. CASE g # new
        BY <2>2, <2>7, <3>2 DEF QueueInv
      <3> QED BY <3>1, <3>2
    <2>11. ASSUME NEW g \in Clients, \A c \in Clients : thread[c].fd # g
           PROVE  Taken(g)' = 0
      BY <2>7, <2>11 DEF QueueInv
    <2>12. ASSUME NEW d \in Clients, NEW g \in Clients, thread[d].fd = g
           PROVE  Follows(thread[d], sent'[g], Taken(g)')
      <3>1. g # new
        BY <2>3, <2>12
      <3> QED BY <2>7, <2>12, <3>1 DEF QueueInv
    <2> QED BY <2>2, <2>10, <2>11, <2>12 DEF QueueInv
  <1>7. CASE UNCHANGED <<vars, lvars>>
    BY <1>3, <1>7
  <1> QED BY <1>3, <1>4, <1>5, <1>6, <1>7, QueueByClient DEF LNext, Listener

\* Of each client, whatever it sends, the bodies sent after it signed on are
\* queued for the host, in their order and each once, and nothing else: for
\* any number of clients and all their scripts, although any thread may pop
\* any descriptor.
THEOREM BodiesQueuedInOrder == Spec => []QueuedInOrder
  <1>1. QueueInv => QueuedInOrder
    BY DEF QueueInv, InOrder, QueuedInOrder
  <1>2. TypeInv /\ ServeInv /\ QueueInv /\ [LNext]_<<vars, lvars>>
           => (TypeInv /\ ServeInv /\ QueueInv)'
    BY StepType, ServeStep, QueueStep
  <1> QED BY <1>1, <1>2, InitType, ServeInit, QueueInit, PTL DEF Spec

-----------------------------------------------------------------------------
\* The entries of the configuration.

Ended == {"exited", "waitrun", "serving", "early"}
Searching == {"scan", "lock", "get", "unlock", "name"}

\* A worker that will take no step any more but GetRun: it is past semInitID,
\* or at a mutex whose holder waits for the locked dssMutex.
Parked(w) ==
    \/ worker[w].pc \in Ended
    \/ /\ dssLocked /\ worker[w].pc \in {"get", "lock"}
       /\ controlMutex # 0 /\ worker[controlMutex].pc = "get"

\* The worker that the main thread waits for.
Awaited(w) == main.pc = "wait" /\ w = main.j

\* Without a hurried wait, no worker but the awaited one is under way, the
\* permit of semInitID is from that one, and _threadID is its own: it is above
\* every entry found before.
OneAtATime ==
    /\ \A w \in Workers : ~ Awaited(w) =>
          \/ Parked(w)
          \/ main.pc \in {"start", "wait"} /\ w > main.j
    /\ main.pc = "start" => semInit = 0
    /\ main.pc = "wait" /\ semInit # 0 =>
          semInit = 1 /\ worker[main.j].pc \in Ended
    /\ main.pc \in {"start", "wait"} =>
          \A w \in Workers : worker[w].entry <= threadID
    /\ \A w \in Workers : Awaited(w) =>
          /\ worker[w].pc = "store" => worker[w].reg = threadID
          /\ worker[w].pc \in Searching =>
                /\ worker[w].entry \in {0, threadID}
                /\ \A v \in Workers \ {w} : worker[v].entry < threadID
    /\ \A v, w \in Workers :
          v # w /\ worker[v].entry = worker[w].entry => worker[v].entry = 0

\* Who holds controlMutex; where a worker has no entry; that no other thread is
\* there before the workers are; and which worker the main thread waits for.
EntryInv ==
    /\ \A w \in Workers :
          worker[w].pc \in {"get", "unlock"} <=> controlMutex = w
    /\ \A w \in Workers :
          worker[w].pc \in {"none", "new", "store"} => worker[w].entry = 0
    /\ main.pc \in {"start", "wait", "run"} => control.pc = "none"
    /\ main.pc # "running" => listener.pc = "none" /\ listener.accepted = 0
    /\ main.pc = "wait" => main.j # 0
    /\ hurries = 0 => OneAtATime

LEMMA EntryInit == LInit => EntryInv
  <1> SUFFICES ASSUME LInit PROVE EntryInv
    OBVIOUS
  <1>1. /\ main.pc = "start" /\ main.j = 0 /\ semInit = 0 /\ controlMutex = 0
        /\ control.pc = "none" /\ threadID = 0
        /\ listener.pc = "none" /\ listener.accepted = 0
        /\ \A w \in Workers : worker[w].pc = "none" /\ worker[w].entry = 0
    BY DEF LInit, Init, NewWorker
  <1>2. \A w \in Workers : w > 0
    <2>1. Entries \in Nat
      BY Constants DEF LInit, Init
    <2> QED BY <2>1 DEF Workers
  <1>3. OneAtATime
    BY <1>1, <1>2 DEF OneAtATime, Awaited
  <1>4. \A w \in Workers : controlMutex # w
    BY <1>1, <1>2
  <1> QED BY <1>1, <1>3, <1>4 DEF EntryInv

\* A step that only threads take that are started later than the workers.
LEMMA EntryFrame ==
    ASSUME EntryInv, setup' = setup, main' = main, worker' = worker,
           controlMutex' = controlMutex, dssLocked' = dssLocked,
           hurries' = hurries,
           main.pc \in {"start", "wait"} =>
               threadID' = threadID /\ semInit' = semInit,
           main.pc \in {"start", "wait", "run"} => control'.pc = "none",
           main.pc # "running" => listener'.pc = "none" /\ listener'.accepted = 0
    PROVE  EntryInv'
  <1>1. Workers' = Workers
    BY DEF Workers, Entries
  <1>2. \A w \in Workers : (Parked(w)' <=> Parked(w))
                           /\ (Awaited(w)' <=> Awaited(w))
    BY DEF Parked, Awaited
  <1>3. ASSUME OneAtATime PROVE OneAtATime'
    <2>1. \A w \in Workers : Awaited(w) => threadID' = threadID
      BY DEF Awaited
    <2> QED BY <1>1, <1>2, <1>3, <2>1 DEF OneAtATime
  <1> QED BY <1>1, <1>3 DEF EntryInv

\* Once parked, a worker stays so, whatever the others do.
LEMMA ParkedStays ==
    ASSUME TypeInv, EntryInv, NEW w \in Workers, Worker(w),
           NEW v \in Workers, Parked(v)
    PROVE  Parked(v)'
  <1>1. worker \in [Workers -> WorkerSet] /\ controlMutex \in 0 .. Entries
        /\ Entries \in Nat /\ Workers = 1 .. Entries
    BY TypeParts, Constants DEF TypeInv, StartupInv, AllocTyped
  <1>2. \A u \in Workers \ {w} : worker'[u] = worker[u]
    BY <1>1 DEF Worker, LoadThreadID, StoreThreadID, Scan, Parsed, LockControl,
       GetUserSemaphore, UnlockControl, SetLocalidSem, Launch, GetRun
  <1>3. CASE worker[v].pc \in Ended
    <2>1. CASE v = w
      <3>1. GetRun(w)
        BY <1>3, <2>1 DEF Ended, Worker, LoadThreadID, StoreThreadID, Scan,
           Parsed, LockControl, GetUserSemaphore, UnlockControl, SetLocalidSem,
           Launch
      <3>2. worker'[w].pc \in Ended
        BY <1>1, <3>1 DEF GetRun, WorkerSet, Ended
      <3> QED BY <2>1, <3>2 DEF Parked
    <2>2. CASE v # w
      BY <1>2, <1>3, <2>2 DEF Parked
    <2> QED BY <2>1, <2>2
  <1>4. CASE worker[v].pc \notin Ended
    <2>1. /\ dssLocked /\ worker[v].pc \in {"get", "lock"}
          /\ controlMutex # 0 /\ worker[controlMutex].pc = "get"
      BY <1>4 DEF Parked
    <2>2. /\ ~ GetUserSemaphore(w) /\ ~ LockControl(w) /\ v \in Workers
          /\ controlMutex \in Workers
      BY <1>1, <2>1 DEF GetUserSemaphore, LockControl
    <2>3. ~ UnlockControl(w)
      <3>1. worker[w].pc = "unlock" => controlMutex = w
        BY DEF EntryInv
      <3> QED BY <2>1, <3>1 DEF UnlockControl
    <2>4. worker[w].pc \notin {"get", "lock"} /\ dssLocked' = dssLocked
          /\ controlMutex' = controlMutex
      BY <2>2, <2>3 DEF Worker, LoadThreadID, StoreThreadID, Scan, Parsed,
         SetLocalidSem, Launch, GetRun, dss
    <2>5. worker'[v] = worker[v] /\ worker'[controlMutex] = worker[controlMutex]
      BY <1>2, <2>1, <2>2, <2>4
    <2> QED BY <2>1, <2>4, <2>5 DEF Parked
  <1> QED BY <1>3, <1>4

\* It is a worker that the main thread waits for.
LEMMA MainWaits ==
    ASSUME TypeInv, EntryInv, main.pc = "wait"
    PROVE  main.j \in Workers
  <1>1. main \in MainSet /\ Entries \in Nat /\ Workers = 1 .. Entries
    BY TypeParts, Constants DEF TypeInv, StartupInv
  <1> QED BY <1>1 DEF EntryInv, MainSet

LEMMA EntryWorker ==
    ASSUME TypeInv, EntryInv, setup' = setup, NEW w \in Workers, Worker(w),
           UNCHANGED lvars
    PROVE  EntryInv'
  <1>1. /\ worker \in [Workers -> WorkerSet] /\ controlMutex \in 0 .. Entries
        /\ Entries \in Nat /\ Workers = 1 .. Entries /\ threadID \in Nat
        /\ semInit \in Nat /\ main \in MainSet
    BY TypeParts, Constants DEF TypeInv, StartupInv, AllocTyped
  <1>2. /\ main' = main /\ control' = control /\ hurries' = hurries
        /\ \A u \in Workers \ {w} : worker'[u] = worker[u]
    BY <1>1 DEF Worker, LoadThreadID, StoreThreadID, Scan, Parsed, LockControl,
       GetUserSemaphore, UnlockControl, SetLocalidSem, Launch, GetRun, threads,
       accidents
  <1>3. Workers' = Workers
    BY DEF Workers, Entries
  <1>4. \A v \in Workers :
           worker'[v].pc \in {"get", "unlock"} <=> controlMutex' = v
    <2>0. \A v \in Workers :
             worker[v].pc \in {"get", "unlock"} <=> controlMutex = v
      BY DEF EntryInv
    <2>1. CASE LockControl(w)
      <3>1. controlMutex = 0 /\ controlMutex' = w /\ worker'[w].pc = "get"
        BY <1>1, <2>1 DEF LockControl, WorkerSet
      <3> QED BY <1>1, <1>2, <2>0, <3>1
    <2>2. CASE GetUserSemaphore(w)
      <3>1. /\ worker[w].pc = "get" /\ worker'[w].pc = "unlock"
            /\ controlMutex' = controlMutex
        BY <1>1, <2>2 DEF GetUserSemaphore, WorkerSet
      <3> QED BY <1>2, <2>0, <3>1
    <2>3. CASE UnlockControl(w)
      <3>1. /\ worker[w].pc = "unlock" /\ worker'[w].pc = "name"
            /\ controlMutex' = 0
        BY <1>1, <2>3 DEF UnlockControl, WorkerSet
      <3> QED BY <1>1, <1>2, <2>0, <3>1
    <2>4. CASE ~ LockControl(w) /\ ~ GetUserSemaphore(w) /\ ~ UnlockControl(w)
      <3>1. /\ worker[w].pc \notin {"get", "unlock"}
            /\ worker'[w].pc \notin {"get", "unlock"}
            /\ controlMutex' = controlMutex
        BY <1>1, <2>4 DEF Worker, LoadThreadID, StoreThreadID, Scan, Parsed,
           SetLocalidSem, Launch, GetRun, WorkerSet
      <3> QED BY <1>2, <2>0, <3>1
    <2> QED BY <2>1, <2>2, <2>3, <2>4
  <1>n. ASSUME OneAtATime, worker[w].pc \notin Ended PROVE Awaited(w)
    <2>1. worker[w].pc # "none"
      BY DEF Worker, LoadThreadID, StoreThreadID, Scan, Parsed, LockControl,
         GetUserSemaphore, UnlockControl, SetLocalidSem, Launch, GetRun
    <2>2. ~ Parked(w)
      BY <1>n DEF Parked, Ended, Worker, LoadThreadID, StoreThreadID, Scan,
         Parsed, LockControl, GetUserSemaphore, UnlockControl, SetLocalidSem,
         Launch, GetRun
    <2>3. main.pc \in {"start", "wait"} => ~ (w > main.j)
      BY <2>1 DEF TypeInv, StartupInv, NotStarted
    <2> QED BY <1>n, <2>2, <2>3 DEF OneAtATime
  <1>p. ASSUME OneAtATime, NEW v \in Workers, ~ Awaited(v)'
        PROVE  Parked(v)' \/ (main'.pc \in {"start", "wait"} /\ v > main'.j)
    <2>1. ~ Awaited(v)
      BY <1>2, <1>p DEF Awaited
    <2>2. Parked(v) => Parked(v)'
      BY ParkedStays
    <2>3. Parked(v) \/ (main.pc \in {"start", "wait"} /\ v > main.j)
      BY <1>p, <2>1 DEF OneAtATime
    <2> QED BY <1>2, <2>2, <2>3
  <1>5. CASE StoreThreadID(w)
    <2>1. /\ worker[w].pc = "store" /\ worker'[w].pc = "scan"
          /\ worker'[w].entry = worker[w].entry
          /\ threadID' = worker[w].reg + 1 /\ semInit' = semInit
      BY <1>1, <1>5 DEF StoreThreadID, WorkerSet, sems
    <2>2. worker[w].entry = 0
      BY <2>1 DEF EntryInv
    <2>3. \A v \in Workers : worker'[v].entry = worker[v].entry
      BY <1>2, <2>1
    <2>4. ASSUME OneAtATime PROVE OneAtATime'
      <3>1. Awaited(w) /\ main.pc = "wait" /\ main.j = w
        BY <1>n, <2>1, <2>4 DEF Ended, Awaited
      <3>2. threadID' = threadID + 1
        BY <2>1, <2>4, <3>1 DEF OneAtATime
      <3>3. \A v \in Workers : worker[v].entry \in Nat
                               /\ worker[v].entry <= threadID
        BY <1>1, <2>4, <3>1 DEF OneAtATime, WorkerSet
      <3>4. \A v \in Workers : worker'[v].entry < threadID'
                               /\ worker'[v].entry <= threadID'
        BY <1>1, <2>3, <3>2, <3>3
      <3>5. \A v \in Workers : Awaited(v)' => v = w
        BY <1>2, <3>1 DEF Awaited
      <3>6. semInit' = 0
        BY <2>1, <2>4, <3>1 DEF OneAtATime, Ended
      <3> QED
        BY <1>2, <1>3, <1>p, <2>1, <2>2, <2>3, <2>4, <3>1, <3>4, <3>5, <3>6
        DEF OneAtATime, Searching
    <2>5. \A v \in Workers : worker'[v].pc \in {"none", "new", "store"} =>
             worker'[v].entry = 0
      BY <1>2, <2>1, <2>2 DEF EntryInv
    <2> QED BY <1>2, <1>3, <1>4, <2>4, <2>5 DEF EntryInv, lvars
  <1>6. CASE ~ StoreThreadID(w)
    <2>1. threadID' = threadID
      BY <1>6 DEF Worker, LoadThreadID, Scan, Parsed, LockControl,
         GetUserSemaphore, UnlockControl, SetLocalidSem, Launch, GetRun
    <2>2. \/ worker'[w].entry = worker[w].entry
          \/ worker[w].pc = "scan" /\ worker'[w].entry = threadID
      BY <1>1, <1>6 DEF Worker, LoadThreadID, Scan, Parsed, LockControl,
         GetUserSemaphore, UnlockControl, SetLocalidSem, Launch, GetRun,
         WorkerSet
    <2>3. /\ worker'[w].pc \in Searching => worker[w].pc \in Searching
          /\ worker'[w].pc \in {"none", "new", "store"} =>
                worker[w].pc = "new" /\ worker'[w].reg = threadID
      BY SMTT(30), <1>1, <1>6 DEF Worker, LoadThreadID, Scan, Parsed, LockControl,
         GetUserSemaphore, UnlockControl, SetLocalidSem, Launch, GetRun,
         WorkerSet, Searching
    <2>4. \/ semInit' = semInit
          \/ /\ semInit' = semInit + 1 /\ worker[w].pc = "library"
             /\ worker'[w].pc \in Ended
      BY <1>1, <1>6 DEF Worker, LoadThreadID, Scan, Parsed, LockControl,
         GetUserSemaphore, UnlockControl, SetLocalidSem, Launch, GetRun,
         WorkerSet, Ended, sems
    <2>5. \A v \in Workers : worker'[v].pc \in {"none", "new", "store"} =>
             worker'[v].entry = 0
      BY <1>2, <2>2, <2>3 DEF EntryInv
    <2>6. ASSUME OneAtATime PROVE OneAtATime'
      <3>1. \A v \in Workers : Awaited(v)' <=> Awaited(v)
        BY <1>2 DEF Awaited
      <3>2. worker[w].pc \in Ended => worker'[w].pc \in Ended
        <4>1. ASSUME worker[w].pc \in Ended PROVE GetRun(w)
          BY <4>1 DEF Ended, Worker, LoadThreadID, StoreThreadID, Scan,
             Parsed, LockControl, GetUserSemaphore, UnlockControl,
             SetLocalidSem, Launch
        <4>2. GetRun(w) => worker'[w].pc \in Ended
          BY <1>1 DEF GetRun, WorkerSet, Ended
        <4> QED BY <4>1, <4>2
      <3>3. worker[w].pc = "library" \/ worker[w].pc = "scan"
               => main.pc = "wait" /\ main.j = w
        BY <1>n, <2>6 DEF Ended, Awaited
      <3>4. main'.pc = "start" => semInit' = 0
        BY <1>2, <2>4, <2>6, <3>3 DEF OneAtATime
      <3>5. main.pc = "wait" /\ semInit' # 0 =>
               semInit' = 1 /\ worker'[main.j].pc \in Ended
        <4>1. CASE semInit' = semInit
          <5>1. ASSUME main.pc = "wait", semInit # 0
                PROVE  semInit = 1 /\ worker[main.j].pc \in Ended
            BY <2>6, <5>1 DEF OneAtATime
          <5>2. main.pc = "wait" => main.j \in Workers
            BY MainWaits
          <5> QED BY <1>2, <3>2, <4>1, <5>1, <5>2
        <4>2. CASE semInit' # semInit
          <5>1. main.j = w /\ worker'[w].pc \in Ended /\ semInit = 0
            BY <2>4, <2>6, <3>3, <4>2 DEF OneAtATime, Ended
          <5> QED BY <2>4, <4>2, <5>1
        <4> QED BY <4>1, <4>2
      <3>6. \A v \in Workers : worker[v].entry \in Nat
        BY <1>1 DEF WorkerSet
      <3>7. ASSUME main.pc \in {"start", "wait"}, NEW v \in Workers
            PROVE  worker'[v].entry <= threadID'
        <4>1. worker[v].entry <= threadID
          BY <2>6, <3>7 DEF OneAtATime
        <4> QED BY <1>1, <1>2, <2>1, <2>2, <4>1
      <3>8. ASSUME worker'[w].entry # worker[w].entry
            PROVE  /\ worker'[w].entry = threadID
                   /\ \A v \in Workers \ {w} : worker[v].entry < threadID
        BY <1>n, <2>2, <2>6, <3>8 DEF OneAtATime, Ended, Searching
      <3>9. ASSUME NEW v \in Workers, NEW u \in Workers, v # u,
                   worker'[u].entry = worker'[v].entry
            PROVE  worker'[v].entry = 0
        <4>1. CASE worker'[w].entry = worker[w].entry
          BY <1>2, <2>6, <3>9, <4>1 DEF OneAtATime
        <4>2. CASE worker'[w].entry # worker[w].entry
          <5>1. \A x \in Workers \ {w} : worker'[x].entry # threadID
            BY <1>1, <1>2, <3>6, <3>8, <4>2
          <5>2. v # w /\ u # w
            BY <3>8, <3>9, <4>2, <5>1
          <5> QED BY <1>2, <2>6, <3>9, <5>2 DEF OneAtATime
        <4> QED BY <4>1, <4>2
      <3>10. ASSUME NEW v \in Workers, Awaited(v), worker'[v].pc = "store"
             PROVE  worker'[v].reg = threadID'
        <4>1. CASE v = w
          BY <2>1, <2>3, <3>10, <4>1
        <4>2. CASE v # w
          BY <1>2, <2>1, <2>6, <3>10, <4>2 DEF OneAtATime
        <4> QED BY <4>1, <4>2
      <3>11. ASSUME NEW v \in Workers, Awaited(v),
                    worker'[v].pc \in Searching
             PROVE  /\ worker'[v].entry \in {0, threadID'}
                    /\ \A u \in Workers \ {v} : worker'[u].entry < threadID'
        <4>1. CASE v = w
          BY <1>2, <2>1, <2>2, <2>3, <2>6, <3>11, <4>1 DEF OneAtATime
        <4>2. CASE v # w
          <5>1. worker'[w].entry = worker[w].entry
            BY <2>2, <3>3, <3>11, <4>2 DEF Awaited
          <5> QED BY <1>2, <2>1, <2>6, <3>11, <4>2, <5>1 DEF OneAtATime
        <4> QED BY <4>1, <4>2
      <3>12. \A v \in Workers : ~ Awaited(v)' =>
                Parked(v)' \/ (main'.pc \in {"start", "wait"} /\ v > main'.j)
        BY <1>p, <2>6
      <3>13. \A v \in Workers : Awaited(v)' =>
                /\ worker'[v].pc = "store" => worker'[v].reg = threadID'
                /\ worker'[v].pc \in Searching =>
                      /\ worker'[v].entry \in {0, threadID'}
                      /\ \A u \in Workers \ {v} : worker'[u].entry < threadID'
        BY <3>1, <3>10, <3>11
      <3>14. \A v, u \in Workers :
                v # u /\ worker'[u].entry = worker'[v].entry
                   => worker'[v].entry = 0
        BY <3>9
      <3>15. main'.pc = "wait" /\ semInit' # 0 =>
                semInit' = 1 /\ worker'[main'.j].pc \in Ended
        BY <1>2, <3>5
      <3>16. main'.pc \in {"start", "wait"} =>
                \A v \in Workers : worker'[v].entry <= threadID'
        BY <1>2, <3>7
      <3> QED BY <1>3, <3>4, <3>12, <3>13, <3>14, <3>15, <3>16 DEF OneAtATime
    <2> QED BY <1>2, <1>3, <1>4, <2>5, <2>6 DEF EntryInv, lvars
  <1> QED BY <1>5, <1>6

LEMMA EntryMain ==
    ASSUME TypeInv, EntryInv, setup' = setup, Main, UNCHANGED lvars
    PROVE  EntryInv'
  <1>1. /\ worker \in [Workers -> WorkerSet] /\ controlMutex \in 0 .. Entries
        /\ Entries \in Nat /\ Workers = 1 .. Entries /\ threadID \in Nat
        /\ semInit \in Nat /\ main \in MainSet /\ hurries \in Nat
    BY TypeParts, Constants DEF TypeInv, StartupInv, AllocTyped, AccidentsTyped
  <1>2. Workers' = Workers
    BY DEF Workers, Entries
  <1>3. /\ threadID' = threadID /\ controlMutex' = controlMutex
        /\ dssLocked' = dssLocked
    BY DEF Main, StartWorker, GetInit, InitTimeout, LowerRights, ReleaseRun,
       StartControl, StartListener, dss
  <1>4. ASSUME worker' = worker, hurries' = hurries, semInit' = semInit,
               main'.pc \notin {"start", "wait"},
               main'.pc \in {"start", "wait", "run"} => control'.pc = "none",
               main'.pc # "running" => main.pc # "running",
               OneAtATime => \A w \in Workers : Parked(w)
        PROVE  EntryInv'
    <2>1. \A w \in Workers : Parked(w)' <=> Parked(w)
      BY <1>3, <1>4 DEF Parked
    <2>2. \A w \in Workers : ~ Awaited(w)'
      BY <1>4 DEF Awaited
    <2>3. OneAtATime => OneAtATime'
      BY <1>2, <1>4, <2>1, <2>2 DEF OneAtATime
    <2> QED BY <1>2, <1>3, <1>4, <2>3 DEF EntryInv, lvars
  <1>5. CASE StartWorker
    <2>1. PICK n \in Workers : n = main.j + 1 /\ n > main.j
      BY <1>1, <1>5 DEF StartWorker, MainSet
    <2>2. PICK pc \in {"new", "exited"} :
             worker' = [worker EXCEPT ![n].pc = pc]
      BY <1>5, <2>1 DEF StartWorker
    <2>3. /\ main.pc = "start" /\ main' = [pc |-> "wait", j |-> n]
          /\ control' = control /\ semInit' = semInit /\ hurries' = hurries
      BY <1>5, <2>1 DEF StartWorker, AwaitWorker, sems
    <2>4. worker[n].pc = "none"
      BY <2>1, <2>3 DEF TypeInv, StartupInv, NotStarted
    <2>5. /\ worker'[n].pc \in {"new", "exited"}
          /\ worker'[n].entry = worker[n].entry
          /\ \A v \in Workers \ {n} : worker'[v] = worker[v]
      BY <1>1, <2>2 DEF WorkerSet
    <2>6. worker[n].entry = 0
      BY <2>4 DEF EntryInv
    <2>7. \A v \in Workers : worker'[v].pc \in {"get", "unlock"}
                               <=> controlMutex' = v
      BY <1>3, <2>4, <2>5 DEF EntryInv
    <2>8. \A v \in Workers : worker'[v].pc \in {"none", "new", "store"}
                               => worker'[v].entry = 0
      BY <2>5, <2>6 DEF EntryInv
    <2>9. ASSUME OneAtATime PROVE OneAtATime'
      <3>1. ASSUME NEW v \in Workers, ~ Awaited(v)'
            PROVE  Parked(v)' \/ v > n
        <4>1. v # n /\ ~ Awaited(v)
          BY <2>3, <3>1 DEF Awaited
        <4>2. Parked(v) \/ v > main.j
          BY <2>9, <4>1 DEF OneAtATime
        <4>3. Parked(v) => Parked(v)'
          <5>1. worker[controlMutex].pc = "get" /\ controlMutex # 0
                   => controlMutex \in Workers /\ controlMutex # n
            BY <1>1, <2>4
          <5> QED BY <1>3, <2>5, <4>1, <5>1 DEF Parked
        <4>4. v > main.j => v > n
          BY <1>1, <2>1, <4>1 DEF MainSet
        <4> QED BY <4>2, <4>3, <4>4
      <3>2. semInit' = 0
        BY <2>3, <2>9 DEF OneAtATime
      <3>3. \A v \in Workers : worker'[v].entry = worker[v].entry
        BY <2>5
      <3>4. \A v \in Workers : Awaited(v)' => worker'[v].pc \in {"new", "exited"}
        BY <2>3, <2>5 DEF Awaited
      <3>5. /\ main'.pc = "wait" /\ main'.j = n
            /\ \A v \in Workers : worker[v].entry <= threadID
        BY <2>3, <2>9 DEF OneAtATime
      <3>6. \A v \in Workers : worker'[v].entry <= threadID'
        BY <1>3, <3>3, <3>5
      <3>7. \A v, u \in Workers :
               v # u /\ worker'[u].entry = worker'[v].entry
                  => worker'[v].entry = 0
        BY <2>9, <3>3 DEF OneAtATime
      <3> QED BY <1>2, <3>1, <3>2, <3>4, <3>5, <3>6, <3>7
          DEF OneAtATime, Searching
    <2>10. main'.pc = "wait" /\ main'.j # 0
      BY <1>1, <2>3
    <2> QED BY <1>2, <2>3, <2>7, <2>8, <2>9, <2>10 DEF EntryInv, lvars
  <1>6. CASE (GetInit \/ InitTimeout) /\ main.pc = "wait"
    <2>1. /\ worker' = worker /\ control' = control
          /\ main' = [main EXCEPT !.pc = "start"]
      BY <1>1, <1>6 DEF GetInit, InitTimeout, AfterWait, threads, MainSet
    <2>2. main'.pc = "start" /\ main'.j = main.j
      BY <1>1, <2>1 DEF MainSet
    <2>3. main.j \in Workers
      BY <1>6, MainWaits
    <2>4. ASSUME hurries' = 0 PROVE OneAtATime'
      <3>1. OneAtATime /\ hurries = 0
        BY <1>1, <1>6, <2>4 DEF EntryInv, GetInit, InitTimeout, accidents
      <3>2. semInit' = 0 /\ Settled(main.j)
        <4>1. CASE GetInit
          BY <1>6, <3>1, <4>1 DEF GetInit, OneAtATime, Settled, Ended
        <4>2. CASE InitTimeout
          BY <1>1, <1>6, <2>4, <3>1, <4>2 DEF InitTimeout, sems
        <4> QED BY <1>6, <4>1, <4>2
      <3>3. Parked(main.j)
        <4>1. CASE worker[main.j].pc \in Ended
          BY <4>1 DEF Parked
        <4>2. CASE worker[main.j].pc \notin Ended
          <5>1. /\ dssLocked /\ worker[main.j].pc \in {"get", "lock"}
                /\ controlMutex \in Workers
            BY <1>1, <3>2, <4>2 DEF Settled, Ended
          <5>2. worker[controlMutex].pc \in {"get", "unlock"}
            BY <5>1 DEF EntryInv
          <5>3. CASE controlMutex = main.j
            BY <1>1, <5>1, <5>2, <5>3 DEF Parked
          <5>4. CASE controlMutex # main.j
            <6>1. ~ Awaited(controlMutex) /\ ~ (controlMutex > main.j)
              BY <1>6, <5>1, <5>2, <5>4 DEF Awaited, TypeInv, StartupInv,
                 NotStarted
            <6>2. Parked(controlMutex)
              BY <3>1, <5>1, <6>1 DEF OneAtATime
            <6> QED BY <1>1, <5>1, <5>2, <6>2 DEF Parked, Ended
          <5> QED BY <5>3, <5>4
        <4> QED BY <4>1, <4>2
      <3>4. \A v \in Workers : Parked(v)' <=> Parked(v)
        BY <1>3, <2>1 DEF Parked
      <3>5. \A v \in Workers : Parked(v) \/ v > main.j
        BY <3>1, <3>3 DEF OneAtATime, Awaited
      <3> QED BY <1>2, <1>3, <1>6, <2>1, <2>2, <3>1, <3>2, <3>4, <3>5
          DEF OneAtATime, Awaited
    <2> QED BY <1>2, <1>3, <1>6, <2>1, <2>2, <2>4 DEF EntryInv, lvars
  <1>7. CASE (GetInit \/ InitTimeout) /\ main.pc # "wait"
    <2>1. /\ main.pc = "waitcontrol" /\ main'.pc = "listen"
          /\ worker' = worker /\ control' = control /\ hurries' = hurries
      BY <1>1, <1>7 DEF GetInit, InitTimeout, AfterWait, threads, MainSet,
         accidents
    <2>2. \A w \in Workers : (Parked(w)' <=> Parked(w)) /\ ~ Awaited(w)
                             /\ ~ Awaited(w)'
      BY <1>3, <2>1 DEF Parked, Awaited
    <2>3. OneAtATime => OneAtATime'
      BY <1>2, <2>1, <2>2 DEF OneAtATime
    <2> QED BY <1>2, <1>3, <2>1, <2>3 DEF EntryInv, lvars
  <1>8. CASE LowerRights
    <2>1. /\ main.pc = "start" /\ main.j = Entries /\ main'.pc = "run"
          /\ worker' = worker /\ control' = control /\ hurries' = hurries
          /\ semInit' = semInit
      BY <1>8 DEF LowerRights, threads, accidents, sems
    <2>2. OneAtATime => \A w \in Workers : Parked(w)
      BY <1>1, <2>1 DEF OneAtATime, Awaited
    <2> QED BY <1>4, <2>1, <2>2 DEF EntryInv
  <1>9. CASE ReleaseRun \/ StartControl \/ StartListener
    <2>1. /\ main.pc \in {"run", "listen"}
          /\ main'.pc \in {"run", "waitcontrol", "listen", "running"}
          /\ worker' = worker /\ hurries' = hurries /\ semInit' = semInit
          /\ main'.pc = "run" => main.pc = "run" /\ control' = control
      BY <1>1, <1>9 DEF ReleaseRun, StartControl, StartListener, threads,
         accidents, sems, MainSet
    <2>2. OneAtATime => \A w \in Workers : Parked(w)
      BY <2>1 DEF OneAtATime, Awaited
    <2> QED BY <1>4, <2>1, <2>2 DEF EntryInv
  <1> QED BY <1>5, <1>6, <1>7, <1>8, <1>9 DEF Main

LEMMA EntryStep == TypeInv /\ EntryInv /\ [LNext]_<<vars, lvars>> => EntryInv'
  <1> SUFFICES ASSUME TypeInv, EntryInv, [LNext]_<<vars, lvars>> PROVE EntryInv'
    OBVIOUS
  <1>1. setup' = setup
    BY SetupKept
  <1>2. CASE Next /\ UNCHANGED lvars
    <2>1. ASSUME NEW w \in Workers, ReadIdx(w) \/ LookSemaphore(w)
          PROVE  EntryInv'
      BY <1>1, <1>2, <2>1, EntryFrame DEF ReadIdx, LookSemaphore, sems, dss,
         accidents, lvars, EntryInv
    <2>2. CASE Control
      <3>1. main.pc \notin {"start", "wait", "run"}
        BY <2>2 DEF Control, LoadThreadIDControl, StoreThreadIDControl, Connect,
           GetRunControl, EntryInv
      <3>2. /\ main' = main /\ worker' = worker /\ dssLocked' = dssLocked
            /\ controlMutex' = controlMutex /\ hurries' = hurries
        BY <2>2 DEF Control, LoadThreadIDControl, StoreThreadIDControl, Connect,
           GetRunControl, dss, accidents
      <3> QED BY <1>1, <1>2, <3>1, <3>2, EntryFrame DEF lvars, EntryInv
    <2> QED BY <1>1, <1>2, <2>1, <2>2, EntryMain, EntryWorker DEF Next
  <1>3. CASE Listener \/ \E c \in Clients : ClientThread(c)
    <2>1. main.pc = "running"
      <3>1. CASE Listener
        BY <3>1 DEF Listener, LoadThreadIDListener, StoreThreadIDListener,
           Accept, StartClientThread, EntryInv
      <3>2. ASSUME NEW c \in Clients, ClientThread(c)
            PROVE  main.pc = "running"
        <4>1. thread[c].pc # "none"
          BY <3>2 DEF ClientThread, LoadThreadIDClient, StoreThreadIDClient,
             GetClientFD, ReadClient, ProcessLocalMsg, SendAck, SendSignonAck,
             EndClient
        <4>2. ~ (c > listener.accepted)
          BY <4>1 DEF TypeInv, Unspawned
        <4>3. listener.accepted # 0
          BY <4>2, ListenerAssumption DEF Clients
        <4> QED BY SMTT(30), <4>3 DEF EntryInv
      <3> QED BY <1>3, <3>1, <3>2
    <2>2. UNCHANGED <<controlMutex, dss, sems, main, threads, hurries>>
      BY <1>3, ListenerFrame
    <2> QED BY <1>1, <2>1, <2>2, EntryFrame DEF dss, threads
  <1>4. CASE UNCHANGED <<vars, lvars>>
    BY <1>1, <1>4, EntryFrame DEF vars, lvars, threads, sems, dss, accidents,
       EntryInv
  <1> QED BY <1>2, <1>3, <1>4 DEF LNext

\* No two workers serve the same entry of the configuration, as long as no
\* wait of 15 seconds ended while its worker was under way: for every
\* configuration, also when threads cannot be created and when the semaphores
\* run out.
THEOREM EntriesDistinct == Spec => []EntryOfItsOwn
  <1>1. EntryInv => EntryOfItsOwn
    BY DEF EntryInv, OneAtATime, EntryOfItsOwn
  <1> QED BY <1>1, InitType, StepType, EntryInit, EntryStep, PTL DEF Spec

-----------------------------------------------------------------------------
\* Whom a command for a localid wakes.

HasLocalid(v, l) == v \in Named /\ Localid(worker[v].entry) = l

\* The worker of localid l whose entry is the last.
Owner(l, v) ==
    /\ HasLocalid(v, l)
    /\ \A u \in Workers :
          HasLocalid(u, l) => worker[u].entry <= worker[v].entry
    /\ localidSems[l] = worker[v].number

\* A localid has the number of the last worker that assigned one, or 0 when
\* only a command thread has looked it up.
NamesOwned ==
    /\ \A l \in Localids, w \in Workers : HasLocalid(w, l) =>
          l \in DOMAIN localidSems /\ \E v \in Workers : Owner(l, v)
    /\ \A l \in DOMAIN localidSems :
          localidSems[l] = 0 \/ \E v \in Workers : Owner(l, v)

\* The entry set last is above every entry a worker went on with.
NameInv ==
    /\ \A w \in Workers : command[w].pc # "none" => w \in Named
    /\ hurries = 0 => \A w \in Workers :
          /\ worker[w].pc # "scan" => worker[w].entry <= configidx
          /\ command[w].pc \in {"look", "polls"} =>
                worker[w].entry <= command[w].idx
    /\ hurries = 0 /\ ~ raced => NamesOwned /\ PollsOwnOrLater

LEMMA NameInit == LInit => NameInv
  <1> SUFFICES ASSUME LInit PROVE NameInv
    OBVIOUS
  <1>1. /\ configidx = 0 /\ localidSems = <<>>
        /\ \A w \in Workers : /\ worker[w].pc = "none" /\ worker[w].entry = 0
                              /\ command[w].pc = "none"
    BY DEF LInit, Init, NewWorker, NewCommand
  <1>2. Named = {} /\ DOMAIN localidSems = {}
    BY <1>1 DEF Named
  <1> QED BY <1>1, <1>2 DEF NameInv, NamesOwned, HasLocalid, PollsOwnOrLater

\* What has a name keeps it.
LEMMA NamedKept ==
    ASSUME setup' = setup, Named \subseteq Named',
           \A v \in Named : /\ worker'[v].entry = worker[v].entry
                            /\ worker'[v].number = worker[v].number
    PROVE  /\ \A v, l : HasLocalid(v, l) => HasLocalid(v, l)'
           /\ command' = command /\ PollsOwnOrLater
                 /\ (\A w \in Workers : command[w].pc # "none" => w \in Named)
              => PollsOwnOrLater'
  <1>1. Workers' = Workers /\ \A k : Localid(k)' = Localid(k)
    BY DEF Workers, Entries, Localid
  <1>2. ASSUME NEW v, NEW l, HasLocalid(v, l) PROVE HasLocalid(v, l)'
    <2>1. v \in Named /\ Localid(worker[v].entry) = l
      BY <1>2 DEF HasLocalid
    <2>2. v \in Named' /\ worker'[v].entry = worker[v].entry
      BY <2>1
    <2>3. \A k : k = worker[v].entry => Localid(k)' = l
      BY <1>1, <2>1
    <2> QED BY <2>2, <2>3 DEF HasLocalid, Localid
  <1>3. ASSUME command' = command, PollsOwnOrLater,
               \A w \in Workers : command[w].pc # "none" => w \in Named
        PROVE  PollsOwnOrLater'
    <2> SUFFICES ASSUME NEW w \in Workers, command[w].pc = "polls"
        PROVE /\ command[w].idx >= worker'[w].entry
              /\ \/ \E v \in Named' : worker'[v].number = command[w].number
                      /\ setup.entries[worker'[v].entry].localid =
                            setup.entries[command[w].idx].localid
                 \/ command[w].number = 0 /\ command[w].idx > worker'[w].entry
      BY <1>1, <1>3 DEF PollsOwnOrLater, Localid
    <2>1. /\ command[w].idx >= worker[w].entry
          /\ \/ \E v \in Named : worker[v].number = command[w].number
                   /\ setup.entries[worker[v].entry].localid =
                         setup.entries[command[w].idx].localid
             \/ command[w].number = 0 /\ command[w].idx > worker[w].entry
      BY <1>3 DEF PollsOwnOrLater, Localid
    <2>2. worker'[w].entry = worker[w].entry
      BY <1>3
    <2> QED BY <2>1, <2>2
  <1> QED BY <1>2, <1>3

\* A step in which no worker gets a name, looks one up or goes on with an entry.
LEMMA NameFrame ==
    ASSUME NameInv, setup' = setup, Named' = Named, configidx' = configidx,
           localidSems' = localidSems, command' = command, raced' = raced,
           hurries' = 0 => hurries = 0,
           \A v \in Named : /\ worker'[v].entry = worker[v].entry
                            /\ worker'[v].number = worker[v].number,
           hurries = 0 => \A v \in Workers :
               worker'[v].pc # "scan" => worker'[v].entry <= configidx
    PROVE  NameInv'
  <1>1. Workers' = Workers /\ Named \subseteq Workers
    BY DEF Workers, Entries, Named
  <1>2. ASSUME NEW v, NEW l PROVE HasLocalid(v, l)' <=> HasLocalid(v, l)
    BY DEF HasLocalid, Localid
  <1>3. ASSUME NEW v, NEW l, Owner(l, v) PROVE Owner(l, v)'
    <2>1. v \in Named
      BY <1>3 DEF Owner, HasLocalid
    <2>2. \A u \in Workers : HasLocalid(u, l)' => u \in Named /\ HasLocalid(u, l)
      BY <1>2 DEF HasLocalid
    <2>3. HasLocalid(v, l)'
      BY <1>2, <1>3 DEF Owner
    <2> QED BY <1>1, <1>3, <2>1, <2>2, <2>3 DEF Owner
  <1>4. NamesOwned => NamesOwned'
    BY <1>1, <1>2, <1>3 DEF NamesOwned
  <1>5. NamesOwned /\ PollsOwnOrLater => PollsOwnOrLater'
    BY NamedKept DEF NameInv
  <1>6. \A w \in Workers : command[w].pc # "none" =>
           worker'[w].entry = worker[w].entry
    BY DEF NameInv
  <1> QED BY <1>1, <1>4, <1>5, <1>6 DEF NameInv

LEMMA NameWorker ==
    ASSUME TypeInv, EntryInv, NameInv, setup' = setup,
           NEW w \in Workers, Worker(w)
    PROVE  NameInv'
  <1>1. /\ worker \in [Workers -> WorkerSet] /\ command \in [Workers -> CommandSet]
        /\ Entries \in Nat /\ Workers = 1 .. Entries /\ threadID \in Nat
        /\ Past(w) /\ configidx \in 0 .. Entries
        /\ \A k \in 1 .. Entries : Localid(k) \in Localids
    BY TypeParts, Constants DEF TypeInv, StartupInv
  <1>2. /\ hurries' = hurries /\ \A v \in Workers \ {w} : worker'[v] = worker[v]
    BY <1>1 DEF Worker, LoadThreadID, StoreThreadID, Scan, Parsed, LockControl,
       GetUserSemaphore, UnlockControl, SetLocalidSem, Launch, GetRun, threads,
       accidents
  <1>3. Workers' = Workers /\ \A k : Localid(k)' = Localid(k)
    BY DEF Workers, Entries, Localid
  <1>n. ASSUME hurries = 0, worker[w].pc \in Searching
        PROVE  /\ worker[w].entry \in {0, threadID}
               /\ \A v \in Workers \ {w} : worker[v].entry < threadID
    <2>1. worker[w].pc # "none" /\ worker[w].pc \notin Ended
      BY <1>n DEF Searching, Ended
    <2>2. ~ Parked(w)
      BY <2>1 DEF Parked, Ended, Worker, LoadThreadID, StoreThreadID, Scan,
         Parsed, LockControl, GetUserSemaphore, UnlockControl, SetLocalidSem,
         Launch, GetRun
    <2>3. main.pc \in {"start", "wait"} => ~ (w > main.j)
      BY <2>1 DEF TypeInv, StartupInv, NotStarted
    <2>4. Awaited(w)
      BY <1>n, <2>2, <2>3 DEF OneAtATime, EntryInv
    <2> QED BY <1>n, <2>4 DEF OneAtATime, EntryInv
  <1>e. \A v \in Workers : worker[v].entry \in Nat
    BY <1>1 DEF WorkerSet
  <1>4. CASE SetLocalidSem(w)
    <2>1. /\ worker[w].pc = "name" /\ worker'[w].pc = "library"
          /\ worker'[w].entry = worker[w].entry
          /\ worker'[w].number = worker[w].number
          /\ configidx' = configidx /\ command' = command
          /\ ~ raced' => /\ ~ raced
                         /\ localidSems' = Assigned(Localid(worker[w].entry),
                                                    worker[w].number)
      BY <1>1, <1>4 DEF SetLocalidSem, WorkerSet
    <2>2. PICK l \in Localids : l = Localid(worker[w].entry)
      BY <1>1, <2>1 DEF Past, WorkerSet
    <2>3. w \notin Named /\ Named' = Named \cup {w}
      <3>1. worker[w].entry # 0 /\ w \notin Named
        BY <1>1, <2>1 DEF Past, Named
      <3>2. \A v \in Workers : v \in Named' <=> v \in Named \/ v = w
        BY <1>2, <1>3, <2>1, <3>1 DEF Named
      <3> QED BY <1>3, <3>1, <3>2 DEF Named
    <2>4. \A v \in Workers : /\ worker'[v].entry = worker[v].entry
                             /\ worker'[v].number = worker[v].number
      BY <1>2, <2>1
    <2>5. ASSUME NEW v \in Workers, NEW k
          PROVE  HasLocalid(v, k)' <=> HasLocalid(v, k) \/ (v = w /\ k = l)
      BY <1>3, <2>2, <2>3, <2>4, <2>5 DEF HasLocalid, Localid
    <2>6. ASSUME hurries = 0, ~ raced'
          PROVE  NamesOwned' /\ PollsOwnOrLater'
      <3>1. NamesOwned /\ PollsOwnOrLater
        BY <2>1, <2>6 DEF NameInv
      <3>2. /\ DOMAIN localidSems' = DOMAIN localidSems \cup {l}
            /\ localidSems'[l] = worker[w].number
            /\ \A k \in DOMAIN localidSems : k # l =>
                  localidSems'[k] = localidSems[k]
        BY <2>1, <2>2, <2>6 DEF Assigned
      <3>3. Owner(l, w)'
        <4>1. worker[w].entry = threadID
          BY <1>1, <1>n, <2>1, <2>6 DEF Searching, Past
        <4>2. \A u \in Workers : worker[u].entry <= worker[w].entry
          BY <1>1, <1>e, <1>n, <2>1, <2>6, <4>1 DEF Searching
        <4>3. HasLocalid(w, l)'
          BY <2>5
        <4> QED BY <1>3, <2>4, <3>2, <4>2, <4>3 DEF Owner
      <3>4. ASSUME NEW k, NEW v, k # l, k \in DOMAIN localidSems, Owner(k, v)
            PROVE  Owner(k, v)'
        <4>1. v \in Workers /\ HasLocalid(v, k)
          BY <3>4 DEF Owner, HasLocalid, Named
        <4>2. HasLocalid(v, k)' /\ \A u \in Workers :
                 HasLocalid(u, k)' => HasLocalid(u, k)
          BY <2>5, <3>4, <4>1
        <4> QED BY <1>3, <2>4, <3>2, <3>4, <4>1, <4>2 DEF Owner
      <3>5. ASSUME NEW k \in Localids, NEW u \in Workers, HasLocalid(u, k)'
            PROVE  k \in DOMAIN localidSems' /\ \E v \in Workers : Owner(k, v)'
        <4>1. CASE k = l
          BY <3>2, <3>3, <4>1
        <4>2. CASE k # l
          <5>1. HasLocalid(u, k)
            BY <2>5, <3>5, <4>2
          <5>2. k \in DOMAIN localidSems /\ \E v \in Workers : Owner(k, v)
            BY <3>1, <5>1 DEF NamesOwned
          <5> QED BY <3>2, <3>4, <4>2, <5>2
        <4> QED BY <4>1, <4>2
      <3>6. ASSUME NEW k \in DOMAIN localidSems'
            PROVE  localidSems'[k] = 0 \/ \E v \in Workers : Owner(k, v)'
        <4>1. CASE k = l
          BY <3>3, <4>1
        <4>2. CASE k # l
          BY <3>1, <3>2, <3>4, <4>2 DEF NamesOwned
        <4> QED BY <4>1, <4>2
      <3>7. PollsOwnOrLater'
        <4>1. \A v \in Workers : command[v].pc # "none" => v \in Named
          BY DEF NameInv
        <4>2. Named \subseteq Named' /\ Named \subseteq Workers
          BY <2>3 DEF Named
        <4> QED BY <2>1, <2>4, <3>1, <4>1, <4>2, NamedKept
      <3> QED BY <1>3, <3>5, <3>6, <3>7 DEF NamesOwned
    <2>7. ASSUME hurries = 0, NEW v \in Workers
          PROVE  /\ worker'[v].pc # "scan" => worker'[v].entry <= configidx'
                 /\ command'[v].pc \in {"look", "polls"} =>
                       worker'[v].entry <= command'[v].idx
      BY <1>2, <2>1, <2>4, <2>7 DEF NameInv
    <2>8. \A v \in Workers : command'[v].pc # "none" => v \in Named'
      BY <2>1, <2>3 DEF NameInv
    <2> QED BY <1>2, <1>3, <2>6, <2>7, <2>8 DEF NameInv
  <1>5. CASE Parsed(w)
    <2>1. /\ worker[w].pc = "scan" /\ worker'[w].entry = worker[w].entry
          /\ worker'[w].pc \in {"exited", "lock"}
          /\ IF worker[w].entry = 0 THEN configidx' = configidx
             ELSE configidx' = worker[w].entry /\ worker'[w].pc = "lock"
          /\ localidSems' = localidSems /\ command' = command /\ raced' = raced
      BY <1>1, <1>5 DEF Parsed, WorkerSet, accidents
    <2>2. Named' = Named /\ w \notin Named
      BY <1>2, <1>3, <2>1 DEF Named
    <2>3. CASE worker[w].entry = 0
      <3>1. \A v \in Named : /\ worker'[v].entry = worker[v].entry
                             /\ worker'[v].number = worker[v].number
        BY <1>2, <2>2 DEF Named
      <3>2. ASSUME hurries = 0, NEW v \in Workers, worker'[v].pc # "scan"
            PROVE  worker'[v].entry <= configidx
        BY <1>1, <1>2, <2>1, <2>3, <3>2 DEF NameInv
      <3> QED BY <1>2, <2>1, <2>2, <2>3, <3>1, <3>2, NameFrame
    <2>4. CASE worker[w].entry # 0
      <3>1. \A v \in Named : /\ worker'[v].entry = worker[v].entry
                             /\ worker'[v].number = worker[v].number
        BY <1>2, <2>2 DEF Named
      <3>2. ASSUME hurries = 0, NEW v \in Workers
            PROVE  worker'[v].entry <= configidx'
        <4>1. worker[w].entry = threadID
          BY <1>n, <2>1, <2>4, <3>2 DEF Searching
        <4>2. worker'[v].entry = worker[v].entry /\ worker[v].entry <= threadID
          BY <1>1, <1>2, <1>e, <1>n, <2>1, <3>2, <4>1 DEF Searching
        <4> QED BY <2>1, <2>4, <4>1, <4>2
      <3>3. ASSUME NEW v, NEW k
            PROVE  /\ HasLocalid(v, k)' <=> HasLocalid(v, k)
                   /\ Owner(k, v) => Owner(k, v)'
        <4>1. \A u : HasLocalid(u, k)' <=> HasLocalid(u, k)
          BY <2>2, <3>1 DEF HasLocalid, Localid
        <4>2. \A u : HasLocalid(u, k) => u \in Named
          BY DEF HasLocalid
        <4> QED BY <1>3, <2>1, <3>1, <4>1, <4>2 DEF Owner
      <3>4. NamesOwned => NamesOwned'
        BY <1>3, <2>1, <3>3 DEF NamesOwned
      <3>5. PollsOwnOrLater => PollsOwnOrLater'
        BY <2>1, <2>2, <3>1, NamedKept DEF NameInv
      <3>6. ASSUME hurries = 0, NEW v \in Workers,
                   command'[v].pc \in {"look", "polls"}
            PROVE  worker'[v].entry <= command'[v].idx
        BY <2>1, <3>1, <3>6 DEF NameInv
      <3>7. \A v \in Workers : command'[v].pc # "none" => v \in Named'
        BY <2>1, <2>2 DEF NameInv
      <3> QED BY <1>2, <1>3, <2>1, <3>2, <3>4, <3>5, <3>6, <3>7 DEF NameInv
    <2> QED BY <2>3, <2>4
  <1>6. CASE Launch(w)
    <2>1. /\ worker[w].pc = "library" /\ worker[w].entry # 0 /\ w \in Named
          /\ worker'[w].entry = worker[w].entry
          /\ worker'[w].number = worker[w].number
          /\ worker'[w].pc \in {"exited", "waitrun", "serving"}
          /\ configidx' = configidx /\ localidSems' = localidSems
          /\ raced' = raced
      BY <1>1, <1>6 DEF Launch, WorkerSet, Past, Named, maps, accidents
    <2>2. /\ \A v \in Workers \ {w} : command'[v] = command[v]
          /\ command'[w].pc \in {"new", command[w].pc}
          /\ command'[w].idx = command[w].idx
          /\ command'[w].number = command[w].number
      BY <1>1, <1>6 DEF Launch, CommandSet
    <2>3. \A v \in Workers : /\ worker'[v].entry = worker[v].entry
                             /\ worker'[v].number = worker[v].number
                             /\ worker'[v].pc = "scan" <=> worker[v].pc = "scan"
      BY <1>2, <2>1
    <2>4. Named' = Named
      BY <1>2, <1>3, <2>1, <2>3 DEF Named
    <2>5. ASSUME NEW v, NEW k
          PROVE  /\ HasLocalid(v, k)' <=> HasLocalid(v, k)
                 /\ Owner(k, v) => Owner(k, v)'
      <3>1. \A u \in Named : worker'[u].entry = worker[u].entry
        BY <2>3 DEF Named
      <3>2. \A u : HasLocalid(u, k)' <=> HasLocalid(u, k)
        BY <2>4, <3>1 DEF HasLocalid, Localid
      <3>3. \A u : HasLocalid(u, k) => u \in Workers
        BY DEF HasLocalid, Named
      <3> QED BY <1>3, <2>1, <2>3, <3>2, <3>3 DEF Owner
    <2>6. NamesOwned => NamesOwned'
      BY <1>3, <2>1, <2>5 DEF NamesOwned
    <2>7. PollsOwnOrLater => PollsOwnOrLater'
      <3>1. \A v \in Workers : command'[v].pc = "polls" =>
               /\ command[v].pc = "polls" /\ command'[v].idx = command[v].idx
               /\ command'[v].number = command[v].number
        BY <1>1, <2>2 DEF CommandSet
      <3>2. \A v \in Named : v \in Workers
        BY DEF Named
      <3> QED BY <1>3, <2>3, <2>4, <3>1, <3>2 DEF PollsOwnOrLater, Localid
    <2>8. ASSUME hurries = 0, NEW v \in Workers
          PROVE  /\ worker'[v].pc # "scan" => worker'[v].entry <= configidx'
                 /\ command'[v].pc \in {"look", "polls"} =>
                       worker'[v].entry <= command'[v].idx
      BY <2>1, <2>2, <2>3, <2>8 DEF NameInv
    <2>9. \A v \in Workers : command'[v].pc # "none" => v \in Named'
      BY <2>1, <2>2, <2>4 DEF NameInv
    <2> QED BY <1>2, <1>3, <2>1, <2>6, <2>7, <2>8, <2>9 DEF NameInv
  <1>7. CASE ~ SetLocalidSem(w) /\ ~ Parsed(w) /\ ~ Launch(w)
    <2>1. /\ configidx' = configidx /\ localidSems' = localidSems
          /\ command' = command /\ raced' = raced
      BY <1>7 DEF Worker, LoadThreadID, StoreThreadID, Scan, LockControl,
         GetUserSemaphore, UnlockControl, GetRun, maps, accidents
    <2>2. /\ \/ worker'[w].pc = "scan"
             \/ worker[w].pc # "scan" /\ worker'[w].entry = worker[w].entry
          /\ \/ worker[w].pc \notin {"library", "waitrun", "serving", "early",
                                     "exited"}
                /\ worker'[w].pc \notin {"library", "waitrun", "serving",
                                         "early", "exited"}
             \/ worker[w].pc = "waitrun" /\ worker'[w].pc \in {"serving", "early"}
                /\ worker'[w].entry = worker[w].entry
                /\ worker'[w].number = worker[w].number
      BY <1>1, <1>7 DEF Worker, LoadThreadID, StoreThreadID, Scan, LockControl,
         GetUserSemaphore, UnlockControl, GetRun, WorkerSet
    <2>3. Named' = Named
      BY <1>2, <1>3, <2>2 DEF Named
    <2>4. \A v \in Named : /\ worker'[v].entry = worker[v].entry
                           /\ worker'[v].number = worker[v].number
      BY <1>2, <2>2 DEF Named
    <2>5. ASSUME hurries = 0, NEW v \in Workers, worker'[v].pc # "scan"
          PROVE  worker'[v].entry <= configidx
      BY <1>2, <2>2, <2>5 DEF NameInv
    <2> QED BY <1>2, <2>1, <2>3, <2>4, <2>5, NameFrame
  <1> QED BY <1>4, <1>5, <1>6, <1>7

\* A command thread reads configidx, or looks up which semaphore to poll.
LEMMA NameLookup ==
    ASSUME TypeInv, NameInv, setup' = setup, NEW w \in Workers,
           ReadIdx(w) \/ LookSemaphore(w)
    PROVE  NameInv'
  <1>1. /\ command \in [Workers -> CommandSet] /\ worker \in [Workers -> WorkerSet]
        /\ Entries \in Nat /\ Workers = 1 .. Entries
        /\ Past(w) /\ configidx \in 0 .. Entries
        /\ \A k \in 1 .. Entries : Localid(k) \in Localids
    BY TypeParts, Constants DEF TypeInv, StartupInv
  <1>2. /\ worker' = worker /\ configidx' = configidx
        /\ hurries' = hurries /\ raced' = raced
        /\ command[w].pc # "none"
        /\ \A v \in Workers \ {w} : command'[v] = command[v]
    BY <1>1 DEF ReadIdx, LookSemaphore, threads, accidents, maps
  <1>3. Workers' = Workers /\ Named' = Named /\ w \in Named
    BY <1>2 DEF Workers, Entries, Named, NameInv
  <1>4. \A v \in Workers : command'[v].pc # "none" => v \in Named'
    BY <1>2, <1>3 DEF NameInv
  <1>5. ASSUME NEW v, NEW k PROVE HasLocalid(v, k)' <=> HasLocalid(v, k)
    BY <1>2, <1>3 DEF HasLocalid, Localid
  <1>e. \A v \in Workers : worker[v].entry \in Nat
    BY <1>1 DEF WorkerSet
  <1>6. CASE ReadIdx(w)
    <2>1. /\ command'[w].pc = "look" /\ command'[w].idx = configidx
          /\ localidSems' = localidSems
      BY <1>1, <1>6 DEF ReadIdx, maps
    <2>2. ASSUME hurries = 0, NEW v \in Workers
          PROVE  /\ worker'[v].pc # "scan" => worker'[v].entry <= configidx'
                 /\ command'[v].pc \in {"look", "polls"} =>
                       worker'[v].entry <= command'[v].idx
      BY <1>2, <1>3, <2>1, <2>2 DEF NameInv, Named
    <2>3. ASSUME NEW v, NEW k, Owner(k, v) PROVE Owner(k, v)'
      BY <1>2, <1>3, <1>5, <2>1, <2>3 DEF Owner
    <2>4. NamesOwned => NamesOwned'
      BY <1>3, <1>5, <2>1, <2>3 DEF NamesOwned
    <2>5. \A v \in Workers : command'[v].pc = "polls" => command'[v] = command[v]
      BY <1>2, <2>1
    <2>6. PollsOwnOrLater => PollsOwnOrLater'
      BY <1>2, <1>3, <2>5 DEF PollsOwnOrLater, Localid
    <2> QED BY <1>2, <1>3, <1>4, <2>2, <2>4, <2>6 DEF NameInv
  <1>7. CASE LookSemaphore(w)
    <2>1. /\ command[w].pc = "look" /\ command[w].idx \in 1 .. Entries
          /\ command'[w].pc = "polls" /\ command'[w].idx = command[w].idx
      BY <1>1, <1>7 DEF LookSemaphore, CommandSet, Past
    <2>2. PICK l \in Localids : l = Localid(command[w].idx)
      BY <1>1, <2>1
    <2>3. /\ localidSems' = Assigned(l, Found(l))
          /\ command'[w].number = Found(l)
      BY <1>1, <1>7, <2>2 DEF LookSemaphore
    <2>4. /\ DOMAIN localidSems' = DOMAIN localidSems \cup {l}
          /\ \A k \in DOMAIN localidSems : localidSems'[k] = localidSems[k]
          /\ l \notin DOMAIN localidSems => localidSems'[l] = 0
          /\ localidSems'[l] = Found(l)
      BY <2>3 DEF Assigned, Found
    <2>5. ASSUME hurries = 0, NEW v \in Workers
          PROVE  /\ worker'[v].pc # "scan" => worker'[v].entry <= configidx'
                 /\ command'[v].pc \in {"look", "polls"} =>
                       worker'[v].entry <= command'[v].idx
      BY <1>2, <1>3, <2>1, <2>5 DEF NameInv
    <2>6. ASSUME hurries = 0, ~ raced PROVE NamesOwned' /\ PollsOwnOrLater'
      <3>1. NamesOwned /\ PollsOwnOrLater
        BY <2>6 DEF NameInv
      <3>2. ASSUME NEW v, NEW k \in DOMAIN localidSems, Owner(k, v)
            PROVE  Owner(k, v)'
        BY <1>2, <1>3, <1>5, <2>4, <3>2 DEF Owner
      <3>3. ASSUME NEW k \in Localids, NEW u \in Workers, HasLocalid(u, k)'
            PROVE  k \in DOMAIN localidSems' /\ \E v \in Workers : Owner(k, v)'
        <4>1. k \in DOMAIN localidSems /\ \E v \in Workers : Owner(k, v)
          BY <1>5, <3>1, <3>3 DEF NamesOwned
        <4> QED BY <2>4, <3>2, <4>1
      <3>4. ASSUME NEW k \in DOMAIN localidSems'
            PROVE  localidSems'[k] = 0 \/ \E v \in Workers : Owner(k, v)'
        <4>1. CASE k \in DOMAIN localidSems
          BY <2>4, <3>1, <3>2, <4>1 DEF NamesOwned
        <4>2. CASE k \notin DOMAIN localidSems
          BY <2>4, <4>2
        <4> QED BY <4>1, <4>2
      <3>5. NamesOwned'
        BY <1>3, <3>3, <3>4 DEF NamesOwned
      <3>6. worker[w].entry <= command[w].idx
        BY <2>1, <2>6 DEF NameInv
      <3>7. \/ \E v \in Named : worker[v].number = Found(l)
                   /\ Localid(worker[v].entry) = l
            \/ Found(l) = 0 /\ command[w].idx > worker[w].entry
        <4>1. ASSUME NEW v \in Workers, Owner(l, v), l \in DOMAIN localidSems
              PROVE  v \in Named /\ worker[v].number = Found(l)
                        /\ Localid(worker[v].entry) = l
          BY <4>1 DEF Owner, HasLocalid, Found
        <4>2. CASE \E v \in Workers : Owner(l, v) /\ l \in DOMAIN localidSems
          BY <4>1, <4>2
        <4>3. CASE ~ \E v \in Workers : Owner(l, v) /\ l \in DOMAIN localidSems
          <5>1. Found(l) = 0
            BY <3>1, <4>3 DEF NamesOwned, Found
          <5>2. ~ HasLocalid(w, l)
            BY <3>1, <4>3 DEF NamesOwned
          <5>3. command[w].idx # worker[w].entry
            BY <1>3, <2>2, <5>2 DEF HasLocalid
          <5> QED BY <1>1, <1>e, <2>1, <3>6, <5>1, <5>3
        <4> QED BY <4>2, <4>3
      <3>8. ASSUME NEW v \in Workers, command'[v].pc = "polls"
            PROVE  /\ command'[v].idx >= worker[v].entry
                   /\ \/ \E u \in Named : worker[u].number = command'[v].number
                            /\ Localid(worker[u].entry) = Localid(command'[v].idx)
                      \/ command'[v].number = 0
                            /\ command'[v].idx > worker[v].entry
        <4>1. CASE v = w
          BY <1>1, <1>e, <2>1, <2>2, <2>3, <3>6, <3>7, <4>1
        <4>2. CASE v # w
          BY <1>2, <3>1, <3>8, <4>2 DEF PollsOwnOrLater
        <4> QED BY <4>1, <4>2
      <3>9. PollsOwnOrLater'
        BY <1>2, <1>3, <3>8 DEF PollsOwnOrLater, Localid
      <3> QED BY <3>5, <3>9
    <2> QED BY <1>2, <1>3, <1>4, <2>5, <2>6 DEF NameInv
  <1> QED BY <1>6, <1>7

\* The steps of the main thread: the worker it starts has no entry yet.
LEMMA NameMain ==
    ASSUME TypeInv, EntryInv, NameInv, setup' = setup, Main
    PROVE  NameInv'
  <1>1. /\ worker \in [Workers -> WorkerSet] /\ Entries \in Nat
        /\ Workers = 1 .. Entries /\ configidx \in 0 .. Entries
        /\ main \in MainSet /\ hurries \in Nat
    BY TypeParts, Constants DEF TypeInv, StartupInv, AccidentsTyped
  <1>2. /\ configidx' = configidx /\ localidSems' = localidSems
        /\ command' = command /\ raced' = raced
        /\ hurries' \in {hurries, hurries + 1}
    BY DEF Main, StartWorker, GetInit, InitTimeout, LowerRights, ReleaseRun,
       StartControl, StartListener, maps, threads, accidents
  <1>3. Workers' = Workers
    BY DEF Workers, Entries
  <1>4. CASE StartWorker
    <2>1. PICK w \in Workers : w = main.j + 1
      BY <1>1, <1>4 DEF StartWorker, MainSet
    <2>2. worker[w].pc = "none"
      BY <1>1, <1>4, <2>1 DEF StartWorker, TypeInv, StartupInv, NotStarted, MainSet
    <2>3. /\ \A v \in Workers \ {w} : worker'[v] = worker[v]
          /\ worker'[w].pc \in {"new", "exited"}
          /\ worker'[w].entry = worker[w].entry
      BY ZenonT(30), <1>1, <1>4, <2>1 DEF StartWorker, WorkerSet
    <2>4. worker[w].entry = 0
      BY <2>2 DEF EntryInv
    <2>5. w \notin Named /\ Named' = Named
      BY <1>3, <2>2, <2>3, <2>4 DEF Named
    <2>6. ASSUME hurries = 0, NEW v \in Workers, worker'[v].pc # "scan"
          PROVE  worker'[v].entry <= configidx
      BY <1>1, <2>2, <2>3, <2>6 DEF NameInv
    <2> QED BY <1>1, <1>2, <2>3, <2>5, <2>6, NameFrame DEF Named
  <1>5. CASE ~ StartWorker
    <2>1. worker' = worker
      BY <1>5 DEF Main, GetInit, InitTimeout, LowerRights, ReleaseRun,
         StartControl, StartListener, threads
    <2>2. Named' = Named
      BY <1>3, <2>1 DEF Named
    <2> QED BY <1>1, <1>2, <2>1, <2>2, NameFrame DEF NameInv
  <1> QED BY <1>4, <1>5

LEMMA NameStep ==
    TypeInv /\ EntryInv /\ NameInv /\ [LNext]_<<vars, lvars>> => NameInv'
  <1> SUFFICES ASSUME TypeInv, EntryInv, NameInv, [LNext]_<<vars, lvars>>
      PROVE NameInv'
    OBVIOUS
  <1>1. setup' = setup
    BY SetupKept
  <1>2. CASE Control \/ Listener \/ (\E c \in Clients : ClientThread(c))
             \/ UNCHANGED <<vars, lvars>>
    <2>1. UNCHANGED <<maps, worker, command, hurries, raced>>
      <3>1. CASE Control
        BY <3>1 DEF Control, LoadThreadIDControl, StoreThreadIDControl, Connect,
           GetRunControl, accidents
      <3>2. CASE Listener \/ \E c \in Clients : ClientThread(c)
        BY <3>2, ListenerFrame DEF threads
      <3>3. CASE UNCHANGED <<vars, lvars>>
        BY <3>3 DEF vars, threads, accidents
      <3> QED BY <1>2, <3>1, <3>2, <3>3
    <2>2. Named' = Named
      BY <1>1, <2>1 DEF Named, Workers, Entries
    <2> QED BY <1>1, <2>1, <2>2, NameFrame DEF maps, NameInv
  <1> QED BY <1>1, <1>2, NameLookup, NameMain, NameWorker DEF LNext, Next

\* A command for a localid wakes the worker of its last entry, and a command
\* thread polls a semaphore of its own localid or of a later entry's: for every
\* configuration, unless a worker was overtaken or an insertion was lost.
THEOREM CommandsFound == Spec => []CommandsFindWorkers
  <1>1. TypeInv /\ EntryInv /\ NameInv => CommandsFindWorkers
    <2> SUFFICES ASSUME TypeInv, EntryInv, NameInv, hurries = 0, ~ raced,
                        NEW w \in Named,
                        \A v \in Named : worker[v].entry > worker[w].entry =>
                           Localid(worker[v].entry) # Localid(worker[w].entry)
        PROVE localidSems[Localid(worker[w].entry)] = worker[w].number
      BY DEF CommandsFindWorkers, LastWorkerOwnsLocalid, NameInv
    <2>1. /\ worker \in [Workers -> WorkerSet] /\ Workers = 1 .. Entries
          /\ \A k \in 1 .. Entries : Localid(k) \in Localids
      BY TypeParts, Constants DEF TypeInv, StartupInv
    <2>2. w \in Workers /\ worker[w].entry \in 1 .. Entries
      BY <2>1 DEF Named, WorkerSet
    <2>3. PICK l \in Localids : l = Localid(worker[w].entry)
      BY <2>1, <2>2
    <2>4. HasLocalid(w, l)
      BY <2>3 DEF HasLocalid
    <2>5. PICK v \in Workers : Owner(l, v)
      BY <2>2, <2>4 DEF NameInv, NamesOwned
    <2>6. /\ v \in Named /\ Localid(worker[v].entry) = l
          /\ worker[w].entry <= worker[v].entry
      BY <2>2, <2>4, <2>5 DEF Owner, HasLocalid
    <2>7. worker[v].entry = worker[w].entry
      BY <2>1, <2>2, <2>3, <2>5, <2>6 DEF WorkerSet
    <2>8. v = w
      BY <2>2, <2>5, <2>7 DEF EntryInv, OneAtATime
    <2> QED BY <2>3, <2>5, <2>8 DEF Owner
  <1> QED BY <1>1, InitType, StepType, EntryInit, EntryStep, NameInit, NameStep,
             PTL DEF Spec

=============================================================================
