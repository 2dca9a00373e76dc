------------------------------ MODULE HostWatch ------------------------------
(* The SYSHOST worker: every pass of run checks that each configured program *)
(* still runs. check_process trusts the pid it last found for the name as    *)
(* long as a process has that pid; otherwise load_processes reads all of     *)
(* /proc again, one process after the other, while the system goes on.       *)
EXTENDS Naturals, Sequences, SequencesExt

CONSTANTS
    Places,         \* a finite set of process ids
    Kinds,          \* what can run: [exe, line], the link and the command line
    Watched,        \* the configured scripts, then the processes, in order
    MaxChanges,     \* bound: processes started or ended
    MaxPasses       \* bound: passes of run

ASSUME WatchAssumption ==
    /\ Places \subseteq Nat \ {0}
    /\ Watched \in Seq(ToSet(Watched))

NoProcess == [exe |-> "", line |-> ""]
Unknown == 0

VARIABLES
    alive,          \* the system: what each pid runs
    changes,
    procs, cmdlines,    \* the last pid found for a name
    pc,             \* where check_process is
    todo,           \* names of this pass still to check
    scan,           \* the pids of scandir still to read
    passes,
    steady,         \* history: pids with one process since the check began
    up,             \* history: names some process has had since then
    mistaken        \* history: the pid trusted is another program's

watchVars == <<alive, changes, procs, cmdlines, pc, todo, scan, passes, steady,
               up, mistaken>>

Is(kind, name) == kind # NoProcess /\ (kind.exe = name \/ kind.line = name)
WatchedNames == ToSet(Watched)
UpNow(system) == {n \in WatchedNames : \E p \in Places : Is(system[p], n)}

WatchInit ==
    /\ alive \in [Places -> Kinds \cup {NoProcess}]
    /\ changes = 0
    /\ procs = [n \in WatchedNames |-> Unknown]
    /\ cmdlines = [n \in WatchedNames |-> Unknown]
    /\ pc = "check"
    /\ todo = Watched
    /\ scan = {}
    /\ passes = 0
    /\ steady = {p \in Places : alive[p] # NoProcess}
    /\ up = UpNow(alive)
    /\ mistaken = FALSE

-----------------------------------------------------------------------------
\* A process starts in a free pid, one used before included, or ends.
Change(p, kind) ==
    /\ changes < MaxChanges
    /\ changes' = changes + 1
    /\ (alive[p] = NoProcess) # (kind = NoProcess)
    /\ alive' = [alive EXCEPT ![p] = kind]
    /\ steady' = steady \ {p}
    /\ up' = up \cup UpNow(alive')
    /\ UNCHANGED <<procs, cmdlines, pc, todo, scan, passes, mistaken>>

-----------------------------------------------------------------------------
Known(name) == IF procs[name] # Unknown THEN procs[name] ELSE cmdlines[name]

HasProcess(name) == Known(name) # Unknown /\ alive[Known(name)] # NoProcess

\* The check of the next name begins: what counts is what runs from here on.
NextName ==
    /\ todo' = Tail(todo)
    /\ steady' = {p \in Places : alive[p] # NoProcess}
    /\ up' = UpNow(alive)
    /\ mistaken' = FALSE

\* read_proc_entry(pid, 0): some process has the pid.
Trust ==
    /\ pc = "check" /\ todo # <<>>
    /\ HasProcess(Head(todo))
    /\ mistaken' = ~Is(alive[Known(Head(todo))], Head(todo))
    /\ pc' = "found"
    /\ UNCHANGED <<alive, changes, procs, cmdlines, todo, scan, passes, steady,
                   up>>

\* The pid is not forgotten: the name keeps it when the scan does not find it.
ReloadKeeps ==
    /\ pc = "check" /\ todo # <<>>
    /\ ~HasProcess(Head(todo))
    /\ scan' = {p \in Places : alive[p] # NoProcess}
    /\ pc' = "scan"
    /\ UNCHANGED <<alive, changes, procs, cmdlines, todo, passes, steady, up,
                   mistaken>>

\* check_process forgets the pid of the name and load_processes lists /proc.
Reload ==
    /\ pc = "check" /\ todo # <<>>
    /\ ~HasProcess(Head(todo))
    /\ procs' = [procs EXCEPT ![Head(todo)] = Unknown]
    /\ cmdlines' = [cmdlines EXCEPT ![Head(todo)] = Unknown]
    /\ scan' = {p \in Places : alive[p] # NoProcess}
    /\ pc' = "scan"
    /\ UNCHANGED <<alive, changes, todo, passes, steady, up, mistaken>>

Found(table, name, p) ==
    IF name \in WatchedNames THEN [table EXCEPT ![name] = p] ELSE table

\* read_proc_entry(pid, 1): a process that has ended is passed over. The list
\* is sorted by pids as strings; here any order.
ScanOne ==
    /\ pc = "scan"
    /\ \E p \in scan :
        /\ scan' = scan \ {p}
        /\ IF alive[p] = NoProcess THEN UNCHANGED <<procs, cmdlines>>
           ELSE /\ procs' = Found(procs, alive[p].exe, p)
                /\ cmdlines' = Found(cmdlines, alive[p].line, p)
    /\ UNCHANGED <<alive, changes, pc, todo, passes, steady, up, mistaken>>

\* The name is reported as not running when the scan did not find it.
ScanDone ==
    /\ pc = "scan" /\ scan = {}
    /\ pc' = IF Known(Head(todo)) = Unknown THEN "missing" ELSE "found"
    /\ UNCHANGED <<alive, changes, procs, cmdlines, todo, scan, passes, steady,
                   up, mistaken>>

Next1 ==
    /\ pc \in {"found", "missing"}
    /\ NextName
    /\ pc' = "check"
    /\ UNCHANGED <<alive, changes, procs, cmdlines, scan, passes>>

\* The pass ends with the alert; the next one follows after loop_interval.
NextPass ==
    /\ pc = "check" /\ todo = <<>>
    /\ passes < MaxPasses
    /\ passes' = passes + 1
    /\ todo' = Watched
    /\ steady' = {p \in Places : alive[p] # NoProcess}
    /\ up' = UpNow(alive)
    /\ mistaken' = FALSE
    /\ UNCHANGED <<alive, changes, procs, cmdlines, pc, scan>>

WatchNext ==
    \/ \E p \in Places, kind \in Kinds \cup {NoProcess} : Change(p, kind)
    \/ Trust \/ Reload \/ ScanOne \/ ScanDone \/ Next1 \/ NextPass

-----------------------------------------------------------------------------
\* The verdict on a name is right whatever starts and ends meanwhile: it is
\* reported only if no process of that name was there all through its check,
\* and passed over only if one was there at some time during the check, or if
\* the pid last found for it was then another program's (check_process).
RightVerdict ==
    /\ pc = "missing" => \A p \in steady : ~Is(alive[p], Head(todo))
    /\ pc = "found" => Head(todo) \in up \/ mistaken

=============================================================================
