---------------------------- MODULE ProcessEvents ----------------------------
(* The NETLINK worker: the kernel queues an event for every fork, exec, exit *)
(* and change of user; run takes them one at a time, looks the processes up  *)
(* in procvals or, the first time, in /proc as it is by then, and sends a    *)
(* message. An exit leaves the entry in procvals, and pids are used again.   *)
EXTENDS Naturals, Sequences, SequencesExt

CONSTANTS
    Pids,           \* process ids (1 and 2 are init and kthreadd)
    Programs,       \* what a process can run
    Logger,         \* /usr/bin/syslog-ng
    MaxEvents,      \* bound: events the kernel sends
    MaxQueue        \* bound: events waiting to be read

ASSUME ProcessAssumption == Pids \subseteq Nat \ {0} /\ Logger \in Programs

Gone == "gone"
Nothing == ""           \* the text of a /proc link that cannot be read
NoPid == 0

VARIABLES
    running,    \* the system: what each pid runs, or Gone
    everRan,    \* history: what each pid has ever run
    events,     \* the number of events so far
    queue,      \* events sent and not yet read
    procvals,   \* what has been read from /proc, by pid
    fbuf,       \* the buffer read_proc_entry reads the link into
    msg,        \* the text of the last message made
    messages    \* what has been handed to add_client_data

processVars == <<running, everRan, events, queue, procvals, fbuf, msg,
                 messages>>
system == <<running, everRan, events>>

Text(parent, parentExe, pid, exe) ==
    [parent |-> parent, parentExe |-> parentExe, pid |-> pid, exe |-> exe]
NoText == Text(NoPid, Nothing, NoPid, Nothing)

\* run reads an entry for every process there is before the first event.
ProcessInit ==
    /\ running \in [Pids -> {Gone} \cup Programs]
    /\ everRan = [p \in Pids |-> {running[p]}]
    /\ events = 0
    /\ queue = <<>>
    /\ procvals = [p \in {q \in Pids : running[q] # Gone} |-> running[p]]
    /\ fbuf = Nothing
    /\ msg = NoText
    /\ messages = <<>>

-----------------------------------------------------------------------------
(* The system.                                                               *)

Event(kind, parent, pid) == [kind |-> kind, parent |-> parent, pid |-> pid]

Runs(pid, program, event) ==
    /\ events < MaxEvents /\ Len(queue) < MaxQueue
    /\ events' = events + 1
    /\ queue' = Append(queue, event)
    /\ running' = [running EXCEPT ![pid] = program]
    /\ everRan' = [everRan EXCEPT ![pid] = @ \cup {program}]
    /\ UNCHANGED <<procvals, fbuf, msg, messages>>

Fork(parent, child) ==
    /\ running[parent] # Gone /\ running[child] = Gone
    /\ Runs(child, running[parent], Event("fork", parent, child))

Exec(pid, program) ==
    /\ running[pid] # Gone
    /\ Runs(pid, program, Event("exec", NoPid, pid))

Exit(pid) ==
    /\ running[pid] # Gone
    /\ Runs(pid, Gone, Event("exit", NoPid, pid))

\* A change of user, or an event run has no case for (a new session, a comm).
OtherEvent(pid, kind) ==
    /\ running[pid] # Gone
    /\ Runs(pid, running[pid], Event(kind, NoPid, pid))

-----------------------------------------------------------------------------
(* get_proc_vals, on the values it has reached: the table, the buffer, the   *)
(* text and whether the message is to be sent.                                   *)

\* The link of a process that is gone cannot be read, and the buffer keeps
\* what was there.
LinkKept(fb, pid) == IF running[pid] = Gone THEN fb ELSE running[pid]

\* The buffer is cleared before the link is read.
Link(fb, pid) == IF running[pid] = Gone THEN Nothing ELSE running[pid]

Values(table, buffer, text, send) ==
    [table |-> table, fbuf |-> buffer, text |-> text, send |-> send]

ReadProcEntry(v, pid) ==
    LET exe == Link(v.fbuf, pid)
    IN  Values([p \in DOMAIN v.table \cup {pid} |->
                    IF p = pid THEN exe ELSE v.table[p]],
               exe, v.text, v.send)

Start == Values(procvals, fbuf, NoText, TRUE)

Silent(v) == Values(v.table, v.fbuf, NoText, FALSE)

WithParent(v, ppid) ==
    Values(v.table, v.fbuf,
           Text(ppid, v.table[ppid], v.text.pid, v.text.exe), v.send)
WithProcess(v, pid) ==
    Values(v.table, v.fbuf,
           Text(v.text.parent, v.text.parentExe, pid, v.table[pid]), TRUE)

GetProcVals(ppid, pid) ==
    LET hasParent == ppid # NoPid /\ ppid # pid
        known == IF hasParent /\ ppid \in DOMAIN procvals
                 THEN WithParent(Start, ppid) ELSE Start
        parentRead == IF hasParent
                      THEN WithParent(ReadProcEntry(known, ppid), ppid)
                      ELSE known
        bothRead == ReadProcEntry(parentRead, pid)
    IN  IF ppid \in {1, 2} THEN Silent(Start)
        ELSE IF hasParent /\ ppid \in DOMAIN procvals /\ procvals[ppid] = Logger
        THEN Silent(Start)
        ELSE IF pid \in DOMAIN procvals
        THEN IF procvals[pid] = Logger THEN Silent(known)
             ELSE WithProcess(known, pid)
        ELSE IF bothRead.table[pid] = Logger THEN Silent(bothRead)
        ELSE WithProcess(bothRead, pid)

\* One round of run. The message of an event is made also when it is not to
\* be sent; a change of user needs no lookup; an event run has no case for
\* leaves msg as it was, and msg is sent then.
Receive ==
    /\ queue # <<>>
    /\ queue' = Tail(queue)
    /\ LET e == Head(queue)
           v == IF e.kind \in {"fork", "exec", "exit"}
                THEN GetProcVals(e.parent, e.pid) ELSE Start
           made == IF e.kind = "other" THEN msg
                   ELSE Text(e.parent, v.text.parentExe, e.pid, v.text.exe)
       IN  /\ procvals' = v.table
           /\ fbuf' = v.fbuf
           /\ msg' = made
           /\ messages' = IF v.send /\ made # NoText
                          THEN Append(messages, made) ELSE messages
    /\ UNCHANGED system

ProcessNext ==
    \/ \E p, q \in Pids : Fork(p, q)
    \/ \E p \in Pids : Exit(p) \/ (\E program \in Programs : Exec(p, program))
    \/ \E p \in Pids, kind \in {"user", "other"} : OtherEvent(p, kind)
    \/ Receive

-----------------------------------------------------------------------------
\* However late an event is read and however often a pid is used again, the
\* programs a message names are ones its processes have run, or none: never
\* what was read for another process (get_proc_vals, read_proc_entry). It
\* need not be what the process runs now: procvals is never corrected.
NamesWhatRan ==
    \A i \in DOMAIN messages :
        LET m == messages[i]
        IN  /\ m.pid # NoPid => m.exe \in everRan[m.pid] \cup {Nothing}
            /\ m.parent # NoPid =>
                    m.parentExe \in everRan[m.parent] \cup {Nothing}

=============================================================================
