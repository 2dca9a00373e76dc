---------------------------- MODULE SystemProofs ----------------------------
(* Theorems about the system workers, for any programs, processes, names,    *)
(* events and bounds: what NETLINK's messages name, SYSHOST's verdicts, and  *)
(* the records AUDITD makes of the lines it reads.                           *)
EXTENDS SystemDriver, SequenceTheorems, FiniteSetTheorems,
        WellFoundedInduction, TLAPS

-----------------------------------------------------------------------------
(* NETLINK.                                                                  *)

Exes == Programs \cup {Nothing}
Texts == [parent : Pids \cup {NoPid}, parentExe : Exes,
          pid : Pids \cup {NoPid}, exe : Exes]
EventSet == [kind : {"fork", "exec", "exit", "user", "other"},
             parent : Pids \cup {NoPid}, pid : Pids]

\* exe is a program pid has run, or none.
Named(pid, exe) == pid # NoPid => exe \in everRan[pid] \cup {Nothing}
Truthful(text) ==
    Named(text.parent, text.parentExe) /\ Named(text.pid, text.exe)
TruthfulTable(table) ==
    /\ DOMAIN table \subseteq Pids
    /\ table \in [DOMAIN table -> Exes]
    /\ \A p \in DOMAIN table : Named(p, table[p])

\* The table is never wrong about the past: what it has of a pid, the pid has
\* run some day; and so are the texts, the one that is sent again included.
NamesInv ==
    /\ running \in [Pids -> Programs \cup {Gone}]
    /\ everRan \in [Pids -> SUBSET (Programs \cup {Gone})]
    /\ \A p \in Pids : running[p] \in everRan[p]
    /\ queue \in Seq(EventSet)
    /\ TruthfulTable(procvals) /\ fbuf \in Exes
    /\ msg \in Texts /\ Truthful(msg)
    /\ messages \in Seq(Texts)
    /\ \A i \in DOMAIN messages : Truthful(messages[i])

\* What get_proc_vals(ppid, pid) may have reached.
Reached(v, ppid, pid) ==
    /\ v = [table |-> v.table, fbuf |-> v.fbuf, text |-> v.text,
            send |-> v.send]
    /\ TruthfulTable(v.table) /\ v.fbuf \in Exes /\ v.text \in Texts
    /\ Named(ppid, v.text.parentExe) /\ Named(pid, v.text.exe)

LEMMA PidNotNone == NoPid \notin Pids
  BY ProcessAssumption DEF NoPid

LEMMA StartReached ==
    ASSUME NamesInv, NEW ppid, NEW pid
    PROVE  Reached(Start, ppid, pid)
  BY DEF NamesInv, Reached, Start, Values, NoText, Text, Named, Texts, Exes

LEMMA SilentReached ==
    ASSUME NEW v, NEW ppid, NEW pid, Reached(v, ppid, pid)
    PROVE  Reached(Silent(v), ppid, pid)
  BY DEF Reached, Silent, Values, NoText, Text, Named, Texts, Exes

\* read_proc_entry: what it reads, the process runs now, or nothing.
LEMMA ReadReached ==
    ASSUME NamesInv, NEW v, NEW ppid, NEW pid, NEW p \in Pids,
           Reached(v, ppid, pid)
    PROVE  /\ Reached(ReadProcEntry(v, p), ppid, pid)
           /\ DOMAIN ReadProcEntry(v, p).table = DOMAIN v.table \cup {p}
  <1> DEFINE exe == Link(v.fbuf, p)
             t == [q \in DOMAIN v.table \cup {p} |->
                      IF q = p THEN exe ELSE v.table[q]]
  <1>1. exe \in Exes /\ Named(p, exe)
    BY DEF NamesInv, Link, Named, Exes
  <1>2. TruthfulTable(t)
    BY <1>1 DEF Reached, TruthfulTable
  <1>3. ReadProcEntry(v, p) = [table |-> t, fbuf |-> exe, text |-> v.text,
                               send |-> v.send]
    BY DEF ReadProcEntry, Values
  <1> HIDE DEF exe, t
  <1>4. DOMAIN t = DOMAIN v.table \cup {p}
    BY DEF t
  <1> QED
    BY <1>1, <1>2, <1>3, <1>4 DEF Reached

LEMMA ParentReached ==
    ASSUME NEW v, NEW ppid, NEW pid, Reached(v, ppid, pid),
           ppid \in DOMAIN v.table
    PROVE  /\ Reached(WithParent(v, ppid), ppid, pid)
           /\ WithParent(v, ppid).table = v.table
  <1>1. ppid \in Pids /\ v.table[ppid] \in Exes /\ Named(ppid, v.table[ppid])
    BY DEF Reached, TruthfulTable
  <1> QED
    BY <1>1 DEF WithParent, Values, Text, Reached, Texts

LEMMA ProcessReached ==
    ASSUME NEW v, NEW ppid, NEW pid, Reached(v, ppid, pid),
           pid \in DOMAIN v.table
    PROVE  Reached(WithProcess(v, pid), ppid, pid)
  <1>1. pid \in Pids /\ v.table[pid] \in Exes /\ Named(pid, v.table[pid])
    BY DEF Reached, TruthfulTable
  <1> QED
    BY <1>1 DEF WithProcess, Values, Text, Reached, Texts

\* All that get_proc_vals can return is true of the pids it was asked for.
LEMMA LookupReached ==
    ASSUME NamesInv, NEW ppid \in Pids \cup {NoPid}, NEW pid \in Pids
    PROVE  Reached(GetProcVals(ppid, pid), ppid, pid)
  <1> DEFINE hasParent == ppid # NoPid /\ ppid # pid
             known == IF hasParent /\ ppid \in DOMAIN procvals
                      THEN WithParent(Start, ppid) ELSE Start
             parentRead == IF hasParent
                           THEN WithParent(ReadProcEntry(known, ppid), ppid)
                           ELSE known
             bothRead == ReadProcEntry(parentRead, pid)
  <1>1. Reached(Start, ppid, pid) /\ Start.table = procvals
    BY StartReached DEF Start, Values
  <1>2. Reached(known, ppid, pid) /\ known.table = procvals
    BY <1>1, ParentReached
  <1> HIDE DEF known
  <1>3. Reached(parentRead, ppid, pid)
    <2>1. CASE hasParent
      <3>1. ppid \in Pids
        BY <2>1
      <3> DEFINE u == ReadProcEntry(known, ppid)
      <3>2. Reached(u, ppid, pid) /\ DOMAIN u.table = DOMAIN known.table \cup {ppid}
        BY <1>2, <3>1, ReadReached
      <3>t. ppid \in DOMAIN u.table
        BY <3>2
      <3>3. Reached(WithParent(ReadProcEntry(known, ppid), ppid), ppid, pid)
        BY <3>2, <3>t, ParentReached
      <3> QED
        BY <2>1, <3>3
    <2>2. CASE ~ hasParent
      BY <2>2, <1>2
    <2> QED
      BY <2>1, <2>2
  <1> HIDE DEF parentRead
  <1>4. Reached(bothRead, ppid, pid) /\ pid \in DOMAIN bothRead.table
    BY <1>3, ReadReached
  <1> HIDE DEF bothRead
  <1>5. /\ Reached(Silent(Start), ppid, pid)
        /\ Reached(Silent(known), ppid, pid)
        /\ Reached(Silent(bothRead), ppid, pid)
        /\ Reached(WithProcess(bothRead, pid), ppid, pid)
        /\ pid \in DOMAIN procvals => Reached(WithProcess(known, pid), ppid, pid)
    BY <1>1, <1>2, <1>4, SilentReached, ProcessReached
  <1> QED
    BY <1>5 DEF GetProcVals, known, parentRead, bothRead

LEMMA NamesInit == DriverInit => NamesInv
  BY DEF DriverInit, ProcessInit, NamesInv, TruthfulTable, Truthful, Named,
         NoText, Text, Texts, Exes

\* A text that was true stays true: what a pid has run is never forgotten.
LEMMA Grown ==
    ASSUME NamesInv, NEW p \in Pids, NEW program \in Programs \cup {Gone},
           NEW e \in EventSet, Runs(p, program, e)
    PROVE  NamesInv'
  <1>1. /\ running' \in [Pids -> Programs \cup {Gone}]
        /\ everRan' \in [Pids -> SUBSET (Programs \cup {Gone})]
        /\ \A q \in Pids : everRan[q] \subseteq everRan'[q]
        /\ \A q \in Pids : running'[q] \in everRan'[q]
    BY DEF Runs, NamesInv
  <1>2. queue' \in Seq(EventSet)
    BY DEF Runs, NamesInv
  <1>3. \A text \in Texts : Truthful(text) => Truthful(text)'
    BY <1>1, PidNotNone DEF Truthful, Named, Texts
  <1>4. TruthfulTable(procvals)'
    BY <1>1 DEF Runs, NamesInv, TruthfulTable, Named
  <1> QED
    BY <1>1, <1>2, <1>3, <1>4 DEF Runs, NamesInv

LEMMA ReceiveKept ==
    ASSUME NamesInv, Receive
    PROVE  NamesInv'
  <1> DEFINE e == Head(queue)
             v == IF e.kind \in {"fork", "exec", "exit"}
                  THEN GetProcVals(e.parent, e.pid) ELSE Start
             made == IF e.kind = "other" THEN msg
                     ELSE Text(e.parent, v.text.parentExe, e.pid, v.text.exe)
  <1>1. e \in EventSet /\ queue' \in Seq(EventSet)
    BY DEF Receive, NamesInv
  <1>2. Reached(v, e.parent, e.pid)
    BY <1>1, LookupReached, StartReached DEF EventSet
  <1>3. made \in Texts /\ Truthful(made)
    <2>1. CASE e.kind = "other"
      BY <2>1 DEF NamesInv
    <2>2. CASE e.kind # "other"
      <3> HIDE DEF v, e
      <3>1. v.text \in Texts
        BY <1>2 DEF Reached
      <3> QED
        BY <1>1, <1>2, <2>2, <3>1
        DEF Reached, Text, Texts, EventSet, Truthful
    <2> QED
      BY <2>1, <2>2
  <1>4. /\ procvals' = v.table /\ fbuf' = v.fbuf /\ msg' = made
        /\ messages' \in {messages, Append(messages, made)}
        /\ UNCHANGED system
    BY DEF Receive
  <1> HIDE DEF e, v, made
  <1>5. everRan' = everRan
    BY <1>4 DEF system
  <1>6. /\ messages' \in Seq(Texts)
        /\ \A i \in DOMAIN messages' : Truthful(messages'[i])
    <2>1. CASE messages' = messages
      BY <2>1 DEF NamesInv
    <2>2. CASE messages' = Append(messages, made)
      <3>1. messages \in Seq(Texts) /\ \A i \in 1 .. Len(messages) : Truthful(messages[i])
        BY DEF NamesInv
      <3>2. /\ messages' \in Seq(Texts) /\ Len(messages') = Len(messages) + 1
            /\ \A i \in 1 .. Len(messages) : messages'[i] = messages[i]
            /\ messages'[Len(messages) + 1] = made
        BY <1>3, <2>2, <3>1
      <3>3. \A i \in 1 .. Len(messages') : i \in 1 .. Len(messages) \/ i = Len(messages) + 1
        BY <3>1, <3>2
      <3> QED
        BY <1>3, <3>1, <3>2, <3>3
    <2> QED
      BY <1>4, <2>1, <2>2
  <1>7. TruthfulTable(procvals)'
    BY <1>2, <1>4 DEF TruthfulTable, Named, Reached, system
  <1> QED
    BY <1>1, <1>2, <1>3, <1>4, <1>5, <1>6, <1>7
    DEF NamesInv, Reached, system, Truthful, Named

LEMMA NamesStep == NamesInv /\ [DriverNext]_driverVars => NamesInv'
  <1> SUFFICES ASSUME NamesInv, [DriverNext]_driverVars PROVE NamesInv'
    OBVIOUS
  <1>1. CASE UNCHANGED processVars
    BY <1>1 DEF NamesInv, processVars, TruthfulTable, Truthful, Named
  <1>2. ASSUME NEW p \in Pids, NEW q \in Pids, Fork(p, q) PROVE NamesInv'
    <2>1. running[p] \in Programs \cup {Gone}
          /\ Event("fork", p, q) \in EventSet
      BY DEF NamesInv, Event, EventSet
    <2> QED
      BY <1>2, <2>1, Grown DEF Fork
  <1>3. ASSUME NEW p \in Pids, Exit(p) PROVE NamesInv'
    <2>1. Event("exit", NoPid, p) \in EventSet
      BY DEF Event, EventSet
    <2> QED
      BY <1>3, <2>1, Grown DEF Exit
  <1>4. ASSUME NEW p \in Pids, NEW program \in Programs, Exec(p, program)
        PROVE NamesInv'
    <2>1. Event("exec", NoPid, p) \in EventSet
      BY DEF Event, EventSet
    <2> QED
      BY <1>4, <2>1, Grown DEF Exec
  <1>5. ASSUME NEW p \in Pids, NEW kind \in {"user", "other"},
               OtherEvent(p, kind)
        PROVE NamesInv'
    <2>1. running[p] \in Programs \cup {Gone}
          /\ Event(kind, NoPid, p) \in EventSet
      BY DEF NamesInv, Event, EventSet
    <2> QED
      BY <1>5, <2>1, Grown DEF OtherEvent
  <1>6. CASE Receive
    BY <1>6, ReceiveKept
  <1> QED
    BY <1>1, <1>2, <1>3, <1>4, <1>5, <1>6
    DEF DriverNext, ProcessNext, driverVars

\* Every program a message of NETLINK names is one its process has run.
THEOREM MessagesTrue == Spec => []NamesWhatRan
  <1>1. NamesInv => NamesWhatRan
    BY DEF NamesInv, NamesWhatRan, Truthful, Named
  <1> QED
    BY <1>1, NamesInit, NamesStep, PTL DEF Spec

-----------------------------------------------------------------------------
(* SYSHOST.                                                                  *)

WatchTypes ==
    /\ pc \in {"check", "scan", "found", "missing"}
    /\ todo \in Seq(WatchedNames)
    /\ pc # "check" => todo # <<>>
    /\ alive \in [Places -> Kinds \cup {NoProcess}]
    /\ procs \in [WatchedNames -> Places \cup {Unknown}]
    /\ cmdlines \in [WatchedNames -> Places \cup {Unknown}]
    /\ scan \subseteq Places

\* A process that has been there all through the check is found or still to be
\* read, and what was found was there.
Scanned(name) ==
    /\ Known(name) # Unknown => name \in up
    /\ \A p \in steady : Is(alive[p], name) => p \in scan \/ Known(name) # Unknown

WatchInv ==
    /\ WatchTypes
    /\ steady \subseteq {p \in Places : alive[p] # NoProcess}
    /\ UpNow(alive) \subseteq up
    /\ pc = "scan" => Scanned(Head(todo))
    /\ RightVerdict

LEMMA Distinct == Unknown \notin Places /\ Watched \in Seq(WatchedNames)
  BY WatchAssumption DEF Unknown, WatchedNames

LEMMA WatchStart == DriverInit => WatchInv
  BY Distinct DEF DriverInit, WatchInit, WatchInv, WatchTypes, RightVerdict

LEMMA NameToCheck ==
    ASSUME WatchTypes, todo # <<>>
    PROVE  Head(todo) \in WatchedNames /\ Tail(todo) \in Seq(WatchedNames)
  BY DEF WatchTypes

\* Whatever starts or ends takes its pid out of steady and its names into up.
LEMMA ChangeKept ==
    ASSUME WatchInv, NEW p \in Places, NEW kind \in Kinds \cup {NoProcess},
           Change(p, kind)
    PROVE  WatchInv'
  <1>1. /\ alive' \in [Places -> Kinds \cup {NoProcess}]
        /\ steady' \subseteq steady
        /\ \A q \in steady' : q \in Places /\ alive'[q] = alive[q]
        /\ UpNow(alive)' \subseteq up' /\ up \subseteq up'
        /\ UNCHANGED <<procs, cmdlines, pc, todo, scan, mistaken>>
    BY DEF Change, WatchInv, WatchTypes, UpNow, WatchedNames
  <1>2. WatchTypes'
    BY <1>1 DEF WatchInv, WatchTypes, WatchedNames
  <1>3. Scanned(Head(todo)) => Scanned(Head(todo))'
    BY <1>1 DEF Scanned, Known
  <1>4. RightVerdict'
    BY <1>1 DEF WatchInv, RightVerdict
  <1> QED
    BY <1>1, <1>2, <1>3, <1>4 DEF WatchInv

\* The pid is some process's: the name is up, or it is another program's.
LEMMA TrustKept == WatchInv /\ Trust => WatchInv'
  <1> SUFFICES ASSUME WatchInv, Trust PROVE WatchInv'
    OBVIOUS
  <1> DEFINE name == Head(todo)
             p == Known(name)
  <1>1. name \in WatchedNames
    BY NameToCheck DEF Trust, WatchInv
  <1>2. p \in Places
    BY <1>1 DEF Trust, HasProcess, Known, WatchInv, WatchTypes
  <1>3. Is(alive[p], name) => name \in up
    BY <1>1, <1>2 DEF WatchInv, UpNow
  <1>4. RightVerdict'
    BY <1>3 DEF Trust, RightVerdict
  <1>5. WatchTypes'
    BY DEF Trust, WatchInv, WatchTypes, WatchedNames
  <1> QED
    BY <1>4, <1>5 DEF Trust, WatchInv, UpNow, WatchedNames

\* Nothing is known of the name, and every process is still to be read.
LEMMA ReloadKept == WatchInv /\ Reload => WatchInv'
  <1> SUFFICES ASSUME WatchInv, Reload PROVE WatchInv'
    OBVIOUS
  <1>1. Head(todo) \in WatchedNames
    BY NameToCheck DEF Reload, WatchInv
  <1>2. WatchTypes'
    BY <1>1 DEF Reload, WatchInv, WatchTypes, WatchedNames
  <1>3. procs'[Head(todo)] = Unknown /\ cmdlines'[Head(todo)] = Unknown
    BY <1>1 DEF Reload, WatchInv, WatchTypes
  <1>4. Scanned(Head(todo))'
    BY <1>3 DEF Reload, WatchInv, Scanned, Known
  <1> QED
    BY <1>2, <1>4 DEF Reload, WatchInv, RightVerdict, UpNow, WatchedNames

LEMMA ScanOneKept == WatchInv /\ ScanOne => WatchInv'
  <1> SUFFICES ASSUME WatchInv, NEW p \in scan, pc = "scan", scan' = scan \ {p},
                      IF alive[p] = NoProcess THEN UNCHANGED <<procs, cmdlines>>
                      ELSE /\ procs' = Found(procs, alive[p].exe, p)
                           /\ cmdlines' = Found(cmdlines, alive[p].line, p),
                      UNCHANGED <<alive, changes, pc, todo, passes, steady, up,
                                  mistaken>>
               PROVE  WatchInv'
    BY DEF ScanOne
  <1> DEFINE name == Head(todo)
  <1>1. p \in Places /\ p # Unknown /\ name \in WatchedNames
    BY Distinct, NameToCheck DEF WatchInv, WatchTypes
  <1>2. WatchTypes'
    BY <1>1 DEF WatchInv, WatchTypes, WatchedNames, Found
  <1>3. Scanned(name)'
    <2>1. CASE alive[p] = NoProcess
      BY <2>1 DEF WatchInv, Scanned, Known, Is
    <2>2. CASE alive[p] # NoProcess
      <3>1. /\ procs'[name] = IF alive[p].exe = name THEN p ELSE procs[name]
            /\ cmdlines'[name] = IF alive[p].line = name THEN p
                                 ELSE cmdlines[name]
        BY <1>1, <2>2 DEF WatchInv, WatchTypes, Found
      <3>2. Is(alive[p], name) => name \in up
        BY <1>1 DEF WatchInv, UpNow
      <3>3. Is(alive[p], name) <=> alive[p].exe = name \/ alive[p].line = name
        BY <2>2 DEF Is
      <3> QED
        BY <1>1, <3>1, <3>2, <3>3 DEF WatchInv, Scanned, Known
    <2> QED
      BY <2>1, <2>2
  <1> QED
    BY <1>2, <1>3 DEF WatchInv, RightVerdict, UpNow, WatchedNames

\* All has been read: what is not known is not there.
LEMMA ScanDoneKept == WatchInv /\ ScanDone => WatchInv'
  <1> SUFFICES ASSUME WatchInv, ScanDone PROVE WatchInv'
    OBVIOUS
  <1>1. WatchTypes'
    BY DEF ScanDone, WatchInv, WatchTypes, WatchedNames
  <1>2. RightVerdict'
    BY DEF ScanDone, WatchInv, Scanned, RightVerdict
  <1> QED
    BY <1>1, <1>2 DEF ScanDone, WatchInv, UpNow, WatchedNames

LEMMA NextCheckKept == WatchInv /\ (Next1 \/ NextPass) => WatchInv'
  <1> SUFFICES ASSUME WatchInv, Next1 \/ NextPass PROVE WatchInv'
    OBVIOUS
  <1>1. todo' \in Seq(WatchedNames) /\ pc' = "check"
    BY Distinct, NameToCheck DEF Next1, NextPass, NextName, WatchInv, WatchTypes
  <1>2. WatchTypes'
    BY <1>1 DEF Next1, NextPass, WatchInv, WatchTypes, WatchedNames
  <1> QED
    BY <1>1, <1>2
    DEF Next1, NextPass, NextName, WatchInv, RightVerdict, UpNow, WatchedNames

LEMMA WatchStep == WatchInv /\ [DriverNext]_driverVars => WatchInv'
  <1> SUFFICES ASSUME WatchInv, [DriverNext]_driverVars PROVE WatchInv'
    OBVIOUS
  <1>1. CASE UNCHANGED watchVars
    BY <1>1 DEF WatchInv, watchVars, WatchTypes, Scanned, Known, RightVerdict,
                UpNow, WatchedNames
  <1> QED
    BY <1>1, ChangeKept, TrustKept, ReloadKept, ScanOneKept, ScanDoneKept,
       NextCheckKept
    DEF DriverNext, WatchNext, driverVars

\* SYSHOST reports a program only if it was not there all the time, and passes
\* over it only if it was there or its pid had become another's.
THEOREM VerdictsRight == Spec => []RightVerdict
  <1>1. WatchInv => RightVerdict
    BY DEF WatchInv
  <1> QED
    BY <1>1, WatchStart, WatchStep, PTL DEF Spec

-----------------------------------------------------------------------------
(* AUDITD.                                                                   *)

\* Induction over the places of a text.
LEMMA Steps ==
    ASSUME NEW n \in Nat, NEW S, 0 \in S,
           \A i \in 1 .. n : i - 1 \in S => i \in S
    PROVE  \A i \in 0 .. n : i \in S
  <1> DEFINE T == {i \in 0 .. n : i \notin S}
  <1> SUFFICES ASSUME T # {} PROVE FALSE
    OBVIOUS
  <1>0. T \subseteq Nat
    OBVIOUS
  <1>1. PICK x \in T : \A y \in T : ~ <<y, x>> \in OpToRel(<, Nat)
    <2> HIDE DEF T
    <2> QED
      BY <1>0, NatLessThanWellFounded, WFMin
  <1>2. x \in 1 .. n /\ x - 1 \in 0 .. n /\ x - 1 < x
    OBVIOUS
  <1>3. \A y \in T : ~ y < x
    BY <1>0, <1>1 DEF OpToRel
  <1>4. x - 1 \notin T
    BY <1>2, <1>3
  <1> QED
    BY <1>2, <1>4

\* The loop of parse_buf goes from line to line.
LEMMA ProgressSteps ==
    ASSUME NEW text, Len(text) \in Nat
    PROVE  /\ Progress(text)[0] = Parsing
           /\ \A i \in 1 .. Len(text) : Progress(text)[i] =
                IF IsLine(text, i) THEN ParseLine(Progress(text)[i - 1], text[i])
                ELSE Progress(text)[i - 1]
  <1> DEFINE After(i, s) ==
                IF IsLine(text, i) THEN ParseLine(s, text[i]) ELSE s
             Loop(n, f) ==
                f = [i \in 0 .. n |-> IF i = 0 THEN Parsing
                                      ELSE After(i, f[i - 1])]
             S == {n \in 0 .. Len(text) : \E f : Loop(n, f)}
  <1>1. Progress(text) = CHOOSE f : Loop(Len(text), f)
    BY Zenon DEF Progress
  <1> HIDE DEF After
  <1>2. 0 \in S
    <2>1. Loop(0, [i \in 0 .. 0 |-> Parsing])
      OBVIOUS
    <2> HIDE DEF Loop
    <2> QED
      BY <2>1
  <1>3. ASSUME NEW n \in 1 .. Len(text), n - 1 \in S PROVE n \in S
    <2>1. PICK f : Loop(n - 1, f)
      BY <1>3
    <2> DEFINE g == [i \in 0 .. n |-> IF i = n THEN After(n, f[n - 1])
                                      ELSE f[i]]
    <2>2. \A i \in 0 .. n - 1 : g[i] = f[i]
      OBVIOUS
    <2>3. ASSUME NEW i \in 0 .. n
          PROVE  g[i] = IF i = 0 THEN Parsing ELSE After(i, g[i - 1])
      <3>1. CASE i = n
        <4>1. g[i - 1] = f[n - 1] /\ g[i] = After(n, f[n - 1])
          BY <3>1, <2>2
        <4> QED
          BY <3>1, <4>1
      <3>2. CASE i # n
        <4>1. i \in 0 .. n - 1 /\ (i # 0 => i - 1 \in 0 .. n - 1)
          BY <3>2
        <4>2. f[i] = IF i = 0 THEN Parsing ELSE After(i, f[i - 1])
          BY <2>1, <4>1
        <4> QED
          BY <2>2, <4>1, <4>2
      <3> QED
        BY <3>1, <3>2
    <2>4. Loop(n, g)
      <3> DEFINE h == [i \in 0 .. n |-> IF i = 0 THEN Parsing
                                        ELSE After(i, g[i - 1])]
      <3>1. \A i \in 0 .. n : g[i] = h[i]
        BY <2>3
      <3>2. g = h
        <4>1. g = [i \in 0 .. n |-> g[i]] /\ h = [i \in 0 .. n |-> h[i]]
          OBVIOUS
        <4> HIDE DEF g, h
        <4> QED
          BY <3>1, <4>1
      <3> QED
        BY <3>2
    <2> HIDE DEF Loop, g
    <2> QED
      BY <2>4
  <1>4. \E f : Loop(Len(text), f)
    <2>1. Len(text) \in S
      <3> HIDE DEF S
      <3>1. \A i \in 1 .. Len(text) : i - 1 \in S => i \in S
        BY <1>3
      <3>2. \A i \in 0 .. Len(text) : i \in S
        BY <1>2, <3>1, Steps, Zenon
      <3> QED
        BY <3>2
    <2> QED
      BY <2>1
  <1>5. Loop(Len(text), Progress(text))
    <2> HIDE DEF Loop
    <2> QED
      BY <1>1, <1>4
  <1>6. \A i \in 0 .. Len(text) : Progress(text)[i] =
            IF i = 0 THEN Parsing ELSE After(i, Progress(text)[i - 1])
    BY <1>5
  <1> QED
    BY <1>6 DEF After
LineTypes == Types \cup {"EOE"}
Shown == Numbers \cup {NoNumber}
Rows == [number : Numbers, type : LineTypes]
Pieces == [number : Shown, type : LineTypes \cup {NoType, Empty},
           line : Nat, ends : BOOLEAN]
Records == [number : Shown, fields : [Types -> Nat]]

\* What a part of a line shows is the line's own, and a part that ends and has
\* data shows whose they are.
OfLine(p, rows) ==
    /\ p.line \in DOMAIN rows
    /\ p.number # NoNumber => p.number = rows[p.line].number
    /\ p.type \in LineTypes => p.type = rows[p.line].type
    /\ p.ends /\ p.type \in Types => p.number # NoNumber

TextOfLines(text) ==
    /\ text \in Seq(Pieces)
    /\ \A i \in 1 .. Len(text) : OfLine(text[i], written)
    /\ \A i \in 1 .. Len(text) - 1 : text[i].ends

\* The fields of an event are data of lines, of its own if it has a number.
OwnFields(n, fields) ==
    \A t \in Types : fields[t] # NoLine =>
        /\ fields[t] \in DOMAIN written
        /\ n # NoNumber => written[fields[t]] = [number |-> n, type |-> t]

OwnData(data) ==
    /\ DOMAIN data \subseteq Shown
    /\ \A n \in DOMAIN data :
            data[n] \in [Types -> Nat] /\ OwnFields(n, data[n])
OwnRecords(records) ==
    /\ records \in Seq(Records)
    /\ \A i \in DOMAIN records :
            OwnFields(records[i].number, records[i].fields)

LinesInv ==
    /\ written \in Seq(Rows)
    /\ wire \in Seq(Pieces)
    /\ \A i \in 1 .. Len(wire) : OfLine(wire[i], written) /\ wire[i].ends
    /\ TextOfLines(out)
    /\ OwnData(datavals)
    /\ OwnRecords(sent)

\* What the loop of parse_buf has reached.
GoodState(s) ==
    /\ s = [msgid |-> s.msgid, data |-> s.data, sent |-> s.sent,
            crashed |-> s.crashed]
    /\ s.msgid \in Shown
    /\ OwnData(s.data)
    /\ OwnRecords(s.sent)

LEMMA NoNumberIsNone == NoNumber \notin Numbers /\ NoNumber = 0 /\ NoLine = 0
  BY AuditAssumption DEF NoNumber, NoLine

LEMMA OwnWith ==
    ASSUME NEW data, OwnData(data), NEW n \in Shown,
           NEW fields \in [Types -> Nat], OwnFields(n, fields)
    PROVE  OwnData(With(data, n, fields))
  <1>1. DOMAIN With(data, n, fields) = DOMAIN data \cup {n}
    BY DEF With
  <1>2. \A m \in DOMAIN data \cup {n} :
            With(data, n, fields)[m] = IF m = n THEN fields ELSE data[m]
    BY DEF With
  <1> QED
    BY <1>1, <1>2 DEF OwnData

LEMMA NothingCollected ==
    /\ [t \in Types |-> NoLine] \in [Types -> Nat]
    /\ \A n : OwnFields(n, [t \in Types |-> NoLine])
  BY DEF OwnFields, NoLine

LEMMA FieldsOwn ==
    ASSUME NEW data, OwnData(data), NEW n \in Shown
    PROVE  Fields(data, n) \in [Types -> Nat] /\ OwnFields(n, Fields(data, n))
  <1>1. CASE n \in DOMAIN data
    BY <1>1 DEF Fields, OwnData
  <1>2. CASE n \notin DOMAIN data
    BY <1>2, NothingCollected DEF Fields
  <1> QED
    BY <1>1, <1>2

LEMMA SendDataKeeps ==
    ASSUME NEW s, GoodState(s), NEW n \in Shown
    PROVE  GoodState(SendData(s, n))
  <1>1. CASE n \notin DOMAIN s.data
    BY <1>1 DEF SendData, GoodState
  <1>2. CASE n \in DOMAIN s.data
    <2> DEFINE record == [number |-> n, fields |-> s.data[n]]
               data == With(s.data, n, [t \in Types |-> NoLine])
    <2>1. record \in Records /\ OwnFields(record.number, record.fields)
      BY <1>2 DEF GoodState, OwnData, Records
    <2>2. OwnRecords(Append(s.sent, record))
      BY <2>1 DEF GoodState, OwnRecords
    <2>3. OwnData(data)
      BY NothingCollected, OwnWith DEF GoodState
    <2>4. SendData(s, n) = [msgid |-> s.msgid, data |-> data,
                            sent |-> Append(s.sent, record),
                            crashed |-> s.crashed]
      BY <1>2 DEF SendData, GoodState
    <2> HIDE DEF record, data
    <2> QED
      BY <2>2, <2>3, <2>4 DEF GoodState
  <1> QED
    BY <1>1, <1>2

LEMMA CollectKeeps ==
    ASSUME NEW s, GoodState(s), NEW p \in Pieces, OfLine(p, written),
           written \in Seq(Rows), s.msgid = p.number \/ s.msgid = NoNumber
    PROVE  GoodState(Collect(s, p))
  <1> DEFINE fields == [Fields(s.data, s.msgid) EXCEPT ![p.type] = p.line]
             Next(f) == [msgid |-> s.msgid, data |-> With(s.data, s.msgid, f),
                         sent |-> s.sent, crashed |-> s.crashed]
  <1>0. /\ Fields(s.data, s.msgid) \in [Types -> Nat]
        /\ OwnFields(s.msgid, Fields(s.data, s.msgid))
    BY FieldsOwn DEF GoodState
  <1>1. ASSUME NEW f \in [Types -> Nat], OwnFields(s.msgid, f)
        PROVE  GoodState(Next(f))
    <2>1. OwnData(With(s.data, s.msgid, f))
      BY <1>1, OwnWith DEF GoodState
    <2> QED
      BY <2>1 DEF GoodState
  <1>2. CASE p.type \in Types
    <2>1. fields \in [Types -> Nat] /\ p.line \in DOMAIN written
      BY <1>0, <1>2 DEF Pieces, OfLine
    <2>2. written[p.line] \in Rows /\ p.type = written[p.line].type
      BY <1>2, <2>1 DEF OfLine, LineTypes
    <2>3. s.msgid # NoNumber =>
            written[p.line] = [number |-> s.msgid, type |-> p.type]
      BY <2>2 DEF OfLine, Rows
    <2>4. OwnFields(s.msgid, fields)
      BY <1>0, <2>1, <2>3 DEF OwnFields
    <2>5. Collect(s, p) = Next(fields)
      BY <1>2 DEF Collect, GoodState
    <2> HIDE DEF fields, Next
    <2> QED
      BY <1>1, <2>1, <2>4, <2>5
  <1>3. CASE p.type \notin Types /\ p.number # NoNumber
    <2>1. Collect(s, p) = Next(Fields(s.data, s.msgid))
      BY <1>3 DEF Collect, GoodState
    <2> HIDE DEF Next
    <2> QED
      BY <1>0, <1>1, <2>1
  <1>4. CASE p.type \notin Types /\ p.number = NoNumber
    BY <1>4 DEF Collect
  <1> QED
    BY <1>2, <1>3, <1>4

\* A line that ends takes its data to the event it shows; only a text that is
\* one part of a line may show data and no event, and they are event 0's.
LEMMA ParseLineKeeps ==
    ASSUME NEW s, GoodState(s), NEW p \in Pieces, OfLine(p, written),
           written \in Seq(Rows), p.ends \/ s.msgid = NoNumber
    PROVE  GoodState(ParseLine(s, p))
  <1> DEFINE n == IF p.number # NoNumber THEN p.number ELSE s.msgid
             t == [s EXCEPT !.msgid = n]
  <1>1. n \in Shown
    BY DEF GoodState, Pieces
  <1>2. t = [msgid |-> n, data |-> s.data, sent |-> s.sent,
             crashed |-> s.crashed]
    BY DEF GoodState
  <1>3. GoodState(t) /\ t.msgid = n
    BY <1>1, <1>2 DEF GoodState
  <1>4. ParseLine(s, p) = IF s.crashed THEN s
                          ELSE IF p.type = "EOE" THEN SendData(t, n)
                          ELSE Collect(t, p)
    BY <1>3 DEF ParseLine
  <1>5. CASE p.type = "EOE"
    <2> HIDE DEF n, t
    <2> QED
      BY <1>1, <1>3, <1>4, <1>5, SendDataKeeps
  <1>6. CASE n = p.number \/ n = NoNumber
    <2> HIDE DEF n, t
    <2>1. GoodState(Collect(t, p))
      BY <1>3, <1>6, CollectKeeps
    <2> QED
      BY <1>3, <1>4, <1>5, <2>1
  <1>7. CASE p.type # "EOE" /\ p.number = NoNumber /\ p.ends
    <2>1. p.type \notin Types
      BY <1>7 DEF OfLine
    <2>2. Collect(t, p) = t
      BY <1>7, <2>1 DEF Collect
    <2> QED
      BY <1>3, <1>4, <1>7, <2>2
  <1> QED
    BY <1>5, <1>6, <1>7

LEMMA ParseBufKeeps ==
    ASSUME LinesInv, NEW text, TextOfLines(text)
    PROVE  GoodState(ParseBuf(text))
  <1> DEFINE after == Progress(text)
             S == {i \in 0 .. Len(text) :
                      GoodState(after[i]) /\ (i = 0 => after[i] = Parsing)}
  <1>0. text \in Seq(Pieces) /\ Len(text) \in Nat
    BY DEF TextOfLines
  <1>1. GoodState(Parsing) /\ Parsing.msgid = NoNumber
    BY DEF Parsing, GoodState, LinesInv, Shown
  <1>2. 0 \in S
    BY <1>0, <1>1, ProgressSteps
  <1>3. ASSUME NEW i \in 1 .. Len(text), i - 1 \in S PROVE i \in S
    <2>1. /\ GoodState(after[i - 1])
          /\ i - 1 = 0 => after[i - 1].msgid = NoNumber
      BY <1>1, <1>3
    <2>2. after[i] = IF IsLine(text, i) THEN ParseLine(after[i - 1], text[i])
                     ELSE after[i - 1]
      BY <1>0, ProgressSteps
    <2>3. text[i] \in Pieces /\ OfLine(text[i], written) /\ written \in Seq(Rows)
      BY <1>0 DEF TextOfLines, LinesInv
    <2>4. IsLine(text, i) => text[i].ends \/ i - 1 = 0
      <3> SUFFICES ASSUME IsLine(text, i), ~text[i].ends, i # 1 PROVE FALSE
        OBVIOUS
      <3>1. 1 \in 1 .. Len(text) - 1 /\ 1 \in DOMAIN text
        BY <1>0
      <3>2. text[1].ends
        BY <3>1 DEF TextOfLines
      <3> QED
        BY <3>1, <3>2 DEF IsLine
    <2> HIDE DEF after
    <2>5. GoodState(after[i])
      BY <2>1, <2>2, <2>3, <2>4, ParseLineKeeps
    <2> QED
      BY <2>5
  <1> HIDE DEF S
  <1>4. \A i \in 1 .. Len(text) : i - 1 \in S => i \in S
    BY <1>3
  <1>5. Len(text) \in S
    <2>1. \A i \in 0 .. Len(text) : i \in S
      BY <1>0, <1>2, <1>4, Steps, Zenon
    <2> QED
      BY <1>0, <2>1
  <1> QED
    BY <1>5 DEF S, ParseBuf
LEMMA PiecesJoined ==
    ASSUME NEW a \in Seq(Pieces), NEW b \in Seq(Pieces)
    PROVE  /\ a \o b \in Seq(Pieces)
           /\ Len(a \o b) = Len(a) + Len(b)
           /\ \A i \in 1 .. Len(a) + Len(b) :
                 (a \o b)[i] = IF i <= Len(a) THEN a[i] ELSE b[i - Len(a)]
  BY ConcatProperties, Zenon

LEMMA Appended ==
    ASSUME NEW S, NEW s \in Seq(S), NEW e \in S
    PROVE  /\ Append(s, e) \in Seq(S)
           /\ Len(Append(s, e)) = Len(s) + 1
           /\ DOMAIN Append(s, e) = 1 .. Len(s) + 1
           /\ \A i \in 1 .. Len(s) : Append(s, e)[i] = s[i]
           /\ Append(s, e)[Len(s) + 1] = e
  BY AppendProperties

LEMMA LinesStart == DriverInit => LinesInv
  BY DEF DriverInit, AuditInit, LinesInv, TextOfLines, OwnData, OwnRecords

\* What is true of the lines stays true when another is written.
LEMMA WriteKeeps ==
    ASSUME LinesInv, NEW n \in Numbers, NEW type \in LineTypes, Write(n, type)
    PROVE  LinesInv'
  <1>0. /\ written \in Seq(Rows) /\ wire \in Seq(Pieces) /\ out \in Seq(Pieces)
        /\ Len(written) \in Nat /\ Len(wire) \in Nat
    BY DEF LinesInv, TextOfLines
  <1> PICK row, piece :
        /\ row = [number |-> n, type |-> type]
        /\ piece = Piece(n, type, Len(written) + 1, TRUE)
    OBVIOUS
  <1>1. /\ row \in Rows /\ piece \in Pieces
        /\ written' = Append(written, row) /\ wire' = Append(wire, piece)
    BY <1>0 DEF Write, Rows, Piece, Pieces, Shown
  <1>2. /\ written' \in Seq(Rows) /\ wire' \in Seq(Pieces)
        /\ DOMAIN written' = 1 .. Len(written) + 1
        /\ DOMAIN written = 1 .. Len(written)
        /\ Len(wire') = Len(wire) + 1
        /\ \A i \in 1 .. Len(written) : written'[i] = written[i]
        /\ written'[Len(written) + 1] = row
        /\ \A i \in 1 .. Len(wire) : wire'[i] = wire[i]
        /\ wire'[Len(wire) + 1] = piece
    <2>1. DOMAIN written = 1 .. Len(written)
      BY <1>0
    <2> QED
      <3>1. /\ written' \in Seq(Rows) /\ Len(written') = Len(written) + 1
            /\ DOMAIN written' = 1 .. Len(written) + 1
            /\ \A i \in 1 .. Len(written) : written'[i] = written[i]
            /\ written'[Len(written) + 1] = row
        <4> HIDE DEF Rows
        <4> QED
          BY <1>0, <1>1, Appended
      <3>2. /\ wire' \in Seq(Pieces) /\ Len(wire') = Len(wire) + 1
            /\ \A i \in 1 .. Len(wire) : wire'[i] = wire[i]
            /\ wire'[Len(wire) + 1] = piece
        <4>1. \A p \in Pieces :
                /\ Append(wire, p) \in Seq(Pieces)
                /\ Len(Append(wire, p)) = Len(wire) + 1
                /\ \A i \in 1 .. Len(wire) : Append(wire, p)[i] = wire[i]
                /\ Append(wire, p)[Len(wire) + 1] = p
          BY <1>0, Appended
        <4> QED
          BY <1>1, <4>1
      <3> QED
        BY <2>1, <3>1, <3>2
  <1>3. ASSUME NEW p, OfLine(p, written) PROVE OfLine(p, written')
    BY <1>2, <1>3 DEF OfLine
  <1>4. OfLine(piece, written') /\ piece.ends
    BY <1>0, <1>2, NoNumberIsNone DEF OfLine, Piece
  <1>5. ASSUME NEW m, NEW fields, OwnFields(m, fields)
        PROVE  OwnFields(m, fields)'
    BY <1>2, <1>5 DEF OwnFields
  <1>6. ASSUME NEW i \in 1 .. Len(wire')
        PROVE  OfLine(wire'[i], written') /\ wire'[i].ends
    <2>1. CASE i = Len(wire) + 1
      BY <1>2, <1>4, <2>1
    <2>2. CASE i # Len(wire) + 1
      <3>1. i \in 1 .. Len(wire) /\ wire'[i] = wire[i]
        BY <1>0, <1>2, <2>2
      <3>2. OfLine(wire[i], written) /\ wire[i].ends
        BY <3>1 DEF LinesInv
      <3> QED
        BY <1>3, <3>1, <3>2
    <2> QED
      BY <2>1, <2>2
  <1>7. TextOfLines(out)'
    BY <1>3, <1>0 DEF TextOfLines, LinesInv, Write
  <1>8. OwnData(datavals)'
    BY <1>5 DEF OwnData, LinesInv, Write
  <1>9. OwnRecords(sent)'
    BY <1>5 DEF OwnRecords, LinesInv, Write
  <1> QED
    BY <1>2, <1>6, <1>7, <1>8, <1>9 DEF LinesInv

LEMMA JoinedText ==
    ASSUME LinesInv, NEW text, TextOfLines(text), Len(text) > 0
    PROVE  TextOfLines(Joined(out, text))
  <1>0. /\ out \in Seq(Pieces) /\ Len(out) \in Nat
        /\ text \in Seq(Pieces) /\ Len(text) \in Nat /\ text # <<>>
    BY DEF LinesInv, TextOfLines
  <1>1. CASE out # <<>> /\ ~Last(out).ends
    <2> DEFINE whole == Whole(Head(text).line)
               joined == Joined(out, text)
    <2>1. Head(text) = text[1] /\ OfLine(text[1], written) /\ text[1] \in Pieces
      BY <1>0 DEF TextOfLines
    <2>2. whole \in Pieces /\ OfLine(whole, written) /\ whole.ends
      <3> DEFINE l == Head(text).line
      <3>1. l \in DOMAIN written /\ l \in Nat /\ written[l] \in Rows
        BY <2>1 DEF LinesInv, OfLine, Pieces
      <3>2. /\ whole.number \in Numbers /\ whole.type \in LineTypes
            /\ whole.number = written[l].number /\ whole.type = written[l].type
            /\ whole.line = l /\ whole.ends = TRUE
            /\ whole = [number |-> whole.number, type |-> whole.type,
                        line |-> l, ends |-> TRUE]
        BY <3>1 DEF Whole, Piece, Rows
      <3> HIDE DEF whole, l
      <3> QED
        BY <3>1, <3>2, NoNumberIsNone DEF OfLine, Pieces, Shown
    <2>3. joined = Front(out) \o <<whole>> \o Tail(text)
      BY <1>0, <1>1 DEF Joined
    <2> HIDE DEF whole
    <2>4. /\ Front(out) \in Seq(Pieces) /\ Len(Front(out)) = Len(out) - 1
          /\ \A i \in 1 .. Len(out) - 1 : Front(out)[i] = out[i]
      <3>1. Len(out) > 0
        BY <1>0, <1>1
      <3> QED
        <4>1. Front(out) = SubSeq(out, 1, Len(out) - 1)
          BY DEF Front
        <4>2. \A i \in 1 .. Len(out) - 1 : out[i] \in Pieces
          BY <1>0
        <4>3. /\ SubSeq(out, 1, Len(out) - 1) \in Seq(Pieces)
              /\ Len(SubSeq(out, 1, Len(out) - 1)) = Len(out) - 1
              /\ \A i \in 1 .. Len(out) - 1 :
                    SubSeq(out, 1, Len(out) - 1)[i] = out[i]
          <5>1. \A k \in 0 .. Len(out) :
                   /\ SubSeq(out, 1, k) \in Seq(Pieces)
                   /\ Len(SubSeq(out, 1, k)) = k
                   /\ \A i \in 1 .. k : SubSeq(out, 1, k)[i] = out[i]
            BY <1>0
          <5>2. Len(out) - 1 \in 0 .. Len(out)
            BY <1>0, <3>1
          <5> QED
            BY <5>1, <5>2
        <4> QED
          BY <4>1, <4>3, Zenon
    <2>5. /\ Tail(text) \in Seq(Pieces) /\ Len(Tail(text)) = Len(text) - 1
          /\ \A i \in 1 .. Len(text) - 1 : Tail(text)[i] = text[i + 1]
      BY <1>0
    <2>6. /\ joined \in Seq(Pieces) /\ Len(joined) = Len(out) + Len(text) - 1
          /\ \A i \in 1 .. Len(joined) :
                joined[i] = IF i < Len(out) THEN out[i]
                            ELSE IF i = Len(out) THEN whole
                            ELSE text[i - Len(out) + 1]
      <3> DEFINE start == Front(out) \o <<whole>>
      <3>1. /\ start \in Seq(Pieces) /\ Len(start) = Len(out)
            /\ \A i \in 1 .. Len(out) :
                  start[i] = IF i < Len(out) THEN out[i] ELSE whole
        BY <1>0, <1>1, <2>2, <2>4
      <3> HIDE DEF start
      <3>2. joined = start \o Tail(text)
        BY <2>3 DEF start
      <3> HIDE DEF joined
      <3> QED
        <4> PICK rest : rest = Tail(text)
          OBVIOUS
        <4>1. /\ start \o rest \in Seq(Pieces)
              /\ Len(start \o rest) = Len(start) + Len(rest)
              /\ \A i \in 1 .. Len(start) + Len(rest) : (start \o rest)[i] =
                    IF i <= Len(start) THEN start[i] ELSE rest[i - Len(start)]
          BY <2>5, <3>1, PiecesJoined, Zenon
        <4> QED
          BY <1>0, <2>5, <3>1, <3>2, <4>1
    <2> HIDE DEF joined
    <2>7. ASSUME NEW i \in 1 .. Len(joined)
          PROVE  OfLine(joined[i], written) /\ (i < Len(joined) => joined[i].ends)
      <3>1. CASE i < Len(out)
        <4>1. i \in 1 .. Len(out) - 1 /\ i \in 1 .. Len(out)
          BY <1>0, <2>6, <3>1
        <4> QED
          BY <2>6, <3>1, <4>1 DEF LinesInv, TextOfLines
      <3>2. CASE i = Len(out)
        BY <1>0, <2>2, <2>6, <3>2
      <3>3. CASE i > Len(out)
        <4>1. /\ i - Len(out) + 1 \in 1 .. Len(text)
              /\ i < Len(joined) => i - Len(out) + 1 \in 1 .. Len(text) - 1
              /\ joined[i] = text[i - Len(out) + 1]
          BY <1>0, <2>6, <3>3
        <4> QED
          BY <4>1 DEF TextOfLines
      <3> QED
        BY <1>0, <2>6, <3>1, <3>2, <3>3
    <2>8. Len(joined) \in Nat
      BY <2>6
    <2> QED
      BY SMTT(30), <2>6, <2>7, <2>8 DEF TextOfLines, joined
  <1>2. CASE out = <<>> \/ Last(out).ends
    <2> DEFINE joined == out \o text
    <2>1. Joined(out, text) = joined
      BY <1>2 DEF Joined
    <2>2. /\ joined \in Seq(Pieces) /\ Len(joined) = Len(out) + Len(text)
          /\ \A i \in 1 .. Len(joined) :
                joined[i] = IF i <= Len(out) THEN out[i]
                            ELSE text[i - Len(out)]
      BY <1>0
    <2> HIDE DEF joined
    <2>3. \A i \in 1 .. Len(out) : OfLine(out[i], written) /\ out[i].ends
      <3> SUFFICES ASSUME NEW i \in 1 .. Len(out)
                   PROVE  OfLine(out[i], written) /\ out[i].ends
        OBVIOUS
      <3>1. CASE i = Len(out)
        BY <1>0, <1>2, <3>1 DEF LinesInv, TextOfLines, Last
      <3>2. CASE i # Len(out)
        <4>1. i \in 1 .. Len(out) - 1
          BY <1>0, <3>2
        <4> QED
          BY <4>1 DEF LinesInv, TextOfLines
      <3> QED
        BY <3>1, <3>2
    <2>4. ASSUME NEW i \in 1 .. Len(joined)
          PROVE  OfLine(joined[i], written) /\ (i < Len(joined) => joined[i].ends)
      <3>1. CASE i <= Len(out)
        BY <1>0, <2>2, <2>3, <3>1
      <3>2. CASE i > Len(out)
        <4>1. /\ i - Len(out) \in 1 .. Len(text)
              /\ i < Len(joined) => i - Len(out) \in 1 .. Len(text) - 1
              /\ joined[i] = text[i - Len(out)]
          BY <1>0, <2>2, <3>2
        <4> QED
          BY <4>1 DEF TextOfLines
      <3> QED
        BY <1>0, <2>2, <3>1, <3>2
    <2>5. Len(joined) \in Nat
      BY <2>2
    <2> QED
      BY <2>1, <2>2, <2>4, <2>5 DEF TextOfLines
  <1> QED
    BY <1>1, <1>2

LEMMA ReceivedText ==
    ASSUME LinesInv, NEW n \in 1 .. Len(wire), NEW cut \in Cuts
    PROVE  TextOfLines(Received(n, cut)) /\ Len(Received(n, cut)) = n
  <1>0. /\ wire \in Seq(Pieces) /\ Len(wire) \in Nat
        /\ wire[n] \in Pieces /\ OfLine(wire[n], written)
    BY DEF LinesInv
  <1>1. CASE cut = "none"
    <2>1. /\ Received(n, cut) \in Seq(Pieces) /\ Len(Received(n, cut)) = n
          /\ \A i \in 1 .. n : Received(n, cut)[i] = wire[i]
      BY <1>0, <1>1 DEF Received
    <2>2. \A i \in 1 .. n : OfLine(wire[i], written) /\ wire[i].ends
      BY <1>0 DEF LinesInv
    <2> HIDE DEF Received
    <2> QED
      BY <1>0, <2>1, <2>2 DEF TextOfLines
  <1>2. CASE cut # "none"
    <2> DEFINE first == FirstPart(wire[n], cut)
               before == SubSeq(wire, 1, n - 1)
    <2>1. first \in Pieces /\ OfLine(first, written)
      <3>1. {NoType, Empty} \cap LineTypes = {}
        BY AuditAssumption DEF LineTypes, NoType, Empty
      <3>2. /\ wire[n].number \in Shown /\ wire[n].line \in Nat
            /\ wire[n].type \in LineTypes \cup {NoType, Empty}
            /\ wire[n] = [number |-> wire[n].number, type |-> wire[n].type,
                         line |-> wire[n].line, ends |-> wire[n].ends]
        BY <1>0 DEF Pieces
      <3>3. \A m \in {NoNumber, wire[n].number},
               t \in {NoType, Empty, wire[n].type} :
                /\ Piece(m, t, wire[n].line, FALSE) \in Pieces
                /\ OfLine(Piece(m, t, wire[n].line, FALSE), written)
                /\ m # NoNumber \/ t \notin LineTypes =>
                     /\ Piece(m, t, wire[n].line, TRUE) \in Pieces
                     /\ OfLine(Piece(m, t, wire[n].line, TRUE), written)
        <4> TAKE m \in {NoNumber, wire[n].number},
                 t \in {NoType, Empty, wire[n].type}
        <4>1. ASSUME NEW b \in BOOLEAN,
                     b => m # NoNumber \/ t \notin LineTypes
              PROVE  /\ Piece(m, t, wire[n].line, b) \in Pieces
                     /\ OfLine(Piece(m, t, wire[n].line, b), written)
          <5>1. Piece(m, t, wire[n].line, b) \in Pieces
            BY <3>2 DEF Piece, Pieces, Shown
          <5>2. t \in LineTypes => t = wire[n].type
            BY <3>1
          <5> QED
            BY <1>0, <4>1, <5>1, <5>2 DEF Piece, OfLine, LineTypes
        <4> QED
          BY <4>1
      <3> QED
        BY <1>0, <3>1, <3>2, <3>3 DEF FirstPart, Piece
    <2>2. /\ before \in Seq(Pieces) /\ Len(before) = n - 1
          /\ \A i \in 1 .. n - 1 : before[i] = wire[i]
      BY <1>0
    <2>3. Received(n, cut) = before \o <<first>>
      BY <1>2 DEF Received
    <2> HIDE DEF first, before
    <2>4. /\ Received(n, cut) \in Seq(Pieces) /\ Len(Received(n, cut)) = n
          /\ \A i \in 1 .. n :
                Received(n, cut)[i] = IF i < n THEN wire[i] ELSE first
      BY <2>1, <2>2, <2>3
    <2>5. \A i \in 1 .. n : OfLine(wire[i], written) /\ wire[i].ends
      BY <1>0 DEF LinesInv
    <2> QED
      BY <1>0, <2>1, <2>4, <2>5 DEF TextOfLines
  <1> QED
    BY <1>1, <1>2

LEMMA UnreadLines ==
    ASSUME LinesInv, NEW n \in 1 .. Len(wire), NEW cut \in Cuts
    PROVE  /\ Unread(n, cut) \in Seq(Pieces)
           /\ \A i \in 1 .. Len(Unread(n, cut)) :
                 OfLine(Unread(n, cut)[i], written) /\ Unread(n, cut)[i].ends
  <1> DEFINE rest == SubSeq(wire, n + 1, Len(wire))
  <1>0. /\ wire \in Seq(Pieces) /\ Len(wire) \in Nat
        /\ wire[n] \in Pieces /\ OfLine(wire[n], written) /\ wire[n].ends
    BY DEF LinesInv
  <1>1. /\ rest \in Seq(Pieces) /\ Len(rest) = Len(wire) - n
        /\ \A i \in 1 .. Len(wire) - n : rest[i] = wire[i + n]
    BY <1>0
  <1>2. \A i \in 1 .. Len(rest) : OfLine(rest[i], written) /\ rest[i].ends
    BY <1>0, <1>1 DEF LinesInv
  <1>3. CASE cut = "none"
    BY <1>1, <1>2, <1>3 DEF Unread
  <1>4. CASE cut # "none"
    <2> DEFINE last == LastPart(wire[n], cut)
    <2>1. last \in Pieces /\ OfLine(last, written) /\ last.ends
      <3>1. {NoType, Empty} \cap LineTypes = {}
        BY AuditAssumption DEF LineTypes, NoType, Empty
      <3>2. /\ wire[n].number \in Shown /\ wire[n].line \in Nat
            /\ wire[n].type \in LineTypes \cup {NoType, Empty}
            /\ wire[n] = [number |-> wire[n].number, type |-> wire[n].type,
                         line |-> wire[n].line, ends |-> wire[n].ends]
        BY <1>0 DEF Pieces
      <3>3. \A m \in {NoNumber, wire[n].number},
               t \in {NoType, Empty, wire[n].type} :
                /\ Piece(m, t, wire[n].line, FALSE) \in Pieces
                /\ OfLine(Piece(m, t, wire[n].line, FALSE), written)
                /\ m # NoNumber \/ t \notin LineTypes =>
                     /\ Piece(m, t, wire[n].line, TRUE) \in Pieces
                     /\ OfLine(Piece(m, t, wire[n].line, TRUE), written)
        <4> TAKE m \in {NoNumber, wire[n].number},
                 t \in {NoType, Empty, wire[n].type}
        <4>1. ASSUME NEW b \in BOOLEAN,
                     b => m # NoNumber \/ t \notin LineTypes
              PROVE  /\ Piece(m, t, wire[n].line, b) \in Pieces
                     /\ OfLine(Piece(m, t, wire[n].line, b), written)
          <5>1. Piece(m, t, wire[n].line, b) \in Pieces
            BY <3>2 DEF Piece, Pieces, Shown
          <5>2. t \in LineTypes => t = wire[n].type
            BY <3>1
          <5> QED
            BY <1>0, <4>1, <5>1, <5>2 DEF Piece, OfLine, LineTypes
        <4> QED
          BY <4>1
      <3> QED
        BY <1>0, <3>1, <3>2, <3>3 DEF LastPart, Piece
    <2>2. Unread(n, cut) = <<last>> \o rest
      BY <1>4 DEF Unread
    <2> HIDE DEF last, rest
    <2>3. /\ Unread(n, cut) \in Seq(Pieces)
          /\ Len(Unread(n, cut)) = Len(rest) + 1
          /\ \A i \in 1 .. Len(Unread(n, cut)) :
                Unread(n, cut)[i] = IF i = 1 THEN last ELSE rest[i - 1]
      <3> DEFINE one == <<last>>
      <3>1. one \in Seq(Pieces) /\ Len(one) = 1 /\ one[1] = last
        BY <2>1
      <3>2. Unread(n, cut) = one \o rest
        BY <2>2
      <3> HIDE DEF one
      <3>3. Len(rest) \in Nat
        BY <1>1
      <3>4. /\ one \o rest \in Seq(Pieces)
            /\ Len(one \o rest) = Len(one) + Len(rest)
            /\ \A i \in 1 .. Len(one) + Len(rest) : (one \o rest)[i] =
                  IF i <= Len(one) THEN one[i] ELSE rest[i - Len(one)]
        BY <1>1, <3>1, PiecesJoined, Zenon
      <3> QED
        BY <3>1, <3>2, <3>3, <3>4
    <2>4. Len(rest) \in Nat
      BY <1>1
    <2>5. ASSUME NEW i \in 1 .. Len(Unread(n, cut)), i # 1
          PROVE  i - 1 \in 1 .. Len(rest)
      BY <2>3, <2>4, <2>5
    <2> QED
      BY <1>2, <2>1, <2>3, <2>5
  <1> QED
    BY <1>3, <1>4

LEMMA RecvKeeps ==
    ASSUME LinesInv, NEW n \in DOMAIN wire, NEW cut \in Cuts,
           NEW filled \in BOOLEAN, Recv(n, cut, filled)
    PROVE  LinesInv'
  <1> DEFINE text == Joined(out, Received(n, cut))
             s == ParseBuf(text)
  <1>0. n \in 1 .. Len(wire) /\ n > 0
    BY DEF LinesInv
  <1>1. TextOfLines(text)
    BY <1>0, ReceivedText, JoinedText
  <1>2. GoodState(s)
    BY <1>1, ParseBufKeeps
  <1>3. /\ wire' = Unread(n, cut) /\ written' = written
        /\ \/ out' = text /\ UNCHANGED <<datavals, sent>>
           \/ out' = <<>> /\ datavals' = s.data /\ sent' = s.sent
    BY Zenon DEF Recv
  <1> HIDE DEF text, s
  <1>4. /\ wire' \in Seq(Pieces)
        /\ \A i \in 1 .. Len(wire') : OfLine(wire'[i], written) /\ wire'[i].ends
    BY <1>0, <1>3, UnreadLines
  <1>5. TextOfLines(out')
    <2>1. TextOfLines(<<>>)
      BY DEF TextOfLines
    <2> QED
      BY <1>1, <1>3, <2>1
  <1>6. OwnData(datavals') /\ OwnRecords(sent')
    BY <1>2, <1>3 DEF GoodState, LinesInv
  <1> QED
    BY <1>3, <1>4, <1>5, <1>6
    DEF LinesInv, TextOfLines, OfLine, OwnData, OwnRecords, OwnFields

LEMMA LinesStep == LinesInv /\ [DriverNext]_driverVars => LinesInv'
  <1> SUFFICES ASSUME LinesInv, [DriverNext]_driverVars PROVE LinesInv'
    OBVIOUS
  <1>1. CASE UNCHANGED auditVars
    <2>1. /\ written' = written /\ wire' = wire /\ out' = out
          /\ datavals' = datavals /\ sent' = sent
      BY <1>1 DEF auditVars
    <2>2. TextOfLines(out)' /\ OwnData(datavals)' /\ OwnRecords(sent)'
      BY <2>1 DEF LinesInv, TextOfLines, OwnData, OwnRecords, OwnFields
    <2> QED
      BY <2>1, <2>2 DEF LinesInv
  <1> QED
    BY <1>1, WriteKeeps, RecvKeeps DEF DriverNext, AuditNext, driverVars,
                                       LineTypes

\* No record of the AUDITD worker mixes events, wherever its reads end.
THEOREM EventsNotMixed == Spec => []NotMixed
  <1>1. LinesInv => NotMixed
    BY DEF LinesInv, NotMixed, OwnRecords, OwnFields
  <1> QED
    BY <1>1, LinesStart, LinesStep, PTL DEF Spec
\* An event is over at line k.
Over(n, k) == \E i \in 1 .. k : written[i] = [number |-> n, type |-> "EOE"]

\* l is the last of the first k lines that is of event n and type t.
Latest(l, n, t, k) ==
    \/ /\ l = NoLine
       /\ \A i \in 1 .. k : written[i] # [number |-> n, type |-> t]
    \/ /\ l \in 1 .. k /\ written[l] = [number |-> n, type |-> t]
       /\ \A i \in l + 1 .. k : written[i] # [number |-> n, type |-> t]

\* Fields and records are what the first k lines make of them.
UpToDate(k, data, records, broken) ==
    /\ ~broken
    /\ \A n \in Numbers :
        /\ n \in DOMAIN data <=> \E i \in 1 .. k : written[i].number = n
        /\ n \in DOMAIN data /\ ~Over(n, k) =>
                \A t \in Types : Latest(data[n][t], n, t, k)
        /\ Over(n, k) <=> \E j \in DOMAIN records : records[j].number = n
        /\ \A j \in DOMAIN records : records[j].number = n =>
                \A t \in Types : Latest(records[j].fields[t], n, t, k)
        /\ \A i, j \in DOMAIN records :
                records[i].number = n /\ records[j].number = n => i = j

\* The end of an event is after other lines of it and before none.
RowsInOrder ==
    \A i \in 1 .. Len(written) : written[i].type = "EOE" =>
        /\ \E j \in 1 .. i - 1 : written[j].number = written[i].number
        /\ \A j \in i + 1 .. Len(written) :
                written[j].number # written[i].number

\* The lines that have been parsed.
Read == Len(written) - Len(wire) - Len(out)

EventsInv ==
    /\ LinesInv
    /\ cuts \in Nat
    /\ RowsInOrder
    /\ \A n \in Numbers : n \in ended <=> Over(n, Len(written))
    /\ cuts = 0 =>
        /\ Read \in Nat
        /\ \A i \in 1 .. Len(out) : out[i] = Whole(Read + i)
        /\ \A i \in 1 .. Len(wire) : wire[i] = Whole(Read + Len(out) + i)
        /\ UpToDate(Read, datavals, sent, crashed)
LEMMA RowType ==
    ASSUME LinesInv, NEW i \in 1 .. Len(written)
    PROVE  /\ written[i].number \in Numbers /\ written[i].type \in LineTypes
           /\ \A n, t : written[i] = [number |-> n, type |-> t]
                          <=> written[i].number = n /\ written[i].type = t
           /\ Len(written) \in Nat /\ DOMAIN written = 1 .. Len(written)
  <1>1. /\ written[i] \in Rows /\ Len(written) \in Nat
        /\ DOMAIN written = 1 .. Len(written)
    BY DEF LinesInv
  <1>2. \A row \in Rows :
            /\ row.number \in Numbers /\ row.type \in LineTypes
            /\ \A n, t : row = [number |-> n, type |-> t]
                            <=> row.number = n /\ row.type = t
    BY DEF Rows
  <1> QED
    BY <1>1, <1>2

\* What one more line does to Over and Latest.
LEMMA OneMore ==
    ASSUME LinesInv, NEW k \in Nat, k + 1 <= Len(written), NEW n, NEW t, NEW l
    PROVE  /\ Over(n, k + 1)
                <=> Over(n, k) \/ written[k + 1] = [number |-> n, type |-> "EOE"]
           /\ written[k + 1] # [number |-> n, type |-> t] /\ Latest(l, n, t, k)
                => Latest(l, n, t, k + 1)
           /\ written[k + 1] = [number |-> n, type |-> t]
                => Latest(k + 1, n, t, k + 1)
  <1>0. \A i : i \in 1 .. k + 1 <=> i \in 1 .. k \/ i = k + 1
    OBVIOUS
  <1>1. Over(n, k + 1)
            <=> Over(n, k) \/ written[k + 1] = [number |-> n, type |-> "EOE"]
    BY <1>0 DEF Over
  <1>2. ASSUME written[k + 1] # [number |-> n, type |-> t], Latest(l, n, t, k)
        PROVE  Latest(l, n, t, k + 1)
    <2>1. CASE l = NoLine /\ \A i \in 1 .. k :
                    written[i] # [number |-> n, type |-> t]
      BY <1>0, <1>2, <2>1 DEF Latest
    <2>2. CASE /\ l \in 1 .. k /\ written[l] = [number |-> n, type |-> t]
               /\ \A i \in l + 1 .. k : written[i] # [number |-> n, type |-> t]
      <3>1. l \in 1 .. k + 1
        BY <2>2
      <3>2. \A i \in l + 1 .. k + 1 : i \in l + 1 .. k \/ i = k + 1
        BY <2>2
      <3> QED
        BY <1>2, <2>2, <3>1, <3>2 DEF Latest
    <2> QED
      BY <1>2, <2>1, <2>2 DEF Latest
  <1>3. written[k + 1] = [number |-> n, type |-> t]
            => Latest(k + 1, n, t, k + 1)
    <2>1. k + 1 \in 1 .. k + 1 /\ (k + 1) + 1 .. k + 1 = {}
      OBVIOUS
    <2> QED
      BY <2>1 DEF Latest
  <1> QED
    BY <1>1, <1>2, <1>3

LEMMA EndUpToDate ==
    ASSUME LinesInv, RowsInOrder, NEW k \in Nat, k + 1 <= Len(written),
           written[k + 1].type = "EOE", NEW s, GoodState(s),
           UpToDate(k, s.data, s.sent, s.crashed)
    PROVE  LET u == SendData(s, written[k + 1].number)
           IN  UpToDate(k + 1, u.data, u.sent, u.crashed)
  <1> DEFINE e == written[k + 1].number
             record == [number |-> e, fields |-> s.data[e]]
             empty == [t \in Types |-> NoLine]
             data == With(s.data, e, empty)
             records == Append(s.sent, record)
  <1>1. /\ k + 1 \in 1 .. Len(written) /\ Len(written) \in Nat
        /\ e \in Numbers /\ \A i : i \in 1 .. k + 1 <=> i \in 1 .. k \/ i = k + 1
        /\ \A n, t : written[k + 1] = [number |-> n, type |-> t]
                <=> e = n /\ t = "EOE"
    BY RowType DEF LinesInv
  <1>2. e \in DOMAIN s.data
    <2>1. \E j \in 1 .. k : written[j].number = e
      BY <1>1 DEF RowsInOrder
    <2> QED
      BY <1>1, <2>1 DEF UpToDate
  <1>3. ~Over(e, k)
    <2> SUFFICES ASSUME NEW i \in 1 .. k,
                        written[i] = [number |-> e, type |-> "EOE"]
                 PROVE  FALSE
      BY DEF Over
    <2>1. i \in 1 .. Len(written) /\ k + 1 \in i + 1 .. Len(written)
      BY <1>1
    <2>2. written[i].type = "EOE" /\ written[i].number = e
      OBVIOUS
    <2> QED
      BY <2>1, <2>2 DEF RowsInOrder
  <1>4. SendData(s, e) = [msgid |-> s.msgid, data |-> data, sent |-> records,
                          crashed |-> s.crashed]
    BY <1>2 DEF SendData, GoodState
  <1>5. /\ DOMAIN data = DOMAIN s.data
        /\ \A n \in DOMAIN s.data : n # e => data[n] = s.data[n]
    BY <1>2 DEF With
  <1>6. s.sent \in Seq(Records) /\ record \in Records /\ Len(s.sent) \in Nat
    <2>1. s.data[e] \in [Types -> Nat] /\ e \in Shown
      BY <1>1, <1>2 DEF GoodState, OwnData, Shown
    <2> QED
      BY <2>1 DEF GoodState, OwnRecords, Records
  <1>7. /\ DOMAIN records = 1 .. Len(s.sent) + 1
        /\ DOMAIN s.sent = 1 .. Len(s.sent)
        /\ \A i \in 1 .. Len(s.sent) : records[i] = s.sent[i]
        /\ records[Len(s.sent) + 1] = record
    <2> HIDE DEF record
    <2> QED
      BY <1>6
  <1> HIDE DEF e, record, data, records
  <1>8. record.number = e /\ record.fields = s.data[e]
    BY DEF record
  <1>9. ASSUME NEW n \in Numbers
        PROVE  /\ n \in DOMAIN data <=> \E i \in 1 .. k + 1 : written[i].number = n
               /\ n \in DOMAIN data /\ ~Over(n, k + 1) =>
                    \A t \in Types : Latest(data[n][t], n, t, k + 1)
               /\ Over(n, k + 1) <=> \E j \in DOMAIN records :
                                            records[j].number = n
               /\ \A j \in DOMAIN records : records[j].number = n =>
                    \A t \in Types : Latest(records[j].fields[t], n, t, k + 1)
               /\ \A i, j \in DOMAIN records :
                    records[i].number = n /\ records[j].number = n => i = j
    <2>0. Over(n, k + 1) <=> Over(n, k) \/ n = e
      BY <1>1, OneMore
    <2>1. n \in DOMAIN data <=> \E i \in 1 .. k + 1 : written[i].number = n
      <3>1. n \in DOMAIN s.data <=> \E i \in 1 .. k : written[i].number = n
        BY DEF UpToDate
      <3> QED
        BY <1>1, <1>2, <1>5, <3>1 DEF e
    <2>2. \A t \in Types : \A l : Latest(l, n, t, k) => Latest(l, n, t, k + 1)
      <3>1. \A t \in Types : t # "EOE"
        BY AuditAssumption
      <3> QED
        BY ZenonT(30), <1>1, <3>1, OneMore
    <2>3. n \in DOMAIN data /\ ~Over(n, k + 1) =>
                \A t \in Types : Latest(data[n][t], n, t, k + 1)
      BY <1>5, <2>0, <2>2 DEF UpToDate
    <2>4. Over(n, k) <=> \E j \in DOMAIN s.sent : s.sent[j].number = n
      BY DEF UpToDate
    <2>5. Over(n, k + 1) <=> \E j \in DOMAIN records : records[j].number = n
      <3>1. (\E j \in DOMAIN records : records[j].number = n)
              <=> (\E j \in DOMAIN s.sent : s.sent[j].number = n) \/ n = e
        <4>1. Len(s.sent) + 1 \in DOMAIN records
              /\ records[Len(s.sent) + 1].number = e
          BY <1>6, <1>7, <1>8
        <4>2. \A j \in DOMAIN s.sent :
                    j \in DOMAIN records /\ records[j] = s.sent[j]
          BY <1>6, <1>7
        <4>3. \A j \in DOMAIN records :
                    j = Len(s.sent) + 1 \/ j \in DOMAIN s.sent
          BY <1>6, <1>7
        <4> QED
          BY <4>1, <4>2, <4>3
      <3> QED
        BY <2>0, <2>4, <3>1
    <2>6. ASSUME NEW j \in DOMAIN records, records[j].number = n
          PROVE  \A t \in Types : Latest(records[j].fields[t], n, t, k + 1)
      <3>1. CASE j = Len(s.sent) + 1
        <4>1. n = e /\ records[j].fields = s.data[e]
          BY <1>7, <1>8, <2>6, <3>1
        <4>2. \A t \in Types : Latest(s.data[e][t], e, t, k)
          BY <1>1, <1>2, <1>3 DEF UpToDate
        <4> QED
          BY <2>2, <4>1, <4>2
      <3>2. CASE j # Len(s.sent) + 1
        <4>1. j \in DOMAIN s.sent /\ records[j] = s.sent[j]
          BY <1>6, <1>7, <3>2
        <4>2. \A t \in Types : Latest(s.sent[j].fields[t], n, t, k)
          BY <2>6, <4>1 DEF UpToDate
        <4> QED
          BY <2>2, <4>1, <4>2
      <3> QED
        BY <3>1, <3>2
    <2>7. ASSUME NEW i \in DOMAIN records, NEW j \in DOMAIN records,
                 records[i].number = n, records[j].number = n
          PROVE  i = j
      <3>1. \A h \in DOMAIN records : h # Len(s.sent) + 1 =>
                h \in DOMAIN s.sent /\ records[h] = s.sent[h]
        BY <1>6, <1>7
      <3>2. n = e => \A h \in DOMAIN s.sent : s.sent[h].number # n
        BY <1>3, <2>4
      <3>3. records[Len(s.sent) + 1].number = e
        BY <1>7, <1>8
      <3>4. \A g, h \in DOMAIN s.sent :
                s.sent[g].number = n /\ s.sent[h].number = n => g = h
        BY DEF UpToDate
      <3> QED
        BY <2>7, <3>1, <3>2, <3>3, <3>4
    <2> QED
      BY <2>1, <2>3, <2>5, <2>6, <2>7
  <1>10. ~s.crashed
    BY DEF UpToDate
  <1>11. UpToDate(k + 1, data, records, s.crashed)
    BY <1>9, <1>10 DEF UpToDate
  <1> QED
    BY <1>4, <1>11 DEF e

LEMMA DataUpToDate ==
    ASSUME LinesInv, RowsInOrder, NEW k \in Nat, k + 1 <= Len(written),
           NEW p, p = Whole(k + 1), p.type \in Types,
           NEW s, GoodState(s), s.msgid = p.number,
           UpToDate(k, s.data, s.sent, s.crashed)
    PROVE  LET u == Collect(s, p)
           IN  UpToDate(k + 1, u.data, u.sent, u.crashed)
  <1> DEFINE e == written[k + 1].number
             y == written[k + 1].type
             fields == [Fields(s.data, e) EXCEPT ![y] = k + 1]
             data == With(s.data, e, fields)
  <1>1. /\ k + 1 \in 1 .. Len(written) /\ Len(written) \in Nat
        /\ e \in Numbers /\ e \in Shown
        /\ \A i : i \in 1 .. k + 1 <=> i \in 1 .. k \/ i = k + 1
        /\ \A n, t : written[k + 1] = [number |-> n, type |-> t]
                <=> e = n /\ y = t
    BY RowType DEF LinesInv, Shown
  <1>2. /\ p.type = y /\ p.number = e /\ p.line = k + 1
        /\ y \in Types /\ y # "EOE" /\ s.msgid = e
    BY AuditAssumption DEF Whole, Piece
  <1>3. Collect(s, p) = [msgid |-> s.msgid, data |-> data, sent |-> s.sent,
                         crashed |-> s.crashed]
    BY <1>2 DEF Collect, GoodState
  <1>4. /\ DOMAIN data = DOMAIN s.data \cup {e} /\ data[e] = fields
        /\ \A n \in DOMAIN s.data : n # e => data[n] = s.data[n]
    BY DEF With
  <1>5. \A t \in Types : fields[t] = IF t = y THEN k + 1
                                     ELSE Fields(s.data, e)[t]
    BY <1>1, <1>2, FieldsOwn DEF GoodState
  <1> HIDE DEF e, y, fields, data
  <1>6. ASSUME NEW n \in Numbers
        PROVE  /\ n \in DOMAIN data <=> \E i \in 1 .. k + 1 : written[i].number = n
               /\ n \in DOMAIN data /\ ~Over(n, k + 1) =>
                    \A t \in Types : Latest(data[n][t], n, t, k + 1)
               /\ Over(n, k + 1) <=> \E j \in DOMAIN s.sent :
                                            s.sent[j].number = n
               /\ \A j \in DOMAIN s.sent : s.sent[j].number = n =>
                    \A t \in Types : Latest(s.sent[j].fields[t], n, t, k + 1)
               /\ \A i, j \in DOMAIN s.sent :
                    s.sent[i].number = n /\ s.sent[j].number = n => i = j
    <2>0. Over(n, k + 1) <=> Over(n, k)
      <3>1. written[k + 1] # [number |-> n, type |-> "EOE"]
        BY <1>1, <1>2
      <3> QED
        BY <3>1, OneMore
    <2>1. n \in DOMAIN data <=> \E i \in 1 .. k + 1 : written[i].number = n
      <3>1. n \in DOMAIN s.data <=> \E i \in 1 .. k : written[i].number = n
        BY DEF UpToDate
      <3> QED
        BY <1>1, <1>4, <3>1 DEF e
    <2>2. \A t \in Types : \A l : (n # e \/ t # y) /\ Latest(l, n, t, k)
                                => Latest(l, n, t, k + 1)
      <3> SUFFICES ASSUME NEW t \in Types, NEW l, n # e \/ t # y,
                          Latest(l, n, t, k)
                   PROVE  Latest(l, n, t, k + 1)
        OBVIOUS
      <3>1. written[k + 1] # [number |-> n, type |-> t]
        BY <1>1
      <3> QED
        BY <3>1, OneMore
    <2>3. ASSUME n \in DOMAIN data, ~Over(n, k + 1), NEW t \in Types
          PROVE  Latest(data[n][t], n, t, k + 1)
      <3>1. CASE n # e
        BY <1>4, <2>0, <2>2, <2>3, <3>1 DEF UpToDate
      <3>2. CASE n = e /\ t = y
        BY ZenonT(30), <1>1, <1>4, <1>5, <3>2, OneMore
      <3>3. CASE n = e /\ t # y /\ e \in DOMAIN s.data
        <4>1. Latest(s.data[e][t], e, t, k)
          BY <2>0, <2>3, <3>3 DEF UpToDate
        <4>2. data[n][t] = s.data[e][t]
          BY <1>4, <1>5, <3>3 DEF Fields
        <4> QED
          BY <2>2, <3>3, <4>1, <4>2
      <3>4. CASE n = e /\ t # y /\ e \notin DOMAIN s.data
        <4>1. data[n][t] = NoLine
          BY <1>4, <1>5, <3>4 DEF Fields
        <4>2. \A i \in 1 .. k : written[i].number # e
          BY <3>4 DEF UpToDate
        <4>3. Latest(NoLine, e, t, k)
          BY <4>2 DEF Latest
        <4> QED
          BY <2>2, <3>4, <4>1, <4>3
      <3> QED
        BY <3>1, <3>2, <3>3, <3>4
    <2>4. Over(n, k + 1) <=> \E j \in DOMAIN s.sent : s.sent[j].number = n
      BY <2>0 DEF UpToDate
    <2>5. ASSUME NEW j \in DOMAIN s.sent, s.sent[j].number = n
          PROVE  \A t \in Types : Latest(s.sent[j].fields[t], n, t, k + 1)
      <3>1. Over(n, k)
        BY <2>0, <2>4, <2>5
      <3>2. n # e
        <4>1. PICK i \in 1 .. k : written[i] = [number |-> n, type |-> "EOE"]
          BY <3>1 DEF Over
        <4>2. i \in 1 .. Len(written) /\ k + 1 \in i + 1 .. Len(written)
          BY <1>1
        <4>3. written[i].type = "EOE" /\ written[i].number = n
          BY <4>1
        <4> QED
          BY <4>2, <4>3 DEF RowsInOrder, e
      <3>3. \A t \in Types : Latest(s.sent[j].fields[t], n, t, k)
        BY <2>5 DEF UpToDate
      <3> QED
        BY <2>2, <3>2, <3>3
    <2>6. \A i, j \in DOMAIN s.sent :
                s.sent[i].number = n /\ s.sent[j].number = n => i = j
      BY DEF UpToDate
    <2> QED
      BY <2>1, <2>3, <2>4, <2>5, <2>6
  <1>7. ~s.crashed
    BY DEF UpToDate
  <1>8. UpToDate(k + 1, data, s.sent, s.crashed)
    BY <1>6, <1>7 DEF UpToDate
  <1> QED
    BY <1>3, <1>8

\* A whole line takes the fields and the records one line further.
LEMMA LineUpToDate ==
    ASSUME LinesInv, RowsInOrder, NEW k \in Nat, k + 1 <= Len(written),
           NEW s, GoodState(s), UpToDate(k, s.data, s.sent, s.crashed)
    PROVE  LET u == ParseLine(s, Whole(k + 1))
           IN  UpToDate(k + 1, u.data, u.sent, u.crashed)
  <1> DEFINE p == Whole(k + 1)
             t == [s EXCEPT !.msgid = p.number]
  <1>1. /\ k + 1 \in 1 .. Len(written)
        /\ p.number = written[k + 1].number /\ p.type = written[k + 1].type
    BY RowType DEF LinesInv, Whole, Piece
  <1>2. p.number \in Numbers /\ p.type \in LineTypes
    BY <1>1, RowType
  <1>3. /\ t.msgid = p.number /\ t.data = s.data /\ t.sent = s.sent
        /\ t.crashed = s.crashed /\ GoodState(t)
    BY <1>2 DEF GoodState, Shown
  <1>4. ParseLine(s, p) = IF p.type = "EOE" THEN SendData(t, p.number)
                          ELSE Collect(t, p)
    BY <1>2, <1>3, NoNumberIsNone DEF ParseLine, UpToDate
  <1> HIDE DEF t
  <1>5. CASE p.type = "EOE"
    BY <1>1, <1>3, <1>4, <1>5, EndUpToDate
  <1>6. CASE p.type # "EOE"
    <2>1. p.type \in Types
      BY <1>2, <1>6 DEF LineTypes
    <2> HIDE DEF p
    <2>2. p = Whole(k + 1)
      BY DEF p
    <2>3. LET u == Collect(t, p)
          IN  UpToDate(k + 1, u.data, u.sent, u.crashed)
      BY <1>3, <2>1, <2>2, DataUpToDate
    <2> QED
      BY <1>4, <1>6, <2>2, <2>3
  <1> QED
    BY <1>5, <1>6
\* A text of whole lines, the next ones, is parsed to its end.
LEMMA ParseBufUpToDate ==
    ASSUME LinesInv, RowsInOrder, NEW r \in Nat, NEW text, TextOfLines(text),
           r + Len(text) <= Len(written),
           \A i \in 1 .. Len(text) : text[i] = Whole(r + i),
           UpToDate(r, datavals, sent, FALSE)
    PROVE  LET s == ParseBuf(text)
           IN  UpToDate(r + Len(text), s.data, s.sent, s.crashed)
  <1> DEFINE after == Progress(text)
             Good(i) == /\ GoodState(after[i])
                        /\ UpToDate(r + i, after[i].data, after[i].sent,
                                    after[i].crashed)
             S == {i \in 0 .. Len(text) : Good(i)}
  <1>0. text \in Seq(Pieces) /\ Len(text) \in Nat /\ Len(written) \in Nat
    BY DEF TextOfLines, LinesInv
  <1>1. Good(0)
    <2>1. /\ GoodState(Parsing) /\ Parsing.data = datavals
          /\ Parsing.sent = sent /\ Parsing.crashed = FALSE
      BY DEF Parsing, GoodState, LinesInv, Shown
    <2>2. after[0] = Parsing /\ r + 0 = r
      BY <1>0, ProgressSteps
    <2> HIDE DEF after
    <2> QED
      BY <2>1, <2>2
  <1>2. ASSUME NEW i \in 1 .. Len(text), i - 1 \in S PROVE i \in S
    <2>1. Good(i - 1)
      BY <1>2
    <2>2. IsLine(text, i)
      <3>1. text[i].ends /\ text[1] = Whole(r + 1) /\ Head(text) = text[1]
        <4>1. 1 \in 1 .. Len(text) /\ text[i] = Whole(r + i)
          BY <1>0
        <4>2. Whole(r + i).ends
          BY DEF Whole, Piece
        <4> QED
          BY <1>0, <4>1, <4>2
      <3>2. text[1].type = written[r + 1].type /\ r + 1 \in 1 .. Len(written)
        BY <1>0, <3>1 DEF Whole, Piece
      <3>3. Head(text).type \in LineTypes
        BY <3>1, <3>2, RowType
      <3>4. Empty \notin LineTypes
        BY AuditAssumption DEF LineTypes, Empty
      <3> QED
        BY <3>1, <3>3, <3>4 DEF IsLine
    <2>3. after[i] = ParseLine(after[i - 1], text[i])
      BY <1>0, <2>2, ProgressSteps
    <2>4. text[i] \in Pieces /\ OfLine(text[i], written) /\ text[i].ends
          /\ written \in Seq(Rows)
      <3>1. text[i] = Whole(r + i) /\ Whole(r + i).ends
        BY DEF Whole, Piece
      <3> QED
        BY <1>0, <3>1 DEF TextOfLines, LinesInv
    <2>5. /\ r + (i - 1) \in Nat /\ (r + (i - 1)) + 1 <= Len(written)
          /\ (r + (i - 1)) + 1 = r + i
      BY <1>0
    <2> HIDE DEF after
    <2>6. GoodState(after[i])
      BY <2>1, <2>3, <2>4, ParseLineKeeps
    <2>7. UpToDate(r + i, after[i].data, after[i].sent, after[i].crashed)
      BY <2>1, <2>3, <2>5, LineUpToDate
    <2> QED
      BY <2>6, <2>7
  <1>3. 0 \in S
    BY <1>0, <1>1
  <1> HIDE DEF S
  <1>4. \A i \in 1 .. Len(text) : i - 1 \in S => i \in S
    BY <1>2
  <1>5. Len(text) \in S
    <2>1. \A i \in 0 .. Len(text) : i \in S
      BY <1>0, <1>3, <1>4, Steps, Zenon
    <2> QED
      BY <1>0, <2>1
  <1> QED
    BY <1>5 DEF S, ParseBuf

LEMMA EventsStart == DriverInit => EventsInv
  <1> SUFFICES ASSUME DriverInit PROVE EventsInv
    OBVIOUS
  <1>1. LinesInv
    BY LinesStart
  <1>2. /\ written = <<>> /\ wire = <<>> /\ out = <<>> /\ ended = {}
        /\ sent = <<>> /\ cuts = 0 /\ crashed = FALSE
        /\ DOMAIN datavals = {}
    BY DEF DriverInit, AuditInit
  <1>3. Read = 0
    <2>1. Len(<<>>) = 0
      OBVIOUS
    <2>2. Len(written) = 0 /\ Len(wire) = 0 /\ Len(out) = 0
      BY <1>2, <2>1, Zenon
    <2> QED
      BY <2>2 DEF Read
  <1>4. UpToDate(0, datavals, sent, crashed)
    BY <1>2 DEF UpToDate, Over
  <1> QED
    BY <1>1, <1>2, <1>3, <1>4 DEF EventsInv, RowsInOrder, Over

LEMMA WriteInOrder ==
    ASSUME EventsInv, NEW n \in Numbers, NEW type \in LineTypes, Write(n, type)
    PROVE  EventsInv'
  <1>0. /\ LinesInv /\ LinesInv' /\ Len(written) \in Nat /\ Len(wire) \in Nat
        /\ Len(out) \in Nat /\ DOMAIN written = 1 .. Len(written)
    BY WriteKeeps DEF EventsInv, LinesInv, TextOfLines
  <1> PICK row, piece, k :
        /\ row = [number |-> n, type |-> type] /\ k = Len(written)
        /\ piece = Piece(n, type, k + 1, TRUE)
    OBVIOUS
  <1>1. row \in Rows /\ piece \in Pieces /\ k \in Nat
    BY <1>0 DEF Rows, Piece, Pieces, Shown
  <1>2. /\ Len(written') = k + 1 /\ written'[k + 1] = row
        /\ \A i \in 1 .. k : written'[i] = written[i]
    BY <1>0, <1>1, Appended DEF Write, LinesInv
  <1>3. /\ Len(wire') = Len(wire) + 1 /\ wire'[Len(wire) + 1] = piece
        /\ \A i \in 1 .. Len(wire) : wire'[i] = wire[i]
    <2>1. \A p \in Pieces :
            /\ Len(Append(wire, p)) = Len(wire) + 1
            /\ \A i \in 1 .. Len(wire) : Append(wire, p)[i] = wire[i]
            /\ Append(wire, p)[Len(wire) + 1] = p
      BY <1>0, Appended DEF LinesInv
    <2>2. wire' = Append(wire, piece)
      BY DEF Write
    <2> QED
      BY <1>1, <2>1, <2>2
  <1>4. /\ out' = out /\ datavals' = datavals /\ sent' = sent /\ cuts' = cuts
        /\ crashed' = crashed /\ n \notin ended
        /\ ended' = IF type = "EOE" THEN ended \cup {n} ELSE ended
        /\ type = "EOE" => \E i \in 1 .. k : written[i].number = n
    BY <1>0 DEF Write
  <1>5. row.number = n /\ row.type = type /\ \A i \in 1 .. k + 1 :
            i \in 1 .. k \/ i = k + 1
    BY <1>1
  <1>6. ASSUME NEW m, NEW j \in 0 .. k PROVE Over(m, j)' <=> Over(m, j)
    <2>1. \A i \in 1 .. j : written'[i] = written[i]
      BY <1>1, <1>2
    <2> QED
      BY <2>1 DEF Over
  <1>7. ~Over(n, k)
    BY <1>4 DEF EventsInv
  <1>8. RowsInOrder'
    <2> SUFFICES ASSUME NEW i \in 1 .. k + 1, written'[i].type = "EOE"
                 PROVE  /\ \E j \in 1 .. i - 1 :
                                written'[j].number = written'[i].number
                        /\ \A j \in i + 1 .. k + 1 :
                                written'[j].number # written'[i].number
      BY <1>2 DEF RowsInOrder
    <2>1. CASE i = k + 1
      BY <1>1, <1>2, <1>4, <1>5, <2>1
    <2>2. CASE i \in 1 .. k
      <3>1. written'[i] = written[i] /\ written[i].type = "EOE"
        BY <1>2, <2>2
      <3>2. \E j \in 1 .. i - 1 : written[j].number = written[i].number
        BY <2>2, <3>1 DEF EventsInv, RowsInOrder
      <3>3. \E j \in 1 .. i - 1 : written'[j].number = written'[i].number
        BY <1>1, <1>2, <2>2, <3>1, <3>2
      <3>4. written[i].number # n
        BY <1>0, <1>7, <2>2, <3>1, RowType DEF Over
      <3>5. \A j \in i + 1 .. k : written[j].number # written[i].number
        BY <2>2, <3>1 DEF EventsInv, RowsInOrder
      <3>6. ASSUME NEW j \in i + 1 .. k + 1
            PROVE  written'[j].number # written'[i].number
        <4>1. CASE j = k + 1
          BY <1>2, <1>5, <3>1, <3>4, <4>1
        <4>2. CASE j # k + 1
          <5>1. j \in 1 .. k /\ j \in i + 1 .. k
            BY <1>1, <2>2, <4>2
          <5> QED
            BY <1>2, <3>1, <3>5, <5>1
        <4> QED
          BY <4>1, <4>2
      <3> QED
        BY <3>3, <3>6
    <2> QED
      BY <1>5, <2>1, <2>2
  <1>9. ASSUME NEW m \in Numbers
        PROVE  m \in ended' <=> Over(m, Len(written))'
    <2>1. Over(m, Len(written))' <=>
            \E i \in 1 .. k + 1 : written'[i] = [number |-> m, type |-> "EOE"]
      BY <1>2 DEF Over
    <2>2. (\E i \in 1 .. k + 1 : written'[i] = [number |-> m, type |-> "EOE"])
            <=> Over(m, k) \/ row = [number |-> m, type |-> "EOE"]
      <3>1. \A i \in 1 .. k : i \in 1 .. k + 1
        BY <1>1
      <3>2. k + 1 \in 1 .. k + 1
        BY <1>1
      <3> QED
        BY <1>2, <1>5, <3>1, <3>2 DEF Over
    <2>3. row = [number |-> m, type |-> "EOE"] <=> n = m /\ type = "EOE"
      OBVIOUS
    <2>4. m \in ended <=> Over(m, k)
      BY DEF EventsInv
    <2> QED
      BY <1>4, <2>1, <2>2, <2>3, <2>4
  <1>10. \A i \in 1 .. k : Whole(i)' = Whole(i)
    BY <1>2 DEF Whole
  <1>11. Read' = Read
    BY <1>0, <1>2, <1>3, <1>4 DEF Read
  <1>12. ASSUME cuts = 0
         PROVE  /\ \A i \in 1 .. Len(out) : out[i] = (Whole(Read + i))'
                /\ \A i \in 1 .. Len(wire') :
                        wire'[i] = (Whole(Read + Len(out) + i))'
    <2>1. Read \in Nat /\ k = Read + Len(out) + Len(wire)
      BY <1>0, <1>12 DEF EventsInv, Read
    <2> PICK r, o : r = Read /\ o = Len(out)
      OBVIOUS
    <2>2. \A i \in 1 .. o : out[i] = Whole(r + i)
      BY <1>12 DEF EventsInv
    <2>3. \A i \in 1 .. Len(wire) : wire[i] = Whole(r + o + i)
      BY <1>12 DEF EventsInv
    <2>4. piece = Whole(k + 1)'
      BY <1>2, <1>5 DEF Whole
    <2>5. ASSUME NEW i \in 1 .. o PROVE out[i] = Whole(r + i)'
      <3>1. r + i \in 1 .. k
        BY <1>0, <2>1
      <3> QED
        BY <1>10, <2>2, <3>1
    <2>6. ASSUME NEW i \in 1 .. Len(wire) + 1
          PROVE  wire'[i] = Whole(r + o + i)'
      <3>1. CASE i = Len(wire) + 1
        <4>1. r + o + i = k + 1
          BY <1>0, <2>1, <3>1
        <4> QED
          BY <1>3, <2>4, <3>1, <4>1
      <3>2. CASE i # Len(wire) + 1
        <4>1. r + o + i \in 1 .. k /\ i \in 1 .. Len(wire)
          BY <1>0, <2>1, <3>2
        <4> QED
          BY <1>3, <1>10, <2>3, <4>1
      <3> QED
        BY <3>1, <3>2
    <2> QED
      BY <1>3, <1>4, <1>11, <2>5, <2>6
  <1>13. ASSUME cuts = 0 PROVE UpToDate(Read, datavals, sent, crashed)'
    <2>1. Read \in 0 .. k /\ Read \in Nat
      BY <1>0, <1>13 DEF EventsInv, Read
    <2>2. PICK r \in 0 .. k : r = Read
      BY <2>1
    <2>3. UpToDate(r, datavals, sent, crashed)
      BY <1>13, <2>2 DEF EventsInv
    <2>4. \A i \in 1 .. r : written'[i] = written[i]
      BY <1>1, <1>2
    <2>5. ASSUME NEW l, NEW m, NEW t, Latest(l, m, t, r)
          PROVE  Latest(l, m, t, r)'
      <3>1. \A i \in l + 1 .. r : l \in 1 .. r => i \in 1 .. r
        BY <1>1
      <3> QED
        BY <2>4, <2>5, <3>1 DEF Latest
    <2>6. UpToDate(r, datavals, sent, crashed)'
      BY <1>4, <1>6, <2>3, <2>4, <2>5 DEF UpToDate
    <2> QED
      BY <1>11, <2>2, <2>6
  <1> QED
    BY <1>0, <1>4, <1>8, <1>9, <1>11, <1>12, <1>13 DEF EventsInv

\* As long as no read ends inside a line, the text is the next whole lines.
LEMMA NextLines ==
    ASSUME EventsInv, cuts = 0, NEW n \in 1 .. Len(wire)
    PROVE  LET text == Joined(out, Received(n, "none"))
           IN  /\ TextOfLines(text) /\ Len(text) = Len(out) + n
               /\ \A i \in 1 .. Len(text) : text[i] = Whole(Read + i)
  <1> DEFINE received == Received(n, "none")
             text == Joined(out, received)
  <1>0. /\ LinesInv /\ out \in Seq(Pieces) /\ wire \in Seq(Pieces)
        /\ Len(out) \in Nat /\ Len(wire) \in Nat /\ Read \in Nat
    BY DEF EventsInv, LinesInv, TextOfLines
  <1>1. TextOfLines(text)
    BY <1>0, ReceivedText, JoinedText DEF Cuts
  <1>2. /\ received \in Seq(Pieces) /\ Len(received) = n
        /\ \A i \in 1 .. n : received[i] = wire[i]
    BY <1>0 DEF Received
  <1>3. \A i \in 1 .. Len(out) : out[i] = Whole(Read + i) /\ out[i].ends
    BY DEF EventsInv, Whole, Piece
  <1>4. text = out \o received
    <2>1. out = <<>> \/ Last(out).ends
      BY <1>0, <1>3 DEF Last
    <2> HIDE DEF received
    <2> QED
      BY <2>1 DEF Joined
  <1> HIDE DEF received, text
  <1>5. /\ Len(text) = Len(out) + n
        /\ \A i \in 1 .. Len(out) + n :
              text[i] = IF i <= Len(out) THEN out[i] ELSE received[i - Len(out)]
    BY <1>0, <1>2, <1>4, PiecesJoined
  <1>6. ASSUME NEW i \in 1 .. Len(text) PROVE text[i] = Whole(Read + i)
    <2>1. CASE i <= Len(out)
      BY <1>0, <1>3, <1>5, <2>1
    <2>2. CASE i > Len(out)
      <3>1. /\ i - Len(out) \in 1 .. n /\ i - Len(out) \in 1 .. Len(wire)
            /\ Read + Len(out) + (i - Len(out)) = Read + i
        BY <1>0, <1>5, <2>2
      <3>2. text[i] = wire[i - Len(out)]
        BY <1>2, <1>5, <2>2, <3>1
      <3>3. wire[i - Len(out)] = Whole(Read + Len(out) + (i - Len(out)))
        BY <3>1 DEF EventsInv
      <3> QED
        BY <3>1, <3>2, <3>3
    <2> QED
      BY <1>0, <1>5, <2>1, <2>2
  <1> QED
    BY <1>1, <1>5, <1>6 DEF text, received

LEMMA RecvInOrder ==
    ASSUME EventsInv, NEW n \in DOMAIN wire, NEW cut \in Cuts,
           NEW filled \in BOOLEAN, Recv(n, cut, filled)
    PROVE  EventsInv'
  <1> DEFINE text == Joined(out, Received(n, cut))
             s == ParseBuf(text)
  <1>0. /\ LinesInv /\ LinesInv' /\ n \in 1 .. Len(wire) /\ Len(wire) \in Nat
        /\ wire \in Seq(Pieces) /\ Len(out) \in Nat /\ Len(written) \in Nat
    BY RecvKeeps DEF EventsInv, LinesInv, TextOfLines
  <1>1. /\ wire' = Unread(n, cut) /\ written' = written /\ ended' = ended
        /\ cuts' = IF cut = "none" THEN cuts ELSE cuts + 1
        /\ ~crashed
        /\ \/ out' = text /\ UNCHANGED <<datavals, sent, crashed>>
           \/ /\ out' = <<>> /\ datavals' = s.data /\ sent' = s.sent
              /\ crashed' = s.crashed
    BY Zenon DEF Recv
  <1>2. cuts' \in Nat /\ (cuts' = 0 => cuts = 0 /\ cut = "none")
    BY <1>1 DEF EventsInv
  <1>3. RowsInOrder' /\ \A m \in Numbers : m \in ended' <=> Over(m, Len(written))'
    BY <1>1 DEF EventsInv, RowsInOrder, Over
  <1>4. ASSUME cuts = 0, cut = "none"
        PROVE  /\ Read' \in Nat
               /\ \A i \in 1 .. Len(out') : out'[i] = Whole(Read' + i)
               /\ \A i \in 1 .. Len(wire') :
                        wire'[i] = Whole(Read' + Len(out') + i)
               /\ UpToDate(Read', datavals', sent', crashed')
    <2>0. /\ Read \in Nat /\ UpToDate(Read, datavals, sent, crashed)
          /\ \A i \in 1 .. Len(wire) : wire[i] = Whole(Read + Len(out) + i)
          /\ Len(written) = Read + Len(out) + Len(wire)
      BY <1>0, <1>4 DEF EventsInv, Read
    <2>1. /\ TextOfLines(text) /\ Len(text) = Len(out) + n
          /\ \A i \in 1 .. Len(text) : text[i] = Whole(Read + i)
      BY <1>0, <1>4, NextLines
    <2>2. /\ wire' \in Seq(Pieces) /\ Len(wire') = Len(wire) - n
          /\ \A i \in 1 .. Len(wire) - n : wire'[i] = wire[n + i]
      BY <1>0, <1>1, <1>4 DEF Unread
    <2>3. UpToDate(Read + Len(text), s.data, s.sent, s.crashed)
      <3> HIDE DEF text
      <3>1. Read + Len(text) <= Len(written)
        BY <1>0, <2>0, <2>1
      <3>2. UpToDate(Read, datavals, sent, FALSE)
        BY <1>1, <2>0 DEF UpToDate
      <3> QED
        BY <1>0, <2>0, <2>1, <3>1, <3>2, ParseBufUpToDate DEF EventsInv
    <2> HIDE DEF text, s
    <2>4. ASSUME NEW k, k = Read + Len(text), NEW i \in 1 .. Len(wire')
          PROVE  wire'[i] = Whole(k + i)
      <3>1. /\ n + i \in 1 .. Len(wire) /\ i \in 1 .. Len(wire) - n
            /\ Read + Len(out) + (n + i) = k + i
        <4>1. i \in 1 .. Len(wire) - n
          BY <2>2
        <4>2. Read \in Nat /\ k = Read + (Len(out) + n)
          BY <2>0, <2>1, <2>4
        <4> QED
          BY SMTT(30), <1>0, <4>1, <4>2
      <3> QED
        BY <2>0, <2>2, <3>1
    <2>5. CASE out' = text /\ UNCHANGED <<datavals, sent, crashed>>
      <3>1. Read' = Read
        BY <1>0, <1>1, <2>0, <2>1, <2>2, <2>5 DEF Read
      <3> QED
        BY <2>0, <2>1, <2>4, <2>5, <3>1
    <2>6. CASE /\ out' = <<>> /\ datavals' = s.data /\ sent' = s.sent
               /\ crashed' = s.crashed
      <3>0. Len(out') = 0
        BY <2>6
      <3>1. Read' = Read + Len(text)
        BY <1>0, <1>1, <2>0, <2>1, <2>2, <3>0 DEF Read
      <3>2. Read' \in Nat /\ \A i \in 1 .. Len(wire') :
                    Read' + Len(out') + i = Read' + i
        BY SMTT(30), <1>0, <2>0, <2>1, <3>0, <3>1
      <3> QED
        BY <2>3, <2>4, <2>6, <3>0, <3>1, <3>2
    <2> QED
      BY <1>1, <2>5, <2>6
  <1>5. \A i : Whole(i)' = Whole(i)
    BY <1>1 DEF Whole
  <1>6. UpToDate(Read', datavals', sent', crashed')
            => UpToDate(Read, datavals, sent, crashed)'
    BY <1>1 DEF UpToDate, Over, Latest
  <1> QED
    BY <1>0, <1>2, <1>3, <1>4, <1>5, <1>6 DEF EventsInv

LEMMA EventsStep == EventsInv /\ [DriverNext]_driverVars => EventsInv'
  <1> SUFFICES ASSUME EventsInv, [DriverNext]_driverVars PROVE EventsInv'
    OBVIOUS
  <1>1. CASE UNCHANGED auditVars
    <2>1. /\ written' = written /\ wire' = wire /\ out' = out /\ cuts' = cuts
          /\ datavals' = datavals /\ sent' = sent /\ ended' = ended
          /\ crashed' = crashed
      BY <1>1 DEF auditVars
    <2>2. LinesInv'
      BY LinesStep DEF EventsInv
    <2> QED
      <3>1. /\ RowsInOrder' /\ Read' = Read /\ \A i : Whole(i)' = Whole(i)
            /\ \A m, k : Over(m, k)' <=> Over(m, k)
        BY <2>1 DEF EventsInv, RowsInOrder, Over, Read, Whole
      <3>2. UpToDate(Read, datavals, sent, crashed)
                => UpToDate(Read, datavals, sent, crashed)'
        BY <2>1, <3>1 DEF UpToDate, Latest
      <3> QED
        BY <2>1, <2>2, <3>1, <3>2 DEF EventsInv
  <1> QED
    BY <1>1, WriteInOrder, RecvInOrder DEF DriverNext, AuditNext, driverVars,
                                           LineTypes

LEMMA LatestIsLast ==
    ASSUME LinesInv, NEW n, NEW t, NEW l, Latest(l, n, t, Len(written))
    PROVE  l = LastOf(n, t)
  <1> DEFINE lines == {i \in DOMAIN written :
                        written[i] = [number |-> n, type |-> t]}
  <1>0. DOMAIN written = 1 .. Len(written) /\ Len(written) \in Nat
    BY DEF LinesInv
  <1>1. CASE l = NoLine /\ \A i \in 1 .. Len(written) :
                    written[i] # [number |-> n, type |-> t]
    BY <1>0, <1>1 DEF LastOf
  <1>2. CASE /\ l \in 1 .. Len(written)
             /\ written[l] = [number |-> n, type |-> t]
             /\ \A i \in l + 1 .. Len(written) :
                    written[i] # [number |-> n, type |-> t]
    <2>1. l \in lines
      BY <1>0, <1>2
    <2>2. \A j \in lines : j \in Nat /\ j <= l
      BY <1>0, <1>2
    <2>3. \A i \in lines : (\A j \in lines : j <= i) => i = l
      BY <2>1, <2>2
    <2>4. LastOf(n, t) = CHOOSE i \in lines : \A j \in lines : j <= i
      BY <2>1 DEF LastOf
    <2> HIDE DEF lines
    <2> QED
      BY <2>1, <2>2, <2>3, <2>4
  <1> QED
    BY <1>1, <1>2 DEF Latest

\* As long as the reads end with a line, every event whose end was read is one
\* record, and the record is whole.
THEOREM EventsWhole == Spec => []WholeEvents
  <1>1. EventsInv => WholeEvents
    <2> SUFFICES ASSUME EventsInv, cuts = 0, NEW n \in Numbers
                 PROVE  LET records == {i \in DOMAIN sent : sent[i].number = n}
                            read == n \in ended /\ \A p \in ToSet(wire \o out) :
                                        p.number # n
                        IN  /\ ~crashed
                            /\ Cardinality(records) = IF read THEN 1 ELSE 0
                            /\ \A i \in records, t \in Types :
                                    sent[i].fields[t] = LastOf(n, t)
      BY DEF WholeEvents, EventsInv, UpToDate
    <2> DEFINE records == {i \in DOMAIN sent : sent[i].number = n}
               read == n \in ended /\ \A p \in ToSet(wire \o out) : p.number # n
    <2>0. /\ LinesInv /\ RowsInOrder /\ Read \in Nat /\ Len(wire) \in Nat
          /\ Len(out) \in Nat /\ Len(written) = Read + Len(out) + Len(wire)
          /\ wire \in Seq(Pieces) /\ out \in Seq(Pieces)
          /\ UpToDate(Read, datavals, sent, crashed)
          /\ n \in ended <=> Over(n, Len(written))
      <3>1. /\ wire \in Seq(Pieces) /\ out \in Seq(Pieces)
            /\ written \in Seq(Rows) /\ Read \in Nat
        BY DEF EventsInv, LinesInv, TextOfLines
      <3>2. Len(written) = Read + Len(out) + Len(wire)
        BY <3>1 DEF Read
      <3> QED
        BY <3>1, <3>2 DEF EventsInv
    <2> DEFINE both == wire \o out
    <2>a. /\ both \in Seq(Pieces) /\ Len(both) = Len(wire) + Len(out)
          /\ \A i \in 1 .. Len(wire) + Len(out) :
                both[i] = IF i <= Len(wire) THEN wire[i]
                          ELSE out[i - Len(wire)]
      BY <2>0, PiecesJoined
    <2>b. \A i : Whole(i).number = written[i].number
      BY DEF Whole, Piece
    <2>c. /\ \A i \in 1 .. Len(wire) :
                wire[i].number = written[Read + Len(out) + i].number
          /\ \A i \in 1 .. Len(out) : out[i].number = written[Read + i].number
      BY <2>b DEF EventsInv
    <2>d. ToSet(both) = {both[i] : i \in 1 .. Len(wire) + Len(out)}
      BY <2>a DEF ToSet
    <2> HIDE DEF both
    <2>1. \A i \in Read + 1 .. Len(written) :
            \E p \in ToSet(wire \o out) : p.number = written[i].number
      <3> SUFFICES ASSUME NEW i \in Read + 1 .. Len(written)
                   PROVE  \E p \in ToSet(both) : p.number = written[i].number
        BY DEF both
      <3>1. CASE i <= Read + Len(out)
        <4> PICK k : k = i - Read
          OBVIOUS
        <4>1. /\ k \in 1 .. Len(out) /\ Read + k = i /\ k + Len(wire) > Len(wire)
              /\ k + Len(wire) \in 1 .. Len(wire) + Len(out)
              /\ (k + Len(wire)) - Len(wire) = k
          BY <2>0, <3>1
        <4>2. both[k + Len(wire)] = out[k]
          BY SMTT(30), <2>0, <2>a, <4>1
        <4> QED
          BY <2>c, <2>d, <4>1, <4>2
      <3>2. CASE i > Read + Len(out)
        <4> PICK k : k = i - (Read + Len(out))
          OBVIOUS
        <4>1. /\ k \in 1 .. Len(wire) /\ Read + Len(out) + k = i
              /\ k \in 1 .. Len(wire) + Len(out)
          BY <2>0, <3>2
        <4>2. both[k] = wire[k]
          BY <2>0, <2>a, <4>1
        <4> QED
          BY <2>c, <2>d, <4>1, <4>2
      <3> QED
        BY <2>0, <3>1, <3>2
    <2>2. \A p \in ToSet(wire \o out) :
            \E i \in Read + 1 .. Len(written) : p.number = written[i].number
      <3> SUFFICES ASSUME NEW k \in 1 .. Len(wire) + Len(out)
                   PROVE  \E i \in Read + 1 .. Len(written) :
                                both[k].number = written[i].number
        BY <2>d DEF both
      <3>1. CASE k <= Len(wire)
        <4>1. /\ k \in 1 .. Len(wire)
              /\ Read + Len(out) + k \in Read + 1 .. Len(written)
          BY <2>0, <3>1
        <4> QED
          BY <2>a, <2>c, <3>1, <4>1
      <3>2. CASE k > Len(wire)
        <4>1. /\ k - Len(wire) \in 1 .. Len(out) /\ ~ k <= Len(wire)
              /\ Read + (k - Len(wire)) \in Read + 1 .. Len(written)
          BY <2>0, <3>2
        <4>2. both[k] = out[k - Len(wire)]
          BY <2>a, <4>1
        <4> QED
          BY <2>c, <4>1, <4>2
      <3> QED
        BY <2>0, <3>1, <3>2
    <2>3. Over(n, Read) => \A i \in Read + 1 .. Len(written) :
                                written[i].number # n
      <3> SUFFICES ASSUME Over(n, Read), NEW i \in Read + 1 .. Len(written)
                   PROVE  written[i].number # n
        OBVIOUS
      <3>1. PICK j \in 1 .. Read : written[j] = [number |-> n, type |-> "EOE"]
        BY DEF Over
      <3>2. /\ j \in 1 .. Len(written) /\ i \in j + 1 .. Len(written)
            /\ written[j].type = "EOE" /\ written[j].number = n
        BY <2>0, <3>1
      <3> QED
        BY <2>0, <3>2 DEF RowsInOrder
    <2>4. read <=> Over(n, Read)
      <3>1. ASSUME Over(n, Read) PROVE read
        <4>1. Over(n, Len(written))
          BY <2>0, <3>1 DEF Over
        <4> QED
          BY <2>0, <2>2, <2>3, <3>1, <4>1
      <3>2. ASSUME read PROVE Over(n, Read)
        <4>1. PICK j \in 1 .. Len(written) :
                    written[j] = [number |-> n, type |-> "EOE"]
          BY <2>0, <3>2 DEF Over
        <4>2. j \notin Read + 1 .. Len(written)
          <5>1. written[j].number = n
            BY <4>1
          <5> QED
            BY <2>1, <3>2, <5>1
        <4>3. j \in 1 .. Read
          BY <2>0, <4>2
        <4> QED
          BY <4>1, <4>3 DEF Over
      <3> QED
        BY <3>1, <3>2
    <2> HIDE DEF read
    <2>5. Cardinality(records) = IF read THEN 1 ELSE 0
      <3>1. Over(n, Read) <=> records # {}
        BY <2>0 DEF UpToDate
      <3>2. \A i, j \in records : i = j
        BY <2>0 DEF UpToDate
      <3> HIDE DEF records
      <3>3. CASE records = {}
        BY <2>4, <3>1, <3>3, FS_EmptySet
      <3>4. CASE records # {}
        <4>1. PICK i \in records : records = {i}
          BY <3>2, <3>4
        <4>2. Cardinality(records) = 1
          BY <4>1, FS_Singleton
        <4> QED
          BY <2>4, <3>1, <3>4, <4>2
      <3> QED
        BY <3>3, <3>4
    <2>6. ASSUME NEW i \in records, NEW t \in Types
          PROVE  sent[i].fields[t] = LastOf(n, t)
      <3> DEFINE l == sent[i].fields[t]
      <3>1. i \in DOMAIN sent /\ sent[i].number = n
        BY <2>6
      <3>2. Latest(l, n, t, Read) /\ Over(n, Read)
        BY <2>0, <2>6, <3>1 DEF UpToDate
      <3>3. \A j \in Read + 1 .. Len(written) :
                written[j] # [number |-> n, type |-> t]
        <4> SUFFICES ASSUME NEW j \in Read + 1 .. Len(written),
                            written[j] = [number |-> n, type |-> t]
                     PROVE  FALSE
          OBVIOUS
        <4>1. written[j].number = n
          OBVIOUS
        <4> QED
          BY <2>3, <3>2, <4>1
      <3> HIDE DEF l
      <3>4. \A j \in 1 .. Len(written) :
                j \in 1 .. Read \/ j \in Read + 1 .. Len(written)
        BY <2>0
      <3>5. Latest(l, n, t, Len(written))
        <4>1. CASE l = NoLine /\ \A j \in 1 .. Read :
                        written[j] # [number |-> n, type |-> t]
          BY <3>3, <3>4, <4>1 DEF Latest
        <4>2. CASE /\ l \in 1 .. Read /\ written[l] = [number |-> n, type |-> t]
                   /\ \A j \in l + 1 .. Read :
                            written[j] # [number |-> n, type |-> t]
          <5>1. l \in 1 .. Len(written) /\ \A j \in l + 1 .. Len(written) :
                    j \in l + 1 .. Read \/ j \in Read + 1 .. Len(written)
            BY <2>0, <4>2
          <5> QED
            BY <3>3, <4>2, <5>1 DEF Latest
        <4> QED
          BY <3>2, <4>1, <4>2 DEF Latest
      <3> QED
        BY <2>0, <3>5, LatestIsLast DEF l
    <2>7. ~crashed
      BY <2>0 DEF UpToDate
    <2> QED
      BY <2>5, <2>6, <2>7, Zenon DEF read
  <1> QED
    BY <1>1, EventsStart, EventsStep, PTL DEF Spec

=============================================================================
