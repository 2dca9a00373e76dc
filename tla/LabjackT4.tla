----------------------------- MODULE LabjackT4 -----------------------------
(***************************************************************************)
(* The worker of a LabJack T4 (MechLJT4) with a stepper motor on four of   *)
(* its channels: readDeviceLoop reads the inputs, steps a motor that runs, *)
(* and, when its semaphore has a permit, does the commands in localidComm  *)
(* (handleCommand), which the control thread puts there.  How a command    *)
(* gets its response is CommandResponse; here it is what the commands do   *)
(* to the device and to the motor.                                         *)
(*                                                                         *)
(* The device is external: a read of its inputs or a write of its outputs  *)
(* may fail, a write after some of its channels.                           *)
(***************************************************************************)
EXTENDS Integers, Sequences, FiniteSets, FiniteSetsExt

CONSTANTS
    Commands,    \* what the control thread may send, see CommandSet
    MaxCommands, \* bound: commands sent
    MaxFrames,   \* MAX_CHANNELS_PER_INTERFACE
    MaxFailures  \* bound: reads, writes and openings that fail

\* motor_channela .. d, and the other outputs.
Coils == <<"a", "b", "c", "d">>
CoilSet == {Coils[i] : i \in 1 .. 4}
Channels == CoilSet \cup {"x"}

\* A command is for this worker's localid, or for a later one, which sorts
\* after it in the multimap.  duration is atoi's.
Updates == [op : {"update"}, mine : BOOLEAN, channel : Channels, val : 0 .. 1]
Starts == [op : {"start_motor"}, mine : BOOLEAN,
           direction : {"open", "close"}, duration : Nat]
CommandSet == Updates \cup Starts

ASSUME LabjackAssumption ==
    /\ Commands \subseteq CommandSet
    /\ MaxCommands \in Nat /\ MaxFrames \in Nat \ {0} /\ MaxFailures \in Nat

VARIABLES
    own,      \* localidComm: the commands of this worker's localid, numbered
    later,    \* localidComm: those of the later localids
    permits,  \* value of the worker's semaphore
    sent,     \* commands sent
    pc,       \* worker: where it is in readDeviceLoop
    motor,    \* motor_running, current_motor_step, motor_direction, _duration
    device,   \* the outputs
    failures,
    clean,    \* history: the last write to the motor's channels succeeded
    touched,  \* history: the motor's channels updated since it was stopped
    done      \* history: numbers of the commands done at least once

vars == <<own, later, permits, sent, pc, motor, device, failures, clean, touched,
          done>>
localidComm == <<own, later>>
history == <<clean, touched, done>>

Init ==
    /\ own = <<>> /\ later = <<>> /\ permits = 0 /\ sent = 0
    /\ pc = "read"
    /\ motor = [running |-> FALSE, step |-> 0, direction |-> "open",
                duration |-> 0]
    /\ device = [ch \in Channels |-> 0]
    /\ failures = 0
    /\ clean = TRUE /\ touched = {} /\ done = {}

-----------------------------------------------------------------------------
\* Other threads

\* doCommand: into the multimap, behind the commands with the same localid,
\* and a permit for the worker it is for.
DoCommand ==
    /\ sent < MaxCommands
    /\ \E cmd \in Commands :
          LET c == [n |-> sent + 1, cmd |-> cmd]
          IN IF cmd.mine
             THEN own' = Append(own, c) /\ permits' = permits + 1
                  /\ UNCHANGED later
             ELSE later' = Append(later, c) /\ UNCHANGED <<own, permits>>
    /\ sent' = sent + 1
    /\ UNCHANGED <<pc, motor, device, failures, history>>

\* The worker of the later localid has done its commands.
OtherHandles ==
    /\ later # <<>> /\ later' = <<>>
    /\ UNCHANGED <<own, permits, sent, pc, motor, device, failures, history>>

-----------------------------------------------------------------------------
\* The device

\* The outputs after values were written to the first k of the coils.
WriteCoils(dev, values, k) ==
    [ch \in Channels |-> IF \E i \in 1 .. k : Coils[i] = ch
                         THEN values[CHOOSE i \in 1 .. k : Coils[i] = ch]
                         ELSE dev[ch]]

MayFail == failures < MaxFailures

\* The k channels a write of n reaches: all, or fewer when it fails.
Reached(n) == {n} \cup (IF MayFail THEN 0 .. n - 1 ELSE {})
Failures(k, n) == IF k < n THEN failures + 1 ELSE failures

\* dpsLJRead.  When it fails the device is closed; the motor keeps its state.
Read ==
    /\ pc = "read"
    /\ \/ pc' = "motor" /\ UNCHANGED failures
       \/ MayFail /\ failures' = failures + 1 /\ pc' = "closed"
    /\ UNCHANGED <<localidComm, permits, sent, motor, device, history>>

\* LJM_Open, and the read that primes the values.
Open ==
    /\ pc = "closed"
    /\ \/ pc' = "read" /\ UNCHANGED failures
       \/ MayFail /\ failures' = failures + 1 /\ UNCHANGED pc
    /\ UNCHANGED <<localidComm, permits, sent, motor, device, history>>

-----------------------------------------------------------------------------
\* dpsLJMotor

\* The arrays a, b, c and d: one channel is high in each of four steps.
Pattern(step, direction) ==
    LET i == IF direction = "close" THEN 3 - (step % 4) ELSE step % 4
        high == <<"a", "c", "b", "d">>[i + 1]
    IN [k \in 1 .. 4 |-> IF Coils[k] = high THEN 1 ELSE 0]
Off == <<0, 0, 0, 0>>

\* Mutant: the step begins again after the four of a pattern.
SteppedInCycle == [motor EXCEPT !.step = (@ + 1) % 4]
Stepped == [motor EXCEPT !.step = @ + 1]

StepMotor ==
    LET more == Stepped.step < motor.duration IN
    /\ pc = "motor"
    /\ IF motor.running
       THEN \E k \in Reached(4) :
          /\ motor' = [Stepped EXCEPT !.running = more]
          /\ device' = WriteCoils(device,
                 IF more THEN Pattern(Stepped.step, motor.direction) ELSE Off,
                 k)
          /\ failures' = Failures(k, 4) /\ clean' = (k = 4)
          /\ touched' = {}
       ELSE UNCHANGED <<motor, device, failures, clean, touched>>
    /\ pc' = "wait"
    /\ UNCHANGED <<localidComm, permits, sent, done>>

-----------------------------------------------------------------------------
\* handleCommand

Permit == permits > 0

GetPermit ==
    /\ pc = "wait" /\ Permit
    /\ permits' = permits - 1
    /\ pc' = "handle"
    /\ UNCHANGED <<localidComm, sent, motor, device, failures, history>>

\* The wait ends after 25 ms or, when the motor runs, at once.
Timeout == permits = 0

NoPermit ==
    /\ pc = "wait" /\ Timeout
    /\ pc' = "read"
    /\ UNCHANGED <<localidComm, permits, sent, motor, device, failures, history>>

\* The walk over localidComm goes from the first of the worker's commands to
\* the end of the multimap, over the commands of later localids too.
comm == own \o later
Walked == IF own = <<>> THEN {} ELSE DOMAIN comm
IsUpdate(i) == comm[i].cmd.op = "update"

\* The motor runs when the walk comes to the i-th command; ok says whether the
\* device takes a start.
Runs(i, ok) == motor.running \/ (ok /\ \E j \in 1 .. i - 1 : ~ IsUpdate(j))

\* Mutant: the last of the four channels is not compared.
UsesMotorButD(i) == IsUpdate(i) => comm[i].cmd.channel \in CoilSet \ {"d"}
UsesMotor(i) == IsUpdate(i) => comm[i].cmd.channel \in CoilSet
Conflicts(i, ok) == Runs(i, ok) /\ UsesMotor(i)

\* The updates that are written: up to the first conflict, and MaxFrames.
Batch(ok) ==
    {i \in Walked : /\ IsUpdate(i)
                    /\ \A j \in 1 .. i : ~ Conflicts(j, ok)
                    /\ Cardinality({j \in 1 .. i : IsUpdate(j)}) <= MaxFrames}
\* With MaxFrames updates the walk ends.
Visited(ok) ==
    {i \in Walked : Cardinality(Batch(ok) \cap 1 .. i - 1) < MaxFrames}

\* The starts that were written.
Begun(ok) == {i \in Visited(ok) : ~ IsUpdate(i) /\ ~ Runs(i, ok)}

\* The place of the i-th command in cNames and cValues, which a start that the
\* walk meets later takes from it.
Place(i, ok) == Cardinality(Batch(ok) \cap 1 .. i)
Overwritten(i, ok) == Place(i, ok) <= 4 /\ \E j \in Begun(ok) : j > i
Name(i, ok) ==
    IF Overwritten(i, ok) THEN Coils[Place(i, ok)] ELSE comm[i].cmd.channel
Value(i, ok) == IF Overwritten(i, ok) THEN 1 ELSE comm[i].cmd.val

\* The outputs after the first l updates were written.
Updated(dev, l, ok) ==
    [ch \in Channels |->
        LET writes == {i \in Batch(ok) : Place(i, ok) <= l
                                         /\ Name(i, ok) = ch}
        IN IF writes = {} THEN dev[ch] ELSE Value(Max(writes), ok)]

\* The motor after its start; the value 5 stands for a missing duration.
Started(ok) ==
    LET cmd == comm[Max(Begun(ok))].cmd
    IN IF Begun(ok) = {} THEN motor
       ELSE [running |-> ok, step |-> 0, direction |-> cmd.direction,
             duration |-> IF cmd.duration < 1 THEN 5 ELSE cmd.duration]

\* Mutant: the flag tells of the last command only.
BlockedAtEnd(ok) ==
    Visited(ok) # {} /\ Conflicts(Max(Visited(ok)), ok)
Blocked(ok) == \E i \in Visited(ok) : Conflicts(i, ok)

\* A start is written at once and the updates after the walk.  Unless there was
\* a conflict, every command of the localid is erased, done or not.
HandleCommand ==
    /\ pc = "handle"
    /\ \E k \in Reached(4) : LET ok == k = 4
                                size == Cardinality(Batch(ok))
                            IN
       \E l \in Reached(size) :
          LET written == {i \in Batch(ok) : Place(i, ok) <= l
                                            /\ ~ Overwritten(i, ok)}
              tried == IF Begun(ok) = {} THEN device
                       ELSE WriteCoils(device, <<1, 1, 1, 1>>, k)
          IN /\ ok \/ (Begun(ok) # {} /\ l = size)
             /\ motor' = Started(ok)
             /\ device' = Updated(tried, l, ok)
             /\ failures' = IF ok THEN Failures(l, size) ELSE failures + 1
             /\ clean' = IF Begun(ok) = {} THEN clean ELSE ok
             /\ touched' = touched \cup {comm[i].cmd.channel : i \in written}
             /\ done' = done \cup {comm[i].n : i \in written}
                   \cup IF ok THEN {comm[i].n : i \in Begun(ok)} ELSE {}
             /\ own' = IF Blocked(ok) THEN own ELSE <<>>
    /\ pc' = "read"
    /\ UNCHANGED <<later, permits, sent>>

Worker ==
    Read \/ Open \/ StepMotor \/ GetPermit \/ NoPermit \/ HandleCommand

Next == DoCommand \/ OtherHandles \/ Worker

\* The worker runs; none of its waits is unbounded.
Spec == Init /\ [][Next]_vars /\ WF_vars(Worker)

-----------------------------------------------------------------------------
\* Type invariant.
TypeOK ==
    /\ own \in Seq([n : 1 .. MaxCommands, cmd : Commands])
    /\ later \in Seq([n : 1 .. MaxCommands, cmd : Commands])
    /\ permits \in 0 .. MaxCommands /\ sent \in 0 .. MaxCommands
    /\ pc \in {"read", "closed", "motor", "wait", "handle"}
    /\ motor \in [running : BOOLEAN, step : Nat,
                  direction : {"open", "close"}, duration : Nat]
    /\ device \in [Channels -> 0 .. 1]
    /\ failures \in 0 .. MaxFailures
    /\ clean \in BOOLEAN /\ touched \subseteq Channels
    /\ done \subseteq 1 .. MaxCommands

\* No command, for whichever localid, disturbs a motor that runs: from its
\* first step on its four channels have the pattern of the step.  Stopped, they
\* are off but for those that an update has set since.  Only a write that
\* failed, when the step was the last one, leaves the motor with current.
MotorUndisturbed ==
    clean =>
        /\ motor.running /\ motor.step > 0 => \A i \in 1 .. 4 :
              device[Coils[i]] = Pattern(motor.step, motor.direction)[i]
        /\ ~ motor.running => \A ch \in CoilSet \ touched : device[ch] = 0

Erased(i) == \A j \in DOMAIN own' : own'[j].n # own[i].n
DoneOrExcused(i) ==
    \/ own[i].n \in done'
    \/ failures' > failures
    \/ Cardinality({j \in 1 .. i - 1 : IsUpdate(j)}) >= MaxFrames
    \/ IsUpdate(i) /\ \E j \in i + 1 .. Len(comm) : ~ IsUpdate(j)

\* A command of the worker is erased only when it was done.  What is lost are
\* the commands behind a full batch of updates, the updates before a start of
\* the motor in one batch, whose places in cNames it takes, and those the
\* device refused; a conflict loses none, though what was done before it in the
\* batch is done again later.
ErasedOnlyWhenDone ==
    [][\A i \in DOMAIN own : Erased(i) => DoneOrExcused(i)]_vars

\* A motor that was started stops, whatever commands come and although the
\* device may fail and be opened again in between.
MotorStops == motor.running ~> ~ motor.running

=============================================================================
