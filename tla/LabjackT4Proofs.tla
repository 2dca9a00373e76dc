--------------------------- MODULE LabjackT4Proofs ---------------------------
(***************************************************************************)
(* Theorems about LabjackT4 for any commands, any number of them and any   *)
(* failures: types, that no command disturbs a motor that runs, and which  *)
(* commands are lost.                                                      *)
(***************************************************************************)
EXTENDS LabjackT4, FiniteSetTheorems, WellFoundedInduction, TLAPS

Numbered == [n : 1 .. MaxCommands, cmd : Commands]
Motors == [running : BOOLEAN, step : Nat, direction : {"open", "close"},
           duration : Nat]

LEMMA Bounds ==
    /\ Commands \subseteq CommandSet
    /\ MaxCommands \in Nat /\ MaxFrames \in Nat /\ MaxFrames > 0
    /\ MaxFailures \in Nat
  BY LabjackAssumption

\* The coils are four different channels.
LEMMA FourCoils ==
    /\ Coils[1] = "a" /\ Coils[2] = "b" /\ Coils[3] = "c" /\ Coils[4] = "d"
    /\ CoilSet = {"a", "b", "c", "d"} /\ CoilSet \subseteq Channels
    /\ \A i \in 1 .. 4 : Coils[i] \in CoilSet
    /\ \A i, j \in 1 .. 4 : Coils[i] = Coils[j] => i = j
  <1>1. Coils[1] = "a" /\ Coils[2] = "b" /\ Coils[3] = "c" /\ Coils[4] = "d"
    BY DEF Coils
  <1>2. 1 .. 4 = {1, 2, 3, 4}
    OBVIOUS
  <1> QED
    BY <1>1, <1>2 DEF CoilSet, Channels

\* A write that reaches all of the coils sets each to its value, one that does
\* not leaves some, and no write touches another channel.
LEMMA CoilsWritten ==
    ASSUME NEW dev, NEW values, NEW k \in 0 .. 4
    PROVE  /\ \A i \in 1 .. k : WriteCoils(dev, values, k)[Coils[i]] = values[i]
           /\ \A ch \in Channels : WriteCoils(dev, values, k)[ch] = dev[ch]
                  \/ \E i \in 1 .. k : WriteCoils(dev, values, k)[ch] = values[i]
  <1> DEFINE w == WriteCoils(dev, values, k)
  <1>1. ASSUME NEW i \in 1 .. k
        PROVE  (CHOOSE j \in 1 .. k : Coils[j] = Coils[i]) = i
    <2>1. \A j \in 1 .. k : Coils[j] = Coils[i] <=> j = i
      BY FourCoils
    <2> QED
      BY <2>1
  <1>2. \A i \in 1 .. k : w[Coils[i]] = values[i]
    BY <1>1, FourCoils DEF WriteCoils
  <1>3. ASSUME NEW ch \in Channels
        PROVE  w[ch] = dev[ch] \/ \E i \in 1 .. k : w[ch] = values[i]
    <2>1. CASE \E i \in 1 .. k : Coils[i] = ch
      BY <2>1, <1>2
    <2>2. CASE ~ \E i \in 1 .. k : Coils[i] = ch
      BY <2>2 DEF WriteCoils
    <2> QED
      BY <2>1, <2>2
  <1> QED
    BY <1>2, <1>3

LEMMA WriteType ==
    ASSUME NEW dev \in [Channels -> 0 .. 1], NEW k \in 0 .. 4, NEW values,
           \A i \in 1 .. 4 : values[i] \in 0 .. 1
    PROVE  WriteCoils(dev, values, k) \in [Channels -> 0 .. 1]
  <1>1. \A ch \in Channels : WriteCoils(dev, values, k)[ch] \in 0 .. 1
    BY CoilsWritten
  <1> QED
    BY <1>1 DEF WriteCoils

\* The k a write reaches, and the failures counted.
LEMMA ReachedType ==
    ASSUME failures \in 0 .. MaxFailures, NEW n \in Nat, NEW k \in Reached(n)
    PROVE  k \in 0 .. n /\ (k < n => MayFail)
           /\ Failures(k, n) \in 0 .. MaxFailures
           /\ (k = n => Failures(k, n) = failures)
           /\ (k # n => Failures(k, n) = failures + 1)
  <1>1. k \in 0 .. n /\ (k # n => MayFail)
    BY DEF Reached
  <1> QED
    BY <1>1, Bounds DEF Failures, MayFail
-----------------------------------------------------------------------------
(* The walk.                                                                 *)

\* Types of the two parts of localidComm.
CommTypes == own \in Seq(Numbered) /\ later \in Seq(Numbered)

LEMMA WalkType ==
    ASSUME CommTypes
    PROVE  /\ comm \in Seq(Numbered) /\ DOMAIN comm = 1 .. Len(comm)
           /\ Len(comm) = Len(own) + Len(later)
           /\ Walked \subseteq 1 .. Len(comm) /\ IsFiniteSet(Walked)
           /\ \A i \in 1 .. Len(own) : comm[i] = own[i]
           /\ \A i \in 1 .. Len(comm) :
                 /\ comm[i].n \in 1 .. MaxCommands
                 /\ comm[i].cmd \in Commands
                 /\ IsUpdate(i) => /\ comm[i].cmd.channel \in Channels
                                   /\ comm[i].cmd.val \in 0 .. 1
                 /\ ~ IsUpdate(i) => /\ comm[i].cmd.direction \in {"open", "close"}
                                     /\ comm[i].cmd.duration \in Nat
  <1>1. /\ comm \in Seq(Numbered) /\ DOMAIN comm = 1 .. Len(comm)
        /\ Len(comm) = Len(own) + Len(later)
        /\ \A i \in 1 .. Len(own) : comm[i] = own[i]
    BY DEF CommTypes, comm
  <1>2. Walked \subseteq 1 .. Len(comm) /\ IsFiniteSet(Walked)
    <2>1. Len(comm) \in Nat
      BY <1>1
    <2>2. IsFiniteSet(1 .. Len(comm))
      BY <2>1, FS_Interval
    <2> QED
      BY <1>1, <2>2, FS_EmptySet DEF Walked
  <1>3. ASSUME NEW i \in 1 .. Len(comm)
        PROVE  /\ comm[i].n \in 1 .. MaxCommands
               /\ comm[i].cmd \in Commands
               /\ IsUpdate(i) => /\ comm[i].cmd.channel \in Channels
                                 /\ comm[i].cmd.val \in 0 .. 1
               /\ ~ IsUpdate(i) => /\ comm[i].cmd.direction \in {"open", "close"}
                                   /\ comm[i].cmd.duration \in Nat
    <2>1. comm[i] \in Numbered
      BY <1>1
    <2>2. comm[i].cmd \in CommandSet
      BY <2>1, Bounds DEF Numbered
    <2> QED
      BY <2>1, <2>2 DEF Numbered, CommandSet, Updates, Starts, IsUpdate
  <1> QED
    BY <1>1, <1>2, <1>3

LEMMA SetsFinite ==
    ASSUME CommTypes, NEW ok \in BOOLEAN
    PROVE  /\ IsFiniteSet(Batch(ok)) /\ Cardinality(Batch(ok)) \in Nat
           /\ Batch(ok) \subseteq Walked /\ Visited(ok) \subseteq Walked
           /\ Begun(ok) \subseteq Visited(ok)
           /\ \A i \in Batch(ok) :
                 Place(i, ok) \in Nat /\ Place(i, ok) >= 1
                 /\ Place(i, ok) <= Cardinality(Batch(ok))
  <1>1. Batch(ok) \subseteq Walked /\ IsFiniteSet(Batch(ok))
    BY WalkType, FS_Subset DEF Batch
  <1>2. Cardinality(Batch(ok)) \in Nat
    BY <1>1, FS_CardinalityType
  <1>3. ASSUME NEW i \in Batch(ok)
        PROVE  Place(i, ok) \in Nat /\ Place(i, ok) >= 1
               /\ Place(i, ok) <= Cardinality(Batch(ok))
    <2> DEFINE S == Batch(ok) \cap 1 .. i
    <2>1. S \subseteq Batch(ok) /\ i \in S
      BY <1>1, WalkType
    <2>2. /\ IsFiniteSet(S) /\ Cardinality(S) \in Nat
          /\ Cardinality(S) <= Cardinality(Batch(ok))
      BY <1>1, <2>1, FS_Subset, FS_CardinalityType
    <2>3. Cardinality(S) # 0
      BY <2>1, <2>2, FS_EmptySet
    <2> QED
      BY <2>2, <2>3 DEF Place
  <1> QED
    BY <1>1, <1>2, <1>3 DEF Visited, Begun

\* A set of places in a sequence has a last one.
LEMMA LastPlace ==
    ASSUME NEW n \in Nat, NEW S \in SUBSET (1 .. n), S # {}
    PROVE  Max(S) \in S
  <1> DEFINE T == {n - i : i \in S}
  <1>0. \A i \in S : i \in Nat /\ n - i \in Nat
    OBVIOUS
  <1>1. T \subseteq Nat /\ T # {}
    BY <1>0
  <1>2. PICK x \in T : \A y \in T : ~ <<y, x>> \in OpToRel(<, Nat)
    BY <1>1, NatLessThanWellFounded, WFMin
  <1>3. \A y \in T : ~ y < x
    BY <1>1, <1>2 DEF OpToRel
  <1>4. PICK m \in S : x = n - m
    BY <1>2
  <1>5. \A i \in S : m >= i
    <2>1. ASSUME NEW i \in S PROVE m >= i
      <3>1. n - i \in T
        OBVIOUS
      <3>2. ~ n - i < n - m
        BY <1>3, <1>4, <3>1
      <3> QED
        BY <1>0, <3>2
    <2> QED
      BY <2>1
  <1> QED
    BY <1>5 DEF Max

LEMMA StartedType ==
    ASSUME CommTypes, motor \in Motors, NEW ok \in BOOLEAN
    PROVE  Started(ok) \in Motors
  <1>1. CASE Begun(ok) = {}
    BY <1>1 DEF Started
  <1>2. CASE Begun(ok) # {}
    <2> DEFINE i == Max(Begun(ok))
    <2>1. Len(comm) \in Nat /\ Begun(ok) \subseteq 1 .. Len(comm)
      BY WalkType, SetsFinite
    <2>2. i \in Begun(ok)
      BY <1>2, <2>1, LastPlace
    <2>3. /\ comm[i].cmd.direction \in {"open", "close"}
          /\ comm[i].cmd.duration \in Nat
      BY <2>1, <2>2, WalkType DEF Begun
    <2> QED
      BY <1>2, <2>3 DEF Started, Motors
  <1> QED
    BY <1>1, <1>2

LEMMA UpdatedType ==
    ASSUME CommTypes, NEW dev \in [Channels -> 0 .. 1], NEW l, NEW ok \in BOOLEAN
    PROVE  Updated(dev, l, ok) \in [Channels -> 0 .. 1]
  <1>1. ASSUME NEW ch \in Channels PROVE Updated(dev, l, ok)[ch] \in 0 .. 1
    <2> DEFINE writes == {i \in Batch(ok) : Place(i, ok) <= l
                                            /\ Name(i, ok) = ch}
    <2>1. Updated(dev, l, ok)[ch]
            = IF writes = {} THEN dev[ch] ELSE Value(Max(writes), ok)
      BY DEF Updated
    <2>2. CASE writes # {}
      <3>1. Len(comm) \in Nat /\ writes \subseteq 1 .. Len(comm)
        BY WalkType, SetsFinite
      <3>2. Max(writes) \in writes
        BY <2>2, <3>1, LastPlace
      <3>3. Max(writes) \in 1 .. Len(comm) /\ IsUpdate(Max(writes))
        BY <3>1, <3>2 DEF Batch
      <3>4. Value(Max(writes), ok) \in 0 .. 1
        BY <3>3, WalkType DEF Value
      <3> QED
        BY <2>1, <2>2, <3>4
    <2> QED
      BY <2>1, <2>2
  <1> QED
    BY <1>1 DEF Updated

-----------------------------------------------------------------------------
(* Types.                                                                    *)

\* Each permit is for a command that was sent.
TypeInv == TypeOK /\ permits <= sent

LEMMA InitType == Init => TypeInv
  BY Bounds DEF Init, TypeInv, TypeOK, Channels

LEMMA StepMotorType == TypeInv /\ StepMotor => TypeInv'
  <1> SUFFICES ASSUME TypeInv, StepMotor PROVE TypeInv'
    OBVIOUS
  <1> DEFINE more == Stepped.step < motor.duration
  <1>1. motor \in Motors
    BY DEF TypeInv, TypeOK, Motors
  <1>2. Stepped \in Motors
    BY <1>1 DEF Stepped, Motors
  <1>m. \A r \in BOOLEAN : [Stepped EXCEPT !.running = r] \in Motors
    BY <1>2 DEF Motors
  <1>b. more \in BOOLEAN
    OBVIOUS
  <1>3. CASE motor.running
    <2> DEFINE values == IF more THEN Pattern(Stepped.step, motor.direction)
                         ELSE Off
    <2>1. PICK k \in Reached(4) :
             /\ motor' = [Stepped EXCEPT !.running = more]
             /\ device' = WriteCoils(device, values, k)
             /\ failures' = Failures(k, 4) /\ clean' = (k = 4)
             /\ touched' = {}
      BY <1>3 DEF StepMotor
    <2>2. k \in 0 .. 4 /\ failures' \in 0 .. MaxFailures
      BY <2>1, ReachedType DEF TypeInv, TypeOK
    <2>3. \A i \in 1 .. 4 : values[i] \in 0 .. 1
      BY DEF Pattern, Off
    <2>4. device' \in [Channels -> 0 .. 1]
      <3> HIDE DEF values
      <3> QED
        BY <2>1, <2>2, <2>3, WriteType DEF TypeInv, TypeOK
    <2>5. motor' \in Motors
      BY <1>m, <1>b, <2>1
    <2>6. clean' \in BOOLEAN /\ touched' = {} /\ pc' = "wait"
      BY <2>1 DEF StepMotor
    <2> QED
      BY <2>2, <2>4, <2>5, <2>6
      DEF StepMotor, localidComm, TypeInv, TypeOK, Motors
  <1>4. CASE ~ motor.running
    BY <1>4 DEF StepMotor, localidComm, TypeInv, TypeOK
  <1> QED
    BY <1>3, <1>4

\* What one walk does, with ok and l chosen by the device.
Handled(ok, k, l) ==
    LET size == Cardinality(Batch(ok))
        written == {i \in Batch(ok) : Place(i, ok) <= l
                                      /\ ~ Overwritten(i, ok)}
        tried == IF Begun(ok) = {} THEN device
                 ELSE WriteCoils(device, <<1, 1, 1, 1>>, k)
    IN /\ ok \/ (Begun(ok) # {} /\ l = size)
       /\ motor' = Started(ok)
       /\ device' = Updated(tried, l, ok)
       /\ failures' = IF ok THEN Failures(l, size) ELSE failures + 1
       /\ clean' = IF Begun(ok) = {} THEN clean ELSE ok
       /\ touched' = touched \cup {comm[i].cmd.channel : i \in written}
       /\ done' = done \cup {comm[i].n : i \in written}
             \cup IF ok THEN {comm[i].n : i \in Begun(ok)} ELSE {}
       /\ own' = IF Blocked(ok) THEN own ELSE <<>>

LEMMA HandleCases ==
    ASSUME TypeInv, HandleCommand
    PROVE  /\ CommTypes /\ pc' = "read" /\ UNCHANGED <<later, permits, sent>>
           /\ \E ok \in BOOLEAN, k \in 0 .. 4, l \in Nat :
                 /\ ok <=> k = 4
                 /\ ~ ok => MayFail
                 /\ l <= Cardinality(Batch(ok))
                 /\ Failures(l, Cardinality(Batch(ok))) \in 0 .. MaxFailures
                 /\ l # Cardinality(Batch(ok)) =>
                       Failures(l, Cardinality(Batch(ok))) = failures + 1
                 /\ Handled(ok, k, l)
  <1>1. CommTypes
    BY DEF TypeInv, TypeOK, CommTypes, Numbered
  <1>2. PICK k \in Reached(4) :
           \E l \in Reached(Cardinality(Batch(k = 4))) : Handled(k = 4, k, l)
    BY DEF HandleCommand, Handled
  <1> DEFINE ok == k = 4
  <1>f. failures \in 0 .. MaxFailures
    BY DEF TypeInv, TypeOK
  <1>3. k \in 0 .. 4 /\ (~ ok => MayFail)
    <2>1. 4 \in Nat
      OBVIOUS
    <2>2. k \in 0 .. 4 /\ (k < 4 => MayFail)
      BY ONLY <1>f, <2>1, k \in Reached(4), ReachedType
    <2> QED
      BY ONLY <2>2
  <1>4. Cardinality(Batch(ok)) \in Nat
    BY <1>1, SetsFinite
  <1>5. PICK l \in Reached(Cardinality(Batch(ok))) : Handled(ok, k, l)
    BY <1>2
  <1>6. /\ l \in Nat /\ l <= Cardinality(Batch(ok))
        /\ Failures(l, Cardinality(Batch(ok))) \in 0 .. MaxFailures
        /\ l # Cardinality(Batch(ok)) =>
              Failures(l, Cardinality(Batch(ok))) = failures + 1
    BY <1>4, <1>f, ReachedType
  <1> HIDE DEF ok
  <1>7. ok \in BOOLEAN /\ (ok <=> k = 4)
    BY DEF ok
  <1> QED
    BY <1>1, <1>3, <1>5, <1>6, <1>7 DEF HandleCommand

LEMMA HandleType == TypeInv /\ HandleCommand => TypeInv'
  <1> SUFFICES ASSUME TypeInv, HandleCommand PROVE TypeInv'
    OBVIOUS
  <1>1. CommTypes /\ pc' = "read" /\ UNCHANGED <<later, permits, sent>>
    BY HandleCases
  <1>2. PICK ok \in BOOLEAN, k \in 0 .. 4, l \in Nat :
           /\ ~ ok => MayFail
           /\ Failures(l, Cardinality(Batch(ok))) \in 0 .. MaxFailures
           /\ Handled(ok, k, l)
    BY HandleCases
  <1>3. motor' \in Motors
    BY <1>1, <1>2, StartedType DEF Handled, TypeInv, TypeOK, Motors
  <1>4. device' \in [Channels -> 0 .. 1]
    <2> DEFINE tried == IF Begun(ok) = {} THEN device
                        ELSE WriteCoils(device, <<1, 1, 1, 1>>, k)
    <2>1. \A i \in 1 .. 4 : <<1, 1, 1, 1>>[i] \in 0 .. 1
      OBVIOUS
    <2>2. tried \in [Channels -> 0 .. 1]
      BY <2>1, WriteType DEF TypeInv, TypeOK
    <2>3. device' = Updated(tried, l, ok)
      BY <1>2 DEF Handled
    <2> HIDE DEF tried
    <2> QED
      BY <1>1, <2>2, <2>3, UpdatedType
  <1>5. failures' \in 0 .. MaxFailures
    BY <1>2, Bounds DEF Handled, MayFail, TypeInv, TypeOK
  <1>6. /\ touched' \subseteq Channels /\ done' \subseteq 1 .. MaxCommands
    <2>1. \A i \in Batch(ok) : /\ comm[i].cmd.channel \in Channels
                               /\ comm[i].n \in 1 .. MaxCommands
      BY <1>1, SetsFinite, WalkType DEF Batch
    <2>2. \A i \in Begun(ok) : comm[i].n \in 1 .. MaxCommands
      BY <1>1, SetsFinite, WalkType
    <2> DEFINE written == {i \in Batch(ok) : Place(i, ok) <= l
                                             /\ ~ Overwritten(i, ok)}
               begun == IF ok THEN {comm[i].n : i \in Begun(ok)} ELSE {}
    <2>3. /\ touched' = touched \cup {comm[i].cmd.channel : i \in written}
          /\ done' = done \cup {comm[i].n : i \in written} \cup begun
      BY <1>2 DEF Handled
    <2>4. begun \subseteq 1 .. MaxCommands
      BY <2>2
    <2>5. written \subseteq Batch(ok)
      OBVIOUS
    <2> HIDE DEF begun, written
    <2>6. /\ {comm[i].cmd.channel : i \in written} \subseteq Channels
          /\ {comm[i].n : i \in written} \subseteq 1 .. MaxCommands
      BY <2>1, <2>5
    <2> QED
      BY <2>3, <2>4, <2>6 DEF TypeInv, TypeOK
  <1>7. clean' \in BOOLEAN
    BY <1>2 DEF Handled, TypeInv, TypeOK
  <1>8. own' \in Seq(Numbered)
    BY <1>1, <1>2 DEF Handled, CommTypes
  <1> QED
    BY <1>1, <1>3, <1>4, <1>5, <1>6, <1>7, <1>8
    DEF TypeInv, TypeOK, Motors, Numbered

LEMMA DoCommandType == TypeInv /\ DoCommand => TypeInv'
  <1> SUFFICES ASSUME TypeInv, sent < MaxCommands, NEW cmd \in Commands,
                      LET c == [n |-> sent + 1, cmd |-> cmd]
                      IN IF cmd.mine
                         THEN own' = Append(own, c) /\ permits' = permits + 1
                              /\ UNCHANGED later
                         ELSE later' = Append(later, c)
                              /\ UNCHANGED <<own, permits>>,
                      sent' = sent + 1,
                      UNCHANGED <<pc, motor, device, failures, history>>
               PROVE  TypeInv'
    BY DEF DoCommand
  <1>1. [n |-> sent + 1, cmd |-> cmd] \in Numbered
    BY Bounds DEF Numbered, TypeInv, TypeOK
  <1>2. own' \in Seq(Numbered) /\ later' \in Seq(Numbered)
    <2>1. own \in Seq(Numbered) /\ later \in Seq(Numbered)
      BY DEF TypeInv, TypeOK, Numbered
    <2>2. \A q \in Seq(Numbered) :
             Append(q, [n |-> sent + 1, cmd |-> cmd]) \in Seq(Numbered)
      BY <1>1
    <2>3. CASE cmd.mine
      BY <2>1, <2>2, <2>3
    <2>4. CASE ~ cmd.mine
      BY <2>1, <2>2, <2>4
    <2> QED
      BY <2>3, <2>4
  <1>3. /\ permits' \in 0 .. MaxCommands /\ sent' \in 0 .. MaxCommands
        /\ permits' <= sent'
    BY Bounds DEF TypeInv, TypeOK
  <1> QED
    BY <1>2, <1>3 DEF TypeInv, TypeOK, Numbered, history

LEMMA StepType == TypeInv /\ [Next]_vars => TypeInv'
  <1> SUFFICES ASSUME TypeInv, [Next]_vars PROVE TypeInv'
    OBVIOUS
  <1>1. CASE OtherHandles
    BY <1>1 DEF OtherHandles, TypeInv, TypeOK, history
  <1>2. CASE Read \/ Open
    <2>1. failures' \in 0 .. MaxFailures
      BY <1>2, Bounds DEF Read, Open, MayFail, TypeInv, TypeOK
    <2>2. /\ pc' \in {"read", "motor", "closed"}
          /\ UNCHANGED <<localidComm, permits, sent, motor, device, history>>
      BY <1>2 DEF Read, Open
    <2> QED
      BY <2>1, <2>2 DEF localidComm, TypeInv, TypeOK, history
  <1>3. CASE GetPermit
    BY <1>3, Bounds
    DEF GetPermit, Permit, localidComm, TypeInv, TypeOK, history
  <1>4. CASE NoPermit
    BY <1>4 DEF NoPermit, localidComm, TypeInv, TypeOK, history
  <1>5. CASE UNCHANGED vars
    BY <1>5 DEF vars, TypeInv, TypeOK
  <1> QED
    BY <1>1, <1>2, <1>3, <1>4, <1>5, StepMotorType, HandleType, DoCommandType
    DEF Next, Worker

\* Every variable has its type, and the failures and permits their bounds.
THEOREM TypeCorrect == Spec => []TypeOK
  <1>1. TypeInv => TypeOK
    BY DEF TypeInv
  <1> QED
    BY <1>1, InitType, StepType, PTL DEF Spec

-----------------------------------------------------------------------------
(* The motor.                                                                *)

\* No update is written to a coil while the motor runs, and one written while
\* it stands is remembered as touched.
LEMMA UpdatesSpareMotor ==
    ASSUME TypeInv, CommTypes, NEW ok \in BOOLEAN, NEW k \in 0 .. 4, NEW l \in Nat,
           Handled(ok, k, l), Begun(ok) = {}, NEW ch \in CoilSet
    PROVE  /\ motor.running => device'[ch] = device[ch]
           /\ ch \notin touched' => device'[ch] = device[ch]
           /\ motor' = motor /\ clean' = clean /\ touched \subseteq touched'
  <1> DEFINE writes == {i \in Batch(ok) : Place(i, ok) <= l
                                          /\ Name(i, ok) = ch}
  <1>1. \A i \in Batch(ok) : /\ ~ Overwritten(i, ok)
                             /\ Name(i, ok) = comm[i].cmd.channel
    BY DEF Overwritten, Name
  <1>2. device'[ch] = IF writes = {} THEN device[ch] ELSE Value(Max(writes), ok)
    BY FourCoils DEF Handled, Updated
  <1>3. motor.running => writes = {}
    <2>1. ASSUME motor.running, NEW i \in Batch(ok)
          PROVE  comm[i].cmd.channel # ch
      <3>1. i \in 1 .. i
        BY SetsFinite, WalkType
      <3>2. IsUpdate(i) /\ ~ Conflicts(i, ok)
        BY <3>1 DEF Batch
      <3> QED
        BY <2>1, <3>2 DEF Conflicts, Runs, UsesMotor
    <2> QED
      BY <1>1, <2>1
  <1>4. writes # {} => ch \in touched'
    BY <1>1 DEF Handled
  <1> QED
    BY <1>2, <1>3, <1>4 DEF Handled, Started

LEMMA MotorHandled ==
    TypeInv /\ MotorUndisturbed /\ HandleCommand => MotorUndisturbed'
  <1> SUFFICES ASSUME TypeInv, MotorUndisturbed, HandleCommand
               PROVE  MotorUndisturbed'
    OBVIOUS
  <1>1. CommTypes
    BY HandleCases
  <1>2. PICK ok \in BOOLEAN, k \in 0 .. 4, l \in Nat : Handled(ok, k, l)
    BY HandleCases
  <1>3. CASE Begun(ok) # {}
    <2>1. clean' => motor'.running /\ motor'.step = 0
      BY <1>2, <1>3 DEF Handled, Started
    <2> QED
      BY <2>1 DEF MotorUndisturbed
  <1>4. CASE Begun(ok) = {}
    <2>1. /\ motor' = motor /\ clean' = clean /\ touched \subseteq touched'
          /\ \A ch \in CoilSet :
                /\ motor.running => device'[ch] = device[ch]
                /\ ch \notin touched' => device'[ch] = device[ch]
      <3>1. CoilSet # {}
        BY FourCoils
      <3> QED
        BY <1>1, <1>2, <1>4, <3>1, UpdatesSpareMotor
    <2> QED
      BY <2>1, FourCoils DEF MotorUndisturbed
  <1> QED
    BY <1>3, <1>4

LEMMA MotorStepped ==
    TypeInv /\ MotorUndisturbed /\ StepMotor => MotorUndisturbed'
  <1> SUFFICES ASSUME TypeInv, MotorUndisturbed, StepMotor, clean'
               PROVE  /\ motor'.running /\ motor'.step > 0 => \A i \in 1 .. 4 :
                            device'[Coils[i]]
                                = Pattern(motor'.step, motor'.direction)[i]
                      /\ ~ motor'.running =>
                            \A ch \in CoilSet \ touched' : device'[ch] = 0
    BY DEF MotorUndisturbed
  <1> DEFINE more == Stepped.step < motor.duration
             values == IF more THEN Pattern(Stepped.step, motor.direction) ELSE Off
  <1>1. CASE ~ motor.running
    BY <1>1 DEF StepMotor, MotorUndisturbed
  <1>2. CASE motor.running
    <2>1. /\ motor' = [Stepped EXCEPT !.running = more]
          /\ device' = WriteCoils(device, values, 4)
      BY <1>2 DEF StepMotor
    <2>2. /\ motor'.running = more /\ motor'.step = Stepped.step
          /\ motor'.direction = motor.direction
      BY <2>1 DEF Stepped, TypeInv, TypeOK
    <2>3. \A i \in 1 .. 4 : device'[Coils[i]] = values[i]
      <3> HIDE DEF values
      <3> QED
        BY <2>1, CoilsWritten
    <2>4. \A ch \in CoilSet : \E i \in 1 .. 4 : ch = Coils[i]
      BY DEF CoilSet
    <2>5. \A i \in 1 .. 4 : Off[i] = 0
      BY DEF Off
    <2> QED
      BY <2>2, <2>3, <2>4, <2>5
  <1> QED
    BY <1>1, <1>2

LEMMA MotorStep ==
    TypeInv /\ MotorUndisturbed /\ [Next]_vars => MotorUndisturbed'
  <1> SUFFICES ASSUME TypeInv, MotorUndisturbed, [Next]_vars
               PROVE  MotorUndisturbed'
    OBVIOUS
  <1>1. CASE UNCHANGED <<motor, device, clean, touched>>
    BY <1>1 DEF MotorUndisturbed
  <1> QED
    BY <1>1, MotorHandled, MotorStepped
    DEF Next, Worker, DoCommand, OtherHandles, Read, Open, GetPermit, NoPermit,
        history, vars

\* No command disturbs a motor that runs, whatever fails and is opened again.
THEOREM MotorKept == Spec => []MotorUndisturbed
  <1>1. Init => MotorUndisturbed
    BY FourCoils DEF Init, MotorUndisturbed
  <1> QED
    BY <1>1, InitType, StepType, MotorStep, PTL DEF Spec

-----------------------------------------------------------------------------
(* The commands.                                                             *)

\* Up to a command before which there is no full batch, the walk goes; when it
\* met no conflict, it wrote the updates and began the starts it came to.
LEMMA WalkReaches ==
    ASSUME CommTypes, NEW ok \in BOOLEAN, ~ Blocked(ok),
           NEW i \in 1 .. Len(own),
           Cardinality({j \in 1 .. i - 1 : IsUpdate(j)}) < MaxFrames
    PROVE  IF IsUpdate(i) THEN i \in Batch(ok) ELSE i \in Begun(ok)
  <1> DEFINE Updates1(m) == {j \in 1 .. m : IsUpdate(j)}
  <1>1. /\ own # <<>> /\ i \in Nat /\ i >= 1 /\ Walked = 1 .. Len(comm)
        /\ Len(comm) \in Nat /\ i <= Len(comm)
    BY WalkType DEF Walked, CommTypes
  <1>2. /\ IsFiniteSet(Updates1(i - 1)) /\ Cardinality(Updates1(i - 1)) \in Nat
    <2>1. i - 1 \in Int
      BY <1>1
    <2>2. IsFiniteSet(1 .. i - 1)
      BY <2>1, FS_Interval
    <2>3. Updates1(i - 1) \subseteq 1 .. i - 1
      OBVIOUS
    <2> QED
      BY <2>2, <2>3, FS_Subset, FS_CardinalityType
  <1>3. ASSUME NEW m \in 1 .. i PROVE m \in Visited(ok) /\ ~ Conflicts(m, ok)
    <2>1. Batch(ok) \cap 1 .. m - 1 \subseteq Updates1(i - 1)
      BY <1>1 DEF Batch
    <2>2. /\ Cardinality(Batch(ok) \cap 1 .. m - 1) \in Nat
          /\ Cardinality(Batch(ok) \cap 1 .. m - 1) <= Cardinality(Updates1(i - 1))
      BY <1>2, <2>1, FS_Subset, FS_CardinalityType
    <2>3. m \in Visited(ok)
      BY <1>1, <1>2, <2>2, Bounds DEF Visited
    <2> QED
      BY <2>3 DEF Blocked
  <1>4. CASE IsUpdate(i)
    <2>1. Updates1(i) = Updates1(i - 1) \cup {i} /\ i \notin Updates1(i - 1)
      BY <1>1, <1>4
    <2>2. Cardinality(Updates1(i)) = Cardinality(Updates1(i - 1)) + 1
      BY <1>2, <2>1, FS_AddElement
    <2>3. Cardinality(Updates1(i)) <= MaxFrames
      BY <1>2, <2>2, Bounds
    <2> QED
      BY <1>1, <1>3, <1>4, <2>3 DEF Batch
  <1>5. CASE ~ IsUpdate(i)
    <2>1. i \in Visited(ok) /\ ~ Conflicts(i, ok)
      BY <1>1, <1>3
    <2> QED
      BY <1>5, <2>1 DEF Begun, Conflicts, UsesMotor
  <1> QED
    BY <1>4, <1>5

LEMMA HandledAreDone ==
    ASSUME TypeInv, HandleCommand, NEW i \in DOMAIN own, Erased(i)
    PROVE  DoneOrExcused(i)
  <1> SUFFICES ASSUME failures' <= failures,
                      Cardinality({j \in 1 .. i - 1 : IsUpdate(j)}) < MaxFrames,
                      IsUpdate(i) => \A j \in i + 1 .. Len(comm) : IsUpdate(j)
               PROVE  own[i].n \in done'
    <2>1. failures \in Nat /\ failures' \in Nat
      BY HandleType DEF TypeInv, TypeOK
    <2>2. Cardinality({j \in 1 .. i - 1 : IsUpdate(j)}) \in Nat
      <3>1. i \in Nat
        BY SMTT(30) DEF TypeInv, TypeOK
      <3>2. IsFiniteSet(1 .. i - 1)
        BY <3>1, FS_Interval
      <3>3. {j \in 1 .. i - 1 : IsUpdate(j)} \subseteq 1 .. i - 1
        OBVIOUS
      <3> QED
        BY <3>2, <3>3, FS_Subset, FS_CardinalityType
    <2> QED
      BY <2>1, <2>2, Bounds DEF DoneOrExcused
  <1>1. CommTypes /\ failures \in Nat
    BY HandleCases DEF TypeInv, TypeOK
  <1>2. i \in 1 .. Len(own) /\ comm[i] = own[i] /\ i \in 1 .. Len(comm)
    <2>1. i \in 1 .. Len(own)
      BY <1>1 DEF CommTypes
    <2>2. Len(own) \in Nat /\ Len(later) \in Nat
      BY <1>1 DEF CommTypes
    <2> QED
      BY <1>1, <2>1, <2>2, WalkType
  <1>3. PICK ok \in BOOLEAN, k \in 0 .. 4, l \in Nat :
           /\ ~ ok => MayFail
           /\ l <= Cardinality(Batch(ok))
           /\ l # Cardinality(Batch(ok)) =>
                 Failures(l, Cardinality(Batch(ok))) = failures + 1
           /\ Handled(ok, k, l)
    BY HandleCases
  <1>4. ok /\ l = Cardinality(Batch(ok))
    BY <1>1, <1>3 DEF Handled
  <1>5. ~ Blocked(ok)
    BY <1>3 DEF Handled, Erased
  <1>6. IF IsUpdate(i) THEN i \in Batch(ok) ELSE i \in Begun(ok)
    BY <1>1, <1>2, <1>5, WalkReaches
  <1>7. CASE IsUpdate(i)
    <2>1. Place(i, ok) <= l
      BY <1>1, <1>4, <1>6, <1>7, SetsFinite
    <2>2. ~ Overwritten(i, ok)
      <3>1. ASSUME NEW j \in Begun(ok), j > i PROVE FALSE
        <4>1. ~ IsUpdate(j) /\ j \in 1 .. Len(comm)
          BY <1>1, SetsFinite, WalkType DEF Begun
        <4>2. j \in i + 1 .. Len(comm)
          BY <1>2, <3>1, <4>1
        <4> QED
          BY <1>7, <4>1, <4>2
      <3> QED
        BY <3>1 DEF Overwritten
    <2> QED
      BY <1>2, <1>3, <1>6, <1>7, <2>1, <2>2 DEF Handled
  <1>8. CASE ~ IsUpdate(i)
    BY <1>2, <1>3, <1>4, <1>6, <1>8 DEF Handled
  <1> QED
    BY <1>7, <1>8

\* No other step takes a command away.
LEMMA KeptOtherwise ==
    ASSUME TypeInv, [Next]_vars, ~ HandleCommand, NEW i \in DOMAIN own
    PROVE  ~ Erased(i)
  <1>1. own' = own \/ \E cmd \in Commands :
                         own' = Append(own, [n |-> sent + 1, cmd |-> cmd])
    BY DEF Next, Worker, DoCommand, OtherHandles, Read, Open, StepMotor,
           GetPermit, NoPermit, localidComm, vars
  <1>2. own \in Seq(Numbered)
    BY DEF TypeInv, TypeOK, Numbered
  <1>3. i \in DOMAIN own' /\ own'[i] = own[i]
    <2>1. \A c : /\ i \in DOMAIN Append(own, c)
                 /\ Append(own, c)[i] = own[i]
      BY <1>2
    <2> QED
      BY <1>1, <2>1
  <1> QED
    BY <1>3 DEF Erased

\* Which commands can be lost, whatever commands come and whatever fails.
THEOREM NothingElseLost == Spec => ErasedOnlyWhenDone
  <1>1. TypeInv /\ [Next]_vars =>
           [\A i \in DOMAIN own : Erased(i) => DoneOrExcused(i)]_vars
    BY HandledAreDone, KeptOtherwise
  <1> QED
    BY <1>1, InitType, StepType, PTL DEF Spec, ErasedOnlyWhenDone

=============================================================================
