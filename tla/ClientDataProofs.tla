-------------------------- MODULE ClientDataProofs --------------------------
(***************************************************************************)
(* Proofs about ClientData, for every set of workers, every size and every *)
(* bound: type correctness, the freshness of localrecid, that no wakeup is *)
(* lost, and that no record is exported twice or out of order.             *)
(***************************************************************************)
EXTENDS ClientData, TLAPS

Exporting == pc[Main] \in {"clients", "locals"}

\* The locals of the export are at their initial values outside of it.
LoopIdle ==
  /\ ~Exporting => it = -1 /\ found = 0
  /\ pc[Main] # "clients" => tmsg = 0 /\ tdata = NoData
  /\ tdata.size = 0 => tdata.data = {}

\* Numbers handed out are below their counters.
Numbered ==
  /\ \A i \in CarriedClient \cup written.client : i < clientDataIndex
  /\ \A i \in locals \cup written.local : i < localStamp

\* A record not yet synced was never sent.
Unsent == \A i \in PendingClient : ~clientData[i].sent /\ clientData[i].tries = 0

\* What the running loop visited is taken, and a loop that found nothing saw no table.
Visited ==
  /\ pc[Main] = "clients" => \A i \in PendingClient : it < i
  /\ pc[Main] = "locals" =>
       /\ \A k \in DOMAIN localData : k <= it => localData[k].done
       /\ found = 0 => PendingClient = {}
  /\ pc[Main] \in {"loop", "clients", "locals", "wait", "setval"} /\ found = 0 =>
       outSize = Prologue
  /\ pc[Main] = "clients" /\ done => found > 0

\* The inductive invariant.
IInv ==
  /\ TypeOK
  /\ FreshKey
  /\ LoopIdle
  /\ Numbered
  /\ Unsent
  /\ Visited
  /\ NoLostWakeup
  /\ NothingOvertaken
  /\ NotTwice

-----------------------------------------------------------------------------
(***************************************************************************)
(* Type correctness.                                                       *)
(***************************************************************************)
LEMMA EmptyMapDomain == DOMAIN EmptyMap = {}
  BY DEF EmptyMap

LEMMA TypeInit == Init => TypeOK
<1> SUFFICES ASSUME Init PROVE TypeOK
  OBVIOUS
<1> USE ClientDataAssumption DEF Init, Labels, Threads, NoData
<1>1. /\ DOMAIN clientData = {} /\ DOMAIN localData = {}
      /\ clientDataIndex \in 0 .. MaxClient
      /\ localStamp \in 0 .. MaxLocal
      /\ semData \in 0 .. SemMax
      /\ localrecid \in Nat
  BY EmptyMapDomain
<1>2. /\ pc \in [Threads -> Labels \cup {"idle"}]
      /\ pc[Main] \in Labels
      /\ \A w \in Workers : pc[w] \in {"idle", "release"}
      /\ msgid \in [Workers -> Nat \ {0}]
  OBVIOUS
<1>3. /\ it \in Nat \cup {-1} /\ done \in BOOLEAN /\ found \in Nat
      /\ due \in BOOLEAN /\ tmsg \in Nat /\ tdata \in [size : Nat, data : SUBSET Nat]
  OBVIOUS
<1>4. /\ tables \subseteq [of : Nat, data : SUBSET Nat] /\ locals \subseteq Nat
      /\ outSize \in Nat /\ written \in [client : SUBSET Nat, local : SUBSET Nat]
  OBVIOUS
<1>5. QED
  BY <1>1, <1>2, <1>3, <1>4 DEF TypeOK

\* Raising the semaphore keeps it in its range and leaves it positive.
LEMMA RaisedRange ==
  ASSUME NEW v \in 0 .. SemMax
  PROVE  Raised(v) \in 0 .. SemMax /\ Raised(v) > 0
  BY ClientDataAssumption DEF Raised

\* What the export of one record does to the packet and to its own locals.
LEMMA ExportRecordType ==
  ASSUME NEW i \in Nat, NEW r \in ClientRecord, ExportRecord(i, r),
         tdata \in [size : Nat, data : SUBSET Nat],
         tables \subseteq [of : Nat, data : SUBSET Nat],
         found \in Nat, tmsg \in Nat, outSize \in Nat
  PROVE  /\ found' \in Nat /\ tmsg' \in Nat /\ outSize' \in Nat
         /\ tdata' \in [size : Nat, data : SUBSET Nat]
         /\ tables' \subseteq [of : Nat, data : SUBSET Nat]
<1> USE ClientDataAssumption DEF ClientRecord, ExportRecord, NoData
<1>1. CASE r.msgid = tmsg
  BY <1>1
<1>2. CASE r.msgid # tmsg
  <2> DEFINE held == IF tdata.size > 0 THEN tdata ELSE [size |-> r.size, data |-> {i}]
  <2>1. held \in [size : Nat, data : SUBSET Nat]
    OBVIOUS
  <2>2. /\ tables' = tables \cup {[of |-> i, data |-> held.data]}
        /\ outSize' = outSize + TableSize + held.size
        /\ tmsg' = r.msgid /\ tdata' = NoData /\ found' = found + 1
    BY <1>2
  <2> HIDE DEF held
  <2>3. QED
    BY <2>1, <2>2
<1>3. QED
  BY <1>1, <1>2

LEMMA TypeStep == TypeOK /\ [Next]_vars => TypeOK'
<1> SUFFICES ASSUME TypeOK, [Next]_vars PROVE TypeOK'
  OBVIOUS
<1> USE ClientDataAssumption DEF TypeOK, ClientRecord, LocalRecord, Labels, Threads, Goto, queueVars, loopVars, packetVars
<1>1. CASE BeginProcess
  BY <1>1 DEF BeginProcess
<1>2. CASE BeginExport
  BY <1>2 DEF BeginExport
<1>3. CASE ExportClientRecord
  <2>1. PICK i \in DOMAIN clientData, aged \in BOOLEAN : ClientIteration(i, aged)
    BY <1>3 DEF ExportClientRecord
  <2>2. clientData[i] \in ClientRecord /\ i \in Nat
    OBVIOUS
  <2>3. Sent(clientData[i]) \in ClientRecord /\ GivenUp(clientData[i]) \in ClientRecord
    BY <2>2 DEF Sent, GivenUp
  <2>4. /\ DOMAIN clientData' = DOMAIN clientData
        /\ \A j \in DOMAIN clientData : clientData'[j] \in ClientRecord
    BY <2>1, <2>3 DEF ClientIteration
  <2>5. /\ found' \in Nat /\ tmsg' \in Nat /\ outSize' \in Nat
        /\ tdata' \in [size : Nat, data : SUBSET Nat]
        /\ tables' \subseteq [of : Nat, data : SUBSET Nat]
    BY <2>1, <2>2, ExportRecordType DEF ClientIteration
  <2>6. it' = i /\ pc' = pc /\ done' \in BOOLEAN
    BY <1>3, <2>1 DEF ExportClientRecord, ClientIteration
  <2>7. QED
    BY <1>3, <2>2, <2>4, <2>5, <2>6 DEF ExportClientRecord
<1>4. CASE EndClients
  BY <1>4 DEF EndClients, AtEnd, EmptyMap, NoData
<1>5. CASE ExportLocalRecord
  BY <1>5 DEF ExportLocalRecord, IsNextKey
<1>6. CASE EndLocals
  <2>1. \A k \in DOMAIN localData' : k \in DOMAIN localData /\ localData'[k] = localData[k]
    BY <1>6, EmptyMapDomain DEF EndLocals
  <2>2. localrecid' \in Nat
    BY <1>6 DEF EndLocals, KeyAfterExport
  <2>3. QED
    BY <1>6, <2>1, <2>2 DEF EndLocals, AfterExport
<1>7. CASE WaitGet
  BY <1>7 DEF WaitGet
<1>8. CASE SetVal
  BY <1>8 DEF SetVal
<1>9. CASE WaitTimeout
  BY <1>9 DEF WaitTimeout
<1>10. CASE AddHostRecord
  <2>1. ASSUME NEW s \in LocalSizes, InsertLocal(s), Goto(Main, "release") PROVE TypeOK'
    BY <1>10, <2>1 DEF AddHostRecord, InsertLocal
  <2>2. CASE Goto(Main, "session") /\ UNCHANGED <<localData, localrecid, localStamp>>
    BY <1>10, <2>2 DEF AddHostRecord
  <2>3. QED
    BY <1>10, <2>1, <2>2 DEF AddHostRecord
<1>11. CASE SendOk
  <2>1. CarriedClient \subseteq Nat
    BY DEF CarriedClient
  <2>2. written' \in [client : SUBSET Nat, local : SUBSET Nat]
    BY <1>11, <2>1 DEF SendOk
  <2>3. QED
    BY <1>11, <2>2 DEF SendOk
<1>12. CASE SendFail
  BY <1>12 DEF SendFail
<1>13. ASSUME NEW w \in Workers, AddClientData(w) PROVE TypeOK'
  BY <1>13 DEF AddClientData
<1>14. ASSUME NEW w \in Workers, AddLocalData(w) PROVE TypeOK'
  BY <1>14 DEF AddLocalData, InsertLocal
<1>15. ASSUME NEW t \in Threads, SemRelease(t) PROVE TypeOK'
  BY <1>15, RaisedRange DEF SemRelease
<1>16. ASSUME NEW w \in Workers, DataChanged(w) PROVE TypeOK'
  BY <1>16, RaisedRange DEF DataChanged
<1>17. CASE UNCHANGED vars
  BY <1>17 DEF vars
<1>18. QED
  BY <1>1, <1>2, <1>3, <1>4, <1>5, <1>6, <1>7, <1>8, <1>9, <1>10, <1>11, <1>12, <1>13, <1>14, <1>15, <1>16, <1>17 DEF Next, MainStep, WorkerStep


\* The state has the types the code relies on, whatever the threads do.
THEOREM TypeCorrect == Spec => []TypeOK
<1>1. QED
  BY TypeInit, TypeStep, PTL DEF Spec

-----------------------------------------------------------------------------
(***************************************************************************)
(* localrecid is fresh.                                                    *)
(***************************************************************************)

\* The steps that touch localData.
LEMMA LocalFrame ==
  ASSUME [Next]_vars
  PROVE  \/ \E s \in LocalSizes : InsertLocal(s)
         \/ ExportLocalRecord
         \/ EndLocals
         \/ UNCHANGED <<localData, localrecid, localStamp>>
  BY DEF Next, MainStep, WorkerStep, vars, queueVars, BeginProcess, BeginExport,
     ExportClientRecord, EndClients, WaitGet, SetVal, WaitTimeout, AddHostRecord,
     SendOk, SendFail, SemRelease, AddClientData, AddLocalData, DataChanged

LEMMA FreshKeyStep == TypeOK /\ FreshKey /\ [Next]_vars => FreshKey'
<1> SUFFICES ASSUME TypeOK, FreshKey, [Next]_vars PROVE FreshKey'
  OBVIOUS
<1> USE DEF FreshKey
<1>1. ASSUME NEW s \in LocalSizes, InsertLocal(s) PROVE FreshKey'
  BY <1>1 DEF InsertLocal, TypeOK, LocalRecord
<1>2. CASE ExportLocalRecord
  BY <1>2 DEF ExportLocalRecord
<1>3. CASE EndLocals
  <2>1. CASE AtEnd(localData)
    BY <1>3, <2>1, EmptyMapDomain DEF EndLocals
  <2>2. CASE ~AtEnd(localData)
    BY <1>3, <2>2 DEF EndLocals, KeyAfterExport
  <2>3. QED
    BY <2>1, <2>2
<1>4. CASE UNCHANGED <<localData, localrecid, localStamp>>
  BY <1>4
<1>5. QED
  BY <1>1, <1>2, <1>3, <1>4, LocalFrame

\* add_client_data(string) always finds its key free (Mech.cc:2037).
THEOREM KeyAlwaysFresh == Spec => []FreshKey
<1>1. Init => FreshKey
  BY EmptyMapDomain DEF Init, FreshKey
<1>2. QED
  BY <1>1, FreshKeyStep, TypeCorrect, PTL DEF Spec


-----------------------------------------------------------------------------
(***************************************************************************)
(* The steps as the abstract queue sees them, one kind at a time.          *)
(***************************************************************************)
ClientSubmit ==
  /\ PendingClient' = PendingClient \cup {clientDataIndex}
  /\ clientDataIndex' = clientDataIndex + 1
  /\ CarriedClient' = CarriedClient
  /\ written' = written

ClientTake ==
  \E i \in PendingClient :
    /\ \A j \in PendingClient : i <= j
    /\ PendingClient' = PendingClient \ {i}
    /\ CarriedClient' \in {CarriedClient, CarriedClient \cup {i}}
    /\ UNCHANGED <<clientDataIndex, written>>

ClientLose ==
  /\ PendingClient' = PendingClient
  /\ CarriedClient' \subseteq CarriedClient
  /\ UNCHANGED <<clientDataIndex, written>>

ClientSame ==
  /\ PendingClient' = PendingClient
  /\ CarriedClient' = CarriedClient
  /\ UNCHANGED <<clientDataIndex, written>>

\* One more table in the packet.
LEMMA DataOfTables ==
  ASSUME NEW T, NEW t
  PROVE  UNION {x.data : x \in T \cup {t}} = t.data \cup UNION {x.data : x \in T}
  OBVIOUS

\* A new record is the only one added to the pending set.
LEMMA AddClientSubmits ==
  ASSUME TypeOK, NEW w \in Workers, AddClientData(w)
  PROVE  ClientSubmit
<1>1. PendingClient' = PendingClient \cup {clientDataIndex}
  BY ClientDataAssumption DEF AddClientData, TypeOK, PendingClient
<1>2. CarriedClient' = CarriedClient
  BY DEF AddClientData, CarriedClient, loopVars, packetVars
<1>3. QED
  BY <1>1, <1>2 DEF AddClientData, ClientSubmit

\* An iteration of the clientData loop takes the oldest pending record or nothing.
LEMMA ExportClientTakes ==
  ASSUME TypeOK, LoopIdle, Unsent, Visited, ExportClientRecord
  PROVE  ClientTake \/ ClientSame
<1>1. PICK i \in DOMAIN clientData, aged \in BOOLEAN : ClientIteration(i, aged)
  BY DEF ExportClientRecord
<1> DEFINE r == clientData[i]
<1>2. i \in Nat /\ r \in ClientRecord
  BY DEF TypeOK
<1>3. UNCHANGED <<clientDataIndex, written>>
  BY DEF ExportClientRecord
<1>4. CASE ~r.synced
  <2>1. ~r.sent /\ r.tries = 0
    BY <1>4 DEF Unsent, PendingClient
  <2>2. clientData' = [clientData EXCEPT ![i] = Sent(r)] /\ ExportRecord(i, r)
    BY <1>1, <1>4, <2>1 DEF ClientIteration
  <2>3. i \in PendingClient
    BY <1>4 DEF PendingClient
  <2>4. \A j \in PendingClient : i <= j
    BY <1>1 DEF ClientIteration, IsNextKey, PendingClient, Visited, ExportClientRecord
  <2>5. PendingClient' = PendingClient \ {i}
    BY <2>2 DEF PendingClient, Sent
  <2>6. CarriedClient' \in {CarriedClient, CarriedClient \cup {i}}
    <3>1. CASE r.msgid = tmsg
      <4>1. tdata'.data = tdata.data \cup {i} /\ tables' = tables
        BY <2>2, <3>1 DEF ExportRecord
      <4>2. QED
        BY <4>1 DEF CarriedClient
    <3>2. CASE r.msgid # tmsg /\ tdata.size > 0
      <4>1. tables' = tables \cup {[of |-> i, data |-> tdata.data]} /\ tdata'.data = {}
        BY <2>2, <3>2 DEF ExportRecord, NoData
      <4>2. CarriedClient' = CarriedClient
        BY <4>1, DataOfTables, [of |-> i, data |-> tdata.data].data = tdata.data
        DEF CarriedClient
      <4>3. QED
        BY <4>2
    <3>3. CASE r.msgid # tmsg /\ ~(tdata.size > 0)
      <4>1. tables' = tables \cup {[of |-> i, data |-> {i}]} /\ tdata'.data = {}
        BY <2>2, <3>3 DEF ExportRecord, NoData
      <4>2. tdata.data = {}
        BY <3>3 DEF LoopIdle, TypeOK
      <4>3. UNION {x.data : x \in tables'} = {i} \cup UNION {x.data : x \in tables}
        BY <4>1, DataOfTables, [of |-> i, data |-> {i}].data = {i}
      <4>4. CarriedClient' = CarriedClient \cup {i}
        BY <4>1, <4>2, <4>3 DEF CarriedClient
      <4>5. QED
        BY <4>4
    <3>4. QED
      BY <3>1, <3>2, <3>3
  <2>7. QED
    BY <1>3, <2>3, <2>4, <2>5, <2>6 DEF ClientTake
<1>5. CASE r.synced
  <2>1. UNCHANGED <<clientData, tdata, tables>>
    BY <1>1, <1>5 DEF ClientIteration
  <2>2. QED
    BY <1>3, <2>1 DEF ClientSame, PendingClient, CarriedClient
<1>6. QED
  BY <1>2, <1>4, <1>5 DEF ClientRecord

\* The end of the loop clears the map only when nothing in it is pending.
LEMMA EndClientsLoses ==
  ASSUME TypeOK, Visited, EndClients
  PROVE  ClientLose
<1>1. PendingClient' = PendingClient
  <2>1. CASE done
    BY <2>1 DEF EndClients, PendingClient
  <2>2. CASE ~done
    <3>1. PendingClient = {}
      BY <2>2 DEF EndClients, AtEnd, Visited, PendingClient, TypeOK
    <3>2. PendingClient' = {}
      BY <2>2, EmptyMapDomain DEF EndClients, PendingClient
    <3>3. QED
      BY <3>1, <3>2
  <2>3. QED
    BY <2>1, <2>2 DEF TypeOK
<1>2. CarriedClient' \subseteq CarriedClient
  BY DEF EndClients, CarriedClient, NoData, packetVars
<1>3. QED
  BY <1>1, <1>2 DEF EndClients, ClientLose


LocalSubmit ==
  /\ PendingLocal' = PendingLocal \cup {localStamp}
  /\ localStamp' = localStamp + 1
  /\ locals' = locals

LocalTake ==
  \E i \in PendingLocal :
    /\ \A j \in PendingLocal : i <= j
    /\ PendingLocal' = PendingLocal \ {i}
    /\ locals' \in {locals, locals \cup {i}}
    /\ localStamp' = localStamp

LocalSame ==
  /\ PendingLocal' = PendingLocal
  /\ UNCHANGED <<locals, localStamp>>

\* A stamp is pending when a record that is not done carries it.
LEMMA LocalPending ==
  \A n : n \in PendingLocal <=>
          \E k \in DOMAIN localData : ~localData[k].done /\ n = localData[k].stamp
  BY DEF PendingLocal

\* The key is free, so the new record is the only one added to the pending set.
LEMMA InsertLocalSubmits ==
  ASSUME TypeOK, FreshKey, NEW s \in LocalSizes, InsertLocal(s), locals' = locals
  PROVE  LocalSubmit
<1>1. localrecid \notin DOMAIN localData
  BY DEF FreshKey, TypeOK
<1>2. localData' = [k \in DOMAIN localData \cup {localrecid} |->
                      IF k = localrecid
                      THEN [stamp |-> localStamp, size |-> s, done |-> FALSE]
                      ELSE localData[k]]
  BY <1>1 DEF InsertLocal
<1>3. PendingLocal' = PendingLocal \cup {localStamp}
  BY <1>1, <1>2 DEF PendingLocal
<1>4. QED
  BY <1>3 DEF InsertLocal, LocalSubmit

\* An iteration of the localData loop takes the oldest pending record or nothing.
LEMMA ExportLocalTakes ==
  ASSUME TypeOK, FreshKey, Visited, ExportLocalRecord
  PROVE  LocalTake \/ LocalSame
<1>1. PICK k \in DOMAIN localData :
        /\ IsNextKey(localData, k)
        /\ localData' = [localData EXCEPT ![k] =
              [stamp |-> localData[k].stamp, size |-> localData[k].size, done |-> TRUE]]
        /\ \/ ~localData[k].done /\ locals' = locals \cup {localData[k].stamp}
           \/ locals' = locals
  BY DEF ExportLocalRecord
<1>2. localStamp' = localStamp /\ pc[Main] = "locals"
  BY DEF ExportLocalRecord
<1> DEFINE n == localData[k].stamp
<1>3. DOMAIN localData' = DOMAIN localData
  BY <1>1
<1>4. \A j \in DOMAIN localData : localData'[j].stamp = localData[j].stamp
  BY <1>1
<1>5. \A j \in DOMAIN localData : localData'[j].done <=> (localData[j].done \/ j = k)
  BY <1>1 DEF TypeOK, LocalRecord
<1>6. CASE ~localData[k].done
  <2>1. n \in PendingLocal
    BY <1>6 DEF PendingLocal
  <2>2. \A j \in DOMAIN localData : ~localData[j].done => k <= j
    BY <1>1, <1>2 DEF IsNextKey, Visited, TypeOK
  <2>3. \A m \in PendingLocal : n <= m
    BY <2>2 DEF PendingLocal, FreshKey, TypeOK, LocalRecord
  <2>4. \A j \in DOMAIN localData : localData[j].stamp = n => j = k
    BY DEF FreshKey, TypeOK, LocalRecord
  <2>5. PendingLocal' = PendingLocal \ {n}
    BY <1>3, <1>4, <1>5, <2>4 DEF PendingLocal
  <2>6. QED
    BY <1>1, <1>2, <2>1, <2>3, <2>5 DEF LocalTake
<1>7. CASE localData[k].done
  <2>1. PendingLocal' = PendingLocal
    BY <1>3, <1>4, <1>5, <1>7 DEF PendingLocal
  <2>2. QED
    BY <1>1, <1>2, <1>7, <2>1 DEF LocalSame
<1>8. QED
  BY <1>6, <1>7

\* The end of the loop removes nothing that is pending.
LEMMA EndLocalsKeeps ==
  ASSUME TypeOK, Visited, EndLocals
  PROVE  LocalSame
<1>1. PendingLocal' = PendingLocal
  <2>1. CASE AtEnd(localData)
    <3>1. \A k \in DOMAIN localData : localData[k].done
      BY <2>1 DEF EndLocals, AtEnd, Visited
    <3>2. DOMAIN localData' = {}
      BY <2>1, EmptyMapDomain DEF EndLocals
    <3>3. QED
      BY <3>1, <3>2 DEF PendingLocal
  <2>2. CASE ~AtEnd(localData)
    <3>1. localData' = [k \in {j \in DOMAIN localData : ~localData[j].done} |-> localData[k]]
      BY <2>2 DEF EndLocals
    <3>2. QED
      BY <3>1 DEF PendingLocal
  <2>3. QED
    BY <2>1, <2>2
<1>2. QED
  BY <1>1 DEF EndLocals, LocalSame, packetVars


\* A step of the whole system as the abstract queue sees it.
BothLose ==
  /\ ClientLose
  /\ PendingLocal' = PendingLocal
  /\ localStamp' = localStamp
  /\ locals' \subseteq locals

BothReceived ==
  /\ PendingClient' = PendingClient /\ clientDataIndex' = clientDataIndex
  /\ PendingLocal' = PendingLocal /\ localStamp' = localStamp
  /\ written' = [client |-> written.client \cup CarriedClient,
                 local |-> written.local \cup locals]
  /\ CarriedClient' = {} /\ locals' = {}

QueueStep ==
  \/ (ClientSubmit \/ ClientTake \/ ClientSame) /\ LocalSame
  \/ ClientSame /\ (LocalSubmit \/ LocalTake)
  \/ BothLose
  \/ BothReceived

LEMMA NextIsQueueStep ==
  ASSUME IInv, [Next]_vars
  PROVE  QueueStep
<1> USE DEF IInv
<1>1. ASSUME UNCHANGED <<clientData, clientDataIndex, tables, tdata, written>> PROVE ClientSame
  BY <1>1 DEF ClientSame, PendingClient, CarriedClient
<1>2. ASSUME UNCHANGED <<localData, localStamp, locals>> PROVE LocalSame
  BY <1>2 DEF LocalSame, PendingLocal
<1> USE DEF queueVars, loopVars, packetVars
<1>3. ASSUME NEW w \in Workers, AddClientData(w) PROVE QueueStep
  BY <1>2, <1>3, AddClientSubmits DEF QueueStep, AddClientData
<1>4. ASSUME NEW w \in Workers, AddLocalData(w) PROVE QueueStep
  BY <1>1, <1>4, InsertLocalSubmits DEF QueueStep, AddLocalData
<1>5. CASE AddHostRecord
  <2>1. ClientSame /\ locals' = locals
    BY <1>1, <1>5 DEF AddHostRecord
  <2>2. ASSUME NEW s \in LocalSizes, InsertLocal(s) PROVE QueueStep
    BY <2>1, <2>2, InsertLocalSubmits DEF QueueStep
  <2>3. CASE UNCHANGED <<localData, localrecid, localStamp>>
    BY <1>2, <2>1, <2>3 DEF QueueStep
  <2>4. QED
    BY <1>5, <2>2, <2>3 DEF AddHostRecord
<1>6. CASE ExportClientRecord
  BY <1>2, <1>6, ExportClientTakes DEF QueueStep, ExportClientRecord
<1>7. CASE EndClients
  <2>1. LocalSame
    BY <1>2, <1>7 DEF EndClients
  <2>2. QED
    BY <2>1, <1>7, EndClientsLoses DEF QueueStep, BothLose, LocalSame
<1>8. CASE ExportLocalRecord
  <2>1. ClientSame
    BY <1>1, <1>8 DEF ExportLocalRecord
  <2>2. QED
    BY <2>1, <1>8, ExportLocalTakes DEF QueueStep
<1>9. CASE EndLocals
  <2>1. ClientSame
    BY <1>1, <1>9 DEF EndLocals
  <2>2. QED
    BY <2>1, <1>9, EndLocalsKeeps DEF QueueStep
<1>10. CASE BeginProcess \/ SendFail
  <2>1. /\ tables' = {} /\ locals' = {} /\ tdata' = tdata
        /\ UNCHANGED <<clientData, clientDataIndex, localData, localStamp, written>>
    BY <1>10 DEF BeginProcess, SendFail
  <2>2. CarriedClient' \subseteq CarriedClient
    BY <2>1 DEF CarriedClient
  <2>3. PendingClient' = PendingClient /\ PendingLocal' = PendingLocal
    BY <2>1 DEF PendingClient, PendingLocal
  <2>4. QED
    BY <2>1, <2>2, <2>3 DEF QueueStep, BothLose, ClientLose
<1>11. CASE SendOk
  <2>1. CarriedClient' = {}
    BY <1>11 DEF SendOk, CarriedClient, LoopIdle, NoData
  <2>2. PendingClient' = PendingClient /\ PendingLocal' = PendingLocal
    BY <1>11 DEF SendOk, PendingClient, PendingLocal
  <2>3. QED
    BY <1>11, <2>1, <2>2 DEF SendOk, QueueStep, BothReceived
<1>12. CASE \/ BeginExport \/ WaitGet \/ SetVal \/ WaitTimeout
            \/ \E t \in Threads : SemRelease(t)
            \/ \E w \in Workers : DataChanged(w)
            \/ UNCHANGED vars
  BY <1>1, <1>2, <1>12
  DEF QueueStep, BeginExport, WaitGet, SetVal, WaitTimeout, SemRelease, DataChanged, vars
<1>13. QED
  BY <1>3, <1>4, <1>5, <1>6, <1>7, <1>8, <1>9, <1>10, <1>11, <1>12
  DEF Next, MainStep, WorkerStep, Threads

LEMMA NumbersAreNat ==
  ASSUME TypeOK
  PROVE  /\ \A i \in PendingClient : i \in Nat /\ i < clientDataIndex
         /\ \A i \in PendingLocal : i \in Nat /\ i < localStamp
         /\ CarriedClient \cup written.client \subseteq Nat
         /\ locals \cup written.local \subseteq Nat
         /\ clientDataIndex \in Nat /\ localStamp \in Nat
<1>1. clientDataIndex \in Nat /\ localStamp \in Nat
  BY DEF TypeOK
<1>2. \A i \in PendingClient : i \in Nat /\ i < clientDataIndex
  BY <1>1 DEF TypeOK, PendingClient
<1>3. \A i \in PendingLocal : i \in Nat /\ i < localStamp
  BY LocalPending DEF TypeOK, LocalRecord
<1>4. UNION {t.data : t \in tables} \subseteq Nat
  BY DEF TypeOK
<1>5. tdata.data \subseteq Nat /\ written.client \subseteq Nat /\ written.local \subseteq Nat
      /\ locals \subseteq Nat
  BY DEF TypeOK
<1>6. CarriedClient \subseteq Nat
  BY <1>4, <1>5 DEF CarriedClient
<1>7. QED
  BY <1>1, <1>2, <1>3, <1>5, <1>6

\* Order and at-most-once follow from the steps of the queue alone.
LEMMA OrderStep ==
  ASSUME TypeOK, Numbered, NothingOvertaken, NotTwice, QueueStep
  PROVE  Numbered' /\ NothingOvertaken' /\ NotTwice'
<1>1. /\ \A i \in PendingClient : i \in Nat /\ i < clientDataIndex
      /\ \A i \in PendingLocal : i \in Nat /\ i < localStamp
      /\ CarriedClient \cup written.client \subseteq Nat
      /\ locals \cup written.local \subseteq Nat
      /\ clientDataIndex \in Nat /\ localStamp \in Nat
  BY NumbersAreNat
<1> USE DEF Numbered, NothingOvertaken, NotTwice
<1>2. CASE ClientSubmit /\ LocalSame
  BY <1>1, <1>2 DEF ClientSubmit, LocalSame
<1>3. CASE ClientTake /\ LocalSame
  BY <1>1, <1>3 DEF ClientTake, LocalSame
<1>4. CASE ClientSame /\ LocalSame
  BY <1>1, <1>4 DEF ClientSame, LocalSame
<1>5. CASE ClientSame /\ LocalSubmit
  BY <1>1, <1>5 DEF ClientSame, LocalSubmit
<1>6. CASE ClientSame /\ LocalTake
  BY <1>1, <1>6 DEF ClientSame, LocalTake
<1>7. CASE BothLose
  BY <1>1, <1>7 DEF BothLose, ClientLose
<1>8. CASE BothReceived
  BY <1>1, <1>8 DEF BothReceived
<1>9. QED
  BY <1>2, <1>3, <1>4, <1>5, <1>6, <1>7, <1>8 DEF QueueStep


-----------------------------------------------------------------------------
(***************************************************************************)
(* The loops of the export, and the wakeup.                                *)
(***************************************************************************)
LEMMA LoopIdleStep ==
  ASSUME TypeOK, LoopIdle, [Next]_vars
  PROVE  LoopIdle'
<1> USE DEF LoopIdle, Exporting, Goto, TypeOK, Threads, Labels, loopVars, NoData
<1>1. CASE ExportClientRecord
  <2>1. PICK i \in DOMAIN clientData, aged \in BOOLEAN : ClientIteration(i, aged)
    BY <1>1 DEF ExportClientRecord
  <2>2. clientData[i].size > 0
    BY DEF ClientRecord
  <2>3. tdata'.size = 0 => tdata'.data = {}
    BY <2>1, <2>2 DEF ClientIteration, ExportRecord, ClientRecord
  <2>4. QED
    BY <1>1, <2>3 DEF ExportClientRecord
<1>2. CASE EndClients \/ ExportLocalRecord \/ EndLocals
  BY <1>2 DEF EndClients, ExportLocalRecord, EndLocals, AfterExport
<1>3. CASE BeginProcess \/ BeginExport \/ WaitGet \/ SetVal \/ WaitTimeout
           \/ AddHostRecord \/ SendOk \/ SendFail
  BY <1>3 DEF BeginProcess, BeginExport, WaitGet, SetVal, WaitTimeout, AddHostRecord,
              SendOk, SendFail
<1>4. ASSUME NEW w \in Workers,
             AddClientData(w) \/ AddLocalData(w) \/ DataChanged(w)
      PROVE  LoopIdle'
  BY <1>4, ClientDataAssumption DEF AddClientData, AddLocalData, DataChanged
<1>5. ASSUME NEW t \in Threads, SemRelease(t) PROVE LoopIdle'
  BY <1>5, ClientDataAssumption DEF SemRelease
<1>6. CASE UNCHANGED vars
  BY <1>6 DEF vars
<1>7. QED
  BY <1>1, <1>2, <1>3, <1>4, <1>5, <1>6 DEF Next, MainStep, WorkerStep

LEMMA UnsentStep ==
  ASSUME TypeOK, Unsent, Visited, [Next]_vars
  PROVE  Unsent'
<1> USE DEF Unsent, PendingClient
<1>1. CASE ExportClientRecord
  <2>1. PICK i \in DOMAIN clientData, aged \in BOOLEAN : ClientIteration(i, aged)
    BY <1>1 DEF ExportClientRecord
  <2>2. QED
    BY <2>1 DEF ClientIteration, Sent, GivenUp
<1>2. CASE EndClients
  BY <1>2, EmptyMapDomain DEF EndClients
<1>3. ASSUME NEW w \in Workers, AddClientData(w) PROVE Unsent'
  BY <1>3 DEF AddClientData
<1>4. CASE UNCHANGED clientData
  BY <1>4
<1>5. QED
  BY <1>1, <1>2, <1>3, <1>4
  DEF Next, MainStep, WorkerStep, vars, queueVars, BeginProcess, BeginExport,
      ExportLocalRecord, EndLocals, WaitGet, SetVal, WaitTimeout, AddHostRecord,
      SendOk, SendFail, SemRelease, AddLocalData, DataChanged


LEMMA VisitedStep ==
  ASSUME IInv, [Next]_vars
  PROVE  Visited'
<1> USE ClientDataAssumption DEF IInv, Visited
<1>1. CASE ExportClientRecord
  <2>1. PICK i \in DOMAIN clientData, aged \in BOOLEAN : ClientIteration(i, aged)
    BY <1>1 DEF ExportClientRecord
  <2>2. pc' = pc /\ pc[Main] = "clients" /\ it' = i /\ done' = (outSize' > SizeLimit1)
    BY <1>1, <2>1 DEF ExportClientRecord, ClientIteration
  <2>3. PendingClient' = PendingClient \ {i}
    BY <2>1 DEF ClientIteration, PendingClient, Sent, GivenUp, Unsent
  <2>4. \A j \in PendingClient' : it' < j
    BY <2>1, <2>2, <2>3 DEF ClientIteration, IsNextKey, PendingClient, TypeOK
  <2>5. found' = 0 => found = 0 /\ outSize' = outSize
    BY <2>1 DEF ClientIteration, ExportRecord, TypeOK
  <2>6. found' \in Nat
    BY TypeStep, <1>1 DEF Next, MainStep, TypeOK
  <2>7. found' = 0 => outSize' = Prologue
    BY <2>2, <2>5 DEF TypeOK
  <2>8. done' => found' > 0
    <3>1. outSize' = Prologue => ~(outSize' > SizeLimit1)
      OBVIOUS
    <3>2. found' # 0 => found' > 0
      BY <2>6
    <3>3. QED
      BY <2>2, <2>7, <3>1, <3>2, Zenon
  <2>9. QED
    BY <2>2, <2>4, <2>7, <2>8
<1>2. CASE EndClients
  <2>1. pc'[Main] = "locals" /\ it' = -1 /\ localData' = localData
        /\ found' = found /\ outSize' = outSize
    BY <1>2 DEF EndClients, Goto, TypeOK, Threads, packetVars
  <2>2. found = 0 => PendingClient = {}
    BY <1>2 DEF EndClients, AtEnd, PendingClient, TypeOK
  <2>3. PendingClient' = PendingClient
    BY <1>2, EndClientsLoses DEF ClientLose
  <2>4. \A k \in DOMAIN localData' : ~(k <= it')
    BY <2>1 DEF TypeOK
  <2>5. QED
    BY <1>2, <2>1, <2>2, <2>3, <2>4 DEF EndClients
<1>3. CASE ExportLocalRecord
  <2>1. PICK k \in DOMAIN localData :
          /\ IsNextKey(localData, k)
          /\ it' = k
          /\ localData' = [localData EXCEPT ![k] =
                [stamp |-> localData[k].stamp, size |-> localData[k].size, done |-> TRUE]]
          /\ \/ found' = found + 1
             \/ found' = found /\ outSize' = outSize
    BY <1>3 DEF ExportLocalRecord
  <2>2. found' = 0 => found = 0 /\ outSize' = outSize
    BY <2>1 DEF TypeOK
  <2>3. \A j \in DOMAIN localData' : j <= it' => localData'[j].done
    BY <1>3, <2>1 DEF ExportLocalRecord, IsNextKey, TypeOK
  <2>4. PendingClient' = PendingClient /\ pc' = pc /\ pc[Main] = "locals"
    BY <1>3 DEF ExportLocalRecord, PendingClient
  <2>5. QED
    BY <2>1, <2>2, <2>3, <2>4
<1>4. CASE EndLocals
  BY <1>4 DEF EndLocals, AfterExport, Goto, TypeOK, Threads, packetVars
<1>5. CASE BeginProcess
  BY <1>5 DEF BeginProcess, Goto, TypeOK, Threads, LoopIdle, Exporting, loopVars
<1>6. CASE BeginExport
  <2>1. PendingClient' = PendingClient /\ it' = -1 /\ pc'[Main] = "clients" /\ ~done'
    BY <1>6 DEF BeginExport, PendingClient, queueVars, Goto, TypeOK, Threads, LoopIdle,
                Exporting
  <2>2. \A j \in PendingClient : it' < j
    BY <2>1 DEF PendingClient, TypeOK
  <2>3. QED
    BY <1>6, <2>1, <2>2 DEF BeginExport, packetVars
<1>7. CASE WaitGet \/ SetVal \/ WaitTimeout
  BY <1>7 DEF WaitGet, SetVal, WaitTimeout, Goto, TypeOK, Threads, loopVars, packetVars,
              queueVars
<1>8. CASE AddHostRecord \/ SendOk \/ SendFail
  BY <1>8 DEF AddHostRecord, SendOk, SendFail, Goto, TypeOK, Threads
<1>9. ASSUME NEW w \in Workers, AddClientData(w) \/ AddLocalData(w) PROVE Visited'
  BY <1>9 DEF AddClientData, AddLocalData, MutexFree, Goto, TypeOK, Threads, loopVars,
              packetVars
<1>10. ASSUME NEW t \in Threads, SemRelease(t) PROVE Visited'
  <2>1. PendingClient' = PendingClient
    BY <1>10 DEF SemRelease, queueVars, PendingClient
  <2>2. pc'[Main] = pc[Main] \/ pc'[Main] = "session"
    BY <1>10 DEF SemRelease, Goto, TypeOK, Threads
  <2>3. QED
    BY <1>10, <2>1, <2>2 DEF SemRelease, loopVars, packetVars, queueVars
<1>11. CASE UNCHANGED vars \/ \E w \in Workers : DataChanged(w)
  <2>1. PendingClient' = PendingClient
    BY <1>11 DEF vars, DataChanged, queueVars, PendingClient
  <2>2. QED
    BY <1>11, <2>1 DEF vars, DataChanged, queueVars, loopVars, packetVars
<1>12. QED
  BY <1>1, <1>2, <1>3, <1>4, <1>5, <1>6, <1>7, <1>8, <1>9, <1>10, <1>11
  DEF Next, MainStep, WorkerStep, Threads

LEMMA WakeupStep ==
  ASSUME IInv, [Next]_vars
  PROVE  NoLostWakeup'
<1> USE ClientDataAssumption
    DEF IInv, NoLostWakeup, Goto, TypeOK, Threads, queueVars, loopVars, packetVars
<1>1. CASE EndLocals
  <2>1. SUFFICES ASSUME pc'[Main] = "wait", ~done' PROVE PendingClient' \cup PendingLocal' = {}
    OBVIOUS
  <2>2. found = 0 /\ ~done /\ AtEnd(localData)
    BY <1>1, <2>1 DEF EndLocals, AfterExport
  <2>3. PendingClient' = {}
    BY <1>1, <2>2 DEF EndLocals, Visited, PendingClient
  <2>4. PendingLocal' = {}
    BY <1>1, <2>2, EmptyMapDomain DEF EndLocals, PendingLocal
  <2>5. QED
    BY <2>3, <2>4
<1>2. CASE \/ BeginProcess \/ BeginExport \/ ExportClientRecord \/ EndClients
           \/ ExportLocalRecord \/ WaitGet \/ SetVal \/ WaitTimeout
           \/ AddHostRecord \/ SendOk \/ SendFail
  BY <1>2 DEF BeginProcess, BeginExport, ExportClientRecord, EndClients, ExportLocalRecord,
              WaitGet, SetVal, WaitTimeout, AddHostRecord, SendOk, SendFail
<1>3. ASSUME NEW w \in Workers, AddClientData(w) \/ AddLocalData(w) PROVE NoLostWakeup'
  BY <1>3 DEF AddClientData, AddLocalData
<1>4. ASSUME NEW t \in Threads, SemRelease(t) PROVE NoLostWakeup'
  BY <1>4, RaisedRange DEF SemRelease
<1>5. ASSUME NEW w \in Workers, DataChanged(w) PROVE NoLostWakeup'
  BY <1>5, RaisedRange DEF DataChanged
<1>6. CASE UNCHANGED vars
  BY <1>6 DEF vars, PendingClient, PendingLocal
<1>7. QED
  BY <1>1, <1>2, <1>3, <1>4, <1>5, <1>6 DEF Next, MainStep, WorkerStep


-----------------------------------------------------------------------------
(***************************************************************************)
(* The invariant, and what follows from it.                                *)
(***************************************************************************)
LEMMA IInvInit == Init => IInv
<1> SUFFICES ASSUME Init PROVE IInv
  OBVIOUS
<1>1. TypeOK
  BY TypeInit
<1>2. pc[Main] = "session"
  BY DEF Init, Threads
<1>3. PendingClient = {} /\ PendingLocal = {} /\ CarriedClient = {}
  BY EmptyMapDomain DEF Init, PendingClient, PendingLocal, CarriedClient, NoData
<1>4. FreshKey
  BY EmptyMapDomain DEF Init, FreshKey
<1>5. QED
  BY <1>1, <1>2, <1>3, <1>4
  DEF Init, IInv, LoopIdle, Exporting, Numbered, Unsent, Visited, NoLostWakeup,
      NothingOvertaken, NotTwice, NoData

LEMMA IInvStep == IInv /\ [Next]_vars => IInv'
<1> SUFFICES ASSUME IInv, [Next]_vars PROVE IInv'
  OBVIOUS
<1>1. TypeOK' /\ FreshKey'
  BY TypeStep, FreshKeyStep DEF IInv
<1>2. LoopIdle' /\ Unsent'
  BY LoopIdleStep, UnsentStep DEF IInv
<1>3. Visited' /\ NoLostWakeup'
  BY VisitedStep, WakeupStep
<1>4. Numbered' /\ NothingOvertaken' /\ NotTwice'
  BY NextIsQueueStep, OrderStep DEF IInv
<1>5. QED
  BY <1>1, <1>2, <1>3, <1>4 DEF IInv

LEMMA Inductive == Spec => []IInv
  BY IInvInit, IInvStep, PTL DEF Spec

\* The main thread never sleeps on semDataID over records nobody will wake it for.
THEOREM WakeupNeverLost == Spec => []NoLostWakeup
<1>1. IInv => NoLostWakeup
  BY DEF IInv
<1>2. QED
  BY <1>1, Inductive, PTL

\* Records are exported in the order of their queue, none after a younger one.
THEOREM OrderKept == Spec => []NothingOvertaken
<1>1. IInv => NothingOvertaken
  BY DEF IInv
<1>2. QED
  BY <1>1, Inductive, PTL

\* No packet repeats what an earlier one wrote to the host.
THEOREM NeverTwice == Spec => []NotTwice
<1>1. IInv => NotTwice
  BY DEF IInv
<1>2. QED
  BY <1>1, Inductive, PTL


-----------------------------------------------------------------------------
(***************************************************************************)
(* The action property and the refinement, from the same invariant.        *)
(***************************************************************************)
LEMMA TakenFirst ==
  ASSUME IInv, [Next]_vars
  PROVE  /\ \A i \in PendingClient : i \in DOMAIN clientData'
         /\ PendingLocal \subseteq {localData'[k].stamp : k \in DOMAIN localData'}
<1> USE DEF IInv
<1>1. \A i \in PendingClient : i \in DOMAIN clientData'
  <2>1. CASE EndClients
    BY <2>1 DEF EndClients, AtEnd, Visited, PendingClient, TypeOK
  <2>2. CASE ExportClientRecord
    BY <2>2 DEF ExportClientRecord, ClientIteration, PendingClient
  <2>3. ASSUME NEW w \in Workers, AddClientData(w)
        PROVE  \A i \in PendingClient : i \in DOMAIN clientData'
    BY <2>3 DEF AddClientData, PendingClient
  <2>4. CASE UNCHANGED clientData
    BY <2>4 DEF PendingClient
  <2>5. QED
    BY <2>1, <2>2, <2>3, <2>4
    DEF Next, MainStep, WorkerStep, vars, queueVars, BeginProcess, BeginExport,
        ExportLocalRecord, EndLocals, WaitGet, SetVal, WaitTimeout, AddHostRecord,
        SendOk, SendFail, SemRelease, AddLocalData, DataChanged
<1> DEFINE Stays == \A k \in DOMAIN localData : ~localData[k].done =>
             k \in DOMAIN localData' /\ localData'[k].stamp = localData[k].stamp
<1>2. ASSUME NEW s, InsertLocal(s) PROVE Stays
  BY <1>2 DEF InsertLocal, FreshKey, TypeOK
<1>3. ASSUME ExportLocalRecord PROVE Stays
  BY <1>3 DEF ExportLocalRecord
<1>4. ASSUME EndLocals PROVE Stays
  BY <1>4 DEF EndLocals, AtEnd, Visited
<1>5. ASSUME UNCHANGED localData PROVE Stays
  BY <1>5
<1> HIDE DEF Stays
<1>6. Stays
  BY <1>2, <1>3, <1>4, <1>5
  DEF Next, MainStep, WorkerStep, vars, queueVars, BeginProcess, BeginExport,
      ExportClientRecord, EndClients, WaitGet, SetVal, WaitTimeout, AddHostRecord,
      SendOk, SendFail, SemRelease, AddClientData, AddLocalData, DataChanged
<1>7. PendingLocal \subseteq {localData'[k].stamp : k \in DOMAIN localData'}
  BY <1>6 DEF Stays, PendingLocal
<1>8. QED
  BY <1>1, <1>7

\* No record leaves the two maps before an export looked at it.
THEOREM LeavesTaken == Spec => LeavesOnlyTaken
<1>1. IInv /\ [Next]_vars =>
        /\ \A i \in PendingClient : i \in DOMAIN clientData'
        /\ PendingLocal \subseteq {localData'[k].stamp : k \in DOMAIN localData'}
  BY TakenFirst
<1>2. QED
  BY <1>1, Inductive, PTL DEF Spec, LeavesOnlyTaken

LEMMA QueueInit == Init => Queue!Init
<1> SUFFICES ASSUME Init PROVE Queue!Init
  OBVIOUS
<1>1. PendingClient = {} /\ PendingLocal = {} /\ CarriedClient = {}
  BY EmptyMapDomain DEF Init, PendingClient, PendingLocal, CarriedClient, NoData
<1>2. clientDataIndex = 0 /\ localStamp = 0 /\ locals = {}
      /\ written = [client |-> {}, local |-> {}]
  BY DEF Init
<1>3. QED
  BY <1>1, <1>2 DEF Queue!Init, Queue!Empty

LEMMA QueueNext ==
  ASSUME TypeOK, QueueStep
  PROVE  [Queue!Next]_(Queue!vars)
<1> USE DEF Queue!vars
<1>0. written = [client |-> written.client, local |-> written.local]
  BY DEF TypeOK
<1>1. CASE ClientSubmit /\ LocalSame
  BY <1>1 DEF ClientSubmit, LocalSame, Queue!Submit, Queue!Next
<1>2. CASE ClientTake /\ LocalSame
  BY <1>2 DEF ClientTake, LocalSame, Queue!Take, Queue!Next
<1>3. CASE ClientSame /\ LocalSame
  BY <1>3 DEF ClientSame, LocalSame
<1>4. CASE ClientSame /\ LocalSubmit
  BY <1>4 DEF ClientSame, LocalSubmit, Queue!Submit, Queue!Next
<1>5. CASE ClientSame /\ LocalTake
  BY <1>5 DEF ClientSame, LocalTake, Queue!Take, Queue!Next
<1>6. CASE BothLose
  BY <1>6 DEF BothLose, ClientLose, Queue!Lose, Queue!Next
<1>7. CASE BothReceived
  BY <1>7 DEF BothReceived, Queue!Receive, Queue!Empty, Queue!Next
<1>8. QED
  BY <1>1, <1>2, <1>3, <1>4, <1>5, <1>6, <1>7 DEF QueueStep

\* The data path is an at-most-once FIFO queue per kind of record.
THEOREM Refinement == Spec => ImplementsQueue
<1>1. IInv /\ [Next]_vars => [Queue!Next]_(Queue!vars)
  BY NextIsQueueStep, QueueNext DEF IInv
<1>2. QED
  BY <1>1, QueueInit, Inductive, PTL DEF Spec, ImplementsQueue, Queue!Spec
=============================================================================
