----------------------------- MODULE ClientData -----------------------------
(***************************************************************************)
(* The data path of the Mech server (src/src/mech/Mech.cc): worker and     *)
(* listener threads queue records for the host in two maps under           *)
(* controlMutex (clientData, localData) and then raise semDataID; the main *)
(* thread exports what is queued into one packet, sends it, and sleeps on  *)
(* semDataID when there is nothing to export.                              *)
(*                                                                         *)
(* exportClientDataXML runs under controlMutex, one action per iteration   *)
(* of its two loops.  add_client_data takes the mutex for one insertion,   *)
(* which is one action, and raises the semaphore after it let the mutex    *)
(* go, which is another.  The rest of the main thread's step machine (the  *)
(* dialogue with the host) is the pc "session".  XML text is abstracted to *)
(* its size and to whose data it holds; g_quit, the macOS semaphore and    *)
(* the scan of the database (databasesync, off unless the configuration    *)
(* says on) are left out.                                                  *)
(***************************************************************************)
EXTENDS Integers

CONSTANTS
  Workers,       \* threads that call add_client_data
  Main,          \* the main thread, which exports and sends
  ClientSizes,   \* sizes of the data of a clientData record
  LocalSizes,    \* sizes of a localData record
  Prologue,      \* size of the line that opens the packet
  TableSize,     \* size of a <table> without its data
  SizeLimit1,    \* SIZELIMIT1: above it the clientData loop stops
  MaxDataSize,   \* MAXDATASIZE: the packet stays below it
  SemMax,        \* SEMVMX, the highest value of a System V semaphore
  MaxClient,     \* bound: clientData records ever queued
  MaxLocal       \* bound: localData records ever queued

\* Sizes are naturals, and the data of a clientData record is never empty; the
\* prologue alone stops no loop; a semaphore can be raised.
ASSUME ClientDataAssumption ==
  /\ Main \notin Workers
  /\ ClientSizes \subseteq Nat \ {0}
  /\ LocalSizes \subseteq Nat
  /\ Prologue \in Nat
  /\ TableSize \in Nat
  /\ SizeLimit1 \in Nat
  /\ MaxDataSize \in Nat
  /\ Prologue <= SizeLimit1
  /\ SemMax \in Nat \ {0}
  /\ MaxClient \in Nat
  /\ MaxLocal \in Nat

VARIABLES
  clientData,       \* map from index to [msgid, size, synced, sent, tries]
  clientDataIndex,  \* the next index, never reset
  localData,        \* map from key to [stamp, size, done]
  localrecid,       \* the next key, reset when the map is cleared
  semData,          \* value of semDataID
  msgid,            \* each worker's own message counter
  pc,               \* where each thread is
  it,               \* last key the running loop of the export visited, or -1
  done,             \* the running loop stops before the end of its map
  found,            \* records found by the export
  due,              \* t >= wakeup, as read at the top of processClient's loop
  tmsg,             \* msgid of the last table written by the export
  tdata,            \* [size, data]: data put aside for the next table
  tables,           \* tables in the packet: [of, data], indices of clientData
  locals,           \* stamps of the localData records in the packet
  outSize,          \* out.size()
  localStamp,       \* history: localData records ever accepted
  written           \* history: what was written to the host, per kind

queueVars == <<clientData, clientDataIndex, localData, localrecid, localStamp>>
loopVars == <<it, done, found, due, tmsg, tdata>>
packetVars == <<tables, locals, outSize>>
vars == <<queueVars, semData, msgid, pc, loopVars, packetVars, written>>

Threads == Workers \cup {Main}

\* dataType and localDataType.  `sent` stands for datetime_sent > 0; `stamp` is a
\* history field, the number of the record among all localData records.
ClientRecord ==
  [msgid : Nat, size : Nat \ {0}, synced : BOOLEAN, sent : BOOLEAN, tries : Nat]
LocalRecord == [stamp : Nat, size : Nat, done : BOOLEAN]

Goto(t, label) == pc' = [pc EXCEPT ![t] = label]

\* controlMutex is held between two steps only by an export.
MutexFree == pc[Main] \notin {"clients", "locals"}

\* A map after clear().
EmptyMap == [k \in {} |-> 0]

NoData == [size |-> 0, data |-> {}]

\* Mutant: an unordered map.
IsSomeKey(m, k) == k > it

\* k is the key that follows `it` in the iteration order of the map m.
IsNextKey(m, k) == k > it /\ \A j \in DOMAIN m : j > it => k <= j

AtEnd(m) == \A k \in DOMAIN m : k <= it

\* Records that were queued and not yet taken by an export.
PendingClient == {i \in DOMAIN clientData : ~clientData[i].synced}
PendingLocal == {localData[k].stamp : k \in {j \in DOMAIN localData : ~localData[j].done}}

\* Records whose data the packet under construction, or about to be sent, holds.
CarriedClient == tdata.data \cup (UNION {t.data : t \in tables})

-----------------------------------------------------------------------------
Init ==
  /\ clientData = EmptyMap
  /\ clientDataIndex = 0
  /\ localData = EmptyMap
  /\ localrecid = 0
  /\ semData = 0
  /\ msgid = [w \in Workers |-> 1]
  /\ pc = [t \in Threads |-> IF t = Main THEN "session" ELSE "idle"]
  /\ it = -1
  /\ done = FALSE
  /\ found = 0
  /\ due = FALSE
  /\ tmsg = 0
  /\ tdata = NoData
  /\ tables = {}
  /\ locals = {}
  /\ outSize = 0
  /\ localStamp = 0
  /\ written = [client |-> {}, local |-> {}]

-----------------------------------------------------------------------------
(***************************************************************************)
(* Producers.                                                              *)
(***************************************************************************)

\* Mutant: the semaphore is not raised.
NotRaised(value) == value

\* semRelease: the value goes up by one; at SEMVMX semop fails and only logs.
Raised(value) == IF value < SemMax THEN value + 1 ELSE value

\* add_client_data(o, d) up to the release of the mutex.  The msgid is the worker's
\* own counter, or empty (0) when System_auditd sends an event it sent before.
AddClientData(w) ==
  /\ pc[w] = "idle"
  /\ MutexFree
  /\ clientDataIndex < MaxClient
  /\ \E s \in ClientSizes, m \in {0, msgid[w]} :
       /\ clientData' = [i \in DOMAIN clientData \cup {clientDataIndex} |->
                           IF i = clientDataIndex
                           THEN [msgid |-> m, size |-> s, synced |-> FALSE,
                                 sent |-> FALSE, tries |-> 0]
                           ELSE clientData[i]]
       /\ msgid' = IF m = 0 THEN msgid ELSE [msgid EXCEPT ![w] = @ + 1]
  /\ clientDataIndex' = clientDataIndex + 1
  /\ Goto(w, "release")
  /\ UNCHANGED <<localData, localrecid, localStamp, semData, loopVars, packetVars, written>>

\* The insertion of add_client_data(o, databuf): a key in use is an error, and
\* the counter moves on all the same.
InsertLocal(s) ==
  /\ s <= MaxDataSize
  /\ localStamp < MaxLocal
  /\ localData' = IF localrecid \in DOMAIN localData
                  THEN localData
                  ELSE [k \in DOMAIN localData \cup {localrecid} |->
                          IF k = localrecid
                          THEN [stamp |-> localStamp, size |-> s, done |-> FALSE]
                          ELSE localData[k]]
  /\ localrecid' = localrecid + 1
  /\ localStamp' = localStamp + 1

\* add_client_data(o, databuf) up to the release of the mutex; a record larger
\* than MAXDATASIZE is refused, which changes nothing.
AddLocalData(w) ==
  /\ pc[w] = "idle"
  /\ MutexFree
  /\ \E s \in LocalSizes : InsertLocal(s)
  /\ Goto(w, "release")
  /\ UNCHANGED <<clientData, clientDataIndex, semData, msgid, loopVars, packetVars, written>>

\* The end of both add_client_data: semRelease(o.semDataID).
SemRelease(t) ==
  /\ pc[t] = "release"
  /\ semData' = Raised(semData)
  /\ Goto(t, IF t = Main THEN "session" ELSE "idle")
  /\ UNCHANGED <<queueVars, msgid, loopVars, packetVars, written>>

\* A Labjack worker saw a channel change and stored it in the database: it raises
\* the semaphore with nothing in the two maps.
DataChanged(w) ==
  /\ pc[w] = "idle"
  /\ semData' = Raised(semData)
  /\ UNCHANGED <<queueVars, msgid, pc, loopVars, packetVars, written>>

-----------------------------------------------------------------------------
(***************************************************************************)
(* processClient and exportClientDataXML.                                  *)
(***************************************************************************)

\* The step machine reaches PROCESSCLIENT and opens a new packet.
BeginProcess ==
  /\ pc[Main] = "session"
  /\ tables' = {}
  /\ locals' = {}
  /\ outSize' = Prologue
  /\ Goto(Main, "loop")
  /\ UNCHANGED <<queueVars, semData, msgid, loopVars, written>>

\* The clock is read and the export locks controlMutex.
BeginExport ==
  /\ pc[Main] = "loop"
  /\ due' \in BOOLEAN
  /\ done' = FALSE
  /\ Goto(Main, "clients")
  /\ UNCHANGED <<queueVars, semData, msgid, it, found, tmsg, tdata, packetVars, written>>

\* An exported record: sent, one more try, and synced at once ("hardcoding this
\* for now").
Sent(r) == [msgid |-> r.msgid, size |-> r.size,
            synced |-> TRUE, sent |-> TRUE, tries |-> r.tries + 1]

\* A record with too many tries: synced without being exported.
GivenUp(r) == [msgid |-> r.msgid, size |-> r.size,
               synced |-> TRUE, sent |-> r.sent, tries |-> r.tries + 1]

\* The record r with index i is exported: its data is put aside for the next
\* table when it has the msgid of the last one, else a table is written, with
\* the data put aside if there is any and with its own data otherwise.
ExportRecord(i, r) ==
  /\ found' = found + 1
  /\ IF r.msgid = tmsg
     THEN /\ tdata' = [size |-> tdata.size + r.size, data |-> tdata.data \cup {i}]
          /\ UNCHANGED <<tmsg, tables, outSize>>
     ELSE LET held == IF tdata.size > 0 THEN tdata ELSE [size |-> r.size, data |-> {i}]
          IN /\ tables' = tables \cup {[of |-> i, data |-> held.data]}
             /\ outSize' = outSize + TableSize + held.size
             /\ tmsg' = r.msgid
             /\ tdata' = NoData

\* One iteration of the clientData loop, at the record with index i.  `aged`: the
\* record was last sent more than 300 seconds ago.  After three tries a record is
\* given up.
ClientIteration(i, aged) ==
  LET r == clientData[i]
      selected == ~r.synced /\ (~r.sent \/ aged)
  IN /\ IsNextKey(clientData, i)
     /\ it' = i
     /\ \/ /\ selected /\ r.tries < 3
           /\ clientData' = [clientData EXCEPT ![i] = Sent(r)]
           /\ ExportRecord(i, r)
        \/ /\ selected /\ r.tries >= 3
           /\ clientData' = [clientData EXCEPT ![i] = GivenUp(r)]
           /\ UNCHANGED <<found, tmsg, tdata, tables, outSize>>
        \/ /\ ~selected
           /\ UNCHANGED <<clientData, found, tmsg, tdata, tables, outSize>>

ExportClientRecord ==
  /\ pc[Main] = "clients"
  /\ ~done
  /\ \E i \in DOMAIN clientData, aged \in BOOLEAN : ClientIteration(i, aged)
  /\ done' = (outSize' > SizeLimit1)
  /\ UNCHANGED <<clientDataIndex, localData, localrecid, localStamp, semData, msgid, pc,
                 due, locals, written>>

\* The clientData loop ends: the map is cleared unless the size limit cut the
\* loop short, and what is still put aside goes with the function's locals.
EndClients ==
  /\ pc[Main] = "clients"
  /\ done \/ AtEnd(clientData)
  /\ clientData' = IF done THEN clientData ELSE EmptyMap
  /\ it' = -1
  /\ done' = FALSE
  /\ tmsg' = 0
  /\ tdata' = NoData
  /\ Goto(Main, "locals")
  /\ UNCHANGED <<clientDataIndex, localData, localrecid, localStamp, semData, msgid,
                 found, due, packetVars, written>>

\* One iteration of the localData loop: the record is marked done, then added if
\* the packet stays below MAXDATASIZE, dropped if it alone is larger than that,
\* and otherwise it stops the loop.
ExportLocalRecord ==
  /\ pc[Main] = "locals"
  /\ ~done
  /\ \E k \in DOMAIN localData :
       LET r == localData[k]
           fits == outSize + r.size < MaxDataSize
       IN /\ IsNextKey(localData, k)
          /\ it' = k
          /\ localData' = [localData EXCEPT
               ![k] = [stamp |-> r.stamp, size |-> r.size, done |-> TRUE]]
          /\ IF ~r.done /\ fits
             THEN /\ locals' = locals \cup {r.stamp}
                  /\ outSize' = outSize + r.size
                  /\ found' = found + 1
             ELSE UNCHANGED <<locals, outSize, found>>
          /\ done' = (~r.done /\ ~fits /\ r.size <= MaxDataSize)
  /\ UNCHANGED <<clientData, clientDataIndex, localrecid, localStamp, semData, msgid, pc,
                 due, tmsg, tdata, tables, written>>

\* What the export returns to: a packet to send, a test message when the wakeup
\* time has come, or a wait for data.
AfterExport ==
  IF found > 0 THEN "send" ELSE IF due THEN "testmsg" ELSE "wait"

\* localrecid starts again from 0 only when the whole map is cleared.
KeyAfterExport ==
  IF AtEnd(localData) /\ DOMAIN localData # {} THEN 0 ELSE localrecid

\* The localData loop ends: the map is cleared when every record was visited,
\* else the records already done are removed.  The mutex is released.
EndLocals ==
  /\ pc[Main] = "locals"
  /\ done \/ AtEnd(localData)
  /\ IF AtEnd(localData)
     THEN localData' = EmptyMap
     ELSE localData' = [k \in {j \in DOMAIN localData : ~localData[j].done} |-> localData[k]]
  /\ localrecid' = KeyAfterExport
  /\ Goto(Main, AfterExport)
  /\ it' = -1
  /\ found' = 0
  /\ due' = FALSE
  /\ UNCHANGED <<clientData, clientDataIndex, localStamp, semData, msgid, done, tmsg, tdata,
                 packetVars, written>>

\* semGet(o.semDataID, 0, n) gets the semaphore ...
WaitGet ==
  /\ pc[Main] = "wait"
  /\ semData > 0
  /\ semData' = semData - 1
  /\ Goto(Main, "setval")
  /\ UNCHANGED <<queueVars, msgid, loopVars, packetVars, written>>

\* ... and semctl(SETVAL, 0) throws the other permits away.
SetVal ==
  /\ pc[Main] = "setval"
  /\ semData' = 0
  /\ Goto(Main, "loop")
  /\ UNCHANGED <<queueVars, msgid, loopVars, packetVars, written>>

\* Mutant: semGet without a timeout.
NoTimeout == FALSE

\* semGet times out after at most ten seconds, when no permit came.
WaitTimeout ==
  /\ pc[Main] = "wait"
  /\ semData = 0
  /\ Goto(Main, "loop")
  /\ UNCHANGED <<queueVars, semData, msgid, loopVars, packetVars, written>>

\* SENDTESTMSG: add_host_record queues the host's own record when it has one.
AddHostRecord ==
  /\ pc[Main] = "testmsg"
  /\ \/ /\ \E s \in LocalSizes : InsertLocal(s)
        /\ Goto(Main, "release")
     \/ /\ Goto(Main, "session")
        /\ UNCHANGED <<localData, localrecid, localStamp>>
  /\ UNCHANGED <<clientData, clientDataIndex, semData, msgid, loopVars, packetVars, written>>

\* SENDCLIENTDATA: header and packet are written to the host ...
SendOk ==
  /\ pc[Main] = "send"
  /\ written' = [client |-> written.client \cup CarriedClient,
                 local |-> written.local \cup locals]
  /\ tables' = {}
  /\ locals' = {}
  /\ outSize' = 0
  /\ Goto(Main, "session")
  /\ UNCHANGED <<queueVars, semData, msgid, loopVars>>

\* ... or a write fails, the main thread reconnects, and the packet is gone.
SendFail ==
  /\ pc[Main] = "send"
  /\ tables' = {}
  /\ locals' = {}
  /\ outSize' = 0
  /\ Goto(Main, "session")
  /\ UNCHANGED <<queueVars, semData, msgid, loopVars, written>>

MainStep ==
  \/ BeginProcess
  \/ BeginExport
  \/ ExportClientRecord
  \/ EndClients
  \/ ExportLocalRecord
  \/ EndLocals
  \/ WaitGet
  \/ SetVal
  \/ WaitTimeout
  \/ AddHostRecord
  \/ SendOk
  \/ SendFail
  \/ SemRelease(Main)

WorkerStep(w) ==
  \/ AddClientData(w)
  \/ AddLocalData(w)
  \/ SemRelease(w)
  \/ DataChanged(w)

Next == MainStep \/ \E w \in Workers : WorkerStep(w)

Spec == Init /\ [][Next]_vars

\* The main thread always runs on: no call of its loop blocks for ever (semGet
\* has a timeout, the mutex is held only for one insertion).  A worker that
\* queued a record goes on to raise the semaphore.
Fairness ==
  /\ WF_vars(MainStep)
  /\ \A w \in Workers : WF_vars(SemRelease(w))

FairSpec == Spec /\ Fairness
-----------------------------------------------------------------------------
(***************************************************************************)
(* Properties.                                                             *)
(***************************************************************************)
Labels == {"session", "loop", "clients", "locals", "wait", "setval", "testmsg",
           "send", "release"}

TakenClient == (0 .. clientDataIndex - 1) \ PendingClient
TakenLocal == (0 .. localStamp - 1) \ PendingLocal

\* Type invariant: the two maps (Mech.h:49-67), the counters, the semaphore and
\* the locals of the export have the types and ranges the code relies on.
TypeOK ==
  /\ DOMAIN clientData \subseteq 0 .. clientDataIndex - 1
  /\ \A i \in DOMAIN clientData : clientData[i] \in ClientRecord
  /\ clientDataIndex \in 0 .. MaxClient
  /\ DOMAIN localData \subseteq Nat
  /\ \A k \in DOMAIN localData :
       localData[k] \in LocalRecord /\ localData[k].stamp < localStamp
  /\ localrecid \in Nat
  /\ localStamp \in 0 .. MaxLocal
  /\ semData \in 0 .. SemMax
  /\ msgid \in [Workers -> Nat \ {0}]
  /\ pc \in [Threads -> Labels \cup {"idle"}]
  /\ pc[Main] \in Labels
  /\ \A w \in Workers : pc[w] \in {"idle", "release"}
  /\ it \in Nat \cup {-1}
  /\ done \in BOOLEAN
  /\ found \in Nat
  /\ due \in BOOLEAN
  /\ tmsg \in Nat
  /\ tdata \in [size : Nat, data : SUBSET Nat]
  /\ tables \subseteq [of : Nat, data : SUBSET Nat]
  /\ locals \subseteq Nat
  /\ outSize \in Nat
  /\ written \in [client : SUBSET Nat, local : SUBSET Nat]

\* The key add_client_data(string) is about to use is free, whatever was cleared,
\* left over or reset before: "ERROR INSERTING LOCALDATA" (Mech.cc:2038), which
\* loses the record, is never reached, and keys keep the order of insertion.
FreshKey ==
  /\ \A k \in DOMAIN localData : k < localrecid
  /\ \A j, k \in DOMAIN localData : j < k => localData[j].stamp < localData[k].stamp

\* When the main thread sleeps on semDataID with records still queued, a permit is
\* there or a producer is about to release one, although the producer releases
\* after it unlocked and the main thread resets the semaphore to 0 (Mech.cc:1500).
\* The exception is an export that a local record too large for the packet cut
\* short with nothing to send (`done`): that one waits for the timeout.
NoLostWakeup ==
  pc[Main] = "wait" /\ ~done /\ PendingClient \cup PendingLocal # {} =>
    semData > 0 \/ \E w \in Workers : pc[w] = "release"

\* A record is exported at most once and in the order of its kind's queue: whatever
\* is in the packet or was written to the host is older than every record of the
\* same kind that is still queued.
NothingOvertaken ==
  /\ \A i \in CarriedClient \cup written.client, j \in PendingClient : i < j
  /\ \A i \in locals \cup written.local, j \in PendingLocal : i < j

\* A packet never holds what an earlier packet already wrote to the host, even when
\* the export left half of a map behind for the next one.
NotTwice ==
  /\ CarriedClient \cap written.client = {}
  /\ locals \cap written.local = {}

\* A record leaves clientData or localData only when an export took it before:
\* neither clear() nor the copy of what is left (Mech.cc:1611, 1650, 1664-1677)
\* drops a record that was never looked at.
LeavesOnlyTaken ==
  [][/\ \A i \in PendingClient : i \in DOMAIN clientData'
     /\ PendingLocal \subseteq
          {localData'[k].stamp : k \in DOMAIN localData'}]_vars

\* Every record queued is some day taken by an export, also the one left behind by
\* a size limit and the one queued while the main thread was falling asleep.
EveryRecordTaken ==
  /\ \A i \in 0 .. MaxClient - 1 : (i \in PendingClient) ~> (i \in TakenClient)
  /\ \A i \in 0 .. MaxLocal - 1 : (i \in PendingLocal) ~> (i \in TakenLocal)

\* The abstract specification: one FIFO queue per kind, at-most-once delivery.
Queue == INSTANCE AtMostOnceQueue WITH
  Kinds <- {"client", "local"},
  accepted <- [k \in {"client", "local"} |->
                 IF k = "client" THEN clientDataIndex ELSE localStamp],
  queued <- [k \in {"client", "local"} |->
                 IF k = "client" THEN PendingClient ELSE PendingLocal],
  carried <- [k \in {"client", "local"} |->
                 IF k = "client" THEN CarriedClient ELSE locals],
  received <- [k \in {"client", "local"} |-> written[k]]

\* The two maps, the mutex and the semaphore implement that queue.
ImplementsQueue == Queue!Spec

\* What README.md:43 says ("The system collects all the data") of the data that
\* the export puts aside because the last table has the same msgid: it is written
\* with a later table.  When the loop ends first, at the end of the map or at the
\* size limit, it goes with the function's locals (Mech.cc:1569, 1603-1613).
AsideIsCarried == [][tdata.data \subseteq CarriedClient']_vars

\* What README.md:43 says ("The system collects all the data"): the data of a record
\* that the export takes is in a table or put aside for the next one, also when two
\* workers used the same msgid.
TakenIsCarried ==
  [][\A i \in PendingClient : i \notin PendingClient' => i \in CarriedClient']_vars
=============================================================================
