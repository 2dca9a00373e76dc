-------------------------- MODULE BunnyCacheProofs --------------------------
(***************************************************************************)
(* Proofs about BunnyCache: type correctness; that while no file is opened *)
(* too early and no copy is made without the mutex under a write, what is  *)
(* fetched is what comes next in the cache file and what is served is what *)
(* comes next in the file; and what a read is that serves nothing.         *)
(***************************************************************************)
EXTENDS BunnyCache, TLAPS

\* A call of bunny_read2 has not returned, or there will be another one.
Live(h) == pc[h] \in ReadPcs \/ left[h] > 0

\* libupnp never asks for more than the rest of the file, also while a copy that
\* was made is not yet counted.
Counted ==
  \A h \in Handles :
    /\ pc[h] # "closed" =>
         /\ file[h] \in Files
         /\ pos[h] + left[h] <= Size[file[h]] +
                                (IF pc[h] = "finish" THEN Want(h) ELSE 0)
    /\ pc[h] \in ReadPcs => left[h] > 0

TypeInv == TypeOK /\ Counted

\* No file was opened too early, and no descriptor taken away.
Calm == upset \cap {"late", "overlap", "torn"} = {}

AtTest == {"first", "again", "signal"}
AtFetch == {"prepare", "send", "append", "write"}

\* What the loop test of the cache thread will find, but for its limit.
Ahead == t.pos <= start /\ start < t.size

\* The position is the end of the cache file, and no reader is beyond it.
Sound ==
  /\ start = Len(cached[filename])
  /\ fd # Unlinked
  /\ \A h \in Handles : pc[h] # "closed" /\ Live(h) => pos[h] <= start

\* The file that is open is the one the globals name.
OneOpen ==
  /\ \A g, h \in Handles : pc[g] # "closed" /\ pc[h] # "closed" => g = h
  /\ (\A h \in Handles : pc[h] = "closed") => filename = NoFile
  /\ \A h \in Handles :
       pc[h] # "closed" => filename = file[h] /\ filesize = Size[file[h]]
  /\ filename = NoFile => fd = NoFile
  /\ fd \in {NoFile, filename, Unlinked}

\* Where a reader is with respect to the globals.
Published ==
  \A h \in Handles :
    /\ pc[h] = "opened" => at = "wait" /\ sem = 0
    /\ pc[h] \in ReadPcs => request = file[h]
    /\ pc[h] \in ReadPcs \ {"finish"} => filepos = pos[h]
    /\ pc[h] \in {"nodata", "finish"} \cup CopyPcs => filepos < filesize
    /\ pc[h] = "finish" => pos[h] = filepos \/ pos[h] <= Len(cached[file[h]])
    /\ pc[h] = "idle" /\ (at # "wait" \/ sem > 0) =>
         /\ request = file[h]
         /\ left[h] = 0 \/ pos[h] = filepos \/ pos[h] <= Len(cached[file[h]])

\* Where the cache thread is.
Fetching ==
  filename # NoFile =>
    /\ at \in AtTest \cup AtFetch => t.size = filesize
    /\ at \in AtTest /\ Ahead => Sound
    /\ at \in AtFetch => Ahead /\ Sound
    /\ at = "append" => asked.file = filename /\ asked.from = start
    /\ at = "write" => \/ "connect" \in upset
                       \/ packet.file = filename /\ packet.from = start

Reading(h) == pc[h] \in {"read", "reread", "close"}

\* Who uses the descriptor: the thread that writes or the handle that copies.
Descriptor ==
  /\ at = "write" =>
       /\ mutex = "taken" /\ filename # NoFile /\ fd = filename /\ ~toRead
       /\ \A h \in Handles : ~Copying(h)
  /\ toRead /\ fd # NoFile => \E h \in Handles : Reading(h)
  /\ \A h \in Handles :
       /\ Reading(h) => fd \in {NoFile, filename}
       /\ pc[h] = "reread" /\ toRead /\ fd # NoFile => Len(cached[fd]) <= offset

\* What a copy has in its buffer.
Copied ==
  \A h \in Handles :
    /\ got[h] # "null"
    /\ got[h] = "wrong" => "connect" \in upset
    /\ got[h] # "none" => pc[h] \in {"close", "finish"}
    /\ pc[h] = "close" /\ got[h] # "none" =>
         pos[h] + Want(h) <= Len(cached[file[h]])

NoNulls == \A f \in Files : \A i \in 1 .. Len(cached[f]) : cached[f][i] # "null"

AllPrefixes == "connect" \in upset \/ \A f \in Files : IsPrefix(f)

CalmInv ==
  /\ OneOpen /\ Published /\ Fetching /\ Descriptor /\ Copied
  /\ NoNulls /\ AllPrefixes

Inv == TypeInv /\ (Calm => CalmInv)
-----------------------------------------------------------------------------
LEMMA UnitsTyped ==
  ASSUME NEW p \in Packets, NEW f, NEW n, NEW q \in Seq(Unit)
  PROVE  /\ Units(p, f, n) \in Seq(Unit)
         /\ q \o Units(p, f, n) \in Seq(Unit)
         /\ Len(Units(p, f, n)) = p.len
<1>1. p.len \in Nat
  BY DEF Packets
<1>2. Units(p, f, n) \in [1 .. p.len -> Unit]
  BY <1>1 DEF Units, Unit
<1> QED
  BY <1>1, <1>2

LEMMA TruncatedTyped ==
  ASSUME NEW q \in Seq(Unit)
  PROVE  Truncated(q) \in Seq(Unit) /\ Len(Truncated(q)) = Trunc
<1>1. Truncated(q) \in [1 .. Trunc -> Unit]
  <2>1. Trunc \in Nat /\ Len(q) \in Nat
    BY BunnyCacheAssumption
  <2>2. \A i \in 1 .. Trunc : i <= Len(q) => q[i] \in Unit
    BY <2>1
  <2> QED
    BY <2>1, <2>2 DEF Truncated, Unit
<1> QED
  BY <1>1, BunnyCacheAssumption

LEMMA RaisedTyped ==
  ASSUME NEW v \in Nat
  PROVE  Raised(v) \in Nat /\ Raised(v) > 0
  BY BunnyCacheAssumption DEF Raised

LEMMA RetireTyped ==
  ASSUME TypeOK, Retire
  PROVE  /\ present' \subseteq Files
         /\ cached' \in [Files -> Seq(Unit)]
         /\ fd' \in Files \cup {NoFile, Unlinked}
         /\ lost' \in Nat
<1>1. CASE retain = 0 /\ filename # NoFile /\ Unlink(filename)
  <2>1. <<>> \in Seq(Unit) /\ Len(cached[filename]) \in Nat
    BY <1>1 DEF TypeOK
  <2> QED
    BY <1>1, <2>1 DEF TypeOK, Unlink
<1>2. CASE UNCHANGED diskVars
  BY <1>2 DEF TypeOK, diskVars
<1>3. CASE /\ filename \in present
           /\ cached' = [cached EXCEPT ![filename] = Truncated(@)]
           /\ UNCHANGED <<present, fd, lost>>
  BY <1>3, TruncatedTyped DEF TypeOK
<1> QED
  BY <1>1, <1>2, <1>3 DEF Retire

LEMMA WantTyped ==
  ASSUME TypeOK, NEW h \in Handles
  PROVE  /\ Want(h) \in Nat /\ Want(h) <= left[h]
         /\ left[h] > 0 => Want(h) > 0
<1>1. left[h] \in Nat /\ BufLen \in Nat \ {0}
  BY BunnyCacheAssumption DEF TypeOK
<1> QED
  BY <1>1 DEF Want

LEMMA FdLenTyped ==
  ASSUME TypeOK, fd # NoFile
  PROVE  FdLen \in Nat
<1>1. CASE fd = Unlinked
  BY <1>1 DEF FdLen, TypeOK
<1>2. CASE fd # Unlinked
  <2>1. fd \in Files /\ cached \in [Files -> Seq(Unit)]
    BY <1>2 DEF TypeOK
  <2>2. cached[fd] \in Seq(Unit)
    BY <2>1
  <2>3. FdLen = Len(cached[fd])
    BY <1>2 DEF FdLen
  <2> QED
    BY <2>2, <2>3
<1> QED
  BY <1>1, <1>2

LEMMA EnterTyped ==
  ASSUME TypeOK, NEW p \in Packets, Enter(p)
  PROVE  /\ present' \subseteq Files
         /\ fd' \in Files \cup {NoFile, Unlinked}
         /\ toRead' \in BOOLEAN
         /\ mutex' \in {"free", "taken"}
         /\ start' \in Nat
         /\ t' \in Locals
         /\ at' \in {"signal", "write"}
<1>1. p.len \in Nat
  BY DEF Packets
<1>2. CASE /\ request # t.request
           /\ t' = [t EXCEPT !.over = TRUE]
           /\ fd' = NoFile
           /\ at' = "signal"
           /\ UNCHANGED <<present, toRead, mutex, start>>
  BY <1>2 DEF TypeOK, Locals
<1>3. CASE /\ t' = [t EXCEPT !.over = TRUE]
           /\ start' = start + p.len
           /\ at' = "signal"
           /\ UNCHANGED <<present, fd, toRead, mutex>>
  <2>1. t' \in Locals
    BY <1>3 DEF TypeOK, Locals
  <2>2. start' \in Nat
    BY <1>1, <1>3 DEF TypeOK
  <2> QED
    BY <1>3, <2>1, <2>2 DEF TypeOK
<1>4. CASE /\ \/ fd # NoFile /\ UNCHANGED <<present, fd, toRead>>
              \/ /\ fd = NoFile /\ filename # NoFile
                 /\ fd' = filename
                 /\ present' = present \cup {filename}
                 /\ toRead' = FALSE
           /\ mutex' = "taken"
           /\ at' = "write"
           /\ UNCHANGED <<t, start>>
  BY <1>4 DEF TypeOK
<1> QED
  BY <1>2, <1>3, <1>4 DEF Enter

LEMMA WriteTyped ==
  ASSUME TypeOK, Write
  PROVE  /\ cached' \in [Files -> Seq(Unit)]
         /\ lost' \in Nat
         /\ start' \in Nat
<1>1. packet \in Packets /\ packet.len \in Nat /\ start \in Nat /\ lost \in Nat
  BY DEF TypeOK, Packets
<1>2. CASE fd = NoFile /\ start' = start + packet.len /\ UNCHANGED <<cached, lost>>
  BY <1>1, <1>2 DEF TypeOK
<1>3. CASE fd # NoFile /\ start' = FdLen /\ UNCHANGED <<cached, lost>>
  BY <1>3, FdLenTyped DEF TypeOK
<1>4. CASE /\ lost' = lost + packet.len
           /\ start' = lost + packet.len
           /\ UNCHANGED cached
  BY <1>1, <1>4 DEF TypeOK
<1>5. CASE /\ fd \in Files
           /\ cached' = [cached EXCEPT ![fd] = @ \o Units(packet, fd, Len(@))]
           /\ start' = Len(cached[fd]) + packet.len
           /\ UNCHANGED lost
  <2>1. cached[fd] \in Seq(Unit)
    BY <1>5 DEF TypeOK
  <2>2. cached' \in [Files -> Seq(Unit)]
    BY <1>1, <1>5, <2>1, UnitsTyped DEF TypeOK
  <2>3. Len(cached[fd]) \in Nat
    BY <2>1
  <2> QED
    BY <1>1, <1>5, <2>2, <2>3
<1> QED
  BY <1>2, <1>3, <1>4, <1>5 DEF Write

LEMMA TypeInit == Init => TypeInv
<1> SUFFICES ASSUME Init
             PROVE  TypeInv
  OBVIOUS
<1>1. cached \in [Files -> Seq(Unit)] /\ retain \in Retains /\ upset \subseteq Causes
  BY DEF Init
<1>2. TypeOK
  BY <1>1 DEF Init, TypeOK, Ats, Pcs, Locals, NoLocals, Packets, NoPacket, Buffers
<1>3. Counted
  BY DEF Init, Counted, ReadPcs, CopyPcs
<1> QED
  BY <1>2, <1>3 DEF TypeInv

LEMMA ThreadTyped == TypeInv /\ CacheThread => TypeInv'
<1> SUFFICES ASSUME TypeInv, CacheThread
             PROVE  TypeInv'
  OBVIOUS
<1> USE DEF TypeInv, Counted
<1>1. CASE Wake
  <2>1. \A f \in Files : Len(cached[f]) \in Nat
    BY DEF TypeOK
  <2>2. /\ t' \in Locals
        /\ fd' \in Files \cup {NoFile}
        /\ present' \subseteq Files
        /\ start' \in Nat
        /\ toRead' \in BOOLEAN
        /\ upset' \subseteq Causes
    <3>1. CASE WakeBad
      <4>1. t' = [t EXCEPT !.pos = 0, !.size = 0, !.request = NoFile, !.over = FALSE]
        BY <3>1 DEF WakeBad
      <4>2. t' \in Locals
        BY <4>1 DEF TypeOK, Locals
      <4>3. fd' = NoFile /\ UNCHANGED <<start, toRead>>
        BY <3>1 DEF WakeBad
      <4>4. \/ UNCHANGED <<present, upset>>
            \/ /\ filename # NoFile /\ present' = present \cup {filename}
               /\ upset' = upset \cup {"torn"}
        BY <3>1 DEF WakeBad
      <4> QED
        BY <4>2, <4>3, <4>4 DEF TypeOK, Causes
    <3>2. CASE WakeOpen
      <4>1. CacheSize[filename] \in Nat /\ filename \in Files
        BY <3>2, BunnyCacheAssumption DEF WakeOpen, TypeOK
      <4>2. t' \in Locals
        BY ZenonT(30), <3>2, <4>1 DEF WakeOpen, TypeOK, Locals
      <4> QED
        BY <2>1, <3>2, <4>1, <4>2 DEF WakeOpen, TypeOK
    <3> QED
      BY <1>1, <3>1, <3>2 DEF Wake
  <2>3. sem' \in Nat /\ at' \in Ats
    BY <1>1 DEF Wake, TypeOK, Ats
  <2> QED
    BY <1>1, <2>2, <2>3 DEF Wake, TypeOK, connectVars, copyVars, readerVars, Want
<1>2. CASE First
  BY <1>2, BunnyCacheAssumption DEF First, TypeOK, Ats, Locals, NoLocals, diskVars,
     fdVars, globalVars, semVars, connectVars, copyVars, readerVars, Want
<1>3. CASE Again
  BY <1>3 DEF Again, TypeOK, Ats, diskVars, fdVars, globalVars, semVars, connectVars,
     copyVars, readerVars, Want
<1>4. CASE Prepare
  <2>1. t' \in Locals
    <3>1. (IF Below(filesize, start, FetchLen) THEN filesize - start ELSE FetchLen)
             \in Nat
      BY BunnyCacheAssumption DEF Below, TypeOK
    <3>2. Below(filesize, start, FetchLen) \in BOOLEAN
      BY DEF Below
    <3> QED
      BY <1>4, <3>1, <3>2 DEF Prepare, TypeOK, Locals
  <2> QED
    BY <1>4, <2>1 DEF Prepare, TypeOK, Ats, fdVars, globalVars, semVars, connectVars,
       copyVars, readerVars, Want
<1>5. CASE Send
  BY <1>5 DEF Send, TypeOK, Ats, Locals, Packets, diskVars, fdVars, globalVars,
     semVars, connectVars, copyVars, readerVars, Want
<1>6. CASE Fetched
  <2>1. Enter(asked) /\ asked \in Packets
    BY <1>6 DEF Fetched, TypeOK
  <2>2. upset' \subseteq Causes
    BY <1>6 DEF Fetched, Torn, TypeOK, Causes
  <2> QED
    BY <1>6, <2>1, <2>2, EnterTyped
    DEF Fetched, TypeOK, Ats, NoPacket, Packets, semVars, copyVars, readerVars, Want
<1>7. CASE BadAnswer
  BY <1>7 DEF BadAnswer, TypeOK, Ats, Locals, Packets, NoPacket, diskVars, fdVars,
     globalVars, semVars, copyVars, readerVars, Want
<1>8. CASE NoConnection
  <2>1. /\ present' \subseteq Files
        /\ fd' \in Files \cup {NoFile, Unlinked}
        /\ toRead' \in BOOLEAN
        /\ mutex' \in {"free", "taken"}
        /\ start' \in Nat
        /\ t' \in Locals
        /\ at' \in {"signal", "write"}
        /\ errors' \in Nat
    <3>1. CASE /\ Enter(packet)
               /\ errors' \in errors .. (IF errors < Tolerated THEN errors + 1 ELSE errors)
      BY <3>1, EnterTyped DEF TypeOK
    <3>2. CASE /\ t' = [t EXCEPT !.over = TRUE] /\ at' = "signal"
               /\ UNCHANGED <<errors, present, fd, toRead, mutex, start>>
      BY <3>2 DEF TypeOK, Locals
    <3> QED
      BY <1>8, <3>1, <3>2 DEF NoConnection
  <2>2. failures' \in Nat /\ at' \in Ats /\ asked' \in Packets
    BY SMTT(30), <1>8, <2>1 DEF NoConnection, TypeOK, Ats, NoPacket, Packets
  <2>3. upset' \subseteq Causes
    BY <1>8 DEF NoConnection, Torn, TypeOK, Causes
  <2> QED
    BY <1>8, <2>1, <2>2, <2>3
    DEF NoConnection, TypeOK, semVars, copyVars, readerVars, Want
<1>9. CASE Signal
  BY <1>9, RaisedTyped DEF Signal, TypeOK, Ats, Causes, diskVars, fdVars, globalVars,
     connectVars, copyVars, readerVars, Want
<1>10. CASE Exit
  BY <1>10 DEF Exit, TypeOK, Ats, Locals, NoLocals, Packets, NoPacket, fdVars,
     globalVars, semVars, connectVars, copyVars, readerVars, Want
<1>11. CASE Write
  BY <1>11, WriteTyped DEF Write, TypeOK, Ats, fdVars, semVars, connectVars, copyVars,
     readerVars, Want
<1> QED
  BY <1>1, <1>2, <1>3, <1>4, <1>5, <1>6, <1>7, <1>8, <1>9, <1>10, <1>11
  DEF CacheThread

LEMMA ReaderTyped ==
  ASSUME TypeInv, NEW h \in Handles, Reader(h)
  PROVE  TypeInv'
<1> USE DEF TypeInv, Goto
<1> DEFINE Bound(g) ==
      /\ pc[g] # "closed" =>
           /\ file[g] \in Files
           /\ pos[g] + left[g] <= Size[file[g]] +
                                  (IF pc[g] = "finish" THEN Want(g) ELSE 0)
      /\ pc[g] \in ReadPcs => left[g] > 0
<1>a. \A g \in Handles : Bound(g)
  BY DEF Counted
\* A step of h changes no other handle.
<1>b. ASSUME \A g \in Handles \ {h} :
                /\ pc'[g] = pc[g] /\ file'[g] = file[g]
                /\ pos'[g] = pos[g] /\ left'[g] = left[g],
             Bound(h)'
      PROVE  Counted'
  <2>1. \A g \in Handles \ {h} : Want(g)' = Want(g)
    BY <1>b DEF Want
  <2>2. \A g \in Handles \ {h} : Bound(g)'
    BY <1>a, <1>b, <2>1
  <2>3. \A g \in Handles : Bound(g)'
    BY <1>b, <2>2
  <2> QED
    BY <2>3 DEF Counted
\* A step of bunny_read2 before its end.
<1>c. ASSUME pc[h] \in ReadPcs \ {"finish"}, NEW l \in ReadPcs \ {"finish"},
             pc' = [pc EXCEPT ![h] = l], UNCHANGED <<file, pos, left>>
      PROVE  pc' \in [Handles -> Pcs] /\ Counted'
  <2>1. pc' \in [Handles -> Pcs] /\ pc'[h] = l /\ l # "closed" /\ pc[h] # "closed"
    BY <1>c DEF TypeOK, Pcs, ReadPcs, CopyPcs
  <2>2. \A g \in Handles \ {h} : pc'[g] = pc[g]
    BY <1>c DEF TypeOK
  <2> QED
    BY <1>a, <1>b, <1>c, <2>1, <2>2
<1>d. Want(h) \in Nat /\ Want(h) <= left[h] /\ (left[h] > 0 => Want(h) > 0)
  BY WantTyped
<1>e. /\ pos[h] \in Nat /\ left[h] \in Nat
      /\ \A f \in Files : Size[f] \in Nat /\ Len(cached[f]) \in Nat
                         /\ cached[f] \in Seq(Unit)
  <2>1. \A f \in Files : cached[f] \in Seq(Unit)
    BY DEF TypeOK
  <2> QED
    BY <2>1, BunnyCacheAssumption DEF TypeOK
<1>1. CASE Open(h)
  <2>1. PICK f \in Files :
          /\ file' = [file EXCEPT ![h] = f]
          /\ filename' = f
          /\ filesize' = Size[f]
          /\ left' = [left EXCEPT ![h] = Size[f]]
    BY <1>1 DEF Open
  <2>2. Size[f] \in Nat
    BY BunnyCacheAssumption
  <2>3. upset' \subseteq Causes
    BY <1>1 DEF Open, TypeOK, Causes
  <2>4. TypeOK'
    BY SMTT(30), <1>1, <2>1, <2>2, <2>3, RetireTyped
    DEF Open, TypeOK, Pcs, fdVars, semVars, threadVars, connectVars, copyVars
  <2>5. Counted'
    <3>1. /\ \A g \in Handles \ {h} :
                /\ pc'[g] = pc[g] /\ file'[g] = file[g]
                /\ pos'[g] = pos[g] /\ left'[g] = left[g]
          /\ pc'[h] = "opened" /\ file'[h] = f /\ pos'[h] = 0 /\ left'[h] = Size[f]
      BY <1>1, <2>1 DEF Open, TypeOK
    <3>2. Bound(h)'
      BY <2>2, <3>1 DEF ReadPcs, CopyPcs
    <3> QED
      BY <1>b, <3>1, <3>2
  <2> QED
    BY <2>4, <2>5
<1>2. CASE Seek(h)
  <2>1. PICK p \in 0 .. Size[file[h]] - 1 :
          /\ pos' = [pos EXCEPT ![h] = p]
          /\ left' = [left EXCEPT ![h] = Size[file[h]] - p]
    BY <1>2 DEF Seek
  <2>2. pc[h] = "opened" /\ file[h] \in Files /\ Size[file[h]] \in Nat
    BY <1>2, <1>a, BunnyCacheAssumption DEF Seek
  <2>3. TypeOK'
    BY SMTT(30), <1>2, <2>1, <2>2
    DEF Seek, TypeOK, Pcs, diskVars, fdVars, globalVars, semVars, threadVars,
        connectVars, copyVars
  <2>4. Counted'
    <3>1. /\ \A g \in Handles \ {h} :
                /\ pc'[g] = pc[g] /\ file'[g] = file[g]
                /\ pos'[g] = pos[g] /\ left'[g] = left[g]
          /\ pc'[h] = "idle" /\ file'[h] = file[h] /\ pos'[h] = p
          /\ left'[h] = Size[file[h]] - p
      BY <1>2, <2>1 DEF Seek, TypeOK
    <3>2. Bound(h)'
      BY <2>1, <2>2, <3>1 DEF ReadPcs, CopyPcs
    <3> QED
      BY <1>b, <3>1, <3>2
  <2> QED
    BY <2>3, <2>4
<1>3. CASE Close(h)
  <2>1. TypeOK'
    BY <1>3 DEF Close, TypeOK, Pcs, fdVars, semVars, threadVars, connectVars, copyVars
  <2>2. /\ \A g \in Handles \ {h} :
              /\ pc'[g] = pc[g] /\ file'[g] = file[g]
              /\ pos'[g] = pos[g] /\ left'[g] = left[g]
        /\ pc'[h] = "closed"
    BY <1>3 DEF Close, TypeOK
  <2> QED
    BY <1>b, <2>1, <2>2 DEF ReadPcs, CopyPcs
<1>4. CASE Read(h)
  <2>1. Size[file[h]] \in Nat /\ file[h] \in Files /\ Len(cached[file[h]]) \in Nat
    BY <1>4, <1>a, <1>e DEF Read
  <2>2. TypeOK'
    BY <1>4, <2>1, RaisedTyped
    DEF Read, TypeOK, Pcs, ReadPcs, CopyPcs, fdVars, threadVars, connectVars, copyVars
  <2>3. /\ \A g \in Handles \ {h} :
              /\ pc'[g] = pc[g] /\ file'[g] = file[g]
              /\ pos'[g] = pos[g] /\ left'[g] = left[g]
        /\ pc'[h] \in {"setval", "loop"} /\ file'[h] = file[h] /\ pos'[h] = pos[h]
        /\ left'[h] = left[h] /\ left[h] > 0 /\ pc[h] \in {"opened", "idle"}
    BY <1>4 DEF Read, TypeOK
  <2> QED
    BY <1>a, <1>b, <2>1, <2>2, <2>3
<1>5. CASE SetVal(h)
  BY <1>5, <1>c DEF SetVal, TypeOK, ReadPcs, diskVars, fdVars, globalVars, threadVars,
     connectVars, copyVars
<1>6. CASE WaitZero(h)
  BY <1>6, <1>c, RaisedTyped DEF WaitZero, TypeOK, ReadPcs, diskVars, fdVars,
     globalVars, threadVars, connectVars, copyVars
<1>7. CASE Look(h)
  <2>1. pc[h] = "loop" /\ pc[h] \in ReadPcs \ {"finish"} /\ pc[h] # "closed"
    BY <1>7 DEF Look, ReadPcs
  <2>2. /\ sem' \in Nat /\ mutex' \in {"free", "taken"} /\ upset' \subseteq Causes
        /\ UNCHANGED <<retain, diskVars, fdVars, globalVars, semdata, threadVars,
                       copyVars, file, pos, opens>>
    <3>1. /\ sem' \in {sem, Raised(sem)} /\ mutex' \in {mutex, "taken"}
          /\ upset' \in {upset, upset \cup {"beyond"}}
      BY <1>7 DEF Look
    <3> QED
      BY <1>7, <3>1, RaisedTyped DEF Look, TypeOK, Causes
  <2>3. pc' \in [Handles -> Pcs] /\ left' \in [Handles -> Nat] /\ Counted'
    <3>1. CASE pc' = [pc EXCEPT ![h] = "idle"] /\ left' = [left EXCEPT ![h] = 0]
      <4>1. pc' \in [Handles -> Pcs] /\ left' \in [Handles -> Nat]
        BY <3>1 DEF TypeOK, Pcs
      <4>2. /\ \A g \in Handles \ {h} : pc'[g] = pc[g] /\ left'[g] = left[g]
            /\ pc'[h] = "idle" /\ left'[h] = 0
        BY <3>1 DEF TypeOK
      <4>3. Bound(h)'
        BY <1>7, <1>a, <1>e, <2>1, <4>2 DEF Look, ReadPcs, CopyPcs
      <4> QED
        BY <1>7, <1>b, <4>1, <4>2, <4>3 DEF Look
    <3>2. CASE /\ left' = left
               /\ \E l \in {"wait", "nodata", "open"} : pc' = [pc EXCEPT ![h] = l]
      BY <1>7, <1>c, <2>1, <3>2 DEF Look, TypeOK, ReadPcs, CopyPcs
    <3> QED
      BY <1>7, <3>1, <3>2 DEF Look
  <2> QED
    BY <2>2, <2>3
    DEF TypeOK, diskVars, fdVars, globalVars, threadVars, connectVars, copyVars
<1>8. CASE Wait(h)
  <2>1. pc' \in [Handles -> Pcs] /\ Counted'
    BY <1>8, <1>c DEF Wait, ReadPcs
  <2>2. semdata' \in Nat
    BY <1>8 DEF Wait, TypeOK
  <2> QED
    BY <1>8, <2>1, <2>2 DEF Wait, TypeOK, diskVars, fdVars, globalVars, threadVars,
       connectVars, copyVars
<1>9. CASE NoData(h)
  <2>1. upset' \subseteq Causes
    BY <1>9 DEF NoData, TypeOK, Causes
  <2>2. pc' \in [Handles -> Pcs] /\ Counted'
    BY <1>9, <1>c DEF NoData, ReadPcs, CopyPcs
  <2> QED
    BY <1>9, <2>1, <2>2 DEF NoData, TypeOK, diskVars, fdVars, globalVars, threadVars,
       connectVars, copyVars
\* A step of the copy to its end.
<1>f. ASSUME pc[h] \in CopyPcs, pc' = [pc EXCEPT ![h] = "finish"],
             UNCHANGED <<file, left>>,
             pos' = pos \/ pos' = [pos EXCEPT ![h] = @ + Want(h)]
      PROVE  pc' \in [Handles -> Pcs] /\ pos' \in [Handles -> Nat] /\ Counted'
  <2>1. pc' \in [Handles -> Pcs] /\ pc'[h] = "finish"
    BY <1>f DEF TypeOK, Pcs, ReadPcs
  <2>2. /\ pc[h] # "closed" /\ pc[h] # "finish" /\ pc[h] \in ReadPcs
        /\ pos'[h] \in {pos[h], pos[h] + Want(h)}
        /\ pos' \in [Handles -> Nat]
    BY <1>d, <1>f DEF TypeOK, ReadPcs, CopyPcs
  <2>3. /\ \A g \in Handles \ {h} : pc'[g] = pc[g] /\ pos'[g] = pos[g]
        /\ Want(h)' = Want(h)
    BY <1>f DEF TypeOK, Want
  <2>4. Bound(h)'
    BY <1>a, <1>d, <1>e, <1>f, <2>1, <2>2, <2>3
  <2> QED
    BY <1>b, <1>f, <2>1, <2>2, <2>3, <2>4
<1>10. CASE OpenCache(h)
  <2>1. /\ present' \subseteq Files
        /\ cached' \in [Files -> Seq(Unit)]
        /\ fd' \in Files \cup {NoFile}
        /\ toRead' \in BOOLEAN /\ offset' \in Nat /\ mutex' \in {"free", "taken"}
        /\ path' \in [Handles -> Files \cup {NoFile}]
    <3>1. CASE /\ filename \in present
               /\ fd' = filename
               /\ toRead' = TRUE /\ offset' = 0
               /\ path' = [path EXCEPT ![h] = filename]
               /\ UNCHANGED <<present, cached, mutex>>
      BY <3>1 DEF TypeOK
    <3>2. CASE /\ filename \in present
               /\ present' = present \ {filename}
               /\ cached' = [cached EXCEPT ![filename] = <<>>]
               /\ fd' = NoFile
               /\ mutex' = "free"
               /\ UNCHANGED <<fdVars, path>>
      <4>1. cached' \in [Files -> Seq(Unit)]
        BY <3>2 DEF TypeOK
      <4> QED
        BY <3>2, <4>1 DEF TypeOK, fdVars
    <3>3. CASE /\ fd' = NoFile
               /\ mutex' = "free"
               /\ UNCHANGED <<present, cached, fdVars, path>>
      BY <3>3 DEF TypeOK, fdVars
    <3> QED
      BY <1>10, <3>1, <3>2, <3>3 DEF OpenCache
  <2>2. pc' \in [Handles -> Pcs] /\ Counted'
    <3>1. CASE pc' = [pc EXCEPT ![h] = "read"]
      BY <1>10, <1>c, <3>1 DEF OpenCache, ReadPcs, CopyPcs
    <3>2. CASE pc' = [pc EXCEPT ![h] = "finish"]
      BY <1>10, <1>f, <3>2 DEF OpenCache, CopyPcs
    <3> QED
      BY <1>10, <3>1, <3>2 DEF OpenCache
  <2> QED
    BY <1>10, <2>1, <2>2 DEF OpenCache, TypeOK, globalVars, semVars, threadVars,
       connectVars
<1>11. CASE ReadCache(h) \/ ReadAgain(h)
  <2>1. /\ offset' \in Nat
        /\ got' = got \/ \E b \in Buffers : got' = [got EXCEPT ![h] = b]
    <3>1. \A o : Buffered(h, o) \in Buffers
      BY DEF Buffered, Buffers
    <3>2. CASE ReadCache(h)
      <4>1. \/ offset' = offset \/ offset' = pos[h] + Want(h) \/ offset' = pos[h]
            \/ fd # NoFile /\ offset' = FdLen
        BY <3>2 DEF ReadCache
      <4>2. offset' \in Nat
        BY <1>d, <1>e, <4>1, FdLenTyped DEF TypeOK
      <4> QED
        BY <3>1, <3>2, <4>2 DEF ReadCache
    <3>3. CASE ReadAgain(h)
      <4>1. offset' \in {offset, offset + Want(h)}
        BY <3>3 DEF ReadAgain
      <4>2. offset' \in Nat
        BY <1>d, <4>1 DEF TypeOK
      <4> QED
        BY <3>1, <3>3, <4>2 DEF ReadAgain
    <3> QED
      BY <1>11, <3>2, <3>3
  <2>2. got' \in [Handles -> Buffers]
    BY <2>1 DEF TypeOK
  <2>3. /\ pc[h] \in {"read", "reread"}
        /\ \E l \in {"reread", "close"} : pc' = [pc EXCEPT ![h] = l]
        /\ UNCHANGED <<retain, diskVars, toRead, mutex, globalVars, semVars, threadVars,
                       path, file, pos, left, opens, upset>>
    BY <1>11 DEF ReadCache, ReadAgain
  <2>4. pc' \in [Handles -> Pcs] /\ Counted'
    BY <1>c, <2>3 DEF ReadPcs, CopyPcs
  <2> QED
    BY <2>1, <2>2, <2>3, <2>4
    DEF TypeOK, diskVars, globalVars, semVars, threadVars, connectVars
<1>12. CASE CloseCache(h)
  <2>1. /\ present' \subseteq Files
        /\ cached' \in [Files -> Seq(Unit)]
        /\ start' \in Nat
        /\ pos' = pos \/ pos' = [pos EXCEPT ![h] = @ + Want(h)]
    <3>1. CASE UNCHANGED <<present, cached, pos, start>>
      BY <3>1 DEF TypeOK
    <3>2. CASE /\ pos' = [pos EXCEPT ![h] = @ + Want(h)]
               /\ present' = present \ {path[h]}
               /\ cached' = [cached EXCEPT ![path[h]] = <<>>]
               /\ UNCHANGED start
      <4>1. <<>> \in Seq(Unit)
        OBVIOUS
      <4>2. cached' \in [Files -> Seq(Unit)]
        BY <3>2, <4>1 DEF TypeOK
      <4> QED
        BY <3>2, <4>2 DEF TypeOK
    <3>3. CASE /\ pos' = [pos EXCEPT ![h] = @ + Want(h)]
               /\ start' = IF fd = NoFile THEN start ELSE FdLen
               /\ UNCHANGED <<present, cached>>
      BY <3>3, FdLenTyped DEF TypeOK
    <3> QED
      BY <1>12, <3>1, <3>2, <3>3 DEF CloseCache
  <2>2. pc' \in [Handles -> Pcs] /\ pos' \in [Handles -> Nat] /\ Counted'
    BY <1>12, <1>f, <2>1 DEF CloseCache, CopyPcs
  <2> QED
    BY <1>12, <2>1, <2>2 DEF CloseCache, TypeOK, fdVars, semVars, threadVars,
       connectVars, copyVars
<1>13. CASE Finish(h)
  <2>1. left[h] > 0 /\ left[h] - Want(h) \in Nat
    BY <1>13, <1>a, <1>d, <1>e DEF Finish, ReadPcs
  <2>2. /\ present' \subseteq Files
        /\ cached' \in [Files -> Seq(Unit)]
        /\ fd' \in Files \cup {NoFile, Unlinked}
        /\ lost' \in Nat
    BY <1>13, RetireTyped DEF Finish, TypeOK, diskVars
  <2>3. /\ got' \in [Handles -> Buffers] /\ path' \in [Handles -> Files \cup {NoFile}]
        /\ left' \in [Handles -> Nat] /\ pc' \in [Handles -> Pcs]
    BY <1>13, <2>1 DEF Finish, TypeOK, Buffers, Pcs
  <2>4. TypeOK'
    BY <1>13, <2>2, <2>3 DEF Finish, TypeOK, fdVars, globalVars, semVars, threadVars,
       connectVars
  <2>5. Counted'
    <3>1. \A g \in Handles \ {h} : pc'[g] = pc[g] /\ left'[g] = left[g]
      BY <1>13 DEF Finish, TypeOK
    <3>2. /\ pc[h] = "finish" /\ pc'[h] = "idle" /\ left'[h] = left[h] - Want(h)
          /\ pos' = pos /\ file' = file
      BY <1>13 DEF Finish, TypeOK
    <3>3. Bound(h)'
      BY <1>a, <1>d, <1>e, <3>2 DEF ReadPcs, CopyPcs
    <3> QED
      BY <1>b, <3>1, <3>2, <3>3
  <2> QED
    BY <2>4, <2>5
<1> QED
  BY <1>1, <1>2, <1>3, <1>4, <1>5, <1>6, <1>7, <1>8, <1>9, <1>10, <1>11, <1>12, <1>13
  DEF Reader, ReadSteps

LEMMA TypeStep == TypeInv /\ [Next]_vars => TypeInv'
<1>1. TypeInv /\ CacheThread => TypeInv'
  BY ThreadTyped
<1>2. ASSUME TypeInv, NEW h \in Handles, Reader(h)
      PROVE  TypeInv'
  BY <1>2, ReaderTyped
<1>3. TypeInv /\ UNCHANGED vars => TypeInv'
  BY DEF TypeInv, TypeOK, Counted, Want, vars, diskVars, fdVars, globalVars, semVars,
     threadVars, connectVars, copyVars, readerVars
<1> QED
  BY <1>1, <1>2, <1>3 DEF Next

\* bunny.cc: the globals, the cache thread and the handles keep their types for any
\* files, sizes and number of handles; libupnp never reads past the end of a file.
THEOREM TypeCorrect == Spec => []TypeOK
<1>1. TypeInv => TypeOK
  BY DEF TypeInv
<1> QED
  BY <1>1, TypeInit, TypeStep, PTL DEF Spec

-----------------------------------------------------------------------------
(***************************************************************************)
(* The invariant of the calm behaviours.                                   *)
(***************************************************************************)

LEMMA Names ==
  /\ NoFile \notin Files
  /\ Unlinked \notin Files
  /\ Unlinked # NoFile
  BY BunnyCacheAssumption DEF Unlinked

LEMMA InvInit == Init => Inv
<1> SUFFICES ASSUME Init
             PROVE  CalmInv
  BY TypeInit DEF Inv
<1>1. \A h \in Handles : pc[h] = "closed"
  BY DEF Init
<1> QED
  BY <1>1 DEF Init, CalmInv, OneOpen, Published, Fetching, NoNulls, AllPrefixes,
     IsPrefix, AtTest, AtFetch, ReadPcs, CopyPcs, Descriptor, Copied, Reading

\* The file the globals name is the file of the one handle that is open, and while
\* the cache thread works it is the one requested.
LEMMA Requested ==
  ASSUME TypeInv, CalmInv, filename # NoFile, at # "wait" \/ sem > 0
  PROVE  request = filename
<1>1. PICK h \in Handles : pc[h] # "closed"
  BY DEF CalmInv, OneOpen
<1>2. file[h] = filename
  BY <1>1 DEF CalmInv, OneOpen
<1>3. pc[h] = "idle" \/ pc[h] \in ReadPcs
  BY <1>1 DEF TypeInv, TypeOK, Pcs, CalmInv, Published
<1> QED
  BY <1>2, <1>3 DEF CalmInv, Published

\* When the cache thread takes the mutex for a packet, the file to write to is the
\* one that is open, and nobody reads from it.
LEMMA EnterCalm ==
  ASSUME TypeInv, CalmInv, at = "append", NEW p \in Packets, Enter(p),
         at' = "write" => \A h \in Handles : ~Copying(h)
  PROVE  /\ fd' \in {NoFile, filename}
         /\ filename # NoFile => start' = start
         /\ toRead' => toRead /\ fd' \in {fd, NoFile}
         /\ at' \in {"signal", "write"}
         /\ at' = "write" => /\ mutex' = "taken" /\ filename # NoFile
                             /\ fd' = filename /\ ~toRead'
         /\ t'.pos = t.pos /\ t'.size = t.size
<1>1. fd \in {NoFile, filename}
  BY Names DEF CalmInv, OneOpen, Fetching, Sound, AtFetch
<1>2. t'.pos = t.pos /\ t'.size = t.size
  BY DEF Enter, TypeInv, TypeOK, Locals
<1>3. toRead /\ fd # NoFile => \E h \in Handles : Copying(h)
  BY DEF CalmInv, Descriptor, Reading, Copying, CopyPcs
<1>4. toRead \in BOOLEAN
  BY DEF TypeInv, TypeOK
<1> QED
  BY <1>1, <1>2, <1>3, <1>4 DEF Enter

\* The packet is appended to the cache file of the file that is open, which grows to
\* the new position.
LEMMA WriteCalm ==
  ASSUME TypeInv, CalmInv, Write
  PROVE  /\ filename # NoFile /\ fd = filename /\ ~toRead
         /\ \A h \in Handles : ~Copying(h)
         /\ start' = Len(cached'[filename]) /\ start <= start'
         /\ \A f \in Files : Len(cached[f]) <= Len(cached'[f])
         /\ NoNulls'
         /\ packet.file = filename /\ packet.from = start =>
              \A f \in Files : IsPrefix(f) => IsPrefix(f)'
<1> DEFINE p == packet
<1>0. p \in Packets
  BY DEF TypeInv, TypeOK
<1> HIDE DEF p
<1>1. p.len \in Nat
  BY <1>0 DEF Packets
<1>2. \A f \in Files : cached[f] \in Seq(Unit) /\ Len(cached[f]) \in Nat
  BY DEF TypeInv, TypeOK
<1>3. /\ filename # NoFile /\ fd = filename /\ ~toRead
      /\ \A h \in Handles : ~Copying(h)
  BY DEF Write, CalmInv, Descriptor
<1>4. filename \in Files /\ start = Len(cached[filename])
  BY <1>3 DEF Write, TypeInv, TypeOK, CalmInv, Fetching, Sound, AtFetch
<1>5. QED
  <2> DEFINE b == Units(p, filename, Len(cached[filename]))
  <2>1. filename \in Files
    BY <1>4
  <2>2. /\ cached' = [cached EXCEPT ![filename] = @ \o b]
        /\ start' = Len(cached[filename]) + p.len
    BY <1>3, <2>1, Names DEF Write, p
  <2>3. /\ cached'[filename] = cached[filename] \o b
        /\ \A f \in Files : f # filename => cached'[f] = cached[f]
    BY <2>1, <2>2 DEF TypeInv, TypeOK
  <2>4. b \in Seq(Unit) /\ Len(b) = p.len
    BY <1>0, <1>2, <2>1, UnitsTyped
  <2>5. \A i \in 1 .. p.len :
          b[i] = IF p.file = filename /\ p.from = Len(cached[filename])
                 THEN "right" ELSE "wrong"
    BY <1>1 DEF Units
  <2> HIDE DEF b
  <2>6. Len(cached'[filename]) = Len(cached[filename]) + p.len
    <3>1. \A q, r \in Seq(Unit) : Len(q \o r) = Len(q) + Len(r)
      OBVIOUS
    <3> QED
      BY <1>2, <2>1, <2>3, <2>4, <3>1
  <2>7. \A i \in 1 .. Len(cached'[filename]) :
          IF i <= Len(cached[filename]) THEN cached'[filename][i] = cached[filename][i]
          ELSE /\ i - Len(cached[filename]) \in 1 .. p.len
               /\ cached'[filename][i] = b[i - Len(cached[filename])]
    BY <1>1, <1>2, <2>1, <2>3, <2>4, <2>6
  <2>8. \A f \in Files : Len(cached[f]) <= Len(cached'[f])
    BY <1>1, <1>2, <2>3, <2>6
  <2>9. start' = Len(cached'[filename]) /\ start <= start'
    BY <1>1, <1>2, <1>4, <2>1, <2>2, <2>6
  <2>10. NoNulls'
    <3> SUFFICES ASSUME NEW f \in Files, NEW i \in 1 .. Len(cached'[f])
                 PROVE  cached'[f][i] # "null"
      BY DEF NoNulls
    <3>1. CASE f # filename
      BY <2>3, <3>1 DEF CalmInv, NoNulls
    <3>2. CASE f = filename /\ i <= Len(cached[filename])
      <4>1. i \in 1 .. Len(cached[filename])
        BY <1>2, <2>1, <3>2
      <4> QED
        BY <2>1, <2>7, <3>2, <4>1 DEF CalmInv, NoNulls
    <3>3. CASE f = filename /\ ~(i <= Len(cached[filename]))
      BY <2>5, <2>7, <3>3
    <3> QED
      BY <3>1, <3>2, <3>3
  <2>11. ASSUME p.file = filename, p.from = start, NEW f \in Files, IsPrefix(f)
         PROVE  IsPrefix(f)'
    <3> SUFFICES ASSUME NEW i \in 1 .. Len(cached'[f])
                 PROVE  cached'[f][i] = "right"
      BY DEF IsPrefix
    <3>1. CASE f # filename
      BY <2>3, <2>11, <3>1 DEF IsPrefix
    <3>2. CASE f = filename /\ i <= Len(cached[filename])
      <4>1. i \in 1 .. Len(cached[filename])
        BY <1>2, <2>1, <3>2
      <4> QED
        BY <2>1, <2>7, <2>11, <3>2, <4>1 DEF IsPrefix
    <3>3. CASE f = filename /\ ~(i <= Len(cached[filename]))
      BY <1>4, <2>5, <2>7, <2>11, <3>3
    <3> QED
      BY <3>1, <3>2, <3>3
  <2> QED
    BY <1>3, <2>8, <2>9, <2>10, <2>11 DEF p

LEMMA ThreadCalm ==
  ASSUME Inv, TypeInv', CacheThread, Calm'
  PROVE  CalmInv'
<1>0. upset \subseteq upset'
  BY DEF CacheThread, Wake, WakeOpen, WakeBad, First, Again, Prepare, Send, Fetched,
     BadAnswer, NoConnection, Write, Signal, Exit
<1>1. Calm /\ CalmInv /\ TypeInv
  BY <1>0 DEF Inv, Calm
<1>2. UNCHANGED <<filename, filesize, filepos, request, pc, file, pos, left, offset,
                 got>>
  BY DEF CacheThread, Wake, First, Again, Prepare, Send, Fetched, BadAnswer,
     NoConnection, Write, Signal, Exit, globalVars, readerVars, fdVars, copyVars
<1>3. at # "wait" \/ sem > 0
  BY DEF CacheThread, Wake, First, Again, Prepare, Send, Fetched, BadAnswer,
     NoConnection, Write, Signal, Exit
<1>4. \A f \in Files : Len(cached[f]) \in Nat
  BY <1>1 DEF TypeInv, TypeOK
<1>5. filename \in Files \cup {NoFile}
  BY <1>1 DEF TypeInv, TypeOK
<1> DEFINE Kept ==
      /\ fd' \in {fd, filename, NoFile}
      /\ filename = NoFile => fd' = NoFile
      /\ toRead' => toRead /\ fd' \in {fd, NoFile}
      /\ (\E h \in Handles : Copying(h)) => cached' = cached
      /\ at' = "write" => /\ mutex' = "taken" /\ filename # NoFile
                          /\ fd' = filename /\ ~toRead'
                          /\ \A h \in Handles : ~Copying(h)
      /\ \A f \in Files : Len(cached[f]) <= Len(cached'[f])
      /\ NoNulls'
      /\ AllPrefixes'
<1>6. ASSUME UNCHANGED cached
      PROVE  /\ \A f \in Files : Len(cached[f]) <= Len(cached'[f])
             /\ NoNulls'
             /\ AllPrefixes'
  BY <1>0, <1>1, <1>4, <1>6 DEF CalmInv, NoNulls, AllPrefixes, IsPrefix
<1>7. ASSUME Kept, Fetching'
      PROVE  CalmInv'
  <2>1. OneOpen'
    BY <1>1, <1>2, <1>7 DEF CalmInv, OneOpen
  <2>2. \A h \in Handles : pc[h] # "opened"
    BY <1>1, <1>3 DEF CalmInv, Published
  <2>3. \A h \in Handles : pc[h] # "closed" => file[h] \in Files /\ pos[h] \in Nat
    BY <1>1 DEF TypeInv, TypeOK, Counted
  <2>4. \A h \in Handles :
          pc[h] # "closed" /\ pos[h] <= Len(cached[file[h]]) =>
            pos[h] <= Len(cached'[file[h]])
    <3> SUFFICES ASSUME NEW h \in Handles, pc[h] # "closed",
                        pos[h] <= Len(cached[file[h]])
                 PROVE  pos[h] <= Len(cached'[file[h]])
      OBVIOUS
    <3>1. file[h] \in Files /\ pos[h] \in Nat
      BY <2>3
    <3>2. Len(cached[file[h]]) \in Nat /\ Len(cached'[file[h]]) \in Nat
      BY SMTT(30), <1>4, <3>1 DEF TypeInv, TypeOK
    <3>3. Len(cached[file[h]]) <= Len(cached'[file[h]])
      BY <1>7, <3>1
    <3> QED
      BY <3>1, <3>2, <3>3
  <2>5. Published'
    BY <1>1, <1>2, <1>3, <2>2, <2>4 DEF CalmInv, Published
  <2>6. Descriptor'
    <3>1. toRead' /\ fd' # NoFile => \E h \in Handles : Reading(h)'
      BY <1>1, <1>2, <1>7 DEF CalmInv, Descriptor, Reading
    <3>2. ASSUME NEW h \in Handles
          PROVE  /\ Reading(h)' => fd' \in {NoFile, filename'}
                 /\ pc'[h] = "reread" /\ toRead' /\ fd' # NoFile =>
                      Len(cached'[fd']) <= offset'
      <4>1. Reading(h)' => Reading(h) /\ Copying(h)
        BY <1>2 DEF Reading, Copying, CopyPcs
      <4>2. Reading(h)' => fd' \in {NoFile, filename'}
        BY <1>1, <1>2, <1>7, <4>1 DEF CalmInv, Descriptor
      <4>3. ASSUME pc'[h] = "reread", toRead', fd' # NoFile
            PROVE  Len(cached'[fd']) <= offset'
        <5>1. pc[h] = "reread" /\ Copying(h) /\ offset' = offset
          BY <1>2, <4>3 DEF Copying, CopyPcs
        <5>2. toRead /\ fd' = fd /\ cached' = cached
          BY <1>7, <4>3, <5>1
        <5> QED
          BY <1>1, <4>3, <5>1, <5>2 DEF CalmInv, Descriptor
      <4> QED
        BY <4>2, <4>3
    <3>3. \A h \in Handles : Copying(h)' = Copying(h)
      BY <1>2 DEF Copying
    <3> QED
      BY <1>2, <1>7, <3>1, <3>2, <3>3 DEF Descriptor
  <2>7. Copied'
    <3> SUFFICES ASSUME NEW h \in Handles
                 PROVE  /\ got'[h] # "null"
                        /\ got'[h] = "wrong" => "connect" \in upset'
                        /\ got'[h] # "none" => pc'[h] \in {"close", "finish"}
                        /\ pc'[h] = "close" /\ got'[h] # "none" =>
                             pos'[h] + Want(h)' <= Len(cached'[file'[h]])
      BY DEF Copied
    <3>1. Want(h)' = Want(h)
      BY <1>2 DEF Want
    <3>2. ASSUME pc[h] = "close", got[h] # "none"
          PROVE  pos[h] + Want(h) <= Len(cached'[file[h]])
      <4>1. cached' = cached
        BY <1>7, <3>2 DEF Copying, CopyPcs
      <4> QED
        BY <1>1, <3>2, <4>1 DEF CalmInv, Copied
    <3> QED
      BY <1>0, <1>1, <1>2, <3>1, <3>2 DEF CalmInv, Copied
  <2> QED
    BY <1>7, <2>1, <2>5, <2>6, <2>7 DEF CalmInv
<1> HIDE DEF Kept
<1>8. CASE Wake
  <2>0. WakeOpen \/ (WakeBad /\ filename = NoFile)
    <3>1. ~(upset' = upset \cup {"torn"})
      BY DEF Calm
    <3>2. WakeBad => filename = NoFile
      BY <3>1 DEF WakeBad
    <3>3. WakeOpen \/ WakeBad
      BY <1>8 DEF Wake
    <3> QED
      BY <3>2, <3>3
  <2>1. Kept
    <3>1. UNCHANGED cached /\ at' = "first" /\ fd' \in {NoFile, filename}
      BY <1>8, <2>0 DEF Wake, WakeOpen, WakeBad
    <3>2. toRead' => toRead /\ fd' = NoFile
      BY <2>0 DEF WakeOpen, WakeBad
    <3> QED
      BY <1>6, <3>1, <3>2 DEF Kept
  <2>2. ASSUME filename # NoFile, Ahead'
        PROVE  Sound'
    <3>1. /\ fd' = filename
          /\ start' = Len(cached[filename])
          /\ cached' = cached
          /\ t'.pos = filepos
      BY <1>1, <1>8, <2>0, <2>2 DEF Wake, WakeOpen, TypeInv, TypeOK, Locals
    <3>2. filepos <= start'
      BY <2>2, <3>1 DEF Ahead
    <3>3. ASSUME NEW h \in Handles, pc[h] # "closed", Live(h)
          PROVE  pos[h] = filepos \/ pos[h] <= Len(cached[file[h]])
      <4>1. pc[h] = "idle" \/ pc[h] \in ReadPcs
        BY <1>1, <1>3, <3>3 DEF TypeInv, TypeOK, Pcs, CalmInv, Published
      <4>2. CASE pc[h] = "idle"
        BY SMTT(30), <1>1, <1>3, <3>3, <4>2 DEF CalmInv, Published, Live, ReadPcs, TypeInv,
           TypeOK
      <4> QED
        BY <1>1, <4>1, <4>2 DEF CalmInv, Published
    <3>4. \A h \in Handles : pc[h] # "closed" => file[h] = filename
      BY <1>1 DEF CalmInv, OneOpen
    <3>5. \A h \in Handles : pc[h] # "closed" /\ Live(h) => pos[h] <= start'
      BY <3>1, <3>2, <3>3, <3>4
    <3> QED
      BY <1>2, <1>5, <2>2, <3>1, <3>5, Names DEF Sound, Live
  <2>3. filename # NoFile => t'.size = filesize /\ at' = "first"
    BY <1>1, <1>8, <2>0 DEF Wake, WakeOpen, TypeInv, TypeOK, Locals
  <2>4. Fetching'
    BY <1>2, <2>2, <2>3 DEF Fetching, AtFetch
  <2> QED
    BY <1>7, <2>1, <2>4
<1>9. ASSUME UNCHANGED <<cached, start, toRead>>, fd' \in {fd, NoFile},
             at' # "write"
      PROVE  Kept /\ (Sound => Sound')
  <2>1. Kept
    BY <1>1, <1>6, <1>9 DEF Kept, CalmInv, OneOpen
  <2>2. Sound => Sound'
    BY <1>2, <1>9, Names DEF Sound, Live
  <2> QED
    BY <2>1, <2>2
<1>10. CASE First
  <2>1. Kept /\ (Sound => Sound')
    BY <1>9, <1>10 DEF First, diskVars, fdVars, globalVars
  <2>2. at' \in AtTest \cup AtFetch => at' = "prepare" /\ Room /\ t' = t
    BY <1>10 DEF First, AtTest, AtFetch
  <2>3. Room => Ahead
    BY DEF Room, Below, Ahead
  <2>4. Fetching'
    BY <1>1, <1>2, <1>10, <2>1, <2>2, <2>3
    DEF First, CalmInv, Fetching, AtTest, AtFetch, Ahead, globalVars
  <2> QED
    BY <1>7, <2>1, <2>4
<1>11. CASE Again
  <2>1. Kept /\ (Sound => Sound')
    BY <1>9, <1>11 DEF Again, diskVars, fdVars, globalVars
  <2>2. at' \in AtTest \cup AtFetch => at' = "prepare" /\ Room
    BY <1>11 DEF Again, AtTest, AtFetch
  <2>3. Room => Ahead
    BY DEF Room, Below, Ahead
  <2>4. Fetching'
    BY <1>1, <1>2, <1>11, <2>1, <2>2, <2>3
    DEF Again, CalmInv, Fetching, AtTest, AtFetch, Ahead, globalVars
  <2> QED
    BY <1>7, <2>1, <2>4
<1>12. CASE Prepare
  <2>1. Kept /\ (Sound => Sound')
    BY <1>9, <1>12 DEF Prepare, fdVars, globalVars
  <2>2. t'.pos = t.pos /\ t'.size = t.size /\ at' \in {"signal", "send"}
    BY <1>1, <1>12 DEF Prepare, TypeInv, TypeOK, Locals
  <2>3. Fetching'
    BY <1>1, <1>2, <1>12, <2>1, <2>2
    DEF Prepare, CalmInv, Fetching, AtTest, AtFetch, Ahead, globalVars
  <2> QED
    BY <1>7, <2>1, <2>3
<1>13. CASE Send
  <2>1. Kept /\ (Sound => Sound')
    BY <1>9, <1>13 DEF Send, diskVars, fdVars, globalVars
  <2>2. asked'.file = request /\ asked'.from = start /\ at' = "append" /\ t' = t
    BY <1>13 DEF Send
  <2>3. filename # NoFile => request = filename
    BY <1>1, <1>3, Requested
  <2>4. Fetching'
    BY <1>1, <1>2, <1>13, <2>1, <2>2, <2>3
    DEF Send, CalmInv, Fetching, AtTest, AtFetch, Ahead, globalVars
  <2> QED
    BY <1>7, <2>1, <2>4
<1>14. ASSUME at = "append", NEW p \in Packets, Enter(p), UNCHANGED cached,
              at' = "write" =>
                /\ \A h \in Handles : ~Copying(h)
                /\ \/ "connect" \in upset'
                   \/ packet'.file = filename /\ packet'.from = start
       PROVE  CalmInv'
  <2>1. /\ fd' \in {NoFile, filename}
        /\ filename # NoFile => start' = start
        /\ toRead' => toRead /\ fd' \in {fd, NoFile}
        /\ at' \in {"signal", "write"}
        /\ at' = "write" => /\ mutex' = "taken" /\ filename # NoFile
                            /\ fd' = filename /\ ~toRead'
        /\ t'.pos = t.pos /\ t'.size = t.size
    BY <1>1, <1>14, EnterCalm
  <2>2. Kept
    BY <1>6, <1>14, <2>1 DEF Kept
  <2>3. ASSUME filename # NoFile
        PROVE  Ahead' /\ Sound' /\ t'.size = filesize
    <3>1. Ahead /\ Sound /\ t.size = filesize
      BY <1>1, <1>14, <2>3 DEF CalmInv, Fetching, AtFetch
    <3>2. Sound'
      BY <1>2, <1>5, <1>14, <2>1, <2>3, <3>1, Names DEF Sound, Live
    <3> QED
      BY <2>1, <2>3, <3>1, <3>2 DEF Ahead
  <2>4. Fetching'
    BY <1>2, <1>14, <2>1, <2>3 DEF Fetching, AtTest, AtFetch
  <2> QED
    BY <1>7, <2>2, <2>4
<1>15. CASE Fetched
  <2>1. (asked.file = filename /\ asked.from = start) \/ filename = NoFile
    BY <1>1, <1>15 DEF Fetched, CalmInv, Fetching
  <2>2. asked \in Packets
    BY <1>1 DEF TypeInv, TypeOK
  <2>3. at = "append" /\ Enter(asked) /\ packet' = asked /\ UNCHANGED cached
    BY <1>15 DEF Fetched
  <2>4. ASSUME at' = "write"
        PROVE  (\A h \in Handles : ~Copying(h)) /\ filename # NoFile
    <3>1. \A h \in Handles : ~Copying(h)
      BY <1>15, <2>4 DEF Fetched, Torn, Calm
    <3> QED
      BY <1>1, <2>2, <2>3, <2>4, <3>1, EnterCalm
  <2> QED
    BY <1>14, <2>1, <2>2, <2>3, <2>4
<1>16. CASE BadAnswer
  <2>1. Kept /\ (Sound => Sound')
    BY <1>9, <1>16 DEF BadAnswer, diskVars, fdVars, globalVars
  <2>2. t'.pos = t.pos /\ t'.size = t.size
    BY <1>1, <1>16 DEF BadAnswer, TypeInv, TypeOK, Locals
  <2>3. Fetching'
    BY <1>1, <1>2, <1>16, <2>1, <2>2
    DEF BadAnswer, CalmInv, Fetching, AtTest, AtFetch, Ahead, globalVars
  <2> QED
    BY <1>7, <2>1, <2>3
<1>17. CASE NoConnection
  <2>1. at = "append" /\ UNCHANGED cached /\ "connect" \in upset'
    BY <1>17 DEF NoConnection
  <2>2. CASE Enter(packet)
    <3>1. packet \in Packets
      BY <1>1 DEF TypeInv, TypeOK
    <3>2. at' = "write" => \A h \in Handles : ~Copying(h)
      BY <1>17 DEF NoConnection, Torn, Calm
    <3> QED
      BY <1>14, <2>1, <2>2, <3>1, <3>2
  <2>3. CASE /\ t' = [t EXCEPT !.over = TRUE] /\ at' = "signal"
             /\ UNCHANGED <<errors, present, fd, toRead, mutex, start>>
    <3>1. Kept /\ (Sound => Sound')
      BY <1>9, <2>1, <2>3
    <3>2. t'.pos = t.pos /\ t'.size = t.size
      BY <1>1, <2>3 DEF TypeInv, TypeOK, Locals
    <3>3. Fetching'
      BY <1>1, <1>2, <2>1, <2>3, <3>1, <3>2
      DEF CalmInv, Fetching, AtTest, AtFetch, Ahead
    <3> QED
      BY <1>7, <3>1, <3>3
  <2> QED
    BY <1>17, <2>2, <2>3 DEF NoConnection
<1>17a. CASE Write
  <2>1. /\ filename # NoFile /\ fd = filename /\ ~toRead
        /\ \A h \in Handles : ~Copying(h)
        /\ start' = Len(cached'[filename]) /\ start <= start'
        /\ \A f \in Files : Len(cached[f]) <= Len(cached'[f])
        /\ NoNulls'
        /\ packet.file = filename /\ packet.from = start =>
             \A f \in Files : IsPrefix(f) => IsPrefix(f)'
    BY <1>1, <1>17a, WriteCalm
  <2>2. /\ at = "write" /\ at' = "signal" /\ upset' = upset
        /\ UNCHANGED <<fd, toRead, t>>
    BY <1>17a DEF Write, fdVars
  <2>3. AllPrefixes'
    BY <1>1, <2>1, <2>2 DEF CalmInv, AllPrefixes, Fetching
  <2>4. Kept
    BY <2>1, <2>2, <2>3 DEF Kept
  <2>5. Sound /\ t.size = filesize
    BY <1>1, <2>1, <2>2 DEF CalmInv, Fetching, AtFetch
  <2>6. Sound'
    <3>1. start \in Nat /\ start' \in Nat /\ \A h \in Handles : pos[h] \in Nat
      BY <1>1 DEF TypeInv, TypeOK
    <3>2. \A h \in Handles : pc[h] # "closed" /\ Live(h) => pos[h] <= start'
      BY <2>1, <2>5, <3>1 DEF Sound
    <3> QED
      BY <1>2, <2>1, <2>2, <2>5, <3>2 DEF Sound, Live
  <2>7. Fetching'
    BY <1>2, <2>2, <2>5, <2>6 DEF Fetching, AtFetch
  <2> QED
    BY <1>7, <2>4, <2>7
<1>18. CASE Signal
  <2>1. Kept /\ (Sound => Sound')
    BY <1>9, <1>18 DEF Signal, diskVars, fdVars, globalVars
  <2>2. at' \in AtTest \cup AtFetch => at = "signal" /\ at' = "again"
    BY <1>18 DEF Signal, AtTest, AtFetch
  <2>3. Fetching'
    BY <1>1, <1>2, <1>18, <2>1, <2>2
    DEF Signal, CalmInv, Fetching, AtTest, AtFetch, Ahead, globalVars
  <2> QED
    BY <1>7, <2>1, <2>3
<1>19. CASE Exit
  <2>1. Kept
    BY <1>9, <1>19 DEF Exit, fdVars, globalVars
  <2>2. Fetching'
    BY <1>19 DEF Exit, Fetching, AtTest, AtFetch
  <2> QED
    BY <1>7, <2>1, <2>2
<1> QED
  BY <1>8, <1>10, <1>11, <1>12, <1>13, <1>15, <1>16, <1>17, <1>17a, <1>18, <1>19
  DEF CacheThread

LEMMA ReaderCalm ==
  ASSUME Inv, TypeInv', NEW h \in Handles, Reader(h), Calm'
  PROVE  CalmInv'
<1>0. upset \subseteq upset'
  BY DEF Reader, Open, Seek, Close, Read, ReadSteps, SetVal, WaitZero, Look, Wait,
     NoData, OpenCache, ReadCache, ReadAgain, CloseCache, Finish
<1>1. Calm /\ CalmInv /\ TypeInv
  BY <1>0 DEF Inv, Calm
<1>2. /\ \A f \in Files : cached[f] \in Seq(Unit) /\ Len(cached[f]) \in Nat
      /\ start \in Nat /\ filepos \in Nat /\ filesize \in Nat
      /\ \A g \in Handles : pos[g] \in Nat /\ left[g] \in Nat
  <2>1. TypeOK
    BY <1>1 DEF TypeInv
  <2>2. \A f \in Files : cached[f] \in Seq(Unit)
    BY <2>1 DEF TypeOK
  <2> QED
    BY <2>1, <2>2 DEF TypeOK
<1>3. UNCHANGED threadVars
  BY DEF Reader, Open, Seek, Close, Read, ReadSteps, SetVal, WaitZero, Look, Wait,
     NoData, OpenCache, ReadCache, ReadAgain, CloseCache, Finish
\* The steps that are not the first: h is the one that is open.
<1>4. ASSUME pc[h] # "closed"
      PROVE  /\ \A g \in Handles : g # h => pc[g] = "closed"
             /\ file[h] \in Files
             /\ filename = file[h] /\ filesize = Size[file[h]]
             /\ filename # NoFile
             /\ fd \in {NoFile, filename, Unlinked}
  BY <1>1, <1>4, Names DEF CalmInv, OneOpen, TypeInv, Counted
<1>5. ASSUME UNCHANGED cached
      PROVE  NoNulls' /\ AllPrefixes'
  BY <1>0, <1>1, <1>5 DEF CalmInv, NoNulls, AllPrefixes, IsPrefix
<1>5a. ASSUME NEW f, cached' = [cached EXCEPT ![f] = <<>>]
       PROVE  NoNulls' /\ AllPrefixes'
  <2>1. \A g \in Files : cached'[g] = cached[g] \/ cached'[g] = <<>>
    BY <1>1, <1>5a DEF TypeInv, TypeOK
  <2>2. \A g \in Files : cached'[g] = <<>> => 1 .. Len(cached'[g]) = {}
    OBVIOUS
  <2> QED
    BY <1>0, <1>1, <1>5a, <2>1, <2>2 DEF CalmInv, NoNulls, AllPrefixes, IsPrefix
\* A step of h that is not one of its copy: nobody reads the cache.
<1>5b. ASSUME \A g \in Handles : g # h => pc[g] = "closed" /\ pc'[g] = "closed",
              ~Reading(h), ~Reading(h)',
              UNCHANGED toRead, fd' # NoFile => fd # NoFile,
              at = "write" => UNCHANGED <<mutex, fd, filename>> /\ ~Copying(h)',
              \/ got' = got /\ pc[h] \notin {"close", "finish"}
              \/ got' = [got EXCEPT ![h] = "none"]
       PROVE  Descriptor' /\ Copied'
  <2>1. \A g \in Handles : ~Reading(g) /\ ~Reading(g)'
    BY <1>5b DEF Reading
  <2>2. ~(toRead' /\ fd' # NoFile)
    BY <1>1, <1>5b, <2>1 DEF CalmInv, Descriptor
  <2>3. ASSUME at' = "write"
        PROVE  /\ mutex' = "taken" /\ filename' # NoFile /\ fd' = filename'
               /\ ~toRead' /\ \A g \in Handles : ~Copying(g)'
    <3>1. at = "write"
      BY <1>3, <2>3 DEF threadVars
    <3>2. \A g \in Handles : g # h => ~Copying(g)'
      BY <1>5b DEF Copying, CopyPcs
    <3> QED
      BY <1>1, <1>5b, <3>1, <3>2 DEF CalmInv, Descriptor
  <2>4. \A g \in Handles : got'[g] = "none"
    <3>1. \A g \in Handles : g # h => got[g] = "none"
      BY <1>1, <1>5b DEF CalmInv, Copied
    <3>2. pc[h] \notin {"close", "finish"} => got[h] = "none"
      BY <1>1 DEF CalmInv, Copied
    <3> QED
      BY <1>1, <1>5b, <3>1, <3>2 DEF TypeInv, TypeOK
  <2>5. \A g \in Handles : ~(pc'[g] = "reread" /\ toRead' /\ fd' # NoFile)
    BY <2>2
  <2>6. Descriptor'
    BY <2>1, <2>2, <2>3, <2>5 DEF Descriptor
  <2>7. Copied'
    BY <2>4 DEF Copied
  <2> QED
    BY <2>6, <2>7
\* It goes on: what is left to show is what concerns h and the cache.
<1>6. ASSUME pc[h] # "closed",
             UNCHANGED <<filename, filesize, file>>,
             NEW l \in Pcs \ {"closed", "opened"}, pc' = [pc EXCEPT ![h] = l],
             fd' \in {fd, NoFile, Unlinked, filename},
             l \in ReadPcs => request' = file[h],
             l \in ReadPcs \ {"finish"} => filepos' = pos'[h],
             l \in {"nodata", "finish"} \cup CopyPcs => filepos' < filesize,
             l = "finish" => \/ pos'[h] = filepos'
                             \/ pos'[h] <= Len(cached'[file[h]]),
             l = "idle" /\ (at # "wait" \/ sem' > 0) =>
               /\ request' = file[h]
               /\ \/ left'[h] = 0
                  \/ pos'[h] = filepos'
                  \/ pos'[h] <= Len(cached'[file[h]])
      PROVE  OneOpen' /\ Published'
  <2>1. /\ \A g \in Handles : g # h => pc'[g] = "closed"
        /\ pc'[h] = l
    BY <1>1, <1>4, <1>6 DEF TypeInv, TypeOK
  <2>2. OneOpen'
    BY <1>4, <1>6, <2>1 DEF OneOpen
  <2>3. at' = at
    BY <1>3 DEF threadVars
  <2>4. Published'
    BY <1>6, <2>1, <2>3 DEF Published, ReadPcs, CopyPcs
  <2> QED
    BY <2>2, <2>4
<1>7. ASSUME pc[h] # "closed", UNCHANGED <<filename, filesize, cached, start>>,
             fd' \in {fd, NoFile, filename},
             \A g \in Handles : g # h => pc'[g] = pc[g],
             pc'[h] # "closed" /\ Live(h)' => Live(h),
             pos' = pos
      PROVE  Fetching'
  <2>1. Sound => Sound'
    BY <1>4, <1>7, Names DEF Sound, Live
  <2> QED
    BY <1>0, <1>1, <1>3, <1>7, <2>1
    DEF CalmInv, Fetching, AtTest, AtFetch, Ahead, threadVars
<1>8. CASE Open(h)
  <2>1. /\ \A g \in Handles : pc[g] = "closed"
        /\ at = "wait" /\ sem = 0
    <3>1. "overlap" \notin upset' /\ "late" \notin upset'
      BY DEF Calm
    <3> QED
      BY SMTT(30), <1>1, <1>8, <3>1 DEF Open, TypeInv, TypeOK
  <2>2. filename = NoFile /\ fd = NoFile
    BY <1>1, <2>1 DEF CalmInv, OneOpen
  <2>3. UNCHANGED diskVars
    BY <1>1, <1>8, <2>2, Names DEF Open, Retire, TypeInv, TypeOK
  <2>4. PICK f \in Files :
          /\ file' = [file EXCEPT ![h] = f]
          /\ filename' = f
          /\ filesize' = Size[f]
    BY <1>8 DEF Open
  <2>5. /\ \A g \in Handles : g # h => pc'[g] = "closed"
        /\ pc'[h] = "opened"
        /\ file'[h] = f
        /\ at' = "wait" /\ sem' = 0
        /\ fd' = NoFile
    BY <1>1, <1>8, <2>1, <2>2, <2>3, <2>4
    DEF Open, Goto, TypeInv, TypeOK, semVars, threadVars, diskVars
  <2>6. OneOpen'
    BY <2>4, <2>5, Names DEF OneOpen
  <2>7. Published'
    BY <2>5 DEF Published, ReadPcs, CopyPcs
  <2>8. Fetching'
    BY <2>5 DEF Fetching, AtTest, AtFetch
  <2>9. NoNulls' /\ AllPrefixes'
    BY <1>5, <2>3 DEF diskVars
  <2>10. Descriptor' /\ Copied'
    BY <1>5b, <1>8, <2>1, <2>5 DEF Open, Reading, fdVars, copyVars
  <2> QED
    BY <2>6, <2>7, <2>8, <2>9, <2>10 DEF CalmInv
<1>9. CASE Seek(h)
  <2>1. at = "wait" /\ sem = 0 /\ at' = at /\ sem' = sem
    BY <1>1, <1>9 DEF Seek, CalmInv, Published, semVars, threadVars
  <2>2. OneOpen' /\ Published'
    <3>1. /\ pc[h] # "closed"
          /\ UNCHANGED <<filename, filesize, file, fd>>
          /\ pc' = [pc EXCEPT ![h] = "idle"]
      BY <1>9 DEF Seek, Goto, globalVars, diskVars
    <3>2. ~(at # "wait" \/ sem' > 0)
      BY <2>1
    <3> QED
      BY <1>6, <3>1, <3>2 DEF Pcs, ReadPcs, CopyPcs
  <2>3. Fetching'
    BY <2>1 DEF Fetching, AtTest, AtFetch
  <2>4. NoNulls' /\ AllPrefixes'
    BY <1>5, <1>9 DEF Seek, diskVars
  <2>5. Descriptor' /\ Copied'
    <3>1. /\ pc[h] = "opened" /\ pc' = [pc EXCEPT ![h] = "idle"]
          /\ UNCHANGED <<fd, toRead, got>>
      BY <1>9 DEF Seek, Goto, fdVars, copyVars, diskVars
    <3>2. /\ \A g \in Handles : g # h => pc[g] = "closed" /\ pc'[g] = "closed"
          /\ pc'[h] = "idle"
      BY <1>1, <1>4, <3>1 DEF TypeInv, TypeOK
    <3> QED
      BY <1>5b, <2>1, <3>1, <3>2 DEF Reading
  <2> QED
    BY <2>2, <2>3, <2>4, <2>5 DEF CalmInv
<1>10. CASE Close(h)
  <2>1. \A g \in Handles : pc'[g] = "closed"
    BY <1>1, <1>4, <1>10 DEF Close, Goto, TypeInv, TypeOK
  <2>2. filename' = NoFile /\ fd' = NoFile
    BY <1>10 DEF Close
  <2>3. NoNulls' /\ AllPrefixes'
    BY <1>5, <1>10 DEF Close
  <2>4. Descriptor' /\ Copied'
    <3>1. /\ pc[h] \in {"opened", "idle"} /\ mutex = "free"
          /\ UNCHANGED <<toRead, got>>
      BY <1>10 DEF Close, fdVars, copyVars
    <3>2. at # "write"
      BY <1>1, <3>1 DEF CalmInv, Descriptor
    <3> QED
      BY <1>4, <1>5b, <2>1, <2>2, <3>1, <3>2 DEF Reading
  <2> QED
    BY <2>1, <2>2, <2>3, <2>4
    DEF CalmInv, OneOpen, Published, Fetching, ReadPcs, CopyPcs
<1>11. CASE Read(h)
  <2>1. pc[h] \in {"opened", "idle"} /\ left[h] > 0 /\ Live(h)
    BY <1>11 DEF Read, Live
  <2>2. /\ filepos' = pos[h] /\ request' = file[h]
        /\ UNCHANGED <<filename, filesize, file, pos, left, cached>>
    BY <1>4, <1>11, <2>1 DEF Read
  <2>2a. Descriptor' /\ Copied'
    <3>1. /\ mutex = "free" /\ UNCHANGED <<toRead, got>>
          /\ pc' = [pc EXCEPT ![h] = "setval"] \/ pc' = [pc EXCEPT ![h] = "loop"]
          /\ fd' \in {fd, NoFile}
      BY <1>11 DEF Read, Goto, fdVars, copyVars
    <3>2. at # "write"
      BY <1>1, <3>1 DEF CalmInv, Descriptor
    <3>3. /\ \A g \in Handles : g # h => pc[g] = "closed" /\ pc'[g] = "closed"
          /\ pc'[h] \in {"setval", "loop"}
      BY <1>1, <1>4, <2>1, <3>1 DEF TypeInv, TypeOK
    <3> QED
      BY <1>5b, <2>1, <3>1, <3>2, <3>3 DEF Reading
  <2>3. CASE pos[h] = 0
    <3>1. /\ start' = Len(cached[filename])
          /\ fd' = NoFile
          /\ pc' = [pc EXCEPT ![h] = "setval"]
      BY <1>4, <1>11, <2>1, <2>3 DEF Read, Goto
    <3>2. OneOpen' /\ Published'
      BY <1>6, <2>1, <2>2, <3>1 DEF Pcs, ReadPcs, CopyPcs
    <3>3. Sound'
      <4>1. \A g \in Handles : pc'[g] # "closed" => g = h
        BY <1>1, <1>4, <2>1, <3>1 DEF TypeInv, TypeOK
      <4>2. pos'[h] <= start'
        BY <1>2, <1>4, <2>1, <2>2, <2>3, <3>1
      <4> QED
        BY <2>2, <3>1, <4>1, <4>2, Names DEF Sound
    <3>4. Sound => start' = start
      BY <3>1 DEF Sound
    <3>5. Fetching'
      BY <1>0, <1>1, <1>3, <1>4, <2>1, <2>2, <3>3, <3>4
      DEF CalmInv, Fetching, AtTest, AtFetch, Ahead, threadVars
    <3>6. NoNulls' /\ AllPrefixes'
      BY <1>5, <1>11 DEF Read
    <3> QED
      BY <2>2a, <3>2, <3>5, <3>6 DEF CalmInv
  <2>4. CASE pos[h] # 0
    <3>1. pc' = [pc EXCEPT ![h] = "loop"] /\ UNCHANGED <<start, fd>>
      BY <1>11, <2>4 DEF Read, Goto
    <3>2. OneOpen' /\ Published'
      BY <1>6, <2>1, <2>2, <3>1 DEF Pcs, ReadPcs, CopyPcs
    <3>3. Fetching'
      BY <1>1, <1>7, <2>1, <2>2, <3>1 DEF TypeInv, TypeOK
    <3>4. NoNulls' /\ AllPrefixes'
      BY <1>5, <1>11 DEF Read
    <3> QED
      BY <2>2a, <3>2, <3>3, <3>4 DEF CalmInv
  <2> QED
    BY <2>3, <2>4
\* The steps of bunny_read2 before its copy.
<1>12. ASSUME pc[h] \in {"setval", "zero", "loop", "wait", "nodata"},
              NEW l \in {"zero", "loop", "wait", "nodata", "open"},
              pc' = [pc EXCEPT ![h] = l],
              l \in {"nodata", "open"} => filepos < filesize,
              UNCHANGED <<diskVars, fdVars, globalVars, got, file, pos, left>>,
              at = "write" => l # "open" /\ mutex' = mutex
       PROVE  CalmInv'
  <2>1. pc[h] # "closed" /\ request = file[h] /\ filepos = pos[h]
    BY <1>1, <1>12 DEF CalmInv, Published, ReadPcs, CopyPcs
  <2>2. OneOpen' /\ Published'
    BY <1>6, <1>12, <2>1 DEF Pcs, ReadPcs, CopyPcs, diskVars, globalVars
  <2>3. Live(h)
    BY <1>12 DEF Live, ReadPcs
  <2>4. Fetching'
    BY <1>1, <1>7, <1>12, <2>1, <2>3 DEF TypeInv, TypeOK, diskVars, globalVars
  <2>5. NoNulls' /\ AllPrefixes'
    BY <1>5, <1>12 DEF diskVars
  <2>6. Descriptor' /\ Copied'
    <3>1. /\ \A g \in Handles : g # h => pc[g] = "closed" /\ pc'[g] = "closed"
          /\ pc'[h] = l
      BY <1>1, <1>4, <1>12, <2>1 DEF TypeInv, TypeOK
    <3> QED
      BY <1>5b, <1>12, <3>1
      DEF Reading, Copying, CopyPcs, diskVars, fdVars, globalVars
  <2> QED
    BY <2>2, <2>4, <2>5, <2>6 DEF CalmInv
<1>13. CASE SetVal(h)
  BY <1>12, <1>13 DEF SetVal, Goto, copyVars
<1>14. CASE WaitZero(h)
  BY <1>12, <1>14 DEF WaitZero, Goto, copyVars
<1>15. CASE Look(h)
  <2>1. /\ pc[h] = "loop" /\ pc[h] # "closed" /\ pc[h] \in ReadPcs \ {"finish"}
        /\ request = file[h] /\ filepos = pos[h]
        /\ UNCHANGED <<diskVars, fdVars, globalVars, got, file, pos>>
        /\ at # "write"
    BY <1>1, <1>15 DEF Look, CalmInv, Published, Descriptor, ReadPcs, copyVars
  <2>2. CASE pc' = [pc EXCEPT ![h] = "idle"] /\ left' = [left EXCEPT ![h] = 0]
    <3>1. left'[h] = 0
      BY <1>1, <2>2 DEF TypeInv, TypeOK
    <3>2. OneOpen' /\ Published'
      BY <1>6, <2>1, <2>2, <3>1 DEF Pcs, ReadPcs, CopyPcs, diskVars, globalVars
    <3>3. Live(h)
      BY <2>1 DEF Live
    <3>4. Fetching'
      BY <1>1, <1>7, <2>1, <2>2, <3>3 DEF TypeInv, TypeOK, diskVars, globalVars
    <3>5. NoNulls' /\ AllPrefixes'
      BY <1>5, <2>1 DEF diskVars
    <3>6. Descriptor' /\ Copied'
      <4>1. /\ \A g \in Handles : g # h => pc[g] = "closed" /\ pc'[g] = "closed"
            /\ pc'[h] = "idle"
        BY <1>1, <1>4, <2>1, <2>2 DEF TypeInv, TypeOK
      <4> QED
        BY <1>5b, <2>1, <4>1 DEF Reading, diskVars, fdVars
    <3> QED
      BY <3>2, <3>4, <3>5, <3>6 DEF CalmInv
  <2>3. CASE /\ left' = left
             /\ \/ pc' = [pc EXCEPT ![h] = "wait"]
                \/ pc' = [pc EXCEPT ![h] = "nodata"] /\ filepos < filesize
                \/ pc' = [pc EXCEPT ![h] = "open"] /\ filepos < filesize
    BY <1>12, <2>1, <2>3
  <2> QED
    BY <1>15, <2>2, <2>3 DEF Look, Goto
<1>16. CASE Wait(h)
  BY <1>12, <1>16 DEF Wait, Goto, copyVars
<1>17. CASE NoData(h)
  <2>1. filepos < filesize
    BY <1>1, <1>17 DEF NoData, CalmInv, Published
  <2>2. at # "write"
    BY <1>17 DEF NoData, Calm
  <2> QED
    BY <1>12, <1>17, <2>1, <2>2 DEF NoData, Goto, copyVars
\* The steps of its copy: the cache thread does not write, and the file that is
\* open, if any, is the one that is played.
<1>18. ASSUME Copying(h)
       PROVE  /\ filepos < filesize /\ pc[h] # "closed" /\ Live(h)
              /\ request = file[h] /\ filepos = pos[h]
              /\ at # "write" /\ at' # "write"
              /\ filename = file[h] /\ filename \in Files /\ filename # Unlinked
              /\ Want(h) \in Nat /\ Want(h) > 0
              /\ \A g \in Handles : g # h => pc[g] = "closed" /\ got[g] = "none"
              /\ pc[h] # "close" => got[h] = "none"
  <2>1. pc[h] # "closed" /\ pc[h] \in ReadPcs \ {"finish"}
    BY <1>18 DEF Copying, CopyPcs, ReadPcs
  <2>2. filepos < filesize /\ request = file[h] /\ filepos = pos[h]
    BY <1>1, <1>18, <2>1 DEF CalmInv, Published, Copying
  <2>3. at # "write" /\ at' # "write"
    BY <1>1, <1>3, <1>18 DEF CalmInv, Descriptor, threadVars
  <2>4. left[h] > 0
    BY <1>1, <2>1 DEF TypeInv, Counted
  <2>5. Want(h) \in Nat /\ Want(h) > 0
    BY <1>1, <2>4, WantTyped DEF TypeInv
  <2>6. \A g \in Handles : g # h => pc[g] = "closed" /\ got[g] = "none"
    BY <1>1, <1>4, <2>1 DEF CalmInv, Copied
  <2>7. pc[h] # "close" => got[h] = "none"
    BY <1>1, <2>1 DEF CalmInv, Copied
  <2> QED
    BY <1>4, <2>1, <2>2, <2>3, <2>4, <2>5, <2>6, <2>7, Names DEF Live
<1>18a. ASSUME Copying(h), NEW l \in CopyPcs \cup {"finish"}, pc' = [pc EXCEPT ![h] = l]
        PROVE  /\ pc'[h] = l
               /\ \A g \in Handles : g # h => pc'[g] = "closed" /\ ~Reading(g)'
  <2>1. pc'[h] = l /\ \A g \in Handles : g # h => pc'[g] = "closed"
    BY <1>1, <1>18, <1>18a DEF TypeInv, TypeOK
  <2> QED
    BY <2>1 DEF Reading
\* A step of the copy that leaves the cache alone.
<1>18b. ASSUME Copying(h), NEW l \in CopyPcs \cup {"finish"}, pc' = [pc EXCEPT ![h] = l],
               UNCHANGED <<cached, pos, globalVars, file, left>>,
               fd' \in {fd, NoFile, filename}
        PROVE  OneOpen' /\ Published' /\ Fetching' /\ NoNulls' /\ AllPrefixes'
  <2>1. OneOpen' /\ Published'
    BY <1>6, <1>18, <1>18b DEF Pcs, ReadPcs, CopyPcs, globalVars
  <2>2. Fetching'
    BY <1>1, <1>7, <1>18, <1>18b DEF TypeInv, TypeOK, globalVars
  <2> QED
    BY <1>5, <1>18b, <2>1, <2>2
<1>18c. CASE OpenCache(h)
  <2>1. /\ Copying(h) /\ pc[h] = "open"
        /\ UNCHANGED <<globalVars, file, pos, left, got>>
    BY <1>18c DEF OpenCache, Copying, CopyPcs
  <2>2. CASE /\ fd' = filename /\ offset' = 0
             /\ pc' = [pc EXCEPT ![h] = "read"]
             /\ UNCHANGED <<present, cached, mutex>>
    <3>1. OneOpen' /\ Published' /\ Fetching' /\ NoNulls' /\ AllPrefixes'
      BY <1>18b, <2>1, <2>2 DEF CopyPcs
    <3>2. pc'[h] = "read" /\ \A g \in Handles : g # h => pc'[g] = "closed" /\ ~Reading(g)'
      BY <1>18a, <2>1, <2>2 DEF CopyPcs
    <3>3. Descriptor'
      BY <1>18, <2>1, <2>2, <3>2 DEF Descriptor, Reading, globalVars
    <3>4. Copied'
      BY <1>18, <2>1, <3>2 DEF Copied
    <3> QED
      BY <3>1, <3>3, <3>4 DEF CalmInv
  <2>3. CASE pc' = [pc EXCEPT ![h] = "finish"] /\ fd' = NoFile
    <3>1. pc'[h] = "finish" /\ \A g \in Handles : g # h => pc'[g] = "closed" /\ ~Reading(g)'
      BY <1>18a, <2>1, <2>3
    <3>2. Descriptor'
      BY <1>18, <2>1, <2>3, <3>1 DEF Descriptor, Reading
    <3>3. Copied'
      BY <1>18, <2>1, <3>1 DEF Copied
    <3>4. CASE UNCHANGED cached
      <4>1. OneOpen' /\ Published' /\ Fetching' /\ NoNulls' /\ AllPrefixes'
        BY <1>18b, <2>1, <2>3, <3>4
      <4> QED
        BY <3>2, <3>3, <4>1 DEF CalmInv
    <3>5. CASE pos[h] > Len(cached[filename]) /\ cached' = [cached EXCEPT ![filename] = <<>>]
      <4>1. ~Sound
        BY <1>2, <1>18, <2>1, <3>5 DEF Sound
      <4>2. Fetching'
        BY <1>0, <1>1, <1>3, <1>4, <1>18, <2>1, <4>1
        DEF CalmInv, Fetching, AtTest, AtFetch, Ahead, threadVars, globalVars
      <4>3. OneOpen' /\ Published'
        BY <1>6, <1>18, <2>1, <2>3 DEF Pcs, ReadPcs, CopyPcs, globalVars
      <4>4. NoNulls' /\ AllPrefixes'
        BY <1>5a, <3>5
      <4> QED
        BY <3>2, <3>3, <4>2, <4>3, <4>4 DEF CalmInv
    <3> QED
      BY <1>18c, <2>1, <2>3, <3>4, <3>5 DEF OpenCache, Goto, CopyPcs
  <2> QED
    BY <1>18c, <2>2, <2>3 DEF OpenCache, Goto
<1>18d. CASE ReadCache(h)
  <2>1. /\ Copying(h) /\ pc[h] = "read" /\ Reading(h)
        /\ UNCHANGED <<diskVars, toRead, globalVars, file, pos, left>>
    BY <1>18d DEF ReadCache, Copying, CopyPcs, Reading
  <2>2. PICK l \in {"close", "reread"} : pc' = [pc EXCEPT ![h] = l]
    BY <1>18d DEF ReadCache, Goto
  <2>3. OneOpen' /\ Published' /\ Fetching' /\ NoNulls' /\ AllPrefixes'
    BY <1>18b, <2>1, <2>2 DEF CopyPcs, diskVars
  <2>4. pc'[h] = l /\ \A g \in Handles : g # h => pc'[g] = "closed" /\ ~Reading(g)'
    BY <1>18a, <2>1, <2>2 DEF CopyPcs
  <2>5. fd \in {NoFile, filename} /\ (fd # NoFile => FdLen = Len(cached[filename]))
    BY <1>1, <1>18, <2>1 DEF CalmInv, Descriptor, FdLen
  <2>6. Descriptor'
    <3>1. ASSUME l = "reread", toRead, fd # NoFile
          PROVE  Len(cached[fd]) <= offset'
      <4>1. offset' = IF pos[h] < FdLen THEN FdLen ELSE pos[h]
        BY <1>1, <1>18d, <2>1, <2>2, <2>4, <3>1 DEF ReadCache, Goto, TypeInv, TypeOK
      <4> QED
        BY <1>2, <1>18, <2>5, <3>1, <4>1
    <3>2. Reading(h)'
      BY <2>4 DEF Reading
    <3> QED
      BY <1>18, <2>1, <2>4, <2>5, <3>1, <3>2 DEF Descriptor, diskVars, globalVars, Reading
  <2>7. Copied'
    <3>1. CASE got' = got
      BY <1>18, <2>1, <2>4, <3>1 DEF Copied
    <3>2. CASE /\ l = "close" /\ fd # NoFile /\ pos[h] + Want(h) <= FdLen
               /\ got' = [got EXCEPT ![h] = Buffered(h, pos[h])]
      <4>1. fd = filename /\ pos[h] + Want(h) <= Len(cached[filename])
        BY <2>5, <3>2
      <4>2. \A i \in pos[h] + 1 .. pos[h] + Want(h) : i \in 1 .. Len(cached[filename])
        BY <1>2, <1>18, <2>1, <4>1
      <4>3. pos[h] + 1 \in pos[h] + 1 .. pos[h] + Want(h)
        BY <1>2, <1>18, <2>1
      <4>4. Buffered(h, pos[h]) # "null"
        BY <1>1, <1>18, <2>1, <4>1, <4>2, <4>3 DEF Buffered, CalmInv, NoNulls
      <4>5. Buffered(h, pos[h]) = "wrong" => "connect" \in upset'
        BY <1>0, <1>1, <1>18, <2>1, <4>1, <4>2
        DEF Buffered, CalmInv, AllPrefixes, IsPrefix
      <4>6. /\ got'[h] = Buffered(h, pos[h])
            /\ \A g \in Handles : g # h => got'[g] = "none"
        BY <1>1, <1>18, <2>1, <3>2 DEF TypeInv, TypeOK
      <4>7. Want(h)' = Want(h)
        BY <2>1 DEF Want
      <4> QED
        BY <1>18, <2>1, <2>4, <3>2, <4>1, <4>4, <4>5, <4>6, <4>7 DEF Copied, diskVars
    <3> QED
      BY <1>1, <1>18d, <2>2, <2>4, <3>1, <3>2 DEF ReadCache, Goto, TypeInv, TypeOK
  <2> QED
    BY <2>3, <2>6, <2>7 DEF CalmInv
<1>18e. CASE ReadAgain(h)
  <2>1. /\ Copying(h) /\ pc[h] = "reread" /\ Reading(h)
        /\ UNCHANGED <<diskVars, toRead, globalVars, file, pos, left>>
        /\ pc' = [pc EXCEPT ![h] = "close"]
    BY <1>18e DEF ReadAgain, Goto, Copying, CopyPcs, Reading
  <2>2. OneOpen' /\ Published' /\ Fetching' /\ NoNulls' /\ AllPrefixes'
    BY <1>18b, <2>1 DEF CopyPcs, diskVars
  <2>3. pc'[h] = "close" /\ \A g \in Handles : g # h => pc'[g] = "closed" /\ ~Reading(g)'
    BY <1>18a, <2>1 DEF CopyPcs
  <2>4. fd \in {NoFile, filename} /\ (fd # NoFile => FdLen = Len(cached[filename]))
    BY <1>1, <1>18, <2>1 DEF CalmInv, Descriptor, FdLen
  <2>5. Descriptor'
    BY <1>18, <2>1, <2>3, <2>4 DEF Descriptor, diskVars, globalVars, Reading
  <2>6. ~(fd # NoFile /\ toRead /\ offset + Want(h) <= FdLen)
    <3>1. fd # NoFile /\ toRead => Len(cached[filename]) <= offset
      BY <1>1, <2>1, <2>4 DEF CalmInv, Descriptor
    <3>2. offset \in Nat
      BY <1>1 DEF TypeInv, TypeOK
    <3> QED
      BY <1>2, <1>18, <2>1, <2>4, <3>1, <3>2
  <2>7. Copied'
    BY <1>18, <1>18e, <2>1, <2>3, <2>6 DEF ReadAgain, Copied
  <2> QED
    BY <2>2, <2>5, <2>7 DEF CalmInv
<1>18f. CASE CloseCache(h)
  <2>1. /\ Copying(h) /\ pc[h] = "close" /\ Reading(h)
        /\ fd' = NoFile
        /\ UNCHANGED <<filepos, filesize, filename, request, file, left, got>>
        /\ pc' = [pc EXCEPT ![h] = "finish"]
    BY <1>18f DEF CloseCache, Goto, Copying, CopyPcs, Reading, copyVars
  <2>2. pc'[h] = "finish" /\ \A g \in Handles : g # h => pc'[g] = "closed" /\ ~Reading(g)'
    BY <1>18a, <2>1
  <2>3. Descriptor'
    BY <1>18, <2>1, <2>2 DEF Descriptor, Reading
  <2>4. Copied'
    BY <1>0, <1>1, <1>18, <2>1, <2>2 DEF Copied, CalmInv
  <2>5. got[h] # "null" /\ got' = got
    BY <1>1, <2>1 DEF CalmInv, Copied
  <2>6. CASE UNCHANGED <<present, cached, pos, start>>
    <3>1. OneOpen' /\ Published' /\ Fetching' /\ NoNulls' /\ AllPrefixes'
      BY <1>18b, <2>1, <2>6 DEF globalVars
    <3> QED
      BY <2>3, <2>4, <3>1 DEF CalmInv
  <2>7. CASE /\ got[h] # "none"
             /\ pos' = [pos EXCEPT ![h] = @ + Want(h)]
             /\ start' = IF fd = NoFile THEN start ELSE FdLen
             /\ UNCHANGED <<present, cached>>
    <3>1. pos'[h] = pos[h] + Want(h) /\ pos'[h] <= Len(cached[filename])
      BY <1>1, <1>18, <2>1, <2>7 DEF CalmInv, Copied, TypeInv, TypeOK
    <3>2. fd \in {NoFile, filename} /\ (fd # NoFile => FdLen = Len(cached[filename]))
      BY <1>1, <1>18, <2>1 DEF CalmInv, Descriptor, FdLen
    <3>3. fd # NoFile => Sound'
      BY <1>18, <2>1, <2>2, <2>7, <3>1, <3>2, Names DEF Sound
    <3>4. Sound => Sound' /\ start' = start
      BY <1>18, <2>1, <2>2, <2>7, <3>1, <3>2, Names DEF Sound
    <3>5. Fetching'
      BY <1>0, <1>1, <1>3, <1>4, <1>18, <2>1, <2>7, <3>3, <3>4
      DEF CalmInv, Fetching, AtTest, AtFetch, Ahead, threadVars
    <3>6. OneOpen' /\ Published'
      BY <1>6, <1>18, <2>1, <2>7, <3>1 DEF Pcs, ReadPcs, CopyPcs
    <3>7. NoNulls' /\ AllPrefixes'
      BY <1>5, <2>7
    <3> QED
      BY <2>3, <2>4, <3>5, <3>6, <3>7 DEF CalmInv
  <2> QED
    BY <1>18f, <2>5, <2>6, <2>7 DEF CloseCache
<1>19. CASE Finish(h)
  <2>1. /\ pc[h] = "finish" /\ pc[h] # "closed" /\ Live(h)
        /\ request = file[h]
        /\ filepos < filesize
        /\ pos[h] = filepos \/ pos[h] <= Len(cached[file[h]])
        /\ pc' = [pc EXCEPT ![h] = "idle"]
        /\ UNCHANGED <<start, filepos, filesize, filename, request, file, pos, upset>>
    BY <1>1, <1>19 DEF Finish, Goto, CalmInv, Published, ReadPcs, Live, globalVars
  <2>2. /\ left'[h] = left[h] - Want(h) /\ left'[h] \in Nat
        /\ Want(h) \in Nat /\ Want(h) <= left[h]
    <3>1. left'[h] = left[h] - Want(h) /\ left'[h] \in Nat
      BY <1>1, <1>19 DEF Finish, TypeInv, TypeOK
    <3> QED
      BY <1>1, <3>1, WantTyped DEF TypeInv
  <2>2a. Descriptor' /\ Copied'
    <3>1. /\ mutex = "free" /\ UNCHANGED toRead
          /\ got' = [got EXCEPT ![h] = "none"]
      BY <1>19 DEF Finish, fdVars
    <3>2. at # "write"
      BY <1>1, <3>1 DEF CalmInv, Descriptor
    <3>3. fd' # NoFile => fd # NoFile
      BY <1>4, <1>19, <2>1 DEF Finish, Retire, Unlink, diskVars
    <3>4. /\ \A g \in Handles : g # h => pc[g] = "closed" /\ pc'[g] = "closed"
          /\ pc'[h] = "idle"
      BY <1>1, <1>4, <2>1 DEF TypeInv, TypeOK
    <3> QED
      BY <1>5b, <2>1, <3>1, <3>2, <3>3, <3>4 DEF Reading
  <2>3. CASE UNCHANGED diskVars
    <3>1. OneOpen' /\ Published'
      BY <1>6, <2>1, <2>3 DEF Pcs, ReadPcs, CopyPcs, diskVars
    <3>2. Fetching'
      BY <1>1, <1>7, <2>1, <2>3 DEF TypeInv, TypeOK, diskVars
    <3> QED
      BY <1>5, <2>2a, <2>3, <3>1, <3>2 DEF CalmInv, diskVars
  <2>4. CASE pos[h] >= filesize /\ Retire
    <3>1. ~(Sound /\ Ahead /\ t.size = filesize)
      BY <1>2, <2>1, <2>4 DEF Sound, Ahead
    <3>2. Fetching'
      BY <1>0, <1>1, <1>3, <1>4, <2>1, <3>1
      DEF CalmInv, Fetching, AtTest, AtFetch, Ahead, threadVars
    <3>3. left'[h] = 0
      <4>1. pos[h] + left[h] <= Size[file[h]] + Want(h) /\ filesize = Size[file[h]]
        BY <1>1, <1>4, <2>1 DEF TypeInv, Counted
      <4> QED
        BY <1>2, <2>2, <2>4, <4>1
    <3>4. ASSUME fd' \in {fd, NoFile, Unlinked}
          PROVE  OneOpen' /\ Published'
      BY <1>6, <2>1, <3>3, <3>4 DEF Pcs, ReadPcs, CopyPcs
    <3>5. CASE Unlink(filename)
      <4>1. fd' \in {fd, Unlinked} /\ cached' = [cached EXCEPT ![filename] = <<>>]
        BY <3>5 DEF Unlink
      <4>2. NoNulls' /\ AllPrefixes'
        BY <1>5a, <4>1
      <4> QED
        BY <2>2a, <3>2, <3>4, <4>1, <4>2 DEF CalmInv
    <3>6. CASE /\ filesize > Trunc
               /\ cached' = [cached EXCEPT ![filename] = Truncated(@)]
               /\ UNCHANGED <<present, fd, lost>>
      <4> DEFINE c == cached[filename]
      <4>1. filename \in Files /\ c \in Seq(Unit) /\ Len(c) \in Nat
        BY <1>2, <1>4, <2>1
      <4>2. Trunc < Len(c)
        BY <1>2, <1>4, <2>1, <2>4, <3>6, <4>1, BunnyCacheAssumption
      <4>3. /\ cached'[filename] = Truncated(c)
            /\ \A f \in Files : f # filename => cached'[f] = cached[f]
        BY <1>1, <3>6, <4>1 DEF TypeInv, TypeOK
      <4>4. /\ Len(Truncated(c)) = Trunc
            /\ \A i \in 1 .. Trunc : i \in 1 .. Len(c) /\ Truncated(c)[i] = c[i]
        <5>1. Len(Truncated(c)) = Trunc
          BY <4>1, TruncatedTyped
        <5>2. \A i \in 1 .. Trunc : i <= Len(c) /\ i \in 1 .. Len(c)
          BY <4>1, <4>2, BunnyCacheAssumption
        <5> HIDE DEF c
        <5> QED
          BY <5>1, <5>2 DEF Truncated
      <4>5. NoNulls'
        BY <1>1, <4>1, <4>3, <4>4 DEF CalmInv, NoNulls
      <4>6. AllPrefixes'
        BY <1>1, <2>1, <4>1, <4>3, <4>4 DEF CalmInv, AllPrefixes, IsPrefix
      <4> QED
        BY <2>2a, <3>2, <3>4, <3>6, <4>5, <4>6 DEF CalmInv
    <3>7. CASE UNCHANGED diskVars
      BY <2>3, <3>7
    <3> QED
      BY <2>4, <3>5, <3>6, <3>7 DEF Retire
  <2> QED
    BY <1>19, <2>3, <2>4 DEF Finish
<1> QED
  BY <1>8, <1>9, <1>10, <1>11, <1>13, <1>14, <1>15, <1>16, <1>17, <1>18c, <1>18d,
     <1>18e, <1>18f, <1>19
  DEF Reader, ReadSteps

LEMMA InvStep == Inv /\ [Next]_vars => Inv'
<1> SUFFICES ASSUME Inv, [Next]_vars
             PROVE  Inv'
  OBVIOUS
<1>1. TypeInv'
  BY TypeStep DEF Inv
<1>2. ASSUME Calm', CacheThread
      PROVE  CalmInv'
  BY <1>1, <1>2, ThreadCalm
<1>3. ASSUME Calm', NEW h \in Handles, Reader(h)
      PROVE  CalmInv'
  BY <1>1, <1>3, ReaderCalm
<1>4. ASSUME Calm', UNCHANGED vars
      PROVE  CalmInv'
  <2>1. Calm /\ CalmInv
    BY <1>4 DEF vars, Calm, Inv
  <2> QED
    BY <1>4, <2>1 DEF CalmInv, OneOpen, Published, Fetching, NoNulls, AllPrefixes,
       IsPrefix, Ahead, Sound, Live, Descriptor, Copied, Reading, Copying, Want, vars,
       diskVars, fdVars, globalVars, semVars, threadVars, copyVars, readerVars
<1> QED
  BY <1>1, <1>2, <1>3, <1>4 DEF Inv, Next

LEMMA InvAlways == Spec => []Inv
  BY InvInit, InvStep, PTL DEF Spec

-----------------------------------------------------------------------------
\* bunny_cache_thread and bunny_read2: each cache file is a beginning of the file it
\* is named after, whatever the order of the steps, while no file is opened too early,
\* no connection fails and no copy without the mutex meets a write.
THEOREM PrefixKept == Spec => []CacheIsPrefix
<1>1. Inv => CacheIsPrefix
  BY DEF Inv, CalmInv, Calm, AllPrefixes, CacheIsPrefix, Disturbed
<1> QED
  BY <1>1, InvAlways, PTL

\* bunny_read2: what a renderer is given, after one read of the cache file or two, is
\* the units of its file from its position on, under the same conditions.
THEOREM RightServed == Spec => []ServesTheFile
<1>1. Inv => ServesTheFile
  BY DEF Inv, CalmInv, Calm, Copied, ServesTheFile, Disturbed
<1> QED
  BY <1>1, InvAlways, PTL

\* bunny_cache_thread: the consistency check of 437-440 never fails while no file is
\* opened too early and no copy without the mutex meets a write.
THEOREM AppendConsistent == Spec => []Consistent
<1>1. Inv => Consistent
  <2> SUFFICES ASSUME Inv, at = "write", Calm
               PROVE  fd # NoFile /\ ~toRead /\ start = FdLen
    BY DEF Consistent, Calm
  <2>1. CalmInv /\ TypeOK
    BY DEF Inv, TypeInv
  <2>2. fd = filename /\ filename # NoFile /\ ~toRead
    BY <2>1 DEF CalmInv, Descriptor
  <2>3. start = Len(cached[filename]) /\ fd # Unlinked
    BY <2>1, <2>2 DEF CalmInv, Fetching, Sound, AtFetch
  <2> QED
    BY <2>2, <2>3 DEF FdLen
<1> QED
  BY <1>1, InvAlways, PTL

-----------------------------------------------------------------------------
\* What bunny_read2 copies when it copies anything at all: the conditions are
\* weaker than for the rest, for a file may be opened too early and connections
\* may fail.

Quiet == upset \cap {"beyond", "overlap"} = {}

\* What is left to be read begins within the cache file, up to the position.
Within(h) ==
  pc[h] # "closed" /\ (pc[h] = "opened" \/ left[h] > 0) =>
    start <= Len(cached[file[h]]) /\ fd # Unlinked

\* A reader has published its position, and never waits for data beyond it; when
\* it copies, the mutex is its own and there is enough to copy.
At(h) ==
  /\ pc[h] \notin {"nodata", "reread"}
  /\ pc[h] \in {"setval", "zero", "loop", "wait"} => filepos = pos[h]
  /\ Copying(h) => mutex = "taken" /\ pos[h] + Want(h) <= Len(cached[file[h]])
  /\ pc[h] \in {"read", "close"} => fd = file[h] /\ toRead
  /\ pc[h] = "finish" => pos[h] <= Len(cached[file[h]])
  /\ pc[h] \in {"close", "finish"} => got[h] # "none" \/ pos[h] > IntMax
  /\ got[h] # "null"

Stored ==
  /\ \A f \in Files : Len(cached[f]) # 0 => f \in present
  /\ fd \in Files => fd \in present

\* Nobody copies while the cache thread writes.
Writing ==
  at = "write" => /\ mutex = "taken" /\ fd # NoFile
                  /\ \A h \in Handles : ~Copying(h)

QuietInv ==
  OneOpen /\ NoNulls /\ Stored /\ Writing /\ \A h \in Handles : Within(h) /\ At(h)

QInv == TypeInv /\ (Quiet => QuietInv)

\* Nobody copies while the mutex is free.
LEMMA FreeQuiet ==
  ASSUME QuietInv, mutex = "free"
  PROVE  at # "write" /\ \A h \in Handles : ~Copying(h)
  BY DEF QuietInv, Writing, At

\* A step of the cache thread that leaves the readers, the length of the cache and
\* the position alone.
LEMMA QuietStill ==
  ASSUME TypeInv, QuietInv,
         UNCHANGED <<filename, filesize, filepos, pc, file, pos, left, got, cached>>,
         present' \in {present, present \cup {filename}},
         \/ start' = start
         \/ filename # NoFile /\ start' = Len(cached[filename])
         \/ filename = NoFile,
         fd' \in {fd, NoFile} \/ (fd' = filename /\ filename \in present'),
         filename = NoFile => fd' = NoFile,
         (\E h \in Handles : Copying(h)) => UNCHANGED <<fd, toRead, mutex>>,
         at' = "write" => /\ mutex' = "taken" /\ fd' # NoFile
                          /\ \A h \in Handles : ~Copying(h)
  PROVE  QuietInv'
<1>1. /\ \A h \in Handles : pc[h] # "closed" => filename = file[h] /\ file[h] \in Files
      /\ \A f \in Files : Len(cached[f]) \in Nat
      /\ start \in Nat /\ fd \in Files \cup {NoFile, Unlinked}
  BY DEF QuietInv, OneOpen, TypeInv, TypeOK, Counted
<1>2. OneOpen' /\ NoNulls'
  BY DEF QuietInv, OneOpen, NoNulls
<1>3. Stored'
  BY <1>1, Names DEF QuietInv, Stored
<1>4. \A h \in Handles : Copying(h)' = Copying(h) /\ Want(h)' = Want(h)
  BY DEF Copying, Want
<1>5. Writing'
  BY <1>4 DEF Writing
<1>6. ASSUME NEW h \in Handles
      PROVE  Within(h)'
  BY <1>1, Names DEF QuietInv, Within
<1>7. ASSUME NEW h \in Handles
      PROVE  At(h)'
  <2>1. CASE Copying(h)
    BY <1>4, <2>1 DEF QuietInv, At
  <2>2. CASE ~Copying(h)
    BY <1>4, <2>2 DEF QuietInv, At, Copying, CopyPcs
  <2> QED
    BY <2>1, <2>2
<1> QED
  BY <1>2, <1>3, <1>5, <1>6, <1>7 DEF QuietInv

LEMMA QuietEnter ==
  ASSUME TypeInv, QuietInv, NEW p \in Packets, Enter(p), mutex = "free",
         UNCHANGED <<filename, filesize, pc, file, pos, left, filepos, got, cached>>
  PROVE  QuietInv'
<1>1. \A h \in Handles : ~Copying(h)
  BY FreeQuiet
<1>2. filename = NoFile => fd = NoFile
  BY DEF QuietInv, OneOpen
<1>3. /\ present' \in {present, present \cup {filename}}
      /\ start' = start \/ filename = NoFile
      /\ fd' \in {fd, NoFile} \/ (fd' = filename /\ filename \in present')
      /\ filename = NoFile => fd' = NoFile
      /\ at' = "write" => mutex' = "taken" /\ fd' # NoFile
  BY <1>2 DEF Enter
<1> QED
  BY <1>1, <1>3, QuietStill

LEMMA QuietWrite ==
  ASSUME TypeInv, QuietInv, Write
  PROVE  QuietInv'
<1> DEFINE p == packet
<1>0. p \in Packets
  BY DEF TypeInv, TypeOK
<1> HIDE DEF p
<1>1. /\ \A f \in Files : cached[f] \in Seq(Unit) /\ Len(cached[f]) \in Nat
      /\ p.len \in Nat /\ lost \in Nat /\ start \in Nat
      /\ fd \in Files \cup {NoFile, Unlinked} /\ present \subseteq Files
      /\ cached \in [Files -> Seq(Unit)]
      /\ \A h \in Handles : pos[h] \in Nat /\ left[h] \in Nat
                            /\ (pc[h] # "closed" => file[h] \in Files)
  BY <1>0 DEF TypeInv, TypeOK, Counted, Packets
<1>2. NoFile \notin Files /\ Unlinked \notin Files /\ Unlinked # NoFile
  BY Names
<1>3. /\ UNCHANGED <<filename, filesize, pc, file, pos, left, filepos, got, fd, present,
                     toRead>>
      /\ at' = "signal" /\ mutex' = "free"
  BY DEF Write, fdVars, copyVars, readerVars
<1>4. fd # NoFile /\ \A h \in Handles : ~Copying(h)
  BY DEF Write, QuietInv, Writing
<1>5. \A h \in Handles : Copying(h)' = Copying(h)
  BY <1>3 DEF Copying
<1>6. \A h \in Handles : pc[h] # "closed" => filename = file[h]
  BY DEF QuietInv, OneOpen
<1>7. CASE toRead /\ start' = FdLen /\ UNCHANGED cached
  <2>1. CASE fd = filename
    <3>1. start' = Len(cached[filename]) /\ filename # NoFile
      BY <1>1, <1>2, <1>4, <1>7, <2>1 DEF FdLen, TypeInv, TypeOK
    <3> QED
      BY <1>3, <1>4, <1>7, <2>1, <3>1, QuietStill
  <2>2. CASE fd = Unlinked
    <3>1. \A h \in Handles : Within(h)'
      BY <1>3, <2>2 DEF QuietInv, Within
    <3>2. \A h \in Handles : At(h)'
      BY <1>3, <1>4, <1>5, <1>7 DEF QuietInv, At, Copying, CopyPcs
    <3> QED
      BY <1>3, <1>7, <3>1, <3>2 DEF QuietInv, OneOpen, NoNulls, Stored, Writing
  <2> QED
    BY <1>4, <2>1, <2>2 DEF QuietInv, OneOpen
<1>8. CASE fd = Unlinked /\ ~toRead
  <2>0. cached' = cached
    BY <1>2, <1>8 DEF Write
  <2>1. \A h \in Handles : Within(h)'
    BY <1>3, <1>8 DEF QuietInv, Within
  <2>2. \A h \in Handles : At(h)'
    BY <1>3, <1>4, <1>5, <2>0 DEF QuietInv, At, Copying, CopyPcs
  <2> QED
    BY <1>3, <2>0, <2>1, <2>2 DEF QuietInv, OneOpen, NoNulls, Stored, Writing
<1>9. CASE fd \in Files /\ ~toRead
  <2> DEFINE f == fd
  <2>3. QED
    <3>1. /\ cached' = [cached EXCEPT ![f] = @ \o Units(p, f, Len(@))]
          /\ start' = Len(cached[f]) + p.len
      BY <1>2, <1>9 DEF Write, p
    <3>2. f = filename /\ f \in Files
      BY <1>2, <1>9 DEF QuietInv, OneOpen
    <3> HIDE DEF f
    <3>3. /\ Len(cached'[f]) = Len(cached[f]) + p.len
          /\ \A i \in 1 .. Len(cached'[f]) : cached'[f][i] # "null"
      <4> DEFINE c == cached[f]
                 b == Units(p, f, Len(c))
      <4>1. c \in Seq(Unit) /\ b \in Seq(Unit) /\ Len(b) = p.len
        BY <1>0, <1>1, <3>2, UnitsTyped
      <4>2. \A i \in 1 .. p.len : b[i] # "null"
        BY DEF Units
      <4>3. \A i \in 1 .. Len(c) : c[i] # "null"
        BY <3>2 DEF QuietInv, NoNulls
      <4>4. cached'[f] = c \o b
        BY <1>1, <3>1, <3>2
      <4> HIDE DEF c, b
      <4>5. /\ Len(c \o b) = Len(c) + p.len
            /\ \A i \in 1 .. Len(c) + p.len : (c \o b)[i] # "null"
        <5>1. Len(c) \in Nat /\ p.len \in Nat /\ Len(c \o b) = Len(c) + Len(b)
          <6>1. Len(c) \in Nat /\ Len(c \o b) = Len(c) + Len(b)
            BY <4>1
          <6> QED
            BY <1>1, <6>1
        <5>2. \A i \in 1 .. Len(c) + Len(b) :
                 (c \o b)[i] = IF i <= Len(c) THEN c[i] ELSE b[i - Len(c)]
          BY <4>1
        <5>3. ASSUME NEW i \in 1 .. Len(c) + p.len PROVE (c \o b)[i] # "null"
          <6>1. CASE i <= Len(c)
            BY <4>1, <4>3, <5>1, <5>2, <5>3, <6>1
          <6>2. CASE ~ (i <= Len(c))
            <7>1. i - Len(c) \in 1 .. p.len
              BY <5>1, <5>3, <6>2
            <7> QED
              BY <4>1, <4>2, <5>2, <5>3, <6>2, <7>1
          <6> QED
            BY <6>1, <6>2
        <5> QED
          BY <4>1, <5>1, <5>3
      <4> QED
        BY <4>4, <4>5 DEF c
    <3>4. \A g \in Files : g # f => cached'[g] = cached[g]
      BY <1>1, <3>1, <3>2
    <3>5. OneOpen' /\ NoNulls' /\ Stored'
      <4>1. OneOpen'
        BY <1>3 DEF QuietInv, OneOpen
      <4>2. NoNulls'
        BY <3>3, <3>4 DEF QuietInv, NoNulls
      <4>3. Stored'
        BY <1>3, <3>2, <3>4 DEF QuietInv, Stored, f
      <4> QED
        BY <4>1, <4>2, <4>3
    <3>6. ASSUME NEW h \in Handles PROVE Within(h)' /\ At(h)'
      <4>1. CASE pc[h] = "closed"
        BY <1>3, <4>1 DEF QuietInv, Within, At, Copying, CopyPcs
      <4>2. CASE pc[h] # "closed"
        <5>1. file[h] = f /\ f # Unlinked /\ fd' = f
          BY <1>2, <1>3, <1>6, <3>2, <4>2 DEF f
        <5>2. Len(cached[f]) \in Nat /\ Len(cached'[f]) >= Len(cached[f])
          BY <1>1, <3>2, <3>3
        <5>3. Within(h)'
          BY <1>1, <1>3, <3>1, <3>2, <3>3, <5>1 DEF Within
        <5>4. At(h)'
          BY <1>1, <1>3, <1>4, <1>5, <5>1, <5>2 DEF QuietInv, At, Copying, CopyPcs
        <5> QED
          BY <5>3, <5>4
      <4> QED
        BY <4>1, <4>2
    <3>7. Writing'
      BY <1>3 DEF Writing
    <3> QED
      BY <3>5, <3>6, <3>7 DEF QuietInv
<1> QED
  BY <1>1, <1>4, <1>7, <1>8, <1>9 DEF Write, TypeInv, TypeOK

LEMMA QuietThread ==
  ASSUME TypeInv, QuietInv, CacheThread
  PROVE  QuietInv'
<1>1. UNCHANGED <<filename, filesize, filepos, pc, file, pos, left, got>>
  BY DEF CacheThread, Wake, First, Again, Prepare, Send, Fetched, BadAnswer,
     NoConnection, Write, Signal, Exit, globalVars, readerVars, copyVars
<1>2. filename = NoFile => fd = NoFile
  BY DEF QuietInv, OneOpen
<1>3. CASE Wake
  <2>1. \A h \in Handles : ~Copying(h)
    BY <1>3, FreeQuiet DEF Wake
  <2>2. at' = "first" /\ UNCHANGED cached
    BY <1>3 DEF Wake
  <2>3. CASE WakeOpen
    <3>1. /\ filename # NoFile /\ present' = present \cup {filename} /\ fd' = filename
          /\ start' = Len(cached[filename])
      BY <2>3 DEF WakeOpen
    <3> QED
      BY <1>1, <2>1, <2>2, <3>1, QuietStill
  <2>4. CASE WakeBad
    <3>1. filename = NoFile /\ UNCHANGED <<present, start>> /\ fd' = NoFile
      BY <2>1, <2>4 DEF WakeBad
    <3> QED
      BY <1>1, <2>1, <2>2, <3>1, QuietStill
  <2> QED
    BY <1>3, <2>3, <2>4 DEF Wake
<1>4. CASE Fetched
  <2>1. Enter(asked) /\ asked \in Packets /\ mutex = "free" /\ UNCHANGED cached
    BY <1>4 DEF Fetched, TypeInv, TypeOK
  <2> QED
    BY <1>1, <2>1, QuietEnter
<1>5. CASE NoConnection
  <2>1. mutex = "free" /\ UNCHANGED cached
    BY <1>5 DEF NoConnection
  <2>2. CASE Enter(packet)
    <3>1. packet \in Packets
      BY DEF TypeInv, TypeOK
    <3> QED
      BY <1>1, <2>1, <2>2, <3>1, QuietEnter
  <2>3. CASE at' = "signal" /\ UNCHANGED <<present, fd, toRead, mutex, start>>
    BY <1>1, <1>2, <2>1, <2>3, QuietStill
  <2> QED
    BY <1>5, <2>2, <2>3 DEF NoConnection
<1>6. CASE First \/ Again \/ Send \/ Signal
  <2>1. at' # "write" /\ UNCHANGED <<present, cached, fd, toRead, mutex, start>>
    BY <1>6 DEF First, Again, Send, Signal, diskVars, fdVars, globalVars
  <2> QED
    BY <1>1, <1>2, <2>1, QuietStill
<1>7. CASE Prepare \/ BadAnswer \/ Exit
  <2>1. /\ at' # "write" /\ mutex = "free" /\ UNCHANGED <<present, cached, start>>
        /\ fd' \in {fd, NoFile}
    BY <1>7 DEF Prepare, BadAnswer, Exit, diskVars, globalVars
  <2>2. \A h \in Handles : ~Copying(h)
    BY <2>1, FreeQuiet
  <2> QED
    BY <1>1, <1>2, <2>1, <2>2, QuietStill
<1>8. CASE Write
  BY <1>8, QuietWrite
<1> QED
  BY <1>3, <1>4, <1>5, <1>6, <1>7, <1>8 DEF CacheThread

LEMMA QuietReader ==
  ASSUME TypeInv, TypeInv', QuietInv, Quiet', NEW h \in Handles, Reader(h)
  PROVE  QuietInv'
<1>1. /\ \A f \in Files : cached[f] \in Seq(Unit) /\ Len(cached[f]) \in Nat
      /\ start \in Nat /\ fd \in Files \cup {NoFile, Unlinked}
      /\ present \subseteq Files /\ cached \in [Files -> Seq(Unit)]
      /\ filename \in Files \cup {NoFile} /\ filepos \in Nat /\ filesize \in Nat
      /\ \A g \in Handles : pos[g] \in Nat /\ left[g] \in Nat
                            /\ (pc[g] # "closed" => file[g] \in Files)
                            /\ (pc[g] \in ReadPcs => left[g] > 0)
      /\ pc \in [Handles -> Pcs] /\ file \in [Handles -> Files \cup {NoFile}]
      /\ pos \in [Handles -> Nat] /\ left \in [Handles -> Nat]
      /\ got \in [Handles -> Buffers]
  <2>1. TypeOK /\ Counted
    BY DEF TypeInv
  <2>2. \A g \in Handles : /\ (pc[g] # "closed" => file[g] \in Files)
                           /\ (pc[g] \in ReadPcs => left[g] > 0)
    BY <2>1 DEF Counted
  <2>3. /\ start \in Nat /\ fd \in Files \cup {NoFile, Unlinked}
        /\ present \subseteq Files /\ cached \in [Files -> Seq(Unit)]
        /\ filename \in Files \cup {NoFile} /\ filepos \in Nat /\ filesize \in Nat
        /\ pc \in [Handles -> Pcs] /\ file \in [Handles -> Files \cup {NoFile}]
        /\ pos \in [Handles -> Nat] /\ left \in [Handles -> Nat]
        /\ got \in [Handles -> Buffers]
    BY <2>1 DEF TypeOK
  <2>4. \A f \in Files : cached[f] \in Seq(Unit) /\ Len(cached[f]) \in Nat
    BY <2>1 DEF TypeOK
  <2>5. \A g \in Handles : pos[g] \in Nat /\ left[g] \in Nat
    BY <2>3
  <2> QED
    BY <2>2, <2>3, <2>4, <2>5
<1>2. NoFile \notin Files /\ Unlinked \notin Files /\ Unlinked # NoFile
  BY BunnyCacheAssumption DEF Unlinked
<1>3. \A g \in Handles : Within(g) /\ At(g)
  BY DEF QuietInv
<1>3a. at' = at
  BY DEF Reader, Open, Seek, Close, Read, ReadSteps, SetVal, WaitZero, Look, Wait,
     NoData, OpenCache, ReadCache, ReadAgain, CloseCache, Finish, threadVars
<1>3b. mutex = "free" => at # "write" /\ \A g \in Handles : ~Copying(g)
  BY FreeQuiet
\* What the other handles, which are closed, have to show.
<1>3c. ASSUME NEW g \in Handles, pc'[g] = "closed", got'[g] = got[g]
       PROVE  Within(g)' /\ At(g)'
  BY <1>3, <1>3c DEF Within, At, Copying, CopyPcs
<1>4. CASE Open(h)
  <2>1. /\ pc[h] = "closed" /\ pc' = [pc EXCEPT ![h] = "opened"]
        /\ start' = 0 /\ filepos' = 0 /\ Retire
        /\ \A g \in Handles : pc[g] = "closed"
        /\ mutex = "free" /\ got' = got
    BY <1>4 DEF Open, Goto, Quiet, copyVars
  <2>2. filename = NoFile /\ fd = NoFile
    BY <2>1 DEF QuietInv, OneOpen
  <2>3. UNCHANGED diskVars
    BY <1>1, <1>2, <2>1, <2>2 DEF Retire
  <2>4. PICK f \in Files : /\ file' = [file EXCEPT ![h] = f]
                           /\ filename' = f /\ filesize' = Size[f]
    BY <1>4 DEF Open
  <2>5. \A g \in Handles : pc'[g] # "closed" => g = h
    BY <1>1, <2>1
  <2>6. pc'[h] = "opened" /\ file'[h] = f
    BY <1>1, <2>1, <2>4
  <2>7. fd' = NoFile /\ cached' = cached /\ present' = present
    BY <2>2, <2>3 DEF diskVars
  <2>8. OneOpen'
    BY <1>2, <2>4, <2>5, <2>6, <2>7 DEF OneOpen
  <2>9. ASSUME NEW g \in Handles PROVE Within(g)' /\ At(g)'
    <3>1. CASE g = h
      BY <1>1, <1>2, <1>3, <2>1, <2>4, <2>6, <2>7, <3>1 DEF Within, At, Copying, CopyPcs
    <3>2. CASE g # h
      BY <1>3c, <2>1, <2>5, <3>2
    <3> QED
      BY <3>1, <3>2
  <2>10. Writing'
    BY <1>3a, <1>3b, <2>1 DEF Writing
  <2> QED
    BY <1>2, <2>7, <2>8, <2>9, <2>10 DEF QuietInv, NoNulls, Stored
<1>5. CASE Close(h)
  <2>1. /\ pc[h] # "closed" /\ pc' = [pc EXCEPT ![h] = "closed"]
        /\ fd' = NoFile /\ filename' = NoFile
        /\ UNCHANGED <<present, cached, got>> /\ mutex = "free"
    BY <1>5 DEF Close, Goto, copyVars
  <2>2. \A g \in Handles : pc'[g] = "closed"
    BY <1>1, <2>1 DEF QuietInv, OneOpen
  <2>3. \A g \in Handles : Within(g)' /\ At(g)'
    BY <1>3c, <2>1, <2>2
  <2>4. Writing'
    BY <1>3a, <1>3b, <2>1 DEF Writing
  <2> QED
    BY <1>2, <2>1, <2>2, <2>3, <2>4 DEF QuietInv, OneOpen, NoNulls, Stored
<1>6. CASE Read(h)
  <2>1. /\ pc[h] \in {"opened", "idle"} /\ pc'[h] \in {"setval", "loop"}
        /\ \A g \in Handles : g # h => pc'[g] = pc[g]
        /\ left[h] > 0
        /\ filepos' = pos[h] /\ filesize' = Size[file[h]]
        /\ filename' = file[h]
        /\ UNCHANGED <<present, cached, file, pos, left, got>> /\ mutex = "free"
        /\ \/ start' = Len(cached[file[h]]) /\ fd' = NoFile
           \/ start' = start /\ fd' = fd
    BY <1>1, <1>6 DEF Read, Goto, copyVars
  <2>2. filename = file[h] /\ filesize = Size[file[h]]
    BY <2>1 DEF QuietInv, OneOpen
  <2>3. OneOpen'
    BY <1>2, <2>1, <2>2 DEF QuietInv, OneOpen
  <2>4. \A g \in Handles : pc[g] # "closed" => g = h
    BY <2>1 DEF QuietInv, OneOpen
  <2>5. ASSUME NEW g \in Handles PROVE Within(g)' /\ At(g)'
    <3>1. CASE g = h
      BY <1>1, <1>2, <1>3, <2>1, <3>1 DEF Within, At, Copying, CopyPcs
    <3>2. CASE g # h
      BY <1>3c, <2>1, <2>4, <3>2
    <3> QED
      BY <3>1, <3>2
  <2>6. Writing'
    BY <1>3a, <1>3b, <2>1 DEF Writing
  <2>7. Stored'
    BY <1>2, <2>1 DEF QuietInv, Stored
  <2> QED
    BY <2>1, <2>3, <2>5, <2>6, <2>7 DEF QuietInv, NoNulls
<1>7. CASE Seek(h) \/ SetVal(h) \/ WaitZero(h) \/ Look(h) \/ Wait(h) \/ NoData(h)
  <2>1. /\ UNCHANGED <<diskVars, fdVars, globalVars, got, file>> /\ pc[h] # "closed"
        /\ \A g \in Handles \ {h} :
              pc'[g] = pc[g] /\ pos'[g] = pos[g] /\ left'[g] = left[g]
    BY <1>1, <1>7
    DEF Seek, SetVal, WaitZero, Look, Wait, NoData, Goto, readerVars, copyVars
  <2>2. /\ pc'[h] \in {"idle", "zero", "loop", "wait", "open"}
        /\ pc'[h] \in {"zero", "loop", "wait"} =>
             /\ pos'[h] = pos[h] /\ mutex' = mutex
             /\ pc[h] \in {"setval", "zero", "loop", "wait"}
        /\ pc'[h] = "idle" => mutex' = mutex
        /\ pc'[h] = "open" => /\ pos'[h] = pos[h] /\ left'[h] = left[h]
                              /\ mutex = "free" /\ mutex' = "taken"
                              /\ pos[h] + Want(h) <= Len(cached[file[h]])
        /\ left'[h] > 0 => pc[h] = "opened" \/ left[h] > 0
    <3>1. CASE Seek(h)
      <4>1. pc[h] = "opened" /\ pc'[h] = "idle" /\ mutex' = mutex
        BY <1>1, <3>1 DEF Seek, Goto
      <4> QED
        BY <4>1
    <3>2. CASE Look(h)
      <4>1. ~(upset' = upset \cup {"beyond"})
        BY DEF Quiet
      <4>2. pc[h] = "loop" /\ filepos = pos[h] /\ mutex = "free" /\ pos' = pos
        BY <1>3, <3>2 DEF Look, At
      <4>3. CASE pc'[h] = "idle" /\ mutex' = mutex /\ left'[h] = 0
        BY <4>3
      <4>4. CASE pc'[h] = "wait" /\ mutex' = mutex /\ left' = left
        BY <1>1, <4>2, <4>4 DEF ReadPcs
      <4>5. CASE /\ ~Short(h) /\ start > filepos
                 /\ pc'[h] = "open" /\ mutex' = "taken" /\ left' = left
        <5>1. Want(h) \in Nat /\ left[h] > 0
          BY <1>1, <4>2, WantTyped DEF TypeInv, ReadPcs
        <5>2. start >= pos[h] + Want(h)
          <6>1. ~Below(start, pos[h], Want(h)) /\ start > pos[h]
            BY <4>2, <4>5 DEF Short
          <6> QED
            BY <1>1, <4>2, <5>1, <6>1 DEF Below
        <5>3. start <= Len(cached[file[h]]) /\ file[h] \in Files
          BY <1>1, <1>3, <4>2, <5>1 DEF Within
        <5> QED
          BY <1>1, <4>2, <4>5, <5>1, <5>2, <5>3
      <4> QED
        BY <1>1, <3>2, <4>1, <4>3, <4>4, <4>5 DEF Look, Goto
    <3>3. CASE SetVal(h) \/ WaitZero(h) \/ Wait(h)
      BY <1>1, <3>3 DEF SetVal, WaitZero, Wait, Goto
    <3>4. ~NoData(h)
      BY <1>3 DEF NoData, At
    <3> QED
      BY <1>7, <3>1, <3>2, <3>3, <3>4
  <2>3. OneOpen' /\ NoNulls' /\ Stored'
    BY <2>1, <2>2 DEF QuietInv, OneOpen, NoNulls, Stored, diskVars, globalVars
  <2>4. ASSUME NEW g \in Handles PROVE Within(g)' /\ At(g)'
    <3>1. CASE g = h
      <4>1. CASE pc'[h] = "open"
        <5>1. Want(h)' = Want(h)
          BY <2>2, <4>1 DEF Want
        <5> QED
          BY <1>3, <2>1, <2>2, <3>1, <4>1, <5>1
          DEF Within, At, Copying, CopyPcs, diskVars, globalVars
      <4>2. CASE pc'[h] # "open"
        BY <1>3, <2>1, <2>2, <3>1, <4>2
        DEF Within, At, Copying, CopyPcs, diskVars, globalVars
      <4> QED
        BY <4>1, <4>2
    <3>2. CASE g # h
      <4>1. pc'[g] = "closed" /\ got' = got
        BY <2>1, <3>2 DEF QuietInv, OneOpen
      <4> QED
        BY <1>3c, <4>1
    <3> QED
      BY <3>1, <3>2
  <2>5. Writing'
    <3>1. CASE pc'[h] = "open"
      BY <1>3a, <1>3b, <2>2, <3>1 DEF Writing
    <3>2. CASE pc'[h] # "open"
      <4>1. ~Copying(h)'
        BY <2>2, <3>2 DEF Copying, CopyPcs
      <4>2. \A g \in Handles : g # h => Copying(g)' = Copying(g)
        BY <2>1 DEF Copying
      <4>3. mutex' = mutex /\ fd' = fd
        BY <2>1, <2>2, <3>2 DEF diskVars
      <4> QED
        BY <1>3a, <4>1, <4>2, <4>3 DEF QuietInv, Writing
    <3> QED
      BY <3>1, <3>2
  <2> QED
    BY <2>3, <2>4, <2>5 DEF QuietInv
\* The steps of the copy.
<1>8. ASSUME Copying(h)
      PROVE  /\ pc[h] # "closed" /\ at # "write"
             /\ filename = file[h] /\ filename \in Files
             /\ \A g \in Handles : g # h => pc[g] = "closed"
             /\ Want(h) \in Nat /\ Want(h) > 0 /\ left[h] > 0
             /\ mutex = "taken" /\ pos[h] + Want(h) <= Len(cached[filename])
             /\ start <= Len(cached[filename]) /\ fd # Unlinked
  <2>1. pc[h] # "closed" /\ pc[h] \in ReadPcs
    BY <1>8 DEF Copying, CopyPcs, ReadPcs
  <2>2. /\ filename = file[h] /\ filename \in Files /\ left[h] > 0
        /\ \A g \in Handles : g # h => pc[g] = "closed"
    BY <1>1, <2>1 DEF QuietInv, OneOpen
  <2>3. Want(h) \in Nat /\ Want(h) > 0
    BY <2>2, WantTyped DEF TypeInv
  <2>4. at # "write"
    BY <1>8 DEF QuietInv, Writing
  <2>5. start <= Len(cached[filename]) /\ fd # Unlinked
    BY <1>3, <2>1, <2>2 DEF Within
  <2>6. mutex = "taken" /\ pos[h] + Want(h) <= Len(cached[filename])
    BY <1>3, <1>8, <2>2 DEF At
  <2> QED
    BY <2>1, <2>2, <2>3, <2>4, <2>5, <2>6
<1>8a. ASSUME Copying(h), UNCHANGED <<cached, present, filename, filesize, file>>,
              \A g \in Handles \ {h} : pc'[g] = pc[g] /\ got'[g] = got[g],
              pc'[h] # "closed",
              fd' \in {fd, NoFile} \/ (fd' = filename /\ filename \in present),
              Within(h)', At(h)'
       PROVE  QuietInv'
  <2>1. OneOpen' /\ NoNulls' /\ Stored'
    BY <1>2, <1>8, <1>8a DEF QuietInv, OneOpen, NoNulls, Stored
  <2>2. Writing'
    BY <1>3a, <1>8, <1>8a DEF Writing
  <2>3. \A g \in Handles : g # h => Within(g)' /\ At(g)'
    BY <1>3c, <1>8, <1>8a
  <2> QED
    BY <1>8a, <2>1, <2>2, <2>3 DEF QuietInv
<1>8b. CASE OpenCache(h)
  <2>1. pc[h] = "open" /\ Copying(h)
    BY <1>8b DEF OpenCache, Copying, CopyPcs
  <2>2. pos[h] <= Len(cached[filename]) /\ Len(cached[filename]) # 0
    BY <1>1, <1>8, <2>1
  <2>3. filename \in present
    BY <1>8, <2>1, <2>2 DEF QuietInv, Stored
  <2>4. /\ fd' = filename /\ toRead' = TRUE /\ pc'[h] = "read"
        /\ UNCHANGED <<present, cached, mutex, filename, filesize, start, file, pos, left,
                       got>>
        /\ \A g \in Handles \ {h} : pc'[g] = pc[g]
    BY <1>1, <1>8b, <2>2, <2>3 DEF OpenCache, Goto, globalVars
  <2>5. Within(h)' /\ At(h)'
    BY <1>2, <1>3, <1>8, <2>1, <2>4 DEF Within, At, Copying, CopyPcs, Want
  <2> QED
    BY <1>8a, <2>1, <2>3, <2>4, <2>5
<1>8c. CASE ReadCache(h)
  <2>1. pc[h] = "read" /\ Copying(h)
    BY <1>8c DEF ReadCache, Copying, CopyPcs
  <2>2. fd = filename /\ toRead /\ fd # NoFile /\ FdLen = Len(cached[filename])
    BY <1>2, <1>3, <1>8, <2>1 DEF At, FdLen
  <2>3. pos[h] + Want(h) <= FdLen
    BY <1>8, <2>1, <2>2
  <2>4. /\ pc' = [pc EXCEPT ![h] = "close"]
        /\ UNCHANGED <<diskVars, toRead, mutex, globalVars, file, pos, left>>
        /\ \/ pos[h] > IntMax /\ got' = got
           \/ got' = [got EXCEPT ![h] = Buffered(h, pos[h])]
    BY <1>8c, <2>2, <2>3 DEF ReadCache, Goto
  <2>5. Buffered(h, pos[h]) \in {"right", "wrong"}
    <3>1. pos[h] + 1 \in 1 .. Len(cached[filename])
      BY <1>1, <1>8, <2>1
    <3> QED
      BY <1>8, <2>1, <2>2, <3>1 DEF Buffered, QuietInv, NoNulls
  <2>6. /\ pc'[h] = "close" /\ \A g \in Handles \ {h} : pc'[g] = pc[g] /\ got'[g] = got[g]
        /\ got'[h] # "null" /\ (got'[h] # "none" \/ pos[h] > IntMax)
    BY <1>1, <1>3, <2>4, <2>5 DEF At
  <2>7. Within(h)' /\ At(h)'
    BY <1>3, <1>8, <2>1, <2>2, <2>4, <2>6
    DEF Within, At, Copying, CopyPcs, Want, diskVars, globalVars
  <2> QED
    BY <1>8a, <2>1, <2>4, <2>6, <2>7 DEF diskVars, globalVars
<1>8d. ~ReadAgain(h)
  BY <1>3 DEF ReadAgain, At
<1>8e. CASE CloseCache(h)
  <2>1. pc[h] = "close" /\ Copying(h)
    BY <1>8e DEF CloseCache, Copying, CopyPcs
  <2>2. fd = filename /\ fd # NoFile /\ FdLen = Len(cached[filename])
    BY <1>2, <1>3, <1>8, <2>1 DEF At, FdLen
  <2>3. got[h] # "null" /\ (got[h] # "none" \/ pos[h] > IntMax)
    BY <1>3, <2>1 DEF At
  <2>4. /\ fd' = NoFile /\ pc'[h] = "finish"
        /\ \A g \in Handles \ {h} : pc'[g] = pc[g]
        /\ UNCHANGED <<filename, filesize, filepos, file, left, got>>
    BY <1>1, <1>8e DEF CloseCache, Goto, copyVars
  <2>5. /\ UNCHANGED <<present, cached>>
        /\ \/ got[h] = "none" /\ UNCHANGED <<pos, start>>
           \/ /\ got[h] # "none" /\ pos'[h] = pos[h] + Want(h)
              /\ start' = Len(cached[filename])
    BY <1>1, <1>8e, <2>2, <2>3 DEF CloseCache
  <2>6. Within(h)' /\ At(h)'
    BY <1>1, <1>2, <1>8, <2>1, <2>3, <2>4, <2>5 DEF Within, At, Copying, CopyPcs
  <2> QED
    BY <1>8a, <2>1, <2>4, <2>5, <2>6
<1>9. CASE Finish(h)
  <2>1. /\ pc[h] = "finish" /\ pc'[h] = "idle"
        /\ \A g \in Handles : g # h => pc'[g] = pc[g]
        /\ left'[h] = left[h] - Want(h)
        /\ UNCHANGED <<start, filename, filesize, filepos, file, pos>>
        /\ mutex = "free"
        /\ got'[h] = "none" /\ \A g \in Handles : g # h => got'[g] = got[g]
    BY <1>1, <1>9 DEF Finish, Goto, globalVars
  <2>1a. left'[h] \in Nat /\ Want(h) \in Nat /\ Want(h) <= left[h]
    BY WantTyped DEF TypeInv, TypeOK
  <2>1b. Writing'
    BY <1>3a, <1>3b, <2>1 DEF Writing
  <2>2. /\ filename = file[h] /\ filename \in Files
        /\ filesize = Size[file[h]]
        /\ pos[h] <= Len(cached[filename])
        /\ \A g \in Handles : pc[g] # "closed" => g = h
    BY <1>1, <1>3, <2>1 DEF QuietInv, OneOpen, At
  <2>3. CASE UNCHANGED diskVars
    <3>1. OneOpen' /\ NoNulls' /\ Stored'
      BY <2>1, <2>2, <2>3 DEF QuietInv, OneOpen, NoNulls, Stored, diskVars
    <3>2. ASSUME NEW g \in Handles PROVE Within(g)' /\ At(g)'
      <4>1. CASE g = h
        BY <1>1, <1>3, <2>1, <2>1a, <2>3, <4>1
        DEF Within, At, Copying, CopyPcs, diskVars, ReadPcs
      <4>2. CASE g # h
        BY <1>3c, <2>1, <2>2, <4>2
      <4> QED
        BY <4>1, <4>2
    <3> QED
      BY <2>1b, <3>1, <3>2 DEF QuietInv
  <2>4. CASE pos[h] >= filesize /\ Retire
    <3>1. ~(left'[h] > 0)
      <4>1. pos[h] + left[h] <= Size[file[h]] + Want(h)
        BY <2>1 DEF TypeInv, Counted
      <4>2. filesize \in Nat /\ Size[file[h]] = filesize
        BY <1>1, <2>2
      <4> QED
        BY <1>1, <2>1, <2>1a, <2>4, <4>1, <4>2
    <3>2. ASSUME NEW g \in Handles PROVE Within(g)' /\ At(g)'
      <4>1. CASE g = h
        BY <2>1, <3>1, <4>1 DEF Within, At, Copying, CopyPcs
      <4>2. CASE g # h
        BY <1>3c, <2>1, <2>2, <4>2
      <4> QED
        BY <4>1, <4>2
    <3>3. CASE Unlink(filename)
      <4>1. /\ present' = present \ {filename} /\ fd' \in {fd, Unlinked}
            /\ cached'[filename] = <<>>
            /\ \A f \in Files : f # filename => cached'[f] = cached[f]
        BY <1>1, <2>2, <3>3 DEF Unlink
      <4>2. OneOpen'
        BY <1>2, <2>1, <2>2, <4>1 DEF QuietInv, OneOpen
      <4>3. NoNulls'
        BY <4>1 DEF QuietInv, NoNulls
      <4>4. Stored'
        <5>1. fd' \in {NoFile, Unlinked}
          BY <2>2, <3>3 DEF Unlink, QuietInv, OneOpen
        <5> QED
          BY <1>2, <4>1, <5>1 DEF QuietInv, Stored
      <4> QED
        BY <2>1b, <3>2, <4>2, <4>3, <4>4 DEF QuietInv
    <3>4. CASE /\ filename \in present /\ filesize > Trunc
               /\ cached' = [cached EXCEPT ![filename] = Truncated(@)]
               /\ UNCHANGED <<present, fd, lost>>
      <4> DEFINE c == cached[filename]
      <4>1. c \in Seq(Unit) /\ Len(c) \in Nat
        BY <1>1, <2>2
      <4>2. Trunc < Len(c) /\ Trunc \in Nat
        BY <1>1, <2>2, <2>4, <3>4, <4>1, BunnyCacheAssumption
      <4>3. /\ cached'[filename] = Truncated(c)
            /\ \A f \in Files : f # filename => cached'[f] = cached[f]
        BY <1>1, <2>2, <3>4
      <4>4. \A i \in 1 .. Len(c) : c[i] # "null"
        BY <2>2 DEF QuietInv, NoNulls
      <4> HIDE DEF c
      <4>5. /\ Len(Truncated(c)) = Trunc
            /\ \A i \in 1 .. Trunc : Truncated(c)[i] # "null"
        <5>1. Len(Truncated(c)) = Trunc
          BY <4>1, TruncatedTyped
        <5>2. \A i \in 1 .. Trunc : i <= Len(c) /\ i \in 1 .. Len(c)
          BY <4>1, <4>2
        <5> QED
          BY <4>4, <5>1, <5>2 DEF Truncated
      <4>6. NoNulls' /\ Stored'
        BY <2>2, <3>4, <4>3, <4>5 DEF QuietInv, NoNulls, Stored
      <4>7. OneOpen'
        BY <2>1, <2>2, <3>4 DEF QuietInv, OneOpen
      <4> QED
        BY <2>1b, <3>2, <4>6, <4>7 DEF QuietInv
    <3> QED
      BY <2>3, <2>4, <3>3, <3>4 DEF Retire
  <2> QED
    BY <1>9, <2>3, <2>4 DEF Finish
<1> QED
  BY <1>4, <1>5, <1>6, <1>7, <1>8b, <1>8c, <1>8d, <1>8e, <1>9 DEF Reader, ReadSteps

LEMMA QuietInit == Init => QInv
<1> SUFFICES ASSUME Init PROVE QuietInv
  BY TypeInit DEF QInv
<1>1. /\ \A f \in Files : cached[f] = <<>>
      /\ \A h \in Handles : pc[h] = "closed" /\ got[h] = "none"
  BY DEF Init
<1> QED
  BY <1>1, Names DEF Init, QuietInv, OneOpen, NoNulls, Stored, Writing, Within, At,
     Copying, CopyPcs

LEMMA QuietStep == QInv /\ [Next]_vars => QInv'
<1> SUFFICES ASSUME QInv, [Next]_vars, Quiet'
             PROVE  QuietInv'
  BY TypeStep DEF QInv
<1>1. TypeInv /\ TypeInv'
  BY TypeStep DEF QInv
<1>2. Quiet
  <2>1. upset \subseteq upset'
    <3>1. CacheThread => upset \subseteq upset'
      BY DEF CacheThread, Wake, WakeOpen, WakeBad, First, Again, Prepare, Send, Fetched,
         BadAnswer, NoConnection, Write, Signal, Exit
    <3>2. \A h \in Handles : Reader(h) => upset \subseteq upset'
      BY DEF Reader, ReadSteps, Open, Seek, Close, Read, SetVal, WaitZero, Look, Wait,
         NoData, OpenCache, ReadCache, ReadAgain, CloseCache, Finish
    <3> QED
      BY <3>1, <3>2 DEF Next, vars
  <2> QED
    BY <2>1 DEF Quiet
<1>3. QuietInv
  BY <1>2 DEF QInv
<1>4. CASE UNCHANGED vars
  BY <1>3, <1>4 DEF QuietInv, OneOpen, NoNulls, Stored, Writing, Within, At, Copying,
     Want, vars, diskVars, fdVars, globalVars, threadVars, copyVars, readerVars
<1> QED
  BY <1>1, <1>3, <1>4, QuietThread, QuietReader DEF Next

\* bunny_read2: a call that copied nothing into the buffer, but returns its length,
\* began beyond what was cached or beyond what an int can hold, or two files were
\* open: for any sizes, also when files are opened too early, connections fail and
\* cache files are cut.
THEOREM NothingServed == Spec => []NothingIsNotData
<1>1. QInv => NothingIsNotData
  BY DEF QInv, Quiet, QuietInv, At, NothingIsNotData
<1> QED
  BY <1>1, QuietInit, QuietStep, PTL DEF Spec

=============================================================================
