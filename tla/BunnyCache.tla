----------------------------- MODULE BunnyCache -----------------------------
(***************************************************************************)
(* The file cache of the media server (bunny.cc).  libupnp answers each    *)
(* request of a renderer in a thread of its own with calls of bunny_open,  *)
(* bunny_seek, bunny_read2 and bunny_close.  bunny_read2 publishes what it *)
(* reads in global variables, wakes the cache thread and waits until the   *)
(* cache file holds enough; the cache thread fetches the file from its     *)
(* server in pieces, in order, and appends them to the cache file.         *)
(*                                                                         *)
(* bunny_cache_mutex covers each use of the globals except three: the loop *)
(* test of the cache thread, its request to the server, and the copy after *)
(* "no data", which ends with the unlock of a mutex that is not held (and  *)
(* frees it, whoever holds it).  A section under the mutex is one action,  *)
(* but for the two the unlocked copy can come between: the write of a      *)
(* packet, and the copy itself with its two reads.                         *)
(*                                                                         *)
(* A file is counted in units, of which a buffer of the reader and a       *)
(* packet of the server hold several; a cached unit is abstracted to       *)
(* whether it is the file's at that place.                                 *)
(***************************************************************************)
EXTENDS Naturals, Sequences

CONSTANTS
  Files,         \* files of the catalogue (bunny_cache_request)
  NoFile,        \* the empty name
  Handles,       \* web_file_t structures, each with its libupnp thread
  Size,          \* units of each file (entry->size)
  Prefetch,      \* units a flac file needs before it is played, else 0
  CacheSize,     \* how far the cache runs ahead (bunny_cache_size)
  FetchLen,      \* units in one request to the server
  BufLen,        \* units in libupnp's buffer
  IntMax,        \* the last position an int can hold: lseek's result is one
  Trunc,         \* units kept by bunny_dspcache_retain = 2
  Retains,       \* the configured bunny_dspcache_retain is one of these
  Tolerated,     \* failed connections since an answer that do not end the loop
  MaxOpens,      \* bound: files ever opened
  MaxFailures,   \* bound: failed connections
  SemMax         \* bound: the semaphores are not raised further

ASSUME BunnyCacheAssumption ==
  /\ NoFile \notin Files
  /\ "unlinked" \notin Files \cup {NoFile}
  /\ Size \in [Files -> Nat \ {0}]
  /\ Prefetch \in [Files -> Nat]
  /\ \A f \in Files : Prefetch[f] <= Size[f]
  /\ CacheSize \in [Files -> Nat]
  /\ FetchLen \in Nat \ {0}
  /\ BufLen \in Nat \ {0}
  /\ IntMax \in Nat
  /\ Trunc \in Nat
  /\ Retains \subseteq 0 .. 2
  /\ Tolerated \in Nat
  /\ MaxOpens \in Nat
  /\ MaxFailures \in Nat
  /\ SemMax \in Nat \ {0}

VARIABLES
  retain,        \* bunny_dspcache_retain
  present,       \* the cache files that exist
  cached,        \* cached[f]: the units of f's cache file
  fd,            \* file bunny_cache_fd is open on, NoFile, or Unlinked
  lost,          \* length of the unlinked file
  toRead,        \* bunny_cache_fd was opened O_RDONLY, not to append
  offset,        \* and then its file offset
  mutex,         \* bunny_cache_mutex
  start,         \* bunny_cache_starting_filepos
  filepos,       \* bunny_cache_filepos
  filesize,      \* bunny_cache_filesize
  filename,      \* bunny_cache_filename
  request,       \* bunny_cache_request and bunny_cache_servername
  sem,           \* bunny_cache_sem
  semdata,       \* bunny_cache_semdata
  at,            \* where the cache thread is
  t,             \* its locals: t_pos, t_filesize, t_request, buflen, done
  asked,         \* the range it asks the server for
  packet,        \* obj.packet
  errors,        \* connect_errors
  failures,      \* number of failed connections
  pc,            \* where each handle's thread is
  file,          \* file->fullpath
  pos,           \* file->pos
  left,          \* units libupnp has still to send
  path,          \* cachefile of the copy
  got,           \* what the copy put into the whole buffer
  opens,         \* number of files opened
  upset          \* history: what happened that the cache is not made for

globalVars == <<start, filepos, filesize, filename, request>>
diskVars == <<present, cached, fd, lost>>
fdVars == <<toRead, offset>>
semVars == <<sem, semdata>>
connectVars == <<errors, failures>>
threadVars == <<at, t, asked, packet, connectVars>>
copyVars == <<path, got>>
readerVars == <<pc, file, pos, left, opens>>
vars == <<retain, diskVars, fdVars, mutex, globalVars, semVars, threadVars,
          copyVars, readerVars, upset>>

Unlinked == "unlinked"
Unit == {"right", "wrong", "null"}

\* What the cache is not made for, recorded when it happens: a file is opened
\* while another one is open (overlap) or while the cache thread is still at
\* work (late); a connection fails (connect); a read starts beyond what is
\* cached (beyond), and its copy without the mutex meets the cache thread as it
\* uses the descriptor (torn); bunny_cache_semdata is raised while bunny_read2
\* waits for zero (raised).
Causes == {"overlap", "late", "connect", "beyond", "torn", "raised"}

Ats == {"wait", "first", "again", "prepare", "send", "append", "write", "signal",
        "full", "exit"}
CopyPcs == {"open", "read", "reread", "close"}
ReadPcs == {"setval", "zero", "loop", "wait", "nodata", "finish"} \cup CopyPcs
Pcs == {"closed", "opened", "idle"} \cup ReadPcs

\* Unsigned 64 bit: a - b < n, where a - b wraps to a huge value when a < b.
Below(a, b, n) == b <= a /\ a - b < n

\* semop(1), up to the bound.
Raised(value) == IF value < SemMax THEN value + 1 ELSE value

\* `over` stands for finished, done and g_quit, which end the loop.
Locals == [pos : Nat, size : Nat, request : Files \cup {NoFile}, limit : Nat,
           len : Nat, over : BOOLEAN]
NoLocals == [pos |-> 0, size |-> 0, request |-> NoFile, limit |-> 0, len |-> 0,
             over |-> FALSE]

\* libupnp gives its buffer, or what of it is still to be sent, as buflen.
Want(h) == IF left[h] < BufLen THEN left[h] ELSE BufLen

Copying(h) == pc[h] \in CopyPcs

Buffers == {"none", "right", "wrong", "null"}

\* Length of the file that bunny_cache_fd is open on (fstat).
FdLen == IF fd = Unlinked THEN lost ELSE Len(cached[fd])

\* The units from, from + 1, ... of a file; obj.packet.
Packets == [file : Files \cup {NoFile}, from : Nat, len : Nat]
NoPacket == [file |-> NoFile, from |-> 0, len |-> 0]

Init ==
  /\ retain \in Retains
  /\ present = {}
  /\ cached = [f \in Files |-> <<>>]
  /\ fd = NoFile
  /\ lost = 0
  /\ toRead = FALSE
  /\ offset = 0
  /\ mutex = "free"
  /\ start = 0 /\ filepos = 0 /\ filesize = 0
  /\ filename = NoFile
  /\ request = NoFile
  /\ sem = 0 /\ semdata = 0
  /\ at = "wait"
  /\ t = NoLocals
  /\ asked = NoPacket
  /\ packet = NoPacket
  /\ errors = 0 /\ failures = 0
  /\ pc = [h \in Handles |-> "closed"]
  /\ file = [h \in Handles |-> NoFile]
  /\ pos = [h \in Handles |-> 0]
  /\ left = [h \in Handles |-> 0]
  /\ path = [h \in Handles |-> NoFile]
  /\ got = [h \in Handles |-> "none"]
  /\ opens = 0
  /\ upset = {}

-----------------------------------------------------------------------------
(***************************************************************************)
(* Cache files.                                                            *)
(***************************************************************************)

\* unlink: a descriptor that is open keeps the file, without its name.
Unlink(f) ==
  /\ present' = present \ {f}
  /\ cached' = [cached EXCEPT ![f] = <<>>]
  /\ fd' = IF fd = f THEN Unlinked ELSE fd
  /\ lost' = IF fd = f THEN Len(cached[f]) ELSE lost

\* ftruncate cuts a longer file and fills up a shorter one with nulls.
Truncated(blocks) ==
  [i \in 1 .. Trunc |-> IF i <= Len(blocks) THEN blocks[i] ELSE "null"]

\* What is done with the cache file of filename when it is no longer played.
Retire ==
  \/ /\ retain = 0 /\ filename # NoFile
     /\ Unlink(filename)
  \/ /\ retain = 2 /\ filename \in present /\ filesize > Trunc
     /\ cached' = [cached EXCEPT ![filename] = Truncated(@)]
     /\ UNCHANGED <<present, fd, lost>>
  \/ /\ \/ retain = 1
        \/ filename = NoFile
        \/ retain = 2 /\ ~(filename \in present /\ filesize > Trunc)
     /\ UNCHANGED diskVars

-----------------------------------------------------------------------------
(***************************************************************************)
(* The cache thread.                                                       *)
(***************************************************************************)

\* The descriptor is reopened to append, and the globals are copied.
WakeOpen ==
  /\ filename # NoFile
  /\ fd' = filename
  /\ present' = present \cup {filename}
  /\ start' = Len(cached[filename])
  /\ toRead' = FALSE
  /\ t' = [t EXCEPT !.pos = filepos, !.size = filesize, !.request = request,
                    !.over = FALSE, !.limit = CacheSize[filename]]
  /\ UNCHANGED upset

\* There is no file to open, or a copy without the mutex closes the descriptor
\* before fstat: nothing is fetched.
WakeBad ==
  /\ \/ filename = NoFile /\ UNCHANGED <<present, upset>>
     \/ /\ filename # NoFile /\ \E h \in Handles : Copying(h)
        /\ present' = present \cup {filename}
        /\ upset' = upset \cup {"torn"}
  /\ fd' = NoFile
  /\ t' = [t EXCEPT !.pos = 0, !.size = 0, !.request = NoFile, !.over = FALSE]
  /\ UNCHANGED <<start, toRead>>

Wake ==
  /\ at = "wait" /\ sem > 0
  /\ mutex = "free"
  /\ sem' = sem - 1
  /\ at' = "first"
  /\ WakeOpen \/ WakeBad
  /\ UNCHANGED <<retain, cached, lost, offset, mutex, filepos, filesize, filename,
                 request, semdata, asked, packet, connectVars, copyVars,
                 readerVars>>

\* There is room ahead of the reader and something left to fetch.
Room == Below(start, t.pos, t.limit + 1) /\ start < t.size

\* Mutant: a full buffer signals nobody either.
FirstSilent ==
  /\ at = "first"
  /\ at' = IF t.pos < t.size /\ Room THEN "prepare" ELSE "wait"
  /\ t' = IF at' = "prepare" THEN t ELSE NoLocals
  /\ UNCHANGED <<retain, diskVars, fdVars, mutex, globalVars, semVars, asked,
                 packet, connectVars, copyVars, readerVars, upset>>

\* The first test: "bad pos" signals nobody, "buffer full" the reader.
First ==
  /\ at = "first"
  /\ at' = IF t.pos >= t.size THEN "wait"
           ELSE IF Room THEN "prepare" ELSE "full"
  /\ t' = IF at' = "prepare" THEN t ELSE NoLocals
  /\ UNCHANGED <<retain, diskVars, fdVars, mutex, globalVars, semVars, asked,
                 packet, connectVars, copyVars, readerVars, upset>>

\* The test of the loop after each round.
Again ==
  /\ at = "again"
  /\ at' = IF Room /\ ~t.over THEN "prepare" ELSE "exit"
  /\ UNCHANGED <<retain, diskVars, fdVars, mutex, globalVars, semVars, t, asked,
                 packet, connectVars, copyVars, readerVars, upset>>

\* How much to fetch, under the mutex, if the request is still the same.
Prepare ==
  /\ at = "prepare"
  /\ mutex = "free"
  /\ LET short == Below(filesize, start, FetchLen) IN
     t' = [t EXCEPT !.len = IF short THEN filesize - start ELSE FetchLen,
                    !.over = short \/ request # t.request]
  /\ fd' = IF request # t.request THEN NoFile ELSE fd
  /\ at' = IF request # t.request THEN "signal" ELSE "send"
  /\ UNCHANGED <<retain, present, cached, lost, fdVars, mutex, globalVars,
                 semVars, asked, packet, connectVars, copyVars, readerVars,
                 upset>>

\* Mutant: the range starts at the reader's position.
SendFromReader ==
  /\ at = "send"
  /\ asked' = [file |-> request, from |-> filepos, len |-> t.len]
  /\ at' = "append"
  /\ UNCHANGED <<retain, diskVars, fdVars, mutex, globalVars, semVars, t, packet,
                 connectVars, copyVars, readerVars, upset>>

\* The request to the server, from the globals as they are without the mutex.
Send ==
  /\ at = "send"
  /\ asked' = [file |-> request, from |-> start, len |-> t.len]
  /\ at' = "append"
  /\ UNCHANGED <<retain, diskVars, fdVars, mutex, globalVars, semVars, t, packet,
                 connectVars, copyVars, readerVars, upset>>

\* The server has the range that was asked for.
Served(p) == p.len > 0 /\ p.from + p.len <= Size[p.file]

\* The units of packet p at the end of a cache file of f with n units.
Units(p, f, n) ==
  [i \in 1 .. p.len |-> IF p.file = f /\ p.from = n THEN "right" ELSE "wrong"]

\* The mutex is taken after the fetch.  Packet p is for nobody when the request
\* changed or no file is open; otherwise the descriptor is opened by name when
\* a reader closed it, and the mutex is kept for the write.
Enter(p) ==
  \/ /\ request # t.request
     /\ t' = [t EXCEPT !.over = TRUE]
     /\ fd' = NoFile
     /\ at' = "signal"
     /\ UNCHANGED <<present, toRead, mutex, start>>
  \/ /\ request = t.request
     /\ fd = NoFile /\ filename = NoFile
     /\ t' = [t EXCEPT !.over = TRUE]
     /\ start' = start + p.len
     /\ at' = "signal"
     /\ UNCHANGED <<present, fd, toRead, mutex>>
  \/ /\ request = t.request
     /\ \/ fd # NoFile /\ UNCHANGED <<present, fd, toRead>>
        \/ /\ fd = NoFile /\ filename # NoFile
           /\ fd' = filename
           /\ present' = present \cup {filename}
           /\ toRead' = FALSE
     /\ mutex' = "taken"
     /\ at' = "write"
     /\ UNCHANGED <<t, start>>

\* A copy without the mutex is under way as the mutex is taken for the write.
Torn ==
  IF at' = "write" /\ \E h \in Handles : Copying(h) THEN {"torn"} ELSE {}

\* The server answered with the range.
Fetched ==
  /\ at = "append"
  /\ mutex = "free"
  /\ Served(asked)
  /\ packet' = asked
  /\ Enter(asked)
  /\ asked' = NoPacket
  /\ errors' = 0
  /\ upset' = upset \cup Torn
  /\ UNCHANGED <<retain, cached, lost, offset, filepos, filesize, filename, request,
                 semVars, failures, copyVars, readerVars>>

\* It answered with something else, or not in time.
BadAnswer ==
  /\ at = "append"
  /\ mutex = "free"
  /\ packet' = NoPacket
  /\ t' = [t EXCEPT !.over = TRUE]
  /\ at' = "signal"
  /\ asked' = NoPacket
  /\ errors' = 0
  /\ UNCHANGED <<retain, diskVars, fdVars, mutex, globalVars, semVars, failures,
                 copyVars, readerVars, upset>>

\* No connection at the first try.  The thread goes on with the packet of the
\* round before if the second try succeeds, and if it fails too unless that
\* happened too often.
NoConnection ==
  /\ at = "append"
  /\ mutex = "free"
  /\ failures < MaxFailures
  /\ failures' = failures + 1
  /\ \/ /\ errors' \in errors .. (IF errors < Tolerated THEN errors + 1 ELSE errors)
        /\ Enter(packet)
     \/ /\ errors = Tolerated
        /\ t' = [t EXCEPT !.over = TRUE]
        /\ at' = "signal"
        /\ UNCHANGED <<errors, present, fd, toRead, mutex, start>>
  /\ asked' = NoPacket
  /\ upset' = upset \cup {"connect"} \cup Torn
  /\ UNCHANGED <<retain, cached, lost, offset, filepos, filesize, filename, request,
                 semVars, packet, copyVars, readerVars>>

\* The packet is written, and the length of the file is the new position.  A
\* descriptor that a copy without the mutex closed (stat error) or opened for
\* reading takes nothing.
Write ==
  /\ at = "write"
  /\ \/ /\ fd = NoFile
        /\ start' = start + packet.len
        /\ UNCHANGED <<cached, lost>>
     \/ /\ fd # NoFile /\ toRead
        /\ start' = FdLen
        /\ UNCHANGED <<cached, lost>>
     \/ /\ fd = Unlinked /\ ~toRead
        /\ lost' = lost + packet.len
        /\ start' = lost + packet.len
        /\ UNCHANGED cached
     \/ /\ fd \in Files /\ ~toRead
        /\ cached' = [cached EXCEPT ![fd] = @ \o Units(packet, fd, Len(@))]
        /\ start' = Len(cached[fd]) + packet.len
        /\ UNCHANGED lost
  /\ mutex' = "free"
  /\ at' = "signal"
  /\ UNCHANGED <<retain, present, fd, fdVars, filepos, filesize, filename, request,
                 semVars, t, asked, packet, connectVars, copyVars, readerVars,
                 upset>>

\* After each round the reader is told.
Signal ==
  /\ at \in {"signal", "full"}
  /\ semdata' = Raised(semdata)
  /\ at' = IF at = "signal" THEN "again" ELSE "wait"
  /\ upset' = upset \cup
       (IF \E h \in Handles : pc[h] = "zero" THEN {"raised"} ELSE {})
  /\ UNCHANGED <<retain, diskVars, fdVars, mutex, globalVars, sem, t, asked,
                 packet, connectVars, copyVars, readerVars>>

\* The end of the loop.
Exit ==
  /\ at = "exit"
  /\ mutex = "free"
  /\ fd' = NoFile
  /\ at' = "wait"
  /\ t' = NoLocals /\ packet' = NoPacket
  /\ UNCHANGED <<retain, present, cached, lost, fdVars, mutex, globalVars, semVars,
                 asked, connectVars, copyVars, readerVars, upset>>

CacheThread ==
  Wake \/ First \/ Again \/ Prepare \/ Send \/ Fetched \/ BadAnswer
    \/ NoConnection \/ Write \/ Signal \/ Exit

-----------------------------------------------------------------------------
(***************************************************************************)
(* The threads of libupnp, one per open file.                              *)
(***************************************************************************)

Goto(h, l) == pc' = [pc EXCEPT ![h] = l]

\* bunny_open: what the globals still name is retired.
Open(h) ==
  /\ pc[h] = "closed"
  /\ mutex = "free"
  /\ opens < MaxOpens
  /\ opens' = opens + 1
  /\ Retire
  /\ \E f \in Files :
       /\ file' = [file EXCEPT ![h] = f]
       /\ filename' = f
       /\ filesize' = Size[f]
       /\ left' = [left EXCEPT ![h] = Size[f]]
  /\ pos' = [pos EXCEPT ![h] = 0]
  /\ start' = 0 /\ filepos' = 0
  /\ Goto(h, "opened")
  /\ upset' = upset \cup
       (IF \E g \in Handles : pc[g] # "closed" THEN {"overlap"} ELSE {}) \cup
       (IF at # "wait" \/ sem > 0 THEN {"late"} ELSE {})
  /\ UNCHANGED <<retain, fdVars, mutex, request, semVars, threadVars, copyVars>>

\* bunny_seek, for the range of a request.
Seek(h) ==
  /\ pc[h] = "opened"
  /\ \E p \in 0 .. Size[file[h]] - 1 :
       /\ pos' = [pos EXCEPT ![h] = p]
       /\ left' = [left EXCEPT ![h] = Size[file[h]] - p]
  /\ Goto(h, "idle")
  /\ UNCHANGED <<retain, diskVars, fdVars, mutex, globalVars, semVars, threadVars,
                 copyVars, file, opens, upset>>

\* bunny_close
Close(h) ==
  /\ pc[h] \in {"opened", "idle"}
  /\ mutex = "free"
  /\ Goto(h, "closed")
  /\ file' = [file EXCEPT ![h] = NoFile]
  /\ pos' = [pos EXCEPT ![h] = 0]
  /\ left' = [left EXCEPT ![h] = 0]
  /\ fd' = NoFile
  /\ start' = 0 /\ filepos' = 0 /\ filesize' = 0
  /\ filename' = NoFile
  /\ UNCHANGED <<retain, present, cached, lost, fdVars, mutex, request, semVars,
                 threadVars, copyVars, opens, upset>>

\* bunny_read2 publishes what it reads; at the start of the file it looks what
\* the cache already holds.
Read(h) ==
  /\ pc[h] \in {"opened", "idle"}
  /\ mutex = "free"
  /\ left[h] > 0
  /\ filepos' = pos[h]
  /\ filesize' = Size[file[h]]
  /\ request' = file[h]
  /\ filename' = file[h]
  /\ \/ /\ pos[h] = 0
        /\ start' = Len(cached[file[h]])
        /\ fd' = NoFile
        /\ Goto(h, "setval")
        /\ UNCHANGED sem
     \/ /\ pos[h] # 0
        /\ sem' = Raised(sem)
        /\ Goto(h, "loop")
        /\ UNCHANGED <<start, fd>>
  /\ UNCHANGED <<retain, present, cached, lost, fdVars, mutex, semdata, threadVars,
                 copyVars, file, pos, left, opens, upset>>

\* semctl(SETVAL, 0), and then semop waits for zero.
SetVal(h) ==
  /\ pc[h] = "setval"
  /\ semdata' = 0
  /\ Goto(h, "zero")
  /\ UNCHANGED <<retain, diskVars, fdVars, mutex, globalVars, sem, threadVars,
                 copyVars, file, pos, left, opens, upset>>

WaitZero(h) ==
  /\ pc[h] = "zero" /\ semdata = 0
  /\ sem' = Raised(sem)
  /\ Goto(h, "loop")
  /\ UNCHANGED <<retain, diskVars, fdVars, mutex, globalVars, semdata, threadVars,
                 copyVars, file, pos, left, opens, upset>>

\* Mutant: one unit less than the buffer is enough.
ShortOffByOne(h) ==
  \/ pos[h] = 0 /\ start < Prefetch[file[h]]
  \/ Below(start, filepos, Want(h) - 1)

\* The cache is not far enough: a flac file is prefetched at its start, and
\* otherwise one buffer must be there.
Short(h) ==
  \/ pos[h] = 0 /\ start < Prefetch[file[h]]
  \/ Below(start, filepos, Want(h))

\* One round of bunny_read2's loop: it returns, waits, or keeps the mutex and
\* copies.
Look(h) ==
  /\ pc[h] = "loop"
  /\ mutex = "free"
  /\ \/ /\ filepos >= filesize
        /\ Goto(h, "idle")
        /\ left' = [left EXCEPT ![h] = 0]
        /\ UNCHANGED <<mutex, sem, upset>>
     \/ /\ filepos < filesize
        /\ Short(h)
        /\ sem' = Raised(sem)
        /\ Goto(h, "wait")
        /\ UNCHANGED <<mutex, left, upset>>
     \/ /\ filepos < filesize
        /\ ~Short(h)
        /\ start <= filepos
        /\ sem' = Raised(sem)
        /\ Goto(h, "nodata")
        /\ upset' = upset \cup {"beyond"}
        /\ UNCHANGED <<mutex, left>>
     \/ /\ filepos < filesize
        /\ ~Short(h)
        /\ start > filepos
        /\ mutex' = "taken"
        /\ Goto(h, "open")
        /\ UNCHANGED <<sem, left, upset>>
  /\ UNCHANGED <<retain, diskVars, fdVars, globalVars, semdata, threadVars,
                 copyVars, file, pos, opens>>

\* Waits for the cache thread, then looks again.
Wait(h) ==
  /\ pc[h] = "wait" /\ semdata > 0
  /\ semdata' = semdata - 1
  /\ Goto(h, "loop")
  /\ UNCHANGED <<retain, diskVars, fdVars, mutex, globalVars, sem, threadVars,
                 copyVars, file, pos, left, opens, upset>>

\* "no data": waits and goes on to the copy without the mutex.
NoData(h) ==
  /\ pc[h] = "nodata" /\ semdata > 0
  /\ semdata' = semdata - 1
  /\ Goto(h, "open")
  /\ upset' = IF at = "write" THEN upset \cup {"torn"} ELSE upset
  /\ UNCHANGED <<retain, diskVars, fdVars, mutex, globalVars, sem, threadVars,
                 copyVars, file, pos, left, opens>>

\* The copy begins: the cache file that the globals name is opened.  Nothing is
\* copied when it is not there, or is shorter than the position: then it is
\* removed.
OpenCache(h) ==
  /\ pc[h] = "open"
  /\ \/ /\ filename \in present /\ pos[h] <= Len(cached[filename])
        /\ fd' = filename
        /\ toRead' = TRUE /\ offset' = 0
        /\ path' = [path EXCEPT ![h] = filename]
        /\ Goto(h, "read")
        /\ UNCHANGED <<present, cached, mutex>>
     \/ /\ filename \in present /\ pos[h] > Len(cached[filename])
        /\ present' = present \ {filename}
        /\ cached' = [cached EXCEPT ![filename] = <<>>]
        /\ fd' = NoFile
        /\ mutex' = "free"
        /\ Goto(h, "finish")
        /\ UNCHANGED <<fdVars, path>>
     \/ /\ filename \notin present
        /\ fd' = NoFile
        /\ mutex' = "free"
        /\ Goto(h, "finish")
        /\ UNCHANGED <<present, cached, fdVars, path>>
  /\ UNCHANGED <<retain, lost, globalVars, semVars, threadVars, got, file, pos,
                 left, opens, upset>>

\* What the buffer of h holds after it was filled from offset o of the open
\* file; of an unlinked file nothing is known.
Buffered(h, o) ==
  IF fd = Unlinked THEN "wrong"
  ELSE IF cached[fd][o + 1] = "null" THEN "null"
  ELSE IF /\ fd = file[h] /\ o = pos[h]
          /\ \A i \in o + 1 .. o + Want(h) : cached[fd][i] = "right"
       THEN "right"
  ELSE "wrong"

\* lseek and the first read.  When the file has less than a buffer, or the
\* descriptor is the cache thread's by now, there will be a second one.
ReadCache(h) ==
  /\ pc[h] = "read"
  /\ \/ /\ fd = NoFile \/ pos[h] > IntMax
        /\ Goto(h, "close")
        /\ UNCHANGED <<offset, got>>
     \/ /\ fd # NoFile /\ pos[h] <= IntMax
        /\ toRead /\ pos[h] + Want(h) <= FdLen
        /\ offset' = pos[h] + Want(h)
        /\ got' = [got EXCEPT ![h] = Buffered(h, pos[h])]
        /\ Goto(h, "close")
     \/ /\ fd # NoFile /\ pos[h] <= IntMax
        /\ ~(toRead /\ pos[h] + Want(h) <= FdLen)
        /\ offset' = IF toRead /\ pos[h] < FdLen THEN FdLen ELSE pos[h]
        /\ Goto(h, "reread")
        /\ UNCHANGED got
  /\ UNCHANGED <<retain, diskVars, toRead, mutex, globalVars, semVars, threadVars,
                 path, file, pos, left, opens, upset>>

\* The second read, a second later, goes on where the first one ended but fills
\* the buffer from its beginning.
ReadAgain(h) ==
  /\ pc[h] = "reread"
  /\ \/ /\ fd # NoFile /\ toRead /\ offset + Want(h) <= FdLen
        /\ got' = [got EXCEPT ![h] = Buffered(h, offset)]
        /\ offset' = offset + Want(h)
     \/ /\ ~(fd # NoFile /\ toRead /\ offset + Want(h) <= FdLen)
        /\ UNCHANGED <<got, offset>>
  /\ Goto(h, "close")
  /\ UNCHANGED <<retain, diskVars, toRead, mutex, globalVars, semVars, threadVars,
                 path, file, pos, left, opens, upset>>

\* The end of the copy: a whole buffer moves the position, and one that begins
\* with nulls at the start of the file removes the cache file.
CloseCache(h) ==
  /\ pc[h] = "close"
  /\ \/ /\ got[h] = "none"
        /\ UNCHANGED <<present, cached, pos, start>>
     \/ /\ got[h] = "null" /\ pos[h] = 0
        /\ pos' = [pos EXCEPT ![h] = @ + Want(h)]
        /\ present' = present \ {path[h]}
        /\ cached' = [cached EXCEPT ![path[h]] = <<>>]
        /\ UNCHANGED start
     \/ /\ got[h] # "none" /\ ~(got[h] = "null" /\ pos[h] = 0)
        /\ pos' = [pos EXCEPT ![h] = @ + Want(h)]
        /\ start' = IF fd = NoFile THEN start ELSE FdLen
        /\ UNCHANGED <<present, cached>>
  /\ fd' = NoFile
  /\ mutex' = "free"
  /\ Goto(h, "finish")
  /\ UNCHANGED <<retain, lost, fdVars, filepos, filesize, filename, request, semVars,
                 threadVars, copyVars, file, left, opens, upset>>

\* At the end of the file the cache file is retired.  buflen is returned.
Finish(h) ==
  /\ pc[h] = "finish"
  /\ mutex = "free"
  /\ \/ pos[h] >= filesize /\ Retire
     \/ pos[h] < filesize /\ UNCHANGED diskVars
  /\ left' = [left EXCEPT ![h] = @ - Want(h)]
  /\ got' = [got EXCEPT ![h] = "none"]
  /\ path' = [path EXCEPT ![h] = NoFile]
  /\ Goto(h, "idle")
  /\ UNCHANGED <<retain, fdVars, mutex, globalVars, semVars, threadVars, file, pos,
                 opens, upset>>

ReadSteps(h) ==
  SetVal(h) \/ WaitZero(h) \/ Look(h) \/ Wait(h) \/ NoData(h) \/ OpenCache(h)
    \/ ReadCache(h) \/ ReadAgain(h) \/ CloseCache(h) \/ Finish(h)

Reader(h) == Open(h) \/ Seek(h) \/ Close(h) \/ Read(h) \/ ReadSteps(h)

Next == CacheThread \/ \E h \in Handles : Reader(h)

Spec == Init /\ [][Next]_vars

-----------------------------------------------------------------------------
TypeOK ==
  /\ retain \in Retains
  /\ present \subseteq Files
  /\ cached \in [Files -> Seq(Unit)]
  /\ fd \in Files \cup {NoFile, Unlinked}
  /\ lost \in Nat
  /\ toRead \in BOOLEAN /\ offset \in Nat
  /\ mutex \in {"free", "taken"}
  /\ start \in Nat /\ filepos \in Nat /\ filesize \in Nat
  /\ filename \in Files \cup {NoFile}
  /\ request \in Files \cup {NoFile}
  /\ sem \in Nat /\ semdata \in Nat
  /\ at \in Ats
  /\ t \in Locals
  /\ asked \in Packets /\ packet \in Packets
  /\ errors \in Nat /\ failures \in Nat
  /\ pc \in [Handles -> Pcs]
  /\ file \in [Handles -> Files \cup {NoFile}]
  /\ pos \in [Handles -> Nat]
  /\ left \in [Handles -> Nat]
  /\ path \in [Handles -> Files \cup {NoFile}]
  /\ got \in [Handles -> Buffers]
  /\ opens \in Nat
  /\ upset \subseteq Causes

\* A cache file is a beginning of the file it is named after, unit by unit,
\* unless a connection failed (394: the packet of the round before is written
\* again), a file was opened while the cache thread was still at work (the
\* packet goes to the file that is named by then) or while another was open, or
\* a copy without the mutex took the descriptor from under a write.
IsPrefix(f) == \A i \in 1 .. Len(cached[f]) : cached[f][i] = "right"

Disturbed == upset \cap {"connect", "late", "overlap", "torn"} # {}

CacheIsPrefix == (\A f \in Files : IsPrefix(f)) \/ Disturbed

\* bunny_read2 gives the renderer nothing but the next units of the file it
\* opened, under the same conditions: also in its second read (1106), which goes
\* on behind the first one but fills the buffer anew, and without the mutex.
ServesTheFile ==
  \A h \in Handles : got[h] \in {"wrong", "null"} => Disturbed

\* bunny_read2 returns buflen (1189) although it did not fill the buffer only
\* after a read that started beyond what was cached, with two open files, or
\* beyond what an int can hold (lseek, 1100).
NothingIsNotData ==
  \A h \in Handles :
    pc[h] = "finish" /\ got[h] = "none" =>
      pos[h] > IntMax \/ upset \cap {"beyond", "overlap"} # {}

\* The check of 437-440, "cache consistency error", finds none when a packet is
\* written: it goes to a file whose length is the position it was fetched for,
\* unless a file was opened too early or the descriptor was taken away.
Consistent ==
  at = "write" =>
    \/ fd # NoFile /\ ~toRead /\ start = FdLen
    \/ upset \cap {"late", "overlap", "torn"} # {}

-----------------------------------------------------------------------------
(***************************************************************************)
(* Fairness: threads run, and the server answers again and again when it   *)
(* is asked again and again for a range it has.                            *)
(***************************************************************************)
Fairness ==
  /\ WF_vars(CacheThread)
  /\ SF_vars(Fetched)
  /\ \A h \in Handles : WF_vars(ReadSteps(h))

FairSpec == Spec /\ Fairness

\* A call of bunny_read2 returns.  It does not when the cache thread, still at
\* work for an earlier wakeup, raises bunny_cache_semdata between SETVAL and the
\* wait for zero (931): the only thread that lowers it is the one that waits.
EveryReadReturns ==
  \A h \in Handles :
    pc[h] \in ReadPcs ~>
      \/ pc[h] \notin ReadPcs
      \/ upset \cap {"raised", "overlap"} # {}
=============================================================================
