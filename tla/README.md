# The Bunny Mechanism: specifications and proofs

TLA+ modules, TLC configurations and TLAPS proofs for the client framework of
The Bunny Mechanism (`src/src`, C++). A *Mech* server reads hardware, audit and
media devices with one worker thread each, sends what they report to a central
host, and passes the host's commands to them. Line numbers without a file are
those of `src/src/mech/Mech.cc`.

## 1. Inventory

### Parts, state, operations

| Part | State | Operations | What makes it correct |
|---|---|---|---|
| Data path to the host (1425-1707, 1982-2056) | `clientData`, `clientDataIndex`, `localData`, `localrecid`, `semDataID`, the packet in `o.dataout` | `add_client_data` (two overloads), `add_host_record`, `processClient`, `exportClientDataXML`, SENDCLIENTDATA, `doDataChanged` | no record is lost between a producer and the packet, none is sent twice or out of order, the main thread never sleeps over data |
| Command path from the host (942-1161; `Upnp_ushare.cc` 59-166; `Dsp_share.cc` 286-438) | `localidComm`, `localidSems`, one semaphore per worker, `semRespID` | `processHostCommand`, `doCommand`, the workers' `doControl` and `handleCommand` | each command is executed by the worker it names, each answer goes to the command it answers, at most once |
| Host session (190-689, 694-939, 1259-1423, 1690-1707) | `step`, `headerDone`, `headerProcessing`, the socket, in two threads | the cases of the two step machines, `send`, `Icomm::read`, reconnection | no data before the sign-on is complete; what a thread believes of the session is what the host does; every failure leads back to a signed-on session |
| Startup (29-184, 278-415, 766-787) | `semInitID`, `semRunID`, `_threadID`, `configMap`, effective user | thread creation, waits of 15 s, the release of the workers once rights are lowered | each worker gets its own entry; none touches a device before the rights are lowered |
| Semaphore allocator (`DssSems.cc`) | stack of numbers, `currentIndex`, two mutexes | `initSemaphores`, `getUserSemaphore`, `getClientSem` | two workers never share a number; exhaustion is an error, not a deadlock |
| Listener for local clients (1711-1980; `BaseServer.cc` 599-650) | stack of descriptors, semaphore, mutex | `doWork2`, `doWorker2`, `processLocalMsg` | each accepted descriptor is served once; acknowledged data is queued in order |
| Labjack workers (`labjack/`) | `motor_running`, `current_motor_step`, channel arrays | `readDeviceLoop`, `dpsLJMotor`, `handleCommand` | a motor runs its steps and stops; a command in conflict waits |
| System auditing (`generic/system/`) | `datavals`, `procvals`, tables of pids | `parse_buf`, `send_data`, `get_proc_vals`, `check_process` | a field goes to its own event; a process is named by what it ran; a verdict is right |
| File sharing (`generic/dsp/`) | the listing file, the link "current", `start_index` | `create_dirents_file`, `get_dirents`, `share_main`, `getFile` | paging covers each file once, in its directory |
| uShare fork (`generic/upnp/ushare/`) | the cache file and its positions, the entries, the lookup tree | `bunny_open`, `bunny_read`, cache thread, `bunny_upnp_get_entry`, browse, search, `rb*` | a renderer gets the file's bytes and the directory's own list |
| Framing and sockets (`icomm/Icomm.cc`, `dpsio/SocketIO.cc`) | field bitmap, fields, LRC, the descriptor | `set`, `print`, `read`, `writePacket`, `doRead` and its readers | what is accepted was sent |
| Process framework, database and file objects, parsers, log manager, macOS variants, Android app | | | `components` in `PROJECT.json` |

### How they interact

One *main* thread runs the session for data and the data path; one *control*
thread runs the session for commands and the command path; one *worker* per
configured localid reads its device; *listener* threads accept local clients.
They share `controlMutex` (the two maps and `localidComm`) and the System V
semaphores: a producer raises `semDataID` for the main thread, the control
thread raises a worker's semaphore, a worker raises `semRespID` for the control
thread, `semInitID` and `semRunID` order the start. The semaphores are used
outside the mutex, most waits have a timeout, and most results of waits decide
only whether to look again. uShare adds libupnp's threads, one per request, and
a cache thread of its own.

### What is hard

* Permits and the state they announce are separate: a permit is released after
  the unlock, thrown away by `semctl(SETVAL, 0)`, left over after a timeout, or
  missing after a conflict.
* An export may stop at a size limit in the middle of either map; a page of a
  listing may end after any line.
* `synced` and `done` are set before the data is written; "current" is linked
  before the listing is sent.
* `localidComm` is one multimap for all workers, and walks of it run to its end.
* Timeouts at startup are ignored, and names are found by counters shared
  between threads. Timeouts in the middle of a message leave its rest behind.
* uShare's cache and library are globals without a lock.

The full list, at the lines where it bites, is `hazards` in `PROJECT.json`. Two
more are not in it: a packet may end just below MAXDATASIZE and get its trailer
afterwards (1635; only the host can tell), and the macOS worker writes
`clientData` without `controlMutex` (`System_macosx.cc` 148; not modelled).

## 2. Modules

| Module | What it is |
|---|---|
| `AtMostOnceQueue` | abstract: one FIFO queue per kind of record, each taken at most once and in order, a packet received whole or lost |
| `ClientData`, `ClientDataProofs` | the data path, with the mutex, the semaphore, both maps and both loops of the export |
| `CommandCalls` | abstract: commands are executed while open, and answered at most once after they were executed |
| `CommandResponse`, `CommandResponseProofs` | the command path |
| `HostSession`, `HostSessionProofs` | the step machines of main and control thread, each with its link and the host |
| `Startup` | main thread, workers, allocator, command threads, rights |
| `LocalListener`, `StartupProofs` | extends `Startup` with the listener the main thread starts; the theorems about both |
| `LabjackT4`, `LabjackT4Proofs` | the T4 worker: commands, the motor and its steps, the device |
| `BunnyCache`, `BunnyCacheProofs` | uShare's cache of a remote file: one cache thread, readers, renderers |
| `MediaLibrary` | uShare's entries: loads by several threads, browse and search |
| `RedBlack` | the tree uShare finds entries by, with its rotations one by one |
| `ShareListing` | the share worker: scan, comparison, pages, restarts; `getfile` |
| `MediaProofs` | theorems about `MediaLibrary` and `ShareListing` |
| `AuditEvents`, `ProcessEvents`, `HostWatch` | the AUDITD, NETLINK and SYSHOST workers |
| `SystemDriver`, `SystemProofs` | `System::main`, which runs one of those three; theorems about all three |
| `Framing` | Icomm and SocketIO: each writer with its reader, TLS or not |
| `MC*` | the instances for TLC |

### ClientData and the code

`clientData` and `localData` are functions from keys to records, like the two
`map<int, ...>`. A record's text is its size; `synced`, `done`, `tries` and
`datetime_sent > 0` (`sent`) are the fields of `Mech.h` 47-65. `semData` is the
value of `semDataID`, capped at `SemMax` (SEMVMX). `pc[Main]` is where the main
thread is: `session` (the dialogue with the host), `loop` (top of
`processClient`), `clients` and `locals` (the loops of `exportClientDataXML`,
which hold `controlMutex`), `wait`, `setval`, `testmsg`, `send`, `release`.
`it`, `done`, `found`, `tmsg`, `tdata` are the function's locals, `tables`,
`locals`, `outSize` the string it builds. One iteration of a loop is one action.
`AddClientData` and `AddLocalData` are the inserts under the mutex;
`SemRelease` is the release that follows, a step of its own because the mutex is
already free. A msgid is a worker's own counter, which starts at 1 in every
worker, or 0 for the empty msgid of `System_auditd`. The clock is a free choice:
`due` when the wakeup time has come, `aged` when a record was sent more than 300
seconds ago. A semGet ends with a permit, or, when there is none, by timeout.

`localStamp` and `stamp` number the local records and `written` collects what
reached the socket; they are history and no guard reads them.

Left out: `g_quit`; failures of `pthread_mutex_lock`; the scan of the database
that `processClient` adds when the configuration has `databasesync` on
(247-252); the dispatch semaphores of macOS.

### CommandResponse and the code

`localidComm` is a set of entries; its order (localid, then insertion) is
`Precedes`, and `From(l)` is what a loop from `find(l)` to `end()` visits.
`DoCommand` is one element of the JSON message together with its `doCommand`;
the element may lack a stan, and then keeps that of the element before (0 at
first). `ResponseGet` and `ResponseTimeout` are the wait of two seconds,
`Collect` the search under the mutex, `Send` the answer, which may be lost with
the connection. A worker is `Poll`, `HandleCommand` (the whole walk, under the
mutex) and `Respond`. `Handles[w]` are the operations a worker knows.
`executed`, `again`, `answered` and `clean` are history.

The Labjack T4's `handleCommand`, which erases entries itself and never
answers, is in `LabjackT4`; localids whose worker has no command loop behave
like localid 3 of the runs, which has none.

### HostSession and the code

Both threads run the same code with different objects, so one of them, `kind`,
is chosen at the start; they share nothing of the session. A step of a machine is
an action; `link` is the connection, `phase` what the host does with it. A message
is its type. The host answers, refuses (an action code), sends early, or stays
silent until the read times out; a link breaks anywhere. `Icomm::read` may give up
in the middle of a message (`ReadCut`: a late field, a missing ETX, a wrong LRC):
the thread reads again or reconnects (548-558), and the characters still to come
(`rest`) are read one by one as pass characters, which lead the main thread to
PROCESSCLIENT (560). One of them may look like an STX and swallow what follows.
The body of a command may come in part too, and its rest stays. PROCESSCLIENT's
inside is `ClientData`, a command's is `CommandResponse`. `irregular` is history:
what has happened on this connection that a thread cannot cope with. Main does not
read the answers to its data, so acks pile up in the link and are read as answers
to what follows.

### Startup, LocalListener and the code

`Setups` are configurations: entries with a localid and a kind (whether the
library and its model are there, whether it has a command thread, whether it
waits for `semRunID`), who lowers the rights, and whether there is a control
port and a listener. Numbers, sets of 24 (`SetSize`), `currentIndex` and
`dssMutex` are those of `DssSems`; a worker that meets exhaustion keeps
`dssMutex` locked. `configMap` is a `std::map` written without a lock; its
operations are atomic here, except that two insertions into `localidSems` may
lose one (`raced`). `LocalListener` adds accepted descriptors, the stack with its
semaphore, and for each client the messages of a script.

### LabjackT4 and the code

One iteration of `readDeviceLoop` with its reading of the counter, one step of
`dpsLJMotor`, one walk of `handleCommand` are actions. The multimap is
`own`, the commands for the worker, followed by `later`, those of the localids
that sort after it; `comm` is what a walk meets. `cNames` and `cValues` are a
`Place` for each update and what stands there in the end (`Name`, `Value`).
Permits are counted. Device calls may fail, and then the device is opened again; the starts of the
motor in one batch share one outcome.

### BunnyCache and the code

The globals are variables with shorter names: `start`, `filepos`, `filesize`,
`filename`, `fd` for `bunny_cache_starting_filepos` and the rest, `sem` and
`semdata` for the semaphores, `t` for the locals of `bunny_cache_thread`; `at` and
`pc` are where that thread is and where each handle's thread is in `bunny_open`,
`bunny_seek`, `bunny_read2`, `bunny_close`. The `pos` of `web_file_t` is each
handle's own, and so is what libupnp has left to send. A file is counted in units,
and both a buffer (`BufLen`) and a request to the server (`FetchLen`) hold several;
in the code a request is as large as the kind of file says (1 to 4 MB), a buffer
what libupnp gives. A unit in a cache file is right, wrong or null. The arithmetic
of positions is the code's, unsigned where it is, and `lseek`'s result goes through
an int (`IntMax`, 1100).

A section under `bunny_cache_mutex` is one action, but for the two that code without
the mutex can come between: the write of a packet, and the copy to the renderer with
its opening, first read, second read and close (1074-1142). That copy runs without
the mutex after "no data" (1050-1073), beside the cache thread, and its unlock (1140)
frees a mutex it does not hold. The second read goes on where the first one ended but
fills the buffer from the start (1106). Left out: the cases where a write to the
cache file fails or is short, pause and playnext, the playlog.

### MediaLibrary, RedBlack and the code

`entry` maps addresses to entries, which have their number in `id`; `lookup` is
what the tree finds by a number; `doc` is the one `ut->xml_doc`; each thread's
`job` is where it is in its load: connect, parse, copy the list, then one child at a
time. None of that is locked, so a child is made in five steps: the counter
`nr_entries` is read and, in another step, written (196-201); the length of the
parent's list is read (316) and, in another step, the child is put there, counted
and entered in the tree (317-329). While two threads do the last step, a count or an
entry in the tree may be lost, and a lookup may miss what is there. `races` counts
entries begun while another was being made. A name that iconv does not convert
(`Invalid`) frees its entry and leaves a gap in the numbers (258-269). Not modelled:
that `realloc` frees a list another thread is walking (undefined behaviour), and the
local mode's options (`xbox360`, DLNA).

`RedBlack` is the pointer structure itself (`Node` records by address, the
sentinel `RBNULL` included), with one rotation or recolouring as one step.

### ShareListing and the code

A path is a sequence of names and a page a sequence of tags, the unit in which
`SIZELIMIT1` is counted. `CreateDirentsFile`, `Compare` (with the `unlink`),
`Symlink` and one round of the paging loop are the main thread's steps; the
process may end between any two, and `current` survives. `getfile` is its `stat`
and its `read`, and the file may change in between; sizes, offsets and counts go
through ints where the code's do (`AsInt`, with `IntMax` for 2^31 - 1), which at
834-840 means that with more left than an int holds the limit of the chunk is not
applied and the read may pass the buffer (`overrun`: undefined). Left out: changes during the
scan, what is said of a file besides its name, two listings in the same second.

### AuditEvents, ProcessEvents, HostWatch and the code

An audit line is one field of one event, and a read may end inside a line:
`parse_buf` then sees two pieces. A read that fills the whole buffer of 16384
characters is appended without a NUL behind it (`System_auditd.cc` 96), so what
follows the array is appended too: undefined behaviour, which is left out. The kernel forks, executes, ends and reuses
pids while NETLINK reads `/proc`. SYSHOST's pass reads the processes of
`scandir` one per step, in any order, while processes start and end.

### Framing and the code

A character is a token: a type, a bitmap, an LRC and a digit are one each. The
readers are step machines with one `doRead` per step (`Arrive`, `Lapse`), so a
time limit may run out between any two. `field_def` is the code's table with one
width for all fixed fields. The LRC is the set of tokens that occur an odd
number of times, which misses pairs as the exclusive or does.

## 3. Runs

| Run | Shows | Bounds |
|---|---|---|
| `clientdata` | `NoLostWakeup`, refinement of `AtMostOnceQueue`, `EveryRecordTaken` | 2 workers, 2 client and 2 local records, a size limit that leaves the second client record behind, a local record that does not fit |
| `clientdata_aside` | violated: `AsideIsCarried` (`README.md` 43) | one worker, one client record with the empty msgid |
| `clientdata_merge` | violated: `TakenIsCarried` (`README.md` 43) | 2 workers, 3 client records |
| `commands` | `AnswersTheQuestion`, refinement of `CommandCalls`, `EveryMessageAnswered`, `EveryCommandExecuted` | 2 workers, one localid without worker, 2 commands in one message or two |
| `commands_worker` | violated: `AppropriateWorker` (comment at 1126) | the same |
| `cache` | `ServesTheFile`, `NothingIsNotData`, `EveryReadReturns` | one renderer that opens two files one after the other, of 6 units and of 1, with buffers and packets of 3, an int of 3; 1 failed connection; `bunny_dspcache_retain` 0 and 2 |
| `server` | `OneSemaphoreEach`, `EntryOfItsOwn`, `CommandsFindWorkers`, `UsableFirst`, `RunSignal`, `ServedOnce`, `QueuedInOrder`, `StartupEnds`, `EveryClientServed` | 7 configurations with 1 to 6 workers, 2 sets of 2 semaphores, one hurried wait or failed thread where the start goes on to lowered rights or clients; 2 local clients |
| `session` | `SessionProtocol`, `SignedOnAgain` | both threads; 2 broken connections, 1 timeout, 1 refusal, 1 early message, 1 read cut in the middle with up to 2 characters left, 1 command, 1 data packet |
| `labjack` | `MotorUndisturbed`, `ErasedOnlyWhenDone`, `MotorStops`, no deadlock | 3 commands of 7 kinds on 2 localids, batches of at most 2 updates (16 in the code), 2 device failures |
| `media` | `WellLinked`, `OwnList`, `PagesAndSearch`, `EveryRequestAnswered`; `SearchTree`; `ListedInPlace`, `SkippedOnlyIfSent`; `FileReadBack` | 2 renderers, 2 requests, a directory in a directory, 1 failure, 1 entry begun while another is made; 5 keys; 3 starts, 2 changes of the directory, pages of 2, 4 and 9; 5 chunks, an int of 3 |
| `system` | `NotMixed`, `WholeEvents`; `NamesWhatRan`; `RightVerdict` | 5 audit lines of 2 events, 1 cut; 4 process events, 3 pids; 3 processes, 3 changes during 1 pass |
| `transport` | `AcceptedWasSent`, `PrintedReadsBack`, `LittleIsLost`, `EveryReadEnds` | 4 pairs of writer and reader, plain and TLS, 2 messages of 5 kinds, 1 accident |

Each property of a passing run is also run against a mutated definition
(`mutants` in `PROJECT.json`: a guard dropped, a counter always reset, a
semaphore not raised, an entry not erased, a rotation's pointer left, ...), and
TLC finds it violated.

### Why the bounds are enough

* Data path: a loop that is cut short with a record before and one behind the
  cut, a local record that fits, one that does not, and a producer between two
  exports; two workers give a collision of msgids and a release that another
  one overtakes.
* Command path: a late answer and a second command that meets it.
* Start: sets of 2 instead of 24 make exhaustion and the number with offset 0
  reachable with few workers; six workers pass both sets. Accidents are kept to
  the configurations whose start ends in few steps; two entries with a command
  thread's between them let that thread poll a third worker's semaphore.
* Session: one failure leads to a reconnection, a second one meets the state
  the first left behind; two characters left of a message are read as two pass
  characters, one before and one after the main thread has sent its data. Counters bound the environment, not the client.
* T4: a conflict needs a motor that runs and a command behind it; the third
  command meets the permit that is gone.
* Cache: with six units and buffers and packets of three a seek can start inside
  a packet, so that a cache file ends inside a buffer: the second read and the copy
  without the mutex are reached. With two files open the properties excuse
  everything, so the run has one handle; the theorems are for any number.
* Library: two requests overlap the load of the main thread and each other; one
  entry begun while another is made is enough for each race, and a third thread
  adds none of a new kind.
* Listing: the smallest page splits a directory, the middle one two of them,
  the largest none; three starts give a run after one that ended half way.
* Tree: five keys pass every case of the loops of insertion and of deletion.
* Transport: with two changed characters the exclusive or misses pairs, so one
  accident is the most for which `AcceptedWasSent` can hold. Base 4 and fixed
  fields of 2 make the last digit and the last place reachable.

`media` and `system` join workers that share nothing, or only the directory
they look at; they are explored one at a time, chosen at the start.
`CHECK_DEADLOCK FALSE` stands where the bounds stop the environment and the
code then waits.

### Fairness

* `ClientData`: the main thread as a whole, because none of its waits is
  unbounded (`semGet` has a timeout of at most ten seconds, the mutex is held
  for one insertion), and each worker's `SemRelease`, which follows the
  insertion without a condition. Nothing is assumed of producers inserting.
* `CommandResponse`: the control thread once a message has arrived, and each
  worker, which polls every 25 ms.
* `BunnyCache`: the cache thread, each reader, and (strongly) a server that
  answers a request for a range it has when it is asked again and again.
* `LocalListener`: main thread, workers, listener and each client's thread; a
  wait for a permit ends by permit or by its timeout.
* `HostSession`: the client, whose reads time out, and a host that answers what
  it owes or is cut off.
* `LabjackT4`: the device loop. `MediaLibrary`: the first load and each request
  libupnp has handed over. `Framing`: the reader, and a writer that has begun.

Every fairness but the one named is weak.

### What the violated runs say of the code

* The data of a record whose msgid equals the last table's, or is empty at the
  start of an export, is put aside; when the export ends before a table with
  another msgid it is dropped, though the record is synced and erased.
* Two records with equal msgids next to each other make the export put data
  aside for the next table, whose own data is then in no packet.
* A worker executes the commands of every localid that sorts after its own.

### What the models showed beside the properties

These are exceptions a property names, or behaviour a model makes visible. They
contradict no document, so no run is about them.

* *Data path.* A record is marked synced while its packet is built (1567), so a
  failed write loses it and the retry code (three tries, 300 seconds) is never
  reached; the comment at 1566 says as much. A local record that does not fit is marked done before the test
  (1634) and dropped although the loop stops for its sake.
* *Start.* `configidx` is read late, so a command thread can poll the semaphore
  of a later worker. The number with offset 0 is never signalled. An exhausted
  allocator leaves `dssMutex` locked, and the next worker then holds
  `controlMutex` for ever. T4 and U3 look for runuid in their own empty
  `configMap` and so never wait for the run signal. Of two entries with one
  localid the last one's semaphore is signalled; a worker without library or
  model still takes the name.
* *Listener.* Data that is refused is acknowledged, and its body is skipped as
  pass characters.
* *Session.* The control thread takes any message for the answer to its
  sign-on. A pass character before the sign-on sends the main thread to
  PROCESSCLIENT, also when it is the tail of an answer whose read ended in the
  middle: the host then gets data before the sign-on although it was never early.
  Acks pile up. `doRead`'s -1 counts as success in `processHostMsg` (1338), which
  then looks at a body that came in part. ATEND logs and goes on.
* *T4.* The walk runs over later localids' commands. A conflict lasts to the
  end of the walk and then erases nothing, so commands before it run again; its
  permit is gone (`MechLJT4.cc` 237). Updates before a `start_motor` are
  overwritten; of more than 16 the rest is erased unvisited. A failed last
  write leaves the motor with current. Analog rises are ignored while it runs.
* *Cache* (`bunny.cc`). A failed connection keeps the old packet and appends it
  again (384-395). A signal between SETVAL 0 and the wait for zero (931) is
  waited for by the one thread that would take it. A busy or pending permit
  from before `bunny_open` brings data of the file before. A seek beyond the
  cached data wraps around (1017, 324), and reads then return nothing as if it
  were data. The copy that follows runs without the mutex: it can take the
  descriptor from a packet that is being written, and frees the mutex whoever
  holds it (1140). The second read after a short one fills the buffer with what
  lies behind the first (1106). A position above 2^31 - 1 gets nothing (1100). "bad pos" (312-318) wakes nobody. With two files open nothing is
  promised.
* *Library* (`bunny_meta.cc`, `cds.cc`). A failed connection leaves the
  document of the last one, which gives a directory another's children. Loads
  that overlap duplicate and mix them. Two threads that make an entry at the same
  time can give both the same number, lose one from the list or from the tree, and
  count wrongly (196-201, 316-328); a name that iconv does not convert leaves a
  number unused. A browse during a load gets part of the
  list. A search ignores its index, and with count 0 ends after `child_count`.
  `rbdelete`, `rblookup` and `rbwalk` have no caller.
* *Share* (`Dsp_share.cc`). Each page break loses two lines (213, 538-549).
  "current" is linked before the pages are sent: a worker that ends in between
  finds the files "the same" when it starts again. A path line of 2048
  characters stops `getline` for good. `getdirectory` answers with an empty
  tree. `getfile` reports success for a file it cannot open, and -1 for an
  offset past the end; with 2 GiB or more left it does not apply its limit
  (834).
* *System workers.* A `recv` that ends inside a line files its fields
  elsewhere. An end of event without fields dereferences `end()`. Events
  without an end are never sent. `procvals` keeps a program's old name. A pid
  that was used again counts as the watched program.
* *Framing.* `writePacket` copies ten bytes of a shorter `ltoa` string, and
  what follows it is undefined; an ETX among it makes the packet unreadable. An
  odd number of quotes, semicolons or backslashes in the fields makes the LRC
  fail. A field of 1000 characters prints a length of four digits. A timeout in
  a line leaves its tail, which is read as a line; one in a length gives the
  number that came so far. A TLS write is never repeated. Field 127 is printed
  and never read. `printField` fills the text of field 44 with what the stream
  filled with last: zeros, where a number stands before it (904-909).

## 4. Proofs

Where a theorem states a property of a run, the run shows it on an instance and
the theorem for every value of the constants. The other theorems are type
correctness and safety properties that no run repeats.

### `ClientDataProofs`

For every set of workers, all sizes and all bounds (`ClientDataAssumption`:
sizes are naturals, client records are not empty, the prologue alone does not
exceed `SIZELIMIT1`, a semaphore can be raised):

| Theorem | Statement |
|---|---|
| `TypeCorrect` | `Spec => []TypeOK` |
| `KeyAlwaysFresh` | `Spec => []FreshKey` |
| `WakeupNeverLost` | `Spec => []NoLostWakeup` |
| `OrderKept` | `Spec => []NothingOvertaken` |
| `NeverTwice` | `Spec => []NotTwice` |
| `LeavesTaken` | `Spec => LeavesOnlyTaken` |
| `Refinement` | `Spec => ImplementsQueue` |

The inductive invariant `IInv` adds to the properties: `LoopIdle` (the export's
locals are at their initial values outside of it), `Numbered` (numbers handed
out are below their counters), `Unsent` (a record not synced was never sent, so
the loop selects every such record) and `Visited` (what a loop has passed is
taken; an export that has found nothing has seen no pending record). `Visited`
is what makes `clear()` harmless and ties an empty export to the wait: without
it neither `NoLostWakeup` nor `LeavesOnlyTaken` is inductive. The order
properties follow from the steps as the abstract queue sees them
(`NextIsQueueStep`): each action submits a record, takes the oldest, loses or
delivers the packet, or changes nothing; `OrderStep` and `QueueNext` use only
that, so the refinement comes from the same lemma.

### `CommandResponseProofs`

For every set of localids, workers and operations, every `SemMax` above 0 and
every bound (`CommandResponseAssumption`):

| Theorem | Statement |
|---|---|
| `TypeCorrect` | `Spec => []TypeOK` |
| `Remembered` | `Spec => []NoneForgotten` |
| `RightAnswer` | `Spec => []AnswersTheQuestion` |
| `PermitMeansResponse` | `Spec => []TidyPermit` |
| `ExecutedOnce` | `Spec => []TidyExecution` |
| `Refinement` | `Spec => ImplementsCalls` |

Its `IInv` adds `Numbered` (no stan is larger than the number of its command,
and `c` is the last command: so only that one can have a stan equal to `c.n`),
`Backed` (an entry with a response was executed: what the refinement's `Pick`
needs) and `InStep`. `InStep` follows the one permit of a command around: while
`clean`, nothing is queued and no permit exists between messages (`Quiet`), and
from `doCommand` to the end of the wait there is exactly one entry (`Pending`)
and its permit is in the worker's semaphore, with the worker, or in `semRespID`
(`OnePermit`). `TidyPermit` alone says nothing of the steps before `collect`
and is not inductive. `InStepControl`, `InStepDoCommand` and `InStepWorker` are
its three parts; `Element`, `Walk` and `OneFound` state once what `doCommand`,
a worker's walk and the search for the response do to `localidComm`.

The module ends with what commands and answers are written in (`Framing`), for
any messages, letters, field sizes and bounds. `FramingAssumption`: a message has
a natural number for its type and a list of calls of `set` and `add`, with any
ids and any strings of `Letters`; a payload is a sequence.

| Theorem | Statement |
|---|---|
| `PrintsReadBack` | `FramingSpec => []PrintedReadsBack` |
| `ReadAsSent` | `FramingSpec => [](Undisturbed => AcceptedWasSent)` |

Only `Compose` adds to what was sent, and what it adds is made by calls of `set`
and `add` (`GoodIcomm`): a field is below 128, not empty and has its bit, and bit
1 is there with any above 64. `print` and `read` are loops over the fields. Their
values are functions of the field, built one from the other by the
well-foundedness of the naturals, and the two are followed in step: when the
printer has passed field `i`, its output is a beginning of the whole string
(`ByFields`), and the reader that has passed `i` stands behind that beginning and
has every field up to `i` as it was filled (`Printers`, `FieldRead`). `Regrouped`
and `Middle` are what concatenation has to give for that. `Fits` is needed:
without it a length is printed with a digit too many, or a number behind the
text of field 44 is filled on its right.

`Undisturbed` leaves out two things the property does not survive for all
constants: a character that changes on the way, and messages that are not plain
(`PlainFor`: an Icomm message fits, and a message has none of the characters its
codec gives a meaning). Time may run out anywhere, connections may break and be
opened again, a write or a read may take any part of a message. The invariant
`FrInv` lays the stream out: there are `F`, the characters each message was
written as, and `T`, what is still to be read, each place with its message and
the place in it, of which the first `w` are on the wire and the rest is still to
be written (`Flow`, `Laid`). Only the first message in `T` may lack its
beginning, where a reader gave up, and only the last its end, where the
connection broke. `Reading` says of each state of each reader either that what it
has taken is the beginning of one message and what is next in `T` the rest
(`Await`, `IcommAt`), or that it is `Lost`: what comes next is not the ETX it
looks for. A read that starts in the middle of a message finds no STX, since in a
plain message only the first character is one; the reader of lines, which looks
for none, keeps its place because no time runs out (`Steady`). `Taken` is the
property itself with what orders it: every message that begins in `T` was sent
after the last one returned. There is a lemma for each
action (`ComposeDelivers`, ..., `ReaderSteps`), and one for each step of each
reader.

### `HostSessionProofs`

For both threads and every bound (`HostSessionAssumption`):

| Theorem | Statement |
|---|---|
| `TypeCorrect` | `Spec => []TypeOK` |
| `ProtocolKept` | `Spec => []SessionProtocol` |

`IInv` says: while `Calm`, that is while none of the property's three exceptions
has happened on this connection, nothing was misplaced, and on a link that is up
step, `headerDone`, `headerProcessing`, the host's phase and what is under way agree
(`Agreed`, one line per step), the tails of messages among it. A reconnection starts
anew, whatever the connection before was. `Sending` is the one place where a packet
reaches the host; the step lemma has a case per action.

### `StartupProofs`

About `LocalListener`'s `Spec`, hence `Startup` in all its interleavings with
the listener, for every set of configurations, every `SetSize` and `MaxSets`
above 0, any number of accidents and clients (`StartupAssumption`,
`ListenerAssumption`):

| Theorem | Statement |
|---|---|
| `TypeCorrect` | `Spec => []TypeOK` |
| `SemaphoresDistinct` | `Spec => []OneSemaphoreEach` |
| `AllocatorToItsLimit` | `Spec => []UsableFirst` |
| `DescriptorsServedOnce` | `Spec => []ServedOnce` |
| `PermitForEach` | `Spec => []RunSignal` |
| `EntriesDistinct` | `Spec => []EntryOfItsOwn` |
| `CommandsFound` | `Spec => []CommandsFindWorkers` |
| `BodiesQueuedInOrder` | `Spec => []QueuedInOrder` |

`TypeInv` has to say where each worker may be before its thread was started.
`AllocInv` describes the stack as the rest of the current set, so the numbers
handed out are those below it, each with one worker; `UsableFirst` is
arithmetic from there (`SetArithmetic`). `ServeInv` adds to `ServedOnce` that
as many descriptors are on the stack as threads have yet to pop one: it counts
the waiting threads, so it cites the library's facts on cardinality.

* `RunInv` counts permits: what the main thread has released of `semRunID` is no
  more than what is left, the workers that are through and the one permit the
  control thread may have taken, and the latter exists only with `rights = "one"`.
* `EntryInv`: as long as no wait was hurried, at most one worker is between its
  creation and its release of the main thread (`OneAtATime`), so the counter it
  compares with is its own.
* `NameInv`: a worker's entry is not above `configidx`, which a command thread
  reads late, and `localidSems` has for each localid the number of the last
  worker that named it (`NamesOwned`).
* `QueueInv` follows each client's thread through its script: what its status
  and `step` say of the message before (`Follows`), and that the queue is what
  `Accepted` selects of the messages read so far. `InOrderAppend` is the step of
  that selection by one message.

An earlier form of two of these was false, and the proof attempt showed it:
where only one of `runuid` and `rungid` is set the control thread may take one of
the permits too, so that one is missing if every worker waits, and a command
thread between two workers may poll the semaphore of a third. The properties
name both.

### `BunnyCacheProofs`

For every set of files, any sizes and bounds and any number of renderers
(`BunnyCacheAssumption`):

| Theorem | Statement |
|---|---|
| `TypeCorrect` | `Spec => []TypeOK` |
| `PrefixKept` | `Spec => []CacheIsPrefix` |
| `RightServed` | `Spec => []ServesTheFile` |
| `AppendConsistent` | `Spec => []Consistent` |
| `NothingServed` | `Spec => []NothingIsNotData` |

`TypeInv` bounds the counters from below. `Inv` says that while no file was
opened too early or beside another and no copy without the mutex met the cache thread
(`Calm`), one file is open, what the globals say of it is what the cache file has
(`Published`), the packet under way belongs at its end (`Fetching`), and a copy has
its descriptor to itself, with the offset its reads left it at. The lemmas are one
per thread: `ThreadCalm` and `ReaderCalm`. `QuietInv` is weaker in its condition and
holds through late packets and failed connections: with one file open and no seek
beyond the cache, every reader's position is within what is cached (`Within`), nobody
copies without the mutex, and one that copies has a whole buffer in front of it
(`At`).

### `MediaProofs`

About `LibrarySpec` and `ShareSpec`, the whole of each part (the run explores
them one at a time), for any renderers, requests, lists, trees and bounds.
`LibraryAssumption`: no renderer's thread is the main thread, and names in
`Shared` are none of `Directories`, which is how names are chosen in the model
(a directory's name stands for its path), and a request's index and count are
natural numbers (`ui4`). `ShareAssumption`: a tree is finite, a path is made of
names and its directory is in the tree, and a node is a directory or a file with
its characters.

| Theorem | Statement |
|---|---|
| `ReadBack` | `ShareSpec => []FileReadBack` |
| `SkipsWhatWasSent` | `ShareSpec => []SkippedOnlyIfSent` |
| `ListsInPlace` | `ShareSpec => []ListedInPlace` |
| `LibraryTypes` | `LibrarySpec => []LibraryTypeOK` |
| `EntriesWellLinked` | `LibrarySpec => []WellLinked` |
| `ContainersShowTheirOwn` | `LibrarySpec => []OwnList` |
| `PagesAndSearchRight` | `LibrarySpec => []PagesAndSearch` |

`ReadInv` says what a reading in progress has: a prefix of the file, the size
of the `stat` before a read, and all of it at the end. It rests on
`ChunkBounds` (`getFile` wants nothing only at the end of the file).
`SentInv`: "current" is a listing that was handed over, or cut off, or the one
of this run.

`PlaceInv` says how far the pages are (`Upto`, the last line they deal with), that
the host can read each of them, that what they list is in the order of the lines
(`Rising`), and that of the files up to there at most two for each page but the
first are missing (`Missed`). It needs two facts, each about a recursion.
`DirentsGood`: the lines of any tree are distinct, and from each to the next the
directories are the same up to a level and at none after it (`Near`), which is
what lets `mapdirs`' comparison level by level close and open the right ones. It
goes by induction over a rank, the number of paths on deeper levels, and in a
directory by `GoodPieces`, one name at a time. `PageRead`: `Written` is the
invariant of the loop of `get_dirents`; after every line the host, having read
the tags so far, is in `prevdir` and has exactly the files from the first line
counted to the last. `ReadsTurn` is the step between two lines: `Closing` takes
the host up to the level where the two directories part, and `Opening` down
again.

`LinkInv` holds whatever runs at once: the entries are a tree whose lists have each
child once and after the child's parent was made (`EntriesInv`),
and every thread works on a container that exists (`JobsPlaced`). `RaceInv` is what
holds while no two threads were at making an entry at once: one thread makes
(`OneMakes`), the number and the length it has read are still right (`UpToDate`),
and the entries are listed and found (`Reachable`) and counted (`Counted`). Neither
property is inductive without those values read some steps ago. `OwnInv` holds while
nothing was disturbed. One thread loads (`OneLoads`), and what that thread has left
to do is the rest of the list its container already shows the start of (`Filling`);
without the document before the scan (`Scanned(doc) = Source(e)`) that is not
inductive, and it is there that a failed connection or an overlapping load would
break it. `ShowsNext` is the step of `Shows` by one name.

`PagesAndSearch` is about recursive functions. A child was made after its
parent (`Later`, a part of `EntriesInv`), so that the recursion over the tree
is well-founded: `RecursionExists` builds a function from a definition that
looks only at smaller places, and `FromBelow` is the induction that goes with
it. `LoopExists` and `FlattenJoins` do the same for a loop and for the
concatenation of a sequence of sequences. `PagesGiveAll` then says that each
page is the stretch of the children that follows the page before, and
`FindsFirst` that a walk with a limit finds the first of what a walk without one
does: for each child, what is left of the limit is what its own walk is given.

### `LabjackT4Proofs`

For any commands, any `MaxFrames` above 0 and any bounds (`LabjackAssumption`):

| Theorem | Statement |
|---|---|
| `TypeCorrect` | `Spec => []TypeOK` |
| `MotorKept` | `Spec => []MotorUndisturbed` |
| `NothingElseLost` | `Spec => ErasedOnlyWhenDone` |

`TypeInv` adds that each permit is for a command that was sent.
`MotorUndisturbed` is then inductive. Every update in the batch passed the test
for conflicts, so while the motor runs none is for a coil (`UpdatesSpareMotor`),
and a step of the motor writes all four coils or clears `clean`. For
`NothingElseLost`, `WalkReaches` says that without a conflict and before the
batch is full the walk visits a command, and either starts the motor or writes
it. `LastPlace` (a set of places has a last one) comes from the well-foundedness
of the naturals.

### `SystemProofs`

For any events, record types, processes, programs, watched names and bounds
(`AuditAssumption`, `ProcessAssumption`, `WatchAssumption`), about
`SystemDriver`'s `Spec`:

| Theorem | Statement |
|---|---|
| `EventsNotMixed` | `Spec => []NotMixed` |
| `EventsWhole` | `Spec => []WholeEvents` |
| `MessagesTrue` | `Spec => []NamesWhatRan` |
| `VerdictsRight` | `Spec => []RightVerdict` |

`NamesInv`: what the table says of a pid, the pid has run some day, and so for
every text, the one kept in `msg` included. `Reached` carries that through
`get_proc_vals`, one lemma for each thing it does. `WatchInv`: during a scan a
process that has been there since the check began is found or still to be read,
and what was found has been there.

`LinesInv` is about the parts of lines, in the socket and in the kept text: what
a part shows of number and type is the line's own (`OfLine`), all but the last
of a text end, and one that ends and has data shows its number. Only a text that
is a single part may have data without a number, and there is no number of an
earlier line then: its data go to event 0. `EventsInv` adds, as long as no read
ended inside a line, that text and socket are the whole lines after the first
`Read` of them, and that `datavals` and the records are what those first lines
make of them (`UpToDate`, `Latest`); the end of an event comes after other lines
of it and before none (`RowsInOrder`), so that the fields are there when the end
is read and never change after. The loop of `parse_buf` is the recursive
function `Progress`. The prover has no induction scheme to instantiate, so
`ProgressSteps` builds the function place by place and `Steps` is the induction
along a text, both from the well-foundedness of the naturals.

### Only model-checked

* Liveness: it needs fairness and `ENABLED`, which the prover does not treat.
* `AcceptedWasSent` when a character changes or messages are not plain, and
  `LittleIsLost`. They do not hold for all values of the constants: with two
  changed characters, or with payloads that hold an ETX and an LRC, the LRC is
  right for what was not sent. They are true of the accidents and messages the
  run gives them. `LittleIsLost` counts lost messages against accidents, where
  `ReadAsSent` says nothing of a message that is not returned.
* `SearchTree`: the order and balance of a tree of pointers, by recursion from
  the root.
* The type invariants of `RedBlack`, `AuditEvents` and `Framing` are stated
  beside the variables and are in no run.

## 5. Not modelled

* *Shutdown* (`g_quit`): polled by every loop; removal of old semaphores.
* *Labjack U3* and the T4's readings: the U3 has no motor and the command loop
  of `CommandResponse`; `processDeviceData` compares each value with its last.
* *uShare's own mode*: local files (`metadata.cc`), the web page, telnet,
  configuration reload from a signal handler, DLNA (not built). `sendCommand`,
  pause and play of flac, the playlog.
* *Sockets*: certificates, `openServer`, conversions, the BCD variant of Icomm.
* *macOS*: dispatch semaphores instead of System V ones, and `clientData`
  without the mutex. The models follow the Linux build.
* *Database and file objects, parsers, log manager, client program*: rows and
  files one by one, no protocol of their own. *Android app*: a client of the
  host, which never talks to this server.
* *External*, modelled from how the code uses them: the host, libupnp and its
  renderers, the LJM device, auditd and the kernel's process events.

## 6. What is left

1. The composition of `HostSession` with `ClientData` by its pc `session`, which
   would relate a lost packet to the reconnection that follows.
2. The U3's device loop, and the readings of both devices up to `doDataChanged`.
3. Two share workers at once: they share "current" and a file name made of the
   second.
