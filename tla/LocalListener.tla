--------------------------- MODULE LocalListener ---------------------------
(***************************************************************************)
(* The listener for local clients, which the main thread of Startup starts *)
(* last.  doWork2 accepts connections, pushes each descriptor on a stack   *)
(* of BaseServer and starts a thread (doWorker2), which pops one and       *)
(* serves its client until the connection ends: it reads messages,         *)
(* processLocalMsg decides what becomes of them, and data is queued for    *)
(* the host (AddLocalData of ClientData).                                  *)
(***************************************************************************)
EXTENDS Startup

CONSTANTS
    NumClients,   \* bound: accepted connections
    Scripts       \* what a client may send before it ends the connection

\* The accepted connections, in their order.
Clients == 1 .. NumClients

\* A message is a sign-on, an acknowledgement of ours, a test, a single
\* character, data of a size the server takes or of one it does not, each
\* followed by its body unless the connection breaks, or another message.
Messages == {"signon", "signonAck", "test", "pass", "data", "long", "other"}
Items == [type : Messages \cup {"body"}, text : Nat]
IsBody(item) == item.type = "body"

WellFormed(script) ==
    /\ \A i \in 1 .. Len(script) : IsBody(script[i]) =>
          i > 1 /\ script[i - 1].type \in {"data", "long"}
    /\ \A i \in 1 .. Len(script) - 1 : script[i].type \in {"data", "long"} =>
          IsBody(script[i + 1])

ASSUME ListenerAssumption ==
    /\ NumClients \in Nat
    /\ Scripts \subseteq Seq(Items)
    /\ \A script \in Scripts : WellFormed(script)

VARIABLES
    listener,     \* doWork2: pc, reg, and the clients accepted so far
    clientFDs,    \* BaseServer::clientFDs[0], a stack, its top is last
    thread,       \* the thread started for the c-th accepted client
    lost,         \* threads that could not be created
    sent,         \* what each client sends (history: no action reads it)
    stream,       \* what is still to be read from each connection
    queued,       \* bodies queued for the host, per client
    answers       \* what was written to each client

lvars == <<listener, clientFDs, thread, lost, sent, stream, queued,
           answers>>

\* A descriptor names its connection; 0 is none.
NewThread ==
    [pc |-> "none", reg |-> 0, fd |-> 0, status |-> 0, msg |-> "test"]

LInit ==
    /\ Init
    /\ listener = [pc |-> "none", reg |-> 0, accepted |-> 0]
    /\ clientFDs = <<>> /\ lost = 0
    /\ thread = [c \in Clients |-> NewThread]
    /\ sent = [c \in Clients |-> <<>>] /\ stream = sent
    /\ queued = [c \in Clients |-> <<>>]
    /\ answers = [c \in Clients |-> <<>>]

-----------------------------------------------------------------------------
\* doWork2, the listener thread

\* The main thread of Startup starts it, and it starts with initThread.
LoadThreadIDListener ==
    /\ main.pc = "running" /\ setup.listener /\ listener.pc = "none"
    /\ listener' = [listener EXCEPT !.pc = "store", !.reg = threadID]
    /\ UNCHANGED <<vars, sent, clientFDs, thread, lost, stream, queued,
                   answers>>

StoreThreadIDListener ==
    /\ listener.pc = "store"
    /\ threadID' = listener.reg + 1
    /\ listener' = [listener EXCEPT !.pc = "poll", !.reg = 0]
    /\ UNCHANGED <<setup, sent, maps, controlMutex, dss, sems, main, threads,
                   accidents, clientFDs, thread, lost, stream, queued, answers>>

\* doPoll, accept and pushClientFD, of a client that will send some script.
Accept ==
    /\ listener.pc = "poll" /\ listener.accepted + 1 \in Clients
    /\ listener' = [listener EXCEPT !.pc = "create", !.accepted = @ + 1]
    /\ clientFDs' = Append(clientFDs, listener.accepted + 1)
    /\ \E script \in Scripts :
          /\ sent' = [sent EXCEPT ![listener.accepted + 1] = script]
          /\ stream' = [stream EXCEPT ![listener.accepted + 1] = script]
    /\ UNCHANGED <<vars, thread, lost, queued, answers>>

\* startThread(true, 5); its failure is logged, the descriptor stays.
StartClientThread ==
    /\ listener.pc = "create"
    /\ listener' = [listener EXCEPT !.pc = "poll"]
    /\ \/ thread' = [thread EXCEPT ![listener.accepted].pc = "new"]
          /\ UNCHANGED <<failures, lost>>
       \/ AccidentPossible
          /\ failures' = failures + 1 /\ lost' = lost + 1
          /\ UNCHANGED thread
    /\ UNCHANGED <<setup, sent, threadID, maps, controlMutex, dss, sems, main,
                   threads, hurries, raced, clientFDs, stream, queued, answers>>

Listener ==
    \/ LoadThreadIDListener \/ StoreThreadIDListener \/ Accept
    \/ StartClientThread

-----------------------------------------------------------------------------
\* doWorker2, the thread started for the c-th client

LoadThreadIDClient(c) ==
    /\ thread[c].pc = "new"
    /\ thread' = [thread EXCEPT ![c].pc = "store", ![c].reg = threadID]
    /\ UNCHANGED <<vars, sent, listener, clientFDs, lost, stream, queued,
                   answers>>

StoreThreadIDClient(c) ==
    /\ thread[c].pc = "store"
    /\ threadID' = thread[c].reg + 1
    /\ thread' = [thread EXCEPT ![c].pc = "pop", ![c].reg = 0]
    /\ UNCHANGED <<setup, sent, maps, controlMutex, dss, sems, main, threads,
                   accidents, listener, clientFDs, lost, stream, queued,
                   answers>>

FDsNotPopped == clientFDs
FDsPopped == Front(clientFDs)

\* getClientFD: the top of the stack, whichever client's it is; a thread that
\* finds none ends.
GetClientFD(c) ==
    /\ thread[c].pc = "pop"
    /\ IF clientFDs = <<>>
       THEN /\ thread' = [thread EXCEPT ![c].pc = "ended"]
            /\ UNCHANGED clientFDs
       ELSE /\ thread' = [thread EXCEPT ![c].pc = "read",
                                        ![c].fd = Last(clientFDs)]
            /\ clientFDs' = FDsPopped
    /\ UNCHANGED <<vars, sent, listener, lost, stream, queued, answers>>

BadReadAgain == "read"
BadRead == "end"

\* READCLIENT.  A character that does not begin a message is a pass character:
\* so is, one by one, every character of a body that was not read.
ReadClient(c) ==
    LET fd == thread[c].fd IN
    /\ thread[c].pc = "read"
    /\ IF stream[fd] = <<>>
       THEN /\ thread' = [thread EXCEPT ![c].pc = BadRead]
            /\ UNCHANGED stream
       ELSE /\ stream' = [stream EXCEPT ![fd] = Tail(@)]
            /\ thread' =
                 IF Head(stream[fd]).type \in {"pass", "body"}
                 THEN thread
                 ELSE [thread EXCEPT ![c].pc = "process",
                                     ![c].msg = Head(stream[fd]).type]
    /\ UNCHANGED <<vars, sent, listener, clientFDs, lost, queued, answers>>

TakesUnsigned(t) == t.msg = "data"
\* Data is taken once the client has signed on.
Takes(t) == t.status > 0 /\ t.msg = "data"

\* processLocalMsg; add_client_data is called while the thread still has the
\* message, before the answer.
ProcessLocalMsg(c) ==
    LET t == thread[c]
        s == stream[t.fd] IN
    /\ t.pc = "process"
    /\ thread' = [thread EXCEPT
           ![c].pc = IF t.msg = "signon" THEN "signonack" ELSE "ack",
           ![c].status = CASE t.msg = "signon" -> 1
                           [] t.msg = "signonAck" -> 2
                           [] OTHER -> @]
    /\ IF Takes(t) /\ s # <<>>
       THEN /\ stream' = [stream EXCEPT ![t.fd] = Tail(s)]
            /\ queued' = [queued EXCEPT ![t.fd] = Append(@, Head(s))]
       ELSE UNCHANGED <<stream, queued>>
    /\ UNCHANGED <<vars, sent, listener, clientFDs, lost, answers>>

\* SENDACK, for refused data too; the result of the write is not looked at.
SendAck(c) ==
    /\ thread[c].pc = "ack"
    /\ answers' = [answers EXCEPT ![thread[c].fd] = Append(@, "ACK")]
    /\ thread' = [thread EXCEPT ![c].pc = "read"]
    /\ UNCHANGED <<vars, sent, listener, clientFDs, lost, stream, queued>>

\* createSignonAckMsg and SENDCLIENT; when the write fails the session ends.
SendSignonAck(c) ==
    /\ thread[c].pc = "signonack"
    /\ \/ /\ answers' =
               [answers EXCEPT ![thread[c].fd] = Append(@, "signonAck")]
          /\ thread' = [thread EXCEPT ![c].pc = "read"]
       \/ thread' = [thread EXCEPT ![c].pc = "end"] /\ UNCHANGED answers
    /\ UNCHANGED <<vars, sent, listener, clientFDs, lost, stream, queued>>

\* ATEND: EOT is written and the connection closed.
EndClient(c) ==
    /\ thread[c].pc = "end"
    /\ answers' = [answers EXCEPT ![thread[c].fd] = Append(@, "EOT")]
    /\ thread' = [thread EXCEPT ![c].pc = "ended"]
    /\ UNCHANGED <<vars, sent, listener, clientFDs, lost, stream, queued>>

ClientThread(c) ==
    \/ LoadThreadIDClient(c) \/ StoreThreadIDClient(c) \/ GetClientFD(c)
    \/ ReadClient(c) \/ ProcessLocalMsg(c) \/ SendAck(c) \/ SendSignonAck(c)
    \/ EndClient(c)

LNext ==
    \/ Next /\ UNCHANGED lvars
    \/ Listener
    \/ \E c \in Clients : ClientThread(c)

\* No wait of the main thread is unbounded, and the threads run.  Whether the
\* control thread connects and whether a client does is up to others.
Fairness ==
    /\ WF_vars(Main)
    /\ WF_vars(\E w \in Workers : Worker(w))
    /\ WF_lvars(Listener)
    /\ \A c \in Clients : WF_lvars(ClientThread(c))

Spec == LInit /\ [][LNext]_<<vars, lvars>> /\ Fairness

-----------------------------------------------------------------------------
\* Type invariant of the start and of the listener.
TypeOK ==
    /\ StartupTypeOK
    /\ listener \in [pc : {"none", "store", "poll", "create"}, reg : Nat,
                     accepted : {0} \cup Clients]
    /\ clientFDs \in Seq(Clients)
    /\ thread \in [Clients ->
           [pc : {"none", "new", "store", "pop", "read", "process", "ack",
                  "signonack", "end", "ended"},
            reg : Nat, fd : {0} \cup Clients, status : 0 .. 2,
            msg : Messages]]
    /\ lost \in Nat
    /\ sent \in [Clients -> Seq(Items)]
    /\ stream \in [Clients -> Seq(Items)]
    /\ queued \in [Clients -> Seq(Items)]
    /\ answers \in [Clients -> Seq({"ACK", "signonAck", "EOT"})]

\* Each accepted descriptor is on the stack or with one thread, never with
\* two, and a thread that pops always finds one: the push comes before the
\* start of the thread, and a thread that could not be created leaves its
\* descriptor for another.
ServedOnce ==
    /\ \A c, d \in Clients : c # d /\ thread[c].fd = thread[d].fd
          => thread[c].fd = 0
    /\ \A c \in Clients, i \in DOMAIN clientFDs : thread[c].fd # clientFDs[i]
    /\ Cardinality({c \in Clients : thread[c].pc \in {"new", "store", "pop"}})
          + (IF listener.pc = "create" THEN 1 ELSE 0) + lost = Len(clientFDs)

\* Where, among the first n items of a script, the data is that is to be
\* queued: the bodies of data messages of acceptable size that follow the
\* first sign-on.
Signed(script, n) ==
    \E k \in 1 .. n : script[k].type \in {"signon", "signonAck"}
Accepted(script, n) ==
    {i \in 2 .. n : /\ IsBody(script[i]) /\ script[i - 1].type = "data"
                   /\ Signed(script, i - 1)}

\* How much of what a client sent has been read from its connection.
Taken(c) == Len(sent[c]) - Len(stream[c])

\* What is queued for the host are the bodies a client sent after it signed
\* on, each once and in their order, whatever came between: a body that was
\* refused is not taken for a message and disturbs none that follow it.  (All
\* of them are acknowledged, those that were refused too.)
QueuedInOrder ==
    \A c \in Clients :
        LET accepted == Accepted(sent[c], Taken(c)) IN
        /\ Len(queued[c]) = Cardinality(accepted)
        /\ \A i \in accepted :
              queued[c][Cardinality(accepted \cap 1 .. i)] = sent[c][i]

\* Every accepted client is served to its end, unless some thread could not be
\* created.
EveryClientServed ==
    \A c \in Clients : listener.accepted = c ~>
        \/ lost > 0
        \/ \E d \in Clients : thread[d].fd = c /\ thread[d].pc = "ended"

=============================================================================
