---------------------------- MODULE HostSession ----------------------------
(***************************************************************************)
(* The dialogue with the host, in the step machines of the main thread     *)
(* (Mech::doWork) and of the control thread (doControl): the sign-on, the  *)
(* messages and commands that follow it, and the way back from each        *)
(* failure.  One connection is modelled, of the thread kind names; both    *)
(* threads run the same protocol, each on a connection of its own.         *)
(* PROCESSCLIENT is one step here: its inside is ClientData; doing a       *)
(* command is one step: its inside is CommandResponse.                     *)
(*                                                                         *)
(* The host is external.  It answers what it is sent, in order; a          *)
(* connection may break unnoticed.                                         *)
(***************************************************************************)
EXTENDS Naturals, Sequences

CONSTANTS
    Kinds,        \* threads modelled: "main", "control" or both
    MaxBreaks,    \* bound: connections that break, or cannot be made
    MaxTimeouts,  \* bound: reads that give up on a slow host
    MaxRefusals,  \* bound: sign-ons the host refuses
    MaxEarly,     \* bound: what the host sends before a sign-on is complete
    MaxCommands,  \* bound: commands of the host
    MaxData,      \* bound: data packets
    MaxCuts,      \* bound: reads that end in the middle
    MaxRest       \* bound: characters such a read leaves

ASSUME HostSessionAssumption ==
    /\ Kinds \subseteq {"main", "control"}
    /\ \A n \in {MaxBreaks, MaxTimeouts, MaxRefusals, MaxEarly, MaxCommands,
                 MaxData, MaxCuts} : n \in Nat
    /\ MaxRest \in Nat \ {0}

VARIABLES
    kind,             \* the thread
    step, headerDone, headerProcessing,
    out,              \* what hostOut is about to say
    link,             \* socket: "up", "broken" and not noticed, or "down"
    toClient,         \* what the host has sent and the thread not read
    owed,             \* what the host has received and will answer
    phase,            \* the host's view of the sign-on
    misplaced,        \* history: the host got what it did not expect
    irregular,        \* history: what disturbed the sign-on
    counts            \* of what the bounds limit

client == <<step, headerDone, headerProcessing, out>>
wire == <<link, toClient, owed>>
history == <<phase, misplaced, irregular>>
vars == <<kind, client, wire, history, counts>>

\* "ack" is a pass character.  "update" and "signonResponse" are messages
\* without data; "command" comes with its body; the body of "long" is larger
\* than MAXDATASIZE.  "rest" is a character of a message or of a body whose
\* beginning has been read.
Incoming == {"ack", "signonResponse", "other", "update", "command", "long",
             "body", "rest"}
Packets == {"signonRequest", "signonAck", "test", "data", "ack", "response"}

Count(name) == [counts EXCEPT ![name] = @ + 1]

Init ==
    /\ kind \in Kinds
    /\ step = "SENDCLIENT" /\ out = "test"
    /\ headerDone = FALSE /\ headerProcessing = FALSE
    /\ link = "up" /\ toClient = <<>> /\ owed = <<>>
    /\ phase = "new" /\ misplaced = FALSE /\ irregular = {}
    /\ counts = [breaks |-> 0, timeouts |-> 0, refusals |-> 0, early |-> 0,
                 commands |-> 0, data |-> 0, cuts |-> 0]

-----------------------------------------------------------------------------
\* Writing.  A write on a connection that has broken fails or is lost.

\* What the host makes of a packet.
NextPhase(packet) ==
    CASE packet = "signonRequest" -> "asked"
      [] packet = "signonAck" /\ phase = "answered" -> "signed"
      [] OTHER -> phase
Expected(packet) ==
    CASE packet = "signonRequest" -> phase \in {"new", "refused"}
      [] packet = "signonAck" -> phase = "answered"
      [] OTHER -> phase = "signed"
Answered == {"signonRequest", "signonAck", "test", "data"}

Written(packet) ==
    IF link = "up"
    THEN /\ phase' = NextPhase(packet)
         /\ misplaced' = (misplaced \/ ~ Expected(packet))
         /\ owed' = IF packet \in Answered THEN Append(owed, packet) ELSE owed
         /\ UNCHANGED irregular
    ELSE UNCHANGED <<history, owed>>

\* The step after a write: next, or reconnectHost when it failed.
SendThen(packet, next) ==
    /\ \/ Written(packet) /\ step' = next
       \/ link # "up" /\ step' = "reconnect" /\ UNCHANGED <<history, owed>>
    /\ UNCHANGED <<link, toClient>>

-----------------------------------------------------------------------------
EndForGood == "ATEND"
HeaderKept == headerDone

-----------------------------------------------------------------------------
\* Where a step leads, and what a new connection begins with.

AfterSignon == "SENDSIGNONACK"
AfterAck == IF kind = "main" THEN "PROCESSCLIENT" ELSE "READCLIENT"
\* The log says exiting; the main thread begins again on the same connection.
AfterEnd == "SENDCLIENT"
HeaderOfNew == FALSE

-----------------------------------------------------------------------------
\* SENDCLIENT

SendHeader ==
    /\ step = "SENDCLIENT" /\ ~ headerDone
    /\ headerProcessing' = TRUE
    /\ SendThen("signonRequest", "READCLIENT")
    /\ UNCHANGED <<kind, headerDone, out, counts>>

SendMessage ==
    /\ step = "SENDCLIENT" /\ headerDone
    /\ SendThen(out, "READCLIENT")
    /\ UNCHANGED <<kind, headerDone, headerProcessing, out, counts>>

-----------------------------------------------------------------------------
\* READCLIENT

\* What Icomm::read takes for a pass character: it begins no message.  Of a
\* body that was not read the further characters are left.
PassChars == {"ack", "body", "rest"}
Rest(k) == [i \in 1 .. k |-> "rest"]

ReadPassChar ==
    /\ step = "READCLIENT" /\ toClient # <<>>
    /\ Head(toClient) \in PassChars
    /\ \E k \in 0 .. (IF Head(toClient) = "body" THEN MaxRest - 1 ELSE 0) :
          toClient' = Rest(k) \o Tail(toClient)
    /\ step' = AfterAck
    /\ UNCHANGED <<kind, headerDone, headerProcessing, out, link, owed,
                   history, counts>>

Message == Head(toClient)
AtMessage == step = "READCLIENT" /\ toClient # <<>> /\ Message \notin PassChars

\* Icomm::read gives up in the middle of a message: a field of it is late, it
\* does not end with an ETX (0, and the thread reads again), or its check
\* character is wrong (-1).  The characters still to come stay to be read.
\* One of them, a check character, may be the same as an STX: then it and some
\* of what follows are read as a message.
ReadCut ==
    /\ step = "READCLIENT" /\ toClient # <<>>
    /\ Message \notin {"ack", "body"}
    /\ counts.cuts < MaxCuts /\ counts' = Count("cuts")
    /\ \E n \in 1 .. (IF Message = "rest" THEN Len(toClient) ELSE 1),
          k \in 0 .. MaxRest :
          toClient' = Rest(k) \o SubSeq(toClient, n + 1, Len(toClient))
    /\ step' \in {"READCLIENT", "reconnect"}
    /\ irregular' = IF headerDone THEN irregular ELSE irregular \cup {"cut"}
    /\ UNCHANGED <<kind, headerDone, headerProcessing, out, link, owed, phase,
                   misplaced>>

\* The answer to the sign-on.  The control thread takes any message for it.
IsSignon == kind = "control" \/ Message = "signonResponse"
ReadSignon ==
    /\ AtMessage /\ ~ headerDone /\ headerProcessing
    /\ toClient' = Tail(toClient)
    /\ IF IsSignon
       THEN /\ headerDone' = TRUE /\ headerProcessing' = FALSE
            /\ step' = AfterSignon
       ELSE step' = "ATEND" /\ UNCHANGED <<headerDone, headerProcessing>>
    /\ UNCHANGED <<kind, out, link, owed, history, counts>>

\* processHostMsg of a message without data, or with more than the server
\* takes.
ReadMessage ==
    /\ AtMessage /\ headerDone /\ Message # "command"
    /\ toClient' = Tail(toClient)
    /\ step' = "SENDACK"
    /\ UNCHANGED <<kind, headerDone, headerProcessing, out, link, owed,
                   history, counts>>

\* processHostMsg of a command: its body is read, processHostCommand handles
\* it, and its response is to be sent; or it is no command that can be parsed.
\* When the body does not come, or in part, the negative result of doRead
\* counts as success: what databuf holds is looked at, which is that part with
\* the end of an earlier body, or nothing.  The rest stays to be read.
ReadCommand ==
    /\ AtMessage /\ headerDone /\ Message = "command"
    /\ \/ /\ toClient' = SubSeq(toClient, 3, Len(toClient))
          /\ UNCHANGED counts
       \/ /\ counts.cuts < MaxCuts /\ counts' = Count("cuts")
          /\ \E k \in 1 .. MaxRest :
                toClient' = Rest(k) \o SubSeq(toClient, 3, Len(toClient))
    /\ \/ step' = "SENDCLIENTDATA" /\ out' = "response"
       \/ step' = "SENDACK" /\ UNCHANGED out
    /\ UNCHANGED <<kind, headerDone, headerProcessing, link, owed, history>>

\* Nothing came for 15 seconds (main) or 305 (control).
ReadTimeout ==
    /\ step = "READCLIENT"
    /\ toClient # <<>> => Message = "rest"
    /\ IF link = "up" /\ (owed # <<>> \/ toClient # <<>>)
       THEN counts.timeouts < MaxTimeouts /\ counts' = Count("timeouts")
       ELSE UNCHANGED counts
    /\ step' = "reconnect"
    /\ UNCHANGED <<kind, headerDone, headerProcessing, out, wire, history>>

-----------------------------------------------------------------------------
\* The other steps

\* createSignonAckMsg.
SendSignonAck ==
    /\ step = "SENDSIGNONACK"
    /\ step' = "SENDCLIENT" /\ out' = "signonAck"
    /\ UNCHANGED <<kind, headerDone, headerProcessing, wire, history, counts>>

SendAck ==
    /\ step = "SENDACK"
    /\ SendThen("ack", AfterAck)
    /\ UNCHANGED <<kind, headerDone, headerProcessing, out, counts>>

\* processClient returns data to send, or, at the time of the next wakeup,
\* SENDTESTMSG, whose createTestMsg follows.  It does not look at headerDone.
ProcessClient ==
    /\ step = "PROCESSCLIENT"
    /\ \/ /\ counts.data < MaxData /\ counts' = Count("data")
          /\ step' = "SENDCLIENTDATA" /\ out' = "data"
       \/ step' = "SENDCLIENT" /\ out' = "test" /\ UNCHANGED counts
    /\ UNCHANGED <<kind, headerDone, headerProcessing, wire, history>>

\* The main thread does not wait for an answer to its data.
SendClientData ==
    /\ step = "SENDCLIENTDATA"
    /\ SendThen(out, AfterAck)
    /\ UNCHANGED <<kind, headerDone, headerProcessing, out, counts>>

AtEnd ==
    /\ step = "ATEND"
    /\ step' = AfterEnd
    /\ UNCHANGED <<kind, headerDone, headerProcessing, out, wire, history,
                   counts>>

\* reconnectHost: the socket is closed and a new connection made; then the
\* case RECONNECTED or RECONNECTFAILED.
Reconnect ==
    /\ step = "reconnect"
    /\ headerDone' = HeaderOfNew
    /\ toClient' = <<>> /\ owed' = <<>>
    /\ phase' = "new" /\ misplaced' = FALSE /\ irregular' = {}
    /\ \/ step' = "SENDCLIENT" /\ link' = "up" /\ UNCHANGED counts
       \/ /\ counts.breaks < MaxBreaks /\ counts' = Count("breaks")
          /\ step' = "reconnect" /\ link' = "down"
    /\ UNCHANGED <<kind, headerProcessing, out>>

Client ==
    \/ SendHeader \/ SendMessage \/ ReadPassChar \/ ReadCut \/ ReadSignon
    \/ ReadMessage \/ ReadCommand \/ ReadTimeout \/ SendSignonAck \/ SendAck
    \/ ProcessClient \/ SendClientData \/ AtEnd \/ Reconnect

-----------------------------------------------------------------------------
\* The host

HostAnswers ==
    /\ link = "up" /\ owed # <<>>
    /\ owed' = Tail(owed)
    /\ \/ /\ Head(owed) = "signonRequest"
          /\ \/ /\ toClient' = Append(toClient, "signonResponse")
                /\ phase' = "answered" /\ UNCHANGED <<counts, irregular>>
             \/ /\ counts.refusals < MaxRefusals /\ counts' = Count("refusals")
                /\ toClient' = Append(toClient, "other")
                /\ phase' = "refused"
                /\ irregular' = irregular \cup {"refused"}
       \/ /\ Head(owed) \in {"signonAck", "test"}
          /\ toClient' = Append(toClient, "ack")
          /\ UNCHANGED <<phase, irregular, counts>>
       \/ /\ Head(owed) = "data"
          /\ \/ toClient' = Append(toClient, "ack")
             \/ toClient' = Append(toClient, "update")
             \/ UNCHANGED toClient
          /\ UNCHANGED <<phase, irregular, counts>>
    /\ UNCHANGED <<kind, client, link, misplaced>>

\* A command, or one too long, with its body: after the sign-on, or before it.
HostSends ==
    /\ link = "up"
    /\ counts.commands < MaxCommands
    /\ \E type \in {"command", "long"} :
          toClient' = toClient \o <<type, "body">>
    /\ IF phase = "signed"
       THEN counts' = Count("commands") /\ UNCHANGED irregular
       ELSE /\ counts.early < MaxEarly
            /\ counts' = [counts EXCEPT !.commands = @ + 1, !.early = @ + 1]
            /\ irregular' = irregular \cup {"early"}
    /\ UNCHANGED <<kind, client, link, owed, phase, misplaced>>

\* A character before the sign-on is complete.
HostEarlyAck ==
    /\ link = "up" /\ phase # "signed"
    /\ counts.early < MaxEarly /\ counts' = Count("early")
    /\ toClient' = Append(toClient, "ack")
    /\ irregular' = irregular \cup {"early"}
    /\ UNCHANGED <<kind, client, link, owed, phase, misplaced>>

\* The connection breaks; what the host had sent arrives in part.
Break ==
    /\ link = "up"
    /\ counts.breaks < MaxBreaks /\ counts' = Count("breaks")
    /\ link' = "broken" /\ owed' = <<>>
    /\ \E n \in 0 .. Len(toClient) : toClient' = SubSeq(toClient, 1, n)
    /\ UNCHANGED <<kind, client, history>>

Host == HostAnswers \/ HostSends \/ HostEarlyAck \/ Break

Next == Client \/ Host

\* The thread runs; none of its waits is unbounded.  The host answers.
Fairness == WF_vars(Client) /\ WF_vars(HostAnswers)

Spec == Init /\ [][Next]_vars /\ Fairness

-----------------------------------------------------------------------------
\* Type invariant: the step machines stay in the steps the code has.
TypeOK ==
    /\ kind \in Kinds
    /\ step \in {"SENDCLIENT", "READCLIENT", "SENDSIGNONACK", "SENDACK",
                 "PROCESSCLIENT", "SENDCLIENTDATA", "ATEND", "reconnect"}
    /\ headerDone \in BOOLEAN /\ headerProcessing \in BOOLEAN
    /\ out \in Packets
    /\ link \in {"up", "broken", "down"}
    /\ toClient \in Seq(Incoming)
    /\ owed \in Seq(Answered)
    /\ phase \in {"new", "asked", "answered", "refused", "signed"}
    /\ misplaced \in BOOLEAN
    /\ irregular \subseteq {"early", "refused", "cut"}
    /\ counts \in [breaks : 0 .. MaxBreaks, timeouts : 0 .. MaxTimeouts,
                   refusals : 0 .. MaxRefusals, early : 0 .. MaxEarly,
                   commands : 0 .. MaxCommands, data : 0 .. MaxData,
                   cuts : 0 .. MaxCuts]

\* On every connection the host gets the sign-on, after its answer the
\* acknowledgement, and only then messages and data, each once: whatever
\* breaks, is late or is refused, on this connection or on those before it.
\* Three things can make a thread go on too early on the connection they happen
\* on.  The host sends something before it has answered the sign-on: a pass
\* character leads the main thread to its data, and the control thread takes
\* any message for the answer.  The host refuses the control thread, which does
\* not look at the type of the answer.  The main thread reads a part of the
\* answer only: the rest is read as pass characters, which lead it to its data.
SessionProtocol ==
    misplaced => \/ "early" \in irregular
                 \/ kind = "control" /\ "refused" \in irregular
                 \/ kind = "main" /\ "cut" \in irregular

\* No failure ends the service: the session is signed on again and again, on
\* this connection or on a new one, whatever broke, was late, was cut or was
\* refused.  Nothing is said of a connection on which the host has sent
\* something before its answer, or the main thread has read a part of that
\* answer only: a second sign-on on it can follow, and the host is left waiting
\* for an acknowledgement.
SignedOnAgain ==
    []<>(\/ "early" \in irregular
         \/ kind = "main" /\ "cut" \in irregular
         \/ link = "up" /\ phase = "signed")

=============================================================================
