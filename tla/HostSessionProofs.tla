------------------------- MODULE HostSessionProofs -------------------------
(***************************************************************************)
(* Proofs about HostSession, for every choice of threads and all bounds.   *)
(***************************************************************************)
EXTENDS HostSession, SequenceTheorems, TLAPS

\* Each part of the type invariant on its own.
CountsType == [breaks : 0 .. MaxBreaks, timeouts : 0 .. MaxTimeouts,
               refusals : 0 .. MaxRefusals, early : 0 .. MaxEarly,
               commands : 0 .. MaxCommands, data : 0 .. MaxData,
               cuts : 0 .. MaxCuts]
Disturbances == {"early", "refused", "cut"}

\* Reading and writing keep to the types of the wire: what is written is a
\* packet the host knows, what is left to read is of the incoming kinds.
LEMMA WrittenType ==
    ASSUME TypeOK, NEW packet \in Packets, Written(packet)
    PROVE /\ phase' \in {"new", "asked", "answered", "refused", "signed"}
          /\ misplaced' \in BOOLEAN
          /\ owed' \in Seq(Answered)
          /\ irregular' = irregular
  <1>1. /\ phase \in {"new", "asked", "answered", "refused", "signed"}
        /\ misplaced \in BOOLEAN /\ owed \in Seq(Answered)
    BY DEF TypeOK
  <1>2. CASE link = "up"
    <2>1. /\ phase' = NextPhase(packet)
          /\ misplaced' = (misplaced \/ ~ Expected(packet))
          /\ owed' = IF packet \in Answered THEN Append(owed, packet) ELSE owed
          /\ irregular' = irregular
      BY <1>2 DEF Written
    <2>2. phase' \in {"new", "asked", "answered", "refused", "signed"}
      BY <1>1, <2>1 DEF NextPhase
    <2>3. misplaced' \in BOOLEAN
      BY <1>1, <2>1, Zenon DEF Expected
    <2>4. owed' \in Seq(Answered)
      BY <1>1, <2>1
    <2> QED BY <2>1, <2>2, <2>3, <2>4
  <1>3. CASE link # "up"
    BY <1>1, <1>3 DEF Written, history
  <1> QED BY <1>2, <1>3

LEMMA SendType ==
    ASSUME TypeOK, NEW packet \in Packets,
           NEW next \in {"READCLIENT", "PROCESSCLIENT"},
           SendThen(packet, next)
    PROVE /\ phase' \in {"new", "asked", "answered", "refused", "signed"}
          /\ misplaced' \in BOOLEAN
          /\ owed' \in Seq(Answered)
          /\ irregular' = irregular
          /\ step' \in {"READCLIENT", "PROCESSCLIENT", "reconnect"}
          /\ link' = link /\ toClient' = toClient
  <1>1. /\ phase \in {"new", "asked", "answered", "refused", "signed"}
        /\ misplaced \in BOOLEAN /\ owed \in Seq(Answered)
    BY DEF TypeOK
  <1>2. CASE Written(packet) /\ step' = next
    BY <1>2, WrittenType DEF SendThen
  <1>3. CASE step' = "reconnect" /\ UNCHANGED <<history, owed>>
    BY <1>1, <1>3 DEF SendThen, history
  <1> QED BY <1>2, <1>3 DEF SendThen

LEMMA Bounds ==
    /\ MaxBreaks \in Nat /\ MaxTimeouts \in Nat /\ MaxRefusals \in Nat
    /\ MaxEarly \in Nat /\ MaxCommands \in Nat /\ MaxData \in Nat
    /\ MaxCuts \in Nat /\ MaxRest \in Nat \ {0}
    /\ Kinds \subseteq {"main", "control"}
  BY HostSessionAssumption

\* What a read that ends in the middle leaves to be read.
LEMMA LeftType ==
    ASSUME NEW s \in Seq(Incoming), NEW k \in 0 .. MaxRest, NEW n \in Nat
    PROVE  Rest(k) \o SubSeq(s, n + 1, Len(s)) \in Seq(Incoming)
  <1>1. Rest(k) \in Seq(Incoming)
    BY Bounds DEF Rest, Incoming
  <1>2. SubSeq(s, n + 1, Len(s)) \in Seq(Incoming)
    OBVIOUS
  <1> HIDE DEF Rest
  <1> QED BY <1>1, <1>2

\* Counting one more of what a bound limits keeps every count in its bound.
LEMMA CountType ==
    ASSUME TypeOK
    PROVE /\ counts.breaks < MaxBreaks => Count("breaks") \in CountsType
          /\ counts.timeouts < MaxTimeouts => Count("timeouts") \in CountsType
          /\ counts.refusals < MaxRefusals => Count("refusals") \in CountsType
          /\ counts.early < MaxEarly => Count("early") \in CountsType
          /\ counts.commands < MaxCommands => Count("commands") \in CountsType
          /\ counts.data < MaxData => Count("data") \in CountsType
          /\ counts.cuts < MaxCuts => Count("cuts") \in CountsType
          /\ counts.commands < MaxCommands /\ counts.early < MaxEarly =>
                [counts EXCEPT !.commands = @ + 1, !.early = @ + 1]
                    \in CountsType
  <1>1. counts \in CountsType
    BY DEF TypeOK, CountsType
  <1>2. counts.breaks < MaxBreaks => Count("breaks") \in CountsType
    BY <1>1, Bounds DEF Count, CountsType
  <1>3. counts.timeouts < MaxTimeouts => Count("timeouts") \in CountsType
    BY <1>1, Bounds DEF Count, CountsType
  <1>4. counts.refusals < MaxRefusals => Count("refusals") \in CountsType
    BY <1>1, Bounds DEF Count, CountsType
  <1>5. counts.early < MaxEarly => Count("early") \in CountsType
    BY <1>1, Bounds DEF Count, CountsType
  <1>6. counts.commands < MaxCommands => Count("commands") \in CountsType
    BY <1>1, Bounds DEF Count, CountsType
  <1>7. counts.data < MaxData => Count("data") \in CountsType
    BY <1>1, Bounds DEF Count, CountsType
  <1>9. counts.cuts < MaxCuts => Count("cuts") \in CountsType
    BY <1>1, Bounds DEF Count, CountsType
  <1>8. counts.commands < MaxCommands /\ counts.early < MaxEarly =>
          [counts EXCEPT !.commands = @ + 1, !.early = @ + 1] \in CountsType
    <2> DEFINE c == [counts EXCEPT !.commands = @ + 1]
    <2> SUFFICES ASSUME counts.commands < MaxCommands, counts.early < MaxEarly
                 PROVE  [c EXCEPT !.early = @ + 1] \in CountsType
      BY <1>1 DEF CountsType
    <2>1. c \in CountsType /\ c.early = counts.early
      BY <1>1, <1>6 DEF Count, CountsType
    <2> HIDE DEF c
    <2> QED BY <1>1, <2>1, Bounds DEF CountsType
  <1> QED BY <1>2, <1>3, <1>4, <1>5, <1>6, <1>7, <1>8, <1>9

-----------------------------------------------------------------------------
\* The type invariant.

LEMMA InitType == Init => TypeOK
  <1> SUFFICES ASSUME Init PROVE TypeOK
    OBVIOUS
  <1>1. toClient \in Seq(Incoming) /\ owed \in Seq(Answered)
    BY DEF Init
  <1>2. counts \in CountsType
    BY Bounds DEF Init, CountsType
  <1> QED BY <1>1, <1>2 DEF Init, TypeOK, Packets, CountsType

LEMMA StepType == TypeOK /\ [Next]_vars => TypeOK'
  <1> SUFFICES ASSUME TypeOK, [Next]_vars PROVE TypeOK'
    OBVIOUS
  <1>e. <<>> \in Seq(Incoming) /\ <<>> \in Seq(Answered)
    OBVIOUS
  <1> USE DEF CountsType, Disturbances
  <1>t. /\ kind \in Kinds /\ headerDone \in BOOLEAN
        /\ headerProcessing \in BOOLEAN /\ out \in Packets
        /\ toClient \in Seq(Incoming) /\ owed \in Seq(Answered)
        /\ link \in {"up", "broken", "down"}
        /\ phase \in {"new", "asked", "answered", "refused", "signed"}
        /\ misplaced \in BOOLEAN /\ counts \in CountsType
        /\ irregular \subseteq Disturbances
        /\ step \in {"SENDCLIENT", "READCLIENT", "SENDSIGNONACK", "SENDACK",
                     "PROCESSCLIENT", "SENDCLIENTDATA", "ATEND", "reconnect"}
    BY DEF TypeOK
  <1>a. AfterAck \in {"READCLIENT", "PROCESSCLIENT"}
    BY DEF AfterAck
  <1>b. toClient # <<>> => Tail(toClient) \in Seq(Incoming)
    BY <1>t
  <1>1. CASE SendHeader
    <2>1. "signonRequest" \in Packets
      BY DEF Packets
    <2>2. SendThen("signonRequest", "READCLIENT") /\ headerProcessing' = TRUE
          /\ UNCHANGED <<kind, headerDone, out, counts>>
      BY <1>1 DEF SendHeader
    <2> QED BY <1>t, <2>1, <2>2, SendType DEF TypeOK
  <1>2. CASE SendMessage
    <2>1. SendThen(out, "READCLIENT")
          /\ UNCHANGED <<kind, headerDone, headerProcessing, out, counts>>
      BY <1>2 DEF SendMessage
    <2> QED BY <1>t, <2>1, SendType DEF TypeOK
  <1>3. CASE ReadPassChar
    <2>1. PICK k \in 0 .. (IF Head(toClient) = "body" THEN MaxRest - 1 ELSE 0) :
             toClient' = Rest(k) \o Tail(toClient)
      BY <1>3 DEF ReadPassChar
    <2>2. k \in 0 .. MaxRest /\ toClient # <<>>
      BY <1>3, <2>1, Bounds DEF ReadPassChar
    <2>3. Rest(k) \in Seq(Incoming)
      BY <2>2, Bounds DEF Rest, Incoming
    <2>4. toClient' \in Seq(Incoming)
      BY <1>b, <2>1, <2>2, <2>3, ConcatProperties
    <2>5. step' = AfterAck /\ UNCHANGED <<kind, headerDone, headerProcessing,
                                          out, link, owed, history, counts>>
      BY <1>3 DEF ReadPassChar
    <2> QED BY <1>t, <1>a, <2>4, <2>5 DEF TypeOK, history
  <1>19. CASE ReadCut
    <2>1. toClient' \in Seq(Incoming)
      <3>1. PICK n \in 1 .. (IF Message = "rest" THEN Len(toClient) ELSE 1),
                 k \in 0 .. MaxRest :
               toClient' = Rest(k) \o SubSeq(toClient, n + 1, Len(toClient))
        BY <1>19 DEF ReadCut
      <3>2. n \in Nat
        BY <1>t
      <3> QED BY <1>t, <3>1, <3>2, LeftType
    <2>2. counts' \in CountsType
      BY <1>t, <1>19, CountType DEF ReadCut
    <2>3. /\ step' \in {"READCLIENT", "reconnect"}
          /\ irregular' \subseteq Disturbances
          /\ UNCHANGED <<kind, headerDone, headerProcessing, out, link, owed,
                         phase, misplaced>>
      BY <1>t, <1>19 DEF ReadCut
    <2> QED BY <1>t, <2>1, <2>2, <2>3 DEF TypeOK
  <1>4. CASE ReadSignon
    <2>1. /\ toClient' \in Seq(Incoming)
          /\ step' \in {"SENDSIGNONACK", "ATEND"}
          /\ headerDone' \in BOOLEAN /\ headerProcessing' \in BOOLEAN
          /\ UNCHANGED <<kind, out, link, owed, history, counts>>
      BY <1>t, <1>b, <1>4 DEF ReadSignon, AtMessage, AfterSignon
    <2> QED BY <1>t, <2>1 DEF TypeOK, history
  <1>5. CASE ReadMessage
    BY <1>t, <1>b, <1>5 DEF ReadMessage, AtMessage, TypeOK, history
  <1>6. CASE ReadCommand
    <2>1. toClient' \in Seq(Incoming)
      <3>1. SubSeq(toClient, 3, Len(toClient)) \in Seq(Incoming)
        BY <1>t
      <3>2. \A k \in 1 .. MaxRest :
               Rest(k) \o SubSeq(toClient, 2 + 1, Len(toClient))
                   \in Seq(Incoming)
        <4> TAKE k \in 1 .. MaxRest
        <4>1. k \in 0 .. MaxRest /\ 2 \in Nat
          BY Bounds
        <4> QED BY <1>t, <4>1, LeftType
      <3>3. 2 + 1 = 3
        OBVIOUS
      <3> QED BY <1>6, <3>1, <3>2, <3>3 DEF ReadCommand
    <2>2. counts' \in CountsType
      BY <1>t, <1>6, CountType DEF ReadCommand
    <2>3. /\ step' \in {"SENDCLIENTDATA", "SENDACK"} /\ out' \in Packets
          /\ UNCHANGED <<kind, headerDone, headerProcessing, link, owed,
                         history>>
      BY <1>t, <1>6 DEF ReadCommand, Packets
    <2> QED BY <1>t, <2>1, <2>2, <2>3 DEF TypeOK, history
  <1>7. CASE ReadTimeout
    <2>1. counts' \in CountsType
      BY <1>t, <1>7, CountType DEF ReadTimeout
    <2>2. step' = "reconnect"
          /\ UNCHANGED <<kind, headerDone, headerProcessing, out, wire,
                         history>>
      BY <1>7 DEF ReadTimeout
    <2> QED BY <1>t, <2>1, <2>2 DEF TypeOK, wire, history
  <1>8. CASE SendSignonAck
    BY <1>t, <1>8 DEF SendSignonAck, TypeOK, wire, history, Packets
  <1>9. CASE SendAck
    <2>1. "ack" \in Packets
      BY DEF Packets
    <2>2. SendThen("ack", AfterAck)
          /\ UNCHANGED <<kind, headerDone, headerProcessing, out, counts>>
      BY <1>9 DEF SendAck
    <2> QED BY <1>t, <1>a, <2>1, <2>2, SendType DEF TypeOK
  <1>10. CASE ProcessClient
    <2>1. counts' \in CountsType
      BY <1>t, <1>10, CountType DEF ProcessClient
    <2>2. /\ step' \in {"SENDCLIENTDATA", "SENDCLIENT"} /\ out' \in Packets
          /\ UNCHANGED <<kind, headerDone, headerProcessing, wire, history>>
      BY <1>10 DEF ProcessClient, Packets
    <2> QED BY <1>t, <2>1, <2>2 DEF TypeOK, wire, history
  <1>11. CASE SendClientData
    <2>1. SendThen(out, AfterAck)
          /\ UNCHANGED <<kind, headerDone, headerProcessing, out, counts>>
      BY <1>11 DEF SendClientData
    <2> QED BY <1>t, <1>a, <2>1, SendType DEF TypeOK
  <1>12. CASE AtEnd
    BY <1>t, <1>12 DEF AtEnd, AfterEnd, TypeOK, wire, history
  <1>13. CASE Reconnect
    <2>1. counts' \in CountsType
      BY <1>t, <1>13, CountType DEF Reconnect
    <2>2. /\ step' \in {"SENDCLIENT", "reconnect"} /\ link' \in {"up", "down"}
          /\ headerDone' = FALSE /\ phase' = "new"
          /\ toClient' = <<>> /\ owed' = <<>>
          /\ misplaced' = FALSE /\ irregular' = {}
          /\ UNCHANGED <<kind, headerProcessing, out>>
      BY <1>13 DEF Reconnect, HeaderOfNew
    <2> QED BY <1>t, <1>e, <2>1, <2>2 DEF TypeOK
  <1>14. CASE HostAnswers
    <2>1. counts' \in CountsType
      BY <1>t, <1>14, CountType DEF HostAnswers
    <2>2. owed' \in Seq(Answered)
      BY <1>t, <1>14 DEF HostAnswers
    <2>3. /\ Append(toClient, "signonResponse") \in Seq(Incoming)
          /\ Append(toClient, "other") \in Seq(Incoming)
          /\ Append(toClient, "ack") \in Seq(Incoming)
          /\ Append(toClient, "update") \in Seq(Incoming)
      BY <1>t DEF Incoming
    <2>4. toClient' \in Seq(Incoming)
      BY <1>t, <1>14, <2>3 DEF HostAnswers
    <2>5. phase' \in {"new", "asked", "answered", "refused", "signed"}
      BY <1>t, <1>14 DEF HostAnswers
    <2>6. UNCHANGED <<kind, client, link, misplaced>>
      BY <1>14 DEF HostAnswers
    <2>7. irregular' \subseteq Disturbances
      BY <1>t, <1>14 DEF HostAnswers
    <2> QED BY <1>t, <2>1, <2>2, <2>4, <2>5, <2>6, <2>7 DEF TypeOK, client
  <1>15. CASE HostSends
    <2>1. counts' \in CountsType
      BY <1>t, <1>15, CountType DEF HostSends
    <2>2. \A type \in {"command", "long"} :
             toClient \o <<type, "body">> \in Seq(Incoming)
      BY <1>t DEF Incoming
    <2>3. toClient' \in Seq(Incoming)
      BY <1>15, <2>2 DEF HostSends
    <2>4. UNCHANGED <<kind, client, link, owed, phase, misplaced>>
      BY <1>15 DEF HostSends
    <2>5. irregular' \subseteq Disturbances
      BY <1>t, <1>15 DEF HostSends, history
    <2> QED BY <1>t, <2>1, <2>3, <2>4, <2>5 DEF TypeOK, client
  <1>16. CASE HostEarlyAck
    <2>1. counts' \in CountsType
      BY <1>t, <1>16, CountType DEF HostEarlyAck
    <2>2. toClient' \in Seq(Incoming)
      BY <1>t, <1>16 DEF HostEarlyAck, Incoming
    <2>3. UNCHANGED <<kind, client, link, owed, phase, misplaced>>
          /\ irregular' \subseteq Disturbances
      BY <1>t, <1>16 DEF HostEarlyAck
    <2> QED BY <1>t, <2>1, <2>2, <2>3 DEF TypeOK, client
  <1>17. CASE Break
    <2>1. counts' \in CountsType
      BY <1>t, <1>17, CountType DEF Break
    <2>2. \A n \in 0 .. Len(toClient) :
             SubSeq(toClient, 1, n) \in Seq(Incoming)
      BY <1>t
    <2>3. toClient' \in Seq(Incoming) /\ owed' = <<>> /\ link' = "broken"
          /\ UNCHANGED <<kind, client, history>>
      BY <1>17, <2>2 DEF Break
    <2> QED BY <1>t, <2>1, <2>3 DEF TypeOK, client, history
  <1>18. CASE UNCHANGED vars
    BY <1>t, <1>18 DEF vars, client, wire, history, TypeOK
  <1> QED
    BY <1>1, <1>2, <1>3, <1>4, <1>5, <1>6, <1>7, <1>8, <1>9, <1>10, <1>11,
       <1>12, <1>13, <1>14, <1>15, <1>16, <1>17, <1>18, <1>19
    DEF Next, Client, Host

\* The step machines stay in the steps the code has, whatever the host and
\* the connection do.
THEOREM TypeCorrect == Spec => []TypeOK
  BY InitType, StepType, PTL DEF Spec

-----------------------------------------------------------------------------
\* The inductive invariant of SessionProtocol.

\* Nothing has happened on this connection that the protocol excuses.
Calm == /\ "early" \notin irregular
        /\ kind = "control" => "refused" \notin irregular
        /\ kind = "main" => "cut" \notin irregular

Quiet == toClient = <<>> /\ owed = <<>>

\* The one answer the thread waits for is on its way; or the control thread
\* has read a part of it, and passes over the rest.
Asking ==
    \/ phase = "asked" /\ toClient = <<>> /\ owed = <<"signonRequest">>
    \/ phase = "answered" /\ toClient = <<"signonResponse">> /\ owed = <<>>
    \/ /\ phase = "refused" /\ kind = "main"
       /\ toClient = <<"other">> /\ owed = <<>>
    \/ /\ phase = "answered" /\ kind = "control" /\ owed = <<>>
       /\ \A i \in 1 .. Len(toClient) : toClient[i] = "rest"

\* In a session the host has nothing of a sign-on left to answer.
Session ==
    /\ headerDone /\ phase = "signed"
    /\ \A i \in 1 .. Len(owed) : owed[i] # "signonRequest"

\* What the host thinks of the connection, for each step of the thread.
Agreed ==
    /\ step = "SENDCLIENT" =>
         \/ ~ headerDone /\ phase \in {"new", "refused"} /\ Quiet
         \/ headerDone /\ out = "signonAck" /\ phase = "answered" /\ Quiet
         \/ Session /\ out = "test"
    /\ step = "READCLIENT" =>
         Session \/ (~ headerDone /\ headerProcessing /\ Asking)
    /\ step = "SENDSIGNONACK" => headerDone /\ phase = "answered" /\ Quiet
    /\ step = "ATEND" => ~ headerDone /\ phase = "refused" /\ Quiet
    /\ step \in {"SENDACK", "PROCESSCLIENT"} => Session
    /\ step = "SENDCLIENTDATA" => Session /\ out \in {"data", "response"}

IInv == Calm => ~ misplaced /\ (link = "up" => Agreed)

\* The types the steps below need, of the variables and their new values.
WireTypes ==
    /\ kind \in {"main", "control"}
    /\ headerDone \in BOOLEAN /\ headerProcessing \in BOOLEAN
    /\ toClient \in Seq(Incoming) /\ owed \in Seq(Answered)
    /\ misplaced \in BOOLEAN

\* What is excused stays excused for as long as the connection lives.
LEMMA CalmBefore ==
    ASSUME TypeOK, Next, ~ Reconnect, Calm'
    PROVE  Calm /\ kind' = kind
  <1>1. kind' = kind
    BY DEF Next, Client, Host, SendHeader, SendMessage, ReadPassChar, ReadCut,
       ReadSignon, ReadMessage, ReadCommand, ReadTimeout, SendSignonAck,
       SendAck, ProcessClient, SendClientData, AtEnd, HostAnswers,
       HostSends, HostEarlyAck, Break
  <1>2. irregular \subseteq irregular'
    <2>1. ASSUME NEW packet, NEW next, SendThen(packet, next)
          PROVE  irregular' = irregular
      BY <2>1 DEF SendThen, Written, history
    <2>2. CASE SendHeader \/ SendMessage \/ SendAck \/ SendClientData
      BY <2>1, <2>2 DEF SendHeader, SendMessage, SendAck, SendClientData
    <2>3. CASE ~ (SendHeader \/ SendMessage \/ SendAck \/ SendClientData)
      BY <2>3 DEF Next, Client, Host, ReadPassChar, ReadCut, ReadSignon,
         ReadMessage, ReadCommand, ReadTimeout, SendSignonAck, ProcessClient,
         AtEnd, HostAnswers, HostSends, HostEarlyAck, Break, history
    <2> QED BY <2>2, <2>3
  <1> QED BY <1>1, <1>2 DEF Calm

\* Of a sequence of such characters only such are left after a read.
LEMMA RestLeft ==
    ASSUME NEW s \in Seq(Incoming), NEW k \in Nat, NEW n \in Nat,
           \A i \in 1 .. Len(s) : i > n => s[i] = "rest"
    PROVE  LET r == Rest(k) \o SubSeq(s, n + 1, Len(s))
           IN  \A i \in 1 .. Len(r) : r[i] = "rest"
  <1> DEFINE t == SubSeq(s, n + 1, Len(s))
  <1>1. Len(s) \in Nat
    OBVIOUS
  <1>2. t \in Seq(Incoming) /\ \A i \in 1 .. Len(t) : t[i] = "rest"
    <2>1. t \in Seq(Incoming)
      OBVIOUS
    <2>2. CASE n + 1 > Len(s)
      BY <1>1, <2>2
    <2>3. CASE ~ (n + 1 > Len(s))
      BY <1>1, <2>3
    <2> QED BY <2>1, <2>2, <2>3
  <1>3. Rest(k) \in Seq({"rest"}) /\ Len(Rest(k)) = k
        /\ \A i \in 1 .. k : Rest(k)[i] = "rest"
    BY DEF Rest
  <1> HIDE DEF t, Rest
  <1>4. Len(Rest(k) \o t) = k + Len(t) /\ Len(t) \in Nat
    BY <1>2, <1>3
  <1>5. \A i \in 1 .. (k + Len(t)) : (Rest(k) \o t)[i] = "rest"
    BY <1>2, <1>3, <1>4
  <1> QED BY <1>4, <1>5 DEF t

LEMMA InitInv == Init => IInv
  BY DEF Init, IInv, Agreed, Quiet

\* A packet the host expects is not misplaced; one written on a connection
\* that is not up reaches nobody.
LEMMA Sending ==
    ASSUME ~ misplaced, NEW packet \in Packets, NEW next,
           SendThen(packet, next), link = "up" => Expected(packet)
    PROVE  /\ ~ misplaced' /\ link' = link /\ toClient' = toClient
           /\ link = "up" =>
                /\ step' = next /\ phase' = NextPhase(packet)
                /\ owed' = IF packet \in Answered THEN Append(owed, packet)
                                                 ELSE owed
  <1>1. link' = link /\ toClient' = toClient
    BY DEF SendThen
  <1>2. CASE link = "up"
    <2>1. Written(packet) /\ step' = next
      BY <1>2 DEF SendThen
    <2>2. /\ phase' = NextPhase(packet)
          /\ misplaced' = (misplaced \/ ~ Expected(packet))
          /\ owed' = IF packet \in Answered THEN Append(owed, packet)
                                           ELSE owed
      BY <1>2, <2>1 DEF Written
    <2> QED BY <1>1, <1>2, <2>1, <2>2
  <1>3. CASE link # "up"
    BY <1>1, <1>3 DEF SendThen, Written, history
  <1> QED BY <1>2, <1>3

\* In a session, what is written leaves it one.
LEMMA SessionKept ==
    ASSUME WireTypes, Session, NEW packet \in Packets \ {"signonRequest"},
           headerDone' = headerDone, phase' = NextPhase(packet),
           owed' = IF packet \in Answered THEN Append(owed, packet) ELSE owed
    PROVE  Session'
  <1>1. phase' = "signed"
    BY DEF Session, NextPhase
  <1>2. owed \in Seq(Answered)
    BY DEF WireTypes
  <1>3. \A i \in 1 .. Len(owed') : owed'[i] # "signonRequest"
    BY <1>2 DEF Session
  <1> QED BY <1>1, <1>3 DEF Session

LEMMA StepInv == TypeOK /\ IInv /\ [Next]_vars => IInv'
  <1> SUFFICES ASSUME TypeOK, IInv, [Next]_vars, Calm'
               PROVE  ~ misplaced' /\ (link' = "up" => Agreed')
    BY DEF IInv
  <1>0. WireTypes
    BY Bounds DEF TypeOK, WireTypes
  <1>t. step \in {"SENDCLIENT", "READCLIENT", "SENDSIGNONACK", "SENDACK",
                  "PROCESSCLIENT", "SENDCLIENTDATA", "ATEND", "reconnect"}
    BY DEF TypeOK
  <1>u. CASE UNCHANGED vars
    <2>1. Calm
      BY <1>u DEF Calm, vars, history
    <2> QED BY <1>u, <2>1
         DEF IInv, vars, client, wire, history, Agreed, Session, Asking, Quiet
  <1>n. ASSUME Next PROVE ~ misplaced' /\ (link' = "up" => Agreed')
    <2>11. CASE Reconnect
      BY <2>11 DEF Reconnect, HeaderOfNew, Agreed, Quiet
    <2> SUFFICES ASSUME ~ Reconnect
                 PROVE  ~ misplaced' /\ (link' = "up" => Agreed')
      BY <2>11
    <2>c. Calm /\ kind' = kind
      BY <1>n, CalmBefore
    <2>i. ~ misplaced /\ (link = "up" => Agreed)
      BY <2>c DEF IInv
    <2>1. CASE SendHeader
      <3>1. SendThen("signonRequest", "READCLIENT") /\ headerProcessing' = TRUE
            /\ ~ headerDone /\ UNCHANGED <<kind, headerDone, out>>
            /\ step = "SENDCLIENT"
        BY <2>1 DEF SendHeader
      <3>2. link = "up" => phase \in {"new", "refused"} /\ Quiet
        BY <2>i, <3>1 DEF Agreed, Session
      <3>3. "signonRequest" \in Packets /\ "signonRequest" \in Answered
        BY DEF Packets, Answered
      <3>4. link = "up" => Expected("signonRequest")
        BY <3>2 DEF Expected
      <3>5. /\ ~ misplaced' /\ link' = link /\ toClient' = toClient
            /\ link = "up" =>
                  /\ step' = "READCLIENT"
                  /\ phase' = NextPhase("signonRequest")
                  /\ owed' = Append(owed, "signonRequest")
        BY <2>i, <3>1, <3>3, <3>4, Sending
      <3>6. ASSUME link = "up" PROVE Asking'
        <4>1. owed' = <<"signonRequest">> /\ toClient' = <<>>
          BY <3>2, <3>5, <3>6 DEF Quiet
        <4>2. phase' = "asked"
          BY <3>5, <3>6 DEF NextPhase
        <4> QED BY <4>1, <4>2 DEF Asking
      <3> QED BY <3>1, <3>5, <3>6 DEF Agreed
    <2>2. CASE SendMessage
      <3>1. SendThen(out, "READCLIENT") /\ headerDone /\ step = "SENDCLIENT"
            /\ UNCHANGED <<kind, headerDone, headerProcessing, out>>
        BY <2>2 DEF SendMessage
      <3>2. link = "up" =>
              \/ out = "signonAck" /\ phase = "answered" /\ Quiet
              \/ Session /\ out = "test"
        BY <2>i, <3>1 DEF Agreed
      <3>3. out \in Packets
        BY DEF TypeOK
      <3>4. link = "up" => Expected(out)
        BY <3>2 DEF Expected, Session
      <3>5. /\ ~ misplaced' /\ link' = link /\ toClient' = toClient
            /\ link = "up" =>
                  /\ step' = "READCLIENT" /\ phase' = NextPhase(out)
                  /\ owed' = IF out \in Answered THEN Append(owed, out)
                                                ELSE owed
        BY <2>i, <3>1, <3>3, <3>4, Sending
      <3>6. ASSUME link = "up" PROVE Session'
        <4>1. CASE out = "signonAck" /\ phase = "answered" /\ Quiet
          <5>1. phase' = "signed" /\ owed' = <<"signonAck">>
            BY <3>5, <3>6, <4>1 DEF NextPhase, Quiet, Answered
          <5> QED BY <3>1, <5>1 DEF Session
        <4>2. CASE Session /\ out = "test"
          BY <1>0, <3>1, <3>3, <3>5, <3>6, <4>2, SessionKept
        <4> QED BY <3>2, <3>6, <4>1, <4>2
      <3> QED BY <3>5, <3>6 DEF Agreed
    <2>3. CASE ReadPassChar
      <3>1. /\ step = "READCLIENT" /\ toClient # <<>>
            /\ Head(toClient) \in {"ack", "body", "rest"}
            /\ step' = AfterAck
            /\ UNCHANGED <<headerDone, headerProcessing, out, link, owed, phase,
                          misplaced>>
        BY <2>3 DEF ReadPassChar, PassChars, history
      <3>2. link = "up" =>
              Session \/ (~ headerDone /\ headerProcessing /\ Asking)
        BY <2>i, <3>1, Zenon DEF Agreed
      <3>3. CASE Session
        BY <2>i, <3>1, <3>3 DEF Agreed, Session, AfterAck
      <3>4. ASSUME link = "up", ~ headerDone, headerProcessing, Asking
            PROVE  Agreed'
        <4>1. /\ phase = "answered" /\ kind = "control" /\ owed = <<>>
              /\ \A i \in 1 .. Len(toClient) : toClient[i] = "rest"
          BY <3>1, <3>4 DEF Asking
        <4>2. Head(toClient) = "rest"
          BY <1>0, <3>1, <4>1 DEF WireTypes
        <4>3. toClient' = Rest(0) \o Tail(toClient)
          BY <2>3, <4>2 DEF ReadPassChar
        <4>4. Tail(toClient) = SubSeq(toClient, 1 + 1, Len(toClient))
          BY <1>0, <3>1 DEF WireTypes
        <4>5. \A i \in 1 .. Len(toClient') : toClient'[i] = "rest"
          BY <1>0, <4>1, <4>3, <4>4, RestLeft DEF WireTypes
        <4>6. Asking'
          BY <2>c, <3>1, <4>1, <4>5 DEF Asking
        <4> QED BY <2>c, <3>1, <3>4, <4>1, <4>6 DEF Agreed, AfterAck
      <3> QED BY <2>i, <3>1, <3>2, <3>3, <3>4
    <2>15. CASE ReadCut
      <3>1. /\ step = "READCLIENT" /\ toClient # <<>>
            /\ step' \in {"READCLIENT", "reconnect"}
            /\ UNCHANGED <<kind, headerDone, headerProcessing, out, link, owed,
                          phase, misplaced>>
        BY <2>15 DEF ReadCut
      <3>2. PICK n \in 1 .. (IF Message = "rest" THEN Len(toClient) ELSE 1),
                 k \in 0 .. MaxRest :
               toClient' = Rest(k) \o SubSeq(toClient, n + 1, Len(toClient))
        BY <2>15 DEF ReadCut
      <3>3. CASE Session
        BY <2>i, <3>1, <3>3 DEF Agreed, Session
      <3>4. ASSUME link = "up", ~ headerDone, headerProcessing, Asking
            PROVE  Agreed'
        <4>1. "cut" \in irregular'
          BY <2>15, <3>4 DEF ReadCut
        <4>2. kind = "control"
          BY <1>0, <2>c, <4>1 DEF Calm, WireTypes
        <4>3. phase = "answered" /\ owed = <<>>
          BY <3>1, <4>2, <3>4 DEF Asking
        <4>4. n \in Nat /\ n >= 1 /\ k \in Nat
          BY <1>0, Bounds DEF WireTypes
        <4>5. \A i \in 1 .. Len(toClient) : i > n => toClient[i] = "rest"
          BY <3>4, <4>2, <4>3, <4>4 DEF Asking
        <4>6. \A i \in 1 .. Len(toClient') : toClient'[i] = "rest"
          BY <1>0, <3>2, <4>4, <4>5, RestLeft DEF WireTypes
        <4>7. Asking'
          BY <3>1, <4>2, <4>3, <4>6 DEF Asking
        <4> QED BY <3>1, <3>4, <4>7 DEF Agreed
      <3> QED BY <2>i, <3>1, <3>3, <3>4 DEF Agreed
    <2>4. CASE ReadSignon
      <3>1. /\ step = "READCLIENT" /\ toClient # <<>> /\ ~ headerDone
            /\ toClient' = Tail(toClient) /\ Head(toClient) # "rest"
            /\ UNCHANGED <<out, link, owed, phase, misplaced>>
            /\ IF kind = "control" \/ Head(toClient) = "signonResponse"
               THEN headerDone' = TRUE /\ step' = "SENDSIGNONACK"
               ELSE step' = "ATEND" /\ headerDone' = headerDone
        BY <2>4 DEF ReadSignon, AtMessage, AfterSignon, history, IsSignon,
             Message, PassChars
      <3>2. link = "up" => Asking
        BY <2>i, <3>1 DEF Agreed, Session
      <3>3. ASSUME link = "up"
            PROVE  /\ Quiet'
                   /\ \/ phase = "answered" /\ Head(toClient) = "signonResponse"
                      \/ /\ phase = "refused" /\ kind = "main"
                         /\ Head(toClient) = "other"
        <4>1. \A x : Head(<<x>>) = x /\ Tail(<<x>>) = <<>>
          OBVIOUS
        <4>2. ~ \A i \in 1 .. Len(toClient) : toClient[i] = "rest"
          BY <1>0, <3>1 DEF WireTypes
        <4> QED BY <3>1, <3>2, <3>3, <4>1, <4>2 DEF Asking, Quiet
      <3> QED BY <2>i, <3>1, <3>3 DEF Agreed
    <2>5. CASE ReadMessage \/ ReadCommand
      <3>1. /\ step = "READCLIENT" /\ headerDone
            /\ \/ step' = "SENDACK"
               \/ step' = "SENDCLIENTDATA" /\ out' = "response"
            /\ UNCHANGED <<headerDone, link, owed, phase, misplaced>>
        BY <2>5 DEF ReadMessage, ReadCommand, AtMessage, history
      <3>2. link = "up" => Session'
        BY <2>i, <3>1 DEF Agreed, Session
      <3> QED BY <2>i, <3>1, <3>2 DEF Agreed
    <2>6. CASE ReadTimeout
      BY <2>i, <2>6 DEF ReadTimeout, wire, history, Agreed
    <2>7. CASE SendSignonAck
      BY <2>i, <2>7 DEF SendSignonAck, wire, history, Agreed, Quiet
    <2>8. CASE SendAck \/ SendClientData
      <3> DEFINE p == IF step = "SENDACK" THEN "ack" ELSE out
      <3>1. /\ SendThen(p, AfterAck) /\ step \in {"SENDACK", "SENDCLIENTDATA"}
            /\ UNCHANGED <<kind, headerDone, headerProcessing, out>>
        BY <2>8 DEF SendAck, SendClientData
      <3>2. link = "up" =>
               Session /\ p \in {"ack", "data", "response"}
        BY <2>i, <3>1 DEF Agreed
      <3>3. p \in Packets
        BY DEF TypeOK, Packets
      <3> HIDE DEF p
      <3>4. link = "up" => Expected(p)
        BY <3>2 DEF Expected, Session
      <3>5. /\ ~ misplaced' /\ link' = link
            /\ link = "up" =>
                  /\ step' = AfterAck /\ phase' = NextPhase(p)
                  /\ owed' = IF p \in Answered THEN Append(owed, p) ELSE owed
        BY <2>i, <3>1, <3>3, <3>4, Sending
      <3>6. ASSUME link = "up" PROVE Session'
        BY <1>0, <3>1, <3>2, <3>3, <3>5, <3>6, SessionKept
      <3> QED BY <3>5, <3>6 DEF Agreed, AfterAck
    <2>9. CASE ProcessClient
      <3>1. /\ step = "PROCESSCLIENT"
            /\ \/ step' = "SENDCLIENTDATA" /\ out' = "data"
               \/ step' = "SENDCLIENT" /\ out' = "test"
            /\ UNCHANGED <<headerDone, link, owed, phase, misplaced>>
        BY <2>9 DEF ProcessClient, wire, history
      <3>2. link = "up" => Session'
        BY <2>i, <3>1 DEF Agreed, Session
      <3> QED BY <2>i, <3>1, <3>2 DEF Agreed
    <2>10. CASE AtEnd
      BY <2>i, <2>10 DEF AtEnd, AfterEnd, wire, history, Agreed, Quiet
    <2>12. CASE HostAnswers
      <3>1. /\ owed # <<>> /\ owed' = Tail(owed) /\ link = "up"
            /\ UNCHANGED <<kind, step, headerDone, headerProcessing, out, link,
                          misplaced>>
        BY <2>12 DEF HostAnswers, client
      <3>2. CASE Session
        <4>1. owed \in Seq(Answered)
          BY <1>0 DEF WireTypes
        <4>2. Head(owed) # "signonRequest"
          BY <3>1, <3>2, <4>1 DEF Session
        <4>3. phase' = phase
          BY <2>12, <4>2 DEF HostAnswers
        <4>4. \A i \in 1 .. Len(owed') : owed'[i] # "signonRequest"
          BY <3>1, <3>2, <4>1 DEF Session
        <4>5. Session'
          BY <3>1, <3>2, <4>3, <4>4 DEF Session
        <4> QED BY <2>i, <3>1, <3>2, <4>5 DEF Agreed, Session
      <3>3. CASE ~ Session
        <4>1. \/ step = "reconnect"
              \/ /\ step = "READCLIENT" /\ ~ headerDone /\ headerProcessing
                 /\ phase = "asked" /\ toClient = <<>>
                 /\ owed = <<"signonRequest">>
          <5>1. Agreed
            BY <2>i, <3>1
          <5>2. step = "READCLIENT" => ~ headerDone /\ headerProcessing /\ Asking
            BY <3>3, <5>1 DEF Agreed
          <5>3. Asking => phase = "asked" /\ toClient = <<>>
                            /\ owed = <<"signonRequest">>
            BY <3>1 DEF Asking
          <5>4. step \in {"READCLIENT", "reconnect"}
            BY <1>t, <3>1, <3>3, <5>1 DEF Agreed, Quiet
          <5> QED BY <5>2, <5>3, <5>4
        <4>2. CASE step = "reconnect"
          BY <2>i, <3>1, <4>2 DEF Agreed
        <4>3. CASE step # "reconnect"
          <5>1. Head(owed) = "signonRequest" /\ owed' = <<>>
            <6>1. \A x : Head(<<x>>) = x /\ Tail(<<x>>) = <<>>
              OBVIOUS
            <6>2. owed = <<"signonRequest">>
              BY <4>1, <4>3
            <6> QED BY <3>1, <6>1, <6>2
          <5>2. \/ phase' = "answered" /\ toClient' = <<"signonResponse">>
                \/ /\ phase' = "refused" /\ toClient' = <<"other">>
                   /\ irregular' = irregular \cup {"refused"}
            BY <2>12, <4>1, <4>3, <5>1 DEF HostAnswers
          <5>3. phase' = "refused" => kind' = "main"
            BY <1>0, <2>c, <5>2 DEF Calm, WireTypes
          <5>4. Asking'
            BY <5>1, <5>2, <5>3 DEF Asking
          <5> QED BY <2>i, <3>1, <4>1, <4>3, <5>4 DEF Agreed
        <4> QED BY <4>2, <4>3
      <3> QED BY <3>2, <3>3
    <2>13. CASE HostSends \/ HostEarlyAck
      <3>1. /\ link = "up"
            /\ UNCHANGED <<step, headerDone, headerProcessing, out, link, owed,
                          phase, misplaced>>
        BY <2>13 DEF HostSends, HostEarlyAck, client
      <3>2. phase = "signed"
        BY <2>13 DEF HostSends, HostEarlyAck, Calm
      <3>3. step = "reconnect" \/ Session
        BY <1>t, <2>i, <3>1, <3>2 DEF Agreed, Asking
      <3>4. Session => Session'
        BY <3>1 DEF Session
      <3> QED BY <2>i, <3>1, <3>2, <3>3, <3>4 DEF Agreed, Session
    <2>14. CASE Break
      BY <2>i, <2>14 DEF Break, client, history
    <2> QED
      BY <1>n, <2>1, <2>2, <2>3, <2>4, <2>5, <2>6, <2>7, <2>8, <2>9, <2>10,
         <2>12, <2>13, <2>14, <2>15 DEF Next, Client, Host
  <1> QED BY <1>u, <1>n

\* The host gets the sign-on first, its acknowledgement after the answer, and
\* messages and data only then, on every connection, for as long as it waits
\* with what it sends, and the main thread reads its answer whole: for any
\* number of breaks, timeouts, reads that end in the middle and refusals.
THEOREM ProtocolKept == Spec => []SessionProtocol
  <1>1. TypeOK /\ IInv => SessionProtocol
    BY DEF IInv, Calm, SessionProtocol
  <1> QED BY <1>1, InitInv, StepInv, TypeCorrect, PTL DEF Spec

=============================================================================
