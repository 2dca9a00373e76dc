----------------------------- MODULE AuditEvents -----------------------------
(* The AUDITD worker: run reads the stream of audispd, parse_buf splits what *)
(* one recv returned into lines, parse_msgid and parse_buf2 collect the      *)
(* fields of an event under its number, and send_data hands the event over   *)
(* when its EOE line comes. The lines of several events may interleave, and  *)
(* a recv may end inside a line. A line is its event, its type and its place *)
(* in the stream, which stands for its data; a part of a line is what can    *)
(* still be read of it.                                                      *)
EXTENDS Naturals, Sequences, SequencesExt, FiniteSets

CONSTANTS
    Numbers,        \* audit event numbers
    Types,          \* record types that carry data (SYSCALL, PATH, ...)
    MaxLines,       \* bound: lines audispd writes
    MaxCuts         \* bound: reads that end inside a line

NoNumber == 0
NoType == "none"
Empty == "empty"        \* what is left of a line when only its newline is
NoLine == 0

ASSUME AuditAssumption ==
    /\ Numbers \subseteq Nat \ {NoNumber}
    /\ Types \cap {"EOE", NoType, Empty} = {}
    /\ {MaxLines, MaxCuts} \subseteq Nat

VARIABLES
    wire,           \* what audispd has written and run has not read
    written,        \* the lines written so far, with the event and type of each
    ended,          \* events whose EOE has been written
    out,            \* text of reads that filled the buffer
    datavals,       \* fields collected by event number: type -> line
    sent,           \* the records handed to add_client_data
    cuts,           \* reads that ended inside a line
    crashed         \* send_data used an event datavals does not have

auditVars == <<wire, written, ended, out, datavals, sent, cuts, crashed>>

AuditInit ==
    /\ wire = <<>>
    /\ written = <<>>
    /\ ended = {}
    /\ out = <<>>
    /\ datavals = [n \in {} |-> <<>>]
    /\ sent = <<>>
    /\ cuts = 0
    /\ crashed = FALSE

-----------------------------------------------------------------------------
(* Parts of lines.                                                           *)

Piece(number, type, line, ends) ==
    [number |-> number, type |-> type, line |-> line, ends |-> ends]

\* What the two parts of a line show when a read ends before its type, between
\* its type and its number, after its number, or just before its newline.
FirstPart(p, cut) ==
    CASE cut = "type"   -> Piece(NoNumber, NoType, p.line, FALSE)
      [] cut = "number" -> Piece(NoNumber, p.type, p.line, FALSE)
      [] OTHER          -> Piece(p.number, p.type, p.line, FALSE)

LastPart(p, cut) ==
    CASE cut = "type"   -> p
      [] cut = "number" -> Piece(p.number, NoType, p.line, TRUE)
      [] cut = "data"   -> Piece(NoNumber, NoType, p.line, TRUE)
      [] OTHER          -> Piece(NoNumber, Empty, p.line, TRUE)

\* Text appended to the text before it makes a line whole again.
Whole(line) == Piece(written[line].number, written[line].type, line, TRUE)

Joined(before, text) ==
    IF before # <<>> /\ text # <<>> /\ ~Last(before).ends
    THEN Front(before) \o <<Whole(Head(text).line)>> \o Tail(text)
    ELSE before \o text

-----------------------------------------------------------------------------
(* audispd, which writes whole lines and ends an event once.                 *)

Write(n, type) ==
    /\ Len(written) < MaxLines /\ n \notin ended
    /\ type = "EOE" => \E i \in DOMAIN written : written[i].number = n
    /\ written' = Append(written, [number |-> n, type |-> type])
    /\ wire' = Append(wire, Piece(n, type, Len(written) + 1, TRUE))
    /\ ended' = IF type = "EOE" THEN ended \cup {n} ELSE ended
    /\ UNCHANGED <<out, datavals, sent, cuts, crashed>>

-----------------------------------------------------------------------------
(* What parse_buf does with one line of the text, in the state it has        *)
(* reached: msgid, the number of the last line that showed one, datavals,    *)
(* the records sent, and whether it has crashed.                             *)

Parsing == [msgid |-> NoNumber, data |-> datavals, sent |-> sent,
            crashed |-> FALSE]

Fields(data, n) == IF n \in DOMAIN data THEN data[n]
                   ELSE [t \in Types |-> NoLine]

With(data, n, fields) ==
    [m \in DOMAIN data \cup {n} |-> IF m = n THEN fields ELSE data[m]]

\* send_data: the event becomes a record and its fields are cleared; the end
\* of an event that has no fields yet is looked up in vain and used.
SendData(s, n) ==
    IF n \notin DOMAIN s.data THEN [s EXCEPT !.crashed = TRUE]
    ELSE [s EXCEPT !.sent = Append(@, [number |-> n, fields |-> s.data[n]]),
                   !.data = With(@, n, [t \in Types |-> NoLine])]

\* parse_buf2: a line that shows its type adds its data (a second line of the
\* type replaces the first), one that shows only its number adds the number.
Collect(s, p) ==
    IF p.type \in Types
    THEN [s EXCEPT !.data =
            With(@, s.msgid, [Fields(@, s.msgid) EXCEPT ![p.type] = p.line])]
    ELSE IF p.number # NoNumber
    THEN [s EXCEPT !.data = With(@, s.msgid, Fields(@, s.msgid))]
    ELSE s

\* A line goes to the event that was current before it.
ParseLineLate(s, p) ==
    LET t == [s EXCEPT !.msgid = IF p.number # NoNumber THEN p.number ELSE @]
        u == IF s.msgid = NoNumber THEN t ELSE [t EXCEPT !.msgid = s.msgid]
    IN  IF s.crashed THEN s
        ELSE IF p.type = "EOE" THEN SendData(t, t.msgid)
        ELSE [Collect(u, p) EXCEPT !.msgid = t.msgid]

ParseLine(s, p) ==
    LET t == [s EXCEPT !.msgid = IF p.number # NoNumber THEN p.number ELSE @]
    IN  IF s.crashed THEN s
        ELSE IF p.type = "EOE" THEN SendData(t, t.msgid)
        ELSE Collect(t, p)

\* The loop ends before the last newline.
IsLineButLast(text, i) ==
    \/ \A j \in DOMAIN text : ~text[j].ends
    \/ text[i].ends /\ \E j \in DOMAIN text : j > i /\ text[j].ends

\* A text without any newline is parsed as a line; otherwise what follows the
\* last newline is dropped. A text that begins with a newline is not read.
IsLine(text, i) ==
    \/ \A j \in DOMAIN text : ~text[j].ends
    \/ text[i].ends /\ Head(text).type # Empty

\* The loop of parse_buf: the states between the lines.
Progress(text) ==
    LET after[i \in 0 .. Len(text)] ==
            IF i = 0 THEN Parsing
            ELSE IF IsLine(text, i) THEN ParseLine(after[i - 1], text[i])
            ELSE after[i - 1]
    IN  after

ParseBuf(text) == Progress(text)[Len(text)]

-----------------------------------------------------------------------------
(* One recv of run: n lines, or n - 1 and the first part of another. A read  *)
(* that fills the buffer is kept and parsed together with the next.          *)

Received(n, cut) ==
    IF cut = "none" THEN SubSeq(wire, 1, n)
    ELSE SubSeq(wire, 1, n - 1) \o <<FirstPart(wire[n], cut)>>

Unread(n, cut) ==
    LET rest == SubSeq(wire, n + 1, Len(wire))
    IN  IF cut = "none" THEN rest ELSE <<LastPart(wire[n], cut)>> \o rest

Recv(n, cut, filled) ==
    /\ ~crashed
    /\ cut # "none" => cuts < MaxCuts /\ wire[n] = Whole(wire[n].line)
    /\ cuts' = IF cut = "none" THEN cuts ELSE cuts + 1
    /\ wire' = Unread(n, cut)
    /\ LET text == Joined(out, Received(n, cut))
           s == ParseBuf(text)
       IN  IF filled THEN out' = text /\ UNCHANGED <<datavals, sent, crashed>>
           ELSE /\ out' = <<>>
                /\ datavals' = s.data
                /\ sent' = s.sent
                /\ crashed' = s.crashed
    /\ UNCHANGED <<written, ended>>

Cuts == {"none", "type", "number", "data", "newline"}

AuditNext ==
    \/ \E n \in Numbers, type \in Types \cup {"EOE"} : Write(n, type)
    \/ \E n \in DOMAIN wire, cut \in Cuts, filled \in BOOLEAN :
            Recv(n, cut, filled)

-----------------------------------------------------------------------------
\* No record mixes events, however the lines interleave and wherever the reads
\* end: each of its fields is the data of a line of its own event and type
\* (parse_msgid, parse_buf2). Lines whose number was cut off go to number 0.
NotMixed ==
    \A i \in DOMAIN sent : \A t \in Types :
        LET line == sent[i].fields[t]
        IN  line # NoLine /\ sent[i].number # NoNumber =>
                written[line] = [number |-> sent[i].number, type |-> t]

LastOf(n, t) ==
    LET lines == {i \in DOMAIN written :
                    written[i] = [number |-> n, type |-> t]}
    IN  IF lines = {} THEN NoLine
        ELSE CHOOSE i \in lines : \A j \in lines : j <= i

\* As long as every read ends with a line, the worker does not crash, and an
\* event whose end has been read is sent once and whole: one record, with the
\* last line of every type the event has.
WholeEvents ==
    cuts = 0 =>
        /\ ~crashed
        /\ \A n \in Numbers :
            LET records == {i \in DOMAIN sent : sent[i].number = n}
                read == n \in ended /\ \A p \in ToSet(wire \o out) :
                            p.number # n
            IN  /\ Cardinality(records) = IF read THEN 1 ELSE 0
                /\ \A i \in records, t \in Types :
                        sent[i].fields[t] = LastOf(n, t)

=============================================================================
