------------------------------ MODULE Framing ------------------------------
(* Messages on a connection: what one end composes (Icomm, BaseServer::send,
   SocketIO::writePacket), how SocketIO writes it, and what the other end makes
   of the characters that arrive (SocketIO::doRead and the readers built on it:
   Icomm::read, doReadPacket, doReadLen, doReadLine).

   A character is a token <<kind, value>>.  A type, a bitmap, an LRC and a digit
   of a length are one token each, whatever their width; the four characters
   that the input check replaces (backslash, semicolon and both quotes) are one,
   Quote.  An LRC is the exclusive or of the characters: here the set of those
   that occur an odd number of times, so that, like an exclusive or, it misses
   characters that come in pairs. *)
EXTENDS Integers, Sequences, FiniteSets, SequencesExt, FiniteSetsExt

CONSTANTS
    FixedSize,      \* the size of every field that has one in field_def
    Base,           \* a length below Base is one digit, a longer one is two
    Letters,        \* the characters of the values that it composes with
    Messages,       \* what the program composes: a type, and calls of set, add
    Payloads,       \* what it sends with writePacket, or as a line
    Codecs,         \* the pairs of a writer and a reader to look at
    MaxMessages, MaxAccidents

ASSUME FramingAssumption ==
    /\ Base \in Nat \ {0, 1} /\ FixedSize \in Nat \ {0}
    /\ Messages \subseteq [type : Nat, calls : Seq([op : {"set", "add"},
                                                  id : Int, value : Seq(Letters)])]
    /\ \A v \in Payloads : v \in Seq(Range(v))
    /\ Codecs \subseteq {"icomm", "packet", "len", "line"}
    /\ {MaxMessages, MaxAccidents} \subseteq Nat

VARIABLES
    codec,      \* the writer and the reader in use
    tls,        \* useSSL
    conn,       \* the connection: "down", "tcp", "up", or "broken" by a write
    out,        \* what is left of the buffer that is being written
    wire,       \* what was written and not yet read, with the message it is of
    sent,       \* the messages composed so far
    rd,         \* the reader: the call it is in, and what it has read
    accepted,   \* the messages it returned, each with the one it began in
    cut,        \* the messages that a broken connection took with it
    garbled,    \* the messages whose length field ended in an ETX
    accidents   \* how often time ran out, a character changed, a write failed

framingVars == <<codec, tls, conn, out, wire, sent, rd, accepted, cut, garbled,
                 accidents>>

-----------------------------------------------------------------------------
(* Characters *)

Num(n) == <<"number", n>>
Bits(S) == <<"bitmap", S>>
Chr(c) == <<"char", c>>
STX == Chr("STX")
ETX == Chr("ETX")
ACK == Chr("ACK")
CR == Chr("CR")
LF == Chr("LF")
Nul == Chr("NUL")
Space == Chr(" ")
Zero == Chr("0")
Quote == Chr("quote")

Lrc(s) == <<"lrc", {t \in Range(s) :
                       Cardinality({i \in DOMAIN s : s[i] = t}) % 2 = 1}>>

\* atoi, atol: what does not begin with a digit is 0.
Atoi(t) == IF t[1] = "number" THEN t[2] ELSE 0

\* The loop at the end of doRead when checkInput is set.
Cleaned(s) == [i \in DOMAIN s |-> IF s[i] = Quote THEN Space ELSE s[i]]

-----------------------------------------------------------------------------
(* Icomm: composing and printing *)

\* field_def. A short, a long and a very long length differ in their digits.
LengthFields ==
    {2} \cup 31 .. 36 \cup {42, 43} \cup 45 .. 48 \cup 53 .. 56 \cup 58 .. 63
        \cup {66, 72} \cup 93 .. 96 \cup 99 .. 104 \cup 109 .. 127
Def == [id \in 1 .. 127 |->
           IF id \in LengthFields
           THEN [kind |-> "length", size |-> 0, alpha |-> FALSE]
           ELSE [kind |-> "fixed", size |-> FixedSize, alpha |-> id = 44]]

NewIcomm(type) == [type |-> type, header |-> {}, fields |-> <<>>]

Text(c, id) == IF id \in DOMAIN c.fields THEN c.fields[id] ELSE <<>>

\* An id beyond the two bitmaps, or an empty value, is refused with an error in
\* the log; a field above 64 needs the second bitmap, which bit 1 announces.
Set(c, id, value) ==
    IF id \notin 1 .. 127 \/ value = <<>> THEN c
    ELSE [type |-> c.type,
          header |-> c.header \cup IF id > 64 THEN {1, id} ELSE {id},
          fields |-> [x \in DOMAIN c.fields \cup {id} |->
                         IF x = id THEN value ELSE c.fields[x]]]

Add(c, id, value) ==
    IF value = <<>> THEN c ELSE Set(c, id, Text(c, id) \o <<Space>> \o value)

Call(c, call) == IF call.op = "set" THEN Set(c, call.id, call.value)
                 ELSE Add(c, call.id, call.value)

Composed(m) ==
    LET After[n \in 0 .. Len(m.calls)] ==
            IF n = 0 THEN NewIcomm(m.type) ELSE Call(After[n - 1], m.calls[n])
    IN  After[Len(m.calls)]

Digits(n) ==
    IF n < Base THEN <<Num(n)>> ELSE <<Num(n \div Base), Num(n % Base)>>

Fill(v, size, c) == [i \in 1 .. size - Len(v) |-> c]

\* A fixed field is filled up, never cut off.  The stream keeps the character
\* it fills with and, once an alpha field was printed, std::left.
PrintField(o, id, value) ==
    CASE Def[id].kind # "fixed" ->
           [o EXCEPT !.chars = @ \o Digits(Len(value)) \o value]
      [] Def[id].kind = "fixed" /\ ~ Def[id].alpha ->
           LET fill == Fill(value, Def[id].size, Zero) IN
           [o EXCEPT !.fill = Zero,
                     !.chars = @ \o IF o.left THEN value \o fill
                                    ELSE fill \o value]
      [] Def[id].kind = "fixed" /\ Def[id].alpha ->
           [chars |-> o.chars \o value \o Fill(value, Def[id].size, o.fill),
            fill |-> Space, left |-> TRUE]

Bitmaps(c) ==
    <<Bits(c.header \cap 1 .. 64)>>
        \o IF 1 \in c.header THEN <<Bits(c.header \cap 65 .. 127)>> ELSE <<>>

PrinterStart(c) ==
    [chars |-> <<Num(c.type)>> \o Bitmaps(c), fill |-> Space, left |-> FALSE]

\* Field 127 is printed; the readers stop before it.
Printed(c) ==
    LET After[id \in 1 .. 127] ==
            IF id = 1 THEN PrinterStart(c)
            ELSE IF id \in c.header
            THEN PrintField(After[id - 1], id, Text(c, id))
            ELSE After[id - 1]
    IN  IF c.type > 999 THEN <<>> ELSE After[127].chars

\* BaseServer::send
Sent(c) == <<STX>> \o Printed(c) \o <<ETX, Lrc(Append(Printed(c), ETX))>>

\* A mutant of FieldOfString: the length stays in front of the value.
FieldOfStringUnskipped(s, r, id) ==
    LET n == IF Def[id].kind = "fixed" THEN Def[id].size ELSE Atoi(s[r.pos])
    IN  [pos |-> r.pos + n,
         c |-> Set(r.c, id, SubSeq(s, r.pos, r.pos + n - 1))]

\* Icomm::read of a string, which looks at no STX, ETX or LRC.
FieldOfString(s, r, id) ==
    LET n == IF Def[id].kind = "fixed" THEN Def[id].size ELSE Atoi(s[r.pos])
        first == IF Def[id].kind = "fixed" THEN r.pos ELSE r.pos + 1
    IN  [pos |-> first + n, c |-> Set(r.c, id, SubSeq(s, first, first + n - 1))]

StringStart(s) ==
    LET two == 1 \in s[2][2] IN
    [pos |-> IF two THEN 4 ELSE 3,
     c |-> [NewIcomm(Atoi(s[1])) EXCEPT
               !.header = s[2][2] \cup IF two THEN s[3][2] ELSE {}]]

ReadString(s) ==
    LET start == StringStart(s)
        After[id \in 1 .. 126] ==
            IF id = 1 THEN start
            ELSE IF id \in start.c.header
            THEN FieldOfString(s, After[id - 1], id)
            ELSE After[id - 1]
    IN  After[126].c

\* writePacket.  On Linux the ten characters of a length are those of a shorter
\* string, its NUL and what follows that in memory: junk, possibly an ETX.
Packet(v) == <<STX>> \o v \o <<ETX, Lrc(Append(v, ETX))>>
\* A mutant of WithLength: the length counts the ETX.
WithLengthOfAll(v, junk) == <<STX, Num(Len(v) + 1), junk>> \o v \o <<ETX>>

WithLength(v, junk) == <<STX, Num(Len(v)), junk>> \o v \o <<ETX>>

-----------------------------------------------------------------------------
(* The connection and the writer *)

NoAccident == [timeouts |-> 0, damages |-> 0, breaks |-> 0]

Accident(kind) ==
    /\ accidents.timeouts + accidents.damages + accidents.breaks < MaxAccidents
    /\ accidents' = [accidents EXCEPT ![kind] = @ + 1]

Idle == [pc |-> "idle", from |-> 0, c |-> NewIcomm(0), todo |-> {}, need |-> 0,
         lrc |-> <<>>, buf |-> <<>>]

FramingInit ==
    /\ codec \in Codecs /\ tls \in BOOLEAN
    /\ conn = "down"
    /\ out = <<>> /\ wire = <<>> /\ sent = <<>> /\ accepted = <<>>
    /\ rd = Idle
    /\ cut = {} /\ garbled = {}
    /\ accidents = NoAccident

readerVars == <<rd, accepted>>
writerVars == <<codec, tls, out, sent, garbled>>

\* openClient returns with a connection, or, when it does not block, without
\* one: its callers try again.
OpenClient ==
    /\ conn = "down"
    /\ conn' = IF tls THEN "tcp" ELSE "up"
    /\ UNCHANGED <<writerVars, readerVars, wire, cut, accidents>>

\* A handshake that fails closes the socket.
StartUpSSL ==
    /\ conn = "tcp"
    /\ \/ conn' = "up" /\ UNCHANGED accidents
       \/ conn' = "down" /\ Accident("breaks")
    /\ UNCHANGED <<writerVars, readerVars, wire, cut>>

\* What the reader of lines takes for the end of one.
LineEnds == {<<LF>>, <<CR, LF>>}

\* What one end sends, with the characters of it.
Offers ==
    CASE codec = "icomm" -> {[what |-> Composed(m), chars |-> Sent(Composed(m)),
                              junk |-> Nul] : m \in Messages}
      [] codec = "packet" -> {[what |-> v, chars |-> Packet(v), junk |-> Nul] :
                                 v \in Payloads}
      [] codec = "len" -> {[what |-> v, chars |-> WithLength(v, j),
                            junk |-> j] :
                              v \in Payloads, j \in {Nul, ETX}}
      [] codec = "line" -> {[what |-> v, chars |-> v \o e, junk |-> Nul] :
                               v \in Payloads, e \in LineEnds}

Compose ==
    /\ conn = "up" /\ out = <<>> /\ Len(sent) < MaxMessages
    /\ \E o \in Offers :
          /\ sent' = Append(sent, o.what)
          /\ out' = o.chars
          /\ garbled' = garbled \cup {m \in {Len(sent) + 1} : o.junk = ETX}
    /\ UNCHANGED <<codec, tls, conn, wire, readerVars, cut, accidents>>

\* write takes what the socket accepts, and goes on with the rest; SSL_write
\* takes all.
Write ==
    /\ conn = "up" /\ out # <<>>
    /\ \E n \in IF tls THEN {Len(out)} ELSE 1 .. Len(out) :
          /\ out' = SubSeq(out, n + 1, Len(out))
          /\ wire' = wire \o [i \in 1 .. n |-> [t |-> out[i], m |-> Len(sent)]]
    /\ UNCHANGED <<codec, tls, conn, sent, garbled, readerVars, cut, accidents>>

\* The rest is not written: the caller closes the connection.
WriteFails ==
    /\ conn = "up" /\ out # <<>>
    /\ Accident("breaks")
    /\ conn' = "broken"
    /\ out' = <<>>
    /\ cut' = cut \cup {Len(sent)}
    /\ UNCHANGED <<codec, tls, sent, garbled, wire, readerVars>>

\* The other end gives up the old connection, and what it has not read of it.
DoClose ==
    /\ conn = "broken" /\ rd = Idle
    /\ conn' = "down"
    /\ wire' = <<>>
    /\ cut' = cut \cup {wire[i].m : i \in DOMAIN wire}
    /\ UNCHANGED <<writerVars, readerVars, accidents>>

\* On the way one character becomes another.
Damage ==
    /\ Accident("damages")
    /\ \E i \in DOMAIN wire, t \in {Num(1), Num(2), ETX, Space} :
          t # wire[i].t /\ wire' = [wire EXCEPT ![i].t = t]
    /\ UNCHANGED <<writerVars, conn, readerVars, cut>>

-----------------------------------------------------------------------------
(* The readers *)

To(r) == rd' = r /\ UNCHANGED accepted
Goto(pc) == To([rd EXCEPT !.pc = pc])
Refuse == To(Idle)
Return(content) ==
    /\ rd' = Idle
    /\ accepted' = Append(accepted, [m |-> rd.from, content |-> content])

\* A mutant of Starved: only a closed connection ends a read.
StarvedIfClosed == conn = "broken"

\* Nobody is writing what the reader waits for: its time will be over.
Starved == conn = "broken" \/ out = <<>>

\* doRead of n characters: it takes what there is until it has n, or until its
\* time is over or the connection closed, and then what it took is lost.
Arrive(n) ==
    /\ Len(wire) >= n
    /\ wire' = SubSeq(wire, n + 1, Len(wire))
    /\ UNCHANGED accidents

Lapse(n) ==
    /\ Len(wire) < n
    /\ wire' = <<>>
    /\ IF Starved THEN UNCHANGED accidents ELSE Accident("timeouts")

DoRead(n, Done(_), Failed) ==
    /\ \/ Arrive(n) /\ Done([i \in 1 .. n |-> wire[i].t])
       \/ Lapse(n) /\ Failed
    /\ UNCHANGED <<writerVars, conn, cut>>

\* The first character.  Another than STX is handed to the caller, as a
\* character of its own or as an error, and the caller reads again.
ReadFirst ==
    /\ rd = Idle /\ wire # <<>> /\ codec # "line"
    /\ DoRead(1, LAMBDA s : IF s[1] # STX THEN Refuse
                            ELSE To([Idle EXCEPT !.pc = codec,
                                                 !.from = Head(wire).m]),
              Refuse)

\* Icomm::read2 gives up the message when a read fails; Icomm::read, which does
\* not look at its result, then reads on as if the ETX came next.
ReadType ==
    /\ rd.pc = "icomm"
    /\ DoRead(1, LAMBDA s : To([rd EXCEPT !.pc = "bitmap", !.lrc = s,
                                          !.c.type = Atoi(s[1])]),
              Goto("etx"))

SetHeader(c, t) ==
    [c EXCEPT !.header = (IF rd.pc = "bitmap" THEN {} ELSE @ \cup {1})
                            \cup IF t[1] = "bitmap" THEN t[2] ELSE {}]

Upcoming(todo) == IF todo = {} THEN "etx"
                  ELSE IF Def[Min(todo)].kind = "fixed" THEN "value"
                  ELSE "length"

ReadBitmap ==
    /\ rd.pc \in {"bitmap", "bitmap2"}
    /\ DoRead(1, LAMBDA s :
          LET c == SetHeader(rd.c, s[1])
              todo == c.header \cap 2 .. 126
          IN  To([rd EXCEPT !.c = c, !.lrc = @ \o s, !.todo = todo,
                            !.pc = IF rd.pc = "bitmap" /\ 1 \in c.header
                                   THEN "bitmap2" ELSE Upcoming(todo)]),
          Goto("etx"))

\* readField: the length, if it has one, and the value.  Its characters go
\* into the LRC after doRead has replaced some of them.
ReadLength ==
    /\ rd.pc = "length"
    /\ DoRead(1, LAMBDA s : To([rd EXCEPT !.pc = "value", !.lrc = @ \o s,
                                          !.need = Atoi(s[1])]),
              Goto("etx"))

ReadValue ==
    /\ rd.pc = "value"
    /\ LET id == Min(rd.todo)
           n == IF Def[id].kind = "fixed" THEN Def[id].size ELSE rd.need
       IN  DoRead(n, LAMBDA s :
             IF s = <<>> THEN Goto("etx")
             ELSE To([rd EXCEPT !.pc = Upcoming(rd.todo \ {id}),
                                !.todo = @ \ {id}, !.lrc = @ \o Cleaned(s),
                                !.c = Set(@, id, Cleaned(s))]),
             Goto("etx"))

ReadEtx ==
    /\ rd.pc = "etx"
    /\ DoRead(1, LAMBDA s : IF s[1] # ETX THEN Refuse
                            ELSE To([rd EXCEPT !.pc = "lrc", !.lrc = @ \o s]),
              Refuse)

\* A mutant of ReadLrc: the LRC is read and not compared.
ReadLrcUnchecked ==
    /\ rd.pc = "lrc"
    /\ DoRead(1, LAMBDA s : Return(rd.c), Refuse)

ReadLrc ==
    /\ rd.pc = "lrc"
    /\ DoRead(1, LAMBDA s : IF s[1] = Lrc(rd.lrc) THEN Return(rd.c) ELSE Refuse,
              Refuse)

\* doReadPacket
ReadPacket ==
    /\ rd.pc = "packet"
    /\ DoRead(1, LAMBDA s : IF s[1] = ETX THEN Goto("packetlrc")
                            ELSE To([rd EXCEPT !.buf = @ \o s]),
              Refuse)

ReadPacketLrc ==
    /\ rd.pc = "packetlrc"
    /\ DoRead(1, LAMBDA s : IF s[1] = Lrc(Append(rd.buf, ETX))
                            THEN Return(rd.buf) ELSE Refuse,
              Refuse)

\* doReadLen: ten characters of length, among them no ETX.  When time runs out
\* the number is made of what came.
ReadLen ==
    /\ rd.pc = "len"
    /\ DoRead(1, LAMBDA s : IF s[1] = ETX THEN Refuse
                            ELSE To([rd EXCEPT !.pc = "junk",
                                               !.need = Atoi(s[1])]),
              Refuse)

ReadJunk ==
    /\ rd.pc = "junk"
    /\ DoRead(1, LAMBDA s : IF s[1] = ETX \/ rd.need = 0 THEN Refuse
                            ELSE Goto("data"),
              IF rd.need = 0 THEN Refuse ELSE Goto("data"))

ReadData ==
    /\ rd.pc = "data"
    /\ DoRead(rd.need, LAMBDA s : To([rd EXCEPT !.pc = "end", !.buf = s]),
              Refuse)

ReadEnd ==
    /\ rd.pc = "end"
    /\ DoRead(1, LAMBDA s : IF s[1] = ETX THEN Return(rd.buf) ELSE Refuse,
              Refuse)

\* doReadLine: an ACK at the beginning ends it; after a CR one more character
\* is thrown away, whatever it is.
ReadLine ==
    /\ codec = "line" /\ rd.pc \in {"idle", "line"}
    /\ rd = Idle => wire # <<>>
    /\ DoRead(1, LAMBDA s :
          LET from == IF rd = Idle THEN Head(wire).m ELSE rd.from
              next == [rd EXCEPT !.pc = "line", !.from = from]
          IN  CASE s[1] = ACK /\ rd = Idle -> Refuse
                [] s[1] = LF ->
                     /\ rd' = Idle
                     /\ accepted' = Append(accepted, [m |-> from,
                                                      content |-> rd.buf])
                [] s[1] = CR -> To([next EXCEPT !.pc = "dummy"])
                [] OTHER -> To([next EXCEPT !.buf = @ \o s]),
          Refuse)

ReadDummy ==
    /\ rd.pc = "dummy"
    /\ DoRead(1, LAMBDA s : Return(rd.buf), Return(rd.buf))

Writer == Compose \/ Write \/ WriteFails
Connection == OpenClient \/ StartUpSSL \/ DoClose
Reader ==
    \/ ReadFirst \/ ReadType \/ ReadBitmap \/ ReadLength \/ ReadValue
    \/ ReadEtx \/ ReadLrc \/ ReadPacket \/ ReadPacketLrc \/ ReadLen
    \/ ReadJunk \/ ReadData \/ ReadEnd \/ ReadLine \/ ReadDummy

FramingNext == Writer \/ Connection \/ Reader \/ Damage

FramingSpec == FramingInit /\ [][FramingNext]_framingVars

FramingFairness == WF_framingVars(Reader) /\ WF_framingVars(Write)

-----------------------------------------------------------------------------
(* Properties *)

\* The stream fills with zeros once a number of a fixed size was printed.
FilledWith(c, id) ==
    IF \E j \in DOMAIN c.fields \cap 2 .. id - 1 : Def[j].kind = "fixed"
    THEN Zero ELSE Space

\* What is in a field after the reader has read it: filled up, a number with
\* zeros before it.
Filled(c, id) ==
    LET v == c.fields[id]
        size == Def[id].size
    IN  CASE Def[id].kind # "fixed" -> v
          [] Def[id].kind = "fixed" /\ Def[id].alpha ->
               v \o Fill(v, size, FilledWith(c, id))
          [] Def[id].kind = "fixed" /\ ~ Def[id].alpha ->
               Fill(v, size, Zero) \o v

AsRead(c) == [c EXCEPT !.fields = [id \in DOMAIN c.fields \cap 2 .. 126 |->
                                      Filled(c, id)]]

WithoutQuotes(c) ==
    [c EXCEPT !.fields = [id \in DOMAIN @ |-> Cleaned(@[id])]]

\* The values are no longer than their fields, and no number stands behind a
\* text that std::left was set for.
Fits(c) ==
    /\ c.type <= 999
    /\ \A id \in DOMAIN c.fields :
          LET n == Len(c.fields[id]) IN
          IF Def[id].kind = "fixed" THEN n <= Def[id].size ELSE n < Base
    /\ \A i, j \in DOMAIN c.fields :
          ~ (i < j /\ Def[i].kind = "fixed" /\ Def[i].alpha
                   /\ Def[j].kind = "fixed")

\* What is returned is what was sent, but for quotes, each message at most once
\* and in order: whatever the reader meets in the middle of a message, with
\* time running out, a connection that breaks and, where there is an LRC, a
\* character that changed.
AcceptedWasSent ==
    (codec \in {"len", "line"} => accidents.damages = 0)
    /\ (codec = "line" => accidents.timeouts = 0) =>
        \A k \in DOMAIN accepted :
            LET a == accepted[k] IN
            /\ codec = "icomm" => a.content = WithoutQuotes(AsRead(sent[a.m]))
            /\ codec # "icomm" => a.content = sent[a.m]
            /\ \A j \in 1 .. k - 1 : accepted[j].m < a.m

\* The reader of strings reads back what is printed.
PrintedReadsBack ==
    codec = "icomm" => \A k \in DOMAIN sent :
        Fits(sent[k]) => ReadString(Printed(sent[k])) = AsRead(sent[k])

\* What the reader can be expected to take.
Sound(v) ==
    CASE codec = "icomm" ->
           /\ Fits(v) /\ 127 \notin DOMAIN v.fields
           /\ Lrc(Printed(v)) = Lrc(Cleaned(Printed(v)))
      [] codec = "packet" -> ETX \notin Range(v)
      [] codec = "len" -> v # <<>>
      [] codec = "line" -> {CR, LF} \cap Range(v) = {}
                             /\ (v # <<>> => v[1] # ACK)

\* When all is read, an accident has cost no more than the message it happened
\* to and, if a length changed, the next.
LittleIsLost ==
    out = <<>> /\ wire = <<>> /\ rd = Idle =>
        LET lost == {k \in DOMAIN sent \ (cut \cup garbled) :
                        Sound(sent[k]) /\ \A j \in DOMAIN accepted :
                                              accepted[j].m # k}
        IN  Cardinality(lost) <= accidents.timeouts + 2 * accidents.damages

\* No read goes on for ever.
EveryReadEnds == rd # Idle ~> rd = Idle
=============================================================================
