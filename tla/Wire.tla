--------------------------------- MODULE Wire ---------------------------------
(***************************************************************************)
(* One direction of the connection between server and client, at the level   *)
(* of write() and read().  Downwards the server sends the configuration it   *)
(* has read from its file, again with every HUP, and at last INT; upwards    *)
(* the client sends log entries and at last INT_ACK with its count of kills. *)
(* A message is a series of fields; writeData() and readData() transfer each *)
(* of them in pieces of any size, and nothing but the fields themselves says *)
(* where the next one starts.                                               *)
(*                                                                          *)
(* The stream is a sequence of units 0..Base-1; an unsigned number is two    *)
(* units, the higher first (htonl), a code is one, and a string is its       *)
(* letters, which are not 0, and a 0.                                       *)
(***************************************************************************)
EXTENDS Integers, Sequences, SequencesExt

CONSTANTS Base,         \* values of a unit; numbers are below Base^2
          Files,        \* the files the user may write: sequences of lines, each
                        \* a sequence of words [letters, number]; NULL: unreadable
          Texts,        \* texts of log entries, sequences of letters
          NULL,
          Capacity,     \* what the kernel buffers between the two ends
          MaxMessages   \* bound: messages sent

UMax == Base * Base - 1

ASSUME WireAssumption ==
    /\ Base \in Nat \ {0, 1}
    /\ Capacity \in Nat \ {0}
    /\ MaxMessages \in Nat
    \* A length fits into its field, and a letter is not the NUL.
    /\ \A file \in Files \ {NULL} :
         /\ file \in Seq(Seq([letters : Seq(1..Base - 1), number : Nat]))
         /\ Len(file) <= UMax
         /\ \A i \in DOMAIN file : \A j \in DOMAIN file[i] : Len(file[i][j].letters) < UMax
    /\ \A s \in Texts : s \in Seq(1..Base - 1) /\ Len(s) < UMax

VARIABLES dir,        \* "down" or "up"
          sent,       \* the messages that the writing program has sent
          fields,     \* what is left of them to write, field by field
          net,        \* what the kernel holds
          field,      \* the field that is being read
          got,        \* the units of it that have been read
          msg,        \* the message as far as it is known
          left,       \* the requests of its configuration that are missing
          size,       \* the length of the string that comes next
          delivered,  \* the messages that the reading program got
          writer, reader   \* "running", "done", or "dead"

vars == <<dir, sent, fields, net, field, got, msg, left, size, delivered,
          writer, reader>>
readerVars == <<field, got, msg, left, size, delivered, reader>>

-----------------------------------------------------------------------------
(***************************************************************************)
(* The file                                                                *)
(***************************************************************************)
\* constructMonitorRequest needs two words in the line (getNextStrTokString
\* passes strtok's NULL to strlen) and a number that fits (the assertion); a
\* word that is no number counts as 0, and what follows is ignored.
Parses(line) == Len(line) >= 2 /\ line[2].number <= UMax

constructMonitorRequest(line) ==
    [processName |-> line[1].letters, monitorDuration |-> line[2].number]

\* getProcessesToMonitor
Config(file) == [i \in DOMAIN file |-> constructMonitorRequest(file[i])]

Usable(file) == file # NULL /\ \A i \in DOMAIN file : Parses(file[i])

-----------------------------------------------------------------------------
(***************************************************************************)
(* The fields of a message                                                 *)
(***************************************************************************)
\* Faulty variant: no htonl() on the writing side.
LowFirst(n) == <<n % Base, n \div Base>>

writeUInt(n) == <<n \div Base, n % Base>>

readUInt(units) == units[1] * Base + units[2]

\* Faulty variant: strlen() without the NUL.
LengthWithoutNul(s) == <<writeUInt(Len(s)), s \o <<0>>>>

\* The length counts the NUL that ends the string, and the NUL is sent.
writeString(s) == <<writeUInt(Len(s) + 1), s \o <<0>>>>

sendConfig(c) ==
    <<writeUInt(Len(c))>> \o
    FlattenSeq([i \in DOMAIN c |->
        writeString(c[i].processName) \o <<writeUInt(c[i].monitorDuration)>>])

\* MessageType and ClientMessageStatusCode
HUP == 0
INT == 1
LOG_MESSAGE == 0
INT_ACK == 1

\* What is written for a message: sendMessage, writeLogMessage, logFinalReport,
\* and, for the first configuration, sendConfig by registerNewClient.
FieldsOf(m) ==
    CASE m.kind = "config" -> sendConfig(m.config)
      [] m.kind = "HUP"    -> <<<<HUP>>>> \o sendConfig(m.config)
      [] m.kind = "INT"    -> <<<<INT>>>>
      [] m.kind = "LOG"    -> <<<<LOG_MESSAGE>>>> \o writeString(m.text) \o <<<<m.type>>>>
      [] m.kind = "ACK"    -> <<<<INT_ACK>>, writeUInt(m.count)>>

\* The last message of its direction.
IsLast(m) == m.kind \in {"INT", "ACK"}

Messages ==
    [kind : {"config", "HUP"}, config : {Config(f) : f \in {g \in Files : Usable(g)}}]
      \cup [kind : {"INT"}]
      \cup [kind : {"LOG"}, text : Texts, type : 0..1]
      \cup [kind : {"ACK"}, count : {0, UMax}]

-----------------------------------------------------------------------------
(***************************************************************************)
(* The writing end                                                         *)
(***************************************************************************)
\* The program sends its next message once the one before it is written.
Send(m) ==
    /\ writer = "running"
    /\ fields = <<>>
    /\ Len(sent) < MaxMessages
    /\ \A i \in DOMAIN sent : ~ IsLast(sent[i])
    /\ sent' = Append(sent, m)
    /\ fields' = FieldsOf(m)
    /\ UNCHANGED <<dir, net, readerVars, writer>>

\* The server: a configuration to every client first, then HUP as often as the
\* user asks for it, and INT.
SendToClient ==
    /\ dir = "down"
    /\ \E m \in Messages :
         /\ m.kind \in IF sent = <<>> THEN {"config"} ELSE {"HUP", "INT"}
         /\ Send(m)

\* The writing process ends.  If it leaves something unread the connection is
\* reset, and the kernel drops what it has not transmitted yet.
WriterEnds ==
    /\ writer' = "dead"
    /\ \E n \in 0..Len(net) : net' = SubSeq(net, 1, n)
    /\ UNCHANGED <<dir, sent, fields, readerVars>>

\* The server exits, is aborted by the assertion, or crashes, while it rereads.
BadFile ==
    /\ dir = "down"
    /\ writer = "running"
    /\ fields = <<>>
    /\ sent # <<>> /\ ~ IsLast(Last(sent))
    /\ \E f \in Files : ~ Usable(f)
    /\ WriterEnds

\* The client: a log entry, or its last report.
SendToServer ==
    /\ dir = "up"
    /\ \E m \in Messages : m.kind \in {"LOG", "ACK"} /\ Send(m)

\* Faulty variant: the buffer is not advanced after a short write.
SameStart(f, n) == SubSeq(f, 1, Len(f) - n)

Rest(f, n) == SubSeq(f, n + 1, Len(f))

\* A write() of writeData(): n units of the field fit.
Write ==
    /\ writer = "running"
    /\ reader # "dead"
    /\ fields # <<>>
    /\ \E n \in 1..Len(Head(fields)) :
         /\ Len(net) + n <= Capacity
         /\ net' = net \o SubSeq(Head(fields), 1, n)
         /\ fields' = IF n = Len(Head(fields)) THEN Tail(fields)
                      ELSE <<Rest(Head(fields), n)>> \o Tail(fields)
    /\ UNCHANGED <<dir, sent, readerVars, writer>>

\* The other end is gone: SIGPIPE.
WriteFails ==
    /\ writer = "running"
    /\ reader = "dead"
    /\ fields # <<>>
    /\ WriterEnds

-----------------------------------------------------------------------------
(***************************************************************************)
(* The reading end                                                         *)
(***************************************************************************)
\* The size that readData() is called with for a field.
SizeOf(f) ==
    CASE f \in {"type", "code", "reportType"} -> 1
      [] f \in {"length", "nameLength", "duration", "textLength", "count"} -> 2
      [] f \in {"name", "text"} -> size

\* Faulty variant: every read() asks for the whole field.
WholeSize(f) == SizeOf(f)

\* What a read() asks for.
Missing(f) == SizeOf(f) - Len(got)

\* The next field, and what is known of the message by then.
Expect(f, m) ==
    /\ field' = f
    /\ msg' = m
    /\ UNCHANGED <<delivered, reader>>

\* The message is complete and goes to the program, which waits for the next.
Arrived(m) ==
    /\ delivered' = Append(delivered, m)
    /\ field' = IF dir = "down" THEN "type" ELSE "code"
    /\ msg' = [kind |-> "none"]
    /\ reader' = IF IsLast(m) THEN "done" ELSE reader

\* The string without its NUL.
Letters(units) == Front(units)

\* readConfig: length, and for each request name and duration.
ReadConfigField(units) ==
    \/ /\ field = "length"
       /\ left' = readUInt(units)
       /\ IF left' = 0 THEN Arrived([msg EXCEPT !.config = <<>>])
          ELSE Expect("nameLength", [msg EXCEPT !.config = <<>>])
       /\ UNCHANGED size
    \/ /\ field = "nameLength"
       /\ size' = readUInt(units)
       /\ Expect("name", msg)
       /\ UNCHANGED left
    \/ /\ field = "name"
       /\ Expect("duration", [msg EXCEPT !.config =
                   Append(@, [processName |-> Letters(units), monitorDuration |-> 0])])
       /\ UNCHANGED <<left, size>>
    \/ /\ field = "duration"
       /\ left' = left - 1
       /\ LET m == [msg EXCEPT !.config[Len(msg.config)].monitorDuration = readUInt(units)]
          IN  IF left' = 0 THEN Arrived(m) ELSE Expect("nameLength", m)
       /\ UNCHANGED size

\* readMessage
ReadType(units) ==
    /\ field = "type"
    /\ IF units = <<HUP>> THEN Expect("length", [kind |-> "HUP", config |-> <<>>])
       ELSE Arrived([kind |-> "INT"])
    /\ UNCHANGED <<left, size>>

\* readClientMessageStatusCode, then readLogMessage or the count of kills.
ReadClientField(units) ==
    \/ /\ field = "code"
       /\ IF units = <<LOG_MESSAGE>> THEN Expect("textLength", [kind |-> "LOG"])
          ELSE Expect("count", [kind |-> "ACK"])
       /\ UNCHANGED <<left, size>>
    \/ /\ field = "textLength"
       /\ size' = readUInt(units)
       /\ Expect("text", msg)
       /\ UNCHANGED left
    \/ /\ field = "text"
       /\ Expect("reportType", [kind |-> "LOG", text |-> Letters(units), type |-> 0])
       /\ UNCHANGED <<left, size>>
    \/ /\ field = "reportType"
       /\ Arrived([msg EXCEPT !.type = units[1]])
       /\ UNCHANGED <<left, size>>
    \/ /\ field = "count"
       /\ Arrived([kind |-> "ACK", count |-> readUInt(units)])
       /\ UNCHANGED <<left, size>>

\* A read() of readData().  With the last unit the field is complete.  (At the
\* end of the stream read() returns 0 and readData() calls it again, for ever:
\* no step.)
Read ==
    /\ reader = "running"
    /\ net # <<>>
    /\ \E n \in 1..Missing(field) :
         /\ n <= Len(net)
         /\ net' = SubSeq(net, n + 1, Len(net))
         /\ LET units == got \o SubSeq(net, 1, n)
            IN  IF Len(units) < SizeOf(field)
                THEN got' = units /\ UNCHANGED <<field, msg, left, size, delivered, reader>>
                ELSE /\ got' = <<>>
                     /\ ReadConfigField(units) \/ ReadType(units) \/ ReadClientField(units)
    /\ UNCHANGED <<dir, sent, fields, writer>>

-----------------------------------------------------------------------------
\* Either process is killed, in the middle of a field or not.
WriterDies == writer = "running" /\ WriterEnds

ReaderDies ==
    /\ reader = "running"
    /\ reader' = "dead"
    /\ UNCHANGED <<dir, sent, fields, net, field, got, msg, left, size, delivered, writer>>

Init ==
    /\ dir \in {"down", "up"}
    /\ sent = <<>>
    /\ fields = <<>>
    /\ net = <<>>
    /\ field = IF dir = "down" THEN "length" ELSE "code"
    /\ got = <<>>
    /\ msg = IF dir = "down" THEN [kind |-> "config", config |-> <<>>] ELSE [kind |-> "none"]
    /\ left = 0
    /\ size = 0
    /\ delivered = <<>>
    /\ writer = "running"
    /\ reader = "running"

Next ==
    \/ SendToClient \/ BadFile \/ SendToServer
    \/ Write \/ WriteFails
    \/ Read
    \/ WriterDies \/ ReaderDies

Spec == Init /\ [][Next]_vars

\* The reading program is inside a message, in a callback that reads it to its
\* end; a client waits for its first configuration likewise.  Between messages it
\* is in select, or somewhere it may never come back from: at the end of another
\* stream, or in a write.
InMessage == reader = "running" /\ field \notin {"type", "code"}

\* A program that is alive writes on what it has begun to write, and reads on
\* what it has begun to read.  It need not begin.
FairSpec == Spec /\ WF_vars(Write) /\ WF_vars(InMessage /\ Read)

-----------------------------------------------------------------------------
Fields == {"length", "nameLength", "name", "duration", "type",
           "code", "textLength", "text", "reportType", "count"}

Unit == 0..Base - 1

TypeOK ==
    /\ dir \in {"down", "up"}
    /\ \A i \in DOMAIN fields : fields[i] \in Seq(Unit) \ {<<>>}
    /\ net \in Seq(Unit) /\ Len(net) <= Capacity
    /\ field \in Fields
    /\ got \in Seq(Unit) /\ Len(got) < SizeOf(field)
    /\ left \in 0..UMax /\ size \in 0..UMax
    /\ Len(sent) <= MaxMessages /\ Len(delivered) <= MaxMessages
    /\ writer \in {"running", "dead"} /\ reader \in {"running", "done", "dead"}

\* Between two messages the stream is clean: once the reading program has got
\* everything that was sent, no unit is left to write, on the way, or read.
CleanBetweenMessages ==
    Len(delivered) = Len(sent) => fields = <<>> /\ net = <<>> /\ got = <<>>

\* In whatever pieces the fields are transferred, and whoever dies when, the
\* messages that arrive are those that were sent, whole, in order, each once.
\* In particular no configuration arrives in part.
Queue == INSTANCE MessageQueue WITH sent <- sent, delivered <- delivered
ImplementsQueue == Queue!Spec

\* readData() has no timeout, so a reader that is inside a message stands or falls
\* with the lengths it was told: once begun, a message that was sent is read to its
\* end, and never waits for units that nobody sends, as long as both processes live.
BegunIsFinished ==
    \A i \in 1..MaxMessages :
        (InMessage /\ Len(delivered) = i - 1 /\ Len(sent) >= i)
            ~> (Len(delivered) >= i \/ writer = "dead" \/ reader = "dead")
=============================================================================
