----------------------------- MODULE ServerProofs -----------------------------
(***************************************************************************)
(* What holds of Server for any number of clients, configurations, log      *)
(* entries and SIGHUPs, and buffers of any size: types, that no client is   *)
(* left with an old configuration, and that a server that exits cleanly has *)
(* logged and counted everything.                                           *)
(***************************************************************************)
EXTENDS Server, NumberLemmas, SequenceTheorems

-----------------------------------------------------------------------------
(* The stream of a client to the server: log entries, then at most one       *)
(* INT_ACK, which carries the kill count and after which the client is done. *)

IsAck(message) == message.type = "INT_ACK"

AckIsLast(s) == \A i \in 1 .. Len(s) : IsAck(s[i]) => i = Len(s)

NoAck(s) == \A i \in 1 .. Len(s) : ~ IsAck(s[i])

\* The log entries among the messages of such a stream.
Entries(s) == IF s # <<>> /\ IsAck(s[Len(s)]) THEN Len(s) - 1 ELSE Len(s)

\* A log entry is written behind the others.
LEMMA AppendEntry ==
  ASSUME NEW S, NEW s \in Seq(S), NEW m \in S, NoAck(s), ~ IsAck(m)
  PROVE  /\ NoAck(Append(s, m)) /\ Entries(Append(s, m)) = Entries(s) + 1
         /\ Entries(s) \in Nat
<1>1. /\ Append(s, m) \in Seq(S) /\ Append(s, m) # <<>> /\ Len(Append(s, m)) = Len(s) + 1
      /\ \A i \in 1 .. Len(s) : Append(s, m)[i] = s[i]
      /\ Append(s, m)[Len(s) + 1] = m
      /\ Len(s) \in Nat
  BY AppendProperties, LenProperties
<1>2. NoAck(Append(s, m))
  BY <1>1 DEF NoAck
<1>3. Entries(Append(s, m)) = Len(s) + 1
  BY <1>1 DEF Entries
<1>4. s # <<>> => Len(s) \in 1 .. Len(s)
  BY <1>1, EmptySeq
<1>5. Entries(s) = Len(s)
  BY <1>4 DEF Entries, NoAck
<1> QED
  BY <1>1, <1>2, <1>3, <1>5

\* INT_ACK is written behind the log entries.
LEMMA AppendAck ==
  ASSUME NEW S, NEW s \in Seq(S), NEW m \in S, NoAck(s), IsAck(m)
  PROVE  /\ AckIsLast(Append(s, m)) /\ Entries(Append(s, m)) = Entries(s)
         /\ \A i \in 1 .. Len(Append(s, m)) : IsAck(Append(s, m)[i]) => Append(s, m)[i] = m
<1>1. /\ Append(s, m) \in Seq(S) /\ Append(s, m) # <<>> /\ Len(Append(s, m)) = Len(s) + 1
      /\ \A i \in 1 .. Len(s) : Append(s, m)[i] = s[i]
      /\ Append(s, m)[Len(s) + 1] = m
      /\ Len(s) \in Nat
  BY AppendProperties, LenProperties
<1>2. /\ AckIsLast(Append(s, m))
      /\ \A i \in 1 .. Len(Append(s, m)) : IsAck(Append(s, m)[i]) => Append(s, m)[i] = m
  BY <1>1 DEF NoAck, AckIsLast
<1>3. Entries(Append(s, m)) = Len(s)
  BY <1>1 DEF Entries
<1>4. s # <<>> => Len(s) \in 1 .. Len(s)
  BY <1>1, EmptySeq
<1>5. Entries(s) = Len(s)
  BY <1>4 DEF Entries, NoAck
<1> QED
  BY <1>2, <1>3, <1>5

\* A log entry is read.
LEMMA TailEntry ==
  ASSUME NEW S, NEW s \in Seq(S), s # <<>>, AckIsLast(s), ~ IsAck(Head(s))
  PROVE  /\ Tail(s) \in Seq(S) /\ AckIsLast(Tail(s))
         /\ Entries(s) = Entries(Tail(s)) + 1 /\ Entries(Tail(s)) \in Nat
         /\ \A i \in 1 .. Len(Tail(s)) : \E j \in 1 .. Len(s) : Tail(s)[i] = s[j]
<1> DEFINE t == Tail(s)
           n == Len(s)
<1>1. /\ t \in Seq(S) /\ Len(t) = n - 1
      /\ \A i \in 1 .. Len(t) : t[i] = s[i + 1]
  BY HeadTailProperties
<1>2. n \in Nat \ {0} /\ ~ IsAck(s[1])
  <2>1. Head(s) = s[1]
    OBVIOUS
  <2> QED
    BY <2>1, EmptySeq
<1>3. t = <<>> <=> Len(t) = 0
  BY <1>1, EmptySeq
<1>4. \A i \in 1 .. n : IsAck(s[i]) => i = n
  BY DEF AckIsLast
<1>5. Entries(s) = IF IsAck(s[n]) THEN n - 1 ELSE n
  BY DEF Entries
<1>6. Entries(t) = IF t # <<>> /\ IsAck(t[Len(t)]) THEN Len(t) - 1 ELSE Len(t)
  BY DEF Entries
<1> SUFFICES /\ \A i \in 1 .. Len(t) : IsAck(t[i]) => i = Len(t)
             /\ Entries(s) = Entries(t) + 1 /\ Entries(t) \in Nat
             /\ \A i \in 1 .. Len(t) : \E j \in 1 .. n : t[i] = s[j]
  BY <1>1 DEF AckIsLast
<1> HIDE DEF t, n
<1>7. \A i \in 1 .. Len(t) : i + 1 \in 1 .. n /\ t[i] = s[i + 1]
  BY <1>1, <1>2
<1>8. \A i \in 1 .. Len(t) : IsAck(t[i]) => i = Len(t)
  BY <1>1, <1>2, <1>4, <1>7
<1>9. CASE n = 1
  BY <1>1, <1>2, <1>3, <1>5, <1>6, <1>7, <1>8, <1>9
<1>10. CASE n # 1
  <2>1. t # <<>> /\ Len(t) \in 1 .. Len(t) /\ t[Len(t)] = s[n]
    BY <1>1, <1>2, <1>3, <1>7, <1>10
  <2>2. Entries(s) = Entries(t) + 1 /\ Entries(t) \in Nat
    BY <1>1, <1>2, <1>5, <1>6, <1>10, <2>1
  <2> QED
    BY <1>7, <1>8, <2>2
<1> QED
  BY <1>9, <1>10

\* When INT_ACK is read, nothing is left.
LEMMA TailAck ==
  ASSUME NEW S, NEW s \in Seq(S), s # <<>>, AckIsLast(s), IsAck(Head(s))
  PROVE  Tail(s) = <<>> /\ Entries(s) = 0 /\ s[1] = Head(s) /\ 1 \in 1 .. Len(s)
<1>1. Len(s) \in Nat \ {0} /\ Head(s) = s[1]
  <2>1. Head(s) = s[1]
    OBVIOUS
  <2> QED
    BY <2>1, EmptySeq
<1>2. Len(s) = 1
  <2>1. IsAck(s[1]) /\ 1 \in 1 .. Len(s)
    BY <1>1
  <2> QED
    BY <2>1 DEF AckIsLast
<1>3. Tail(s) \in Seq(S) /\ Len(Tail(s)) = 0
  BY <1>2, HeadTailProperties
<1>4. Tail(s) = <<>>
  BY <1>3, EmptySeq
<1> QED
  BY <1>1, <1>2, <1>4 DEF Entries

-----------------------------------------------------------------------------
(* Types.  That the counters stay within their bounds needs the stream: what *)
(* is logged and what is still on the way is what the client has sent.      *)

StreamOK(c) ==
    /\ owed[c] + sent[c] <= MaxLogs
    /\ killCount[c] <= sent[c]
    /\ logged[c] + Entries(toServer[c]) = sent[c]
    /\ AckIsLast(toServer[c])
    /\ \A i \in 1 .. Len(toServer[c]) :
          IsAck(toServer[c][i]) => /\ phase[c] = "done"
                                   /\ toServer[c][i].count = killCount[c]

\* registerNewClient finds a connection, and the loop that waits for INT_ACK has
\* a client.
InRange ==
    /\ pc = "dispatch" /\ MasterFd \in ready => backlog # <<>>
    /\ pc = "drain" => current <= Len(chain)

TypeInv == TypeOK /\ InRange /\ \A c \in Clients : StreamOK(c)

\* The stream of a client that does nothing, or dies.
LEMMA StreamKept ==
  ASSUME NEW c \in Clients, StreamOK(c),
         owed'[c] + sent'[c] <= MaxLogs, sent'[c] = sent[c], killCount'[c] = killCount[c],
         logged'[c] = logged[c], toServer'[c] = toServer[c],
         phase'[c] = phase[c] \/ phase[c] # "done"
  PROVE  StreamOK(c)'
BY DEF StreamOK

\* Before its INT_ACK a client has sent nothing but log entries.
LEMMA NotDoneNoAck ==
  ASSUME NEW c \in Clients, StreamOK(c), phase[c] # "done"
  PROVE  NoAck(toServer[c])
BY DEF StreamOK, NoAck

\* All streams are as they were.
LEMMA StreamsKept ==
  ASSUME \A c \in Clients : StreamOK(c),
         UNCHANGED <<owed, sent, killCount, logged, toServer, phase>>
  PROVE  \A c \in Clients : StreamOK(c)'
BY DEF StreamOK

\* The steps of the user keep the invariant.
LEMMA TypeUser ==
  ASSUME TypeInv, UserStep
  PROVE  TypeInv'
<1> USE DEF TypeInv, TypeOK, serverVars, clientVars, userVars
<1>1. ASSUME NEW version \in Versions \cup {NoFile}, EditConfig(version) PROVE TypeInv'
  BY <1>1, StreamsKept DEF EditConfig, InRange
<1>2. CASE SendSigint
  BY <1>2, StreamsKept DEF SendSigint, Interrupt, InRange, PcType
<1>3. CASE SendSighup
  <2>1. /\ hups' \in 0 .. MaxHups /\ sighupReceived' \in BOOLEAN /\ pc' \in PcType
        /\ pc' = pc \/ pc' = "interrupted"
    BY <1>3, LimitsAssumption DEF SendSighup, Interrupt, PcType
  <2> QED
    BY <1>3, <2>1, StreamsKept DEF SendSighup, InRange
<1>4. ASSUME NEW c \in Clients, Connect(c) PROVE TypeInv'
  <2>1. \A d \in Clients : StreamOK(d)'
    BY <1>4, StreamKept DEF Connect, StreamOK
  <2>2. backlog' \in Seq(Clients) /\ backlog' # <<>>
    BY <1>4, AppendProperties DEF Connect
  <2> QED
    BY <1>4, <2>1, <2>2 DEF Connect, InRange, PhaseType
<1>5. ASSUME NEW c \in Clients, Crash(c) PROVE TypeInv'
  <2>1. \A d \in Clients : StreamOK(d)'
    BY <1>5, StreamKept DEF Crash, StreamOK
  <2> QED
    BY <1>5, <2>1 DEF Crash, InRange, PhaseType
<1> QED
  BY <1>1, <1>2, <1>3, <1>4, <1>5 DEF UserStep

\* A client reads a message, and may owe entries for it.
LEMMA TypeClientReads ==
  ASSUME TypeInv, NEW c \in Clients, ClientReads(c)
  PROVE  TypeInv'
<1> USE DEF TypeInv, TypeOK, serverVars, clientVars, userVars
<1>1. toClient[c] \in Seq(ServerMessage) /\ toClient[c] # <<>>
  BY DEF ClientReads
<1>2. Head(toClient[c]) \in ServerMessage /\ Tail(toClient[c]) \in Seq(ServerMessage)
  BY <1>1, HeadTailProperties
<1>3. PICK entries \in 0 .. (MaxLogs - sent[c]) : owed' = [owed EXCEPT ![c] = entries]
  BY DEF ClientReads
<1>4. entries \in 0 .. MaxLogs /\ entries + sent[c] <= MaxLogs
  BY <1>3, LimitsAssumption
<1>5. phase' \in [Clients -> PhaseType] /\ inForce' \in [Clients -> Versions \cup {NoFile}]
      /\ phase[c] # "done" /\ \A d \in Clients \ {c} : phase'[d] = phase[d]
  <2>1. phase[c] # "done"
    BY DEF ClientReads
  <2>2. CASE Head(toClient[c]).type = "INT"
    BY <2>1, <2>2, ZenonT(60) DEF ClientReads, PhaseType
  <2>3. CASE Head(toClient[c]).type # "INT"
    <3>1. Head(toClient[c]).config \in Versions \cup {NoFile}
      BY <1>2 DEF ServerMessage
    <3>2. /\ phase' = [phase EXCEPT ![c] = "running"]
          /\ inForce' = [inForce EXCEPT ![c] = Head(toClient[c]).config]
      BY <2>3 DEF ClientReads
    <3> QED
      BY <2>1, <3>1, <3>2 DEF PhaseType
  <2> QED
    BY <2>2, <2>3
<1>6. \A d \in Clients : StreamOK(d)'
  <2>1. \A d \in Clients : owed'[d] + sent[d] <= MaxLogs
    BY <1>3, <1>4 DEF StreamOK
  <2> QED
    BY <1>5, <2>1, StreamKept DEF ClientReads
<1>7. toClient' \in [Clients -> Seq(ServerMessage)] /\ owed' \in [Clients -> 0 .. MaxLogs]
  BY <1>2, <1>3, <1>4 DEF ClientReads
<1> QED
  BY <1>5, <1>6, <1>7 DEF ClientReads, InRange

\* An entry is written: the stream and what was sent grow together.
LEMMA TypeClientLogs ==
  ASSUME TypeInv, NEW c \in Clients, ClientLogs(c)
  PROVE  TypeInv'
<1> USE DEF TypeInv, TypeOK, serverVars, clientVars, userVars
<1> DEFINE entry == [type |-> "LOG_MESSAGE", count |-> 0]
<1>1. entry \in ClientMessage /\ ~ IsAck(entry)
  BY LimitsAssumption DEF ClientMessage, IsAck
<1>2. toServer[c] \in Seq(ClientMessage) /\ NoAck(toServer[c])
  BY NotDoneNoAck DEF ClientLogs
<1> DEFINE s == Append(toServer[c], entry)
<1>3. /\ s \in Seq(ClientMessage) /\ NoAck(s)
      /\ Entries(s) = Entries(toServer[c]) + 1 /\ Entries(toServer[c]) \in Nat
  BY <1>1, <1>2, AppendEntry, AppendProperties
<1>4. toServer' = [toServer EXCEPT ![c] = s]
  BY DEF ClientLogs
<1> HIDE DEF s
<1>5. PICK kills \in {0, 1} : killCount' = [killCount EXCEPT ![c] = @ + kills]
  BY DEF ClientLogs
<1>6. /\ owed[c] \in 1 .. MaxLogs /\ sent[c] \in 0 .. MaxLogs /\ killCount[c] \in 0 .. MaxLogs
      /\ owed[c] + sent[c] <= MaxLogs /\ killCount[c] <= sent[c] /\ logged[c] \in 0 .. MaxLogs
      /\ logged[c] + Entries(toServer[c]) = sent[c]
  BY LimitsAssumption DEF ClientLogs, StreamOK
<1>7. /\ owed'[c] = owed[c] - 1 /\ sent'[c] = sent[c] + 1
      /\ killCount'[c] = killCount[c] + kills /\ toServer'[c] = s /\ logged' = logged
  BY <1>4, <1>5 DEF ClientLogs
<1>8. StreamOK(c)'
  <2>1. owed'[c] + sent'[c] <= MaxLogs /\ killCount'[c] <= sent'[c]
    BY <1>5, <1>6, <1>7, LimitsAssumption, SMTT(60)
  <2>2. logged'[c] + Entries(toServer'[c]) = sent'[c]
    BY <1>3, <1>6, <1>7
  <2> QED
    BY <1>3, <1>7, <2>1, <2>2 DEF StreamOK, NoAck, AckIsLast
<1>9. \A d \in Clients \ {c} : StreamOK(d)'
  BY <1>4, <1>5 DEF StreamOK, ClientLogs
<1>10. /\ owed' \in [Clients -> 0 .. MaxLogs] /\ sent' \in [Clients -> 0 .. MaxLogs]
       /\ killCount' \in [Clients -> 0 .. MaxLogs]
  <2>1. owed[c] - 1 \in 0 .. MaxLogs /\ sent[c] + 1 \in 0 .. MaxLogs
        /\ killCount[c] + kills \in 0 .. MaxLogs
    <3>1. kills = 0 \/ kills = 1
      BY <1>5
    <3> QED
      BY <3>1, <1>6, LimitsAssumption, SMTT(60)
  <2> QED
    BY <1>5, <2>1 DEF ClientLogs
<1>11. toServer' \in [Clients -> Seq(ClientMessage)]
  BY <1>3, <1>4
<1> QED
  BY <1>8, <1>9, <1>10, <1>11 DEF ClientLogs, InRange

\* The client says it is done, and what it has killed.
LEMMA TypeClientAcks ==
  ASSUME TypeInv, NEW c \in Clients, ClientAcks(c)
  PROVE  TypeInv'
<1> USE DEF TypeInv, TypeOK, serverVars, clientVars, userVars
<1> DEFINE ack == [type |-> "INT_ACK", count |-> killCount[c]]
           s == Append(toServer[c], ack)
<1>1. ack \in ClientMessage /\ IsAck(ack)
  BY DEF ClientMessage, IsAck
<1>2. toServer[c] \in Seq(ClientMessage) /\ NoAck(toServer[c])
  BY NotDoneNoAck DEF ClientAcks
<1>3. /\ s \in Seq(ClientMessage) /\ AckIsLast(s) /\ Entries(s) = Entries(toServer[c])
      /\ \A i \in 1 .. Len(s) : IsAck(s[i]) => s[i].count = killCount[c]
  <2>1. s \in Seq(ClientMessage)
    BY <1>1, <1>2, AppendProperties
  <2>2. /\ AckIsLast(s) /\ Entries(s) = Entries(toServer[c])
        /\ \A i \in 1 .. Len(s) : IsAck(s[i]) => s[i] = ack
    <3> HIDE DEF ack
    <3> QED
      BY <1>1, <1>2, AppendAck, ZenonT(60)
  <2>3. ack.count = killCount[c]
    OBVIOUS
  <2> HIDE DEF s, ack
  <2> QED
    BY <2>1, <2>2, <2>3
<1>4. toServer' = [toServer EXCEPT ![c] = s] /\ phase' = [phase EXCEPT ![c] = "done"]
  BY DEF ClientAcks
<1> HIDE DEF s
<1>5. StreamOK(c)'
  BY <1>3, <1>4 DEF StreamOK, ClientAcks
<1>6. \A d \in Clients \ {c} : StreamOK(d)'
  BY <1>4 DEF StreamOK, ClientAcks
<1> QED
  BY <1>3, <1>4, <1>5, <1>6, SMTT(60) DEF ClientAcks, InRange, PhaseType

\* So do all steps of a client.
LEMMA TypeClient ==
  ASSUME TypeInv, NEW c \in Clients, ClientTurn(c) \/ ClientWakes(c)
  PROVE  TypeInv'
<1> USE DEF TypeInv, TypeOK, serverVars, clientVars, userVars
<1>1. CASE ClientWakes(c)
  <2>1. owed' = [owed EXCEPT ![c] = 1] /\ 1 \in 0 .. MaxLogs /\ 1 + sent[c] <= MaxLogs
    BY <1>1, LimitsAssumption DEF ClientWakes
  <2>2. \A d \in Clients : StreamOK(d)'
    BY <1>1, <2>1 DEF ClientWakes, StreamOK
  <2> QED
    BY <1>1, <2>1, <2>2 DEF ClientWakes, InRange
<1>2. CASE ClientLosesServer(c)
  <2>1. phase' = [phase EXCEPT ![c] = "dead"] \/ phase' = [phase EXCEPT ![c] = "spinning"]
    BY <1>2 DEF ClientLosesServer
  <2>2. \A d \in Clients : StreamOK(d)'
    BY <1>2, <2>1, StreamKept DEF ClientLosesServer, StreamOK
  <2> QED
    BY <1>2, <2>1, <2>2 DEF ClientLosesServer, InRange, PhaseType
<1> QED
  BY <1>1, <1>2, TypeClientReads, TypeClientLogs, TypeClientAcks DEF ClientTurn

\* The server's steps that only move its own control.
LEMMA TypeControl ==
  ASSUME TypeInv,
         \/ LoopContinues \/ LoopQuits \/ SelectCalled \/ SelectReturns
         \/ InterruptedByInt \/ InterruptedByHup \/ EndDispatch \/ Reread
         \/ EndSendHup \/ BrokenPipe \/ Teardown \/ DrainDead \/ Exit
         \/ \E i \in ready : DispatchDead(i)
  PROVE  TypeInv'
<1> USE DEF TypeInv, TypeOK, serverVars, clientVars, userVars, LoopVars
<1>1. CASE LoopContinues \/ LoopQuits \/ SelectCalled \/ InterruptedByInt \/ EndDispatch
           \/ EndSendHup \/ Exit
  BY <1>1, StreamsKept DEF LoopContinues, LoopQuits, SelectCalled, InterruptedByInt,
     EndDispatch, EndSendHup, Exit, InRange, PcType
<1>2. CASE SelectReturns
  <2>1. Readable \subseteq 0 .. Len(chain) /\ (MasterFd \in Readable => backlog # <<>>)
    BY SMTT(60) DEF Readable, MasterFd
  <2> QED
    BY <1>2, <2>1, StreamsKept DEF SelectReturns, InRange, PcType
<1>3. CASE InterruptedByHup
  BY <1>3, StreamsKept DEF InterruptedByHup, InRange, PcType
<1>4. CASE BrokenPipe
  BY <1>4, StreamsKept DEF BrokenPipe, InRange, PcType
<1>5. CASE DrainDead \/ \E i \in ready : DispatchDead(i)
  <2>1. pc' \in {"spinning", "aborted"} /\ UNCHANGED <<LoopVars, ready>>
    BY <1>5 DEF DrainDead, DispatchDead, ReadsEndOfStream
  <2> QED
    BY <2>1, StreamsKept DEF InRange, PcType
<1>6. CASE Reread
  <2>1. /\ pc' \in {"aborted", "sendHup"} /\ config' \in Versions
        /\ current' \in Nat \ {0}
    BY <1>6, VersionsAssumption DEF Reread, Unreadable, rootClient
  <2> QED
    BY <1>6, <2>1, StreamsKept DEF Reread, InRange, PcType
<1>7. CASE Teardown
  BY <1>7, StreamsKept DEF Teardown, rootClient, InRange, PcType
<1> QED
  BY <1>1, <1>2, <1>3, <1>4, <1>5, <1>6, <1>7

\* A client is accepted.
LEMMA TypeRegister ==
  ASSUME TypeInv, Register
  PROVE  TypeInv'
<1> USE DEF TypeInv, TypeOK, serverVars, clientVars, userVars
<1>1. backlog # <<>>
  BY DEF Register, InRange
<1>2. Head(backlog) \in Clients /\ Tail(backlog) \in Seq(Clients)
  BY <1>1, HeadTailProperties
<1>3. chain' \in Seq(Clients) /\ Len(chain') = Len(chain) + 1
  BY <1>2, AppendProperties DEF Register
<1>4. [type |-> "CONFIG", config |-> config] \in ServerMessage
  BY DEF ServerMessage
<1>5. toClient' \in [Clients -> Seq(ServerMessage)]
  BY <1>2, <1>4, AppendProperties DEF Register
<1>6. ready' \in SUBSET (0 .. Len(chain')) /\ MasterFd \notin ready'
  BY <1>3, LenProperties DEF Register
<1>7. UNCHANGED <<owed, sent, killCount, logged, toServer, phase>>
  BY DEF Register
<1> QED
  BY <1>2, <1>3, <1>5, <1>6, <1>7, StreamsKept DEF Register, InRange

\* A message is sent to the current client.
LEMMA TypeSend ==
  ASSUME TypeInv, sendHupMessage \/ SendInt
  PROVE  TypeInv'
<1> USE DEF TypeInv, TypeOK, serverVars, clientVars, userVars
<1>1. current \in 1 .. Len(chain) /\ chain[current] \in Clients
  BY LenProperties, ElementOfSeq DEF sendHupMessage, SendInt, SendToCurrent
<1>2. PICK message \in ServerMessage : SendToCurrent(message)
  <2>1. /\ [type |-> "HUP", config |-> config] \in ServerMessage
        /\ [type |-> "INT", config |-> NoFile] \in ServerMessage
    BY DEF ServerMessage
  <2> QED
    BY <2>1 DEF sendHupMessage, SendInt
<1>3. toClient' \in [Clients -> Seq(ServerMessage)]
  BY <1>1, <1>2, AppendProperties DEF SendToCurrent
<1>4. UNCHANGED <<owed, sent, killCount, logged, toServer, phase>>
  BY DEF sendHupMessage, SendInt
<1>5. CASE sendHupMessage
  BY <1>3, <1>4, <1>5, StreamsKept DEF sendHupMessage, nextClient, InRange
<1>6. CASE SendInt
  <2>1. /\ pc' = "drain" /\ pc' \in PcType
        /\ UNCHANGED <<clientVars, userVars, sighupReceived, config, chain, ready, current,
                       logged, finalKillCount, backlog, toServer>>
    BY <1>6 DEF SendInt, PcType
  <2>2. InRange'
    BY <1>1, <2>1 DEF InRange
  <2>3. \A c \in Clients : StreamOK(c)'
    BY <1>4, StreamsKept
  <2> QED
    BY <1>3, <2>1, <2>2, <2>3
<1> QED
  BY <1>5, <1>6

\* What logging a message of client c does to the streams.
LEMMA ReadLogStreams ==
  ASSUME TypeInv, NEW c \in Clients, ReadLog(c),
         UNCHANGED <<owed, sent, killCount, phase>>
  PROVE  /\ toServer' \in [Clients -> Seq(ClientMessage)]
         /\ logged' \in [Clients -> 0 .. MaxLogs]
         /\ \A d \in Clients : StreamOK(d)'
<1> USE DEF TypeInv, TypeOK
<1> DEFINE s == toServer[c]
           t == Tail(s)
<1>1. s \in Seq(ClientMessage) /\ s # <<>> /\ AckIsLast(s) /\ ~ IsAck(Head(s))
  BY DEF ReadLog, StreamOK, IsAck
<1>2. /\ t \in Seq(ClientMessage) /\ AckIsLast(t)
      /\ Entries(s) = Entries(t) + 1 /\ Entries(t) \in Nat
      /\ \A i \in 1 .. Len(t) : \E j \in 1 .. Len(s) : t[i] = s[j]
  BY <1>1, TailEntry
<1>3. toServer' = [toServer EXCEPT ![c] = t] /\ logged' = [logged EXCEPT ![c] = @ + 1]
  BY DEF ReadLog
<1> HIDE DEF t
<1>4. logged[c] \in 0 .. MaxLogs /\ sent[c] \in 0 .. MaxLogs
      /\ logged[c] + Entries(s) = sent[c]
  BY DEF StreamOK
<1>5. logged[c] + 1 \in 0 .. MaxLogs /\ logged[c] + 1 + Entries(t) = sent[c]
  BY <1>2, <1>4, LimitsAssumption, SMTT(60)
<1>6. StreamOK(c)'
  <2>1. toServer'[c] = t /\ logged'[c] = logged[c] + 1
    BY <1>3
  <2>2. \A i \in 1 .. Len(t) : IsAck(t[i]) =>
            phase[c] = "done" /\ t[i].count = killCount[c]
    <3>1. \A j \in 1 .. Len(s) : IsAck(s[j]) =>
              phase[c] = "done" /\ s[j].count = killCount[c]
      BY DEF StreamOK
    <3>2. ASSUME NEW i \in 1 .. Len(t), IsAck(t[i])
          PROVE  phase[c] = "done" /\ t[i].count = killCount[c]
      <4>1. PICK j \in 1 .. Len(s) : t[i] = s[j]
        BY <1>2
      <4> QED
        BY <3>1, <3>2, <4>1
    <3> QED
      BY <3>2
  <2> QED
    BY <1>2, <1>5, <2>1, <2>2 DEF StreamOK
<1>7. \A d \in Clients \ {c} : StreamOK(d)'
  BY <1>3 DEF StreamOK
<1> QED
  BY <1>2, <1>3, <1>5, <1>6, <1>7

\* A log entry is read, in the loop or while INT_ACK is waited for.
LEMMA TypeReadLog ==
  ASSUME TypeInv, DrainLog \/ \E i \in ready : DispatchLog(i)
  PROVE  TypeInv'
<1> USE DEF TypeInv, TypeOK, serverVars, clientVars, userVars
<1>1. ASSUME NEW i \in ready, DispatchLog(i) PROVE TypeInv'
  <2>1. i \in 1 .. Len(chain) /\ chain[i] \in Clients
    BY <1>1, LenProperties, ElementOfSeq DEF DispatchLog, MasterFd
  <2> QED
    BY <1>1, <2>1, ReadLogStreams DEF DispatchLog, InRange
<1>2. CASE DrainLog
  <2>1. chain[current] \in Clients
    BY <1>2, LenProperties, ElementOfSeq DEF DrainLog, InRange
  <2> QED
    BY <1>2, <2>1, ReadLogStreams DEF DrainLog, InRange
<1> QED
  BY <1>1, <1>2

\* INT_ACK comes last, and carries the kill count of a client that is done and
\* all of whose entries have been logged.
LEMMA AckIsComplete ==
  ASSUME TypeInv, NEW c \in Clients, toServer[c] # <<>>, IsAck(Head(toServer[c]))
  PROVE  /\ phase[c] = "done" /\ logged[c] = sent[c] /\ Tail(toServer[c]) = <<>>
         /\ Head(toServer[c]).count = killCount[c]
<1> USE DEF TypeInv, TypeOK
<1> DEFINE s == toServer[c]
<1>1. Tail(s) = <<>> /\ Entries(s) = 0 /\ s[1] = Head(s) /\ 1 \in 1 .. Len(s)
  BY TailAck DEF StreamOK
<1>2. phase[c] = "done" /\ Head(s).count = killCount[c]
  BY <1>1 DEF StreamOK
<1>3. logged[c] + 0 = sent[c] /\ logged[c] \in Nat
  BY <1>1, LimitsAssumption DEF StreamOK
<1> QED
  BY <1>1, <1>2, <1>3

\* INT_ACK is read.
LEMMA TypeDrainAck ==
  ASSUME TypeInv, DrainAck
  PROVE  TypeInv'
<1> USE DEF TypeInv, TypeOK, serverVars, clientVars, userVars
<1>1. PICK c \in Clients : c = chain[current]
  <2>1. current \in 1 .. Len(chain)
    BY LenProperties DEF DrainAck, InRange
  <2>2. chain[current] \in Clients
    BY <2>1, ElementOfSeq
  <2> QED
    BY <2>2
<1>2. /\ toServer[c] # <<>> /\ IsAck(Head(toServer[c]))
      /\ toServer' = [toServer EXCEPT ![c] = Tail(@)]
      /\ finalKillCount' = [finalKillCount EXCEPT ![c] = Head(toServer[c]).count]
  BY <1>1 DEF DrainAck, EndsDrain, IsAck
<1>3. /\ phase[c] = "done" /\ logged[c] = sent[c] /\ Tail(toServer[c]) = <<>>
      /\ Head(toServer[c]).count = killCount[c]
  BY <1>1, <1>2, AckIsComplete
<1>4. toServer' \in [Clients -> Seq(ClientMessage)] /\ toServer'[c] = <<>>
  <2>1. toServer' = [toServer EXCEPT ![c] = <<>>]
    BY <1>2, <1>3
  <2>2. <<>> \in Seq(ClientMessage)
    OBVIOUS
  <2> QED
    BY <1>1, <2>1, <2>2
<1>5. finalKillCount' \in [Clients -> 0 .. MaxLogs]
  BY <1>1, <1>2, <1>3
<1>6. UNCHANGED <<owed, sent, killCount, logged, phase>>
  BY DEF DrainAck
<1>7. Entries(<<>>) = 0 /\ AckIsLast(<<>>) /\ 1 .. Len(<<>>) = {}
  BY DEF Entries, AckIsLast
<1>8. StreamOK(c)'
  <2>1. logged'[c] + Entries(toServer'[c]) = sent'[c]
    BY <1>1, <1>3, <1>4, <1>6, <1>7, LimitsAssumption
  <2>2. owed'[c] + sent'[c] <= MaxLogs /\ killCount'[c] <= sent'[c]
    BY <1>1, <1>6 DEF StreamOK
  <2>3. AckIsLast(toServer'[c]) /\ 1 .. Len(toServer'[c]) = {}
    BY <1>4, <1>7
  <2> QED
    BY <2>1, <2>2, <2>3 DEF StreamOK
<1>9. \A d \in Clients \ {c} : StreamOK(d)'
  BY <1>2, <1>6 DEF StreamOK
<1> QED
  <2>1. /\ pc' = "sendInt" /\ pc' \in PcType /\ current' \in Nat \ {0}
        /\ UNCHANGED <<clientVars, userVars, sighupReceived, config, chain, ready, logged,
                       backlog, toClient>>
    BY DEF DrainAck, nextClient, PcType
  <2>2. InRange'
    BY <2>1 DEF InRange
  <2>3. \A d \in Clients : StreamOK(d)'
    BY <1>8, <1>9
  <2> QED
    BY <1>4, <1>5, <2>1, <2>2, <2>3

\* Every step keeps the invariant.
LEMMA TypeNext == TypeInv /\ [Next]_vars => TypeInv'
<1> SUFFICES ASSUME TypeInv, [Next]_vars PROVE TypeInv'
  OBVIOUS
<1>1. CASE UNCHANGED vars
  BY <1>1, StreamsKept DEF vars, serverVars, clientVars, userVars, TypeInv, TypeOK, InRange
<1>2. CASE ServerStep
  BY <1>2, TypeControl, TypeRegister, TypeSend, TypeReadLog, TypeDrainAck DEF ServerStep
<1> QED
  BY <1>1, <1>2, TypeUser, TypeClient DEF Next

\* It holds initially.
LEMMA TypeInit == Init => TypeInv
<1> SUFFICES ASSUME Init PROVE TypeInv
  OBVIOUS
<1>1. TypeOK
  <2>1. /\ <<>> \in Seq(Clients) /\ <<>> \in Seq(ServerMessage) /\ <<>> \in Seq(ClientMessage)
        /\ 0 \in 0 .. MaxLogs /\ 0 \in 0 .. MaxHups
    BY LimitsAssumption
  <2>2. /\ logged \in [Clients -> 0 .. MaxLogs] /\ finalKillCount \in [Clients -> 0 .. MaxLogs]
        /\ owed \in [Clients -> 0 .. MaxLogs] /\ sent \in [Clients -> 0 .. MaxLogs]
        /\ killCount \in [Clients -> 0 .. MaxLogs]
    BY <2>1 DEF Init
  <2>3. /\ toClient \in [Clients -> Seq(ServerMessage)]
        /\ toServer \in [Clients -> Seq(ClientMessage)]
        /\ phase \in [Clients -> PhaseType] /\ inForce \in [Clients -> Versions \cup {NoFile}]
    BY <2>1 DEF Init, PhaseType
  <2>4. /\ pc \in PcType /\ sigintReceived \in BOOLEAN /\ sighupReceived \in BOOLEAN
        /\ hups \in 0 .. MaxHups /\ file \in Versions /\ config \in Versions
    BY <2>1 DEF Init, PcType
  <2>5. /\ chain \in Seq(Clients) /\ backlog \in Seq(Clients)
        /\ ready \in SUBSET (0 .. Len(chain)) /\ current \in Nat \ {0}
    BY <2>1 DEF Init, rootClient
  <2> QED
    BY <2>2, <2>3, <2>4, <2>5 DEF TypeOK
<1>2. InRange
  BY DEF Init, InRange
<1>3. Entries(<<>>) = 0 /\ AckIsLast(<<>>) /\ 1 .. Len(<<>>) = {}
  BY DEF Entries, AckIsLast
<1>4. \A c \in Clients : StreamOK(c)
  BY <1>3, LimitsAssumption DEF Init, StreamOK
<1> QED
  BY <1>1, <1>2, <1>4 DEF TypeInv

\* It always holds.
LEMMA TypeInvariant == Spec => []TypeInv
BY TypeInit, TypeNext, PTL DEF Spec

\* The variables keep their types: in particular the server never logs more
\* entries than were sent, and never waits for an answer of a client it has not.
THEOREM TypeCorrect == Spec => []TypeOK
BY TypeInvariant, PTL DEF TypeInv

-----------------------------------------------------------------------------
(* The final report.  The traversal leaves behind it only clients that are   *)
(* done, with nothing on the way, all logged and counted; and such a client  *)
(* stays so, because nothing wakes it up again.                             *)

Closed(c) ==
    /\ phase[c] = "done"
    /\ toServer[c] = <<>>
    /\ logged[c] = sent[c]
    /\ finalKillCount[c] = killCount[c]

Settling == pc \in {"sendInt", "drain", "exited"}

ReportInv ==
    /\ Settling => \A i \in 1 .. Len(chain) : i < current => Closed(chain[i])
    /\ pc = "exited" => current > Len(chain)

\* A client that is closed stays closed.
LEMMA ClosedStays ==
  ASSUME TypeInv, [Next]_vars, NEW c \in Clients, Closed(c)
  PROVE  Closed(c)'
<1>0. /\ phase \in [Clients -> PhaseType] /\ toServer \in [Clients -> Seq(ClientMessage)]
      /\ logged \in [Clients -> 0 .. MaxLogs] /\ finalKillCount \in [Clients -> 0 .. MaxLogs]
      /\ sent \in [Clients -> 0 .. MaxLogs] /\ killCount \in [Clients -> 0 .. MaxLogs]
  BY DEF TypeInv, TypeOK
<1>1. ASSUME UNCHANGED <<phase, toServer, logged, finalKillCount, sent, killCount>>
      PROVE  Closed(c)'
  BY <1>1 DEF Closed
<1>2. CASE UserStep
  <2>1. ASSUME NEW d \in Clients, Connect(d) \/ Crash(d) PROVE Closed(c)'
    <3>1. d # c
      BY <2>1 DEF Connect, Crash, Closed
    <3> QED
      BY <1>0, <2>1, <3>1 DEF Connect, Crash, Closed, serverVars, userVars
  <2> QED
    BY <1>1, <1>2, <2>1 DEF UserStep, EditConfig, SendSigint, SendSighup, serverVars, clientVars
<1>3. ASSUME NEW d \in Clients, ClientTurn(d) \/ ClientWakes(d) PROVE Closed(c)'
  <2>1. CASE ClientReads(d) \/ ClientWakes(d) \/ ClientLosesServer(d)
    <3>1. d # c
      BY <2>1 DEF ClientReads, ClientWakes, ClientLosesServer, Closed
    <3>2. phase'[c] = phase[c]
      BY <1>0, <2>1, <3>1 DEF ClientReads, ClientWakes, ClientLosesServer
    <3> QED
      BY <2>1, <3>2 DEF ClientReads, ClientWakes, ClientLosesServer, Closed, serverVars, userVars
  <2>2. CASE ClientLogs(d)
    <3>1. d # c
      BY <2>2 DEF ClientLogs, Closed
    <3>2. PICK kills \in {0, 1} : killCount' = [killCount EXCEPT ![d] = @ + kills]
      BY <2>2 DEF ClientLogs
    <3> QED
      BY <1>0, <2>2, <3>1, <3>2 DEF ClientLogs, Closed, serverVars
  <2>3. CASE ClientAcks(d)
    <3>1. d # c
      BY <2>3 DEF ClientAcks, Closed
    <3> QED
      BY <1>0, <2>3, <3>1 DEF ClientAcks, Closed, serverVars
  <2> QED
    BY <1>3, <2>1, <2>2, <2>3 DEF ClientTurn
<1>4. CASE ServerStep
  <2>1. ASSUME NEW d, ReadLog(d), UNCHANGED <<clientVars, finalKillCount>> PROVE Closed(c)'
    <3>1. d # c
      BY <2>1 DEF ReadLog, Closed
    <3> QED
      BY <1>0, <2>1, <3>1 DEF ReadLog, Closed, clientVars
  <2>2. CASE DrainAck
    <3>1. c # chain[current]
      BY <2>2 DEF DrainAck, Closed
    <3> QED
      BY <1>0, <2>2, <3>1 DEF DrainAck, Closed, clientVars
  <2>3. CASE DrainLog \/ \E i \in ready : DispatchLog(i)
    BY <2>1, <2>3 DEF DrainLog, DispatchLog
  <2>4. CASE \/ LoopContinues \/ LoopQuits \/ SelectCalled \/ SelectReturns
             \/ InterruptedByInt \/ InterruptedByHup \/ EndDispatch \/ Reread
             \/ EndSendHup \/ BrokenPipe \/ Teardown \/ DrainDead \/ Exit
             \/ \E i \in ready : DispatchDead(i)
    BY <1>1, <2>4 DEF LoopContinues, LoopQuits, SelectCalled, SelectReturns,
       InterruptedByInt, InterruptedByHup, EndDispatch, Reread, EndSendHup, BrokenPipe,
       Teardown, DrainDead, Exit, DispatchDead, LoopVars, clientVars
  <2>5. CASE Register \/ sendHupMessage \/ SendInt
    BY <1>1, <2>5 DEF Register, sendHupMessage, SendInt, clientVars
  <2> QED
    BY <1>4, <2>2, <2>3, <2>4, <2>5 DEF ServerStep
<1>5. CASE UNCHANGED vars
  BY <1>1, <1>5 DEF vars, serverVars, clientVars
<1> QED
  BY <1>2, <1>3, <1>4, <1>5 DEF Next

\* How the server comes to settle its clients, and goes on.
LEMMA SettlingStep ==
  ASSUME TypeInv, [Next]_vars, Settling'
  PROVE  \/ current' = 1 /\ pc' = "sendInt"
         \/ DrainAck /\ pc' = "sendInt"
         \/ /\ Settling /\ UNCHANGED <<chain, current>>
            /\ pc' = "exited" => pc = "exited" \/ current > Len(chain)
<1>1. CASE UserStep
  BY <1>1 DEF UserStep, EditConfig, SendSigint, SendSighup, Interrupt, Connect, Crash,
     serverVars, Settling
<1>2. ASSUME NEW c \in Clients, ClientTurn(c) \/ ClientWakes(c)
      PROVE  UNCHANGED <<pc, chain, current>>
  BY <1>2 DEF ClientTurn, ClientReads, ClientLogs, ClientAcks, ClientLosesServer,
     ClientWakes, serverVars
<1>3. CASE ServerStep
  <2>1. CASE Teardown
    BY <2>1 DEF Teardown, rootClient
  <2>2. CASE DrainAck
    BY <2>2 DEF DrainAck
  <2>3. CASE SendInt \/ DrainLog \/ Exit
    BY <2>3 DEF SendInt, DrainLog, Exit, LoopVars, Settling
  <2>4. CASE \/ LoopContinues \/ LoopQuits \/ SelectCalled \/ SelectReturns
             \/ InterruptedByInt \/ InterruptedByHup \/ EndDispatch \/ Reread
             \/ EndSendHup \/ BrokenPipe \/ DrainDead
             \/ \E i \in ready : DispatchDead(i)
    BY <2>4 DEF LoopContinues, LoopQuits, SelectCalled, SelectReturns,
       InterruptedByInt, InterruptedByHup, EndDispatch, Reread, EndSendHup, BrokenPipe,
       DrainDead, DispatchDead, ReadsEndOfStream, Settling
  <2>5. CASE Register \/ sendHupMessage \/ \E i \in ready : DispatchLog(i)
    BY <2>5 DEF Register, sendHupMessage, DispatchLog, Settling
  <2> QED
    BY <1>3, <2>1, <2>2, <2>3, <2>4, <2>5 DEF ServerStep
<1>4. CASE UNCHANGED vars
  BY <1>4 DEF vars, serverVars, Settling
<1> QED
  BY <1>1, <1>2, <1>3, <1>4 DEF Next, Settling

\* Every step keeps the report true.
LEMMA ReportNext == TypeInv /\ ReportInv /\ [Next]_vars => ReportInv'
<1> SUFFICES ASSUME TypeInv, ReportInv, [Next]_vars, Settling' PROVE ReportInv'
  BY DEF ReportInv, Settling
<1>0. \A i \in 1 .. Len(chain) : chain[i] \in Clients
  BY ElementOfSeq DEF TypeInv, TypeOK
<1>1. CASE current' = 1 /\ pc' = "sendInt"
  BY <1>1 DEF ReportInv
<1>2. CASE DrainAck /\ pc' = "sendInt"
  <2>1. /\ chain' = chain /\ current' = current + 1 /\ current \in 1 .. Len(chain)
        /\ UNCHANGED <<phase, logged, sent, killCount>>
    BY <1>2 DEF DrainAck, nextClient, clientVars, TypeInv, TypeOK, InRange
  <2>2. PICK c \in Clients : c = chain[current]
    BY <1>0, <2>1
  <2>3. /\ toServer[c] # <<>> /\ IsAck(Head(toServer[c]))
        /\ toServer' = [toServer EXCEPT ![c] = Tail(@)]
        /\ finalKillCount' = [finalKillCount EXCEPT ![c] = Head(toServer[c]).count]
    BY <1>2, <2>2 DEF DrainAck, EndsDrain, IsAck
  <2>4. /\ phase[c] = "done" /\ logged[c] = sent[c] /\ Tail(toServer[c]) = <<>>
        /\ Head(toServer[c]).count = killCount[c]
    BY <2>2, <2>3, AckIsComplete
  <2>5. toServer'[c] = <<>> /\ finalKillCount'[c] = killCount[c]
    BY <2>3, <2>4 DEF TypeInv, TypeOK
  <2>6. Closed(c)'
    BY <2>1, <2>4, <2>5 DEF Closed
  <2>7. \A i \in 1 .. Len(chain) : i < current => Closed(chain[i])
    BY <1>2 DEF ReportInv, Settling, DrainAck
  <2>8. \A i \in 1 .. Len(chain) : i < current => Closed(chain[i])'
    BY <1>0, <2>1, <2>7, ClosedStays
  <2>9. \A i \in 1 .. Len(chain) : i < current + 1 => i = current \/ i < current
    BY DEF TypeInv, TypeOK
  <2> QED
    BY <1>2, <2>1, <2>2, <2>6, <2>8, <2>9 DEF ReportInv
<1>3. CASE /\ Settling /\ UNCHANGED <<chain, current>>
           /\ pc' = "exited" => pc = "exited" \/ current > Len(chain)
  <2>1. \A i \in 1 .. Len(chain) : i < current => Closed(chain[i])'
    BY <1>0, <1>3, ClosedStays DEF ReportInv
  <2> QED
    BY <1>3, <2>1 DEF ReportInv
<1> QED
  BY <1>1, <1>2, <1>3, SettlingStep

\* A server that exits cleanly has logged every entry of every client it ever
\* accepted, and reports the kills each of them counted: nothing a client wrote
\* before its INT_ACK is lost, however much of it the INT met on its way.
THEOREM ReportIsComplete == Spec => []ReportComplete
<1>1. Init => ReportInv
  BY DEF Init, ReportInv, Settling
<1>2. TypeInv /\ ReportInv => ReportComplete
  <2> SUFFICES ASSUME TypeInv, ReportInv, pc = "exited", NEW i \in 1 .. Len(chain)
               PROVE  Closed(chain[i])
    BY DEF ReportComplete, Registered, Closed
  <2>1. current > Len(chain) /\ current \in Nat /\ Len(chain) \in Nat
    BY LenProperties DEF ReportInv, TypeInv, TypeOK
  <2>2. i < current
    BY <2>1
  <2> QED
    BY <2>2 DEF ReportInv, Settling
<1> QED
  BY <1>1, <1>2, TypeInvariant, ReportNext, PTL DEF Spec

-----------------------------------------------------------------------------
(* The configuration a client comes to work with is the one of the last      *)
(* message on its way that carries one.                                     *)

Carries(message) == message.type # "INT"

Carriers(s) == {i \in 1 .. Len(s) : Carries(s[i])}

LatestOf(s, f) ==
    IF Carriers(s) = {}
    THEN f
    ELSE s[CHOOSE i \in Carriers(s) : \A j \in Carriers(s) : j <= i].config

\* The last carrier is what counts.
LEMMA LatestIs ==
  ASSUME NEW S, NEW s \in Seq(S), NEW f, NEW m \in Carriers(s),
         \A j \in Carriers(s) : j <= m
  PROVE  LatestOf(s, f) = s[m].config
<1>1. Carriers(s) \in SUBSET Int
  BY DEF Carriers
<1>2. (CHOOSE i \in Carriers(s) : \A j \in Carriers(s) : j <= i) = m
  <2> HIDE DEF Carriers
  <2> QED
    BY <1>1, ChooseGreatest
<1> QED
  BY <1>2 DEF LatestOf

\* A message that is sent is the last, if it carries a configuration at all.
LEMMA LatestAppend ==
  ASSUME NEW S, NEW s \in Seq(S), NEW f, NEW m \in S
  PROVE  LatestOf(Append(s, m), f) = IF Carries(m) THEN m.config ELSE LatestOf(s, f)
<1>1. PICK t : t = Append(s, m)
  OBVIOUS
<1>2. /\ t \in Seq(S) /\ Len(t) = Len(s) + 1 /\ Len(s) \in Nat
      /\ \A i \in 1 .. Len(s) : t[i] = s[i]
      /\ t[Len(s) + 1] = m
  BY <1>1, AppendProperties, LenProperties
<1>3. CASE Carries(m)
  <2>1. Len(s) + 1 \in Carriers(t) /\ \A j \in Carriers(t) : j <= Len(s) + 1
    BY <1>2, <1>3 DEF Carriers
  <2> QED
    BY <1>1, <1>2, <1>3, <2>1, LatestIs, ZenonT(60)
<1>4. CASE ~ Carries(m)
  <2>1. Carriers(t) = Carriers(s)
    <3>1. 1 .. Len(t) = (1 .. Len(s)) \cup {Len(s) + 1}
      BY <1>2
    <3> QED
      BY <1>2, <1>4, <3>1 DEF Carriers
  <2>2. CASE Carriers(s) = {}
    BY <1>1, <1>4, <2>1, <2>2 DEF LatestOf
  <2>3. CASE Carriers(s) # {}
    <3>1. PICK i \in Carriers(s) : \A j \in Carriers(s) : j <= i
      <4>1. Carriers(s) \in SUBSET (1 .. Len(s))
        BY DEF Carriers
      <4> QED
        BY <1>2, <2>3, <4>1, GreatestExists
    <3>2. i \in 1 .. Len(s)
      BY DEF Carriers
    <3>3. LatestOf(s, f) = s[i].config
      BY <3>1, LatestIs
    <3>4. LatestOf(t, f) = t[i].config
      BY <1>2, <2>1, <3>1, LatestIs
    <3> QED
      BY <1>1, <1>2, <1>4, <3>2, <3>3, <3>4
  <2> QED
    BY <2>2, <2>3
<1> QED
  BY <1>3, <1>4

\* A message that is read comes into force, if it carries a configuration.
LEMMA LatestTail ==
  ASSUME NEW S, NEW s \in Seq(S), NEW f, s # <<>>
  PROVE  LatestOf(Tail(s), IF Carries(Head(s)) THEN Head(s).config ELSE f) = LatestOf(s, f)
<1>1. PICK t : t = Tail(s)
  OBVIOUS
<1>2. PICK g : g = IF Carries(Head(s)) THEN Head(s).config ELSE f
  OBVIOUS
<1>3. /\ t \in Seq(S) /\ Len(t) = Len(s) - 1 /\ Len(s) \in Nat \ {0}
      /\ \A i \in 1 .. Len(t) : t[i] = s[i + 1]
      /\ Head(s) = s[1]
  <2>1. Head(s) = s[1]
    OBVIOUS
  <2> QED
    BY <1>1, <2>1, HeadTailProperties, EmptySeq
<1>4. \A i \in 1 .. Len(t) : i \in Carriers(t) <=> i + 1 \in Carriers(s)
  BY <1>3 DEF Carriers
<1>5. Carriers(t) \in SUBSET (1 .. Len(t)) /\ Carriers(s) \in SUBSET (1 .. Len(s))
  BY DEF Carriers
<1>6. 1 \in Carriers(s) <=> Carries(Head(s))
  BY <1>3 DEF Carriers
<1>7. CASE Carriers(t) = {}
  <2>1. ASSUME NEW i \in Carriers(s), i # 1 PROVE FALSE
    <3>1. i - 1 \in 1 .. Len(t) /\ (i - 1) + 1 = i
      BY <1>3, <1>5, <2>1
    <3> QED
      BY <1>4, <1>7, <2>1, <3>1
  <2>2. CASE Carries(Head(s))
    <3>1. LatestOf(s, f) = s[1].config
      BY <1>6, <2>1, <2>2, LatestIs
    <3> QED
      BY <1>1, <1>2, <1>3, <1>7, <2>2, <3>1 DEF LatestOf
  <2>3. CASE ~ Carries(Head(s))
    <3>1. Carriers(s) = {}
      BY <1>6, <2>1, <2>3
    <3> QED
      BY <1>1, <1>2, <1>7, <2>3, <3>1 DEF LatestOf
  <2> QED
    BY <2>2, <2>3
<1>8. CASE Carriers(t) # {}
  <2>1. PICK i \in Carriers(t) : \A j \in Carriers(t) : j <= i
    <3>1. Len(t) \in Nat
      BY <1>3
    <3> QED
      BY <1>5, <1>8, <3>1, GreatestExists
  <2>2. i \in 1 .. Len(t) /\ i + 1 \in Carriers(s)
    BY <1>4, <1>5
  <2>3. \A j \in Carriers(s) : j <= i + 1
    <3> SUFFICES ASSUME NEW j \in Carriers(s), j # 1 PROVE j <= i + 1
      BY <1>3, <2>2
    <3>1. j - 1 \in 1 .. Len(t) /\ (j - 1) + 1 = j
      BY <1>3, <1>5
    <3>2. j - 1 \in Carriers(t)
      BY <1>4, <3>1
    <3> QED
      BY <1>3, <1>5, <2>1, <3>2
  <2>4. LatestOf(t, g) = t[i].config
    BY <1>3, <2>1, LatestIs
  <2>5. LatestOf(s, f) = s[i + 1].config
    BY <2>2, <2>3, LatestIs
  <2> QED
    BY <1>1, <1>2, <1>3, <2>2, <2>4, <2>5
<1> QED
  BY <1>7, <1>8

-----------------------------------------------------------------------------
(* The configuration a client will work with changes only by registerNewClient *)
(* and by the traversal of SIGHUP, and then it is the server's.             *)

\* Latest, before and after a step, in these terms.
LEMMA LatestIsOf ==
  ASSUME NEW c \in Clients
  PROVE  /\ Latest(c) = LatestOf(toClient[c], inForce[c])
         /\ Latest(c)' = LatestOf(toClient'[c], inForce'[c])
<1>1. Latest(c) = LatestOf(toClient[c], inForce[c])
  BY DEF Latest, LatestOf, Carriers, Carries
<1>2. Latest(c)' = LatestOf(toClient'[c], inForce'[c])
  BY DEF Latest, LatestOf, Carriers, Carries
<1> QED
  BY <1>1, <1>2

\* Reading its messages does not change what a client will come to work with.
LEMMA LatestRead ==
  ASSUME TypeInv, NEW c \in Clients, NEW d \in Clients, ClientReads(d)
  PROVE  Latest(c)' = Latest(c)
<1>1. /\ toClient \in [Clients -> Seq(ServerMessage)]
      /\ inForce \in [Clients -> Versions \cup {NoFile}]
      /\ toClient[d] # <<>> /\ toClient' = [toClient EXCEPT ![d] = Tail(@)]
  BY DEF TypeInv, TypeOK, ClientReads
<1>2. inForce' = [inForce EXCEPT ![d] =
         IF Carries(Head(toClient[d])) THEN Head(toClient[d]).config ELSE @]
  BY <1>1 DEF ClientReads, Carries
<1>3. CASE c = d
  <2>1. /\ toClient'[c] = Tail(toClient[c])
        /\ inForce'[c] = IF Carries(Head(toClient[c])) THEN Head(toClient[c]).config
                                                       ELSE inForce[c]
    BY <1>1, <1>2, <1>3
  <2>2. LatestOf(toClient'[c], inForce'[c]) = LatestOf(toClient[c], inForce[c])
    BY <1>1, <1>3, <2>1, LatestTail
  <2> QED
    BY <2>2, LatestIsOf
<1>4. CASE c # d
  BY <1>1, <1>2, <1>4 DEF Latest
<1> QED
  BY <1>3, <1>4

\* What sending a message to a client does to what the clients will work with.
LEMMA LatestSent ==
  ASSUME TypeInv, NEW c \in Clients, NEW d \in Clients, NEW m \in ServerMessage,
         toClient' = [toClient EXCEPT ![d] = Append(@, m)], inForce' = inForce
  PROVE  Latest(c)' = IF c = d /\ Carries(m) THEN m.config ELSE Latest(c)
<1>1. toClient \in [Clients -> Seq(ServerMessage)]
  BY DEF TypeInv, TypeOK
<1>2. CASE c = d
  <2>1. toClient'[c] = Append(toClient[c], m)
    BY <1>1, <1>2
  <2>2. LatestOf(toClient'[c], inForce'[c])
          = IF Carries(m) THEN m.config ELSE LatestOf(toClient[c], inForce[c])
    BY <1>1, <2>1, LatestAppend
  <2> QED
    BY <1>2, <2>2, LatestIsOf
<1>3. CASE c # d
  BY <1>1, <1>3 DEF Latest
<1> QED
  BY <1>2, <1>3

\* Every other step leaves alone what the clients will work with, what the
\* server works with, and whom it has told.
LEMMA ConfigQuiet ==
  ASSUME TypeInv, [Next]_vars,
         ~ (Register \/ sendHupMessage \/ Reread \/ Teardown \/ DrainAck)
  PROVE  /\ UNCHANGED <<chain, config, current>>
         /\ \A c \in Clients : Latest(c)' = Latest(c)
         /\ pc \in {"sendHup", "aborted"} =>
               pc' \in {"sendHup", "aborted"} \/ current > Len(chain)
<1>1. ASSUME UNCHANGED <<chain, config, current, toClient, inForce>>,
             pc' = pc \/ pc \notin {"sendHup", "aborted"} \/ pc' = "aborted"
               \/ current > Len(chain)
      PROVE  /\ UNCHANGED <<chain, config, current>>
             /\ \A c \in Clients : Latest(c)' = Latest(c)
             /\ pc \in {"sendHup", "aborted"} =>
                   pc' \in {"sendHup", "aborted"} \/ current > Len(chain)
  BY <1>1 DEF Latest
<1>2. CASE UserStep
  BY <1>1, <1>2 DEF UserStep, EditConfig, SendSigint, SendSighup, Interrupt, Connect, Crash,
     serverVars, clientVars
<1>3. ASSUME NEW d \in Clients, ClientReads(d) PROVE UNCHANGED <<chain, config, current, pc>>
  BY <1>3 DEF ClientReads, serverVars
<1>4. ASSUME NEW d \in Clients,
             ClientLogs(d) \/ ClientAcks(d) \/ ClientLosesServer(d) \/ ClientWakes(d)
      PROVE  UNCHANGED <<chain, config, current, toClient, inForce, pc>>
  BY <1>4 DEF ClientLogs, ClientAcks, ClientLosesServer, ClientWakes, serverVars
<1>5. CASE \/ LoopContinues \/ LoopQuits \/ SelectCalled \/ SelectReturns
           \/ InterruptedByInt \/ InterruptedByHup \/ EndDispatch
           \/ EndSendHup \/ BrokenPipe \/ DrainDead \/ Exit
           \/ \E i \in ready : DispatchDead(i)
  BY <1>1, <1>5 DEF LoopContinues, LoopQuits, SelectCalled, SelectReturns,
     InterruptedByInt, InterruptedByHup, EndDispatch, EndSendHup, BrokenPipe,
     DrainDead, Exit, DispatchDead, ReadsEndOfStream, LoopVars, clientVars
<1>6. CASE DrainLog \/ \E i \in ready : DispatchLog(i)
  BY <1>1, <1>6 DEF DrainLog, DispatchLog, clientVars
<1>7. CASE SendInt
  <2>1. /\ UNCHANGED <<chain, config, current, inForce>> /\ pc = "sendInt"
        /\ current <= Len(chain)
    BY <1>7 DEF SendInt, SendToCurrent, clientVars
  <2>2. PICK m : m = [type |-> "INT", config |-> NoFile]
    OBVIOUS
  <2>3. m \in ServerMessage /\ ~ Carries(m)
    BY <2>2 DEF ServerMessage, Carries
  <2>4. PICK d \in Clients : d = chain[current]
    <3>1. chain \in Seq(Clients) /\ current \in 1 .. Len(chain)
      BY <2>1, LenProperties DEF TypeInv, TypeOK
    <3> QED
      BY <3>1, ElementOfSeq
  <2>5. toClient' = [toClient EXCEPT ![d] = Append(@, m)]
    BY <1>7, <2>2, <2>4 DEF SendInt, SendToCurrent
  <2>6. \A c \in Clients : Latest(c)' = Latest(c)
    BY <2>1, <2>3, <2>5, LatestSent
  <2> QED
    BY <2>1, <2>6
<1>8. CASE UNCHANGED vars
  BY <1>1, <1>8 DEF vars, serverVars, clientVars
<1> QED
  BY <1>1, <1>2, <1>3, <1>4, <1>5, <1>6, <1>7, <1>8, LatestRead DEF Next, ServerStep, ClientTurn

\* Every step keeps the clients up to date.
LEMMA ConfigNext == TypeInv /\ ConfigDistributed /\ [Next]_vars => ConfigDistributed'
<1> SUFFICES ASSUME TypeInv, ConfigDistributed, [Next]_vars PROVE ConfigDistributed'
  OBVIOUS
<1>0. /\ chain \in Seq(Clients) /\ current \in Nat \ {0} /\ config \in Versions
      /\ Len(chain) \in Nat /\ \A i \in 1 .. Len(chain) : chain[i] \in Clients
  BY LenProperties, ElementOfSeq DEF TypeInv, TypeOK
<1>1. CASE Register
  <2>1. /\ pc = "dispatch" /\ backlog \in Seq(Clients) /\ backlog # <<>>
        /\ UNCHANGED <<pc, config, inForce>>
    BY <1>1 DEF Register, TypeInv, TypeOK, InRange, clientVars
  <2>2. PICK d \in Clients : d = Head(backlog)
    BY <2>1, HeadTailProperties
  <2>3. PICK m : m = [type |-> "CONFIG", config |-> config]
    OBVIOUS
  <2>4. m \in ServerMessage /\ Carries(m) /\ m.config = config
    BY <1>0, <2>3 DEF ServerMessage, Carries
  <2>5. toClient' = [toClient EXCEPT ![d] = Append(@, m)] /\ chain' = Append(chain, d)
    BY <1>1, <2>2, <2>3 DEF Register
  <2>6. \A c \in Clients : Latest(c)' = IF c = d THEN config ELSE Latest(c)
    BY <2>1, <2>4, <2>5, LatestSent
  <2>7. \A i \in 1 .. Len(chain) : Latest(chain[i]) = config
    BY <2>1 DEF ConfigDistributed
  <2>8. /\ Len(chain') = Len(chain) + 1 /\ chain'[Len(chain) + 1] = d
        /\ \A i \in 1 .. Len(chain) : chain'[i] = chain[i]
    BY <1>0, <2>5, AppendProperties
  <2>9. \A i \in 1 .. Len(chain') : \E c \in Clients : /\ chain'[i] = c
                                                       /\ c = d \/ Latest(c) = config
    BY <1>0, <2>7, <2>8
  <2>10. \A i \in 1 .. Len(chain') : Latest(chain[i])' = config
    <3> SUFFICES ASSUME NEW i \in 1 .. Len(chain'), NEW c \in Clients, chain'[i] = c,
                        c = d \/ Latest(c) = config
                 PROVE  Latest(chain[i])' = config
      BY <2>9
    <3>1. Latest(c)' = config
      BY <2>6
    <3> QED
      BY <3>1, SMTT(60) DEF Latest
  <2> QED
    BY <2>1, <2>10 DEF ConfigDistributed
<1>2. CASE sendHupMessage
  <2>1. /\ pc = "sendHup" /\ current <= Len(chain) /\ current' = current + 1
        /\ UNCHANGED <<pc, config, chain, inForce>>
    BY <1>2 DEF sendHupMessage, SendToCurrent, nextClient, clientVars
  <2>2. PICK d \in Clients : d = chain[current]
    BY <1>0, <2>1
  <2>3. PICK m : m = [type |-> "HUP", config |-> config]
    OBVIOUS
  <2>4. m \in ServerMessage /\ Carries(m) /\ m.config = config
    BY <1>0, <2>3 DEF ServerMessage, Carries
  <2>5. toClient' = [toClient EXCEPT ![d] = Append(@, m)]
    BY <1>2, <2>2, <2>3 DEF sendHupMessage, SendToCurrent
  <2>6. \A c \in Clients : Latest(c)' = IF c = d THEN config ELSE Latest(c)
    BY <2>1, <2>4, <2>5, LatestSent
  <2>7. \A i \in 1 .. Len(chain) : Latest(chain[i])' = config \/ i >= current + 1
    <3> SUFFICES ASSUME NEW i \in 1 .. Len(chain), ~ (i >= current + 1)
                 PROVE  Latest(chain[i])' = config
      OBVIOUS
    <3>1. i = current \/ i < current
      BY <1>0
    <3>2. PICK c \in Clients : c = chain[i]
      BY <1>0
    <3>3. c = d \/ Latest(c) = config
      BY <1>0, <2>2, <3>1, <3>2 DEF ConfigDistributed
    <3>4. Latest(c)' = config
      BY <2>6, <3>3
    <3> QED
      BY <2>1, <3>2, <3>4 DEF Latest
  <2> QED
    BY <2>1, <2>7 DEF ConfigDistributed
<1>3. CASE Reread
  <2>1. CASE Unreadable(file)
    <3>1. pc = "reread" /\ UNCHANGED <<config, current, chain, toClient, inForce>>
      BY <1>3, <2>1 DEF Reread, clientVars
    <3>2. \A i \in 1 .. Len(chain) : Latest(chain[i]) = config
      BY <3>1 DEF ConfigDistributed
    <3>3. \A i \in 1 .. Len(chain) : Latest(chain[i])' = Latest(chain[i])
      BY <3>1 DEF Latest
    <3> QED
      BY <3>1, <3>2, <3>3 DEF ConfigDistributed
  <2>2. CASE ~ Unreadable(file)
    BY <1>0, <1>3, <2>2 DEF Reread, ConfigDistributed, rootClient
  <2> QED
    BY <2>1, <2>2
<1>4. CASE Teardown \/ DrainAck
  <2>1. pc \in {"teardown", "drain"} /\ UNCHANGED <<config, chain, toClient, inForce>>
    BY <1>4 DEF Teardown, DrainAck, clientVars
  <2>2. \A i \in 1 .. Len(chain) : Latest(chain[i]) = config
    BY <2>1 DEF ConfigDistributed
  <2>3. \A i \in 1 .. Len(chain) : Latest(chain[i])' = Latest(chain[i])
    BY <2>1 DEF Latest
  <2> QED
    BY <2>1, <2>2, <2>3 DEF ConfigDistributed
<1>5. CASE ~ (Register \/ sendHupMessage \/ Reread \/ Teardown \/ DrainAck)
  <2>1. /\ UNCHANGED <<chain, config, current>>
        /\ \A c \in Clients : Latest(c)' = Latest(c)
        /\ pc \in {"sendHup", "aborted"} =>
              pc' \in {"sendHup", "aborted"} \/ current > Len(chain)
    BY <1>5, ConfigQuiet
  <2> SUFFICES ASSUME NEW i \in 1 .. Len(chain)
               PROVE  \/ Latest(chain[i])' = config
                      \/ pc' \in {"sendHup", "aborted"} /\ i >= current
    BY <2>1 DEF ConfigDistributed
  <2>2. PICK c \in Clients : c = chain[i]
    BY <1>0
  <2>3. Latest(chain[i])' = Latest(c)'
    BY <2>1, <2>2 DEF Latest
  <2>4. Latest(c) = config \/ (pc \in {"sendHup", "aborted"} /\ i >= current)
    BY <2>2 DEF ConfigDistributed
  <2> QED
    BY <1>0, <2>1, <2>2, <2>3, <2>4
<1> QED
  BY <1>1, <1>2, <1>3, <1>4, <1>5

\* No client is left with another configuration than the server's, however its
\* registration and the SIGHUPs interleave: once a traversal has come past it,
\* the last configuration on its way to it is the server's.
THEOREM NobodyLeftBehind == Spec => []ConfigDistributed
<1>1. Init => ConfigDistributed
  BY DEF Init, ConfigDistributed
<1> QED
  BY <1>1, TypeInvariant, ConfigNext, PTL DEF Spec
=============================================================================
