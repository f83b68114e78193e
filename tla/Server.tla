------------------------------- MODULE Server -------------------------------
(***************************************************************************)
(* procnanny.server (server/Server.c, server/ClientManager.c) with the     *)
(* select loop of common/CommunicationManager.c, its two signal handlers   *)
(* and its clients.                                                        *)
(*                                                                         *)
(* The server is one thread, but SIGINT and SIGHUP come at any point, and  *)
(* a handler only sets a flag.  What the flag is worth depends on where    *)
(* the thread was, so every place where that differs is a value of pc: the *)
(* test of the loop, the call of select, the wait inside it.  signal(2)    *)
(* restarts read, write and accept, and nothing but select is interrupted. *)
(*                                                                         *)
(* A client is what ClientMonitor is to its server: it reads one message   *)
(* at a time, writes the log entries its callbacks owe before it reads     *)
(* again, and answers INT with INT_ACK.                                    *)
(***************************************************************************)
EXTENDS Integers, Sequences, FiniteSets

CONSTANTS
    Clients,      \* the nodes on which procnanny.client is started, once each
    Versions,     \* the contents the configuration file may have
    MaxLogs,      \* bound: log entries of one client
    MaxHups,      \* bound: SIGHUPs sent by the user
    BufferCap,    \* messages the buffers of one direction of a socket hold
    MayCrash      \* clients may be killed

NoFile   == 0     \* the configuration file cannot be read
MasterFd == 0     \* lower than every client's descriptor

ASSUME VersionsAssumption == Versions \subseteq Nat \ {NoFile} /\ Versions # {}
ASSUME LimitsAssumption   == /\ MaxLogs \in Nat
                             /\ MaxHups \in Nat
                             /\ BufferCap \in Nat \ {0}
                             /\ MayCrash \in BOOLEAN

VARIABLES
    pc,                \* where the server is
    sigintReceived,
    sighupReceived,
    hups,              \* SIGHUPs sent so far
    file,              \* the configuration file now
    config,            \* monitorRequests: what was last read from it
    chain,             \* the clients accepted, in order: the list of addClient
    ready,             \* positions select returned, not yet dispatched
    current,           \* current of forEachClient, a position in chain
    logged,            \* entries written to the log file, per client
    finalKillCount,
    backlog,           \* connections not yet accepted
    toClient,          \* server's messages on the way to a client
    toServer,          \* a client's messages on the way to the server
    phase,             \* what a client is doing
    inForce,           \* the configuration a client works with
    owed,              \* entries its current callback has still to write
    sent,              \* entries it has written
    killCount          \* of these, the kills

serverVars == <<pc, sighupReceived, config, chain, ready, current, logged,
                finalKillCount>>
clientVars == <<phase, inForce, owed, sent, killCount>>
userVars   == <<sigintReceived, hups, file>>
vars == <<serverVars, clientVars, userVars, backlog, toClient, toServer>>

Registered == {chain[i] : i \in 1 .. Len(chain)}

Listening == pc \notin {"sendInt", "drain", "exited", "aborted"}
Over      == pc \in {"exited", "aborted"}

IsFirst(x, S) == x \in S /\ \A y \in S : x <= y

-----------------------------------------------------------------------------
(* The user.                                                               *)

\* An edit that no re-reading can come to see any more is left out.
EditConfig(version) ==
    /\ file # version
    /\ hups < MaxHups \/ sighupReceived \/ pc = "reread"
    /\ file' = version
    /\ UNCHANGED <<serverVars, clientVars, sigintReceived, hups, backlog,
                   toClient, toServer>>

\* The handler runs at once; only a server blocked in select notices.
Interrupt == pc' = IF pc = "select" THEN "interrupted" ELSE pc

SendSigint ==
    /\ ~sigintReceived
    /\ sigintReceived' = TRUE
    /\ Interrupt
    /\ UNCHANGED <<sighupReceived, config, chain, ready, current, logged,
                   finalKillCount, clientVars, hups, file, backlog, toClient,
                   toServer>>

SendSighup ==
    /\ hups < MaxHups
    /\ hups' = hups + 1
    /\ sighupReceived' = TRUE
    /\ Interrupt
    /\ UNCHANGED <<config, chain, ready, current, logged, finalKillCount,
                   clientVars, sigintReceived, file, backlog, toClient,
                   toServer>>

-----------------------------------------------------------------------------
(* A client.                                                               *)

\* connect succeeds as soon as the kernel has queued the connection.
Connect(c) ==
    /\ phase[c] = "off"
    /\ Listening
    /\ phase' = [phase EXCEPT ![c] = "connecting"]
    /\ backlog' = Append(backlog, c)
    /\ UNCHANGED <<serverVars, userVars, inForce, owed, sent, killCount,
                   toClient, toServer>>

\* readConfig, then readMessageFromServer: the callback it ends in may log.
ClientReads(c) ==
    /\ phase[c] \in {"connecting", "running"}
    /\ owed[c] = 0
    /\ toClient[c] # <<>>
    /\ toClient' = [toClient EXCEPT ![c] = Tail(@)]
    /\ \E entries \in 0 .. (MaxLogs - sent[c]) : owed' = [owed EXCEPT ![c] = entries]
    /\ LET message == Head(toClient[c]) IN
         IF message.type = "INT"
         THEN /\ phase' = [phase EXCEPT ![c] = "stopping"]
              /\ UNCHANGED inForce
         ELSE /\ phase' = [phase EXCEPT ![c] = "running"]
              /\ inForce' = [inForce EXCEPT ![c] = message.config]
    /\ UNCHANGED <<serverVars, userVars, sent, killCount, backlog, toServer>>

\* timeoutCallback, or the status of a child: there is something to log.
ClientWakes(c) ==
    /\ phase[c] = "running"
    /\ owed[c] = 0
    /\ sent[c] < MaxLogs
    /\ owed' = [owed EXCEPT ![c] = 1]
    /\ UNCHANGED <<serverVars, userVars, phase, inForce, sent, killCount,
                   backlog, toClient, toServer>>

\* saveLogReport: the write blocks while the buffers are full.
ClientLogs(c) ==
    /\ phase[c] \in {"running", "stopping"}
    /\ owed[c] > 0
    /\ Len(toServer[c]) < BufferCap
    /\ ~Over
    /\ owed' = [owed EXCEPT ![c] = @ - 1]
    /\ sent' = [sent EXCEPT ![c] = @ + 1]
    /\ \E kills \in {0, 1} : killCount' = [killCount EXCEPT ![c] = @ + kills]
    /\ toServer' = [toServer EXCEPT ![c] =
           Append(@, [type |-> "LOG_MESSAGE", count |-> 0])]
    /\ UNCHANGED <<serverVars, userVars, phase, inForce, backlog, toClient>>

\* logFinalReport, then close.
ClientAcks(c) ==
    /\ phase[c] = "stopping"
    /\ owed[c] = 0
    /\ Len(toServer[c]) < BufferCap
    /\ ~Over
    /\ phase' = [phase EXCEPT ![c] = "done"]
    /\ toServer' = [toServer EXCEPT ![c] =
           Append(@, [type |-> "INT_ACK", count |-> killCount[c]])]
    /\ UNCHANGED <<serverVars, userVars, inForce, owed, sent, killCount,
                   backlog, toClient>>

\* Its connection is gone: a queued one is reset when the master socket is
\* closed, an accepted one when the server's process has ended.
Disconnected(c) ==
    \/ Over
    \/ ~Listening /\ c \in {backlog[i] : i \in 1 .. Len(backlog)}

\* A write is a SIGPIPE and a reset read an exit, but a read that meets a
\* regular end of the stream is repeated by readData for ever.
ClientLosesServer(c) ==
    /\ phase[c] \in {"connecting", "running", "stopping"}
    /\ Disconnected(c)
    /\ \/ phase' = [phase EXCEPT ![c] = "dead"]
       \/ /\ c \in Registered
          /\ phase[c] # "stopping"
          /\ owed[c] = 0 /\ toClient[c] = <<>> /\ toServer[c] = <<>>
          /\ phase' = [phase EXCEPT ![c] = "spinning"]
    /\ UNCHANGED <<serverVars, userVars, inForce, owed, sent, killCount,
                   backlog, toClient, toServer>>

\* SIGKILL from outside.
Crash(c) ==
    /\ MayCrash
    /\ phase[c] \in {"connecting", "running", "stopping"}
    /\ phase' = [phase EXCEPT ![c] = "dead"]
    /\ UNCHANGED <<serverVars, userVars, inForce, owed, sent, killCount,
                   backlog, toClient, toServer>>

-----------------------------------------------------------------------------
(* manageReads.                                                            *)

LoopVars == <<clientVars, userVars, sighupReceived, config, chain, current,
              logged, finalKillCount, backlog, toClient, toServer>>

\* while (!(*quit)): a signal that comes after the test finds no select.
LoopContinues ==
    /\ pc = "loop"
    /\ ~sigintReceived
    /\ pc' = "calling"
    /\ UNCHANGED <<LoopVars, ready>>

LoopQuits ==
    /\ pc = "loop"
    /\ sigintReceived
    /\ pc' = "teardown"
    /\ UNCHANGED <<LoopVars, ready>>

SelectCalled ==
    /\ pc = "calling"
    /\ pc' = "select"
    /\ UNCHANGED <<LoopVars, ready>>

\* A closed connection is readable, too: read returns 0.
Readable == {i \in 1 .. Len(chain) : \/ toServer[chain[i]] # <<>>
                                     \/ phase[chain[i]] = "dead"}
            \cup {fd \in {MasterFd} : backlog # <<>>}

SelectReturns ==
    /\ pc = "select"
    /\ Readable # {}
    /\ ready' = Readable
    /\ pc' = "dispatch"
    /\ UNCHANGED LoopVars

\* select returned -1: quit is looked at before pause.
InterruptedByInt ==
    /\ pc = "interrupted"
    /\ sigintReceived
    /\ pc' = "teardown"
    /\ UNCHANGED <<LoopVars, ready>>

\* sendPendingWrites: the flag is cleared before the file is read again.
InterruptedByHup ==
    /\ pc = "interrupted"
    /\ ~sigintReceived
    /\ sighupReceived
    /\ sighupReceived' = FALSE
    /\ pc' = "reread"
    /\ UNCHANGED <<clientVars, userVars, config, chain, ready, current, logged,
                   finalKillCount, backlog, toClient, toServer>>

EndDispatch ==
    /\ pc = "dispatch"
    /\ ready = {}
    /\ pc' = "loop"
    /\ UNCHANGED <<LoopVars, ready>>

-----------------------------------------------------------------------------
(* dataReceivedCallback.                                                   *)

\* registerNewClient: accept, addClient, FD_SET, sendConfig.
Register ==
    /\ pc = "dispatch"
    /\ MasterFd \in ready
    /\ ready' = ready \ {MasterFd}
    /\ backlog' = Tail(backlog)
    /\ chain' = Append(chain, Head(backlog))
    /\ toClient' = [toClient EXCEPT ![Head(backlog)] =
           Append(@, [type |-> "CONFIG", config |-> config])]
    /\ UNCHANGED <<pc, clientVars, userVars, sighupReceived, config, current,
                   logged, finalKillCount, toServer>>

\* logClientMessage
ReadLog(c) ==
    /\ toServer[c] # <<>>
    /\ Head(toServer[c]).type = "LOG_MESSAGE"
    /\ toServer' = [toServer EXCEPT ![c] = Tail(@)]
    /\ logged' = [logged EXCEPT ![c] = @ + 1]

\* The other branch, logUnexpectedClientMessageCode, cannot be reached: INT_ACK
\* answers an INT, and that is sent after the loop.
DispatchLog(i) ==
    /\ pc = "dispatch"
    /\ IsFirst(i, ready)
    /\ i # MasterFd
    /\ ReadLog(chain[i])
    /\ ready' = ready \ {i}
    /\ UNCHANGED <<pc, clientVars, userVars, sighupReceived, config, chain,
                   current, finalKillCount, backlog, toClient>>

\* readData at the end of a client's stream: read returns 0, total stays 0 and
\* the loop goes on.  Had the client left data unread, its end sent a reset
\* instead: read fails, exit(-1).
ReadsEndOfStream(c) ==
    /\ toServer[c] = <<>>
    /\ phase[c] = "dead"
    /\ pc' = IF toClient[c] = <<>> THEN "spinning" ELSE "aborted"

DispatchDead(i) ==
    /\ pc = "dispatch"
    /\ IsFirst(i, ready)
    /\ i # MasterFd
    /\ ReadsEndOfStream(chain[i])
    /\ UNCHANGED <<LoopVars, ready>>

-----------------------------------------------------------------------------
(* forEachClient, for SIGHUP and for SIGINT.                               *)

\* Faulty variants: the traversal starts behind the root; it does not advance.
BehindRoot         == 2
SameClient(i)      == i
rootClient         == 1
nextClient(i)      == i + 1

\* Faulty variant: the file is taken as it is, whether it could be read or not.
TakesAnyFile(contents) == FALSE

Unreadable(contents) == contents = NoFile

\* rereadConfig
Reread ==
    /\ pc = "reread"
    /\ IF Unreadable(file)
       THEN pc' = "aborted" /\ UNCHANGED <<config, current>>
       ELSE pc' = "sendHup" /\ config' = file /\ current' = rootClient
    /\ UNCHANGED <<clientVars, userVars, sighupReceived, chain, ready, logged,
                   finalKillCount, backlog, toClient, toServer>>

\* A message for the current client; it blocks while the buffers are full.
SendToCurrent(message) ==
    /\ current <= Len(chain)
    /\ Len(toClient[chain[current]]) < BufferCap
    /\ toClient' = [toClient EXCEPT ![chain[current]] = Append(@, message)]

sendHupMessage ==
    /\ pc = "sendHup"
    /\ SendToCurrent([type |-> "HUP", config |-> config])
    /\ current' = nextClient(current)
    /\ UNCHANGED <<pc, clientVars, userVars, sighupReceived, config, chain,
                   ready, logged, finalKillCount, backlog, toServer>>

EndSendHup ==
    /\ pc = "sendHup"
    /\ current > Len(chain)
    /\ pc' = "loop"
    /\ UNCHANGED <<LoopVars, ready>>

\* Writing to a client that is gone is a SIGPIPE, which is not handled.  The
\* first write after a regular end still succeeds, and so may later ones, until
\* the reset is back: a configuration takes several writes, an INT one.
BrokenPipe ==
    /\ \/ /\ pc = "dispatch"
          /\ MasterFd \in ready
          /\ phase[Head(backlog)] = "dead"
       \/ /\ pc \in {"sendHup", "sendInt"}
          /\ current <= Len(chain)
          /\ phase[chain[current]] = "dead"
          /\ pc = "sendInt" => toClient[chain[current]] # <<>>
    /\ pc' = "aborted"
    /\ UNCHANGED <<LoopVars, ready>>

\* close(masterSocket)
Teardown ==
    /\ pc = "teardown"
    /\ pc' = "sendInt"
    /\ current' = rootClient
    /\ UNCHANGED <<clientVars, userVars, sighupReceived, config, chain, ready,
                   logged, finalKillCount, backlog, toClient, toServer>>

\* sendSigintAndUpdateKillCount, up to its loop.
SendInt ==
    /\ pc = "sendInt"
    /\ SendToCurrent([type |-> "INT", config |-> NoFile])
    /\ pc' = "drain"
    /\ UNCHANGED <<clientVars, userVars, sighupReceived, config, chain, ready,
                   current, logged, finalKillCount, backlog, toServer>>

\* Its loop logs what the client had still to say,
DrainLog ==
    /\ pc = "drain"
    /\ ReadLog(chain[current])
    /\ UNCHANGED <<pc, clientVars, userVars, sighupReceived, config, chain,
                   ready, current, finalKillCount, backlog, toClient>>

\* Faulty variant: the first answer is taken for the count.
AnyAnswer(message) == TRUE

EndsDrain(message) == message.type = "INT_ACK"

\* and ends with the kill count.
DrainAck ==
    /\ pc = "drain"
    /\ LET c == chain[current] IN
         /\ toServer[c] # <<>>
         /\ EndsDrain(Head(toServer[c]))
         /\ toServer' = [toServer EXCEPT ![c] = Tail(@)]
         /\ finalKillCount' = [finalKillCount EXCEPT ![c] = Head(toServer[c]).count]
    /\ current' = nextClient(current)
    /\ pc' = "sendInt"
    /\ UNCHANGED <<clientVars, userVars, sighupReceived, config, chain, ready,
                   logged, backlog, toClient>>

DrainDead ==
    /\ pc = "drain"
    /\ ReadsEndOfStream(chain[current])
    /\ UNCHANGED <<LoopVars, ready>>

\* logFinalServerReport, destroyGlobals, and main returns.
Exit ==
    /\ pc = "sendInt"
    /\ current > Len(chain)
    /\ pc' = "exited"
    /\ UNCHANGED <<LoopVars, ready>>

-----------------------------------------------------------------------------
Init ==
    /\ pc = "loop"
    /\ sigintReceived = FALSE
    /\ sighupReceived = FALSE
    /\ hups = 0
    /\ file \in Versions
    /\ config = file
    /\ chain = <<>>
    /\ ready = {}
    /\ current = rootClient
    /\ logged = [c \in Clients |-> 0]
    /\ finalKillCount = [c \in Clients |-> 0]
    /\ backlog = <<>>
    /\ toClient = [c \in Clients |-> <<>>]
    /\ toServer = [c \in Clients |-> <<>>]
    /\ phase = [c \in Clients |-> "off"]
    /\ inForce = [c \in Clients |-> NoFile]
    /\ owed = [c \in Clients |-> 0]
    /\ sent = [c \in Clients |-> 0]
    /\ killCount = [c \in Clients |-> 0]

UserStep ==
    \/ \E version \in Versions \cup {NoFile} : EditConfig(version)
    \/ SendSigint
    \/ SendSighup
    \/ \E c \in Clients : Connect(c)
    \/ \E c \in Clients : Crash(c)

ServerStep ==
    \/ LoopContinues
    \/ LoopQuits
    \/ SelectCalled
    \/ SelectReturns
    \/ InterruptedByInt
    \/ InterruptedByHup
    \/ Register
    \/ \E i \in ready : DispatchLog(i)
    \/ \E i \in ready : DispatchDead(i)
    \/ EndDispatch
    \/ Reread
    \/ sendHupMessage
    \/ EndSendHup
    \/ BrokenPipe
    \/ Teardown
    \/ SendInt
    \/ DrainLog
    \/ DrainAck
    \/ DrainDead
    \/ Exit

\* What a client does when it is its turn.
ClientTurn(c) ==
    \/ ClientReads(c)
    \/ ClientLogs(c)
    \/ ClientAcks(c)
    \/ ClientLosesServer(c)

Next ==
    \/ UserStep
    \/ ServerStep
    \/ \E c \in Clients : ClientTurn(c)
    \/ \E c \in Clients : ClientWakes(c)

Spec == Init /\ [][Next]_vars

\* The scheduler runs the server and the clients; nothing is assumed of the
\* user, of the processes that give a client something to log, or of crashes.
Fairness ==
    /\ WF_vars(ServerStep)
    /\ \A c \in Clients : WF_vars(ClientTurn(c))

FairSpec == Spec /\ Fairness

-----------------------------------------------------------------------------
PcType == {"loop", "calling", "select", "interrupted", "reread", "sendHup",
           "dispatch", "teardown", "sendInt", "drain", "exited", "aborted",
           "spinning"}

PhaseType == {"off", "connecting", "running", "stopping", "done", "dead",
              "spinning"}

ServerMessage == [type : {"CONFIG", "HUP", "INT"}, config : Versions \cup {NoFile}]
ClientMessage == [type : {"LOG_MESSAGE", "INT_ACK"}, count : 0 .. MaxLogs]

\* The variables stay within the types the code gives them.
TypeOK ==
    /\ pc \in PcType
    /\ sigintReceived \in BOOLEAN
    /\ sighupReceived \in BOOLEAN
    /\ hups \in 0 .. MaxHups
    /\ file \in Versions \cup {NoFile}
    /\ config \in Versions
    /\ chain \in Seq(Clients)
    /\ ready \in SUBSET (0 .. Len(chain))
    /\ current \in Nat \ {0}
    /\ logged \in [Clients -> 0 .. MaxLogs]
    /\ finalKillCount \in [Clients -> 0 .. MaxLogs]
    /\ backlog \in Seq(Clients)
    /\ toClient \in [Clients -> Seq(ServerMessage)]
    /\ toServer \in [Clients -> Seq(ClientMessage)]
    /\ phase \in [Clients -> PhaseType]
    /\ inForce \in [Clients -> Versions \cup {NoFile}]
    /\ owed \in [Clients -> 0 .. MaxLogs]
    /\ sent \in [Clients -> 0 .. MaxLogs]
    /\ killCount \in [Clients -> 0 .. MaxLogs]

\* The configuration a client will work with once it has read everything.
Latest(c) ==
    LET carriers == {i \in 1 .. Len(toClient[c]) : toClient[c][i].type # "INT"}
    IN  IF carriers = {}
        THEN inForce[c]
        ELSE toClient[c][CHOOSE i \in carriers : \A j \in carriers : j <= i].config

\* No client is left with another configuration than the server's, however its
\* registration and the SIGHUPs interleave; only those the running traversal
\* has not come to yet are behind.
ConfigDistributed ==
    \A i \in 1 .. Len(chain) :
        \/ Latest(chain[i]) = config
        \/ pc \in {"sendHup", "aborted"} /\ i >= current

\* A server that exits cleanly has logged every entry of every client it ever
\* accepted and reports the kills each of them counted; none is left behind.
ReportComplete ==
    pc = "exited" => \A c \in Registered :
        /\ phase[c] = "done"
        /\ logged[c] = sent[c]
        /\ finalKillCount[c] = killCount[c]

SomeoneDied == \E c \in Clients : phase[c] = "dead"

\* Once it has begun, the shutdown comes to its end, unless a client dies.
TeardownEnds == pc = "teardown" ~> (pc = "exited" \/ SomeoneDied)


\* A client told to stop, or turned away, does not stay behind.
ClientsEnd ==
    pc = "exited" ~> \A c \in Clients : phase[c] \in {"off", "done", "dead"}

-----------------------------------------------------------------------------
\* SIGINT stops the server.  It fails when the signal comes between the test
\* of the loop and select: nothing wakes the server up any more.
SigintStops == sigintReceived ~> (Over \/ SomeoneDied)

\* SIGHUP makes the server send the configuration.  It fails when the signal
\* comes while the server is anywhere but in select: the flag is set, but only
\* an interrupted select looks at it.
SighupIsServed == sighupReceived ~> (~sighupReceived \/ sigintReceived \/ Over)

\* The server goes on logging what its clients send.  It fails when some other
\* client dies: readData repeats a read that returns 0.
EventsAreLogged ==
    \A c \in Clients :
        (toServer[c] # <<>>) ~> (toServer[c] = <<>> \/ phase[c] = "dead" \/ Over)
=============================================================================
