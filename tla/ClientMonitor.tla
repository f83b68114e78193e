--------------------------- MODULE ClientMonitor ---------------------------
(***************************************************************************)
(* One node of the system: procnanny.client (client/ProcessManager.c and   *)
(* client/RegisterEntry.c), the children it forks, one per process being   *)
(* monitored, the pipes between them, and the processes of the user.       *)
(*                                                                         *)
(* The parent is single-threaded: it blocks in select, then runs one       *)
(* callback to its end, so its control state is pc.  A callback is still   *)
(* cut into the steps that other processes can observe or slip between:    *)
(* the ps snapshot, each process of the snapshot, each read of a pipe.     *)
(* A child sleeps, kills, reports and waits for its next target.           *)
(*                                                                         *)
(* Time is kept as differences: a register entry carries the seconds since *)
(* its startingTime, a sleeping child the seconds it has left.             *)
(***************************************************************************)
EXTENDS Integers, Sequences, FiniteSets

CONSTANTS
    Pids,         \* the process identifiers of the user's processes
    Names,        \* the values of the COMMAND column of ps
    Configs,      \* the configurations the server may send
    MaxChildren,  \* pipes the descriptor limit leaves room for
    AgeCap,       \* bound: ages are not told apart from this one on
    MaxSpawns,    \* bound: processes ever started by the user
    MaxInbox,     \* bound: unread server messages
    PidReuse,     \* the kernel gives a reaped pid to a new process
    MayCrash      \* the parent may be killed from outside, and fork(2) fail early

Children == 1 .. MaxChildren
ServerFd == 0     \* the socket is opened before any pipe: the lowest fd
NoPid    == 0     \* (pid_t)0 of constuctorRegisterEntry
NoName   == ""

Request == [processName : Names, monitorDuration : 0 .. (AgeCap - 1)]

ASSUME PidsAssumption     == Pids \subseteq Nat \ {NoPid}
ASSUME NamesAssumption    == NoName \notin Names
ASSUME ConfigsAssumption  == Configs \subseteq Seq(Request)
ASSUME BoundsAssumption   == /\ MaxChildren \in Nat
                             /\ AgeCap \in Nat \ {0}
                             /\ MaxSpawns \in Nat
                             /\ MaxInbox \in Nat
ASSUME SwitchesAssumption == PidReuse \in BOOLEAN /\ MayCrash \in BOOLEAN

VARIABLES
    os,               \* os[p]: the process that has pid p
    spawns,           \* processes started so far
    serverPhase,      \* what the server has done: "accept", "serve", "quit"
    inbox,            \* its messages, sent and not yet read
    monitorRequests,  \* the configuration in force
    sigintReceived,
    killCount,
    pc,               \* where the parent is
    next,             \* i of refreshMonitoring
    found,            \* runningProcesses still to be looked at
    ready,            \* descriptors select returned, not yet dispatched
    overdue,          \* entries refreshRegisterEntries still has to read
    numForked,        \* length of the register: entries 1 .. numForked
    register,         \* register[c]: the entry of child c
    child,            \* child[c]: the forked process itself
    toChild,          \* writeToChildFD of c: messages in the pipe
    fromChild,        \* readFromChildFD of c: status codes in the pipe
    kills             \* history: kill(2) calls of children that returned 0

envVars    == <<spawns, serverPhase>>
parentVars == <<monitorRequests, sigintReceived, killCount, pc, next, found,
                ready, overdue, numForked>>
childVars  == <<child, kills>>
vars == <<os, inbox, register, toChild, fromChild, envVars, parentVars,
          childVars>>

IsFirst(x, S) == x \in S /\ \A y \in S : x <= y

Bounded(n) == IF n < AgeCap THEN n + 1 ELSE n

Registered == 1 .. numForked
Busy(c)    == c \in Registered /\ ~register[c].isAvailable

-----------------------------------------------------------------------------
(* The user's processes.                                                   *)

ProcessState == {"free", "running", "zombie", "gone"}

Process(state, name) == [state |-> state, name |-> name, age |-> 0]

Spawn(p, name) ==
    /\ spawns < MaxSpawns
    /\ os[p].state = "free"
    /\ os' = [os EXCEPT ![p] = Process("running", name)]
    /\ spawns' = spawns + 1
    /\ UNCHANGED <<serverPhase, inbox, register, toChild, fromChild,
                   parentVars, childVars>>

\* A process that ends stays a zombie, whose pid still exists, until its own
\* parent has waited for it.
Exit(p) ==
    /\ os[p].state = "running"
    /\ os' = [os EXCEPT ![p] = Process("zombie", NoName)]
    /\ UNCHANGED <<inbox, register, toChild, fromChild, envVars, parentVars,
                   childVars>>

Reap(p) ==
    /\ os[p].state = "zombie"
    /\ os' = [os EXCEPT ![p] = Process(IF PidReuse THEN "free" ELSE "gone", NoName)]
    /\ UNCHANGED <<inbox, register, toChild, fromChild, envVars, parentVars,
                   childVars>>

Tick ==
    /\ os' = [p \in Pids |-> IF os[p].state = "running"
                             THEN [os[p] EXCEPT !.age = Bounded(@)]
                             ELSE os[p]]
    /\ register' = [c \in Children |-> IF Busy(c)
                                       THEN [register[c] EXCEPT !.age = Bounded(@)]
                                       ELSE register[c]]
    /\ child' = [c \in Children |-> IF child[c].left > 0
                                    THEN [child[c] EXCEPT !.left = @ - 1]
                                    ELSE child[c]]
    /\ UNCHANGED <<inbox, toChild, fromChild, envVars, parentVars, kills>>

-----------------------------------------------------------------------------
(* The server, as one client sees it: the configuration on accept, a new   *)
(* one at each SIGHUP, and INT last.                                       *)

Message == [type : {"CONFIG", "HUP", "INT"}, config : Configs \cup {<<>>}]

Deliver(message) ==
    /\ Len(inbox) < MaxInbox
    /\ inbox' = Append(inbox, message)
    /\ UNCHANGED <<os, spawns, register, toChild, fromChild, parentVars,
                   childVars>>

ServerSendsConfig(config) ==
    /\ serverPhase = "accept"
    /\ serverPhase' = "serve"
    /\ Deliver([type |-> "CONFIG", config |-> config])

ServerSendsHup(config) ==
    /\ serverPhase = "serve"
    /\ UNCHANGED serverPhase
    /\ Deliver([type |-> "HUP", config |-> config])

ServerSendsInt ==
    /\ serverPhase = "serve"
    /\ serverPhase' = "quit"
    /\ Deliver([type |-> "INT", config |-> <<>>])

-----------------------------------------------------------------------------
(* The parent.                                                             *)

NoEntry == [monitoredProcess |-> NoPid, monitoredName |-> NoName,
            monitorDuration |-> 0, age |-> 0, isAvailable |-> FALSE]

NewEntry(p, request) ==
    [monitoredProcess |-> p, monitoredName |-> request.processName,
     monitorDuration |-> request.monitorDuration, age |-> 0,
     isAvailable |-> FALSE]

\* Faulty variants: the search starts behind the head; it compares commands.
SkipsHead(p)    == \E c \in Registered \ {1} : register[c].monitoredProcess = p
ComparesName(p) == \E c \in Registered : register[c].monitoredName = os[p].name

isProcessAlreadyBeingMonitored(p) ==
    \E c \in Registered : register[c].monitoredProcess = p

\* Faulty variant: the first child of the register, available or not.
AnyChild == Registered

\* The candidates of getFirstFreeChild.
FreeChildren == {c \in Registered : register[c].isAvailable}

\* Faulty variants: the message is built before the entry is updated; its
\* duration is left unset.
StaleMessage(c, p, request) ==
    [targetPid |-> register[c].monitoredProcess,
     duration |-> request.monitorDuration]
UntimedMessage(c, p, request) == [targetPid |-> p, duration |-> 0]

JobMessage(c, p, request) ==
    [targetPid |-> p, duration |-> request.monitorDuration]

\* readConfig at the head of monitor(), then refreshMonitoring(false).
ReadConfig ==
    /\ pc = "readConfig"
    /\ inbox # <<>>
    /\ monitorRequests' = Head(inbox).config
    /\ inbox' = Tail(inbox)
    /\ next' = 1
    /\ pc' = "refresh"
    /\ UNCHANGED <<os, register, toChild, fromChild, envVars, childVars,
                   sigintReceived, killCount, found, ready, overdue,
                   numForked>>

\* The pids that ps shows with exactly this command.  A zombie is shown as
\* "<defunct>" and is not matched.
Matching(name) ==
    {p \in Pids : os[p].state = "running" /\ os[p].name = name}

\* What searchRunningProcesses makes of it.  It takes two lines for internal; if
\* grep was too late for its own, a single match is taken for none.
Shown(name) ==
    {Matching(name)} \cup (IF Cardinality(Matching(name)) = 1 THEN {{}} ELSE {})

SearchProcesses ==
    /\ pc = "refresh"
    /\ next <= Len(monitorRequests)
    /\ found' \in Shown(monitorRequests[next].processName)
    /\ pc' = "setup"
    /\ UNCHANGED <<os, inbox, register, toChild, fromChild, envVars, childVars,
                   monitorRequests, sigintReceived, killCount, next, ready,
                   overdue, numForked>>

\* popen, pclose or an allocation fails: exit(-1), as in ForkFails.
SearchFails ==
    /\ pc = "refresh"
    /\ next <= Len(monitorRequests)
    /\ pc' = "aborted"
    /\ UNCHANGED <<os, inbox, register, toChild, fromChild, envVars, childVars,
                   monitorRequests, sigintReceived, killCount, next, found,
                   ready, overdue, numForked>>

EndRefresh ==
    /\ pc = "refresh"
    /\ next > Len(monitorRequests)
    /\ pc' = "dispatch"
    /\ UNCHANGED <<os, inbox, register, toChild, fromChild, envVars, childVars,
                   monitorRequests, sigintReceived, killCount, next, found,
                   ready, overdue, numForked>>

\* The loop of setupMonitoring, which takes the processes in the order of ps.
SetupVars == <<os, inbox, fromChild, envVars, kills, monitorRequests,
               sigintReceived, killCount, ready, overdue>>

EndSetup ==
    /\ pc = "setup"
    /\ found = {}
    /\ next' = next + 1
    /\ pc' = "refresh"
    /\ UNCHANGED <<SetupVars, register, toChild, child, found, numForked>>

SkipMonitored(p) ==
    /\ pc = "setup"
    /\ IsFirst(p, found)
    /\ isProcessAlreadyBeingMonitored(p)
    /\ found' = found \ {p}
    /\ UNCHANGED <<SetupVars, register, toChild, child, pc, next, numForked>>

ReuseChild(p, c) ==
    /\ pc = "setup"
    /\ IsFirst(p, found)
    /\ ~isProcessAlreadyBeingMonitored(p)
    /\ IsFirst(c, FreeChildren)
    /\ register' = [register EXCEPT ![c] = NewEntry(p, monitorRequests[next])]
    /\ toChild' = [toChild EXCEPT ![c] =
           Append(@, JobMessage(c, p, monitorRequests[next]))]
    /\ found' = found \ {p}
    /\ UNCHANGED <<SetupVars, child, pc, next, numForked>>

ForkChild(p, c) ==
    /\ pc = "setup"
    /\ IsFirst(p, found)
    /\ ~isProcessAlreadyBeingMonitored(p)
    /\ FreeChildren = {}
    /\ c = numForked + 1
    /\ numForked' = c
    /\ register' = [register EXCEPT ![c] = NewEntry(p, monitorRequests[next])]
    /\ child' = [child EXCEPT ![c] =
           [state |-> "sleeping", target |-> p, status |-> "none",
            left |-> monitorRequests[next].monitorDuration]]
    /\ found' = found \ {p}
    /\ UNCHANGED <<SetupVars, toChild, pc, next>>

\* pipe(2) or fork(2) fails, at the limit or before it: exit(-1), and the
\* children live on.
ForkFails(p) ==
    /\ pc = "setup"
    /\ IsFirst(p, found)
    /\ ~isProcessAlreadyBeingMonitored(p)
    /\ FreeChildren = {}
    /\ numForked = MaxChildren \/ MayCrash
    /\ pc' = "aborted"
    /\ UNCHANGED <<SetupVars, register, toChild, child, next, found, numForked>>

\* Faulty variant: every descriptor in use, not the set select has reduced.
ActiveFds == Registered \cup {fd \in {ServerFd} : inbox # <<>>}

\* select in manageReads returns the descriptors with something to read.
Readable == {c \in Registered : fromChild[c] # <<>>}
            \cup {fd \in {ServerFd} : inbox # <<>>}

SelectReturns ==
    /\ pc = "select"
    /\ Readable # {}
    /\ ready' = Readable
    /\ pc' = "dispatch"
    /\ UNCHANGED <<os, inbox, register, toChild, fromChild, envVars, childVars,
                   monitorRequests, sigintReceived, killCount, next, found,
                   overdue, numForked>>

\* REFRESH_RATE seconds without anything to read: timeoutCallback.
SelectTimesOut ==
    /\ pc = "select"
    /\ Readable = {}
    /\ next' = 1
    /\ pc' = "refresh"
    /\ UNCHANGED <<os, inbox, register, toChild, fromChild, envVars, childVars,
                   monitorRequests, sigintReceived, killCount, found, ready,
                   overdue, numForked>>

\* readMessageFromServer
DispatchServer ==
    /\ pc = "dispatch"
    /\ ServerFd \in ready
    /\ inbox # <<>>
    /\ ready' = ready \ {ServerFd}
    /\ inbox' = Tail(inbox)
    /\ \/ /\ Head(inbox).type = "HUP"
          /\ monitorRequests' = Head(inbox).config
          /\ next' = 1
          /\ pc' = "refresh"
          /\ UNCHANGED sigintReceived
       \/ /\ Head(inbox).type = "INT"
          /\ sigintReceived' = TRUE
          /\ UNCHANGED <<monitorRequests, next, pc>>
    /\ UNCHANGED <<os, register, toChild, fromChild, envVars, childVars,
                   killCount, found, overdue, numForked>>

\* Faulty variants: a process that died on its own is counted as well; a
\* failure is subtracted.
CountsDied(status)     == 1
SubtractsDied(status)  == IF status = "KILLED" THEN 1 ELSE -1

KillIncrement(status) == IF status = "KILLED" THEN 1 ELSE 0

\* didChildKill: blocks until there is a status to read.
DidChildKill(c) ==
    /\ fromChild[c] # <<>>
    /\ fromChild' = [fromChild EXCEPT ![c] = Tail(@)]
    /\ register' = [register EXCEPT ![c].isAvailable = TRUE]
    /\ killCount' = killCount + KillIncrement(Head(fromChild[c]))

\* dataReceivedCallback; descriptors are served in ascending order.
DispatchChild(c) ==
    /\ pc = "dispatch"
    /\ IsFirst(c, ready)
    /\ c # ServerFd
    /\ DidChildKill(c)
    /\ ready' = ready \ {c}
    /\ UNCHANGED <<os, inbox, toChild, envVars, childVars, monitorRequests,
                   sigintReceived, pc, next, found, overdue, numForked>>

\* The loop condition of manageReads: while (!(*quit)).
LoopAgain ==
    /\ pc = "dispatch"
    /\ ready = {}
    /\ ~sigintReceived
    /\ pc' = "select"
    /\ UNCHANGED <<os, inbox, register, toChild, fromChild, envVars, childVars,
                   monitorRequests, sigintReceived, killCount, next, found,
                   ready, overdue, numForked>>

\* Faulty variant: free children are waited for, too.
OverdueOrFree ==
    {c \in Registered : register[c].age > register[c].monitorDuration}

Overdue ==
    {c \in Registered : Busy(c) /\ register[c].age > register[c].monitorDuration}

\* refreshRegisterEntries reads the time once, before its loop, and then
\* reads the pipe of every busy entry that has exceeded its duration.
LoopQuits ==
    /\ pc = "dispatch"
    /\ ready = {}
    /\ sigintReceived
    /\ overdue' = Overdue
    /\ pc' = "reap"
    /\ UNCHANGED <<os, inbox, register, toChild, fromChild, envVars, childVars,
                   monitorRequests, sigintReceived, killCount, next, found,
                   ready, numForked>>

ReadOverdue(c) ==
    /\ pc = "reap"
    /\ IsFirst(c, overdue)
    /\ DidChildKill(c)
    /\ overdue' = overdue \ {c}
    /\ UNCHANGED <<os, inbox, toChild, envVars, childVars, monitorRequests,
                   sigintReceived, pc, next, found, ready, numForked>>

EndReap ==
    /\ pc = "reap"
    /\ overdue = {}
    /\ pc' = "killAll"
    /\ UNCHANGED <<os, inbox, register, toChild, fromChild, envVars, childVars,
                   monitorRequests, sigintReceived, killCount, next, found,
                   ready, overdue, numForked>>

Alive == {c \in Registered : child[c].state # "dead"}

\* killAllChildren: both pipe ends closed, then SIGKILL.
KillChild(c) ==
    /\ pc = "killAll"
    /\ IsFirst(c, Alive)
    /\ child' = [child EXCEPT ![c].state = "dead"]
    /\ UNCHANGED <<os, inbox, register, toChild, fromChild, envVars, kills,
                   parentVars>>

\* logFinalReport(killCount), then main returns.
FinalReport ==
    /\ pc = "killAll"
    /\ Alive = {}
    /\ pc' = "exited"
    /\ UNCHANGED <<os, inbox, register, toChild, fromChild, envVars, childVars,
                   monitorRequests, sigintReceived, killCount, next, found,
                   ready, overdue, numForked>>

\* SIGKILL from outside, at any point.
Crash ==
    /\ MayCrash
    /\ pc \notin {"exited", "aborted"}
    /\ pc' = "aborted"
    /\ UNCHANGED <<os, inbox, register, toChild, fromChild, envVars, childVars,
                   monitorRequests, sigintReceived, killCount, next, found,
                   ready, overdue, numForked>>

-----------------------------------------------------------------------------
(* A child: the loop of setupMonitoring's CHILD case.                      *)

\* Faulty variant: a child does not close its copies of the parent's ends.
EndsHeldBySelf(c) ==
    \/ pc \notin {"exited", "aborted"}
    \/ \E d \in Registered : d >= c /\ child[d].state # "dead"

\* The parent's ends of the pipes of c are inherited by every child forked
\* after c, so they outlive the parent in those children.
EndsHeld(c) ==
    \/ pc \notin {"exited", "aborted"}
    \/ \E d \in Registered : d > c /\ child[d].state # "dead"

\* childMain: sleep(duration) has elapsed, then kill(pid, SIGKILL).
ChildKills(c) ==
    /\ child[c].state = "sleeping"
    /\ child[c].left = 0
    /\ IF os[child[c].target].state \in {"running", "zombie"}
       THEN /\ os' = [os EXCEPT ![child[c].target] = Process("zombie", NoName)]
            /\ child' = [child EXCEPT ![c].state = "reporting",
                                      ![c].status = "KILLED"]
            /\ kills' = kills + 1
       ELSE /\ child' = [child EXCEPT ![c].state = "reporting",
                                      ![c].status = "DIED"]
            /\ UNCHANGED <<os, kills>>
    /\ UNCHANGED <<inbox, register, toChild, fromChild, envVars, parentVars>>

\* write(writingToParent); with no reader left it is a SIGPIPE.
ChildReports(c) ==
    /\ child[c].state = "reporting"
    /\ IF EndsHeld(c)
       THEN /\ fromChild' = [fromChild EXCEPT ![c] = Append(@, child[c].status)]
            /\ child' = [child EXCEPT ![c].state = "waiting"]
       ELSE /\ child' = [child EXCEPT ![c].state = "dead"]
            /\ UNCHANGED fromChild
    /\ UNCHANGED <<os, inbox, register, toChild, envVars, parentVars, kills>>

\* read(readingFromParent)
ChildTakes(c) ==
    /\ child[c].state = "waiting"
    /\ toChild[c] # <<>>
    /\ toChild' = [toChild EXCEPT ![c] = Tail(@)]
    /\ child' = [child EXCEPT ![c] =
           [state |-> "sleeping", target |-> Head(toChild[c]).targetPid,
            status |-> "none", left |-> Head(toChild[c]).duration]]
    /\ UNCHANGED <<os, inbox, register, fromChild, envVars, parentVars, kills>>

\* read returns 0 and the assert on its size aborts the child.
ChildSeesEof(c) ==
    /\ child[c].state = "waiting"
    /\ toChild[c] = <<>>
    /\ ~EndsHeld(c)
    /\ child' = [child EXCEPT ![c].state = "dead"]
    /\ UNCHANGED <<os, inbox, register, toChild, fromChild, envVars,
                   parentVars, kills>>

-----------------------------------------------------------------------------
NoChild == [state |-> "none", target |-> NoPid, status |-> "none", left |-> 0]

Init ==
    /\ os = [p \in Pids |-> Process("free", NoName)]
    /\ spawns = 0
    /\ serverPhase = "accept"
    /\ inbox = <<>>
    /\ monitorRequests = <<>>
    /\ sigintReceived = FALSE
    /\ killCount = 0
    /\ pc = "readConfig"
    /\ next = 1
    /\ found = {}
    /\ ready = {}
    /\ overdue = {}
    /\ numForked = 0
    /\ register = [c \in Children |-> NoEntry]
    /\ child = [c \in Children |-> NoChild]
    /\ toChild = [c \in Children |-> <<>>]
    /\ fromChild = [c \in Children |-> <<>>]
    /\ kills = 0

EnvStep ==
    \/ \E p \in Pids, name \in Names : Spawn(p, name)
    \/ \E p \in Pids : Exit(p)
    \/ \E p \in Pids : Reap(p)
    \/ \E config \in Configs : ServerSendsConfig(config)
    \/ \E config \in Configs : ServerSendsHup(config)
    \/ ServerSendsInt

ParentStep ==
    \/ ReadConfig
    \/ SearchProcesses
    \/ SearchFails
    \/ EndRefresh
    \/ EndSetup
    \/ \E p \in Pids : SkipMonitored(p)
    \/ \E p \in Pids, c \in Children : ReuseChild(p, c)
    \/ \E p \in Pids, c \in Children : ForkChild(p, c)
    \/ \E p \in Pids : ForkFails(p)
    \/ SelectReturns
    \/ SelectTimesOut
    \/ DispatchServer
    \/ \E c \in Children : DispatchChild(c)
    \/ LoopAgain
    \/ LoopQuits
    \/ \E c \in Children : ReadOverdue(c)
    \/ EndReap
    \/ \E c \in Children : KillChild(c)
    \/ FinalReport

ChildStep(c) ==
    \/ ChildKills(c)
    \/ ChildReports(c)
    \/ ChildTakes(c)
    \/ ChildSeesEof(c)

Next ==
    \/ EnvStep
    \/ Tick
    \/ ParentStep
    \/ Crash
    \/ \E c \in Children : ChildStep(c)

Spec == Init /\ [][Next]_vars

\* A search for this name that has seen all there is to see.
SearchSees(name) ==
    /\ SearchProcesses
    /\ monitorRequests[next].processName = name
    /\ found' = Matching(name)

\* Time passes, and the scheduler runs the parent and every child that is
\* not blocked.  grep and ps race anew in every search, and grep is not too late
\* in all of them.  Nothing is assumed of the user, the server or a crash.
Fairness ==
    /\ WF_vars(Tick)
    /\ WF_vars(ParentStep)
    /\ \A name \in Names : SF_vars(SearchSees(name))
    /\ \A c \in Children : WF_vars(ChildStep(c))

FairSpec == Spec /\ Fairness
-----------------------------------------------------------------------------
EntryType == [monitoredProcess : Pids \cup {NoPid},
              monitoredName : Names \cup {NoName},
              monitorDuration : 0 .. (AgeCap - 1),
              age : 0 .. AgeCap,
              isAvailable : BOOLEAN]

ChildType == [state : {"none", "sleeping", "reporting", "waiting", "dead"},
              target : Pids \cup {NoPid},
              status : {"none", "KILLED", "DIED"},
              left : 0 .. (AgeCap - 1)]

MonitorMessage == [targetPid : Pids, duration : 0 .. (AgeCap - 1)]

PcType == {"readConfig", "refresh", "setup", "select", "dispatch", "reap",
           "killAll", "exited", "aborted"}

\* The variables stay within the types the code gives them.
TypeOK ==
    /\ os \in [Pids -> [state : ProcessState, name : Names \cup {NoName},
                        age : 0 .. AgeCap]]
    /\ spawns \in 0 .. MaxSpawns
    /\ serverPhase \in {"accept", "serve", "quit"}
    /\ inbox \in Seq(Message)
    /\ monitorRequests \in Seq(Request)
    /\ sigintReceived \in BOOLEAN
    /\ killCount \in Nat
    /\ pc \in PcType
    /\ next \in Nat \ {0}
    /\ found \in SUBSET Pids
    /\ ready \in SUBSET ({ServerFd} \cup Registered)
    /\ overdue \in SUBSET Registered
    /\ numForked \in 0 .. MaxChildren
    /\ register \in [Children -> EntryType]
    /\ child \in [Children -> ChildType]
    /\ toChild \in [Children -> Seq(MonitorMessage)]
    /\ fromChild \in [Children -> Seq({"KILLED", "DIED"})]
    /\ kills \in Nat

\* isProcessAlreadyBeingMonitored does its job across every refresh, reuse of
\* a free child and fork: no process has two entries, so no two children ever
\* sleep on the same pid.
OneEntryPerProcess ==
    \A c, d \in Registered :
        register[c].monitoredProcess = register[d].monitoredProcess => c = d

\* The parent is alive and has not begun killAllChildren.
Managing == pc \notin {"killAll", "exited", "aborted"}

Idle(c) ==
    child[c].state = "waiting" /\ toChild[c] = <<>> /\ fromChild[c] = <<>>

Handed(c) ==
    /\ child[c].state = "waiting" /\ fromChild[c] = <<>>
    /\ toChild[c] = <<[targetPid |-> register[c].monitoredProcess,
                       duration  |-> register[c].monitorDuration]>>

Working(c) ==
    /\ child[c].state \in {"sleeping", "reporting"}
    /\ child[c].target = register[c].monitoredProcess
    /\ toChild[c] = <<>> /\ fromChild[c] = <<>>

Answered(c) ==
    child[c].state = "waiting" /\ toChild[c] = <<>> /\ Len(fromChild[c]) = 1

Agrees(c) ==
    IF register[c].isAvailable
    THEN Idle(c)
    ELSE Handed(c) \/ Working(c) \/ Answered(c)

\* The register and the children agree: a child is free exactly when it has
\* nothing to do, and a busy one has exactly one job, which is the one its
\* entry describes, in one of its three stages.
RegisterAgrees == Managing => \A c \in Registered : Agrees(c)

\* A callback is never entered for a descriptor with nothing to read: the
\* descriptors of one select are still readable when their turn comes, though
\* a HUP served first may have reused and forked children.
ReadyIsReadable ==
    /\ Managing => \A c \in ready \ {ServerFd} : Answered(c)
    /\ ServerFd \in ready => inbox # <<>>

\* Every kill is counted once: those not in killCount yet are the statuses
\* still in a child or in its pipe.
Unreported ==
    {c \in Registered : \/ child[c].state = "reporting" /\ child[c].status = "KILLED"
                        \/ fromChild[c] # <<>> /\ Head(fromChild[c]) = "KILLED"}

KillsCountedOnce ==
    Managing => kills = killCount + Cardinality(Unreported)

-----------------------------------------------------------------------------
ChildHits(c) == child[c].state = "sleeping" /\ child'[c].status = "KILLED"

\* A child only ever kills a process that carries the name its entry was made
\* for and that has run for the entry's whole duration.  It fails when the
\* kernel gives the pid to another process meanwhile.
KillsOnlyOverdue ==
    [][\A c \in Children : ChildHits(c) =>
          LET victim == os[child[c].target] IN
             victim.state = "running" =>
                /\ victim.name = register[c].monitoredName
                /\ victim.age >= register[c].monitorDuration]_vars

\* A new configuration leaves what is being monitored alone: while an entry is
\* busy, neither its process, its name nor its duration changes, and the sleep
\* of its child is never prolonged.
OldConfigKept ==
    [][\A c \in Registered :
          (Busy(c) /\ Busy(c)') =>
             /\ register'[c].monitoredProcess = register[c].monitoredProcess
             /\ register'[c].monitoredName = register[c].monitoredName
             /\ register'[c].monitorDuration = register[c].monitorDuration
             /\ child[c].state = "sleeping" => child'[c].left <= child[c].left]_vars

\* The outcome of the job of child c, once it has one.
Outcome(c) ==
    IF fromChild[c] # <<>> THEN Head(fromChild[c])
    ELSE IF child[c].state = "reporting" THEN child[c].status
    ELSE "none"

\* The job that the entry, the child and the pipes of c amount to.
JobOf(c) == [pid |-> register[c].monitoredProcess,
             name |-> register[c].monitoredName,
             duration |-> register[c].monitorDuration,
             outcome |-> Outcome(c)]

\* Register, children, pipes and the parent's callbacks together are a table of
\* jobs: whatever is reused, forked, sent and read in which order, a process has
\* one job, the job gets one outcome, and the outcome is collected once.
Table == INSTANCE JobTable WITH
             jobs <- IF Managing THEN {JobOf(c) : c \in {d \in Registered : Busy(d)}}
                     ELSE {},
             count <- killCount,
             open <- Managing,
             Durations <- 0 .. (AgeCap - 1)
ImplementsJobTable == Table!Spec

Stopping == sigintReceived \/ pc \in {"exited", "aborted"}

Wanted(p) ==
    /\ os[p].state = "running"
    /\ \E i \in 1 .. Len(monitorRequests) : monitorRequests[i].processName = os[p].name

MonitoredBy(p, c) == Busy(c) /\ register[c].monitoredProcess = p

\* The kernel has given p anew, and a child that is free had it last.
TakenForOld(p) == \E c \in FreeChildren : register[c].monitoredProcess = p

\* Readme: "If the client notices that a process listed in the config started
\* running, it will start monitoring it."  A configured process that runs is
\* taken up by a child, whenever it started, with one exception, in which the
\* code breaks that promise: a pid used again that is the last of a free child,
\* for isProcessAlreadyBeingMonitored asks the entries of free children, too.
WantedIsMonitored ==
    \A p \in Pids :
        Wanted(p) ~> \/ ~Wanted(p)
                     \/ Stopping
                     \/ \E c \in Registered : MonitoredBy(p, c)
                     \/ TakenForOld(p)

\* Whatever runs under a pid that a child is at work on does not outlive the
\* job's time for ever.
MonitoredIsKilled ==
    \A p \in Pids :
        (\E c \in Registered : MonitoredBy(p, c) /\ Outcome(c) = "none")
            ~> (os[p].state # "running" \/ Stopping)

\* Once the server has sent INT the client ends, and reports, even when it has
\* to read the pipes of overdue children first.
IntEndsClient ==
    serverPhase = "quit" ~> pc \in {"exited", "aborted"}

\* No child survives the parent for ever, however the parent ends: an orphan
\* runs into a pipe without a peer, the last one forked first.
NoOrphans ==
    pc \in {"exited", "aborted"} ~>
        (\A c \in Registered : child[c].state = "dead")
=============================================================================
