------------------------ MODULE ClientMonitorProofs ------------------------
(***************************************************************************)
(* What holds of ClientMonitor for every set of processes and names, every *)
(* configuration, every number of children and every bound.                *)
(***************************************************************************)
EXTENDS ClientMonitor, SequenceTheorems, TLAPS

-----------------------------------------------------------------------------
(* Types.  setupMonitoring reads monitorRequests[next], so the index has to *)
(* be within the configuration for as long as its loop runs; and what a     *)
(* child writes into its pipe has to be a status.                           *)

IndexInRange == pc = "setup" => next \in 1 .. Len(monitorRequests)

StatusKnown ==
    \A c \in Children : child[c].state = "reporting" => child[c].status # "none"

TypeInv == TypeOK /\ IndexInRange /\ StatusKnown

\* Every configuration the server may send is a sequence of requests.
LEMMA ConfigType ==
    \A config \in Configs \cup {<<>>} : config \in Seq(Request)
<1>1. <<>> \in Seq(Request)
  OBVIOUS
<1> QED
  BY <1>1, ConfigsAssumption

\* The initial values have the types.
LEMMA TypeInit == Init => TypeInv
<1> SUFFICES ASSUME Init PROVE TypeInv
  OBVIOUS
<1> USE BoundsAssumption DEF Init, Children
<1>1. os \in [Pids -> [state : ProcessState, name : Names \cup {NoName},
                        age : 0 .. AgeCap]]
  BY DEF Process, ProcessState
<1>2. register \in [Children -> EntryType]
  BY DEF NoEntry, EntryType
<1>3. child \in [Children -> ChildType] /\ StatusKnown
  BY DEF NoChild, ChildType, StatusKnown
<1>4. toChild \in [Children -> Seq(MonitorMessage)]
  OBVIOUS
<1>5. fromChild \in [Children -> Seq({"KILLED", "DIED"})]
  OBVIOUS
<1>6. inbox \in Seq(Message) /\ monitorRequests \in Seq(Request)
  OBVIOUS
<1>7. /\ numForked \in 0 .. MaxChildren /\ spawns \in 0 .. MaxSpawns
      /\ killCount \in Nat /\ kills \in Nat /\ next \in Nat \ {0}
  OBVIOUS
<1>8. /\ pc \in PcType /\ pc # "setup"
      /\ serverPhase \in {"accept", "serve", "quit"}
      /\ sigintReceived \in BOOLEAN
  BY DEF PcType
<1>9. found = {} /\ ready = {} /\ overdue = {}
  OBVIOUS
<1> HIDE DEF Init
<1> QED
  BY <1>1, <1>2, <1>3, <1>4, <1>5, <1>6, <1>7, <1>8, <1>9
     DEF TypeInv, TypeOK, IndexInRange, StatusKnown

\* The steps of the user and of the server keep the types.
LEMMA TypeEnvStep == TypeInv /\ EnvStep => TypeInv'
<1> SUFFICES ASSUME TypeInv, EnvStep PROVE TypeInv'
  OBVIOUS
<1> USE DEF TypeInv, TypeOK, IndexInRange, StatusKnown, Registered, Children, envVars,
            parentVars, childVars
<1>1. CASE \E p \in Pids, name \in Names : Spawn(p, name)
  BY <1>1, BoundsAssumption DEF Spawn, Process, ProcessState
<1>2. CASE \E p \in Pids : Exit(p)
  BY <1>2, BoundsAssumption DEF Exit, Process, ProcessState
<1>3. CASE \E p \in Pids : Reap(p)
  BY <1>3, BoundsAssumption DEF Reap, Process, ProcessState
<1>4. CASE \E config \in Configs : ServerSendsConfig(config)
  BY <1>4 DEF ServerSendsConfig, Deliver, Message
<1>5. CASE \E config \in Configs : ServerSendsHup(config)
  BY <1>5 DEF ServerSendsHup, Deliver, Message
<1>6. CASE ServerSendsInt
  BY <1>6 DEF ServerSendsInt, Deliver, Message
<1> QED
  BY <1>1, <1>2, <1>3, <1>4, <1>5, <1>6 DEF EnvStep

\* A second passes: ages grow up to their cap, sleeps shorten.
LEMMA TypeTick == TypeInv /\ Tick => TypeInv'
<1> SUFFICES ASSUME TypeInv, Tick PROVE TypeInv'
  OBVIOUS
<1> USE BoundsAssumption DEF TypeInv, TypeOK, IndexInRange, StatusKnown, Registered,
        Children, envVars, parentVars
<1>1. \A n \in 0 .. AgeCap : Bounded(n) \in 0 .. AgeCap
  BY DEF Bounded
<1>2. os' \in [Pids -> [state : ProcessState, name : Names \cup {NoName},
                        age : 0 .. AgeCap]]
  BY <1>1, ZenonT(60) DEF Tick
<1>3. register' \in [Children -> EntryType]
  BY <1>1, ZenonT(60) DEF Tick, EntryType
<1>4. child' \in [Children -> ChildType] /\ StatusKnown'
  <2>1. \A c \in Children : child[c].left > 0 => child[c].left - 1 \in 0 .. (AgeCap - 1)
    BY DEF ChildType
  <2> QED
    BY <2>1, ZenonT(60) DEF Tick, ChildType
<1> QED
  BY <1>2, <1>3, <1>4 DEF Tick

\* What a status received from a child does to the register and the count.
LEMMA TypeDidChildKill ==
  ASSUME TypeInv, NEW c \in Children, DidChildKill(c)
  PROVE  /\ fromChild' \in [Children -> Seq({"KILLED", "DIED"})]
         /\ register' \in [Children -> EntryType]
         /\ killCount' \in Nat
<1> USE DEF TypeInv, TypeOK, DidChildKill
<1>1. fromChild[c] \in Seq({"KILLED", "DIED"}) /\ fromChild[c] # <<>>
  OBVIOUS
<1>2. Tail(fromChild[c]) \in Seq({"KILLED", "DIED"})
  BY <1>1
<1>3. fromChild' \in [Children -> Seq({"KILLED", "DIED"})]
  BY <1>2
<1>4. register' \in [Children -> EntryType]
  BY ZenonT(60) DEF EntryType
<1>5. killCount' \in Nat
  BY DEF KillIncrement
<1> QED
  BY <1>3, <1>4, <1>5

\* The steps of the parent keep the types.
LEMMA TypeParentStep == TypeInv /\ ParentStep => TypeInv'
<1> SUFFICES ASSUME TypeInv, ParentStep PROVE TypeInv'
  OBVIOUS
<1> USE DEF TypeInv, TypeOK, IndexInRange, StatusKnown, Registered, envVars, childVars, PcType
<1>1. CASE ReadConfig
  <2>1. Head(inbox) \in Message
    BY <1>1 DEF ReadConfig
  <2>2. monitorRequests' \in Seq(Request)
    BY <1>1, <2>1, ConfigType DEF ReadConfig, Message
  <2> QED
    BY <1>1, <2>2 DEF ReadConfig
<1>2. CASE SearchProcesses
  BY <1>2 DEF SearchProcesses, Shown, Matching
<1>20. CASE SearchFails
  BY <1>20 DEF SearchFails
<1>3. CASE EndRefresh
  BY <1>3 DEF EndRefresh
<1>4. CASE EndSetup
  BY <1>4 DEF EndSetup, SetupVars
<1>5. ASSUME NEW p \in Pids, SkipMonitored(p) PROVE TypeInv'
  BY <1>5 DEF SkipMonitored, SetupVars
<1>0. pc = "setup" => /\ monitorRequests[next] \in Request
                       /\ monitorRequests[next].monitorDuration \in 0 .. (AgeCap - 1)
  <2>1. pc = "setup" => monitorRequests[next] \in Request
    OBVIOUS
  <2> QED
    BY <2>1 DEF Request
<1>6. ASSUME NEW p \in Pids, pc = "setup"
      PROVE  NewEntry(p, monitorRequests[next]) \in EntryType
  BY <1>6, <1>0, BoundsAssumption DEF NewEntry, EntryType, Request
<1>7. ASSUME NEW p \in Pids, NEW c \in Children, ReuseChild(p, c) PROVE TypeInv'
  <2>1. register' \in [Children -> EntryType]
    BY <1>6, <1>7 DEF ReuseChild
  <2>2. JobMessage(c, p, monitorRequests[next]) \in MonitorMessage
    BY <1>7, <1>0 DEF ReuseChild, JobMessage, MonitorMessage
  <2>3. toChild' \in [Children -> Seq(MonitorMessage)]
    BY <1>7, <2>2 DEF ReuseChild
  <2> HIDE DEF PcType
  <2> QED
    BY <1>7, <2>1, <2>3 DEF ReuseChild, SetupVars
<1>8. ASSUME NEW p \in Pids, NEW c \in Children, ForkChild(p, c) PROVE TypeInv'
  <2>1. register' \in [Children -> EntryType]
    BY <1>6, <1>8 DEF ForkChild
  <2>2. child' \in [Children -> ChildType] /\ StatusKnown'
    BY <1>8, <1>0 DEF ForkChild, ChildType
  <2>3. numForked' \in 0 .. MaxChildren /\ numForked <= numForked'
    BY <1>8, BoundsAssumption DEF ForkChild, Children
  <2>4. ready' \in SUBSET ({ServerFd} \cup 1 .. numForked')
        /\ overdue' \in SUBSET (1 .. numForked')
    BY <1>8, <2>3 DEF ForkChild, SetupVars
  <2> HIDE DEF PcType
  <2> QED
    BY <1>8, <2>1, <2>2, <2>3, <2>4 DEF ForkChild, SetupVars
<1>9. ASSUME NEW p \in Pids, ForkFails(p) PROVE TypeInv'
  BY <1>9 DEF ForkFails, SetupVars
<1>10. CASE SelectReturns
  BY <1>10 DEF SelectReturns, Readable
<1>11. CASE SelectTimesOut
  BY <1>11 DEF SelectTimesOut
<1>12. CASE DispatchServer
  <2>1. Head(inbox) \in Message /\ Tail(inbox) \in Seq(Message)
    BY <1>12 DEF DispatchServer
  <2>2. Head(inbox).config \in Seq(Request)
    BY <2>1, ConfigType DEF Message
  <2>3. /\ monitorRequests' \in Seq(Request)
        /\ sigintReceived' \in BOOLEAN
        /\ next' \in Nat \ {0}
        /\ pc' \in {"dispatch", "refresh"}
    <3>1. CASE Head(inbox).type = "HUP"
      BY <1>12, <2>2, <3>1 DEF DispatchServer
    <3>2. CASE Head(inbox).type = "INT"
      BY <1>12, <3>2 DEF DispatchServer
    <3> QED
      BY <1>12, <3>1, <3>2 DEF DispatchServer
  <2> QED
    BY <1>12, <2>1, <2>3 DEF DispatchServer
<1>13. ASSUME NEW c \in Children, DispatchChild(c) PROVE TypeInv'
  BY <1>13, TypeDidChildKill DEF DispatchChild
<1>14. CASE LoopAgain
  BY <1>14 DEF LoopAgain
<1>15. CASE LoopQuits
  BY <1>15 DEF LoopQuits, Overdue
<1>16. ASSUME NEW c \in Children, ReadOverdue(c) PROVE TypeInv'
  BY <1>16, TypeDidChildKill DEF ReadOverdue
<1>17. CASE EndReap
  BY <1>17 DEF EndReap
<1>18. ASSUME NEW c \in Children, KillChild(c) PROVE TypeInv'
  <2>1. child' \in [Children -> ChildType] /\ StatusKnown'
    BY <1>18, ZenonT(60) DEF KillChild, ChildType
  <2> QED
    BY <1>18, <2>1 DEF KillChild, parentVars
<1>19. CASE FinalReport
  BY <1>19 DEF FinalReport
<1> QED
  BY <1>1, <1>2, <1>3, <1>4, <1>5, <1>7, <1>8, <1>9, <1>10, <1>11, <1>12,
     <1>13, <1>14, <1>15, <1>16, <1>17, <1>18, <1>19, <1>20 DEF ParentStep

\* The steps of a child keep the types.
LEMMA TypeChildStep ==
  ASSUME TypeInv, NEW c \in Children, ChildStep(c)
  PROVE  TypeInv'
<1> USE DEF TypeInv, TypeOK, IndexInRange, StatusKnown, Registered, envVars,
            parentVars
<1>1. CASE ChildKills(c)
  <2> DEFINE p == child[c].target
  <2>1. CASE os[p].state \in {"running", "zombie"}
    <3>1. child' = [child EXCEPT ![c].state = "reporting", ![c].status = "KILLED"]
      BY <1>1, <2>1 DEF ChildKills
    <3>2. child' \in [Children -> ChildType] /\ StatusKnown'
      <4>1. [child[c] EXCEPT !.state = "reporting", !.status = "KILLED"] \in ChildType
        BY DEF ChildType
      <4>2. child' \in [Children -> ChildType]
        BY <3>1, <4>1
      <4>3. StatusKnown'
        BY <3>1
      <4> QED
        BY <4>2, <4>3
    <3>3. os' = [os EXCEPT ![p] = Process("zombie", NoName)] /\ kills' = kills + 1
      BY <1>1, <2>1 DEF ChildKills
    <3>4. os' \in [Pids -> [state : ProcessState, name : Names \cup {NoName},
                            age : 0 .. AgeCap]]
      <4>1. Process("zombie", NoName) \in [state : ProcessState,
                                            name : Names \cup {NoName},
                                            age : 0 .. AgeCap]
        BY BoundsAssumption DEF Process, ProcessState
      <4> QED
        BY <3>3, <4>1
    <3> QED
      BY <1>1, <3>2, <3>3, <3>4, SMTT(60) DEF ChildKills
  <2>2. CASE os[p].state \notin {"running", "zombie"}
    <3>1. child' = [child EXCEPT ![c].state = "reporting", ![c].status = "DIED"]
      BY <1>1, <2>2 DEF ChildKills
    <3>2. child' \in [Children -> ChildType] /\ StatusKnown'
      <4>1. [child[c] EXCEPT !.state = "reporting", !.status = "DIED"] \in ChildType
        BY ZenonT(60) DEF ChildType
      <4>2. child' \in [Children -> ChildType]
        BY <3>1, <4>1
      <4>3. StatusKnown'
        BY <3>1
      <4> QED
        BY <4>2, <4>3
    <3> QED
      BY <1>1, <2>2, <3>2 DEF ChildKills
  <2> QED
    BY <2>1, <2>2
<1>2. CASE ChildReports(c)
  <2>1. CASE EndsHeld(c)
    <3>1. child[c].status \in {"KILLED", "DIED"}
      BY <1>2 DEF ChildReports, ChildType
    <3>2. /\ fromChild' = [fromChild EXCEPT ![c] = Append(@, child[c].status)]
          /\ child' = [child EXCEPT ![c].state = "waiting"]
      BY <1>2, <2>1 DEF ChildReports
    <3>3. fromChild' \in [Children -> Seq({"KILLED", "DIED"})]
      BY <3>1, <3>2
    <3>4. child' \in [Children -> ChildType] /\ StatusKnown'
      <4>1. [child[c] EXCEPT !.state = "waiting"] \in ChildType
        BY ZenonT(60) DEF ChildType
      <4>2. child' \in [Children -> ChildType]
        BY <3>2, <4>1
      <4>3. StatusKnown'
        BY <3>2
      <4> QED
        BY <4>2, <4>3
    <3> QED
      BY <1>2, <3>3, <3>4 DEF ChildReports
  <2>2. CASE ~EndsHeld(c)
    <3>1. child' = [child EXCEPT ![c].state = "dead"] /\ fromChild' = fromChild
      BY <1>2, <2>2 DEF ChildReports
    <3>2. child' \in [Children -> ChildType] /\ StatusKnown'
      <4>1. [child[c] EXCEPT !.state = "dead"] \in ChildType
        BY DEF ChildType
      <4>2. child' \in [Children -> ChildType]
        BY <3>1, <4>1
      <4>3. StatusKnown'
        BY <3>1
      <4> QED
        BY <4>2, <4>3
    <3> QED
      BY <1>2, <3>1, <3>2 DEF ChildReports
  <2> QED
    BY <2>1, <2>2
<1>3. CASE ChildTakes(c)
  <2>1. /\ Head(toChild[c]) \in MonitorMessage
        /\ Tail(toChild[c]) \in Seq(MonitorMessage)
    BY <1>3 DEF ChildTakes
  <2>2. child' \in [Children -> ChildType] /\ StatusKnown'
    BY <1>3, <2>1 DEF ChildTakes, ChildType, MonitorMessage
  <2>3. toChild' \in [Children -> Seq(MonitorMessage)]
    BY <1>3, <2>1 DEF ChildTakes
  <2> QED
    BY <1>3, <2>2, <2>3 DEF ChildTakes
<1>4. CASE ChildSeesEof(c)
  <2>1. child' \in [Children -> ChildType] /\ StatusKnown'
    BY <1>4, ZenonT(60) DEF ChildSeesEof, ChildType
  <2> QED
    BY <1>4, <2>1 DEF ChildSeesEof
<1> QED
  BY <1>1, <1>2, <1>3, <1>4 DEF ChildStep

\* Every step keeps the types.
LEMMA TypeNext == TypeInv /\ [Next]_vars => TypeInv'
<1> SUFFICES ASSUME TypeInv, [Next]_vars PROVE TypeInv'
  OBVIOUS
<1>1. CASE Crash
  BY <1>1 DEF Crash, TypeInv, TypeOK, IndexInRange, StatusKnown, Registered,
              PcType, envVars, childVars
<1>2. CASE UNCHANGED vars
  BY <1>2 DEF vars, envVars, parentVars, childVars, TypeInv, TypeOK,
              IndexInRange, StatusKnown, Registered
<1> QED
  BY <1>1, <1>2, TypeEnvStep, TypeTick, TypeParentStep, TypeChildStep DEF Next

LEMMA TypeInvariant == Spec => []TypeInv
BY TypeInit, TypeNext, PTL DEF Spec

\* The variables of the client and its children keep the types the code gives
\* them, whatever the processes, the configurations and the limits.
THEOREM TypeCorrect == Spec => []TypeOK
BY TypeInvariant, PTL DEF TypeInv

-----------------------------------------------------------------------------
(* One entry per process.  Only ReuseChild and ForkChild write a             *)
(* monitoredProcess, and both look through the whole register first.         *)

\* The step of the register that takes p up: p had no entry before.
LEMMA TakeUpKeepsOneEntry ==
  ASSUME TypeInv, OneEntryPerProcess, NEW p \in Pids, NEW c \in Children,
         NEW request,
         ~isProcessAlreadyBeingMonitored(p),
         register' = [register EXCEPT ![c] = NewEntry(p, request)],
         numForked' \in Nat,
         \A d \in Registered' : d = c \/ d \in Registered,
         Registered' \subseteq Children
  PROVE  OneEntryPerProcess'
<1> USE DEF TypeInv, TypeOK
<1>1. \A d \in Registered' : d # c => /\ d \in Registered
                                     /\ register'[d] = register[d]
                                     /\ register[d].monitoredProcess # p
  BY DEF isProcessAlreadyBeingMonitored
<1>2. c \in Registered' => register'[c].monitoredProcess = p
  BY DEF NewEntry
<1> QED
  BY <1>1, <1>2 DEF OneEntryPerProcess

LEMMA OneEntryNext ==
  TypeInv /\ OneEntryPerProcess /\ [Next]_vars => OneEntryPerProcess'
<1> SUFFICES ASSUME TypeInv, OneEntryPerProcess, [Next]_vars
             PROVE  OneEntryPerProcess'
  OBVIOUS
<1>0. \A c \in Registered : c \in Children
  BY BoundsAssumption DEF TypeInv, TypeOK, Registered, Children
<1>1. ASSUME numForked' = numForked,
             \A c \in Registered :
                 register'[c].monitoredProcess = register[c].monitoredProcess
      PROVE  OneEntryPerProcess'
  BY <1>1 DEF OneEntryPerProcess, Registered
<1>2. ASSUME NEW c \in Children, DidChildKill(c), numForked' = numForked
      PROVE  OneEntryPerProcess'
  <2>1. \A d \in Registered :
            register'[d].monitoredProcess = register[d].monitoredProcess
    BY <1>0, <1>2 DEF DidChildKill, TypeInv, TypeOK, EntryType
  <2> QED
    BY <1>1, <1>2, <2>1
<1>3. ASSUME NEW p \in Pids, NEW c \in Children, ReuseChild(p, c)
      PROVE  OneEntryPerProcess'
  <2>1. numForked' \in Nat /\ Registered' = Registered
    BY <1>3 DEF ReuseChild, Registered, TypeInv, TypeOK
  <2> QED
    BY <1>0, <1>3, <2>1, TakeUpKeepsOneEntry DEF ReuseChild
<1>4. ASSUME NEW p \in Pids, NEW c \in Children, ForkChild(p, c)
      PROVE  OneEntryPerProcess'
  <2>1. numForked' \in Nat /\ Registered' = Registered \cup {c}
    BY <1>4 DEF ForkChild, Registered, Children, TypeInv, TypeOK
  <2> QED
    BY <1>0, <1>4, <2>1, TakeUpKeepsOneEntry DEF ForkChild
<1>5. CASE EnvStep
  BY <1>1, <1>5 DEF EnvStep, Spawn, Exit, Reap, ServerSendsConfig,
     ServerSendsHup, ServerSendsInt, Deliver, envVars, parentVars, childVars
<1>6. CASE Tick
  <2>1. \A c \in Registered :
            register'[c].monitoredProcess = register[c].monitoredProcess
    BY <1>0, <1>6 DEF Tick, TypeInv, TypeOK, EntryType
  <2> QED
    BY <1>1, <1>6, <2>1 DEF Tick, parentVars
<1>7. CASE ParentStep
  BY <1>1, <1>2, <1>3, <1>4, <1>7
     DEF ParentStep, ReadConfig, SearchProcesses, SearchFails, EndRefresh, EndSetup,
         SkipMonitored, ForkFails, SetupVars, SelectReturns, SelectTimesOut,
         DispatchServer, DispatchChild, LoopAgain, LoopQuits, ReadOverdue,
         EndReap, KillChild, FinalReport, envVars, parentVars, childVars
<1>8. CASE Crash
  BY <1>1, <1>8 DEF Crash
<1>9. ASSUME NEW c \in Children, ChildStep(c) PROVE OneEntryPerProcess'
  BY <1>1, <1>9 DEF ChildStep, ChildKills, ChildReports, ChildTakes,
                    ChildSeesEof, parentVars
<1>10. CASE UNCHANGED vars
  BY <1>1, <1>10 DEF vars, parentVars
<1> QED
  BY <1>5, <1>6, <1>7, <1>8, <1>9, <1>10 DEF Next

\* No process ever has two entries, so no two children sleep on one pid,
\* however refreshes, forks and reuses of free children follow each other.
THEOREM OneEntry == Spec => []OneEntryPerProcess
<1>1. Init => OneEntryPerProcess
  BY DEF Init, OneEntryPerProcess, Registered
<1> QED
  BY <1>1, TypeInvariant, OneEntryNext, PTL DEF Spec

-----------------------------------------------------------------------------
(* The register.  It describes the children truthfully until killAllChildren. *)
(* RegisterAgrees is not inductive alone: a child that is about to be forked  *)
(* must have empty pipes, and a descriptor that waits for its callback must   *)
(* not lose its status to another callback.                                  *)

UnforkedIsBlank ==
    \A c \in Children \ Registered :
        toChild[c] = <<>> /\ fromChild[c] = <<>> /\ child[c].state = "none"

NothingReady == pc \in {"readConfig", "select", "reap"} => ready = {}

AgreeInv == RegisterAgrees /\ UnforkedIsBlank /\ ReadyIsReadable /\ NothingReady

-----------------------------------------------------------------------------
(* Framing.                                                                *)

\* What Agrees and UnforkedIsBlank see of entry c and child c stays the same.
Untouched(c) ==
    /\ register'[c].isAvailable = register[c].isAvailable
    /\ register'[c].monitoredProcess = register[c].monitoredProcess
    /\ register'[c].monitorDuration = register[c].monitorDuration
    /\ child'[c].state = child[c].state
    /\ child'[c].target = child[c].target
    /\ toChild'[c] = toChild[c]
    /\ fromChild'[c] = fromChild[c]

LEMMA UntouchedAgrees ==
  ASSUME NEW c, Untouched(c)
  PROVE  (Agrees(c)' <=> Agrees(c)) /\ (Answered(c)' <=> Answered(c))
BY DEF Untouched, Agrees, Idle, Handed, Working, Answered

\* A step that leaves every child and entry alone but at most one registered c.
LEMMA OneChildChanges ==
  ASSUME TypeInv, AgreeInv, NEW c \in Registered,
         \A d \in Children \ {c} : Untouched(d),
         numForked' = numForked, ready' \subseteq ready,
         ServerFd \in ready' => inbox' # <<>>,
         Managing' => Managing,
         Managing' => Agrees(c)',
         Managing' /\ c \in ready' => Answered(c)',
         NothingReady'
  PROVE  AgreeInv'
<1>1. Registered' = Registered /\ Registered \subseteq Children
  BY BoundsAssumption DEF Registered, Children, TypeInv, TypeOK
<1>2. UnforkedIsBlank'
  BY <1>1 DEF AgreeInv, UnforkedIsBlank, Untouched, Children
<1>3. RegisterAgrees'
  BY <1>1, UntouchedAgrees DEF AgreeInv, RegisterAgrees
<1>4. ready \ {ServerFd} \subseteq Children
  BY <1>1 DEF TypeInv, TypeOK
<1>5. ReadyIsReadable'
  BY <1>4, UntouchedAgrees DEF AgreeInv, ReadyIsReadable
<1> QED
  BY <1>2, <1>3, <1>5 DEF AgreeInv

\* A step that leaves all of them alone.
LEMMA NoChildChanges ==
  ASSUME TypeInv, AgreeInv,
         \A d \in Children : Untouched(d),
         numForked' = numForked, ready' \subseteq ready,
         ServerFd \in ready' => inbox' # <<>>,
         Managing' => Managing,
         NothingReady'
  PROVE  AgreeInv'
<1>1. Registered' = Registered /\ Registered \subseteq Children
  BY BoundsAssumption DEF Registered, Children, TypeInv, TypeOK
<1>2. UnforkedIsBlank'
  BY <1>1 DEF AgreeInv, UnforkedIsBlank, Untouched, Children
<1>3. RegisterAgrees'
  BY <1>1, UntouchedAgrees DEF AgreeInv, RegisterAgrees
<1>4. ready \ {ServerFd} \subseteq Children
  BY <1>1 DEF TypeInv, TypeOK
<1>5. ReadyIsReadable'
  BY <1>4, UntouchedAgrees DEF AgreeInv, ReadyIsReadable
<1> QED
  BY <1>2, <1>3, <1>5 DEF AgreeInv

-----------------------------------------------------------------------------
(* The steps that move a job: it is handed out, taken, done and answered.   *)

\* A child in Children that does anything was forked.
LEMMA ActiveIsRegistered ==
  ASSUME TypeInv, AgreeInv, NEW c \in Children, child[c].state # "none"
  PROVE  c \in Registered
BY DEF AgreeInv, UnforkedIsBlank

LEMMA AgreeChildKills ==
  ASSUME TypeInv, AgreeInv, NEW c \in Children, ChildKills(c)
  PROVE  AgreeInv'
<1>1. c \in Registered /\ child[c].state = "sleeping"
  BY ActiveIsRegistered DEF ChildKills
<1>2. child'[c].state = "reporting" /\ child'[c].target = child[c].target
  <2>1. \/ child' = [child EXCEPT ![c].state = "reporting", ![c].status = "KILLED"]
        \/ child' = [child EXCEPT ![c].state = "reporting", ![c].status = "DIED"]
    BY DEF ChildKills
  <2> QED
    BY <2>1 DEF TypeInv, TypeOK, ChildType
<1>3. \A d \in Children \ {c} : Untouched(d)
  BY DEF ChildKills, Untouched, TypeInv, TypeOK
<1>4. UNCHANGED <<register, toChild, fromChild, numForked, ready, inbox, pc>>
  BY DEF ChildKills, parentVars
<1>5. Managing => Working(c)
  BY <1>1 DEF AgreeInv, RegisterAgrees, Agrees, Idle, Handed, Working, Answered
<1>6. Managing => Agrees(c)' /\ c \notin ready
  <2>1. Managing => ~register[c].isAvailable
    BY <1>1, <1>5 DEF AgreeInv, RegisterAgrees, Agrees, Idle, Working
  <2>2. Managing => Agrees(c)'
    BY <1>2, <1>4, <1>5, <2>1 DEF Agrees, Working
  <2>3. Managing => ~Answered(c)
    BY <1>1 DEF Answered
  <2>4. c # ServerFd
    BY DEF Children, ServerFd
  <2> QED
    BY <2>2, <2>3, <2>4 DEF AgreeInv, ReadyIsReadable
<1>7. NothingReady' /\ (ServerFd \in ready' => inbox' # <<>>) /\ Managing' = Managing
  BY <1>4 DEF AgreeInv, NothingReady, ReadyIsReadable, Managing
<1> QED
  BY <1>1, <1>3, <1>4, <1>6, <1>7, OneChildChanges

LEMMA AgreeChildReports ==
  ASSUME TypeInv, AgreeInv, NEW c \in Children, ChildReports(c)
  PROVE  AgreeInv'
<1>1. c \in Registered /\ child[c].state = "reporting"
  BY ActiveIsRegistered DEF ChildReports
<1>2. UNCHANGED <<register, toChild, numForked, ready, inbox, pc>>
  BY DEF ChildReports, parentVars
<1>3. \A d \in Children \ {c} : Untouched(d)
  BY DEF ChildReports, Untouched, TypeInv, TypeOK
<1>4. Managing => Working(c) /\ ~register[c].isAvailable
  BY <1>1 DEF AgreeInv, RegisterAgrees, Agrees, Idle, Handed, Working, Answered
<1>5. Managing => Answered(c)'
  <2>1. Managing => EndsHeld(c)
    BY DEF Managing, EndsHeld
  <2>2. Managing => /\ child' = [child EXCEPT ![c].state = "waiting"]
                    /\ fromChild' = [fromChild EXCEPT ![c] = Append(@, child[c].status)]
    BY <2>1 DEF ChildReports
  <2>3. Len(Append(<<>>, child[c].status)) = 1
    OBVIOUS
  <2> QED
    BY <1>2, <1>4, <2>2, <2>3 DEF Working, Answered, TypeInv, TypeOK, ChildType
<1>6. Managing => Agrees(c)'
  BY <1>2, <1>4, <1>5 DEF Agrees
<1>7. NothingReady' /\ (ServerFd \in ready' => inbox' # <<>>) /\ Managing' = Managing
  BY <1>2 DEF AgreeInv, NothingReady, ReadyIsReadable, Managing
<1> QED
  BY <1>1, <1>2, <1>3, <1>5, <1>6, <1>7, OneChildChanges

LEMMA AgreeChildTakes ==
  ASSUME TypeInv, AgreeInv, NEW c \in Children, ChildTakes(c)
  PROVE  AgreeInv'
<1>1. c \in Registered /\ child[c].state = "waiting" /\ toChild[c] # <<>>
  BY ActiveIsRegistered DEF ChildTakes
<1>2. UNCHANGED <<register, fromChild, numForked, ready, inbox, pc>>
  BY DEF ChildTakes, parentVars
<1>3. \A d \in Children \ {c} : Untouched(d)
  BY DEF ChildTakes, Untouched, TypeInv, TypeOK
<1>4. Managing => Handed(c) /\ ~register[c].isAvailable
  BY <1>1 DEF AgreeInv, RegisterAgrees, Agrees, Idle, Handed, Working, Answered
<1>5. Managing => Working(c)'
  <2> DEFINE job == [targetPid |-> register[c].monitoredProcess,
                     duration  |-> register[c].monitorDuration]
  <2>1. Head(<<job>>) = job /\ Tail(<<job>>) = <<>>
    OBVIOUS
  <2>2. Managing => toChild'[c] = <<>>
    BY <1>4, <2>1 DEF Handed, ChildTakes, TypeInv, TypeOK
  <2>3. Managing => /\ child'[c].state = "sleeping"
                    /\ child'[c].target = register[c].monitoredProcess
    BY <1>4, <2>1 DEF Handed, ChildTakes, TypeInv, TypeOK
  <2> QED
    BY <1>2, <1>4, <2>2, <2>3 DEF Handed, Working
<1>6. Managing => Agrees(c)'
  BY <1>2, <1>4, <1>5 DEF Agrees
<1>7. Managing => c \notin ready
  <2>1. c # ServerFd
    BY DEF Children, ServerFd
  <2> QED
    BY <1>1, <2>1 DEF AgreeInv, ReadyIsReadable, Answered
<1>8. NothingReady' /\ (ServerFd \in ready' => inbox' # <<>>) /\ Managing' = Managing
  BY <1>2 DEF AgreeInv, NothingReady, ReadyIsReadable, Managing
<1> QED
  BY <1>1, <1>2, <1>3, <1>6, <1>7, <1>8, OneChildChanges

LEMMA AgreeChildSeesEof ==
  ASSUME TypeInv, AgreeInv, NEW c \in Children, ChildSeesEof(c)
  PROVE  AgreeInv'
<1>1. c \in Registered /\ ~Managing
  BY ActiveIsRegistered DEF ChildSeesEof, EndsHeld, Managing
<1>2. UNCHANGED <<register, toChild, fromChild, numForked, ready, inbox, pc>>
  BY DEF ChildSeesEof, parentVars
<1>3. \A d \in Children \ {c} : Untouched(d)
  BY DEF ChildSeesEof, Untouched, TypeInv, TypeOK
<1>4. NothingReady' /\ (ServerFd \in ready' => inbox' # <<>>) /\ Managing' = Managing
  BY <1>2 DEF AgreeInv, NothingReady, ReadyIsReadable, Managing
<1> QED
  BY <1>1, <1>2, <1>3, <1>4, OneChildChanges

\* didChildKill, on behalf of dataReceivedCallback or refreshRegisterEntries:
\* reading its one status makes an answered child an idle one.
LEMMA AgreeDidChildKill ==
  ASSUME TypeInv, AgreeInv, NEW c \in Registered, DidChildKill(c), Managing,
         UNCHANGED <<child, toChild, numForked, inbox>>,
         ready' = ready \ {c}, Managing', NothingReady'
  PROVE  AgreeInv'
<1>1. c \in Children
  BY BoundsAssumption DEF Registered, Children, TypeInv, TypeOK
<1>2. Answered(c)
  BY DEF DidChildKill, AgreeInv, RegisterAgrees, Agrees, Idle, Handed, Working
<1>3. fromChild'[c] = <<>>
  <2>1. fromChild[c] \in Seq({"KILLED", "DIED"}) /\ Len(fromChild[c]) = 1
    BY <1>1, <1>2 DEF Answered, TypeInv, TypeOK
  <2>2. Tail(fromChild[c]) = <<>>
    <3>1. fromChild[c] # <<>>
      BY DEF DidChildKill
    <3>2. Tail(fromChild[c]) \in Seq({"KILLED", "DIED"}) /\ Len(Tail(fromChild[c])) = 0
      BY <2>1, <3>1, HeadTailProperties
    <3> QED
      BY <3>2, EmptySeq
  <2> QED
    BY <1>1, <2>2 DEF DidChildKill, TypeInv, TypeOK
<1>4. register'[c].isAvailable
  BY <1>1 DEF DidChildKill, TypeInv, TypeOK, EntryType
<1>5. Agrees(c)'
  BY <1>2, <1>3, <1>4 DEF Agrees, Idle, Answered
<1>6. \A d \in Children \ {c} : Untouched(d)
  BY DEF DidChildKill, Untouched, TypeInv, TypeOK
<1>7. ServerFd \in ready' => inbox' # <<>>
  BY DEF AgreeInv, ReadyIsReadable
<1> QED
  BY <1>5, <1>6, <1>7, OneChildChanges

LEMMA AgreeReuseChild ==
  ASSUME TypeInv, AgreeInv, NEW p \in Pids, NEW c \in Children, ReuseChild(p, c)
  PROVE  AgreeInv'
<1> DEFINE request == monitorRequests[next]
           job == JobMessage(c, p, request)
<1>1. /\ c \in Registered /\ register[c].isAvailable /\ pc = "setup"
      /\ register' = [register EXCEPT ![c] = NewEntry(p, request)]
      /\ toChild' = [toChild EXCEPT ![c] = Append(@, job)]
  BY DEF ReuseChild, IsFirst, FreeChildren
<1>2. UNCHANGED <<child, fromChild, numForked, ready, inbox, pc>>
  BY DEF ReuseChild, SetupVars
<1>3. Managing /\ Managing'
  BY <1>1, <1>2 DEF Managing
<1>4. Idle(c)
  BY <1>1, <1>3 DEF AgreeInv, RegisterAgrees, Agrees
<1>5. Handed(c)' /\ ~register'[c].isAvailable
  <2>1. toChild'[c] = <<job>>
    <3>1. Append(<<>>, job) = <<job>>
      OBVIOUS
    <3> QED
      BY <1>1, <1>4, <3>1 DEF Idle, TypeInv, TypeOK
  <2>2. register'[c] = NewEntry(p, request)
    BY <1>1 DEF TypeInv, TypeOK
  <2>3. /\ register'[c].monitoredProcess = p
        /\ register'[c].monitorDuration = request.monitorDuration
        /\ register'[c].isAvailable = FALSE
    BY <2>2 DEF NewEntry
  <2>4. child'[c].state = "waiting" /\ fromChild'[c] = <<>>
    BY <1>2, <1>4 DEF Idle
  <2> QED
    BY <2>1, <2>3, <2>4 DEF Handed, JobMessage
<1>6. Agrees(c)'
  BY <1>5 DEF Agrees
<1>7. c \notin ready
  <2>1. c # ServerFd /\ Len(fromChild[c]) # 1
    BY <1>4 DEF Idle, Children, ServerFd
  <2> QED
    BY <1>3, <2>1 DEF AgreeInv, ReadyIsReadable, Answered
<1>8. \A d \in Children \ {c} : Untouched(d)
  BY <1>1, <1>2 DEF Untouched, TypeInv, TypeOK
<1>9. NothingReady' /\ (ServerFd \in ready' => inbox' # <<>>)
  BY <1>2 DEF AgreeInv, NothingReady, ReadyIsReadable
<1> QED
  BY <1>1, <1>2, <1>3, <1>6, <1>7, <1>8, <1>9, OneChildChanges

LEMMA AgreeForkChild ==
  ASSUME TypeInv, AgreeInv, NEW p \in Pids, NEW c \in Children, ForkChild(p, c)
  PROVE  AgreeInv'
<1> DEFINE request == monitorRequests[next]
<1>1. /\ c = numForked + 1 /\ numForked' = c /\ pc = "setup"
      /\ register' = [register EXCEPT ![c] = NewEntry(p, request)]
      /\ child' = [child EXCEPT ![c] =
             [state |-> "sleeping", target |-> p, status |-> "none",
              left |-> request.monitorDuration]]
  BY DEF ForkChild
<1>2. UNCHANGED <<toChild, fromChild, ready, inbox, pc>>
  BY DEF ForkChild, SetupVars
<1>3. Managing /\ Managing'
  BY <1>1, <1>2 DEF Managing
<1>4. /\ c \notin Registered
      /\ Registered' = Registered \cup {c}
      /\ Registered \subseteq Children
  BY <1>1, BoundsAssumption, SMTT(60) DEF Registered, Children, TypeInv, TypeOK
<1>5. Working(c)' /\ ~register'[c].isAvailable
  <2>1. toChild[c] = <<>> /\ fromChild[c] = <<>>
    BY <1>4 DEF AgreeInv, UnforkedIsBlank
  <2>2. register'[c] = NewEntry(p, request)
    BY <1>1 DEF TypeInv, TypeOK
  <2>3. register'[c].monitoredProcess = p /\ register'[c].isAvailable = FALSE
    BY <2>2 DEF NewEntry
  <2>4. child'[c].state = "sleeping" /\ child'[c].target = p
    BY <1>1 DEF TypeInv, TypeOK
  <2> QED
    BY <1>2, <2>1, <2>3, <2>4 DEF Working
<1>6. \A d \in Children \ {c} : Untouched(d)
  BY <1>1, <1>2 DEF Untouched, TypeInv, TypeOK
<1>7. RegisterAgrees'
  <2>1. Agrees(c)'
    BY <1>5 DEF Agrees
  <2> QED
    BY <1>3, <1>4, <1>6, <2>1, UntouchedAgrees DEF AgreeInv, RegisterAgrees
<1>8. UnforkedIsBlank'
  BY <1>4, <1>6 DEF AgreeInv, UnforkedIsBlank, Untouched, Children
<1>9. ReadyIsReadable'
  <2>1. ready \ {ServerFd} \subseteq Children \ {c}
    BY <1>4 DEF TypeInv, TypeOK
  <2> QED
    BY <1>2, <1>3, <1>6, <2>1, UntouchedAgrees DEF AgreeInv, ReadyIsReadable
<1>10. NothingReady'
  BY <1>2 DEF AgreeInv, NothingReady
<1> QED
  BY <1>7, <1>8, <1>9, <1>10 DEF AgreeInv

\* select: whatever it returns can be read.
LEMMA AgreeSelectReturns ==
  ASSUME TypeInv, AgreeInv, SelectReturns
  PROVE  AgreeInv'
<1>1. pc = "select" /\ pc' = "dispatch" /\ ready' = Readable
  BY DEF SelectReturns
<1>2. UNCHANGED <<register, child, toChild, fromChild, numForked, inbox>>
  BY DEF SelectReturns, childVars
<1>3. \A c \in ready' \ {ServerFd} : Answered(c)
  <2>1. \A c \in ready' \ {ServerFd} : c \in Registered /\ fromChild[c] # <<>>
    BY <1>1 DEF Readable
  <2> QED
    BY <1>1, <2>1 DEF AgreeInv, RegisterAgrees, Managing, Agrees, Idle, Handed, Working
<1>4. \A c \in Children : Untouched(c)
  BY <1>2 DEF Untouched
<1>5. RegisterAgrees' /\ UnforkedIsBlank'
  <2>1. Registered' = Registered /\ Registered \subseteq Children
    BY <1>2, BoundsAssumption DEF Registered, Children, TypeInv, TypeOK
  <2>2. Managing
    BY <1>1 DEF Managing
  <2> QED
    BY <1>4, <2>1, <2>2, UntouchedAgrees
       DEF AgreeInv, RegisterAgrees, UnforkedIsBlank, Untouched, Children
<1>6. ReadyIsReadable'
  <2>1. ServerFd \in ready' => inbox # <<>>
    <3>1. ServerFd \notin Registered
      BY DEF ServerFd, Registered
    <3> QED
      BY <1>1, <3>1 DEF Readable
  <2>2. \A c \in ready' \ {ServerFd} : Answered(c)'
    BY <1>2, <1>3 DEF Answered
  <2> QED
    BY <1>2, <2>1, <2>2 DEF ReadyIsReadable
<1>7. NothingReady'
  BY <1>1 DEF NothingReady
<1> QED
  BY <1>5, <1>6, <1>7 DEF AgreeInv

\* killAllChildren only begins where RegisterAgrees ends.
LEMMA AgreeKillChild ==
  ASSUME TypeInv, AgreeInv, NEW c \in Children, KillChild(c)
  PROVE  AgreeInv'
<1>1. c \in Registered /\ pc = "killAll"
  BY DEF KillChild, IsFirst, Alive
<1>2. UNCHANGED <<register, toChild, fromChild, numForked, ready, inbox, pc>>
  BY DEF KillChild, parentVars
<1>3. \A d \in Children \ {c} : Untouched(d)
  BY <1>2 DEF KillChild, Untouched, TypeInv, TypeOK
<1>4. ~Managing' /\ NothingReady' /\ (ServerFd \in ready' => inbox' # <<>>)
  BY <1>1, <1>2 DEF AgreeInv, NothingReady, ReadyIsReadable, Managing
<1> QED
  BY <1>1, <1>2, <1>3, <1>4, OneChildChanges

\* The steps of the parent that touch no child and no entry.
LEMMA AgreeQuietParentStep ==
  ASSUME TypeInv, AgreeInv,
         \/ ReadConfig \/ SearchProcesses \/ SearchFails \/ EndRefresh \/ EndSetup
         \/ \E p \in Pids : SkipMonitored(p)
         \/ \E p \in Pids : ForkFails(p)
         \/ SelectTimesOut \/ DispatchServer \/ LoopAgain \/ LoopQuits
         \/ EndReap \/ FinalReport \/ Crash
  PROVE  AgreeInv'
<1>1. UNCHANGED <<register, child, toChild, fromChild, numForked>>
  BY DEF ReadConfig, SearchProcesses, SearchFails, EndRefresh, EndSetup, SkipMonitored,
         ForkFails, SetupVars, SelectTimesOut, DispatchServer, LoopAgain,
         LoopQuits, EndReap, FinalReport, Crash, childVars
<1>2. \A c \in Children : Untouched(c)
  BY <1>1 DEF Untouched
<1>3. ready' \subseteq ready
  BY DEF ReadConfig, SearchProcesses, SearchFails, EndRefresh, EndSetup, SkipMonitored,
         ForkFails, SetupVars, SelectTimesOut, DispatchServer, LoopAgain,
         LoopQuits, EndReap, FinalReport, Crash
<1>4. ServerFd \in ready' => inbox' # <<>>
  BY DEF AgreeInv, ReadyIsReadable, NothingReady, ReadConfig, SearchProcesses, SearchFails,
         EndRefresh, EndSetup, SkipMonitored, ForkFails, SetupVars,
         SelectTimesOut, DispatchServer, LoopAgain, LoopQuits, EndReap,
         FinalReport, Crash
<1>5. Managing' => Managing
  BY DEF Managing, ReadConfig, SearchProcesses, SearchFails, EndRefresh, EndSetup,
         SkipMonitored, ForkFails, SetupVars, SelectTimesOut, DispatchServer,
         LoopAgain, LoopQuits, EndReap, FinalReport, Crash
<1>6. NothingReady'
  BY DEF AgreeInv, NothingReady, ReadConfig, SearchProcesses, SearchFails, EndRefresh,
         EndSetup, SkipMonitored, ForkFails, SetupVars, SelectTimesOut,
         DispatchServer, LoopAgain, LoopQuits, EndReap, FinalReport, Crash
<1> QED
  BY <1>1, <1>2, <1>3, <1>4, <1>5, <1>6, NoChildChanges

\* The steps of the user, of the server and of the clock.
LEMMA AgreeOutsideStep ==
  ASSUME TypeInv, AgreeInv, EnvStep \/ Tick \/ UNCHANGED vars
  PROVE  AgreeInv'
<1>1. \A c \in Children : Untouched(c)
  <2>1. CASE EnvStep \/ UNCHANGED vars
    <3>1. UNCHANGED <<register, child, toChild, fromChild>>
      BY <2>1 DEF EnvStep, Spawn, Exit, Reap, ServerSendsConfig, ServerSendsHup,
         ServerSendsInt, Deliver, childVars, vars
    <3> QED
      BY <3>1 DEF Untouched
  <2>2. CASE Tick
    BY <2>2 DEF Tick, Untouched, TypeInv, TypeOK, EntryType, ChildType
  <2> QED
    BY <2>1, <2>2
<1>2. UNCHANGED <<numForked, ready, pc>>
  BY DEF EnvStep, Spawn, Exit, Reap, ServerSendsConfig, ServerSendsHup,
         ServerSendsInt, Deliver, Tick, parentVars, vars
<1>3. inbox # <<>> => inbox' # <<>>
  <2>1. \A message \in Message : Append(inbox, message) # <<>>
    BY AppendProperties DEF TypeInv, TypeOK
  <2> QED
    BY <2>1 DEF EnvStep, Spawn, Exit, Reap, ServerSendsConfig, ServerSendsHup,
       ServerSendsInt, Deliver, Message, Tick, vars
<1>4. Managing' = Managing /\ NothingReady' /\ (ServerFd \in ready' => inbox' # <<>>)
  BY <1>2, <1>3 DEF AgreeInv, NothingReady, ReadyIsReadable, Managing
<1> QED
  BY <1>1, <1>2, <1>4, NoChildChanges

LEMMA AgreeNext == TypeInv /\ AgreeInv /\ [Next]_vars => AgreeInv'
<1> SUFFICES ASSUME TypeInv, AgreeInv, [Next]_vars PROVE AgreeInv'
  OBVIOUS
<1>1. CASE EnvStep \/ Tick \/ UNCHANGED vars
  BY <1>1, AgreeOutsideStep
<1>2. CASE ParentStep
  <2>1. ASSUME NEW c \in Children, DispatchChild(c) PROVE AgreeInv'
    <3>1. /\ c \in Registered /\ DidChildKill(c) /\ ready' = ready \ {c}
          /\ pc = "dispatch"
          /\ UNCHANGED <<child, toChild, numForked, inbox, pc>>
      BY <2>1 DEF DispatchChild, IsFirst, TypeInv, TypeOK, childVars
    <3>2. Managing /\ Managing' /\ NothingReady'
      BY <3>1 DEF Managing, NothingReady
    <3> QED
      BY <3>1, <3>2, AgreeDidChildKill
  <2>2. ASSUME NEW c \in Children, ReadOverdue(c) PROVE AgreeInv'
    <3>1. /\ c \in Registered /\ DidChildKill(c) /\ ready' = ready
          /\ pc = "reap"
          /\ UNCHANGED <<child, toChild, numForked, inbox, pc>>
      BY <2>2 DEF ReadOverdue, IsFirst, TypeInv, TypeOK, childVars
    <3>2. ready = {}
      BY <3>1 DEF AgreeInv, NothingReady
    <3>3. Managing /\ Managing' /\ NothingReady' /\ ready' = ready \ {c}
      BY <3>1, <3>2 DEF Managing, NothingReady
    <3> QED
      BY <3>1, <3>3, AgreeDidChildKill
  <2> QED
    BY <1>2, <2>1, <2>2, AgreeReuseChild, AgreeForkChild, AgreeSelectReturns,
       AgreeKillChild, AgreeQuietParentStep DEF ParentStep
<1>3. CASE Crash
  BY <1>3, AgreeQuietParentStep
<1>4. ASSUME NEW c \in Children, ChildStep(c) PROVE AgreeInv'
  BY <1>4, AgreeChildKills, AgreeChildReports, AgreeChildTakes,
     AgreeChildSeesEof DEF ChildStep
<1> QED
  BY <1>1, <1>2, <1>3, <1>4 DEF Next

LEMMA AgreeInit == Init => AgreeInv
BY DEF Init, AgreeInv, RegisterAgrees, Registered, UnforkedIsBlank, Children,
       NoChild, ReadyIsReadable, NothingReady

LEMMA AgreeInvariant == Spec => [](TypeInv /\ AgreeInv)
BY TypeInvariant, AgreeInit, AgreeNext, PTL DEF Spec

-----------------------------------------------------------------------------
(* What holds.                                                              *)

\* The register tells the truth about every child until killAllChildren: free
\* entries have idle children, a busy entry's child has exactly its one job.
THEOREM RegisterIsTruthful == Spec => []RegisterAgrees
BY AgreeInvariant, PTL DEF AgreeInv

\* No callback of manageReads ever finds its descriptor empty, so none of them
\* blocks the client.
THEOREM CallbacksNeverBlock == Spec => []ReadyIsReadable
BY AgreeInvariant, PTL DEF AgreeInv

\* A step of the client never rewrites the job of a busy child: a HUP changes
\* only what is taken up after it.
LEMMA BusyEntryKept ==
  ASSUME TypeInv, [Next]_vars, NEW c \in Registered, Busy(c), Busy(c)'
  PROVE  /\ register'[c].monitoredProcess = register[c].monitoredProcess
         /\ register'[c].monitoredName = register[c].monitoredName
         /\ register'[c].monitorDuration = register[c].monitorDuration
         /\ child[c].state = "sleeping" => child'[c].left <= child[c].left
<1> DEFINE Kept == /\ register'[c].monitoredProcess = register[c].monitoredProcess
                   /\ register'[c].monitoredName = register[c].monitoredName
                   /\ register'[c].monitorDuration = register[c].monitorDuration
                   /\ child[c].state = "sleeping" => child'[c].left <= child[c].left
<1>1. c \in Children /\ ~register[c].isAvailable /\ child[c].left \in Nat
  BY BoundsAssumption DEF Busy, Registered, Children, TypeInv, TypeOK, ChildType
<1>2. ASSUME UNCHANGED <<register, child>> PROVE Kept
  BY <1>1, <1>2
<1>3. ASSUME NEW d \in Children, DidChildKill(d), child' = child PROVE Kept
  BY <1>1, <1>3, SMTT(60) DEF DidChildKill, TypeInv, TypeOK, EntryType
<1>4. CASE EnvStep \/ UNCHANGED vars \/ Crash
  BY <1>2, <1>4 DEF EnvStep, Spawn, Exit, Reap, ServerSendsConfig,
     ServerSendsHup, ServerSendsInt, Deliver, childVars, vars, Crash
<1>5. CASE Tick
  BY <1>1, <1>5 DEF Tick, TypeInv, TypeOK, EntryType, ChildType
<1>6. ASSUME NEW p \in Pids, NEW d \in Children, ReuseChild(p, d) PROVE Kept
  <2>1. register[d].isAvailable /\ child' = child
    BY <1>6 DEF ReuseChild, IsFirst, FreeChildren
  <2> QED
    BY <1>1, <1>6, <2>1 DEF ReuseChild, TypeInv, TypeOK
<1>7. ASSUME NEW p \in Pids, NEW d \in Children, ForkChild(p, d) PROVE Kept
  <2>1. c # d
    BY <1>7 DEF ForkChild, Registered, TypeInv, TypeOK
  <2> QED
    BY <1>1, <1>7, <2>1, SMTT(60) DEF ForkChild, TypeInv, TypeOK
<1>8. ASSUME NEW d \in Children, KillChild(d) PROVE Kept
  BY <1>1, <1>8 DEF KillChild, TypeInv, TypeOK, ChildType
<1>9. CASE ParentStep
  <2>1. ASSUME NEW d \in Children, DispatchChild(d) \/ ReadOverdue(d) PROVE Kept
    BY <1>3, <2>1 DEF DispatchChild, ReadOverdue, childVars
  <2>2. CASE \/ ReadConfig \/ SearchProcesses \/ SearchFails \/ EndRefresh \/ EndSetup
             \/ \E p \in Pids : SkipMonitored(p)
             \/ \E p \in Pids : ForkFails(p)
             \/ SelectReturns \/ SelectTimesOut \/ DispatchServer
             \/ LoopAgain \/ LoopQuits \/ EndReap \/ FinalReport
    BY <1>2, <2>2 DEF ReadConfig, SearchProcesses, SearchFails, EndRefresh, EndSetup,
       SkipMonitored, ForkFails, SetupVars, SelectReturns, SelectTimesOut,
       DispatchServer, LoopAgain, LoopQuits, EndReap, FinalReport, childVars
  <2> QED
    BY <1>6, <1>7, <1>8, <1>9, <2>1, <2>2 DEF ParentStep
<1>10. ASSUME NEW d \in Children, ChildStep(d) PROVE Kept
  <2>1. register' = register
    BY <1>10 DEF ChildStep, ChildKills, ChildReports, ChildTakes, ChildSeesEof
  <2>2. child[c].state = "sleeping" => child'[c].left = child[c].left
    <3>0. /\ child \in [Children -> ChildType]
          /\ child[c] \in ChildType /\ child[d] \in ChildType
      BY <1>1 DEF TypeInv, TypeOK
    <3>1. CASE ChildKills(d)
      <4>1. \/ child' = [child EXCEPT ![d].state = "reporting", ![d].status = "KILLED"]
            \/ child' = [child EXCEPT ![d].state = "reporting", ![d].status = "DIED"]
        BY <3>1 DEF ChildKills
      <4> QED
        BY <1>1, <3>0, <4>1 DEF ChildType
    <3>2. CASE ChildReports(d)
      <4>1. \/ child' = [child EXCEPT ![d].state = "waiting"]
            \/ child' = [child EXCEPT ![d].state = "dead"]
        BY <3>2 DEF ChildReports
      <4> QED
        BY <1>1, <3>0, <4>1 DEF ChildType
    <3>3. CASE ChildTakes(d)
      <4>1. child[d].state = "waiting"
        BY <3>3 DEF ChildTakes
      <4>2. c # d => child'[c] = child[c]
        BY <1>1, <3>3 DEF ChildTakes, TypeInv, TypeOK
      <4> QED
        BY <4>1, <4>2
    <3>4. CASE ChildSeesEof(d)
      BY <1>1, <3>4 DEF ChildSeesEof, TypeInv, TypeOK
    <3> QED
      BY <1>10, <3>1, <3>2, <3>3, <3>4 DEF ChildStep
  <2> QED
    BY <1>1, <2>1, <2>2
<1> QED
  BY <1>4, <1>5, <1>9, <1>10 DEF Next

\* A new configuration leaves what is being monitored alone.
THEOREM OldConfigIsKept == Spec => OldConfigKept
<1>1. TypeInv /\ [Next]_vars =>
        \A c \in Registered :
          (Busy(c) /\ Busy(c)') =>
             /\ register'[c].monitoredProcess = register[c].monitoredProcess
             /\ register'[c].monitoredName = register[c].monitoredName
             /\ register'[c].monitorDuration = register[c].monitorDuration
             /\ child[c].state = "sleeping" => child'[c].left <= child[c].left
  BY BusyEntryKept
<1> QED
  BY <1>1, TypeInvariant, PTL DEF Spec, OldConfigKept
=============================================================================
