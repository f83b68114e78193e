---------------------------- MODULE ClientJobProofs ----------------------------
(***************************************************************************)
(* What the register, the children and the pipes of ClientMonitor amount to: *)
(* a table of jobs (JobTable), in which every kill is counted once, and -    *)
(* unless the kernel reuses pids - only overdue processes are killed.  All   *)
(* of it rests on the invariants of ClientMonitorProofs: every step of the  *)
(* client takes one job up, gives one its outcome, collects one, or leaves   *)
(* all of them alone.                                                       *)
(***************************************************************************)
EXTENDS ClientMonitorProofs, FiniteSetTheorems

Result == {"KILLED", "DIED"}

-----------------------------------------------------------------------------
(* The four kinds of steps.                                                 *)

SameEntry(c) ==
    /\ register'[c].monitoredProcess = register[c].monitoredProcess
    /\ register'[c].monitoredName = register[c].monitoredName
    /\ register'[c].monitorDuration = register[c].monitorDuration

SameJob(c) ==
    /\ SameEntry(c)
    /\ register'[c].isAvailable = register[c].isAvailable
    /\ Outcome(c)' = Outcome(c)

OthersSame(c) == \A d \in Children \ {c} : SameJob(d)

\* No job changes.
Quiet ==
    /\ \A c \in Children : SameJob(c)
    /\ UNCHANGED <<numForked, killCount, kills>>

\* Child c, free or just forked, takes up a process that no entry names.
TakenUp(c) ==
    /\ ~ Busy(c) /\ Outcome(c) = "none"
    /\ ~ isProcessAlreadyBeingMonitored(register'[c].monitoredProcess)
    /\ register'[c].monitoredProcess \in Pids
    /\ register'[c].monitoredName \in Names
    /\ register'[c].monitorDuration \in 0 .. (AgeCap - 1)
    /\ ~ register'[c].isAvailable /\ Outcome(c)' = "none"
    /\ Registered' = Registered \cup {c}
    /\ OthersSame(c)
    /\ UNCHANGED <<killCount, kills>>

\* The job of c gets its outcome.
Finished(c) ==
    /\ Busy(c) /\ Outcome(c) = "none"
    /\ SameEntry(c) /\ ~ register'[c].isAvailable
    /\ Outcome(c)' \in Result
    /\ kills' = kills + KillIncrement(Outcome(c)')
    /\ OthersSame(c)
    /\ UNCHANGED <<numForked, killCount>>

\* The outcome of c is collected and counted.
Collected(c) ==
    /\ Busy(c) /\ Outcome(c) \in Result
    /\ register'[c].isAvailable /\ Outcome(c)' = "none"
    /\ killCount' = killCount + KillIncrement(Outcome(c))
    /\ OthersSame(c)
    /\ UNCHANGED <<numForked, kills>>

\* The register is no longer than the limit on children.
LEMMA RegisteredAreChildren ==
  ASSUME TypeInv
  PROVE  Registered \subseteq Children
BY BoundsAssumption DEF Registered, Children, TypeInv, TypeOK

\* A child ends its sleep.
LEMMA KillFinishes ==
  ASSUME TypeInv, AgreeInv, Managing, NEW c \in Children, ChildKills(c)
  PROVE  Finished(c)
<1>1. c \in Registered /\ child[c].state = "sleeping"
  BY ActiveIsRegistered DEF ChildKills
<1>2. Working(c) /\ ~register[c].isAvailable
  BY <1>1 DEF AgreeInv, RegisterAgrees, Agrees, Idle, Handed, Working, Answered
<1>3. UNCHANGED <<register, fromChild, numForked, killCount>>
  BY DEF ChildKills, parentVars
<1>4. /\ child'[c].state = "reporting" /\ child'[c].status \in Result
      /\ kills' = kills + KillIncrement(child'[c].status)
  <2>1. \/ /\ child' = [child EXCEPT ![c].state = "reporting", ![c].status = "KILLED"]
           /\ kills' = kills + 1
        \/ /\ child' = [child EXCEPT ![c].state = "reporting", ![c].status = "DIED"]
           /\ kills' = kills
    BY DEF ChildKills
  <2>2. \/ /\ child'[c].state = "reporting" /\ child'[c].status = "KILLED"
           /\ kills' = kills + 1
        \/ /\ child'[c].state = "reporting" /\ child'[c].status = "DIED"
           /\ kills' = kills
    BY <2>1 DEF TypeInv, TypeOK, ChildType
  <2>3. kills + 0 = kills
    BY DEF TypeInv, TypeOK
  <2> QED
    BY <2>2, <2>3 DEF Result, KillIncrement
<1>5. Outcome(c) = "none" /\ Outcome(c)' = child'[c].status
  BY <1>1, <1>2, <1>3, <1>4 DEF Outcome, Working
<1>6. OthersSame(c)
  BY <1>3 DEF ChildKills, OthersSame, SameJob, SameEntry, Outcome, TypeInv, TypeOK
<1> QED
  BY <1>1, <1>2, <1>3, <1>4, <1>5, <1>6 DEF Finished, Busy, SameEntry

\* A child writes its status into the pipe: the outcome moves, and stays the same.
LEMMA ReportIsQuiet ==
  ASSUME TypeInv, AgreeInv, Managing, NEW c \in Children, ChildReports(c)
  PROVE  Quiet
<1>1. c \in Registered /\ child[c].state = "reporting"
  BY ActiveIsRegistered DEF ChildReports
<1>2. Working(c)
  BY <1>1 DEF AgreeInv, RegisterAgrees, Agrees, Idle, Handed, Working, Answered
<1>3. /\ child' = [child EXCEPT ![c].state = "waiting"]
      /\ fromChild' = [fromChild EXCEPT ![c] = Append(@, child[c].status)]
      /\ UNCHANGED <<register, numForked, killCount, kills>>
  BY DEF ChildReports, EndsHeld, Managing, parentVars
<1>4. Append(<<>>, child[c].status) # <<>>
      /\ Head(Append(<<>>, child[c].status)) = child[c].status
  OBVIOUS
<1>5. Outcome(c)' = Outcome(c)
  BY <1>1, <1>2, <1>3, <1>4 DEF Outcome, Working, TypeInv, TypeOK
<1>6. \A d \in Children \ {c} : Outcome(d)' = Outcome(d)
  BY <1>3 DEF Outcome, TypeInv, TypeOK
<1> QED
  BY <1>3, <1>5, <1>6 DEF Quiet, SameJob, SameEntry

\* A child takes the job it was handed.
LEMMA TakeIsQuiet ==
  ASSUME TypeInv, AgreeInv, Managing, NEW c \in Children, ChildTakes(c)
  PROVE  Quiet
<1>1. c \in Registered /\ child[c].state = "waiting" /\ toChild[c] # <<>>
  BY ActiveIsRegistered DEF ChildTakes
<1>2. Handed(c)
  BY <1>1 DEF AgreeInv, RegisterAgrees, Agrees, Idle, Handed, Working, Answered
<1>3. UNCHANGED <<register, fromChild, numForked, killCount, kills>>
  BY DEF ChildTakes, parentVars
<1>4. child'[c].state = "sleeping" /\ \A d \in Children \ {c} : child'[d] = child[d]
  BY DEF ChildTakes, TypeInv, TypeOK
<1>5. \A d \in Children : Outcome(d)' = Outcome(d)
  BY <1>1, <1>2, <1>3, <1>4 DEF Outcome, Handed
<1> QED
  BY <1>3, <1>5 DEF Quiet, SameJob, SameEntry

\* didChildKill
LEMMA DidChildKillCollects ==
  ASSUME TypeInv, AgreeInv, Managing, NEW c \in Registered, DidChildKill(c),
         UNCHANGED <<child, numForked, kills>>
  PROVE  Collected(c)
<1>1. c \in Children
  BY RegisteredAreChildren
<1>2. Answered(c) /\ ~register[c].isAvailable
  BY DEF DidChildKill, AgreeInv, RegisterAgrees, Agrees, Idle, Handed, Working
<1>3. fromChild[c] \in Seq(Result) /\ Len(fromChild[c]) = 1 /\ fromChild[c] # <<>>
  BY <1>1, <1>2 DEF Answered, Result, TypeInv, TypeOK, DidChildKill
<1>4. Head(fromChild[c]) \in Result /\ Tail(fromChild[c]) = <<>>
  <2>1. Tail(fromChild[c]) \in Seq(Result) /\ Len(Tail(fromChild[c])) = 0
    BY <1>3, HeadTailProperties
  <2> QED
    BY <1>3, <2>1, EmptySeq, HeadTailProperties
<1>5. /\ fromChild'[c] = <<>> /\ register'[c].isAvailable
      /\ killCount' = killCount + KillIncrement(Head(fromChild[c]))
  BY <1>1, <1>4 DEF DidChildKill, TypeInv, TypeOK, EntryType
<1>6. Outcome(c) = Head(fromChild[c]) /\ Outcome(c)' = "none"
  BY <1>2, <1>3, <1>5 DEF Outcome, Answered
<1>7. OthersSame(c)
  BY DEF DidChildKill, OthersSame, SameJob, SameEntry, Outcome, TypeInv, TypeOK
<1> QED
  BY <1>2, <1>4, <1>5, <1>6, <1>7 DEF Collected, Busy

\* The configuration line setupMonitoring works on is one.
LEMMA RequestType ==
  ASSUME TypeInv, pc = "setup"
  PROVE  /\ monitorRequests[next].processName \in Names
         /\ monitorRequests[next].monitorDuration \in 0 .. (AgeCap - 1)
<1>1. monitorRequests \in Seq(Request) /\ next \in 1 .. Len(monitorRequests)
  BY DEF TypeInv, TypeOK, IndexInRange
<1>2. monitorRequests[next] \in Request
  BY <1>1
<1> QED
  BY <1>2 DEF Request

\* setupMonitoring hands a process to a free child.
LEMMA ReuseTakesUp ==
  ASSUME TypeInv, AgreeInv, NEW p \in Pids, NEW c \in Children, ReuseChild(p, c)
  PROVE  TakenUp(c)
<1>1. /\ c \in Registered /\ register[c].isAvailable /\ pc = "setup"
      /\ register' = [register EXCEPT ![c] = NewEntry(p, monitorRequests[next])]
      /\ ~isProcessAlreadyBeingMonitored(p)
      /\ UNCHANGED <<child, fromChild, numForked, killCount, kills>>
  BY DEF ReuseChild, IsFirst, FreeChildren, SetupVars
<1>2. Idle(c)
  BY <1>1 DEF AgreeInv, RegisterAgrees, Agrees, Managing
<1>3. register'[c] = NewEntry(p, monitorRequests[next])
  BY <1>1 DEF TypeInv, TypeOK
<1>4. Registered' = Registered \cup {c}
  BY <1>1 DEF Registered
<1>5. Outcome(c) = "none" /\ Outcome(c)' = "none"
  BY <1>1, <1>2 DEF Outcome, Idle
<1>6. OthersSame(c)
  BY <1>1 DEF OthersSame, SameJob, SameEntry, Outcome, TypeInv, TypeOK
<1> QED
  BY <1>1, <1>3, <1>4, <1>5, <1>6, RequestType DEF TakenUp, Busy, NewEntry

\* setupMonitoring forks a child for a process.
LEMMA ForkTakesUp ==
  ASSUME TypeInv, AgreeInv, NEW p \in Pids, NEW c \in Children, ForkChild(p, c)
  PROVE  TakenUp(c)
<1>1. /\ c = numForked + 1 /\ numForked' = c /\ pc = "setup"
      /\ register' = [register EXCEPT ![c] = NewEntry(p, monitorRequests[next])]
      /\ child' = [child EXCEPT ![c] =
             [state |-> "sleeping", target |-> p, status |-> "none",
              left |-> monitorRequests[next].monitorDuration]]
      /\ ~isProcessAlreadyBeingMonitored(p)
      /\ UNCHANGED <<fromChild, killCount, kills>>
  BY DEF ForkChild, SetupVars
<1>2. c \notin Registered /\ Registered' = Registered \cup {c}
  BY <1>1, BoundsAssumption DEF Registered, TypeInv, TypeOK
<1>3. fromChild[c] = <<>> /\ child[c].state = "none"
  BY <1>2 DEF AgreeInv, UnforkedIsBlank
<1>4. register'[c] = NewEntry(p, monitorRequests[next]) /\ child'[c].state = "sleeping"
  BY <1>1 DEF TypeInv, TypeOK
<1>5. Outcome(c) = "none" /\ Outcome(c)' = "none"
  BY <1>1, <1>3, <1>4 DEF Outcome
<1>6. OthersSame(c)
  BY <1>1 DEF OthersSame, SameJob, SameEntry, Outcome, TypeInv, TypeOK
<1> QED
  BY <1>1, <1>2, <1>4, <1>5, <1>6, RequestType DEF TakenUp, Busy, NewEntry

-----------------------------------------------------------------------------
(* Every step is one of the four kinds, or the client stops.                *)

\* A step that touches neither the register, the children nor their answers.
LEMMA FrameIsQuiet ==
  ASSUME UNCHANGED <<register, child, fromChild, numForked, killCount, kills>>
  PROVE  Quiet
BY DEF Quiet, SameJob, SameEntry, Outcome

\* The time that passes is not part of a job.
LEMMA TickIsQuiet ==
  ASSUME TypeInv, Tick
  PROVE  Quiet
<1>1. UNCHANGED <<fromChild, numForked, killCount, kills>>
  BY DEF Tick, parentVars
<1>2. \A c \in Children : child'[c].state = child[c].state /\ child'[c].status = child[c].status
  BY DEF Tick, TypeInv, TypeOK, ChildType
<1>3. \A c \in Children : /\ SameEntry(c)
                          /\ register'[c].isAvailable = register[c].isAvailable
  BY DEF Tick, SameEntry, TypeInv, TypeOK, EntryType
<1> QED
  BY <1>1, <1>2, <1>3 DEF Quiet, SameJob, Outcome

\* What the parent's steps are while it manages its register.
LEMMA ParentJobStep ==
  ASSUME TypeInv, AgreeInv, ParentStep, Managing, Managing'
  PROVE  Quiet \/ \E c \in Children : TakenUp(c) \/ Collected(c)
<1>1. ASSUME NEW c \in Children, DispatchChild(c) PROVE Collected(c)
  <2>1. c \in Registered /\ UNCHANGED <<child, numForked, kills>> /\ DidChildKill(c)
    BY <1>1 DEF DispatchChild, IsFirst, childVars, TypeInv, TypeOK
  <2> QED
    BY <2>1, DidChildKillCollects
<1>2. ASSUME NEW c \in Children, ReadOverdue(c) PROVE Collected(c)
  <2>1. c \in Registered /\ UNCHANGED <<child, numForked, kills>> /\ DidChildKill(c)
    BY <1>2 DEF ReadOverdue, IsFirst, childVars, TypeInv, TypeOK
  <2> QED
    BY <2>1, DidChildKillCollects
<1>3. ASSUME NEW c \in Children, KillChild(c) PROVE FALSE
  BY <1>3 DEF KillChild, Managing
<1>4. CASE ReadConfig
  BY <1>4, FrameIsQuiet DEF ReadConfig, childVars
<1>5. CASE \/ SearchProcesses \/ SearchFails \/ EndRefresh \/ EndSetup
           \/ (\E p \in Pids : SkipMonitored(p))
           \/ \E p \in Pids : ForkFails(p)
  BY <1>5, FrameIsQuiet DEF SearchProcesses, SearchFails, EndRefresh, EndSetup, SkipMonitored,
     ForkFails, SetupVars, childVars
<1>6. CASE SelectReturns \/ SelectTimesOut \/ DispatchServer
  BY <1>6, FrameIsQuiet DEF SelectReturns, SelectTimesOut, DispatchServer, childVars
<1>7. CASE LoopAgain \/ LoopQuits \/ EndReap \/ FinalReport
  BY <1>7, FrameIsQuiet DEF LoopAgain, LoopQuits, EndReap, FinalReport, childVars
<1> QED
  BY <1>1, <1>2, <1>3, <1>4, <1>5, <1>6, <1>7, ReuseTakesUp, ForkTakesUp DEF ParentStep

\* While the client manages its register, a step takes up, finishes or collects
\* one job, or no job changes.
LEMMA JobStep ==
  ASSUME TypeInv, AgreeInv, [Next]_vars, Managing, Managing'
  PROVE  Quiet \/ \E c \in Children : TakenUp(c) \/ Finished(c) \/ Collected(c)
<1>1. CASE EnvStep
  BY <1>1, FrameIsQuiet DEF EnvStep, Spawn, Exit, Reap, ServerSendsConfig,
     ServerSendsHup, ServerSendsInt, Deliver, parentVars, childVars
<1>2. CASE Crash
  BY <1>2 DEF Crash, Managing
<1>3. ASSUME NEW c \in Children, ChildStep(c)
      PROVE  Quiet \/ Finished(c)
  <2>1. ~ ChildSeesEof(c)
    BY DEF ChildSeesEof, EndsHeld, Managing
  <2> QED
    BY <1>3, <2>1, KillFinishes, ReportIsQuiet, TakeIsQuiet DEF ChildStep
<1>4. CASE UNCHANGED vars
  BY <1>4, FrameIsQuiet DEF vars, parentVars, childVars
<1> QED
  BY <1>1, <1>2, <1>3, <1>4, TickIsQuiet, ParentJobStep DEF Next

\* The step that ends the managing counts nothing, and nothing follows it.
LEMMA StoppingIsFinal ==
  ASSUME TypeInv, [Next]_vars, ~Managing \/ ~Managing'
  PROVE  ~Managing' /\ killCount' = killCount
<1>1. CASE EnvStep \/ Tick \/ \E c \in Children : ChildStep(c)
  BY <1>1 DEF EnvStep, Spawn, Exit, Reap, ServerSendsConfig, ServerSendsHup,
     ServerSendsInt, Deliver, Tick, ChildStep, ChildKills, ChildReports, ChildTakes,
     ChildSeesEof, parentVars, Managing
<1>2. CASE ParentStep
  <2>1. CASE \/ ReadConfig \/ SearchProcesses \/ EndRefresh \/ EndSetup
             \/ (\E p \in Pids : SkipMonitored(p)) \/ SelectReturns \/ SelectTimesOut
             \/ DispatchServer \/ LoopAgain \/ LoopQuits
             \/ (\E p \in Pids, c \in Children : ReuseChild(p, c) \/ ForkChild(p, c))
             \/ (\E c \in Children : DispatchChild(c) \/ ReadOverdue(c))
    BY <2>1 DEF ReadConfig, SearchProcesses, EndRefresh, EndSetup, SkipMonitored,
       SelectReturns, SelectTimesOut, DispatchServer, LoopAgain, LoopQuits, ReuseChild,
       ForkChild, DispatchChild, ReadOverdue, Managing
  <2>2. CASE \/ SearchFails \/ (\E p \in Pids : ForkFails(p)) \/ EndReap \/ FinalReport
             \/ \E c \in Children : KillChild(c)
    BY <2>2 DEF SearchFails, ForkFails, SetupVars, EndReap, FinalReport, KillChild,
       parentVars, Managing
  <2> QED
    BY <1>2, <2>1, <2>2 DEF ParentStep
<1>3. CASE Crash
  BY <1>3 DEF Crash, Managing
<1>4. CASE UNCHANGED vars
  BY <1>4 DEF vars, parentVars, Managing
<1> QED
  BY <1>1, <1>2, <1>3, <1>4 DEF Next

-----------------------------------------------------------------------------
(* Every kill is counted once.  The outcome of a job stands in one place     *)
(* only, the child or its pipe, so the kills still on their way are the      *)
(* entries whose outcome is KILLED.                                         *)

KilledJobs == {c \in Registered : Outcome(c) = "KILLED"}

CountInv == Managing => kills = killCount + Cardinality(KilledJobs)

\* A child that reports has an empty pipe, and one whose pipe is not empty waits.
LEMMA UnreportedIsKilled ==
  AgreeInv /\ Managing => Unreported = KilledJobs
<1> SUFFICES ASSUME AgreeInv, Managing PROVE Unreported = KilledJobs
  OBVIOUS
<1>1. \A c \in Registered : fromChild[c] # <<>> => child[c].state = "waiting"
  BY DEF AgreeInv, RegisterAgrees, Agrees, Idle, Handed, Working, Answered
<1>2. \A c \in Registered :
          (\/ child[c].state = "reporting" /\ child[c].status = "KILLED"
           \/ fromChild[c] # <<>> /\ Head(fromChild[c]) = "KILLED")
          <=> Outcome(c) = "KILLED"
  BY <1>1 DEF Outcome
<1> QED
  BY <1>2 DEF Unreported, KilledJobs

\* The kills on their way are finitely many.
LEMMA KilledIsFinite ==
  ASSUME TypeInv
  PROVE  IsFiniteSet(KilledJobs) /\ Cardinality(KilledJobs) \in Nat
<1>1. IsFiniteSet(Registered)
  BY FS_Interval DEF Registered, TypeInv, TypeOK
<1>2. IsFiniteSet(KilledJobs)
  BY <1>1, FS_Subset DEF KilledJobs
<1> QED
  BY <1>2, FS_CardinalityType

\* Kills, count and the kills on their way stay in balance.
LEMMA CountNext ==
  TypeInv /\ AgreeInv /\ CountInv /\ [Next]_vars => CountInv'
<1> SUFFICES ASSUME TypeInv, AgreeInv, CountInv, [Next]_vars, Managing'
             PROVE  kills' = killCount' + Cardinality(KilledJobs')
  BY DEF CountInv
<1>1. Managing
  BY StoppingIsFinal
<1>2. /\ kills = killCount + Cardinality(KilledJobs) /\ IsFiniteSet(KilledJobs)
      /\ Cardinality(KilledJobs) \in Nat /\ killCount \in Nat /\ kills \in Nat
  BY <1>1, KilledIsFinite DEF CountInv, TypeInv, TypeOK
<1>3. \A c \in Registered : c \in Children
  BY RegisteredAreChildren
<1>4. CASE Quiet
  <2>1. Registered' = Registered
    BY <1>4 DEF Quiet, Registered
  <2>2. KilledJobs' = KilledJobs
    BY <1>3, <1>4, <2>1 DEF Quiet, SameJob, KilledJobs
  <2> QED
    BY <1>2, <1>4, <2>2 DEF Quiet
<1>5. ASSUME NEW c \in Children, TakenUp(c)
      PROVE  kills' = killCount' + Cardinality(KilledJobs')
  <2>1. KilledJobs' = KilledJobs
    BY <1>3, <1>5 DEF TakenUp, OthersSame, SameJob, KilledJobs
  <2> QED
    BY <1>2, <1>5, <2>1 DEF TakenUp
<1>6. ASSUME NEW c \in Children, Finished(c)
      PROVE  kills' = killCount' + Cardinality(KilledJobs')
  <2>1. Registered' = Registered /\ c \in Registered /\ c \notin KilledJobs
    BY <1>6 DEF Finished, Registered, Busy, KilledJobs
  <2>2. CASE Outcome(c)' = "KILLED"
    <3>1. KilledJobs' = KilledJobs \cup {c}
      BY <1>3, <1>6, <2>1, <2>2 DEF Finished, OthersSame, SameJob, KilledJobs
    <3>2. Cardinality(KilledJobs') = Cardinality(KilledJobs) + 1
      BY <1>2, <2>1, <3>1, FS_AddElement
    <3> QED
      BY <1>2, <1>6, <2>2, <3>2 DEF Finished, KillIncrement
  <2>3. CASE Outcome(c)' = "DIED"
    <3>1. KilledJobs' = KilledJobs
      BY <1>3, <1>6, <2>1, <2>3 DEF Finished, OthersSame, SameJob, KilledJobs
    <3> QED
      BY <1>2, <1>6, <2>3, <3>1 DEF Finished, KillIncrement
  <2> QED
    BY <1>6, <2>2, <2>3 DEF Finished, Result
<1>7. ASSUME NEW c \in Children, Collected(c)
      PROVE  kills' = killCount' + Cardinality(KilledJobs')
  <2>1. Registered' = Registered /\ c \in Registered
    BY <1>7 DEF Collected, Registered, Busy
  <2>2. KilledJobs' = KilledJobs \ {c}
    BY <1>3, <1>7, <2>1 DEF Collected, OthersSame, SameJob, KilledJobs
  <2>3. CASE Outcome(c) = "KILLED"
    <3>1. c \in KilledJobs
      BY <2>1, <2>3 DEF KilledJobs
    <3>2. Cardinality(KilledJobs') = Cardinality(KilledJobs) - 1
      BY <1>2, <2>2, <3>1, FS_RemoveElement
    <3> QED
      BY <1>2, <1>7, <2>3, <3>2 DEF Collected, KillIncrement
  <2>4. CASE Outcome(c) = "DIED"
    <3>1. KilledJobs' = KilledJobs
      BY <2>2, <2>4 DEF KilledJobs
    <3> QED
      BY <1>2, <1>7, <2>4, <3>1 DEF Collected, KillIncrement
  <2> QED
    BY <1>7, <2>3, <2>4 DEF Collected, Result
<1> QED
  BY <1>1, <1>4, <1>5, <1>6, <1>7, JobStep

\* However many children answer, in whichever order their pipes are read, by the
\* select loop or by refreshRegisterEntries, every successful kill(2) is in
\* killCount or still with one child, and never both.
THEOREM EveryKillOnce == Spec => []KillsCountedOnce
<1>1. Init => CountInv
  <2>1. ASSUME Init PROVE KilledJobs = {} /\ kills = 0 /\ killCount = 0
    BY <2>1 DEF Init, KilledJobs, Registered
  <2> QED
    BY <2>1, FS_EmptySet DEF CountInv
<1>2. AgreeInv /\ CountInv => KillsCountedOnce
  BY UnreportedIsKilled DEF CountInv, KillsCountedOnce
<1> QED
  BY <1>1, <1>2, AgreeInvariant, CountNext, PTL DEF Spec

-----------------------------------------------------------------------------
(* The client is a table of jobs.                                           *)

Jobs == {JobOf(c) : c \in {d \in Registered : Busy(d)}}

\* Two entries have two jobs, because no process has two entries.
LEMMA JobsDiffer ==
  ASSUME OneEntryPerProcess, NEW c \in Registered, NEW d \in Registered, c # d
  PROVE  JobOf(c).pid # JobOf(d).pid /\ JobOf(c) # JobOf(d)
BY DEF OneEntryPerProcess, JobOf

\* A quiet step does not touch the table.
LEMMA QuietKeepsJobs ==
  ASSUME TypeInv, Quiet
  PROVE  Jobs' = Jobs
<1>1. Registered' = Registered
  BY DEF Quiet, Registered
<1>2. \A c \in Registered : JobOf(c)' = JobOf(c) /\ Busy(c)' = Busy(c)
  BY <1>1, RegisteredAreChildren DEF Quiet, SameJob, SameEntry, JobOf, Busy
<1> QED
  BY <1>1, <1>2 DEF Jobs

\* The other entries keep their jobs when c changes.
LEMMA OthersKeepJobs ==
  ASSUME TypeInv, NEW c \in Children, OthersSame(c),
         Registered' \subseteq Registered \cup {c}, Registered \subseteq Registered'
  PROVE  \A d \in Registered' \ {c} :
             d \in Registered /\ JobOf(d)' = JobOf(d) /\ Busy(d)' = Busy(d)
BY RegisteredAreChildren DEF OthersSame, SameJob, SameEntry, JobOf, Busy

\* A process that is taken up is a Take of the table.
LEMMA TakenUpIsTake ==
  ASSUME TypeInv, NEW c \in Children, TakenUp(c)
  PROVE  \E job \in Jobs' :
           /\ \A other \in Jobs : other.pid # job.pid
           /\ job \in [pid : Pids, name : Names, duration : 0 .. (AgeCap - 1),
                      outcome : {"none", "KILLED", "DIED"}]
           /\ job.outcome = "none"
           /\ Jobs' = Jobs \cup {job}
<1> DEFINE job == JobOf(c)'
<1>1. /\ job.pid = register'[c].monitoredProcess
      /\ job.outcome = "none"
      /\ job \in [pid : Pids, name : Names, duration : 0 .. (AgeCap - 1),
                  outcome : {"none", "KILLED", "DIED"}]
  BY DEF TakenUp, JobOf
<1>2. \A other \in Jobs : other.pid # job.pid
  BY <1>1 DEF TakenUp, Jobs, JobOf, isProcessAlreadyBeingMonitored
<1>3. Registered' = Registered \cup {c} /\ Busy(c)' /\ ~Busy(c)
  BY DEF TakenUp, Busy
<1>4. \A d \in Registered' \ {c} :
          d \in Registered /\ JobOf(d)' = JobOf(d) /\ Busy(d)' = Busy(d)
  BY <1>3, OthersKeepJobs DEF TakenUp
<1>5. Jobs' = Jobs \cup {job} /\ job \in Jobs'
  BY <1>3, <1>4 DEF Jobs
<1> QED
  BY <1>1, <1>2, <1>5

\* An outcome is a Finish of the table.
LEMMA FinishedIsFinish ==
  ASSUME TypeInv, OneEntryPerProcess, NEW c \in Children, Finished(c)
  PROVE  \E job \in Jobs, outcome \in {"KILLED", "DIED"} :
           /\ job.outcome = "none"
           /\ Jobs' = (Jobs \ {job}) \cup {[job EXCEPT !.outcome = outcome]}
<1>1. Registered' = Registered /\ c \in Registered /\ Busy(c) /\ Busy(c)'
  BY DEF Finished, Registered, Busy
<1>2. JobOf(c) \in Jobs /\ JobOf(c).outcome = "none"
  BY <1>1 DEF Jobs, JobOf, Finished
<1>3. JobOf(c)' = [JobOf(c) EXCEPT !.outcome = Outcome(c)']
  BY DEF Finished, SameEntry, JobOf
<1>4. \A d \in Registered' \ {c} :
          d \in Registered /\ JobOf(d)' = JobOf(d) /\ Busy(d)' = Busy(d)
  BY <1>1, OthersKeepJobs DEF Finished
<1>5. \A d \in Registered \ {c} : JobOf(d) # JobOf(c)
  BY <1>1, JobsDiffer
<1>6. Jobs' = (Jobs \ {JobOf(c)}) \cup {JobOf(c)'}
  BY <1>1, <1>4, <1>5 DEF Jobs
<1> QED
  BY <1>2, <1>3, <1>6 DEF Finished, Result

\* A status that is read is a Collect of the table.
LEMMA CollectedIsCollect ==
  ASSUME TypeInv, OneEntryPerProcess, NEW c \in Children, Collected(c)
  PROVE  \E job \in Jobs :
           /\ job.outcome # "none"
           /\ Jobs' = Jobs \ {job}
           /\ killCount' = killCount + (IF job.outcome = "KILLED" THEN 1 ELSE 0)
<1>1. Registered' = Registered /\ c \in Registered /\ Busy(c) /\ ~Busy(c)'
  BY DEF Collected, Registered, Busy
<1>2. JobOf(c) \in Jobs /\ JobOf(c).outcome = Outcome(c)
  BY <1>1 DEF Jobs, JobOf
<1>4. \A d \in Registered' \ {c} :
          d \in Registered /\ JobOf(d)' = JobOf(d) /\ Busy(d)' = Busy(d)
  BY <1>1, OthersKeepJobs DEF Collected
<1>5. \A d \in Registered \ {c} : JobOf(d) # JobOf(c)
  BY <1>1, JobsDiffer
<1>6. Jobs' = Jobs \ {JobOf(c)}
  BY <1>1, <1>4, <1>5 DEF Jobs
<1> QED
  BY <1>2, <1>6 DEF Collected, Result, KillIncrement

\* A step of the client is a step of the table, or invisible there.
LEMMA TableStep ==
  TypeInv /\ AgreeInv /\ OneEntryPerProcess /\ [Next]_vars => [Table!Next]_(Table!vars)
<1> SUFFICES ASSUME TypeInv, AgreeInv, OneEntryPerProcess, [Next]_vars
             PROVE  [Table!Next]_(Table!vars)
  OBVIOUS
<1>1. CASE Managing /\ Managing'
  <2>1. ASSUME NEW c \in Children, TakenUp(c) PROVE Table!Take
    <3>1. UNCHANGED killCount
      BY <2>1 DEF TakenUp
    <3> QED
      BY <1>1, <2>1, <3>1, TakenUpIsTake DEF Table!Take, Table!Job, Jobs
  <2>2. ASSUME NEW c \in Children, Finished(c) PROVE Table!Finish
    <3>1. UNCHANGED killCount
      BY <2>2 DEF Finished
    <3> QED
      BY <1>1, <2>2, <3>1, FinishedIsFinish DEF Table!Finish, Jobs
  <2>3. ASSUME NEW c \in Children, Collected(c) PROVE Table!Collect
    BY <1>1, <2>3, CollectedIsCollect DEF Table!Collect, Jobs
  <2>4. ASSUME Quiet PROVE UNCHANGED Table!vars
    BY <1>1, <2>4, QuietKeepsJobs DEF Table!vars, Jobs, Quiet
  <2> QED
    BY <1>1, <2>1, <2>2, <2>3, <2>4, JobStep DEF Table!Next
<1>2. CASE Managing /\ ~Managing'
  BY <1>2, StoppingIsFinal DEF Table!Next, Table!Close
<1>3. CASE ~Managing
  <2>1. ~Managing' /\ killCount' = killCount
    BY <1>3, StoppingIsFinal
  <2> DEFINE jobs == IF Managing THEN Jobs ELSE {}
  <2>2. jobs = {} /\ jobs' = {} /\ Managing' = Managing
    BY <1>3, <2>1, Zenon DEF Managing
  <2>3. UNCHANGED <<jobs, killCount, Managing>>
    BY <2>1, <2>2
  <2>4. UNCHANGED Table!vars
    BY <2>3, Zenon DEF Table!vars, Jobs
  <2> QED
    BY <2>4
<1> QED
  BY <1>1, <1>2, <1>3

\* Register, children, pipes, select loop and callbacks implement a table in
\* which a process has one job, a job gets one outcome, and the outcome is
\* collected and counted once.
THEOREM ClientIsJobTable == Spec => ImplementsJobTable
<1>1. Init => Table!Init
  BY DEF Init, Table!Init, Managing, Registered
<1> QED
  BY <1>1, TableStep, AgreeInvariant, OneEntry, PTL DEF Spec, ImplementsJobTable, Table!Spec

-----------------------------------------------------------------------------
(* Only overdue processes are killed, unless pids are reused.  Between the   *)
(* snapshot of ps that finds a process and the kill(2) that ends it lie the  *)
(* loop of setupMonitoring, the pipe and the sleep of the child: the pid     *)
(* must mean the same process all the way.                                  *)

\* Pid p belongs to a process called name, or to none any more.
StillMeans(p, name) ==
    /\ p \in Pids
    /\ os[p].state # "free"
    /\ os[p].state = "running" => os[p].name = name

\* The child of c, when it sleeps, sleeps on the process of its entry, and by
\* the time it wakes that process is as old as the entry demands.
AimsAt(c) ==
    /\ child[c].target = register[c].monitoredProcess
    /\ child[c].status = "none"
    /\ os[child[c].target].state = "running" =>
          os[child[c].target].age + child[c].left >= register[c].monitorDuration

Aimed(c) ==
    /\ StillMeans(register[c].monitoredProcess, register[c].monitoredName)
    /\ toChild[c] # <<>> =>
          toChild[c] = <<[targetPid |-> register[c].monitoredProcess,
                          duration  |-> register[c].monitorDuration]>>
    /\ child[c].state = "sleeping" => AimsAt(c)

FoundAsAsked ==
    pc = "setup" => \A p \in found : StillMeans(p, monitorRequests[next].processName)

AimInv == FoundAsAsked /\ \A c \in Registered : Aimed(c)

\* A pid once given is not given again, and the process that has it only ages.
Steady ==
    \A p \in Pids :
        os[p].state # "free" =>
            /\ os'[p].state # "free"
            /\ os'[p].state = "running" => /\ os[p].state = "running"
                                          /\ os'[p].name = os[p].name
                                          /\ os'[p].age >= os[p].age

\* Without reuse of pids every step is steady.
LEMMA OsIsSteady ==
  ASSUME TypeInv, ~PidReuse, [Next]_vars
  PROVE  Steady
<1>0. /\ DOMAIN os = Pids
      /\ \A p \in Pids : os[p].age \in 0 .. AgeCap /\ os[p].age \in Int
  BY BoundsAssumption DEF TypeInv, TypeOK
<1>1. ASSUME os' = os PROVE Steady
  BY <1>0, <1>1 DEF Steady
<1>2. ASSUME NEW q \in Pids, NEW new, os' = [os EXCEPT ![q] = new],
             new.state \notin {"running", "free"} \/ os[q].state = "free"
      PROVE  Steady
  <2>1. os'[q] = new /\ \A p \in Pids \ {q} : os'[p] = os[p]
    BY <1>0, <1>2 DEF TypeInv, TypeOK
  <2> QED
    BY <1>0, <1>2, <2>1 DEF Steady
<1>3. CASE EnvStep
  <2>1. ASSUME NEW p \in Pids, NEW name \in Names, Spawn(p, name) PROVE Steady
    BY <1>2, <2>1 DEF Spawn
  <2>2. ASSUME NEW p \in Pids, Exit(p) PROVE Steady
    BY <1>2, <2>2 DEF Exit, Process
  <2>3. ASSUME NEW p \in Pids, Reap(p) PROVE Steady
    BY <1>2, <2>3 DEF Reap, Process
  <2> QED
    BY <1>1, <1>3, <2>1, <2>2, <2>3 DEF EnvStep, ServerSendsConfig, ServerSendsHup,
       ServerSendsInt, Deliver
<1>4. CASE Tick
  <2>1. \A n \in 0 .. AgeCap : Bounded(n) >= n
    BY BoundsAssumption DEF Bounded
  <2>2. \A p \in Pids : os'[p] = IF os[p].state = "running"
                                 THEN [os[p] EXCEPT !.age = Bounded(@)] ELSE os[p]
    BY <1>4 DEF Tick
  <2>3. \A p \in Pids : /\ os'[p].state = os[p].state /\ os'[p].name = os[p].name
                        /\ os'[p].age >= os[p].age
    <3>1. \A p \in Pids : os[p] \in [state : ProcessState, name : Names \cup {NoName},
                                     age : 0 .. AgeCap]
      BY DEF TypeInv, TypeOK
    <3>2. ASSUME NEW p \in Pids, os[p].state = "running"
          PROVE  /\ os'[p].state = os[p].state /\ os'[p].name = os[p].name
                 /\ os'[p].age = Bounded(os[p].age)
      BY <2>2, <3>1, <3>2
    <3>3. ASSUME NEW p \in Pids, os[p].state # "running" PROVE os'[p] = os[p]
      BY <2>2, <3>3
    <3> QED
      BY <1>0, <2>1, <3>2, <3>3
  <2> QED
    BY <2>3 DEF Steady
<1>5. CASE ParentStep \/ Crash
  BY <1>1, <1>5 DEF ParentStep, ReadConfig, SearchProcesses, SearchFails, EndRefresh, EndSetup,
     SkipMonitored, ReuseChild, ForkChild, ForkFails, SetupVars, SelectReturns,
     SelectTimesOut, DispatchServer, DispatchChild, LoopAgain, LoopQuits, ReadOverdue,
     EndReap, KillChild, FinalReport, Crash
<1>6. ASSUME NEW c \in Children, ChildStep(c) PROVE Steady
  <2>1. CASE ChildKills(c) /\ os' # os
    <3>1. /\ os[child[c].target].state \in {"running", "zombie"}
          /\ os' = [os EXCEPT ![child[c].target] = Process("zombie", NoName)]
      BY <2>1 DEF ChildKills
    <3>2. CASE child[c].target \in Pids
      BY <1>2, <3>1, <3>2 DEF Process
    <3>3. CASE child[c].target \notin Pids
      BY <1>0, <1>1, <3>1, <3>3 DEF TypeInv, TypeOK
    <3> QED
      BY <3>2, <3>3
  <2> QED
    BY <1>1, <1>6, <2>1 DEF ChildStep, ChildReports, ChildTakes, ChildSeesEof
<1>7. CASE UNCHANGED vars
  BY <1>1, <1>7 DEF vars
<1> QED
  BY <1>3, <1>4, <1>5, <1>6, <1>7 DEF Next

\* A steady step keeps the meaning of a pid.
LEMMA MeaningKept ==
  ASSUME Steady, NEW p, NEW name, StillMeans(p, name)
  PROVE  StillMeans(p, name)'
BY DEF Steady, StillMeans

\* The step leaves the aim of c alone.
AimUntouched(c) ==
    /\ SameEntry(c)
    /\ toChild'[c] = <<>> \/ toChild'[c] = toChild[c]
    /\ child'[c].state = "sleeping" =>
          /\ child[c].state = "sleeping"
          /\ child'[c].target = child[c].target
          /\ child'[c].status = child[c].status
          /\ child'[c].left = child[c].left

\* Such a step keeps it.
LEMMA AimKept ==
  ASSUME TypeInv, TypeInv', Steady, NEW c \in Children, Aimed(c), AimUntouched(c)
  PROVE  Aimed(c)'
<1> DEFINE p == register[c].monitoredProcess
<1>1. StillMeans(p, register[c].monitoredName)
  BY DEF Aimed
<1>2. StillMeans(p, register[c].monitoredName)'
  BY <1>1, MeaningKept DEF AimUntouched, SameEntry, StillMeans, Steady
<1>3. /\ os[p].age \in Int /\ child[c].left \in Int
      /\ register[c].monitorDuration \in Int
  <2>1. os[p].age \in 0 .. AgeCap /\ child[c] \in ChildType /\ register[c] \in EntryType
    BY <1>1 DEF StillMeans, TypeInv, TypeOK
  <2> QED
    BY <2>1, BoundsAssumption DEF EntryType, ChildType
<1>4. ASSUME child'[c].state = "sleeping" PROVE AimsAt(c)'
  <2>1. AimsAt(c) /\ child'[c].target = p /\ child'[c].status = "none"
        /\ child'[c].left = child[c].left
    BY <1>4 DEF Aimed, AimUntouched, AimsAt
  <2>2. os'[p].state = "running" => os[p].state = "running" /\ os'[p].age >= os[p].age
    BY <1>1 DEF StillMeans, Steady
  <2>3. os'[p].age \in Int
    BY <1>1, BoundsAssumption DEF StillMeans, TypeInv, TypeOK
  <2>4. register'[c].monitoredProcess = p
        /\ register'[c].monitorDuration = register[c].monitorDuration
    BY DEF AimUntouched, SameEntry
  <2>5. os[p].state = "running" => os[p].age + child[c].left >= register[c].monitorDuration
    BY <1>4, <2>1 DEF AimsAt, AimUntouched, Aimed
  <2> QED
    BY <1>3, <2>1, <2>2, <2>3, <2>4, <2>5 DEF AimsAt
<1> QED
  BY <1>2, <1>4 DEF Aimed, AimUntouched, SameEntry

\* A second passes: the process gets older as the sleep gets shorter.
LEMMA TickKeepsAim ==
  ASSUME TypeInv, Steady, Tick, NEW c \in Registered, Aimed(c)
  PROVE  Aimed(c)'
<1> DEFINE p == register[c].monitoredProcess
<1>1. c \in Children /\ p \in Pids /\ StillMeans(p, register[c].monitoredName)
  BY RegisteredAreChildren DEF Aimed, StillMeans
<1>2. /\ os[p] \in [state : ProcessState, name : Names \cup {NoName}, age : 0 .. AgeCap]
      /\ child[c] \in ChildType /\ register[c] \in EntryType
  BY <1>1 DEF TypeInv, TypeOK
<1>3. SameEntry(c) /\ toChild' = toChild
  BY <1>1, <1>2 DEF Tick, SameEntry, EntryType
<1>4. /\ child'[c].state = child[c].state /\ child'[c].target = child[c].target
      /\ child'[c].status = child[c].status
      /\ child'[c].left = IF child[c].left > 0 THEN child[c].left - 1 ELSE child[c].left
  BY <1>1, <1>2 DEF Tick, ChildType
<1>5. os'[p].state = "running" => /\ os[p].state = "running"
                                  /\ os'[p].age = Bounded(os[p].age)
  <2>1. os[p].state # "running" => os'[p] = os[p]
    BY <1>1 DEF Tick
  <2>2. os[p].state = "running" => os'[p].age = Bounded(os[p].age)
    BY <1>1, <1>2 DEF Tick
  <2> QED
    BY <2>1, <2>2
<1>6. StillMeans(p, register[c].monitoredName)'
  BY <1>1, <1>3, MeaningKept DEF SameEntry, StillMeans, Steady
<1>7. ASSUME child'[c].state = "sleeping" PROVE AimsAt(c)'
  <2>1. AimsAt(c) /\ child[c].target = p
    BY <1>4, <1>7 DEF Aimed, AimsAt
  <2>2. /\ os[p].age \in 0 .. AgeCap /\ AgeCap \in Nat
        /\ child[c].left \in 0 .. (AgeCap - 1)
        /\ register[c].monitorDuration \in 0 .. (AgeCap - 1)
    BY <1>2, BoundsAssumption DEF ChildType, EntryType
  <2>3. os'[p].state = "running" => os'[p].age + child'[c].left >= register[c].monitorDuration
    BY <1>4, <1>5, <2>1, <2>2 DEF AimsAt, Bounded
  <2> QED
    BY <1>3, <1>4, <2>1, <2>3 DEF AimsAt, SameEntry
<1> QED
  BY <1>3, <1>6, <1>7 DEF Aimed, SameEntry

\* A child takes its job out of the pipe and sleeps for the whole duration.
LEMMA TakesAimed ==
  ASSUME TypeInv, TypeInv', Steady, NEW c \in Children, ChildTakes(c), Aimed(c)
  PROVE  Aimed(c)'
<1> DEFINE p == register[c].monitoredProcess
           job == [targetPid |-> p, duration |-> register[c].monitorDuration]
<1>1. /\ toChild[c] = <<job>> /\ Head(<<job>>) = job /\ Tail(<<job>>) = <<>>
      /\ register' = register /\ os' = os
  BY DEF ChildTakes, Aimed
<1>2. /\ toChild'[c] = <<>> /\ child'[c].target = p /\ child'[c].status = "none"
      /\ child'[c].left = register[c].monitorDuration
  BY <1>1 DEF ChildTakes, TypeInv, TypeOK
<1>3. p \in Pids /\ os[p].age \in 0 .. AgeCap /\ register[c].monitorDuration \in 0 .. (AgeCap - 1)
  BY DEF Aimed, StillMeans, TypeInv, TypeOK, EntryType
<1>4. os[p].age + register[c].monitorDuration >= register[c].monitorDuration
  BY <1>3, BoundsAssumption
<1>5. AimsAt(c)'
  BY <1>1, <1>2, <1>4 DEF AimsAt
<1> QED
  BY <1>1, <1>2, <1>5 DEF Aimed, StillMeans

\* A process of the snapshot is given a new entry.
LEMMA TakenUpIsAimed ==
  ASSUME TypeInv, AgreeInv, AimInv, Steady, NEW p \in Pids, NEW c \in Children,
         ReuseChild(p, c) \/ ForkChild(p, c)
  PROVE  Aimed(c)'
<1> DEFINE request == monitorRequests[next]
           job == [targetPid |-> p, duration |-> request.monitorDuration]
<1>1. pc = "setup" /\ p \in found /\ UNCHANGED os
      /\ register' = [register EXCEPT ![c] = NewEntry(p, request)]
  BY DEF ReuseChild, ForkChild, IsFirst, SetupVars
<1>2. /\ register'[c].monitoredProcess = p
      /\ register'[c].monitoredName = request.processName
      /\ register'[c].monitorDuration = request.monitorDuration
  BY <1>1 DEF TypeInv, TypeOK, NewEntry
<1>3. StillMeans(register[c].monitoredProcess, register[c].monitoredName)'
  <2>1. StillMeans(p, request.processName)
    BY <1>1 DEF AimInv, FoundAsAsked
  <2> QED
    BY <1>1, <1>2, <2>1 DEF StillMeans
<1>4. CASE ReuseChild(p, c)
  <2>1. Idle(c)
    BY <1>1, <1>4 DEF ReuseChild, IsFirst, FreeChildren, AgreeInv, RegisterAgrees, Agrees,
       Managing
  <2>2. child'[c].state # "sleeping"
    BY <1>4, <2>1 DEF ReuseChild, Idle
  <2>3. toChild'[c] = Append(<<>>, job) /\ Append(<<>>, job) = <<job>>
    BY <1>4, <2>1 DEF ReuseChild, Idle, JobMessage, TypeInv, TypeOK
  <2> QED
    BY <1>2, <1>3, <2>2, <2>3 DEF Aimed
<1>5. CASE ForkChild(p, c)
  <2>1. c \notin Registered
    BY <1>5 DEF ForkChild, Registered, TypeInv, TypeOK
  <2>2. toChild'[c] = <<>>
    BY <1>5, <2>1 DEF ForkChild, AgreeInv, UnforkedIsBlank
  <2>3. /\ child'[c].target = p /\ child'[c].status = "none"
        /\ child'[c].left = request.monitorDuration
    BY <1>5 DEF ForkChild, TypeInv, TypeOK
  <2>4. request.monitorDuration \in 0 .. (AgeCap - 1) /\ os[p].age \in 0 .. AgeCap
    BY <1>1, RequestType DEF TypeInv, TypeOK
  <2>5. os[p].age + request.monitorDuration >= request.monitorDuration
    BY <2>4, BoundsAssumption
  <2>6. AimsAt(c)'
    BY <1>1, <1>2, <2>3, <2>5 DEF AimsAt
  <2> QED
    BY <1>2, <1>3, <2>2, <2>6 DEF Aimed
<1> QED
  BY <1>4, <1>5

\* The snapshot of ps goes on meaning what it was taken for.
LEMMA FoundKept ==
  ASSUME TypeInv, AimInv, Steady, [Next]_vars
  PROVE  FoundAsAsked'
<1>1. ASSUME pc' = pc, found' \subseteq found, UNCHANGED <<next, monitorRequests>>
      PROVE  FoundAsAsked'
  BY <1>1, MeaningKept DEF AimInv, FoundAsAsked
<1>2. ASSUME pc' # "setup" PROVE FoundAsAsked'
  BY <1>2 DEF FoundAsAsked
<1>3. CASE SearchProcesses
  BY <1>3 DEF SearchProcesses, Shown, Matching, FoundAsAsked, StillMeans
<1>4. CASE EnvStep \/ Tick \/ (\E c \in Children : ChildStep(c)) \/ UNCHANGED vars
  BY <1>1, <1>4 DEF EnvStep, Spawn, Exit, Reap, ServerSendsConfig, ServerSendsHup,
     ServerSendsInt, Deliver, Tick, ChildStep, ChildKills, ChildReports, ChildTakes,
     ChildSeesEof, vars, parentVars
<1>5. CASE ParentStep /\ ~SearchProcesses
  <2>1. CASE \E p \in Pids, c \in Children :
               SkipMonitored(p) \/ ReuseChild(p, c) \/ ForkChild(p, c)
    BY <1>1, <2>1 DEF SkipMonitored, ReuseChild, ForkChild, SetupVars
  <2>2. CASE \/ ReadConfig \/ EndRefresh \/ EndSetup \/ SelectReturns \/ SelectTimesOut
             \/ DispatchServer \/ LoopAgain \/ LoopQuits \/ EndReap \/ FinalReport
             \/ SearchFails \/ (\E p \in Pids : ForkFails(p))
    BY <1>2, <2>2 DEF ReadConfig, SearchFails, EndRefresh, EndSetup, SelectReturns, SelectTimesOut,
       DispatchServer, LoopAgain, LoopQuits, EndReap, FinalReport, ForkFails
  <2>3. CASE \E c \in Children : DispatchChild(c) \/ ReadOverdue(c) \/ KillChild(c)
    BY <1>2, <2>3 DEF DispatchChild, ReadOverdue, KillChild, parentVars
  <2>4. CASE \E p \in Pids : SkipMonitored(p)
    BY <1>1, <2>4 DEF SkipMonitored, SetupVars
  <2> QED
    BY <1>5, <2>1, <2>2, <2>3, <2>4 DEF ParentStep
<1>6. CASE Crash
  BY <1>2, <1>6 DEF Crash
<1> QED
  BY <1>3, <1>4, <1>5, <1>6 DEF Next

\* A child whose own part of the state does not change keeps its aim.
LEMMA SameIsUntouched ==
  ASSUME NEW c,
         register'[c] = register[c], toChild'[c] = toChild[c], child'[c] = child[c]
  PROVE  AimUntouched(c)
BY DEF AimUntouched, SameEntry

\* The steps that neither pass time nor give or take a job.
LEMMA OtherStepsUntouched ==
  ASSUME TypeInv, [Next]_vars, ~Tick,
         \A p \in Pids, c \in Children : ~ReuseChild(p, c) /\ ~ForkChild(p, c),
         \A c \in Children : ~ChildTakes(c)
  PROVE  numForked' = numForked /\ \A c \in Children : AimUntouched(c)
<1> DEFINE Goal == numForked' = numForked /\ \A c \in Children : AimUntouched(c)
<1>1. ASSUME UNCHANGED <<numForked, register, toChild, child>> PROVE Goal
  BY <1>1, SameIsUntouched
<1>2. ASSUME UNCHANGED <<numForked, toChild, child>>, NEW d \in Children, DidChildKill(d)
      PROVE  Goal
  <2>1. \A c \in Children : SameEntry(c)
    BY <1>2 DEF DidChildKill, SameEntry, TypeInv, TypeOK, EntryType
  <2> QED
    BY <1>2, <2>1 DEF AimUntouched
<1>3. ASSUME UNCHANGED <<numForked, toChild, register>>, NEW d \in Children,
             child'[d].state # "sleeping", \A c \in Children \ {d} : child'[c] = child[c]
      PROVE  Goal
  BY <1>3 DEF AimUntouched, SameEntry
<1>4. CASE EnvStep \/ Crash \/ UNCHANGED vars
  BY <1>1, <1>4 DEF EnvStep, Spawn, Exit, Reap, ServerSendsConfig, ServerSendsHup,
     ServerSendsInt, Deliver, Crash, vars, childVars, parentVars
<1>5. CASE ParentStep
  <2>1. ASSUME NEW c \in Children, DispatchChild(c) \/ ReadOverdue(c) PROVE Goal
    BY <1>2, <2>1 DEF DispatchChild, ReadOverdue, childVars
  <2>2. ASSUME NEW c \in Children, KillChild(c) PROVE Goal
    <3>1. child'[c].state # "sleeping" /\ \A d \in Children \ {c} : child'[d] = child[d]
      BY <2>2 DEF KillChild, TypeInv, TypeOK
    <3> QED
      BY <1>3, <2>2, <3>1 DEF KillChild, parentVars
  <2>3. CASE \/ ReadConfig \/ SearchProcesses \/ SearchFails \/ EndRefresh \/ EndSetup
             \/ (\E p \in Pids : SkipMonitored(p) \/ ForkFails(p))
    BY <1>1, <2>3 DEF ReadConfig, SearchProcesses, SearchFails, EndRefresh, EndSetup, SkipMonitored,
       ForkFails, SetupVars, childVars
  <2>4. CASE \/ SelectReturns \/ SelectTimesOut \/ DispatchServer
             \/ LoopAgain \/ LoopQuits \/ EndReap \/ FinalReport
    BY <1>1, <2>4 DEF SelectReturns, SelectTimesOut, DispatchServer,
       LoopAgain, LoopQuits, EndReap, FinalReport, childVars
  <2> QED
    BY <1>5, <2>1, <2>2, <2>3, <2>4 DEF ParentStep
<1>6. ASSUME NEW c \in Children, ChildStep(c) PROVE Goal
  <2>1. UNCHANGED <<numForked, toChild, register>>
    BY <1>6 DEF ChildStep, ChildKills, ChildReports, ChildSeesEof, parentVars
  <2>2. child'[c].state # "sleeping" /\ \A d \in Children \ {c} : child'[d] = child[d]
    <3>1. CASE ChildKills(c)
      <4>1. \/ child' = [child EXCEPT ![c].state = "reporting", ![c].status = "KILLED"]
            \/ child' = [child EXCEPT ![c].state = "reporting", ![c].status = "DIED"]
        BY <3>1 DEF ChildKills
      <4> QED
        BY <4>1 DEF TypeInv, TypeOK, ChildType
    <3>2. CASE ChildReports(c)
      <4>1. \/ child' = [child EXCEPT ![c].state = "waiting"]
            \/ child' = [child EXCEPT ![c].state = "dead"]
        BY <3>2 DEF ChildReports
      <4>2. child \in [Children -> ChildType] /\ child[c] \in ChildType
        BY DEF TypeInv, TypeOK
      <4> QED
        BY <4>1, <4>2 DEF ChildType
    <3>3. CASE ChildSeesEof(c)
      BY <3>3 DEF ChildSeesEof, TypeInv, TypeOK
    <3> QED
      BY <1>6, <3>1, <3>2, <3>3 DEF ChildStep
  <2> QED
    BY <1>3, <2>1, <2>2
<1> QED
  BY <1>4, <1>5, <1>6 DEF Next

\* Every step keeps the aim.
LEMMA AimNext ==
  ~PidReuse /\ TypeInv /\ TypeInv' /\ AgreeInv /\ AimInv /\ [Next]_vars => AimInv'
<1> SUFFICES ASSUME ~PidReuse, TypeInv, TypeInv', AgreeInv, AimInv, [Next]_vars
             PROVE  \A c \in Registered' : Aimed(c)'
  BY OsIsSteady, FoundKept DEF AimInv
<1>1. Steady
  BY OsIsSteady
<1>2. \A c \in Registered : c \in Children /\ Aimed(c)
  BY RegisteredAreChildren DEF AimInv
<1>3. CASE Tick
  <2>1. Registered' = Registered
    BY <1>3 DEF Tick, parentVars, Registered
  <2> QED
    BY <1>1, <1>2, <1>3, <2>1, TickKeepsAim
<1>4. ASSUME NEW p \in Pids, NEW c \in Children, ReuseChild(p, c) \/ ForkChild(p, c)
      PROVE  \A d \in Registered' : Aimed(d)'
  <2>1. Aimed(c)'
    BY <1>1, <1>4, TakenUpIsAimed
  <2>2. Registered' \subseteq Registered \cup {c}
    BY <1>4, SMTT(60) DEF ReuseChild, ForkChild, SetupVars, Registered, TypeInv, TypeOK
  <2>3. \A d \in Children \ {c} : AimUntouched(d)
    <3>1. \A d \in Children \ {c} : /\ register'[d] = register[d] /\ toChild'[d] = toChild[d]
                                    /\ child'[d] = child[d]
      BY <1>4 DEF ReuseChild, ForkChild, TypeInv, TypeOK
    <3> QED
      BY <3>1, SameIsUntouched
  <2> QED
    BY <1>1, <1>2, <2>1, <2>2, <2>3, AimKept
<1>5. ASSUME NEW c \in Children, ChildTakes(c) PROVE \A d \in Registered' : Aimed(d)'
  <2>1. Registered' = Registered /\ c \in Registered
    BY <1>5, ActiveIsRegistered DEF ChildTakes, parentVars, Registered
  <2>2. Aimed(c)'
    BY <1>1, <1>2, <1>5, <2>1, TakesAimed
  <2>3. \A d \in Children \ {c} : AimUntouched(d)
    <3>1. \A d \in Children \ {c} : /\ register'[d] = register[d] /\ toChild'[d] = toChild[d]
                                    /\ child'[d] = child[d]
      BY <1>5 DEF ChildTakes, TypeInv, TypeOK
    <3> QED
      BY <3>1, SameIsUntouched
  <2> QED
    BY <1>1, <1>2, <2>1, <2>2, <2>3, AimKept
<1>6. CASE ~ (\/ Tick
              \/ \E p \in Pids, c \in Children : ReuseChild(p, c) \/ ForkChild(p, c)
              \/ \E c \in Children : ChildTakes(c))
  <2>1. numForked' = numForked /\ \A c \in Children : AimUntouched(c)
    BY <1>6, OtherStepsUntouched
  <2>2. Registered' = Registered
    BY <2>1 DEF Registered
  <2> QED
    BY <1>1, <1>2, <2>1, <2>2, AimKept
<1> QED
  BY <1>3, <1>4, <1>5, <1>6

\* Only the end of its sleep makes a child hit, and by then the process is overdue.
LEMMA HitsAreOverdue ==
  ASSUME TypeInv, AgreeInv, AimInv, [Next]_vars, NEW c \in Children, ChildHits(c)
  PROVE  LET victim == os[child[c].target] IN
            victim.state = "running" =>
               /\ victim.name = register[c].monitoredName
               /\ victim.age >= register[c].monitorDuration
<1>1. child[c].state = "sleeping" /\ c \in Registered
  BY ActiveIsRegistered DEF ChildHits
<1>2. Aimed(c) /\ AimsAt(c)
  BY <1>1 DEF AimInv, Aimed
<1>3. child'[c].status # child[c].status
  BY <1>2 DEF ChildHits, AimsAt
<1>4. child[c].left = 0
  <2>1. CASE ChildKills(c)
    BY <2>1 DEF ChildKills
  <2>2. CASE Tick
    BY <1>3, <2>2 DEF Tick, TypeInv, TypeOK, ChildType
  <2>3. ASSUME NEW p \in Pids, NEW d \in Children, ForkChild(p, d) PROVE FALSE
    <3>1. d \notin Registered
      BY <2>3 DEF ForkChild, Registered, TypeInv, TypeOK
    <3> QED
      BY <1>1, <1>3, <2>3, <3>1 DEF ForkChild, TypeInv, TypeOK
  <2>4. ASSUME NEW d \in Children, KillChild(d) PROVE FALSE
    BY <1>3, <2>4 DEF KillChild, TypeInv, TypeOK, ChildType
  <2>5. ASSUME NEW d \in Children, ChildStep(d), ~ChildKills(c) PROVE FALSE
    <3>1. CASE d # c
      <4>1. child'[c] = child[c]
        BY <2>5, <3>1 DEF ChildStep, ChildKills, ChildReports, ChildTakes, ChildSeesEof,
           TypeInv, TypeOK
      <4> QED
        BY <1>3, <4>1
    <3>2. CASE d = c
      BY <1>1, <2>5, <3>2 DEF ChildStep, ChildReports, ChildTakes, ChildSeesEof
    <3> QED
      BY <3>1, <3>2
  <2>6. CASE EnvStep \/ Crash \/ UNCHANGED vars
    BY <1>3, <2>6 DEF EnvStep, Spawn, Exit, Reap, ServerSendsConfig, ServerSendsHup,
       ServerSendsInt, Deliver, Crash, vars, childVars
  <2>7. CASE ParentStep
    BY <1>3, <2>3, <2>4, <2>7 DEF ParentStep, ReadConfig, SearchProcesses, SearchFails, EndRefresh,
       EndSetup, SkipMonitored, ReuseChild, ForkFails, SelectReturns, SelectTimesOut,
       DispatchServer, DispatchChild, LoopAgain, LoopQuits, ReadOverdue, EndReap,
       FinalReport, childVars
  <2> QED
    BY <2>1, <2>2, <2>5, <2>6, <2>7 DEF Next
<1>5. /\ child[c].target = register[c].monitoredProcess
      /\ StillMeans(register[c].monitoredProcess, register[c].monitoredName)
  BY <1>2 DEF Aimed, AimsAt
<1>6. os[child[c].target].age \in 0 .. AgeCap
  BY <1>5 DEF StillMeans, TypeInv, TypeOK
<1> QED
  BY <1>2, <1>4, <1>5, <1>6, BoundsAssumption DEF StillMeans, AimsAt

\* When the kernel does not give a pid again, a child only ever kills a process
\* that carries the name its entry was made for and has run for its whole time,
\* through every reuse of a child, every refresh and every new configuration.
THEOREM OnlyOverdueAreKilled == ~PidReuse => (Spec => KillsOnlyOverdue)
<1> SUFFICES ASSUME ~PidReuse PROVE Spec => KillsOnlyOverdue
  OBVIOUS
<1>1. Init => AimInv
  BY DEF Init, AimInv, FoundAsAsked, Registered
<1>2. TypeInv /\ TypeInv' /\ AgreeInv /\ AimInv /\ [Next]_vars => AimInv'
  BY AimNext
<1>3. TypeInv /\ AgreeInv /\ AimInv /\ [Next]_vars =>
        \A c \in Children : ChildHits(c) =>
          LET victim == os[child[c].target] IN
             victim.state = "running" =>
                /\ victim.name = register[c].monitoredName
                /\ victim.age >= register[c].monitorDuration
  BY HitsAreOverdue
<1> QED
  BY <1>1, <1>2, <1>3, AgreeInvariant, PTL DEF Spec, KillsOnlyOverdue
=============================================================================
