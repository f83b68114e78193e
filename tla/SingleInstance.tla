---------------------------- MODULE SingleInstance ----------------------------
(***************************************************************************)
(* killOtherProcessAndVerify: every procnanny.server (procnanny.client)      *)
(* looks, before it does anything else, for other instances of itself in     *)
(* the output of ps, kills them, and looks again - once for instances that   *)
(* were started as "procnanny.server" and once for "./procnanny.server".     *)
(* The instances start, search, kill and are killed independently of each    *)
(* other; only the kernel's table of processes and the port connect them.    *)
(***************************************************************************)
EXTENDS Integers, FiniteSets

CONSTANTS Instances,  \* the processes that are started, each at most once
          Programs,   \* which program they run: "client", "server"
          NULL

ASSUME SingleAssumption ==
    Programs \subseteq {"client", "server"} /\ NULL \notin Instances

VARIABLES program,    \* the program that all of them run
          pc,         \* where each instance is
          form,       \* how its command line begins: 1 plain, 2 with "./"
          k,          \* the form it is searching for
          todo,       \* the others it found and has not killed yet
          ok,         \* "first || second" so far
          doomed,     \* the instances with a SIGKILL pending
          port,       \* the instance that has bound the server's port
          slip,       \* the instances for which a search or the kills went wrong
          complained  \* those that logged that others did not die

vars == <<program, pc, form, k, todo, ok, doomed, port, slip, complained>>

Over == {"off", "ended", "killed"}

\* The instances that ps lists.
Alive == {p \in Instances : pc[p] \notin Over}

-----------------------------------------------------------------------------
(***************************************************************************)
(* searchRunningProcesses(name, ignoring options)                          *)
(***************************************************************************)
\* grep finds the plain name in every instance's command line, "./" only in
\* those that were started with it.
Contain(f) == IF f = 1 THEN Alive ELSE {q \in Alive : form[q] = 2}

\* What the first word of the command is compared with is the whole name.
Match(f) == {q \in Alive : form[q] = f}

\* The number of lines: those, one or two internal ones (the shell's, and grep's
\* if it has started), and one more if another starter's pipeline is running.
Lines(f) == {Cardinality(Contain(f)) + internal + foreign :
               internal \in 1..2, foreign \in 0..(IF Cardinality(Alive) > 1 THEN 1 ELSE 0)}

\* Faulty variant: three internal lines are expected.
ThreeInternal(f, i) == IF i <= 3 THEN {} ELSE Match(f)

\* The instances in the array, {} if NULL is returned with 0 found.
Found(f, i) == IF i <= 2 THEN {} ELSE Match(f)

\* A process was there, and was taken for an internal line.
Missed(f, i) == i <= 2 /\ Match(f) # {}

-----------------------------------------------------------------------------
\* What a process knows ends with it.
Forget(p) ==
    /\ form' = [form EXCEPT ![p] = 1]
    /\ k' = [k EXCEPT ![p] = 1]
    /\ todo' = [todo EXCEPT ![p] = {}]
    /\ ok' = [ok EXCEPT ![p] = FALSE]
    /\ doomed' = doomed \ {p}
    /\ complained' = complained \ {p}

\* Faulty variant: the loop over the forms goes one too far.
OneFormTooMany(p, result) ==
    /\ ok' = [ok EXCEPT ![p] = @ \/ result]
    /\ k' = [k EXCEPT ![p] = @ + 1]
    /\ pc' = [pc EXCEPT ![p] = IF k[p] < 3 THEN "search"
                               ELSE IF ok[p] \/ result THEN "passed" ELSE "refused"]

\* killOtherProcessAndVerifyExact returns result to killOtherProcessAndVerify:
\* the other form comes next, and with the second main() goes on, or exits.
Return(p, result) ==
    /\ ok' = [ok EXCEPT ![p] = @ \/ result]
    /\ k' = [k EXCEPT ![p] = 2]
    /\ pc' = [pc EXCEPT ![p] = IF k[p] = 1 THEN "search"
                               ELSE IF ok[p] \/ result THEN "passed" ELSE "refused"]

\* The user starts an instance.
Start(p) ==
    /\ pc[p] = "off"
    /\ pc' = [pc EXCEPT ![p] = "search"]
    /\ \E f \in 1..2 : form' = [form EXCEPT ![p] = f]
    /\ UNCHANGED <<program, k, todo, ok, doomed, port, slip, complained>>

\* Faulty variant: the searching process does not leave itself out.
NotEvenSelf(p, found) == found

\* getpid() != p->pid
Others(p, found) == found \ {p}

\* The search: nothing, or the processes to kill.
Search(p) ==
    /\ pc[p] = "search"
    /\ \E i \in Lines(k[p]) :
         /\ IF Found(k[p], i) = {} THEN Return(p, TRUE) /\ UNCHANGED todo
            ELSE /\ todo' = [todo EXCEPT ![p] = Others(p, Found(k[p], i))]
                 /\ pc' = [pc EXCEPT ![p] = "kill"]
                 /\ UNCHANGED <<k, ok>>
         /\ slip' = IF Missed(k[p], i) THEN slip \union {p} ELSE slip
    /\ UNCHANGED <<program, form, doomed, port, complained>>

\* popen() or malloc() fails, or pclose() does not return 0.
SearchFails(p) ==
    /\ pc[p] \in {"search", "verify"}
    /\ Return(p, FALSE)
    /\ slip' = slip \union {p}
    /\ UNCHANGED <<program, form, todo, doomed, port, complained>>

\* A client's logger has no socket yet: the entry "Another procnanny.client
\* found. Killing it." cannot be written, and saveLogReport exits.
ExitAtLog(p) ==
    /\ pc[p] = "kill"
    /\ program = "client"
    /\ todo[p] # {}
    /\ pc' = [pc EXCEPT ![p] = "ended"]
    /\ Forget(p)
    /\ UNCHANGED <<program, port, slip>>

\* kill(q, SIGKILL) returns 0: q is doomed, or a zombie.
KillNext(p) ==
    /\ pc[p] = "kill"
    /\ program = "server"
    /\ \E q \in todo[p] :
         /\ todo' = [todo EXCEPT ![p] = @ \ {q}]
         /\ doomed' = IF q \in Alive THEN doomed \union {q} ELSE doomed
    /\ UNCHANGED <<program, pc, form, k, ok, port, slip, complained>>

\* q is gone: kill() fails, and the function returns without a look at the rest.
KillFails(p) ==
    /\ pc[p] = "kill"
    /\ program = "server"
    /\ \E q \in todo[p] : q \notin Alive
    /\ Return(p, FALSE)
    /\ slip' = slip \union {p}
    /\ UNCHANGED <<program, form, todo, doomed, port, complained>>

KillsDone(p) ==
    /\ pc[p] = "kill"
    /\ todo[p] = {}
    /\ pc' = [pc EXCEPT ![p] = "verify"]
    /\ UNCHANGED <<program, form, k, todo, ok, doomed, port, slip, complained>>

\* The second search may find nothing or the searching process alone.  Anything
\* else is an error: "Sent kill signal to other procnannys, but they didn't die."
Verify(p) ==
    /\ pc[p] = "verify"
    /\ \E i \in Lines(k[p]) :
         LET alone == Found(k[p], i) \subseteq {p}
         IN  /\ Return(p, alone)
             /\ complained' = IF alone THEN complained ELSE complained \union {p}
             /\ slip' = IF Missed(k[p], i) THEN slip \union {p} ELSE slip
    /\ UNCHANGED <<program, form, todo, doomed, port>>

\* main() goes on: the server binds its port, which another one may have, or
\* may have had a moment ago.
GoOn(p) ==
    /\ pc[p] = "passed"
    /\ program = "server" => port = NULL
    /\ pc' = [pc EXCEPT ![p] = "serving"]
    /\ port' = IF program = "server" THEN p ELSE port
    /\ UNCHANGED <<program, form, k, todo, ok, doomed, slip, complained>>

BindFails(p) ==
    /\ pc[p] = "passed"
    /\ program = "server"
    /\ port # NULL \/ \E q \in Instances : pc[q] = "killed"
    /\ pc' = [pc EXCEPT ![p] = "ended"]
    /\ Forget(p)
    /\ UNCHANGED <<program, port, slip>>

\* killOtherProcessAndVerify has returned false: exit(-1).
GiveUp(p) ==
    /\ pc[p] = "refused"
    /\ pc' = [pc EXCEPT ![p] = "ended"]
    /\ Forget(p)
    /\ UNCHANGED <<program, port, slip>>

\* The kernel delivers the SIGKILL.  Until then the instance may run on.
Die(p) ==
    /\ p \in doomed
    /\ pc' = [pc EXCEPT ![p] = "killed"]
    /\ port' = IF port = p THEN NULL ELSE port
    /\ Forget(p)
    /\ UNCHANGED <<program, slip>>

Step(p) ==
    \/ Search(p) \/ SearchFails(p) \/ ExitAtLog(p) \/ KillNext(p) \/ KillFails(p)
    \/ KillsDone(p) \/ Verify(p) \/ GoOn(p) \/ BindFails(p) \/ GiveUp(p)

Init ==
    /\ program \in Programs
    /\ pc = [p \in Instances |-> "off"]
    /\ form = [p \in Instances |-> 1]
    /\ k = [p \in Instances |-> 1]
    /\ todo = [p \in Instances |-> {}]
    /\ ok = [p \in Instances |-> FALSE]
    /\ doomed = {}
    /\ port = NULL
    /\ slip = {}
    /\ complained = {}

Next ==
    \/ \E p \in Instances : Start(p)
    \/ \E p \in Instances : Step(p)
    \/ \E p \in Instances : Die(p)

Spec == Init /\ [][Next]_vars

-----------------------------------------------------------------------------
TypeOK ==
    /\ program \in Programs
    /\ pc \in [Instances -> Over \union {"search", "kill", "verify", "passed", "refused", "serving"}]
    /\ form \in [Instances -> 1..2] /\ k \in [Instances -> 1..2]
    /\ todo \in [Instances -> SUBSET Instances]
    /\ ok \in [Instances -> BOOLEAN]
    /\ doomed \subseteq Instances /\ slip \subseteq Instances /\ complained \subseteq Instances
    /\ port \in Instances \union {NULL}

\* main() has gone on past the check.
Passed == {p \in Instances : pc[p] \in {"passed", "serving"}}

\* Two instances get past the check and both survive only by accident: one of
\* them missed a process behind the internal lines, could not search, or lost
\* the rest of its list to a kill() that failed.  Whatever the order in which
\* two instances start, search and kill, at least one sees the other.
TwoOnlyByAccident ==
    \A p, q \in Passed \ doomed : p # q => slip \intersect {p, q} # {}

\* An instance that is alone is not stopped by its own check: it never kills
\* itself, and finding itself, and only itself, twice is no error.
NotStoppedAlone ==
    \A p \in Instances :
        (\A q \in Instances \ {p} : pc[q] = "off") /\ p \notin slip =>
            pc[p] \notin {"refused", "ended", "killed"} /\ p \notin doomed

\* After the entry "Sent kill signal to other procnannys, but they didn't die."
\* (Process.c:276) the function returns false, and main() exits on false
\* (ServerMain.c:31): nobody goes on beside a process that would not die.
DidntDieIsFatal == Passed \intersect complained = {}
=============================================================================
