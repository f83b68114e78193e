------------------------------- MODULE JobTable -------------------------------
(***************************************************************************)
(* What a procnanny.client promises, without its register, its children and *)
(* their pipes: a table of jobs, at most one for each process.  A job is     *)
(* taken with the name and the duration of a configuration line, it gets an  *)
(* outcome, and it is collected once, which counts it if the process was     *)
(* killed.  When the client stops the jobs that are left are dropped.        *)
(* ClientMonitor implements this with children that are reused.             *)
(***************************************************************************)
EXTENDS Integers

CONSTANTS Pids,       \* the processes
          Names,      \* their names
          Durations   \* the monitoring durations

VARIABLES jobs,       \* the jobs
          count,      \* the kills that were collected
          open        \* the client has not begun to stop

vars == <<jobs, count, open>>

Job == [pid : Pids, name : Names, duration : Durations,
        outcome : {"none", "KILLED", "DIED"}]

Init ==
    /\ jobs = {}
    /\ count = 0
    /\ open = TRUE

\* A process that has no job is taken up.
Take ==
    /\ open
    /\ \E job \in jobs' :
         /\ \A other \in jobs : other.pid # job.pid
         /\ job \in Job
         /\ job.outcome = "none"
         /\ jobs' = jobs \cup {job}
    /\ UNCHANGED <<count, open>>

\* A job's time is over: its process was killed, or had died.
Finish ==
    /\ open
    /\ \E job \in jobs, outcome \in {"KILLED", "DIED"} :
         /\ job.outcome = "none"
         /\ jobs' = (jobs \ {job}) \cup {[job EXCEPT !.outcome = outcome]}
    /\ UNCHANGED <<count, open>>

\* The outcome is logged, and counted.
Collect ==
    /\ open
    /\ \E job \in jobs :
         /\ job.outcome # "none"
         /\ jobs' = jobs \ {job}
         /\ count' = count + (IF job.outcome = "KILLED" THEN 1 ELSE 0)
    /\ UNCHANGED open

\* The client stops, for whatever reason.
Close ==
    /\ open
    /\ open' = FALSE
    /\ jobs' = {}
    /\ UNCHANGED count

Next == Take \/ Finish \/ Collect \/ Close

Spec == Init /\ [][Next]_vars
=============================================================================
