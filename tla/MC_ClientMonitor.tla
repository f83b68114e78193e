-------------------------- MODULE MC_ClientMonitor --------------------------
(* Small instances of ClientMonitor.                                       *)
EXTENDS ClientMonitor

Ask(name, duration) == [processName |-> name, monitorDuration |-> duration]

\* Two configurations that name the same process with different durations, one
\* of them with a second process before it.
TwoConfigs == {<<Ask("a", 1)>>, <<Ask("b", 1), Ask("a", 0)>>}

\* One process, asked for or not.
OnOffConfigs == {<<Ask("a", 1)>>, <<>>}
=============================================================================
