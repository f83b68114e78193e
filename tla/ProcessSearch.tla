---------------------------- MODULE ProcessSearch ----------------------------
(***************************************************************************)
(* The search for other instances, as a user of memory: getOutputFromProgram*)
(* (ProgramIO.c) reads the lines of "ps -u | grep <name>" into a growing     *)
(* array, searchRunningProcesses (Process.c) builds a Process for each and   *)
(* keeps those with the right name in an array of i - 2 places, and its      *)
(* caller kills them and releases the array.  Every malloc, realloc and free *)
(* is memwatch's, and every malloc and realloc may fail.                     *)
(***************************************************************************)
EXTENDS MemWatch, FiniteSetsExt, Sequences

CONSTANTS StartingAllocation, \* STARTING_ALLOCATION_SIZE
          MaxLines,           \* bound: lines that ps and grep print
          MaxSearches         \* bound: searches before the program exits

ASSUME SearchAssumption ==
    /\ StartingAllocation \in Nat \ {0} /\ MaxLines \in Nat /\ MaxSearches \in Nat
    \* getline() always finds memory: for every line, and for the end of each stream.
    /\ ~ IsFiniteSet(Foreign) \/ Cardinality(Foreign) >= MaxSearches * (MaxLines + 1)

VARIABLES pc,          \* where the search is
          left,        \* the lines that are still to be read, by kind
          cap, i,      \* currentAllocationSize, and the lines read
          lines,       \* the array of lines
          strings,     \* the lines in it: getline()'s buffers
          todo,        \* the lines read for which no Process was made, by kind
          processes,   \* the array of processes,
          room,        \* its places,
          kept,        \* and the processes in it
          failed,      \* some search has returned with an error
          searches

searchVars == <<mw, getlined, phase, pc, left, cap, i, lines, strings, todo,
                processes, room, kept, failed, searches>>
readVars == <<left, cap, i, lines, strings>>
buildVars == <<todo, processes, room, kept>>

\* What ps and grep print: a line for each process with the right name, one for
\* every other whose command line contains it, and the internal ones: the shell
\* that runs the pipeline is always there, grep's process may not be yet.
Outputs == {o \in [match : 0..MaxLines, other : 0..1, internal : 1..2] :
              o.match + o.other + o.internal <= MaxLines}

None == [match |-> 0, other |-> 0, internal |-> 0]
Total(o) == o.match + o.other + o.internal

\* Which free place malloc() answers with makes no difference to the program;
\* whether it answers with one does.
Place == IF mw.held = Slots THEN {NULL}
         ELSE {CHOOSE a \in Slots : a \notin mw.held} \union {NULL}
Line == CHOOSE f \in Foreign : f \notin getlined

-----------------------------------------------------------------------------
(***************************************************************************)
(* getOutputFromProgram                                                    *)
(***************************************************************************)
\* The array of lines, then popen().
BeginSearch ==
    /\ pc = "idle"
    /\ phase = "running"
    /\ searches < MaxSearches
    /\ searches' = searches + 1
    /\ \E a \in Place :
         /\ mw' = mwMalloc(Quiet, a, StartingAllocation)
         /\ lines' = a
         /\ IF a = NULL THEN pc' = "failed" /\ UNCHANGED left
            ELSE \/ pc' = "read" /\ left' \in Outputs
                 \/ pc' = "failed" /\ UNCHANGED left    \* popen() failed
    /\ cap' = StartingAllocation
    /\ i' = 0
    /\ strings' = {}
    /\ UNCHANGED <<getlined, phase, buildVars, failed>>

\* The array is full: it is doubled.  If that fails, its address is lost.
GrowLines ==
    /\ pc = "read"
    /\ i >= cap
    /\ \E a \in Place :
         /\ mw' = mwRealloc(Quiet, lines, a, 2 * cap)
         /\ lines' = a
         /\ IF a = NULL THEN pc' = "failed" /\ UNCHANGED cap
            ELSE cap' = 2 * cap /\ UNCHANGED pc
    /\ UNCHANGED <<getlined, phase, left, i, strings, buildVars, failed, searches>>

\* getline() allocates the line.
ReadLine ==
    /\ pc = "read"
    /\ i < cap
    /\ \E k \in DOMAIN left :
         /\ left[k] > 0
         /\ left' = [left EXCEPT ![k] = @ - 1]
         /\ todo' = [todo EXCEPT ![k] = @ + 1]
    /\ getlined' = getlined \union {Line}
    /\ strings' = strings \union {Line}
    /\ i' = i + 1
    /\ mw' = Quiet
    /\ UNCHANGED <<phase, pc, cap, lines, processes, room, kept, failed, searches>>

\* At the end of the stream getline() has allocated a buffer, too: it stays in
\* lines[i], which nobody frees.  pclose() may not return 0.
EndOfLines ==
    /\ pc = "read"
    /\ i < cap
    /\ left = None
    /\ getlined' = getlined \union {Line}
    /\ pc' \in {"got", "failed"}
    /\ mw' = Quiet
    /\ UNCHANGED <<phase, readVars, buildVars, failed, searches>>

-----------------------------------------------------------------------------
(***************************************************************************)
(* searchRunningProcesses                                                  *)
(***************************************************************************)
\* Faulty variant: a line is freed like any buffer of the program.
FreesLine(h, p) == mwFree(h, p)

\* mwFree_ of one line: memwatch does not see it.
FreeLine(h, p) == h

\* freeOutputFromProgram
FreeOutput ==
    /\ mw' = mwFree(FoldSet(LAMBDA p, h : FreeLine(h, p), Quiet, strings), lines)
    /\ getlined' = getlined \ strings
    /\ lines' = NULL
    /\ strings' = {}

\* Faulty variant: three internal lines are expected.
ThreeInternal == 3

\* "2 because 2 internal processes are started"
InternalLines == 2

\* Nothing but internal lines, it seems.
NothingFound ==
    /\ pc = "got"
    /\ i <= InternalLines
    /\ FreeOutput
    /\ pc' = "idle"
    /\ todo' = None
    /\ UNCHANGED <<phase, left, cap, i, processes, room, kept, failed, searches>>

\* The array of processes gets i - 2 places.
AllocProcesses ==
    /\ pc = "got"
    /\ i > InternalLines
    /\ \E a \in Place \ {NULL} :
         /\ mw' = mwMalloc(Quiet, a, i - InternalLines)
         /\ processes' = a
    /\ room' = i - InternalLines
    /\ kept' = {}
    /\ pc' = "build"
    /\ UNCHANGED <<getlined, phase, readVars, todo, failed, searches>>

\* No memory for the array, or for a process: the lines are freed; what was
\* built of the array is not.
OutOfMemory ==
    /\ \/ pc = "got" /\ i > InternalLines
       \/ pc = "build" /\ todo # None
    /\ LET h == mwMalloc(Quiet, NULL, 1)
       IN  mw' = mwFree(FoldSet(LAMBDA p, g : FreeLine(g, p), h, strings), lines)
    /\ getlined' = getlined \ strings
    /\ lines' = NULL
    /\ strings' = {}
    /\ pc' = "failed"
    /\ UNCHANGED <<phase, left, cap, i, buildVars, failed, searches>>

\* processes[destination] = p: the place behind the last is the guard zone.
Store(h, p) == IF Cardinality(kept) < room THEN h
               ELSE [h EXCEPT !.block[processes].over = TRUE]

\* processConstructor, and the comparison of the command with the name.  The
\* strings of a Process belong to it and come and go with it.
BuildProcess ==
    /\ pc = "build"
    /\ \E k \in DOMAIN todo, p \in Place \ {NULL} :
         /\ todo[k] > 0
         /\ todo' = [todo EXCEPT ![k] = @ - 1]
         /\ LET made == mwMalloc(Quiet, p, 1)
            IN  IF k = "match"
                THEN kept' = kept \union {p} /\ mw' = Store(made, p)
                ELSE mw' = mwFree(made, p) /\ UNCHANGED kept
    /\ UNCHANGED <<getlined, phase, pc, readVars, processes, room, failed, searches>>

\* Faulty variant: an array without processes is forgotten, not freed.
ForgetsEmpty(h) == h

\* destroyProcessArray of an empty array.
DestroyEmpty(h) == mwFree(h, processes)

\* The lines are freed, and the array if nothing is in it.
EndBuild ==
    /\ pc = "build"
    /\ todo = None
    /\ LET h == mwFree(FoldSet(LAMBDA p, g : FreeLine(g, p), Quiet, strings), lines)
       IN  mw' = IF kept = {} THEN DestroyEmpty(h) ELSE h
    /\ getlined' = getlined \ strings
    /\ lines' = NULL
    /\ strings' = {}
    /\ pc' = IF kept = {} THEN "idle" ELSE "kill"
    /\ UNCHANGED <<phase, left, cap, i, buildVars, failed, searches>>

-----------------------------------------------------------------------------
(***************************************************************************)
(* killOtherProcessAndVerifyExact                                          *)
(***************************************************************************)
\* Every other process is killed (or, in the second search, there are too many
\* or not): the array goes, with the processes in it.
DestroyProcesses ==
    /\ pc = "kill"
    /\ mw' = mwFree(FoldSet(LAMBDA p, h : mwFree(h, p), Quiet, kept), processes)
    /\ kept' = {}
    /\ processes' = NULL
    /\ pc' = "idle"
    /\ UNCHANGED <<getlined, phase, readVars, todo, room, failed, searches>>

\* A kill fails: the function returns at once, and the array stays.
KillFails ==
    /\ pc = "kill"
    /\ pc' = "failed"
    /\ mw' = Quiet
    /\ UNCHANGED <<getlined, phase, readVars, buildVars, failed, searches>>

\* The caller is told that the search, or the kill, failed.
ReturnFailed ==
    /\ pc = "failed"
    /\ failed' = TRUE
    /\ todo' = None
    /\ pc' = "idle"
    /\ mw' = Quiet
    /\ UNCHANGED <<getlined, phase, readVars, processes, room, kept, searches>>

\* The program exits, for whatever reason, and mwAbort() runs.
ExitProgram ==
    /\ pc = "idle"
    /\ Exit
    /\ UNCHANGED <<pc, readVars, buildVars, failed, searches>>

Abort ==
    /\ AbortNext \/ AbortEnd
    /\ UNCHANGED <<pc, readVars, buildVars, failed, searches>>

SearchInit ==
    /\ Init
    /\ pc = "idle"
    /\ left = None
    /\ cap = 0
    /\ i = 0
    /\ lines = NULL
    /\ strings = {}
    /\ todo = None
    /\ processes = NULL
    /\ room = 0
    /\ kept = {}
    /\ failed = FALSE
    /\ searches = 0

SearchNext ==
    \/ BeginSearch \/ GrowLines \/ ReadLine \/ EndOfLines
    \/ NothingFound \/ AllocProcesses \/ OutOfMemory \/ BuildProcess \/ EndBuild
    \/ DestroyProcesses \/ KillFails \/ ReturnFailed
    \/ ExitProgram \/ Abort

SearchSpec == SearchInit /\ [][SearchNext]_searchVars

-----------------------------------------------------------------------------
SearchTypeOK ==
    /\ TypeOK
    /\ pc \in {"idle", "read", "got", "build", "kill", "failed"}
    /\ left \in Outputs \union [DOMAIN None -> 0..MaxLines]
    /\ todo \in [DOMAIN None -> 0..MaxLines]
    /\ cap \in Nat /\ i \in 0..MaxLines /\ room \in Nat
    /\ lines \in Slots \union {NULL} /\ processes \in Slots \union {NULL}
    /\ strings \subseteq getlined /\ kept \subseteq Slots
    /\ failed \in BOOLEAN /\ searches \in 0..MaxSearches

\* The array of processes has i - 2 places because two internal lines are
\* expected.  With one internal line every other line may be kept: one too many,
\* and never more - the pointer lands in memwatch's guard zone, not in what
\* libc keeps behind it.
OverrunInGuard ==
    pc \in {"build", "kill"} => Cardinality(kept) <= room + 1

\* The searches free what they allocated, once, in the way it was allocated:
\* getline()'s lines never go to mwFree() (ProgramIO.c:91), and whatever
\* failed on the way, no buffer is freed or reallocated that is not live.
NoMisuse ==
    /\ ~ mw.undefined
    /\ \A report \in mw.said : report[1] \in {"fail", "overflow", "unfreed", "anomalies"}

\* When a search and its kills are over and none has failed so far, memwatch's
\* chain is empty, and of getline()'s buffers one per search is left: the one
\* for the line that was not there.
NothingKept ==
    pc = "idle" /\ phase = "running" /\ ~ failed =>
        /\ Chain = {}
        /\ Cardinality(getlined) = searches
=============================================================================
