------------------------------- MODULE MemWatch -------------------------------
(***************************************************************************)
(* memwatch.c, which both programs are linked with: the Makefile defines    *)
(* MEMWATCH, so malloc(), realloc() and free() in src/ are mwMalloc(),      *)
(* mwRealloc() and mwFree().  Every buffer gets a header in a doubly linked *)
(* chain and a guard zone of one pointer's width behind it; free() looks at *)
(* both before libc sees the buffer, and an atexit handler, mwAbort(),      *)
(* reports and releases what is left.                                       *)
(*                                                                          *)
(* The record mw holds memwatch's static variables (mw.Head is mwHead, ...) *)
(* and the headers; a call is an operator from the record before to the     *)
(* record after.  No-man's-land, grabbed memory, limits, marks and the      *)
(* per-module statistics are off in this build and nothing in src/ turns    *)
(* them on, so they do not appear.                                          *)
(***************************************************************************)
EXTENDS Integers, FiniteSets, Functions

CONSTANTS Slots,        \* the places where libc can put a buffer
          Foreign,      \* buffers that getline() allocates, unknown to memwatch
          NULL,
          Sizes,        \* the sizes that are asked for, in pointers
          MW_FREE_LIST, \* how many freed pointers are remembered
          MaxErrors     \* bound: misuse stops after this many anomalies

ASSUME MemWatchAssumption ==
    /\ IsFiniteSet(Slots)
    /\ Sizes \subseteq Nat \ {0}
    /\ MW_FREE_LIST \in Nat \ {0}
    /\ MaxErrors \in Nat
    /\ NULL \notin Slots \union Foreign
    /\ Slots \intersect Foreign = {}

VARIABLES mw,       \* memwatch's static variables, the headers, and libc's side
          getlined, \* the buffers from getline() that are live
          phase     \* "running", "exiting" (mwAbort), "stopped"

memVars == <<mw, getlined, phase>>

\* What is read through a pointer to memory that is no buffer (any more):
\* freed memory was overwritten, and no other memory passes for a header.
Garbage == [check |-> FALSE, prev |-> NULL, next |-> NULL, size |-> 0, over |-> FALSE]

\* mwData: the two links, the size, whether the check value is right, and
\* whether the zone behind the buffer was overwritten (mwCheckOF).
Header == [check : BOOLEAN, prev : Slots \union {NULL}, next : Slots \union {NULL},
           size : Nat, over : BOOLEAN]

\* held is libc's: the places malloc() handed out and free() did not get back.
\* undefined says that free() got a place libc does not hold.  said is what
\* the last call wrote to the log: pairs of a kind of report and a pointer.
InitMw == [Inited |-> FALSE, Head |-> NULL, Tail |-> NULL, NumCurAlloc |-> 0,
           StatCurAlloc |-> 0, Errors |-> 0, LFcur |-> 0,
           LastFree |-> [i \in 0..MW_FREE_LIST - 1 |-> NULL],
           block |-> [a \in Slots |-> Garbage], held |-> {},
           undefined |-> FALSE, said |-> {}]

\* The first call of any function starts memwatch and registers mwAbort().
mwAutoInit(h) ==
    IF h.Inited THEN h ELSE [h EXCEPT !.Inited = TRUE, !.StatCurAlloc = 0]

Say(h, reports) == [h EXCEPT !.said = @ \union reports]

\* A report that counts as an anomaly.
Complain(h, reports) ==
    [Say(h, reports) EXCEPT !.Errors = @ + Cardinality(reports)]

-----------------------------------------------------------------------------
(***************************************************************************)
(* The chain.                                                              *)
(***************************************************************************)
\* Faulty variant: the neighbour behind keeps its link to the freed header.
KeepsPrev(h, a) ==
    LET b == h.block[a]
    IN  IF b.prev = NULL THEN [h EXCEPT !.Head = b.next]
        ELSE [h EXCEPT !.block[b.prev].next = b.next]

\* mwUnlink: a neighbour that does not point back is left as it is.
mwUnlink(h, a) ==
    LET b == h.block[a]
        behind == IF b.prev = NULL THEN [h EXCEPT !.Head = b.next]
                  ELSE IF h.block[b.prev].next # a THEN h
                  ELSE [h EXCEPT !.block[b.prev].next = b.next]
    IN  IF b.next = NULL THEN [behind EXCEPT !.Tail = b.prev]
        ELSE IF behind.block[b.next].prev # a THEN behind
        ELSE [behind EXCEPT !.block[b.next].prev = b.prev]

\* Faulty variant: any address a buffer can have passes.
PassesAny(h, a) == a \in Slots

\* mwIsOwned: the header passes its check, and both neighbours, or the ends of
\* the chain, point to it.
mwIsOwned(h, a) ==
    /\ ~ (h.Head = NULL /\ h.Tail = NULL /\ h.StatCurAlloc = 0)
    /\ h.block[a].check
    /\ IF h.block[a].prev = NULL THEN h.Head = a
       ELSE h.block[h.block[a].prev].next = a
    /\ IF h.block[a].next = NULL THEN h.Tail = a
       ELSE h.block[h.block[a].next].prev = a

\* Faulty variant: the zone is not looked at.
TestsNothing(h, a) == h

\* mwTestBuf: the guard zone behind the buffer.
mwTestBuf(h, a) ==
    IF h.block[a].over THEN Complain(h, {<<"overflow", a>>}) ELSE h

\* libc's free(), after memwatch has overwritten header and buffer.
LibcFree(h, a) ==
    IF a \in h.held
    THEN [h EXCEPT !.held = @ \ {a}, !.block[a] = Garbage]
    ELSE [h EXCEPT !.undefined = TRUE]

-----------------------------------------------------------------------------
(***************************************************************************)
(* The calls.  a is the place libc's malloc() answers with, NULL when it    *)
(* fails; p is what the program passes.                                     *)
(***************************************************************************)
\* Faulty variant: the old head does not get its link to the new one.
NoBackLink(h0, a, size) ==
    LET h == mwAutoInit(h0)
    IN  IF a = NULL THEN Complain(h, {<<"fail", NULL>>})
        ELSE [h EXCEPT
                !.block[a] = [check |-> TRUE, prev |-> NULL, next |-> h.Head,
                              size |-> size, over |-> FALSE],
                !.Head = a,
                !.Tail = IF @ = NULL THEN a ELSE @,
                !.NumCurAlloc = @ + 1,
                !.StatCurAlloc = @ + size,
                !.held = @ \union {a}]

\* mwMalloc: the header goes to the front of the chain.  A failure is counted;
\* mwFreeUp() finds no no-man's-land memory to give back.
mwMalloc(h0, a, size) ==
    LET h == mwAutoInit(h0)
    IN  IF a = NULL THEN Complain(h, {<<"fail", NULL>>})
        ELSE LET front == IF h.Head = NULL THEN h
                          ELSE [h EXCEPT !.block[h.Head].prev = a]
             IN  [front EXCEPT
                    !.block[a] = [check |-> TRUE, prev |-> NULL, next |-> h.Head,
                                  size |-> size, over |-> FALSE],
                    !.Head = a,
                    !.Tail = IF @ = NULL THEN a ELSE @,
                    !.NumCurAlloc = @ + 1,
                    !.StatCurAlloc = @ + size,
                    !.held = @ \union {a}]

\* check_dbl_free: is p among the pointers freed last?
CheckDoubleFree(h, p, freed, unknown) ==
    IF \E i \in DOMAIN h.LastFree : h.LastFree[i] = p
    THEN Complain(h, {<<freed, p>>})
    ELSE Complain(h, {<<unknown, p>>})

\* Faulty variant: the size is read from the header after free() has it.
ReadsFreedHeader(h, a) ==
    LET freed == LibcFree(mwUnlink(mwTestBuf(h, a), a), a)
    IN  [freed EXCEPT !.NumCurAlloc = @ - 1,
                      !.StatCurAlloc = @ - freed.block[a].size,
                      !.LastFree[h.LFcur] = a,
                      !.LFcur = (@ + 1) % MW_FREE_LIST]

\* Faulty variant: the last-free track is not a ring.
NeverWraps(h, a) ==
    LET tested == mwTestBuf(h, a)
        counted == [tested EXCEPT !.NumCurAlloc = @ - 1,
                                  !.StatCurAlloc = @ - h.block[a].size]
    IN  [LibcFree(mwUnlink(counted, a), a) EXCEPT
            !.LastFree[h.LFcur] = a,
            !.LFcur = @ + 1]

\* mwFree of a buffer that is owned: zones, counters, chain, libc, last-free track.
FreeOwned(h, a) ==
    LET tested == mwTestBuf(h, a)
        counted == [tested EXCEPT !.NumCurAlloc = @ - 1,
                                  !.StatCurAlloc = @ - h.block[a].size]
    IN  [LibcFree(mwUnlink(counted, a), a) EXCEPT
            !.LastFree[h.LFcur] = a,
            !.LFcur = (@ + 1) % MW_FREE_LIST]

mwFree(h0, p) ==
    LET h == mwAutoInit(h0)
    IN  IF p = NULL THEN Say(h, {<<"NULL free", p>>})
        ELSE IF p \in Slots /\ mwIsOwned(h, p) THEN FreeOwned(h, p)
        ELSE CheckDoubleFree(h, p, "double-free", "WILD free")

\* mwRealloc: a new buffer, the copy, and the old one is freed - unless there
\* is no new one: then the old buffer stays.  (memcpy's data is not modelled.)
mwRealloc(h0, p, a, size) ==
    LET h == mwAutoInit(h0)
    IN  IF p = NULL THEN mwMalloc(h, a, size)
        ELSE IF p \in Slots /\ mwIsOwned(h, p)
        THEN LET got == mwMalloc(h, a, size)
             IN  IF a = NULL THEN got ELSE mwFree(got, p)
        ELSE CheckDoubleFree(h, p, "realloc: was freed", "realloc: unknown pointer")

\* One round of mwAbort's loop: the first header of the chain is reported as
\* unfreed, with a note if its zone was overwritten.  mwStatCurAlloc stays: the
\* statistics that follow print it as the unfreed total.
Unfreed(h) ==
    LET a == h.Head
        notes == IF h.block[a].over THEN {<<"overflow", a>>} ELSE {}
    IN  LibcFree(mwUnlink(Say(Complain(h, {<<"unfreed", a>>}), notes), a), a)

-----------------------------------------------------------------------------
(***************************************************************************)
(* A program that uses memwatch as src/ might, or does, and makes every     *)
(* mistake memwatch looks for: it frees and reallocs any pointer it ever    *)
(* had (live, stale, NULL, or one of getline()'s, which ProgramIO.c:91      *)
(* warns of), writes one pointer past a buffer (searchRunningProcesses      *)
(* can), and exits with buffers unfreed.                                    *)
(***************************************************************************)
Pointers == Slots \union Foreign \union {NULL}

\* What malloc() may answer.
Fresh == (Slots \ mw.held) \union {NULL}

Quiet == [mw EXCEPT !.said = {}]

Careful == phase = "running" /\ mw.Errors < MaxErrors

Malloc(a, size) ==
    /\ Careful
    /\ a \in Fresh
    /\ mw' = mwMalloc(Quiet, a, size)
    /\ UNCHANGED <<getlined, phase>>

Realloc(p, a, size) ==
    /\ Careful
    /\ a \in Fresh
    /\ mw' = mwRealloc(Quiet, p, a, size)
    /\ UNCHANGED <<getlined, phase>>

Free(p) ==
    /\ Careful
    /\ mw' = mwFree(Quiet, p)
    /\ UNCHANGED <<getlined, phase>>

\* getline() allocates past memwatch, and mwFree_() passes p on to libc.
GetLine(p) ==
    /\ Careful
    /\ p \in Foreign \ getlined
    /\ getlined' = getlined \union {p}
    /\ mw' = Quiet
    /\ UNCHANGED phase

mwFree_(p) ==
    /\ phase = "running"
    /\ p \in getlined
    /\ getlined' = getlined \ {p}
    /\ mw' = Quiet
    /\ UNCHANGED phase

\* The program writes one pointer too many into the buffer a.
Overrun(a) ==
    /\ Careful
    /\ a \in mw.held
    /\ mw' = [Quiet EXCEPT !.block[a].over = TRUE]
    /\ UNCHANGED <<getlined, phase>>

\* exit(): the atexit handler is there once memwatch was used.
Exit ==
    /\ phase = "running"
    /\ mw.Inited
    /\ phase' = "exiting"
    /\ mw' = Quiet
    /\ UNCHANGED getlined

\* mwAbort() goes on while the head of the chain is a sound header; one that
\* is not would be tried three times and end the scan.
SoundHead == mw.Head # NULL /\ mwIsOwned(mw, mw.Head)

\* A round of the loop in mwAbort().
AbortNext ==
    /\ phase = "exiting"
    /\ SoundHead
    /\ mw' = Unfreed(Quiet)
    /\ UNCHANGED <<getlined, phase>>

\* The end of mwAbort(): the number of anomalies is printed.
AbortEnd ==
    /\ phase = "exiting"
    /\ ~ SoundHead
    /\ phase' = "stopped"
    /\ mw' = [Say(Quiet, {<<"anomalies", mw.Errors>>}) EXCEPT
                !.Inited = FALSE, !.Head = NULL, !.Tail = NULL, !.Errors = 0]
    /\ UNCHANGED getlined

Init ==
    /\ mw = InitMw
    /\ getlined = {}
    /\ phase = "running"

Next ==
    \/ \E a \in Slots \union {NULL}, n \in Sizes : Malloc(a, n)
    \/ \E p \in Pointers, a \in Slots \union {NULL}, n \in Sizes : Realloc(p, a, n)
    \/ \E p \in Pointers : Free(p)
    \/ \E p \in Foreign : GetLine(p)
    \/ \E p \in Foreign : mwFree_(p)
    \/ \E a \in Slots : Overrun(a)
    \/ Exit
    \/ AbortNext
    \/ AbortEnd

Spec == Init /\ [][Next]_memVars

\* exit() runs its handlers to the end.
FairSpec == Spec /\ WF_memVars(AbortNext) /\ WF_memVars(AbortEnd)

-----------------------------------------------------------------------------
(***************************************************************************)
(* What the chain must be.                                                 *)
(***************************************************************************)
\* What memwatch reports.
ReportKind == {"fail", "NULL free", "WILD free", "double-free", "realloc: was freed",
               "realloc: unknown pointer", "overflow", "unfreed", "anomalies"}

\* memwatch's variables have their types: no counter below zero, no index outside
\* the last-free track.
TypeOK ==
    /\ mw \in [Inited : BOOLEAN, Head : Slots \union {NULL}, Tail : Slots \union {NULL},
               NumCurAlloc : Nat, StatCurAlloc : Nat, Errors : Nat,
               LFcur : 0..MW_FREE_LIST - 1,
               LastFree : [0..MW_FREE_LIST - 1 -> Pointers],
               block : [Slots -> Header], held : SUBSET Slots,
               undefined : BOOLEAN, said : SUBSET (ReportKind \X (Pointers \union Nat))]
    /\ getlined \subseteq Foreign
    /\ phase \in {"running", "exiting", "stopped"}

\* Every header points to neighbours that point back, in both directions, and
\* the ends of the chain are the head and the tail (what mwIsHeapOK and
\* mwIsOwned test at run time).
LinksAgree ==
    /\ (mw.Head = NULL) = (mw.held = {})
    /\ (mw.Tail = NULL) = (mw.held = {})
    /\ \A a \in Slots : mw.block[a].check = (a \in mw.held)
    /\ \A a \in mw.held :
         LET b == mw.block[a]
         IN  /\ (b.prev = NULL) = (mw.Head = a)
             /\ (b.next = NULL) = (mw.Tail = a)
             /\ b.prev # NULL => b.prev \in mw.held /\ mw.block[b.prev].next = a
             /\ b.next # NULL => b.next \in mw.held /\ mw.block[b.next].prev = a

\* Walk[i]: where i steps along next from the head of the chain lead.
Walk == LET walk[i \in 0..Cardinality(Slots)] ==
              IF i = 0 THEN mw.Head
              ELSE IF walk[i - 1] = NULL THEN NULL
              ELSE mw.block[walk[i - 1]].next
        IN  walk

Chain == {Walk[i] : i \in 0..Cardinality(Slots)} \ {NULL}

\* The buffers that are reachable from mwHead, with their sizes.
Live == [a \in Chain |-> mw.block[a].size]

\* The chain is exactly what libc handed out and did not get back, whatever
\* the order of allocations, frees, failures and mistakes: the walk that
\* mwAbort() and every check of the heap do meets every buffer once.
ChainIsHeap == LinksAgree /\ Chain = mw.held

\* While the program runs the two counters (mwNumCurAlloc, mwStatCurAlloc)
\* agree with the chain: a realloc() counts once, a failed one not at all.
CountersMatch ==
    phase = "running" =>
        /\ mw.NumCurAlloc = Cardinality(Chain)
        /\ mw.StatCurAlloc = SumFunction(Live)

\* libc's free() never gets a place that it does not hold: double frees, wild
\* frees and reallocs of stale pointers are stopped by mwIsOwned().
NeverFreedTwice == ~ mw.undefined

\* A buffer does not disappear silently: if its zone was overwritten, the call
\* that takes it (free, realloc, or the exit) reports an overflow, and if the
\* program never freed it the exit reports that.
NoSilentLoss ==
    [][\A a \in mw.held \ mw'.held :
         /\ mw.block[a].over => <<"overflow", a>> \in mw'.said
         /\ phase = "exiting" => <<"unfreed", a>> \in mw'.said]_memVars

\* The chain implements the promise: what is reachable from mwHead is what an
\* allocator without chains, zones and counters would say is live.
Heap == INSTANCE Allocator WITH live <- Live, phase <- phase
ImplementsAllocator == Heap!Spec

\* exit() ends, and nothing is left when it has: no chain makes mwAbort() loop.
ExitReleasesAll == phase = "exiting" ~> phase = "stopped" /\ mw.held = {}
=============================================================================
