------------------------------ MODULE Allocator ------------------------------
(***************************************************************************)
(* What the program is promised by the wrapped malloc(), realloc() and      *)
(* free(): a set of live buffers, each with its size.  A call adds one      *)
(* buffer, takes one away, replaces one by another, or - an allocation that *)
(* fails, a free() of something that is not live - leaves the set alone.    *)
(* When the program exits what is still live is released.  MemWatch         *)
(* implements this with a chain of headers and guard zones.                 *)
(***************************************************************************)
EXTENDS Integers

CONSTANTS Slots,   \* the places where a buffer can be
          Sizes    \* the sizes that are asked for

VARIABLES live,    \* the live buffers: a function from their places to their sizes
          phase    \* "running", "exiting", "stopped"

vars == <<live, phase>>

\* The buffers other than a.
Without(a) == [x \in DOMAIN live \ {a} |-> live[x]]

\* The buffers f and a new one of size n at a.
With(f, a, n) == [x \in DOMAIN f \union {a} |-> IF x = a THEN n ELSE f[x]]

Init ==
    /\ live = [a \in {} |-> 0]
    /\ phase = "running"

Alloc(a, n) ==
    /\ phase = "running"
    /\ a \notin DOMAIN live
    /\ live' = With(live, a, n)
    /\ UNCHANGED phase

\* free(), or one of the buffers that exit releases.
Release(a) ==
    /\ phase \in {"running", "exiting"}
    /\ a \in DOMAIN live
    /\ live' = Without(a)
    /\ UNCHANGED phase

\* realloc(): the buffer always moves.
Replace(a, b, n) ==
    /\ phase = "running"
    /\ a \in DOMAIN live
    /\ b \notin DOMAIN live
    /\ live' = With(Without(a), b, n)
    /\ UNCHANGED phase

Exit ==
    /\ phase = "running"
    /\ phase' = "exiting"
    /\ UNCHANGED live

\* The process stops with every buffer released.
Stop ==
    /\ phase = "exiting"
    /\ live = [a \in {} |-> 0]
    /\ phase' = "stopped"
    /\ UNCHANGED live

Next ==
    \/ \E a \in Slots : Release(a)
    \/ \E a \in Slots, n \in Sizes : Alloc(a, n)
    \/ \E a, b \in Slots, n \in Sizes : Replace(a, b, n)
    \/ Exit
    \/ Stop

Spec == Init /\ [][Next]_vars
=============================================================================
