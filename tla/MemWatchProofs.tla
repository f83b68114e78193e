---------------------------- MODULE MemWatchProofs ----------------------------
(***************************************************************************)
(* What holds of MemWatch for any number of places, any sizes, and however  *)
(* long the last-free track is: the chain is the heap, the counters match   *)
(* it, libc never gets a bad pointer, nothing is lost silently, and the     *)
(* whole implements the plain Allocator.                                    *)
(*                                                                          *)
(* A call is an operator on the record mw, so the invariant is one too:     *)
(* each call is shown to take a sound record to a sound record.             *)
(***************************************************************************)
EXTENDS MemWatch, NumberLemmas

MwType(h) ==
    h \in [Inited : BOOLEAN, Head : Slots \union {NULL}, Tail : Slots \union {NULL},
           NumCurAlloc : Nat, StatCurAlloc : Nat, Errors : Nat,
           LFcur : 0..MW_FREE_LIST - 1,
           LastFree : [0..MW_FREE_LIST - 1 -> Pointers],
           block : [Slots -> Header], held : SUBSET Slots,
           undefined : BOOLEAN, said : SUBSET (ReportKind \X (Pointers \union Nat))]

\* LinksAgree, of any record.
LinksOK(h) ==
    /\ h.Head = NULL <=> h.held = {}
    /\ h.Tail = NULL <=> h.held = {}
    /\ \A a \in Slots : h.block[a].check <=> a \in h.held
    /\ \A a \in h.held :
         /\ h.block[a].prev = NULL <=> h.Head = a
         /\ h.block[a].next = NULL <=> h.Tail = a
         /\ h.block[a].prev # NULL => /\ h.block[a].prev \in h.held
                                      /\ h.block[h.block[a].prev].next = a
         /\ h.block[a].next # NULL => /\ h.block[a].next \in h.held
                                      /\ h.block[h.block[a].next].prev = a

\* A rank for every place that falls along next: links that agree could still
\* hold a ring that the head does not reach, but then there is no such rank.
Falls(h, rank) ==
    \A a \in h.held : h.block[a].next # NULL => rank[h.block[a].next] < rank[a]

Ordered(h) == \E n \in Nat : \E rank \in [Slots -> 1..n] : Falls(h, rank)

Sound(h) == MwType(h) /\ LinksOK(h) /\ Ordered(h) /\ ~ h.undefined

\* The fields that Sound looks at.
SameHeap(h, g) ==
    /\ g.Head = h.Head /\ g.Tail = h.Tail /\ g.block = h.block
    /\ g.held = h.held /\ g.undefined = h.undefined

\* A record of the same heap is as sound.
LEMMA SoundSame ==
  ASSUME NEW h, NEW g, Sound(h), MwType(g), SameHeap(h, g)
  PROVE  Sound(g)
<1>1. LinksOK(g)
  BY DEF Sound, SameHeap, LinksOK
<1>2. Ordered(g)
  BY DEF Sound, SameHeap, Ordered, Falls
<1> QED
  BY <1>1, <1>2 DEF Sound, SameHeap

\* mwIsOwned() tells the live buffers from everything else.
LEMMA OwnedIsHeld ==
  ASSUME NEW h, Sound(h), NEW a \in Slots
  PROVE  mwIsOwned(h, a) <=> a \in h.held
BY MemWatchAssumption DEF Sound, LinksOK, mwIsOwned, MwType, Header

\* A record of the types of Header, with another link.
LEMMA Relink ==
  ASSUME NEW b \in Header, NEW x \in Slots \union {NULL}
  PROVE  /\ [b EXCEPT !.next = x] \in Header /\ [b EXCEPT !.prev = x] \in Header
         /\ [b EXCEPT !.next = x].next = x /\ [b EXCEPT !.next = x].prev = b.prev
         /\ [b EXCEPT !.next = x].check = b.check /\ [b EXCEPT !.next = x].size = b.size
         /\ [b EXCEPT !.next = x].over = b.over
         /\ [b EXCEPT !.prev = x].prev = x /\ [b EXCEPT !.prev = x].next = b.next
         /\ [b EXCEPT !.prev = x].check = b.check /\ [b EXCEPT !.prev = x].size = b.size
         /\ [b EXCEPT !.prev = x].over = b.over
BY DEF Header

\* The fields that neither the chain nor libc change.
SameRest(h, g) ==
    /\ g.Inited = h.Inited /\ g.NumCurAlloc = h.NumCurAlloc
    /\ g.StatCurAlloc = h.StatCurAlloc /\ g.Errors = h.Errors /\ g.LFcur = h.LFcur
    /\ g.LastFree = h.LastFree /\ g.said = h.said

\* g is h with a taken out of the chain.
IsUnlinked(h, a, g) ==
    LET b == h.block[a] IN
    /\ g.Head = IF b.prev = NULL THEN b.next ELSE h.Head
    /\ g.Tail = IF b.next = NULL THEN b.prev ELSE h.Tail
    /\ \A x \in Slots \ {a} :
          /\ g.block[x].check = h.block[x].check
          /\ g.block[x].size = h.block[x].size
          /\ g.block[x].over = h.block[x].over
          /\ g.block[x].next = IF x = b.prev THEN b.next ELSE h.block[x].next
          /\ g.block[x].prev = IF x = b.next THEN b.prev ELSE h.block[x].prev

\* mwUnlink() does that: in a sound chain both neighbours are other headers.
LEMMA UnlinkIs ==
  ASSUME NEW h, Sound(h), NEW a \in h.held
  PROVE  LET g == mwUnlink(h, a)
         IN  /\ MwType(g) /\ SameRest(h, g) /\ IsUnlinked(h, a, g)
             /\ g.held = h.held /\ g.undefined = h.undefined
<1>1. PICK b : b = h.block[a]
  OBVIOUS
<1>2. /\ MwType(h) /\ a \in Slots /\ b \in Header
      /\ h.block \in [Slots -> Header]
      /\ b.prev \in Slots \union {NULL} /\ b.next \in Slots \union {NULL}
      /\ NULL \notin Slots
  BY <1>1, MemWatchAssumption DEF Sound, MwType, Header
<1>3. /\ b.prev # NULL => b.prev \in h.held /\ h.block[b.prev].next = a
      /\ b.next # NULL => b.next \in h.held /\ h.block[b.next].prev = a
  BY <1>1 DEF Sound, LinksOK
<1>4. /\ b.prev # NULL => b.prev # b.next
      /\ b.prev # a /\ b.next # a
  <2>0. PICK n \in Nat : \E rank \in [Slots -> 1..n] : Falls(h, rank)
    BY DEF Sound, Ordered
  <2>1. PICK rank \in [Slots -> 1..n] : Falls(h, rank)
    BY <2>0
  <2>2. b.next # NULL => rank[b.next] < rank[a]
    BY <1>1, <2>1 DEF Falls
  <2>3. b.prev # NULL => rank[a] < rank[b.prev]
    BY <1>2, <1>3, <2>1 DEF Falls
  <2>4. \A x \in Slots : rank[x] \in Int
    BY <2>1
  <2> QED
    BY <1>2, <2>2, <2>3, <2>4
<1>5. PICK behind : behind = IF b.prev = NULL THEN [h EXCEPT !.Head = b.next]
                             ELSE [h EXCEPT !.block[b.prev].next = b.next]
  OBVIOUS
<1>6. /\ MwType(behind) /\ SameRest(h, behind)
      /\ behind.Head = IF b.prev = NULL THEN b.next ELSE h.Head
      /\ behind.Tail = h.Tail /\ behind.held = h.held /\ behind.undefined = h.undefined
      /\ \A x \in Slots : behind.block[x] = IF x = b.prev THEN [h.block[x] EXCEPT !.next = b.next]
                                            ELSE h.block[x]
  <2>1. CASE b.prev = NULL
    BY <1>2, <1>5, <2>1 DEF MwType, SameRest
  <2>2. CASE b.prev # NULL
    <3>1. b.prev \in Slots
      BY <1>2, <2>2
    <3>2. PICK t : t = [h.block EXCEPT ![b.prev].next = b.next]
      OBVIOUS
    <3>3. /\ t \in [Slots -> Header]
          /\ \A x \in Slots : t[x] = IF x = b.prev THEN [h.block[x] EXCEPT !.next = b.next]
                                     ELSE h.block[x]
      BY <1>2, <3>1, <3>2, Relink
    <3>4. behind = [h EXCEPT !.block = t]
      BY <1>2, <1>5, <2>2, <3>2 DEF MwType
    <3> QED
      BY <1>2, <2>2, <3>3, <3>4 DEF MwType, SameRest
  <2> QED
    BY <2>1, <2>2
<1>7. PICK g : g = IF b.next = NULL THEN [behind EXCEPT !.Tail = b.prev]
                   ELSE [behind EXCEPT !.block[b.next].prev = b.prev]
  OBVIOUS
<1>8. /\ MwType(g) /\ SameRest(h, g)
      /\ g.Head = behind.Head
      /\ g.Tail = IF b.next = NULL THEN b.prev ELSE h.Tail
      /\ g.held = h.held /\ g.undefined = h.undefined
      /\ \A x \in Slots : g.block[x] = IF x = b.next THEN [behind.block[x] EXCEPT !.prev = b.prev]
                                       ELSE behind.block[x]
  <2>1. CASE b.next = NULL
    BY <1>2, <1>6, <1>7, <2>1 DEF MwType, SameRest
  <2>2. CASE b.next # NULL
    <3>1. b.next \in Slots /\ behind.block \in [Slots -> Header]
      BY <1>2, <1>6, <2>2 DEF MwType
    <3>2. PICK t : t = [behind.block EXCEPT ![b.next].prev = b.prev]
      OBVIOUS
    <3>3. /\ t \in [Slots -> Header]
          /\ \A x \in Slots : t[x] = IF x = b.next THEN [behind.block[x] EXCEPT !.prev = b.prev]
                                     ELSE behind.block[x]
      BY <1>2, <3>1, <3>2, Relink
    <3>4. g = [behind EXCEPT !.block = t]
      BY <1>6, <1>7, <2>2, <3>2 DEF MwType
    <3> QED
      BY <1>2, <1>6, <2>2, <3>3, <3>4 DEF MwType, SameRest
  <2> QED
    BY <2>1, <2>2
<1>9. mwUnlink(h, a) = g
  <2>1. b.next # NULL => behind.block[b.next].prev = a
    BY <1>2, <1>3, <1>4, <1>6
  <2>2. mwUnlink(h, a) = IF b.next = NULL THEN [behind EXCEPT !.Tail = b.prev]
                         ELSE IF behind.block[b.next].prev # a THEN behind
                         ELSE [behind EXCEPT !.block[b.next].prev = b.prev]
    <3>1. CASE b.prev = NULL
      <4>1. behind = [h EXCEPT !.Head = b.next]
        BY <1>5, <3>1
      <4> QED
        BY <1>1, <3>1, <4>1 DEF mwUnlink
    <3>2. CASE b.prev # NULL
      <4>1. behind = [h EXCEPT !.block[b.prev].next = b.next]
        BY <1>5, <3>2
      <4> QED
        BY <1>1, <1>3, <3>2, <4>1, ZenonT(60) DEF mwUnlink
    <3> QED
      BY <3>1, <3>2
  <2> QED
    BY <1>7, <2>1, <2>2
<1>10. IsUnlinked(h, a, g)
  <2> SUFFICES ASSUME NEW x \in Slots \ {a}
               PROVE  /\ g.block[x].check = h.block[x].check
                      /\ g.block[x].size = h.block[x].size
                      /\ g.block[x].over = h.block[x].over
                      /\ g.block[x].next = IF x = b.prev THEN b.next ELSE h.block[x].next
                      /\ g.block[x].prev = IF x = b.next THEN b.prev ELSE h.block[x].prev
    BY <1>1, <1>6, <1>8 DEF IsUnlinked
  <2>1. h.block[x] \in Header /\ behind.block[x] \in Header
    BY <1>2, <1>6 DEF MwType
  <2>2. CASE x = b.next
    <3>1. x # b.prev /\ b.prev \in Slots \union {NULL}
      BY <1>2, <1>4, <2>2
    <3>2. behind.block[x] = h.block[x] /\ g.block[x] = [h.block[x] EXCEPT !.prev = b.prev]
      BY <1>6, <1>8, <2>2, <3>1
    <3> QED
      BY <2>1, <2>2, <3>1, <3>2, Relink
  <2>3. CASE x # b.next
    <3>1. b.next \in Slots \union {NULL}
      BY <1>2
    <3>2. g.block[x] = IF x = b.prev THEN [h.block[x] EXCEPT !.next = b.next] ELSE h.block[x]
      BY <1>6, <1>8, <2>3, ZenonT(60)
    <3> QED
      BY <2>1, <2>3, <3>1, <3>2, Relink
  <2> QED
    BY <2>2, <2>3
<1> QED
  BY <1>8, <1>9, <1>10

\* Some buffer of every set of them has no neighbour in front in that set, and
\* some has none behind.
LEMMA Ends ==
  ASSUME NEW h, Sound(h), NEW S \in SUBSET h.held, S # {}
  PROVE  (\E x \in S : h.block[x].prev \notin S) /\ (\E x \in S : h.block[x].next \notin S)
<1>0. PICK n \in Nat : \E rank \in [Slots -> 1..n] : Falls(h, rank)
  BY DEF Sound, Ordered
<1>1. PICK rank \in [Slots -> 1..n] : Falls(h, rank)
  BY <1>0
<1>2. h.held \in SUBSET Slots /\ NULL \notin Slots /\ S \in SUBSET Slots
  BY MemWatchAssumption DEF Sound, MwType
<1>3. PICK R : R = {rank[x] : x \in S}
  OBVIOUS
<1>4. R \in SUBSET (1..n) /\ R # {} /\ R \in SUBSET Nat
  BY <1>1, <1>2, <1>3
<1>5. \E x \in S : h.block[x].prev \notin S
  <2>1. PICK m \in R : \A k \in R : k <= m
    BY <1>4, GreatestExists
  <2>2. PICK x \in S : rank[x] = m
    BY <1>3
  <2>3. ASSUME h.block[x].prev \in S PROVE FALSE
    <3>1. PICK y \in S : y = h.block[x].prev
      BY <2>3
    <3>2. h.block[y].next = x
      BY <1>2, <3>1 DEF Sound, LinksOK
    <3>3. rank[x] < rank[y]
      BY <1>1, <1>2, <3>2 DEF Falls
    <3>4. rank[y] <= m /\ rank[y] \in Int /\ m \in Int
      BY <1>1, <1>2, <1>3, <1>4, <2>1
    <3> QED
      BY <2>2, <3>3, <3>4
  <2> QED
    BY <2>3
<1>6. \E x \in S : h.block[x].next \notin S
  <2>1. PICK m \in R : \A k \in R : m <= k
    BY <1>4, LeastExists
  <2>2. PICK x \in S : rank[x] = m
    BY <1>3
  <2>3. ASSUME h.block[x].next \in S PROVE FALSE
    <3>1. PICK y \in S : y = h.block[x].next
      BY <2>3
    <3>2. rank[y] < rank[x]
      BY <1>1, <1>2, <3>1 DEF Falls
    <3>3. m <= rank[y] /\ rank[y] \in Int /\ m \in Int
      BY <1>1, <1>2, <1>3, <1>4, <2>1
    <3> QED
      BY <2>2, <3>2, <3>3
  <2> QED
    BY <2>3
<1> QED
  BY <1>5, <1>6

\* The ends of the chain are buffers, unless there are none.
LEMMA EndsAreHeld ==
  ASSUME NEW h, Sound(h), h.held # {}
  PROVE  h.Head \in h.held /\ h.Tail \in h.held
<1>1. h.held \in SUBSET h.held
  OBVIOUS
<1>2. PICK x \in h.held : h.block[x].prev \notin h.held
  BY <1>1, Ends
<1>3. PICK y \in h.held : h.block[y].next \notin h.held
  BY <1>1, Ends
<1> QED
  BY <1>2, <1>3 DEF Sound, LinksOK

-----------------------------------------------------------------------------
(* Taking a buffer out of the chain, and giving it back to libc.             *)

IsReleased(h, a, g) ==
    /\ MwType(g) /\ IsUnlinked(h, a, g)
    /\ g.held = h.held \ {a} /\ g.block[a] = Garbage /\ g.undefined = h.undefined

\* LibcFree() gets a buffer that libc has handed out.
LEMMA ReleaseIs ==
  ASSUME NEW h, Sound(h), NEW a \in h.held
  PROVE  LET g == LibcFree(mwUnlink(h, a), a)
         IN  IsReleased(h, a, g) /\ SameRest(h, g)
<1>1. PICK u : u = mwUnlink(h, a)
  OBVIOUS
<1>2. /\ MwType(u) /\ SameRest(h, u) /\ IsUnlinked(h, a, u)
      /\ u.held = h.held /\ u.undefined = h.undefined
  BY <1>1, UnlinkIs
<1>3. PICK g : g = [u EXCEPT !.held = @ \ {a}, !.block[a] = Garbage]
  OBVIOUS
<1>4. LibcFree(mwUnlink(h, a), a) = g
  BY <1>1, <1>2, <1>3 DEF LibcFree
<1>5. a \in Slots /\ Garbage \in Header
  BY <1>2 DEF MwType, Garbage, Header
<1>6. PICK t : t = [u.block EXCEPT ![a] = Garbage]
  OBVIOUS
<1>7. /\ t \in [Slots -> Header] /\ t[a] = Garbage
      /\ \A x \in Slots \ {a} : t[x] = u.block[x]
  BY <1>2, <1>5, <1>6 DEF MwType
<1>8. g = [[u EXCEPT !.held = @ \ {a}] EXCEPT !.block = t]
  BY <1>2, <1>3, <1>6 DEF MwType
<1>9. /\ MwType(g) /\ g.block = t /\ g.held = u.held \ {a} /\ g.undefined = u.undefined
      /\ g.Head = u.Head /\ g.Tail = u.Tail /\ SameRest(u, g)
  BY <1>2, <1>7, <1>8 DEF MwType, SameRest
<1>10. IsUnlinked(h, a, g)
  BY <1>2, <1>7, <1>9 DEF IsUnlinked
<1> QED
  BY <1>2, <1>4, <1>7, <1>9, <1>10 DEF IsReleased, SameRest

\* What is left is sound.
LEMMA ReleaseSound ==
  ASSUME NEW h, Sound(h), NEW a \in h.held, NEW g, IsReleased(h, a, g)
  PROVE  Sound(g)
<1>1. PICK b : b = h.block[a]
  OBVIOUS
<1>2. /\ MwType(h) /\ MwType(g) /\ a \in Slots /\ b \in Header /\ h.held \in SUBSET Slots
      /\ h.block \in [Slots -> Header]
      /\ b.prev \in Slots \union {NULL} /\ b.next \in Slots \union {NULL}
      /\ NULL \notin Slots
  BY <1>1, MemWatchAssumption DEF Sound, MwType, Header, IsReleased
<1>3. /\ g.held = h.held \ {a} /\ g.undefined = h.undefined /\ g.block[a] = Garbage
      /\ g.Head = IF b.prev = NULL THEN b.next ELSE h.Head
      /\ g.Tail = IF b.next = NULL THEN b.prev ELSE h.Tail
  BY <1>1 DEF IsReleased, IsUnlinked
<1>4. \A x \in Slots \ {a} :
         /\ g.block[x].check = h.block[x].check
         /\ g.block[x].next = IF x = b.prev THEN b.next ELSE h.block[x].next
         /\ g.block[x].prev = IF x = b.next THEN b.prev ELSE h.block[x].prev
  BY <1>1 DEF IsReleased, IsUnlinked
<1>5. \A x \in h.held :
         /\ h.block[x].prev = NULL <=> h.Head = x
         /\ h.block[x].next = NULL <=> h.Tail = x
         /\ h.block[x].prev # NULL => /\ h.block[x].prev \in h.held
                                      /\ h.block[h.block[x].prev].next = x
         /\ h.block[x].next # NULL => /\ h.block[x].next \in h.held
                                      /\ h.block[h.block[x].next].prev = x
  BY DEF Sound, LinksOK
<1>6. /\ b.prev = NULL <=> h.Head = a
      /\ b.next = NULL <=> h.Tail = a
      /\ b.prev # NULL => b.prev \in h.held /\ h.block[b.prev].next = a
      /\ b.next # NULL => b.next \in h.held /\ h.block[b.next].prev = a
  BY <1>1, <1>5
<1>7. Ordered(g) /\ b.prev # a /\ b.next # a
  <2>0. PICK n \in Nat : \E rank \in [Slots -> 1..n] : Falls(h, rank)
    BY DEF Sound, Ordered
  <2>1. PICK rank \in [Slots -> 1..n] : Falls(h, rank)
    BY <2>0
  <2>2. b.next # NULL => rank[b.next] < rank[a]
    BY <1>1, <2>1 DEF Falls
  <2>3. b.prev # NULL => rank[a] < rank[b.prev]
    BY <1>2, <1>6, <2>1 DEF Falls
  <2>4. \A x \in Slots : rank[x] \in Int
    BY <2>1
  <2>5. b.prev # a /\ b.next # a
    BY <1>2, <2>2, <2>3, <2>4
  <2>6. ASSUME NEW x \in h.held \ {a}, g.block[x].next # NULL
        PROVE  rank[g.block[x].next] < rank[x]
    <3>1. CASE x = b.prev
      <4>1. g.block[x].next = b.next /\ x # NULL
        BY <1>2, <1>4, <2>6, <3>1
      <4>2. rank[b.next] < rank[a] /\ rank[a] < rank[x]
        BY <2>2, <2>3, <2>6, <3>1, <4>1
      <4>3. b.next \in Slots /\ x \in Slots
        BY <1>2, <2>6, <4>1
      <4> QED
        BY <1>2, <2>4, <4>1, <4>2, <4>3
    <3>2. CASE x # b.prev
      BY <1>2, <1>4, <2>1, <2>6, <3>2 DEF Falls
    <3> QED
      BY <3>1, <3>2
  <2>7. Falls(g, rank)
    BY <1>3, <2>6 DEF Falls
  <2> QED
    BY <2>1, <2>5, <2>7 DEF Ordered
<1>8. b.prev = NULL /\ b.next = NULL => h.held \ {a} = {}
  <2> SUFFICES ASSUME b.prev = NULL, b.next = NULL, h.held \ {a} # {} PROVE FALSE
    OBVIOUS
  <2>1. h.held \ {a} \in SUBSET h.held
    OBVIOUS
  <2>2. PICK x \in h.held \ {a} : h.block[x].prev \notin h.held \ {a}
    BY <2>1, Ends
  <2>3. h.Head = a
    BY <1>6
  <2>4. h.block[x].prev # NULL
    BY <1>5, <2>2, <2>3
  <2>5. h.block[x].prev = a
    BY <1>5, <2>2, <2>4
  <2>6. b.next = x
    BY <1>1, <1>5, <2>2, <2>4, <2>5
  <2> QED
    BY <1>2, <2>6
<1>9. /\ g.Head = NULL <=> g.held = {}
      /\ g.Tail = NULL <=> g.held = {}
  <2>1. CASE b.prev = NULL /\ b.next = NULL
    BY <1>3, <1>8, <2>1
  <2>2. CASE b.prev # NULL \/ b.next # NULL
    <3>1. h.held \ {a} # {}
      BY <1>6, <1>7, <2>2
    <3>2. h.Head # NULL /\ h.Tail # NULL
      BY DEF Sound, LinksOK
    <3> QED
      BY <1>3, <2>2, <3>1, <3>2
  <2> QED
    BY <2>1, <2>2
<1>10. \A x \in Slots : g.block[x].check <=> x \in g.held
  BY <1>2, <1>3, <1>4 DEF Sound, LinksOK, Garbage
<1>11. ASSUME NEW x \in h.held \ {a}
       PROVE  /\ g.block[x].prev = NULL <=> g.Head = x
              /\ g.block[x].prev # NULL => /\ g.block[x].prev \in g.held
                                           /\ g.block[g.block[x].prev].next = x
  <2>1. CASE x = b.next
    BY <1>2, <1>3, <1>4, <1>5, <1>6, <1>7, <1>11, <2>1
  <2>2. CASE x # b.next
    BY <1>1, <1>2, <1>3, <1>4, <1>5, <1>6, <1>7, <1>11, <2>2
  <2> QED
    BY <2>1, <2>2
<1>12. ASSUME NEW x \in h.held \ {a}
       PROVE  /\ g.block[x].next = NULL <=> g.Tail = x
              /\ g.block[x].next # NULL => /\ g.block[x].next \in g.held
                                           /\ g.block[g.block[x].next].prev = x
  <2>1. CASE x = b.prev
    BY <1>2, <1>3, <1>4, <1>5, <1>6, <1>7, <1>12, <2>1
  <2>2. CASE x # b.prev
    BY <1>1, <1>2, <1>3, <1>4, <1>5, <1>6, <1>7, <1>12, <2>2
  <2> QED
    BY <2>1, <2>2
<1>13. LinksOK(g)
  BY <1>3, <1>9, <1>10, <1>11, <1>12 DEF LinksOK
<1> QED
  BY <1>2, <1>3, <1>7, <1>13 DEF Sound

-----------------------------------------------------------------------------
(* What is live, and how it is counted.                                      *)

LiveOf(h) == [a \in h.held |-> h.block[a].size]

Counted(h) ==
    /\ h.NumCurAlloc = Cardinality(h.held)
    /\ h.StatCurAlloc = SumFunction(LiveOf(h))

\* The fields that Counted and mwAutoInit() look at beside the heap.
SameCount(h, g) ==
    /\ g.Inited = h.Inited /\ g.NumCurAlloc = h.NumCurAlloc
    /\ g.StatCurAlloc = h.StatCurAlloc

Report == ReportKind \X (Pointers \union Nat)

Reports == SUBSET Report

\* What is live is a finite set of buffers with sizes.
LEMMA LiveType ==
  ASSUME NEW h, MwType(h)
  PROVE  LiveOf(h) \in [h.held -> Nat] /\ IsFiniteSet(h.held)
<1>1. h.held \in SUBSET Slots /\ h.block \in [Slots -> Header]
  BY DEF MwType
<1>2. IsFiniteSet(h.held)
  BY <1>1, MemWatchAssumption, FS_Subset
<1> QED
  BY <1>1, <1>2 DEF LiveOf, Header

\* A record of the same heap with the same counters is counted as well.
LEMMA CountedSame ==
  ASSUME NEW h, NEW g, Counted(h), SameHeap(h, g), SameCount(h, g)
  PROVE  Counted(g) /\ LiveOf(g) = LiveOf(h)
BY DEF Counted, SameHeap, SameCount, LiveOf

\* The counters of a heap that has lost the buffer a.
LEMMA CountedLess ==
  ASSUME NEW h, MwType(h), Counted(h), NEW a \in h.held,
         NEW g, g.held = h.held \ {a}, \A x \in g.held : g.block[x].size = h.block[x].size
  PROVE  /\ LiveOf(g) = [x \in h.held \ {a} |-> LiveOf(h)[x]]
         /\ Cardinality(g.held) = h.NumCurAlloc - 1 /\ h.NumCurAlloc - 1 \in Nat
         /\ SumFunction(LiveOf(g)) = h.StatCurAlloc - h.block[a].size
         /\ h.StatCurAlloc - h.block[a].size \in Nat
<1>1. LiveOf(h) \in [h.held -> Nat] /\ IsFiniteSet(h.held)
  BY LiveType
<1>2. LiveOf(g) = [x \in h.held \ {a} |-> LiveOf(h)[x]]
  BY DEF LiveOf
<1>3. PICK f : f = LiveOf(h)
  OBVIOUS
<1>4. PICK D : D = h.held
  OBVIOUS
<1>5. /\ SumFunction(f) = f[a] + SumFunction([x \in D \ {a} |-> f[x]])
      /\ SumFunction([x \in D \ {a} |-> f[x]]) \in Nat
  <2>1. a \in D /\ f \in [D -> Nat] /\ IsFiniteSet(D)
    BY <1>1, <1>3, <1>4
  <2> QED
    BY <2>1, SumSplit
<1>6. f[a] = h.block[a].size /\ f[a] \in Nat
  BY <1>1, <1>3 DEF LiveOf
<1>7. PICK r : r = SumFunction(LiveOf(g))
  OBVIOUS
<1>8. h.StatCurAlloc = h.block[a].size + r /\ r \in Nat /\ h.block[a].size \in Nat
  BY <1>2, <1>3, <1>4, <1>5, <1>6, <1>7 DEF Counted
<1>9. Cardinality(g.held) = h.NumCurAlloc - 1 /\ Cardinality(g.held) \in Nat
  BY <1>1, FS_RemoveElement, FS_CardinalityType DEF Counted
<1> QED
  BY <1>2, <1>7, <1>8, <1>9

\* The counters of a heap that has won the buffer a.
LEMMA CountedMore ==
  ASSUME NEW h, MwType(h), Counted(h), NEW a \in Slots \ h.held, NEW size \in Nat,
         NEW g, MwType(g), g.held = h.held \union {a}, g.block[a].size = size,
         \A x \in h.held : g.block[x].size = h.block[x].size
  PROVE  /\ LiveOf(g) = [x \in h.held \union {a} |-> IF x = a THEN size ELSE LiveOf(h)[x]]
         /\ SumFunction(LiveOf(g)) = h.StatCurAlloc + size
<1>1. LiveOf(g) \in [g.held -> Nat] /\ IsFiniteSet(g.held) /\ IsFiniteSet(h.held)
  BY LiveType
<1>2. LiveOf(g) = [x \in h.held \union {a} |-> IF x = a THEN size ELSE LiveOf(h)[x]]
  BY DEF LiveOf
<1>3. PICK f : f = LiveOf(g)
  OBVIOUS
<1>4. PICK D : D = g.held
  OBVIOUS
<1>5. a \in D /\ f \in [D -> Nat] /\ IsFiniteSet(D)
  BY <1>1, <1>3, <1>4
<1>6. /\ SumFunction(f) = f[a] + SumFunction([x \in D \ {a} |-> f[x]])
      /\ SumFunction([x \in D \ {a} |-> f[x]]) \in Nat
  BY <1>5, SumSplit
<1>7. LiveOf(h) = [x \in D \ {a} |-> f[x]] /\ f[a] = size
  <2>1. D \ {a} = h.held
    BY <1>4
  <2> QED
    BY <1>3, <1>4, <2>1 DEF LiveOf
<1>8. PICK r : r = SumFunction(LiveOf(h))
  OBVIOUS
<1>9. SumFunction(LiveOf(g)) = size + r /\ r \in Nat /\ h.StatCurAlloc = r
  BY <1>3, <1>6, <1>7, <1>8 DEF Counted
<1> QED
  BY <1>2, <1>9

-----------------------------------------------------------------------------
(* The calls that leave the heap alone.                                      *)

\* A report changes the log and the number of anomalies only.
LEMMA ComplainIs ==
  ASSUME NEW h, MwType(h), NEW r \in Report
  PROVE  LET g == Complain(h, {r})
         IN  MwType(g) /\ SameHeap(h, g) /\ SameCount(h, g) /\ g.said = h.said \union {r}
<1>1. PICK one : one = Cardinality({r})
  OBVIOUS
<1>2. one = 1
  BY <1>1, FS_Singleton
<1>3. Complain(h, {r}) = [[h EXCEPT !.said = @ \union {r}] EXCEPT !.Errors = @ + one]
  BY <1>1 DEF Complain, Say
<1>4. h.said \union {r} \in SUBSET (ReportKind \X (Pointers \union Nat)) /\ h.Errors + 1 \in Nat
  BY DEF MwType, Report
<1> QED
  BY <1>2, <1>3, <1>4 DEF MwType, SameHeap, SameCount

\* So does a note, even without the anomaly.
LEMMA SayIs ==
  ASSUME NEW h, MwType(h), NEW reports \in Reports
  PROVE  LET g == Say(h, reports)
         IN  MwType(g) /\ SameHeap(h, g) /\ SameCount(h, g) /\ g.said = h.said \union reports
<1>1. h.said \union reports \in SUBSET (ReportKind \X (Pointers \union Nat))
  BY DEF MwType, Report, Reports
<1> QED
  BY <1>1 DEF MwType, SameHeap, SameCount, Say

\* The first call of a function finds nothing to count.
LEMMA AutoInitIs ==
  ASSUME NEW h, MwType(h), ~ h.Inited => h.StatCurAlloc = 0
  PROVE  LET g == mwAutoInit(h)
         IN  /\ MwType(g) /\ SameHeap(h, g) /\ g.Inited /\ g.said = h.said
             /\ g.NumCurAlloc = h.NumCurAlloc /\ g.StatCurAlloc = h.StatCurAlloc
BY DEF MwType, SameHeap, mwAutoInit

\* The zone is looked at, and the log says so if it was overwritten.
LEMMA TestBufIs ==
  ASSUME NEW h, MwType(h), NEW a \in Slots
  PROVE  LET g == mwTestBuf(h, a)
         IN  /\ MwType(g) /\ SameHeap(h, g) /\ SameCount(h, g)
             /\ h.said \subseteq g.said
             /\ g.said \subseteq h.said \union {<<"overflow", a>>}
             /\ h.block[a].over => <<"overflow", a>> \in g.said
<1>1. <<"overflow", a>> \in Report
  <2>1. a \in Pointers \union Nat /\ "overflow" \in ReportKind
    BY DEF Pointers, ReportKind
  <2> QED
    BY <2>1 DEF Report
<1>2. CASE h.block[a].over
  BY <1>1, <1>2, ComplainIs DEF mwTestBuf
<1>3. CASE ~ h.block[a].over
  BY <1>3 DEF mwTestBuf, SameHeap, SameCount
<1> QED
  BY <1>2, <1>3

\* A pointer that is not owned is reported, and left alone.
LEMMA DoubleFreeIs ==
  ASSUME NEW h, MwType(h), NEW p \in Pointers, NEW freed \in ReportKind, NEW unknown \in ReportKind
  PROVE  LET g == CheckDoubleFree(h, p, freed, unknown)
         IN  MwType(g) /\ SameHeap(h, g) /\ SameCount(h, g)
<1>1. <<freed, p>> \in Report /\ <<unknown, p>> \in Report
  BY DEF Report
<1> QED
  BY <1>1, ComplainIs DEF CheckDoubleFree

-----------------------------------------------------------------------------
(* A new buffer at the front of the chain.                                   *)

IsPushed(h, a, g) ==
    /\ g.held = h.held \union {a} /\ g.undefined = h.undefined
    /\ g.Head = a
    /\ g.Tail = IF h.Tail = NULL THEN a ELSE h.Tail
    /\ g.block[a].check /\ g.block[a].prev = NULL /\ g.block[a].next = h.Head
    /\ \A x \in Slots \ {a} :
          /\ g.block[x].check = h.block[x].check
          /\ g.block[x].size = h.block[x].size
          /\ g.block[x].over = h.block[x].over
          /\ g.block[x].next = h.block[x].next
          /\ g.block[x].prev = IF x = h.Head THEN a ELSE h.block[x].prev

\* mwMalloc() does that when libc has a place for it.
LEMMA MallocIs ==
  ASSUME NEW h, Sound(h), h.Inited, NEW a \in Slots \ h.held, NEW size \in Nat
  PROVE  LET g == mwMalloc(h, a, size)
         IN  /\ MwType(g) /\ IsPushed(h, a, g) /\ g.block[a].size = size
             /\ g.Inited /\ g.said = h.said
             /\ g.NumCurAlloc = h.NumCurAlloc + 1
             /\ g.StatCurAlloc = h.StatCurAlloc + size
<1>1. /\ MwType(h) /\ h.block \in [Slots -> Header] /\ NULL \notin Slots /\ a # NULL
      /\ h.Head \in Slots \union {NULL} /\ h.NumCurAlloc \in Nat /\ h.StatCurAlloc \in Nat
  BY MemWatchAssumption DEF Sound, MwType
<1>2. h.Head # a
  BY <1>1, EndsAreHeld DEF Sound, LinksOK
<1>3. PICK front : front = IF h.Head = NULL THEN h ELSE [h EXCEPT !.block[h.Head].prev = a]
  OBVIOUS
<1>4. PICK t : t = IF h.Head = NULL THEN h.block ELSE [h.block EXCEPT ![h.Head].prev = a]
  OBVIOUS
<1>5. /\ t \in [Slots -> Header]
      /\ \A x \in Slots : t[x] = IF x = h.Head THEN [h.block[x] EXCEPT !.prev = a] ELSE h.block[x]
  <2>1. CASE h.Head = NULL
    BY <1>1, <1>4, <2>1
  <2>2. CASE h.Head # NULL
    BY <1>1, <1>4, <2>2, Relink
  <2> QED
    BY <2>1, <2>2
<1>6. front = [h EXCEPT !.block = t] /\ front.block = t
  BY <1>1, <1>3, <1>4 DEF MwType
<1>7. PICK new : new = [check |-> TRUE, prev |-> NULL, next |-> h.Head, size |-> size,
                        over |-> FALSE]
  OBVIOUS
<1>8. /\ new \in Header /\ new.check /\ new.prev = NULL /\ new.next = h.Head
      /\ new.size = size
  BY <1>1, <1>7 DEF Header
<1>9. PICK u : u = [t EXCEPT ![a] = new]
  OBVIOUS
<1>10. /\ u \in [Slots -> Header] /\ u[a] = new /\ \A x \in Slots \ {a} : u[x] = t[x]
  BY <1>5, <1>8, <1>9
<1>11. PICK g : g = [front EXCEPT !.block[a] = new, !.Head = a,
                                  !.Tail = IF @ = NULL THEN a ELSE @,
                                  !.NumCurAlloc = @ + 1, !.StatCurAlloc = @ + size,
                                  !.held = @ \union {a}]
  OBVIOUS
<1>12. mwMalloc(h, a, size) = g
  BY <1>1, <1>3, <1>7, <1>11 DEF mwMalloc, mwAutoInit
<1>13. g = [h EXCEPT !.block = u, !.Head = a, !.Tail = IF @ = NULL THEN a ELSE @,
                     !.NumCurAlloc = @ + 1, !.StatCurAlloc = @ + size,
                     !.held = @ \union {a}]
  BY <1>1, <1>6, <1>9, <1>11 DEF MwType
<1>14. /\ MwType(g) /\ g.block = u /\ g.Head = a
       /\ g.Tail = (IF h.Tail = NULL THEN a ELSE h.Tail)
       /\ g.held = h.held \union {a} /\ g.undefined = h.undefined
       /\ g.Inited = h.Inited /\ g.said = h.said
       /\ g.NumCurAlloc = h.NumCurAlloc + 1 /\ g.StatCurAlloc = h.StatCurAlloc + size
  <2>1. PICK tail : tail = IF h.Tail = NULL THEN a ELSE h.Tail
    OBVIOUS
  <2>2. PICK live : live = h.held \union {a}
    OBVIOUS
  <2>3. PICK num : num = h.NumCurAlloc + 1
    OBVIOUS
  <2>4. PICK total : total = h.StatCurAlloc + size
    OBVIOUS
  <2>5. /\ tail \in Slots \union {NULL} /\ live \in SUBSET Slots
        /\ num \in Nat /\ total \in Nat
    BY <1>1, <2>1, <2>2, <2>3, <2>4 DEF MwType
  <2>6. g = [h EXCEPT !.block = u, !.Head = a, !.Tail = tail, !.NumCurAlloc = num,
                      !.StatCurAlloc = total, !.held = live]
    BY <1>13, <2>1, <2>2, <2>3, <2>4
  <2>7. /\ MwType(g) /\ g.block = u /\ g.Head = a /\ g.Tail = tail /\ g.held = live
        /\ g.undefined = h.undefined /\ g.Inited = h.Inited /\ g.said = h.said
        /\ g.NumCurAlloc = num /\ g.StatCurAlloc = total
    BY <1>1, <1>10, <2>5, <2>6 DEF MwType
  <2> QED
    BY <2>1, <2>2, <2>3, <2>4, <2>7
<1>15. ASSUME NEW x \in Slots \ {a}
       PROVE  /\ u[x].check = h.block[x].check /\ u[x].size = h.block[x].size
              /\ u[x].over = h.block[x].over /\ u[x].next = h.block[x].next
              /\ u[x].prev = IF x = h.Head THEN a ELSE h.block[x].prev
  <2>1. u[x] = IF x = h.Head THEN [h.block[x] EXCEPT !.prev = a] ELSE h.block[x]
    BY <1>5, <1>10
  <2>2. h.block[x] \in Header /\ a \in Slots \union {NULL}
    BY <1>1
  <2> QED
    BY <2>1, <2>2, Relink
<1>16. IsPushed(h, a, g)
  BY <1>8, <1>10, <1>14, <1>15 DEF IsPushed
<1> QED
  BY <1>8, <1>10, <1>12, <1>14, <1>16

\* The longer chain is sound: the new rank is above all others.
LEMMA PushSound ==
  ASSUME NEW h, Sound(h), NEW a \in Slots \ h.held, NEW g, MwType(g), IsPushed(h, a, g)
  PROVE  Sound(g)
<1>1. /\ MwType(h) /\ h.held \in SUBSET Slots /\ NULL \notin Slots /\ a # NULL
      /\ h.held # {} => h.Head \in h.held /\ h.Tail \in h.held
      /\ h.held = {} <=> h.Head = NULL
      /\ h.held = {} <=> h.Tail = NULL
  BY MemWatchAssumption, EndsAreHeld DEF Sound, MwType, LinksOK
<1>2. Ordered(g)
  <2>0. PICK n \in Nat : \E rank \in [Slots -> 1..n] : Falls(h, rank)
    BY DEF Sound, Ordered
  <2>1. PICK rank \in [Slots -> 1..n] : Falls(h, rank)
    BY <2>0
  <2>2. PICK up : up = [rank EXCEPT ![a] = n + 1]
    OBVIOUS
  <2>3. /\ up \in [Slots -> 1..(n + 1)] /\ n + 1 \in Nat /\ up[a] = n + 1
        /\ \A x \in Slots \ {a} : up[x] = rank[x] /\ rank[x] < n + 1
    BY <2>1, <2>2
  <2>4. ASSUME NEW x \in g.held, g.block[x].next # NULL
        PROVE  up[g.block[x].next] < up[x]
    <3>1. CASE x = a
      <4>1. g.block[x].next = h.Head /\ h.Head \in h.held
        BY <1>1, <2>4, <3>1 DEF IsPushed
      <4> QED
        BY <1>1, <2>3, <3>1, <4>1
    <3>2. CASE x # a
      <4>1. x \in h.held /\ g.block[x].next = h.block[x].next
        BY <1>1, <2>4, <3>2 DEF IsPushed
      <4>2. h.block[x].next \in h.held /\ rank[h.block[x].next] < rank[x]
        BY <2>1, <2>4, <4>1 DEF Falls, Sound, LinksOK
      <4> QED
        BY <1>1, <2>3, <4>1, <4>2
    <3> QED
      BY <3>1, <3>2
  <2>5. Falls(g, up)
    BY <2>4 DEF Falls
  <2> QED
    BY <2>3, <2>5 DEF Ordered
<1>3. \A x \in h.held : /\ h.block[x].prev = NULL <=> h.Head = x
                        /\ h.block[x].next = NULL <=> h.Tail = x
                        /\ h.block[x].prev # NULL => /\ h.block[x].prev \in h.held
                                                     /\ h.block[h.block[x].prev].next = x
                        /\ h.block[x].next # NULL => /\ h.block[x].next \in h.held
                                                     /\ h.block[h.block[x].next].prev = x
  BY DEF Sound, LinksOK
<1>4. /\ g.held = h.held \union {a} /\ g.Head = a /\ g.undefined = h.undefined
      /\ g.Tail = (IF h.Tail = NULL THEN a ELSE h.Tail)
      /\ g.block[a].check /\ g.block[a].prev = NULL /\ g.block[a].next = h.Head
      /\ \A x \in Slots \ {a} :
            /\ g.block[x].check = h.block[x].check
            /\ g.block[x].next = h.block[x].next
            /\ g.block[x].prev = IF x = h.Head THEN a ELSE h.block[x].prev
  BY DEF IsPushed
<1>5. \A x \in Slots : g.block[x].check <=> x \in g.held
  BY <1>1, <1>4 DEF Sound, LinksOK
<1>6. /\ g.block[a].next = NULL <=> g.Tail = a
      /\ g.block[a].next # NULL => /\ g.block[a].next \in g.held
                                   /\ g.block[g.block[a].next].prev = a
  BY <1>1, <1>4
<1>7. ASSUME NEW x \in h.held
      PROVE  /\ g.block[x].prev = NULL <=> g.Head = x
             /\ g.block[x].next = NULL <=> g.Tail = x
             /\ g.block[x].prev # NULL => /\ g.block[x].prev \in g.held
                                          /\ g.block[g.block[x].prev].next = x
             /\ g.block[x].next # NULL => /\ g.block[x].next \in g.held
                                          /\ g.block[g.block[x].next].prev = x
  <2>1. x # a /\ x \in Slots /\ h.Tail \in h.held /\ h.Tail # NULL /\ g.Tail = h.Tail
    BY <1>1, <1>4
  <2>2. /\ g.block[x].next = NULL <=> g.Tail = x
        /\ g.block[x].next # NULL => /\ g.block[x].next \in g.held
                                     /\ g.block[g.block[x].next].prev = x
    BY <1>1, <1>3, <1>4, <2>1
  <2>3. /\ g.block[x].prev = NULL <=> g.Head = x
        /\ g.block[x].prev # NULL => /\ g.block[x].prev \in g.held
                                     /\ g.block[g.block[x].prev].next = x
    BY <1>1, <1>3, <1>4, <2>1
  <2> QED
    BY <2>2, <2>3
<1>8. LinksOK(g)
  <2>1. g.Head # NULL /\ g.Tail # NULL /\ g.held # {}
    BY <1>1, <1>4
  <2> QED
    BY <1>4, <1>5, <1>6, <1>7, <2>1 DEF LinksOK
<1> QED
  BY <1>2, <1>4, <1>8 DEF Sound

-----------------------------------------------------------------------------
(* What a call may do to what is live.                                       *)

Good(h) ==
    /\ Sound(h)
    /\ Counted(h)
    /\ ~ h.Inited => h.StatCurAlloc = 0

Keeps(h, g) == g.held = h.held /\ LiveOf(g) = LiveOf(h)

Gains(h, g, a, size) ==
    /\ a \in Slots \ h.held
    /\ g.held = h.held \union {a}
    /\ LiveOf(g) = [x \in h.held \union {a} |-> IF x = a THEN size ELSE LiveOf(h)[x]]

Loses(h, g, a) ==
    /\ a \in h.held
    /\ g.held = h.held \ {a}
    /\ LiveOf(g) = [x \in h.held \ {a} |-> LiveOf(h)[x]]
    /\ h.block[a].over => <<"overflow", a>> \in g.said

Swaps(h, g, p, a, size) ==
    /\ p \in h.held /\ a \in Slots \ h.held
    /\ g.held = (h.held \union {a}) \ {p}
    /\ LiveOf(g) = [x \in (h.held \ {p}) \union {a} |->
                      IF x = a THEN size ELSE LiveOf(h)[x]]
    /\ h.block[p].over => <<"overflow", p>> \in g.said

\* Nothing happens to the heap.
LEMMA GoodSame ==
  ASSUME NEW h, NEW g, Good(h), MwType(g), SameHeap(h, g),
         g.NumCurAlloc = h.NumCurAlloc, g.StatCurAlloc = h.StatCurAlloc,
         g.Inited \/ g.Inited = h.Inited
  PROVE  Good(g) /\ Keeps(h, g)
<1>1. Sound(g)
  BY SoundSame DEF Good
<1>2. LiveOf(g) = LiveOf(h) /\ g.held = h.held
  BY DEF SameHeap, LiveOf
<1>3. Counted(g)
  BY <1>2 DEF Good, Counted
<1> QED
  BY <1>1, <1>2, <1>3 DEF Good, Keeps

\* mwMalloc() with a place adds a buffer, and counts it.
LEMMA GoodPush ==
  ASSUME NEW h, Good(h), h.Inited, NEW a \in Slots \ h.held, NEW size \in Nat
  PROVE  LET g == mwMalloc(h, a, size)
         IN  /\ Good(g) /\ g.Inited /\ Gains(h, g, a, size) /\ g.said = h.said
             /\ \A x \in h.held : g.block[x].over = h.block[x].over
<1>1. PICK g : g = mwMalloc(h, a, size)
  OBVIOUS
<1>3. /\ MwType(g) /\ IsPushed(h, a, g) /\ g.block[a].size = size /\ g.Inited
      /\ g.said = h.said
      /\ g.NumCurAlloc = h.NumCurAlloc + 1 /\ g.StatCurAlloc = h.StatCurAlloc + size
  BY <1>1, MallocIs DEF Good
<1>4. Sound(g)
  BY <1>3, PushSound DEF Good
<1>5. /\ g.held = h.held \union {a}
      /\ \A x \in h.held : /\ g.block[x].size = h.block[x].size
                           /\ g.block[x].over = h.block[x].over
  BY <1>3 DEF IsPushed, Good, Sound, MwType
<1>6. MwType(h) /\ Counted(h)
  BY DEF Good, Sound
<1>7. /\ LiveOf(g) = [x \in h.held \union {a} |-> IF x = a THEN size ELSE LiveOf(h)[x]]
      /\ Cardinality(g.held) = h.NumCurAlloc + 1
      /\ SumFunction(LiveOf(g)) = h.StatCurAlloc + size
  <2>1. /\ MwType(h) /\ Counted(h) /\ MwType(g) /\ g.held = h.held \union {a}
        /\ g.block[a].size = size /\ \A x \in h.held : g.block[x].size = h.block[x].size
    BY <1>3, <1>5, <1>6
  <2>2. Cardinality(g.held) = h.NumCurAlloc + 1
    <3>1. IsFiniteSet(h.held) /\ a \notin h.held
      BY <2>1, LiveType
    <3>2. Cardinality(h.held \union {a}) = Cardinality(h.held) + 1
      BY <3>1, FS_AddElement
    <3> QED
      BY <2>1, <3>2 DEF Counted
  <2>3. SumFunction(LiveOf(g)) = h.StatCurAlloc + size
    BY <2>1, CountedMore, SMTT(60)
  <2>4. LiveOf(g) = [x \in h.held \union {a} |-> IF x = a THEN size ELSE LiveOf(h)[x]]
    BY <2>1, CountedMore
  <2> QED
    BY <2>2, <2>3, <2>4
<1>8. Counted(g)
  BY <1>3, <1>7 DEF Counted
<1> QED
  BY <1>1, <1>3, <1>4, <1>5, <1>7, <1>8 DEF Good, Gains

\* Freeing an owned buffer takes it away, from the counters too.
LEMMA GoodFree ==
  ASSUME NEW h, Good(h), h.Inited, NEW a \in h.held
  PROVE  LET g == FreeOwned(h, a)
         IN  /\ Good(g) /\ g.Inited /\ Loses(h, g, a)
             /\ g.said \subseteq h.said \union {<<"overflow", a>>}
<1>1. MwType(h) /\ Sound(h) /\ Counted(h) /\ a \in Slots
  BY DEF Good, Sound, MwType
<1>2. PICK tested : tested = mwTestBuf(h, a)
  OBVIOUS
<1>3. /\ MwType(tested) /\ SameHeap(h, tested) /\ SameCount(h, tested)
      /\ tested.said \subseteq h.said \union {<<"overflow", a>>}
      /\ h.block[a].over => <<"overflow", a>> \in tested.said
  BY <1>1, <1>2, TestBufIs
<1>5. /\ h.NumCurAlloc - 1 \in Nat
      /\ h.StatCurAlloc - h.block[a].size \in Nat
  <2>1. PICK g : g = [h EXCEPT !.held = @ \ {a}]
    OBVIOUS
  <2>2. g.held = h.held \ {a} /\ g.block = h.block
    BY <1>1, <2>1 DEF MwType
  <2> QED
    BY <1>1, <2>2, CountedLess
<1>6. PICK counted : counted = [tested EXCEPT !.NumCurAlloc = @ - 1,
                                              !.StatCurAlloc = @ - h.block[a].size]
  OBVIOUS
<1>7. /\ MwType(counted) /\ SameHeap(h, counted)
      /\ counted.NumCurAlloc = h.NumCurAlloc - 1
      /\ counted.StatCurAlloc = h.StatCurAlloc - h.block[a].size
      /\ counted.Inited /\ counted.said = tested.said
  <2>1. PICK num : num = h.NumCurAlloc - 1
    OBVIOUS
  <2>2. PICK total : total = h.StatCurAlloc - h.block[a].size
    OBVIOUS
  <2>3. counted = [tested EXCEPT !.NumCurAlloc = num, !.StatCurAlloc = total]
    BY <1>3, <1>6, <2>1, <2>2 DEF MwType, SameCount
  <2>4. /\ MwType(counted) /\ SameHeap(tested, counted)
        /\ counted.NumCurAlloc = num /\ counted.StatCurAlloc = total
        /\ counted.Inited = tested.Inited /\ counted.said = tested.said
    BY <1>3, <1>5, <2>1, <2>2, <2>3 DEF MwType, SameHeap
  <2> QED
    BY <1>3, <2>1, <2>2, <2>4 DEF SameHeap, SameCount
<1>8. Sound(counted) /\ a \in counted.held
  BY <1>1, <1>7, SoundSame DEF SameHeap
<1>9. PICK freed : freed = LibcFree(mwUnlink(counted, a), a)
  OBVIOUS
<1>10. IsReleased(counted, a, freed) /\ SameRest(counted, freed)
  BY <1>8, <1>9, ReleaseIs
<1>11. Sound(freed)
  BY <1>8, <1>10, ReleaseSound
<1>12. PICK g : g = [freed EXCEPT !.LastFree[h.LFcur] = a, !.LFcur = (@ + 1) % MW_FREE_LIST]
  OBVIOUS
<1>13. FreeOwned(h, a) = g
  BY <1>2, <1>6, <1>9, <1>12 DEF FreeOwned
<1>14. MwType(g) /\ SameHeap(freed, g) /\ SameCount(freed, g) /\ g.said = freed.said
  <2>1. PICK cur : cur = (freed.LFcur + 1) % MW_FREE_LIST
    OBVIOUS
  <2>2. PICK last : last = [freed.LastFree EXCEPT ![h.LFcur] = a]
    OBVIOUS
  <2>3. MwType(freed) /\ freed.LFcur \in Nat
    BY <1>11 DEF Sound, MwType
  <2>4. cur \in 0..MW_FREE_LIST - 1
    BY <2>1, <2>3, MemWatchAssumption
  <2>5. last \in [0..MW_FREE_LIST - 1 -> Pointers]
    <3>1. a \in Pointers /\ freed.LastFree \in [0..MW_FREE_LIST - 1 -> Pointers]
      BY <1>1, <2>3 DEF MwType, Pointers
    <3> QED
      BY <2>2, <3>1
  <2>6. g = [freed EXCEPT !.LastFree = last, !.LFcur = cur]
    BY <1>12, <2>1, <2>2, <2>3 DEF MwType
  <2> QED
    BY <2>3, <2>4, <2>5, <2>6 DEF MwType, SameHeap, SameCount
<1>15. Sound(g)
  BY <1>11, <1>14, SoundSame
<1>16. /\ g.held = h.held \ {a}
       /\ \A x \in g.held : g.block[x].size = h.block[x].size
       /\ g.NumCurAlloc = h.NumCurAlloc - 1
       /\ g.StatCurAlloc = h.StatCurAlloc - h.block[a].size
       /\ g.Inited /\ g.said = tested.said
  <2>1. /\ g.held = h.held \ {a} /\ g.block = freed.block /\ counted.block = h.block
        /\ counted.held = h.held
    BY <1>7, <1>10, <1>14 DEF IsReleased, SameHeap
  <2>2. \A x \in Slots \ {a} : freed.block[x].size = counted.block[x].size
    BY <1>10 DEF IsReleased, IsUnlinked
  <2>3. \A x \in g.held : g.block[x].size = h.block[x].size
    BY <1>1, <2>1, <2>2 DEF MwType
  <2> QED
    BY <1>7, <1>10, <1>14, <2>1, <2>3 DEF SameRest, SameCount
<1>17. /\ LiveOf(g) = [x \in h.held \ {a} |-> LiveOf(h)[x]]
       /\ Cardinality(g.held) = h.NumCurAlloc - 1
       /\ SumFunction(LiveOf(g)) = h.StatCurAlloc - h.block[a].size
  BY <1>1, <1>16, CountedLess, ZenonT(60)
<1>18. Counted(g)
  BY <1>16, <1>17 DEF Counted
<1> QED
  BY <1>3, <1>13, <1>15, <1>16, <1>17, <1>18 DEF Good, Loses

-----------------------------------------------------------------------------
(* The calls.                                                                *)

\* Every call begins by starting memwatch, once.
LEMMA Started ==
  ASSUME NEW h, Good(h)
  PROVE  LET g == mwAutoInit(h)
         IN  /\ Good(g) /\ MwType(g) /\ g.Inited /\ Keeps(h, g) /\ g.block = h.block
             /\ mwAutoInit(g) = g /\ g.said = h.said
<1>1. PICK g : g = mwAutoInit(h)
  OBVIOUS
<1>2. MwType(h) /\ (~ h.Inited => h.StatCurAlloc = 0)
  BY DEF Good, Sound
<1>3. /\ MwType(g) /\ SameHeap(h, g) /\ g.Inited /\ g.said = h.said
      /\ g.NumCurAlloc = h.NumCurAlloc /\ g.StatCurAlloc = h.StatCurAlloc
  BY <1>1, <1>2, AutoInitIs
<1>4. Good(g) /\ Keeps(h, g)
  BY <1>3, GoodSame
<1>5. mwAutoInit(g) = g
  BY <1>3 DEF mwAutoInit
<1> QED
  BY <1>1, <1>3, <1>4, <1>5 DEF SameHeap

\* malloc(): one buffer more, or, when libc has no place, none.
LEMMA MallocGood ==
  ASSUME NEW h, Good(h), NEW a \in (Slots \ h.held) \union {NULL}, NEW size \in Nat
  PROVE  LET g == mwMalloc(h, a, size)
         IN  /\ Good(g) /\ g.Inited
             /\ a = NULL => Keeps(h, g) /\ g.said = h.said \union {<<"fail", NULL>>}
             /\ a # NULL => Gains(h, g, a, size) /\ g.said = h.said
<1>1. PICK s : s = mwAutoInit(h)
  OBVIOUS
<1>2. /\ Good(s) /\ MwType(s) /\ s.Inited /\ Keeps(h, s) /\ s.block = h.block
      /\ mwAutoInit(s) = s /\ s.said = h.said
  BY <1>1, Started
<1>3. mwMalloc(h, a, size) = mwMalloc(s, a, size)
  BY <1>1, <1>2, ZenonT(60) DEF mwMalloc
<1>4. PICK g : g = mwMalloc(s, a, size)
  OBVIOUS
<1>5. CASE a = NULL
  <2>1. g = Complain(s, {<<"fail", NULL>>})
    BY <1>2, <1>4, <1>5 DEF mwMalloc
  <2>2. <<"fail", NULL>> \in Report
    BY DEF Report, ReportKind, Pointers
  <2>3. /\ MwType(g) /\ SameHeap(s, g) /\ SameCount(s, g)
        /\ g.said = s.said \union {<<"fail", NULL>>}
    BY <1>2, <2>1, <2>2, ComplainIs
  <2>4. Good(g) /\ Keeps(s, g) /\ g.Inited
    BY <1>2, <2>3, GoodSame DEF SameCount
  <2> QED
    BY <1>2, <1>3, <1>4, <1>5, <2>3, <2>4 DEF Keeps
<1>6. CASE a # NULL
  <2>1. a \in Slots \ s.held
    BY <1>2, <1>6 DEF Keeps
  <2>2. Good(g) /\ g.Inited /\ Gains(s, g, a, size) /\ g.said = s.said
    BY <1>2, <1>4, <2>1, GoodPush
  <2>3. s.held = h.held /\ LiveOf(s) = LiveOf(h)
    BY <1>2 DEF Keeps
  <2>4. Gains(h, g, a, size)
    BY <2>2, <2>3 DEF Gains
  <2> QED
    BY <1>2, <1>3, <1>4, <1>6, <2>2, <2>4
<1> QED
  BY <1>5, <1>6

\* free(): one buffer less if p is one, and otherwise only a report.
LEMMA FreeGood ==
  ASSUME NEW h, Good(h), NEW p \in Pointers
  PROVE  LET g == mwFree(h, p)
         IN  /\ Good(g) /\ g.Inited /\ (Keeps(h, g) \/ Loses(h, g, p))
             /\ p \in h.held => /\ Loses(h, g, p)
                               /\ g.said \subseteq h.said \union {<<"overflow", p>>}
<1>1. PICK s : s = mwAutoInit(h)
  OBVIOUS
<1>2. /\ Good(s) /\ MwType(s) /\ s.Inited /\ Keeps(h, s) /\ s.block = h.block
      /\ s.said = h.said
  BY <1>1, Started
<1>3. s.held = h.held /\ LiveOf(s) = LiveOf(h) /\ s.held \in SUBSET Slots /\ Sound(s)
  BY <1>2 DEF Keeps, MwType, Good
<1>4. PICK g : g = mwFree(h, p)
  OBVIOUS
<1>5. CASE p = NULL
  <2>0. PICK note : note = {<<"NULL free", p>>}
    OBVIOUS
  <2>1. g = Say(s, note)
    BY <1>1, <1>4, <1>5, <2>0 DEF mwFree
  <2>2. note \in Reports
    <3>1. <<"NULL free", p>> \in Report
      BY DEF Report, ReportKind
    <3> QED
      BY <2>0, <3>1 DEF Reports
  <2>3. MwType(g) /\ SameHeap(s, g) /\ SameCount(s, g)
    BY <1>2, <2>1, <2>2, SayIs
  <2>4. Good(g) /\ Keeps(s, g) /\ g.Inited
    BY <1>2, <2>3, GoodSame DEF SameCount
  <2>5. p \notin h.held
    BY <1>3, <1>5, MemWatchAssumption
  <2> QED
    BY <1>3, <1>4, <2>4, <2>5 DEF Keeps
<1>6. CASE p \in s.held
  <2>1. p # NULL /\ p \in Slots /\ mwIsOwned(s, p)
    BY <1>3, <1>6, OwnedIsHeld, MemWatchAssumption
  <2>2. g = FreeOwned(s, p)
    BY <1>1, <1>4, <2>1 DEF mwFree
  <2>3. /\ Good(g) /\ g.Inited /\ Loses(s, g, p)
        /\ g.said \subseteq s.said \union {<<"overflow", p>>}
    BY <1>2, <1>6, <2>2, GoodFree
  <2>4. Loses(h, g, p)
    BY <1>2, <1>3, <2>3 DEF Loses
  <2> QED
    BY <1>2, <1>4, <2>3, <2>4
<1>7. CASE p # NULL /\ p \notin s.held
  <2>1. ~ (p \in Slots /\ mwIsOwned(s, p))
    BY <1>3, <1>7, OwnedIsHeld
  <2>2. g = CheckDoubleFree(s, p, "double-free", "WILD free")
    BY <1>1, <1>4, <1>7, <2>1 DEF mwFree
  <2>3. MwType(g) /\ SameHeap(s, g) /\ SameCount(s, g)
    <3>1. "double-free" \in ReportKind /\ "WILD free" \in ReportKind
      BY DEF ReportKind
    <3> QED
      BY <1>2, <2>2, <3>1, DoubleFreeIs
  <2>4. Good(g) /\ Keeps(s, g) /\ g.Inited
    BY <1>2, <2>3, GoodSame DEF SameCount
  <2> QED
    BY <1>3, <1>4, <1>7, <2>4 DEF Keeps
<1> QED
  BY <1>5, <1>6, <1>7

\* realloc(): a new buffer for the old one, or the old one stays.
LEMMA ReallocGood ==
  ASSUME NEW h, Good(h), NEW p \in Pointers,
         NEW a \in (Slots \ h.held) \union {NULL}, NEW size \in Nat
  PROVE  LET g == mwRealloc(h, p, a, size)
         IN  /\ Good(g) /\ (Keeps(h, g) \/ Gains(h, g, a, size) \/ Swaps(h, g, p, a, size))
             /\ p \in h.held /\ a = NULL =>
                   Keeps(h, g) /\ g.said = h.said \union {<<"fail", NULL>>}
             /\ p \in h.held /\ a # NULL =>
                   /\ Swaps(h, g, p, a, size)
                   /\ g.said \subseteq h.said \union {<<"overflow", p>>}
<1>1. PICK s : s = mwAutoInit(h)
  OBVIOUS
<1>2. /\ Good(s) /\ MwType(s) /\ s.Inited /\ Keeps(h, s) /\ s.block = h.block
      /\ mwAutoInit(s) = s /\ s.said = h.said
  BY <1>1, Started
<1>3. s.held = h.held /\ LiveOf(s) = LiveOf(h) /\ s.held \in SUBSET Slots /\ Sound(s)
  BY <1>2 DEF Keeps, MwType, Good
<1>4. PICK g : g = mwRealloc(h, p, a, size)
  OBVIOUS
<1>5. PICK got : got = mwMalloc(s, a, size)
  OBVIOUS
<1>6. a \in (Slots \ s.held) \union {NULL}
  BY <1>3
<1>7. /\ Good(got) /\ got.Inited
      /\ a = NULL => Keeps(s, got) /\ got.said = h.said \union {<<"fail", NULL>>}
      /\ a # NULL => Gains(s, got, a, size) /\ got.said = h.said
  BY <1>2, <1>5, <1>6, MallocGood
<1>8. /\ a = NULL => Keeps(h, got)
      /\ a # NULL => Gains(h, got, a, size)
  BY <1>3, <1>7 DEF Keeps, Gains
<1>9. CASE p = NULL
  <2>1. g = got
    BY <1>1, <1>4, <1>5, <1>9 DEF mwRealloc
  <2>2. p \notin h.held
    BY <1>3, <1>9, MemWatchAssumption
  <2> QED
    BY <1>4, <1>7, <1>8, <2>1, <2>2
<1>10. CASE p \in s.held /\ a = NULL
  <2>1. p # NULL /\ p \in Slots /\ mwIsOwned(s, p)
    BY <1>3, <1>10, OwnedIsHeld, MemWatchAssumption
  <2>2. g = got
    BY <1>1, <1>4, <1>5, <1>10, <2>1 DEF mwRealloc
  <2> QED
    BY <1>4, <1>7, <1>8, <1>10, <2>2
<1>11. CASE p \in s.held /\ a # NULL
  <2>1. p # NULL /\ p \in Slots /\ mwIsOwned(s, p)
    BY <1>3, <1>11, OwnedIsHeld, MemWatchAssumption
  <2>2. g = mwFree(got, p)
    BY <1>1, <1>4, <1>5, <1>11, <2>1 DEF mwRealloc
  <2>3. a \in Slots \ s.held
    BY <1>6, <1>11
  <2>4. Gains(s, got, a, size) /\ \A x \in s.held : got.block[x].over = s.block[x].over
    BY <1>2, <1>5, <2>3, GoodPush
  <2>5. p \in got.held
    BY <1>11, <2>4 DEF Gains
  <2>6. /\ Good(g) /\ Loses(got, g, p)
        /\ g.said \subseteq got.said \union {<<"overflow", p>>}
    BY <1>7, <2>2, <2>5, FreeGood
  <2>7. g.held = (h.held \union {a}) \ {p}
    BY <1>3, <2>4, <2>6 DEF Gains, Loses
  <2>8. LiveOf(g) = [x \in (h.held \ {p}) \union {a} |-> IF x = a THEN size ELSE LiveOf(h)[x]]
    <3>1. LiveOf(g) = [x \in (h.held \union {a}) \ {p} |-> LiveOf(got)[x]]
      BY <1>3, <2>4, <2>6 DEF Gains, Loses
    <3>2. LiveOf(got) = [x \in h.held \union {a} |-> IF x = a THEN size ELSE LiveOf(h)[x]]
      BY <1>3, <2>4 DEF Gains
    <3>3. (h.held \union {a}) \ {p} = (h.held \ {p}) \union {a}
      BY <1>11, <2>3
    <3> QED
      BY <3>1, <3>2, <3>3
  <2>9. h.block[p].over => <<"overflow", p>> \in g.said
    BY <1>2, <1>11, <2>4, <2>6 DEF Loses
  <2>10. Swaps(h, g, p, a, size)
    <3>1. p \in h.held /\ a \in Slots \ h.held
      BY <1>3, <1>11, <2>3
    <3> QED
      BY <2>7, <2>8, <2>9, <3>1, Zenon DEF Swaps
  <2> QED
    BY <1>4, <1>7, <1>11, <2>6, <2>10
<1>12. CASE p # NULL /\ p \notin s.held
  <2>1. ~ (p \in Slots /\ mwIsOwned(s, p))
    BY <1>3, <1>12, OwnedIsHeld
  <2>2. g = CheckDoubleFree(s, p, "realloc: was freed", "realloc: unknown pointer")
    BY <1>1, <1>4, <1>12, <2>1 DEF mwRealloc
  <2>3. MwType(g) /\ SameHeap(s, g) /\ SameCount(s, g)
    <3>1. "realloc: was freed" \in ReportKind /\ "realloc: unknown pointer" \in ReportKind
      BY DEF ReportKind
    <3> QED
      BY <1>2, <2>2, <3>1, DoubleFreeIs
  <2>4. Good(g) /\ Keeps(s, g)
    BY <1>2, <2>3, GoodSame DEF SameCount
  <2> QED
    BY <1>3, <1>4, <1>12, <2>4 DEF Keeps
<1> QED
  BY <1>9, <1>10, <1>11, <1>12

-----------------------------------------------------------------------------
(* The program's other steps.                                                *)

\* mwAbort() takes the head of the chain, and says so.
LEMMA UnfreedIs ==
  ASSUME NEW h, Sound(h), NEW a \in h.held, a = h.Head
  PROVE  LET g == Unfreed(h)
         IN  /\ Sound(g) /\ Loses(h, g, a) /\ <<"unfreed", a>> \in g.said
             /\ g.said \subseteq h.said \union {<<"unfreed", a>>, <<"overflow", a>>}
<1>1. MwType(h) /\ a \in Slots
  BY DEF Sound, MwType
<1>2. PICK told : told = Complain(h, {<<"unfreed", a>>})
  OBVIOUS
<1>3. <<"unfreed", a>> \in Report /\ <<"overflow", a>> \in Report
  <2>1. a \in Pointers \union Nat /\ "overflow" \in ReportKind /\ "unfreed" \in ReportKind
    BY <1>1 DEF Pointers, ReportKind
  <2> QED
    BY <2>1 DEF Report
<1>4. MwType(told) /\ SameHeap(h, told) /\ told.said = h.said \union {<<"unfreed", a>>}
  BY <1>1, <1>2, <1>3, ComplainIs
<1>5. PICK notes : notes = IF h.block[a].over THEN {<<"overflow", a>>} ELSE {}
  OBVIOUS
<1>6. notes \in Reports
  BY <1>3, <1>5 DEF Reports
<1>7. PICK noted : noted = Say(told, notes)
  OBVIOUS
<1>8. MwType(noted) /\ SameHeap(told, noted) /\ noted.said = told.said \union notes
  BY <1>4, <1>6, <1>7, SayIs
<1>9. SameHeap(h, noted)
  BY <1>4, <1>8 DEF SameHeap
<1>10. Sound(noted) /\ a \in noted.held
  BY <1>8, <1>9, SoundSame DEF SameHeap
<1>11. PICK g : g = LibcFree(mwUnlink(noted, a), a)
  OBVIOUS
<1>12. IsReleased(noted, a, g) /\ SameRest(noted, g)
  BY <1>10, <1>11, ReleaseIs
<1>13. Sound(g)
  BY <1>10, <1>12, ReleaseSound
<1>14. Unfreed(h) = g
  BY <1>2, <1>5, <1>7, <1>11 DEF Unfreed
<1>15. /\ <<"unfreed", a>> \in g.said
       /\ g.said \subseteq h.said \union {<<"unfreed", a>>, <<"overflow", a>>}
       /\ h.block[a].over => <<"overflow", a>> \in g.said
  BY <1>4, <1>5, <1>8, <1>12 DEF SameRest
<1>16. g.held = h.held \ {a} /\ LiveOf(g) = [x \in h.held \ {a} |-> LiveOf(h)[x]]
  <2>1. noted.held = h.held /\ noted.block = h.block /\ h.held \in SUBSET Slots
    BY <1>1, <1>9 DEF SameHeap, MwType
  <2>2. /\ g.held = h.held \ {a}
        /\ \A x \in h.held \ {a} : g.block[x].size = h.block[x].size
    BY <1>12, <2>1 DEF IsReleased, IsUnlinked
  <2> QED
    BY <2>2 DEF LiveOf
<1> QED
  BY <1>13, <1>14, <1>15, <1>16 DEF Loses

\* A write behind a buffer hits no link and no size.
LEMMA OverrunIs ==
  ASSUME NEW h, Good(h), NEW a \in h.held
  PROVE  LET g == [h EXCEPT !.block[a].over = TRUE] IN Good(g) /\ Keeps(h, g)
<1>1. PICK t : t = [h.block EXCEPT ![a].over = TRUE]
  OBVIOUS
<1>2. PICK g : g = [h EXCEPT !.block[a].over = TRUE]
  OBVIOUS
<1>3. MwType(h) /\ a \in Slots /\ h.block \in [Slots -> Header]
  BY DEF Good, Sound, MwType
<1>4. /\ t \in [Slots -> Header]
      /\ \A x \in Slots : /\ t[x].check = h.block[x].check /\ t[x].prev = h.block[x].prev
                          /\ t[x].next = h.block[x].next /\ t[x].size = h.block[x].size
  BY <1>1, <1>3 DEF Header
<1>5. g = [h EXCEPT !.block = t]
  BY <1>1, <1>2, <1>3 DEF MwType
<1>6. /\ MwType(g) /\ g.block = t /\ g.held = h.held /\ g.Head = h.Head /\ g.Tail = h.Tail
      /\ g.undefined = h.undefined /\ SameCount(h, g)
  BY <1>3, <1>4, <1>5 DEF MwType, SameCount
<1>7. LinksOK(g)
  <2>1. LinksOK(h) /\ h.held \in SUBSET Slots /\ NULL \notin Slots
    BY <1>3, MemWatchAssumption DEF Good, Sound, MwType
  <2> QED
    BY <1>4, <1>6, <2>1 DEF LinksOK
<1>8. Ordered(g)
  <2>0. PICK n \in Nat : \E rank \in [Slots -> 1..n] : Falls(h, rank)
    BY DEF Good, Sound, Ordered
  <2>1. PICK rank \in [Slots -> 1..n] : Falls(h, rank)
    BY <2>0
  <2>2. h.held \in SUBSET Slots
    BY <1>3 DEF MwType
  <2>3. Falls(g, rank)
    BY <1>4, <1>6, <2>1, <2>2 DEF Falls
  <2> QED
    BY <2>3 DEF Ordered
<1>9. Sound(g)
  BY <1>6, <1>7, <1>8 DEF Good, Sound
<1>10. LiveOf(g) = LiveOf(h)
  BY <1>3, <1>4, <1>6 DEF LiveOf, MwType
<1>11. Counted(g) /\ (~ g.Inited => g.StatCurAlloc = 0)
  BY <1>6, <1>10 DEF Good, Counted, SameCount
<1> QED
  BY <1>2, <1>6, <1>9, <1>10, <1>11 DEF Good, Keeps

\* A call starts with an empty log.
LEMMA QuietIs ==
  ASSUME MwType(mw)
  PROVE  MwType(Quiet) /\ SameHeap(mw, Quiet) /\ SameCount(mw, Quiet) /\ Quiet.Errors = mw.Errors
BY DEF MwType, Quiet, SameHeap, SameCount

-----------------------------------------------------------------------------
(* The invariant, and what a step can do.                                    *)

\* While the program runs the counters match as well.
MemInv == TypeOK /\ Sound(mw) /\ (phase = "running" => Good(mw))

Running == phase = "running" /\ phase' = "running"

\* Every step does one of these to the heap.
Outcome ==
    \/ phase' = phase /\ Keeps(mw, mw')
    \/ Running /\ \E a \in Slots, n \in Sizes : Gains(mw, mw', a, n)
    \/ Running /\ \E a \in Slots : Loses(mw, mw', a)
    \/ Running /\ \E p, a \in Slots, n \in Sizes : Swaps(mw, mw', p, a, n)
    \/ phase = "running" /\ phase' = "exiting" /\ Keeps(mw, mw')
    \/ /\ phase = "exiting" /\ phase' = "exiting"
       /\ \E a \in Slots : Loses(mw, mw', a) /\ <<"unfreed", a>> \in mw'.said
    \/ phase = "exiting" /\ phase' = "stopped" /\ mw.held = {} /\ Keeps(mw, mw')

\* What the calls find.
LEMMA QuietGood ==
  ASSUME Good(mw)
  PROVE  Good(Quiet) /\ Quiet.held = mw.held /\ Quiet.block = mw.block /\ LiveOf(Quiet) = LiveOf(mw)
<1>1. MwType(mw)
  BY DEF Good, Sound
<1>2. MwType(Quiet) /\ SameHeap(mw, Quiet) /\ SameCount(mw, Quiet)
  BY <1>1, QuietIs
<1>3. Good(Quiet) /\ Keeps(mw, Quiet)
  BY <1>2, GoodSame DEF SameCount
<1> QED
  BY <1>2, <1>3 DEF Keeps, SameHeap

\* The three allocation calls.
LEMMA CallStep ==
  ASSUME MemInv,
         \/ \E a \in Slots \union {NULL}, n \in Sizes : Malloc(a, n)
         \/ \E p \in Pointers, a \in Slots \union {NULL}, n \in Sizes : Realloc(p, a, n)
         \/ \E p \in Pointers : Free(p)
  PROVE  MemInv' /\ Outcome
<1>1. phase = "running" /\ phase' = "running" /\ getlined' = getlined
  BY DEF Malloc, Realloc, Free, Careful
<1>2. Good(mw) /\ mw.held \in SUBSET Slots /\ getlined \subseteq Foreign
  BY <1>1 DEF MemInv, TypeOK
<1>3. Good(Quiet) /\ Quiet.held = mw.held /\ Quiet.block = mw.block /\ LiveOf(Quiet) = LiveOf(mw)
  BY <1>2, QuietGood
<1>4. /\ Good(mw')
      /\ \/ Keeps(mw, mw')
         \/ \E a \in Slots, n \in Sizes : Gains(mw, mw', a, n)
         \/ \E a \in Slots : Loses(mw, mw', a)
         \/ \E p, a \in Slots, n \in Sizes : Swaps(mw, mw', p, a, n)
  <2>1. CASE \E a \in Slots \union {NULL}, n \in Sizes : Malloc(a, n)
    <3>1. PICK a \in Slots \union {NULL}, n \in Sizes : Malloc(a, n)
      BY <2>1
    <3>2. a \in (Slots \ Quiet.held) \union {NULL} /\ mw' = mwMalloc(Quiet, a, n)
      BY <1>3, <3>1 DEF Malloc, Fresh
    <3>3. Good(mw') /\ (Keeps(Quiet, mw') \/ Gains(Quiet, mw', a, n))
      <4>1. n \in Nat
        BY <3>1, MemWatchAssumption
      <4> QED
        BY <1>3, <3>2, <4>1, MallocGood
    <3>4. Keeps(mw, mw') \/ Gains(mw, mw', a, n)
      BY <1>3, <3>3 DEF Keeps, Gains
    <3>5. Gains(mw, mw', a, n) => a \in Slots
      BY DEF Gains
    <3> QED
      BY <3>3, <3>4, <3>5
  <2>2. CASE \E p \in Pointers, a \in Slots \union {NULL}, n \in Sizes : Realloc(p, a, n)
    <3>1. PICK p \in Pointers, a \in Slots \union {NULL}, n \in Sizes : Realloc(p, a, n)
      BY <2>2
    <3>2. a \in (Slots \ Quiet.held) \union {NULL} /\ mw' = mwRealloc(Quiet, p, a, n)
      BY <1>3, <3>1 DEF Realloc, Fresh
    <3>3. /\ Good(mw')
          /\ Keeps(Quiet, mw') \/ Gains(Quiet, mw', a, n) \/ Swaps(Quiet, mw', p, a, n)
      <4>1. n \in Nat
        BY <3>1, MemWatchAssumption
      <4> QED
        BY <1>3, <3>2, <4>1, ReallocGood
    <3>4. Keeps(mw, mw') \/ Gains(mw, mw', a, n) \/ Swaps(mw, mw', p, a, n)
      BY <1>3, <3>3 DEF Keeps, Gains, Swaps
    <3>5. /\ Gains(mw, mw', a, n) => a \in Slots
          /\ Swaps(mw, mw', p, a, n) => a \in Slots /\ p \in Slots
      BY <1>2 DEF Gains, Swaps
    <3> QED
      BY <3>3, <3>4, <3>5
  <2>3. CASE \E p \in Pointers : Free(p)
    <3>1. PICK p \in Pointers : Free(p)
      BY <2>3
    <3>2. mw' = mwFree(Quiet, p)
      BY <3>1 DEF Free
    <3>3. Good(mw') /\ (Keeps(Quiet, mw') \/ Loses(Quiet, mw', p))
      BY <1>3, <3>2, FreeGood
    <3>4. Keeps(mw, mw') \/ Loses(mw, mw', p)
      BY <1>3, <3>3 DEF Keeps, Loses
    <3>5. Loses(mw, mw', p) => p \in Slots
      BY <1>2 DEF Loses
    <3> QED
      BY <3>3, <3>4, <3>5
  <2> QED
    BY <2>1, <2>2, <2>3
<1>5. Sound(mw') /\ MwType(mw')
  BY <1>4 DEF Good, Sound
<1>6. MemInv'
  <2>1. TypeOK'
    BY <1>1, <1>2, <1>5 DEF TypeOK, MwType
  <2> QED
    BY <1>4, <1>5, <2>1 DEF MemInv
<1> QED
  BY <1>1, <1>4, <1>6 DEF Outcome, Running

\* getline() and its buffers, overruns, exit() and mwAbort().
LEMMA OtherStep ==
  ASSUME MemInv,
         \/ \E p \in Foreign : GetLine(p)
         \/ \E p \in Foreign : mwFree_(p)
         \/ \E a \in Slots : Overrun(a)
         \/ Exit \/ AbortNext \/ AbortEnd
  PROVE  MemInv' /\ Outcome
<1>0. Sound(mw) /\ MwType(mw) /\ getlined \subseteq Foreign /\ mw.held \in SUBSET Slots
  BY DEF MemInv, Sound, MwType, TypeOK
<1>6. MwType(Quiet) /\ SameHeap(mw, Quiet) /\ SameCount(mw, Quiet) /\ Quiet.Errors = mw.Errors
  BY <1>0, QuietIs
<1>7. Sound(Quiet) /\ Quiet.held = mw.held /\ Quiet.Head = mw.Head /\ Quiet.block = mw.block
  BY <1>0, <1>6, SoundSame DEF SameHeap
<1>8. LiveOf(Quiet) = LiveOf(mw)
  BY <1>7 DEF LiveOf
<1>1. CASE (\E p \in Foreign : GetLine(p)) \/ (\E p \in Foreign : mwFree_(p))
  <2>1. phase = "running" /\ phase' = "running" /\ mw' = Quiet /\ getlined' \subseteq Foreign
    BY <1>0, <1>1 DEF GetLine, mwFree_, Careful
  <2>2. Good(mw) /\ Good(mw')
    BY <2>1, QuietGood DEF MemInv
  <2>3. MemInv'
    BY <1>6, <1>7, <2>1, <2>2 DEF MemInv, TypeOK, MwType
  <2> QED
    BY <1>7, <1>8, <2>1, <2>3 DEF Outcome, Keeps
<1>2. CASE \E a \in Slots : Overrun(a)
  <2>1. PICK a \in Slots : Overrun(a)
    BY <1>2
  <2>2. /\ phase = "running" /\ phase' = "running" /\ getlined' = getlined
        /\ a \in Quiet.held /\ mw' = [Quiet EXCEPT !.block[a].over = TRUE]
    BY <1>7, <2>1 DEF Overrun, Careful
  <2>3. Good(Quiet)
    BY <2>2, QuietGood DEF MemInv
  <2>4. Good(mw') /\ Keeps(Quiet, mw')
    BY <2>2, <2>3, OverrunIs
  <2>5. Sound(mw') /\ MwType(mw')
    BY <2>4 DEF Good, Sound
  <2>6. MemInv'
    BY <1>0, <2>2, <2>4, <2>5 DEF MemInv, TypeOK, MwType
  <2> QED
    BY <1>7, <1>8, <2>2, <2>4, <2>6 DEF Outcome, Keeps
<1>3. CASE Exit
  <2>1. phase = "running" /\ phase' = "exiting" /\ mw' = Quiet /\ getlined' = getlined
    BY <1>3 DEF Exit
  <2>2. MemInv'
    BY <1>0, <1>6, <1>7, <2>1 DEF MemInv, TypeOK, MwType
  <2> QED
    BY <1>7, <1>8, <2>1, <2>2 DEF Outcome, Keeps
<1>4. CASE AbortNext
  <2>1. /\ phase = "exiting" /\ phase' = "exiting" /\ getlined' = getlined
        /\ mw' = Unfreed(Quiet) /\ mw.Head # NULL
    BY <1>4 DEF AbortNext, SoundHead
  <2>2. PICK a \in Quiet.held : a = Quiet.Head
    <3>1. LinksOK(mw)
      BY <1>0 DEF Sound
    <3>2. mw.held # {}
      BY <2>1, <3>1 DEF LinksOK
    <3> QED
      BY <1>0, <1>7, <3>2, EndsAreHeld
  <2>3. Sound(mw') /\ Loses(Quiet, mw', a) /\ <<"unfreed", a>> \in mw'.said
    BY <1>7, <2>1, <2>2, UnfreedIs
  <2>4. Loses(mw, mw', a) /\ a \in Slots
    BY <1>0, <1>7, <1>8, <2>3 DEF Loses
  <2>5. MemInv'
    <3>1. MwType(mw')
      BY <2>3 DEF Sound
    <3> QED
      BY <1>0, <2>1, <2>3, <3>1 DEF MemInv, TypeOK, MwType
  <2> QED
    BY <2>1, <2>3, <2>4, <2>5 DEF Outcome
<1>5. CASE AbortEnd
  <2>1. PICK notes : notes = {<<"anomalies", mw.Errors>>}
    OBVIOUS
  <2>2. PICK said : said = Say(Quiet, notes)
    OBVIOUS
  <2>3. /\ phase = "exiting" /\ phase' = "stopped" /\ getlined' = getlined
        /\ mw' = [said EXCEPT !.Inited = FALSE, !.Head = NULL, !.Tail = NULL, !.Errors = 0]
        /\ ~ SoundHead
    BY <1>5, <2>1, <2>2 DEF AbortEnd
  <2>4. mw.held = {}
    <3> SUFFICES ASSUME mw.held # {} PROVE FALSE
      OBVIOUS
    <3>1. mw.Head \in mw.held /\ mw.Head \in Slots /\ mw.Head # NULL
      BY <1>0, EndsAreHeld, MemWatchAssumption
    <3>2. mwIsOwned(mw, mw.Head)
      BY <1>0, <3>1, OwnedIsHeld
    <3> QED
      BY <2>3, <3>1, <3>2 DEF SoundHead
  <2>5. notes \in Reports
    <3>1. mw.Errors \in Nat /\ "anomalies" \in ReportKind
      BY <1>0 DEF MwType, ReportKind
    <3>2. <<"anomalies", mw.Errors>> \in Report
      BY <3>1 DEF Report
    <3> QED
      BY <2>1, <3>2 DEF Reports
  <2>6. MwType(said) /\ SameHeap(Quiet, said)
    BY <1>6, <2>2, <2>5, SayIs
  <2>7. /\ MwType(mw') /\ mw'.Head = NULL /\ mw'.Tail = NULL /\ mw'.held = said.held
        /\ mw'.block = said.block /\ mw'.undefined = said.undefined
    BY <2>3, <2>6 DEF MwType
  <2>8. mw'.held = {} /\ mw'.block = mw.block /\ ~ mw'.undefined
    BY <1>0, <1>6, <2>4, <2>6, <2>7 DEF SameHeap, Sound
  <2>9. LinksOK(mw') /\ Ordered(mw')
    <3>1. LinksOK(mw')
      BY <1>0, <2>4, <2>7, <2>8 DEF Sound, LinksOK
    <3>2. PICK n \in Nat : \E rank \in [Slots -> 1..n] : Falls(mw, rank)
      BY <1>0 DEF Sound, Ordered
    <3>3. PICK rank \in [Slots -> 1..n] : Falls(mw, rank)
      BY <3>2
    <3>4. Falls(mw', rank)
      BY <2>8 DEF Falls
    <3> QED
      BY <3>1, <3>4 DEF Ordered
  <2>10. Keeps(mw, mw')
    BY <2>4, <2>8 DEF Keeps, LiveOf
  <2>11. MemInv'
    BY <1>0, <2>3, <2>7, <2>8, <2>9 DEF MemInv, Sound, TypeOK, MwType
  <2> QED
    BY <2>3, <2>4, <2>10, <2>11 DEF Outcome
<1> QED
  BY <1>1, <1>2, <1>3, <1>4, <1>5

\* The invariant is kept, and every step has one of the outcomes.
LEMMA MemNext == MemInv /\ [Next]_memVars => MemInv' /\ Outcome
<1> SUFFICES ASSUME MemInv, [Next]_memVars PROVE MemInv' /\ Outcome
  OBVIOUS
<1>1. CASE Next
  BY <1>1, CallStep, OtherStep DEF Next
<1>2. CASE UNCHANGED memVars
  <2>1. mw' = mw /\ getlined' = getlined /\ phase' = phase
    BY <1>2 DEF memVars
  <2>2. MemInv'
    BY <2>1 DEF MemInv, TypeOK
  <2> QED
    BY <2>1, <2>2 DEF Outcome, Keeps
<1> QED
  BY <1>1, <1>2

\* memwatch starts with nothing.
LEMMA MemInit == Init => MemInv
<1> SUFFICES ASSUME Init PROVE MemInv
  OBVIOUS
<1>1. mw = InitMw /\ getlined = {} /\ phase = "running"
  BY DEF Init
<1>2. MwType(mw)
  BY <1>1, MemWatchAssumption DEF InitMw, MwType, Header, Garbage, Pointers
<1>3. LinksOK(mw) /\ ~ mw.undefined /\ mw.held = {}
  BY <1>1 DEF InitMw, LinksOK, Garbage
<1>4. Ordered(mw)
  <2>1. PICK rank : rank = [a \in Slots |-> 1]
    OBVIOUS
  <2>2. rank \in [Slots -> 1..1] /\ Falls(mw, rank)
    BY <1>3, <2>1 DEF Falls
  <2> QED
    BY <2>2 DEF Ordered
<1>5. Counted(mw)
  <2>1. PICK f : f = LiveOf(mw)
    OBVIOUS
  <2>2. DOMAIN f = {}
    BY <1>3, <2>1 DEF LiveOf
  <2>3. SumFunction(f) = 0
    BY <2>2, SumEmpty
  <2>4. Cardinality(mw.held) = 0
    BY <1>3, FS_EmptySet
  <2> QED
    BY <1>1, <2>1, <2>3, <2>4 DEF Counted, InitMw
<1>6. Sound(mw)
  BY <1>2, <1>3, <1>4 DEF Sound
<1>7. TypeOK
  BY <1>1, <1>2 DEF TypeOK, MwType
<1> QED
  BY <1>1, <1>5, <1>6, <1>7 DEF MemInv, Good, InitMw

\* The invariant holds.
LEMMA MemInvariant == Spec => []MemInv
BY MemInit, MemNext, PTL DEF Spec

-----------------------------------------------------------------------------
(* The walk from the head of the chain.                                      *)

\* f is the walk for n steps.
IsWalk(f, n) ==
    f = [i \in 0..n |-> IF i = 0 THEN mw.Head
                        ELSE IF f[i - 1] = NULL THEN NULL
                        ELSE mw.block[f[i - 1]].next]

\* There is a walk of every length.
LEMMA WalkExists == \A n \in Nat : \E f : IsWalk(f, n)
<1> DEFINE T == {n \in Nat : \E f : IsWalk(f, n)}
<1>1. 0 \in T
  <2>1. PICK f : f = [i \in 0..0 |-> mw.Head]
    OBVIOUS
  <2>2. IsWalk(f, 0)
    BY <2>1 DEF IsWalk
  <2> QED
    BY <2>2
<1>2. ASSUME NEW n \in Nat, n \in T PROVE n + 1 \in T
  <2>1. PICK f : IsWalk(f, n)
    BY <1>2
  <2>2. PICK last : last = IF f[n] = NULL THEN NULL ELSE mw.block[f[n]].next
    OBVIOUS
  <2>3. PICK g : g = [i \in 0..n + 1 |-> IF i = n + 1 THEN last ELSE f[i]]
    OBVIOUS
  <2>4. \A i \in 0..n : g[i] = f[i]
    BY <2>3
  <2>5. \A i \in 0..n + 1 : g[i] = IF i = 0 THEN mw.Head
                                   ELSE IF g[i - 1] = NULL THEN NULL
                                   ELSE mw.block[g[i - 1]].next
    <3> SUFFICES ASSUME NEW i \in 0..n + 1
                 PROVE  g[i] = IF i = 0 THEN mw.Head
                               ELSE IF g[i - 1] = NULL THEN NULL
                               ELSE mw.block[g[i - 1]].next
      OBVIOUS
    <3>1. CASE i = n + 1
      <4>1. g[i] = last /\ i - 1 = n /\ g[n] = f[n] /\ i # 0
        BY <2>3, <2>4, <3>1
      <4> QED
        BY <2>2, <4>1
    <3>2. CASE i \in 0..n
      <4>1. g[i] = f[i] /\ (i # 0 => g[i - 1] = f[i - 1])
        BY <2>4, <3>2
      <4>2. f[i] = IF i = 0 THEN mw.Head
                   ELSE IF f[i - 1] = NULL THEN NULL
                   ELSE mw.block[f[i - 1]].next
        BY <2>1, <3>2 DEF IsWalk
      <4> QED
        BY <4>1, <4>2
    <3> QED
      BY <3>1, <3>2
  <2>6. IsWalk(g, n + 1)
    BY <2>3, <2>5 DEF IsWalk
  <2> QED
    BY <2>6
<1>3. Nat \subseteq T
  <2> HIDE DEF T
  <2> QED
    BY <1>1, <1>2, SetInduction
<1> QED
  BY <1>3

\* Walk is one.
LEMMA WalkIs == IsWalk(Walk, Cardinality(Slots))
<1>1. Cardinality(Slots) \in Nat
  BY MemWatchAssumption, FS_CardinalityType
<1>2. \E f : IsWalk(f, Cardinality(Slots))
  BY <1>1, WalkExists
<1>3. Walk = CHOOSE f : IsWalk(f, Cardinality(Slots))
  BY DEF Walk, IsWalk
<1> QED
  BY <1>2, <1>3

\* It stays in the heap until it falls off the end.
LEMMA WalkInHeap ==
  ASSUME Sound(mw), NEW N \in Nat, NEW f, IsWalk(f, N)
  PROVE  \A i \in 0..N : f[i] \in mw.held \union {NULL}
<1> DEFINE T == {i \in Nat : i <= N => f[i] \in mw.held \union {NULL}}
<1>1. 0 \in T
  <2>1. f[0] = mw.Head
    BY DEF IsWalk
  <2>2. mw.held # {} => mw.Head \in mw.held
    BY EndsAreHeld
  <2>3. mw.held = {} => mw.Head = NULL
    BY DEF Sound, LinksOK
  <2> QED
    BY <2>1, <2>2, <2>3
<1>2. ASSUME NEW i \in Nat, i \in T PROVE i + 1 \in T
  <2> SUFFICES ASSUME i + 1 <= N PROVE f[i + 1] \in mw.held \union {NULL}
    OBVIOUS
  <2>1. f[i] \in mw.held \union {NULL}
    BY <1>2
  <2>2. f[i + 1] = IF f[i] = NULL THEN NULL ELSE mw.block[f[i]].next
    BY DEF IsWalk
  <2> QED
    BY <2>1, <2>2 DEF Sound, LinksOK
<1>3. Nat \subseteq T
  <2> HIDE DEF T
  <2> QED
    BY <1>1, <1>2, SetInduction
<1> QED
  BY <1>3

\* It never comes back to a place: its ranks fall.
LEMMA WalkFalls ==
  ASSUME Sound(mw), NEW N \in Nat, NEW f, IsWalk(f, N),
         NEW j \in 0..N, f[j] # NULL, NEW i \in 0..j - 1
  PROVE  f[i] # NULL /\ f[i] # f[j]
<1>0. PICK n \in Nat : \E rank \in [Slots -> 1..n] : Falls(mw, rank)
  BY DEF Sound, Ordered
<1>1. PICK rank \in [Slots -> 1..n] : Falls(mw, rank)
  BY <1>0
<1>2. mw.held \in SUBSET Slots /\ NULL \notin Slots
  BY MemWatchAssumption DEF Sound, MwType
<1>3. \A x \in Slots : rank[x] \in Int
  BY <1>1
<1>4. \A k \in 0..N : f[k] \in mw.held \union {NULL}
  BY WalkInHeap
<1> DEFINE T == {k \in Nat : k <= N /\ f[k] # NULL =>
                   \A m \in 0..k - 1 : f[m] # NULL /\ rank[f[k]] < rank[f[m]]}
<1>5. 0 \in T
  OBVIOUS
<1>6. ASSUME NEW k \in Nat, k \in T PROVE k + 1 \in T
  <2> SUFFICES ASSUME k + 1 <= N, f[k + 1] # NULL, NEW m \in 0..k
               PROVE  f[m] # NULL /\ rank[f[k + 1]] < rank[f[m]]
    OBVIOUS
  <2>1. f[k + 1] = IF f[k] = NULL THEN NULL ELSE mw.block[f[k]].next
    <3>1. PICK l : l = k + 1
      OBVIOUS
    <3>2. l \in 0..N /\ l # 0 /\ l - 1 = k
      BY <3>1
    <3>3. f[l] = IF f[l - 1] = NULL THEN NULL ELSE mw.block[f[l - 1]].next
      BY <3>2 DEF IsWalk
    <3> QED
      BY <3>1, <3>2, <3>3
  <2>2. f[k] # NULL /\ f[k] \in mw.held /\ f[k + 1] \in mw.held
    BY <1>4, <2>1
  <2>3. rank[f[k + 1]] < rank[f[k]]
    BY <1>1, <2>1, <2>2 DEF Falls
  <2>4. CASE m = k
    BY <2>2, <2>3, <2>4
  <2>5. CASE m # k
    <3>1. f[m] # NULL /\ rank[f[k]] < rank[f[m]]
      BY <1>6, <2>2, <2>5
    <3>2. f[m] \in mw.held
      BY <1>4, <3>1
    <3> QED
      BY <1>2, <1>3, <2>2, <2>3, <3>1, <3>2
  <2> QED
    BY <2>4, <2>5
<1>7. Nat \subseteq T
  <2> HIDE DEF T
  <2> QED
    BY <1>5, <1>6, SetInduction
<1>8. f[i] # NULL /\ rank[f[j]] < rank[f[i]]
  BY <1>7
<1>9. f[i] \in Slots /\ f[j] \in Slots
  BY <1>2, <1>4, <1>8
<1> QED
  BY <1>3, <1>8, <1>9

\* So it falls off the end before it runs out of steps.
LEMMA WalkEnds ==
  ASSUME Sound(mw), NEW f, IsWalk(f, Cardinality(Slots))
  PROVE  f[Cardinality(Slots)] = NULL
<1>1. PICK N : N = Cardinality(Slots)
  OBVIOUS
<1>2. N \in Nat /\ IsFiniteSet(Slots)
  BY <1>1, MemWatchAssumption, FS_CardinalityType
<1> SUFFICES ASSUME f[N] # NULL PROVE FALSE
  BY <1>1
<1>3. IsWalk(f, N)
  BY <1>1
<1>4. \A j \in 0..N : \A i \in 0..j - 1 : f[j] # NULL => f[i] # NULL /\ f[i] # f[j]
  BY <1>2, <1>3, WalkFalls
<1>5. \A i \in 0..N : f[i] # NULL
  BY <1>2, <1>4
<1>6. \A i \in 0..N : f[i] \in Slots
  <2>1. \A i \in 0..N : f[i] \in mw.held \union {NULL}
    BY <1>2, <1>3, WalkInHeap
  <2> QED
    BY <1>5, <2>1 DEF Sound, MwType
<1>7. f \in [0..N -> Slots]
  BY <1>3, <1>6 DEF IsWalk
<1>8. IsFiniteSet(0..N) /\ Cardinality(0..N) = N + 1
  BY <1>2, FS_Interval
<1>9. \E x, y \in 0..N : x # y /\ f[x] = f[y]
  BY <1>1, <1>2, <1>7, <1>8, FS_PigeonHole
<1>10. PICK x, y \in 0..N : x # y /\ f[x] = f[y]
  BY <1>9
<1>11. x \in 0..y - 1 \/ y \in 0..x - 1
  BY <1>2, <1>10
<1> QED
  BY <1>4, <1>5, <1>10, <1>11

\* The walk meets every buffer.
LEMMA ChainIs == Sound(mw) => Chain = mw.held /\ Live = LiveOf(mw)
<1> SUFFICES ASSUME Sound(mw) PROVE Chain = mw.held
  BY DEF Live, LiveOf
<1>1. PICK N : N = Cardinality(Slots)
  OBVIOUS
<1>2. PICK f : f = Walk
  OBVIOUS
<1>3. N \in Nat
  BY <1>1, MemWatchAssumption, FS_CardinalityType
<1>4. IsWalk(f, N) /\ f[N] = NULL
  BY <1>1, <1>2, WalkIs, WalkEnds
<1>5. Chain = {f[i] : i \in 0..N} \ {NULL}
  BY <1>1, <1>2 DEF Chain
<1>6. mw.held \in SUBSET Slots /\ NULL \notin Slots
  BY MemWatchAssumption DEF Sound, MwType
<1>7. Chain \subseteq mw.held
  <2>1. \A i \in 0..N : f[i] \in mw.held \union {NULL}
    BY <1>3, <1>4, WalkInHeap
  <2> QED
    BY <1>5, <2>1
<1>8. mw.held \ Chain = {}
  <2> SUFFICES ASSUME mw.held \ Chain # {} PROVE FALSE
    OBVIOUS
  <2>1. PICK S : S = mw.held \ Chain
    OBVIOUS
  <2>2. S \in SUBSET mw.held /\ S # {}
    BY <2>1
  <2>3. PICK x \in S : mw.block[x].prev \notin S
    BY <2>2, Ends
  <2>4. x \in mw.held /\ x \notin Chain /\ x # NULL
    BY <1>6, <2>1
  <2>5. CASE mw.block[x].prev = NULL
    <3>1. mw.Head = x
      BY <2>4, <2>5 DEF Sound, LinksOK
    <3>2. f[0] = x /\ 0 \in 0..N
      BY <1>3, <1>4, <3>1 DEF IsWalk
    <3> QED
      BY <1>5, <2>4, <3>2
  <2>6. CASE mw.block[x].prev # NULL
    <3>1. PICK y : y = mw.block[x].prev
      OBVIOUS
    <3>2. y \in mw.held /\ mw.block[y].next = x
      BY <2>4, <2>6, <3>1 DEF Sound, LinksOK
    <3>3. y \in Chain
      BY <2>1, <2>3, <3>1, <3>2
    <3>4. PICK i \in 0..N : f[i] = y
      BY <1>5, <3>3
    <3>5. y # NULL /\ i # N /\ i + 1 \in 0..N
      BY <1>3, <1>4, <1>6, <3>2, <3>4
    <3>6. f[i + 1] = x
      BY <1>4, <3>2, <3>4, <3>5 DEF IsWalk
    <3> QED
      BY <1>5, <2>4, <3>5, <3>6
  <2> QED
    BY <2>5, <2>6
<1> QED
  BY <1>7, <1>8

\* What the invariant says of the chain and the counters.
LEMMA HeapInOrder == MemInv => ChainIsHeap /\ CountersMatch
<1> SUFFICES ASSUME MemInv PROVE ChainIsHeap /\ CountersMatch
  OBVIOUS
<1>1. Sound(mw) /\ Chain = mw.held /\ Live = LiveOf(mw)
  BY ChainIs DEF MemInv
<1>2. LinksOK(mw) /\ mw.held \in SUBSET Slots /\ mw.block \in [Slots -> Header]
  BY <1>1 DEF Sound, MwType
<1>3. \A a \in Slots : mw.block[a].check \in BOOLEAN
  BY <1>2 DEF Header
<1>4. LinksAgree
  BY <1>2, <1>3 DEF LinksOK, LinksAgree
<1>5. CountersMatch
  BY <1>1 DEF MemInv, CountersMatch, Good, Counted
<1> QED
  BY <1>1, <1>4, <1>5 DEF ChainIsHeap

-----------------------------------------------------------------------------
(* The theorems.                                                             *)

\* The fields of memwatch's variables keep their types: no counter falls below
\* zero, and the last-free track stays a ring (memwatch.c, mwStatCurAlloc and
\* mwLastFree).
THEOREM TypeCorrect == Spec => []TypeOK
<1>1. MemInv => TypeOK
  BY DEF MemInv
<1> QED
  BY <1>1, MemInvariant, PTL

\* In every state the chain of headers is exactly what libc handed out and did
\* not get back, linked in both directions: no sequence of calls and mistakes
\* makes mwUnlink() or mwMalloc() lose, repeat or loop over a header.
THEOREM ChainIsTheHeap == Spec => []ChainIsHeap
BY HeapInOrder, MemInvariant, PTL

\* While the program runs mwNumCurAlloc and mwStatCurAlloc agree with the chain.
THEOREM CountersAgree == Spec => []CountersMatch
BY HeapInOrder, MemInvariant, PTL

\* libc's free() never gets a place that it does not hold, however the program
\* frees and reallocs (mwIsOwned() in mwFree() and mwRealloc()).
THEOREM NoBadFree == Spec => []NeverFreedTwice
<1>1. MemInv => NeverFreedTwice
  BY DEF MemInv, Sound, NeverFreedTwice
<1> QED
  BY <1>1, MemInvariant, PTL

\* The call that takes a buffer whose zone was overwritten reports it, and the
\* exit reports every buffer it takes (mwTestBuf(), mwAbort()).
THEOREM LossesAreReported == Spec => NoSilentLoss
<1>1. ASSUME Outcome, NEW a \in mw.held \ mw'.held
      PROVE  /\ mw.block[a].over => <<"overflow", a>> \in mw'.said
             /\ phase = "exiting" => <<"unfreed", a>> \in mw'.said
  BY <1>1, Zenon DEF Outcome, Running, Keeps, Gains, Loses, Swaps
<1>2. Outcome => \A a \in mw.held \ mw'.held :
                    /\ mw.block[a].over => <<"overflow", a>> \in mw'.said
                    /\ phase = "exiting" => <<"unfreed", a>> \in mw'.said
  BY <1>1
<1> QED
  BY <1>2, MemInvariant, MemNext, PTL DEF Spec, NoSilentLoss

\* Every outcome is a step of the allocator that the program was promised.
LEMMA OutcomeIsAllowed ==
  ASSUME MemInv, Outcome, Live = LiveOf(mw), Live' = LiveOf(mw')
  PROVE  [Heap!Next]_(Heap!vars)
<1>1. DOMAIN Live = mw.held /\ DOMAIN LiveOf(mw) = mw.held
  BY DEF LiveOf
<1>2. CASE phase' = phase /\ Keeps(mw, mw')
  BY <1>2 DEF Keeps, Heap!vars
<1>3. CASE Running /\ \E a \in Slots, n \in Sizes : Gains(mw, mw', a, n)
  <2>1. PICK a \in Slots, n \in Sizes : Gains(mw, mw', a, n)
    BY <1>3
  <2>2. /\ a \notin DOMAIN Live
        /\ Live' = [x \in DOMAIN Live \union {a} |-> IF x = a THEN n ELSE Live[x]]
    BY <1>1, <2>1 DEF Gains
  <2>3. Heap!Alloc(a, n)
    BY <1>3, <2>2 DEF Running, Heap!Alloc, Heap!With
  <2> QED
    BY <2>3 DEF Heap!Next
<1>4. ASSUME phase \in {"running", "exiting"}, phase' = phase,
             NEW a \in Slots, Loses(mw, mw', a)
      PROVE  Heap!Next
  <2>1. a \in DOMAIN Live /\ Live' = [x \in DOMAIN Live \ {a} |-> Live[x]]
    BY <1>1, <1>4 DEF Loses
  <2>2. Heap!Release(a)
    BY <1>4, <2>1 DEF Heap!Release, Heap!Without
  <2> QED
    BY <2>2 DEF Heap!Next
<1>5. CASE Running /\ \E p, a \in Slots, n \in Sizes : Swaps(mw, mw', p, a, n)
  <2>1. PICK p, a \in Slots, n \in Sizes : Swaps(mw, mw', p, a, n)
    BY <1>5
  <2>2. /\ p \in DOMAIN Live /\ a \notin DOMAIN Live
        /\ Live' = [x \in (DOMAIN Live \ {p}) \union {a} |-> IF x = a THEN n ELSE Live[x]]
    BY <1>1, <2>1 DEF Swaps
  <2>3. PICK rest : rest = [x \in DOMAIN Live \ {p} |-> Live[x]]
    OBVIOUS
  <2>4. Live' = [x \in DOMAIN rest \union {a} |-> IF x = a THEN n ELSE rest[x]]
    BY <2>2, <2>3
  <2>5. Heap!Replace(p, a, n)
    BY <1>5, <2>2, <2>3, <2>4 DEF Running, Heap!Replace, Heap!With, Heap!Without
  <2> QED
    BY <2>5 DEF Heap!Next
<1>6. CASE phase = "running" /\ phase' = "exiting" /\ Keeps(mw, mw')
  BY <1>6 DEF Keeps, Heap!Next, Heap!Exit
<1>7. CASE phase = "exiting" /\ phase' = "stopped" /\ mw.held = {} /\ Keeps(mw, mw')
  <2>1. Live = [a \in {} |-> 0]
    BY <1>7 DEF LiveOf
  <2> QED
    BY <1>7, <2>1 DEF Keeps, Heap!Next, Heap!Stop
<1> QED
  BY <1>2, <1>3, <1>4, <1>5, <1>6, <1>7 DEF Outcome, Running

\* The chain, the zones and the counters implement the plain Allocator: what is
\* reachable from mwHead is what a program that uses malloc(), realloc() and
\* free() expects to be live.
THEOREM ChainIsAllocator == Spec => ImplementsAllocator
<1>1. MemInv => Live = LiveOf(mw)
  BY ChainIs DEF MemInv
<1>2. Init => Heap!Init
  <2> SUFFICES ASSUME Init PROVE Heap!Init
    OBVIOUS
  <2>1. Live = LiveOf(mw)
    BY <1>1, MemInit
  <2>2. mw.held = {} /\ phase = "running"
    BY DEF Init, InitMw
  <2> QED
    BY <2>1, <2>2 DEF LiveOf, Heap!Init
<1>3. MemInv /\ MemInv' /\ Outcome /\ Live = LiveOf(mw) /\ (Live = LiveOf(mw))'
        => [Heap!Next]_(Heap!vars)
  BY OutcomeIsAllowed
<1> QED
  BY <1>1, <1>2, <1>3, MemInvariant, MemNext, PTL DEF Spec, ImplementsAllocator, Heap!Spec

\* Every round of mwAbort() takes a buffer off the chain, and it does not end
\* before the chain is empty: that is why it ends (ExitReleasesAll), whatever the
\* program did before.
THEOREM ExitShrinksChain ==
    Spec => [][phase = "exiting" =>
                 \/ phase' = "exiting" /\ Cardinality(mw'.held) < Cardinality(mw.held)
                 \/ phase' = "stopped" /\ mw'.held = {}]_memVars
<1>1. ASSUME MemInv, [Next]_memVars, ~ UNCHANGED memVars, phase = "exiting"
      PROVE  \/ phase' = "exiting" /\ Cardinality(mw'.held) < Cardinality(mw.held)
             \/ phase' = "stopped" /\ mw'.held = {}
  <2>1. AbortNext \/ AbortEnd
    BY <1>1 DEF Next, Malloc, Realloc, Free, GetLine, mwFree_, Overrun, Exit, Careful
  <2>2. CASE AbortEnd
    <3>1. phase' = "stopped" /\ Outcome
      BY <1>1, <2>2, MemNext DEF AbortEnd
    <3> QED
      BY <1>1, <3>1 DEF Outcome, Running, Keeps
  <2>3. CASE AbortNext
    <3>1. /\ Sound(mw) /\ MwType(mw) /\ IsFiniteSet(mw.held) /\ mw' = Unfreed(Quiet)
          /\ phase' = "exiting" /\ SoundHead
      BY <1>1, <2>3, MemWatchAssumption, FS_Subset DEF AbortNext, MemInv, Sound, MwType
    <3>2. MwType(Quiet) /\ SameHeap(mw, Quiet)
      BY <3>1, QuietIs
    <3>3. Sound(Quiet) /\ Quiet.held = mw.held /\ Quiet.Head = mw.Head
      BY <3>1, <3>2, SoundSame DEF SameHeap
    <3>4. mw.Head \in mw.held
      BY <3>1, EndsAreHeld DEF SoundHead, Sound, LinksOK
    <3>5. PICK a : a = mw.Head
      OBVIOUS
    <3>6. mw'.held = mw.held \ {a} /\ a \in mw.held
      <4>1. a \in Quiet.held /\ a = Quiet.Head
        BY <3>3, <3>4, <3>5
      <4>2. Loses(Quiet, mw', a)
        BY <3>1, <3>3, <4>1, UnfreedIs
      <4> QED
        BY <3>3, <4>2 DEF Loses
    <3>7. Cardinality(mw'.held) = Cardinality(mw.held) - 1 /\ Cardinality(mw.held) \in Nat
      BY <3>1, <3>6, FS_RemoveElement, FS_CardinalityType
    <3> QED
      BY <3>1, <3>7
  <2> QED
    BY <2>1, <2>2, <2>3
<1>2. MemInv /\ [Next]_memVars =>
        [phase = "exiting" =>
           \/ phase' = "exiting" /\ Cardinality(mw'.held) < Cardinality(mw.held)
           \/ phase' = "stopped" /\ mw'.held = {}]_memVars
  BY <1>1
<1> QED
  BY <1>2, MemInvariant, PTL DEF Spec

\* When the program has stopped, libc has everything back.
THEOREM NothingOutlivesExit == Spec => [](phase = "stopped" => mw.held = {})
<1> DEFINE Released == phase = "stopped" => mw.held = {}
<1>1. Init => Released
  BY DEF Init
<1>2. Released /\ Outcome => Released'
  BY DEF Outcome, Running, Keeps
<1> QED
  BY <1>1, <1>2, MemInvariant, MemNext, PTL DEF Spec
=============================================================================
