------------------------- MODULE ProcessSearchProofs -------------------------
(***************************************************************************)
(* What holds of ProcessSearch for any number of places and lines, any size *)
(* of the first array, and whatever allocation, pipe or kill fails: the     *)
(* search never misuses memory, overruns its array of processes by one      *)
(* place at most, and loses nothing but getline()'s last buffer.            *)
(***************************************************************************)
EXTENDS ProcessSearch, MemWatchProofs

-----------------------------------------------------------------------------
(* Who owns what.  memwatch's chain holds the arrays and the processes of    *)
(* the search under way; after a failure it holds more, and the stale         *)
(* pointers are not used again.                                             *)

HasLines == pc \in {"read", "got", "build"}
HasArray == pc \in {"build", "kill"}

Owned == (IF HasLines THEN {lines} ELSE {})
         \union (IF HasArray THEN kept \union {processes} ELSE {})

Apart == /\ HasArray => processes \notin kept
         /\ pc = "build" => lines # processes /\ lines \notin kept

OwnedInv ==
    /\ Owned \subseteq mw.held /\ Apart
    /\ phase = "running" /\ ~ failed /\ pc # "failed" => mw.held = Owned
    /\ pc # "idle" => phase = "running"

-----------------------------------------------------------------------------
(* The lines, by kind.  The shell's own line is among them, so at most all    *)
(* others are kept.                                                         *)

Room == room = i - InternalLines /\ room > 0

LinesInv ==
    /\ pc = "idle" => todo = None
    /\ pc = "read" => /\ Total(todo) = i /\ i + Total(left) <= MaxLines
                      /\ todo.internal + left.internal >= 1
    /\ pc = "got" => Total(todo) = i /\ todo.internal >= 1
    /\ pc = "build" => Room /\ Cardinality(kept) + todo.match <= room + 1
    /\ pc = "kill" => todo = None /\ Cardinality(kept) <= room + 1

-----------------------------------------------------------------------------
(* The buffers of getline(): the lines, and one for each end of a stream.     *)

LinesPerSearch == MaxLines + 1

BuffersInv ==
    /\ IsFiniteSet(getlined)
    /\ pc # "idle" => searches > 0
    /\ Cardinality(getlined) <= searches * LinesPerSearch
    /\ pc = "read" => Cardinality(getlined) <= (searches - 1) * LinesPerSearch + i
    /\ ~ failed /\ pc = "read" => Cardinality(getlined \ strings) = searches - 1
    /\ ~ failed /\ pc \in {"got", "build"} => Cardinality(getlined \ strings) = searches
    /\ ~ failed /\ pc \in {"idle", "kill"} => Cardinality(getlined) = searches

Harmless(h) ==
    \A report \in h.said : report[1] \in {"fail", "overflow", "unfreed", "anomalies"}

SearchInv == /\ MemInv /\ SearchTypeOK /\ Harmless(mw)
             /\ OwnedInv /\ LinesInv /\ BuffersInv

-----------------------------------------------------------------------------
(* The two folds of the program: its loops over the lines, and over the        *)
(* processes.  Some (of NumberLemmas) is the order in which they go.          *)

\* mwFree_ of every line changes nothing that memwatch sees.
LEMMA FreeLines ==
  ASSUME NEW h, NEW S, IsFiniteSet(S)
  PROVE  FoldSet(LAMBDA p, g : FreeLine(g, p), h, S) = h
<1> DEFINE Folds(table) ==
             table = [s \in SUBSET S |-> IF s = {} THEN h ELSE table[s \ {Some(s)}]]
<1>1. FoldSet(LAMBDA p, g : FreeLine(g, p), h, S) = (CHOOSE table : Folds(table))[S]
  BY DEF FoldSet, MapThenFoldSet, FreeLine, Some
<1>2. Folds([s \in SUBSET S |-> h])
  <2>1. \A s \in SUBSET S : s \ {Some(s)} \in SUBSET S
    OBVIOUS
  <2> QED
    BY <2>1
<1>3. ASSUME NEW table, Folds(table) PROVE table[S] = h
  <2> DEFINE T == {n \in Nat : \A s \in SUBSET S : Cardinality(s) <= n => table[s] = h}
  <2>0. \A s \in SUBSET S : IsFiniteSet(s) /\ Cardinality(s) \in Nat
    BY FS_Subset, FS_CardinalityType
  <2>1. \A s \in SUBSET S : table[s] = IF s = {} THEN h ELSE table[s \ {Some(s)}]
    BY <1>3
  <2>2. 0 \in T
    <3>1. \A s \in SUBSET S : Cardinality(s) <= 0 => s = {}
      BY <2>0, FS_EmptySet
    <3> QED
      BY <2>1, <3>1
  <2>3. ASSUME NEW n \in Nat, n \in T PROVE n + 1 \in T
    <3> SUFFICES ASSUME NEW s \in SUBSET S, Cardinality(s) <= n + 1, s # {}
                 PROVE  table[s] = h
      BY <2>1
    <3>1. /\ Cardinality(s \ {Some(s)}) = Cardinality(s) - 1
          /\ Cardinality(s) \in Nat /\ s \ {Some(s)} \in SUBSET S
      BY <2>0, SomeIn
    <3>2. table[s \ {Some(s)}] = h
      BY <2>3, <3>1
    <3> QED
      BY <2>1, <3>2
  <2>4. Nat \subseteq T
    <3> HIDE DEF T
    <3> QED
      BY <2>2, <2>3, SetInduction
  <2> QED
    BY <2>0, <2>4
<1> QED
  BY <1>1, <1>2, <1>3

\* The table of the other loop: what is left when the processes s are freed.
Frees(h, C, table) ==
    table = [s \in C |-> IF s = {} THEN h ELSE mwFree(table[s \ {Some(s)}], Some(s))]

\* There is such a table.
LEMMA FreesExists ==
  ASSUME NEW h, NEW S, IsFiniteSet(S)
  PROVE  \E table : Frees(h, SUBSET S, table)
<1> DEFINE T == {n \in Nat : \E table : Frees(h, Small(S, n), table)}
<1>0. \A s \in SUBSET S : IsFiniteSet(s) /\ Cardinality(s) \in Nat
  BY FS_Subset, FS_CardinalityType
<1>1. 0 \in T
  <2>1. \A s \in Small(S, 0) : s = {}
    BY <1>0, FS_EmptySet DEF Small
  <2>2. Frees(h, Small(S, 0), [s \in Small(S, 0) |-> h])
    BY <2>1 DEF Frees
  <2> QED
    BY <2>2
<1>2. ASSUME NEW n \in Nat, n \in T PROVE n + 1 \in T
  <2>1. PICK table : Frees(h, Small(S, n), table)
    BY <1>2
  <2>2. PICK more : more = [s \in Small(S, n + 1) |->
                              IF s = {} THEN h ELSE mwFree(table[s \ {Some(s)}], Some(s))]
    OBVIOUS
  <2>3. \A s \in Small(S, n + 1) : s # {} => s \ {Some(s)} \in Small(S, n)
    <3> SUFFICES ASSUME NEW s \in Small(S, n + 1), s # {}
                 PROVE  s \ {Some(s)} \in Small(S, n)
      OBVIOUS
    <3>1. s \in SUBSET S /\ Cardinality(s) \in Nat /\ Cardinality(s) <= n + 1
      BY <1>0 DEF Small
    <3>2. Cardinality(s \ {Some(s)}) = Cardinality(s) - 1
      BY <1>0, <3>1, SomeIn
    <3> QED
      BY <3>1, <3>2 DEF Small
  <2>4. \A s \in Small(S, n) : s \in Small(S, n + 1) /\ more[s] = table[s]
    <3>1. \A s \in Small(S, n) : s \in Small(S, n + 1)
      BY <1>0 DEF Small
    <3>2. \A s \in Small(S, n) :
             table[s] = IF s = {} THEN h ELSE mwFree(table[s \ {Some(s)}], Some(s))
      BY <2>1 DEF Frees
    <3> QED
      BY <2>2, <3>1, <3>2
  <2>5. \A s \in Small(S, n + 1) : s # {} => table[s \ {Some(s)}] = more[s \ {Some(s)}]
    BY <2>3, <2>4
  <2>6. more = [s \in Small(S, n + 1) |->
                  IF s = {} THEN h ELSE mwFree(more[s \ {Some(s)}], Some(s))]
    BY <2>2, <2>5
  <2>7. Frees(h, Small(S, n + 1), more)
    BY <2>6 DEF Frees
  <2> QED
    BY <2>7
<1>3. Nat \subseteq T
  <2> HIDE DEF T
  <2> QED
    BY <1>1, <1>2, SetInduction
<1>4. PICK table : Frees(h, Small(S, Cardinality(S)), table)
  BY <1>0, <1>3
<1>5. Small(S, Cardinality(S)) = SUBSET S
  BY FS_Subset DEF Small
<1> QED
  BY <1>4, <1>5

\* Each call of the loop frees a buffer that is live.
LEMMA FreeAll ==
  ASSUME NEW h, Good(h), Harmless(h), NEW S \in SUBSET h.held
  PROVE  LET g == FoldSet(LAMBDA p, f : mwFree(f, p), h, S)
         IN  Good(g) /\ Harmless(g) /\ g.held = h.held \ S
<1>0. h.held \in SUBSET Slots /\ IsFiniteSet(S)
  BY MemWatchAssumption, FS_Subset DEF Good, Sound, MwType
<1>1. FoldSet(LAMBDA p, f : mwFree(f, p), h, S) = (CHOOSE table : Frees(h, SUBSET S, table))[S]
  BY DEF FoldSet, MapThenFoldSet, Frees, Some
<1>2. PICK table : Frees(h, SUBSET S, table)
                   /\ FoldSet(LAMBDA p, f : mwFree(f, p), h, S) = table[S]
  BY <1>0, <1>1, FreesExists
<1> DEFINE Done(s) == Good(table[s]) /\ Harmless(table[s]) /\ table[s].held = h.held \ s
           T == {n \in Nat : \A s \in SUBSET S : Cardinality(s) <= n => Done(s)}
<1>3. \A s \in SUBSET S : IsFiniteSet(s) /\ Cardinality(s) \in Nat
  BY <1>0, FS_Subset, FS_CardinalityType
<1>4. \A s \in SUBSET S : table[s] = IF s = {} THEN h ELSE mwFree(table[s \ {Some(s)}], Some(s))
  BY <1>2 DEF Frees
<1>5. 0 \in T
  <2>1. \A s \in SUBSET S : Cardinality(s) <= 0 => s = {}
    BY <1>3, FS_EmptySet
  <2> QED
    BY <1>4, <2>1
<1>6. ASSUME NEW n \in Nat, n \in T PROVE n + 1 \in T
  <2> SUFFICES ASSUME NEW s \in SUBSET S, Cardinality(s) <= n + 1 PROVE Done(s)
    OBVIOUS
  <2>1. CASE s = {}
    BY <1>4, <2>1
  <2>2. CASE s # {}
    <3>1. PICK p : p = Some(s)
      OBVIOUS
    <3>2. PICK r : r = s \ {p}
      OBVIOUS
    <3>3. /\ p \in s /\ Cardinality(r) = Cardinality(s) - 1
          /\ Cardinality(s) \in Nat /\ r \in SUBSET S
      BY <1>3, <2>2, <3>1, <3>2, SomeIn
    <3>4. PICK f : f = table[r]
      OBVIOUS
    <3>5. Good(f) /\ Harmless(f) /\ f.held = h.held \ r
      <4>1. Cardinality(r) <= n
        BY <3>3
      <4>2. Done(r)
        BY <1>6, <3>3, <4>1
      <4> QED
        BY <3>4, <4>2
    <3>6. p \in f.held /\ p \in Pointers
      BY <1>0, <3>2, <3>3, <3>5 DEF Pointers
    <3>7. table[s] = mwFree(f, p)
      BY <1>4, <2>2, <3>1, <3>2, <3>4
    <3>8. /\ Good(table[s]) /\ Loses(f, table[s], p)
          /\ table[s].said \subseteq f.said \union {<<"overflow", p>>}
      BY <3>5, <3>6, <3>7, FreeGood
    <3>9. table[s].held = h.held \ s
      BY <3>2, <3>3, <3>5, <3>8 DEF Loses
    <3>10. Harmless(table[s])
      BY <3>5, <3>8 DEF Harmless
    <3> QED
      BY <3>8, <3>9, <3>10
  <2> QED
    BY <2>1, <2>2
<1>7. Nat \subseteq T
  <2> HIDE DEF T
  <2> QED
    BY <1>5, <1>6, SetInduction
<1>8. Done(S)
  <2>1. S \in SUBSET S /\ Cardinality(S) \in T /\ Cardinality(S) <= Cardinality(S)
    BY <1>3, <1>7
  <2> QED
    BY <2>1
<1> QED
  BY <1>2, <1>8

-----------------------------------------------------------------------------
(* Records of lines by kind.                                                 *)

Kinds == {"match", "other", "internal"}

\* They are functions, too: ReadLine and BuildProcess pick a kind.
LEMMA KindsAre ==
  /\ DOMAIN None = Kinds
  /\ None \in [Kinds -> 0..MaxLines]
  /\ Outputs \subseteq [Kinds -> 0..MaxLines]
<1>1. DOMAIN None = Kinds
  BY DEF None, Kinds
<1>2. None \in [Kinds -> 0..MaxLines]
  BY SearchAssumption DEF None, Kinds
<1>3. ASSUME NEW o \in Outputs PROVE o \in [Kinds -> 0..MaxLines]
  BY SearchAssumption DEF Outputs, Kinds
<1> QED
  BY <1>1, <1>2, <1>3

\* One line more, or less, of a kind.
LEMMA OneMore ==
  ASSUME NEW o \in [Kinds -> Nat], NEW k \in Kinds
  PROVE  LET q == [o EXCEPT ![k] = @ + 1]
         IN  /\ q \in [Kinds -> Nat] /\ Total(q) = Total(o) + 1
             /\ q.internal = IF k = "internal" THEN o.internal + 1 ELSE o.internal
BY DEF Kinds, Total

LEMMA OneLess ==
  ASSUME NEW o \in [Kinds -> Nat], NEW k \in Kinds, o[k] > 0
  PROVE  LET q == [o EXCEPT ![k] = @ - 1]
         IN  /\ q \in [Kinds -> Nat] /\ Total(q) = Total(o) - 1
             /\ q.internal = IF k = "internal" THEN o.internal - 1 ELSE o.internal
             /\ q.match = IF k = "match" THEN o.match - 1 ELSE o.match
BY DEF Kinds, Total

\* What a total says about its parts.
LEMMA TotalIs ==
  ASSUME NEW o \in [Kinds -> Nat]
  PROVE  /\ Total(o) \in Nat /\ Total(o) = o.match + o.other + o.internal
         /\ o.match \in Nat /\ o.other \in Nat /\ o.internal \in Nat
         /\ Total(o) <= MaxLines => o \in [Kinds -> 0..MaxLines]
         /\ o = None <=> Total(o) = 0
BY SearchAssumption DEF Kinds, Total, None

\* The types of the lines, with functions for records.
LEMMA LinesType ==
  ASSUME SearchTypeOK
  PROVE  /\ left \in [Kinds -> 0..MaxLines] /\ left \in [Kinds -> Nat]
         /\ todo \in [Kinds -> 0..MaxLines] /\ todo \in [Kinds -> Nat]
         /\ i \in Nat /\ cap \in Nat /\ room \in Nat /\ searches \in Nat
<1>1. left \in [Kinds -> 0..MaxLines] /\ todo \in [Kinds -> 0..MaxLines]
  BY KindsAre DEF SearchTypeOK
<1> QED
  BY <1>1, SearchAssumption DEF SearchTypeOK

-----------------------------------------------------------------------------
(* The lines are counted right.                                              *)

\* A process that is kept is a new one.
LEMMA KeptGrows ==
  ASSUME SearchTypeOK, NEW p, p \notin kept
  PROVE  /\ Cardinality(kept) \in Nat
         /\ Cardinality(kept \union {p}) = Cardinality(kept) + 1
<1>1. IsFiniteSet(kept)
  BY MemWatchAssumption, FS_Subset DEF SearchTypeOK
<1> QED
  BY <1>1, FS_CardinalityType, FS_AddElement

\* Every step keeps LinesInv, and the types of what it speaks of.
LEMMA LinesNext ==
  ASSUME SearchInv, [SearchNext]_searchVars
  PROVE  /\ LinesInv'
         /\ left' \in [Kinds -> 0..MaxLines] /\ todo' \in [Kinds -> 0..MaxLines]
         /\ i' \in 0..MaxLines /\ room' \in Nat
<1>0. /\ SearchTypeOK /\ LinesInv /\ OwnedInv /\ mw.held \in SUBSET Slots
      /\ i \in 0..MaxLines
  BY DEF SearchInv, MemInv, Sound, MwType, SearchTypeOK
<1>1. /\ left \in [Kinds -> 0..MaxLines] /\ left \in [Kinds -> Nat]
      /\ todo \in [Kinds -> 0..MaxLines] /\ todo \in [Kinds -> Nat]
      /\ i \in Nat /\ cap \in Nat /\ room \in Nat /\ searches \in Nat /\ MaxLines \in Nat
  BY <1>0, LinesType, SearchAssumption
<1>2. /\ Total(todo) \in Nat /\ Total(todo) = todo.match + todo.other + todo.internal
      /\ Total(left) \in Nat
      /\ todo.match \in Nat /\ todo.other \in Nat /\ todo.internal \in Nat
      /\ left.internal \in Nat
      /\ todo = None => Total(todo) = 0
      /\ left = None => Total(left) = 0 /\ left.internal = 0
  BY <1>1, TotalIs
<1>3. None \in [Kinds -> 0..MaxLines] /\ Total(None) = 0 /\ None.internal = 0
  BY KindsAre DEF Total, None
<1>4. CASE BeginSearch
  <2>1. /\ pc = "idle" /\ pc' \in {"read", "failed"} /\ i' = 0 /\ todo' = todo /\ room' = room
        /\ pc' = "read" => left' \in Outputs
        /\ pc' = "failed" => left' = left \/ left' \in Outputs
    BY <1>4 DEF BeginSearch, buildVars
  <2>2. todo' = None
    BY <1>0, <2>1 DEF LinesInv
  <2>3. left' \in [Kinds -> 0..MaxLines]
    BY <1>1, <2>1, KindsAre
  <2>4. pc' = "read" => Total(left') <= MaxLines /\ left'.internal >= 1 /\ Total(left') \in Nat
    <3> SUFFICES ASSUME NEW o \in Outputs
                 PROVE  Total(o) <= MaxLines /\ o.internal >= 1 /\ Total(o) \in Nat
      BY <2>1
    <3>1. o.match \in Nat /\ o.other \in Nat /\ o.internal \in 1..2
      BY <1>1 DEF Outputs
    <3>2. o.match + o.other + o.internal <= MaxLines
      BY DEF Outputs
    <3> QED
      BY <3>1, <3>2 DEF Total
  <2>5. pc' = "read" => /\ Total(todo') = i' /\ i' + Total(left') <= MaxLines
                        /\ todo'.internal + left'.internal >= 1
    <3>1. left'.internal \in Nat
      BY <2>3, TotalIs, SearchAssumption
    <3> QED
      BY <1>3, <2>1, <2>2, <2>4, <3>1
  <2>6. LinesInv'
    BY <2>1, <2>2, <2>5 DEF LinesInv
  <2> QED
    BY <1>1, <1>3, <2>1, <2>2, <2>3, <2>6
<1>5. CASE GrowLines
  <2>1. /\ pc = "read" /\ pc' \in {"read", "failed"}
        /\ i' = i /\ todo' = todo /\ left' = left /\ room' = room
    BY <1>5 DEF GrowLines, buildVars
  <2> QED
    BY <1>0, <1>1, <2>1 DEF LinesInv
<1>6. CASE ReadLine
  <2>1. /\ pc = "read" /\ pc' = "read" /\ i' = i + 1 /\ room' = room
    BY <1>6 DEF ReadLine
  <2>2. PICK k \in Kinds : /\ left[k] > 0 /\ left' = [left EXCEPT ![k] = @ - 1]
                           /\ todo' = [todo EXCEPT ![k] = @ + 1]
    BY <1>1, <1>6 DEF ReadLine
  <2>3. /\ todo' \in [Kinds -> Nat] /\ Total(todo') = Total(todo) + 1
        /\ todo'.internal = IF k = "internal" THEN todo.internal + 1 ELSE todo.internal
    BY <1>1, <2>2, OneMore
  <2>4. /\ left' \in [Kinds -> Nat] /\ Total(left') = Total(left) - 1
        /\ left'.internal = IF k = "internal" THEN left.internal - 1 ELSE left.internal
    BY <1>1, <2>2, OneLess
  <2>5. /\ Total(todo) = i /\ i + Total(left) <= MaxLines
        /\ todo.internal + left.internal >= 1
    BY <1>0, <2>1 DEF LinesInv
  <2>6. Total(left') \in Nat /\ Total(todo') = i' /\ i' + Total(left') <= MaxLines
    BY <1>1, <1>2, <2>1, <2>3, <2>4, <2>5, TotalIs
  <2>7. todo'.internal + left'.internal >= 1
    BY <1>2, <2>3, <2>4, <2>5
  <2>8. todo' \in [Kinds -> 0..MaxLines] /\ left' \in [Kinds -> 0..MaxLines] /\ i' \in 0..MaxLines
    <3>1. Total(todo') <= MaxLines /\ Total(left') <= MaxLines /\ i' \in 0..MaxLines
      BY <1>1, <2>1, <2>6
    <3> QED
      BY <2>3, <2>4, <3>1, TotalIs
  <2>9. LinesInv'
    BY <2>1, <2>6, <2>7 DEF LinesInv
  <2> QED
    BY <1>1, <2>1, <2>8, <2>9
<1>7. CASE EndOfLines
  <2>1. /\ pc = "read" /\ pc' \in {"got", "failed"} /\ left = None
        /\ i' = i /\ todo' = todo /\ left' = left /\ room' = room
    BY <1>7 DEF EndOfLines, readVars, buildVars
  <2>2. Total(todo') = i' /\ todo'.internal >= 1
    BY <1>0, <1>2, <2>1 DEF LinesInv
  <2> QED
    BY <1>0, <1>1, <2>1, <2>2 DEF LinesInv
<1>8. CASE NothingFound
  <2>1. pc' = "idle" /\ todo' = None /\ i' = i /\ left' = left /\ room' = room
    BY <1>8 DEF NothingFound
  <2> QED
    BY <1>0, <1>1, <1>3, <2>1 DEF LinesInv
<1>9. CASE AllocProcesses
  <2>1. /\ pc = "got" /\ i > InternalLines /\ room' = i - InternalLines /\ kept' = {}
        /\ pc' = "build" /\ i' = i /\ todo' = todo /\ left' = left
    BY <1>9 DEF AllocProcesses, readVars
  <2>2. Total(todo) = i /\ todo.internal >= 1
    BY <1>0, <2>1 DEF LinesInv
  <2>3. Cardinality(kept') = 0
    BY <2>1, FS_EmptySet
  <2>4. todo.match <= i - 1
    BY <1>1, <1>2, <2>2
  <2>5. room' = i' - InternalLines /\ room' > 0 /\ room' \in Nat
        /\ Cardinality(kept') + todo'.match <= room' + 1
    BY <1>1, <1>2, <2>1, <2>3, <2>4 DEF InternalLines
  <2>6. LinesInv'
    BY <2>1, <2>5 DEF LinesInv, Room
  <2> QED
    BY <1>0, <1>1, <2>1, <2>5, <2>6
<1>10. CASE OutOfMemory
  <2>1. pc' = "failed" /\ i' = i /\ todo' = todo /\ left' = left /\ room' = room
    BY <1>10 DEF OutOfMemory, buildVars
  <2> QED
    BY <1>0, <1>1, <2>1 DEF LinesInv
<1>11. CASE BuildProcess
  <2>1. /\ pc = "build" /\ pc' = "build" /\ i' = i /\ left' = left /\ room' = room
    BY <1>11 DEF BuildProcess, readVars
  <2>2. PICK k \in Kinds, p \in Place \ {NULL} :
           /\ todo[k] > 0 /\ todo' = [todo EXCEPT ![k] = @ - 1]
           /\ IF k = "match" THEN kept' = kept \union {p} ELSE kept' = kept
    BY <1>1, <1>11 DEF BuildProcess
  <2>3. p \notin kept
    <3>1. kept \subseteq mw.held
      BY <1>0, <2>1 DEF OwnedInv, Owned, HasArray
    <3>2. p \notin mw.held
      BY <1>0, <2>2 DEF Place
    <3> QED
      BY <3>1, <3>2
  <2>4. /\ todo' \in [Kinds -> Nat] /\ Total(todo') = Total(todo) - 1
        /\ todo'.match = IF k = "match" THEN todo.match - 1 ELSE todo.match
    BY <1>1, <2>2, OneLess
  <2>5. /\ Room /\ Cardinality(kept) + todo.match <= room + 1
    BY <1>0, <2>1 DEF LinesInv
  <2>6. /\ Cardinality(kept) \in Nat
        /\ kept' = kept \union {p} => Cardinality(kept') = Cardinality(kept) + 1
    BY <1>0, <2>3, KeptGrows
  <2>7. Cardinality(kept') + todo'.match <= room' + 1
    BY <1>1, <1>2, <2>1, <2>2, <2>4, <2>5, <2>6
  <2>8. todo' \in [Kinds -> 0..MaxLines]
    BY <1>1, <2>2 DEF Kinds
  <2>9. Room'
    BY <2>1, <2>5 DEF Room
  <2>10. LinesInv'
    BY <2>1, <2>7, <2>9 DEF LinesInv
  <2> QED
    BY <1>0, <1>1, <2>1, <2>8, <2>10
<1>12. CASE EndBuild
  <2>1. /\ pc = "build" /\ todo = None /\ pc' \in {"idle", "kill"} /\ kept' = kept
        /\ i' = i /\ todo' = todo /\ left' = left /\ room' = room
    BY <1>12 DEF EndBuild, buildVars
  <2>2. Cardinality(kept) + todo.match <= room + 1 /\ todo.match = 0
    BY <1>0, <2>1 DEF LinesInv, None
  <2>3. Cardinality(kept) \in Nat
    <3>1. IsFiniteSet(kept)
      BY <1>0, MemWatchAssumption, FS_Subset DEF SearchTypeOK
    <3> QED
      BY <3>1, FS_CardinalityType
  <2>4. Cardinality(kept') <= room' + 1
    BY <1>1, <2>1, <2>2, <2>3
  <2> QED
    BY <1>0, <1>1, <2>1, <2>4 DEF LinesInv
<1>13. CASE DestroyProcesses \/ KillFails \/ ReturnFailed
  <2>1. /\ i' = i /\ left' = left /\ room' = room
        /\ \/ pc = "kill" /\ pc' = "idle" /\ todo' = todo
           \/ pc = "kill" /\ pc' = "failed" /\ todo' = todo
           \/ pc' = "idle" /\ todo' = None
    BY <1>13 DEF DestroyProcesses, KillFails, ReturnFailed, readVars, buildVars
  <2> QED
    BY <1>0, <1>1, <1>3, <2>1 DEF LinesInv
<1>14. CASE ExitProgram \/ Abort \/ UNCHANGED searchVars
  <2>1. /\ i' = i /\ left' = left /\ room' = room /\ todo' = todo /\ kept' = kept /\ pc' = pc
    BY <1>14 DEF ExitProgram, Abort, searchVars, readVars, buildVars
  <2> QED
    BY <1>0, <1>1, <2>1 DEF LinesInv, Room
<1> QED
  BY <1>4, <1>5, <1>6, <1>7, <1>8, <1>9, <1>10, <1>11, <1>12, <1>13, <1>14 DEF SearchNext

-----------------------------------------------------------------------------
(* The buffers of getline().                                                 *)

\* The bound on them, one search more.
LEMMA Bounds ==
  ASSUME NEW n \in Nat
  PROVE  /\ LinesPerSearch \in Nat /\ n * LinesPerSearch \in Nat
         /\ (n + 1) * LinesPerSearch = n * LinesPerSearch + LinesPerSearch
         /\ n > 0 => /\ n - 1 \in Nat /\ (n - 1) * LinesPerSearch \in Nat
                     /\ n * LinesPerSearch = (n - 1) * LinesPerSearch + LinesPerSearch
         /\ n <= MaxSearches => n * LinesPerSearch <= MaxSearches * LinesPerSearch
<1>1. LinesPerSearch \in Nat /\ MaxSearches \in Nat
  BY SearchAssumption DEF LinesPerSearch
<1>2. PICK l \in Nat : l = LinesPerSearch
  BY <1>1
<1>3. n * l \in Nat /\ (n + 1) * l = n * l + l
  OBVIOUS
<1>4. n > 0 => n - 1 \in Nat /\ (n - 1) * l \in Nat /\ n * l = (n - 1) * l + l
  <2> SUFFICES ASSUME n > 0 PROVE n - 1 \in Nat /\ (n - 1) * l \in Nat /\ n * l = (n - 1) * l + l
    OBVIOUS
  <2>1. PICK m \in Nat : n = m + 1
    <3>1. n - 1 \in Nat /\ n = (n - 1) + 1
      OBVIOUS
    <3> QED
      BY <3>1
  <2>2. m * l \in Nat /\ (m + 1) * l = m * l + l /\ n - 1 = m
    BY <2>1
  <2> QED
    BY <2>1, <2>2
<1>5. n <= MaxSearches => n * l <= MaxSearches * l
  <2> SUFFICES ASSUME n <= MaxSearches PROVE n * l <= MaxSearches * l
    OBVIOUS
  <2>1. PICK m \in Nat : MaxSearches = n + m
    <3>1. MaxSearches - n \in Nat /\ MaxSearches = n + (MaxSearches - n)
      BY <1>1
    <3> QED
      BY <3>1
  <2>2. (n + m) * l = n * l + m * l /\ m * l \in Nat /\ n * l \in Nat
    OBVIOUS
  <2> QED
    BY <2>1, <2>2
<1> QED
  BY <1>1, <1>2, <1>3, <1>4, <1>5

\* While lines are read there is a buffer for the next one.
LEMMA LineIs ==
  ASSUME SearchInv, pc = "read"
  PROVE  /\ Line \in Foreign /\ Line \notin getlined
         /\ Cardinality(getlined) \in Nat /\ i \in 0..MaxLines
         /\ Cardinality(getlined \union {Line}) = Cardinality(getlined) + 1
         /\ Cardinality(getlined) + 1 <= (searches - 1) * LinesPerSearch + i + 1
         /\ Cardinality(getlined) + 1 <= searches * LinesPerSearch
<1>1. /\ SearchTypeOK /\ BuffersInv /\ searches \in Nat /\ MaxLines \in Nat
      /\ i \in 0..MaxLines /\ getlined \subseteq Foreign /\ searches <= MaxSearches
  BY SearchAssumption DEF SearchInv, SearchTypeOK, TypeOK
<1>2. /\ IsFiniteSet(getlined) /\ searches > 0
      /\ Cardinality(getlined) <= (searches - 1) * LinesPerSearch + i
  BY <1>1 DEF BuffersInv
<1>3. Cardinality(getlined) \in Nat
  BY <1>2, FS_CardinalityType
<1>4. /\ (searches - 1) * LinesPerSearch \in Nat /\ LinesPerSearch = MaxLines + 1
      /\ searches * LinesPerSearch = (searches - 1) * LinesPerSearch + LinesPerSearch
      /\ searches * LinesPerSearch <= MaxSearches * LinesPerSearch
      /\ searches * LinesPerSearch \in Nat
  BY <1>1, <1>2, Bounds DEF LinesPerSearch
<1>5. MaxSearches * LinesPerSearch \in Nat
  BY Bounds, SearchAssumption
<1>6. /\ Cardinality(getlined) + 1 <= searches * LinesPerSearch
      /\ Cardinality(getlined) + 1 <= (searches - 1) * LinesPerSearch + i + 1
      /\ Cardinality(getlined) < MaxSearches * LinesPerSearch
  BY <1>1, <1>2, <1>3, <1>4, <1>5
<1>7. \E f \in Foreign : f \notin getlined
  <2> SUFFICES ASSUME Foreign \subseteq getlined PROVE FALSE
    OBVIOUS
  <2>1. Foreign = getlined
    BY <1>1
  <2>2. Cardinality(Foreign) >= MaxSearches * LinesPerSearch
    BY <1>2, <2>1, SearchAssumption DEF LinesPerSearch
  <2> QED
    BY <1>3, <1>5, <1>6, <2>1, <2>2
<1>8. Line \in Foreign /\ Line \notin getlined
  BY <1>7 DEF Line
<1>9. Cardinality(getlined \union {Line}) = Cardinality(getlined) + 1
  BY <1>2, <1>8, FS_AddElement
<1> QED
  BY <1>1, <1>3, <1>6, <1>8, <1>9

\* The lines of a search are freed, and nothing else.
LEMMA LinesFreed ==
  ASSUME SearchInv
  PROVE  /\ IsFiniteSet(getlined \ strings) /\ IsFiniteSet(strings)
         /\ Cardinality(getlined \ strings) <= Cardinality(getlined)
         /\ Cardinality(getlined) \in Nat /\ Cardinality(getlined \ strings) \in Nat
<1>1. IsFiniteSet(getlined) /\ strings \subseteq getlined
  BY DEF SearchInv, BuffersInv, SearchTypeOK
<1> QED
  BY <1>1, FS_Subset, FS_CardinalityType

\* Every step keeps BuffersInv, and the types of what it speaks of.
LEMMA BuffersNext ==
  ASSUME SearchInv, [SearchNext]_searchVars
  PROVE  /\ BuffersInv' /\ strings' \subseteq getlined' /\ getlined' \subseteq Foreign
         /\ searches' \in 0..MaxSearches /\ failed' \in BOOLEAN
<1>0. /\ SearchTypeOK /\ BuffersInv /\ searches \in Nat /\ searches \in 0..MaxSearches
      /\ strings \subseteq getlined /\ getlined \subseteq Foreign
      /\ MaxSearches \in Nat /\ failed \in BOOLEAN
  BY SearchAssumption DEF SearchInv, SearchTypeOK, TypeOK
<1>1. /\ IsFiniteSet(getlined) /\ Cardinality(getlined) \in Nat
      /\ Cardinality(getlined) <= searches * LinesPerSearch
      /\ searches * LinesPerSearch \in Nat
  BY <1>0, FS_CardinalityType, Bounds DEF BuffersInv
<1>2. CASE BeginSearch
  <2>1. /\ pc = "idle" /\ pc' \in {"read", "failed"} /\ i' = 0 /\ strings' = {}
        /\ getlined' = getlined /\ failed' = failed /\ searches' = searches + 1
        /\ searches < MaxSearches
    BY <1>2 DEF BeginSearch
  <2>2. ~ failed => Cardinality(getlined) = searches
    BY <1>0, <2>1 DEF BuffersInv
  <2>3. /\ searches' > 0 /\ searches' - 1 = searches /\ searches' \in 0..MaxSearches
        /\ getlined' \ strings' = getlined
    BY <1>0, <2>1
  <2>4. Cardinality(getlined) <= searches' * LinesPerSearch
    <3>1. /\ (searches + 1) * LinesPerSearch = searches * LinesPerSearch + LinesPerSearch
          /\ LinesPerSearch \in Nat
      BY <1>0, Bounds
    <3> QED
      BY <1>1, <2>1, <3>1
  <2>5. Cardinality(getlined) <= (searches' - 1) * LinesPerSearch + i'
    BY <1>1, <2>1, <2>3
  <2>6. BuffersInv'
    BY <1>1, <2>1, <2>2, <2>3, <2>4, <2>5 DEF BuffersInv
  <2> QED
    BY <1>0, <2>1, <2>3, <2>6
<1>3. CASE ReadLine
  <2>1. /\ pc = "read" /\ pc' = "read" /\ i' = i + 1
        /\ strings' = strings \union {Line} /\ getlined' = getlined \union {Line}
        /\ failed' = failed /\ searches' = searches
    BY <1>3 DEF ReadLine
  <2>2. /\ Line \in Foreign /\ Line \notin getlined /\ i \in Nat
        /\ Cardinality(getlined') = Cardinality(getlined) + 1
        /\ Cardinality(getlined) + 1 <= (searches - 1) * LinesPerSearch + i + 1
        /\ Cardinality(getlined) + 1 <= searches * LinesPerSearch
    BY <2>1, LineIs, SearchAssumption
  <2>3. IsFiniteSet(getlined') /\ getlined' \ strings' = getlined \ strings
    BY <1>0, <1>1, <2>1, <2>2, FS_AddElement
  <2>4. searches > 0 /\ (~ failed => Cardinality(getlined \ strings) = searches - 1)
    BY <1>0, <2>1 DEF BuffersInv
  <2>5. Cardinality(getlined') <= (searches' - 1) * LinesPerSearch + i'
    <3>1. (searches - 1) * LinesPerSearch \in Nat
      BY <1>0, <2>4, Bounds
    <3> QED
      BY <2>1, <2>2, <3>1
  <2>6. BuffersInv'
    BY <2>1, <2>2, <2>3, <2>4, <2>5 DEF BuffersInv
  <2> QED
    BY <1>0, <2>1, <2>2, <2>6
<1>4. CASE EndOfLines
  <2>1. /\ pc = "read" /\ pc' \in {"got", "failed"}
        /\ strings' = strings /\ getlined' = getlined \union {Line}
        /\ failed' = failed /\ searches' = searches
    BY <1>4 DEF EndOfLines, readVars
  <2>2. /\ Line \in Foreign /\ Line \notin getlined
        /\ Cardinality(getlined') = Cardinality(getlined) + 1
        /\ Cardinality(getlined) + 1 <= searches * LinesPerSearch
    BY <2>1, LineIs
  <2>3. /\ IsFiniteSet(getlined') /\ getlined' \ strings' = (getlined \ strings) \union {Line}
        /\ Line \notin getlined \ strings /\ IsFiniteSet(getlined \ strings)
    BY <1>0, <1>1, <2>1, <2>2, FS_AddElement, FS_Subset
  <2>4. searches > 0 /\ (~ failed => Cardinality(getlined \ strings) = searches - 1)
    BY <1>0, <2>1 DEF BuffersInv
  <2>5. ~ failed => Cardinality(getlined' \ strings') = searches
    <3>1. Cardinality(getlined' \ strings') = Cardinality(getlined \ strings) + 1
      BY <2>3, FS_AddElement
    <3> QED
      BY <1>0, <2>4, <3>1
  <2>6. BuffersInv'
    BY <2>1, <2>2, <2>3, <2>4, <2>5 DEF BuffersInv
  <2> QED
    BY <1>0, <2>1, <2>2, <2>6
<1>5. CASE NothingFound \/ OutOfMemory \/ EndBuild
  <2>1. /\ pc \in {"got", "build"} /\ pc' \in {"idle", "kill", "failed"}
        /\ strings' = {} /\ getlined' = getlined \ strings
        /\ failed' = failed /\ searches' = searches
    BY <1>5 DEF NothingFound, OutOfMemory, EndBuild, FreeOutput
  <2>2. /\ IsFiniteSet(getlined \ strings) /\ Cardinality(getlined \ strings) \in Nat
        /\ Cardinality(getlined \ strings) <= Cardinality(getlined)
    BY LinesFreed
  <2>3. searches > 0 /\ (~ failed => Cardinality(getlined \ strings) = searches)
    BY <1>0, <2>1 DEF BuffersInv
  <2>4. Cardinality(getlined') <= searches' * LinesPerSearch
    BY <1>1, <2>1, <2>2
  <2>5. BuffersInv'
    BY <2>1, <2>2, <2>3, <2>4 DEF BuffersInv
  <2> QED
    BY <1>0, <2>1, <2>5
<1>6. CASE GrowLines \/ AllocProcesses \/ BuildProcess \/ DestroyProcesses \/ KillFails
  <2>1. /\ \/ pc = "read" /\ pc' \in {"read", "failed"} /\ i' = i
           \/ pc = "got" /\ pc' = "build"
           \/ pc = "build" /\ pc' = "build"
           \/ pc = "kill" /\ pc' \in {"idle", "failed"}
        /\ strings' = strings /\ getlined' = getlined
        /\ failed' = failed /\ searches' = searches
    BY <1>6 DEF GrowLines, AllocProcesses, BuildProcess, DestroyProcesses, KillFails, readVars
  <2>2. BuffersInv'
    BY <1>0, <2>1 DEF BuffersInv
  <2> QED
    BY <1>0, <2>1, <2>2
<1>7. CASE ReturnFailed
  <2>1. /\ pc = "failed" /\ pc' = "idle" /\ strings' = strings /\ getlined' = getlined
        /\ failed' = TRUE /\ searches' = searches
    BY <1>7 DEF ReturnFailed, readVars
  <2>2. BuffersInv'
    BY <1>0, <2>1 DEF BuffersInv
  <2> QED
    BY <1>0, <2>1, <2>2
<1>8. CASE ExitProgram \/ Abort \/ UNCHANGED searchVars
  <2>1. /\ pc' = pc /\ i' = i /\ strings' = strings /\ getlined' = getlined
        /\ failed' = failed /\ searches' = searches
    BY <1>8 DEF ExitProgram, Abort, Exit, AbortNext, AbortEnd, searchVars, readVars
  <2>2. BuffersInv'
    BY <1>0, <2>1 DEF BuffersInv
  <2> QED
    BY <1>0, <2>1, <2>2
<1> QED
  BY <1>2, <1>3, <1>4, <1>5, <1>6, <1>7, <1>8 DEF SearchNext

-----------------------------------------------------------------------------
(* The calls, when they are right.                                           *)

Calm(h) == Good(h) /\ Harmless(h)

\* free() of a live buffer takes it, and complains of its zone at most.
LEMMA FreeLive ==
  ASSUME NEW h, Calm(h), NEW p \in h.held
  PROVE  LET g == mwFree(h, p) IN Calm(g) /\ g.held = h.held \ {p}
<1>1. PICK g : g = mwFree(h, p)
  OBVIOUS
<1>2. p \in Pointers
  BY DEF Calm, Good, Sound, MwType, Pointers
<1>3. Good(g) /\ Loses(h, g, p) /\ g.said \subseteq h.said \union {<<"overflow", p>>}
  BY <1>1, <1>2, FreeGood DEF Calm
<1>4. Harmless(g)
  BY <1>3 DEF Calm, Harmless
<1> QED
  BY <1>1, <1>3, <1>4 DEF Calm, Loses

\* malloc() brings a buffer, or none.
LEMMA MallocLive ==
  ASSUME NEW h, Calm(h), NEW a \in (Slots \ h.held) \union {NULL}, NEW size \in Nat
  PROVE  LET g == mwMalloc(h, a, size)
         IN  Calm(g) /\ g.held = IF a = NULL THEN h.held ELSE h.held \union {a}
<1>1. PICK g : g = mwMalloc(h, a, size)
  OBVIOUS
<1>2. /\ Good(g)
      /\ a = NULL => Keeps(h, g) /\ g.said = h.said \union {<<"fail", NULL>>}
      /\ a # NULL => Gains(h, g, a, size) /\ g.said = h.said
  BY <1>1, MallocGood DEF Calm
<1>3. Harmless(g)
  BY <1>2 DEF Calm, Harmless
<1> QED
  BY <1>1, <1>2, <1>3 DEF Calm, Keeps, Gains

\* realloc() of a live buffer trades it for another, or leaves it.
LEMMA ReallocLive ==
  ASSUME NEW h, Calm(h), NEW p \in h.held,
         NEW a \in (Slots \ h.held) \union {NULL}, NEW size \in Nat
  PROVE  LET g == mwRealloc(h, p, a, size)
         IN  Calm(g) /\ g.held = IF a = NULL THEN h.held ELSE (h.held \ {p}) \union {a}
<1>1. PICK g : g = mwRealloc(h, p, a, size)
  OBVIOUS
<1>2. p \in Pointers
  BY DEF Calm, Good, Sound, MwType, Pointers
<1>3. /\ Good(g)
      /\ a = NULL => Keeps(h, g) /\ g.said = h.said \union {<<"fail", NULL>>}
      /\ a # NULL => Swaps(h, g, p, a, size) /\ g.said \subseteq h.said \union {<<"overflow", p>>}
  BY <1>1, <1>2, ReallocGood DEF Calm
<1>4. Harmless(g)
  BY <1>3 DEF Calm, Harmless
<1> QED
  BY <1>1, <1>3, <1>4 DEF Calm, Keeps, Swaps

\* A pointer in the guard zone of a live buffer does no harm to the chain.
LEMMA StoreLive ==
  ASSUME NEW h, Calm(h), processes \in h.held, NEW p
  PROVE  Calm(Store(h, p)) /\ Store(h, p).held = h.held
<1>1. PICK g : g = [h EXCEPT !.block[processes].over = TRUE]
  OBVIOUS
<1>2. Good(g) /\ Keeps(h, g)
  BY <1>1, OverrunIs DEF Calm
<1>3. g.said = h.said
  BY <1>1 DEF Calm, Good, Sound, MwType
<1>4. Calm(g) /\ g.held = h.held
  BY <1>2, <1>3 DEF Calm, Keeps, Harmless
<1> QED
  BY <1>1, <1>4 DEF Store

\* What malloc() answers is free, or nothing.
LEMMA PlaceIs ==
  ASSUME mw.held \in SUBSET Slots, NEW a \in Place
  PROVE  /\ a \in (Slots \ mw.held) \union {NULL}
         /\ a # NULL => a \in Slots /\ a \notin mw.held
BY MemWatchAssumption DEF Place

\* Before a call of the search the chain is in order.
LEMMA QuietCalm ==
  ASSUME SearchInv, phase = "running"
  PROVE  /\ Calm(Quiet) /\ Quiet.held = mw.held /\ mw.held \in SUBSET Slots
         /\ NULL \notin Slots /\ getlined \subseteq Foreign
<1>1. Good(mw) /\ MwType(mw) /\ getlined \subseteq Foreign
  BY DEF SearchInv, MemInv, Good, Sound, TypeOK
<1>2. Good(Quiet) /\ Quiet.held = mw.held
  BY <1>1, QuietGood
<1>3. Quiet.said = {}
  BY <1>1 DEF Quiet, MwType
<1> QED
  BY <1>1, <1>2, <1>3, MemWatchAssumption DEF Calm, Harmless, MwType

\* After it, too.
LEMMA CalmAfter ==
  ASSUME phase' = "running", Calm(mw'), getlined' \subseteq Foreign
  PROVE  MemInv' /\ Harmless(mw)'
BY DEF Calm, MemInv, Good, Sound, MwType, TypeOK, Harmless

-----------------------------------------------------------------------------
(* Each step of the search keeps the chain and the owners in order.          *)

\* The part of the invariant that is about the heap, with its types.
HeapInv ==
    /\ MemInv /\ Harmless(mw) /\ OwnedInv
    /\ pc \in {"idle", "read", "got", "build", "kill", "failed"}
    /\ cap \in Nat /\ kept \subseteq Slots
    /\ lines \in Slots \union {NULL} /\ processes \in Slots \union {NULL}

LEMMA SearchHeap == SearchInv => HeapInv /\ getlined \subseteq Foreign
BY DEF SearchInv, HeapInv, SearchTypeOK, TypeOK

\* The array of lines.
LEMMA ReadHeap ==
  ASSUME SearchInv, getlined' \subseteq Foreign,
         BeginSearch \/ GrowLines \/ ReadLine \/ EndOfLines
  PROVE  HeapInv'
<1>0. HeapInv
  BY SearchHeap
<1>1. /\ phase = "running" /\ phase' = "running" /\ kept' = kept /\ processes' = processes
      /\ failed' = failed
  BY <1>0 DEF HeapInv, OwnedInv, BeginSearch, GrowLines, ReadLine, EndOfLines, readVars, buildVars
<1>2. /\ Calm(Quiet) /\ Quiet.held = mw.held /\ mw.held \in SUBSET Slots /\ NULL \notin Slots
  BY <1>1, QuietCalm
<1>3. CASE BeginSearch
  <2>1. PICK a \in Place : /\ mw' = mwMalloc(Quiet, a, StartingAllocation) /\ lines' = a
                           /\ pc' \in {"read", "failed"} /\ (a = NULL => pc' = "failed")
    BY <1>3 DEF BeginSearch
  <2>2. pc = "idle" /\ cap' = StartingAllocation /\ cap' \in Nat
    BY <1>3, SearchAssumption DEF BeginSearch
  <2>3. a \in (Slots \ Quiet.held) \union {NULL} /\ StartingAllocation \in Nat
    BY <1>2, <2>1, PlaceIs, SearchAssumption
  <2>4. Calm(mw') /\ mw'.held = IF a = NULL THEN mw.held ELSE mw.held \union {a}
    <3>1. Calm(mw') /\ mw'.held = IF a = NULL THEN Quiet.held ELSE Quiet.held \union {a}
      BY <1>2, <2>1, <2>3, MallocLive
    <3> QED
      BY <1>2, <3>1
  <2>5. MemInv' /\ Harmless(mw)'
    BY <1>1, <2>4, CalmAfter
  <2>6. ~ failed => mw.held = {}
    BY <1>0, <1>1, <2>2 DEF HeapInv, OwnedInv, Owned, HasLines, HasArray
  <2>7. OwnedInv'
    BY <1>1, <2>1, <2>4, <2>6 DEF OwnedInv, Owned, Apart, HasLines, HasArray
  <2> QED
    BY <1>0, <1>1, <2>1, <2>2, <2>3, <2>5, <2>7 DEF HeapInv
<1>4. CASE GrowLines
  <2>1. PICK a \in Place : /\ mw' = mwRealloc(Quiet, lines, a, 2 * cap) /\ lines' = a
                           /\ IF a = NULL THEN pc' = "failed" /\ cap' = cap
                              ELSE cap' = 2 * cap /\ pc' = "read"
    BY <1>4 DEF GrowLines
  <2>2. pc = "read" /\ lines \in mw.held /\ 2 * cap \in Nat
    BY <1>0, <1>4 DEF GrowLines, HeapInv, OwnedInv, Owned, HasLines
  <2>3. a \in (Slots \ Quiet.held) \union {NULL} /\ lines \in Quiet.held
    BY <1>2, <2>1, <2>2, PlaceIs
  <2>4. Calm(mw') /\ mw'.held = IF a = NULL THEN mw.held ELSE (mw.held \ {lines}) \union {a}
    <3>1. PICK n \in Nat : n = 2 * cap
      BY <2>2
    <3>2. mw' = mwRealloc(Quiet, lines, a, n)
      BY <2>1, <3>1
    <3>3. Calm(mw') /\ mw'.held = IF a = NULL THEN Quiet.held ELSE (Quiet.held \ {lines}) \union {a}
      BY <1>2, <2>3, <3>2, ReallocLive
    <3> QED
      BY <1>2, <3>3
  <2>5. MemInv' /\ Harmless(mw)'
    BY <1>1, <2>4, CalmAfter
  <2>6. ~ failed => mw.held = {lines}
    BY <1>0, <1>1, <2>2 DEF HeapInv, OwnedInv, Owned, HasLines, HasArray
  <2>7. OwnedInv'
    BY <1>1, <2>1, <2>4, <2>6 DEF OwnedInv, Owned, Apart, HasLines, HasArray
  <2>8. cap' \in Nat /\ pc' \in {"read", "failed"}
    BY <1>0, <2>1, <2>2 DEF HeapInv
  <2> QED
    BY <1>0, <1>1, <2>1, <2>3, <2>5, <2>7, <2>8 DEF HeapInv
<1>5. CASE ReadLine \/ EndOfLines
  <2>1. /\ mw' = Quiet /\ lines' = lines /\ cap' = cap /\ pc = "read"
        /\ pc' \in {"read", "got", "failed"}
    BY <1>5 DEF ReadLine, EndOfLines, readVars
  <2>2. MemInv' /\ Harmless(mw)'
    BY <1>1, <1>2, <2>1, CalmAfter
  <2>3. lines \in mw.held /\ (~ failed => mw.held = {lines})
    BY <1>0, <1>1, <2>1 DEF HeapInv, OwnedInv, Owned, HasLines, HasArray
  <2>4. OwnedInv'
    BY <1>1, <1>2, <2>1, <2>3 DEF OwnedInv, Owned, Apart, HasLines, HasArray
  <2> QED
    BY <1>0, <1>1, <2>1, <2>2, <2>4 DEF HeapInv
<1> QED
  BY <1>3, <1>4, <1>5

\* The array of processes.
LEMMA BuildHeap ==
  ASSUME SearchInv, getlined' \subseteq Foreign,
         NothingFound \/ AllocProcesses \/ OutOfMemory \/ BuildProcess \/ EndBuild
  PROVE  HeapInv'
<1>0. HeapInv /\ pc \in {"got", "build"} /\ IsFiniteSet(strings)
  BY SearchHeap, LinesFreed DEF NothingFound, AllocProcesses, OutOfMemory, BuildProcess, EndBuild
<1>1. /\ phase = "running" /\ phase' = "running" /\ cap' = cap /\ failed' = failed
  BY <1>0 DEF HeapInv, OwnedInv, NothingFound, AllocProcesses, OutOfMemory, BuildProcess, EndBuild,
              readVars, buildVars
<1>2. /\ Calm(Quiet) /\ Quiet.held = mw.held /\ mw.held \in SUBSET Slots /\ NULL \notin Slots
  BY <1>1, QuietCalm
<1>3. /\ lines \in mw.held
      /\ pc = "got" /\ ~ failed => mw.held = {lines}
      /\ pc = "build" => /\ kept \subseteq mw.held /\ processes \in mw.held
                         /\ processes \notin kept /\ lines # processes /\ lines \notin kept
                         /\ ~ failed => mw.held = kept \union {lines, processes}
  BY <1>0, <1>1 DEF HeapInv, OwnedInv, Owned, Apart, HasLines, HasArray
<1>4. CASE NothingFound
  <2>1. /\ mw' = mwFree(FoldSet(LAMBDA p, h : FreeLine(h, p), Quiet, strings), lines)
        /\ pc = "got" /\ pc' = "idle" /\ lines' = NULL /\ processes' = processes /\ kept' = kept
    BY <1>4 DEF NothingFound, FreeOutput
  <2>2. FoldSet(LAMBDA p, h : FreeLine(h, p), Quiet, strings) = Quiet
    BY <1>0, FreeLines
  <2>3. Calm(mw') /\ mw'.held = mw.held \ {lines}
    BY <1>2, <1>3, <2>1, <2>2, FreeLive
  <2>4. MemInv' /\ Harmless(mw)'
    BY <1>1, <2>3, CalmAfter
  <2>5. OwnedInv'
    BY <1>1, <1>3, <2>1, <2>3 DEF OwnedInv, Owned, Apart, HasLines, HasArray
  <2> QED
    BY <1>0, <1>1, <2>1, <2>4, <2>5 DEF HeapInv
<1>5. CASE AllocProcesses
  <2>1. PICK a \in Place \ {NULL} : mw' = mwMalloc(Quiet, a, i - InternalLines) /\ processes' = a
    BY <1>5 DEF AllocProcesses
  <2>2. /\ pc = "got" /\ pc' = "build" /\ lines' = lines /\ kept' = {} /\ i > InternalLines
    BY <1>5 DEF AllocProcesses, readVars
  <2>3. a \in Slots /\ a \notin mw.held
    BY <1>2, <2>1, PlaceIs
  <2>4. i - InternalLines \in Nat
    BY <2>2, SearchAssumption DEF SearchInv, SearchTypeOK, InternalLines
  <2>5. Calm(mw') /\ mw'.held = mw.held \union {a}
    <3>1. a \in (Slots \ Quiet.held) \union {NULL} /\ a # NULL
      BY <1>2, <2>3
    <3>2. Calm(mw') /\ mw'.held = Quiet.held \union {a}
      BY <1>2, <2>1, <2>4, <3>1, MallocLive
    <3> QED
      BY <1>2, <3>2
  <2>6. MemInv' /\ Harmless(mw)'
    BY <1>1, <2>5, CalmAfter
  <2>7. OwnedInv'
    BY <1>1, <1>3, <2>1, <2>2, <2>3, <2>5 DEF OwnedInv, Owned, Apart, HasLines, HasArray
  <2> QED
    BY <1>0, <1>1, <2>1, <2>2, <2>3, <2>6, <2>7 DEF HeapInv
<1>6. CASE OutOfMemory
  <2>1. PICK h : h = mwMalloc(Quiet, NULL, 1)
    OBVIOUS
  <2>2. /\ mw' = mwFree(FoldSet(LAMBDA p, g : FreeLine(g, p), h, strings), lines)
        /\ pc' = "failed" /\ lines' = NULL /\ processes' = processes /\ kept' = kept
    BY <1>6, <2>1 DEF OutOfMemory, buildVars
  <2>3. Calm(h) /\ h.held = mw.held
    BY <1>2, <2>1, MallocLive
  <2>4. FoldSet(LAMBDA p, g : FreeLine(g, p), h, strings) = h
    BY <1>0, FreeLines
  <2>5. Calm(mw')
    BY <1>3, <2>2, <2>3, <2>4, FreeLive
  <2>6. MemInv' /\ Harmless(mw)'
    BY <1>1, <2>5, CalmAfter
  <2>7. OwnedInv'
    BY <1>1, <2>2 DEF OwnedInv, Owned, Apart, HasLines, HasArray
  <2> QED
    BY <1>0, <1>1, <2>2, <2>6, <2>7 DEF HeapInv
<1>7. CASE BuildProcess
  <2>1. PICK k \in DOMAIN todo, p \in Place \ {NULL} :
           LET made == mwMalloc(Quiet, p, 1)
           IN  IF k = "match" THEN kept' = kept \union {p} /\ mw' = Store(made, p)
               ELSE mw' = mwFree(made, p) /\ kept' = kept
    BY <1>7 DEF BuildProcess
  <2>2. /\ pc = "build" /\ pc' = "build" /\ lines' = lines /\ processes' = processes
    BY <1>7 DEF BuildProcess, readVars
  <2>3. p \in Slots /\ p \notin mw.held
    BY <1>2, <2>1, PlaceIs
  <2>4. PICK made : made = mwMalloc(Quiet, p, 1)
    OBVIOUS
  <2>5. Calm(made) /\ made.held = mw.held \union {p}
    <3>1. p \in (Slots \ Quiet.held) \union {NULL} /\ p # NULL
      BY <1>2, <2>3
    <3>2. Calm(made) /\ made.held = Quiet.held \union {p}
      BY <1>2, <2>4, <3>1, MallocLive
    <3> QED
      BY <1>2, <3>2
  <2>6. CASE k = "match"
    <3>1. kept' = kept \union {p} /\ mw' = Store(made, p)
      BY <2>1, <2>4, <2>6
    <3>2. Calm(mw') /\ mw'.held = mw.held \union {p}
      BY <1>3, <2>2, <2>5, <3>1, StoreLive
    <3>3. MemInv' /\ Harmless(mw)'
      BY <1>1, <3>2, CalmAfter
    <3>4. OwnedInv'
      BY <1>1, <1>3, <2>2, <2>3, <3>1, <3>2 DEF OwnedInv, Owned, Apart, HasLines, HasArray
    <3> QED
      BY <1>0, <1>1, <2>2, <2>3, <3>1, <3>3, <3>4 DEF HeapInv
  <2>7. CASE k # "match"
    <3>1. kept' = kept /\ mw' = mwFree(made, p)
      BY <2>1, <2>4, <2>7
    <3>2. Calm(mw') /\ mw'.held = mw.held
      <4>1. Calm(mw') /\ mw'.held = made.held \ {p}
        BY <2>5, <3>1, FreeLive
      <4> QED
        BY <2>3, <2>5, <4>1
    <3>3. MemInv' /\ Harmless(mw)'
      BY <1>1, <3>2, CalmAfter
    <3>4. OwnedInv'
      BY <1>1, <1>3, <2>2, <3>1, <3>2 DEF OwnedInv, Owned, Apart, HasLines, HasArray
    <3> QED
      BY <1>0, <1>1, <2>2, <3>1, <3>3, <3>4 DEF HeapInv
  <2> QED
    BY <2>6, <2>7
<1>8. CASE EndBuild
  <2>1. PICK h : h = mwFree(FoldSet(LAMBDA p, g : FreeLine(g, p), Quiet, strings), lines)
    OBVIOUS
  <2>2. /\ mw' = IF kept = {} THEN DestroyEmpty(h) ELSE h
        /\ pc' = IF kept = {} THEN "idle" ELSE "kill"
        /\ pc = "build" /\ lines' = NULL /\ processes' = processes /\ kept' = kept
    BY <1>8, <2>1 DEF EndBuild, buildVars
  <2>3. FoldSet(LAMBDA p, g : FreeLine(g, p), Quiet, strings) = Quiet
    BY <1>0, FreeLines
  <2>4. Calm(h) /\ h.held = mw.held \ {lines}
    BY <1>2, <1>3, <2>1, <2>3, FreeLive
  <2>5. processes \in h.held
    BY <1>3, <2>2, <2>4
  <2>6. /\ Calm(mw')
        /\ mw'.held = IF kept = {} THEN (mw.held \ {lines}) \ {processes} ELSE mw.held \ {lines}
    BY <2>2, <2>4, <2>5, FreeLive DEF DestroyEmpty
  <2>7. MemInv' /\ Harmless(mw)'
    BY <1>1, <2>6, CalmAfter
  <2>8. OwnedInv'
    BY <1>1, <1>3, <2>2, <2>6 DEF OwnedInv, Owned, Apart, HasLines, HasArray
  <2> QED
    BY <1>0, <1>1, <2>2, <2>7, <2>8 DEF HeapInv
<1> QED
  BY <1>4, <1>5, <1>6, <1>7, <1>8

\* The kills, the errors, and the exit.
LEMMA EndHeap ==
  ASSUME SearchInv, getlined' \subseteq Foreign,
         \/ DestroyProcesses \/ KillFails \/ ReturnFailed \/ ExitProgram \/ Abort
         \/ UNCHANGED searchVars
  PROVE  HeapInv'
<1>0. HeapInv
  BY SearchHeap
<1>1. CASE DestroyProcesses
  <2>1. PICK h : h = FoldSet(LAMBDA p, g : mwFree(g, p), Quiet, kept)
    OBVIOUS
  <2>2. /\ mw' = mwFree(h, processes) /\ pc = "kill" /\ pc' = "idle" /\ kept' = {}
        /\ processes' = NULL /\ lines' = lines /\ cap' = cap
        /\ phase' = phase /\ failed' = failed
    BY <1>1, <2>1 DEF DestroyProcesses, readVars
  <2>3. phase = "running" /\ phase' = "running"
    BY <1>0, <2>2 DEF HeapInv, OwnedInv
  <2>4. Calm(Quiet) /\ Quiet.held = mw.held
    BY <2>3, QuietCalm
  <2>5. /\ kept \subseteq mw.held /\ processes \in mw.held /\ processes \notin kept
        /\ ~ failed => mw.held = kept \union {processes}
    BY <1>0, <2>2, <2>3 DEF HeapInv, OwnedInv, Owned, Apart, HasLines, HasArray
  <2>6. Calm(h) /\ h.held = mw.held \ kept
    <3>1. kept \in SUBSET Quiet.held /\ Good(Quiet) /\ Harmless(Quiet)
      BY <2>4, <2>5 DEF Calm
    <3> QED
      BY <2>1, <2>4, <3>1, FreeAll DEF Calm
  <2>7. Calm(mw') /\ mw'.held = h.held \ {processes}
    BY <2>2, <2>5, <2>6, FreeLive
  <2>8. MemInv' /\ Harmless(mw)'
    BY <2>3, <2>7, CalmAfter
  <2>9. OwnedInv'
    BY <2>2, <2>3, <2>5, <2>6, <2>7 DEF OwnedInv, Owned, Apart, HasLines, HasArray
  <2> QED
    BY <1>0, <2>2, <2>8, <2>9 DEF HeapInv
<1>2. CASE KillFails \/ ReturnFailed
  <2>1. /\ mw' = Quiet /\ pc \in {"kill", "failed"} /\ pc' \in {"failed", "idle"}
        /\ pc' = "idle" => failed' = TRUE
        /\ kept' = kept /\ processes' = processes /\ lines' = lines /\ cap' = cap /\ phase' = phase
    BY <1>2 DEF KillFails, ReturnFailed, readVars, buildVars
  <2>2. phase = "running" /\ phase' = "running"
    BY <1>0, <2>1 DEF HeapInv, OwnedInv
  <2>3. MemInv' /\ Harmless(mw)'
    BY <2>1, <2>2, QuietCalm, CalmAfter
  <2>4. OwnedInv'
    BY <2>1, <2>2 DEF OwnedInv, Owned, Apart, HasLines, HasArray
  <2> QED
    BY <1>0, <2>1, <2>3, <2>4 DEF HeapInv
<1>3. CASE ExitProgram \/ Abort
  <2>1. /\ pc' = pc /\ kept' = kept /\ processes' = processes /\ lines' = lines /\ cap' = cap
        /\ failed' = failed
        /\ Exit \/ AbortNext \/ AbortEnd
    BY <1>3 DEF ExitProgram, Abort, readVars, buildVars
  <2>2. pc = "idle" /\ phase' # "running"
    BY <1>0, <1>3 DEF ExitProgram, Abort, Exit, AbortNext, AbortEnd, HeapInv, OwnedInv
  <2>3. MemInv'
    BY <1>0, <2>1, OtherStep DEF HeapInv
  <2>4. /\ MwType(mw) /\ MwType(Quiet) /\ Quiet.said = {} /\ Sound(Quiet)
        /\ Quiet.held = mw.held /\ Quiet.Head = mw.Head
    <3>1. MwType(mw) /\ Sound(mw)
      BY <1>0 DEF HeapInv, MemInv, Sound
    <3>2. MwType(Quiet) /\ SameHeap(mw, Quiet)
      BY <3>1, QuietIs
    <3>3. Sound(Quiet)
      BY <3>1, <3>2, SoundSame
    <3> QED
      BY <3>1, <3>2, <3>3 DEF SameHeap, Quiet, MwType
  <2>5. Harmless(mw)'
    <3>1. CASE Exit
      BY <2>4, <3>1 DEF Exit, Harmless
    <3>2. CASE AbortNext
      <4>1. mw.Head \in mw.held /\ mw' = Unfreed(Quiet)
        BY <2>4, <3>2, EndsAreHeld DEF AbortNext, SoundHead, Sound, LinksOK
      <4>2. mw'.said \subseteq {<<"unfreed", mw.Head>>, <<"overflow", mw.Head>>}
        BY <2>4, <4>1, UnfreedIs
      <4> QED
        BY <4>2 DEF Harmless
    <3>3. CASE AbortEnd
      <4>1. mw'.said = {<<"anomalies", mw.Errors>>}
        BY <2>4, <3>3 DEF AbortEnd, Say, MwType
      <4> QED
        BY <4>1 DEF Harmless
    <3> QED
      BY <2>1, <3>1, <3>2, <3>3
  <2>6. OwnedInv'
    BY <2>1, <2>2 DEF OwnedInv, Owned, Apart, HasLines, HasArray
  <2> QED
    BY <1>0, <2>1, <2>3, <2>5, <2>6 DEF HeapInv
<1>4. CASE UNCHANGED searchVars
  <2>1. /\ mw' = mw /\ getlined' = getlined /\ phase' = phase /\ pc' = pc /\ kept' = kept
        /\ processes' = processes /\ lines' = lines /\ cap' = cap /\ failed' = failed
    BY <1>4 DEF searchVars, readVars, buildVars
  <2>2. MemInv'
    BY <1>0, <2>1 DEF HeapInv, MemInv, TypeOK
  <2>3. Harmless(mw)'
    BY <1>0, <2>1 DEF HeapInv, Harmless
  <2>4. OwnedInv'
    BY <1>0, <2>1 DEF HeapInv, OwnedInv, Owned, Apart, HasLines, HasArray
  <2> QED
    BY <1>0, <2>1, <2>2, <2>3, <2>4 DEF HeapInv
<1> QED
  BY <1>1, <1>2, <1>3, <1>4

-----------------------------------------------------------------------------
(* The invariant, and the theorems.                                          *)

LEMMA SearchStep == SearchInv /\ [SearchNext]_searchVars => SearchInv'
<1> SUFFICES ASSUME SearchInv, [SearchNext]_searchVars PROVE SearchInv'
  OBVIOUS
<1>1. /\ LinesInv'
      /\ left' \in [Kinds -> 0..MaxLines] /\ todo' \in [Kinds -> 0..MaxLines]
      /\ i' \in 0..MaxLines /\ room' \in Nat
  BY LinesNext
<1>2. /\ BuffersInv' /\ strings' \subseteq getlined' /\ getlined' \subseteq Foreign
      /\ searches' \in 0..MaxSearches /\ failed' \in BOOLEAN
  BY BuffersNext
<1>3. HeapInv'
  BY <1>2, ReadHeap, BuildHeap, EndHeap DEF SearchNext
<1>4. SearchTypeOK'
  BY <1>1, <1>2, <1>3, KindsAre DEF HeapInv, MemInv, SearchTypeOK
<1> QED
  BY <1>1, <1>2, <1>3, <1>4 DEF HeapInv, SearchInv

LEMMA SearchStart == SearchInit => SearchInv
<1> SUFFICES ASSUME SearchInit PROVE SearchInv
  OBVIOUS
<1>1. /\ MemInv /\ mw = InitMw /\ getlined = {} /\ phase = "running"
      /\ pc = "idle" /\ left = None /\ cap = 0 /\ i = 0 /\ lines = NULL /\ strings = {}
      /\ todo = None /\ processes = NULL /\ room = 0 /\ kept = {} /\ failed = FALSE
      /\ searches = 0
  BY MemInit DEF SearchInit, Init
<1>2. Harmless(mw) /\ mw.held = {}
  BY <1>1 DEF InitMw, Harmless
<1>3. OwnedInv
  BY <1>1, <1>2 DEF OwnedInv, Owned, Apart, HasLines, HasArray
<1>4. LinesInv
  BY <1>1 DEF LinesInv
<1>5. BuffersInv
  <2>1. IsFiniteSet({}) /\ Cardinality({}) = 0 /\ 0 * LinesPerSearch = 0
    BY FS_EmptySet, SearchAssumption DEF LinesPerSearch
  <2> QED
    BY <1>1, <2>1 DEF BuffersInv
<1>6. SearchTypeOK
  <2>1. 0 \in 0..MaxLines /\ 0 \in 0..MaxSearches /\ 0 \in Nat
    BY SearchAssumption
  <2>2. /\ None \in Outputs \union [DOMAIN None -> 0..MaxLines]
        /\ None \in [DOMAIN None -> 0..MaxLines]
    BY KindsAre
  <2> QED
    BY <1>1, <2>1, <2>2 DEF MemInv, SearchTypeOK
<1> QED
  BY <1>1, <1>2, <1>3, <1>4, <1>5, <1>6 DEF SearchInv

LEMMA SearchInvariant == SearchSpec => []SearchInv
BY SearchStart, SearchStep, PTL DEF SearchSpec

\* memwatch's variables keep their types while the search calls it, and so do
\* the search's own: the arrays are places or NULL, and the lines in the first
\* are live buffers of getline().
THEOREM SearchTypes == SearchSpec => []SearchTypeOK
<1>1. SearchInv => SearchTypeOK
  BY DEF SearchInv
<1> QED
  BY <1>1, SearchInvariant, PTL

\* The array of processes (Process.c:52) is overrun by one pointer at most,
\* whatever ps and grep print and in whatever order, because the shell of the
\* pipeline is always one of the lines.
THEOREM OneTooMany == SearchSpec => []OverrunInGuard
<1>1. SearchInv => OverrunInGuard
  <2> SUFFICES ASSUME SearchInv, pc \in {"build", "kill"} PROVE Cardinality(kept) <= room + 1
    BY DEF OverrunInGuard
  <2>1. LinesInv /\ todo.match \in Nat /\ room \in Nat
    BY LinesType, TotalIs DEF SearchInv
  <2>2. Cardinality(kept) \in Nat
    <3>1. IsFiniteSet(kept)
      BY MemWatchAssumption, FS_Subset DEF SearchInv, SearchTypeOK
    <3> QED
      BY <3>1, FS_CardinalityType
  <2> QED
    BY <2>1, <2>2 DEF LinesInv
<1> QED
  BY <1>1, SearchInvariant, PTL

\* Whatever allocation, pipe or kill fails, the search frees and reallocs only
\* buffers that are live and memwatch's own: memwatch never reports a double
\* free, a wild free, a NULL free or an unknown pointer (ProgramIO.c, Process.c).
THEOREM SearchIsClean == SearchSpec => []NoMisuse
<1>1. SearchInv => NoMisuse
  BY DEF SearchInv, MemInv, Sound, Harmless, NoMisuse
<1> QED
  BY <1>1, SearchInvariant, PTL

\* A search and its kills that succeed leave nothing in memwatch's chain, and
\* of getline()'s buffers the one for the line that was not there.
THEOREM SearchLosesOneBuffer == SearchSpec => []NothingKept
<1>1. SearchInv => NothingKept
  <2> SUFFICES ASSUME SearchInv, pc = "idle", phase = "running", ~ failed
               PROVE  Chain = {} /\ Cardinality(getlined) = searches
    BY DEF NothingKept
  <2>1. Chain = mw.held
    BY ChainIs DEF SearchInv, MemInv
  <2>2. mw.held = {}
    BY DEF SearchInv, OwnedInv, Owned, HasLines, HasArray
  <2> QED
    BY <2>1, <2>2 DEF SearchInv, BuffersInv
<1> QED
  BY <1>1, SearchInvariant, PTL

\* The chain stays what libc handed out, and the counters agree with it, through
\* every search: the pointer too many ends in a guard zone, where no link is.
THEOREM SearchKeepsTheChain == SearchSpec => [](ChainIsHeap /\ CountersMatch)
<1>1. SearchInv => ChainIsHeap /\ CountersMatch
  BY HeapInOrder DEF SearchInv
<1> QED
  BY <1>1, SearchInvariant, PTL
=============================================================================
