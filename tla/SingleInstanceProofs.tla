------------------------- MODULE SingleInstanceProofs -------------------------
(***************************************************************************)
(* What holds of SingleInstance for any number of instances: types, that    *)
(* two instances live past the check only after something went wrong, and   *)
(* that an instance that is alone passes it.                                *)
(***************************************************************************)
EXTENDS SingleInstance, TLAPS

-----------------------------------------------------------------------------
\* killOtherProcessAndVerifyExact returns a truth value into ok.
LEMMA ReturnTypes ==
  ASSUME TypeOK, NEW p \in Instances, NEW result \in BOOLEAN, Return(p, result)
  PROVE  /\ ok' \in [Instances -> BOOLEAN]
         /\ k' \in [Instances -> 1 .. 2]
         /\ pc' \in [Instances -> Over \union {"search", "kill", "verify", "passed",
                                               "refused", "serving"}]
BY DEF TypeOK, Return, Over

\* What a process forgets when it ends keeps its type.
LEMMA ForgetTypes ==
  ASSUME TypeOK, NEW p \in Instances, Forget(p)
  PROVE  /\ form' \in [Instances -> 1 .. 2] /\ k' \in [Instances -> 1 .. 2]
         /\ todo' \in [Instances -> SUBSET Instances]
         /\ ok' \in [Instances -> BOOLEAN]
         /\ doomed' \subseteq Instances /\ complained' \subseteq Instances
BY DEF TypeOK, Forget

\* A step of one instance keeps the types.
LEMMA TypeStep ==
  ASSUME TypeOK, NEW p \in Instances, Step(p)
  PROVE  TypeOK'
<1>0. \A f, i : Found(f, i) \subseteq Instances
  BY DEF Found, Match, Alive
<1>1. CASE Search(p)
  <2>1. PICK i \in Lines(k[p]) :
          /\ \/ Return(p, TRUE) /\ UNCHANGED todo
             \/ /\ todo' = [todo EXCEPT ![p] = Others(p, Found(k[p], i))]
                /\ pc' = [pc EXCEPT ![p] = "kill"]
                /\ UNCHANGED <<k, ok>>
          /\ slip' \in {slip, slip \union {p}}
    BY <1>1 DEF Search
  <2>2. CASE Return(p, TRUE) /\ UNCHANGED todo
    BY <1>1, <2>1, <2>2, ReturnTypes DEF Search, TypeOK
  <2>3. CASE /\ todo' = [todo EXCEPT ![p] = Others(p, Found(k[p], i))]
             /\ pc' = [pc EXCEPT ![p] = "kill"]
             /\ UNCHANGED <<k, ok>>
    BY <1>0, <1>1, <2>1, <2>3 DEF Search, TypeOK, Others
  <2> QED
    BY <2>1, <2>2, <2>3
<1>2. CASE SearchFails(p)
  BY <1>2, ReturnTypes DEF SearchFails, TypeOK
<1>3. CASE ExitAtLog(p)
  BY <1>3, ForgetTypes DEF ExitAtLog, TypeOK, Over
<1>4. CASE KillNext(p)
  BY <1>4 DEF KillNext, TypeOK
<1>5. CASE KillFails(p)
  BY <1>5, ReturnTypes DEF KillFails, TypeOK
<1>6. CASE KillsDone(p)
  BY <1>6 DEF KillsDone, TypeOK
<1>7. CASE Verify(p)
  <2>1. PICK i \in Lines(k[p]) :
          /\ Return(p, Found(k[p], i) \subseteq {p})
          /\ complained' \in {complained, complained \union {p}}
          /\ slip' \in {slip, slip \union {p}}
    BY <1>7 DEF Verify
  <2>2. (Found(k[p], i) \subseteq {p}) \in BOOLEAN
    OBVIOUS
  <2> QED
    BY <1>7, <2>1, <2>2, ReturnTypes DEF Verify, TypeOK
<1>8. CASE GoOn(p)
  BY <1>8 DEF GoOn, TypeOK
<1>9. CASE BindFails(p)
  BY <1>9, ForgetTypes DEF BindFails, TypeOK, Over
<1>10. CASE GiveUp(p)
  BY <1>10, ForgetTypes DEF GiveUp, TypeOK, Over
<1> QED
  BY <1>1, <1>2, <1>3, <1>4, <1>5, <1>6, <1>7, <1>8, <1>9, <1>10 DEF Step

\* Every step does.
LEMMA TypeNext == TypeOK /\ [Next]_vars => TypeOK'
<1> SUFFICES ASSUME TypeOK, [Next]_vars PROVE TypeOK'
  OBVIOUS
<1>1. ASSUME NEW p \in Instances, Start(p) PROVE TypeOK'
  BY <1>1 DEF Start, TypeOK
<1>2. ASSUME NEW p \in Instances, Step(p) PROVE TypeOK'
  BY <1>2, TypeStep
<1>3. ASSUME NEW p \in Instances, Die(p) PROVE TypeOK'
  BY <1>3, ForgetTypes DEF Die, TypeOK, Over
<1>4. CASE UNCHANGED vars
  BY <1>4 DEF vars, TypeOK
<1> QED
  BY <1>1, <1>2, <1>3, <1>4 DEF Next

\* The variables of the instances, of the kernel and of main() keep their types.
THEOREM TypeCorrect == Spec => []TypeOK
<1>1. Init => TypeOK
  BY DEF Init, TypeOK, Over
<1> QED
  BY <1>1, TypeNext, PTL DEF Spec

-----------------------------------------------------------------------------
(***************************************************************************)
(* Two instances get past the check only by accident.  The argument is      *)
(* about who has searched for whom.  The one that starts later is there for *)
(* the other's search or finds the other with its own: when both have       *)
(* searched, one has the other on its list, and does not go on before it    *)
(* has killed it.                                                          *)
(***************************************************************************)
\* p has made the search that finds q.
Searched(p, q) ==
    \/ k[p] > form[q]
    \/ k[p] = form[q] /\ pc[p] \notin {"off", "search"}

\* Nothing went wrong for p, which is there to stay.
Sound(p) == p \in Alive /\ p \notin doomed /\ p \notin slip

OneSawTheOther ==
    \A p, q \in Instances :
        p # q /\ Sound(p) /\ Sound(q) /\ Searched(p, q) /\ Searched(q, p)
            => q \in todo[p] \/ p \in todo[q]

\* Outside its loop of kills an instance has nobody left on its list.
ListsAreDone ==
    \A p \in Instances : p \notin slip /\ pc[p] # "kill" => todo[p] = {}

FormsInOrder ==
    \A p \in Instances : /\ pc[p] = "off" => k[p] = 1
                         /\ pc[p] \in {"passed", "serving", "refused"} => k[p] = 2

SeenInv == TypeOK /\ OneSawTheOther /\ ListsAreDone /\ FormsInOrder

\* A step of p leaves the others where they are, takes nobody off the accidents,
\* and no pending SIGKILL from another.
LEMMA OthersKept ==
  ASSUME TypeOK, NEW p \in Instances, Step(p)
  PROVE  /\ \A q \in Instances \ {p} : /\ pc'[q] = pc[q] /\ form'[q] = form[q]
                                       /\ k'[q] = k[q] /\ todo'[q] = todo[q]
         /\ slip \subseteq slip'
         /\ slip' \subseteq slip \union {p}
         /\ \A q \in Instances \ {p} : q \in doomed => q \in doomed'
         /\ pc'[p] \notin Over => form'[p] = form[p]
BY DEF Step, TypeOK, Search, SearchFails, ExitAtLog, KillNext, KillFails, KillsDone,
   Verify, GoOn, BindFails, GiveUp, Return, Forget, Over


\* Whatever p does, if it is sound afterwards it was before.
LEMMA SoundBefore ==
  ASSUME TypeOK, NEW p \in Instances, Step(p), Sound(p)'
  PROVE  Sound(p)
BY DEF Step, TypeOK, Search, SearchFails, ExitAtLog, KillNext, KillFails, KillsDone,
   Verify, GoOn, BindFails, GiveUp, Return, Forget, Over, Sound, Alive

\* A step of p keeps what the invariant says of p and another instance.
LEMMA PairKept ==
  ASSUME SeenInv, NEW p \in Instances, NEW q \in Instances \ {p}, Step(p),
         Sound(p)', Sound(q)', Searched(p, q)', Searched(q, p)'
  PROVE  q \in todo'[p] \/ p \in todo'[q]
<1>0. TypeOK
  BY DEF SeenInv
<1>1. /\ pc'[q] = pc[q] /\ form'[q] = form[q] /\ k'[q] = k[q] /\ todo'[q] = todo[q]
      /\ form'[p] = form[p]
  BY <1>0, OthersKept DEF Sound, Alive
<1>2. Sound(p)
  BY <1>0, SoundBefore
<1>3. Sound(q)
  BY <1>0, <1>1, OthersKept DEF Sound, Alive
<1>4. Searched(q, p)
  BY <1>1 DEF Searched
<1>5. Searched(p, q) => q \in todo[p] \/ p \in todo[q]
  BY <1>2, <1>3, <1>4 DEF SeenInv, OneSawTheOther
<1>6. /\ p \notin slip' /\ q \notin doomed' /\ q \in Alive
      /\ pc'[p] \notin Over /\ form[q] \in 1 .. 2 /\ k[p] \in 1 .. 2
  BY <1>0, <1>3 DEF Sound, Alive, TypeOK
<1>7. CASE Search(p)
  <2>1. PICK i \in Lines(k[p]) :
          /\ IF Found(k[p], i) = {} THEN Return(p, TRUE) /\ UNCHANGED todo
             ELSE /\ todo' = [todo EXCEPT ![p] = Others(p, Found(k[p], i))]
                  /\ pc' = [pc EXCEPT ![p] = "kill"]
                  /\ UNCHANGED <<k, ok>>
          /\ slip' = IF Missed(k[p], i) THEN slip \union {p} ELSE slip
    BY <1>7 DEF Search
  <2>2. Found(k[p], i) = Match(k[p])
    BY <1>6, <2>1 DEF Found, Missed
  <2>3. q \in Match(k[p]) <=> form[q] = k[p]
    BY <1>6 DEF Match
  <2>4. pc[p] = "search" /\ todo[p] = {}
    BY <1>2, <1>7 DEF Search, SeenInv, ListsAreDone, Sound
  <2>5. CASE Found(k[p], i) = {}
    <3>1. form[q] # k[p]
      BY <2>2, <2>3, <2>5
    <3>2. k'[p] = 2 /\ todo' = todo
      BY <1>0, <2>1, <2>5 DEF Return, TypeOK
    <3>3. k[p] = 1 => pc'[p] = "search"
      BY <1>0, <2>1, <2>5 DEF Return, TypeOK
    <3>4. Searched(p, q)
      BY <1>1, <1>6, <3>1, <3>2, <3>3 DEF Searched
    <3> QED
      BY <1>1, <1>5, <3>2, <3>4
  <2>6. CASE Found(k[p], i) # {}
    <3>1. todo'[p] = Match(k[p]) \ {p} /\ k' = k
      BY <1>0, <2>1, <2>2, <2>6, ZenonT(60) DEF Others, TypeOK
    <3>2. form[q] # k[p] => Searched(p, q)
      BY <1>1, <1>6, <3>1 DEF Searched
    <3> QED
      BY <1>1, <1>5, <2>3, <2>4, <3>1, <3>2
  <2> QED
    BY <2>5, <2>6
<1>8. CASE SearchFails(p) \/ KillFails(p)
  BY <1>6, <1>8 DEF SearchFails, KillFails
<1>9. CASE ExitAtLog(p) \/ BindFails(p) \/ GiveUp(p)
  BY <1>0, <1>6, <1>9 DEF ExitAtLog, BindFails, GiveUp, Over, TypeOK
<1>10. CASE KillNext(p)
  <2>1. PICK r \in todo[p] : /\ todo' = [todo EXCEPT ![p] = @ \ {r}]
                             /\ doomed' = IF r \in Alive THEN doomed \union {r} ELSE doomed
    BY <1>10 DEF KillNext
  <2>2. r # q
    BY <1>6, <2>1
  <2>3. Searched(p, q)
    BY <1>1, <1>10 DEF Searched, KillNext
  <2> QED
    BY <1>0, <1>1, <1>5, <2>1, <2>2, <2>3 DEF TypeOK
<1>11. CASE KillsDone(p) \/ GoOn(p)
  <2>1. Searched(p, q) /\ todo' = todo
    BY <1>0, <1>1, <1>6, <1>11 DEF Searched, KillsDone, GoOn, TypeOK
  <2> QED
    BY <1>5, <2>1
<1>12. CASE Verify(p)
  <2>1. /\ pc[p] = "verify" /\ todo' = todo /\ k'[p] = 2
        /\ k[p] = 1 => pc'[p] = "search"
    BY <1>0, <1>12 DEF Verify, Return, TypeOK
  <2>2. Searched(p, q)
    BY <1>1, <1>6, <2>1 DEF Searched
  <2> QED
    BY <1>5, <2>1, <2>2
<1> QED
  BY <1>7, <1>8, <1>9, <1>10, <1>11, <1>12 DEF Step

\* The other two parts of the invariant.
LEMMA ListsNext == SeenInv /\ [Next]_vars => ListsAreDone' /\ FormsInOrder'
<1> SUFFICES ASSUME SeenInv, [Next]_vars PROVE ListsAreDone' /\ FormsInOrder'
  OBVIOUS
<1> USE DEF SeenInv
<1>1. ASSUME NEW p \in Instances, Start(p) PROVE ListsAreDone' /\ FormsInOrder'
  BY <1>1 DEF Start, TypeOK, ListsAreDone, FormsInOrder
<1>2. ASSUME NEW p \in Instances, Step(p) PROVE ListsAreDone' /\ FormsInOrder'
  <2>1. \A q \in Instances \ {p} :
           /\ q \notin slip' /\ pc'[q] # "kill" => todo'[q] = {}
           /\ pc'[q] = "off" => k'[q] = 1
           /\ pc'[q] \in {"passed", "serving", "refused"} => k'[q] = 2
    BY <1>2, OthersKept DEF ListsAreDone, FormsInOrder
  <2>2. /\ pc'[p] # "off"
        /\ pc'[p] \in {"passed", "serving", "refused"} => k'[p] = 2
    BY <1>2 DEF Step, TypeOK, Search, SearchFails, ExitAtLog, KillNext, KillFails,
       KillsDone, Verify, GoOn, BindFails, GiveUp, Return, Forget, Over, FormsInOrder
  <2>3. p \notin slip' /\ pc'[p] # "kill" => todo'[p] = {}
    BY <1>2 DEF Step, TypeOK, Search, SearchFails, ExitAtLog, KillNext, KillFails,
       KillsDone, Verify, GoOn, BindFails, GiveUp, Return, Forget, ListsAreDone
  <2> QED
    BY <2>1, <2>2, <2>3 DEF ListsAreDone, FormsInOrder
<1>3. ASSUME NEW p \in Instances, Die(p) PROVE ListsAreDone' /\ FormsInOrder'
  BY <1>3 DEF Die, Forget, TypeOK, ListsAreDone, FormsInOrder
<1>4. CASE UNCHANGED vars
  BY <1>4 DEF vars, ListsAreDone, FormsInOrder
<1> QED
  BY <1>1, <1>2, <1>3, <1>4 DEF Next

\* All three parts are kept, whoever takes the step.
LEMMA SeenNext == SeenInv /\ [Next]_vars => SeenInv'
<1> SUFFICES ASSUME SeenInv, [Next]_vars PROVE OneSawTheOther'
  BY TypeNext, ListsNext DEF SeenInv
<1>0. TypeOK
  BY DEF SeenInv
<1> SUFFICES ASSUME NEW p \in Instances, NEW q \in Instances, p # q,
                    Sound(p)', Sound(q)', Searched(p, q)', Searched(q, p)'
             PROVE  q \in todo'[p] \/ p \in todo'[q]
  BY DEF OneSawTheOther
<1>1. ASSUME NEW r \in Instances, Start(r) PROVE q \in todo'[p] \/ p \in todo'[q]
  <2>1. k[r] = 1 /\ k' = k /\ pc'[r] = "search" /\ form'[r] \in 1 .. 2
    BY <1>0, <1>1 DEF Start, SeenInv, FormsInOrder, TypeOK
  <2>2. \A s \in Instances : form'[s] \in 1 .. 2
    BY <1>0, <1>1 DEF Start, TypeOK
  <2>3. r \notin {p, q}
    BY <2>1, <2>2 DEF Searched
  <2>4. /\ \A s \in {p, q} : pc'[s] = pc[s] /\ form'[s] = form[s]
        /\ UNCHANGED <<todo, k, doomed, slip>>
    BY <1>0, <1>1, <2>3 DEF Start, TypeOK
  <2>5. Sound(p) /\ Sound(q) /\ Searched(p, q) /\ Searched(q, p)
    BY <2>4 DEF Sound, Alive, Searched
  <2> QED
    BY <2>4, <2>5 DEF SeenInv, OneSawTheOther
<1>2. ASSUME NEW r \in Instances, Step(r) PROVE q \in todo'[p] \/ p \in todo'[q]
  <2>1. CASE r = p
    BY <1>2, <2>1, PairKept
  <2>2. CASE r = q
    BY <1>2, <2>2, PairKept
  <2>3. CASE r \notin {p, q}
    <3>1. /\ \A s \in {p, q} : /\ pc'[s] = pc[s] /\ form'[s] = form[s]
                               /\ k'[s] = k[s] /\ todo'[s] = todo[s]
                               /\ s \notin slip /\ s \notin doomed
      BY <1>0, <1>2, <2>3, OthersKept DEF Sound
    <3>2. Sound(p) /\ Sound(q) /\ Searched(p, q) /\ Searched(q, p)
      BY <3>1 DEF Sound, Alive, Searched
    <3> QED
      BY <3>1, <3>2 DEF SeenInv, OneSawTheOther
  <2> QED
    BY <2>1, <2>2, <2>3
<1>3. ASSUME NEW r \in Instances, Die(r) PROVE q \in todo'[p] \/ p \in todo'[q]
  <2>1. r \notin {p, q}
    BY <1>0, <1>3 DEF Die, Sound, Alive, Over, TypeOK
  <2>2. /\ \A s \in {p, q} : /\ pc'[s] = pc[s] /\ form'[s] = form[s]
                             /\ k'[s] = k[s] /\ todo'[s] = todo[s]
                             /\ s \notin slip /\ s \notin doomed
    BY <1>0, <1>3, <2>1 DEF Die, Forget, Sound, TypeOK
  <2>3. Sound(p) /\ Sound(q) /\ Searched(p, q) /\ Searched(q, p)
    BY <2>2 DEF Sound, Alive, Searched
  <2> QED
    BY <2>2, <2>3 DEF SeenInv, OneSawTheOther
<1>4. CASE UNCHANGED vars
  BY <1>4 DEF vars, SeenInv, OneSawTheOther, Sound, Alive, Searched
<1> QED
  BY <1>1, <1>2, <1>3, <1>4 DEF Next

\* Together they are an invariant.
LEMMA SeenInvariant == Spec => []SeenInv
<1>1. Init => SeenInv
  BY DEF Init, SeenInv, TypeOK, OneSawTheOther, Sound, Alive, Over, ListsAreDone,
     FormsInOrder
<1> QED
  BY <1>1, SeenNext, PTL DEF Spec

\* Two instances get past the check and both survive only if a search or the
\* kills of one of them went wrong.
THEOREM OneOfAKind == Spec => []TwoOnlyByAccident
<1>1. SeenInv => TwoOnlyByAccident
  <2> SUFFICES ASSUME SeenInv, NEW p \in Passed \ doomed, NEW q \in Passed \ doomed,
                      p # q, p \notin slip, q \notin slip
               PROVE  FALSE
    BY DEF TwoOnlyByAccident
  <2>1. /\ p \in Instances /\ q \in Instances
        /\ pc[p] \in {"passed", "serving"} /\ pc[q] \in {"passed", "serving"}
    BY DEF Passed
  <2>2. Sound(p) /\ Sound(q)
    BY <2>1 DEF Sound, Alive, Over
  <2>3. Searched(p, q) /\ Searched(q, p)
    BY <2>1 DEF Searched, SeenInv, FormsInOrder, TypeOK
  <2>4. todo[p] = {} /\ todo[q] = {}
    BY <2>1 DEF SeenInv, ListsAreDone
  <2> QED
    BY <2>1, <2>2, <2>3, <2>4 DEF SeenInv, OneSawTheOther
<1> QED
  BY <1>1, SeenInvariant, PTL

-----------------------------------------------------------------------------
(***************************************************************************)
(* Alone.  Everything that can stop an instance needs a second one: it is    *)
(* killed by another, it gives up before another that did not die, or it     *)
(* finds the port taken.                                                    *)
(***************************************************************************)
Alone(p) == \A q \in Instances \ {p} : pc[q] = "off"

ListsOthers ==
    \A p \in Instances : p \notin todo[p] /\ \A q \in todo[p] : pc[q] # "off"

PortIsServed == port # NULL => pc[port] = "serving"

NobodyStopsIt ==
    \A p \in Instances : Alone(p) =>
        /\ pc[p] # "killed" /\ p \notin doomed
        /\ p \notin slip => /\ pc[p] \notin {"refused", "ended"}
                            /\ k[p] = 2 => ok[p]

AloneInv == TypeOK /\ ListsOthers /\ PortIsServed /\ FormsInOrder /\ NobodyStopsIt

\* Nobody gets on its own list, and whoever is on a list was started.
LEMMA ListsOthersNext == AloneInv /\ [Next]_vars => ListsOthers'
<1> SUFFICES ASSUME AloneInv, [Next]_vars PROVE ListsOthers'
  OBVIOUS
<1> USE DEF AloneInv
<1>0. ASSUME NEW p \in Instances, Step(p) PROVE pc[p] # "off" /\ pc'[p] # "off"
  BY <1>0 DEF Step, TypeOK, Search, SearchFails, ExitAtLog, KillNext, KillFails,
     KillsDone, Verify, GoOn, BindFails, GiveUp, Return
<1>1. ASSUME NEW p \in Instances, Step(p) PROVE ListsOthers'
  <2>1. p \notin todo'[p] /\ \A q \in todo'[p] : pc[q] # "off"
    BY <1>1 DEF Step, TypeOK, Search, SearchFails, ExitAtLog, KillNext, KillFails,
       KillsDone, Verify, GoOn, BindFails, GiveUp, Return, Forget, ListsOthers,
       Others, Found, Match, Alive, Over
  <2>2. pc'[p] # "off"
    BY <1>0, <1>1
  <2>3. \A q \in Instances \ {p} : pc'[q] = pc[q] /\ todo'[q] = todo[q]
    BY <1>1, OthersKept
  <2>4. \A q \in Instances : pc[q] # "off" => pc'[q] # "off"
    BY <2>2, <2>3
  <2>5. \A q \in Instances : todo'[q] \subseteq Instances
    BY <1>1, TypeNext DEF TypeOK, Next
  <2> QED
    BY <2>1, <2>2, <2>3, <2>4, <2>5 DEF ListsOthers
<1>2. ASSUME NEW p \in Instances, Start(p) PROVE ListsOthers'
  BY <1>2 DEF Start, TypeOK, ListsOthers
<1>3. ASSUME NEW p \in Instances, Die(p) PROVE ListsOthers'
  BY <1>3 DEF Die, Forget, TypeOK, ListsOthers
<1>4. CASE UNCHANGED vars
  BY <1>4 DEF vars, ListsOthers
<1> QED
  BY <1>1, <1>2, <1>3, <1>4 DEF Next

\* The port belongs to an instance that serves.
LEMMA PortNext == AloneInv /\ [Next]_vars => PortIsServed'
<1> SUFFICES ASSUME AloneInv, [Next]_vars PROVE PortIsServed'
  OBVIOUS
<1> USE DEF AloneInv
<1>1. ASSUME NEW p \in Instances, Step(p) PROVE PortIsServed'
  BY <1>1, SingleAssumption DEF Step, TypeOK, Search, SearchFails, ExitAtLog, KillNext,
     KillFails, KillsDone, Verify, GoOn, BindFails, GiveUp, Return, Forget, PortIsServed
<1>2. ASSUME NEW p \in Instances, Start(p) PROVE PortIsServed'
  BY <1>2 DEF Start, TypeOK, PortIsServed
<1>3. ASSUME NEW p \in Instances, Die(p) PROVE PortIsServed'
  BY <1>3 DEF Die, Forget, TypeOK, PortIsServed
<1>4. CASE UNCHANGED vars
  BY <1>4 DEF vars, PortIsServed
<1> QED
  BY <1>1, <1>2, <1>3, <1>4 DEF Next

\* A step of an instance that is alone: nothing is found but itself, nobody is on
\* its list, and nobody has the port.
LEMMA AloneStep ==
  ASSUME AloneInv, NEW p \in Instances, Step(p), Alone(p)
  PROVE  /\ pc'[p] # "killed" /\ p \notin doomed'
         /\ p \notin slip' => /\ pc'[p] \notin {"refused", "ended"}
                              /\ k'[p] = 2 => ok'[p]
<1> USE DEF AloneInv
<1>1. todo[p] = {} /\ p \notin doomed /\ pc[p] # "killed"
  BY DEF Alone, ListsOthers, NobodyStopsIt, TypeOK
<1>2. p \notin slip => pc[p] # "refused" /\ (k[p] = 2 => ok[p])
  BY DEF Alone, NobodyStopsIt
<1>3. \A f, i : Found(f, i) \subseteq {p}
  BY DEF Found, Match, Alive, Over, Alone
<1>4. \A q \in Instances \ {p} : pc[q] = "off"
  BY DEF Alone
<1>5. CASE Search(p) \/ Verify(p)
  <2>1. CASE Search(p)
    BY <1>1, <1>2, <2>1 DEF Search, Return, TypeOK
  <2>2. CASE Verify(p)
    <3>1. Return(p, TRUE)
      BY <1>3, <2>2 DEF Verify
    <3> QED
      BY <1>1, <2>2, <3>1 DEF Verify, Return, TypeOK
  <2> QED
    BY <1>5, <2>1, <2>2
<1>6. CASE SearchFails(p) \/ KillFails(p)
  BY <1>1, <1>6 DEF SearchFails, KillFails, Return, TypeOK
<1>7. CASE ExitAtLog(p) \/ KillNext(p)
  BY <1>1, <1>7 DEF ExitAtLog, KillNext
<1>8. CASE KillsDone(p) \/ GoOn(p)
  BY <1>1, <1>2, <1>8 DEF KillsDone, GoOn, TypeOK
<1>9. CASE BindFails(p)
  BY <1>1, <1>4, <1>9 DEF BindFails, PortIsServed, TypeOK
<1>10. CASE GiveUp(p)
  BY <1>1, <1>2, <1>10 DEF GiveUp, Forget, TypeOK
<1> QED
  BY <1>5, <1>6, <1>7, <1>8, <1>9, <1>10 DEF Step

\* The invariant is kept: a step of another instance, or its start, ends the
\* solitude of everybody else.
LEMMA AloneNext == AloneInv /\ [Next]_vars => AloneInv'
<1> SUFFICES ASSUME AloneInv, [Next]_vars PROVE AloneInv'
  OBVIOUS
<1>0. TypeOK
  BY DEF AloneInv
<1>1. FormsInOrder'
  <2>1. ASSUME NEW p \in Instances, Step(p) PROVE FormsInOrder'
    <3>1. /\ pc'[p] # "off"
          /\ pc'[p] \in {"passed", "serving", "refused"} => k'[p] = 2
      BY <1>0, <2>1 DEF Step, TypeOK, Search, SearchFails, ExitAtLog, KillNext, KillFails,
         KillsDone, Verify, GoOn, BindFails, GiveUp, Return, Forget, Over, AloneInv,
         FormsInOrder
    <3> QED
      BY <1>0, <2>1, <3>1, OthersKept DEF AloneInv, FormsInOrder
  <2> QED
    BY <1>0, <2>1 DEF Next, Start, Die, Forget, vars, TypeOK, AloneInv, FormsInOrder
<1>2. NobodyStopsIt'
  <2>1. ASSUME NEW p \in Instances, Step(p) PROVE NobodyStopsIt'
    <3>1. pc[p] # "off" /\ pc'[p] # "off"
      BY <1>0, <2>1 DEF Step, TypeOK, Search, SearchFails, ExitAtLog, KillNext, KillFails,
         KillsDone, Verify, GoOn, BindFails, GiveUp, Return
    <3>2. ~ \E q \in Instances \ {p} : Alone(q)'
      BY <3>1 DEF Alone
    <3>3. Alone(p)' => Alone(p)
      BY <1>0, <2>1, OthersKept DEF Alone
    <3> QED
      BY <2>1, <3>2, <3>3, AloneStep DEF NobodyStopsIt
  <2>2. ASSUME NEW p \in Instances, Start(p) PROVE NobodyStopsIt'
    <3>1. pc[p] = "off" /\ k[p] = 1 /\ pc' = [pc EXCEPT ![p] = "search"]
          /\ UNCHANGED <<k, ok, doomed, slip>>
      BY <2>2 DEF Start, AloneInv, FormsInOrder
    <3>2. ~ \E q \in Instances \ {p} : Alone(q)'
      BY <1>0, <3>1 DEF Alone, TypeOK
    <3>3. Alone(p)' => Alone(p)
      BY <1>0, <3>1 DEF Alone, TypeOK
    <3> QED
      BY <1>0, <3>1, <3>2, <3>3 DEF AloneInv, NobodyStopsIt, TypeOK
  <2>3. ASSUME NEW p \in Instances, Die(p) PROVE NobodyStopsIt'
    <3>1. pc' = [pc EXCEPT ![p] = "killed"] /\ p \in doomed
      BY <2>3 DEF Die
    <3>2. ~ \E q \in Instances \ {p} : Alone(q)'
      BY <1>0, <3>1 DEF Alone, TypeOK
    <3>3. ~ Alone(p)'
      BY <1>0, <3>1 DEF Alone, TypeOK, AloneInv, NobodyStopsIt
    <3> QED
      BY <3>2, <3>3 DEF NobodyStopsIt
  <2>4. CASE UNCHANGED vars
    BY <2>4 DEF vars, AloneInv, NobodyStopsIt, Alone
  <2> QED
    BY <2>1, <2>2, <2>3, <2>4 DEF Next
<1> QED
  BY <1>1, <1>2, TypeNext, ListsOthersNext, PortNext DEF AloneInv

\* An instance that is alone is not stopped by its own check.
THEOREM AloneGoesOn == Spec => []NotStoppedAlone
<1>1. Init => AloneInv
  BY DEF Init, AloneInv, TypeOK, ListsOthers, PortIsServed, FormsInOrder, NobodyStopsIt,
     Over
<1>2. AloneInv => NotStoppedAlone
  BY DEF AloneInv, NobodyStopsIt, NotStoppedAlone, Alone
<1> QED
  BY <1>1, <1>2, AloneNext, PTL DEF Spec
=============================================================================
