------------------------------ MODULE WireProofs ------------------------------
(***************************************************************************)
(* What holds of Wire for every base, every set of files and texts, and a   *)
(* kernel buffer of any size: the stream is clean between messages, and the *)
(* connection implements the MessageQueue, in whatever pieces it is written *)
(* and read, and whoever dies when.                                         *)
(*                                                                          *)
(* The proof follows the whole stream: the units T of all messages sent, cut *)
(* into their fields F.  Writer, kernel and reader are at places of it.      *)
(***************************************************************************)
EXTENDS Wire, NumberLemmas, SequenceTheorems

-----------------------------------------------------------------------------
(* Numbers of two units.                                                     *)

\* What Base * Base - 1 is good for.
LEMMA UMaxType == UMax \in Nat /\ UMax > 2 /\ Base \in Nat /\ Base > 1
<1>1. Base \in Nat /\ Base > 1
  BY WireAssumption
<1>2. Base * Base >= 2 * Base
  BY <1>1
<1>3. Base * Base \in Nat
  BY <1>1
<1> QED
  BY <1>1, <1>2, <1>3 DEF UMax

\* The quotient of a number that fits is a unit.
LEMMA HighUnit ==
  ASSUME NEW q \in Nat, q * Base <= UMax
  PROVE  q \in Unit
<1>0. Base \in Nat /\ Base > 1
  BY UMaxType
<1> SUFFICES ASSUME q >= Base PROVE FALSE
  BY <1>0 DEF Unit
<1>1. PICK k \in Nat : q = Base + k
  <2>1. q - Base \in Nat
    BY <1>0
  <2> QED
    BY <1>0, <2>1
<1>2. q * Base = Base * Base + k * Base
  BY <1>0, <1>1
<1>3. k * Base \in Nat /\ Base * Base \in Nat /\ q * Base \in Nat
  BY <1>0
<1> QED
  BY <1>2, <1>3 DEF UMax

\* A number that fits is written as two units, and read back.
LEMMA UIntRoundTrip ==
  ASSUME NEW n \in 0..UMax
  PROVE  /\ writeUInt(n) \in Seq(Unit) /\ Len(writeUInt(n)) = 2
         /\ readUInt(writeUInt(n)) = n
<1>0. Base \in Nat \ {0, 1} /\ n \in Nat /\ UMax \in Nat
  BY UMaxType
<1>1. /\ (n \div Base) * Base + (n % Base) = n
      /\ n % Base \in 0..Base - 1 /\ n \div Base \in Nat
  BY <1>0
<1>2. (n \div Base) * Base \in Nat
  BY <1>0, <1>1
<1>3. (n \div Base) * Base <= UMax
  BY <1>0, <1>1, <1>2
<1>4. n \div Base \in Unit /\ n % Base \in Unit
  BY <1>1, <1>3, HighUnit DEF Unit
<1> QED
  BY <1>1, <1>4 DEF writeUInt, readUInt

\* Any two units are a number that fits.
LEMMA ReadUIntType ==
  ASSUME NEW units \in Seq(Unit), Len(units) = 2
  PROVE  readUInt(units) \in 0..UMax
<1>0. Base \in Nat /\ Base > 1
  BY UMaxType
<1>1. units[1] \in Unit /\ units[2] \in Unit
  BY ElementOfSeq
<1>5. PICK q, r \in 0..Base - 1 : q = units[1] /\ r = units[2]
  BY <1>1 DEF Unit
<1>2. q * Base <= (Base - 1) * Base
  BY <1>0
<1>3. (Base - 1) * Base = Base * Base - Base
  BY <1>0
<1>4. q * Base \in Nat /\ Base * Base \in Nat
  BY <1>0
<1> QED
  BY <1>0, <1>2, <1>3, <1>4, <1>5 DEF readUInt, UMax

-----------------------------------------------------------------------------
(* FlattenSeq, of sequences of three.                                        *)

\* flat[i] is the concatenation of the first i sequences of s.
IsFlat(flat, s, n) == flat = [i \in 1..n |-> IF i = 1 THEN s[i] ELSE flat[i - 1] \o s[i]]

\* There is such a table.
LEMMA FlatExists ==
  ASSUME NEW s
  PROVE  \A n \in Nat : \E flat : IsFlat(flat, s, n)
<1> DEFINE T == {n \in Nat : \E flat : IsFlat(flat, s, n)}
<1>1. 0 \in T
  <2>1. PICK flat : flat = [i \in 1..0 |-> 0]
    OBVIOUS
  <2>2. IsFlat(flat, s, 0)
    BY <2>1 DEF IsFlat
  <2> QED
    BY <2>2
<1>2. ASSUME NEW n \in Nat, n \in T PROVE n + 1 \in T
  <2>1. PICK flat : IsFlat(flat, s, n)
    BY <1>2
  <2>2. PICK last : last = IF n = 0 THEN s[1] ELSE flat[n] \o s[n + 1]
    OBVIOUS
  <2>3. PICK g : g = [i \in 1..n + 1 |-> IF i = n + 1 THEN last ELSE flat[i]]
    OBVIOUS
  <2>4. \A i \in 1..n : g[i] = flat[i]
    BY <2>3
  <2>5. \A i \in 1..n + 1 : g[i] = IF i = 1 THEN s[i] ELSE g[i - 1] \o s[i]
    <3> SUFFICES ASSUME NEW i \in 1..n + 1
                 PROVE  g[i] = IF i = 1 THEN s[i] ELSE g[i - 1] \o s[i]
      OBVIOUS
    <3>1. CASE i = n + 1
      <4>1. g[i] = last /\ i - 1 = n /\ (n # 0 => g[n] = flat[n])
        BY <2>3, <2>4, <3>1
      <4> QED
        BY <2>2, <3>1, <4>1
    <3>2. CASE i \in 1..n
      <4>1. g[i] = flat[i] /\ (i # 1 => g[i - 1] = flat[i - 1])
        BY <2>4, <3>2
      <4>2. flat[i] = IF i = 1 THEN s[i] ELSE flat[i - 1] \o s[i]
        BY <2>1, <3>2 DEF IsFlat
      <4> QED
        BY <4>1, <4>2
    <3> QED
      BY <3>1, <3>2
  <2>6. IsFlat(g, s, n + 1)
    BY <2>3, <2>5 DEF IsFlat
  <2> QED
    BY <2>6
<1>3. Nat \subseteq T
  <2> HIDE DEF T
  <2> QED
    BY <1>1, <1>2, SetInduction
<1> QED
  BY <1>3

\* s is a sequence of sequences of three elements of X.
Threes(s, X) == s \in Seq(Seq(X)) /\ \A i \in 1..Len(s) : Len(s[i]) = 3

\* f is s without the inner brackets, for the first n.
IsSpread(f, s, X, n) ==
    /\ f \in Seq(X)
    /\ Len(f) = 3 * n
    /\ \A i \in 1..n : \A q \in 1..3 : f[3 * i - 3 + q] = s[i][q]

\* FlattenSeq() of them has the q-th element of the i-th at 3 * i - 3 + q.
LEMMA FlattenThrees ==
  ASSUME NEW X, NEW s, Threes(s, X)
  PROVE  IsSpread(FlattenSeq(s), s, X, Len(s))
<1>1. Len(s) \in Nat /\ s \in Seq(Seq(X))
  BY DEF Threes
<1>2. CASE Len(s) = 0
  <2>1. s = <<>> /\ FlattenSeq(s) = <<>>
    BY <1>1, <1>2 DEF FlattenSeq
  <2>2. <<>> \in Seq(X) /\ Len(<<>>) = 3 * 0
    OBVIOUS
  <2>3. \A i \in 1..0 : FALSE
    OBVIOUS
  <2> QED
    BY <1>2, <2>1, <2>2, <2>3 DEF IsSpread
<1>3. CASE Len(s) # 0
  <2>1. \E flat : IsFlat(flat, s, Len(s))
    BY <1>1, FlatExists
  <2>2. PICK flat : IsFlat(flat, s, Len(s)) /\ flat = CHOOSE f : IsFlat(f, s, Len(s))
    BY <2>1
  <2>3. FlattenSeq(s) = flat[Len(s)]
    BY <1>3, <2>2 DEF FlattenSeq, IsFlat
  <2> DEFINE T == {n \in Nat : n < Len(s) => IsSpread(flat[n + 1], s, X, n + 1)}
  <2>4. 0 \in T
    <3>1. flat[1] = s[1]
      BY <1>1, <1>3, <2>2 DEF IsFlat
    <3>2. s[1] \in Seq(X) /\ Len(s[1]) = 3
      BY <1>1, <1>3 DEF Threes
    <3> QED
      BY <3>1, <3>2 DEF IsSpread
  <2>5. ASSUME NEW n \in Nat, n \in T PROVE n + 1 \in T
    <3> SUFFICES ASSUME n + 1 < Len(s) PROVE IsSpread(flat[n + 2], s, X, n + 2)
      OBVIOUS
    <3>1. IsSpread(flat[n + 1], s, X, n + 1)
      BY <1>1, <2>5
    <3>2. flat[n + 2] = flat[n + 1] \o s[n + 2]
      <4>1. n + 2 \in 1..Len(s) /\ n + 2 # 1 /\ (n + 2) - 1 = n + 1
        BY <1>1
      <4>2. flat = [i \in 1..Len(s) |-> IF i = 1 THEN s[i] ELSE flat[i - 1] \o s[i]]
        BY <2>2 DEF IsFlat
      <4>3. flat[n + 2] = IF n + 2 = 1 THEN s[n + 2] ELSE flat[(n + 2) - 1] \o s[n + 2]
        BY <4>1, <4>2
      <4> QED
        BY <4>1, <4>3
    <3>3. s[n + 2] \in Seq(X) /\ Len(s[n + 2]) = 3
      BY <1>1 DEF Threes
    <3>4. PICK f : f = flat[n + 1]
      OBVIOUS
    <3>5. PICK t : t = s[n + 2]
      OBVIOUS
    <3>6. PICK g : g = flat[n + 2]
      OBVIOUS
    <3>7. /\ f \in Seq(X) /\ Len(f) = 3 * (n + 1) /\ t \in Seq(X) /\ Len(t) = 3 /\ g = f \o t
          /\ \A i \in 1..n + 1 : \A q \in 1..3 : f[3 * i - 3 + q] = s[i][q]
      BY <3>1, <3>2, <3>3, <3>4, <3>5, <3>6 DEF IsSpread
    <3>8. g \in Seq(X) /\ Len(g) = 3 * (n + 2)
      <4>1. g \in Seq(X) /\ Len(g) = Len(f) + Len(t)
        BY <3>7, ConcatProperties
      <4> QED
        BY <3>7, <4>1
    <3>9. ASSUME NEW i \in 1..n + 2, NEW q \in 1..3 PROVE g[3 * i - 3 + q] = s[i][q]
      <4>1. CASE i = n + 2
        <5>1. 3 * i - 3 + q = Len(f) + q
          BY <3>7, <4>1
        <5>2. g[Len(f) + q] = t[q]
          <6>0. PICK k : k = Len(f) + q
            OBVIOUS
          <6>1. k \in 1..Len(f) + Len(t) /\ ~ (k <= Len(f)) /\ k - Len(f) = q
            BY <3>7, <6>0
          <6>2. \A j \in 1..Len(f) + Len(t) :
                   (f \o t)[j] = IF j <= Len(f) THEN f[j] ELSE t[j - Len(f)]
            BY <3>7, ConcatProperties
          <6>3. (f \o t)[k] = t[q]
            BY <6>1, <6>2
          <6> QED
            BY <3>7, <6>0, <6>3
        <5> QED
          BY <3>5, <4>1, <5>1, <5>2
      <4>2. CASE i \in 1..n + 1
        <5>1. 3 * i - 3 + q \in 1..Len(f)
          <6>1. i >= 1 /\ i <= n + 1 /\ i \in Int
            BY <4>2
          <6>2. 3 * i >= 3 /\ 3 * i <= 3 * (n + 1) /\ 3 * i \in Int
            BY <6>1
          <6>3. 3 * i - 3 + q \in 1..3 * (n + 1)
            BY <6>1, <6>2
          <6> QED
            BY <3>7, <6>3
        <5>2. g[3 * i - 3 + q] = f[3 * i - 3 + q]
          BY <3>7, <5>1
        <5> QED
          BY <3>7, <4>2, <5>2
      <4> QED
        BY <4>1, <4>2
    <3> QED
      BY <3>6, <3>8, <3>9 DEF IsSpread
  <2>6. Nat \subseteq T
    <3> HIDE DEF T
    <3> QED
      BY <2>4, <2>5, SetInduction
  <2>7. Len(s) - 1 \in T
    BY <1>1, <1>3, <2>6
  <2> QED
    BY <1>1, <1>3, <2>3, <2>7
<1> QED
  BY <1>2, <1>3

-----------------------------------------------------------------------------
(* The fields of a message.                                                  *)

Field == Seq(Unit) \ {<<>>}

Name == {s \in Seq(Unit) : Len(s) < UMax}

Request == [processName : Name, monitorDuration : 0..UMax]

Configs == {c \in Seq(Request) : Len(c) <= UMax}

IsConfig(m) ==
    m.kind \in {"config", "HUP"} /\ m = [kind |-> m.kind, config |-> m.config] /\ m.config \in Configs

IsLog(m) ==
    m = [kind |-> "LOG", text |-> m.text, type |-> m.type] /\ m.text \in Name /\ m.type \in 0..1

IsAck(m) == m = [kind |-> "ACK", count |-> m.count] /\ m.count \in 0..UMax

IsMessage(m) == IsConfig(m) \/ m = [kind |-> "INT"] \/ IsLog(m) \/ IsAck(m)

\* The codes, the NUL and the letters are units.
LEMMA Units == {0, 1} \subseteq Unit /\ Seq(1..Base - 1) \subseteq Seq(Unit)
<1>1. Base \in Nat /\ Base > 1
  BY UMaxType
<1>2. {0, 1} \subseteq Unit /\ 1..Base - 1 \subseteq Unit
  BY <1>1 DEF Unit
<1>3. Seq(1..Base - 1) \subseteq Seq(Unit)
  BY <1>2, SeqMonotonic
<1> QED
  BY <1>2, <1>3

\* A field has at least one unit.
LEMMA FieldIs == \A s \in Seq(Unit) : Len(s) # 0 => s \in Field
<1> SUFFICES ASSUME NEW s \in Seq(Unit), Len(s) # 0 PROVE s \in Field
  OBVIOUS
<1>1. s # <<>>
  BY EmptySeq
<1> QED
  BY <1>1 DEF Field

\* A field is a series of units.
LEMMA FieldType == \A s \in Field : s \in Seq(Unit) /\ Len(s) \in Nat \ {0}
<1> SUFFICES ASSUME NEW s \in Field PROVE s \in Seq(Unit) /\ Len(s) \in Nat \ {0}
  OBVIOUS
<1>1. s \in Seq(Unit) /\ s # <<>>
  BY DEF Field
<1> QED
  BY <1>1, EmptySeq

\* s has this element.
IsOne(s, a) == s = <<a>> /\ Len(s) = 1 /\ s[1] = a

\* s has these elements.
IsTwo(s, a, b) == s = <<a, b>> /\ Len(s) = 2 /\ s[1] = a /\ s[2] = b

\* s has these elements.
IsThree(s, a, b, d) == s = <<a, b, d>> /\ Len(s) = 3 /\ s[1] = a /\ s[2] = b /\ s[3] = d

\* s has these elements.
IsFour(s, a, b, d, e) == s = <<a, b, d, e>> /\ Len(s) = 4 /\ s[1] = a /\ s[2] = b /\ s[3] = d /\ s[4] = e

\* Elements of X are a sequence over X: 1.
LEMMA One ==
  ASSUME NEW X, NEW a \in X
  PROVE  \E s \in Seq(X) : IsOne(s, a)
<1>1. <<a>> \in Seq(X)
  OBVIOUS
<1>2. IsOne(<<a>>, a)
  BY DEF IsOne
<1> QED
  BY <1>1, <1>2, Zenon

\* Elements of X are a sequence over X: 2.
LEMMA Two ==
  ASSUME NEW X, NEW a \in X, NEW b \in X
  PROVE  \E s \in Seq(X) : IsTwo(s, a, b)
<1>1. <<a, b>> \in Seq(X)
  OBVIOUS
<1>2. IsTwo(<<a, b>>, a, b)
  BY DEF IsTwo
<1> QED
  BY <1>1, <1>2, Zenon

\* Elements of X are a sequence over X: 3.
LEMMA Three ==
  ASSUME NEW X, NEW a \in X, NEW b \in X, NEW d \in X
  PROVE  \E s \in Seq(X) : IsThree(s, a, b, d)
<1>1. <<a, b, d>> \in Seq(X)
  OBVIOUS
<1>2. IsThree(<<a, b, d>>, a, b, d)
  BY DEF IsThree
<1> QED
  BY <1>1, <1>2, Zenon

\* Elements of X are a sequence over X: 4.
LEMMA Four ==
  ASSUME NEW X, NEW a \in X, NEW b \in X, NEW d \in X, NEW e \in X
  PROVE  \E s \in Seq(X) : IsFour(s, a, b, d, e)
<1>1. <<a, b, d, e>> \in Seq(X)
  OBVIOUS
<1>2. IsFour(<<a, b, d, e>>, a, b, d, e)
  BY DEF IsFour
<1> QED
  BY <1>1, <1>2, Zenon

\* A unit alone is a field.
LEMMA OneUnit ==
  ASSUME NEW u \in Unit
  PROVE  <<u>> \in Field /\ Len(<<u>>) = 1
<1>1. PICK s \in Seq(Unit) : IsOne(s, u)
  BY One
<1>2. Len(s) = 1 /\ s = <<u>>
  BY <1>1, Zenon DEF IsOne
<1>3. Len(s) = 1
  BY <1>2
<1>4. s \in Field
  BY <1>3, FieldIs
<1> QED
  BY <1>2, <1>4, Zenon

\* A number is a field.
LEMMA UIntField ==
  ASSUME NEW n \in 0..UMax
  PROVE  writeUInt(n) \in Field
<1>1. PICK w : w = writeUInt(n)
  OBVIOUS
<1>2. w \in Seq(Unit) /\ Len(w) = 2
  BY <1>1, UIntRoundTrip
<1>3. w \in Field
  BY <1>2, FieldIs
<1> QED
  BY <1>1, <1>3

\* Sequences of length two and one, joined.
LEMMA JoinTwoOne ==
  ASSUME NEW X, NEW s \in Seq(X), NEW t \in Seq(X), NEW v \in Seq(X),
         Len(s) = 2, Len(t) = 1, Len(v) = 3, v[1] = s[1], v[2] = s[2], v[3] = t[1]
  PROVE  s \o t = v
<1>1. PICK u : u = s \o t
  OBVIOUS
<1>2. u \in Seq(X) /\ Len(u) = 3 /\ u[1] = s[1] /\ u[2] = s[2] /\ u[3] = t[1]
  BY <1>1, ConcatProperties, SMTT(60)
<1>3. \A i \in 1..3 : u[i] = v[i]
  BY <1>2
<1>4. u = v
  BY <1>2, <1>3, SeqEqual
<1> QED
  BY <1>1, <1>4

\* Sequences of length one, two and one.
LEMMA JoinOneTwoOne ==
  ASSUME NEW X, NEW s \in Seq(X), NEW t \in Seq(X), NEW r \in Seq(X), NEW v \in Seq(X),
         Len(s) = 1, Len(t) = 2, Len(r) = 1, Len(v) = 4,
         v[1] = s[1], v[2] = t[1], v[3] = t[2], v[4] = r[1]
  PROVE  s \o t \o r = v
<1>1. PICK u : u = s \o t
  OBVIOUS
<1>2. u \in Seq(X) /\ Len(u) = 3 /\ \A i \in 1..3 : u[i] = IF i <= 1 THEN s[i] ELSE t[i - 1]
  <2>1. /\ s \o t \in Seq(X) /\ Len(s \o t) = Len(s) + Len(t)
        /\ \A i \in 1..Len(s) + Len(t) :
              (s \o t)[i] = IF i <= Len(s) THEN s[i] ELSE t[i - Len(s)]
    BY ConcatProperties
  <2>2. Len(s) = 1 /\ Len(s) + Len(t) = 3
    OBVIOUS
  <2> QED
    BY <1>1, <2>1, <2>2
<1>3. u[1] = s[1] /\ u[2] = t[1] /\ u[3] = t[2]
  BY <1>2
<1>4. PICK w : w = u \o r
  OBVIOUS
<1>5. w \in Seq(X) /\ Len(w) = 4 /\ \A i \in 1..4 : w[i] = IF i <= 3 THEN u[i] ELSE r[i - 3]
  <2>1. /\ u \o r \in Seq(X) /\ Len(u \o r) = Len(u) + Len(r)
        /\ \A i \in 1..Len(u) + Len(r) :
              (u \o r)[i] = IF i <= Len(u) THEN u[i] ELSE r[i - Len(u)]
    BY <1>2, ConcatProperties
  <2>2. Len(u) = 3 /\ Len(u) + Len(r) = 4
    BY <1>2
  <2> QED
    BY <1>4, <2>1, <2>2
<1>6. w[1] = u[1] /\ w[2] = u[2] /\ w[3] = u[3] /\ w[4] = r[1]
  BY <1>5
<1>7. \A i \in 1..4 : w[i] = v[i]
  BY <1>3, <1>6
<1>8. w = v
  BY <1>5, <1>7, SeqEqual
<1> QED
  BY <1>1, <1>4, <1>8

\* Two, joined with one.
LEMMA JoinTwo ==
  ASSUME NEW X, NEW a \in X, NEW b \in X, NEW d \in X
  PROVE  <<a, b>> \o <<d>> = <<a, b, d>>
<1>1. PICK s \in Seq(X) : IsTwo(s, a, b)
  BY Two
<1>2. PICK t \in Seq(X) : IsOne(t, d)
  BY One
<1>3. PICK v \in Seq(X) : IsThree(v, a, b, d)
  BY Three
<1>4. /\ Len(s) = 2 /\ s[1] = a /\ s[2] = b
      /\ Len(t) = 1 /\ t[1] = d
      /\ Len(v) = 3 /\ v[1] = a /\ v[2] = b /\ v[3] = d
  BY <1>1, <1>2, <1>3, Zenon DEF IsOne, IsTwo, IsThree
<1>5. s \o t = v
  BY <1>4, JoinTwoOne
<1> QED
  BY <1>1, <1>2, <1>3, <1>5, Zenon DEF IsOne, IsTwo, IsThree

\* One, two and one.
LEMMA JoinFour ==
  ASSUME NEW X, NEW a \in X, NEW b \in X, NEW d \in X, NEW e \in X
  PROVE  <<a>> \o <<b, d>> \o <<e>> = <<a, b, d, e>>
<1>1. PICK s \in Seq(X) : IsOne(s, a)
  BY One
<1>2. PICK t \in Seq(X) : IsTwo(t, b, d)
  BY Two
<1>3. PICK r \in Seq(X) : IsOne(r, e)
  BY One
<1>4. PICK v \in Seq(X) : IsFour(v, a, b, d, e)
  BY Four
<1>5. /\ Len(s) = 1 /\ s[1] = a
      /\ Len(t) = 2 /\ t[1] = b /\ t[2] = d
      /\ Len(r) = 1 /\ r[1] = e
      /\ Len(v) = 4 /\ v[1] = a /\ v[2] = b /\ v[3] = d /\ v[4] = e
  BY <1>1, <1>2, <1>3, <1>4, Zenon DEF IsOne, IsTwo, IsFour
<1>6. s \o t \o r = v
  BY <1>5, JoinOneTwoOne
<1> QED
  BY <1>1, <1>2, <1>3, <1>4, <1>6, Zenon DEF IsOne, IsTwo, IsFour

\* What the parser makes of a file that it accepts can be sent.
LEMMA ConfigType ==
  ASSUME NEW file \in Files, Usable(file)
  PROVE  Config(file) \in Configs
<1> DEFINE Word == [letters : Seq(1..Base - 1), number : Nat]
<1>1. /\ file \in Seq(Seq(Word)) /\ Len(file) <= UMax
      /\ \A i \in DOMAIN file : \A j \in DOMAIN file[i] : Len(file[i][j].letters) < UMax
      /\ \A i \in DOMAIN file : Parses(file[i])
  BY WireAssumption DEF Usable
<1>2. PICK n \in Nat : n = Len(file) /\ DOMAIN file = 1..n
  BY <1>1
<1>3. ASSUME NEW i \in 1..n PROVE constructMonitorRequest(file[i]) \in Request
  <2>1. PICK line \in Seq(Word) : line = file[i]
    BY <1>1, <1>2
  <2>2. Len(line) >= 2 /\ line[2].number <= UMax
    BY <1>1, <1>2, <2>1 DEF Parses
  <2>3. line[1] \in Word /\ line[2] \in Word /\ 1 \in DOMAIN line
    <3> HIDE DEF Word
    <3>1. Len(line) \in Nat /\ 1 \in 1..Len(line) /\ 2 \in 1..Len(line) /\ DOMAIN line = 1..Len(line)
      BY <2>2, LenProperties
    <3> QED
      BY <3>1, ElementOfSeq
  <2>4. line[1].letters \in Seq(Unit) /\ Len(line[1].letters) < UMax
    BY <1>1, <1>2, <2>1, <2>3, Units
  <2>5. line[2].number \in 0..UMax
    BY <2>2, <2>3, UMaxType
  <2> QED
    BY <2>1, <2>4, <2>5 DEF constructMonitorRequest, Request, Name
<1>4. PICK c : c = [i \in 1..n |-> constructMonitorRequest(file[i])]
  OBVIOUS
<1>5. c \in Seq(Request) /\ Len(c) = n
  <2>1. c \in [1..n -> Request]
    BY <1>3, <1>4
  <2> QED
    BY <2>1
<1> QED
  BY <1>1, <1>2, <1>4, <1>5 DEF Config, Configs

\* Every message that may be sent has one of these forms.
LEMMA MessageShape ==
  ASSUME NEW m \in Messages
  PROVE  IsMessage(m)
<1>1. CASE m \in [kind : {"config", "HUP"}, config : {Config(f) : f \in {g \in Files : Usable(g)}}]
  <2>1. /\ m.kind \in {"config", "HUP"} /\ m = [kind |-> m.kind, config |-> m.config]
        /\ m.config \in {Config(f) : f \in {g \in Files : Usable(g)}}
    BY <1>1
  <2>2. m.config \in Configs
    BY <2>1, ConfigType
  <2> QED
    BY <2>1, <2>2 DEF IsMessage, IsConfig
<1>2. CASE m \in [kind : {"INT"}]
  BY <1>2 DEF IsMessage
<1>3. CASE m \in [kind : {"LOG"}, text : Texts, type : 0..1]
  <2>1. /\ m = [kind |-> "LOG", text |-> m.text, type |-> m.type]
        /\ m.text \in Texts /\ m.type \in 0..1
    BY <1>3
  <2>2. m.text \in Name
    BY <2>1, WireAssumption, Units DEF Name
  <2> QED
    BY <2>1, <2>2 DEF IsMessage, IsLog
<1>4. CASE m \in [kind : {"ACK"}, count : {0, UMax}]
  BY <1>4, UMaxType DEF IsMessage, IsAck
<1> QED
  BY <1>1, <1>2, <1>3, <1>4 DEF Messages

\* A string is its length and its letters with the NUL.
LEMMA StringIs ==
  ASSUME NEW s \in Name
  PROVE  /\ writeString(s) = <<writeUInt(Len(s) + 1), s \o <<0>>>>
         /\ writeUInt(Len(s) + 1) \in Field /\ Len(writeUInt(Len(s) + 1)) = 2
         /\ readUInt(writeUInt(Len(s) + 1)) = Len(s) + 1
         /\ s \o <<0>> \in Field /\ Len(s \o <<0>>) = Len(s) + 1
         /\ Letters(s \o <<0>>) = s
         /\ Len(s) \in Nat
<1>1. s \in Seq(Unit) /\ Len(s) \in Nat /\ Len(s) + 1 \in 0..UMax
  BY UMaxType DEF Name
<1>2. PICK z : z = <<0>>
  OBVIOUS
<1>3. z \in Seq(Unit) /\ Len(z) = 1
  BY <1>2, Units
<1>4. PICK t : t = s \o z
  OBVIOUS
<1>5. t \in Seq(Unit) /\ Len(t) = Len(s) + 1 /\ \A i \in 1..Len(s) : t[i] = s[i]
  BY <1>1, <1>3, <1>4, ConcatProperties, SMTT(60)
<1>6. SubSeq(t, 1, Len(t) - 1) = s
  <2>1. \A i \in 1..Len(s) : t[i] \in Unit
    BY <1>5
  <2>2. PICK u : u = SubSeq(t, 1, Len(s))
    OBVIOUS
  <2>3. u \in Seq(Unit) /\ Len(u) = Len(s) /\ \A i \in 1..Len(s) : u[i] = t[i]
    BY <1>1, <1>5, <2>1, <2>2
  <2> QED
    BY <1>1, <1>5, <2>2, <2>3, SeqEqual
<1>7. Letters(t) = s
  BY <1>6 DEF Letters, Front
<1>8. writeUInt(Len(s) + 1) \in Field /\ t \in Field
  <2>1. t \in Field
    BY <1>1, <1>5, FieldIs
  <2>2. PICK w : w = writeUInt(Len(s) + 1)
    OBVIOUS
  <2>3. w \in Seq(Unit) /\ Len(w) = 2
    BY <1>1, <2>2, UIntRoundTrip
  <2>4. w \in Field
    BY <2>3, FieldIs
  <2> QED
    BY <2>1, <2>2, <2>4
<1> QED
  BY <1>1, <1>2, <1>4, <1>5, <1>7, <1>8, UIntRoundTrip DEF writeString

\* The three fields of a request.
RequestFields(r) == <<writeUInt(Len(r.processName) + 1), r.processName \o <<0>>, writeUInt(r.monitorDuration)>>

\* HUP sends its type before the configuration.
Lead(m) == IF m.kind = "HUP" THEN 1 ELSE 0

\* G is m with its type, its length and its requests.
Carries(m, G) ==
    /\ G \in Seq(Field)
    /\ Len(G) = Lead(m) + 3 * Len(m.config) + 1
    /\ m.kind = "HUP" => G[1] = <<HUP>>
    /\ G[Lead(m) + 1] = writeUInt(Len(m.config))
    /\ \A i \in 1..Len(m.config) : \A q \in 1..3 :
          G[Lead(m) + 3 * i - 2 + q] = RequestFields(m.config[i])[q]

\* sendConfig() writes the length and three fields for each request.
LEMMA SendConfigIs ==
  ASSUME NEW c \in Configs
  PROVE  LET G == sendConfig(c)
         IN  /\ G \in Seq(Field)
             /\ Len(G) = 3 * Len(c) + 1
             /\ G[1] = writeUInt(Len(c))
             /\ \A i \in 1..Len(c) : \A q \in 1..3 :
                   G[3 * i - 2 + q] = RequestFields(c[i])[q]
<1>1. PICK n \in 0..UMax : n = Len(c)
  BY DEF Configs
<1>2. c \in Seq(Request) /\ n \in Nat /\ Len(c) = n /\ DOMAIN c = 1..n
  BY <1>1, UMaxType DEF Configs
<1>3. PICK s : s = [i \in 1..n |-> RequestFields(c[i])]
  OBVIOUS
<1>4. ASSUME NEW i \in 1..n
      PROVE  /\ writeString(c[i].processName) \o <<writeUInt(c[i].monitorDuration)>> = RequestFields(c[i])
             /\ RequestFields(c[i]) \in Seq(Field) /\ Len(RequestFields(c[i])) = 3
  <2>1. PICK r \in Request : r = c[i]
    BY <1>2
  <2>2. r.processName \in Name /\ r.monitorDuration \in 0..UMax
    BY DEF Request
  <2>3. PICK a, b, d \in Field : /\ a = writeUInt(Len(r.processName) + 1)
                                 /\ b = r.processName \o <<0>>
                                 /\ d = writeUInt(r.monitorDuration)
    <3>1. writeUInt(r.monitorDuration) \in Field
      BY <2>2, UIntField
    <3> QED
      BY <2>2, <3>1, StringIs
  <2>4. writeString(r.processName) = <<a, b>>
    BY <2>2, <2>3, StringIs
  <2>5. <<a, b>> \o <<d>> = <<a, b, d>>
    BY JoinTwo
  <2>6. <<a, b, d>> \in Seq(Field) /\ Len(<<a, b, d>>) = 3
    OBVIOUS
  <2>7. RequestFields(c[i]) = <<a, b, d>>
    BY <2>1, <2>3 DEF RequestFields
  <2> QED
    BY <2>1, <2>3, <2>4, <2>5, <2>6, <2>7
<1>5. s = [i \in DOMAIN c |-> writeString(c[i].processName) \o <<writeUInt(c[i].monitorDuration)>>]
  BY <1>2, <1>3, <1>4
<1>6. s \in Seq(Seq(Field)) /\ Len(s) = n
  <2>1. s \in [1..n -> Seq(Field)]
    BY <1>3, <1>4
  <2> QED
    BY <1>2, <1>3, <2>1
<1>7. Threes(s, Field)
  BY <1>3, <1>4, <1>6 DEF Threes
<1>8. PICK f : f = FlattenSeq(s)
  OBVIOUS
<1>9. /\ f \in Seq(Field) /\ Len(f) = 3 * n
      /\ \A i \in 1..n : \A q \in 1..3 : f[3 * i - 3 + q] = s[i][q]
  <2>1. IsSpread(f, s, Field, n)
    BY <1>6, <1>7, <1>8, FlattenThrees
  <2> QED
    BY <2>1 DEF IsSpread
<1>10. PICK h : h = <<writeUInt(n)>>
  OBVIOUS
<1>11. h \in Seq(Field) /\ Len(h) = 1 /\ h[1] = writeUInt(n)
  BY <1>10, UIntRoundTrip DEF Field
<1>12. PICK G : G = h \o f
  OBVIOUS
<1>13. sendConfig(c) = G
  BY <1>1, <1>5, <1>8, <1>10, <1>12 DEF sendConfig
<1>14. /\ G \in Seq(Field) /\ Len(G) = 1 + 3 * n
       /\ \A k \in 1..1 + 3 * n : G[k] = IF k <= 1 THEN h[k] ELSE f[k - 1]
  <2>1. h \in Seq(Field) /\ f \in Seq(Field)
    BY <1>9, <1>11
  <2>2. /\ h \o f \in Seq(Field) /\ Len(h \o f) = Len(h) + Len(f)
        /\ \A k \in 1..Len(h) + Len(f) : (h \o f)[k] = IF k <= Len(h) THEN h[k] ELSE f[k - Len(h)]
    BY <2>1, ConcatProperties
  <2> QED
    BY <1>9, <1>11, <1>12, <2>2
<1>15. ASSUME NEW i \in 1..n, NEW q \in 1..3
       PROVE  G[3 * i - 2 + q] = RequestFields(c[i])[q]
  <2>1. 3 * i >= 3 /\ 3 * i <= 3 * n /\ 3 * i \in Int
    OBVIOUS
  <2>2. PICK k : k = 3 * i - 2 + q
    OBVIOUS
  <2>3. k \in 1..1 + 3 * n /\ ~ (k <= 1) /\ k - 1 = 3 * i - 3 + q
    BY <2>1, <2>2
  <2>4. G[k] = f[3 * i - 3 + q]
    BY <1>14, <2>3
  <2> QED
    BY <1>3, <1>9, <2>2, <2>4
<1>16. G[1] = writeUInt(n) /\ 3 * n \in Nat
  BY <1>2, <1>11, <1>14
<1> QED
  BY <1>1, <1>13, <1>14, <1>15, <1>16

\* A configuration is written like this, alone or with HUP.
LEMMA ConfigFieldsIs ==
  ASSUME NEW m, IsConfig(m)
  PROVE  Carries(m, FieldsOf(m))
<1>1. PICK c \in Configs : c = m.config
  BY DEF IsConfig
<1>2. PICK n \in Nat : n = Len(c)
  BY DEF Configs
<1>3. PICK G : G = sendConfig(c)
  OBVIOUS
<1>4. /\ G \in Seq(Field) /\ Len(G) = 3 * n + 1 /\ G[1] = writeUInt(n)
      /\ \A i \in 1..n : \A q \in 1..3 : G[3 * i - 2 + q] = RequestFields(c[i])[q]
  BY <1>2, <1>3, SendConfigIs
<1>5. CASE m.kind = "config"
  <2>1. FieldsOf(m) = G
    BY <1>1, <1>3, <1>5 DEF FieldsOf
  <2>2. Lead(m) = 0
    BY <1>5 DEF Lead
  <2>3. ASSUME NEW i \in 1..n, NEW q \in 1..3
        PROVE  G[0 + 3 * i - 2 + q] = RequestFields(c[i])[q]
    <3>1. 0 + 3 * i - 2 + q = 3 * i - 2 + q
      OBVIOUS
    <3> QED
      BY <1>4, <3>1
  <2>4. Len(G) = 0 + 3 * n + 1 /\ G[0 + 1] = writeUInt(n)
    BY <1>4
  <2> QED
    BY <1>1, <1>2, <1>4, <1>5, <2>1, <2>2, <2>3, <2>4 DEF Carries
<1>6. CASE m.kind = "HUP"
  <2>1. FieldsOf(m) = <<<<HUP>>>> \o G
    BY <1>1, <1>3, <1>6 DEF FieldsOf
  <2>2. PICK h : h = <<<<HUP>>>>
    OBVIOUS
  <2>3. h \in Seq(Field) /\ Len(h) = 1 /\ h[1] = <<HUP>>
    BY <2>2, Units DEF HUP, Field
  <2>4. PICK H : H = h \o G
    OBVIOUS
  <2>5. /\ H \in Seq(Field) /\ Len(H) = 1 + (3 * n + 1)
        /\ \A k \in 1..1 + (3 * n + 1) : H[k] = IF k <= 1 THEN h[k] ELSE G[k - 1]
    <3>1. h \in Seq(Field) /\ G \in Seq(Field)
      BY <1>4, <2>3
    <3>2. /\ h \o G \in Seq(Field) /\ Len(h \o G) = Len(h) + Len(G)
          /\ \A k \in 1..Len(h) + Len(G) : (h \o G)[k] = IF k <= Len(h) THEN h[k] ELSE G[k - Len(h)]
      BY <3>1, ConcatProperties
    <3> QED
      BY <1>4, <2>3, <2>4, <3>2
  <2>6. H[1] = <<HUP>> /\ H[2] = writeUInt(n)
    <3>1. 3 * n \in Nat
      OBVIOUS
    <3> QED
      BY <1>4, <2>3, <2>5, <3>1
  <2>7. ASSUME NEW i \in 1..n, NEW q \in 1..3
        PROVE  H[1 + 3 * i - 2 + q] = RequestFields(c[i])[q]
    <3>1. 3 * i >= 3 /\ 3 * i <= 3 * n /\ 3 * i \in Int
      OBVIOUS
    <3>2. PICK k : k = 1 + 3 * i - 2 + q
      OBVIOUS
    <3>3. k \in 1..1 + (3 * n + 1) /\ ~ (k <= 1) /\ k - 1 = 3 * i - 2 + q
      BY <3>1, <3>2
    <3>4. H[k] = G[3 * i - 2 + q]
      BY <2>5, <3>3
    <3> QED
      BY <1>4, <3>2, <3>4
  <2>8. Lead(m) = 1
    BY <1>6 DEF Lead
  <2>9. Len(H) = 1 + 3 * n + 1 /\ H[1 + 1] = writeUInt(n)
    BY <2>5, <2>6
  <2> QED
    BY <1>1, <1>2, <1>6, <2>1, <2>2, <2>4, <2>5, <2>6, <2>7, <2>8, <2>9 DEF Carries
<1> QED
  BY <1>5, <1>6 DEF IsConfig

\* The other messages.
LEMMA OtherFieldsIs ==
  ASSUME NEW m, IsMessage(m), ~ IsConfig(m)
  PROVE  /\ FieldsOf(m) \in Seq(Field)
         /\ m = [kind |-> "INT"] => FieldsOf(m) = <<<<INT>>>>
         /\ IsLog(m) => FieldsOf(m) = <<<<LOG_MESSAGE>>, writeUInt(Len(m.text) + 1),
                                        m.text \o <<0>>, <<m.type>>>>
         /\ IsAck(m) => FieldsOf(m) = <<<<INT_ACK>>, writeUInt(m.count)>>
<1>1. CASE m = [kind |-> "INT"]
  <2>1. FieldsOf(m) = <<<<INT>>>> /\ ~ IsLog(m) /\ ~ IsAck(m)
    BY <1>1 DEF FieldsOf, IsLog, IsAck
  <2>2. <<INT>> \in Field
    BY Units DEF INT, Field
  <2> QED
    BY <2>1, <2>2
<1>2. CASE IsLog(m)
  <2>1. m.kind = "LOG" /\ m.text \in Name /\ m.type \in 0..1
    BY <1>2 DEF IsLog
  <2>2. PICK a, b, d \in Field : /\ a = writeUInt(Len(m.text) + 1)
                                 /\ b = m.text \o <<0>>
                                 /\ d = <<m.type>>
    <3>1. <<m.type>> \in Field
      <4>1. m.type \in Unit
        BY <2>1, Units
      <4> QED
        BY <4>1, OneUnit
    <3> QED
      BY <2>1, <3>1, StringIs
  <2>3. PICK e \in Field : e = <<LOG_MESSAGE>>
    BY Units, OneUnit DEF LOG_MESSAGE
  <2>4. FieldsOf(m) = <<e>> \o <<a, b>> \o <<d>>
    BY <2>1, <2>2, <2>3, StringIs DEF FieldsOf
  <2>5. <<e>> \o <<a, b>> \o <<d>> = <<e, a, b, d>>
    BY JoinFour
  <2>6. ~ IsAck(m) /\ m # [kind |-> "INT"]
    BY <2>1 DEF IsAck
  <2>7. <<e, a, b, d>> \in Seq(Field)
    OBVIOUS
  <2>8. FieldsOf(m) \in Seq(Field)
    BY <2>4, <2>5, <2>7
  <2>9. FieldsOf(m) = <<<<LOG_MESSAGE>>, writeUInt(Len(m.text) + 1), m.text \o <<0>>, <<m.type>>>>
    BY <2>2, <2>3, <2>4, <2>5
  <2> QED
    BY <2>6, <2>8, <2>9
<1>3. CASE IsAck(m)
  <2>1. m.kind = "ACK" /\ m.count \in 0..UMax
    BY <1>3 DEF IsAck
  <2>2. FieldsOf(m) = <<<<INT_ACK>>, writeUInt(m.count)>>
    BY <2>1 DEF FieldsOf
  <2>3. <<INT_ACK>> \in Field /\ writeUInt(m.count) \in Field
    BY <2>1, Units, OneUnit, UIntField DEF INT_ACK
  <2>4. ~ IsLog(m) /\ m # [kind |-> "INT"]
    BY <2>1 DEF IsLog
  <2> QED
    BY <2>2, <2>3, <2>4
<1> QED
  BY <1>1, <1>2, <1>3 DEF IsMessage

-----------------------------------------------------------------------------
(* A sequence cut into pieces.                                               *)

\* The elements of t after the first a, up to the b-th.
Slice(t, a, b) == SubSeq(t, a + 1, b)

\* t2 begins with t.
Extends(t2, t) == Len(t) <= Len(t2) /\ \A i \in 1..Len(t) : t2[i] = t[i]

\* What a slice is.
LEMMA SliceIs ==
  ASSUME NEW X, NEW t \in Seq(X), NEW a \in Nat, NEW b \in Nat, a <= b, b <= Len(t)
  PROVE  /\ Slice(t, a, b) \in Seq(X) /\ Len(Slice(t, a, b)) = b - a
         /\ \A i \in 1..b - a : Slice(t, a, b)[i] = t[a + i]
<1>1. a + 1 \in Int /\ b \in Int /\ Len(t) \in Nat
  OBVIOUS
<1>2. \A i \in a + 1..b : t[i] \in X
  BY <1>1
<1>3. /\ SubSeq(t, a + 1, b) \in Seq(X)
      /\ Len(SubSeq(t, a + 1, b)) = IF a + 1 <= b THEN b - (a + 1) + 1 ELSE 0
      /\ \A i \in 1..b - (a + 1) + 1 : SubSeq(t, a + 1, b)[i] = t[a + 1 + i - 1]
  BY <1>1, <1>2, SubSeqProperties
<1>4. b - (a + 1) + 1 = b - a /\ \A i \in 1..b - a : a + 1 + i - 1 = a + i
  OBVIOUS
<1>5. (IF a + 1 <= b THEN b - (a + 1) + 1 ELSE 0) = b - a
  OBVIOUS
<1> QED
  BY <1>3, <1>4, <1>5 DEF Slice

\* The first ones.
LEMMA PrefixIs ==
  ASSUME NEW X, NEW t \in Seq(X), NEW b \in Nat, b <= Len(t)
  PROVE  /\ Slice(t, 0, b) \in Seq(X) /\ Len(Slice(t, 0, b)) = b
         /\ \A i \in 1..b : Slice(t, 0, b)[i] = t[i]
<1>1. PICK a \in Nat : a = 0
  OBVIOUS
<1>2. a <= b
  BY <1>1
<1>3. /\ Slice(t, a, b) \in Seq(X) /\ Len(Slice(t, a, b)) = b - a
      /\ \A i \in 1..b - a : Slice(t, a, b)[i] = t[a + i]
  BY <1>2, SliceIs
<1> QED
  BY <1>1, <1>3

\* Slices that meet make a longer one.
LEMMA SliceJoin ==
  ASSUME NEW X, NEW t \in Seq(X), NEW a \in Nat, NEW b \in Nat, NEW c \in Nat,
         a <= b, b <= c, c <= Len(t)
  PROVE  Slice(t, a, b) \o Slice(t, b, c) = Slice(t, a, c)
<1>1. PICK m : m = a + 1
  OBVIOUS
<1>2. m \in 1..Len(t) + 1 /\ b \in m - 1..Len(t) /\ c \in b..Len(t)
  BY <1>1
<1>3. SubSeq(t, m, b) \o SubSeq(t, b + 1, c) = SubSeq(t, m, c)
  BY <1>2, ConcatAdjacentSubSeq
<1> QED
  BY <1>1, <1>3 DEF Slice

\* A slice of a slice is a slice.
LEMMA SliceOfSlice ==
  ASSUME NEW X, NEW t \in Seq(X), NEW a \in Nat, NEW b \in Nat, a <= b, b <= Len(t),
         NEW i \in Nat, NEW j \in Nat, i <= j, j <= b - a
  PROVE  Slice(Slice(t, a, b), i, j) = Slice(t, a + i, a + j)
<1>1. PICK s : s = Slice(t, a, b)
  OBVIOUS
<1>2. s \in Seq(X) /\ Len(s) = b - a /\ \A k \in 1..b - a : s[k] = t[a + k]
  BY <1>1, SliceIs
<1>3. PICK u : u = Slice(s, i, j)
  OBVIOUS
<1>4. u \in Seq(X) /\ Len(u) = j - i /\ \A k \in 1..j - i : u[k] = s[i + k]
  <2>1. s \in Seq(X) /\ j <= Len(s)
    BY <1>2
  <2>2. /\ Slice(s, i, j) \in Seq(X) /\ Len(Slice(s, i, j)) = j - i
        /\ \A k \in 1..j - i : Slice(s, i, j)[k] = s[i + k]
    BY <2>1, SliceIs
  <2> QED
    BY <1>3, <2>2
<1>5. PICK v : v = Slice(t, a + i, a + j)
  OBVIOUS
<1>6. v \in Seq(X) /\ Len(v) = (a + j) - (a + i) /\ \A k \in 1..(a + j) - (a + i) : v[k] = t[(a + i) + k]
  <2>1. a + i \in Nat /\ a + j \in Nat /\ a + i <= a + j /\ a + j <= Len(t)
    OBVIOUS
  <2> QED
    BY <1>5, <2>1, SliceIs, ZenonT(60)
<1>7. (a + j) - (a + i) = j - i
  OBVIOUS
<1>8. ASSUME NEW k \in 1..j - i PROVE u[k] = v[k]
  <2>1. i + k \in 1..b - a /\ a + (i + k) = (a + i) + k
    OBVIOUS
  <2> QED
    BY <1>2, <1>4, <1>6, <1>7, <2>1
<1>9. u = v
  BY <1>4, <1>6, <1>7, <1>8, SeqEqual
<1> QED
  BY <1>1, <1>3, <1>5, <1>9

\* What is appended does not change it.
LEMMA SliceSame ==
  ASSUME NEW X, NEW t \in Seq(X), NEW t2 \in Seq(X), Extends(t2, t),
         NEW a \in Nat, NEW b \in Nat, a <= b, b <= Len(t)
  PROVE  Slice(t2, a, b) = Slice(t, a, b)
<1>1. Len(t) <= Len(t2) /\ b <= Len(t2) /\ \A i \in 1..Len(t) : t2[i] = t[i]
  BY DEF Extends
<1>2. PICK s : s = Slice(t, a, b)
  OBVIOUS
<1>3. PICK s2 : s2 = Slice(t2, a, b)
  OBVIOUS
<1>4. s \in Seq(X) /\ Len(s) = b - a /\ \A i \in 1..b - a : s[i] = t[a + i]
  BY <1>2, SliceIs
<1>5. s2 \in Seq(X) /\ Len(s2) = b - a /\ \A i \in 1..b - a : s2[i] = t2[a + i]
  <2>1. b <= Len(t2)
    BY <1>1
  <2>2. /\ Slice(t2, a, b) \in Seq(X) /\ Len(Slice(t2, a, b)) = b - a
        /\ \A i \in 1..b - a : Slice(t2, a, b)[i] = t2[a + i]
    BY <2>1, SliceIs
  <2> QED
    BY <1>3, <2>2
<1>6. \A i \in 1..b - a : s2[i] = s[i]
  BY <1>1, <1>4, <1>5
<1>7. s2 = s
  BY <1>4, <1>5, <1>6, SeqEqual
<1> QED
  BY <1>2, <1>3, <1>7

\* Pieces of a sequence over X.
Piece(X) == Seq(X) \ {<<>>}

\* P[j] is what t has between off[j] and off[j + 1].
IsCut(P, off, t, j) == off[j + 1] = off[j] + Len(P[j]) /\ P[j] = Slice(t, off[j], off[j + 1])

\* t is P without the inner brackets; off[j] elements come before P[j].
Layout(X, P, off, t) ==
    /\ P \in Seq(Piece(X)) /\ t \in Seq(X)
    /\ off \in [1..Len(P) + 1 -> 0..Len(t)] /\ off[1] = 0 /\ off[Len(P) + 1] = Len(t)
    /\ \A j \in 1..Len(P) : IsCut(P, off, t, j)

\* The layout of Q continues that of P.
Continues(X, Q, off2, t2, P, off, t) ==
    /\ Layout(X, Q, off2, t2)
    /\ Extends(t2, t)
    /\ \A i \in 1..Len(P) + 1 : off2[i] = off[i]

\* One more piece.
LEMMA AppendPiece ==
  ASSUME NEW X, NEW P, NEW off, NEW t, Layout(X, P, off, t), NEW e \in Piece(X)
  PROVE  \E off2 : Continues(X, Append(P, e), off2, t \o e, P, off, t)
<1>1. /\ P \in Seq(Piece(X)) /\ t \in Seq(X) /\ Len(P) \in Nat /\ Len(t) \in Nat
      /\ off \in [1..Len(P) + 1 -> 0..Len(t)] /\ off[1] = 0 /\ off[Len(P) + 1] = Len(t)
      /\ \A j \in 1..Len(P) : IsCut(P, off, t, j)
  BY DEF Layout
<1>2. e \in Seq(X) /\ Len(e) \in Nat
  BY DEF Piece
<1>3. PICK n \in Nat : n = Len(P)
  BY <1>1
<1>4. PICK Q : Q = Append(P, e)
  OBVIOUS
<1>5. Q \in Seq(Piece(X)) /\ Len(Q) = n + 1 /\ Q[n + 1] = e /\ \A j \in 1..n : Q[j] = P[j]
  BY <1>1, <1>3, <1>4, AppendProperties
<1>6. PICK u : u = t \o e
  OBVIOUS
<1>7. /\ u \in Seq(X) /\ Len(u) = Len(t) + Len(e)
      /\ \A i \in 1..Len(t) + Len(e) : u[i] = IF i <= Len(t) THEN t[i] ELSE e[i - Len(t)]
  BY <1>1, <1>2, <1>6, ConcatProperties
<1>8. Extends(u, t)
  BY <1>1, <1>2, <1>7 DEF Extends
<1>9. PICK off2 : off2 = [i \in 1..n + 2 |-> IF i = n + 2 THEN Len(u) ELSE off[i]]
  OBVIOUS
<1>10. \A i \in 1..n + 1 : off2[i] = off[i]
  BY <1>9
<1>11. off2[n + 2] = Len(u)
  BY <1>9
<1>12. off2 \in [1..Len(Q) + 1 -> 0..Len(u)] /\ off2[1] = 0 /\ off2[Len(Q) + 1] = Len(u)
  <2>0. Len(u) \in Nat /\ Len(t) <= Len(u)
    BY <1>1, <1>2, <1>7
  <2>1. ASSUME NEW i \in 1..n + 2 PROVE off2[i] \in 0..Len(u)
    <3>1. CASE i = n + 2
      BY <1>11, <2>0, <3>1
    <3>2. CASE i \in 1..n + 1
      <4>1. off[i] \in 0..Len(t)
        BY <1>1, <1>3, <3>2
      <4> QED
        BY <1>1, <1>10, <2>0, <3>2, <4>1
    <3> QED
      BY <3>1, <3>2
  <2>2. off2 \in [1..n + 2 -> 0..Len(u)]
    BY <1>9, <2>1
  <2> QED
    BY <1>1, <1>3, <1>5, <1>10, <1>11, <2>2
<1>13. ASSUME NEW j \in 1..n + 1 PROVE IsCut(Q, off2, u, j)
  <2>1. CASE j \in 1..n
    <3>1. IsCut(P, off, t, j) /\ off2[j] = off[j] /\ off2[j + 1] = off[j + 1] /\ Q[j] = P[j]
      BY <1>1, <1>3, <1>5, <1>10, <2>1
    <3>2. P[j] \in Seq(X) /\ Len(P[j]) \in Nat
      BY <1>1, <1>3, <2>1 DEF Piece
    <3>3. PICK a, b \in Nat : a = off[j] /\ b = off[j + 1] /\ b <= Len(t)
      BY <1>1, <1>3, <2>1, SMTT(60)
    <3>4. a <= b
      BY <3>1, <3>2, <3>3 DEF IsCut
    <3>5. Slice(u, a, b) = Slice(t, a, b)
      BY <1>1, <1>7, <1>8, <3>3, <3>4, SliceSame
    <3> QED
      BY <3>1, <3>3, <3>5 DEF IsCut
  <2>2. CASE j = n + 1
    <3>1. off2[j] = Len(t) /\ off2[j + 1] = Len(u) /\ Q[j] = e
      BY <1>1, <1>3, <1>5, <1>10, <1>11, <2>2
    <3>2. PICK s : s = Slice(u, Len(t), Len(u))
      OBVIOUS
    <3>3. /\ s \in Seq(X) /\ Len(s) = Len(u) - Len(t)
          /\ \A i \in 1..Len(u) - Len(t) : s[i] = u[Len(t) + i]
      <4>1. PICK a, b \in Nat : a = Len(t) /\ b = Len(u) /\ a <= b
        BY <1>1, <1>2, <1>7
      <4>2. /\ Slice(u, a, b) \in Seq(X) /\ Len(Slice(u, a, b)) = b - a
            /\ \A i \in 1..b - a : Slice(u, a, b)[i] = u[a + i]
        <5>1. u \in Seq(X) /\ b <= Len(u)
          BY <1>7, <4>1
        <5>2. a <= b
          BY <4>1
        <5> QED
          BY <5>1, <5>2, SliceIs
      <4> QED
        BY <3>2, <4>1, <4>2
    <3>4. ASSUME NEW i \in 1..Len(e) PROVE s[i] = e[i]
      <4>1. PICK k : k = Len(t) + i
        OBVIOUS
      <4>2. k \in 1..Len(t) + Len(e) /\ ~ (k <= Len(t)) /\ k - Len(t) = i
        BY <1>1, <1>2, <4>1
      <4>3. u[k] = e[i]
        BY <1>7, <4>2
      <4>4. i \in 1..Len(u) - Len(t)
        BY <1>1, <1>2, <1>7
      <4>5. s[i] = u[Len(t) + i]
        BY <3>3, <4>4
      <4> QED
        BY <4>1, <4>3, <4>5
    <3>5. Len(s) = Len(e)
      BY <1>1, <1>2, <1>7, <3>3
    <3>6. s = e
      BY <1>2, <3>3, <3>4, <3>5, SeqEqual
    <3> QED
      BY <1>7, <3>1, <3>2, <3>6 DEF IsCut
  <2> QED
    BY <2>1, <2>2
<1>14. Layout(X, Q, off2, u)
  BY <1>5, <1>7, <1>12, <1>13 DEF Layout
<1> QED
  BY <1>3, <1>4, <1>6, <1>8, <1>10, <1>14 DEF Continues

\* Any number of them.
LEMMA AppendPieces ==
  ASSUME NEW X, NEW P, NEW off, NEW t, Layout(X, P, off, t),
         NEW Q \in Seq(Piece(X)), Extends(Q, P)
  PROVE  \E off2, t2 : Continues(X, Q, off2, t2, P, off, t)
<1> DEFINE T == {n \in Nat : \A R \in Seq(Piece(X)) :
                    Extends(R, P) /\ Len(R) = Len(P) + n =>
                        \E off2, t2 : Continues(X, R, off2, t2, P, off, t)}
<1>1. P \in Seq(Piece(X)) /\ Len(P) \in Nat
  BY DEF Layout
<1>2. 0 \in T
  <2> SUFFICES ASSUME NEW R \in Seq(Piece(X)), Extends(R, P), Len(R) = Len(P)
               PROVE  \E off2, t2 : Continues(X, R, off2, t2, P, off, t)
    BY <1>1
  <2>1. R = P
    BY <1>1, SeqEqual DEF Extends
  <2>2. Extends(t, t)
    <3>1. Len(t) \in Nat
      BY DEF Layout
    <3> QED
      BY <3>1 DEF Extends
  <2>3. Continues(X, P, off, t, P, off, t)
    BY <2>2 DEF Continues
  <2> QED
    BY <2>1, <2>3
<1>3. ASSUME NEW n \in Nat, n \in T PROVE n + 1 \in T
  <2> SUFFICES ASSUME NEW R \in Seq(Piece(X)), Extends(R, P), Len(R) = Len(P) + (n + 1)
               PROVE  \E off2, t2 : Continues(X, R, off2, t2, P, off, t)
    OBVIOUS
  <2>1. R # <<>>
    BY <1>1, EmptySeq
  <2>2. PICK S \in Seq(Piece(X)), e \in Piece(X) : R = Append(S, e)
    BY <2>1, SequenceEmptyOrAppend
  <2>3. Len(S) \in Nat /\ Len(R) = Len(S) + 1 /\ \A i \in 1..Len(S) : R[i] = S[i]
    BY <2>2, AppendProperties
  <2>4. Len(S) = Len(P) + n
    BY <1>1, <2>3
  <2>5. Extends(S, P)
    BY <1>1, <2>3, <2>4 DEF Extends
  <2>6. PICK off1, t1 : Continues(X, S, off1, t1, P, off, t)
    BY <1>3, <2>4, <2>5
  <2>7. Layout(X, S, off1, t1)
    BY <2>6 DEF Continues
  <2>8. PICK off2 : Continues(X, Append(S, e), off2, t1 \o e, S, off1, t1)
    BY <2>7, AppendPiece
  <2>9. PICK t2 : t2 = t1 \o e
    OBVIOUS
  <2>10. Layout(X, R, off2, t2) /\ Extends(t2, t1) /\ \A i \in 1..Len(S) + 1 : off2[i] = off1[i]
    BY <2>2, <2>8, <2>9 DEF Continues
  <2>11. Extends(t1, t) /\ \A i \in 1..Len(P) + 1 : off1[i] = off[i]
    BY <2>6 DEF Continues
  <2>12. Len(t) \in Nat /\ Len(t1) \in Nat /\ Len(t2) \in Nat
    BY <2>7, <2>10 DEF Layout
  <2>13. Extends(t2, t)
    BY <2>10, <2>11, <2>12 DEF Extends
  <2>14. \A i \in 1..Len(P) + 1 : off2[i] = off[i]
    BY <1>1, <2>4, <2>10, <2>11
  <2>15. Continues(X, R, off2, t2, P, off, t)
    BY <2>10, <2>13, <2>14 DEF Continues
  <2> QED
    BY <2>15
<1>4. Nat \subseteq T
  <2> HIDE DEF T
  <2> QED
    BY <1>2, <1>3, SetInduction
<1>5. Len(Q) - Len(P) \in Nat
  <2>1. Len(Q) \in Nat /\ Len(P) <= Len(Q)
    BY DEF Extends
  <2> QED
    BY <1>1, <2>1
<1>6. Len(Q) - Len(P) \in T /\ Len(Q) = Len(P) + (Len(Q) - Len(P))
  <2>1. Len(Q) \in Nat
    OBVIOUS
  <2> QED
    BY <1>1, <1>4, <1>5, <2>1
<1> QED
  BY <1>6

\* The first n requests of m.
Partial(m, n) == [kind |-> m.kind, config |-> Slice(m.config, 0, n)]

\* With the name of the i-th, whose duration is still to come.
Nameless(r) == [processName |-> r.processName, monitorDuration |-> 0]
Named(m, i) == [kind |-> m.kind, config |-> Append(Slice(m.config, 0, i - 1), Nameless(m.config[i]))]

\* Nothing and everything of a configuration.
LEMMA PartialEnds ==
  ASSUME NEW m, IsConfig(m)
  PROVE  /\ Partial(m, 0) = [kind |-> m.kind, config |-> <<>>]
         /\ Partial(m, Len(m.config)) = m
<1>1. PICK c \in Configs : c = m.config /\ m = [kind |-> m.kind, config |-> c]
  BY DEF IsConfig
<1>2. c \in Seq(Request) /\ Len(c) \in Nat
  BY DEF Configs
<1>3. Slice(c, 0, 0) = <<>>
  <2>1. SubSeq(c, 1, 0) = <<>>
    BY SubSeqEmpty
  <2>2. 0 + 1 = 1
    OBVIOUS
  <2> QED
    BY <2>1, <2>2, Zenon DEF Slice
<1>4. Slice(c, 0, Len(c)) = c
  <2>1. SubSeq(c, 1, Len(c)) = c
    BY <1>2, SubSeqFull
  <2>2. 0 + 1 = 1
    OBVIOUS
  <2> QED
    BY <2>1, <2>2, Zenon DEF Slice
<1> QED
  BY <1>1, <1>3, <1>4, Zenon DEF Partial

\* The duration of the i-th request makes it complete.
LEMMA PartialNext ==
  ASSUME NEW m, IsConfig(m), NEW i \in 1..Len(m.config), NEW v, v = m.config[i].monitorDuration
  PROVE  /\ [Partial(m, i - 1) EXCEPT !.config = Append(@, Nameless(m.config[i]))] = Named(m, i)
         /\ [Named(m, i) EXCEPT !.config[Len(Named(m, i).config)].monitorDuration = v] = Partial(m, i)
<1>1. PICK c \in Seq(Request) : c = m.config
  BY DEF IsConfig, Configs
<1>2. PICK r \in Request : r = c[i]
  BY <1>1
<1>3. PICK s : s = Slice(c, 0, i - 1)
  OBVIOUS
<1>4. Len(c) \in Nat /\ i - 1 \in Nat /\ i \in Nat /\ i - 1 <= Len(c) /\ i <= Len(c)
  BY <1>1
<1>5. s \in Seq(Request) /\ Len(s) = i - 1 /\ \A l \in 1..i - 1 : s[l] = c[l]
  <2>1. PICK b \in Nat : b = i - 1 /\ 0 <= b /\ b <= Len(c)
    BY <1>4
  <2>2. b <= Len(c)
    BY <2>1
  <2>3. /\ Slice(c, 0, b) \in Seq(Request) /\ Len(Slice(c, 0, b)) = b
        /\ \A l \in 1..b : Slice(c, 0, b)[l] = c[l]
    BY <2>2, PrefixIs
  <2> QED
    BY <1>3, <2>1, <2>3
<1>6. PICK e : e = Nameless(r)
  OBVIOUS
<1>7. e \in Request /\ [e EXCEPT !.monitorDuration = r.monitorDuration] = r
  BY <1>2, <1>6, UMaxType DEF Request, Nameless
<1>8. PICK a : a = Append(s, e)
  OBVIOUS
<1>9. a \in Seq(Request) /\ Len(a) = i /\ a[i] = e /\ \A l \in 1..i - 1 : a[l] = s[l]
  BY <1>4, <1>5, <1>7, <1>8, AppendProperties
<1>10. PICK u : u = [a EXCEPT ![i] = r]
  OBVIOUS
<1>11. u \in Seq(Request) /\ Len(u) = i /\ \A l \in 1..i : u[l] = IF l = i THEN r ELSE a[l]
  BY <1>4, <1>9, <1>10, ExceptSeq
<1>12. PICK t : t = Slice(c, 0, i)
  OBVIOUS
<1>13. t \in Seq(Request) /\ Len(t) = i /\ \A l \in 1..i : t[l] = c[l]
  <2>1. /\ Slice(c, 0, i) \in Seq(Request) /\ Len(Slice(c, 0, i)) = i
        /\ \A l \in 1..i : Slice(c, 0, i)[l] = c[l]
    BY <1>4, PrefixIs
  <2> QED
    BY <1>12, <2>1
<1>14. u = t
  <2>1. \A l \in 1..i : u[l] = t[l]
    BY <1>2, <1>4, <1>5, <1>9, <1>11, <1>13
  <2> QED
    BY <1>11, <1>13, <2>1, SeqEqual
<1>15. Partial(m, i - 1) = [kind |-> m.kind, config |-> s] /\ Partial(m, i) = [kind |-> m.kind, config |-> t]
  BY <1>1, <1>3, <1>12, Zenon DEF Partial
<1>16. Named(m, i) = [kind |-> m.kind, config |-> a]
  BY <1>1, <1>2, <1>3, <1>6, <1>8, Zenon DEF Named
<1>17. PICK kind : kind = m.kind
  OBVIOUS
<1>18. PICK h : h = [kind |-> kind, config |-> a]
  OBVIOUS
<1>19. h.config = a /\ h.kind = kind
  BY <1>18
<1>20. [a EXCEPT ![i] = [a[i] EXCEPT !.monitorDuration = v]] = u
  BY <1>1, <1>2, <1>7, <1>9, <1>10
<1>21. [h EXCEPT !.config[Len(h.config)].monitorDuration = v] = [kind |-> kind, config |-> u]
  <2>1. Len(h.config) = i
    BY <1>9, <1>19
  <2>2. [h EXCEPT !.config[i].monitorDuration = v] = [kind |-> kind, config |-> [a EXCEPT ![i].monitorDuration = v]]
    BY <1>18
  <2>3. [a EXCEPT ![i].monitorDuration = v] = u
    BY <1>20
  <2> QED
    BY <2>1, <2>2, <2>3
<1>22. [[kind |-> kind, config |-> s] EXCEPT !.config = Append(@, e)] = [kind |-> kind, config |-> a]
  <2>1. PICK g : g = [kind |-> kind, config |-> s]
    OBVIOUS
  <2>2. g.config = s /\ g.kind = kind /\ [g EXCEPT !.config = a] = [kind |-> kind, config |-> a]
    BY <2>1
  <2>3. [g EXCEPT !.config = Append(@, e)] = [g EXCEPT !.config = a]
    BY <1>8, <2>2
  <2> QED
    BY <2>1, <2>2, <2>3, Zenon
<1>23. Nameless(m.config[i]) = e
  BY <1>1, <1>2, <1>6
<1>24. Partial(m, i - 1) = [kind |-> kind, config |-> s] /\ Partial(m, i) = [kind |-> kind, config |-> u] /\ Named(m, i) = h
  BY <1>14, <1>15, <1>16, <1>17, <1>18
<1> QED
  BY <1>21, <1>22, <1>23, <1>24, <1>18

-----------------------------------------------------------------------------
(* Where the reader is in a message.                                         *)

\* It waits for the next message; the first of the server has no type.
Waiting ==
    IF dir = "down" /\ Len(delivered) = 0
    THEN field = "length" /\ msg = [kind |-> "config", config |-> <<>>]
    ELSE field = (IF dir = "down" THEN "type" ELSE "code") /\ msg = [kind |-> "none"]

\* It reads the q-th field of the i-th request.
InRequest(m, i, q) ==
    /\ left = Len(m.config) - i + 1
    /\ \/ q = 1 /\ field = "nameLength" /\ msg = Partial(m, i - 1)
       \/ /\ q = 2 /\ field = "name" /\ msg = Partial(m, i - 1)
          /\ size = Len(m.config[i].processName) + 1
       \/ q = 3 /\ field = "duration" /\ msg = Named(m, i)

\* It reads the j-th field of a log message.
InLog(m, j) ==
    \/ j = 2 /\ field = "textLength" /\ msg = [kind |-> "LOG"]
    \/ j = 3 /\ field = "text" /\ size = Len(m.text) + 1
    \/ j = 4 /\ field = "reportType" /\ msg = [kind |-> "LOG", text |-> m.text, type |-> 0]

\* It reads the j-th field of m.
Stage(m, j) ==
    \/ j = 1 /\ Waiting
    \/ m.kind = "HUP" /\ j = 2 /\ field = "length" /\ msg = Partial(m, 0)
    \/ /\ IsConfig(m)
       /\ \E i \in 1..Len(m.config), q \in 1..3 : j = Lead(m) + 3 * i - 2 + q /\ InRequest(m, i, q)
    \/ IsLog(m) /\ InLog(m, j)
    \/ IsAck(m) /\ j = 2 /\ field = "count"

\* The messages that may be the next.
Fits(m) ==
    m.kind \in IF dir = "up" THEN {"LOG", "ACK"}
               ELSE IF Len(delivered) = 0 THEN {"config"} ELSE {"HUP", "INT"}

\* The numbers and the state of the reader.
ReaderTyped == left \in 0..UMax /\ size \in 0..UMax /\ reader \in {"running", "done", "dead"}

\* The whole message goes to the program.
Took(m) ==
    /\ delivered' = Append(delivered, m)
    /\ field' = IF dir = "down" THEN "type" ELSE "code"
    /\ msg' = [kind |-> "none"]
    /\ ReaderTyped'

\* The reader goes on to another field.
GoesOn == delivered' = delivered /\ ReaderTyped'

\* The length of a configuration.
LEMMA ReadLength ==
  ASSUME NEW m, IsConfig(m), field = "length", msg = Partial(m, 0), ReaderTyped,
         NEW units, units = writeUInt(Len(m.config)),
         ReadConfigField(units) \/ ReadType(units) \/ ReadClientField(units)
  PROVE  IF Len(m.config) = 0 THEN Took(m) ELSE GoesOn /\ InRequest(m, 1, 1)'
<1>1. PICK n \in 0..UMax : n = Len(m.config)
  BY DEF IsConfig, Configs
<1>2. readUInt(units) = n
  BY <1>1, UIntRoundTrip
<1>3. Partial(m, 0).config = <<>> /\ [Partial(m, 0) EXCEPT !.config = <<>>] = Partial(m, 0)
  <2>1. PICK kind : kind = m.kind
    OBVIOUS
  <2>2. PICK h : h = [kind |-> kind, config |-> <<>>]
    OBVIOUS
  <2>3. h.config = <<>> /\ [h EXCEPT !.config = <<>>] = h
    BY <2>2
  <2>4. Partial(m, 0) = h
    BY <2>1, <2>2, PartialEnds
  <2> QED
    BY <2>3, <2>4
<1>4. /\ left' = n /\ size' = size
      /\ IF left' = 0 THEN Arrived(Partial(m, 0)) ELSE Expect("nameLength", Partial(m, 0))
  BY <1>2, <1>3, Zenon DEF ReadConfigField, ReadType, ReadClientField
<1>5. CASE n = 0
  <2>1. Arrived(m)
    BY <1>1, <1>4, <1>5, PartialEnds
  <2> QED
    BY <1>1, <1>4, <1>5, <2>1 DEF Arrived, Took, ReaderTyped
<1>6. CASE n # 0
  <2>1. Expect("nameLength", Partial(m, 0))
    BY <1>4, <1>6
  <2>2. GoesOn
    BY <1>4, <2>1 DEF Expect, GoesOn, ReaderTyped
  <2>3. field' = "nameLength" /\ msg' = Partial(m, 0)
    BY <2>1 DEF Expect
  <2>4. left' = Len(m.config) - 1 + 1 /\ 1 - 1 = 0
    BY <1>1, <1>4, UMaxType
  <2> QED
    BY <1>1, <1>6, <2>2, <2>3, <2>4 DEF InRequest
<1> QED
  BY <1>5, <1>6

\* A field of a request.
LEMMA ReadRequest ==
  ASSUME NEW m, IsConfig(m), NEW i \in 1..Len(m.config), NEW q \in 1..3, InRequest(m, i, q), ReaderTyped,
         NEW units, units = RequestFields(m.config[i])[q],
         ReadConfigField(units) \/ ReadType(units) \/ ReadClientField(units)
  PROVE  IF q < 3 THEN GoesOn /\ InRequest(m, i, q + 1)'
         ELSE IF i < Len(m.config) THEN GoesOn /\ InRequest(m, i + 1, 1)'
         ELSE Took(m)
<1>1. PICK n \in 0..UMax : n = Len(m.config)
  BY DEF IsConfig, Configs
<1>2. PICK r \in Request : r = m.config[i]
  BY DEF IsConfig, Configs
<1>3. r.processName \in Name /\ r.monitorDuration \in 0..UMax
  BY DEF Request
<1>4. PICK l \in 0..UMax : l = Len(r.processName) + 1
  BY <1>3, UMaxType DEF Name
<1>5. i \in Nat /\ n \in Nat /\ i >= 1 /\ i <= n /\ left = n - i + 1
  BY <1>1, UMaxType DEF InRequest
<1>6. CASE q = 1
  <2>1. field = "nameLength" /\ msg = Partial(m, i - 1)
    BY <1>6 DEF InRequest
  <2>2. units = writeUInt(l)
    BY <1>2, <1>4, <1>6 DEF RequestFields
  <2>3. readUInt(units) = l
    BY <2>2, UIntRoundTrip
  <2>4. left' = left /\ size' = l /\ Expect("name", Partial(m, i - 1))
    BY <2>1, <2>3, Zenon DEF ReadConfigField, ReadType, ReadClientField
  <2>5. GoesOn /\ field' = "name" /\ msg' = Partial(m, i - 1)
    BY <2>4 DEF Expect, GoesOn, ReaderTyped
  <2>6. left' = Len(m.config) - i + 1 /\ size' = Len(m.config[i].processName) + 1
    BY <1>1, <1>2, <1>4, <1>5, <2>4
  <2>7. InRequest(m, i, 2)'
    BY <2>5, <2>6 DEF InRequest
  <2> QED
    BY <1>6, <2>5, <2>7
<1>7. CASE q = 2
  <2>1. field = "name" /\ msg = Partial(m, i - 1)
    BY <1>7 DEF InRequest
  <2>2. units = r.processName \o <<0>>
    BY <1>2, <1>7 DEF RequestFields
  <2>3. Letters(units) = r.processName
    BY <1>3, <2>2, StringIs
  <2>4. [processName |-> Letters(units), monitorDuration |-> 0] = Nameless(m.config[i])
    BY <1>2, <2>3 DEF Nameless
  <2>5. /\ left' = left /\ size' = size
        /\ Expect("duration", [Partial(m, i - 1) EXCEPT !.config = Append(@, Nameless(m.config[i]))])
    BY <2>1, <2>4, Zenon DEF ReadConfigField, ReadType, ReadClientField
  <2>6. [Partial(m, i - 1) EXCEPT !.config = Append(@, Nameless(m.config[i]))] = Named(m, i)
    BY PartialNext
  <2>7. GoesOn /\ field' = "duration" /\ msg' = Named(m, i)
    BY <2>5, <2>6 DEF Expect, GoesOn, ReaderTyped
  <2>8. left' = Len(m.config) - i + 1
    BY <1>1, <1>5, <2>5
  <2>9. InRequest(m, i, 3)'
    BY <2>7, <2>8 DEF InRequest
  <2> QED
    BY <1>7, <2>7, <2>9
<1>8. CASE q = 3
  <2>1. field = "duration" /\ msg = Named(m, i)
    BY <1>8 DEF InRequest
  <2>2. units = writeUInt(r.monitorDuration)
    BY <1>2, <1>8 DEF RequestFields
  <2>3. PICK v : v = readUInt(units) /\ v = m.config[i].monitorDuration
    BY <1>2, <1>3, <2>2, UIntRoundTrip
  <2>4. [Named(m, i) EXCEPT !.config[Len(Named(m, i).config)].monitorDuration = v] = Partial(m, i)
    BY <2>3, PartialNext
  <2>5. /\ left' = left - 1 /\ size' = size
        /\ IF left' = 0 THEN Arrived(Partial(m, i)) ELSE Expect("nameLength", Partial(m, i))
    BY <2>1, <2>3, <2>4, Zenon DEF ReadConfigField, ReadType, ReadClientField
  <2>6. left' = n - i
    BY <1>5, <2>5
  <2>7. left' \in 0..UMax
    BY <1>1, <1>5, <2>6, UMaxType
  <2>8. CASE i < n
    <3>1. Expect("nameLength", Partial(m, i))
      BY <1>5, <2>5, <2>6, <2>8
    <3>2. GoesOn /\ field' = "nameLength" /\ msg' = Partial(m, i)
      BY <2>5, <2>7, <3>1 DEF Expect, GoesOn, ReaderTyped
    <3>3. left' = Len(m.config) - (i + 1) + 1 /\ (i + 1) - 1 = i
      BY <1>1, <1>5, <2>6
    <3>4. InRequest(m, i + 1, 1)'
      BY <3>2, <3>3 DEF InRequest
    <3> QED
      BY <1>1, <1>8, <2>8, <3>2, <3>4
  <2>9. CASE ~ (i < n)
    <3>1. i = n
      BY <1>5, <2>9
    <3>2. Arrived(Partial(m, i))
      BY <1>5, <2>5, <2>6, <3>1
    <3>3. Arrived(m)
      BY <1>1, <3>1, <3>2, PartialEnds
    <3>4. Took(m)
      BY <2>5, <2>7, <3>3 DEF Arrived, Took, ReaderTyped
    <3> QED
      BY <1>1, <1>8, <2>9, <3>4
  <2> QED
    BY <2>8, <2>9
<1> QED
  BY <1>6, <1>7, <1>8

\* The type or the code of a message.
LEMMA ReadCode ==
  ASSUME NEW m, IsMessage(m), Fits(m), m.kind # "config", Waiting, ReaderTyped, dir \in {"down", "up"},
         Len(delivered) \in Nat,
         NEW units, units = FieldsOf(m)[1],
         ReadConfigField(units) \/ ReadType(units) \/ ReadClientField(units)
  PROVE  IF m.kind = "INT" THEN Took(m) ELSE GoesOn /\ Stage(m, 2)'
<1>1. CASE m.kind = "HUP"
  <2>1. IsConfig(m)
    BY <1>1 DEF IsMessage, IsLog, IsAck, IsConfig
  <2>2. units = <<HUP>>
    BY <1>1, <2>1, ConfigFieldsIs DEF Carries
  <2>3. dir = "down" /\ Len(delivered) # 0
    BY <1>1 DEF Fits
  <2>4. field = "type"
    BY <2>3 DEF Waiting
  <2>5. left' = left /\ size' = size /\ Expect("length", [kind |-> "HUP", config |-> <<>>])
    BY <2>2, <2>4, Zenon DEF ReadConfigField, ReadType, ReadClientField
  <2>6. Partial(m, 0) = [kind |-> "HUP", config |-> <<>>]
    BY <1>1, <2>1, PartialEnds
  <2>7. GoesOn /\ field' = "length" /\ msg' = Partial(m, 0)
    BY <2>5, <2>6 DEF Expect, GoesOn, ReaderTyped
  <2>8. Stage(m, 2)'
    BY <1>1, <2>7 DEF Stage
  <2> QED
    BY <1>1, <2>7, <2>8
<1>2. CASE m.kind = "INT"
  <2>1. m = [kind |-> "INT"] /\ ~ IsConfig(m)
    BY <1>2 DEF IsMessage, IsLog, IsAck, IsConfig
  <2>2. units = <<INT>>
    <3>1. PICK G : G = <<<<INT>>>>
      OBVIOUS
    <3>2. G[1] = <<INT>>
      BY <3>1
    <3> QED
      BY <2>1, <3>1, <3>2, OtherFieldsIs
  <2>3. units # <<HUP>>
    BY <2>2 DEF HUP, INT
  <2>4. dir = "down" /\ Len(delivered) # 0
    BY <1>2 DEF Fits
  <2>5. field = "type"
    BY <2>4 DEF Waiting
  <2>6. left' = left /\ size' = size /\ Arrived(m)
    BY <2>1, <2>3, <2>5, Zenon DEF ReadConfigField, ReadType, ReadClientField
  <2>7. Took(m)
    BY <2>6 DEF Arrived, Took, ReaderTyped
  <2> QED
    BY <1>2, <2>7
<1>3. CASE m.kind = "LOG"
  <2>1. IsLog(m) /\ ~ IsConfig(m)
    BY <1>3 DEF IsMessage, IsLog, IsAck, IsConfig
  <2>2. units = <<LOG_MESSAGE>>
    <3>1. PICK G : G = <<<<LOG_MESSAGE>>, writeUInt(Len(m.text) + 1), m.text \o <<0>>, <<m.type>>>>
      OBVIOUS
    <3>2. G[1] = <<LOG_MESSAGE>>
      BY <3>1
    <3> QED
      BY <2>1, <3>1, <3>2, OtherFieldsIs
  <2>3. dir = "up"
    BY <1>3 DEF Fits
  <2>4. field = "code"
    BY <2>3 DEF Waiting
  <2>5. left' = left /\ size' = size /\ Expect("textLength", [kind |-> "LOG"])
    BY <2>2, <2>4, Zenon DEF ReadConfigField, ReadType, ReadClientField
  <2>6. GoesOn /\ field' = "textLength" /\ msg' = [kind |-> "LOG"]
    BY <2>5 DEF Expect, GoesOn, ReaderTyped
  <2>7. Stage(m, 2)'
    BY <2>1, <2>6 DEF Stage, InLog
  <2> QED
    BY <1>3, <2>6, <2>7
<1>4. CASE m.kind = "ACK"
  <2>1. IsAck(m) /\ ~ IsConfig(m)
    BY <1>4 DEF IsMessage, IsLog, IsAck, IsConfig
  <2>2. units = <<INT_ACK>>
    <3>1. PICK G : G = <<<<INT_ACK>>, writeUInt(m.count)>>
      OBVIOUS
    <3>2. G[1] = <<INT_ACK>>
      BY <3>1
    <3> QED
      BY <2>1, <3>1, <3>2, OtherFieldsIs
  <2>3. units # <<LOG_MESSAGE>>
    BY <2>2 DEF LOG_MESSAGE, INT_ACK
  <2>4. dir = "up"
    BY <1>4 DEF Fits
  <2>5. field = "code"
    BY <2>4 DEF Waiting
  <2>6. left' = left /\ size' = size /\ Expect("count", [kind |-> "ACK"])
    BY <2>3, <2>5, Zenon DEF ReadConfigField, ReadType, ReadClientField
  <2>7. GoesOn /\ field' = "count"
    BY <2>6 DEF Expect, GoesOn, ReaderTyped
  <2>8. Stage(m, 2)'
    BY <2>1, <2>7 DEF Stage
  <2> QED
    BY <1>4, <2>7, <2>8
<1> QED
  BY <1>1, <1>2, <1>3, <1>4 DEF Fits

\* The rest of a log message.
LEMMA ReadLog ==
  ASSUME NEW m, IsLog(m), NEW j \in 2..4, InLog(m, j), ReaderTyped,
         NEW units, units = FieldsOf(m)[j],
         ReadConfigField(units) \/ ReadType(units) \/ ReadClientField(units)
  PROVE  IF j < 4 THEN GoesOn /\ Stage(m, j + 1)' ELSE Took(m)
<1>1. m = [kind |-> "LOG", text |-> m.text, type |-> m.type] /\ m.text \in Name /\ m.type \in 0..1
  BY DEF IsLog
<1>2. ~ IsConfig(m) /\ IsMessage(m)
  BY <1>1 DEF IsConfig, IsMessage
<1>3. PICK a, b, d : a = writeUInt(Len(m.text) + 1) /\ b = m.text \o <<0>> /\ d = <<m.type>>
  OBVIOUS
<1>4. PICK G : G = <<<<LOG_MESSAGE>>, a, b, d>>
  OBVIOUS
<1>5. G[2] = a /\ G[3] = b /\ G[4] = d
  BY <1>4
<1>6. FieldsOf(m) = G
  BY <1>2, <1>3, <1>4, OtherFieldsIs
<1>7. Len(m.text) + 1 \in 0..UMax
  BY <1>1, UMaxType DEF Name
<1>8. CASE j = 2
  <2>1. field = "textLength" /\ msg = [kind |-> "LOG"] /\ units = a
    BY <1>5, <1>6, <1>8 DEF InLog
  <2>2. readUInt(units) = Len(m.text) + 1
    BY <1>3, <1>7, <2>1, UIntRoundTrip
  <2>3. left' = left /\ size' = Len(m.text) + 1 /\ Expect("text", msg)
    BY <2>1, <2>2, Zenon DEF ReadConfigField, ReadType, ReadClientField
  <2>4. GoesOn /\ field' = "text"
    BY <1>7, <2>3 DEF Expect, GoesOn, ReaderTyped
  <2>5. InLog(m, 3)'
    BY <2>3, <2>4 DEF InLog
  <2>6. Stage(m, 3)'
    BY <2>5 DEF Stage
  <2> QED
    BY <1>8, <2>4, <2>6
<1>9. CASE j = 3
  <2>1. field = "text" /\ units = b
    BY <1>5, <1>6, <1>9 DEF InLog
  <2>2. Letters(units) = m.text
    BY <1>1, <1>3, <2>1, StringIs
  <2>3. /\ left' = left /\ size' = size
        /\ Expect("reportType", [kind |-> "LOG", text |-> m.text, type |-> 0])
    BY <2>1, <2>2, Zenon DEF ReadConfigField, ReadType, ReadClientField
  <2>4. GoesOn /\ field' = "reportType" /\ msg' = [kind |-> "LOG", text |-> m.text, type |-> 0]
    BY <2>3 DEF Expect, GoesOn, ReaderTyped
  <2>5. InLog(m, 4)'
    BY <2>4 DEF InLog
  <2>6. Stage(m, 4)'
    BY <2>5 DEF Stage
  <2> QED
    BY <1>9, <2>4, <2>6
<1>10. CASE j = 4
  <2>1. field = "reportType" /\ msg = [kind |-> "LOG", text |-> m.text, type |-> 0] /\ units = d
    BY <1>5, <1>6, <1>10 DEF InLog
  <2>2. units[1] = m.type
    BY <1>3, <2>1
  <2>3. [msg EXCEPT !.type = units[1]] = m
    <3>1. PICK text, type : text = m.text /\ type = m.type
      OBVIOUS
    <3>2. [msg EXCEPT !.type = type] = [kind |-> "LOG", text |-> text, type |-> type]
      BY <2>1, <3>1
    <3> QED
      BY <1>1, <2>2, <3>1, <3>2
  <2>4. left' = left /\ size' = size /\ Arrived(m)
    BY <2>1, <2>3, Zenon DEF ReadConfigField, ReadType, ReadClientField
  <2>5. Took(m)
    BY <2>4 DEF Arrived, Took, ReaderTyped
  <2> QED
    BY <1>10, <2>5
<1> QED
  BY <1>8, <1>9, <1>10

\* The count of kills.
LEMMA ReadCount ==
  ASSUME NEW m, IsAck(m), field = "count", ReaderTyped,
         NEW units, units = FieldsOf(m)[2],
         ReadConfigField(units) \/ ReadType(units) \/ ReadClientField(units)
  PROVE  Took(m)
<1>1. m = [kind |-> "ACK", count |-> m.count] /\ m.count \in 0..UMax
  BY DEF IsAck
<1>2. ~ IsConfig(m) /\ IsMessage(m)
  BY <1>1 DEF IsConfig, IsMessage
<1>3. PICK a : a = writeUInt(m.count)
  OBVIOUS
<1>4. PICK G : G = <<<<INT_ACK>>, a>>
  OBVIOUS
<1>5. G[2] = a
  BY <1>4
<1>6. units = writeUInt(m.count)
  BY <1>2, <1>3, <1>4, <1>5, OtherFieldsIs
<1>7. readUInt(units) = m.count
  BY <1>1, <1>6, UIntRoundTrip
<1>8. left' = left /\ size' = size /\ Arrived(m)
  BY <1>1, <1>7, Zenon DEF ReadConfigField, ReadType, ReadClientField
<1> QED
  BY <1>8 DEF Arrived, Took, ReaderTyped

\* How many fields there are, and what they are.
LEMMA FieldCount ==
  ASSUME NEW m, IsMessage(m)
  PROVE  /\ FieldsOf(m) \in Seq(Field)
         /\ IsConfig(m) => Len(FieldsOf(m)) = Lead(m) + 3 * Len(m.config) + 1
         /\ m = [kind |-> "INT"] => Len(FieldsOf(m)) = 1 /\ Len(FieldsOf(m)[1]) = 1
         /\ IsLog(m) => /\ Len(FieldsOf(m)) = 4
                        /\ Len(FieldsOf(m)[1]) = 1 /\ Len(FieldsOf(m)[2]) = 2
                        /\ Len(FieldsOf(m)[3]) = Len(m.text) + 1 /\ Len(FieldsOf(m)[4]) = 1
         /\ IsAck(m) => /\ Len(FieldsOf(m)) = 2
                        /\ Len(FieldsOf(m)[1]) = 1 /\ Len(FieldsOf(m)[2]) = 2
<1>1. CASE IsConfig(m)
  <2>1. Carries(m, FieldsOf(m))
    BY <1>1, ConfigFieldsIs
  <2>2. m # [kind |-> "INT"] /\ ~ IsLog(m) /\ ~ IsAck(m)
    BY <1>1 DEF IsConfig, IsLog, IsAck
  <2> QED
    BY <2>1, <2>2 DEF Carries
<1>2. CASE m = [kind |-> "INT"]
  <2>1. ~ IsConfig(m) /\ ~ IsLog(m) /\ ~ IsAck(m)
    BY <1>2 DEF IsConfig, IsLog, IsAck
  <2>2. PICK a : a = <<INT>>
    OBVIOUS
  <2>3. PICK G : G = <<a>>
    OBVIOUS
  <2>4. Len(G) = 1 /\ G[1] = a /\ Len(a) = 1
    BY <2>2, <2>3
  <2>5. FieldsOf(m) = G /\ FieldsOf(m) \in Seq(Field)
    BY <1>2, <2>1, <2>2, <2>3, OtherFieldsIs
  <2> QED
    BY <2>1, <2>4, <2>5
<1>3. CASE IsLog(m)
  <2>1. ~ IsConfig(m) /\ m # [kind |-> "INT"] /\ ~ IsAck(m) /\ m.text \in Name
    BY <1>3 DEF IsConfig, IsLog, IsAck
  <2>2. PICK a, b, d, e : a = <<LOG_MESSAGE>> /\ b = writeUInt(Len(m.text) + 1) /\ d = m.text \o <<0>> /\ e = <<m.type>>
    OBVIOUS
  <2>3. PICK G : G = <<a, b, d, e>>
    OBVIOUS
  <2>4. Len(G) = 4 /\ G[1] = a /\ G[2] = b /\ G[3] = d /\ G[4] = e
    BY <2>3
  <2>5. Len(a) = 1 /\ Len(e) = 1
    BY <2>2
  <2>6. Len(b) = 2 /\ Len(d) = Len(m.text) + 1
    BY <2>1, <2>2, StringIs
  <2>7. FieldsOf(m) = G /\ FieldsOf(m) \in Seq(Field)
    BY <1>3, <2>1, <2>2, <2>3, OtherFieldsIs
  <2> QED
    BY <2>1, <2>4, <2>5, <2>6, <2>7
<1>4. CASE IsAck(m)
  <2>1. ~ IsConfig(m) /\ m # [kind |-> "INT"] /\ ~ IsLog(m) /\ m.count \in 0..UMax
    BY <1>4 DEF IsConfig, IsLog, IsAck
  <2>2. PICK a, b : a = <<INT_ACK>> /\ b = writeUInt(m.count)
    OBVIOUS
  <2>3. PICK G : G = <<a, b>>
    OBVIOUS
  <2>4. Len(G) = 2 /\ G[1] = a /\ G[2] = b
    BY <2>3
  <2>5. Len(a) = 1
    BY <2>2
  <2>6. Len(b) = 2
    BY <2>1, <2>2, UIntRoundTrip
  <2>7. FieldsOf(m) = G /\ FieldsOf(m) \in Seq(Field)
    BY <1>4, <2>1, <2>2, <2>3, OtherFieldsIs
  <2> QED
    BY <2>1, <2>4, <2>5, <2>6, <2>7
<1> QED
  BY <1>1, <1>2, <1>3, <1>4 DEF IsMessage

\* A message of a kind has its form.
LEMMA KindIs ==
  ASSUME NEW m, IsMessage(m)
  PROVE  /\ m.kind \in {"config", "HUP"} <=> IsConfig(m)
         /\ m.kind = "INT" <=> m = [kind |-> "INT"]
         /\ m.kind = "LOG" <=> IsLog(m)
         /\ m.kind = "ACK" <=> IsAck(m)
         /\ m.kind \in {"config", "HUP", "INT", "LOG", "ACK"}
  BY DEF IsMessage, IsConfig, IsLog, IsAck

\* The stages of a configuration.
LEMMA ConfigStages ==
  ASSUME NEW m, IsConfig(m), Fits(m), NEW j, Stage(m, j), dir \in {"down", "up"}
  PROVE  \/ m.kind = "HUP" /\ j = 1 /\ field = "type" /\ Waiting
         \/ j = Lead(m) + 1 /\ field = "length" /\ msg = Partial(m, 0)
         \/ \E i \in 1..Len(m.config), q \in 1..3 : j = Lead(m) + 3 * i - 2 + q /\ InRequest(m, i, q)
<1>1. m.kind \in {"config", "HUP"} /\ ~ IsLog(m) /\ ~ IsAck(m)
  BY DEF IsConfig, IsLog, IsAck
<1>2. CASE j = 1 /\ Waiting
  <2>1. CASE m.kind = "HUP"
    BY <1>2, <2>1 DEF Fits, Waiting
  <2>2. CASE m.kind = "config"
    <3>1. field = "length" /\ msg = [kind |-> "config", config |-> <<>>]
      BY <1>2, <2>2 DEF Fits, Waiting
    <3>2. Partial(m, 0) = [kind |-> "config", config |-> <<>>]
      BY <2>2, PartialEnds
    <3> QED
      BY <1>2, <2>2, <3>1, <3>2 DEF Lead
  <2> QED
    BY <1>1, <2>1, <2>2
<1>3. CASE m.kind = "HUP" /\ j = 2 /\ field = "length" /\ msg = Partial(m, 0)
  BY <1>3 DEF Lead
<1> QED
  BY <1>1, <1>2, <1>3 DEF Stage

\* The reader asks for the whole field.
LEMMA StageSize ==
  ASSUME NEW m, IsMessage(m), Fits(m), NEW j, Stage(m, j), dir \in {"down", "up"}
  PROVE  field \in Fields /\ SizeOf(field) = Len(FieldsOf(m)[j])
<1>1. CASE IsConfig(m)
  <2>1. PICK n \in Nat : n = Len(m.config)
    BY <1>1 DEF IsConfig, Configs
  <2>2. PICK G : G = FieldsOf(m) /\ Carries(m, G)
    BY <1>1, ConfigFieldsIs
  <2>3. CASE m.kind = "HUP" /\ j = 1 /\ field = "type"
    <3>1. PICK a : a = <<HUP>>
      OBVIOUS
    <3>2. G[1] = a /\ Len(a) = 1
      BY <2>2, <2>3, <3>1 DEF Carries
    <3> QED
      BY <2>2, <2>3, <3>2 DEF Fields, SizeOf
  <2>4. CASE j = Lead(m) + 1 /\ field = "length"
    <3>1. G[j] = writeUInt(n)
      BY <2>1, <2>2, <2>4 DEF Carries
    <3>2. Len(G[j]) = 2
      BY <1>1, <2>1, <3>1, UIntRoundTrip DEF IsConfig, Configs
    <3> QED
      BY <2>2, <2>4, <3>2 DEF Fields, SizeOf
  <2>5. ASSUME NEW i \in 1..Len(m.config), NEW q \in 1..3, j = Lead(m) + 3 * i - 2 + q, InRequest(m, i, q)
        PROVE  field \in Fields /\ SizeOf(field) = Len(G[j])
    <3>1. G[j] = RequestFields(m.config[i])[q]
      BY <2>2, <2>5 DEF Carries
    <3>2. PICK r \in Request : r = m.config[i]
      BY <1>1 DEF IsConfig, Configs
    <3>3. PICK l \in 0..UMax : l = Len(r.processName) + 1
      BY UMaxType DEF Name, Request
    <3>4. PICK a, b, d : a = writeUInt(l) /\ b = r.processName \o <<0>> /\ d = writeUInt(r.monitorDuration)
      OBVIOUS
    <3>5. Len(a) = 2 /\ Len(b) = l /\ Len(d) = 2
      BY <3>3, <3>4, StringIs, UIntRoundTrip DEF Request
    <3>6. PICK R : R = <<a, b, d>>
      OBVIOUS
    <3>7. R[1] = a /\ R[2] = b /\ R[3] = d
      BY <3>6
    <3>8. G[j] = R[q]
      BY <3>1, <3>2, <3>3, <3>4, <3>6 DEF RequestFields
    <3>9. \/ q = 1 /\ field = "nameLength"
          \/ q = 2 /\ field = "name" /\ size = l
          \/ q = 3 /\ field = "duration"
      BY <2>5, <3>2, <3>3 DEF InRequest
    <3>10. CASE q = 1 /\ field = "nameLength"
      BY <3>5, <3>7, <3>8, <3>10 DEF Fields, SizeOf
    <3>11. CASE q = 2 /\ field = "name" /\ size = l
      BY <3>5, <3>7, <3>8, <3>11 DEF Fields, SizeOf
    <3>12. CASE q = 3 /\ field = "duration"
      BY <3>5, <3>7, <3>8, <3>12 DEF Fields, SizeOf
    <3> QED
      BY <3>9, <3>10, <3>11, <3>12
  <2> QED
    BY <1>1, <2>2, <2>3, <2>4, <2>5, ConfigStages
<1>2. CASE m = [kind |-> "INT"]
  <2>1. ~ IsConfig(m) /\ ~ IsLog(m) /\ ~ IsAck(m) /\ m.kind = "INT"
    BY <1>2 DEF IsConfig, IsLog, IsAck
  <2>2. j = 1 /\ Waiting
    BY <2>1 DEF Stage
  <2>3. field = "type"
    BY <2>1, <2>2 DEF Waiting, Fits
  <2>4. Len(FieldsOf(m)[j]) = 1
    BY <1>2, <2>2, FieldCount
  <2> QED
    BY <2>3, <2>4 DEF Fields, SizeOf
<1>3. CASE IsLog(m)
  <2>1. ~ IsConfig(m) /\ ~ IsAck(m) /\ m.kind = "LOG"
    BY <1>3 DEF IsConfig, IsLog, IsAck
  <2>2. /\ Len(FieldsOf(m)[1]) = 1 /\ Len(FieldsOf(m)[2]) = 2
        /\ Len(FieldsOf(m)[3]) = Len(m.text) + 1 /\ Len(FieldsOf(m)[4]) = 1
    BY <1>3, FieldCount
  <2>3. CASE j = 1 /\ Waiting
    <3>1. field = "code"
      BY <2>1, <2>3 DEF Waiting, Fits
    <3> QED
      BY <2>2, <2>3, <3>1 DEF Fields, SizeOf
  <2>4. CASE InLog(m, j)
    BY <2>2, <2>4 DEF InLog, Fields, SizeOf
  <2> QED
    BY <2>1, <2>3, <2>4 DEF Stage
<1>4. CASE IsAck(m)
  <2>1. ~ IsConfig(m) /\ ~ IsLog(m) /\ m.kind = "ACK"
    BY <1>4 DEF IsConfig, IsLog, IsAck
  <2>2. Len(FieldsOf(m)[1]) = 1 /\ Len(FieldsOf(m)[2]) = 2
    BY <1>4, FieldCount
  <2>3. CASE j = 1 /\ Waiting
    <3>1. field = "code"
      BY <2>1, <2>3 DEF Waiting, Fits
    <3> QED
      BY <2>2, <2>3, <3>1 DEF Fields, SizeOf
  <2>4. CASE j = 2 /\ field = "count"
    BY <2>2, <2>4 DEF Fields, SizeOf
  <2> QED
    BY <2>1, <2>3, <2>4 DEF Stage
<1> QED
  BY <1>1, <1>2, <1>3, <1>4 DEF IsMessage

\* With the last unit of a field the reader gets to the next stage, and with the
\* last field of a message the program gets the message.
LEMMA StageRead ==
  ASSUME NEW m, IsMessage(m), Fits(m), NEW j, Stage(m, j), ReaderTyped,
         dir \in {"down", "up"}, Len(delivered) \in Nat,
         NEW units, units = FieldsOf(m)[j],
         ReadConfigField(units) \/ ReadType(units) \/ ReadClientField(units)
  PROVE  \/ j + 1 \in 1..Len(FieldsOf(m)) /\ GoesOn /\ Stage(m, j + 1)'
         \/ j = Len(FieldsOf(m)) /\ Took(m)
<1>1. CASE IsConfig(m)
  <2>1. PICK n \in Nat : n = Len(m.config)
    BY <1>1 DEF IsConfig, Configs
  <2>2. PICK G : G = FieldsOf(m) /\ Carries(m, G) /\ Len(G) = Lead(m) + 3 * n + 1
    BY <1>1, <2>1, ConfigFieldsIs DEF Carries
  <2>3. m.kind \in {"config", "HUP"} /\ Lead(m) \in {0, 1} /\ 3 * n \in Nat
    BY <1>1 DEF IsConfig, Lead
  <2>4. CASE m.kind = "HUP" /\ j = 1 /\ Waiting
    <3>1. GoesOn /\ Stage(m, 2)'
      BY <2>4, ReadCode
    <3>2. j + 1 = 2 /\ 2 \in 1..Len(G)
      BY <2>2, <2>3, <2>4 DEF Lead
    <3> QED
      BY <2>2, <2>4, <3>1, <3>2
  <2>5. CASE j = Lead(m) + 1 /\ field = "length" /\ msg = Partial(m, 0)
    <3>1. units = writeUInt(Len(m.config))
      BY <2>2, <2>5 DEF Carries
    <3>2. IF Len(m.config) = 0 THEN Took(m) ELSE GoesOn /\ InRequest(m, 1, 1)'
      BY <1>1, <2>5, <3>1, ReadLength
    <3>3. CASE n = 0
      <4>1. j = Len(G)
        BY <2>2, <2>3, <2>5, <3>3
      <4> QED
        BY <2>1, <2>2, <3>2, <3>3, <4>1
    <3>4. CASE n # 0
      <4>1. j + 1 = Lead(m) + 3 * 1 - 2 + 1 /\ j + 1 \in 1..Len(G) /\ 1 \in 1..Len(m.config)
        BY <2>1, <2>2, <2>3, <2>5, <3>4
      <4>2. GoesOn /\ InRequest(m, 1, 1)'
        BY <2>1, <3>2, <3>4
      <4>3. Stage(m, j + 1)'
        BY <1>1, <4>1, <4>2 DEF Stage
      <4> QED
        BY <2>2, <4>1, <4>2, <4>3
    <3> QED
      BY <3>3, <3>4
  <2>6. ASSUME NEW i \in 1..Len(m.config), NEW q \in 1..3, j = Lead(m) + 3 * i - 2 + q, InRequest(m, i, q)
        PROVE  \/ j + 1 \in 1..Len(G) /\ GoesOn /\ Stage(m, j + 1)'
               \/ j = Len(G) /\ Took(m)
    <3>1. units = RequestFields(m.config[i])[q]
      BY <2>2, <2>6 DEF Carries
    <3>2. IF q < 3 THEN GoesOn /\ InRequest(m, i, q + 1)'
          ELSE IF i < Len(m.config) THEN GoesOn /\ InRequest(m, i + 1, 1)'
          ELSE Took(m)
      BY <1>1, <2>6, <3>1, ReadRequest
    <3>3. i \in Nat /\ i >= 1 /\ i <= n /\ 3 * i >= 3 /\ 3 * i <= 3 * n /\ 3 * i \in Nat
      BY <2>1
    <3>4. CASE q < 3
      <4>1. j + 1 = Lead(m) + 3 * i - 2 + (q + 1) /\ q + 1 \in 1..3 /\ j + 1 \in 1..Len(G)
        BY <2>2, <2>3, <2>6, <3>3, <3>4, SMTT(60)
      <4>2. GoesOn /\ InRequest(m, i, q + 1)'
        BY <3>2, <3>4
      <4>3. Stage(m, j + 1)'
        BY <1>1, <4>1, <4>2 DEF Stage
      <4> QED
        BY <4>1, <4>2, <4>3
    <3>5. CASE q = 3 /\ i < n
      <4>1. PICK x, y, z \in Nat : x = 3 * i /\ y = 3 * (i + 1) /\ z = 3 * n /\ y = x + 3 /\ y <= z
        BY <3>3, <3>5
      <4>2. j + 1 = Lead(m) + 3 * (i + 1) - 2 + 1 /\ j + 1 \in 1..Len(G) /\ i + 1 \in 1..Len(m.config)
        <5>1. j = Lead(m) + x - 2 + 3 /\ Len(G) = Lead(m) + z + 1
          BY <2>2, <2>6, <3>5, <4>1
        <5>2. j + 1 = Lead(m) + y - 2 + 1 /\ j + 1 \in 1..Len(G)
          BY <2>3, <4>1, <5>1
        <5>3. i + 1 \in 1..Len(m.config)
          BY <2>1, <3>3, <3>5
        <5> QED
          BY <4>1, <5>2, <5>3
      <4>3. GoesOn /\ InRequest(m, i + 1, 1)'
        BY <2>1, <3>2, <3>5
      <4>4. Stage(m, j + 1)'
        BY <1>1, <4>2, <4>3 DEF Stage
      <4> QED
        BY <4>2, <4>3, <4>4
    <3>6. CASE q = 3 /\ ~ (i < n)
      <4>1. i = n
        BY <3>3, <3>6
      <4>2. j = Len(G)
        BY <2>2, <2>3, <2>6, <3>6, <4>1
      <4>3. Took(m)
        BY <2>1, <3>2, <3>6
      <4> QED
        BY <4>2, <4>3
    <3> QED
      BY <3>4, <3>5, <3>6
  <2> QED
    BY <1>1, <2>2, <2>4, <2>5, <2>6, ConfigStages
<1>2. CASE m = [kind |-> "INT"]
  <2>1. ~ IsConfig(m) /\ ~ IsLog(m) /\ ~ IsAck(m) /\ m.kind = "INT"
    BY <1>2 DEF IsConfig, IsLog, IsAck
  <2>2. j = 1 /\ Waiting
    BY <2>1 DEF Stage
  <2>3. Took(m)
    BY <2>1, <2>2, ReadCode
  <2> QED
    BY <1>2, <2>2, <2>3, FieldCount
<1>3. CASE IsLog(m)
  <2>1. ~ IsConfig(m) /\ ~ IsAck(m) /\ m.kind = "LOG" /\ Len(FieldsOf(m)) = 4
    BY <1>3, FieldCount DEF IsConfig, IsLog, IsAck
  <2>2. CASE j = 1 /\ Waiting
    <3>1. GoesOn /\ Stage(m, 2)'
      BY <2>1, <2>2, ReadCode
    <3> QED
      BY <2>1, <2>2, <3>1
  <2>3. CASE InLog(m, j)
    <3>1. j \in 2..4
      BY <2>3 DEF InLog
    <3>2. IF j < 4 THEN GoesOn /\ Stage(m, j + 1)' ELSE Took(m)
      BY <1>3, <2>3, <3>1, ReadLog
    <3> QED
      BY <2>1, <3>1, <3>2
  <2> QED
    BY <2>1, <2>2, <2>3 DEF Stage
<1>4. CASE IsAck(m)
  <2>1. ~ IsConfig(m) /\ ~ IsLog(m) /\ m.kind = "ACK" /\ Len(FieldsOf(m)) = 2
    BY <1>4, FieldCount DEF IsConfig, IsLog, IsAck
  <2>2. CASE j = 1 /\ Waiting
    <3>1. GoesOn /\ Stage(m, 2)'
      BY <2>1, <2>2, ReadCode
    <3> QED
      BY <2>1, <2>2, <3>1
  <2>3. CASE j = 2 /\ field = "count"
    <3>1. Took(m)
      BY <1>4, <2>3, ReadCount
    <3> QED
      BY <2>1, <2>3, <3>1
  <2> QED
    BY <2>1, <2>2, <2>3 DEF Stage
<1> QED
  BY <1>1, <1>2, <1>3, <1>4 DEF IsMessage

-----------------------------------------------------------------------------
(* The invariant.  The stream is all that was sent: the units T in fields F,  *)
(* off[i] units before the i-th, and the fields in messages, first[i] fields  *)
(* before the i-th.  The writer is at unit w, in field a; the kernel holds    *)
(* what is between p and e; the reader is at unit p, in field r, which is the *)
(* j-th of the message it reads, c.                                           *)

SentFields == [i \in 1..Len(sent) |-> FieldsOf(sent[i])]

Stream(first, F, off, T) == Layout(Field, SentFields, first, F) /\ Layout(Unit, F, off, T)

\* What the i-th message can be.
KindsAt(i) ==
    IF dir = "up" THEN {"LOG", "ACK"} ELSE IF i = 1 THEN {"config"} ELSE {"HUP", "INT"}

SentIs ==
    /\ dir \in {"down", "up"}
    /\ sent \in Seq(Messages) /\ Len(sent) <= MaxMessages
    /\ \A i \in 1..Len(sent) : sent[i].kind \in KindsAt(i)

WriterAt(F, off, T, a, w) ==
    /\ a \in 1..Len(F) + 1 /\ w \in 0..Len(T)
    /\ fields \in Seq(Field) /\ Len(fields) = Len(F) + 1 - a
    /\ \A i \in 2..Len(fields) : fields[i] = F[a + i - 1]
    /\ IF a = Len(F) + 1 THEN w = Len(T)
       ELSE off[a] <= w /\ w < off[a + 1] /\ fields[1] = Slice(T, w, off[a + 1])

NetAt(T, p, e, w) ==
    /\ p \in 0..e /\ e \in 0..w /\ w \in 0..Len(T)
    /\ net = Slice(T, p, e) /\ e - p <= Capacity
    /\ writer \in {"running", "dead"} /\ (writer = "running" => e = w)

ReaderAt(F, off, T, r, p) ==
    /\ r \in 1..Len(F) + 1 /\ p \in 0..Len(T) /\ off[r] <= p
    /\ got = Slice(T, off[r], p)
    /\ IF r = Len(F) + 1 THEN p = off[r] ELSE p < off[r + 1]

DeliveredAt(first, r, j, c) ==
    /\ delivered \in Seq(Messages) /\ Len(delivered) <= Len(sent)
    /\ \A i \in 1..Len(delivered) : delivered[i] = sent[i]
    /\ j \in Nat \ {0} /\ r = first[Len(delivered) + 1] + j
    /\ IF Len(delivered) = Len(sent) THEN j = 1 /\ Waiting
       ELSE c = sent[Len(delivered) + 1] /\ j <= Len(FieldsOf(c)) /\ Stage(c, j)
    /\ ReaderTyped

Places(first, F, off, T, a, w, p, e, r, j, c) ==
    /\ Stream(first, F, off, T)
    /\ WriterAt(F, off, T, a, w)
    /\ NetAt(T, p, e, w)
    /\ ReaderAt(F, off, T, r, p)
    /\ DeliveredAt(first, r, j, c)

WireInv ==
    /\ SentIs
    /\ \E first, F, off, T, a, w, p, e, r, j, c : Places(first, F, off, T, a, w, p, e, r, j, c)

\* What a layout says.
LEMMA LayoutFacts ==
  ASSUME NEW X, NEW P, NEW off, NEW t, Layout(X, P, off, t)
  PROVE  /\ t \in Seq(X) /\ Len(t) \in Nat /\ P \in Seq(Piece(X)) /\ Len(P) \in Nat
         /\ \A i \in 1..Len(P) + 1 : off[i] \in 0..Len(t)
         /\ off[1] = 0 /\ off[Len(P) + 1] = Len(t)
         /\ \A i \in 1..Len(P) : /\ P[i] \in Seq(X) /\ Len(P[i]) \in Nat \ {0}
                                 /\ off[i + 1] = off[i] + Len(P[i])
                                 /\ P[i] = Slice(t, off[i], off[i + 1])
<1>1. /\ P \in Seq(Piece(X)) /\ t \in Seq(X)
      /\ off \in [1..Len(P) + 1 -> 0..Len(t)] /\ off[1] = 0 /\ off[Len(P) + 1] = Len(t)
      /\ \A j \in 1..Len(P) : IsCut(P, off, t, j)
  BY DEF Layout
<1>2. ASSUME NEW i \in 1..Len(P)
      PROVE  P[i] \in Seq(X) /\ Len(P[i]) \in Nat \ {0}
  <2>1. P[i] \in Piece(X)
    BY <1>1
  <2>2. P[i] \in Seq(X) /\ P[i] # <<>>
    BY <2>1 DEF Piece
  <2> QED
    BY <2>2, EmptySeq
<1>3. ASSUME NEW i \in 1..Len(P)
      PROVE  off[i + 1] = off[i] + Len(P[i]) /\ P[i] = Slice(t, off[i], off[i + 1])
  BY <1>1 DEF IsCut
<1>4. Len(t) \in Nat /\ Len(P) \in Nat
  BY <1>1
<1>5. \A i \in 1..Len(P) + 1 : off[i] \in 0..Len(t)
  BY <1>1
<1> QED
  BY <1>1, <1>2, <1>3, <1>4, <1>5

\* The fields and the series of fields are pieces.
LEMMA PieceIs == Piece(Unit) = Field
  BY DEF Piece, Field

\* Every message that may be sent has a field at least.
LEMMA SentPieces ==
  ASSUME NEW m \in Messages
  PROVE  FieldsOf(m) \in Piece(Field) /\ Len(FieldsOf(m)) \in Nat \ {0}
<1>1. IsMessage(m)
  BY MessageShape
<1>2. FieldsOf(m) \in Seq(Field) /\ Len(FieldsOf(m)) \in Nat
  BY <1>1, FieldCount
<1>3. Len(FieldsOf(m)) # 0
  <2>1. CASE IsConfig(m)
    <3>1. Lead(m) \in {0, 1} /\ Len(m.config) \in Nat
      BY <2>1 DEF Lead, IsConfig, Configs
    <3>2. 3 * Len(m.config) \in Nat
      BY <3>1
    <3> QED
      BY <1>1, <2>1, <3>1, <3>2, FieldCount
  <2> QED
    BY <1>1, <2>1, FieldCount DEF IsMessage
<1>4. FieldsOf(m) # <<>>
  BY <1>2, <1>3, EmptySeq
<1> QED
  BY <1>2, <1>3, <1>4 DEF Piece

\* The field that the reader reads is the j-th of the message it reads.
LEMMA Current ==
  ASSUME NEW first, NEW F, NEW off, NEW T, NEW r, NEW p, NEW j, NEW c,
         SentIs, Stream(first, F, off, T), ReaderAt(F, off, T, r, p), DeliveredAt(first, r, j, c)
  PROVE  /\ Len(delivered) = Len(sent) => r = Len(F) + 1
         /\ Len(delivered) # Len(sent) =>
              /\ c \in Messages /\ IsMessage(c) /\ Fits(c)
              /\ r \in 1..Len(F) /\ F[r] = FieldsOf(c)[j]
              /\ first[Len(delivered) + 2] = first[Len(delivered) + 1] + Len(FieldsOf(c))
              /\ field \in Fields /\ SizeOf(field) = Len(F[r])
<1>1. PICK k \in Nat : k = Len(delivered)
  BY DEF DeliveredAt
<1>2. PICK n \in Nat : n = Len(sent)
  BY DEF SentIs
<1>3. PICK G : G = SentFields
  OBVIOUS
<1>4. Len(G) = n /\ \A i \in 1..n : G[i] = FieldsOf(sent[i])
  BY <1>2, <1>3 DEF SentFields
<1>5. Layout(Field, G, first, F)
  BY <1>3 DEF Stream
<1>6. F \in Seq(Field) /\ Len(F) \in Nat /\ first[n + 1] = Len(F)
  BY <1>4, <1>5, LayoutFacts
<1>7. r = first[k + 1] + j /\ k <= n /\ j \in Nat \ {0}
  BY <1>1, <1>2 DEF DeliveredAt
<1>8. CASE k = n
  <2>1. j = 1
    BY <1>1, <1>2, <1>8 DEF DeliveredAt
  <2> QED
    BY <1>1, <1>2, <1>6, <1>7, <1>8, <2>1
<1>9. CASE k # n
  <2>1. c = sent[k + 1]
    BY <1>1, <1>2, <1>9 DEF DeliveredAt
  <2>2. k + 1 \in 1..n
    BY <1>7, <1>9
  <2>3. c \in Messages
    BY <1>2, <2>1, <2>2 DEF SentIs
  <2>4. IsMessage(c)
    BY <2>3, MessageShape
  <2>5. Fits(c)
    BY <1>1, <1>2, <2>1, <2>2 DEF SentIs, KindsAt, Fits
  <2>6. j <= Len(FieldsOf(c)) /\ Stage(c, j) /\ dir \in {"down", "up"}
    BY <1>1, <1>2, <1>9, <2>1 DEF DeliveredAt, SentIs
  <2>7. PICK g : g = FieldsOf(c)
    OBVIOUS
  <2>8. /\ g \in Seq(Field) /\ Len(g) \in Nat
        /\ first[k + 2] = first[k + 1] + Len(g) /\ g = Slice(F, first[k + 1], first[k + 2])
        /\ first[k + 1] \in 0..Len(F) /\ first[k + 2] \in 0..Len(F)
    <3>1. G[k + 1] = g /\ k + 1 \in 1..Len(G) /\ k + 2 \in 1..Len(G) + 1 /\ k + 1 \in 1..Len(G) + 1
      BY <1>4, <2>1, <2>2, <2>7
    <3>2. first[(k + 1) + 1] = first[k + 1] + Len(g) /\ g = Slice(F, first[k + 1], first[(k + 1) + 1])
      BY <1>5, <3>1, LayoutFacts
    <3>3. first[k + 1] \in 0..Len(F) /\ first[k + 2] \in 0..Len(F) /\ (k + 1) + 1 = k + 2
      BY <1>5, <3>1, LayoutFacts
    <3>4. first[(k + 1) + 1] = first[k + 2]
      BY <3>3
    <3>5. g \in Seq(Field) /\ Len(g) \in Nat
      BY <2>4, <2>7, FieldCount
    <3> QED
      BY <3>2, <3>3, <3>4, <3>5
  <2>9. PICK x, y \in Nat : x = first[k + 1] /\ y = first[k + 2] /\ y = x + Len(g) /\ y <= Len(F)
    BY <1>6, <2>8
  <2>10. r \in 1..Len(F) /\ r = x + j /\ j \in 1..y - x
    <3>1. r = x + j /\ j \in Nat \ {0}
      BY <1>7, <2>9
    <3>2. j <= Len(g) /\ Len(g) \in Nat
      BY <2>6, <2>7, <2>8
    <3> QED
      BY <1>6, <2>9, <3>1, <3>2, SMTT(60)
  <2>11. F[r] = g[j]
    <3>1. x <= y /\ y <= Len(F)
      BY <2>8, <2>9
    <3>2. \A i \in 1..y - x : Slice(F, x, y)[i] = F[x + i]
      BY <1>6, <3>1, SliceIs
    <3> QED
      BY <2>8, <2>9, <2>10, <3>2
  <2>12. field \in Fields /\ SizeOf(field) = Len(g[j])
    BY <2>4, <2>5, <2>6, <2>7, StageSize
  <2> QED
    BY <1>1, <1>2, <1>9, <2>1, <2>3, <2>4, <2>5, <2>7, <2>8, <2>10, <2>11, <2>12
<1> QED
  BY <1>8, <1>9

\* The invariant has the types, and a clean stream between messages.
LEMMA Consequences == WireInv => TypeOK /\ CleanBetweenMessages
<1> SUFFICES ASSUME WireInv PROVE TypeOK /\ CleanBetweenMessages
  OBVIOUS
<1>1. PICK first, F, off, T, a, w, p, e, r, j, c : Places(first, F, off, T, a, w, p, e, r, j, c)
  BY DEF WireInv
<1>2. /\ SentIs /\ Stream(first, F, off, T) /\ WriterAt(F, off, T, a, w) /\ NetAt(T, p, e, w)
      /\ ReaderAt(F, off, T, r, p) /\ DeliveredAt(first, r, j, c)
  BY <1>1 DEF WireInv, Places
<1>3. /\ T \in Seq(Unit) /\ Len(T) \in Nat /\ F \in Seq(Field) /\ Len(F) \in Nat
      /\ \A i \in 1..Len(F) + 1 : off[i] \in 0..Len(T)
      /\ off[Len(F) + 1] = Len(T)
      /\ \A i \in 1..Len(F) : Len(F[i]) \in Nat \ {0} /\ off[i + 1] = off[i] + Len(F[i])
  BY <1>2, LayoutFacts, PieceIs DEF Stream
<1>4. p \in Nat /\ e \in Nat /\ w \in Nat /\ p <= e /\ e <= w /\ w <= Len(T) /\ r \in 1..Len(F) + 1
  BY <1>2, <1>3 DEF NetAt, ReaderAt
<1>5. net \in Seq(Unit) /\ Len(net) = e - p
  <2>0. T \in Seq(Unit) /\ e <= Len(T) /\ p <= e /\ p \in Nat /\ e \in Nat
    BY <1>3, <1>4
  <2>1. Slice(T, p, e) \in Seq(Unit) /\ Len(Slice(T, p, e)) = e - p
    BY <2>0, SliceIs
  <2> QED
    BY <1>2, <2>1 DEF NetAt
<1>6. PICK b \in Nat : b = off[r] /\ b <= p
  BY <1>2, <1>3, <1>4 DEF ReaderAt
<1>7. got \in Seq(Unit) /\ Len(got) = p - b
  <2>1. b <= p /\ p <= Len(T) /\ p \in Nat /\ T \in Seq(Unit)
    BY <1>3, <1>4, <1>6
  <2>2. Slice(T, b, p) \in Seq(Unit) /\ Len(Slice(T, b, p)) = p - b
    BY <2>1, SliceIs
  <2> QED
    BY <1>2, <1>6, <2>2 DEF ReaderAt
<1>8. CASE Len(delivered) = Len(sent)
  <2>0. r = Len(F) + 1
    BY <1>2, <1>8, Current
  <2>1. r = Len(F) + 1 /\ p = b /\ b = Len(T)
    BY <1>2, <1>3, <1>6, <2>0 DEF ReaderAt
  <2>2. e = p /\ w = p
    BY <1>4, <2>1
  <2>3. net = <<>> /\ got = <<>>
    BY <1>5, <1>7, <2>1, <2>2, EmptySeq
  <2>4. fields = <<>>
    <3>1. a = Len(F) + 1
      <4> SUFFICES ASSUME a \in 1..Len(F) PROVE FALSE
        BY <1>2, <1>3 DEF WriterAt
      <4>1. w < off[a + 1] /\ off[a + 1] \in 0..Len(T)
        BY <1>2, <1>3 DEF WriterAt
      <4> QED
        BY <1>3, <1>4, <2>1, <2>2, <4>1
    <3>2. fields \in Seq(Field) /\ Len(fields) = 0
      BY <1>2, <1>3, <3>1 DEF WriterAt
    <3> QED
      BY <3>2, EmptySeq
  <2>5. field \in {"length", "type", "code"}
    BY <1>2, <1>8 DEF DeliveredAt, Waiting
  <2>6. field \in Fields /\ SizeOf(field) \in {1, 2}
    BY <2>5 DEF Fields, SizeOf
  <2>7. Len(got) < SizeOf(field)
    BY <1>7, <2>1, <2>6
  <2>8. CleanBetweenMessages
    BY <2>3, <2>4 DEF CleanBetweenMessages
  <2>9. field \in Fields /\ Len(got) < SizeOf(field) /\ CleanBetweenMessages
    BY <2>6, <2>7, <2>8
  <2> HIDE DEF CleanBetweenMessages
  <2>10. TypeOK
    <3>1. dir \in {"down", "up"} /\ Len(sent) <= MaxMessages /\ Len(delivered) <= MaxMessages
      BY <1>2, <1>8 DEF SentIs
    <3>2. \A i \in DOMAIN fields : fields[i] \in Seq(Unit) \ {<<>>}
      BY <2>4
    <3>3. Len(net) <= Capacity
      BY <1>2, <1>5 DEF NetAt
    <3> QED
      BY <1>2, <1>5, <1>7, <2>9, <3>1, <3>2, <3>3 DEF TypeOK, NetAt, DeliveredAt, ReaderTyped
  <2> QED
    BY <2>8, <2>10
<1>9. CASE Len(delivered) # Len(sent)
  <2>1. r \in 1..Len(F) /\ field \in Fields /\ SizeOf(field) = Len(F[r])
    BY <1>2, <1>9, Current
  <2>2. p < off[r + 1] /\ off[r + 1] = b + Len(F[r]) /\ Len(F[r]) \in Nat
    BY <1>2, <1>3, <1>6, <2>1 DEF ReaderAt
  <2>3. Len(got) < SizeOf(field)
    BY <1>4, <1>6, <1>7, <2>1, <2>2, SMTT(60)
  <2>4. CleanBetweenMessages
    BY <1>9 DEF CleanBetweenMessages
  <2>5. dir \in {"down", "up"} /\ Len(sent) <= MaxMessages /\ Len(delivered) <= MaxMessages
    BY <1>2, WireAssumption DEF SentIs, DeliveredAt
  <2>6. \A i \in DOMAIN fields : fields[i] \in Seq(Unit) \ {<<>>}
    BY <1>2 DEF WriterAt, Field
  <2>7. Len(net) <= Capacity
    BY <1>2, <1>5 DEF NetAt
  <2>8. TypeOK
    BY <1>2, <1>5, <1>7, <2>1, <2>3, <2>5, <2>6, <2>7 DEF TypeOK, NetAt, DeliveredAt, ReaderTyped
  <2> QED
    BY <2>4, <2>8
<1> QED
  BY <1>8, <1>9

\* Nothing, in no pieces.
LEMMA EmptyLayout ==
  ASSUME NEW X, NEW P, P = <<>>, NEW off, off = [i \in 1..1 |-> 0]
  PROVE  Layout(X, P, off, <<>>)
<1>1. P \in Seq(Piece(X)) /\ Len(P) = 0 /\ <<>> \in Seq(X) /\ Len(<<>>) = 0
  BY EmptySeq
<1>2. off \in [1..Len(P) + 1 -> 0..Len(<<>>)] /\ off[1] = 0 /\ off[Len(P) + 1] = 0
  BY <1>1
<1> QED
  BY <1>1, <1>2 DEF Layout

\* At the beginning nothing has been sent.
LEMMA Begins == Init => WireInv
<1> SUFFICES ASSUME Init PROVE WireInv
  OBVIOUS
<1>1. /\ dir \in {"down", "up"} /\ sent = <<>> /\ fields = <<>> /\ net = <<>> /\ got = <<>>
      /\ delivered = <<>> /\ writer = "running" /\ reader = "running" /\ left = 0 /\ size = 0
  BY DEF Init
<1>2. PICK off : off = [i \in 1..1 |-> 0]
  OBVIOUS
<1>3. PICK F : F = <<>>
  OBVIOUS
<1>4. F \in Seq(Field) /\ F \in Seq(Unit) /\ Len(F) = 0 /\ F \in Seq(Messages)
  BY <1>3, EmptySeq
<1>5. SentIs
  BY <1>1, <1>3, <1>4, WireAssumption DEF SentIs
<1>6. Stream(off, F, off, F)
  <2>1. SentFields = <<>>
    BY <1>1 DEF SentFields
  <2>2. Layout(Field, SentFields, off, <<>>) /\ Layout(Unit, F, off, <<>>)
    BY <1>2, <1>3, <2>1, EmptyLayout
  <2> QED
    BY <1>3, <2>2 DEF Stream
<1>7. off[1] = 0
  BY <1>2
<1>8. Slice(F, 0, 0) = <<>>
  <2>1. PICK z \in Nat : z = 0 /\ z <= Len(F)
    BY <1>4
  <2>2. z <= Len(F)
    BY <2>1
  <2>3. Slice(F, 0, z) \in Seq(Unit) /\ Len(Slice(F, 0, z)) = z
    BY <1>4, <2>2, PrefixIs, ZenonT(60)
  <2> QED
    BY <2>1, <2>3, EmptySeq
<1>9. WriterAt(F, off, F, 1, 0)
  BY <1>1, <1>3, <1>4 DEF WriterAt
<1>10. NetAt(F, 0, 0, 0)
  BY <1>1, <1>4, <1>8, WireAssumption DEF NetAt
<1>11. ReaderAt(F, off, F, 1, 0)
  BY <1>1, <1>4, <1>7, <1>8 DEF ReaderAt
<1>12. DeliveredAt(off, 1, 1, 0)
  <2>1. Waiting
    BY <1>1, <1>3, <1>4 DEF Waiting, Init
  <2>2. ReaderTyped
    BY <1>1, UMaxType DEF ReaderTyped
  <2> QED
    BY <1>1, <1>3, <1>4, <1>7, <2>1, <2>2 DEF DeliveredAt
<1>13. Places(off, F, off, F, 1, 0, 0, 0, 1, 1, 0)
  BY <1>6, <1>9, <1>10, <1>11, <1>12 DEF Places
<1> QED
  BY <1>5, <1>13 DEF WireInv

\* The kernel drops the end of what it holds.
LEMMA Dropped ==
  ASSUME WireInv, WriterEnds, writer = "running"
  PROVE  WireInv'
<1>1. PICK first, F, off, T, a, w, p, e, r, j, c : Places(first, F, off, T, a, w, p, e, r, j, c)
  BY DEF WireInv
<1>2. /\ SentIs /\ Stream(first, F, off, T) /\ WriterAt(F, off, T, a, w) /\ NetAt(T, p, e, w)
      /\ ReaderAt(F, off, T, r, p) /\ DeliveredAt(first, r, j, c)
  BY <1>1 DEF WireInv, Places
<1>3. T \in Seq(Unit) /\ Len(T) \in Nat
  BY <1>2, LayoutFacts DEF Stream
<1>4. UNCHANGED <<dir, sent, fields, field, got, msg, left, size, delivered, reader>> /\ writer' = "dead"
  BY DEF WriterEnds, readerVars
<1>5. p \in Nat /\ e \in Nat /\ w \in Nat /\ p <= e /\ e <= w /\ w <= Len(T)
      /\ net = Slice(T, p, e) /\ e - p <= Capacity
  BY <1>2, <1>3 DEF NetAt
<1>6. Len(net) = e - p
  <2>1. T \in Seq(Unit) /\ e <= Len(T) /\ p <= e /\ p \in Nat /\ e \in Nat
    BY <1>3, <1>5
  <2>2. Len(Slice(T, p, e)) = e - p
    BY <2>1, SliceIs
  <2> QED
    BY <1>5, <2>2
<1>7. PICK n \in 0..Len(net) : net' = SubSeq(net, 1, n)
  BY DEF WriterEnds
<1>8. n \in Nat /\ n <= e - p
  BY <1>5, <1>6, <1>7
<1>9. net' = Slice(T, p, p + n)
  <2>1. PICK z \in Nat : z = 0
    OBVIOUS
  <2>2. e <= Len(T) /\ z <= n
    BY <1>5, <1>8, <2>1
  <2>3. Slice(Slice(T, p, e), z, n) = Slice(T, p + z, p + n)
    BY <1>3, <1>5, <1>8, <2>2, SliceOfSlice
  <2>4. net' = Slice(net, z, n)
    BY <1>7, <2>1 DEF Slice
  <2>5. p + z = p
    BY <1>5, <2>1
  <2> QED
    BY <1>5, <2>3, <2>4, <2>5
<1>10. NetAt(T, p, p + n, w)'
  BY <1>4, <1>5, <1>8, <1>9, WireAssumption DEF NetAt
<1>11. SentIs' /\ Stream(first, F, off, T)'
  BY <1>2, <1>4 DEF SentIs, KindsAt, Stream, SentFields
<1>12. WriterAt(F, off, T, a, w)' /\ ReaderAt(F, off, T, r, p)'
  BY <1>2, <1>4 DEF WriterAt, ReaderAt
<1>13. DeliveredAt(first, r, j, c)'
  BY <1>2, <1>4 DEF DeliveredAt, Waiting, Stage, InRequest, InLog, ReaderTyped
<1>14. Places(first, F, off, T, a, w, p, p + n, r, j, c)'
  BY <1>10, <1>11, <1>12, <1>13 DEF Places
<1> QED
  BY <1>11, <1>14 DEF WireInv

\* The reader is killed.
LEMMA ReaderKilled ==
  ASSUME WireInv, ReaderDies
  PROVE  WireInv'
<1>1. PICK first, F, off, T, a, w, p, e, r, j, c : Places(first, F, off, T, a, w, p, e, r, j, c)
  BY DEF WireInv
<1>2. /\ SentIs /\ Stream(first, F, off, T) /\ WriterAt(F, off, T, a, w) /\ NetAt(T, p, e, w)
      /\ ReaderAt(F, off, T, r, p) /\ DeliveredAt(first, r, j, c)
  BY <1>1 DEF WireInv, Places
<1>3. UNCHANGED <<dir, sent, fields, net, field, got, msg, left, size, delivered, writer>> /\ reader' = "dead"
  BY DEF ReaderDies
<1>4. SentIs' /\ Stream(first, F, off, T)'
  BY <1>2, <1>3 DEF SentIs, KindsAt, Stream, SentFields
<1>5. WriterAt(F, off, T, a, w)' /\ ReaderAt(F, off, T, r, p)' /\ NetAt(T, p, e, w)'
  BY <1>2, <1>3 DEF WriterAt, ReaderAt, NetAt
<1>6. DeliveredAt(first, r, j, c)'
  BY <1>2, <1>3 DEF DeliveredAt, Waiting, Stage, InRequest, InLog, ReaderTyped
<1>7. Places(first, F, off, T, a, w, p, e, r, j, c)'
  BY <1>4, <1>5, <1>6 DEF Places
<1> QED
  BY <1>4, <1>7 DEF WireInv

\* The next message makes the stream longer.
LEMMA Sends ==
  ASSUME WireInv, NEW m \in Messages, m.kind \in KindsAt(Len(sent) + 1), Send(m)
  PROVE  WireInv'
<1>1. PICK first, F, off, T, a, w, p, e, r, j, c : Places(first, F, off, T, a, w, p, e, r, j, c)
  BY DEF WireInv
<1>2. /\ SentIs /\ Stream(first, F, off, T) /\ WriterAt(F, off, T, a, w) /\ NetAt(T, p, e, w)
      /\ ReaderAt(F, off, T, r, p) /\ DeliveredAt(first, r, j, c)
  BY <1>1 DEF WireInv, Places
<1>3. /\ UNCHANGED <<dir, net, field, got, msg, left, size, delivered, writer, reader>>
      /\ sent' = Append(sent, m) /\ fields' = FieldsOf(m) /\ fields = <<>> /\ Len(sent) < MaxMessages
  BY DEF Send, readerVars
<1>4. PICK n \in Nat : n = Len(sent)
  BY <1>2 DEF SentIs
<1>5. /\ sent' \in Seq(Messages) /\ Len(sent') = n + 1 /\ sent'[n + 1] = m
      /\ \A i \in 1..n : sent'[i] = sent[i]
  BY <1>2, <1>3, <1>4, AppendProperties DEF SentIs
<1>6. SentIs'
  <2>1. Len(sent') <= MaxMessages
    BY <1>3, <1>4, <1>5, WireAssumption
  <2>2. \A i \in 1..n + 1 : sent'[i].kind \in KindsAt(i)
    BY <1>2, <1>4, <1>5 DEF SentIs
  <2>3. \A i \in 1..n + 1 : KindsAt(i)' = KindsAt(i)
    BY <1>3 DEF KindsAt
  <2> QED
    BY <1>2, <1>3, <1>5, <2>1, <2>2, <2>3 DEF SentIs
<1>7. PICK g : g = FieldsOf(m)
  OBVIOUS
<1>8. g \in Piece(Field) /\ Len(g) \in Nat \ {0} /\ g \in Seq(Field)
  BY <1>7, SentPieces DEF Piece
<1>9. PICK G : G = SentFields
  OBVIOUS
<1>10. Layout(Field, G, first, F) /\ Layout(Unit, F, off, T) /\ Len(G) = n
  BY <1>2, <1>4, <1>9 DEF Stream, SentFields
<1>11. SentFields' = Append(G, g)
  <2>1. G \in Seq(Piece(Field))
    BY <1>10, LayoutFacts
  <2>2. PICK H : H = Append(G, g)
    OBVIOUS
  <2>3. H \in Seq(Piece(Field)) /\ Len(H) = n + 1 /\ H[n + 1] = g /\ \A i \in 1..n : H[i] = G[i]
    BY <1>8, <1>10, <2>1, <2>2, AppendProperties
  <2>4. PICK K : K = [i \in 1..n + 1 |-> FieldsOf(sent'[i])]
    OBVIOUS
  <2>5. \A i \in 1..n + 1 : H[i] = K[i]
    BY <1>4, <1>5, <1>7, <1>9, <2>3, <2>4 DEF SentFields
  <2>6. H = K
    <3>1. H \in [1..n + 1 -> Piece(Field)]
      BY <2>3, LenProperties
    <3>2. H = [i \in 1..n + 1 |-> H[i]]
      BY <3>1
    <3> QED
      BY <2>4, <2>5, <3>2
  <2>7. SentFields' = K
    BY <1>5, <2>4 DEF SentFields
  <2> QED
    BY <2>2, <2>6, <2>7
<1>12. PICK first2 : Continues(Field, Append(G, g), first2, F \o g, G, first, F)
  BY <1>8, <1>10, AppendPiece
<1>13. PICK F2 : F2 = F \o g
  OBVIOUS
<1>14. F \in Seq(Field) /\ Len(F) \in Nat
  BY <1>10, LayoutFacts
<1>15. /\ F2 \in Seq(Field) /\ Len(F2) = Len(F) + Len(g)
       /\ \A i \in 1..Len(F) + Len(g) : F2[i] = IF i <= Len(F) THEN F[i] ELSE g[i - Len(F)]
  BY <1>8, <1>13, <1>14, ConcatProperties
<1>16. /\ Layout(Field, SentFields', first2, F2) /\ Extends(F2, F)
       /\ \A i \in 1..n + 1 : first2[i] = first[i]
  BY <1>10, <1>11, <1>12, <1>13 DEF Continues
<1>17. PICK off2, T2 : Continues(Unit, F2, off2, T2, F, off, T)
  BY <1>10, <1>15, <1>16, PieceIs, AppendPieces
<1>18. /\ Layout(Unit, F2, off2, T2) /\ Extends(T2, T)
       /\ \A i \in 1..Len(F) + 1 : off2[i] = off[i]
  BY <1>17 DEF Continues
<1>19. /\ T \in Seq(Unit) /\ Len(T) \in Nat /\ off[Len(F) + 1] = Len(T)
       /\ \A i \in 1..Len(F) + 1 : off[i] \in 0..Len(T)
  BY <1>10, LayoutFacts
<1>20. T2 \in Seq(Unit) /\ Len(T2) \in Nat /\ Len(T) <= Len(T2)
  BY <1>18, LayoutFacts DEF Extends
<1>21. Stream(first2, F2, off2, T2)'
  BY <1>16, <1>18 DEF Stream
<1>22. PICK x \in Nat : x = Len(F) + 1
  BY <1>14
<1>23. a = x /\ w = Len(T)
  <2>1. Len(fields) = 0
    BY <1>3
  <2>2. a \in 1..Len(F) + 1 /\ Len(fields) = Len(F) + 1 - a
    BY <1>2 DEF WriterAt
  <2>3. a = Len(F) + 1
    BY <1>14, <2>1, <2>2
  <2> QED
    BY <1>2, <1>22, <2>3 DEF WriterAt
<1>24. x \in 1..Len(F2) /\ off2[x] = w /\ off2[x + 1] = off2[x] + Len(F2[x])
       /\ F2[x] = Slice(T2, off2[x], off2[x + 1]) /\ Len(F2[x]) \in Nat \ {0}
  <2>1. x \in 1..Len(F2)
    BY <1>8, <1>14, <1>15, <1>22
  <2>2. off2[x] = w
    BY <1>14, <1>18, <1>19, <1>22, <1>23
  <2> QED
    BY <1>18, <2>1, <2>2, LayoutFacts
<1>25. WriterAt(F2, off2, T2, a, w)'
  <2>1. fields' = g
    BY <1>3, <1>7
  <2>2. a \in 1..Len(F2) + 1 /\ a # Len(F2) + 1 /\ w \in 0..Len(T2)
    BY <1>15, <1>14, <1>19, <1>20, <1>23, <1>24, SMTT(60)
  <2>3. Len(g) = Len(F2) + 1 - a
    BY <1>8, <1>14, <1>15, <1>22, <1>23
  <2>4. ASSUME NEW i \in 1..Len(g) PROVE g[i] = F2[a + i - 1]
    <3>1. PICK l : l = a + i - 1
      OBVIOUS
    <3>2. l \in 1..Len(F) + Len(g) /\ ~ (l <= Len(F)) /\ l - Len(F) = i
      BY <1>8, <1>14, <1>22, <1>23, <3>1
    <3> QED
      BY <1>15, <3>1, <3>2
  <2>5. g[1] = Slice(T2, w, off2[a + 1])
    <3>1. g[1] = F2[a + 1 - 1] /\ a + 1 - 1 = x
      BY <1>8, <1>23, <2>4
    <3> QED
      BY <1>23, <1>24, <3>1
  <2>6. off2[a] <= w /\ w < off2[a + 1]
    BY <1>19, <1>23, <1>24
  <2>7. \A i \in 2..Len(g) : g[i] = F2[a + i - 1]
    BY <1>8, <2>4
  <2> QED
    BY <1>8, <2>1, <2>2, <2>3, <2>5, <2>6, <2>7 DEF WriterAt
<1>26. NetAt(T2, p, e, w)'
  <2>1. p \in Nat /\ e \in Nat /\ p <= e /\ e <= Len(T) /\ w \in 0..Len(T2)
    BY <1>2, <1>19, <1>20, <1>23 DEF NetAt
  <2>2. Slice(T2, p, e) = Slice(T, p, e)
    BY <1>18, <1>19, <1>20, <2>1, SliceSame
  <2> QED
    BY <1>2, <1>3, <2>1, <2>2 DEF NetAt
<1>27. ReaderAt(F2, off2, T2, r, p)'
  <2>1. r \in Nat /\ r \in 1..Len(F) + 1 /\ p \in Nat /\ p <= Len(T) /\ off[r] \in Nat /\ off[r] <= p
        /\ off2[r] = off[r]
    BY <1>2, <1>14, <1>18, <1>19 DEF ReaderAt
  <2>2. PICK b \in Nat : b = off[r] /\ b <= p
    BY <2>1
  <2>3. Slice(T2, b, p) = Slice(T, b, p)
    <3>1. b <= p /\ p <= Len(T) /\ p \in Nat
      BY <2>1, <2>2
    <3> QED
      BY <1>18, <1>19, <1>20, <3>1, SliceSame
  <2>4. got' = Slice(T2, off2[r], p)
    BY <1>2, <1>3, <2>1, <2>2, <2>3 DEF ReaderAt
  <2>5. r \in 1..Len(F2) /\ r # Len(F2) + 1
    BY <1>8, <1>14, <1>15, <2>1
  <2>6. p < off2[r + 1]
    <3>1. CASE r = Len(F) + 1
      <4>1. p = Len(T) /\ r = x
        BY <1>2, <1>19, <1>22, <3>1 DEF ReaderAt
      <4> QED
        BY <1>19, <1>23, <1>24, <4>1
    <3>2. CASE r # Len(F) + 1
      <4>1. p < off[r + 1] /\ r + 1 \in 1..Len(F) + 1
        BY <1>2, <1>14, <2>1, <3>2 DEF ReaderAt
      <4> QED
        BY <1>18, <4>1
    <3> QED
      BY <3>1, <3>2
  <2> QED
    BY <1>14, <1>15, <1>20, <2>1, <2>4, <2>5, <2>6 DEF ReaderAt
<1>28. PICK d : d = IF Len(delivered) = n THEN m ELSE c
  OBVIOUS
<1>29. DeliveredAt(first2, r, j, d)'
  <2>1. PICK k \in Nat : k = Len(delivered)
    BY <1>2 DEF DeliveredAt
  <2>2. k <= n /\ k # n + 1 /\ k + 1 \in 1..n + 1
    BY <1>2, <1>4, <2>1 DEF DeliveredAt
  <2>3. first2[k + 1] = first[k + 1]
    BY <1>16, <2>2
  <2>4. \A i \in 1..k : delivered'[i] = sent'[i]
    BY <1>2, <1>3, <1>5, <2>1, <2>2 DEF DeliveredAt
  <2>5. Stage(d, j)' <=> Stage(d, j)
    BY <1>3 DEF Stage, Waiting, InRequest, InLog
  <2>6. d = sent'[k + 1] /\ j <= Len(FieldsOf(d)) /\ Stage(d, j)'
    <3>1. CASE k = n
      <4>1. d = m /\ j = 1 /\ Waiting
        BY <1>2, <1>4, <1>28, <2>1, <3>1 DEF DeliveredAt
      <4>2. Stage(d, j)
        BY <4>1 DEF Stage
      <4>3. j <= Len(FieldsOf(d))
        BY <1>7, <1>8, <4>1
      <4>4. d = sent'[k + 1]
        BY <1>5, <3>1, <4>1
      <4> QED
        BY <2>5, <4>2, <4>3, <4>4
    <3>2. CASE k # n
      <4>1. d = c /\ c = sent[k + 1] /\ j <= Len(FieldsOf(c)) /\ Stage(c, j)
        BY <1>2, <1>4, <1>28, <2>1, <3>2 DEF DeliveredAt
      <4>2. d = sent'[k + 1]
        BY <1>5, <2>2, <3>2, <4>1
      <4> QED
        BY <2>5, <4>1, <4>2
    <3> QED
      BY <3>1, <3>2
  <2>7. ReaderTyped'
    BY <1>2, <1>3 DEF DeliveredAt, ReaderTyped
  <2>8. delivered' \in Seq(Messages) /\ Len(delivered') = k /\ k <= n + 1
    BY <1>2, <1>3, <2>1, <2>2 DEF DeliveredAt
  <2>9. j \in Nat \ {0} /\ r = first2[k + 1] + j
    BY <1>2, <2>1, <2>3 DEF DeliveredAt
  <2> QED
    BY <1>5, <2>2, <2>4, <2>6, <2>7, <2>8, <2>9 DEF DeliveredAt
<1>30. Places(first2, F2, off2, T2, a, w, p, e, r, j, d)'
  BY <1>21, <1>25, <1>26, <1>27, <1>29 DEF Places
<1> QED
  BY <1>6, <1>30 DEF WireInv

\* A write moves n units of the field into the kernel.
LEMMA Writes ==
  ASSUME WireInv, Write
  PROVE  WireInv'
<1>1. PICK first, F, off, T, a, w, p, e, r, j, c : Places(first, F, off, T, a, w, p, e, r, j, c)
  BY DEF WireInv
<1>2. /\ SentIs /\ Stream(first, F, off, T) /\ WriterAt(F, off, T, a, w) /\ NetAt(T, p, e, w)
      /\ ReaderAt(F, off, T, r, p) /\ DeliveredAt(first, r, j, c)
  BY <1>1 DEF WireInv, Places
<1>3. /\ UNCHANGED <<dir, sent, field, got, msg, left, size, delivered, reader, writer>>
      /\ writer = "running" /\ fields # <<>>
  BY DEF Write, readerVars
<1>4. PICK n \in 1..Len(Head(fields)) :
         /\ Len(net) + n <= Capacity
         /\ net' = net \o SubSeq(Head(fields), 1, n)
         /\ fields' = IF n = Len(Head(fields)) THEN Tail(fields)
                      ELSE <<Rest(Head(fields), n)>> \o Tail(fields)
  BY DEF Write
<1>5. /\ T \in Seq(Unit) /\ Len(T) \in Nat /\ F \in Seq(Field) /\ Len(F) \in Nat
      /\ \A i \in 1..Len(F) + 1 : off[i] \in 0..Len(T)
      /\ off[Len(F) + 1] = Len(T)
      /\ \A i \in 1..Len(F) : /\ Len(F[i]) \in Nat \ {0} /\ off[i + 1] = off[i] + Len(F[i])
                              /\ F[i] = Slice(T, off[i], off[i + 1])
  BY <1>2, LayoutFacts, PieceIs DEF Stream
<1>6. PICK l \in Nat \ {0} : l = Len(fields)
  BY <1>2, <1>3, EmptySeq DEF WriterAt
<1>7. fields \in Seq(Field) /\ fields[1] \in Field
  BY <1>2, <1>6 DEF WriterAt
<1>8. PICK h : h = fields[1]
  OBVIOUS
<1>9. Head(fields) = h
  BY <1>8
<1>10. a \in 1..Len(F) /\ l = Len(F) + 1 - a
  BY <1>2, <1>5, <1>6 DEF WriterAt
<1>11. PICK b \in Nat : b = off[a + 1] /\ b <= Len(T)
  BY <1>5, <1>10
<1>12. w \in Nat /\ off[a] \in Nat /\ off[a] <= w /\ w < b /\ h = Slice(T, w, b)
  BY <1>2, <1>5, <1>8, <1>10, <1>11 DEF WriterAt
<1>13. h \in Seq(Unit) /\ Len(h) = b - w
  <2>1. T \in Seq(Unit) /\ w \in Nat /\ b \in Nat /\ w <= b /\ b <= Len(T)
    BY <1>5, <1>11, <1>12
  <2>2. Slice(T, w, b) \in Seq(Unit) /\ Len(Slice(T, w, b)) = b - w
    BY <2>1, SliceIs
  <2> QED
    BY <1>12, <2>2
<1>14. n \in Nat /\ n >= 1 /\ n <= b - w
  BY <1>4, <1>9, <1>11, <1>12, <1>13
<1>15. PICK v \in Nat : v = w + n /\ w <= v /\ v <= b
  BY <1>11, <1>12, <1>14
<1>16. p \in Nat /\ e = w /\ p <= w /\ net = Slice(T, p, w)
  BY <1>2, <1>3, <1>12 DEF NetAt
<1>17. Len(net) = w - p
  <2>1. T \in Seq(Unit) /\ p \in Nat /\ w \in Nat /\ p <= w /\ w <= Len(T)
    BY <1>5, <1>11, <1>12, <1>16
  <2>2. Len(Slice(T, p, w)) = w - p
    BY <2>1, SliceIs
  <2> QED
    BY <1>16, <2>2
<1>18. net' = Slice(T, p, v)
  <2>1. PICK z \in Nat : z = 0 /\ z <= n
    BY <1>14
  <2>2. w <= b /\ z <= n
    BY <1>12, <2>1
  <2>3. Slice(Slice(T, w, b), z, n) = Slice(T, w + z, w + n)
    BY <1>5, <1>11, <1>12, <1>14, <2>2, SliceOfSlice
  <2>4. SubSeq(h, 1, n) = Slice(h, z, n)
    BY <2>1 DEF Slice
  <2>5. w + z = w
    BY <1>12, <2>1
  <2>6. SubSeq(h, 1, n) = Slice(T, w, v)
    BY <1>12, <1>15, <2>3, <2>4, <2>5
  <2>7. T \in Seq(Unit) /\ p \in Nat /\ w \in Nat /\ p <= w /\ w <= v /\ v <= Len(T)
    BY <1>5, <1>11, <1>12, <1>15, <1>16
  <2>8. Slice(T, p, w) \o Slice(T, w, v) = Slice(T, p, v)
    BY <2>7, SliceJoin
  <2> QED
    BY <1>4, <1>9, <1>16, <2>6, <2>8
<1>19. NetAt(T, p, v, v)'
  <2>1. v <= Len(T) /\ p <= v
    BY <1>11, <1>12, <1>15, <1>16
  <2>2. v - p <= Capacity
    <3>1. (w - p) + n <= Capacity /\ Capacity \in Nat
      BY <1>4, <1>17, WireAssumption
    <3>2. v - p = (w - p) + n
      BY <1>12, <1>14, <1>15, <1>16
    <3> QED
      BY <3>1, <3>2
  <2> QED
    BY <1>3, <1>5, <1>15, <1>16, <1>18, <2>1, <2>2 DEF NetAt
<1>20. SentIs' /\ Stream(first, F, off, T)'
  BY <1>2, <1>3 DEF SentIs, KindsAt, Stream, SentFields
<1>21. ReaderAt(F, off, T, r, p)'
  BY <1>2, <1>3 DEF ReaderAt
<1>22. DeliveredAt(first, r, j, c)'
  BY <1>2, <1>3 DEF DeliveredAt, Waiting, Stage, InRequest, InLog, ReaderTyped
<1>23. PICK tail : tail = Tail(fields)
  OBVIOUS
<1>24. tail \in Seq(Field) /\ Len(tail) = l - 1 /\ \A i \in 1..l - 1 : tail[i] = F[a + i]
  <2>1. tail \in Seq(Field) /\ Len(tail) = l - 1 /\ \A i \in 1..l - 1 : tail[i] = fields[i + 1]
    BY <1>3, <1>6, <1>7, <1>23, HeadTailProperties
  <2>2. ASSUME NEW i \in 1..l - 1 PROVE fields[i + 1] = F[a + i]
    <3>1. PICK x : x = i + 1
      OBVIOUS
    <3>2. x \in 2..Len(fields) /\ a + x - 1 = a + i
      BY <1>6, <1>10, <3>1
    <3> QED
      BY <1>2, <3>1, <3>2 DEF WriterAt
  <2> QED
    BY <2>1, <2>2
<1>25. CASE n = b - w
  <2>0. n = Len(Head(fields))
    BY <1>9, <1>13, <1>25
  <2>1. fields' = tail /\ v = b
    <3>1. fields' = tail
      BY <1>4, <1>23, <2>0
    <3>2. v = b
      BY <1>12, <1>15, <1>25
    <3> QED
      BY <3>1, <3>2
  <2>2. PICK y \in Nat : y = a + 1
    BY <1>10
  <2>3. y \in 1..Len(F) + 1 /\ Len(tail) = Len(F) + 1 - y /\ v = off[y] /\ v \in 0..Len(T)
    BY <1>5, <1>10, <1>11, <1>24, <2>1, <2>2
  <2>4. \A i \in 1..Len(tail) : tail[i] = F[y + i - 1]
    <3> SUFFICES ASSUME NEW i \in 1..Len(tail) PROVE tail[i] = F[y + i - 1]
      OBVIOUS
    <3>1. y + i - 1 = a + i /\ i \in 1..l - 1
      BY <1>10, <1>24, <2>2
    <3> QED
      BY <1>24, <3>1
  <2>5. CASE y = Len(F) + 1
    <3>1. v = Len(T)
      BY <1>5, <2>3, <2>5
    <3> QED
      <4>1. WriterAt(F, off, T, y, v)'
        BY <1>24, <2>1, <2>3, <2>4, <2>5, <3>1 DEF WriterAt
      <4>2. Places(first, F, off, T, y, v, p, v, r, j, c)'
        BY <1>19, <1>20, <1>21, <1>22, <4>1 DEF Places
      <4> QED
        BY <1>20, <4>2 DEF WireInv
  <2>6. CASE y # Len(F) + 1
    <3>1. y \in 1..Len(F) /\ 1 \in 1..Len(tail) /\ y + 1 - 1 = y
      BY <1>5, <2>2, <2>3, <2>6
    <3>2. /\ off[y + 1] = off[y] + Len(F[y]) /\ Len(F[y]) \in Nat \ {0}
          /\ F[y] = Slice(T, off[y], off[y + 1])
      BY <1>5, <3>1
    <3>3. v < off[y + 1] /\ off[y] <= v
      BY <1>15, <2>3, <3>2
    <3>4. tail[1] = F[y]
      BY <2>4, <3>1
    <3>5. tail[1] = Slice(T, v, off[y + 1])
      BY <2>3, <3>2, <3>4
    <3>6. WriterAt(F, off, T, y, v)'
      BY <1>24, <2>1, <2>3, <2>4, <2>6, <3>3, <3>5 DEF WriterAt
    <3>7. Places(first, F, off, T, y, v, p, v, r, j, c)'
      BY <1>19, <1>20, <1>21, <1>22, <3>6 DEF Places
    <3> QED
      BY <1>20, <3>7 DEF WireInv
  <2> QED
    BY <2>5, <2>6
<1>26. CASE n # b - w
  <2>1. PICK rest : rest = Rest(h, n)
    OBVIOUS
  <2>2. fields' = <<rest>> \o tail
    BY <1>4, <1>9, <1>13, <1>23, <1>26, <2>1
  <2>3. v < b
    BY <1>12, <1>14, <1>15, <1>26
  <2>4. rest = Slice(T, v, b)
    <3>1. PICK x \in Nat : x = b - w
      BY <1>12
    <3>2. rest = Slice(h, n, x)
      BY <1>13, <2>1, <3>1 DEF Rest, Slice
    <3>3. w <= b /\ n <= x /\ x <= b - w
      BY <1>12, <1>14, <3>1
    <3>4. Slice(Slice(T, w, b), n, x) = Slice(T, w + n, w + x)
      BY <1>5, <1>11, <1>12, <1>14, <3>3, SliceOfSlice
    <3>5. w + x = b
      BY <1>12, <3>1
    <3> QED
      BY <1>12, <1>15, <3>2, <3>4, <3>5
  <2>5. rest \in Field
    <3>1. T \in Seq(Unit) /\ v \in Nat /\ b \in Nat /\ v <= b /\ b <= Len(T)
      BY <1>5, <1>11, <1>15
    <3>2. Slice(T, v, b) \in Seq(Unit) /\ Len(Slice(T, v, b)) = b - v
      BY <3>1, SliceIs
    <3>3. rest \in Seq(Unit) /\ Len(rest) # 0
      BY <1>15, <2>3, <2>4, <3>2
    <3> QED
      BY <3>3, FieldIs
  <2>6. PICK o \in Seq(Field) : IsOne(o, rest)
    BY <2>5, One
  <2>7. o = <<rest>> /\ Len(o) = 1 /\ o[1] = rest
    BY <2>6, Zenon DEF IsOne
  <2>8. PICK u : u = o \o tail
    OBVIOUS
  <2>9. fields' = u
    BY <2>2, <2>7, <2>8, Zenon
  <2>10. Len(o) = 1 /\ o[1] = rest
    BY <2>7
  <2> HIDE <2>7
  <2>11. u \in Seq(Field) /\ Len(u) = l /\ \A i \in 1..l : u[i] = IF i <= 1 THEN o[i] ELSE tail[i - 1]
    <3>1. /\ o \o tail \in Seq(Field) /\ Len(o \o tail) = Len(o) + Len(tail)
          /\ \A i \in 1..Len(o) + Len(tail) :
                (o \o tail)[i] = IF i <= Len(o) THEN o[i] ELSE tail[i - Len(o)]
      BY <1>24, ConcatProperties
    <3>2. Len(o) + Len(tail) = l
      BY <1>24, <2>10
    <3> QED
      BY <2>8, <2>10, <3>1, <3>2
  <2>12. u[1] = Slice(T, v, off[a + 1])
    BY <1>11, <2>4, <2>10, <2>11
  <2>13. ASSUME NEW i \in 2..Len(u) PROVE u[i] = F[a + i - 1]
    <3>1. i \in 1..l /\ ~ (i <= 1) /\ i - 1 \in 1..l - 1 /\ a + (i - 1) = a + i - 1
      BY <1>10, <2>11
    <3>2. u[i] = tail[i - 1]
      BY <2>11, <3>1
    <3>3. tail[i - 1] = F[a + (i - 1)]
      BY <1>24, <3>1
    <3> QED
      BY <3>1, <3>2, <3>3
  <2>14. /\ a \in 1..Len(F) + 1 /\ a # Len(F) + 1 /\ Len(u) = Len(F) + 1 - a /\ v \in 0..Len(T)
         /\ off[a] <= v /\ v < off[a + 1]
    BY <1>5, <1>10, <1>11, <1>12, <1>15, <2>3, <2>11, SMTT(60)
  <2>15. WriterAt(F, off, T, a, v)'
    BY <2>9, <2>11, <2>12, <2>13, <2>14 DEF WriterAt
  <2>16. Places(first, F, off, T, a, v, p, v, r, j, c)'
    BY <1>19, <1>20, <1>21, <1>22, <2>15 DEF Places
  <2> QED
    BY <1>20, <2>16 DEF WireInv
<1> QED
  BY <1>25, <1>26

\* A read takes n units of the field out of the kernel.  Either the queue of
\* delivered messages stays as it is, or it gets the next message.
LEMMA Reads ==
  ASSUME WireInv, Read
  PROVE  /\ WireInv'
         /\ \/ delivered' = delivered
            \/ /\ Len(delivered) < Len(sent)
               /\ delivered' = Append(delivered, sent[Len(delivered) + 1])
<1>1. PICK first, F, off, T, a, w, p, e, r, j, c : Places(first, F, off, T, a, w, p, e, r, j, c)
  BY DEF WireInv
<1>2. /\ SentIs /\ Stream(first, F, off, T) /\ WriterAt(F, off, T, a, w) /\ NetAt(T, p, e, w)
      /\ ReaderAt(F, off, T, r, p) /\ DeliveredAt(first, r, j, c)
  BY <1>1 DEF WireInv, Places
<1>3. UNCHANGED <<dir, sent, fields, writer>> /\ net # <<>>
  BY DEF Read
<1>4. PICK n \in 1..Missing(field) :
         /\ n <= Len(net)
         /\ net' = SubSeq(net, n + 1, Len(net))
         /\ LET units == got \o SubSeq(net, 1, n)
            IN  IF Len(units) < SizeOf(field)
                THEN got' = units /\ UNCHANGED <<field, msg, left, size, delivered, reader>>
                ELSE /\ got' = <<>>
                     /\ ReadConfigField(units) \/ ReadType(units) \/ ReadClientField(units)
  BY DEF Read
<1>5. /\ T \in Seq(Unit) /\ Len(T) \in Nat /\ F \in Seq(Field) /\ Len(F) \in Nat
      /\ \A i \in 1..Len(F) + 1 : off[i] \in 0..Len(T)
      /\ off[Len(F) + 1] = Len(T)
      /\ \A i \in 1..Len(F) : /\ Len(F[i]) \in Nat \ {0} /\ off[i + 1] = off[i] + Len(F[i])
                              /\ F[i] = Slice(T, off[i], off[i + 1])
  BY <1>2, LayoutFacts, PieceIs DEF Stream
<1>6. p \in Nat /\ e \in Nat /\ w \in Nat /\ p <= e /\ e <= w /\ w <= Len(T) /\ net = Slice(T, p, e)
  BY <1>2, <1>5 DEF NetAt
<1>7. net \in Seq(Unit) /\ Len(net) = e - p
  <2>1. T \in Seq(Unit) /\ p \in Nat /\ e \in Nat /\ p <= e /\ e <= Len(T)
    BY <1>5, <1>6
  <2>2. Slice(T, p, e) \in Seq(Unit) /\ Len(Slice(T, p, e)) = e - p
    BY <2>1, SliceIs
  <2> QED
    BY <1>6, <2>2
<1>8. Len(net) # 0 /\ p < e
  <2>1. Len(net) # 0
    BY <1>3, <1>7, EmptySeq
  <2> QED
    BY <1>6, <1>7, <2>1
<1>9. PICK k \in Nat : k = Len(delivered)
  BY <1>2 DEF DeliveredAt
<1>10. PICK s \in Nat : s = Len(sent)
  BY <1>2 DEF SentIs
<1>11. k # s
  <2> SUFFICES ASSUME k = s PROVE FALSE
    OBVIOUS
  <2>0. Len(delivered) = Len(sent)
    BY <1>9, <1>10
  <2>1. r = Len(F) + 1
    BY <1>2, <2>0, Current
  <2>2. p = Len(T)
    BY <1>2, <1>5, <2>1 DEF ReaderAt
  <2> QED
    BY <1>5, <1>6, <1>8, <2>2
<1>12. /\ c \in Messages /\ IsMessage(c) /\ Fits(c)
       /\ r \in 1..Len(F) /\ F[r] = FieldsOf(c)[j]
       /\ first[k + 2] = first[k + 1] + Len(FieldsOf(c))
       /\ field \in Fields /\ SizeOf(field) = Len(F[r])
  BY <1>2, <1>9, <1>10, <1>11, Current
<1>13. /\ c = sent[k + 1] /\ j <= Len(FieldsOf(c)) /\ Stage(c, j) /\ ReaderTyped
       /\ delivered \in Seq(Messages) /\ k <= s /\ \A i \in 1..k : delivered[i] = sent[i]
       /\ j \in Nat \ {0} /\ r = first[k + 1] + j
  BY <1>2, <1>9, <1>10, <1>11 DEF DeliveredAt
<1>14. PICK b \in Nat : b = off[r] /\ b <= p /\ got = Slice(T, b, p)
  BY <1>2, <1>5, <1>12 DEF ReaderAt
<1>15. PICK d \in Nat : d = off[r + 1] /\ p < d /\ d <= Len(T) /\ Len(F[r]) = d - b /\ F[r] = Slice(T, b, d)
  <2>1. r + 1 \in 1..Len(F) + 1 /\ r # Len(F) + 1
    BY <1>5, <1>12
  <2>2. off[r + 1] \in Nat /\ off[r + 1] <= Len(T) /\ p < off[r + 1]
    BY <1>2, <1>5, <2>1 DEF ReaderAt
  <2>3. off[r + 1] = b + Len(F[r]) /\ F[r] = Slice(T, b, off[r + 1]) /\ Len(F[r]) \in Nat
    BY <1>5, <1>12, <1>14
  <2> QED
    BY <1>14, <2>2, <2>3, SMTT(60)
<1>16. got \in Seq(Unit) /\ Len(got) = p - b
  <2>1. T \in Seq(Unit) /\ b \in Nat /\ p \in Nat /\ b <= p /\ p <= Len(T)
    BY <1>5, <1>6, <1>14
  <2>2. Slice(T, b, p) \in Seq(Unit) /\ Len(Slice(T, b, p)) = p - b
    BY <2>1, SliceIs
  <2> QED
    BY <1>14, <2>2
<1>17. n \in Nat /\ n >= 1 /\ n <= d - p /\ n <= e - p
  <2>1. Missing(field) = (d - b) - (p - b)
    BY <1>12, <1>15, <1>16 DEF Missing
  <2>2. (d - b) - (p - b) = d - p
    BY <1>6, <1>14
  <2>3. n \in 1..d - p
    BY <1>4, <2>1, <2>2
  <2> QED
    BY <1>4, <1>6, <1>7, <1>15, <2>3
<1>18. PICK v \in Nat : v = p + n /\ p <= v /\ v <= d /\ v <= e
  BY <1>6, <1>15, <1>17
<1>19. net' = Slice(T, v, e)
  <2>1. PICK x \in Nat : x = e - p /\ n <= x /\ x <= e - p
    BY <1>6, <1>17
  <2>2. T \in Seq(Unit) /\ p <= e /\ e <= Len(T) /\ n \in Nat /\ n <= x /\ x <= e - p
    BY <1>5, <1>6, <1>17, <2>1
  <2>3. Slice(Slice(T, p, e), n, x) = Slice(T, p + n, p + x)
    BY <1>6, <2>2, SliceOfSlice
  <2>4. p + x = e
    BY <1>6, <2>1
  <2>5. net' = Slice(net, n, x)
    BY <1>4, <1>7, <2>1 DEF Slice
  <2> QED
    BY <1>6, <1>18, <2>3, <2>4, <2>5
<1>20. PICK units : units = got \o SubSeq(net, 1, n)
  OBVIOUS
<1>21. units = Slice(T, b, v)
  <2>1. PICK z \in Nat : z = 0 /\ z <= n
    BY <1>17
  <2>2. T \in Seq(Unit) /\ p <= e /\ e <= Len(T) /\ z <= n /\ n <= e - p /\ n \in Nat
    BY <1>5, <1>6, <1>17, <2>1
  <2>3. Slice(Slice(T, p, e), z, n) = Slice(T, p + z, p + n)
    BY <1>6, <2>2, SliceOfSlice
  <2>4. p + z = p
    BY <1>6, <2>1
  <2>5. SubSeq(net, 1, n) = Slice(net, z, n)
    BY <2>1 DEF Slice
  <2>6. SubSeq(net, 1, n) = Slice(T, p, v)
    BY <1>6, <1>18, <2>3, <2>4, <2>5
  <2>7. b <= p /\ p <= v /\ v <= Len(T)
    BY <1>14, <1>15, <1>18
  <2>8. Slice(T, b, p) \o Slice(T, p, v) = Slice(T, b, v)
    BY <1>5, <1>6, <2>7, SliceJoin, SMTT(60)
  <2> QED
    BY <1>14, <1>20, <2>6, <2>8
<1>22. b <= v /\ v <= Len(T) /\ Len(units) = v - b
  <2>1. b <= p /\ d <= Len(T)
    BY <1>14, <1>15
  <2>2. T \in Seq(Unit) /\ b <= v /\ v <= Len(T)
    BY <1>5, <1>6, <1>18, <2>1
  <2>3. Len(Slice(T, b, v)) = v - b
    BY <2>2, SliceIs
  <2> QED
    BY <1>21, <2>2, <2>3
<1>23. NetAt(T, v, e, w)'
  <2>1. e - v <= Capacity
    <3>1. e - p <= Capacity /\ Capacity \in Nat
      BY <1>2, WireAssumption DEF NetAt
    <3> QED
      BY <1>6, <1>18, <3>1
  <2>2. v \in 0..e /\ e \in 0..w /\ w \in 0..Len(T)
    BY <1>5, <1>6, <1>18
  <2> QED
    BY <1>2, <1>3, <1>19, <2>1, <2>2 DEF NetAt
<1>24. SentIs' /\ Stream(first, F, off, T)' /\ WriterAt(F, off, T, a, w)'
  BY <1>2, <1>3 DEF SentIs, KindsAt, Stream, SentFields, WriterAt
<1>25. CASE v < d
  <2>1. Len(units) < SizeOf(field)
    BY <1>12, <1>14, <1>15, <1>18, <1>22, <1>25
  <2>2. got' = units /\ UNCHANGED <<field, msg, left, size, delivered, reader>>
    BY <1>4, <1>20, <2>1
  <2>3. ReaderAt(F, off, T, r, v)'
    <3>1. r \in 1..Len(F) + 1 /\ r # Len(F) + 1 /\ v \in 0..Len(T) /\ off[r] <= v
      <4>1. r \in 1..Len(F) + 1 /\ r # Len(F) + 1
        BY <1>5, <1>12
      <4>2. off[r] = b
        BY <1>14
      <4> QED
        BY <1>5, <1>22, <4>1, <4>2
    <3> QED
      BY <1>14, <1>15, <1>21, <1>25, <2>2, <3>1 DEF ReaderAt
  <2>4. DeliveredAt(first, r, j, c)'
    BY <1>2, <1>3, <2>2 DEF DeliveredAt, Waiting, Stage, InRequest, InLog, ReaderTyped
  <2>5. Places(first, F, off, T, a, w, v, e, r, j, c)'
    BY <1>23, <1>24, <2>3, <2>4 DEF Places
  <2>6. WireInv'
    BY <1>24, <2>5 DEF WireInv
  <2> QED
    BY <2>2, <2>6
<1>26. CASE ~ (v < d)
  <2>1. v = d
    BY <1>15, <1>18, <1>26
  <2>2. ~ (Len(units) < SizeOf(field))
    BY <1>12, <1>14, <1>15, <1>22, <2>1
  <2>3. got' = <<>> /\ (ReadConfigField(units) \/ ReadType(units) \/ ReadClientField(units))
    BY <1>4, <1>20, <2>2
  <2>4. units = FieldsOf(c)[j]
    BY <1>12, <1>15, <1>21, <2>1
  <2>5. dir \in {"down", "up"} /\ Len(delivered) \in Nat
    BY <1>2, <1>9 DEF SentIs
  <2>6. \/ j + 1 \in 1..Len(FieldsOf(c)) /\ GoesOn /\ Stage(c, j + 1)'
        \/ j = Len(FieldsOf(c)) /\ Took(c)
    BY <1>12, <1>13, <2>3, <2>4, <2>5, StageRead
  <2>7. PICK y \in Nat : y = r + 1 /\ y \in 1..Len(F) + 1 /\ off[y] = v
    <3>1. r + 1 \in Nat /\ r + 1 \in 1..Len(F) + 1
      BY <1>5, <1>12
    <3>2. off[r + 1] = v
      BY <1>15, <2>1
    <3> QED
      BY <3>1, <3>2
  <2>8. ReaderAt(F, off, T, y, v)'
    <3>1. Slice(T, v, v) = <<>>
      <4>1. T \in Seq(Unit) /\ v <= v /\ v <= Len(T)
        BY <1>5, <1>15, <2>1
      <4>2. Slice(T, v, v) \in Seq(Unit) /\ Len(Slice(T, v, v)) = v - v
        BY <4>1, SliceIs
      <4> QED
        BY <4>2, EmptySeq
    <3>2. v \in 0..Len(T) /\ off[y] <= v
      BY <1>15, <2>1, <2>7
    <3>3. ASSUME y # Len(F) + 1 PROVE v < off[y + 1]
      <4>1. y \in 1..Len(F)
        BY <1>5, <2>7, <3>3
      <4>2. off[y + 1] = off[y] + Len(F[y]) /\ Len(F[y]) \in Nat \ {0}
        BY <1>5, <4>1
      <4> QED
        BY <2>7, <4>2
    <3> QED
      BY <2>3, <2>7, <3>1, <3>2, <3>3 DEF ReaderAt
  <2>9. CASE j + 1 \in 1..Len(FieldsOf(c)) /\ GoesOn /\ Stage(c, j + 1)'
    <3>1. delivered' = delivered /\ ReaderTyped'
      BY <2>9 DEF GoesOn
    <3>2. j + 1 \in Nat \ {0} /\ y = first[k + 1] + (j + 1) /\ j + 1 <= Len(FieldsOf(c))
      <4>1. r = first[k + 1] + j /\ r \in Nat /\ j \in Nat \ {0} /\ first[k + 1] \in Nat
        <5>1. k + 1 \in 1..s + 1
          BY <1>13
        <5>2. \A i \in 1..s + 1 : first[i] \in Nat
          <6>1. Layout(Field, SentFields, first, F) /\ Len(SentFields) = s
            BY <1>2, <1>10 DEF Stream, SentFields
          <6> QED
            BY <1>5, <6>1, LayoutFacts
        <5> QED
          BY <1>12, <1>13, <5>1, <5>2
      <4>2. y = r + 1 /\ j + 1 \in 1..Len(FieldsOf(c))
        BY <2>7, <2>9
      <4>3. y = first[k + 1] + (j + 1)
        BY <4>1, <4>2
      <4> QED
        BY <4>1, <4>2, <4>3
    <3>3. DeliveredAt(first, y, j + 1, c)'
      <4>1. Len(delivered') = k /\ Len(sent') = s /\ k <= s /\ k # s
        BY <1>3, <1>9, <1>10, <1>11, <1>13, <3>1
      <4>2. c = sent'[k + 1] /\ \A i \in 1..k : delivered'[i] = sent'[i]
        BY <1>3, <1>13, <3>1
      <4> QED
        BY <1>13, <2>9, <3>1, <3>2, <4>1, <4>2 DEF DeliveredAt
    <3>4. Places(first, F, off, T, a, w, v, e, y, j + 1, c)'
      BY <1>23, <1>24, <2>8, <3>3 DEF Places
    <3>5. WireInv'
      BY <1>24, <3>4 DEF WireInv
    <3> QED
      BY <3>1, <3>5
  <2>10. CASE j = Len(FieldsOf(c)) /\ Took(c)
    <3>1. delivered' = Append(delivered, c) /\ ReaderTyped'
      BY <2>10 DEF Took
    <3>2. /\ delivered' \in Seq(Messages) /\ Len(delivered') = k + 1 /\ delivered'[k + 1] = c
          /\ \A i \in 1..k : delivered'[i] = delivered[i]
      BY <1>9, <1>12, <1>13, <3>1, AppendProperties
    <3>3. Waiting'
      BY <1>3, <2>10, <3>2 DEF Took, Waiting
    <3>4. PICK c2 : c2 = sent[(k + 1) + 1]
      OBVIOUS
    <3>5. y = first[(k + 1) + 1] + 1
      <4>1. (k + 1) + 1 = k + 2
        OBVIOUS
      <4>2. r = first[k + 2]
        BY <1>12, <1>13, <2>10
      <4> QED
        BY <2>7, <4>1, <4>2
    <3>6. k + 1 <= s /\ \A i \in 1..k + 1 : delivered'[i] = sent'[i]
      BY <1>3, <1>11, <1>13, <3>2
    <3>7. Stage(c2, 1)'
      BY <3>3 DEF Stage
    <3>8. k + 1 # s => 1 <= Len(FieldsOf(c2))
      <4> SUFFICES ASSUME k + 1 # s PROVE 1 <= Len(FieldsOf(c2))
        OBVIOUS
      <4>1. (k + 1) + 1 \in 1..s
        BY <3>6
      <4>2. c2 \in Messages
        BY <1>2, <1>10, <3>4, <4>1 DEF SentIs
      <4> QED
        BY <4>2, SentPieces
    <3>9. DeliveredAt(first, y, 1, c2)'
      BY <1>3, <1>10, <3>1, <3>2, <3>3, <3>4, <3>5, <3>6, <3>7, <3>8, SMTT(60) DEF DeliveredAt
    <3>10. Places(first, F, off, T, a, w, v, e, y, 1, c2)'
      BY <1>23, <1>24, <2>8, <3>9 DEF Places
    <3>11. WireInv'
      BY <1>24, <3>10 DEF WireInv
    <3> QED
      BY <1>9, <1>10, <1>13, <3>1, <3>6, <3>11
  <2> QED
    BY <2>6, <2>9, <2>10
<1> QED
  BY <1>25, <1>26

-----------------------------------------------------------------------------
(* The theorems.                                                             *)

\* What every step does to the invariant and to the queue.
LEMMA Steps == WireInv /\ [Next]_vars => WireInv' /\ [Queue!Next]_(Queue!vars)
<1> SUFFICES ASSUME WireInv, [Next]_vars PROVE WireInv' /\ [Queue!Next]_(Queue!vars)
  OBVIOUS
<1>0. dir \in {"down", "up"} /\ sent \in Seq(Messages) /\ Len(sent) \in Nat
  BY DEF WireInv, SentIs
<1>1. ASSUME NEW m \in Messages, m.kind \in KindsAt(Len(sent) + 1), Send(m)
      PROVE  WireInv' /\ [Queue!Next]_(Queue!vars)
  <2>1. WireInv'
    BY <1>1, Sends
  <2>2. sent' = Append(sent, m) /\ delivered' = delivered
    BY <1>1 DEF Send, readerVars
  <2>3. Queue!Send
    BY <1>1, <2>2 DEF Queue!Send
  <2> QED
    BY <2>1, <2>3 DEF Queue!Next
<1>2. CASE SendToClient
  <2>1. PICK m \in Messages : m.kind \in (IF sent = <<>> THEN {"config"} ELSE {"HUP", "INT"}) /\ Send(m)
    BY <1>2 DEF SendToClient
  <2>2. dir = "down"
    BY <1>2 DEF SendToClient
  <2>3. Len(sent) + 1 = 1 <=> sent = <<>>
    BY <1>0, EmptySeq
  <2>4. m.kind \in KindsAt(Len(sent) + 1)
    BY <2>1, <2>2, <2>3 DEF KindsAt
  <2> QED
    BY <1>1, <2>1, <2>4
<1>3. CASE SendToServer
  <2>1. PICK m \in Messages : m.kind \in {"LOG", "ACK"} /\ Send(m)
    BY <1>3 DEF SendToServer
  <2>2. m.kind \in KindsAt(Len(sent) + 1)
    BY <1>3, <2>1 DEF SendToServer, KindsAt
  <2> QED
    BY <1>1, <2>1, <2>2
<1>4. CASE BadFile \/ WriteFails \/ WriterDies
  <2>1. WriterEnds /\ writer = "running"
    BY <1>4 DEF BadFile, WriteFails, WriterDies
  <2>2. WireInv'
    BY <2>1, Dropped
  <2>3. UNCHANGED <<sent, delivered>>
    BY <2>1 DEF WriterEnds, readerVars
  <2> QED
    BY <2>2, <2>3 DEF Queue!vars
<1>5. CASE Write
  <2>1. WireInv'
    BY <1>5, Writes
  <2>2. UNCHANGED <<sent, delivered>>
    BY <1>5 DEF Write, readerVars
  <2> QED
    BY <2>1, <2>2 DEF Queue!vars
<1>6. CASE Read
  <2>1. WireInv' /\ sent' = sent
    BY <1>6, Reads DEF Read
  <2>2. CASE delivered' = delivered
    BY <2>1, <2>2 DEF Queue!vars
  <2>3. CASE Len(delivered) < Len(sent) /\ delivered' = Append(delivered, sent[Len(delivered) + 1])
    <3>1. Queue!Deliver
      BY <2>1, <2>3 DEF Queue!Deliver
    <3> QED
      BY <2>1, <3>1 DEF Queue!Next
  <2> QED
    BY <1>6, <2>2, <2>3, Reads
<1>7. CASE ReaderDies
  <2>1. WireInv'
    BY <1>7, ReaderKilled
  <2>2. UNCHANGED <<sent, delivered>>
    BY <1>7 DEF ReaderDies
  <2> QED
    BY <2>1, <2>2 DEF Queue!vars
<1>8. CASE UNCHANGED vars
  <2>1. UNCHANGED <<dir, sent, fields, net, field, got, msg, left, size, delivered, writer, reader>>
    BY <1>8 DEF vars
  <2>2. PICK first, F, off, T, a, w, p, e, r, j, c : Places(first, F, off, T, a, w, p, e, r, j, c)
    BY DEF WireInv
  <2>3. /\ SentIs /\ Stream(first, F, off, T) /\ WriterAt(F, off, T, a, w) /\ NetAt(T, p, e, w)
        /\ ReaderAt(F, off, T, r, p) /\ DeliveredAt(first, r, j, c)
    BY <2>2 DEF WireInv, Places
  <2>4. SentIs' /\ Stream(first, F, off, T)'
    BY <2>1, <2>3 DEF SentIs, KindsAt, Stream, SentFields
  <2>5. WriterAt(F, off, T, a, w)' /\ ReaderAt(F, off, T, r, p)' /\ NetAt(T, p, e, w)'
    BY <2>1, <2>3 DEF WriterAt, ReaderAt, NetAt
  <2>6. DeliveredAt(first, r, j, c)'
    BY <2>1, <2>3 DEF DeliveredAt, Waiting, Stage, InRequest, InLog, ReaderTyped
  <2>7. Places(first, F, off, T, a, w, p, e, r, j, c)'
    BY <2>4, <2>5, <2>6 DEF Places
  <2>8. WireInv'
    BY <2>4, <2>7 DEF WireInv
  <2> QED
    BY <2>1, <2>8 DEF Queue!vars
<1> QED
  BY <1>2, <1>3, <1>4, <1>5, <1>6, <1>7, <1>8 DEF Next

\* The invariant holds in every state.
LEMMA AlwaysInv == Spec => []WireInv
<1>1. WireInv /\ [Next]_vars => WireInv'
  BY Steps
<1> QED
  BY <1>1, Begins, PTL DEF Spec

\* Every variable has its type: what the kernel holds fits its buffer, no number
\* leaves its field, and the reader never has a whole field it has not used.
THEOREM TypeCorrect == Spec => []TypeOK
<1>1. WireInv => TypeOK
  BY Consequences
<1> QED
  BY <1>1, AlwaysInv, PTL

\* Once the reader has got all messages that were sent, nothing is left of them
\* in writeData(), in the kernel, or in readData().
THEOREM CleanStream == Spec => []CleanBetweenMessages
<1>1. WireInv => CleanBetweenMessages
  BY Consequences
<1> QED
  BY <1>1, AlwaysInv, PTL

\* Whatever pieces write() and read() transfer, and whoever dies in the middle of
\* a field, the program gets the messages that were sent: whole, in order, once.
THEOREM WireIsQueue == Spec => ImplementsQueue
<1>1. Init => Queue!Init
  BY DEF Init, Queue!Init
<1>2. WireInv /\ [Next]_vars => [Queue!Next]_(Queue!vars)
  BY Steps
<1> QED
  BY <1>1, <1>2, AlwaysInv, PTL DEF Spec, Queue!Spec, ImplementsQueue
=============================================================================
