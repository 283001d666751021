--------------------------- MODULE AgentLoopProofs ---------------------------
(***************************************************************************)
(* Safety of /ask, for any number of questions, calls and plans.  The two  *)
(* recursive functions of the model, the numbering of hits and the length  *)
(* of a block, are shown to do what the loop needs of them by the least    *)
(* counterexample, for which the least-number principle is proved first.   *)
(***************************************************************************)
EXTENDS AgentLoop, SequenceTheorems, FiniteSetTheorems, TLAPS

-----------------------------------------------------------------------------
\* A set of natural numbers has a least element.
LEMMA Least ==
    ASSUME NEW S \in SUBSET Nat, S # {}
    PROVE  \E n \in S : \A m \in S : n <= m
<1> DEFINE less == OpToRel(<, Nat)
<1>1. IsWellFoundedOn(less, Nat)
  BY NatLessThanWellFounded
<1>2. PICK n \in S : \A m \in S : <<m, n>> \notin less
  <2> HIDE DEF less
  <2>1. QED
    BY <1>1, WFMin
<1>3. \A m \in S : ~(m < n)
  BY <1>2 DEF OpToRel
<1>4. QED
  BY <1>3

\* The lesser of two numbers.
LEMMA MinPair ==
    ASSUME NEW a \in Nat, NEW b \in Nat
    PROVE  Min({a, b}) = IF a <= b THEN a ELSE b
<1> DEFINE m == IF a <= b THEN a ELSE b
<1>1. m \in {a, b} /\ \A y \in {a, b} : m <= y
  OBVIOUS
<1>2. \A x \in {a, b} : (\A y \in {a, b} : x <= y) => x = m
  OBVIOUS
<1> HIDE DEF m
<1>3. Min({a, b}) = m
  BY <1>1, <1>2 DEF Min
<1>4. QED
  BY <1>3 DEF m
-----------------------------------------------------------------------------
\* The sources.

\* f[n] is what is known after n of the first m hits.
Absorbing(f, known, hits, cap, m) ==
    f = [n \in 0..m |-> IF n = 0 THEN known ELSE WithHit(f[n - 1], hits[n], cap)]

\* There is such a function.
LEMMA AbsorbingExists ==
    ASSUME NEW known, NEW hits, NEW cap, NEW m \in Nat
    PROVE  \E f : Absorbing(f, known, hits, cap, m)
<1> DEFINE Bad == {n \in Nat : ~ \E f : Absorbing(f, known, hits, cap, n)}
<1>1. SUFFICES ASSUME Bad # {} PROVE FALSE
  OBVIOUS
<1>2. PICK k \in Bad : \A n \in Bad : k <= n
  <2> HIDE DEF Bad
  <2>1. Bad \subseteq Nat
    BY DEF Bad
  <2>2. QED
    BY <1>1, <2>1, Least
<1>3. CASE k = 0
  <2> DEFINE g == [n \in 0..0 |-> known]
  <2>1. Absorbing(g, known, hits, cap, 0)
    BY DEF Absorbing
  <2>2. QED
    BY <1>3, <2>1
<1>4. CASE k # 0
  <2>1. k - 1 \in Nat /\ k - 1 \notin Bad
    BY <1>2, <1>4
  <2>2. PICK f : Absorbing(f, known, hits, cap, k - 1)
    BY <2>1
  <2> DEFINE g == [n \in 0..k |->
                      IF n = k THEN WithHit(f[k - 1], hits[k], cap) ELSE f[n]]
  <2>3. \A n \in 0..(k - 1) :
            f[n] = IF n = 0 THEN known ELSE WithHit(f[n - 1], hits[n], cap)
    BY <2>2 DEF Absorbing
  <2>4. \A n \in 0..(k - 1) : g[n] = f[n]
    OBVIOUS
  <2>5. g[k] = WithHit(f[k - 1], hits[k], cap)
    OBVIOUS
  <2>6. g = [n \in 0..k |-> g[n]]
    OBVIOUS
  <2> HIDE DEF g
  <2>7. \A n \in 0..k : g[n] = IF n = 0 THEN known ELSE WithHit(g[n - 1], hits[n], cap)
    <3> SUFFICES ASSUME NEW n \in 0..k
                 PROVE  g[n] = IF n = 0 THEN known
                               ELSE WithHit(g[n - 1], hits[n], cap)
      OBVIOUS
    <3>1. CASE n = k
      BY <1>4, <2>1, <2>4, <2>5, <3>1
    <3>2. CASE n # k /\ n # 0
      <4>1. n \in 0..(k - 1) /\ n - 1 \in 0..(k - 1)
        BY <3>2
      <4>2. QED
        BY <2>3, <2>4, <3>2, <4>1
    <3>3. CASE n # k /\ n = 0
      BY <1>4, <2>3, <2>4, <3>3
    <3>4. QED
      BY <3>1, <3>2, <3>3
  <2>8. Absorbing(g, known, hits, cap, k)
    BY <2>6, <2>7 DEF Absorbing
  <2>9. QED
    BY <1>2, <2>8
<1>5. QED
  BY <1>3, <1>4

\* What one more hit does.
LEMMA WithHitIs ==
    ASSUME NEW S, NEW known \in Seq(S), NEW h \in S, NEW cap \in Nat
    PROVE  LET w == WithHit(known, h, cap)
           IN  /\ w \in Seq(S) /\ Len(w) \in Nat
               /\ Len(w) >= Len(known) /\ \A i \in 1..Len(known) : w[i] = known[i]
               /\ Len(w) <= cap \/ Len(w) = Len(known)
               /\ \A i \in (Len(known) + 1)..Len(w) : w[i] = h
<1>1. Len(known) \in Nat
  BY LenProperties
<1>2. CASE h \in Range(known) \/ Len(known) >= cap
  <2>1. WithHit(known, h, cap) = known
    BY <1>2 DEF WithHit
  <2>2. QED
    BY <1>1, <2>1
<1>3. CASE ~ (h \in Range(known) \/ Len(known) >= cap)
  <2>1. WithHit(known, h, cap) = Append(known, h)
    BY <1>3 DEF WithHit
  <2>2. /\ Append(known, h) \in Seq(S) /\ Len(Append(known, h)) = Len(known) + 1
        /\ \A i \in 1..Len(known) : Append(known, h)[i] = known[i]
        /\ Append(known, h)[Len(known) + 1] = h
    BY AppendProperties
  <2>3. QED
    BY <1>1, <1>3, <2>1, <2>2
<1>4. QED
  BY <1>2, <1>3

\* What is known keeps its number; what is new is a hit; the cap is kept.
LEMMA AbsorbIs ==
    ASSUME NEW S, NEW known \in Seq(S), NEW hits \in Seq(S), NEW cap \in Nat
    PROVE  LET all == Absorb(known, hits, cap)
           IN  /\ all \in Seq(S)
               /\ Len(all) >= Len(known)
               /\ Len(all) <= cap \/ Len(all) = Len(known)
               /\ \A i \in 1..Len(known) : all[i] = known[i]
               /\ \A i \in (Len(known) + 1)..Len(all) : all[i] \in Range(hits)
<1> DEFINE f == CHOOSE after : Absorbing(after, known, hits, cap, Len(hits))
           Right(a) == /\ a \in Seq(S) /\ Len(a) \in Nat
                       /\ Len(a) >= Len(known)
                       /\ Len(a) <= cap \/ Len(a) = Len(known)
                       /\ \A i \in 1..Len(known) : a[i] = known[i]
                       /\ \A i \in (Len(known) + 1)..Len(a) : a[i] \in Range(hits)
           Bad == {n \in 0..Len(hits) : ~ Right(f[n])}
<1>1. Len(known) \in Nat /\ Len(hits) \in Nat
  BY LenProperties
<1>2. Absorb(known, hits, cap) = f[Len(hits)]
  BY DEF Absorb, Absorbing
<1>3. Absorbing(f, known, hits, cap, Len(hits))
  BY <1>1, AbsorbingExists
<1> HIDE DEF f
<1>4. \A n \in 0..Len(hits) :
          f[n] = IF n = 0 THEN known ELSE WithHit(f[n - 1], hits[n], cap)
  BY <1>3 DEF Absorbing
<1>5. ASSUME Bad # {} PROVE FALSE
  <2>1. PICK k \in Bad : \A n \in Bad : k <= n
    <3>1. Bad \subseteq Nat
      BY <1>1
    <3> HIDE DEF Bad
    <3>2. QED
      BY <1>5, <3>1, Least
  <2>2. CASE k = 0
    <3>1. f[k] = known
      BY <1>1, <1>4, <2>2
    <3>2. Right(known)
      BY <1>1
    <3>3. QED
      BY <2>1, <3>1, <3>2
  <2>3. CASE k # 0
    <3>1. k \in 1..Len(hits) /\ k - 1 \in 0..Len(hits)
      BY <1>1, <2>1, <2>3
    <3>2. k - 1 \notin Bad
      BY <1>1, <2>1, <3>1
    <3>3. Right(f[k - 1])
      BY <3>1, <3>2
    <3>4. hits[k] \in S /\ hits[k] \in Range(hits)
      <4>1. hits[k] \in S /\ DOMAIN hits = 1..Len(hits)
        BY <3>1, ElementOfSeq, LenProperties
      <4>2. QED
        BY <3>1, <4>1 DEF Range
    <3>5. f[k] = WithHit(f[k - 1], hits[k], cap)
      BY <1>4, <2>3, <3>1
    <3> DEFINE a == f[k - 1]
               w == WithHit(a, hits[k], cap)
    <3>6. /\ w \in Seq(S) /\ Len(w) \in Nat
          /\ Len(w) >= Len(a) /\ \A i \in 1..Len(a) : w[i] = a[i]
          /\ Len(w) <= cap \/ Len(w) = Len(a)
          /\ \A i \in (Len(a) + 1)..Len(w) : w[i] = hits[k]
      BY <3>3, <3>4, WithHitIs
    <3> HIDE DEF a, w
    <3>7. Right(a)
      BY <3>3 DEF a
    <3>8. Right(w)
      <4>1. /\ w \in Seq(S) /\ Len(w) \in Nat /\ Len(w) >= Len(known)
            /\ Len(w) <= cap \/ Len(w) = Len(known)
        BY <1>1, <3>6, <3>7
      <4>2. \A i \in 1..Len(known) : w[i] = known[i]
        BY <1>1, <3>6, <3>7
      <4>3. ASSUME NEW i \in (Len(known) + 1)..Len(w)
            PROVE  w[i] \in Range(hits)
        <5>1. CASE i <= Len(a)
          BY <1>1, <3>6, <3>7, <5>1
        <5>2. CASE i > Len(a)
          BY <1>1, <3>4, <3>6, <3>7, <5>2
        <5>3. QED
          BY <1>1, <3>7, <5>1, <5>2
      <4>4. QED
        BY <4>1, <4>2, <4>3
    <3>9. QED
      BY <2>1, <3>5, <3>8 DEF a, w
  <2>4. QED
    BY <2>2, <2>3
<1>6. Right(f[Len(hits)])
  BY <1>1, <1>5
<1>7. QED
  BY <1>2, <1>6
-----------------------------------------------------------------------------
\* The length of a block, which takes its notes away one by one.
AnyNote(s) == CHOOSE x \in s : TRUE

\* f[s] is the length of s, for each set of at most m of the notes.
Adding(f, notes, m) ==
    f = [s \in {t \in SUBSET notes : Cardinality(t) <= m} |->
            IF s = {} THEN 0 ELSE Size[AnyNote(s)] + f[s \ {AnyNote(s)}]]

\* What is left of some notes without one of them.
LEMMA WithoutOne ==
    ASSUME NEW notes, IsFiniteSet(notes), NEW s \in SUBSET notes, s # {}
    PROVE  /\ AnyNote(s) \in s /\ Cardinality(s) \in Nat /\ Cardinality(s) > 0
           /\ s \ {AnyNote(s)} \in SUBSET notes
           /\ Cardinality(s \ {AnyNote(s)}) = Cardinality(s) - 1
<1>1. AnyNote(s) \in s
  BY DEF AnyNote
<1>2. IsFiniteSet(s)
  BY FS_Subset
<1>3. Cardinality(s) \in Nat /\ Cardinality(s) # 0
  BY <1>2, FS_CardinalityType, FS_EmptySet
<1>4. Cardinality(s \ {AnyNote(s)}) = Cardinality(s) - 1
  BY <1>1, <1>2, FS_RemoveElement
<1>5. QED
  BY <1>1, <1>3, <1>4

\* There is such a function.
LEMMA AddingExists ==
    ASSUME NEW notes, IsFiniteSet(notes), NEW m \in Nat
    PROVE  \E f : Adding(f, notes, m)
<1> DEFINE Bad == {n \in Nat : ~ \E f : Adding(f, notes, n)}
           Few(n) == {t \in SUBSET notes : Cardinality(t) <= n}
<1>1. SUFFICES ASSUME Bad # {} PROVE FALSE
  OBVIOUS
<1>2. PICK k \in Bad : \A n \in Bad : k <= n
  <2> HIDE DEF Bad
  <2>1. Bad \subseteq Nat
    BY DEF Bad
  <2>2. QED
    BY <1>1, <2>1, Least
<1>3. CASE k = 0
  <2> DEFINE g == [s \in Few(0) |-> 0]
  <2>1. \A s \in Few(0) : s = {}
    <3> SUFFICES ASSUME NEW s \in Few(0), s # {} PROVE FALSE
      OBVIOUS
    <3>1. Cardinality(s) \in Nat /\ Cardinality(s) > 0 /\ Cardinality(s) <= 0
      BY WithoutOne
    <3>2. QED
      BY <3>1
  <2>2. Adding(g, notes, 0)
    BY <2>1 DEF Adding
  <2>3. QED
    BY <1>3, <2>2
<1>4. CASE k # 0
  <2>1. k - 1 \in Nat /\ k - 1 \notin Bad
    BY <1>2, <1>4
  <2>2. PICK f : Adding(f, notes, k - 1)
    BY <2>1
  <2>3. \A s \in Few(k - 1) :
            f[s] = IF s = {} THEN 0 ELSE Size[AnyNote(s)] + f[s \ {AnyNote(s)}]
    BY <2>2 DEF Adding
  <2> DEFINE g == [s \in Few(k) |->
                      IF s \in Few(k - 1) THEN f[s]
                      ELSE Size[AnyNote(s)] + f[s \ {AnyNote(s)}]]
  <2>4. g = [s \in Few(k) |-> g[s]]
    OBVIOUS
  <2>5. /\ \A s \in Few(k) : s \in Few(k - 1) => g[s] = f[s]
        /\ \A s \in Few(k) : s \notin Few(k - 1) =>
               g[s] = Size[AnyNote(s)] + f[s \ {AnyNote(s)}]
    OBVIOUS
  <2> HIDE DEF g
  <2>6. ASSUME NEW s \in Few(k), s # {}
        PROVE  s \ {AnyNote(s)} \in Few(k) /\ s \ {AnyNote(s)} \in Few(k - 1)
    <3>1. /\ s \ {AnyNote(s)} \in SUBSET notes /\ Cardinality(s) \in Nat
          /\ Cardinality(s) <= k /\ Cardinality(s \ {AnyNote(s)}) = Cardinality(s) - 1
      BY <2>6, WithoutOne
    <3>2. QED
      BY <1>2, <3>1
  <2>7. ASSUME NEW s \in Few(k)
        PROVE  g[s] = IF s = {} THEN 0 ELSE Size[AnyNote(s)] + g[s \ {AnyNote(s)}]
    <3>1. CASE s = {}
      <4>1. Cardinality({}) = 0
        BY FS_EmptySet
      <4>2. s \in Few(k - 1)
        BY <2>1, <3>1, <4>1
      <4>3. QED
        BY <2>3, <2>5, <3>1, <4>2
    <3>2. CASE s # {}
      <4>1. g[s \ {AnyNote(s)}] = f[s \ {AnyNote(s)}]
        BY <2>5, <2>6, <3>2
      <4> HIDE DEF Few
      <4>2. QED
        BY <2>3, <2>5, <3>2, <4>1
    <3>3. QED
      BY <3>1, <3>2
  <2>8. Adding(g, notes, k)
    BY <2>4, <2>7 DEF Adding
  <2>9. QED
    BY <1>2, <2>8
<1>5. QED
  BY <1>3, <1>4

\* A length is a number; that of no notes is nothing.
LEMMA LengthIs ==
    ASSUME NEW notes \in SUBSET Calls
    PROVE  Length(notes) \in Nat /\ Length({}) = 0
<1> DEFINE f(n) == CHOOSE iter : iter =
                [s \in SUBSET n |-> IF s = {} THEN 0
                                    ELSE Size[AnyNote(s)] + iter[s \ {AnyNote(s)}]]
<1>1. \A n : Length(n) = f(n)[n]
  BY DEF Length, MapThenSumSet, MapThenFoldSet, AnyNote
<1>2. ASSUME NEW n \in SUBSET Calls
      PROVE  \A s \in SUBSET n :
                 f(n)[s] = IF s = {} THEN 0 ELSE Size[AnyNote(s)] + f(n)[s \ {AnyNote(s)}]
  <2>1. IsFiniteSet(n)
    BY AgentAssumption, FS_Subset
  <2>2. Cardinality(n) \in Nat
    BY <2>1, FS_CardinalityType
  <2>3. {t \in SUBSET n : Cardinality(t) <= Cardinality(n)} = SUBSET n
    BY <2>1, FS_Subset
  <2>4. \E iter : Adding(iter, n, Cardinality(n))
    BY <2>1, <2>2, AddingExists
  <2>5. \E iter : iter = [s \in SUBSET n |->
                          IF s = {} THEN 0 ELSE Size[AnyNote(s)] + iter[s \ {AnyNote(s)}]]
    BY <2>3, <2>4 DEF Adding
  <2>6. f(n) = [s \in SUBSET n |->
                   IF s = {} THEN 0 ELSE Size[AnyNote(s)] + f(n)[s \ {AnyNote(s)}]]
    BY <2>5
  <2> HIDE DEF f
  <2>7. QED
    BY <2>6
<1> HIDE DEF f
<1>3. Length({}) = 0
  BY <1>1, <1>2
<1> DEFINE Bad == {Cardinality(s) : s \in {t \in SUBSET notes : f(notes)[t] \notin Nat}}
<1>4. IsFiniteSet(notes) /\ \A s \in SUBSET notes : Cardinality(s) \in Nat
  BY AgentAssumption, FS_Subset, FS_CardinalityType
<1>5. ASSUME Bad # {} PROVE FALSE
  <2>1. PICK k \in Bad : \A n \in Bad : k <= n
    <3>1. Bad \subseteq Nat
      BY <1>4
    <3> HIDE DEF Bad
    <3>2. QED
      BY <1>5, <3>1, Least
  <2>2. PICK s \in SUBSET notes : f(notes)[s] \notin Nat /\ Cardinality(s) = k
    OBVIOUS
  <2>3. s # {} /\ f(notes)[s] = Size[AnyNote(s)] + f(notes)[s \ {AnyNote(s)}]
    <3>1. \A t \in SUBSET notes : f(notes)[t] =
              IF t = {} THEN 0 ELSE Size[AnyNote(t)] + f(notes)[t \ {AnyNote(t)}]
      BY <1>2
    <3>2. f(notes)[s] = IF s = {} THEN 0 ELSE Size[AnyNote(s)] + f(notes)[s \ {AnyNote(s)}]
      BY <3>1
    <3>3. QED
      BY <2>2, <3>2
  <2>4. /\ AnyNote(s) \in s /\ s \ {AnyNote(s)} \in SUBSET notes
        /\ Cardinality(s) \in Nat
        /\ Cardinality(s \ {AnyNote(s)}) = Cardinality(s) - 1
    BY <1>4, <2>3, WithoutOne
  <2>5. Size[AnyNote(s)] \in Nat
    BY <2>4, AgentAssumption
  <2>6. f(notes)[s \ {AnyNote(s)}] \notin Nat
    BY <2>2, <2>3, <2>5
  <2>7. Cardinality(s \ {AnyNote(s)}) \in Bad
    BY <2>4, <2>6
  <2> HIDE DEF Bad
  <2>8. QED
    BY <2>1, <2>2, <2>4, <2>7
<1>6. QED
  BY <1>1, <1>3, <1>4, <1>5
-----------------------------------------------------------------------------
\* The stored turns.

\* Finitely many rows have a latest one.
LEMMA Bounded ==
    ASSUME NEW rows \in SUBSET Rows, IsFiniteSet(rows)
    PROVE  \E m \in Nat : \A r \in rows : r.at <= m
<1> DEFINE Bound(t, m) == \A r \in t : r.at <= m
           Wild == {t \in SUBSET rows : ~ \E m \in Nat : Bound(t, m)}
           Bad == {Cardinality(t) : t \in Wild}
<1>1. SUFFICES ASSUME rows \in Wild PROVE FALSE
  OBVIOUS
<1>2. \A t \in SUBSET rows : IsFiniteSet(t) /\ Cardinality(t) \in Nat
  BY FS_Subset, FS_CardinalityType
<1>3. PICK t \in Wild : \A u \in Wild : Cardinality(t) <= Cardinality(u)
  <2>1. Bad \subseteq Nat
    BY <1>2
  <2>2. Cardinality(rows) \in Bad
    BY <1>1
  <2> HIDE DEF Wild
  <2>3. PICK k \in Bad : \A n \in Bad : k <= n
    <3> HIDE DEF Bad
    <3>1. QED
      BY <2>1, <2>2, Least
  <2>4. QED
    BY <2>3
<1>4. t # {}
  BY <1>3
<1>5. PICK r \in t : TRUE
  BY <1>4
<1>6. Cardinality(t \ {r}) = Cardinality(t) - 1
  BY <1>2, <1>3, <1>5, FS_RemoveElement
<1>7. t \ {r} \notin Wild
  BY <1>2, <1>3, <1>6
<1>8. PICK m \in Nat : Bound(t \ {r}, m)
  BY <1>3, <1>7
<1>9. r.at \in Nat /\ \A s \in t : s.at \in Nat
  BY <1>3, <1>5 DEF Rows
<1>10. Bound(t, IF r.at >= m THEN r.at ELSE m)
  BY <1>8, <1>9
<1>11. (IF r.at >= m THEN r.at ELSE m) \in Nat
  BY <1>9
<1>12. QED
  BY <1>3, <1>10, <1>11

\* The time after that of every row is a time.
LEMMA NowIs ==
    ASSUME NEW rows \in SUBSET Rows, IsFiniteSet(rows)
    PROVE  1 + Max({0} \cup {r.at : r \in rows}) \in Nat
<1> DEFINE times == {0} \cup {r.at : r \in rows}
           Bounds == {m \in Nat : \A t \in times : t <= m}
<1>1. times \subseteq Nat
  BY DEF Rows
<1>2. Bounds # {}
  BY Bounded
<1>3. PICK b \in Bounds : \A m \in Bounds : b <= m
  <2>1. Bounds \subseteq Nat
    OBVIOUS
  <2> HIDE DEF Bounds
  <2>2. QED
    BY <1>2, <2>1, Least
<1>4. 0 \in times
  OBVIOUS
<1> HIDE DEF times
<1>5. b \in times
  <2>1. SUFFICES ASSUME b \notin times PROVE FALSE
    OBVIOUS
  <2>2. b \in Nat /\ \A t \in times : t <= b /\ t # b
    BY <1>3, <2>1
  <2>3. b - 1 \in Nat /\ \A t \in times : t <= b - 1
    BY <1>1, <1>4, <2>2
  <2>4. b - 1 \in Bounds
    BY <2>3
  <2>5. QED
    BY <1>3, <2>2, <2>4
<1>6. \A t \in times : b >= t
  BY <1>1, <1>3
<1>7. Max(times) \in times
  BY <1>5, <1>6 DEF Max
<1>8. QED
  BY <1>1, <1>7 DEF times
-----------------------------------------------------------------------------
\* The inductive invariant.

Places == {"new", "loading", "model", "calling", "editing", "saving", "done", "gone"}
Ended == {"done", "gone"}
ReplyKinds == {"none", "chitchat", "answer", "error"}

\* A call that took effect is one the loop knows it has made, while there is
\* a loop to know it.
Once == \A q \in Questions, c \in Calls :
    /\ acted[q][c] <= 1
    /\ acted[q][c] > 0 => pc[q] # "new" /\ (c \in local[q].called \/ pc[q] \in Ended)

\* There is a call to make.
Waiting == \A q \in Questions :
    pc[q] \in {"calling", "editing"} => local[q].pending # <<>>

\* What was shown, and what is cited, is what was found, under the number it
\* has.
Listed(found) == {<<n, found[n]>> : n \in DOMAIN found}
Shown == \A q \in Questions :
    LET listed == Listed(local[q].found)
    IN  shown[q] \subseteq listed /\ local[q].cited \subseteq listed

FewTurns == \A c \in Chats : IsFiniteSet(turns[c])

AgentInv == TypeOK /\ Once /\ Waiting /\ Shown /\ MemoryWithinLimit /\ FewTurns

\* What the assumption says of the limits.
LEMMA Limits ==
    /\ MaxTurns \in Nat /\ MaxTurns >= 1 /\ MaxCallsPerTurn \in Nat
    /\ MaxCallsPerTurn >= 1 /\ MaxSources \in Nat /\ MaxSources >= 1
    /\ BlockLimit \in Nat
BY AgentAssumption

\* A loop that begins, or is over, knows of nothing.
LEMMA LoopIs ==
    /\ Loop \in Loops /\ Loop.called = {} /\ Loop.cited = {}
    /\ Listed(Loop.found) = {}
<1>1. /\ Len(<<>>) = 0 /\ DOMAIN <<>> = {}
      /\ <<>> \in Seq(Calls) /\ <<>> \in Seq(Items) /\ <<>> \in Seq(Pages)
  BY EmptySeq
<1>2. /\ <<>> \in {s \in Seq(Calls) : Len(s) <= MaxCallsPerTurn}
      /\ <<>> \in {s \in Seq(Items) : Len(s) <= MaxSources}
      /\ 0 \in 0..MaxTurns
  BY <1>1, Limits
<1>3. Loop \in Loops /\ Loop.called = {} /\ Loop.cited = {} /\ Loop.found = <<>>
  BY <1>1, <1>2 DEF Loop, Loops
<1>4. QED
  BY <1>1, <1>3 DEF Listed

\* What is found is numbered within the cap.
LEMMA ListedIs ==
    ASSUME NEW l \in Loops
    PROVE  Listed(l.found) \in SUBSET Numbered
<1>1. l.found \in Seq(Items) /\ Len(l.found) <= MaxSources
  BY DEF Loops
<1>2. /\ DOMAIN l.found = 1..Len(l.found) /\ Len(l.found) \in Nat
      /\ \A n \in 1..Len(l.found) : l.found[n] \in Items
  BY <1>1, LenProperties, ElementOfSeq
<1>3. \A n \in 1..Len(l.found) : n \in 1..MaxSources
  BY <1>1, <1>2, Limits
<1>4. QED
  BY <1>2, <1>3 DEF Listed, Numbered

\* One question moves on, and whatever it changes is in order.
LEMMA Moves ==
    ASSUME AgentInv, NEW q \in Questions, NEW p \in Places \ {"new"}, NEW l \in Loops,
           pc' = [pc EXCEPT ![q] = p], local' = [local EXCEPT ![q] = l],
           p \in {"calling", "editing"} => l.pending # <<>>,
           reply' \in [Questions -> ReplyKinds],
           block' \in SUBSET Calls, Length(block') <= BlockLimit,
           turns' \in [Chats -> SUBSET Rows],
           \A c \in Chats : IsFiniteSet(turns'[c]),
           NEW sh \in SUBSET Numbered, shown' = [shown EXCEPT ![q] = sh],
           sh \subseteq Listed(l.found), l.cited \subseteq Listed(l.found),
           acted' \in [Questions -> [Calls -> Nat]],
           \A d \in Questions \ {q} : acted'[d] = acted[d],
           \A c \in Calls : /\ acted'[q][c] <= 1
                            /\ acted'[q][c] > 0 => c \in l.called \/ p \in Ended
    PROVE  AgentInv'
<1>1. /\ pc \in [Questions -> Places] /\ local \in [Questions -> Loops]
      /\ shown \in [Questions -> SUBSET Numbered]
  BY DEF AgentInv, TypeOK, Places
<1>2. /\ pc' \in [Questions -> Places] /\ pc'[q] = p
      /\ \A d \in Questions \ {q} : pc'[d] = pc[d]
  BY <1>1
<1>3. /\ local' \in [Questions -> Loops] /\ local'[q] = l
      /\ \A d \in Questions \ {q} : local'[d] = local[d]
  BY <1>1
<1>4. /\ shown' \in [Questions -> SUBSET Numbered] /\ shown'[q] = sh
      /\ \A d \in Questions \ {q} : shown'[d] = shown[d]
  BY <1>1
<1>5. TypeOK'
  BY <1>1, <1>2, <1>3, <1>4 DEF TypeOK, Places, ReplyKinds
<1>6. Once'
  <2> SUFFICES ASSUME NEW d \in Questions, NEW c \in Calls
               PROVE  /\ acted'[d][c] <= 1
                      /\ acted'[d][c] > 0 =>
                             /\ pc'[d] # "new"
                             /\ c \in local'[d].called \/ pc'[d] \in Ended
    BY DEF Once, Ended
  <2>1. CASE d = q
    BY <1>2, <1>3, <2>1
  <2>2. CASE d # q
    BY <1>2, <1>3, <2>2 DEF AgentInv, Once
  <2>3. QED
    BY <2>1, <2>2
<1>7. Waiting'
  BY <1>2, <1>3 DEF AgentInv, Waiting
<1>8. Shown'
  <2> SUFFICES ASSUME NEW d \in Questions
               PROVE  /\ shown'[d] \subseteq Listed(local'[d].found)
                      /\ local'[d].cited \subseteq Listed(local'[d].found)
    BY DEF Shown, Listed
  <2>1. CASE d = q
    BY <1>3, <1>4, <2>1
  <2>2. CASE d # q
    BY <1>3, <1>4, <2>2 DEF AgentInv, Shown
  <2>3. QED
    BY <2>1, <2>2
<1>9. MemoryWithinLimit'
  BY DEF MemoryWithinLimit, Length, MapThenSumSet, MapThenFoldSet
<1>10. FewTurns'
  BY DEF FewTurns, Chats
<1>11. QED
  BY <1>5, <1>6, <1>7, <1>8, <1>9, <1>10 DEF AgentInv

\* What the invariant says of one question.
LEMMA Has ==
    ASSUME AgentInv, NEW q \in Questions
    PROVE  /\ pc[q] \in Places /\ local[q] \in Loops
           /\ pc[q] \in {"calling", "editing"} => local[q].pending # <<>>
           /\ shown[q] \in SUBSET Numbered
           /\ shown[q] \subseteq Listed(local[q].found)
           /\ local[q].cited \subseteq Listed(local[q].found)
           /\ reply \in [Questions -> ReplyKinds] /\ block \in SUBSET Calls
           /\ Length(block) <= BlockLimit /\ turns \in [Chats -> SUBSET Rows]
           /\ \A c \in Chats : IsFiniteSet(turns[c])
           /\ shown = [shown EXCEPT ![q] = shown[q]]
           /\ acted \in [Questions -> [Calls -> Nat]]
           /\ \A c \in Calls :
                  /\ acted[q][c] <= 1
                  /\ acted[q][c] > 0 => c \in local[q].called \/ pc[q] \in Ended
BY DEF AgentInv, TypeOK, Once, Waiting, Shown, MemoryWithinLimit, FewTurns, Places,
   ReplyKinds

\* Nothing but the loop changes, and it forgets no call.
LEMMA QuietMoves ==
    ASSUME AgentInv, NEW q \in Questions, NEW p \in Places \ {"new"}, NEW l \in Loops,
           pc[q] \notin Ended,
           pc' = [pc EXCEPT ![q] = p], local' = [local EXCEPT ![q] = l],
           p \in {"calling", "editing"} => l.pending # <<>>,
           local[q].called \subseteq l.called,
           shown[q] \subseteq Listed(l.found), l.cited \subseteq Listed(l.found),
           UNCHANGED <<reply, block, turns, acted, shown>>
    PROVE  AgentInv'
<1>1. /\ reply' = reply /\ block' = block /\ turns' = turns /\ acted' = acted
      /\ shown' = shown
  OBVIOUS
<1>2. \A c \in Calls : /\ acted'[q][c] <= 1
                       /\ acted'[q][c] > 0 => c \in l.called \/ p \in Ended
  BY <1>1, Has
<1>3. /\ reply' \in [Questions -> ReplyKinds] /\ block' \in SUBSET Calls
      /\ Length(block') <= BlockLimit /\ turns' \in [Chats -> SUBSET Rows]
      /\ \A c \in Chats : IsFiniteSet(turns'[c])
      /\ shown' = [shown EXCEPT ![q] = shown[q]] /\ shown[q] \in SUBSET Numbered
      /\ acted' \in [Questions -> [Calls -> Nat]]
      /\ \A d \in Questions \ {q} : acted'[d] = acted[d]
  BY <1>1, Has
<1>4. QED
  BY <1>2, <1>3, Moves

\* The question is replied to.
LEMMA Replies ==
    ASSUME AgentInv, NEW q \in Questions, NEW kind \in ReplyKinds, Reply(q, kind),
           UNCHANGED <<block, acted>>,
           turns' \in [Chats -> SUBSET Rows],
           \A c \in Chats : IsFiniteSet(turns'[c])
    PROVE  AgentInv'
<1>1. /\ reply' = [reply EXCEPT ![q] = kind] /\ local' = [local EXCEPT ![q] = Loop]
      /\ shown' = [shown EXCEPT ![q] = {}] /\ pc' = [pc EXCEPT ![q] = "done"]
      /\ block' = block /\ acted' = acted
  BY DEF Reply, GoTo
<1>2. "done" \in Places \ {"new"} /\ "done" \in Ended
      /\ "done" \notin {"calling", "editing"}
  BY DEF Places, Ended
<1>3. /\ reply' \in [Questions -> ReplyKinds] /\ block' \in SUBSET Calls
      /\ Length(block') <= BlockLimit
      /\ acted' \in [Questions -> [Calls -> Nat]]
      /\ \A d \in Questions \ {q} : acted'[d] = acted[d]
      /\ \A c \in Calls : acted'[q][c] <= 1
  BY <1>1, Has
<1>4. {} \in SUBSET Numbered
  OBVIOUS
<1>5. QED
  BY <1>1, <1>2, <1>3, <1>4, LoopIs, Moves
-----------------------------------------------------------------------------
\* The session.

\* Turns of a chat that a LIMIT keeps are rows, and finitely many.
LEMMA LatestIs ==
    ASSUME NEW rows \in SUBSET Rows, IsFiniteSet(rows), NEW limit,
           NEW kept \in Latest(rows, limit)
    PROVE  kept \in SUBSET Rows /\ IsFiniteSet(kept)
BY FS_Subset DEF Latest

\* An exchange is two rows.
LEMMA ExchangeIs ==
    ASSUME AgentInv, NEW q \in Questions
    PROVE  Exchange(q) \in SUBSET Rows /\ IsFiniteSet(Exchange(q))
<1> DEFINE now == 1 + Max({0} \cup {r.at : r \in turns[Chat[q]]})
           row(role) == [question |-> q, role |-> role, at |-> now]
<1>1. turns[Chat[q]] \in SUBSET Rows /\ IsFiniteSet(turns[Chat[q]])
  BY Has DEF Chats
<1>2. now \in Nat
  BY <1>1, NowIs
<1>3. Exchange(q) = {row("user"), row("assistant")}
  BY DEF Exchange
<1> HIDE DEF now
<1>4. row("user") \in Rows /\ row("assistant") \in Rows
  BY <1>2 DEF Rows
<1> HIDE DEF row
<1>5. IsFiniteSet({row("user")} \cup {row("assistant")})
  BY FS_Singleton, FS_Union
<1>6. {row("user")} \cup {row("assistant")} = Exchange(q)
  BY <1>3
<1>7. QED
  BY <1>3, <1>4, <1>5, <1>6

LEMMA AskInv ==
    ASSUME AgentInv, NEW q \in Questions, Ask(q)
    PROVE  AgentInv'
<1>1. pc[q] = "new" /\ UNCHANGED <<block, turns, acted>>
  BY DEF Ask
<1>2. CASE GoTo(q, "loading") /\ UNCHANGED <<local, reply, shown>>
  <2>1. /\ pc' = [pc EXCEPT ![q] = "loading"]
        /\ UNCHANGED <<reply, block, turns, acted, shown>>
    BY <1>1, <1>2 DEF GoTo
  <2>2. local' = [local EXCEPT ![q] = local[q]] /\ local[q] \in Loops
    BY <1>2 DEF AgentInv, TypeOK
  <2>3. pc[q] \notin Ended /\ "loading" \in Places \ {"new"}
    BY <1>1 DEF Ended, Places
  <2>4. QED
    BY <2>1, <2>2, <2>3, Has, QuietMoves
<1>3. CASE Reply(q, "chitchat")
  <2>1. /\ turns' \in [Chats -> SUBSET Rows]
        /\ \A c \in Chats : IsFiniteSet(turns'[c])
    BY <1>1, Has
  <2>2. QED
    BY <1>1, <1>3, <2>1, Replies DEF ReplyKinds
<1>4. QED
  BY <1>2, <1>3 DEF Ask

LEMMA LoadInv ==
    ASSUME AgentInv, NEW q \in Questions, Load(q)
    PROVE  AgentInv'
<1>1. /\ pc[q] = "loading" /\ pc' = [pc EXCEPT ![q] = "model"]
      /\ UNCHANGED <<reply, block, turns, acted, shown>>
  BY DEF Load, GoTo
<1>2. pc[q] \notin Ended /\ "model" \in Places \ {"new"}
  BY <1>1 DEF Ended, Places
<1>3. local \in [Questions -> Loops] /\ local[q] \in Loops
  BY DEF AgentInv, TypeOK
<1>4. PICK l \in Loops : /\ local' = [local EXCEPT ![q] = l]
                        /\ l.called = local[q].called /\ l.found = local[q].found
                        /\ l.cited = local[q].cited
  <2>1. CASE UNCHANGED local
    BY <1>3, <2>1
  <2>2. ASSUME NEW read \in Latest(turns[Chat[q]], TurnsForPrompt) \cup {{}},
               local' = [local EXCEPT ![q].session = TRUE, ![q].history = read]
        PROVE  \E l \in Loops : /\ local' = [local EXCEPT ![q] = l]
                               /\ l.called = local[q].called
                               /\ l.found = local[q].found
                               /\ l.cited = local[q].cited
    <3>1. turns[Chat[q]] \in SUBSET Rows /\ IsFiniteSet(turns[Chat[q]])
      BY Has DEF Chats
    <3>2. read \in SUBSET Rows
      BY <3>1, LatestIs
    <3> DEFINE l == [local[q] EXCEPT !.session = TRUE, !.history = read]
    <3>3. /\ l \in Loops /\ l.called = local[q].called
          /\ l.found = local[q].found /\ l.cited = local[q].cited
      BY <1>3, <3>2 DEF Loops
    <3>4. local' = [local EXCEPT ![q] = l]
      BY <1>3, <2>2
    <3>5. QED
      BY <3>3, <3>4
  <2>3. QED
    BY <2>1, <2>2 DEF Load, OpenSession
<1>5. QED
  BY <1>1, <1>2, <1>4, Has, QuietMoves

LEMMA SaveInv ==
    ASSUME AgentInv, NEW q \in Questions, Save(q)
    PROVE  AgentInv'
<1>1. Reply(q, "answer") /\ UNCHANGED <<block, acted>> /\ "answer" \in ReplyKinds
  BY DEF Save, ReplyKinds
<1>2. turns \in [Chats -> SUBSET Rows] /\ \A c \in Chats : IsFiniteSet(turns[c])
  BY Has
<1>3. /\ turns' \in [Chats -> SUBSET Rows]
      /\ \A c \in Chats : IsFiniteSet(turns'[c])
  <2>1. CASE UNCHANGED turns
    BY <1>2, <2>1
  <2>2. CASE AppendExchange(q)
    <3> DEFINE rows == turns[Chat[q]] \cup Exchange(q)
    <3>1. Chat[q] \in Chats
      BY DEF Chats
    <3>2. rows \in SUBSET Rows /\ IsFiniteSet(rows)
      BY <1>2, <3>1, ExchangeIs, FS_Union
    <3>3. PICK kept \in Latest(rows, TurnsStored) :
              turns' = [turns EXCEPT ![Chat[q]] = kept]
      BY <2>2 DEF AppendExchange
    <3> HIDE DEF rows
    <3>4. kept \in SUBSET Rows /\ IsFiniteSet(kept)
      BY <3>2, <3>3, LatestIs
    <3>5. QED
      BY <1>2, <3>1, <3>3, <3>4
  <2>3. QED
    BY <2>1, <2>2 DEF Save
<1>4. QED
  BY <1>1, <1>3, Replies
-----------------------------------------------------------------------------
\* The model's turns.

LEMMA TurnInv ==
    ASSUME AgentInv, NEW q \in Questions, Turn(q)
    PROVE  AgentInv'
<1>1. /\ local \in [Questions -> Loops] /\ local[q] \in Loops
      /\ pc \in [Questions -> Places]
      /\ turns \in [Chats -> SUBSET Rows] /\ \A c \in Chats : IsFiniteSet(turns[c])
  BY Has DEF AgentInv, TypeOK, Places
<1>2. {"model", "calling", "saving"} \subseteq Places \ {"new"}
  BY DEF Places
<1>3. ASSUME Reply(q, "error"), UNCHANGED <<block, turns, acted>>
      PROVE  AgentInv'
  <2>1. "error" \in ReplyKinds
    BY DEF ReplyKinds
  <2>2. turns' = turns
    BY <1>3
  <2>3. QED
    BY <1>1, <1>3, <2>1, <2>2, Replies
<1>4. ASSUME HasTurn(q)
      PROVE  /\ pc[q] = "model" /\ pc[q] \notin Ended
             /\ local[q].turn + 1 \in 0..MaxTurns
  BY <1>1, <1>4, Limits DEF HasTurn, Loops, Ended
<1>5. CASE ModelFails(q)
  BY <1>3, <1>5 DEF ModelFails
<1>6. CASE Malformed(q)
  <2>1. CASE Reply(q, "error")
    BY <1>3, <1>6, <2>1 DEF Malformed
  <2>2. CASE ~ Reply(q, "error")
    <3> DEFINE l == [local[q] EXCEPT !.repaired = TRUE, !.turn = @ + 1]
    <3>1. /\ HasTurn(q) /\ UNCHANGED <<reply, block, turns, acted, shown>>
          /\ pc' = pc
          /\ local' = [local EXCEPT ![q].repaired = TRUE, ![q].turn = @ + 1]
      BY <1>6, <2>2 DEF Malformed
    <3>2. /\ l \in Loops /\ l.called = local[q].called
          /\ l.found = local[q].found /\ l.cited = local[q].cited
      BY <1>1, <1>4, <3>1 DEF Loops
    <3>3. local' = [local EXCEPT ![q] = l]
      BY <1>1, <3>1
    <3>4. pc' = [pc EXCEPT ![q] = "model"]
      BY <1>1, <1>4, <3>1
    <3> HIDE DEF l
    <3>5. QED
      BY <1>2, <1>4, <3>1, <3>2, <3>3, <3>4, Has, QuietMoves
  <2>3. QED
    BY <2>1, <2>2
<1>7. CASE SayNothing(q)
  <2> DEFINE l == [local[q] EXCEPT !.turn = @ + 1]
  <2>1. /\ HasTurn(q) /\ UNCHANGED <<reply, block, turns, acted, shown>>
        /\ pc' = pc /\ local' = [local EXCEPT ![q].turn = @ + 1]
    BY <1>7 DEF SayNothing
  <2>2. /\ l \in Loops /\ l.called = local[q].called
        /\ l.found = local[q].found /\ l.cited = local[q].cited
    BY <1>1, <1>4, <2>1 DEF Loops
  <2>3. local' = [local EXCEPT ![q] = l]
    BY <1>1, <2>1
  <2>4. pc' = [pc EXCEPT ![q] = "model"]
    BY <1>1, <1>4, <2>1
  <2> HIDE DEF l
  <2>5. QED
    BY <1>2, <1>4, <2>1, <2>2, <2>3, <2>4, Has, QuietMoves
<1>8. ASSUME NEW numbers \in SUBSET (1..MaxSources), Answer(q, numbers)
      PROVE  AgentInv'
  <2> DEFINE found == local[q].found
             cited == {<<n, found[n]>> : n \in numbers \cap DOMAIN found}
             l == [local[q] EXCEPT !.cited = cited]
  <2>1. /\ pc[q] = "model" /\ pc' = [pc EXCEPT ![q] = "saving"]
        /\ local' = [local EXCEPT ![q].cited = cited]
        /\ UNCHANGED <<reply, block, turns, acted, shown>>
    BY <1>8 DEF Answer, GoTo
  <2>2. cited \subseteq Listed(found)
    BY DEF Listed
  <2> HIDE DEF cited
  <2>3. cited \in SUBSET Numbered /\ shown[q] \subseteq Listed(found)
    BY <1>1, <2>2, Has, ListedIs
  <2>4. /\ l \in Loops /\ l.called = local[q].called
        /\ l.found = local[q].found /\ l.cited = cited
    BY <1>1, <2>3 DEF Loops
  <2>5. local' = [local EXCEPT ![q] = l]
    BY <1>1, <2>1
  <2>6. pc[q] \notin Ended
    BY <2>1 DEF Ended
  <2> HIDE DEF l
  <2>7. QED
    BY <1>2, <2>1, <2>2, <2>3, <2>4, <2>5, <2>6, Has, QuietMoves
<1>9. ASSUME NEW plan \in Plans[q], Plan(q, plan)
      PROVE  AgentInv'
  <2> DEFINE some == SubSeq(plan, 1, Min({Len(plan), MaxCallsPerTurn}))
             l == [local[q] EXCEPT !.turn = @ + 1, !.pending = some]
  <2>1. /\ HasTurn(q) /\ pc' = [pc EXCEPT ![q] = "calling"]
        /\ local' = [local EXCEPT ![q].turn = @ + 1, ![q].pending = some]
        /\ UNCHANGED <<reply, block, turns, acted, shown>>
    BY <1>9 DEF Plan, GoTo
  <2>2. some \in {s \in Seq(Calls) : Len(s) <= MaxCallsPerTurn} /\ some # <<>>
    <3>1. plan \in Seq(Calls) /\ plan # <<>>
      BY AgentAssumption
    <3>2. Len(plan) \in Nat /\ Len(plan) >= 1
      BY <3>1, LenProperties, EmptySeq
    <3> DEFINE n == Min({Len(plan), MaxCallsPerTurn})
    <3>3. n \in Nat /\ n >= 1 /\ n <= Len(plan) /\ n <= MaxCallsPerTurn
      BY <3>2, MinPair, Limits
    <3> HIDE DEF n
    <3>4. \A i \in 1..n : plan[i] \in Calls
      BY <3>1, <3>2, <3>3, ElementOfSeq
    <3>5. SubSeq(plan, 1, n) \in Seq(Calls) /\ Len(SubSeq(plan, 1, n)) = n
      BY <3>1, <3>3, <3>4, SubSeqProperties
    <3>6. SubSeq(plan, 1, n) # <<>>
      BY <3>3, <3>5, EmptySeq
    <3>7. QED
      BY <3>3, <3>5, <3>6 DEF n
  <2> HIDE DEF some
  <2>3. /\ l \in Loops /\ l.called = local[q].called /\ l.pending = some
        /\ l.found = local[q].found /\ l.cited = local[q].cited
    BY <1>1, <1>4, <2>1, <2>2 DEF Loops
  <2>4. local' = [local EXCEPT ![q] = l]
    BY <1>1, <2>1
  <2> HIDE DEF l
  <2>5. QED
    BY <1>2, <1>4, <2>1, <2>2, <2>3, <2>4, Has, QuietMoves
<1>10. QED
  BY <1>5, <1>6, <1>7, <1>8, <1>9 DEF Turn
-----------------------------------------------------------------------------
\* The calls.

\* A call is made, and the rest of the list is left.
LEMMA ProceedIs ==
    ASSUME AgentInv, NEW q \in Questions, NEW after \in Loops,
           after.pending # <<>>, Proceed(q, after)
    PROVE  \E p \in {"model", "calling"}, l \in Loops :
               /\ p \in Places \ {"new"} /\ p \notin Ended
               /\ pc' = [pc EXCEPT ![q] = p] /\ local' = [local EXCEPT ![q] = l]
               /\ p \in {"calling", "editing"} => l.pending # <<>>
               /\ l.called = after.called /\ l.found = after.found
               /\ l.cited = after.cited
<1> DEFINE l == [after EXCEPT !.pending = Tail(@)]
           p == IF Len(after.pending) = 1 THEN "model" ELSE "calling"
<1>1. /\ pc' = [pc EXCEPT ![q] = p] /\ local' = [local EXCEPT ![q] = l]
  BY DEF Proceed, GoTo
<1>2. after.pending \in Seq(Calls) /\ Len(after.pending) <= MaxCallsPerTurn
  BY DEF Loops
<1>3. Len(after.pending) \in Nat /\ Len(after.pending) # 0
  BY <1>2, LenProperties, EmptySeq
<1>4. /\ Tail(after.pending) \in Seq(Calls)
      /\ Len(Tail(after.pending)) = Len(after.pending) - 1
  BY <1>2, HeadTailProperties
<1>5. /\ Tail(after.pending) \in {s \in Seq(Calls) : Len(s) <= MaxCallsPerTurn}
      /\ p = "calling" => Tail(after.pending) # <<>>
  <2>1. Len(Tail(after.pending)) <= MaxCallsPerTurn
    BY <1>2, <1>3, <1>4, Limits
  <2>2. p = "calling" => Len(Tail(after.pending)) # 0
    BY <1>3, <1>4
  <2>3. QED
    BY <1>4, <2>1, <2>2, EmptySeq
<1>6. /\ l \in Loops /\ l.pending = Tail(after.pending)
      /\ l.called = after.called /\ l.found = after.found /\ l.cited = after.cited
  BY <1>5 DEF Loops
<1>7. p \in {"model", "calling"} /\ p \in Places \ {"new"} /\ p \notin Ended
  BY DEF Places, Ended
<1> HIDE DEF l, p
<1>8. QED
  BY <1>1, <1>5, <1>6, <1>7

\* The call at hand is one of the calls, and then it is known to be made.
LEMMA NotedIs ==
    ASSUME AgentInv, NEW q \in Questions, pc[q] \in {"calling", "editing"}
    PROVE  /\ Call(q) \in Calls /\ pc[q] \notin Ended
           /\ Noted(q) \in Loops /\ Noted(q).pending = local[q].pending
           /\ Noted(q).pending # <<>>
           /\ Noted(q).called = local[q].called \cup {Call(q)}
           /\ Noted(q).found = local[q].found /\ Noted(q).cited = local[q].cited
           /\ Noted(q).pages = local[q].pages
<1>1. local[q] \in Loops /\ local[q].pending # <<>> /\ pc[q] \notin Ended
  BY Has DEF Ended
<1>2. local[q].pending \in Seq(Calls)
  BY <1>1 DEF Loops
<1>3. Call(q) \in Calls
  BY <1>1, <1>2, HeadTailProperties DEF Call
<1>4. local[q].called \cup {Call(q)} \in SUBSET Calls
  BY <1>1, <1>3 DEF Loops
<1>5. QED
  BY <1>1, <1>3, <1>4 DEF Noted, Loops

\* The loop goes on, and nothing else has changed.
LEMMA QuietProceed ==
    ASSUME AgentInv, NEW q \in Questions, pc[q] \in {"calling", "editing"},
           NEW after \in Loops, after.pending # <<>>, Proceed(q, after),
           local[q].called \subseteq after.called,
           after.found = local[q].found, after.cited = local[q].cited,
           UNCHANGED <<reply, block, turns, acted, shown>>
    PROVE  AgentInv'
<1>1. PICK p \in {"model", "calling"}, l \in Loops :
          /\ p \in Places \ {"new"} /\ p \notin Ended
          /\ pc' = [pc EXCEPT ![q] = p] /\ local' = [local EXCEPT ![q] = l]
          /\ p \in {"calling", "editing"} => l.pending # <<>>
          /\ l.called = after.called /\ l.found = after.found
          /\ l.cited = after.cited
  BY ProceedIs
<1>2. pc[q] \notin Ended
  BY NotedIs
<1>3. shown[q] \subseteq Listed(l.found) /\ l.cited \subseteq Listed(l.found)
  BY <1>1, Has
<1>4. QED
  BY <1>1, <1>2, <1>3, QuietMoves

LEMMA TextOnlyInv ==
    ASSUME AgentInv, NEW q \in Questions, pc[q] = "calling", TextOnly(q)
    PROVE  AgentInv'
<1>1. Proceed(q, Noted(q)) /\ UNCHANGED <<reply, block, turns, acted, shown>>
  BY DEF TextOnly
<1>2. /\ Noted(q) \in Loops /\ Noted(q).pending # <<>>
      /\ local[q].called \subseteq Noted(q).called
      /\ Noted(q).found = local[q].found /\ Noted(q).cited = local[q].cited
  BY NotedIs
<1>3. QED
  BY <1>1, <1>2, QuietProceed

LEMMA WebResultsInv ==
    ASSUME AgentInv, NEW q \in Questions, pc[q] = "calling",
           NEW hits \in PageHits, WebResults(q, hits)
    PROVE  AgentInv'
<1> DEFINE pages == Absorb(Noted(q).pages, hits, Len(Noted(q).pages) + Len(hits))
           after == [Noted(q) EXCEPT !.pages = pages]
<1>1. Proceed(q, after) /\ UNCHANGED <<reply, block, turns, acted, shown>>
  BY NotedIs DEF WebResults
<1>2. /\ Noted(q) \in Loops /\ Noted(q).pending # <<>>
      /\ local[q].called \subseteq Noted(q).called
      /\ Noted(q).found = local[q].found /\ Noted(q).cited = local[q].cited
  BY NotedIs
<1>3. pages \in Seq(Pages)
  <2>1. Noted(q).pages \in Seq(Pages) /\ hits \in Seq(Pages)
    BY <1>2, AgentAssumption DEF Loops
  <2>2. Len(Noted(q).pages) + Len(hits) \in Nat
    BY <2>1, LenProperties
  <2>3. QED
    BY <2>1, <2>2, AbsorbIs
<1> HIDE DEF pages
<1>4. /\ after \in Loops /\ after.pending = Noted(q).pending
      /\ after.called = Noted(q).called /\ after.found = Noted(q).found
      /\ after.cited = Noted(q).cited
  BY <1>2, <1>3 DEF Loops
<1> HIDE DEF after
<1>5. QED
  BY <1>1, <1>2, <1>4, QuietProceed

\* What the model is shown has the numbers the sources have now, and what was
\* known before has kept its own.
LEMMA PassagesInv ==
    ASSUME AgentInv, NEW q \in Questions, pc[q] = "calling",
           NEW hits \in ItemHits, Passages(q, hits)
    PROVE  AgentInv'
<1> DEFINE known == local[q].found
           found == Absorb(known, hits, MaxSources)
           after == [Noted(q) EXCEPT !.found = found]
           new(k) == {<<n, found[n]>> : n \in
                         {m \in DOMAIN found : \E h \in 1..k : found[m] = hits[h]}}
<1>0. PICK k \in 0..Len(hits) : shown' = [shown EXCEPT ![q] = shown[q] \cup new(k)]
  BY DEF Passages
<1> DEFINE sh == shown[q] \cup new(k)
<1>1. /\ Proceed(q, after) /\ UNCHANGED <<reply, block, turns, acted>>
      /\ shown' = [shown EXCEPT ![q] = sh]
  BY <1>0 DEF Passages
<1>2. /\ Noted(q) \in Loops /\ Noted(q).pending # <<>>
      /\ local[q].called \subseteq Noted(q).called
      /\ Noted(q).found = local[q].found /\ Noted(q).cited = local[q].cited
  BY NotedIs
<1>3. /\ known \in Seq(Items) /\ Len(known) <= MaxSources
      /\ hits \in Seq(Items) /\ Len(known) \in Nat
  BY <1>2, AgentAssumption, LenProperties DEF Loops
<1>4. /\ found \in Seq(Items) /\ Len(found) >= Len(known)
      /\ Len(found) <= MaxSources \/ Len(found) = Len(known)
      /\ \A i \in 1..Len(known) : found[i] = known[i]
  <2> HIDE DEF found, known
  <2>1. found = Absorb(known, hits, MaxSources) /\ MaxSources \in Nat
    BY Limits DEF found
  <2>2. QED
    BY <1>3, <2>1, AbsorbIs
<1>5. new(k) \subseteq Listed(found)
  BY DEF Listed
<1> HIDE DEF found, known
<1>6. /\ Len(found) \in Nat /\ Len(found) <= MaxSources
      /\ DOMAIN found = 1..Len(found) /\ DOMAIN known = 1..Len(known)
  BY <1>3, <1>4, LenProperties
<1>7. /\ after \in Loops /\ after.pending = Noted(q).pending
      /\ after.called = Noted(q).called /\ after.found = found
      /\ after.cited = Noted(q).cited
  BY <1>2, <1>4, <1>6 DEF Loops
<1>8. Listed(known) \subseteq Listed(found)
  <2> SUFFICES ASSUME NEW n \in 1..Len(known)
               PROVE  <<n, known[n]>> \in Listed(found)
    BY <1>6 DEF Listed
  <2>1. n \in 1..Len(found)
    <3>1. Len(known) \in Nat /\ Len(found) \in Nat /\ Len(found) >= Len(known)
      BY <1>3, <1>4, <1>6
    <3> HIDE DEF after, sh, new
    <3>2. QED
      BY <3>1
  <2>2. n \in DOMAIN found /\ found[n] = known[n]
    BY <1>4, <1>6, <2>1
  <2>3. QED
    BY <2>2 DEF Listed
<1>9. /\ sh \subseteq Listed(found) /\ local[q].cited \subseteq Listed(found)
      /\ sh \in SUBSET Numbered
  <2>1. shown[q] \subseteq Listed(known) /\ local[q].cited \subseteq Listed(known)
    BY Has DEF known
  <2>2. Listed(found) \in SUBSET Numbered
    BY <1>7, ListedIs
  <2>3. QED
    BY <1>5, <1>8, <2>1, <2>2
<1> HIDE DEF after
<1>10. PICK p \in {"model", "calling"}, l \in Loops :
          /\ p \in Places \ {"new"} /\ p \notin Ended
          /\ pc' = [pc EXCEPT ![q] = p] /\ local' = [local EXCEPT ![q] = l]
          /\ p \in {"calling", "editing"} => l.pending # <<>>
          /\ l.called = after.called /\ l.found = after.found
          /\ l.cited = after.cited
  BY <1>1, <1>2, <1>7, ProceedIs
<1>11. sh \subseteq Listed(l.found) /\ l.cited \subseteq Listed(l.found)
  BY <1>2, <1>7, <1>9, <1>10
<1>12. /\ reply' = reply /\ block' = block /\ turns' = turns /\ acted' = acted
  BY <1>1
<1>13. pc[q] \notin Ended
  BY NotedIs
<1>14. \A c \in Calls : /\ acted'[q][c] <= 1
                        /\ acted'[q][c] > 0 => c \in l.called \/ p \in Ended
  <2>1. \A c \in Calls : /\ acted[q][c] <= 1
                         /\ acted[q][c] > 0 => c \in local[q].called \/ pc[q] \in Ended
    BY Has
  <2>2. local[q].called \subseteq l.called
    BY <1>2, <1>7, <1>10
  <2>3. QED
    BY <1>12, <1>13, <2>1, <2>2
<1>15. /\ reply' \in [Questions -> ReplyKinds] /\ block' \in SUBSET Calls
       /\ Length(block') <= BlockLimit /\ turns' \in [Chats -> SUBSET Rows]
       /\ \A c \in Chats : IsFiniteSet(turns'[c])
       /\ acted' \in [Questions -> [Calls -> Nat]]
       /\ \A d \in Questions \ {q} : acted'[d] = acted[d]
  BY <1>12, Has
<1> HIDE DEF sh
<1>16. shown' = [shown EXCEPT ![q] = sh]
  BY <1>1
<1>17. QED
  BY <1>9, <1>10, <1>11, <1>14, <1>15, <1>16, Moves

\* A call acts for the first time, whatever the answer says.
LEMMA ActInv ==
    ASSUME AgentInv, NEW q \in Questions, pc[q] = "calling",
           Call(q) \notin local[q].called, Act(q)
    PROVE  AgentInv'
<1> DEFINE did == [acted EXCEPT ![q][Call(q)] = @ + 1]
<1>1. /\ Proceed(q, Noted(q)) /\ acted' \in {acted, did}
      /\ reply' = reply /\ block' = block /\ turns' = turns /\ shown' = shown
  BY DEF Act
<1>2. /\ Noted(q) \in Loops /\ Noted(q).pending # <<>> /\ Call(q) \in Calls
      /\ Noted(q).called = local[q].called \cup {Call(q)} /\ pc[q] \notin Ended
      /\ Noted(q).found = local[q].found /\ Noted(q).cited = local[q].cited
  BY NotedIs
<1>3. PICK p \in {"model", "calling"}, l \in Loops :
          /\ p \in Places \ {"new"} /\ p \notin Ended
          /\ pc' = [pc EXCEPT ![q] = p] /\ local' = [local EXCEPT ![q] = l]
          /\ p \in {"calling", "editing"} => l.pending # <<>>
          /\ l.called = Noted(q).called /\ l.found = Noted(q).found
          /\ l.cited = Noted(q).cited
  BY <1>1, <1>2, ProceedIs
<1>4. /\ acted \in [Questions -> [Calls -> Nat]]
      /\ \A c \in Calls : acted[q][c] \in Nat /\ acted[q][c] <= 1
      /\ \A c \in Calls : acted[q][c] > 0 => c \in local[q].called
  BY <1>2, Has
<1>5. acted[q][Call(q)] = 0
  BY <1>2, <1>4
<1>6. /\ acted' \in [Questions -> [Calls -> Nat]]
      /\ \A d \in Questions \ {q} : acted'[d] = acted[d]
      /\ \A c \in Calls \ {Call(q)} : acted'[q][c] = acted[q][c]
      /\ acted'[q][Call(q)] \in {0, 1}
  <2>1. CASE acted' = acted
    BY <1>2, <1>4, <1>5, <2>1
  <2>2. CASE acted' = did
    <3>1. acted[q][Call(q)] + 1 \in Nat /\ acted[q][Call(q)] + 1 = 1
      BY <1>5
    <3>2. QED
      BY <1>2, <1>4, <2>2, <3>1
  <2>3. QED
    BY <1>1, <2>1, <2>2
<1>7. \A c \in Calls : /\ acted'[q][c] <= 1
                       /\ acted'[q][c] > 0 => c \in l.called \/ p \in Ended
  BY <1>2, <1>3, <1>4, <1>6
<1>8. /\ reply' \in [Questions -> ReplyKinds] /\ block' \in SUBSET Calls
      /\ Length(block') <= BlockLimit /\ turns' \in [Chats -> SUBSET Rows]
      /\ \A c \in Chats : IsFiniteSet(turns'[c])
      /\ shown' = [shown EXCEPT ![q] = shown[q]] /\ shown[q] \in SUBSET Numbered
      /\ shown[q] \subseteq Listed(l.found) /\ l.cited \subseteq Listed(l.found)
  BY <1>1, <1>2, <1>3, Has
<1>9. QED
  BY <1>3, <1>6, <1>7, <1>8, Moves

\* An edit has read the block, and may write what it makes of that.
LEMMA CoreMemoryReadInv ==
    ASSUME AgentInv, NEW q \in Questions, CoreMemoryRead(q)
    PROVE  AgentInv'
<1> DEFINE l == [Noted(q) EXCEPT !.memo = block]
<1>1. /\ pc[q] = "calling" /\ pc' = [pc EXCEPT ![q] = "editing"]
      /\ local' = [local EXCEPT ![q] = l]
      /\ UNCHANGED <<reply, block, turns, acted, shown>>
  BY DEF CoreMemoryRead, Dispatched, GoTo
<1>2. /\ Noted(q) \in Loops /\ Noted(q).pending # <<>> /\ pc[q] \notin Ended
      /\ local[q].called \subseteq Noted(q).called
      /\ Noted(q).found = local[q].found /\ Noted(q).cited = local[q].cited
  BY <1>1, NotedIs
<1>3. block \in SUBSET Calls
  BY Has
<1>4. /\ l \in Loops /\ l.pending = Noted(q).pending
      /\ l.called = Noted(q).called /\ l.found = Noted(q).found
      /\ l.cited = Noted(q).cited
  BY <1>2, <1>3 DEF Loops
<1>5. "editing" \in Places \ {"new"}
  BY DEF Places
<1> HIDE DEF l
<1>6. QED
  BY <1>1, <1>2, <1>4, <1>5, Has, QuietMoves

\* What is left when an edit is over.
LEMMA ForgottenIs ==
    ASSUME AgentInv, NEW q \in Questions, pc[q] = "editing"
    PROVE  /\ Forgotten(q) \in Loops /\ Forgotten(q).pending # <<>>
           /\ Forgotten(q).called = local[q].called
           /\ Forgotten(q).found = local[q].found /\ Forgotten(q).cited = local[q].cited
<1>1. local[q] \in Loops /\ local[q].pending # <<>>
  BY Has
<1>2. QED
  BY <1>1 DEF Forgotten, Loops

LEMMA LeaveBlockInv ==
    ASSUME AgentInv, NEW q \in Questions, LeaveBlock(q)
    PROVE  AgentInv'
<1>1. /\ pc[q] = "editing" /\ Proceed(q, Forgotten(q))
      /\ UNCHANGED <<reply, block, turns, acted, shown>>
  BY DEF LeaveBlock
<1>2. QED
  BY <1>1, ForgottenIs, QuietProceed

\* An edit is checked as a whole, so that what is written is within the limit
\* whatever others have written since it was read.
LEMMA WriteBlockInv ==
    ASSUME AgentInv, NEW q \in Questions, WriteBlock(q)
    PROVE  AgentInv'
<1>1. /\ pc[q] = "editing" /\ ~ Rejected(q) /\ block' = Edited(q)
      /\ Proceed(q, Forgotten(q))
      /\ reply' = reply /\ turns' = turns /\ acted' = acted /\ shown' = shown
  BY DEF WriteBlock
<1>2. /\ Forgotten(q) \in Loops /\ Forgotten(q).pending # <<>>
      /\ Forgotten(q).called = local[q].called
      /\ Forgotten(q).found = local[q].found /\ Forgotten(q).cited = local[q].cited
      /\ Call(q) \in Calls /\ pc[q] \notin Ended /\ local[q] \in Loops
  BY <1>1, ForgottenIs, NotedIs, Has
<1>3. PICK p \in {"model", "calling"}, l \in Loops :
          /\ p \in Places \ {"new"} /\ p \notin Ended
          /\ pc' = [pc EXCEPT ![q] = p] /\ local' = [local EXCEPT ![q] = l]
          /\ p \in {"calling", "editing"} => l.pending # <<>>
          /\ l.called = Forgotten(q).called /\ l.found = Forgotten(q).found
          /\ l.cited = Forgotten(q).cited
  BY <1>1, <1>2, ProceedIs
<1>4. Edited(q) \in SUBSET Calls
  <2>1. local[q].memo \subseteq Calls
    BY <1>2 DEF Loops
  <2>2. QED
    BY <1>2, <2>1 DEF Edited
<1>5. Length(Edited(q)) \in Nat /\ ~ (Length(Edited(q)) > BlockLimit)
  BY <1>1, <1>4, LengthIs DEF Rejected
<1>6. block' \in SUBSET Calls /\ Length(block') <= BlockLimit
  BY <1>1, <1>4, <1>5, Limits
<1>7. \A c \in Calls : /\ acted'[q][c] <= 1
                       /\ acted'[q][c] > 0 => c \in l.called \/ p \in Ended
  BY <1>1, <1>2, <1>3, Has
<1>8. /\ reply' \in [Questions -> ReplyKinds] /\ turns' \in [Chats -> SUBSET Rows]
      /\ \A c \in Chats : IsFiniteSet(turns'[c])
      /\ shown' = [shown EXCEPT ![q] = shown[q]] /\ shown[q] \in SUBSET Numbered
      /\ shown[q] \subseteq Listed(l.found) /\ l.cited \subseteq Listed(l.found)
      /\ acted' \in [Questions -> [Calls -> Nat]]
      /\ \A d \in Questions \ {q} : acted'[d] = acted[d]
  BY <1>1, <1>2, <1>3, Has
<1>9. QED
  BY <1>3, <1>6, <1>7, <1>8, Moves

LEMMA RunCallInv ==
    ASSUME AgentInv, NEW q \in Questions, RunCall(q)
    PROVE  AgentInv'
<1>1. CASE \/ RepeatedCall(q) \/ UnknownTool(q)
           \/ SearchChatHistory(q) \/ ArchivalSearch(q) \/ FileRead(q)
  <2>1. pc[q] = "calling" /\ TextOnly(q)
    BY <1>1 DEF RepeatedCall, UnknownTool, SearchChatHistory, ArchivalSearch, FileRead,
       Dispatched
  <2>2. QED
    BY <2>1, TextOnlyInv
<1>2. CASE SearchBrain(q) \/ GraphLookup(q)
  <2>1. pc[q] = "calling" /\ \E hits \in ItemHits : Passages(q, hits)
    BY <1>2 DEF SearchBrain, GraphLookup, Dispatched
  <2>2. QED
    BY <2>1, PassagesInv
<1>3. CASE WebSearch(q) \/ FetchUrl(q)
  <2>1. pc[q] = "calling" /\ \E hits \in PageHits : WebResults(q, hits)
    BY <1>3 DEF WebSearch, FetchUrl, Dispatched
  <2>2. QED
    BY <2>1, WebResultsInv
<1>4. CASE ArchivalInsert(q) \/ BashExec(q) \/ FileWrite(q) \/ Integration(q)
  <2>1. pc[q] = "calling" /\ Call(q) \notin local[q].called /\ Act(q)
    BY <1>4 DEF ArchivalInsert, BashExec, FileWrite, Integration, Dispatched
  <2>2. QED
    BY <2>1, ActInv
<1>5. CASE CoreMemoryRead(q)
  BY <1>5, CoreMemoryReadInv
<1>6. CASE WriteBlock(q)
  BY <1>6, WriteBlockInv
<1>7. CASE LeaveBlock(q)
  BY <1>7, LeaveBlockInv
<1>8. QED
  BY <1>1, <1>2, <1>3, <1>4, <1>5, <1>6, <1>7 DEF RunCall
-----------------------------------------------------------------------------
\* Every loop is forgotten, and no call that took effect is made again.
LEMMA RestartInv ==
    ASSUME AgentInv, Restart
    PROVE  AgentInv'
<1> DEFINE under == {q \in Questions : pc[q] \notin {"new", "done", "gone"}}
<1>1. /\ pc' = [q \in Questions |-> IF q \in under THEN "gone" ELSE pc[q]]
      /\ local' = [q \in Questions |-> Loop]
      /\ shown' = [q \in Questions |-> {}]
      /\ reply' = reply /\ block' = block /\ turns' = turns /\ acted' = acted
  BY DEF Restart
<1>2. \A q \in Questions : pc'[q] \in {"new", "done", "gone"}
                          /\ (pc'[q] = "new" => pc[q] = "new")
  BY <1>1
<1>3. pc' \in [Questions -> Places]
  BY <1>1, <1>2 DEF Places
<1>4. TypeOK'
  BY <1>1, <1>3, LoopIs DEF AgentInv, TypeOK, Places
<1>5. Once'
  BY <1>1, <1>2 DEF AgentInv, Once, Ended
<1>6. Waiting' /\ Shown'
  BY <1>1, <1>2, LoopIs DEF Waiting, Shown
<1>7. MemoryWithinLimit' /\ FewTurns'
  BY <1>1 DEF AgentInv, MemoryWithinLimit, FewTurns
<1>8. QED
  BY <1>4, <1>5, <1>6, <1>7 DEF AgentInv

LEMMA AgentInit == Init => AgentInv
<1> SUFFICES ASSUME Init PROVE AgentInv
  OBVIOUS
<1>1. /\ pc = [q \in Questions |-> "new"] /\ local = [q \in Questions |-> Loop]
      /\ reply = [q \in Questions |-> "none"]
      /\ block = {} /\ turns = [c \in Chats |-> {}]
      /\ acted = [q \in Questions |-> [c \in Calls |-> 0]]
      /\ shown = [q \in Questions |-> {}]
  BY DEF Init
<1>2. TypeOK
  BY <1>1, LoopIs DEF TypeOK
<1>3. Once /\ Waiting /\ Shown
  BY <1>1, LoopIs DEF Once, Waiting, Shown
<1>4. MemoryWithinLimit
  BY <1>1, LengthIs, Limits DEF MemoryWithinLimit
<1>5. FewTurns
  BY <1>1, FS_EmptySet DEF FewTurns
<1>6. QED
  BY <1>2, <1>3, <1>4, <1>5 DEF AgentInv

LEMMA AgentNext == AgentInv /\ [Next]_vars => AgentInv'
<1> SUFFICES ASSUME AgentInv, [Next]_vars PROVE AgentInv'
  OBVIOUS
<1>1. ASSUME NEW q \in Questions, Ask(q) \/ Step(q)
      PROVE  AgentInv'
  BY <1>1, AskInv, LoadInv, TurnInv, RunCallInv, SaveInv DEF Step
<1>2. CASE Restart
  BY <1>2, RestartInv
<1>3. CASE UNCHANGED vars
  <2>1. /\ pc' = pc /\ local' = local /\ reply' = reply /\ block' = block
        /\ turns' = turns /\ acted' = acted /\ shown' = shown
    BY <1>3 DEF vars
  <2>2. QED
    BY <2>1 DEF AgentInv, TypeOK, Once, Waiting, Shown, MemoryWithinLimit, FewTurns
<1>4. QED
  BY <1>1, <1>2, <1>3 DEF Next

LEMMA AgentInvariant == Spec => []AgentInv
BY AgentInit, AgentNext, PTL DEF Spec
-----------------------------------------------------------------------------
\* Type correctness: among the rest, no more than MAX_TURNS turns are used, a
\* turn leaves no more than MAX_CALLS_PER_TURN calls, and no more than
\* MAX_SOURCES captures are numbered.
THEOREM TypeCorrect == Spec => []TypeOK
<1>1. AgentInv => TypeOK
  BY DEF AgentInv
<1>2. QED
  BY <1>1, AgentInvariant, PTL

\* The loop of query/agent.rs: a call is noted before it is made, whatever
\* comes of it, so that it takes effect at most once in a question.
THEOREM ActsOnceCorrect == Spec => []ActsOnce
<1>1. AgentInv => ActsOnce
  BY DEF AgentInv, Once, ActsOnce
<1>2. QED
  BY <1>1, AgentInvariant, PTL

\* Sources of mcp/toolbox.rs: a number in an answer never means another capture
\* than the model was shown under it, however many searches came in between.
THEOREM CitationsTrueCorrect == Spec => []CitationsTrue
<1>1. AgentInv => CitationsTrue
  BY DEF AgentInv, Shown, Listed, CitationsTrue
<1>2. QED
  BY <1>1, AgentInvariant, PTL

\* db/agent_memory.rs: an edit that passed its check is within the limit,
\* though the block may have changed since the edit read it.
THEOREM MemoryWithinLimitCorrect == Spec => []MemoryWithinLimit
<1>1. AgentInv => MemoryWithinLimit
  BY DEF AgentInv
<1>2. QED
  BY <1>1, AgentInvariant, PTL

\* db/agent_memory.rs: no edit takes a note away that it has not read, unless
\* the block has changed since, or it replaces that very note.
THEOREM NotesLostToOverlapCorrect == Spec => NotesLostToOverlap
<1> DEFINE Lost(n) == \E q \in Questions :
               /\ pc[q] = "editing"
               /\ \/ local[q].memo # block
                  \/ Tool[Call(q)] = "core_memory_replace" /\ Old[Call(q)] = n
<1>1. [Next]_vars => [\A n \in block \ block' : Lost(n)]_vars
  <2> SUFFICES ASSUME Next, NEW n \in block \ block' PROVE Lost(n)
    OBVIOUS
  <2>1. ASSUME NEW q \in Questions, WriteBlock(q)
        PROVE  Lost(n)
    <3>1. pc[q] = "editing" /\ n \notin Edited(q)
      BY <2>1 DEF WriteBlock
    <3>2. \/ local[q].memo # block
          \/ Tool[Call(q)] = "core_memory_replace" /\ Old[Call(q)] = n
      BY <3>1 DEF Edited
    <3>3. QED
      BY <3>1, <3>2
  <2>2. block' # block
    OBVIOUS
  <2>3. PICK q \in Questions : WriteBlock(q)
    <3>1. CASE Restart
      BY <2>2, <3>1 DEF Restart
    <3>2. ASSUME NEW q \in Questions, Ask(q) \/ Load(q) \/ Turn(q) \/ Save(q)
          PROVE  FALSE
      BY <2>2, <3>2 DEF Ask, Load, Turn, Save, ModelFails, Malformed, SayNothing, Answer,
         Plan
    <3>3. ASSUME NEW q \in Questions, RunCall(q), ~ WriteBlock(q)
          PROVE  FALSE
      BY <2>2, <3>3 DEF RunCall, RepeatedCall, UnknownTool, SearchChatHistory,
         ArchivalSearch, FileRead, SearchBrain, GraphLookup, WebSearch, FetchUrl,
         ArchivalInsert, BashExec, FileWrite, Integration, CoreMemoryRead, LeaveBlock,
         TextOnly, Passages, WebResults, Act
    <3>4. QED
      BY <3>1, <3>2, <3>3 DEF Next, Step
  <2>4. QED
    BY <2>1, <2>3
<1>2. QED
  BY <1>1, PTL DEF Spec, NotesLostToOverlap
=============================================================================
