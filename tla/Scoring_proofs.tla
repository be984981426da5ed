--------------------------- MODULE Scoring_proofs ---------------------------
(***************************************************************************)
(* What is proved of the scorer: for every window, baseline, model, cutoff *)
(* and hour, that a baseline only raises the bar and that the worst        *)
(* endpoint is what is shown; that the pass over the sorted times finds    *)
(* the busiest minute; and of the evaluation that a walk over a network,   *)
(* of any length, scores no window against itself and none by a baseline   *)
(* that is not warm, that no network is on two sides of a split, that the  *)
(* scorer computes the numbers that the model was fitted on, that its      *)
(* windows are cut where those of the model were, that no cutoff beats the *)
(* two points the report quotes, that average precision, the cutoff and    *)
(* the best rule do not depend on the order of the episodes, and that the  *)
(* synthetic stream is one the lab's rules could have raised.              *)
(*                                                                         *)
(* The scorer's sums, its sorting and the picking out of one endpoint's    *)
(* alerts are recursive functions.  Recursion shows that such a function   *)
(* exists, from which what it is equal to at each step follows, and UpTo   *)
(* carries a fact from one step to the next: a set of numbers that has 0   *)
(* and the successor of each of its members up to n has all of them, as    *)
(* there is no least one it lacks.                                         *)
(***************************************************************************)
EXTENDS Scoring, FiniteSetTheorems, SequenceTheorems, TLAPS

----------------------------------------------------------------------------
(* The busiest minute.                                                      *)

\* The alerts from the i-th on that are within a minute of it.
Ahead(i) == {k \in i .. Len(times) : times[k] < times[i] + Minute}

\* What is between the edges is within a minute of the left one.
Between ==
  left < Len(times) => \A k \in 1 .. right : times[k] < times[left + 1] + Minute

\* Of the alerts behind the left edge none has more ahead than were found, and
\* one has as many.
FoundSoFar ==
  /\ \A i \in 1 .. left : Cardinality(Ahead(i)) <= busiest
  /\ IF left = 0 THEN busiest = 0
     ELSE \E i \in 1 .. left : Cardinality(Ahead(i)) = busiest

\* No minute with an alert behind the left edge in it holds more than were found.
MinutesSoFar ==
  \A t \in Int : From(t) \cap (1 .. left) # {} => Cardinality(From(t)) <= busiest

LoopInv == LoopTypeOK /\ Between /\ FoundSoFar /\ MinutesSoFar

\* What the loop is given is sorted.
LEMMA TimesKnown ==
  ASSUME times \in Times
  PROVE  /\ times \in Seq(Int) /\ Len(times) \in Nat
         /\ \A k \in 1 .. Len(times) : times[k] \in Int
         /\ \A i, j \in 1 .. Len(times) : i <= j => times[i] <= times[j]
  BY TimesAssumption DEF TimesAssumption

\* The invariant holds before the pass.
LEMMA InitLoop == LoopInit => LoopInv
<1> SUFFICES ASSUME LoopInit PROVE LoopInv OBVIOUS
<1>2. MinutesSoFar BY DEF LoopInit, MinutesSoFar
<1>3. QED BY TimesKnown, <1>2 DEF LoopInit, LoopInv, LoopTypeOK, Between, FoundSoFar

\* When the left edge moves on, what it leaves behind has all the alerts between
\* the edges ahead of it, and no other.
LEMMA AheadOfLeft ==
  ASSUME LoopTypeOK, Between, left < Len(times), ~Reaches
  PROVE  /\ right > left
         /\ Ahead(left + 1) = left + 1 .. right
         /\ Cardinality(Ahead(left + 1)) = right - left
<1> USE TimesAssumption DEF TimesAssumption, LoopTypeOK
<1>1. /\ Len(times) \in Nat /\ left \in Nat /\ right \in Nat /\ Minute \in Nat \ {0}
      /\ left + 1 \in 1 .. Len(times)
      /\ \A k \in 1 .. Len(times) : times[k] \in Int
      /\ \A i, j \in 1 .. Len(times) : i <= j => times[i] <= times[j]
  BY TimesKnown
<1>2. right > left BY <1>1 DEF Reaches
<1>3. \A k \in left + 1 .. right : k \in 1 .. Len(times) /\ times[k] < times[left + 1] + Minute
  BY <1>1 DEF Between
<1>4. ASSUME NEW k \in left + 1 .. Len(times), k > right
      PROVE  ~(times[k] < times[left + 1] + Minute)
  <2>1. right + 1 \in 1 .. Len(times) /\ k \in 1 .. Len(times) /\ right + 1 <= k BY <1>1, <1>4
  <2>2. times[right + 1] <= times[k] /\ times[right + 1] >= times[left + 1] + Minute
    BY <2>1, <1>1, SMTT(30) DEF Reaches
  <2>3. times[right + 1] \in Int /\ times[k] \in Int /\ times[left + 1] \in Int /\ Minute \in Nat
    BY <2>1, <1>1
  <2>4. QED BY ONLY <2>2, <2>3
<1>5. Ahead(left + 1) = left + 1 .. right BY <1>1, <1>2, <1>3, <1>4 DEF Ahead
<1>7. QED BY <1>2, <1>5, <1>1, FS_Interval

\* The right edge's step keeps the invariant.
LEMMA ExtendKeeps == ASSUME LoopInv, Extend PROVE LoopInv'
<1> USE TimesAssumption DEF TimesAssumption
<1>1. /\ Len(times) \in Nat
      /\ \A k \in 1 .. Len(times) : times[k] \in Int
  BY TimesKnown DEF LoopInv, LoopTypeOK
<1>2. LoopTypeOK' BY <1>1 DEF LoopInv, LoopTypeOK, Extend, Reaches
<1>3. Between' BY <1>1 DEF LoopInv, LoopTypeOK, Between, Extend, Reaches
<1>5. MinutesSoFar' BY DEF LoopInv, MinutesSoFar, Extend, From
<1>6. QED BY <1>2, <1>3, <1>5 DEF LoopInv, FoundSoFar, Extend, Ahead

\* The left edge's step keeps the invariant.
LEMMA AdvanceKeeps == ASSUME LoopInv, Advance PROVE LoopInv'
<1> USE TimesAssumption DEF TimesAssumption
<1>1. /\ Len(times) \in Nat
      /\ \A k \in 1 .. Len(times) : times[k] \in Int
      /\ \A i, j \in 1 .. Len(times) : i <= j => times[i] <= times[j]
  BY TimesKnown DEF LoopInv, LoopTypeOK
<1>2. /\ left \in Nat /\ right \in Nat /\ busiest \in Nat /\ right <= Len(times)
      /\ busiest <= Len(times) /\ left < Len(times) /\ Minute \in Nat \ {0}
  BY <1>1 DEF LoopInv, LoopTypeOK, Advance
<1>3. right > left /\ Cardinality(Ahead(left + 1)) = right - left
  BY AheadOfLeft DEF LoopInv, Advance
<1>4. LoopTypeOK' BY <1>1, <1>2, <1>3 DEF LoopInv, LoopTypeOK, Advance
<1>5. Between'
  <2> SUFFICES ASSUME left + 1 < Len(times), NEW k \in 1 .. right
               PROVE  times[k] < times[left + 2] + Minute
    BY <1>2 DEF Between, Advance
  <2>1. times[k] < times[left + 1] + Minute BY <1>2 DEF LoopInv, Between
  <2>2. /\ left + 1 \in 1 .. Len(times) /\ left + 2 \in 1 .. Len(times)
        /\ k \in 1 .. Len(times)
    BY <1>1, <1>2
  <2>3. times[left + 1] <= times[left + 2] BY <1>1, <1>2, <2>2
  <2>4. QED BY <1>1, <1>2, <2>1, <2>2, <2>3
<1>6. FoundSoFar'
  <2>1. \A i : Ahead(i)' = Ahead(i) BY DEF Ahead, Advance
  <2>2. /\ left' = left + 1
        /\ busiest' = IF right - left > busiest THEN right - left ELSE busiest
    BY DEF Advance
  <2>3. \A i \in 1 .. left : Cardinality(Ahead(i)) \in Int
    <3> SUFFICES ASSUME NEW i \in 1 .. left PROVE Cardinality(Ahead(i)) \in Int OBVIOUS
    <3>1. IsFiniteSet(i .. Len(times))  BY <1>1, <1>2, FS_Interval
    <3>2. IsFiniteSet(Ahead(i)) BY <3>1, FS_Subset DEF Ahead
    <3>3. QED BY <3>2, FS_CardinalityType
  <2>4. \A i \in 1 .. left + 1 : Cardinality(Ahead(i)) <= busiest'
    BY <1>2, <1>3, <2>2, <2>3 DEF LoopInv, FoundSoFar
  <2>5. \E i \in 1 .. left + 1 : Cardinality(Ahead(i)) = busiest'
    <3>1. CASE right - left > busiest BY <1>2, <1>3, <2>2, <3>1
    <3>2. CASE ~(right - left > busiest)
      <4>2. PICK i \in 1 .. left : Cardinality(Ahead(i)) = busiest
        BY <1>2, <1>3, <3>2 DEF LoopInv, FoundSoFar
      <4>3. QED BY <1>2, <2>2, <3>2, <4>2
    <3>3. QED BY <3>1, <3>2
  <2>6. QED BY <1>2, <2>1, <2>2, <2>4, <2>5 DEF FoundSoFar
<1>7. MinutesSoFar'
  <2> SUFFICES ASSUME NEW t \in Int, From(t) \cap (1 .. left + 1) # {}
               PROVE  Cardinality(From(t)) <= busiest'
    BY DEF MinutesSoFar, Advance, From
  <2>1. Cardinality(From(t)) \in Int /\ IsFiniteSet(Ahead(left + 1))
    <3>1. IsFiniteSet(1 .. Len(times)) /\ IsFiniteSet(left + 1 .. Len(times))
      BY <1>1, <1>2, FS_Interval
    <3>2. From(t) \in SUBSET (1 .. Len(times)) /\ Ahead(left + 1) \in SUBSET (left + 1 .. Len(times))
      BY DEF From, Ahead
    <3>3. IsFiniteSet(From(t)) /\ IsFiniteSet(Ahead(left + 1)) BY <3>1, <3>2, FS_Subset
    <3>4. QED BY <3>3, FS_CardinalityType
  <2>2. CASE From(t) \cap (1 .. left) # {}
    BY <2>2, <1>2, <1>3, <2>1 DEF LoopInv, MinutesSoFar, Advance
  <2>3. CASE From(t) \cap (1 .. left) = {}
    <3>1. left + 1 \in From(t) /\ \A k \in From(t) : k > left
      <4>1. PICK k \in From(t) : k \in 1 .. left + 1 OBVIOUS
      <4>2. \A l \in From(t) : l \in Nat /\ l > left
        <5>1. \A l \in From(t) : l \in 1 .. Len(times) /\ l \notin 1 .. left BY <2>3 DEF From
        <5>2. QED BY <1>1, <1>2, <5>1
      <4>4. QED BY <4>1, <4>2, <1>2
    <3>2. From(t) \subseteq Ahead(left + 1)
      <4> SUFFICES ASSUME NEW k \in From(t) PROVE k \in Ahead(left + 1) OBVIOUS
      <4>1. /\ k \in 1 .. Len(times) /\ k >= left + 1 /\ times[k] < t + Minute
            /\ t <= times[left + 1] /\ left + 1 \in 1 .. Len(times)
        BY <1>2, <3>1 DEF From
      <4>2. times[k] \in Int /\ times[left + 1] \in Int BY <1>1, <4>1
      <4>3. times[k] < times[left + 1] + Minute BY <1>2, <4>1, <4>2
      <4>4. QED BY <1>1, <1>2, <4>1, <4>3 DEF Ahead
    <3>4. QED BY <1>2, <1>3, <2>1, <3>2, FS_Subset DEF Advance
  <2>4. QED BY <2>2, <2>3
<1>8. QED BY <1>4, <1>5, <1>6, <1>7 DEF LoopInv

\* When all is behind the left edge, every minute has been looked at.
LEMMA AllBehind == ASSUME LoopInv PROVE BusiestMinuteFound
<1> USE TimesAssumption DEF TimesAssumption
<1> SUFFICES ASSUME left = Len(times)
             PROVE  /\ \A k \in 1 .. Len(times) : \A d \in 0 .. Minute - 1 :
                         Cardinality(From(times[k] - d)) <= busiest
                    /\ IF times = <<>> THEN busiest = 0
                       ELSE \E k \in 1 .. Len(times) : Cardinality(From(times[k])) = busiest
  BY DEF BusiestMinuteFound
<1>1. /\ times \in Seq(Int) /\ Len(times) \in Nat /\ Minute \in Nat \ {0} /\ busiest \in Nat
      /\ \A k \in 1 .. Len(times) : times[k] \in Int
      /\ \A i, j \in 1 .. Len(times) : i <= j => times[i] <= times[j]
  BY TimesKnown DEF LoopInv, LoopTypeOK
<1>2. ASSUME NEW k \in 1 .. Len(times), NEW d \in 0 .. Minute - 1
      PROVE  Cardinality(From(times[k] - d)) <= busiest
  <2>1. times[k] \in Int /\ d \in Nat /\ d < Minute BY <1>1
  <2>2. k \in From(times[k] - d) BY <1>1, <2>1 DEF From
  <2>3. times[k] - d \in Int /\ From(times[k] - d) \cap (1 .. left) # {} BY <2>1, <2>2
  <2>4. QED BY <2>3 DEF LoopInv, MinutesSoFar
<1>3. CASE times = <<>> BY <1>3, <1>2 DEF LoopInv, FoundSoFar
<1>4. CASE times # <<>>
  <2>2. PICK i \in 1 .. Len(times) : Cardinality(Ahead(i)) = busiest
    BY <1>1, <1>4 DEF LoopInv, FoundSoFar
  <2>3. IsFiniteSet(From(times[i])) /\ Cardinality(From(times[i])) \in Int
    <3>1. IsFiniteSet(1 .. Len(times)) /\ From(times[i]) \in SUBSET (1 .. Len(times))
      BY <1>1, FS_Interval DEF From
    <3>2. IsFiniteSet(From(times[i])) BY <3>1, FS_Subset
    <3>3. QED BY <3>2, FS_CardinalityType
  <2>4. Ahead(i) \subseteq From(times[i])
    <3> SUFFICES ASSUME NEW k \in Ahead(i) PROVE k \in From(times[i]) OBVIOUS
    <3>1. k \in 1 .. Len(times) /\ i <= k /\ times[k] < times[i] + Minute BY <1>1 DEF Ahead
    <3>3. QED BY <3>1, <1>1 DEF From
  <2>5. busiest <= Cardinality(From(times[i])) BY <2>2, <2>3, <2>4, FS_Subset
  <2>7. times[i] - 0 = times[i] BY <1>1
  <2>8. QED BY <1>1, <1>2, <1>4, <2>3, <2>5, <2>7
<1>5. QED BY <1>3, <1>4

\* For every span, and any number of alerts at any times, the number a window is
\* scored with is that of its busiest minute: score.py 60-65, features.py _timing_row.
THEOREM FindsBusiest == LoopSpec => []BusiestMinuteFound
<1>1. LoopInv /\ [LoopNext]_loopVars => LoopInv'
  <2> SUFFICES ASSUME LoopInv, [LoopNext]_loopVars PROVE LoopInv' OBVIOUS
  <2>1. CASE Extend BY <2>1, ExtendKeeps
  <2>2. CASE Advance BY <2>2, AdvanceKeeps
  <2>3. CASE UNCHANGED loopVars
    BY <2>3 DEF loopVars, LoopInv, LoopTypeOK, Between, FoundSoFar, MinutesSoFar, Ahead, From
  <2>4. QED BY <2>1, <2>2, <2>3 DEF LoopNext
<1>2. QED BY <1>1, InitLoop, AllBehind, PTL DEF LoopSpec

\* The scorer's pass is that loop, whatever else is given beside it: in every run of
\* Scoring what the pass has found at its end is the busiest minute.
THEOREM ScorerFindsBusiest == Spec => []BusiestMinuteFound
<1>1. Init => LoopInit BY DEF Init
<1>2. [Next]_vars => [LoopNext]_loopVars BY DEF Next, vars, loopVars
<1>3. Spec => LoopSpec BY <1>1, <1>2, PTL DEF Spec, LoopSpec
<1>4. QED BY <1>3, FindsBusiest, PTL

----------------------------------------------------------------------------
(* Least and greatest numbers, induction and recursion.                     *)

\* A set of naturals has a least one.
LEMMA MinExists ==
  ASSUME NEW S \in SUBSET Nat, S # {}
  PROVE  Min(S) \in S /\ \A s \in S : Min(S) <= s
<1>2. \E x \in S : \A y \in S : x <= y
  <2>1. PICK x \in S : \A y \in S : ~(<<y, x>> \in OpToRel(<, Nat))
    BY NatLessThanWellFounded, WFMin
  <2>2. ASSUME NEW y \in S PROVE x <= y
    <3>1. ~(y < x) BY <2>1 DEF OpToRel
    <3>2. QED BY <3>1
  <2>3. QED BY <2>2
<1>3. QED BY <1>2 DEF Min

\* A bounded set of integers has a greatest, and a least, member.
LEMMA Extremes ==
  ASSUME NEW S \in SUBSET Int, S # {}, NEW l \in Int, NEW h \in Int,
         \A s \in S : l <= s /\ s <= h
  PROVE  /\ Max(S) \in S /\ \A s \in S : s <= Max(S)
         /\ Min(S) \in S /\ \A s \in S : Min(S) <= s
<1> DEFINE U == {m \in Nat : h - m \in S}  D == {m \in Nat : l + m \in S}
<1>1. PICK s0 \in S : TRUE OBVIOUS
<1>2. h - s0 \in U /\ s0 - l \in D BY <1>1
<1>3. PICK u \in U : \A y \in U : u <= y BY <1>2, MinExists
<1>4. PICK d \in D : \A y \in D : d <= y BY <1>2, MinExists
<1>5. ASSUME NEW s \in S PROVE s <= h - u /\ l + d <= s
  <2>1. h - s \in U /\ s - l \in D BY <1>5
  <2>2. u <= h - s /\ d <= s - l BY <1>3, <1>4, <2>1
  <2>3. QED BY <2>2, <1>3, <1>4
<1>6. h - u \in S /\ l + d \in S BY <1>3, <1>4
<1>8. \E x \in S : \A y \in S : x =< y BY <1>5, <1>6
<1>9. QED BY <1>5, <1>6, <1>8 DEF Max, Min

\* What holds of 0, and of a number when of the one before it, holds up to n.
LEMMA UpTo ==
  ASSUME NEW n \in Nat, NEW S, 0 \in S, \A k \in 1 .. n : k - 1 \in S => k \in S
  PROVE  \A k \in 0 .. n : k \in S
<1> DEFINE bad == {k \in 0 .. n : k \notin S}
<1>1. SUFFICES ASSUME bad # {} PROVE FALSE OBVIOUS
<1>2. PICK m \in bad : \A k \in bad : m <= k
  <2>1. bad \in SUBSET Nat OBVIOUS
  <2> HIDE DEF bad
  <2>2. QED BY <1>1, <2>1, MinExists
<1>3. m \in 1 .. n BY <1>2
<1>5. QED BY <1>2, <1>3

\* f begins with v and takes n steps of g.
Steps(f, n, V, v, g) ==
  f \in [0 .. n -> V] /\ f[0] = v /\ \A k \in 1 .. n : f[k] = g[k][f[k - 1]]

\* Steps taken one after the other end somewhere.
LEMMA Recursion ==
  ASSUME NEW n \in Nat, NEW V, NEW v \in V, NEW g \in [1 .. n -> [V -> V]]
  PROVE  \E f : Steps(f, n, V, v, g)
<1> DEFINE Good(k, f) == f[0] = v /\ \A j \in 1 .. k : f[j] = g[j][f[j - 1]]
           S == {k \in 0 .. n : \E f \in [0 .. k -> V] : Good(k, f)}
<1>1. 0 \in S
  <2> DEFINE h == [j \in 0 .. 0 |-> v]
  <2>1. 0 \in 0 .. n /\ h \in [0 .. 0 -> V] /\ Good(0, h) OBVIOUS
  <2> HIDE DEF h, Good
  <2>2. QED BY <2>1
<1>2. ASSUME NEW k \in 1 .. n, k - 1 \in S PROVE k \in S
  <2>1. PICK f \in [0 .. k - 1 -> V] : Good(k - 1, f) BY <1>2
  <2> DEFINE h == [j \in 0 .. k |-> IF j = k THEN g[k][f[k - 1]] ELSE f[j]]
  <2>2. h \in [0 .. k -> V] BY <2>1
  <2>3. Good(k, h)
    <3>1. h[0] = v BY <2>1
    <3>2. ASSUME NEW j \in 1 .. k PROVE h[j] = g[j][h[j - 1]]
      <4>1. CASE j = k BY <4>1
      <4>2. CASE j # k BY <4>2, <2>1
      <4>3. QED BY <4>1, <4>2
    <3>3. QED BY <3>1, <3>2
  <2>4. QED
    <3> HIDE DEF h, Good
    <3>1. QED BY <2>2, <2>3
<1>3. n \in S
  <2> HIDE DEF S
  <2>1. \A k \in 0 .. n : k \in S BY <1>1, <1>2, UpTo
  <2>2. QED BY <2>1
<1>4. QED BY <1>3 DEF Steps

\* The sum of a sequence is the last of the sums of its beginnings.
LEMMA PartialSums ==
  ASSUME NEW s \in Seq(Int)
  PROVE  \E f \in [0 .. Len(s) -> Int] :
           f[0] = 0 /\ (\A k \in 1 .. Len(s) : f[k] = f[k - 1] + s[k]) /\ Sum(s) = f[Len(s)]
<1> DEFINE n == Len(s)
           Body(f) == [k \in 0 .. n |-> IF k = 0 THEN 0 ELSE f[k - 1] + s[k]]
           f0 == CHOOSE f : f = Body(f)
           g == [k \in 1 .. n |-> [x \in Int |-> x + s[k]]]
<1>1. n \in Nat /\ \A k \in 1 .. n : s[k] \in Int OBVIOUS
<1>2. g \in [1 .. n -> [Int -> Int]] BY <1>1
<1>3. PICK f \in [0 .. n -> Int] : f[0] = 0 /\ \A k \in 1 .. n : f[k] = g[k][f[k - 1]]
  <2> HIDE DEF g, n, Body, f0
  <2>1. 0 \in Int OBVIOUS
  <2>2. \E f : Steps(f, n, Int, 0, g) BY <1>1, <1>2, <2>1, Recursion
  <2>3. QED BY <2>2 DEF Steps
<1>4. f = Body(f)
  <2>1. ASSUME NEW k \in 0 .. n PROVE f[k] = IF k = 0 THEN 0 ELSE f[k - 1] + s[k]
    <3>1. CASE k = 0 BY <1>3, <3>1
    <3>2. CASE k # 0
      <4>1. k \in 1 .. n /\ k - 1 \in 0 .. n BY <1>1, <3>2
      <4>3. QED BY <3>2, <4>1, <1>3
    <3>3. QED BY <3>1, <3>2
  <2>2. QED BY <1>3, <2>1
<1>5. f0 = Body(f0) BY <1>4
<1>6. Sum(s) = f0[n] BY DEF Sum
<1>7. f0[0] = 0 /\ \A k \in 1 .. n : f0[k] = f0[k - 1] + s[k]
  <2> HIDE DEF f0
  <2>1. \A k \in 0 .. n : f0[k] = IF k = 0 THEN 0 ELSE f0[k - 1] + s[k] BY <1>5
  <2> HIDE DEF Body
  <2>2. 0 \in 0 .. n /\ \A k \in 1 .. n : k \in 0 .. n /\ k # 0 BY <1>1
  <2>3. QED BY <2>1, <2>2
<1>8. \A k \in 0 .. n : f0[k] \in Int
  <2> DEFINE S == {k \in 0 .. n : f0[k] \in Int}
  <2> HIDE DEF f0
  <2>1. 0 \in S BY <1>1, <1>7
  <2>2. ASSUME NEW k \in 1 .. n, k - 1 \in S PROVE k \in S BY <1>1, <1>7, <2>2
  <2> HIDE DEF S, n
  <2>3. \A k \in 0 .. n : k \in S BY <1>1, <2>1, <2>2, UpTo
  <2>4. QED BY <2>3 DEF S
<1>9. f0 \in [0 .. n -> Int]
  <2> HIDE DEF f0
  <2>1. QED BY <1>5, <1>8
<1> HIDE DEF f0, n
<1>10. QED BY <1>6, <1>7, <1>9 DEF n

\* A sum of numbers is a number, and with nothing to add it is 0.
LEMMA SumIs ==
  ASSUME NEW s \in Seq(Int)
  PROVE  Sum(s) \in Int /\ (Len(s) = 0 => Sum(s) = 0)
<1>2. PICK f \in [0 .. Len(s) -> Int] : f[0] = 0 /\ Sum(s) = f[Len(s)] BY PartialSums
<1>3. QED BY <1>2

\* One number more adds itself.
LEMMA SumOfMore ==
  ASSUME NEW s \in Seq(Int), NEW t \in Seq(Int), Len(t) = Len(s) + 1,
         \A k \in 1 .. Len(s) : t[k] = s[k]
  PROVE  Sum(t) = Sum(s) + t[Len(t)]
<1> DEFINE n == Len(s)
<1>1. n \in Nat /\ Len(t) = n + 1 OBVIOUS
<1>2. PICK f \in [0 .. n -> Int] :
        f[0] = 0 /\ (\A k \in 1 .. n : f[k] = f[k - 1] + s[k]) /\ Sum(s) = f[n]
  BY PartialSums
<1>3. PICK g \in [0 .. n + 1 -> Int] :
        g[0] = 0 /\ (\A k \in 1 .. n + 1 : g[k] = g[k - 1] + t[k]) /\ Sum(t) = g[n + 1]
  BY <1>1, PartialSums
<1> DEFINE S == {k \in 0 .. n : f[k] = g[k]}
<1>4. 0 \in S BY <1>1, <1>2, <1>3
<1>5. ASSUME NEW k \in 1 .. n, k - 1 \in S PROVE k \in S BY <1>2, <1>1, <1>3, <1>5
<1>6. n \in S
  <2> HIDE DEF S, n
  <2>1. \A k \in 0 .. n : k \in S BY <1>1, <1>4, <1>5, UpTo
  <2>2. QED BY <1>1, <2>1
<1>7. g[n + 1] = g[n] + t[n + 1]
  <2> DEFINE last == n + 1
  <2>1. last \in 1 .. n + 1 /\ last - 1 = n BY <1>1
  <2> HIDE DEF last, n
  <2>3. QED BY <2>1, <1>3 DEF last
<1>8. QED BY <1>1, <1>2, <1>3, <1>6, <1>7

\* Nothing added to nothing.
LEMMA NoSum == Sum([k \in 1 .. 24 |-> 0]) = 0
<1> DEFINE s == [k \in 1 .. 24 |-> 0]
<1>1. s \in Seq(Int) /\ Len(s) = 24 OBVIOUS
<1>2. PICK f \in [0 .. 24 -> Int] :
        f[0] = 0 /\ (\A k \in 1 .. 24 : f[k] = f[k - 1] + s[k]) /\ Sum(s) = f[24]
  <2> HIDE DEF s
  <2>1. QED BY <1>1, PartialSums
<1> DEFINE S == {k \in 0 .. 24 : f[k] = 0}
<1>3. 0 \in S BY <1>2
<1>4. ASSUME NEW k \in 1 .. 24, k - 1 \in S PROVE k \in S BY <1>2, <1>4
<1>5. 24 \in S
  <2> HIDE DEF S
  <2>2. QED BY <1>3, <1>4, UpTo
<1>6. QED BY <1>2, <1>5

\* What one number grows by, the sum grows by.
LEMMA SumRaised ==
  ASSUME NEW s \in Seq(Int), NEW t \in Seq(Int), Len(t) = Len(s),
         NEW i \in 1 .. Len(s), NEW d \in Int,
         \A k \in 1 .. Len(s) : t[k] = IF k = i THEN s[k] + d ELSE s[k]
  PROVE  Sum(t) = Sum(s) + d
<1> DEFINE n == Len(s)
<1>1. n \in Nat /\ Len(t) = n /\ \A k \in 1 .. n : s[k] \in Int OBVIOUS
<1>2. PICK f \in [0 .. n -> Int] :
        f[0] = 0 /\ (\A k \in 1 .. n : f[k] = f[k - 1] + s[k]) /\ Sum(s) = f[n]
  BY PartialSums
<1>3. PICK g \in [0 .. n -> Int] :
        g[0] = 0 /\ (\A k \in 1 .. n : g[k] = g[k - 1] + t[k]) /\ Sum(t) = g[n]
  BY <1>1, PartialSums
<1> DEFINE S == {k \in 0 .. n : g[k] = IF k >= i THEN f[k] + d ELSE f[k]}
<1>4. 0 \in S BY <1>1, <1>2, <1>3
<1>5. ASSUME NEW k \in 1 .. n, k - 1 \in S PROVE k \in S
  <2>1. f[k] = f[k - 1] + s[k] /\ g[k] = g[k - 1] + t[k] BY <1>2, <1>3
  <2>2. f[k - 1] \in Int /\ s[k] \in Int
    <3>1. k - 1 \in 0 .. n BY <1>1
    <3>2. QED BY <1>1, <1>2, <3>1
  <2>3. t[k] = IF k = i THEN s[k] + d ELSE s[k] OBVIOUS
  <2>4. g[k - 1] = IF k - 1 >= i THEN f[k - 1] + d ELSE f[k - 1] BY <1>5
  <2>5. g[k] = IF k >= i THEN f[k] + d ELSE f[k]
    <3> DEFINE x == f[k - 1]  y == s[k]
    <3>1. CASE k < i BY <1>1, <2>1, <2>3, <2>4, <3>1
    <3>2. CASE k = i
      <4>2. x + (y + d) = x + y + d BY <2>2, SMTT(30)
      <4>3. QED BY <1>1, <2>1, <3>2, <2>3, <2>4, <4>2
    <3>3. CASE k > i
      <4>2. x + d + y = x + y + d BY <2>2, SMTT(30)
      <4>3. QED BY <1>1, <2>1, <3>3, <2>3, <2>4, <4>2
    <3>4. QED BY <1>1, <3>1, <3>2, <3>3
  <2>6. QED BY <2>5
<1>6. n \in S
  <2> HIDE DEF S, n
  <2>1. \A k \in 0 .. n : k \in S BY <1>1, <1>4, <1>5, UpTo
  <2>2. QED BY <1>1, <2>1
<1>7. QED BY <1>1, <1>2, <1>3, <1>6

\* Placing a number makes a sequence one longer.
LEMMA PlacedIs ==
  ASSUME NEW a \in Seq(Int), NEW x \in Int
  PROVE  Placed(a, x) \in Seq(Int) /\ Len(Placed(a, x)) = Len(a) + 1
<1> DEFINE at == Cardinality({i \in DOMAIN a : a[i] <= x}) + 1
<1>1. Len(a) \in Nat /\ \A i \in 1 .. Len(a) : a[i] \in Int OBVIOUS
<1>2. Cardinality({i \in DOMAIN a : a[i] <= x}) \in 0 .. Len(a)
  <2>2. \A m \in Nat : IsFiniteSet(1 .. m) /\ Cardinality(1 .. m) = m BY FS_Interval
  <2>3. IsFiniteSet(1 .. Len(a)) /\ Cardinality(1 .. Len(a)) = Len(a) BY <1>1, <2>2
  <2>4. QED BY <2>3, FS_Subset, FS_CardinalityType
<1>3. at \in 1 .. Len(a) + 1 BY <1>1, <1>2
<1> HIDE DEF at
<1>4. \A i \in 1 .. Len(a) + 1 : (IF i < at THEN a[i] ELSE IF i = at THEN x ELSE a[i - 1]) \in Int
  BY <1>1, <1>3
<1>6. QED BY <1>1, <1>4 DEF Placed, at

\* f has each place up to n once.
Shuffles(f, n) ==
  /\ f \in [1 .. n -> 1 .. n]
  /\ \A i, j \in 1 .. n : f[i] = f[j] => i = j
  /\ \A i \in 1 .. n : \E k \in 1 .. n : f[k] = i

InOrder(t) == \A k, l \in 1 .. Len(t) : k <= l => t[k] <= t[l]

\* The first n of t are the first n of s, in some order.
Reordered(t, s, n) == \E f : Shuffles(f, n) /\ \A k \in 1 .. n : t[k] = s[f[k]]

\* A sequence is put in order one number after the other.
LEMMA AscendingSteps ==
  ASSUME NEW s \in Seq(Int)
  PROVE  \E f : /\ f[0] = <<>> /\ \A k \in 1 .. Len(s) : f[k] = Placed(f[k - 1], s[k])
                /\ Ascending(s) = f[Len(s)]
<1> DEFINE n == Len(s)
           Body(f) == [k \in 0 .. n |-> IF k = 0 THEN <<>> ELSE Placed(f[k - 1], s[k])]
           f0 == CHOOSE f : f = Body(f)
           g == [k \in 1 .. n |-> [a \in Seq(Int) |-> Placed(a, s[k])]]
<1>1. n \in Nat /\ \A k \in 1 .. n : s[k] \in Int OBVIOUS
<1>2. g \in [1 .. n -> [Seq(Int) -> Seq(Int)]] BY <1>1, PlacedIs
<1>3. PICK f : Steps(f, n, Seq(Int), <<>>, g)
  <2> HIDE DEF g, n, Body, f0
  <2>1. <<>> \in Seq(Int) OBVIOUS
  <2>2. QED BY <1>1, <1>2, <2>1, Recursion
<1>4. f = Body(f)
  <2>1. ASSUME NEW k \in 1 .. n PROVE f[k] = Placed(f[k - 1], s[k])
    <3>1. f[k - 1] \in Seq(Int) /\ f[k] = g[k][f[k - 1]]
      <4> HIDE DEF g, n
      <4>1. QED BY <1>3, <1>1 DEF Steps
    <3>2. QED BY <3>1
  <2>3. QED BY <1>1, <2>1, <1>3 DEF Steps
<1>5. f0 = Body(f0) BY <1>4
<1>6. Ascending(s) = f0[n] BY DEF Ascending
<1>7. f0[0] = <<>> /\ \A k \in 1 .. n : f0[k] = Placed(f0[k - 1], s[k])
  <2> HIDE DEF f0
  <2>1. \A k \in 0 .. n : f0[k] = IF k = 0 THEN <<>> ELSE Placed(f0[k - 1], s[k]) BY <1>5
  <2> HIDE DEF Body
  <2>2. 0 \in 0 .. n /\ \A k \in 1 .. n : k \in 0 .. n /\ k # 0 BY <1>1
  <2>3. QED BY <2>1, <2>2
<1>8. QED
  <2> HIDE DEF f0
  <2>1. QED BY <1>6, <1>7

\* There are as many places up to the m-th as that.
LEMMA PlacesUpTo == \A m \in Nat : IsFiniteSet(1 .. m) /\ Cardinality(1 .. m) = m
  BY FS_Interval

\* Places of which each has all those before it are the first ones.
LEMMA FirstPlaces ==
  ASSUME NEW n \in Nat, NEW D \in SUBSET (1 .. n), \A k \in D : \A j \in 1 .. k : j \in D
  PROVE  Cardinality(D) \in 0 .. n /\ D = 1 .. Cardinality(D)
<1>2. CASE D = {} BY <1>2, FS_EmptySet
<1>3. CASE D # {}
  <2> DEFINE m == Max(D)
  <2>1. D \in SUBSET Int /\ 1 \in Int /\ n \in Int /\ \A k \in D : 1 <= k /\ k <= n OBVIOUS
  <2> HIDE DEF m
  <2>3. m \in D /\ \A k \in D : k <= m BY <1>3, <2>1, Extremes DEF m
  <2>4. m \in 1 .. n /\ m \in D /\ \A k \in D : k \in 1 .. m BY <2>1, <2>3
  <2>5. D = 1 .. m BY <2>4
  <2>6. Cardinality(D) = m BY FS_Interval, <2>4, <2>5
  <2>7. QED BY <2>4, <2>6, <2>5
<1>4. QED BY <1>2, <1>3

\* A number is placed behind those that are not greater.
LEMMA PlacedAt ==
  ASSUME NEW a \in Seq(Int), InOrder(a), NEW x \in Int
  PROVE  \E at \in 1 .. Len(a) + 1 :
           /\ \A i \in 1 .. Len(a) + 1 :
                Placed(a, x)[i] = IF i < at THEN a[i] ELSE IF i = at THEN x ELSE a[i - 1]
           /\ \A i \in 1 .. Len(a) : i < at => a[i] <= x
           /\ \A i \in 1 .. Len(a) : i >= at => x <= a[i]
<1> DEFINE D == {i \in DOMAIN a : a[i] <= x}
           at == Cardinality(D) + 1
<1>1. Len(a) \in Nat /\ DOMAIN a = 1 .. Len(a) /\ \A i \in 1 .. Len(a) : a[i] \in Int OBVIOUS
<1>2. D \in SUBSET (1 .. Len(a)) /\ \A k \in D : \A j \in 1 .. k : j \in D
  <2>1. SUFFICES ASSUME NEW k \in D, NEW j \in 1 .. k PROVE j \in D BY <1>1
  <2>2. k \in 1 .. Len(a) /\ j \in 1 .. Len(a) /\ j <= k /\ a[k] <= x BY <1>1
  <2>4. QED BY <1>1, <2>2 DEF InOrder
<1>3. \A i \in 1 .. Len(a) : i \in D <=> a[i] <= x BY <1>1
<1>4. Placed(a, x) = [i \in 1 .. Len(a) + 1 |-> IF i < at THEN a[i] ELSE IF i = at THEN x ELSE a[i - 1]]
  BY DEF Placed
<1> HIDE DEF D
<1>5. Cardinality(D) \in 0 .. Len(a) /\ D = 1 .. Cardinality(D) BY <1>1, <1>2, FirstPlaces
<1> DEFINE c == Cardinality(D)
<1>6. c \in 0 .. Len(a) /\ at = c + 1 /\ \A i \in 1 .. Len(a) : i <= c <=> a[i] <= x
  BY <1>1, <1>3, <1>5
<1> HIDE DEF at, c
<1>7. at \in 1 .. Len(a) + 1 BY <1>1, <1>6
<1>8. \A i \in 1 .. Len(a) : (i < at => a[i] <= x) /\ (i >= at => x <= a[i]) BY <1>1, <1>6
<1>9. QED BY <1>4, <1>7, <1>8

\* Placed, it is in order.
LEMMA PlacedInOrder ==
  ASSUME NEW a \in Seq(Int), InOrder(a), NEW x \in Int, NEW s, NEW n \in Nat, Len(a) = n,
         Reordered(a, s, n), x = s[n + 1]
  PROVE  InOrder(Placed(a, x)) /\ Reordered(Placed(a, x), s, n + 1)
<1> DEFINE b == Placed(a, x)
<1>1. Placed(a, x) \in Seq(Int) /\ Len(Placed(a, x)) = n + 1 /\ \A k \in 1 .. n : a[k] \in Int
  <2>1. Placed(a, x) \in Seq(Int) /\ Len(Placed(a, x)) = Len(a) + 1 BY PlacedIs
  <2>2. QED BY <2>1
<1>2. b \in Seq(Int) /\ Len(b) = n + 1 BY <1>1
<1>3. PICK f : Shuffles(f, n) /\ \A k \in 1 .. n : a[k] = s[f[k]] BY DEF Reordered
<1>4. PICK at \in 1 .. n + 1 :
        /\ \A i \in 1 .. n + 1 : b[i] = IF i < at THEN a[i] ELSE IF i = at THEN x ELSE a[i - 1]
        /\ \A i \in 1 .. n : i < at => a[i] <= x
        /\ \A i \in 1 .. n : i >= at => x <= a[i]
  BY PlacedAt, ZenonT(30)
<1> HIDE DEF b
<1>5. InOrder(b)
  <2>1. SUFFICES ASSUME NEW k \in 1 .. n + 1, NEW l \in 1 .. n + 1, k < l PROVE b[k] <= b[l]
    BY <1>2, <2>1 DEF InOrder
  <2>2. \A i, j \in 1 .. n : i <= j => a[i] <= a[j] BY DEF InOrder
  <2>3. CASE l < at BY <1>4, <2>1, <2>3, <2>2
  <2>4. CASE l = at BY <1>4, <2>1, <2>4
  <2>5. CASE l > at
    <3>1. l - 1 \in 1 .. n /\ b[l] = a[l - 1] /\ l - 1 >= at BY <1>4, <2>5
    <3>2. CASE k < at BY <1>4, <2>1, <3>2, <2>2, <3>1
    <3>3. CASE k = at BY <1>4, <3>3, <3>1
    <3>4. CASE k > at BY <1>4, <2>1, <3>4, <2>2, <3>1
    <3>5. QED BY <3>2, <3>3, <3>4
  <2>6. QED BY <2>3, <2>4, <2>5
<1> DEFINE g == [i \in 1 .. n + 1 |-> IF i < at THEN f[i] ELSE IF i = at THEN n + 1 ELSE f[i - 1]]
<1>6. /\ \A i \in 1 .. n : f[i] \in 1 .. n
      /\ \A i, j \in 1 .. n : f[i] = f[j] => i = j
      /\ \A i \in 1 .. n : \E k \in 1 .. n : f[k] = i
  BY <1>3 DEF Shuffles
<1>7. \A i \in 1 .. n + 1 :
        /\ i < at => i \in 1 .. n /\ g[i] = f[i]
        /\ i = at => g[i] = n + 1
        /\ i > at => i - 1 \in 1 .. n /\ g[i] = f[i - 1]
  OBVIOUS
<1>8. g \in [1 .. n + 1 -> 1 .. n + 1]
  <2>1. \A i \in 1 .. n + 1 : g[i] \in 1 .. n + 1
    <3> HIDE DEF g
    <3>1. SUFFICES ASSUME NEW i \in 1 .. n + 1 PROVE g[i] \in 1 .. n + 1 OBVIOUS
    <3>2. CASE i < at
      <4>1. i \in 1 .. n /\ g[i] = f[i] BY <1>7, <3>2
      <4>2. f[i] \in 1 .. n BY <1>6, <4>1
      <4>3. QED BY <4>1, <4>2
    <3>3. CASE i = at BY <1>7, <3>3
    <3>4. CASE i > at
      <4>1. i - 1 \in 1 .. n /\ g[i] = f[i - 1] BY <1>7, <3>4
      <4>2. f[i - 1] \in 1 .. n BY <1>6, <4>1
      <4>3. QED BY <4>1, <4>2
    <3>5. QED BY <3>2, <3>3, <3>4
  <2>2. QED BY <2>1
<1> HIDE DEF g
<1>9. ASSUME NEW i \in 1 .. n + 1, NEW j \in 1 .. n + 1, g[i] = g[j] PROVE i = j
  <2>1. ASSUME NEW k \in 1 .. n + 1, k # at PROVE g[k] \in 1 .. n
    <3>1. CASE k < at BY <1>6, <1>7, <3>1
    <3>2. CASE k > at
      <4>1. k - 1 \in 1 .. n /\ g[k] = f[k - 1] BY <1>7, <3>2
      <4>3. QED BY <4>1, <1>6
    <3>3. QED BY <2>1, <3>1, <3>2
  <2>2. CASE i = at \/ j = at BY <1>7, <1>9, <2>1, <2>2
  <2>3. CASE i < at /\ j < at BY <1>6, <1>7, <1>9, <2>3
  <2>4. CASE i > at /\ j > at BY <1>7, <1>9, <2>4, <1>6
  <2>5. CASE i < at /\ j > at BY <1>7, <1>9, <2>5, <1>6
  <2>6. CASE i > at /\ j < at BY <1>7, <1>9, <2>6, <1>6
  <2>7. QED BY <2>2, <2>3, <2>4, <2>5, <2>6
<1>10. ASSUME NEW i \in 1 .. n + 1 PROVE \E k \in 1 .. n + 1 : g[k] = i
  <2>1. CASE i = n + 1 BY <1>7, <2>1
  <2>2. CASE i \in 1 .. n
    <3>1. PICK k \in 1 .. n : f[k] = i BY <1>6, <2>2
    <3>2. CASE k < at BY <1>7, <3>2, <3>1
    <3>3. CASE k >= at
      <4>1. k + 1 \in 1 .. n + 1 /\ k + 1 > at /\ (k + 1) - 1 = k BY <3>3
      <4>3. QED BY <3>1, <4>1, <1>7
    <3>4. QED BY <3>2, <3>3
  <2>3. QED BY <2>1, <2>2
<1>11. ASSUME NEW k \in 1 .. n + 1 PROVE b[k] = s[g[k]]
  <2>1. CASE k < at BY <1>4, <1>7, <1>3, <2>1
  <2>2. CASE k = at BY <1>4, <1>7, <2>2
  <2>3. CASE k > at
    <3>1. k - 1 \in 1 .. n /\ b[k] = a[k - 1] /\ g[k] = f[k - 1] BY <1>4, <1>7, <2>3
    <3>2. QED BY <1>3, <3>1
  <2>4. QED BY <2>1, <2>2, <2>3
<1>12. Shuffles(g, n + 1) BY <1>8, <1>9, <1>10 DEF Shuffles
<1>13. QED BY <1>5, <1>11, <1>12 DEF b, Reordered

\* What comes out is what went in, in order.
LEMMA AscendingOrders ==
  ASSUME NEW s \in Seq(Int)
  PROVE  /\ Ascending(s) \in Seq(Int) /\ Len(Ascending(s)) = Len(s) /\ InOrder(Ascending(s))
         /\ Reordered(Ascending(s), s, Len(s))
<1> DEFINE n == Len(s)
<1>1. n \in Nat /\ \A k \in 1 .. n : s[k] \in Int OBVIOUS
<1>2. PICK f : /\ f[0] = <<>> /\ \A k \in 1 .. n : f[k] = Placed(f[k - 1], s[k])
               /\ Ascending(s) = f[n]
  BY AscendingSteps
<1> DEFINE Done(k) == /\ f[k] \in Seq(Int) /\ Len(f[k]) = k /\ InOrder(f[k])
                      /\ Reordered(f[k], s, k)
           S == {k \in 0 .. n : Done(k)}
<1>3. 0 \in S
  <2>1. f[0] \in Seq(Int) /\ Len(f[0]) = 0 /\ InOrder(f[0]) BY <1>2 DEF InOrder
  <2>2. Reordered(f[0], s, 0)
    <3>1. Shuffles(<<>>, 0) BY DEF Shuffles
    <3>2. QED BY <3>1 DEF Reordered
  <2>3. QED BY <1>1, <2>1, <2>2
<1>4. ASSUME NEW k \in 1 .. n, k - 1 \in S PROVE k \in S
  <2> DEFINE b == f[k - 1]  x == s[k]  m == k - 1
  <2>1. b \in Seq(Int) /\ Len(b) = m /\ InOrder(b) /\ x \in Int /\ m \in Nat /\ x = s[m + 1]
    BY <1>1, <1>4
  <2>2. Reordered(b, s, m) BY <1>4
  <2>3. f[k] = Placed(b, x) /\ k = m + 1 /\ k \in 0 .. n BY <1>2
  <2> HIDE DEF b, x, m, S, Done
  <2>5. InOrder(Placed(b, x)) /\ Reordered(Placed(b, x), s, m + 1) BY <2>1, <2>2, PlacedInOrder
  <2>6. Done(k) BY <2>3, <2>1, PlacedIs, <2>5 DEF Done
  <2>7. QED BY <2>3, <2>6 DEF S
<1>5. Done(n)
  <2> HIDE DEF n, Done
  <2>1. \A k \in 0 .. n : k \in S
    <3> HIDE DEF S
    <3>1. QED BY <1>1, <1>3, <1>4, UpTo
  <2>2. QED BY <1>1, <2>1
<1>6. QED BY <1>2, <1>5

\* The part of a sequence of alerts that is one endpoint's.
LEMMA OfAgentIs ==
  ASSUME NEW w \in Seq(Alerts), NEW a
  PROVE  LET own == OfAgent(w, a)
         IN  /\ own \in Seq(Alerts)
             /\ \A i \in DOMAIN own : \E j \in DOMAIN w : own[i] = w[j] /\ w[j].agent = a
             /\ (\E j \in DOMAIN w : w[j].agent = a) => own # <<>>
             /\ (\A j \in DOMAIN w : w[j].agent = a) => own = w
<1> DEFINE n == Len(w)
           Body(f) == [k \in 0 .. n |->
                         IF k = 0 THEN <<>>
                         ELSE IF w[k].agent = a THEN Append(f[k - 1], w[k]) ELSE f[k - 1]]
           f0 == CHOOSE f : f = Body(f)
           g == [k \in 1 .. n |->
                   [s \in Seq(Alerts) |-> IF w[k].agent = a THEN Append(s, w[k]) ELSE s]]
           All(k) == \A j \in 1 .. k : w[j].agent = a
           Good(k, s) ==
             /\ s \in Seq(Alerts)
             /\ \A i \in DOMAIN s : \E j \in 1 .. k : s[i] = w[j] /\ w[j].agent = a
             /\ (\E j \in 1 .. k : w[j].agent = a) => s # <<>>
             /\ All(k) => Len(s) = k /\ \A i \in 1 .. k : s[i] = w[i]
<1>1. n \in Nat /\ DOMAIN w = 1 .. n /\ \A k \in 1 .. n : w[k] \in Alerts OBVIOUS
<1>2. g \in [1 .. n -> [Seq(Alerts) -> Seq(Alerts)]] BY <1>1
<1>3. PICK f : Steps(f, n, Seq(Alerts), <<>>, g)
  <2> HIDE DEF g, n, Body, f0, Good, All
  <2>1. <<>> \in Seq(Alerts) OBVIOUS
  <2>2. QED BY <1>1, <1>2, <2>1, Recursion
<1>4. f = Body(f)
  <2>1. ASSUME NEW k \in 1 .. n
        PROVE  f[k] = IF w[k].agent = a THEN Append(f[k - 1], w[k]) ELSE f[k - 1]
    <3>1. f[k - 1] \in Seq(Alerts) /\ f[k] = g[k][f[k - 1]]
      <4> HIDE DEF g, n
      <4>1. QED BY <1>3, <1>1 DEF Steps
    <3>2. QED BY <3>1
  <2>2. f \in [0 .. n -> Seq(Alerts)] /\ f[0] = <<>> BY <1>3 DEF Steps
  <2>3. ASSUME NEW k \in 0 .. n
        PROVE  f[k] = IF k = 0 THEN <<>>
                      ELSE IF w[k].agent = a THEN Append(f[k - 1], w[k]) ELSE f[k - 1]
    <3>1. k = 0 \/ k \in 1 .. n BY <1>1, SMTT(30)
    <3>2. QED BY <2>1, <2>2, <3>1
  <2>4. QED BY <2>2, <2>3
<1>5. f0 = Body(f0) BY <1>4
<1>6. OfAgent(w, a) = f0[n] BY DEF OfAgent
<1>7. Good(n, f0[n])
  <2> DEFINE S == {k \in 0 .. n : Good(k, f0[k])}
  <2> HIDE DEF f0
  <2>1. 0 \in S BY <1>1, <1>5
  <2>2. ASSUME NEW k \in 1 .. n, k - 1 \in S PROVE k \in S
    <3> DEFINE s == f0[k - 1]
    <3>1. k \in 0 .. n /\ k # 0 /\ k \in 1 .. k /\ w[k] \in Alerts
          /\ \A j \in 1 .. k : j = k \/ j \in 1 .. k - 1
      BY <1>1
    <3>2. f0[k] = IF w[k].agent = a THEN Append(s, w[k]) ELSE s BY <1>5, <3>1
    <3>3. Good(k - 1, s) BY <2>2
    <3> HIDE DEF s
    <3>4. CASE w[k].agent = a
      <4>1. f0[k] = Append(s, w[k]) /\ s \in Seq(Alerts) BY <3>2, <3>3, <3>4
      <4>2. /\ f0[k] \in Seq(Alerts) /\ Len(f0[k]) = Len(s) + 1
            /\ \A i \in 1 .. Len(s) : f0[k][i] = s[i]
            /\ f0[k][Len(s) + 1] = w[k]
        BY <3>1, <4>1
      <4>3. \A i \in DOMAIN f0[k] : \E j \in 1 .. k : f0[k][i] = w[j] /\ w[j].agent = a
        <5>1. SUFFICES ASSUME NEW i \in DOMAIN f0[k]
                       PROVE \E j \in 1 .. k : f0[k][i] = w[j] /\ w[j].agent = a
          OBVIOUS
        <5>3. CASE i = Len(s) + 1 BY <3>1, <3>4, <4>2, <5>3
        <5>4. CASE i \in 1 .. Len(s)
          <6>1. PICK j \in 1 .. k - 1 : s[i] = w[j] /\ w[j].agent = a BY <3>3, <4>1, <5>4
          <6>3. QED BY <4>2, <5>4, <6>1, <1>1
        <5>5. QED BY <4>1, <4>2, <5>3, <5>4
      <4>5. All(k) => Len(f0[k]) = k /\ \A i \in 1 .. k : f0[k][i] = w[i]
        <5>1. SUFFICES ASSUME All(k) PROVE Len(f0[k]) = k /\ \A i \in 1 .. k : f0[k][i] = w[i]
          OBVIOUS
        <5>3. Len(s) = k - 1 /\ \A i \in 1 .. k - 1 : s[i] = w[i] BY <3>3, <1>1, <5>1
        <5>4. QED BY <3>1, <4>2, <5>3
      <4>6. Good(k, f0[k]) BY <4>2, <4>3, <4>1, <4>5
      <4>7. QED BY <3>1, <4>6
    <3>5. CASE w[k].agent # a BY <3>1, <3>2, <3>5, <1>1, <3>3
    <3>6. QED BY <3>4, <3>5
  <2> HIDE DEF S, n, Good
  <2>3. \A k \in 0 .. n : k \in S BY <1>1, <2>1, <2>2, UpTo
  <2>4. n \in S BY <1>1, <2>3
  <2>5. QED BY <2>4 DEF S
<1> DEFINE own == f0[n]
<1> HIDE DEF f0, Body
<1>8. (\A j \in DOMAIN w : w[j].agent = a) => own = w
  <2>1. SUFFICES ASSUME \A j \in DOMAIN w : w[j].agent = a PROVE own = w OBVIOUS
  <2>2. Len(own) = n /\ (\A i \in 1 .. n : own[i] = w[i]) /\ own \in Seq(Alerts)
    BY <1>1, <1>7, <2>1
  <2>3. QED BY <2>2, <1>1
<1>9. QED BY <1>1, <1>6, <1>7, <1>8

----------------------------------------------------------------------------
(* Products, quotients and shares.                                          *)

\* A product of non-negative numbers grows with either.
LEMMA Products ==
  ASSUME NEW a \in Nat, NEW b \in Int, NEW c \in Nat, NEW d \in Int, a <= b, c <= d
  PROVE  a * c \in Nat /\ b * d \in Nat /\ a * c <= b * d
<1>1. a * c \in Int /\ b * d \in Int /\ b * c \in Int /\ 0 <= a * c BY SMT
<1>2. a * c <= b * c
  <2>1. PICK k \in Nat : b = a + k OBVIOUS
  <2>2. b * c = a * c + k * c /\ k * c \in Int /\ 0 <= k * c BY <2>1, SMT
  <2>3. QED BY <1>1, <2>2
<1>3. b * c <= b * d
  <2>1. PICK k \in Nat : d = c + k OBVIOUS
  <2>2. b \in Nat OBVIOUS
  <2>3. b * d = b * c + b * k /\ b * k \in Int /\ 0 <= b * k BY <2>1, <2>2, SMT
  <2>4. QED BY <1>1, <2>3
<1>4. QED BY <1>1, <1>2, <1>3

\* What a quotient rounded down is.
LEMMA Quotient ==
  ASSUME NEW x \in Int, NEW d \in Nat, d > 0
  PROVE  x \div d \in Int /\ d * (x \div d) <= x /\ x < d * (x \div d) + d
OBVIOUS

\* Of a quotient, the bounds, and what it does as its terms grow.
LEMMA QuotientBelow ==
  ASSUME NEW x \in Int, NEW d \in Nat, d > 0, NEW k \in Int, x < d * k
  PROVE  x \div d < k
<1> DEFINE q == x \div d
<1>1. q \in Int /\ d * q <= x BY Quotient
<1> HIDE DEF q
<1>2. SUFFICES ASSUME k <= q PROVE FALSE BY <1>1 DEF q
<1>3. q - k \in Nat /\ d * q = d * k + d * (q - k) /\ d * k \in Int BY <1>1, <1>2, SMT
<1>4. d * (q - k) \in Int /\ 0 <= d * (q - k) BY <1>3, SMT
<1>5. QED BY <1>1, <1>3, <1>4

\* Shares, probabilities and factors are counted in thousandths.
Thousandths == 0 .. 1000

\* A share lies between none and all, and does not grow with what it is a share of.
LEMMA Shares ==
  ASSUME NEW x \in Int, NEW d \in Int
  PROVE  Share(x, d) \in Thousandths
<1>1. CASE x <= 0 \/ x >= d BY <1>1 DEF Share, Thousandths
<1>2. CASE 0 < x /\ x < d
  <2>1. d \in Nat /\ d > 0 /\ 1000 * x \in Int /\ 1000 * x < d * 1000 BY <1>2
  <2>3. (1000 * x) \div d \in Int /\ 0 <= (1000 * x) \div d
    <3> DEFINE q == (1000 * x) \div d
    <3>1. q \in Int /\ 1000 * x < d * q + d BY <2>1, Quotient
    <3> HIDE DEF q
    <3>2. SUFFICES ASSUME q < 0 PROVE FALSE BY <3>1 DEF q
    <3>3. -1 - q \in Nat /\ d * q = -d - d * (-1 - q) BY <2>1, <3>1, <3>2, SMT
    <3>4. 0 <= d * (-1 - q) /\ d * (-1 - q) \in Int BY <2>1, <3>3, SMT
    <3>5. QED BY <1>2, <2>1, <3>1, <3>3, <3>4
  <2>4. QED BY <1>2, <2>1, QuotientBelow, <2>3 DEF Share, Thousandths
<1>3. QED BY <1>1, <1>2

\* Of more, the same is no larger a share.
LEMMA ShareOfMore ==
  ASSUME NEW x \in Int, NEW d \in Int, NEW e \in Int, d <= e
  PROVE  Share(x, e) <= Share(x, d)
<1>1. CASE x <= 0 BY <1>1 DEF Share
<1>2. CASE x > 0 /\ x >= d BY <1>2, Shares DEF Share, Thousandths
<1>3. CASE x > 0 /\ x < d
  <2> DEFINE p == (1000 * x) \div d  q == (1000 * x) \div e
  <2>1. d \in Nat /\ d > 0 /\ e \in Nat /\ e > 0 /\ 1000 * x \in Int /\ x < e BY <1>3
  <2>2. Share(x, d) = p /\ Share(x, e) = q BY <1>3, <2>1 DEF Share
  <2>3. q \in Thousandths BY Shares, <2>2
  <2>4. p \in Int /\ 1000 * x < d * p + d BY <2>1, Quotient
  <2>5. q \in Int /\ e * q <= 1000 * x BY <2>1, Quotient
  <2> HIDE DEF p, q
  <2>6. d * q <= e * q /\ d * q \in Int /\ e * q \in Int BY <2>1, <2>3, Products DEF Thousandths
  <2>7. SUFFICES ASSUME p < q PROVE FALSE BY <2>2, <2>4, <2>5
  <2>8. d * (p + 1) <= d * q /\ d * (p + 1) = d * p + d /\ d * p \in Int
    <3>1. q - (p + 1) \in Nat /\ d * q = d * (p + 1) + d * (q - (p + 1)) /\ d * (p + 1) \in Int
      BY <2>1, <2>4, <2>5, <2>7, SMT
    <3>2. 0 <= d * (q - (p + 1)) /\ d * (q - (p + 1)) \in Int BY <2>1, <3>1, SMT
    <3>3. d * (p + 1) = d * p + d /\ d * p \in Int BY <2>1, <2>4, SMT
    <3>4. QED BY <3>1, <3>2, <3>3
  <2>9. QED BY <2>1, <2>4, <2>5, <2>6, <2>8
<1>4. QED BY <1>1, <1>2, <1>3

\* Steps of a factor in thousandths: no more comes of less, and no factor up to one adds.
LEMMA Scaled ==
  ASSUME NEW x \in Nat, NEW y \in Nat, NEW f \in Nat, x <= y
  PROVE  /\ (x * f) \div 1000 \in Nat /\ (x * f) \div 1000 <= (y * f) \div 1000
         /\ f <= 1000 => (x * f) \div 1000 <= x
         /\ f <= 1250 => 4 * ((x * f) \div 1000) <= 5 * x
         /\ f = 1000 => (x * f) \div 1000 = x
<1> DEFINE a == x * f  b == y * f
<1>1. a \in Nat /\ b \in Nat /\ a <= b BY Products
<1>2. f <= 1000 => a <= x * 1000 BY Products
<1>3. f <= 1250 => a <= x * 1250 BY Products
<1>4. f = 1000 => a = x * 1000 OBVIOUS
<1> HIDE DEF a, b
<1>5. /\ a \div 1000 \in Nat /\ a \div 1000 <= b \div 1000
      /\ f <= 1000 => a \div 1000 <= x
      /\ f <= 1250 => 4 * (a \div 1000) <= 5 * x
      /\ f = 1000 => a \div 1000 = x
  BY <1>1, <1>2, <1>3, <1>4
<1>6. QED BY <1>5 DEF a, b

----------------------------------------------------------------------------
(* The divisors.                                                            *)

\* The median, doubled, of numbers is a number.
LEMMA MedianIs ==
  ASSUME NEW s \in Seq(Int)
  PROVE  Median(s) \in Int
<1> DEFINE a == Ascending(s)  n == Len(s)
<1>1. a \in Seq(Int) /\ Len(a) = n /\ n \in Nat /\ DOMAIN s = 1 .. n BY AscendingOrders
<1>2. CASE s = <<>> BY <1>2 DEF Median
<1>3. CASE s # <<>>
  <2>1. n > 0 BY <1>1, <1>3
  <2>2. CASE n % 2 = 1
    <3>2. a[(n \div 2) + 1] \in Int
      <4> HIDE DEF a, n
      <4>1. QED BY <1>1, <2>2
    <3>3. QED BY <1>3, <2>2, <3>2 DEF Median
  <2>3. CASE n % 2 # 1
    <3>2. a[(n \div 2) + 1] \in Int /\ a[n \div 2] \in Int
      <4> HIDE DEF a, n
      <4>1. QED BY <1>1, <2>1, <2>3
    <3>3. QED BY <1>3, <2>3, <3>2 DEF Median
  <2>4. QED BY <2>2, <2>3
<1>4. QED BY <1>2, <1>3

\* A baseline's centre and spread is a number.
LEMMA CentreAndSpreadIs ==
  ASSUME NEW s \in Seq(Int)
  PROVE  CentreAndSpread(s) \in Int
<1> DEFINE centre == Median(s)
           off == [i \in DOMAIN s |-> IF 2 * s[i] >= centre THEN 2 * s[i] - centre
                                                            ELSE centre - 2 * s[i]]
           mad == Median(off)
<1>1. centre \in Int BY MedianIs
<1>2. off \in Seq(Int)
  <2> HIDE DEF centre
  <2>1. DOMAIN s = 1 .. Len(s) /\ Len(s) \in Nat /\ \A i \in 1 .. Len(s) : s[i] \in Int OBVIOUS
  <2>2. off \in [1 .. Len(s) -> Int] BY <1>1, <2>1
  <2> HIDE DEF off
  <2>3. QED BY <2>1, <2>2
<1>3. mad \in Int
  <2> HIDE DEF off
  <2>1. QED BY <1>2, MedianIs
<1>4. CentreAndSpread(s) = centre \div 2 + (11120 * mad) \div 10000 BY DEF CentreAndSpread
<1> HIDE DEF centre, mad
<1>5. QED BY <1>1, <1>3, <1>4

\* Whatever is measured, a divisor is no smaller than the fixed one.
LEMMA DenominatorsIs ==
  ASSUME NEW b, IsBaseline(b), NEW threshold \in Nat, NEW key \in Keys
  PROVE  /\ Denominators(b, threshold)[key] \in Int
         /\ FixedDenominators[key] <= Denominators(b, threshold)[key]
         /\ key \in {"peak", "coverage"} => Denominators(b, threshold)[key] = FixedDenominators[key]
<1> DEFINE den == Denominators(b, threshold)[key]
<1>1. /\ FixedDenominators[key] \in Int
      /\ key \in {"model", "mass", "velocity", "breadth"} =>
           HighestDenominators[key] \in Int /\ FixedDenominators[key] <= HighestDenominators[key]
      /\ DOMAIN Metric = {"mass", "velocity", "breadth"}
      /\ key \in DOMAIN Metric => Metric[key] \in {"mass", "burst", "distinct"}
  BY DEF Keys, FixedDenominators, HighestDenominators, Metric
<1>2. ASSUME NEW v \in Int, key \in {"model", "mass", "velocity", "breadth"}
      PROVE  Bounded(v, key) \in Int /\ FixedDenominators[key] <= Bounded(v, key)
  BY <1>1, <1>2 DEF Bounded, OnlyCapped
<1>3. den = IF ~Warm(b) THEN FixedDenominators[key]
            ELSE IF key \in DOMAIN Metric /\ b.samples[Metric[key]] # <<>>
                 THEN Saturation(b.samples[Metric[key]], key)
            ELSE IF key = "model" /\ b.samples["prob"] # <<>> /\ threshold > 0
                 THEN Bounded((1000 * CentreAndSpread(b.samples["prob"])) \div threshold, key)
            ELSE FixedDenominators[key]
  BY DEF Denominators
<1>4. Warm(b) => b.samples \in [{"mass", "burst", "distinct", "prob"} -> Seq(Int)]
  BY DEF Warm, IsBaseline
<1> HIDE DEF den
<1>5. CASE den = FixedDenominators[key] BY <1>1, <1>5 DEF den
<1>6. CASE Warm(b) /\ key \in DOMAIN Metric /\ den = Saturation(b.samples[Metric[key]], key)
  <2> DEFINE s == b.samples[Metric[key]]
  <2>1. s \in Seq(Int) BY <1>1, <1>4, <1>6
  <2> HIDE DEF s
  <2>2. CentreAndSpread(s) \in Int BY <2>1, CentreAndSpreadIs
  <2>4. key \notin {"peak", "coverage"} /\ key \in {"model", "mass", "velocity", "breadth"}
    BY <1>1, <1>6
  <2>5. QED BY <1>2, <2>2, <1>6, <2>4 DEF den, s, Saturation
<1>7. CASE /\ Warm(b) /\ key = "model" /\ threshold > 0
           /\ den = Bounded((1000 * CentreAndSpread(b.samples["prob"])) \div threshold, key)
  <2> DEFINE s == b.samples["prob"]  x == 1000 * CentreAndSpread(s)
  <2>1. s \in Seq(Int) BY <1>4, <1>7
  <2> HIDE DEF s
  <2>2. CentreAndSpread(s) \in Int BY <2>1, CentreAndSpreadIs
  <2>3. x \in Int BY <2>2
  <2>4. den = Bounded(x \div threshold, key) BY <1>7 DEF s
  <2> HIDE DEF x
  <2>5. x \div threshold \in Int BY <1>7, <2>3, Quotient
  <2>6. key \notin {"peak", "coverage"} /\ key \in {"model", "mass", "velocity", "breadth"}
    BY <1>7
  <2>7. QED BY <1>2, <2>4, <2>5, <2>6 DEF den
<1>8. QED BY <1>3, <1>5, <1>6, <1>7

----------------------------------------------------------------------------
(* What is counted in a window.                                             *)

\* The values of a sequence are finitely many.
LEMMA FiniteRange ==
  ASSUME NEW n \in Nat, NEW f, DOMAIN f = 1 .. n
  PROVE  IsFiniteSet({f[i] : i \in 1 .. n}) /\ Cardinality({f[i] : i \in 1 .. n}) \in Nat
<1> DEFINE S == {f[i] : i \in 1 .. n}  g == [i \in 1 .. n |-> f[i]]
<1>2. g \in Surjection(1 .. n, S) BY DEF Surjection
<1> HIDE DEF S, g
<1>3. IsFiniteSet(S) BY FS_Interval, <1>2, FS_Surjection
<1>5. QED BY <1>3, FS_CardinalityType DEF S

\* How many of the places of a window qualify.
LEMMA Counted ==
  ASSUME NEW n \in Nat, NEW S \in SUBSET (1 .. n)
  PROVE  IsFiniteSet(S) /\ Cardinality(S) \in 0 .. n
<1>2. IsFiniteSet(1 .. n) /\ Cardinality(1 .. n) = n BY FS_Interval
<1>3. IsFiniteSet(S) /\ Cardinality(S) <= n BY <1>2, FS_Subset
<1>4. QED BY <1>3, FS_CardinalityType

\* The fields of an alert.
LEMMA AlertIs ==
  ASSUME NEW w \in Seq(Alerts), NEW i \in 1 .. Len(w)
  PROVE  /\ w[i].at \in Int /\ w[i].rule \in Int /\ w[i].level \in 0 .. 15
         /\ w[i].tactics \in SUBSET STRING /\ w[i].agent \in Nat
<1>2. \A a \in Alerts : /\ a.at \in Int /\ a.rule \in Int /\ a.level \in 0 .. 15
                        /\ a.tactics \in SUBSET STRING /\ a.agent \in Nat
  BY DEF Alerts
<1>3. QED BY <1>2

\* The highest of numbers up to h.
LEMMA HighestUpTo ==
  ASSUME NEW h \in Nat, NEW S \in SUBSET (0 .. h)
  PROVE  Highest(S) \in 0 .. h
<1>1. CASE S = {} BY <1>1 DEF Highest
<1>2. CASE S # {}
  <2>1. S \in SUBSET Int /\ 0 \in Int /\ h \in Int /\ \A s \in S : 0 <= s /\ s <= h OBVIOUS
  <2>2. Max(S) \in S BY <1>2, <2>1, Extremes
  <2>3. QED BY <1>2, <2>2 DEF Highest
<1>3. QED BY <1>1, <1>2

\* A window has as many sorted times as alerts.
LEMMA SortedTimesIs ==
  ASSUME NEW w \in Seq(Alerts)
  PROVE  SortedTimes(w) \in Seq(Int) /\ Len(SortedTimes(w)) = Len(w)
<1> DEFINE s == [i \in DOMAIN w |-> w[i].at]
<1>1. DOMAIN w = 1 .. Len(w) /\ Len(w) \in Nat /\ \A i \in 1 .. Len(w) : w[i].at \in Int
  BY AlertIs, SMTT(30)
<1>2. s \in [1 .. Len(w) -> Int] BY <1>1
<1> HIDE DEF s
<1>3. s \in Seq(Int) /\ Len(s) = Len(w) BY <1>1, <1>2
<1>5. QED BY <1>3, AscendingOrders DEF SortedTimes, s

\* The busiest minute holds some number of alerts.
LEMMA BusiestIs ==
  ASSUME NEW s \in Seq(Int)
  PROVE  Busiest(s) \in Nat
<1> DEFINE In(i) == {k \in DOMAIN s : s[i] <= s[k] /\ s[k] < s[i] + 60}
           S == {Cardinality(In(i)) : i \in DOMAIN s}
<1>1. DOMAIN s = 1 .. Len(s) /\ Len(s) \in Nat OBVIOUS
<1>2. \A i \in DOMAIN s : Cardinality(In(i)) \in 0 .. Len(s)
  <2>1. \A i \in DOMAIN s : In(i) \in SUBSET (1 .. Len(s)) BY <1>1
  <2> HIDE DEF In
  <2>2. QED BY <1>1, <2>1, Counted
<1>3. S \in SUBSET (0 .. Len(s))
  <2> HIDE DEF In
  <2>1. QED BY <1>1, <1>2
<1>4. Busiest(s) = Highest(S) BY DEF Busiest
<1> HIDE DEF S
<1>5. Highest(S) \in 0 .. Len(s) BY <1>1, <1>3, HighestUpTo
<1>6. QED BY <1>1, <1>4, <1>5

\* The highest level is a level.
LEMMA HighestIs ==
  ASSUME NEW w \in Seq(Alerts)
  PROVE  Highest(Levels(w)) \in 0 .. 15
<1>2. Levels(w) \in SUBSET (0 .. 15) BY AlertIs DEF Levels
<1>3. QED BY <1>2, HighestUpTo

\* The mass of a window is a number.
LEMMA MassIs ==
  ASSUME NEW w \in Seq(Alerts)
  PROVE  Mass(w) \in Int
<1> DEFINE s == [i \in DOMAIN w |-> IF w[i].level >= 7 THEN MassOfLevel[w[i].level] ELSE 0]
<1>1. DOMAIN w = 1 .. Len(w) /\ Len(w) \in Nat /\ \A i \in 1 .. Len(w) : w[i].level \in 0 .. 15
  BY AlertIs, SMTT(30)
<1>2. \A l \in 7 .. 15 : MassOfLevel[l] \in Int BY SMTT(30) DEF MassOfLevel
<1>3. s \in [1 .. Len(w) -> Int]
  <2>1. \A i \in 1 .. Len(w) : w[i].level >= 7 => w[i].level \in 7 .. 15 BY <1>1, SMTT(30)
  <2>2. \A i \in 1 .. Len(w) : (IF w[i].level >= 7 THEN MassOfLevel[w[i].level] ELSE 0) \in Int
    <3> HIDE DEF s
    <3>1. ASSUME NEW i \in 1 .. Len(w), w[i].level >= 7 PROVE MassOfLevel[w[i].level] \in Int
      BY <1>2, <2>1, <3>1
    <3>2. QED BY <3>1
  <2>3. QED BY <1>1, <2>2
<1> HIDE DEF s
<1>4. s \in Seq(Int) BY <1>1, <1>3
<1>6. QED BY <1>4, SumIs DEF Mass, s

\* The rules of a window can be counted.
LEMMA RulesAre ==
  ASSUME NEW w \in Seq(Alerts)
  PROVE  Cardinality(Rules(w)) \in Nat
<1> DEFINE f == [i \in 1 .. Len(w) |-> w[i].rule]
<1>1. DOMAIN w = 1 .. Len(w) /\ Len(w) \in Nat /\ DOMAIN f = 1 .. Len(w) OBVIOUS
<1>2. Rules(w) = {f[i] : i \in 1 .. Len(w)} BY <1>1 DEF Rules
<1> HIDE DEF f
<1>3. QED BY <1>1, <1>2, FiniteRange

\* The stages of an attack a window shows can be counted.
LEMMA StagesAre ==
  ASSUME NEW w, IsWindow(w)
  PROVE  Cardinality(Stages(w)) \in Nat
<1> DEFINE f == [i \in 1 .. Len(w) |-> w[i].tactics]
           F == {f[i] : i \in 1 .. Len(w)}
           more == (IF Credential(w) THEN {"credential access"} ELSE {})
                     \cup (IF Persistent(w) THEN {"persistence"} ELSE {})
<1>1. w \in Seq(Alerts) /\ DOMAIN w = 1 .. Len(w) /\ Len(w) \in Nat /\ DOMAIN f = 1 .. Len(w)
  BY DEF IsWindow
<1>2. \A t \in F : IsFiniteSet(t) BY <1>1 DEF IsWindow
<1>4. IsFiniteSet(F)
  <2> HIDE DEF f
  <2>1. QED BY <1>1, FiniteRange
<1>5. IsFiniteSet(UNION F)
  <2> HIDE DEF F
  <2>1. QED BY <1>2, <1>4, FS_UNION
<1>6. IsFiniteSet(more)
  <2>1. more \subseteq {"credential access", "persistence"} OBVIOUS
  <2>2. IsFiniteSet({"credential access", "persistence"})
    <3> DEFINE one == {} \cup {"credential access"}  two == one \cup {"persistence"}
    <3>1. IsFiniteSet(one) BY FS_EmptySet, FS_AddElement
    <3>2. IsFiniteSet(two)
      <4> HIDE DEF one
      <4>1. QED BY <3>1, FS_AddElement
    <3>3. {"credential access", "persistence"} = two OBVIOUS
    <3> HIDE DEF two
    <3>4. QED BY <3>2, <3>3
  <2> HIDE DEF more
  <2>3. QED BY <2>1, <2>2, FS_Subset
<1>7. Stages(w) = (UNION F) \cup more BY <1>1 DEF Stages, Tactics
<1> HIDE DEF F, more
<1>8. QED BY <1>5, <1>6, <1>7, FS_Union, FS_CardinalityType

----------------------------------------------------------------------------
(* Components and totals.                                                   *)

\* The smaller and the larger of two numbers.
LEMMA OfTwo ==
  ASSUME NEW x \in Int, NEW y \in Int
  PROVE  /\ Min({x, y}) = IF x <= y THEN x ELSE y
         /\ Max({x, y}) = IF x >= y THEN x ELSE y
<1> DEFINE S == {x, y}
<1>1. S \in SUBSET Int /\ S # {} OBVIOUS
<1>2. PICK l \in Int, h \in Int : l <= x /\ l <= y /\ x <= h /\ y <= h OBVIOUS
<1>3. \A s \in S : l <= s /\ s <= h BY <1>2
<1> HIDE DEF S
<1>4. /\ Max(S) \in S /\ \A s \in S : s <= Max(S)
      /\ Min(S) \in S /\ \A s \in S : Min(S) <= s
  BY <1>1, <1>3, Extremes
<1>5. QED BY <1>4 DEF S

\* What larger divisors do to the components.
LEMMA Norms ==
  ASSUME NEW w, IsWindow(w), NEW p \in Int, NEW threshold \in Nat, NEW d, NEW e,
         \A key \in Keys : d[key] \in Int /\ e[key] \in Int /\ d[key] <= e[key],
         d["coverage"] = e["coverage"]
  PROVE  LET less == Norm(w, p, threshold, e)  more == Norm(w, p, threshold, d)
         IN  /\ \A key \in Keys : /\ more[key] \in Thousandths /\ less[key] \in Thousandths
                                  /\ less[key] <= more[key]
             /\ less.coverage = more.coverage
<1> DEFINE less == Norm(w, p, threshold, e)
           more == Norm(w, p, threshold, d)
           Both(x, y) == x \in Thousandths /\ y \in Thousandths /\ x <= y
<1>1. w \in Seq(Alerts) /\ Len(w) \in Nat BY DEF IsWindow
<1>2. \A key \in Keys : d[key] \in Int /\ e[key] \in Int /\ d[key] <= e[key] OBVIOUS
<1>3. \A x, y, z \in Int : y <= z => Both(Share(x, z), Share(x, y))
  <2>1. ASSUME NEW x \in Int, NEW y \in Int, NEW z \in Int, y <= z
        PROVE  Both(Share(x, z), Share(x, y))
    BY Shares, <2>1, ShareOfMore
  <2>2. QED BY <2>1
<1>4. Both(less["model"], more["model"])
  <2> DEFINE x == e["model"] * threshold  y == d["model"] * threshold
             m == Min({x \div 1000, 1000})  k == Min({y \div 1000, 1000})
  <2>1. e["model"] \in Int /\ d["model"] \in Int /\ d["model"] <= e["model"] BY <1>2 DEF Keys
  <2>2. x \in Int /\ y \in Int /\ y <= x
    <3>1. PICK a \in Nat : e["model"] = d["model"] + a
      <4>1. e["model"] - d["model"] \in Nat /\ e["model"] = d["model"] + (e["model"] - d["model"])
        BY <2>1
      <4>2. QED BY <4>1
    <3>2. x = y + a * threshold /\ a * threshold \in Int /\ 0 <= a * threshold /\ y \in Int
      BY <2>1, <3>1, SMT
    <3>3. QED BY <3>2
  <2>3. x \div 1000 \in Int /\ y \div 1000 \in Int /\ y \div 1000 <= x \div 1000
    <3> HIDE DEF x, y
    <3>1. QED BY <2>2
  <2>4. m \in Int /\ k \in Int /\ k <= m
    <3> DEFINE u == x \div 1000  v == y \div 1000
    <3>1. u \in Int /\ v \in Int /\ v <= u /\ m = Min({u, 1000}) /\ k = Min({v, 1000}) BY <2>3
    <3> HIDE DEF u, v, m, k
    <3>2. m = (IF u <= 1000 THEN u ELSE 1000) /\ k = (IF v <= 1000 THEN v ELSE 1000)
      BY <3>1, OfTwo
    <3>3. QED BY <3>1, <3>2
  <2>5. /\ less["model"] = (IF threshold > 0 THEN Share(p, m) ELSE 0)
        /\ more["model"] = (IF threshold > 0 THEN Share(p, k) ELSE 0)
    BY DEF Norm
  <2> HIDE DEF m, k, less, more
  <2>6. QED BY <1>3, <2>4, <2>5 DEF Thousandths
<1>5. Both(less["peak"], more["peak"])
  <2>1. PeakShare[Highest(Levels(w))] \in Thousandths
    <3>1. \A l \in 0 .. 15 : PeakShare[l] \in Thousandths BY DEF PeakShare, Thousandths
    <3>2. QED BY <1>1, <3>1, HighestIs
  <2>2. less["peak"] = PeakShare[Highest(Levels(w))] /\ more["peak"] = PeakShare[Highest(Levels(w))]
    BY DEF Norm
  <2>3. QED BY <2>1, <2>2, SMTT(30) DEF Thousandths
<1>6. Both(less["mass"], more["mass"])
  <2>2. less["mass"] = Share(Mass(w), e["mass"]) /\ more["mass"] = Share(Mass(w), d["mass"])
    BY DEF Norm
  <2>3. e["mass"] \in Int /\ d["mass"] \in Int /\ d["mass"] <= e["mass"] BY <1>2 DEF Keys
  <2> HIDE DEF less, more, Both
  <2>4. QED BY <1>3, <1>1, MassIs, <2>2, <2>3
<1>7. Both(less["velocity"], more["velocity"])
  <2> DEFINE x == 1000 * Busiest(SortedTimes(w))  n == 500 * Len(w)
             u == e["velocity"]  v == d["velocity"]
  <2>2. x \in Int /\ n \in Int BY <1>1, SortedTimesIs, BusiestIs
  <2>3. u \in Int /\ v \in Int /\ v <= u BY <1>2 DEF Keys
  <2>4. less["velocity"] = Share(x, Max({u, n})) /\ more["velocity"] = Share(x, Max({v, n}))
    BY DEF Norm
  <2> HIDE DEF x, n, u, v, less, more
  <2>5. Max({u, n}) = (IF u >= n THEN u ELSE n) /\ Max({v, n}) = (IF v >= n THEN v ELSE n)
    BY <2>2, <2>3, OfTwo
  <2>6. Max({u, n}) \in Int /\ Max({v, n}) \in Int /\ Max({v, n}) <= Max({u, n})
    BY <2>2, <2>3, <2>5
  <2> HIDE DEF Both
  <2>7. Both(Share(x, Max({u, n})), Share(x, Max({v, n}))) BY <1>3, <2>2, <2>6
  <2>8. QED BY <2>4, <2>7
<1>8. Both(less["breadth"], more["breadth"])
  <2> DEFINE x == 1000 * (Cardinality(Rules(w)) - 1)
  <2>1. x \in Int BY <1>1, RulesAre
  <2>2. less["breadth"] = Share(x, e["breadth"]) /\ more["breadth"] = Share(x, d["breadth"])
    BY DEF Norm
  <2>3. e["breadth"] \in Int /\ d["breadth"] \in Int /\ d["breadth"] <= e["breadth"]
    BY <1>2 DEF Keys
  <2> HIDE DEF x, less, more, Both
  <2>4. QED BY <1>3, <2>1, <2>2, <2>3
<1>9. Both(less["coverage"], more["coverage"]) /\ less["coverage"] = more["coverage"]
  <2> DEFINE x == 1000 * Cardinality(Stages(w))
  <2>1. x \in Int BY StagesAre
  <2>2. less["coverage"] = Share(x, e["coverage"]) /\ more["coverage"] = Share(x, d["coverage"])
    BY DEF Norm
  <2>3. e["coverage"] \in Int /\ d["coverage"] \in Int /\ d["coverage"] <= e["coverage"]
    BY <1>2 DEF Keys
  <2> HIDE DEF x, less, more, Both
  <2>4. QED BY <1>3, <2>1, <2>2, <2>3
<1> HIDE DEF less, more
<1>10. \A key \in Keys : Both(less[key], more[key])
  BY <1>4, <1>5, <1>6, <1>7, <1>8, <1>9 DEF Keys
<1>11. QED BY <1>9, <1>10 DEF less, more

\* What the alerts of a window make of new rules and routine are shares.
LEMMA Profiles ==
  ASSUME NEW w, IsWindow(w), NEW b, NEW hour
  PROVE  LET profile == RuleProfile(w, b, hour)
         IN  /\ profile.novel \in Thousandths /\ profile.routine \in Thousandths
             /\ b = NoBaseline \/ NewRules(w, b) = {} => profile.novel = 0
             /\ b = NoBaseline => profile.routine = 0
<1>1. w \in Seq(Alerts) /\ Len(w) \in Nat /\ DOMAIN w = 1 .. Len(w) BY DEF IsWindow
<1>2. \A R : InRules(w, R) \in 0 .. Len(w)
  <2>2. ASSUME NEW R PROVE InRules(w, R) \in 0 .. Len(w)
    <3> DEFINE S == {i \in DOMAIN w : w[i].rule \in R}
    <3>1. S \in SUBSET (1 .. Len(w)) BY <1>1
    <3> HIDE DEF S
    <3>3. QED BY <1>1, <3>1, Counted DEF InRules, S
  <2>3. QED BY <2>2
<1>4. CASE w = <<>> \/ b = NoBaseline BY <1>4 DEF RuleProfile, Thousandths
<1>5. CASE ~(w = <<>> \/ b = NoBaseline)
  <2> DEFINE x == InRules(w, NewRules(w, b))  y == InRules(w, RoutineRules(w, b, hour))
  <2>1. x \in Int /\ y \in Int BY <1>1, <1>2
  <2>2. RuleProfile(w, b, hour) = [novel |-> Share(x, Len(w)), routine |-> Share(y, Len(w))]
    BY <1>5 DEF RuleProfile
  <2>3. NewRules(w, b) = {} => x = 0 BY FS_EmptySet DEF InRules
  <2> HIDE DEF x, y
  <2>4. Share(x, Len(w)) \in Thousandths /\ Share(y, Len(w)) \in Thousandths
    BY <1>1, <2>1, Shares
  <2>5. x = 0 => Share(x, Len(w)) = 0 BY DEF Share
  <2>6. QED BY <1>5, <2>2, <2>3, <2>4, <2>5
<1>6. QED BY <1>4, <1>5

\* The weighted sum of the components.
Weighted(norm) ==
  28 * norm["model"] + 18 * norm["peak"] + 16 * norm["mass"] + 12 * norm["velocity"]
    + 10 * norm["breadth"] + 16 * norm["coverage"]

\* What a severity is made of keeps to these bounds.
InBounds(parts) ==
  /\ \A key \in Keys : parts.norm[key] \in Thousandths
  /\ parts.chain \in Nat /\ parts.chain <= 1300
  /\ parts.novelty \in Nat /\ parts.novelty <= 1250
  /\ parts.routine \in Nat /\ parts.routine <= 1000

\* The total before it is capped.
Uncapped(parts) ==
  (((((Weighted(parts.norm) * parts.chain) \div 1000) * parts.novelty) \div 1000)
     * parts.routine) \div 1000

\* The weighted sum grows with its components.
LEMMA WeightedIs ==
  ASSUME NEW f, NEW g,
         \A key \in Keys : f[key] \in Thousandths /\ g[key] \in Thousandths /\ f[key] <= g[key]
  PROVE  Weighted(f) \in Nat /\ Weighted(g) \in Nat /\ Weighted(f) <= Weighted(g)
<1> DEFINE f1 == f["model"]  g1 == g["model"]
           f2 == f["peak"]  g2 == g["peak"]
           f3 == f["mass"]  g3 == g["mass"]
           f4 == f["velocity"]  g4 == g["velocity"]
           f5 == f["breadth"]  g5 == g["breadth"]
           f6 == f["coverage"]  g6 == g["coverage"]
<1>1. /\ Weighted(f) = 28 * f1 + 18 * f2 + 16 * f3 + 12 * f4 + 10 * f5 + 16 * f6
      /\ Weighted(g) = 28 * g1 + 18 * g2 + 16 * g3 + 12 * g4 + 10 * g5 + 16 * g6
  BY DEF Weighted
<1>2. f1 \in Thousandths /\ g1 \in Thousandths /\ f1 <= g1 BY DEF Keys
<1>3. f2 \in Thousandths /\ g2 \in Thousandths /\ f2 <= g2 BY DEF Keys
<1>4. f3 \in Thousandths /\ g3 \in Thousandths /\ f3 <= g3 BY DEF Keys
<1>5. f4 \in Thousandths /\ g4 \in Thousandths /\ f4 <= g4 BY DEF Keys
<1>6. f5 \in Thousandths /\ g5 \in Thousandths /\ f5 <= g5 BY DEF Keys
<1>7. f6 \in Thousandths /\ g6 \in Thousandths /\ f6 <= g6 BY DEF Keys
<1> HIDE DEF f1, f2, f3, f4, f5, f6, g1, g2, g3, g4, g5, g6
<1>8. QED BY <1>1, <1>2, <1>3, <1>4, <1>5, <1>6, <1>7 DEF Thousandths

\* What the total is, and that nothing in it is below zero.
LEMMA TotalIs ==
  ASSUME NEW parts, InBounds(parts)
  PROVE  /\ Weighted(parts.norm) \in Nat /\ Uncapped(parts) \in Nat
         /\ Total(parts) = IF Uncapped(parts) >= 100000 THEN 100000 ELSE Uncapped(parts)
<1> DEFINE base == Weighted(parts.norm)
           x == (base * parts.chain) \div 1000
           y == (x * parts.novelty) \div 1000
           z == (y * parts.routine) \div 1000
<1>1. base \in Nat
  <2> DEFINE f == parts.norm
  <2>1. \A key \in Keys : f[key] \in Thousandths BY DEF InBounds
  <2> HIDE DEF f
  <2>2. \A key \in Keys : f[key] \in Thousandths /\ f[key] \in Thousandths /\ f[key] <= f[key]
    BY <2>1, SMTT(30) DEF Thousandths
  <2>4. QED BY <2>2, WeightedIs DEF f
<1>2. parts.chain \in Nat /\ parts.novelty \in Nat /\ parts.routine \in Nat BY DEF InBounds
<1>3. x \in Nat
  <2> HIDE DEF base
  <2>2. QED BY <1>1, <1>2, Scaled
<1>4. y \in Nat
  <2> HIDE DEF x
  <2>1. x <= x BY <1>3
  <2>2. QED BY <1>2, <1>3, <2>1, Scaled
<1>5. z \in Nat
  <2> HIDE DEF y
  <2>1. y <= y BY <1>4
  <2>2. QED BY <1>2, <1>4, <2>1, Scaled
<1>6. Uncapped(parts) = z BY DEF Uncapped
<1>7. Total(parts) = Min({100000, z}) BY DEF Total, Weight, Weighted
<1> HIDE DEF base, z
<1>8. Min({100000, z}) = IF 100000 <= z THEN 100000 ELSE z BY <1>5, OfTwo
<1>9. QED BY <1>1, <1>5, <1>6, <1>7, <1>8 DEF base

\* Smaller components, the same chain, what is new and what is routine: the total is not
\* larger where nothing is new, and a quarter larger at most.
LEMMA TotalsCompared ==
  ASSUME NEW less, NEW more, InBounds(less), InBounds(more),
         \A key \in Keys : less.norm[key] <= more.norm[key],
         less.chain = more.chain, more.novelty = 1000, more.routine = 1000
  PROVE  /\ Total(less) \in Nat /\ Total(more) \in Nat
         /\ Total(less) <= 100000 /\ Total(more) <= 100000
         /\ less.novelty = 1000 => Total(less) <= Total(more)
         /\ 4 * Total(less) <= 5 * Total(more)
<1> DEFINE b1 == Weighted(less.norm)  b0 == Weighted(more.norm)
           x1 == (b1 * less.chain) \div 1000  x0 == (b0 * less.chain) \div 1000
           y1 == (x1 * less.novelty) \div 1000  y0 == (x0 * 1000) \div 1000
           z1 == (y1 * less.routine) \div 1000  z0 == (y0 * 1000) \div 1000
<1>1. b1 \in Nat /\ b0 \in Nat /\ b1 <= b0
  <2> DEFINE f == less.norm  g == more.norm
  <2>1. \A key \in Keys : f[key] \in Thousandths /\ g[key] \in Thousandths /\ f[key] <= g[key]
    BY DEF InBounds
  <2> HIDE DEF f, g
  <2>2. Weighted(f) \in Nat /\ Weighted(g) \in Nat /\ Weighted(f) <= Weighted(g)
    BY <2>1, WeightedIs
  <2>3. QED BY <2>2 DEF f, g
<1>2. less.chain \in Nat /\ less.novelty \in Nat /\ less.novelty <= 1250
      /\ less.routine \in Nat /\ less.routine <= 1000
  BY DEF InBounds
<1>3. x1 \in Nat /\ x1 <= x0
  <2> HIDE DEF b1, b0
  <2>1. QED BY <1>1, <1>2, Scaled
<1>4. x0 \in Nat
  <2> DEFINE c == less.chain
  <2>1. b0 \in Nat /\ c \in Nat /\ b0 <= b0 BY <1>1, <1>2
  <2> HIDE DEF b0, b1, c
  <2>2. (b0 * c) \div 1000 \in Nat BY <2>1, Scaled
  <2>3. QED BY <2>2 DEF c
<1>5. y0 = x0
  <2> HIDE DEF x0
  <2>1. QED BY <1>4
<1>6. z0 = x0
  <2> HIDE DEF x0
  <2>1. QED BY <1>4
<1>7. /\ y1 \in Nat /\ 4 * y1 <= 5 * x1
      /\ less.novelty = 1000 => y1 = x1
  <2> HIDE DEF x1
  <2>2. QED BY <1>3, <1>2, Scaled
<1>8. z1 \in Nat /\ z1 <= y1
  <2> HIDE DEF y1
  <2>2. QED BY <1>7, <1>2, Scaled
<1>9. Uncapped(less) = z1 /\ Uncapped(more) = z0 BY DEF Uncapped
<1>10. /\ Total(less) = IF z1 >= 100000 THEN 100000 ELSE z1
       /\ Total(more) = IF z0 >= 100000 THEN 100000 ELSE z0
  <2> HIDE DEF z1, z0
  <2>1. Total(less) = IF Uncapped(less) >= 100000 THEN 100000 ELSE Uncapped(less) BY TotalIs
  <2>2. Total(more) = IF Uncapped(more) >= 100000 THEN 100000 ELSE Uncapped(more) BY TotalIs
  <2>3. QED BY <1>9, <2>1, <2>2
<1> HIDE DEF x1, x0, y1, y0, z1, z0
<1> DEFINE l == Total(less)  m == Total(more)  one == less.novelty = 1000
<1>11. /\ l = (IF z1 >= 100000 THEN 100000 ELSE z1) /\ m = (IF x0 >= 100000 THEN 100000 ELSE x0)
       /\ x1 \in Nat /\ x0 \in Nat /\ x1 <= x0 /\ z1 \in Nat /\ z1 <= y1 /\ y1 \in Nat
       /\ 4 * y1 <= 5 * x1 /\ (one => y1 = x1)
  BY <1>3, <1>4, <1>6, <1>7, <1>8, <1>10
<1> HIDE DEF l, m, one
<1>13. one => l <= m BY <1>11
<1>14. 4 * l <= 5 * m
  <2>2. CASE x0 >= 100000 BY <1>11, <2>2
  <2>3. CASE x0 < 100000 BY <1>11, <2>3
  <2>4. QED BY <1>11, <2>2, <2>3
<1>15. l \in Nat /\ m \in Nat /\ l <= 100000 /\ m <= 100000 /\ (one => l <= m) /\ 4 * l <= 5 * m
  BY <1>11, <1>13, <1>14
<1>16. QED BY ONLY <1>15 DEF l, m, one

\* The parts of a severity keep to their bounds.
LEMMA PartsInBounds ==
  ASSUME NEW norm, \A key \in Keys : norm[key] \in Thousandths,
         NEW chained \in BOOLEAN,
         NEW profile, profile.novel \in Thousandths, profile.routine \in Thousandths
  PROVE  InBounds(Parts(norm, chained, profile))
<1> DEFINE c == norm["coverage"]  n == profile.novel  r == profile.routine
<1>2. c \in Thousandths /\ n \in Thousandths /\ r \in Thousandths BY DEF Keys
<1>3. /\ Parts(norm, chained, profile).norm = norm
      /\ Parts(norm, chained, profile).chain = IF chained THEN 1150 + (150 * c) \div 1000 ELSE 1000
      /\ Parts(norm, chained, profile).novelty = 1000 + (250 * n) \div 1000
      /\ Parts(norm, chained, profile).routine =
           IF chained THEN 1000 ELSE 1000 - (350 * r) \div 1000
  BY DEF Parts
<1> HIDE DEF c, n, r
<1>4. (150 * c) \div 1000 \in 0 .. 150 /\ (250 * n) \div 1000 \in 0 .. 250
      /\ (350 * r) \div 1000 \in 0 .. 350
  <2>1. c \in 0 .. 1000 /\ n \in 0 .. 1000 /\ r \in 0 .. 1000 BY <1>2 DEF Thousandths
  <2>3. (250 * n) \div 1000 \in 0 .. 250 BY <2>1
  <2>4. (350 * r) \div 1000 \in 0 .. 350 BY <2>1
  <2>5. QED BY <2>1, <2>3, <2>4
<1>5. QED BY <1>3, <1>4 DEF InBounds

----------------------------------------------------------------------------
(* A severity with a baseline and without.                                  *)

\* What a severity is put together from keeps to its bounds, and so does its score.
LEMMA SeverityIs ==
  ASSUME NEW w, IsWindow(w), NEW p \in Int, NEW threshold \in Nat,
         NEW b, IsBaseline(b), NEW hour
  PROVE  LET s == Severity(w, p, threshold, b, hour)
         IN  /\ InBounds(s.parts) /\ s.chained = Chained(w)
             /\ s.score = (Total(s.parts) + 50) \div 100
             /\ s.parts = Parts(Norm(w, p, threshold, Denominators(b, threshold)), Chained(w),
                                RuleProfile(w, Gated(b), hour))
             /\ Total(s.parts) \in Nat /\ Total(s.parts) <= 100000
             /\ s.score \in Nat /\ s.score <= 1000
<1> DEFINE norm == Norm(w, p, threshold, Denominators(b, threshold))
           profile == RuleProfile(w, Gated(b), hour)
           parts == Parts(norm, Chained(w), profile)
           s == Severity(w, p, threshold, b, hour)
<1>1. s.parts = parts /\ s.chained = Chained(w) /\ s.score = (Total(parts) + 50) \div 100
  BY DEF Severity, Rating, Rated
<1>2. \A key \in Keys : norm[key] \in Thousandths
  <2> DEFINE d == FixedDenominators  e == Denominators(b, threshold)
  <2>1. ASSUME NEW key \in Keys PROVE d[key] \in Int /\ e[key] \in Int /\ d[key] <= e[key]
    BY DenominatorsIs DEF FixedDenominators, Keys
  <2>2. d["coverage"] = e["coverage"] BY DenominatorsIs DEF Keys
  <2> HIDE DEF d, e
  <2> DEFINE less == Norm(w, p, threshold, e)  more == Norm(w, p, threshold, d)
  <2>3. /\ \A key \in Keys : /\ more[key] \in Thousandths /\ less[key] \in Thousandths
                             /\ less[key] <= more[key]
        /\ less.coverage = more.coverage
    BY <2>1, <2>2, Norms
  <2>5. QED BY <2>3 DEF e
<1>4. profile.novel \in Thousandths /\ profile.routine \in Thousandths BY Profiles
<1>5. InBounds(parts)
  <2> HIDE DEF norm, profile
  <2>1. QED BY <1>2, <1>4, PartsInBounds DEF Chained
<1> HIDE DEF parts, s
<1>6. Total(parts) \in Nat /\ Total(parts) <= 100000 BY <1>5, TotalIs
<1>8. QED BY <1>1, <1>5, <1>6 DEF parts, s

\* One severity with a baseline beside the same without.
LEMMA OneSeverity ==
  ASSUME NEW w, IsWindow(w), NEW p \in Int, NEW threshold \in Nat,
         NEW b, IsBaseline(b), NEW hour
  PROVE  LET with    == Severity(w, p, threshold, b, hour)
             without == Severity(w, p, threshold, NoBaseline, -1)
         IN  /\ \A k \in Keys : with.parts.norm[k] <= without.parts.norm[k]
             /\ NewRules(w, b) = {} => with.score <= without.score
             /\ 4 * with.score <= 5 * without.score + 4
             /\ with.chained => with.parts.routine = 1000
<1> DEFINE with    == Severity(w, p, threshold, b, hour)
           without == Severity(w, p, threshold, NoBaseline, -1)
           d == Denominators(NoBaseline, threshold)
           e == Denominators(b, threshold)
           more == Norm(w, p, threshold, d)
           less == Norm(w, p, threshold, e)
           profile == RuleProfile(w, Gated(b), hour)
<1>0. IsBaseline(NoBaseline) /\ Gated(NoBaseline) = NoBaseline BY DEF IsBaseline, Gated, Warm
<1>1. /\ InBounds(with.parts) /\ with.chained = Chained(w)
      /\ with.score = (Total(with.parts) + 50) \div 100
      /\ with.parts = Parts(less, Chained(w), profile)
  BY SeverityIs
<1>2. /\ InBounds(without.parts) /\ without.chained = Chained(w)
      /\ without.score = (Total(without.parts) + 50) \div 100
      /\ without.parts = Parts(more, Chained(w), RuleProfile(w, NoBaseline, -1))
  BY <1>0, SeverityIs
<1>3. \A key \in Keys : d[key] \in Int /\ e[key] \in Int /\ d[key] <= e[key]
  <2>1. ASSUME NEW key \in Keys
        PROVE  e[key] \in Int /\ FixedDenominators[key] <= e[key]
    BY DenominatorsIs
  <2>2. ASSUME NEW key \in Keys
        PROVE  d[key] = FixedDenominators[key] /\ d[key] \in Int
    BY <1>0 DEF Denominators, Warm, FixedDenominators, Keys
  <2> HIDE DEF d, e
  <2>3. QED BY <2>1, <2>2
<1>4. d["coverage"] = e["coverage"] BY DenominatorsIs, <1>0 DEF Keys
<1>5. (\A key \in Keys : less[key] <= more[key]) /\ less.coverage = more.coverage
  <2> HIDE DEF d, e
  <2>1. QED BY <1>3, <1>4, Norms
<1>6. /\ RuleProfile(w, NoBaseline, -1).novel = 0 /\ RuleProfile(w, NoBaseline, -1).routine = 0
      /\ NewRules(w, b) = {} => profile.novel = 0
  BY Profiles DEF Gated
<1> DEFINE i == with.parts  o == without.parts
<1>7. /\ i.norm = less /\ o.norm = more /\ i.chain = o.chain
      /\ o.novelty = 1000 /\ o.routine = 1000
      /\ NewRules(w, b) = {} => i.novelty = 1000
      /\ with.chained => i.routine = 1000
  <2> HIDE DEF with, without, less, more, profile
  <2>1. QED BY <1>1, <1>2, <1>5, <1>6 DEF Parts
<1> HIDE DEF with, without, less, more, profile
<1>8. \A key \in Keys : i.norm[key] <= o.norm[key] BY <1>5, <1>7
<1>9. /\ Total(i) \in Nat /\ Total(o) \in Nat
      /\ i.novelty = 1000 => Total(i) <= Total(o)
      /\ 4 * Total(i) <= 5 * Total(o)
  <2> HIDE DEF i, o
  <2>1. QED BY <1>1, <1>2, <1>7, <1>8, TotalsCompared DEF i, o
<1>10. /\ NewRules(w, b) = {} => with.score <= without.score
       /\ 4 * with.score <= 5 * without.score + 4
  <2> DEFINE x == Total(i)  y == Total(o)  new == NewRules(w, b)
  <2>1. with.score = (x + 50) \div 100 /\ without.score = (y + 50) \div 100 BY <1>1, <1>2
  <2>2. x \in Nat /\ y \in Nat /\ 4 * x <= 5 * y /\ (new = {} => x <= y) BY <1>7, <1>9
  <2> HIDE DEF x, y, i, o, new
  <2>3. (x <= y => (x + 50) \div 100 <= (y + 50) \div 100)
        /\ 4 * ((x + 50) \div 100) <= 5 * ((y + 50) \div 100) + 4
    BY <2>2
  <2>4. QED BY <2>1, <2>2, <2>3 DEF new
<1>11. QED BY <1>7, <1>8, <1>10 DEF with, without

\* What is given is one of its cases, and stays what it is.
GivenIs ==
  /\ given[1] = "capture" => given[2] \in Captures
  /\ given[1] = "burst" => given[2] \in Bursts
  /\ given[1] = "severity" => given[2] \in Severities
  /\ given[1] = "mixed" => given[2] \in Mixed
  /\ given[1] = "walk" => given[2] \in Walks
  /\ given[1] = "divided" => given[2] \in Divided
  /\ given[1] = "ranking" => given[2] \in Rankings
  /\ given[1] = "stream" => given[2] \in Streams

\* What is given stays one of its cases.
LEMMA GivenCase == Spec => []GivenIs
<1>1. Init => GivenIs BY DEF Init, Given, GivenIs
<1>2. GivenIs /\ [Next]_vars => GivenIs' BY DEF GivenIs, Next, vars
<1>3. QED BY <1>1, <1>2, PTL DEF Spec

\* For every window and every baseline that holds readings, warm or not, however odd its
\* readings are: no component is larger than without a baseline, the score is not either
\* unless there is a new rule and then by a quarter at most, and a chain is not discounted
\* (score.py 243-297, 300-338, 341-477).  The divisors come from the readings with a floor, and
\* a share falls as its divisor rises; the factors are at most 1.25 and 1.
THEOREM BaselineOnlyRaises == Spec => []BaselineOnlyRaisesTheBar
<1>1. GivenIs => BaselineOnlyRaisesTheBar
  <2>1. SUFFICES ASSUME GivenIs, given[1] = "severity" PROVE BaselineOnlyRaisesTheBar
    BY DEF BaselineOnlyRaisesTheBar
  <2> DEFINE c == given[2]
  <2>2. c \in Severities BY <2>1 DEF GivenIs
  <2>3. IsWindow(c.window) /\ c.p \in Int /\ c.threshold \in Nat /\ IsBaseline(c.baseline)
    <3> HIDE DEF c
    <3>1. IsWindow(c.window) /\ c.p \in 0 .. 1000 /\ c.threshold \in Nat /\ IsBaseline(c.baseline)
      BY <2>2, SeveritiesAssumption
    <3>2. c.p \in Int BY <3>1, SMTT(30)
    <3>3. QED BY <3>1, <3>2
  <2> HIDE DEF c
  <2>5. QED BY <2>3, OneSeverity DEF BaselineOnlyRaisesTheBar, c
<1>2. QED BY <1>1, GivenCase, PTL

----------------------------------------------------------------------------
(* Features and probability are numbers.                                    *)

\* The numbers of a sequence lie between two of them.
LEMMA SequencesBounded ==
  ASSUME NEW s \in Seq(Int)
  PROVE  \E l, h \in Int : \A i \in DOMAIN s : l <= s[i] /\ s[i] <= h
<1> DEFINE n == Len(s)
           S == {k \in 0 .. n : \E l, h \in Int : \A i \in 1 .. k : l <= s[i] /\ s[i] <= h}
<1>1. n \in Nat /\ DOMAIN s = 1 .. n /\ \A i \in 1 .. n : s[i] \in Int OBVIOUS
<1>2. 0 \in S OBVIOUS
<1>3. ASSUME NEW k \in 1 .. n, k - 1 \in S PROVE k \in S
  <2>1. k \in 0 .. n /\ s[k] \in Int /\ \A i \in 1 .. k : i = k \/ i \in 1 .. k - 1 BY <1>1
  <2>2. PICK l \in Int, h \in Int : \A i \in 1 .. k - 1 : l <= s[i] /\ s[i] <= h BY <1>3
  <2> DEFINE m == IF s[k] < l THEN s[k] ELSE l
             g == IF s[k] > h THEN s[k] ELSE h
  <2>3. m \in Int /\ g \in Int /\ m <= l /\ h <= g /\ m <= s[k] /\ s[k] <= g BY <2>1
  <2> HIDE DEF m, g
  <2>4. \A i \in 1 .. k : m <= s[i] /\ s[i] <= g
    <3>1. SUFFICES ASSUME NEW i \in 1 .. k PROVE m <= s[i] /\ s[i] <= g OBVIOUS
    <3>2. CASE i = k BY <2>3, <3>2
    <3>3. CASE i \in 1 .. k - 1 BY <1>1, <3>3, <2>2, <2>3
    <3>4. QED BY <2>1, <3>2, <3>3
  <2>5. QED BY <2>1, <2>3, <2>4
<1>4. n \in S
  <2> HIDE DEF S, n
  <2>1. \A k \in 0 .. n : k \in S BY <1>1, <1>2, <1>3, UpTo
  <2>2. QED BY <1>1, <2>1
<1>5. QED BY <1>1, <1>4

\* The least and the greatest of a sequence of numbers.
LEMMA ExtremesOf ==
  ASSUME NEW s \in Seq(Int), s # <<>>
  PROVE  Min(ToSet(s)) \in Int /\ Max(ToSet(s)) \in Int
<1> DEFINE S == ToSet(s)
<1>1. S = {s[i] : i \in DOMAIN s} BY DEF ToSet
<1>3. S \in SUBSET Int /\ S # {} BY <1>1
<1>4. PICK l \in Int, h \in Int : \A i \in DOMAIN s : l <= s[i] /\ s[i] <= h BY SequencesBounded
<1>5. \A x \in S : l <= x /\ x <= h BY <1>1, <1>4
<1> HIDE DEF S
<1>6. Max(S) \in S /\ Min(S) \in S BY <1>3, <1>5, Extremes
<1>7. QED BY <1>3, <1>6 DEF S

\* The gaps between the times of a window.
LEMMA GapsAre ==
  ASSUME NEW t \in Seq(Int)
  PROVE  Gaps(t) \in Seq(Int) /\ Gaps(t) # <<>>
<1>1. Len(t) \in Nat /\ \A i \in 1 .. Len(t) : t[i] \in Int OBVIOUS
<1>2. CASE Len(t) > 1
  <2> DEFINE g == [i \in 1 .. Len(t) - 1 |-> t[i + 1] - t[i]]
  <2>1. \A i \in 1 .. Len(t) - 1 : t[i + 1] - t[i] \in Int
    <3>1. ASSUME NEW i \in 1 .. Len(t) - 1 PROVE t[i + 1] - t[i] \in Int BY <1>1
    <3>2. QED BY <3>1
  <2>2. g \in [1 .. Len(t) - 1 -> Int] /\ Len(t) - 1 \in Nat /\ Len(t) - 1 > 0
    BY <1>1, <1>2, <2>1
  <2> HIDE DEF g
  <2>3. g \in Seq(Int) /\ g # <<>> BY <2>2
  <2>4. QED BY <1>2, <2>3 DEF Gaps, g
<1>3. CASE ~(Len(t) > 1) BY <1>3 DEF Gaps
<1>4. QED BY <1>2, <1>3

\* The levels of a window have a sum.
LEMMA LevelsSum ==
  ASSUME NEW w \in Seq(Alerts)
  PROVE  Sum([i \in DOMAIN w |-> w[i].level]) \in Int
<1> DEFINE s == [i \in DOMAIN w |-> w[i].level]
<1>1. DOMAIN w = 1 .. Len(w) /\ Len(w) \in Nat /\ \A i \in 1 .. Len(w) : w[i].level \in 0 .. 15
  BY AlertIs, SMTT(30)
<1>2. s \in [1 .. Len(w) -> Int] BY <1>1
<1> HIDE DEF s
<1>3. s \in Seq(Int) BY <1>1, <1>2
<1>4. Sum(s) \in Int BY <1>3, SumIs
<1>5. QED BY <1>4 DEF s

\* The features of a window that is not empty are eleven integers.
LEMMA FeaturesAre ==
  ASSUME NEW w \in Seq(Alerts), w # <<>>
  PROVE  \A i \in 1 .. 11 : Features(w)[i] \in Int
<1> DEFINE sorted == SortedTimes(w)  gaps == Gaps(sorted)
           f2 == IF Len(w) > 1 THEN Last(sorted) - Head(sorted) ELSE 0
           f9 == IF w = <<>> THEN 0 ELSE (60 * Sum([i \in DOMAIN w |-> w[i].level])) \div Len(w)
<1>1. Len(w) \in Nat /\ Len(w) > 0 /\ DOMAIN w = 1 .. Len(w) OBVIOUS
<1>2. sorted \in Seq(Int) /\ Len(sorted) = Len(w) BY SortedTimesIs
<1>3. f2 \in Int
  <2> HIDE DEF sorted
  <2>3. sorted[Len(w)] \in Int /\ sorted[1] \in Int BY <1>2, <1>1
  <2>4. QED BY <1>1, <1>2, <2>3 DEF Last
<1>4. gaps \in Seq(Int) /\ gaps # <<>> /\ Busiest(sorted) \in Int
  <2> HIDE DEF sorted
  <2>1. QED BY <1>2, GapsAre, BusiestIs
<1>5. Min(ToSet(gaps)) \in Int /\ Max(ToSet(gaps)) \in Int /\ Median(gaps) \in Int
  <2> HIDE DEF gaps
  <2>1. QED BY <1>4, ExtremesOf, MedianIs
<1>6. Cardinality(Rules(w)) \in Int /\ Highest(Levels(w)) \in Int
  <2>2. Cardinality(Rules(w)) \in Nat BY RulesAre
  <2>3. QED BY HighestIs, <2>2
<1>7. f9 \in Int
  <2> DEFINE x == 60 * Sum([i \in DOMAIN w |-> w[i].level])
  <2>1. x \in Int BY LevelsSum
  <2>2. f9 = x \div Len(w) OBVIOUS
  <2> HIDE DEF x, f9
  <2>3. x \div Len(w) \in Int BY <1>1, <2>1, Quotient
  <2>4. QED BY <2>2, <2>3
<1>8. \A l : AtLeast(w, l) \in Int
  <2>1. ASSUME NEW l PROVE AtLeast(w, l) \in Int
    <3> DEFINE S == {i \in DOMAIN w : w[i].level >= l}
    <3>1. S \in SUBSET (1 .. Len(w)) BY <1>1
    <3> HIDE DEF S
    <3>2. Cardinality(S) \in 0 .. Len(w) BY <1>1, <3>1, Counted
    <3>3. QED BY <1>1, <3>2 DEF AtLeast, S
  <2>2. QED BY <2>1
<1>10. Len(w) \in Int /\ AtLeast(w, 7) \in Int /\ AtLeast(w, 10) \in Int BY <1>1, <1>8
<1> DEFINE g3 == Min(ToSet(gaps))  g4 == Median(gaps)  g5 == Max(ToSet(gaps))  g6 == Busiest(sorted)
           g7 == Cardinality(Rules(w))  g8 == Highest(Levels(w))
           g10 == AtLeast(w, 7)  g11 == AtLeast(w, 10)
<1>11. /\ Features(w) = << Len(w), f2, g3, g4, g5, g6, g7, g8, f9, g10, g11 >>
       /\ Len(w) \in Int /\ f2 \in Int /\ g3 \in Int /\ g4 \in Int /\ g5 \in Int /\ g6 \in Int
       /\ g7 \in Int /\ g8 \in Int /\ f9 \in Int /\ g10 \in Int /\ g11 \in Int
  BY <1>3, <1>4, <1>5, <1>6, <1>7, <1>10 DEF Features
<1> HIDE DEF f2, f9, g3, g4, g5, g6, g7, g8, g10, g11
<1> DEFINE f == Features(w)
<1>12. /\ f[1] \in Int /\ f[2] \in Int /\ f[3] \in Int /\ f[4] \in Int /\ f[5] \in Int /\ f[6] \in Int
       /\ f[7] \in Int /\ f[8] \in Int /\ f[9] \in Int /\ f[10] \in Int /\ f[11] \in Int
  BY <1>11
<1> HIDE DEF f
<1>13. \A i \in 1 .. 11 : f[i] \in Int
  <2>1. ASSUME NEW i \in 1 .. 11 PROVE f[i] \in Int
    <3>1. \/ i = 1 \/ i = 2 \/ i = 3 \/ i = 4 \/ i = 5 \/ i = 6
          \/ i = 7 \/ i = 8 \/ i = 9 \/ i = 10 \/ i = 11
      BY SMT
    <3>2. QED BY <1>12, <3>1
  <2>2. QED BY <2>1
<1>14. QED BY <1>13 DEF f

\* The logistic of a number is one.
LEMMA LogisticIs ==
  ASSUME NEW z \in Int
  PROVE  Logistic(z) \in Int
<1> DEFINE At(x) == IF x > 7 THEN 8 ELSE x + 1
<1>2. \A x \in Nat : At(x) \in 1 .. 8 OBVIOUS
<1>3. \A x \in Nat : LogisticTable[At(x)] \in Int
  <2> HIDE DEF At
  <2>1. QED BY <1>2 DEF LogisticTable
<1>5. Logistic(z) = IF z >= 0 THEN LogisticTable[At(z)] ELSE 1000 - LogisticTable[At(-z)]
  BY DEF Logistic
<1> HIDE DEF At
<1>6. QED BY <1>3, <1>5

\* The model's score of features that are numbers is a number.
LEMMA ScoreIs ==
  ASSUME NEW model, IsModel(model), model # NoModel, NEW feats,
         \A i \in 1 .. 11 : feats[i] \in Int
  PROVE  Score(model, feats) \in Int
<1>1. /\ model.bias \in Int /\ model.weights \in [1 .. 11 -> Int]
      /\ model.mean \in [1 .. 11 -> Int] /\ model.sd \in [1 .. 11 -> Nat]
  BY DEF IsModel
<1> DEFINE Term(i) == (model.weights[i] * (feats[i] - model.mean[i]))
                        \div (IF model.sd[i] = 0 THEN 1 ELSE model.sd[i])
           s == [i \in DOMAIN model.weights |-> Term(i)]
<1>2. \A i \in 1 .. 11 : Term(i) \in Int
  <2>1. SUFFICES ASSUME NEW i \in 1 .. 11 PROVE Term(i) \in Int OBVIOUS
  <2> DEFINE a == model.weights[i]  c == feats[i] - model.mean[i]  x == a * c
             d == IF model.sd[i] = 0 THEN 1 ELSE model.sd[i]
  <2>2. a \in Int /\ c \in Int /\ d \in Nat /\ d > 0 BY <1>1
  <2>3. Term(i) = x \div d OBVIOUS
  <2> HIDE DEF Term, d, a, c
  <2>4. x \in Int BY <2>2, SMT
  <2> HIDE DEF x
  <2>5. x \div d \in Int BY <2>2, <2>4, Quotient
  <2>6. QED BY <2>3, <2>5
<1>3. s \in Seq(Int)
  <2> HIDE DEF Term
  <2> DEFINE n == 11
  <2>2. s \in [1 .. n -> Int] /\ n \in Nat BY <1>1, <1>2
  <2> HIDE DEF s, n
  <2>3. QED BY <2>2
<1>4. Score(model, feats) = Logistic(model.bias + Sum(s)) BY DEF Score
<1> HIDE DEF s
<1>5. model.bias + Sum(s) \in Int
  <2>1. Sum(s) \in Int BY <1>3, SumIs
  <2>2. QED BY <1>1, <2>1
<1>6. Logistic(model.bias + Sum(s)) \in Int BY <1>5, LogisticIs
<1>7. QED BY <1>4, <1>6

----------------------------------------------------------------------------
(* The worst endpoint.                                                      *)

\* Of scored endpoints there is a worst, and the worst of one is that one.
LEMMA WorstIs ==
  ASSUME NEW S, S # {}, NEW h \in Nat,
         \A s \in S : s.rated.score \in Nat /\ s.rated.score <= h /\ s.agent \in Nat
  PROVE  Worst(S) \in S /\ \A s \in S : s.rated.score <= Worst(S).rated.score
<1> DEFINE Sc == {s.rated.score : s \in S}
<1>1. Sc \in SUBSET Int /\ Sc # {} /\ \A x \in Sc : 0 <= x /\ x <= h
  <2>2. \A x \in Sc : x \in Nat /\ x <= h OBVIOUS
  <2>3. Sc # {} OBVIOUS
  <2> HIDE DEF Sc
  <2>4. QED BY <2>2, <2>3
<1>2. Max(Sc) \in Sc /\ \A x \in Sc : x <= Max(Sc)
  <2> HIDE DEF Sc
  <2>1. 0 \in Int /\ h \in Int OBVIOUS
  <2>2. QED BY <1>1, <2>1, Extremes
<1> DEFINE m == Max(Sc)  T == {s \in S : s.rated.score = m}  A == {s.agent : s \in T}
<1>3. PICK s0 \in S : s0.rated.score = m BY <1>2
<1>4. A \in SUBSET Nat /\ A # {}
  <2> HIDE DEF m
  <2>2. QED BY <1>3
<1>5. PICK a \in A : \A b \in A : a <= b
  <2> HIDE DEF A
  <2>1. QED BY <1>4, MinExists
<1>6. PICK s1 \in T : s1.agent = a BY <1>5
<1>7. \A t \in S : t.rated.score \in Int /\ t.rated.score <= m /\ (t.rated.score = m => t.agent \in A)
  <2> HIDE DEF m
  <2>1. ASSUME NEW t \in S PROVE t.rated.score \in Sc /\ (t.rated.score = m => t.agent \in A)
    OBVIOUS
  <2> HIDE DEF Sc, A
  <2>3. QED BY <2>1, <1>1, <1>2 DEF m
<1> DEFINE Over(s) == \A t \in S : \/ t.rated.score < s.rated.score
                                   \/ t.rated.score = s.rated.score /\ s.agent <= t.agent
<1>8. s1 \in S /\ Over(s1)
  <2>1. s1 \in S /\ s1.rated.score = m /\ m \in Int /\ s1.agent = a BY <1>1, <1>2, <1>6
  <2> HIDE DEF m, A, Sc
  <2>2. ASSUME NEW t \in S
        PROVE  t.rated.score < m \/ (t.rated.score = m /\ a <= t.agent)
    BY <1>7, <1>5, <2>1
  <2>3. QED BY <2>1, <2>2
<1>9. Worst(S) = CHOOSE s \in S : Over(s) BY DEF Worst
<1> DEFINE w == Worst(S)
<1>10. w \in S /\ Over(w)
  <2> HIDE DEF Over
  <2>1. QED BY <1>8, <1>9
<1> HIDE DEF w
<1>11. \A t \in S : t.rated.score <= w.rated.score
  <2>1. SUFFICES ASSUME NEW t \in S PROVE t.rated.score <= w.rated.score OBVIOUS
  <2>3. t.rated.score < w.rated.score \/ t.rated.score = w.rated.score BY <1>10
  <2>4. QED BY <1>10, <2>3
<1>12. QED BY <1>10, <1>11 DEF w

\* An endpoint's share of a window, and what it looks like alone.
LEMMA ShareIs ==
  ASSUME NEW w, IsWindow(w), NEW j \in DOMAIN w
  PROVE  LET own == OfAgent(w, w[j].agent)
         IN  /\ IsWindow(own) /\ own # <<>> /\ AgentOf(own) = w[j].agent
             /\ ByAgent(own) = {own}
<1> DEFINE a == w[j].agent  own == OfAgent(w, a)
<1>1. w \in Seq(Alerts) /\ \A i \in DOMAIN w : IsFiniteSet(w[i].tactics) BY DEF IsWindow
<1>2. /\ own \in Seq(Alerts)
      /\ \A i \in DOMAIN own : \E k \in DOMAIN w : own[i] = w[k] /\ w[k].agent = a
      /\ (\E k \in DOMAIN w : w[k].agent = a) => own # <<>>
  <2> HIDE DEF a
  <2>1. QED BY <1>1, OfAgentIs
<1>3. own # <<>> BY <1>2
<1> HIDE DEF own
<1>4. \A i \in DOMAIN own : own[i].agent = a /\ IsFiniteSet(own[i].tactics) BY <1>1, <1>2
<1>6. DOMAIN own = 1 .. Len(own) /\ 1 \in DOMAIN own BY <1>2, <1>3
<1>7. AgentOf(own) = a BY <1>3, <1>4, <1>6 DEF AgentOf
<1>8. OfAgent(own, a) = own BY <1>2, <1>4, OfAgentIs
<1>9. ByAgent(own) = {own} BY <1>3, <1>4, <1>8, <1>6 DEF ByAgent
<1>10. QED BY <1>3, <1>2, <1>4, <1>7, <1>9 DEF own, IsWindow

\* What is shown of one endpoint's alerts.
Looks(c, a) ==
  LET own == OfAgent(c.window, a)
      p   == IF c.model = NoModel THEN c.p ELSE Score(c.model, Features(own))
  IN  [agent |-> a, rated |-> Severity(own, p, c.threshold, c.baselines[a], c.hour)]

\* A case of the alerts of several endpoints.
IsMixed(c) ==
  /\ IsWindow(c.window) /\ c.window # <<>> /\ c.p \in Int /\ c.threshold \in Nat
  /\ \A i \in DOMAIN c.window : IsBaseline(c.baselines[c.window[i].agent])
  /\ IsModel(c.model)

\* An endpoint's score is between 0 and 1000; it shows a chain only if its own alerts have
\* both halves; and its share of the alerts, shown alone, is what it looks like.
LEMMA LooksIs ==
  ASSUME NEW c, IsMixed(c), NEW j \in DOMAIN c.window
  PROVE  LET a == c.window[j].agent  own == OfAgent(c.window, a)
         IN  /\ Looks(c, a).rated.score \in Nat /\ Looks(c, a).rated.score <= 1000 /\ Looks(c, a).agent \in Nat
             /\ Looks(c, a).rated.chained = (Persistent(own) /\ Credential(own))
             /\ SeverityByAgent(own, c.p, c.threshold, c.baselines, c.hour, c.model) = Looks(c, a)
<1> DEFINE w == c.window  a == w[j].agent  own == OfAgent(w, a)
           p == IF c.model = NoModel THEN c.p ELSE Score(c.model, Features(own))
           s == Severity(own, p, c.threshold, c.baselines[a], c.hour)
           l == Looks(c, a)
<1>1. IsWindow(w) /\ c.threshold \in Nat /\ IsBaseline(c.baselines[a]) /\ c.p \in Int
      /\ IsModel(c.model)
  BY DEF IsMixed
<1>2. IsWindow(own) /\ own # <<>> /\ AgentOf(own) = a /\ ByAgent(own) = {own}
  <2> HIDE DEF w
  <2>2. QED BY <1>1, ShareIs DEF w
<1>3. a \in Nat
  <2>1. w \in Seq(Alerts) BY <1>1 DEF IsWindow
  <2>2. j \in 1 .. Len(w) BY <2>1
  <2> HIDE DEF w
  <2>3. QED BY <2>1, <2>2, AlertIs DEF a
<1>4. l.agent = a /\ l.rated = s /\ l = [agent |-> a, rated |-> s] BY DEF Looks
<1>5. p \in Int
  <2> HIDE DEF own
  <2>1. CASE c.model = NoModel BY <1>1, <2>1
  <2>2. CASE c.model # NoModel
    <3> DEFINE f == Features(own)
    <3>2. \A i \in 1 .. 11 : f[i] \in Int BY <1>2, FeaturesAre DEF IsWindow
    <3> HIDE DEF f
    <3>4. QED BY <2>2, <1>1, <3>2, ScoreIs DEF f
  <2>3. QED BY <2>1, <2>2
<1>6. s.score \in Nat /\ s.score <= 1000 /\ s.chained = Chained(own)
  <2> DEFINE t == c.threshold  b == c.baselines[a]
  <2>1. t \in Nat /\ IsBaseline(b) BY <1>1
  <2> HIDE DEF p, own, t, b
  <2> DEFINE q == Severity(own, p, t, b, c.hour)
  <2>2. q.score \in Nat /\ q.score <= 1000 /\ q.chained = Chained(own)
    BY <1>2, <1>5, <2>1, SeverityIs
  <2>3. QED BY <2>2 DEF t, b, own, p
<1>7. SeverityByAgent(own, c.p, c.threshold, c.baselines, c.hour, c.model) = Worst({l})
  <2> DEFINE Own(share) == IF c.model = NoModel \/ share = <<>> THEN c.p
                           ELSE Score(c.model, Features(share))
             Rates(share) == [agent |-> AgentOf(share),
                              rated |-> Severity(share, Own(share), c.threshold,
                                                 c.baselines[AgentOf(share)], c.hour)]
  <2>1. SeverityByAgent(own, c.p, c.threshold, c.baselines, c.hour, c.model)
          = Worst({Rates(share) : share \in ByAgent(own)})
    BY DEF SeverityByAgent
  <2>2. Rates(own) = l BY <1>2, <1>4
  <2> HIDE DEF Rates, own, l
  <2>3. QED BY <1>2, <2>1, <2>2
<1>8. Worst({l}) = l
  <2> DEFINE S == {l}
  <2>0. l.rated.score \in Nat /\ l.rated.score <= 1000 /\ l.agent \in Nat
    <3> HIDE DEF s, l, a
    <3>1. QED BY <1>3, <1>4, <1>6
  <2> HIDE DEF l
  <2>1. S # {} /\ 1000 \in Nat
        /\ \A x \in S : x.rated.score \in Nat /\ x.rated.score <= 1000 /\ x.agent \in Nat
    BY <2>0
  <2> HIDE DEF S
  <2>2. Worst(S) \in S BY <2>1, WorstIs
  <2>3. QED BY <2>2 DEF S
<1>10. l.rated.score \in Nat /\ l.rated.score <= 1000 /\ l.agent \in Nat
       /\ l.rated.chained = (Persistent(own) /\ Credential(own))
  <2> HIDE DEF s, l, a, own
  <2>1. QED BY <1>3, <1>4, <1>6 DEF Chained
<1>11. QED BY <1>7, <1>8, <1>10

\* What is shown of the whole window is the worst of what its endpoints look like.
LEMMA ShownIsWorst ==
  ASSUME NEW c, IsMixed(c)
  PROVE  SeverityByAgent(c.window, c.p, c.threshold, c.baselines, c.hour, c.model)
           = Worst({Looks(c, c.window[j].agent) : j \in DOMAIN c.window})
<1> DEFINE w == c.window
           Own(share) == IF c.model = NoModel \/ share = <<>> THEN c.p
                         ELSE Score(c.model, Features(share))
           Rates(share) == [agent |-> AgentOf(share),
                            rated |-> Severity(share, Own(share), c.threshold,
                                               c.baselines[AgentOf(share)], c.hour)]
<1>1. SeverityByAgent(w, c.p, c.threshold, c.baselines, c.hour, c.model)
        = Worst({Rates(share) : share \in ByAgent(w)})
  BY DEF SeverityByAgent
<1>3. \A j \in DOMAIN w : Rates(OfAgent(w, w[j].agent)) = Looks(c, w[j].agent)
  <2>1. SUFFICES ASSUME NEW j \in DOMAIN w
                 PROVE Rates(OfAgent(w, w[j].agent)) = Looks(c, w[j].agent)
    OBVIOUS
  <2> DEFINE own == OfAgent(w, w[j].agent)
  <2>2. own # <<>> /\ AgentOf(own) = w[j].agent
    <3>1. IsWindow(w) BY DEF IsMixed
    <3> HIDE DEF w
    <3>2. QED BY <2>1, <3>1, ShareIs
  <2>3. QED BY <2>2 DEF Looks
<1> HIDE DEF Rates
<1>4. {Rates(share) : share \in ByAgent(w)} = {Looks(c, w[j].agent) : j \in DOMAIN w}
  BY <1>3 DEF ByAgent, IsMixed
<1>5. QED BY <1>1, <1>4

\* However many endpoints' alerts are mixed, and with a model or without: what is shown of
\* them is what one of them looks like alone, none of them looks worse alone, and a chain that
\* is shown is complete on one endpoint (score.py 480-521).
THEOREM WorstEndpoint == Spec => []WorstEndpointShown
<1>1. GivenIs => WorstEndpointShown
  <2>1. SUFFICES ASSUME GivenIs, given[1] = "mixed" PROVE WorstEndpointShown
    BY DEF WorstEndpointShown
  <2> DEFINE c == given[2]
             Shown(w) == SeverityByAgent(w, c.p, c.threshold, c.baselines, c.hour, c.model)
             Own(a) == OfAgent(c.window, a)
             agents == {x.agent : x \in Range(c.window)}
             S == {Looks(c, c.window[j].agent) : j \in DOMAIN c.window}
  <2>2. c \in Mixed BY <2>1 DEF GivenIs
  <2>3. IsMixed(c)
    <3> HIDE DEF c
    <3>1. /\ IsWindow(c.window) /\ c.window # <<>> /\ c.p \in 0 .. 1000 /\ c.threshold \in Nat
          /\ \A i \in DOMAIN c.window : IsBaseline(c.baselines[c.window[i].agent])
          /\ IsModel(c.model)
      BY <2>2, MixedAssumption
    <3> DEFINE p == c.p
    <3>2. p \in Int
      <4>1. p \in 0 .. 1000 BY <3>1
      <4> HIDE DEF p
      <4>2. QED BY ONLY <4>1
    <3>3. IsWindow(c.window) /\ c.window # <<>> /\ c.threshold \in Nat BY <3>1
    <3>4. (\A i \in DOMAIN c.window : IsBaseline(c.baselines[c.window[i].agent])) /\ IsModel(c.model)
      BY <3>1
    <3>5. QED BY ONLY <3>2, <3>3, <3>4 DEF IsMixed
  <2>4. agents = {c.window[j].agent : j \in DOMAIN c.window} BY DEF Range
  <2> HIDE DEF c
  <2>5. Shown(c.window) = Worst(S) BY <2>3, ShownIsWorst
  <2>6. ASSUME NEW a \in agents
        PROVE  /\ Shown(Own(a)) = Looks(c, a) /\ Looks(c, a) \in S
               /\ Looks(c, a).rated.score \in Nat /\ Looks(c, a).rated.score <= 1000 /\ Looks(c, a).agent \in Nat
               /\ Looks(c, a).rated.chained => Persistent(Own(a)) /\ Credential(Own(a))
    <3>1. PICK j \in DOMAIN c.window : a = c.window[j].agent BY <2>4
    <3>2. /\ Looks(c, c.window[j].agent).rated.score \in Nat
          /\ Looks(c, c.window[j].agent).rated.score <= 1000
          /\ Looks(c, c.window[j].agent).agent \in Nat
          /\ Looks(c, c.window[j].agent).rated.chained
               = (Persistent(OfAgent(c.window, c.window[j].agent))
                    /\ Credential(OfAgent(c.window, c.window[j].agent)))
          /\ SeverityByAgent(OfAgent(c.window, c.window[j].agent), c.p, c.threshold, c.baselines,
                             c.hour, c.model) = Looks(c, c.window[j].agent)
      BY <2>3, LooksIs
    <3>3. QED BY <3>1, <3>2
  <2>7. S # {} /\ \A s \in S : \E a \in agents : s = Looks(c, a)
    <3>2. 1 \in DOMAIN c.window BY <2>3 DEF IsMixed, IsWindow
    <3>3. QED BY <2>4, <3>2
  <2> HIDE DEF S, Shown, Own, agents
  <2>9. Worst(S) \in S /\ \A s \in S : s.rated.score <= Worst(S).rated.score
    BY <2>7, <2>6, WorstIs
  <2>10. PICK a \in agents : Worst(S) = Looks(c, a) BY <2>7, <2>9
  <2>11. /\ \A b \in agents : Shown(Own(b)).rated.score <= Shown(c.window).rated.score
         /\ \E b \in agents : Shown(Own(b)) = Shown(c.window)
         /\ Shown(c.window).rated.chained =>
              \E b \in agents : Persistent(Own(b)) /\ Credential(Own(b))
    BY <2>5, <2>6, <2>9, <2>10
  <2>12. QED BY <2>11 DEF WorstEndpointShown, Shown, Own, agents, c
<1>2. QED BY <1>1, GivenCase, PTL

----------------------------------------------------------------------------
(* Members of a set in line.                                                *)

\* No member of the set is ahead of itself, of two one is ahead of the other, and what is
\* ahead of one that is ahead is ahead as well.
IsLine(I, ahead) ==
  /\ IsFiniteSet(I) /\ ahead \in [I -> SUBSET I]
  /\ \A i \in I : i \notin ahead[i]
  /\ \A i, j \in I : i # j => i \in ahead[j] \/ j \in ahead[i]
  /\ \A i \in I : \A j \in ahead[i] : ahead[j] \subseteq ahead[i]

\* Each member stands in the line once, behind those that are ahead of it.
Lined(line, I, ahead) ==
  /\ line \in [1 .. Cardinality(I) -> I]
  /\ \A i \in I : \E k \in 1 .. Cardinality(I) : line[k] = i
  /\ \A k, l \in 1 .. Cardinality(I) : k < l => line[k] \in ahead[line[l]]

\* As many are ahead of a member as have a place before its own, since one that is ahead
\* of another has fewer ahead of it.
LEMMA LineIs ==
  ASSUME NEW I, NEW ahead, IsLine(I, ahead)
  PROVE  Cardinality(I) \in Nat /\ Lined(InLine(I, ahead), I, ahead)
<1> DEFINE n    == Cardinality(I)
           C(i) == Cardinality(ahead[i])
<1>1. IsFiniteSet(I) /\ n \in Nat BY FS_CardinalityType DEF IsLine
<1>2. ASSUME NEW i \in I PROVE IsFiniteSet(ahead[i]) /\ C(i) \in Nat /\ C(i) < n
  BY <1>1, FS_Subset, FS_CardinalityType DEF IsLine
<1>3. ASSUME NEW i \in I, NEW j \in ahead[i] PROVE C(j) < C(i) BY <1>2, FS_Subset DEF IsLine
<1>4. \A i, j \in I : C(i) = C(j) => i = j
  <2> SUFFICES ASSUME NEW i \in I, NEW j \in I, C(i) = C(j), i # j PROVE FALSE OBVIOUS
  <2>1. C(i) \in Nat /\ C(j) \in Nat BY <1>2
  <2>2. CASE i \in ahead[j] BY <1>3, <2>1, <2>2
  <2>3. CASE j \in ahead[i] BY <1>3, <2>1, <2>3
  <2>4. QED BY <2>2, <2>3 DEF IsLine
<1>5. \A k \in 1 .. n : \E i \in I : C(i) = k - 1
  <2> DEFINE f == [i \in I |-> C(i) + 1]
  <2>2. \A i, j \in I : f[i] = f[j] => i = j BY <1>2, <1>4
  <2>3. f \in Injection(I, 1 .. n) BY <1>1, <1>2, <2>2 DEF Injection, IsInjective
  <2>5. f \in Surjection(I, 1 .. n) BY <2>3, <1>1, FS_Interval, FS_Injection
  <2>6. \A k \in 1 .. n : \E i \in I : f[i] = k BY <2>5 DEF Surjection
  <2>7. QED BY <1>2, <2>6
<1> DEFINE line == InLine(I, ahead)
<1>6. ASSUME NEW k \in 1 .. n PROVE line[k] \in I /\ C(line[k]) = k - 1 BY <1>5 DEF InLine
<1>8. ASSUME NEW i \in I PROVE \E k \in 1 .. n : line[k] = i
  <2>1. C(i) + 1 \in 1 .. n /\ C(line[C(i) + 1]) = C(i) /\ line[C(i) + 1] \in I
    BY <1>1, <1>2, <1>6
  <2>3. QED BY <2>1, <1>4
<1>9. ASSUME NEW k \in 1 .. n, NEW l \in 1 .. n, k < l PROVE line[k] \in ahead[line[l]]
  <2>1. /\ line[k] \in I /\ C(line[k]) = k - 1
        /\ line[l] \in I /\ C(line[l]) = l - 1
    BY <1>6
  <2>3. line[l] \notin ahead[line[k]]
    <3>1. SUFFICES ASSUME line[l] \in ahead[line[k]] PROVE FALSE OBVIOUS
    <3>3. QED BY <1>1, <1>9, <2>1, <1>3, <3>1
  <2>4. QED BY <2>1, <1>1, <1>9, <2>3 DEF IsLine
<1>10. QED BY <1>1, <1>6, <1>8, <1>9 DEF Lined, InLine

----------------------------------------------------------------------------
(* The walk over a network.                                                 *)

\* The windows of one network, each later than the one before it.
IsNetwork(eps) ==
  /\ eps \in Seq([startedAt : Nat \ {0}, alerts : Seq(Alerts)])
  /\ \A i, j \in DOMAIN eps : i < j => eps[i].startedAt < eps[j].startedAt

\* What fired of a rule in each of the first n windows.
Fired(eps, n, r) == [j \in 1 .. n |-> Occurrences(eps[j].alerts, r)]

\* The stamps of different rules differ in when and where a rule was first seen.
Stamped(stamps, last) ==
  /\ \A r \in DOMAIN stamps : stamps[r] \in Int \X Int \X Int /\ stamps[r][2] <= last
  /\ \A r, q \in DOMAIN stamps :
       r # q => stamps[r][2] # stamps[q][2] \/ stamps[r][3] # stamps[q][3]

\* A baseline has counted each of the first n windows once, and keeps the latest readings
\* and as many rules as it may.
Holds(b, eps, probs, n) ==
  /\ b.windows = n /\ b.last = IF n = 0 THEN 0 ELSE eps[n].startedAt
  /\ b.samples = [k \in DOMAIN Blank.samples |-> Newest(Readings(eps, probs, k), n)]
  /\ DOMAIN b.stamps = DOMAIN b.rules /\ Stamped(b.stamps, b.last)
  /\ DOMAIN b.rules \subseteq RulesUpTo(eps, n)
  /\ Cardinality(DOMAIN b.rules) = Min({Cardinality(RulesUpTo(eps, n)), RuleLimit})
  /\ \A r \in DOMAIN b.rules : b.rules[r] \in [0 .. 23 -> Int]
  /\ \A r : TimesSeen(b, r) \in Nat /\ TimesSeen(b, r) <= Sum(Fired(eps, n, r))
  /\ Cardinality(RulesUpTo(eps, n)) <= RuleLimit =>
       \A r : TimesSeen(b, r) = Sum(Fired(eps, n, r))

\* The fields of an episode.
LEMMA EpisodeIs ==
  ASSUME NEW eps, IsNetwork(eps), NEW i \in 1 .. Len(eps)
  PROVE  eps[i].startedAt \in Nat \ {0} /\ eps[i].alerts \in Seq(Alerts)
<1> DEFINE A == Seq(Alerts)  E == [startedAt : Nat \ {0}, alerts : A]
<1>1. eps \in Seq(E) BY DEF IsNetwork
<1> HIDE DEF A
<1>2. \A e \in E : e.startedAt \in Nat \ {0} /\ e.alerts \in A OBVIOUS
<1> HIDE DEF E
<1>3. eps[i] \in E BY <1>1
<1>4. QED BY <1>2, <1>3 DEF A

\* How often a rule fired in a window.
LEMMA OccurrencesAre ==
  ASSUME NEW w \in Seq(Alerts), NEW r
  PROVE  Occurrences(w, r) \in Nat /\ (r \notin Rules(w) => Occurrences(w, r) = 0)
<1> DEFINE S == {i \in DOMAIN w : w[i].rule = r}
<1>1. DOMAIN w = 1 .. Len(w) /\ Len(w) \in Nat OBVIOUS
<1>2. S \in SUBSET (1 .. Len(w)) /\ (r \notin Rules(w) => S = {}) BY <1>1 DEF Rules
<1>3. Occurrences(w, r) = Cardinality(S) BY DEF Occurrences
<1> HIDE DEF S
<1>6. Occurrences(w, r) \in Nat BY <1>1, <1>3, <1>2, Counted
<1>7. ASSUME r \notin Rules(w) PROVE Occurrences(w, r) = 0 BY <1>2, <1>7, <1>3, FS_EmptySet
<1>8. QED BY <1>6, <1>7

\* What fired of a rule, window by window, can be added up.
LEMMA FiredIs ==
  ASSUME NEW eps, IsNetwork(eps), NEW n \in 0 .. Len(eps), NEW r
  PROVE  Fired(eps, n, r) \in Seq(Int) /\ Len(Fired(eps, n, r)) = n
<1>1. Len(eps) \in Nat BY DEF IsNetwork
<1>3. QED BY <1>1, EpisodeIs, OccurrencesAre DEF Fired

\* One more window adds what fired in it.
LEMMA FiredOnce ==
  ASSUME NEW eps, IsNetwork(eps), NEW n \in 1 .. Len(eps), NEW r
  PROVE  Sum(Fired(eps, n, r)) = Sum(Fired(eps, n - 1, r)) + Occurrences(eps[n].alerts, r)
<1> DEFINE s == Fired(eps, n - 1, r)  t == Fired(eps, n, r)
<1>1. n - 1 \in 0 .. Len(eps) /\ n \in 0 .. Len(eps) BY DEF IsNetwork
<1>2. s \in Seq(Int) /\ t \in Seq(Int) /\ Len(s) = n - 1 /\ Len(t) = n BY <1>1, FiredIs
<1>3. \A k \in 1 .. n - 1 : t[k] = s[k] BY <1>1 DEF Fired
<1> HIDE DEF s, t
<1>5. Sum(t) = Sum(s) + t[Len(t)] BY <1>1, <1>2, <1>3, SumOfMore, SMTT(30)
<1>6. QED BY <1>2, <1>1, <1>5 DEF s, t, Fired

\* Finitely many rules fire.
LEMMA RulesAreFinite ==
  ASSUME NEW eps, IsNetwork(eps), NEW n \in 0 .. Len(eps)
  PROVE  IsFiniteSet(RulesUpTo(eps, n))
<1> DEFINE R == {Rules(eps[j].alerts) : j \in 1 .. n}
<1>1. n \in Nat /\ \A j \in 1 .. n : j \in 1 .. Len(eps) BY DEF IsNetwork
<1>2. ASSUME NEW j \in 1 .. n PROVE IsFiniteSet(Rules(eps[j].alerts))
  <2> DEFINE w == eps[j].alerts
  <2>1. w \in Seq(Alerts) BY <1>1, EpisodeIs
  <2> HIDE DEF w
  <2>2. Len(w) \in Nat /\ DOMAIN w = 1 .. Len(w) BY <2>1
  <2> DEFINE f == [i \in 1 .. Len(w) |-> w[i].rule]
  <2>3. f \in Surjection(1 .. Len(w), Rules(w)) BY <2>2 DEF Surjection, Rules
  <2> HIDE DEF f
  <2>4. IsFiniteSet(1 .. Len(w)) BY <2>2, FS_Interval
  <2>5. QED BY <2>3, <2>4, FS_Surjection DEF w
<1>3. IsFiniteSet(R)
  <2> DEFINE f == [j \in 1 .. n |-> Rules(eps[j].alerts)]
  <2>1. f \in Surjection(1 .. n, R) BY DEF Surjection
  <2> HIDE DEF f, R
  <2>2. QED BY <1>1, <2>1, FS_Interval, FS_Surjection
<1> HIDE DEF R
<1>4. IsFiniteSet(UNION R) BY <1>2, <1>3, FS_UNION DEF R
<1>5. QED BY <1>4 DEF R, RulesUpTo

\* One more reading at the end of the latest ones, which drop the oldest beyond the limit.
LEMMA OneMoreReading ==
  ASSUME NEW N \in Nat, NEW f, DOMAIN f = 1 .. N, NEW n \in 1 .. N
  PROVE  Newest(f, n) = Trimmed(Append(Newest(f, n - 1), f[n]))
<1> DEFINE V == {f[i] : i \in 1 .. N}  L == SampleLimit
           k == IF n - 1 <= L THEN n - 1 ELSE L  m == IF n <= L THEN n ELSE L
           s == Newest(f, n - 1)  t == Append(s, f[n])
<1>1. L \in Nat \ {0} BY LimitsAssumption
<1>2. k \in Nat /\ k <= n - 1 /\ m \in Nat /\ m <= n BY <1>1
<1>3. s = [j \in 1 .. k |-> f[n - 1 - k + j]]
  <2>1. n - 1 \in Int /\ Min({n - 1, L}) = k BY <1>1, OfTwo
  <2>2. QED BY <2>1 DEF Newest
<1>4. Newest(f, n) = [j \in 1 .. m |-> f[n - m + j]]
  <2>1. Min({n, L}) = m BY <1>1, OfTwo
  <2>2. QED BY <2>1 DEF Newest
<1>5. f[n] \in V /\ s \in Seq(V) /\ Len(s) = k
  <2>1. \A j \in 1 .. k : n - 1 - k + j \in 1 .. N
    <3> HIDE DEF k
    <3>1. QED BY <1>2
  <2>2. \A j \in 1 .. k : f[n - 1 - k + j] \in V BY <2>1
  <2> HIDE DEF V, s, k
  <2>3. s \in Seq(V) /\ Len(s) = k BY <1>2, <1>3, <2>2
  <2>4. QED BY <2>3 DEF V
<1> HIDE DEF V, s, k, m
<1>6. /\ t \in Seq(V) /\ Len(t) = k + 1 /\ t[k + 1] = f[n]
      /\ \A j \in 1 .. k : t[j] = f[n - 1 - k + j]
  BY <1>2, <1>3, <1>5
<1> HIDE DEF t
<1>7. CASE n <= L
  <2>1. k = n - 1 /\ m = n /\ ~(Len(t) > L) BY <1>1, <1>6, <1>7 DEF k, m
  <2>2. t = [j \in 1 .. n |-> f[j]]
    <3>1. \A j \in 1 .. n : t[j] = f[j] BY <1>6, <2>1
    <3>2. QED BY <1>2, <1>6, <2>1, <3>1
  <2>3. \A j \in 1 .. n : n - m + j = j BY <1>2, <2>1
  <2>4. Newest(f, n) = t BY <1>4, <2>1, <2>2, <2>3
  <2>5. QED BY <2>1, <2>4 DEF Trimmed, t, s
<1>8. CASE ~(n <= L)
  <2>1. k = L /\ m = L /\ Len(t) > L /\ t # <<>> BY <1>1, <1>6, <1>8 DEF k, m
  <2>2. Tail(t) = [j \in 1 .. L |-> f[n - L + j]]
    <3>0. Tail(t) \in Seq(V) /\ Len(Tail(t)) = L /\ \A j \in 1 .. L : Tail(t)[j] = t[j + 1]
      BY <1>1, <1>6, <2>1, HeadTailProperties
    <3>1. Tail(t) = [j \in 1 .. L |-> t[j + 1]]
      <4> DEFINE u == Tail(t)
      <4> HIDE DEF u, L
      <4>0. u \in Seq(V) /\ Len(u) = L BY <3>0 DEF u
      <4>1. u = [j \in 1 .. L |-> u[j]] BY <4>0
      <4>2. QED BY <3>0, <4>1 DEF u
    <3>2. \A j \in 1 .. L : t[j + 1] = f[n - L + j] BY <1>1, <1>6, <2>1
    <3>3. QED BY <3>1, <3>2
  <2>3. QED BY <1>4, <2>1, <2>2 DEF Trimmed, t, s
<1>9. QED BY <1>7, <1>8

\* As many rules are forgotten as are too many.
LEMMA ForgottenAre ==
  ASSUME NEW stamps, IsFiniteSet(DOMAIN stamps), NEW last, Stamped(stamps, last)
  PROVE  LET all == DOMAIN stamps
         IN  Cardinality(all \ Forgotten(stamps)) = Min({Cardinality(all), RuleLimit})
<1> DEFINE I == DOMAIN stamps  n == Cardinality(I)  m == n - RuleLimit
           ahead == [r \in I |-> {q \in I : Older(stamps[q], stamps[r])}]
           line == InLine(I, ahead)  F == Forgotten(stamps)
<1>1. \A s, t : Older(s, t) <=> \/ s[1] < t[1]
                                \/ s[1] = t[1] /\ s[2] < t[2]
                                \/ s[1] = t[1] /\ s[2] = t[2] /\ s[3] < t[3]
  <2>1. 1 .. 3 = {1, 2, 3} /\ 1 .. 1 - 1 = {} /\ 1 .. 2 - 1 = {1} /\ 1 .. 3 - 1 = {1, 2} OBVIOUS
  <2>2. QED BY <2>1 DEF Older
<1>2. IsLine(I, ahead)
  <2>1. \A r \in I : stamps[r][1] \in Int /\ stamps[r][2] \in Int /\ stamps[r][3] \in Int
    BY DEF Stamped
  <2>2. /\ ahead \in [I -> SUBSET I]
        /\ \A q, r \in I : q \in ahead[r] <=> Older(stamps[q], stamps[r])
    OBVIOUS
  <2> HIDE DEF ahead, I
  <2>3. \A r \in I : r \notin ahead[r] BY <1>1, <2>1, <2>2
  <2>4. \A q, r \in I : q # r => q \in ahead[r] \/ r \in ahead[q]
    BY <1>1, <2>1, <2>2 DEF Stamped, I
  <2>5. ASSUME NEW r \in I, NEW q \in ahead[r], NEW p \in ahead[q] PROVE p \in ahead[r]
    <3>1. p \in I /\ q \in I BY <2>2
    <3>2. Older(stamps[p], stamps[q]) /\ Older(stamps[q], stamps[r]) BY <2>2, <3>1
    <3>3. Older(stamps[p], stamps[r]) BY <1>1, <2>1, <3>1, <3>2
    <3>4. QED BY <2>2, <3>1, <3>3
  <2>6. QED BY <2>2, <2>3, <2>4, <2>5 DEF IsLine, I
<1>3. n \in Nat /\ Lined(line, I, ahead) BY <1>2, LineIs
<1>4. F = {line[k] : k \in 1 .. m} BY DEF Forgotten
<1>5. RuleLimit \in Nat \ {0} /\ m \in Int /\ m <= n BY <1>3, LimitsAssumption
<1> HIDE DEF ahead, line, F, m, I
<1>6. /\ line \in [1 .. n -> I]
      /\ \A k, l \in 1 .. n : k # l => line[k] # line[l]
  <2>1. \A k, l \in 1 .. n : k < l => line[k] # line[l] BY <1>2, <1>3 DEF Lined, IsLine
  <2>2. QED BY <1>3, <2>1 DEF Lined
<1>7. Cardinality(I \ F) = n - Cardinality(F)
  <2>1. \A k \in 1 .. m : k \in 1 .. n BY <1>5, <1>3
  <2>2. F \subseteq I BY <1>4, <1>6, <2>1
  <2>3. I \cap F = F BY <2>2
  <2>4. QED BY <2>3, FS_Difference DEF I
<1>8. Min({n, RuleLimit}) = IF n <= RuleLimit THEN n ELSE RuleLimit BY <1>3, <1>5, OfTwo
<1>9. CASE n <= RuleLimit
  <2>1. F = {} BY <1>3, <1>4, <1>5, <1>9 DEF m
  <2>2. QED BY <1>3, <1>7, <1>8, <1>9, <2>1, FS_EmptySet DEF I, F
<1>10. CASE ~(n <= RuleLimit)
  <2> DEFINE g == [k \in 1 .. m |-> line[k]]
  <2>1. m \in Nat /\ \A k \in 1 .. m : k \in 1 .. n BY <1>3, <1>5, <1>10 DEF m
  <2>2. g \in Bijection(1 .. m, F)
    BY <1>4, <1>6, <2>1 DEF Bijection, Injection, IsInjective, Surjection
  <2>3. Cardinality(F) = m BY <2>1, <2>2, FS_Interval, FS_Bijection DEF ExistsBijection
  <2>4. QED BY <1>3, <1>5, <1>7, <1>8, <1>10, <2>3 DEF m, I, F
<1>11. QED BY <1>9, <1>10

\* An empty baseline holds no window.
LEMMA BlankHolds ==
  ASSUME NEW eps, IsNetwork(eps), NEW probs
  PROVE  Holds(Blank, eps, probs, 0)
<1>1. /\ Blank.windows = 0 /\ Blank.last = 0 /\ DOMAIN Blank.rules = {} /\ DOMAIN Blank.stamps = {}
      /\ \A k \in DOMAIN Blank.samples : Blank.samples[k] = <<>>
      /\ Blank.samples = [k \in DOMAIN Blank.samples |-> Blank.samples[k]]
  BY DEF Blank
<1>2. \A r : Sum(Fired(eps, 0, r)) = 0
  <2>1. 0 \in 0 .. Len(eps) BY DEF IsNetwork
  <2>2. QED BY <2>1, FiredIs, SumIs
<1>3. RulesUpTo(eps, 0) = {} BY DEF RulesUpTo
<1>4. Cardinality(DOMAIN Blank.rules) = Min({Cardinality(RulesUpTo(eps, 0)), RuleLimit})
  <2>1. Cardinality({}) = 0 BY FS_EmptySet
  <2>2. Min({0, RuleLimit}) = 0 BY LimitsAssumption, OfTwo
  <2>3. QED BY <1>1, <1>3, <2>1, <2>2
<1>5. \A r : TimesSeen(Blank, r) = 0 BY <1>1 DEF TimesSeen
<1>6. \A f : Newest(f, 0) = <<>> BY LimitsAssumption, OfTwo DEF Newest
<1>7. Blank.samples = [k \in DOMAIN Blank.samples |-> Newest(Readings(eps, probs, k), 0)]
  BY <1>1, <1>6
<1>8. Stamped(Blank.stamps, Blank.last) BY <1>1 DEF Stamped
<1> HIDE DEF Blank
<1>9. QED BY <1>1, <1>2, <1>3, <1>4, <1>5, <1>7, <1>8 DEF Holds

\* What a rule was seen in, hour by hour.
ByHour(f) == [h \in 1 .. 24 |-> f[h - 1]]

\* An hour that grows makes the whole day grow by as much.
LEMMA OneHourMore ==
  ASSUME NEW f \in [0 .. 23 -> Int], NEW h \in 0 .. 23, NEW d \in Int
  PROVE  /\ [f EXCEPT ![h] = @ + d] \in [0 .. 23 -> Int]
         /\ Sum(ByHour([f EXCEPT ![h] = @ + d])) = Sum(ByHour(f)) + d
<1> DEFINE g == [f EXCEPT ![h] = @ + d]  s == ByHour(f)  t == ByHour(g)
<1>1. g \in [0 .. 23 -> Int] /\ \A k \in 0 .. 23 : g[k] = IF k = h THEN f[k] + d ELSE f[k]
  OBVIOUS
<1> HIDE DEF g
<1>2. \A k \in 1 .. 24 : k - 1 \in 0 .. 23 OBVIOUS
<1>3. \A k \in 1 .. 24 : /\ s[k] = f[k - 1] /\ t[k] = g[k - 1]
                         /\ s[k] \in Int /\ t[k] \in Int
  BY <1>1, <1>2 DEF ByHour
<1>4. s \in Seq(Int) /\ t \in Seq(Int) /\ Len(s) = 24 /\ Len(t) = 24
  <2>1. s = [k \in 1 .. 24 |-> s[k]] /\ t = [k \in 1 .. 24 |-> t[k]] BY DEF ByHour
  <2> HIDE DEF s, t
  <2>2. QED BY <2>1, <1>3
<1>5. \A k \in 1 .. 24 : t[k] = IF k = h + 1 THEN s[k] + d ELSE s[k] BY <1>1, <1>2, <1>3
<1> HIDE DEF s, t
<1>6. Sum(t) = Sum(s) + d
  <2>1. h + 1 \in 1 .. Len(s) /\ Len(t) = Len(s)
        /\ \A k \in 1 .. Len(s) : t[k] = IF k = h + 1 THEN s[k] + d ELSE s[k]
    BY <1>4, <1>5
  <2>2. QED BY <1>4, <2>1, SumRaised
<1>7. QED BY <1>1, <1>6 DEF g, s, t

\* Folding the next window leaves each window held once.
LEMMA FoldHolds ==
  ASSUME NEW eps, IsNetwork(eps), NEW probs, NEW n \in 1 .. Len(eps), NEW b,
         Holds(b, eps, probs, n - 1)
  PROVE  Holds(FoldIn(b, Observation(eps[n], probs[n])), eps, probs, n)
<1> DEFINE e == eps[n]  o == Observation(e, probs[n])  c == FoldIn(b, o)
           all == DOMAIN o.rules \cup DOMAIN b.rules
           stamps == [r \in all |->
                        IF r \notin DOMAIN o.rules THEN b.stamps[r]
                        ELSE IF r \in DOMAIN b.rules THEN [b.stamps[r] EXCEPT ![1] = o.epoch]
                        ELSE <<o.epoch, o.epoch, o.place[r]>>]
           kept == all \ Forgotten(stamps)
           before == RulesUpTo(eps, n - 1)  now == RulesUpTo(eps, n)
           Of0(r) == IF r \in DOMAIN b.rules THEN b.rules[r] ELSE [h \in 0 .. 23 |-> 0]
<1>1. e.startedAt \in Nat \ {0} /\ e.alerts \in Seq(Alerts) BY EpisodeIs
<1>2. /\ o.epoch = e.startedAt /\ o.hour = HourOf(e.startedAt)
      /\ o.rules = [r \in Rules(e.alerts) |-> Occurrences(e.alerts, r)]
      /\ o.place = [r \in Rules(e.alerts) |-> Min({i \in DOMAIN e.alerts : e.alerts[i].rule = r})]
      /\ \A k \in DOMAIN Blank.samples : o[k] = Readings(eps, probs, k)[n]
  <2> USE DEF Observation
  <2>1. n \in DOMAIN eps BY DEF IsNetwork
  <2>2. QED BY <2>1 DEF Readings
<1>3. o.hour \in 0 .. 23
  <2> DEFINE s == e.startedAt  q == s \div 3600
  <2>3. s \in Nat BY <1>1
  <2>4. HourOf(s) = q % 24 BY DEF HourOf
  <2> HIDE DEF s
  <2>5. q \in Nat BY <2>3
  <2> HIDE DEF q
  <2>6. HourOf(s) \in 0 .. 23 BY <2>4, <2>5
  <2>7. QED BY <1>2, <2>6 DEF s
<1> HIDE DEF o
<1>4. n \in Int /\ n - 1 \in Int /\ b.windows = n - 1 BY DEF IsNetwork, Holds
<1>20. b.last < o.epoch /\ b.last \in Int /\ o.epoch \in Int
  <2>1. CASE n = 1 BY <2>1, <1>1, <1>2 DEF Holds
  <2>2. CASE n # 1
    <3>1. n - 1 \in 1 .. Len(eps) /\ n - 1 < n /\ DOMAIN eps = 1 .. Len(eps) /\ n - 1 # 0
      BY <2>2 DEF IsNetwork
    <3>3. eps[n - 1].startedAt < eps[n].startedAt BY <3>1 DEF IsNetwork
    <3>4. eps[n - 1].startedAt \in Nat BY <3>1, EpisodeIs
    <3>5. QED BY <1>1, <1>2, <3>1, <3>3, <3>4 DEF Holds
  <2>3. QED BY <2>1, <2>2
<1>5. ~(o.epoch <= b.last) BY <1>20
<1>6. /\ c.windows = b.windows + 1 /\ c.last = o.epoch
      /\ c.rules = [r \in kept |->
                      IF r \in DOMAIN o.rules
                      THEN [Of0(r) EXCEPT ![o.hour] = @ + o.rules[r]] ELSE b.rules[r]]
      /\ c.stamps = [r \in kept |-> stamps[r]]
      /\ c.samples = [k \in DOMAIN b.samples |-> Trimmed(Append(b.samples[k], o[k]))]
  BY <1>5 DEF FoldIn
<1> HIDE DEF c
<1>7. DOMAIN o.rules = Rules(e.alerts) BY <1>2
<1>8. now = before \cup Rules(e.alerts) /\ all \subseteq now /\ DOMAIN b.rules \subseteq before
  <2>1. 1 .. n = (1 .. n - 1) \cup {n} BY <1>4
  <2>2. QED BY <1>7, <2>1 DEF Holds, RulesUpTo
<1>16. /\ IsFiniteSet(before) /\ IsFiniteSet(now) /\ IsFiniteSet(all)
       /\ Cardinality(before) \in Nat /\ Cardinality(now) \in Nat /\ Cardinality(all) \in Nat
       /\ Cardinality(before) <= Cardinality(now) /\ Cardinality(all) <= Cardinality(now)
  <2>1. n - 1 \in 0 .. Len(eps) /\ n \in 0 .. Len(eps) BY <1>4 DEF IsNetwork
  <2>2. IsFiniteSet(before) /\ IsFiniteSet(now) BY <2>1, RulesAreFinite
  <2> HIDE DEF before, now, all
  <2>3. QED BY <2>2, <1>8, FS_Subset, FS_CardinalityType
<1>17. RuleLimit \in Nat \ {0} BY LimitsAssumption
<1>18. Cardinality(DOMAIN b.rules) = Min({Cardinality(before), RuleLimit}) BY DEF Holds
<1>19. Stamped(stamps, o.epoch)
  <2>1. /\ DOMAIN b.stamps = DOMAIN b.rules /\ b.last < o.epoch /\ o.epoch \in Int
        /\ \A r \in DOMAIN b.rules :
             b.stamps[r] \in Int \X Int \X Int /\ b.stamps[r][2] <= b.last
        /\ \A r, q \in DOMAIN b.rules :
             r # q => b.stamps[r][2] # b.stamps[q][2] \/ b.stamps[r][3] # b.stamps[q][3]
    BY <1>1, <1>2, <1>5, <1>20 DEF Holds, Stamped
  <2>2. ASSUME NEW r \in DOMAIN o.rules
        PROVE  o.place[r] \in DOMAIN e.alerts /\ o.place[r] \in Int /\ e.alerts[o.place[r]].rule = r
    <3> DEFINE w == e.alerts  S == {i \in DOMAIN w : w[i].rule = r}
    <3>1. DOMAIN w \subseteq Nat BY <1>1
    <3>2. S \in SUBSET Nat /\ S # {} BY <1>7, <3>1 DEF Rules
    <3>3. Min(S) \in S BY <3>2, MinExists
    <3>4. QED BY <1>2, <1>7, <3>1, <3>3
  <2>3. \A s \in Int \X Int \X Int : [s EXCEPT ![1] = o.epoch] = <<o.epoch, s[2], s[3]>> BY <2>1
  <2>4. ASSUME NEW r \in all
        PROVE  /\ stamps[r] \in Int \X Int \X Int
               /\ r \in DOMAIN b.rules => /\ stamps[r][2] = b.stamps[r][2]
                                          /\ stamps[r][3] = b.stamps[r][3]
               /\ r \notin DOMAIN b.rules => stamps[r][2] = o.epoch /\ stamps[r][3] = o.place[r]
    <3>1. CASE r \notin DOMAIN o.rules BY <2>1, <3>1
    <3>2. CASE r \in DOMAIN o.rules /\ r \in DOMAIN b.rules
      <4>1. stamps[r] = <<o.epoch, b.stamps[r][2], b.stamps[r][3]>> BY <2>1, <2>3, <3>2
      <4>2. b.stamps[r][2] \in Int /\ b.stamps[r][3] \in Int BY <2>1, <3>2
      <4> HIDE DEF stamps
      <4>3. QED BY <2>1, <3>2, <4>1, <4>2
    <3>3. CASE r \in DOMAIN o.rules /\ r \notin DOMAIN b.rules
      <4>1. stamps[r] = <<o.epoch, o.epoch, o.place[r]>> BY <3>3
      <4> HIDE DEF stamps
      <4>2. QED BY <2>1, <2>2, <3>3, <4>1
    <3>4. QED BY <3>1, <3>2, <3>3
  <2>5. DOMAIN stamps = all OBVIOUS
  <2> HIDE DEF stamps, all
  <2>6. \A r \in all : r \in DOMAIN b.rules \/ r \in DOMAIN o.rules BY DEF all
  <2>7. ASSUME NEW r \in all, NEW q \in all, r # q
        PROVE  stamps[r][2] # stamps[q][2] \/ stamps[r][3] # stamps[q][3]
    <3>1. CASE r \in DOMAIN b.rules /\ q \in DOMAIN b.rules BY <2>1, <2>4, <2>7, <3>1
    <3>2. CASE r \in DOMAIN b.rules /\ q \notin DOMAIN b.rules BY <1>20, <2>1, <2>4, <3>2
    <3>3. CASE r \notin DOMAIN b.rules /\ q \in DOMAIN b.rules BY <1>20, <2>1, <2>4, <3>3
    <3>4. CASE r \notin DOMAIN b.rules /\ q \notin DOMAIN b.rules
      BY <2>2, <2>4, <2>6, <2>7, <3>4
    <3>5. QED BY <3>1, <3>2, <3>3, <3>4
  <2>8. \A r \in all : stamps[r][2] <= o.epoch BY <1>20, <2>1, <2>4
  <2>9. QED BY <2>4, <2>5, <2>7, <2>8 DEF Stamped
<1>21. Cardinality(kept) = Min({Cardinality(all), RuleLimit})
  <2>1. DOMAIN stamps = all OBVIOUS
  <2> HIDE DEF stamps, all
  <2>2. QED BY <1>16, <1>19, <2>1, ForgottenAre
<1>22. ASSUME Cardinality(before) <= RuleLimit PROVE all = now
  <2>1. Cardinality(DOMAIN b.rules) = Cardinality(before) BY <1>16, <1>17, <1>18, <1>22, OfTwo
  <2> HIDE DEF before
  <2>2. DOMAIN b.rules = before BY <1>8, <1>16, <2>1, FS_Subset
  <2>3. QED BY <1>7, <1>8, <2>2
<1>23. Cardinality(kept) = Min({Cardinality(now), RuleLimit})
  <2> HIDE DEF before, now, all, kept
  <2>1. CASE Cardinality(before) <= RuleLimit BY <1>21, <1>22, <2>1
  <2>2. CASE ~(Cardinality(before) <= RuleLimit)
    <3>1. Cardinality(DOMAIN b.rules) = RuleLimit BY <1>16, <1>17, <1>18, <2>2, OfTwo
    <3>2. Cardinality(DOMAIN b.rules) <= Cardinality(all) BY <1>16, FS_Subset DEF all
    <3>3. RuleLimit <= Cardinality(all) /\ RuleLimit < Cardinality(now) BY <1>16, <1>17, <2>2, <3>1, <3>2
    <3>4. Min({Cardinality(all), RuleLimit}) = RuleLimit BY <1>16, <1>17, <3>3, OfTwo
    <3>5. Min({Cardinality(now), RuleLimit}) = RuleLimit BY <1>16, <1>17, <3>3, OfTwo
    <3>6. QED BY <1>21, <3>4, <3>5
  <2>3. QED BY <2>1, <2>2
<1>24. ASSUME Cardinality(now) <= RuleLimit PROVE kept = all /\ Cardinality(before) <= RuleLimit
  <2> HIDE DEF before, now, all
  <2>1. Cardinality(before) <= RuleLimit BY <1>16, <1>17, <1>24
  <2>2. Cardinality(kept) = Cardinality(all) BY <1>16, <1>17, <1>22, <1>24, <1>21, <2>1, OfTwo
  <2>3. kept = all BY <1>16, <2>2, FS_Subset
  <2>4. QED BY <2>1, <2>3
<1>25. c.samples = [k \in DOMAIN Blank.samples |-> Newest(Readings(eps, probs, k), n)]
  <2>1. b.samples = [k \in DOMAIN Blank.samples |-> Newest(Readings(eps, probs, k), n - 1)]
    BY DEF Holds
  <2> HIDE DEF Blank
  <2>2. DOMAIN b.samples = DOMAIN Blank.samples BY <2>1
  <2>3. Len(eps) \in Nat /\ DOMAIN eps = 1 .. Len(eps) BY DEF IsNetwork
  <2>4. ASSUME NEW k \in DOMAIN Blank.samples
        PROVE  Trimmed(Append(b.samples[k], o[k])) = Newest(Readings(eps, probs, k), n)
    <3> DEFINE f == Readings(eps, probs, k)
    <3>1. DOMAIN f = 1 .. Len(eps) BY <2>3 DEF Readings
    <3> HIDE DEF f
    <3>2. Newest(f, n) = Trimmed(Append(Newest(f, n - 1), f[n])) BY <2>3, <3>1, OneMoreReading
    <3>3. b.samples[k] = Newest(f, n - 1) /\ o[k] = f[n] BY <1>2, <2>1 DEF f
    <3>4. QED BY <3>2, <3>3 DEF f
  <2>5. QED BY <1>6, <2>2, <2>4
<1>26. DOMAIN c.stamps = DOMAIN c.rules /\ Stamped(c.stamps, c.last)
  <2>1. kept \subseteq DOMAIN stamps OBVIOUS
  <2> HIDE DEF stamps, all, kept
  <2>2. /\ DOMAIN c.stamps = kept /\ DOMAIN c.rules = kept /\ c.last = o.epoch
        /\ \A r \in kept : c.stamps[r] = stamps[r] /\ r \in DOMAIN stamps
    BY <1>6, <2>1
  <2>3. QED BY <1>19, <2>2 DEF Stamped
<1> HIDE DEF stamps, all, kept, before, now
<1>27. DOMAIN c.rules = kept /\ kept \subseteq all BY <1>6 DEF kept
<1>9. \A r : Occurrences(e.alerts, r) \in Nat /\ (r \notin Rules(e.alerts) => Occurrences(e.alerts, r) = 0)
  BY <1>1, OccurrencesAre
<1>10. ASSUME NEW r
       PROVE  /\ Of0(r) \in [0 .. 23 -> Int]
              /\ TimesSeen(b, r) = Sum(ByHour(Of0(r)))
  <2>1. CASE r \in DOMAIN b.rules BY <2>1 DEF TimesSeen, ByHour, Holds
  <2>2. CASE r \notin DOMAIN b.rules
    <3>1. TimesSeen(b, r) = 0 /\ Of0(r) = [h \in 0 .. 23 |-> 0] BY <2>2 DEF TimesSeen
    <3> DEFINE none == [h \in 0 .. 23 |-> 0]
    <3>2. none \in [0 .. 23 -> Int] OBVIOUS
    <3>3. Sum(ByHour(none)) = 0
      <4>1. \A h \in 1 .. 24 : none[h - 1] = 0 OBVIOUS
      <4> HIDE DEF none
      <4>2. ByHour(none) = [h \in 1 .. 24 |-> 0] BY <4>1 DEF ByHour
      <4>3. QED BY <4>2, NoSum
    <3> HIDE DEF Of0
    <3>4. QED BY <3>1, <3>2, <3>3
  <2>3. QED BY <2>1, <2>2
<1>28. \A r : /\ TimesSeen(b, r) \in Nat /\ TimesSeen(b, r) <= Sum(Fired(eps, n - 1, r))
              /\ Sum(Fired(eps, n - 1, r)) \in Int
              /\ Sum(Fired(eps, n, r)) = Sum(Fired(eps, n - 1, r)) + Occurrences(e.alerts, r)
  <2>1. n - 1 \in 0 .. Len(eps) BY <1>4 DEF IsNetwork
  <2>2. QED BY <2>1, FiredIs, SumIs, FiredOnce DEF Holds
<1>11. ASSUME NEW r \in kept
       PROVE  /\ c.rules[r] \in [0 .. 23 -> Int]
              /\ TimesSeen(c, r) = TimesSeen(b, r) + Occurrences(e.alerts, r)
  <2>1. CASE r \in Rules(e.alerts)
    <3>1. c.rules[r] = [Of0(r) EXCEPT ![o.hour] = @ + Occurrences(e.alerts, r)]
      BY <1>2, <1>6, <1>7, <2>1
    <3> HIDE DEF Of0
    <3>3. /\ c.rules[r] \in [0 .. 23 -> Int]
          /\ Sum(ByHour(c.rules[r])) = Sum(ByHour(Of0(r))) + Occurrences(e.alerts, r)
      <4> DEFINE f == Of0(r)  h == o.hour  d == Occurrences(e.alerts, r)
      <4>1. f \in [0 .. 23 -> Int] /\ h \in 0 .. 23 /\ d \in Int BY <1>3, <1>9, <1>10
      <4>2. c.rules[r] = [f EXCEPT ![h] = @ + d] BY <3>1
      <4> HIDE DEF f, h, d
      <4>3. /\ [f EXCEPT ![h] = @ + d] \in [0 .. 23 -> Int]
            /\ Sum(ByHour([f EXCEPT ![h] = @ + d])) = Sum(ByHour(f)) + d
        BY <4>1, OneHourMore
      <4>4. QED BY <4>2, <4>3 DEF f, d
    <3>4. QED BY <1>10, <1>27, <3>3 DEF TimesSeen, ByHour
  <2>2. CASE r \notin Rules(e.alerts)
    <3>1. r \in DOMAIN b.rules /\ c.rules[r] = b.rules[r] BY <1>6, <1>7, <1>27, <2>2 DEF all
    <3>2. TimesSeen(c, r) = TimesSeen(b, r) BY <1>27, <3>1 DEF TimesSeen
    <3>3. b.rules[r] \in [0 .. 23 -> Int] BY <3>1 DEF Holds
    <3>4. QED BY <1>9, <1>28, <2>2, <3>1, <3>2, <3>3
  <2>3. QED BY <2>1, <2>2
<1>12. ASSUME NEW r
       PROVE  TimesSeen(c, r) \in Nat /\ TimesSeen(c, r) <= Sum(Fired(eps, n, r))
  <2>1. CASE r \in kept BY <1>9, <1>11, <1>28, <2>1
  <2>2. CASE r \notin kept
    <3>1. TimesSeen(c, r) = 0 BY <1>27, <2>2 DEF TimesSeen
    <3>2. QED BY <1>9, <1>28, <3>1
  <2>3. QED BY <2>1, <2>2
<1>29. ASSUME Cardinality(now) <= RuleLimit, NEW r PROVE TimesSeen(c, r) = Sum(Fired(eps, n, r))
  <2>1. kept = now /\ TimesSeen(b, r) = Sum(Fired(eps, n - 1, r))
    BY <1>22, <1>24, <1>29 DEF Holds, before
  <2>2. CASE r \in kept BY <1>11, <1>28, <2>1, <2>2
  <2>3. CASE r \notin kept
    <3>1. TimesSeen(c, r) = 0 /\ TimesSeen(b, r) = 0 BY <1>8, <1>27, <2>1, <2>3 DEF TimesSeen
    <3>2. Occurrences(e.alerts, r) = 0 BY <1>8, <1>9, <2>1, <2>3
    <3>3. QED BY <1>28, <2>1, <3>1, <3>2
  <2>4. QED BY <2>2, <2>3
<1>13. c.windows = n /\ c.last = IF n = 0 THEN 0 ELSE eps[n].startedAt BY <1>4, <1>6, <1>2
<1>14. Holds(c, eps, probs, n)
  BY <1>8, <1>11, <1>12, <1>13, <1>23, <1>25, <1>26, <1>27, <1>29 DEF Holds, now
<1>15. QED BY <1>14 DEF c, o

\* The rows of the first n windows, each scored against what held those before it.
Walked(walked, eps, probs, threshold, n) ==
  /\ Holds(walked.baseline, eps, probs, n)
  /\ walked.rows \in Seq({walked.rows[i] : i \in 1 .. n}) /\ Len(walked.rows) = n
  /\ \A i \in 1 .. n :
       \E b : Holds(b, eps, probs, i - 1) /\ walked.rows[i] = Row(eps[i], probs[i], threshold, b)

\* One more window of the walk.
LEMMA StepWalked ==
  ASSUME NEW eps, IsNetwork(eps), NEW probs, NEW threshold, NEW n \in 1 .. Len(eps),
         NEW w, Walked(w, eps, probs, threshold, n - 1)
  PROVE  Walked(ScoresThenFolds(w, eps[n], probs[n], threshold), eps, probs, threshold, n)
<1> DEFINE b == w.baseline
           r == Row(eps[n], probs[n], threshold, b)
           c == FoldIn(b, Observation(eps[n], probs[n]))
           v == ScoresThenFolds(w, eps[n], probs[n], threshold)
           V == {w.rows[i] : i \in 1 .. n - 1} \cup {r}
           s == w.rows
<1>1. n \in Nat /\ n - 1 \in Nat BY DEF IsNetwork
<1>2. /\ Holds(b, eps, probs, n - 1)
      /\ s \in Seq({s[i] : i \in 1 .. n - 1}) /\ Len(s) = n - 1
      /\ \A i \in 1 .. n - 1 :
           \E d : Holds(d, eps, probs, i - 1) /\ s[i] = Row(eps[i], probs[i], threshold, d)
  BY DEF Walked
<1>3. Holds(c, eps, probs, n) BY <1>2, FoldHolds
<1>4. v.baseline = c /\ v.rows = Append(s, r) BY DEF ScoresThenFolds
<1> HIDE DEF b, r, c, v, s
<1>6. s \in Seq(V) /\ r \in V
  <2> HIDE DEF V
  <2>1. s = [i \in 1 .. n - 1 |-> s[i]] BY <1>2
  <2>2. s \in Seq(V) BY <1>1, <2>1 DEF V, s
  <2>3. r \in V BY DEF V
  <2>4. QED BY <2>2, <2>3
<1> HIDE DEF V
<1>7. /\ Append(s, r) \in Seq(V) /\ Len(Append(s, r)) = n
      /\ (\A i \in 1 .. n - 1 : Append(s, r)[i] = s[i]) /\ Append(s, r)[n] = r
  BY <1>1, <1>2, <1>6
<1>8. ASSUME NEW i \in 1 .. n
      PROVE  \E d : Holds(d, eps, probs, i - 1) /\ v.rows[i] = Row(eps[i], probs[i], threshold, d)
  <2>1. CASE i = n BY <1>2, <1>4, <1>7, <2>1 DEF r
  <2>2. CASE i # n
    <3>1. i \in 1 .. n - 1 BY <1>1, <2>2
    <3>2. QED BY <1>2, <1>4, <1>7, <3>1
  <2>3. QED BY <2>1, <2>2
<1>9. v.rows \in Seq({v.rows[i] : i \in 1 .. n}) /\ Len(v.rows) = n
  <2> DEFINE q == v.rows  Q == {q[i] : i \in 1 .. n}
  <2>1. q = [i \in 1 .. n |-> q[i]] /\ Len(q) = n
    <3>1. q \in Seq(V) /\ Len(q) = n BY <1>4, <1>7
    <3> HIDE DEF q
    <3>2. QED BY <3>1
  <2>2. \A i \in 1 .. n : q[i] \in Q OBVIOUS
  <2> HIDE DEF q, Q
  <2>3. q \in Seq(Q) BY <1>1, <2>1, <2>2
  <2>4. QED BY <2>1, <2>3 DEF q, Q
<1>10. Walked(v, eps, probs, threshold, n) BY <1>3, <1>4, <1>8, <1>9 DEF Walked
<1>11. QED BY <1>10 DEF v

\* The whole walk.
LEMMA WalkIs ==
  ASSUME NEW eps, IsNetwork(eps), NEW probs, NEW threshold
  PROVE  Walked(Walk(eps, probs, threshold), eps, probs, threshold, Len(eps))
<1> DEFINE n == Len(eps)
           start == [baseline |-> Blank, rows |-> <<>>]
           On(k, w) == ScoresThenFolds(w, eps[k], probs[k], threshold)
           Body(f) == [k \in 0 .. n |-> IF k = 0 THEN start ELSE On(k, f[k - 1])]
           f0 == CHOOSE f : f = Body(f)
           Good(k, f) == f = [j \in 0 .. k |-> IF j = 0 THEN start ELSE On(j, f[j - 1])]
           S == {k \in 0 .. n : \E f : Good(k, f)}
<1>1. n \in Nat BY DEF IsNetwork
<1>2. 0 \in S
  <2> DEFINE f == [j \in 0 .. 0 |-> start]
  <2> HIDE DEF start, On
  <2>1. Good(0, f) OBVIOUS
  <2> HIDE DEF f, Good
  <2>2. QED BY <1>1, <2>1
<1>3. ASSUME NEW k \in 1 .. n, k - 1 \in S PROVE k \in S
  <2> HIDE DEF start, On
  <2>1. PICK f : Good(k - 1, f) BY <1>3
  <2> DEFINE h == [j \in 0 .. k |-> IF j = k THEN On(k, f[k - 1]) ELSE f[j]]
  <2>2. ASSUME NEW j \in 0 .. k
        PROVE  h[j] = IF j = 0 THEN start ELSE On(j, h[j - 1])
    <3>1. CASE j = k BY <1>1, <3>1
    <3>2. CASE j # k BY <1>1, <3>2, <2>1
    <3>3. QED BY <3>1, <3>2
  <2>3. h = [j \in 0 .. k |-> h[j]] OBVIOUS
  <2> HIDE DEF h
  <2>4. Good(k, h) BY <2>2, <2>3
  <2>5. k \in 0 .. n BY <1>1
  <2> HIDE DEF Good
  <2>6. QED BY <2>4, <2>5
<1>4. f0 = Body(f0)
  <2>1. \A k \in 0 .. n : k \in S
    <3> HIDE DEF S, n
    <3>1. QED BY <1>1, <1>2, <1>3, UpTo
  <2>2. n \in S BY <1>1, <2>1
  <2>3. PICK f : Good(n, f) BY <2>2
  <2>4. f = Body(f) BY <2>3
  <2> HIDE DEF Body
  <2>5. QED BY <2>4
<1>5. f0[0] = start /\ \A k \in 1 .. n : f0[k] = On(k, f0[k - 1])
  <2> HIDE DEF f0, start, On
  <2>1. QED BY <1>1, <1>4
<1>6. Walk(eps, probs, threshold) = f0[n] BY DEF Walk
<1> HIDE DEF f0
<1> DEFINE T == {k \in 0 .. n : Walked(f0[k], eps, probs, threshold, k)}
<1>7. 0 \in T
  <2>2. start.rows \in Seq({start.rows[i] : i \in 1 .. 0}) /\ Len(start.rows) = 0 OBVIOUS
  <2>3. Walked(start, eps, probs, threshold, 0) BY BlankHolds, <2>2 DEF Walked
  <2>4. QED BY <1>1, <1>5, <2>3
<1>8. ASSUME NEW k \in 1 .. n, k - 1 \in T PROVE k \in T
  <2>2. Walked(On(k, f0[k - 1]), eps, probs, threshold, k) BY <1>8, StepWalked
  <2> HIDE DEF On
  <2>4. QED BY <1>1, <1>5, <2>2
<1>9. \A k \in 0 .. n : k \in T
  <2> HIDE DEF T, n
  <2>1. QED BY <1>1, <1>7, <1>8, UpTo
<1>10. QED BY <1>1, <1>6, <1>9

\* Before a baseline is warm a window scores the same with it as without.
LEMMA ColdIsFixed ==
  ASSUME NEW e, NEW p, NEW threshold, NEW b, ~Warm(b)
  PROVE  Row(e, p, threshold, b).adaptive = Row(e, p, threshold, b).fixed
  BY DEF Warm, Denominators, Gated, RuleProfile, Severity, Row

\* A baseline is warm when it holds enough windows.
LEMMA WarmIs ==
  ASSUME NEW eps, NEW probs, NEW n \in Nat, NEW b, Holds(b, eps, probs, n)
  PROVE  Warm(b) <=> n >= WarmupWindows
  BY SeverityAssumption DEF Holds, NoBaseline, Warm

\* What a row of the walk was scored against.
LEMMA RowsGated ==
  ASSUME NEW eps, IsNetwork(eps), NEW probs, NEW threshold, NEW w,
         Walked(w, eps, probs, threshold, Len(eps)), NEW i \in 1 .. Len(eps)
  PROVE  /\ i <= WarmupWindows => w.rows[i].adaptive = w.rows[i].fixed
         /\ Holds(w.rows[i].baseline, eps, probs, i - 1)
<1>1. PICK b : Holds(b, eps, probs, i - 1) /\ w.rows[i] = Row(eps[i], probs[i], threshold, b)
  BY DEF Walked
<1>2. i - 1 \in Nat /\ i \in Nat BY DEF IsNetwork
<1>4. ASSUME i <= WarmupWindows PROVE w.rows[i].adaptive = w.rows[i].fixed
  BY <1>2, <1>4, SeverityAssumption, <1>1, WarmIs, ColdIsFixed
<1>5. QED BY <1>1, <1>4 DEF Row

\* What is reported of a walk after the first warm windows.
LEMMA RowHonest ==
  ASSUME NEW eps, IsNetwork(eps), NEW probs, NEW threshold, NEW w,
         Walked(w, eps, probs, threshold, Len(eps)),
         NEW labels, NEW warm \in Nat, warm >= WarmupWindows
  PROVE  Honest(FoldRow(w, labels, probs, warm), eps, warm)
<1> DEFINE n == Len(eps)
           m == IF warm + 1 <= n THEN n - warm ELSE 0
           rows == After(w.rows, warm)
           y == After(labels, warm)
           fixed    == [i \in DOMAIN rows |-> rows[i].fixed.score]
           adaptive == [i \in DOMAIN rows |-> rows[i].adaptive.score]
           row == FoldRow(w, labels, probs, warm)
           M == {i \in DOMAIN rows : adaptive[i] # fixed[i]}
           W == {i \in DOMAIN rows : Warm(rows[i].baseline)}
<1>1. n \in Nat /\ m \in Nat BY DEF IsNetwork
<1>2. /\ row.n = Len(rows) /\ row.windows = w.baseline.windows
      /\ row.rulesSeen = Cardinality(DOMAIN w.baseline.rules)
      /\ row.warmed = Cardinality(W) /\ row.moved = Cardinality(M)
      /\ row.adaptive_ap = AveragePrecision(y, adaptive) /\ row.fixed_ap = AveragePrecision(y, fixed)
  BY DEF FoldRow, Reported
<1>3. /\ Holds(w.baseline, eps, probs, n) /\ Len(w.rows) = n BY DEF Walked
<1>4. /\ Len(rows) = m /\ DOMAIN rows = 1 .. m
      /\ \A i \in 1 .. m : rows[i] = w.rows[warm + i]
  <2> DEFINE q == w.rows  V == {q[i] : i \in 1 .. n}
  <2>1. \A i \in warm + 1 .. n : q[i] \in V BY <1>1
  <2>2. rows = SubSeq(q, warm + 1, n) BY <1>3 DEF After
  <2> HIDE DEF q, V, rows, n
  <2>3. warm + 1 \in Int /\ n \in Int BY <1>1
  <2>4. /\ rows \in Seq(V) /\ Len(rows) = IF warm + 1 <= n THEN n - (warm + 1) + 1 ELSE 0
        /\ \A i \in 1 .. n - (warm + 1) + 1 : rows[i] = q[warm + 1 + i - 1]
    BY <2>1, <2>2, <2>3, SubSeqProperties
  <2>6. ASSUME NEW i \in 1 .. m PROVE rows[i] = q[warm + i] BY <1>1, <2>4
  <2>7. QED BY <1>1, <2>4, <2>6 DEF q
<1>5. \A i \in 1 .. m : Warm(rows[i].baseline)
  <2>1. ASSUME NEW i \in 1 .. m PROVE Warm(rows[i].baseline)
    <3>1. warm + i \in 1 .. n /\ warm + i - 1 \in Nat /\ warm + i - 1 >= WarmupWindows
      BY <1>1, SeverityAssumption
    <3>2. Holds(rows[i].baseline, eps, probs, warm + i - 1)
      <4> HIDE DEF rows
      <4>1. QED BY <1>4, <3>1, RowsGated
    <3>3. QED BY <3>1, <3>2, WarmIs
  <2>2. QED BY <2>1
<1> HIDE DEF rows, y, row
<1>6. row.warmed = row.n
  <2>1. W = 1 .. m BY <1>4, <1>5
  <2>2. \A k \in Nat : Cardinality(1 .. k) = k BY FS_Interval
  <2> HIDE DEF W, m
  <2>3. QED BY <1>1, <1>2, <1>4, <2>1, <2>2
<1>7. row.n = Max({0, n - warm})
  <2>1. 0 \in Int /\ n - warm \in Int BY <1>1
  <2>2. Max({0, n - warm}) = IF 0 >= n - warm THEN 0 ELSE n - warm BY <2>1, OfTwo
  <2>3. m = IF 0 >= n - warm THEN 0 ELSE n - warm BY <1>1
  <2> HIDE DEF m
  <2>4. QED BY <1>2, <1>4, <2>2, <2>3
<1>8. row.windows = n /\ row.rulesSeen = Min({Cardinality(RulesUpTo(eps, n)), RuleLimit}) BY <1>2, <1>3 DEF Holds
<1>9. row.moved = 0 => row.adaptive_ap = row.fixed_ap
  <2>1. SUFFICES ASSUME row.moved = 0 PROVE adaptive = fixed BY <1>2
  <2>2. M \in SUBSET (1 .. m) BY <1>4
  <2>3. IsFiniteSet(M) /\ Cardinality(M) = 0
    <3> HIDE DEF M, m
    <3>1. QED BY <1>1, <1>2, <2>1, <2>2, Counted
  <2>4. M = {}
    <3> HIDE DEF M
    <3>1. QED BY <2>3, FS_EmptySet
  <2>5. \A i \in DOMAIN rows : adaptive[i] = fixed[i] BY <2>4, ZenonT(30)
  <2>6. QED BY <2>5
<1>10. QED BY <1>6, <1>7, <1>8, <1>9 DEF row, Honest

\* For a network of any length, whatever fired in its windows, whatever the probabilities
\* and wherever the warm-up ends: what fold_network reports (evaluate_adaptive.py 144-194).
THEOREM WarmupGates == Spec => []WarmupGatesTheLayer
<1>1. GivenIs => WarmupGatesTheLayer
  <2>1. SUFFICES ASSUME given[1] = "walk", given[2] \in Walks PROVE WarmupGatesTheLayer
    BY DEF WarmupGatesTheLayer, GivenIs
  <2> DEFINE c == given[2]  eps == c.eps  probs == c.probs  w == Walk(eps, probs, c.threshold)
  <2>2. IsNetwork(eps) BY <2>1, WalksAssumption DEF IsNetwork
  <2>3. \A i \in DOMAIN eps : i \in 1 .. Len(eps) BY <2>2 DEF IsNetwork
  <2> HIDE DEF eps, probs
  <2>4. Walked(w, eps, probs, c.threshold, Len(eps)) BY <2>2, WalkIs
  <2> HIDE DEF w
  <2>5. ASSUME NEW i \in DOMAIN eps
        PROVE  /\ i <= WarmupWindows => w.rows[i].adaptive = w.rows[i].fixed
               /\ HasCounted(w.rows[i].baseline, eps, probs, i - 1)
    <3>1. /\ i <= WarmupWindows => w.rows[i].adaptive = w.rows[i].fixed
          /\ Holds(w.rows[i].baseline, eps, probs, i - 1)
      BY <2>2, <2>3, <2>4, RowsGated
    <3>2. \A r : Sum(Fired(eps, i - 1, r)) = FiredUpTo(eps, i - 1, r) BY DEF Fired, FiredUpTo
    <3>3. QED BY <3>1, <3>2 DEF Holds, HasCounted
  <2>6. ASSUME NEW warm \in {WarmupWindows, WarmupWindows + 1}
        PROVE  Honest(FoldRow(w, c.labels, probs, warm), eps, warm)
    <3>1. warm \in Nat /\ warm >= WarmupWindows BY SeverityAssumption
    <3>2. QED BY <2>2, <2>4, <3>1, RowHonest
  <2>7. QED BY <2>5, <2>6 DEF WarmupGatesTheLayer, w, eps, probs
<1>2. QED BY <1>1, GivenCase, PTL

----------------------------------------------------------------------------
(* Splits by network.                                                       *)

\* Numbers in line rise.
LEMMA RisingIs ==
  ASSUME NEW I \in SUBSET Int, IsFiniteSet(I)
  PROVE  /\ Cardinality(I) \in Nat
         /\ Rising(I) \in [1 .. Cardinality(I) -> I]
         /\ \A i \in I : \E k \in 1 .. Cardinality(I) : Rising(I)[k] = i
         /\ \A k, l \in 1 .. Cardinality(I) : k < l => Rising(I)[k] < Rising(I)[l]
<1> DEFINE ahead == [i \in I |-> {j \in I : j < i}]
<1>1. IsLine(I, ahead)
  <2>1. ahead \in [I -> SUBSET I] OBVIOUS
  <2>2. \A i, j \in I : j \in ahead[i] <=> j < i OBVIOUS
  <2> HIDE DEF ahead
  <2>3. ASSUME NEW i \in I, NEW j \in ahead[i], NEW k \in ahead[j] PROVE k \in ahead[i]
    BY <2>1, <2>2
  <2>4. \A i \in I : ~(i < i) OBVIOUS
  <2>5. \A i \in I : i \notin ahead[i] BY <2>2, <2>4
  <2>6. \A i, j \in I : i # j => i \in ahead[j] \/ j \in ahead[i] BY <2>2
  <2>7. QED BY <2>1, <2>3, <2>5, <2>6 DEF IsLine
<1>2. Cardinality(I) \in Nat /\ Lined(Rising(I), I, ahead) BY <1>1, LineIs DEF Rising
<1>3. QED BY <1>2 DEF Lined

\* What is picked out of a sequence.
LEMMA PickIs ==
  ASSUME NEW E, NEW s \in Seq(E), NEW I \in SUBSET DOMAIN s
  PROVE  /\ Pick(s, I) \in Seq(E) /\ Len(Pick(s, I)) = Cardinality(I)
         /\ Range(Pick(s, I)) = {s[i] : i \in I}
<1>1. I \in SUBSET Int /\ IsFiniteSet(I) BY FS_Interval, FS_Subset
<1> DEFINE n == Cardinality(I)  line == Rising(I)  p == Pick(s, I)
<1>2. /\ n \in Nat /\ line \in [1 .. n -> I]
      /\ \A i \in I : \E k \in 1 .. n : line[k] = i
  BY <1>1, RisingIs
<1>3. p = [k \in 1 .. n |-> s[line[k]]] BY DEF Pick
<1>4. \A k \in 1 .. n : s[line[k]] \in E /\ line[k] \in I BY <1>2
<1> HIDE DEF n, line, p
<1>5. p \in Seq(E) /\ Len(p) = n /\ DOMAIN p = 1 .. n BY <1>2, <1>3, <1>4
<1>6. Range(p) = {s[i] : i \in I} BY <1>2, <1>3, <1>4, <1>5 DEF Range
<1>7. QED BY <1>5, <1>6 DEF n, p

\* When an episode was captured and where.
EpisodesOnly(E) == \A e \in E : IsEpisode(e)

\* An order of a sequence's places is an order of its elements.
LEMMA SortedIs ==
  ASSUME NEW E, NEW s \in Seq(E), NEW ahead, IsLine(DOMAIN s, ahead)
  PROVE  LET line == InLine(DOMAIN s, ahead)  t == [k \in DOMAIN s |-> s[line[k]]]
         IN  /\ t \in Seq(E) /\ Len(t) = Len(s) /\ Range(t) = Range(s)
             /\ line \in [1 .. Len(s) -> 1 .. Len(s)]
             /\ \A k, l \in 1 .. Len(s) : k < l => line[k] \in ahead[line[l]]
<1> DEFINE n == Len(s)  line == InLine(DOMAIN s, ahead)  t == [k \in DOMAIN s |-> s[line[k]]]
<1>1. n \in Nat /\ DOMAIN s = 1 .. n OBVIOUS
<1>2. Cardinality(1 .. n) = n BY <1>1, FS_Interval, SMTT(30)
<1>3. Lined(line, 1 .. n, ahead) BY <1>1, LineIs
<1>4. /\ line \in [1 .. n -> 1 .. n]
      /\ \A i \in 1 .. n : \E k \in 1 .. n : line[k] = i
      /\ \A k, l \in 1 .. n : k < l => line[k] \in ahead[line[l]]
  BY <1>2, <1>3 DEF Lined
<1>5. \A k \in 1 .. n : s[line[k]] \in E
  <2>1. \A i \in 1 .. n : s[i] \in E BY <1>1 DEF n
  <2>2. QED BY <1>4, <2>1
<1>6. t = [k \in 1 .. n |-> s[line[k]]] BY <1>1
<1> HIDE DEF n, line, t
<1>7. t \in Seq(E) /\ Len(t) = n /\ DOMAIN t = 1 .. n BY <1>1, <1>4, <1>5, <1>6
<1>8. Range(t) = Range(s) BY <1>1, <1>4, <1>6, <1>7 DEF Range
<1>9. QED BY <1>4, <1>7, <1>8 DEF n, line, t

\* By time: nothing is before something earlier.
LEMMA SortedByTime ==
  ASSUME NEW E, EpisodesOnly(E), NEW s \in Seq(E)
  PROVE  LET t == Sorted(s, Earlier)
         IN  /\ t \in Seq(E) /\ Len(t) = Len(s) /\ Range(t) = Range(s)
             /\ \A k, l \in 1 .. Len(s) : k < l => ~Earlier(t[l], t[k])
<1> DEFINE At(i)    == s[i].startedAt
           Leading(i) == {j \in DOMAIN s : Earlier(s[j], s[i]) \/ (~Earlier(s[i], s[j]) /\ j < i)}
           ahead    == [i \in DOMAIN s |-> Leading(i)]
           line     == InLine(DOMAIN s, ahead)
           t        == [k \in DOMAIN s |-> s[line[k]]]
<1>1. Len(s) \in Nat /\ DOMAIN s = 1 .. Len(s) /\ \A i \in DOMAIN s : At(i) \in Int
  BY DEF EpisodesOnly, IsEpisode
<1>2. Sorted(s, Earlier) = t BY DEF Sorted
<1>3. ahead \in [DOMAIN s -> SUBSET DOMAIN s] OBVIOUS
<1>4. \A i, j \in DOMAIN s : j \in ahead[i] <=> At(j) < At(i) \/ (~(At(i) < At(j)) /\ j < i)
  BY DEF Earlier
<1>5. DOMAIN s \subseteq Int BY <1>1
<1> HIDE DEF At, ahead
<1>6. \A i \in DOMAIN s : i \notin ahead[i] BY <1>1, <1>4, <1>5
<1>7. \A i, j \in DOMAIN s : i # j => i \in ahead[j] \/ j \in ahead[i] BY <1>1, <1>4, <1>5
<1>8. \A i \in DOMAIN s : \A j \in ahead[i] : ahead[j] \subseteq ahead[i]
  <2> SUFFICES ASSUME NEW i \in DOMAIN s, NEW j \in ahead[i], NEW k \in ahead[j]
               PROVE  k \in ahead[i]
    OBVIOUS
  <2>2. QED BY <1>1, <1>4, <1>5, <1>3
<1>9. IsLine(DOMAIN s, ahead)
  <2>1. IsFiniteSet(DOMAIN s) BY <1>1, FS_Interval
  <2>2. QED BY <1>3, <1>6, <1>7, <1>8, <2>1 DEF IsLine
<1>10. /\ t \in Seq(E) /\ Len(t) = Len(s) /\ Range(t) = Range(s)
       /\ line \in [1 .. Len(s) -> 1 .. Len(s)]
       /\ \A k, l \in 1 .. Len(s) : k < l => line[k] \in ahead[line[l]]
  BY <1>9, SortedIs
<1>11. ASSUME NEW k \in 1 .. Len(s), NEW l \in 1 .. Len(s), k < l PROVE ~Earlier(t[l], t[k])
  <2>1. line[k] \in DOMAIN s /\ line[l] \in DOMAIN s /\ line[k] \in ahead[line[l]]
    BY <1>1, <1>10, <1>11
  <2>2. ~(At(line[l]) < At(line[k])) BY <1>1, <1>4, <2>1
  <2>4. QED BY <2>2, <1>1 DEF Earlier, At
<1>12. QED BY <1>2, <1>10, <1>11

\* By network, and by time within one: nothing is before something of an earlier network.
LEMMA SortedBySource ==
  ASSUME NEW E, EpisodesOnly(E), NEW s \in Seq(E)
  PROVE  LET t == Sorted(s, BySource)
         IN  /\ t \in Seq(E) /\ Len(t) = Len(s) /\ Range(t) = Range(s)
             /\ \A k, l \in 1 .. Len(s) : k < l => t[k].source <= t[l].source
<1> DEFINE At(i)    == s[i].startedAt
           On(i)    == s[i].source
           Before(j, i) == On(j) < On(i) \/ (On(j) = On(i) /\ At(j) < At(i))
           Leading(i) == {j \in DOMAIN s : BySource(s[j], s[i]) \/ (~BySource(s[i], s[j]) /\ j < i)}
           ahead    == [i \in DOMAIN s |-> Leading(i)]
           line     == InLine(DOMAIN s, ahead)
           t        == [k \in DOMAIN s |-> s[line[k]]]
<1>1. /\ Len(s) \in Nat /\ DOMAIN s = 1 .. Len(s)
      /\ \A i \in DOMAIN s : At(i) \in Int /\ On(i) \in Int
  BY DEF EpisodesOnly, IsEpisode
<1>2. Sorted(s, BySource) = t BY DEF Sorted
<1>3. ahead \in [DOMAIN s -> SUBSET DOMAIN s] OBVIOUS
<1>4. \A i, j \in DOMAIN s : j \in ahead[i] <=> Before(j, i) \/ (~Before(i, j) /\ j < i)
  BY DEF BySource, Earlier
<1>5. DOMAIN s \subseteq Int BY <1>1
<1> HIDE DEF At, On, ahead
<1>6. \A i \in DOMAIN s : i \notin ahead[i] BY <1>1, <1>4, <1>5
<1>7. \A i, j \in DOMAIN s : i # j => i \in ahead[j] \/ j \in ahead[i] BY <1>1, <1>4, <1>5
<1>8. \A i \in DOMAIN s : \A j \in ahead[i] : ahead[j] \subseteq ahead[i]
  <2> SUFFICES ASSUME NEW i \in DOMAIN s, NEW j \in ahead[i], NEW k \in ahead[j]
               PROVE  k \in ahead[i]
    OBVIOUS
  <2>1. j \in DOMAIN s /\ k \in DOMAIN s BY <1>3
  <2>3. /\ Before(j, i) \/ (~Before(i, j) /\ j < i)
        /\ Before(k, j) \/ (~Before(j, k) /\ k < j)
    BY <1>4, <2>1
  <2>4. Before(k, i) \/ (~Before(i, k) /\ k < i) BY <1>1, <1>5, <2>1, <2>3
  <2>5. QED BY <1>4, <2>1, <2>4
<1>9. IsLine(DOMAIN s, ahead)
  <2>1. IsFiniteSet(DOMAIN s) BY <1>1, FS_Interval
  <2>2. QED BY <1>3, <1>6, <1>7, <1>8, <2>1 DEF IsLine
<1>10. /\ t \in Seq(E) /\ Len(t) = Len(s) /\ Range(t) = Range(s)
       /\ line \in [1 .. Len(s) -> 1 .. Len(s)]
       /\ \A k, l \in 1 .. Len(s) : k < l => line[k] \in ahead[line[l]]
  BY <1>9, SortedIs
<1>11. ASSUME NEW k \in 1 .. Len(s), NEW l \in 1 .. Len(s), k < l
       PROVE  t[k].source <= t[l].source
  <2>1. line[k] \in DOMAIN s /\ line[l] \in DOMAIN s /\ line[k] \in ahead[line[l]]
    BY <1>1, <1>10, <1>11
  <2>2. On(line[k]) <= On(line[l])
    <3>2. On(line[k]) \in Int /\ On(line[l]) \in Int BY <1>1, <2>1
    <3>3. QED BY <1>4, <2>1, <3>2
  <2>4. QED BY <2>2, <1>1 DEF On
<1>12. QED BY <1>2, <1>10, <1>11

\* What a sequence holds of some networks, and of the others.
On(s, S)  == {e \in Range(s) : e.source \in S}
Off(s, S) == {e \in Range(s) : e.source \notin S}

\* The episodes of some networks.
LEMMA OfIs ==
  ASSUME NEW E, NEW s \in Seq(E), NEW S
  PROVE  /\ Of(s, S) \in Seq(E)
         /\ Range(Of(s, S)) = On(s, S)
         /\ Len(Of(s, S)) = Cardinality({i \in DOMAIN s : s[i].source \in S})
<1> DEFINE I == {i \in DOMAIN s : s[i].source \in S}
<1>1. I \in SUBSET DOMAIN s /\ Of(s, S) = Pick(s, I) BY DEF Of
<1>2. Range(Pick(s, I)) = {s[i] : i \in I} /\ Pick(s, I) \in Seq(E) /\ Len(Pick(s, I)) = Cardinality(I)
  BY <1>1, PickIs
<1>3. {s[i] : i \in I} = On(s, S) BY DEF Range, On
<1>4. QED BY <1>1, <1>2, <1>3

\* The networks of the episodes are those of what the sequence holds.
LEMMA SourcesAre ==
  ASSUME NEW E, NEW s \in Seq(E)
  PROVE  SourcesOf(s) = {e.source : e \in Range(s)}
BY DEF SourcesOf, Range

\* The episodes of the other networks, which are all that is left.
LEMMA WithoutIs ==
  ASSUME NEW E, NEW s \in Seq(E), NEW S
  PROVE  /\ Without(s, S) \in Seq(E)
         /\ Range(Without(s, S)) = Off(s, S)
         /\ Len(Of(s, S)) + Len(Without(s, S)) = Len(s)
<1> DEFINE I == {i \in DOMAIN s : s[i].source \in S}
           T == SourcesOf(s) \ S
           J == {i \in DOMAIN s : s[i].source \in T}
<1>1. Len(s) \in Nat /\ DOMAIN s = 1 .. Len(s) /\ IsFiniteSet(1 .. Len(s)) /\ Cardinality(1 .. Len(s)) = Len(s)
  <2>1. Len(s) \in Nat /\ DOMAIN s = 1 .. Len(s) OBVIOUS
  <2>2. QED BY <2>1, FS_Interval, SMTT(30)
<1>2. I \in SUBSET (1 .. Len(s)) /\ J \in SUBSET (1 .. Len(s)) /\ I \cup J = 1 .. Len(s) /\ I \cap J = {}
  BY <1>1 DEF SourcesOf
<1>3. IsFiniteSet(I) /\ Cardinality(I) \in Nat BY <1>1, <1>2, FS_Subset, FS_CardinalityType
<1>4. IsFiniteSet(J) /\ Cardinality(J) \in Nat BY <1>1, <1>2, FS_Subset, FS_CardinalityType
<1>5. Cardinality(I) + Cardinality(J) = Len(s)
  <2>1. Cardinality(I \cup J) = Cardinality(I) + Cardinality(J) - Cardinality(I \cap J)
    BY <1>3, <1>4, FS_Union
  <2>2. Cardinality(I \cap J) = 0 BY <1>2, FS_EmptySet
  <2>3. Cardinality(I \cup J) = Len(s) BY <1>1, <1>2
  <2> HIDE DEF I, J
  <2>4. QED BY <1>3, <1>4, <2>1, <2>2, <2>3
<1>7. /\ Without(s, S) \in Seq(E) /\ Len(Without(s, S)) = Cardinality(J)
      /\ Range(Without(s, S)) = On(s, T)
  <2>1. Without(s, S) = Of(s, T) BY DEF Without
  <2> HIDE DEF T
  <2>2. QED BY <2>1, OfIs
<1>8. On(s, T) = Off(s, S) BY DEF Range, SourcesOf, On, Off
<1>9. QED BY <1>5, OfIs, <1>7, <1>8

\* Episodes of two networks or more.
IsDivided(E, eps) ==
  /\ EpisodesOnly(E) /\ eps \in Seq(E)
  /\ \E x, y \in SourcesOf(eps) : x # y

\* The names are in line, each once.
LEMMA NamesAre ==
  ASSUME NEW E, NEW eps, IsDivided(E, eps)
  PROVE  LET n == Len(Names(eps))
         IN  /\ n \in Nat /\ n >= 2 /\ DOMAIN Names(eps) = 1 .. n
             /\ Names(eps) \in [1 .. n -> SourcesOf(eps)]
             /\ \A x \in SourcesOf(eps) : \E k \in 1 .. n : Names(eps)[k] = x
             /\ \A k, l \in 1 .. n : Names(eps)[k] = Names(eps)[l] => k = l
<1> DEFINE S == SourcesOf(eps)  n == Cardinality(S)  names == Rising(S)
<1>1. S \in SUBSET Int BY DEF IsDivided, EpisodesOnly, IsEpisode, SourcesOf
<1>2. IsFiniteSet(S)
  <2> DEFINE f == [i \in 1 .. Len(eps) |-> eps[i].source]
  <2>1. Len(eps) \in Nat /\ DOMAIN eps = 1 .. Len(eps) BY DEF IsDivided
  <2>2. S = {f[i] : i \in 1 .. Len(eps)} BY <2>1 DEF SourcesOf
  <2>3. DOMAIN f = 1 .. Len(eps) OBVIOUS
  <2> HIDE DEF S, f
  <2>4. IsFiniteSet({f[i] : i \in 1 .. Len(eps)}) BY <2>1, <2>3, FiniteRange
  <2>5. QED BY <2>2, <2>4
<1>3. /\ n \in Nat /\ names \in [1 .. n -> S]
      /\ \A x \in S : \E k \in 1 .. n : names[k] = x
      /\ \A k, l \in 1 .. n : k < l => names[k] < names[l]
  BY <1>1, <1>2, RisingIs
<1>4. PICK x \in S, y \in S : x # y BY DEF IsDivided
<1> HIDE DEF S, n, names
<1>6. \A k, l \in 1 .. n : names[k] = names[l] => k = l
  <2> SUFFICES ASSUME NEW k \in 1 .. n, NEW l \in 1 .. n, names[k] = names[l], k # l PROVE FALSE
    OBVIOUS
  <2>1. names[k] \in Int /\ names[l] \in Int BY <1>1, <1>3
  <2>2. k < l \/ l < k BY <1>3
  <2>3. QED BY <1>3, <2>1, <2>2
<1>7. n >= 2
  <2>1. PICK k \in 1 .. n : names[k] = x BY <1>3, <1>4
  <2>2. PICK l \in 1 .. n : names[l] = y BY <1>3, <1>4
  <2>3. QED BY <1>3, <1>4, <2>1, <2>2
<1>8. Names(eps) = names BY DEF Names, names, S
<1>9. QED BY <1>3, <1>6, <1>7, <1>8 DEF S

\* Held out by its place in the line, a network is validated on by the next place.
LEMMA ValidatedAt ==
  ASSUME NEW E, NEW eps, IsDivided(E, eps), NEW i \in 1 .. Len(Names(eps))
  PROVE  LET n == Len(Names(eps))  next == IF i = n THEN 1 ELSE i + 1
         IN  /\ (i % n) + 1 = next /\ next \in 1 .. n /\ next # i
             /\ ValidatedOn(eps, Names(eps)[i]) = Names(eps)[next]
<1> DEFINE names == Names(eps)  n == Len(names)  next == IF i = n THEN 1 ELSE i + 1
<1>1. /\ n \in Nat /\ n >= 2 /\ DOMAIN names = 1 .. n /\ i \in 1 .. n
      /\ \A k, l \in 1 .. n : names[k] = names[l] => k = l
  BY NamesAre
<1>3. ValidatedOn(eps, names[i]) = names[(i % n) + 1] BY <1>1 DEF ValidatedOn
<1> HIDE DEF names, n
<1>4. (i % n) + 1 = next
  <2>1. CASE i = n BY <1>1, <2>1
  <2>2. CASE i # n BY <1>1, <2>2
  <2>3. QED BY <2>1, <2>2
<1>5. next \in 1 .. n /\ next # i BY <1>1
<1>6. QED BY <1>3, <1>4, <1>5 DEF names, n

\* No network validates itself.
LEMMA ValidatedIs ==
  ASSUME NEW E, NEW eps, IsDivided(E, eps), NEW held \in SourcesOf(eps)
  PROVE  ValidatedOn(eps, held) \in SourcesOf(eps) \ {held}
<1> DEFINE names == Names(eps)  n == Len(names)
<1>1. /\ names \in [1 .. n -> SourcesOf(eps)]
      /\ \E k \in 1 .. n : names[k] = held
      /\ \A k, l \in 1 .. n : names[k] = names[l] => k = l
  BY NamesAre
<1>2. PICK i \in 1 .. n : names[i] = held BY <1>1
<1> DEFINE next == IF i = n THEN 1 ELSE i + 1
<1>3. next \in 1 .. n /\ next # i /\ ValidatedOn(eps, names[i]) = names[next] BY ValidatedAt
<1> HIDE DEF next, names, n
<1>4. QED BY <1>1, <1>2, <1>3

\* As each is held out in turn, each validates.
LEMMA EachValidates ==
  ASSUME NEW E, NEW eps, IsDivided(E, eps)
  PROVE  {ValidatedOn(eps, held) : held \in SourcesOf(eps)} = SourcesOf(eps)
<1> DEFINE names == Names(eps)  n == Len(names)
<1>2. ASSUME NEW x \in SourcesOf(eps)
      PROVE  \E held \in SourcesOf(eps) : ValidatedOn(eps, held) = x
  <2>1. /\ n \in Nat /\ n >= 2 /\ names \in [1 .. n -> SourcesOf(eps)]
        /\ \E k \in 1 .. n : names[k] = x
    BY NamesAre
  <2>2. PICK k \in 1 .. n : names[k] = x BY <2>1
  <2> DEFINE i == IF k = 1 THEN n ELSE k - 1
  <2>3. i \in 1 .. n /\ (IF i = n THEN 1 ELSE i + 1) = k
    <3> HIDE DEF n
    <3>1. QED BY <2>1
  <2>4. ValidatedOn(eps, names[i]) = names[IF i = n THEN 1 ELSE i + 1]
    <3> HIDE DEF i
    <3>1. QED BY <2>3, ValidatedAt
  <2>6. QED BY <2>1, <2>2, <2>3, <2>4
<1>3. QED BY ValidatedIs, <1>2

\* What is left of a sequence without some networks, in whatever order, and then of that
\* without others, is what is left without both.
LEMMA LeftOf ==
  ASSUME NEW E, NEW s \in Seq(E), NEW t \in Seq(E), NEW S, NEW T,
         Range(t) = Range(Without(s, S))
  PROVE  Range(Without(t, T)) = Off(s, S \cup T)
  BY WithoutIs DEF Off

\* How many episodes a split has.
Size(p) == Len(p.inner) + Len(p.val) + Len(p.test)

\* One network is tested on, one validates and the others are fitted on.
Folded(p, E, eps, held, val) ==
  /\ p.inner \in Seq(E) /\ p.val \in Seq(E) /\ p.test \in Seq(E)
  /\ Range(p.inner) = Off(eps, {held, val})
  /\ Range(p.val) = On(eps, {val}) /\ Range(p.test) = On(eps, {held})
  /\ Size(p) = Len(eps)

\* The sides of a fold.
LEMMA FoldIs ==
  ASSUME NEW E, NEW eps, IsDivided(E, eps), NEW held \in SourcesOf(eps)
  PROVE  Folded(FoldSplit(eps, held), E, eps, held, ValidatedOn(eps, held))
<1> DEFINE kept  == Without(eps, {held})
           train == Sorted(kept, BySource)
           val   == ValidatedOn(eps, held)
           out   == Of(eps, {held})
           test  == Sorted(out, Earlier)
           p     == FoldSplit(eps, held)
<1>1. EpisodesOnly(E) /\ eps \in Seq(E) /\ val # held BY ValidatedIs DEF IsDivided
<1>2. kept \in Seq(E) /\ Len(out) + Len(kept) = Len(eps) BY <1>1, WithoutIs
<1>3. train \in Seq(E) /\ Len(train) = Len(kept) /\ Range(train) = Range(kept)
  <2> HIDE DEF kept
  <2>1. QED BY <1>1, <1>2, SortedBySource
<1>4. out \in Seq(E) /\ Range(out) = On(eps, {held}) BY <1>1, OfIs
<1>5. test \in Seq(E) /\ Len(test) = Len(out) /\ Range(test) = Range(out)
  <2> HIDE DEF out
  <2>1. QED BY <1>1, <1>4, SortedByTime
<1>6. p = Parts3(Without(train, {val}), Of(train, {val}), test) BY DEF FoldSplit
<1> HIDE DEF train, test, val
<1>7. /\ Without(train, {val}) \in Seq(E)
      /\ Len(Of(train, {val})) + Len(Without(train, {val})) = Len(train)
  BY <1>3, WithoutIs
<1>8. Range(Without(train, {val})) = Off(eps, {held, val})
  <2> DEFINE S == {held}  T == {val}
  <2>1. Range(train) = Range(Without(eps, S)) /\ S \cup T = {held, val} BY <1>3
  <2> HIDE DEF S, T
  <2>3. QED BY <2>1, <1>1, <1>3, LeftOf DEF T
<1>9. Of(train, {val}) \in Seq(E) /\ Range(Of(train, {val})) = On(eps, {val})
  <2>3. On(train, {val}) = On(eps, {val}) BY <1>1, <1>3, WithoutIs DEF On, Off
  <2>4. QED BY <1>3, OfIs, <2>3
<1> HIDE DEF kept, out
<1>10. /\ Len(Without(train, {val})) \in Nat /\ Len(Of(train, {val})) \in Nat /\ Len(test) \in Nat
       /\ Len(Without(train, {val})) + Len(Of(train, {val})) + Len(test) = Len(eps)
  <2> DEFINE a == Len(Without(train, {val}))  b == Len(Of(train, {val}))  c == Len(test)
             d == Len(out)  k == Len(kept)  n == Len(eps)  l == Len(train)
  <2>1. a \in Nat /\ b \in Nat /\ c \in Nat /\ d \in Nat /\ k \in Nat
    BY <1>2, <1>4, <1>5, <1>7, <1>9
  <2>2. d + k = n /\ l = k /\ c = d /\ b + a = l BY <1>2, <1>3, <1>5, <1>7
  <2> HIDE DEF a, b, c, d, k, l, n
  <2>3. a + b + c = n BY <2>1, <2>2
  <2>4. QED BY <2>1, <2>3 DEF a, b, c, n
<1>11. Range(test) = On(eps, {held}) BY <1>4, <1>5
<1>12. p.inner = Without(train, {val}) /\ p.val = Of(train, {val}) /\ p.test = test
  BY <1>6 DEF Parts3
<1>13. Size(p) = Len(eps) BY <1>10, <1>12 DEF Size
<1> HIDE DEF p
<1>14. Folded(p, E, eps, held, val) BY <1>5, <1>7, <1>8, <1>9, <1>11, <1>12, <1>13 DEF Folded
<1>15. QED BY <1>14 DEF p, val

\* What the report, the adaptive walk, the window sensitivity and the ablation fit and test on.
LEMMA OthersFoldAlike ==
  ASSUME NEW E, NEW eps, IsDivided(E, eps), NEW held \in SourcesOf(eps), NEW p,
         \/ p = AdaptiveSplit(eps, held)
         \/ \E row \in {0, ValidatedOn(eps, held)} : p = ReportSplit(eps, held, row)
         \/ \E i \in 1 .. Len(Names(eps)) : Names(eps)[i] = held /\ p = Unvalidated(eps, i)
  PROVE  LET val == ValidatedOn(eps, held)
         IN  /\ Range(p.inner) = Off(eps, {held, val})
             /\ Range(p.test) = On(eps, {held})
<1> DEFINE kept  == Without(eps, {held})
           train == Sorted(kept, BySource)
           val   == ValidatedOn(eps, held)
           out   == Of(eps, {held})
           test  == Sorted(out, Earlier)
<1>1. EpisodesOnly(E) /\ eps \in Seq(E) /\ val # held BY ValidatedIs DEF IsDivided
<1>2. kept \in Seq(E) BY <1>1, WithoutIs
<1>3. train \in Seq(E) /\ Range(train) = Range(kept)
  <2> HIDE DEF kept
  <2>1. QED BY <1>1, <1>2, SortedBySource
<1>4. out \in Seq(E) /\ Range(out) = On(eps, {held}) BY <1>1, OfIs
<1>5. Range(test) = Range(out)
  <2> HIDE DEF out
  <2>1. QED BY <1>1, <1>4, SortedByTime
<1>6. CASE p = AdaptiveSplit(eps, held)
  <2>1. p = Parts3(Without(kept, {val}), Of(kept, {val}), test) BY <1>6 DEF AdaptiveSplit
  <2> HIDE DEF test, val
  <2>2. Range(Without(kept, {val})) = Off(eps, {held, val})
    <3> DEFINE S == {held}  T == {val}
    <3>1. Range(kept) = Range(Without(eps, S)) /\ S \cup T = {held, val} OBVIOUS
    <3> HIDE DEF S, T, kept
    <3>3. QED BY <3>1, <1>1, <1>2, LeftOf DEF T
  <2>3. p.inner = Without(kept, {val}) /\ p.test = test BY <2>1 DEF Parts3
  <2> HIDE DEF kept, out
  <2>4. QED BY <1>4, <1>5, <2>2, <2>3 DEF val
<1>7. CASE \E row \in {0, ValidatedOn(eps, held)} : p = ReportSplit(eps, held, row)
  <2>1. p = Parts3(Without(train, {val}), <<>>, test) BY <1>7 DEF ReportSplit
  <2> HIDE DEF train, test, val
  <2>2. Range(Without(train, {val})) = Off(eps, {held, val})
    <3> DEFINE S == {held}  T == {val}
    <3>1. Range(train) = Range(Without(eps, S)) /\ S \cup T = {held, val} BY <1>3
    <3> HIDE DEF S, T
    <3>3. QED BY <3>1, <1>1, <1>3, LeftOf DEF T
  <2>3. p.inner = Without(train, {val}) /\ p.test = test BY <2>1 DEF Parts3
  <2> HIDE DEF kept, out
  <2>4. QED BY <1>4, <1>5, <2>2, <2>3 DEF val
<1>8. CASE \E i \in 1 .. Len(Names(eps)) : Names(eps)[i] = held /\ p = Unvalidated(eps, i)
  <2>1. PICK i \in 1 .. Len(Names(eps)) : Names(eps)[i] = held /\ p = Unvalidated(eps, i)
    BY <1>8
  <2> DEFINE next == IF i = Len(Names(eps)) THEN 1 ELSE i + 1
  <2>3. Names(eps)[(i % Len(Names(eps))) + 1] = val BY <2>1, ValidatedAt
  <2>6. p.inner = Without(eps, {held, val}) /\ p.test = out
    BY <2>1, <2>3 DEF Parts3, Unvalidated
  <2> HIDE DEF out
  <2>7. QED BY <1>4, <1>1, WithoutIs, <2>6
<1>9. QED BY <1>6, <1>7, <1>8

\* A share of a number of episodes is no more than there are.
LEMMA PortionIs ==
  ASSUME NEW n \in Nat, NEW share \in 0 .. 100
  PROVE  Portion(n, share) \in 0 .. n
<1> DEFINE q == (n * share) \div 100
<1>1. n * share \in Int /\ 0 <= n * share /\ n * share <= n * 100 BY Products
<1>2. q \in Int /\ 100 * q <= n * share /\ n * share < 100 * q + 100
  <2> DEFINE x == n * share
  <2> HIDE DEF x
  <2>1. x \in Int BY <1>1 DEF x
  <2>3. QED BY <2>1 DEF x
<1> HIDE DEF q
<1>4. QED BY <1>2, <1>1 DEF Portion, q

\* What stands at a stretch of places.
Stretch(s, i, j) == {s[k] : k \in i .. j}

\* A sequence cut in two.
LEMMA CutIs ==
  ASSUME NEW E, NEW s \in Seq(E), NEW c \in 0 .. Len(s)
  PROVE  LET a == SubSeq(s, 1, c)  b == SubSeq(s, c + 1, Len(s))
         IN  /\ a \in Seq(E) /\ Len(a) = c /\ Range(a) = Stretch(s, 1, c)
             /\ b \in Seq(E) /\ Len(b) = Len(s) - c /\ Range(b) = Stretch(s, c + 1, Len(s))
             /\ a \o b = s
<1> DEFINE n == Len(s)  a == SubSeq(s, 1, c)  b == SubSeq(s, c + 1, n)
<1>1. n \in Nat /\ c \in Nat /\ c <= n /\ \A i \in 1 .. n : s[i] \in E OBVIOUS
<1> HIDE DEF n
<1>2. /\ a \in Seq(E) /\ Len(a) = IF 1 <= c THEN c - 1 + 1 ELSE 0
      /\ \A i \in 1 .. c - 1 + 1 : a[i] = s[1 + i - 1]
  BY <1>1, SubSeqProperties
<1>3. /\ b \in Seq(E) /\ Len(b) = IF c + 1 <= n THEN n - (c + 1) + 1 ELSE 0
      /\ \A i \in 1 .. n - (c + 1) + 1 : b[i] = s[c + 1 + i - 1]
  BY <1>1, SubSeqProperties
<1>4. Len(a) = c /\ DOMAIN a = 1 .. c /\ \A i \in 1 .. c : a[i] = s[i] BY <1>1, <1>2
<1>5. Len(b) = n - c /\ DOMAIN b = 1 .. n - c /\ \A i \in 1 .. n - c : b[i] = s[c + i]
  <2>1. Len(b) = n - c BY <1>1, <1>3
  <2>2. n - (c + 1) + 1 = n - c /\ \A i \in 1 .. n - c : c + 1 + i - 1 = c + i BY <1>1
  <2>3. QED BY <1>3, <2>1, <2>2
<1>6. a \o b = s
  <2>1. 1 \in 1 .. n + 1 /\ c \in 1 - 1 .. n /\ n \in c .. n BY <1>1
  <2>2. a \o b = SubSeq(s, 1, n) BY <2>1, ConcatAdjacentSubSeq DEF n
  <2>4. QED BY <2>2, SubSeqFull DEF n
<1> HIDE DEF a, b
<1>7. Range(a) = Stretch(s, 1, c) BY <1>4 DEF Range, Stretch
<1>8. Range(b) = Stretch(s, c + 1, n)
  <2>1. ASSUME NEW j \in c + 1 .. n PROVE \E i \in DOMAIN b : b[i] = s[j]
    <3>1. j - c \in 1 .. n - c /\ c + (j - c) = j BY <1>1
    <3>3. QED BY <1>5, <3>1
  <2>2. ASSUME NEW i \in DOMAIN b PROVE \E j \in c + 1 .. n : b[i] = s[j] BY <1>1, <1>5
  <2>3. QED BY <2>1, <2>2 DEF Range, Stretch
<1>9. QED BY <1>2, <1>3, <1>4, <1>5, <1>6, <1>7, <1>8 DEF a, b, n

\* The export fits and validates on different networks, and validates on something.
LEMMA ExportIs ==
  ASSUME NEW E, NEW eps, IsDivided(E, eps), NEW share \in 0 .. 100,
         ExportSplit(eps, share) # Refused
  PROVE  LET p == ExportSplit(eps, share)
         IN  /\ p.inner \in Seq(E) /\ p.val \in Seq(E) /\ p.test = <<>>
             /\ \A d \in Range(p.inner), e \in Range(p.val) : d.source # e.source
             /\ Len(p.inner) + Len(p.val) = Len(eps) /\ p.val # <<>>
<1> DEFINE s == Sorted(eps, BySource)  n == Len(s)
           Edge(k) == k = n \/ s[k + 1].source # s[IF k = 0 THEN n ELSE k].source
           K == {k \in Portion(n, share) .. n : Edge(k)}
           cut == Min(K)
           a == SubSeq(s, 1, cut)  b == SubSeq(s, cut + 1, n)
<1>1. /\ EpisodesOnly(E) /\ s \in Seq(E) /\ n \in Nat /\ n = Len(eps)
      /\ \A k, l \in 1 .. n : k < l => s[k].source <= s[l].source
      /\ \A i \in 1 .. n : s[i] \in E
  <2>1. EpisodesOnly(E) /\ eps \in Seq(E) BY DEF IsDivided
  <2>2. /\ s \in Seq(E) /\ n = Len(eps)
        /\ \A k, l \in 1 .. Len(eps) : k < l => s[k].source <= s[l].source
    BY <2>1, SortedBySource
  <2> HIDE DEF s
  <2>4. QED BY <2>1, <2>2
<1>2. \A i \in 1 .. n : s[i].source \in Int BY <1>1 DEF EpisodesOnly, IsEpisode
<1>3. ExportSplit(eps, share) = IF cut = n THEN Refused ELSE Parts3(a, b, <<>>)
  BY DEF ExportSplit
<1> HIDE DEF s, n
<1>4. Portion(n, share) \in 0 .. n BY <1>1, PortionIs
<1>5. cut \in K
  <2>1. n \in K /\ K \in SUBSET Nat BY <1>1, <1>4
  <2> HIDE DEF K
  <2>2. QED BY <2>1, MinExists
<1>6. cut \in 0 .. n /\ Edge(cut)
  <2> HIDE DEF cut
  <2>1. QED BY <1>1, <1>4, <1>5
<1> HIDE DEF cut, K
<1>7. cut # n /\ ExportSplit(eps, share) = Parts3(a, b, <<>>) BY <1>3
<1>8. /\ a \in Seq(E) /\ Len(a) = cut /\ Range(a) = Stretch(s, 1, cut)
      /\ b \in Seq(E) /\ Len(b) = n - cut /\ Range(b) = Stretch(s, cut + 1, n)
  BY <1>1, <1>6, CutIs, ZenonT(30) DEF n
<1> HIDE DEF a, b
<1>9. ASSUME NEW d \in Range(a), NEW e \in Range(b) PROVE d.source # e.source
  <2>1. PICK i \in 1 .. cut : d = s[i] BY <1>8 DEF Stretch
  <2>2. PICK j \in cut + 1 .. n : e = s[j] BY <1>8 DEF Stretch
  <2>3. cut \in 1 .. n /\ cut + 1 \in 1 .. n /\ i \in 1 .. n /\ j \in 1 .. n
    BY <1>1, <1>6, <1>7, <2>1, <2>2
  <2>4. s[cut + 1].source # s[cut].source BY <1>1, <1>6, <1>7, <2>3
  <2>5. i = cut \/ s[i].source <= s[cut].source BY <1>1, <2>1, <2>3
  <2>6. j = cut + 1 \/ s[cut + 1].source <= s[j].source BY <1>1, <2>2, <2>3
  <2>7. s[cut].source <= s[cut + 1].source BY <1>1, <2>3
  <2>8. /\ s[cut].source \in Int /\ s[cut + 1].source \in Int
        /\ s[i].source \in Int /\ s[j].source \in Int
    BY <1>2, <2>3
  <2>9. s[i].source # s[j].source BY <2>4, <2>5, <2>6, <2>7, <2>8
  <2>10. QED BY <2>1, <2>2, <2>9
<1>10. Len(a) + Len(b) = Len(eps) /\ b # <<>> BY <1>1, <1>6, <1>7, <1>8
<1>11. QED
  <2> DEFINE p == ExportSplit(eps, share)
  <2>1. p.inner = a /\ p.val = b /\ p.test = <<>> BY <1>7 DEF Parts3
  <2> HIDE DEF p
  <2>2. QED BY <1>8, <1>9, <1>10, <2>1 DEF p

\* The networks trained on under a split by source: never the last one.
LEMMA SourceIs ==
  ASSUME NEW E, NEW eps, IsDivided(E, eps), NEW share, SourceSplit(eps, share) # Refused
  PROVE  LET p == SourceSplit(eps, share)
         IN  /\ p.inner \in Seq(E) /\ p.test \in Seq(E)
             /\ \A d \in Range(p.inner), e \in Range(p.test) : d.source # e.source
             /\ Len(p.inner) + Len(p.test) = Len(eps) /\ p.test # <<>>
<1> DEFINE names == Names(eps)  n == Len(names)
           More(k, S) == 100 * Len(Of(eps, S)) < Len(eps) * share /\ k # n
           Body(f) == [k \in 0 .. n |->
                         IF k = 0 THEN {}
                         ELSE IF More(k, f[k - 1]) THEN f[k - 1] \cup {names[k]} ELSE f[k - 1]]
           f0 == CHOOSE f : f = Body(f)
           trained == f0[n]
           chosen == Of(eps, trained)    inner == Sorted(chosen, BySource)
           others == Without(eps, trained)  test == Sorted(others, BySource)
<1>1. EpisodesOnly(E) /\ eps \in Seq(E) BY DEF IsDivided
<1>2. /\ n \in Nat /\ n >= 2 /\ names \in [1 .. n -> SourcesOf(eps)]
      /\ \A k, l \in 1 .. n : names[k] = names[l] => k = l
  BY NamesAre
<1>3. SourceSplit(eps, share) =
        IF n < 2 \/ trained = {} THEN Refused ELSE Parts3(inner, <<>>, test)
  BY DEF SourceSplit
<1>4. f0[0] = {} /\ \A k \in 1 .. n : f0[k] = f0[k - 1] \/ (k # n /\ f0[k] = f0[k - 1] \cup {names[k]})
  <2> DEFINE V == SUBSET SourcesOf(eps)
             g == [k \in 1 .. n |-> [S \in V |-> IF More(k, S) THEN S \cup {names[k]} ELSE S]]
  <2> HIDE DEF names, n, More, f0
  <2>1. g \in [1 .. n -> [V -> V]] BY <1>2
  <2>2. PICK f : Steps(f, n, V, {}, g)
    <3>1. {} \in V OBVIOUS
    <3> HIDE DEF V, g
    <3>2. QED BY <1>2, <2>1, <3>1, Recursion
  <2>3. f \in [0 .. n -> V] /\ f[0] = {} /\ \A k \in 1 .. n : f[k] = g[k][f[k - 1]]
    BY <2>2 DEF Steps
  <2>4. ASSUME NEW k \in 1 .. n
        PROVE  f[k] = IF More(k, f[k - 1]) THEN f[k - 1] \cup {names[k]} ELSE f[k - 1]
    <3>2. f[k - 1] \in V BY <2>3, <1>2
    <3>3. QED BY <2>3, <3>2
  <2>5. f = Body(f)
    <3>1. ASSUME NEW k \in 0 .. n PROVE f[k] = Body(f)[k]
      <4>1. CASE k = 0 BY <2>3, <4>1
      <4>2. CASE k # 0
        <5>1. k \in 1 .. n BY <1>2, <4>2
        <5>2. QED BY <2>4, <4>2, <5>1
      <4>3. QED BY <4>1, <4>2
    <3>2. DOMAIN Body(f) = 0 .. n /\ Body(f) = [k \in 0 .. n |-> Body(f)[k]] OBVIOUS
    <3> HIDE DEF Body
    <3>3. f = [k \in 0 .. n |-> f[k]] BY <2>3
    <3>4. QED BY <3>1, <3>2, <3>3
  <2>6. f0 = Body(f0)
    <3> HIDE DEF Body
    <3>1. QED BY <2>5 DEF f0
  <2>7. f0[0] = {} BY <1>2, <2>6
  <2>8. ASSUME NEW k \in 1 .. n
        PROVE f0[k] = IF More(k, f0[k - 1]) THEN f0[k - 1] \cup {names[k]} ELSE f0[k - 1]
    <3>1. k \in 0 .. n /\ k # 0 BY <1>2
    <3>2. QED BY <2>6, <3>1
  <2>9. QED BY <2>7, <2>8 DEF More
<1>5. trained \subseteq {names[j] : j \in 1 .. n - 1}
  <2> DEFINE T == {names[j] : j \in 1 .. n - 1}  S == {k \in 0 .. n : f0[k] \subseteq T}
  <2> HIDE DEF names, n, f0
  <2>1. 0 \in S BY <1>2, <1>4
  <2>2. ASSUME NEW k \in 1 .. n, k - 1 \in S PROVE k \in S BY <1>2, <2>2, <1>4
  <2> HIDE DEF S
  <2>3. \A k \in 0 .. n : k \in S BY <1>2, <2>1, <2>2, UpTo
  <2>4. n \in 0 .. n BY <1>2
  <2>5. QED BY <2>3, <2>4 DEF S
<1> HIDE DEF trained, f0
<1>6. names[n] \in SourcesOf(eps) \ trained
  <2> HIDE DEF names, n
  <2>2. QED BY <1>2, <1>5
<1>7. chosen \in Seq(E) /\ Range(chosen) = On(eps, trained) BY <1>1, OfIs
<1>8. others \in Seq(E) /\ Range(others) = Off(eps, trained) /\ Len(chosen) + Len(others) = Len(eps)
  BY <1>1, WithoutIs
<1> HIDE DEF chosen, others
<1>9. inner \in Seq(E) /\ Len(inner) = Len(chosen) /\ Range(inner) = Range(chosen)
  BY <1>1, <1>7, SortedBySource
<1>10. test \in Seq(E) /\ Len(test) = Len(others) /\ Range(test) = Range(others)
  BY <1>1, <1>8, SortedBySource
<1> HIDE DEF inner, test
<1>11. SourceSplit(eps, share) = Parts3(inner, <<>>, test) BY <1>3
<1>13. \A d \in Range(inner), e \in Range(test) : d.source # e.source
  BY <1>7, <1>8, <1>9, <1>10 DEF On, Off
<1>14. test # <<>>
  <2>1. PICK i \in DOMAIN eps : eps[i].source = names[n] BY <1>6 DEF SourcesOf
  <2>2. eps[i] \in Off(eps, trained) BY <1>6, <2>1 DEF Off, Range
  <2>3. PICK k \in DOMAIN test : test[k] = eps[i] BY <1>8, <1>10, <2>2 DEF Range
  <2>4. QED BY <1>10, <2>3
<1>15. QED
  <2> DEFINE p == SourceSplit(eps, share)
  <2>1. p.inner = inner /\ p.test = test BY <1>11 DEF Parts3
  <2> HIDE DEF p
  <2>2. QED BY <1>9, <1>10, <1>8, <1>13, <1>14, <2>1 DEF p

\* The rows held back are the last ones of what there was to train on.
LEMMA TailIs ==
  ASSUME NEW E, NEW p, p.inner \in Seq(E)
  PROVE  LET out == HoldBackTail(p)
         IN  /\ out.inner \in Seq(E) /\ out.val \in Seq(E)
             /\ out.inner \o out.val = p.inner /\ out.test = p.test
             /\ \E c \in 0 .. Len(p.inner) : /\ Range(out.inner) = Stretch(p.inner, 1, c)
                                            /\ Range(out.val) = Stretch(p.inner, c + 1, Len(p.inner))
<1> DEFINE s == p.inner  n == Len(s)  c == Portion(n, 85)
           a == SubSeq(s, 1, c)  b == SubSeq(s, c + 1, n)  out == HoldBackTail(p)
<1>1. s \in Seq(E) /\ n \in Nat OBVIOUS
<1>2. out.inner = a /\ out.val = b /\ out.test = p.test BY DEF HoldBackTail, Parts3
<1> HIDE DEF s, out
<1>3. c \in 0 .. n
  <2> HIDE DEF n
  <2>1. 85 \in 0 .. 100 OBVIOUS
  <2>2. QED BY <1>1, <2>1, PortionIs
<1> HIDE DEF c
<1>4. /\ a \in Seq(E) /\ Range(a) = Stretch(s, 1, c)
      /\ b \in Seq(E) /\ Range(b) = Stretch(s, c + 1, n) /\ a \o b = s
  BY <1>1, <1>3, CutIs
<1> HIDE DEF n, a, b
<1>5. QED BY <1>2, <1>3, <1>4 DEF s, n, out

\* Under a split by time nothing trained on is later than what validates, and that than
\* what is tested on.
LEMMA TimeIs ==
  ASSUME NEW E, EpisodesOnly(E), NEW eps \in Seq(E), NEW share \in 0 .. 100
  PROVE  LET out == HoldBackTail(TimeSplit(eps, share))
         IN  \A d \in Range(out.inner), v \in Range(out.val), e \in Range(out.test) :
               ~Earlier(v, d) /\ ~Earlier(e, v)
<1> DEFINE s == Sorted(eps, Earlier)  n == Len(eps)  cut == Portion(n, share)
           a == SubSeq(s, 1, cut)  b == SubSeq(s, cut + 1, n)
           p == TimeSplit(eps, share)  out == HoldBackTail(p)
<1>1. /\ s \in Seq(E) /\ Len(s) = n
      /\ \A k, l \in 1 .. n : k < l => ~Earlier(s[l], s[k])
  BY SortedByTime
<1>2. p = IF cut = 0 \/ cut = n THEN Refused ELSE Parts3(a, <<>>, b) BY DEF TimeSplit
<1>3. n \in Nat /\ cut \in 0 .. n
  <2>1. n \in Nat OBVIOUS
  <2> HIDE DEF n
  <2>2. QED BY <2>1, PortionIs
<1> HIDE DEF s, n, cut, p
<1>4. CASE p = Refused
  <2>1. p.inner = <<>> /\ p.inner \in Seq(E) /\ p.test = <<>> BY <1>4 DEF Refused, Parts3
  <2>2. out.test = <<>> BY <2>1, TailIs
  <2>4. QED BY <2>2 DEF p, Range
<1>5. CASE p = Parts3(a, <<>>, b)
  <2>1. /\ a \in Seq(E) /\ Len(a) = cut
        /\ b \in Seq(E) /\ Range(b) = Stretch(s, cut + 1, n)
    BY <1>1, <1>3, CutIs
  <2>2. \A i \in 1 .. cut : a[i] = s[i] BY <1>1, <1>3, SubSeqProperties
  <2> HIDE DEF a, b
  <2>3. p.inner = a /\ p.inner \in Seq(E) /\ p.test = b BY <1>5, <2>1 DEF Parts3
  <2>4. /\ out.test = b
        /\ \E c \in 0 .. Len(a) : /\ Range(out.inner) = Stretch(a, 1, c)
                                /\ Range(out.val) = Stretch(a, c + 1, Len(a))
    BY <2>3, TailIs
  <2>5. PICK c \in 0 .. cut : /\ Range(out.inner) = Stretch(a, 1, c)
                              /\ Range(out.val) = Stretch(a, c + 1, cut)
    BY <2>1, <2>4
  <2> HIDE DEF out
  <2>6. ASSUME NEW d \in Range(out.inner), NEW v \in Range(out.val), NEW e \in Range(out.test)
        PROVE  ~Earlier(v, d) /\ ~Earlier(e, v)
    <3>1. PICK i \in 1 .. c : d = a[i] BY <2>5 DEF Stretch
    <3>2. PICK j \in c + 1 .. cut : v = a[j] BY <2>5 DEF Stretch
    <3>3. PICK k \in cut + 1 .. n : e = s[k] BY <2>1, <2>4 DEF Stretch
    <3>4. /\ i \in 1 .. cut /\ j \in 1 .. cut /\ i \in 1 .. n /\ j \in 1 .. n /\ k \in 1 .. n
          /\ i < j /\ j < k
      BY <1>3
    <3>5. d = s[i] /\ v = s[j] BY <2>2, <3>1, <3>2, <3>4, SMTT(30)
    <3>6. QED BY <1>1, <3>3, <3>4, <3>5
  <2>7. QED BY <2>6 DEF out, p
<1>6. QED BY <1>2, <1>4, <1>5

\* For episodes of any number of networks, two at least, however many each has and in
\* whatever order they are filed, and for every share (evaluate.py 44-67, evaluate_adaptive.py
\* 128-142, export-model.py 59-74, features.py 60-94, train.py 104-112).  A sort puts each episode
\* in one place of a line, so each side holds what its networks hold; the network that
\* validates is the one whose name stands next in a line in which each name stands once.
THEOREM SplitsApart == Spec => []NetworksHeldApart
<1>1. GivenIs => NetworksHeldApart
  <2>1. SUFFICES ASSUME given[1] = "divided", given[2] \in Divided PROVE NetworksHeldApart
    BY DEF NetworksHeldApart, GivenIs
  <2> DEFINE eps == given[2].eps  share == given[2].share  E == Range(eps)
             Sides(p) == <<SourcesOf(p.inner), SourcesOf(p.val), SourcesOf(p.test)>>
             Apart(p) ==
               /\ \A i, j \in 1 .. 3 : i < j => Sides(p)[i] \cap Sides(p)[j] = {}
               /\ Len(p.inner) + Len(p.val) + Len(p.test) = Len(eps)
             Same(p, q) == Range(p.inner) = Range(q.inner) /\ Range(p.test) = Range(q.test)
  <2>2. IsDivided(E, eps) /\ EpisodesOnly(E) /\ eps \in Seq(E) /\ share \in 0 .. 100
    BY <2>1, DividedAssumption DEF DividedAssumption, IsDivided, EpisodesOnly
  <2> HIDE DEF eps, share, E
  <2>3. ASSUME NEW p, NEW E1, p.inner \in Seq(E1), p.val \in Seq(E1), p.test \in Seq(E1),
               \A d \in Range(p.inner), e \in Range(p.val) : d.source # e.source,
               \A d \in Range(p.inner), e \in Range(p.test) : d.source # e.source,
               \A d \in Range(p.val), e \in Range(p.test) : d.source # e.source,
               Size(p) = Len(eps)
        PROVE  Apart(p)
    <3>2. /\ SourcesOf(p.inner) \cap SourcesOf(p.val) = {}
          /\ SourcesOf(p.inner) \cap SourcesOf(p.test) = {}
          /\ SourcesOf(p.val) \cap SourcesOf(p.test) = {}
      BY <2>3 DEF SourcesOf, Range
    <3>3. /\ Sides(p)[1] = SourcesOf(p.inner) /\ Sides(p)[2] = SourcesOf(p.val)
          /\ Sides(p)[3] = SourcesOf(p.test)
      OBVIOUS
    <3> HIDE DEF Sides
    <3>4. ASSUME NEW i \in 1 .. 3, NEW j \in 1 .. 3, i < j PROVE Sides(p)[i] \cap Sides(p)[j] = {}
      BY <3>4, <3>2, <3>3
    <3>5. QED BY <2>3, <3>4 DEF Size
  <2>4. ASSUME NEW held \in SourcesOf(eps)
        PROVE  LET fold == FoldSplit(eps, held)
               IN  /\ Apart(fold)
                   /\ SourcesOf(fold.val) = {ValidatedOn(eps, held)} /\ SourcesOf(fold.test) = {held}
                   /\ AdaptiveSplit(eps, held).val # <<>>
                   /\ Same(AdaptiveSplit(eps, held), fold)
                   /\ \A i \in DOMAIN Names(eps) : Names(eps)[i] = held =>
                        Same(SensitivitySplit(eps, i), fold) /\ Same(AblationSplit(eps, i), fold)
                   /\ \A row \in {0, ValidatedOn(eps, held)} : Same(ReportSplit(eps, held, row), fold)
    <3> DEFINE fold == FoldSplit(eps, held)  val == ValidatedOn(eps, held)
    <3>1. /\ fold.inner \in Seq(E) /\ fold.val \in Seq(E) /\ fold.test \in Seq(E)
          /\ Range(fold.inner) = Off(eps, {held, val})
          /\ Range(fold.val) = On(eps, {val}) /\ Range(fold.test) = On(eps, {held})
          /\ Size(fold) = Len(eps)
      <4>1. Folded(fold, E, eps, held, val) BY <2>2, FoldIs
      <4> HIDE DEF fold, val
      <4>2. QED BY <4>1 DEF Folded
    <3>2. val \in SourcesOf(eps) /\ val # held BY <2>2, ValidatedIs
    <3>3. AdaptiveSplit(eps, held).val # <<>>
      <4> DEFINE kept == Without(eps, {held})
      <4>1. AdaptiveSplit(eps, held).val = Of(kept, {val}) BY DEF AdaptiveSplit, Parts3
      <4>2. kept \in Seq(E) /\ Range(kept) = Off(eps, {held}) BY <2>2, WithoutIs
      <4> HIDE DEF kept, val
      <4>4. PICK i \in DOMAIN eps : eps[i].source = val BY <3>2 DEF SourcesOf
      <4>5. eps[i] \in On(kept, {val}) BY <3>2, <4>2, <4>4 DEF On, Off, Range
      <4>6. Of(kept, {val}) # <<>>
        <5>1. Range(<<>>) = {} BY DEF Range
        <5>2. QED BY <4>2, OfIs, <4>5, <5>1
      <4>7. QED BY <4>1, <4>6
    <3>4. Same(AdaptiveSplit(eps, held), fold)
      <4> DEFINE p == AdaptiveSplit(eps, held)
      <4>1. p = AdaptiveSplit(eps, held) OBVIOUS
      <4> HIDE DEF p, fold
      <4>2. Range(p.inner) = Off(eps, {held, val}) /\ Range(p.test) = On(eps, {held})
        BY <2>2, <4>1, OthersFoldAlike
      <4>3. QED BY <3>1, <4>2 DEF p
    <3>5. ASSUME NEW row \in {0, val} PROVE Same(ReportSplit(eps, held, row), fold)
      <4> DEFINE p == ReportSplit(eps, held, row)
      <4>1. \E r \in {0, ValidatedOn(eps, held)} : p = ReportSplit(eps, held, r) BY <3>5
      <4> HIDE DEF p, fold
      <4>2. Range(p.inner) = Off(eps, {held, val}) /\ Range(p.test) = On(eps, {held})
        BY <2>2, <4>1, OthersFoldAlike
      <4>3. QED BY <3>1, <4>2 DEF p
    <3>6. ASSUME NEW i \in DOMAIN Names(eps), Names(eps)[i] = held
          PROVE  Same(Unvalidated(eps, i), fold)
      <4> DEFINE p == Unvalidated(eps, i)
      <4>1. \E k \in 1 .. Len(Names(eps)) : Names(eps)[k] = held /\ p = Unvalidated(eps, k)
        BY <2>2, NamesAre, <3>6
      <4> HIDE DEF p, fold
      <4>2. Range(p.inner) = Off(eps, {held, val}) /\ Range(p.test) = On(eps, {held})
        BY <2>2, <4>1, OthersFoldAlike
      <4>3. QED BY <3>1, <4>2 DEF p
    <3> HIDE DEF fold, val
    <3>7. Apart(fold)
      <4>2. \A d \in Range(fold.inner), e \in Range(fold.test) : d.source # e.source
        BY <3>1 DEF On, Off
      <4>3. \A d \in Range(fold.val), e \in Range(fold.test) : d.source # e.source
        BY <3>1, <3>2 DEF On
      <4> HIDE DEF Apart
      <4>4. QED BY <2>3, <3>1, <4>2, <4>3 DEF On, Off
    <3>8. ASSUME NEW q \in Seq(E), NEW x \in SourcesOf(eps), Range(q) = On(eps, {x})
          PROVE  SourcesOf(q) = {x}
      <4>2. PICK i \in DOMAIN eps : eps[i].source = x BY DEF SourcesOf
      <4>3. eps[i] \in Range(q) BY <3>8, <4>2 DEF On, Range
      <4>4. QED BY <3>8, <4>2, <4>3 DEF On, SourcesOf, Range
    <3>9. SourcesOf(fold.val) = {val} BY <3>1, <3>2, <3>8
    <3>10. SourcesOf(fold.test) = {held} BY <3>1, <3>8
    <3> HIDE DEF Apart, Same
    <3>11. QED
      BY <3>3, <3>4, <3>5, <3>6, <3>7, <3>9, <3>10 DEF fold, val, SensitivitySplit, AblationSplit
  <2>5. {ValidatedOn(eps, held) : held \in SourcesOf(eps)} = SourcesOf(eps)
    BY <2>2, EachValidates
  <2>6. LET out == ExportSplit(eps, share) IN out # Refused => Apart(out) /\ out.val # <<>>
    <3> DEFINE out == ExportSplit(eps, share)
    <3>1. SUFFICES ASSUME out # Refused PROVE Apart(out) /\ out.val # <<>> OBVIOUS
    <3>2. /\ out.inner \in Seq(E) /\ out.val \in Seq(E) /\ out.test = <<>>
          /\ \A d \in Range(out.inner), e \in Range(out.val) : d.source # e.source
          /\ Len(out.inner) + Len(out.val) = Len(eps) /\ out.val # <<>>
      BY <2>2, <3>1, ExportIs
    <3> HIDE DEF out
    <3>3. out.test \in Seq(E) /\ Range(out.test) = {} /\ Len(out.test) = 0 BY <3>2 DEF Range
    <3>4. Size(out) = Len(eps)
      <4> DEFINE a == Len(out.inner)  b == Len(out.val)  c == Len(out.test)  n == Len(eps)
      <4>1. a \in Nat /\ b \in Nat /\ c = 0 BY <3>2, <3>3
      <4>2. a + b = n BY <3>2
      <4>3. Size(out) = a + b + c BY DEF Size
      <4> HIDE DEF a, b, c, n
      <4>4. a + b + c = n BY <4>1, <4>2
      <4>5. QED BY <4>3, <4>4 DEF n
    <3> HIDE DEF Apart
    <3>5. QED BY <2>3, <3>2, <3>3, <3>4
  <2>7. LET out == HoldBackTail(SourceSplit(eps, share))
        IN  SourceSplit(eps, share) # Refused =>
              /\ out.test # <<>> /\ Apart(Parts3(out.inner \o out.val, <<>>, out.test))
    <3> DEFINE s == SourceSplit(eps, share)  out == HoldBackTail(s)
               p == Parts3(out.inner \o out.val, <<>>, out.test)
    <3>1. SUFFICES ASSUME s # Refused PROVE out.test # <<>> /\ Apart(p) OBVIOUS
    <3>2. /\ s.inner \in Seq(E) /\ s.test \in Seq(E)
          /\ \A d \in Range(s.inner), e \in Range(s.test) : d.source # e.source
          /\ Len(s.inner) + Len(s.test) = Len(eps) /\ s.test # <<>>
      BY <2>2, <3>1, SourceIs
    <3> HIDE DEF s
    <3>3. out.inner \o out.val = s.inner /\ out.test = s.test BY <3>2, TailIs
    <3>4. p.inner = s.inner /\ p.val = <<>> /\ p.test = s.test BY <3>3 DEF Parts3
    <3> HIDE DEF p, out
    <3>5. p.val \in Seq(E) /\ Range(p.val) = {} /\ Len(p.val) = 0 BY <3>4 DEF Range
    <3>6. /\ p.inner \in Seq(E) /\ p.test \in Seq(E)
          /\ Size(p) = Len(eps)
      <4> DEFINE a == Len(p.inner)  b == Len(p.val)  c == Len(p.test)  n == Len(eps)
      <4>1. p.inner \in Seq(E) /\ p.test \in Seq(E) BY <3>2, <3>4
      <4>2. a \in Nat /\ c \in Nat /\ b = 0 BY <3>5, <4>1
      <4>3. a + c = n BY <3>2, <3>4
      <4>4. Size(p) = a + b + c BY DEF Size
      <4> HIDE DEF a, b, c, n
      <4>5. a + b + c = n BY <4>2, <4>3
      <4>6. QED BY <4>1, <4>4, <4>5 DEF n
    <3>8. Apart(p)
      <4> HIDE DEF Apart
      <4>1. QED BY <2>3, <3>5, <3>6, <3>2, <3>4
    <3>9. QED BY <3>2, <3>3, <3>8
  <2>8. LET out == HoldBackTail(TimeSplit(eps, share))
        IN  \A d \in Range(out.inner), v \in Range(out.val), e \in Range(out.test) :
              ~Earlier(v, d) /\ ~Earlier(e, v)
    BY <2>2, TimeIs
  <2>9. QED BY <2>4, <2>5, <2>6, <2>7, <2>8, ZenonT(30) DEF NetworksHeldApart, eps, share
<1>2. QED BY <1>1, GivenCase, PTL

----------------------------------------------------------------------------
(* Order statistics.                                                        *)

\* As many as there are places.
LEMMA ImageOf ==
  ASSUME NEW S, IsFiniteSet(S), NEW f, \A i, j \in S : f[i] = f[j] => i = j
  PROVE  IsFiniteSet({f[i] : i \in S}) /\ Cardinality({f[i] : i \in S}) = Cardinality(S)
<1> DEFINE T == {f[i] : i \in S}  g == [i \in S |-> f[i]]
<1>1. g \in Surjection(S, T) /\ g \in Injection(S, T) BY DEF Surjection, Injection, IsInjective
<1> HIDE DEF T, g
<1>2. IsFiniteSet(T) /\ Cardinality(T) = Cardinality(S) BY <1>1, FS_Surjection
<1>3. QED BY <1>2 DEF T

Under(s, v)  == {i \in DOMAIN s : s[i] < v}
UpToThe(s, v) == {i \in DOMAIN s : s[i] <= v}

\* The k-th smallest stands k-th when the numbers are in order.
LEMMA SmallestIs ==
  ASSUME NEW s \in Seq(Int), NEW t \in Seq(Int), Len(t) = Len(s),
         InOrder(t), Reordered(t, s, Len(s)), NEW k \in 1 .. Len(s)
  PROVE  t[k] \in ToSet(s) /\ Smallest(s, k) = t[k]
<1> DEFINE n == Len(s)  v == t[k]
<1>1. /\ n \in Nat /\ DOMAIN s = 1 .. n /\ v \in Int
      /\ \A i \in 1 .. n : s[i] \in Int /\ t[i] \in Int
  OBVIOUS
<1>2. PICK f : Shuffles(f, n) /\ \A j \in 1 .. n : t[j] = s[f[j]] BY DEF Reordered
<1>3. /\ \A j \in 1 .. n : f[j] \in 1 .. n
      /\ \A i, j \in 1 .. n : f[i] = f[j] => i = j
      /\ \A i \in 1 .. n : \E j \in 1 .. n : f[j] = i
  BY <1>2 DEF Shuffles
<1>4. \A i, j \in 1 .. n : i <= j => t[i] <= t[j] BY DEF InOrder
<1>5. ASSUME NEW m \in 0 .. n
      PROVE  IsFiniteSet({f[j] : j \in 1 .. m}) /\ Cardinality({f[j] : j \in 1 .. m}) = m
  <2>1. IsFiniteSet(1 .. m) /\ Cardinality(1 .. m) = m BY <1>1, PlacesUpTo
  <2>2. ASSUME NEW i \in 1 .. m, NEW j \in 1 .. m, f[i] = f[j] PROVE i = j
    <3>1. i \in 1 .. n /\ j \in 1 .. n BY <1>1
    <3>2. QED BY <1>3, <2>2, <3>1
  <2> DEFINE M == 1 .. m
  <2>3. IsFiniteSet(M) /\ \A i, j \in M : f[i] = f[j] => i = j BY <2>1, <2>2
  <2> HIDE DEF M
  <2>4. IsFiniteSet({f[j] : j \in M}) /\ Cardinality({f[j] : j \in M}) = Cardinality(M)
    BY <2>3, ImageOf
  <2>5. QED BY <2>1, <2>4 DEF M
<1> HIDE DEF n, v
<1>6. \A u : IsFiniteSet(Under(s, u)) /\ IsFiniteSet(UpToThe(s, u))
             /\ Cardinality(Under(s, u)) \in Nat /\ Cardinality(UpToThe(s, u)) \in Nat
  <2>2. QED BY <1>1, Counted DEF Under, UpToThe
<1>7. Cardinality(Under(s, v)) < k
  <2> DEFINE m == k - 1  F == {f[j] : j \in 1 .. m}
  <2>1. m \in 0 .. n /\ m \in Int BY <1>1 DEF n
  <2>2. IsFiniteSet(F) /\ Cardinality(F) = m
    <3> HIDE DEF m
    <3>1. QED BY <1>5, <2>1
  <2>3. Under(s, v) \subseteq F
    <3>1. SUFFICES ASSUME NEW i \in Under(s, v) PROVE i \in F OBVIOUS
    <3>2. i \in 1 .. n /\ s[i] < v BY <1>1 DEF Under
    <3>3. PICK j \in 1 .. n : f[j] = i BY <1>3, <3>2
    <3>4. t[j] < t[k] /\ t[j] \in Int /\ t[k] \in Int /\ k \in 1 .. n
      BY <1>1, <1>2, <3>2, <3>3 DEF v, n
    <3>6. QED BY <3>3, <3>4, <1>4
  <2> HIDE DEF F
  <2>4. Cardinality(Under(s, v)) <= m BY <2>2, <2>3, FS_Subset
  <2>5. QED BY <1>1, <1>6, <2>1, <2>4 DEF n
<1>8. Cardinality(UpToThe(s, v)) >= k
  <2> DEFINE F == {f[j] : j \in 1 .. k}
  <2>0. k \in 1 .. n /\ k \in 0 .. n BY <1>1 DEF n
  <2>1. IsFiniteSet(F) /\ Cardinality(F) = k BY <1>5, <2>0
  <2>2. F \subseteq UpToThe(s, v)
    <3>1. SUFFICES ASSUME NEW j \in 1 .. k PROVE f[j] \in UpToThe(s, v) OBVIOUS
    <3>2. j \in 1 .. n /\ k \in 1 .. n /\ j <= k BY <1>1, <2>0
    <3>3. s[f[j]] <= v /\ f[j] \in 1 .. n BY <1>2, <1>3, <1>4, <3>2 DEF v
    <3>4. QED BY <1>1, <3>3 DEF UpToThe
  <2> HIDE DEF F
  <2>3. Cardinality(F) <= Cardinality(UpToThe(s, v)) BY <1>6, <2>2, FS_Subset
  <2>4. QED BY <2>1, <2>3
<1>9. v \in ToSet(s)
  <2>2. v = s[f[k]] /\ f[k] \in DOMAIN s BY <1>1, <1>2, <1>3 DEF v, n
  <2>3. QED BY <2>2 DEF ToSet
<1>10. ASSUME NEW u \in ToSet(s), Cardinality(Under(s, u)) < k, Cardinality(UpToThe(s, u)) >= k
       PROVE  u = v
  <2>1. u \in Int BY <1>1 DEF ToSet
  <2>2. ASSUME NEW a \in Int, NEW b \in Int, a < b,
               Cardinality(UpToThe(s, a)) >= k, Cardinality(Under(s, b)) < k
        PROVE  FALSE
    <3>1. UpToThe(s, a) \subseteq Under(s, b) BY <1>1, <2>2 DEF UpToThe, Under
    <3>2. Cardinality(UpToThe(s, a)) <= Cardinality(Under(s, b)) BY <1>6, <3>1, FS_Subset
    <3>3. QED BY <1>6, <2>2, <3>2
  <2>4. QED BY <1>1, <2>1, <1>7, <1>8, <1>10, <2>2
<1>11. Smallest(s, k) = CHOOSE u \in ToSet(s) : Cardinality(Under(s, u)) < k /\ Cardinality(UpToThe(s, u)) >= k
  BY DEF Smallest, Under, UpToThe
<1>12. QED BY <1>7, <1>8, <1>9, <1>10, <1>11 DEF v

\* The ends of a sequence put in order.
LEMMA EndsAre ==
  ASSUME NEW s \in Seq(Int), s # <<>>
  PROVE  Min(ToSet(s)) = Smallest(s, 1) /\ Max(ToSet(s)) = Smallest(s, Len(s))
<1> DEFINE t == Ascending(s)  n == Len(s)
<1>1. t \in Seq(Int) /\ Len(t) = n /\ InOrder(t) /\ Reordered(t, s, n) BY AscendingOrders
<1>2. n \in Nat /\ n > 0 /\ 1 \in 1 .. n /\ n \in 1 .. n OBVIOUS
<1> HIDE DEF t, n
<1>3. \A k \in 1 .. n : t[k] \in ToSet(s) /\ Smallest(s, k) = t[k] BY <1>1, SmallestIs DEF n
<1>4. \A x \in ToSet(s) : \E k \in 1 .. n : x = t[k]
  <2>1. PICK f : Shuffles(f, n) /\ \A j \in 1 .. n : t[j] = s[f[j]] BY <1>1 DEF Reordered
  <2>2. \A i \in 1 .. n : \E k \in 1 .. n : f[k] = i BY <2>1 DEF Shuffles
  <2>3. \A x \in ToSet(s) : \E i \in 1 .. n : x = s[i] BY DEF ToSet, n
  <2>4. QED BY <2>1, <2>2, <2>3
<1>5. \A k \in 1 .. n : t[1] <= t[k] /\ t[k] <= t[n] /\ t[k] \in Int BY <1>1, <1>2 DEF InOrder
<1>6. \A x \in ToSet(s) : x \in Int /\ t[1] <= x /\ x <= t[n] BY <1>4, <1>5
<1>7. t[1] \in ToSet(s) /\ t[n] \in ToSet(s) /\ t[1] \in Int /\ t[n] \in Int BY <1>2, <1>3, <1>5
<1>8. /\ Min(ToSet(s)) \in ToSet(s) /\ \A x \in ToSet(s) : Min(ToSet(s)) <= x
      /\ Max(ToSet(s)) \in ToSet(s) /\ \A x \in ToSet(s) : x <= Max(ToSet(s))
  <2> DEFINE T == ToSet(s)  l == t[1]  h == t[n]
  <2>1. T \in SUBSET Int /\ T # {} /\ l \in Int /\ h \in Int /\ \A x \in T : l <= x /\ x <= h
    BY <1>6, <1>7
  <2> HIDE DEF T, l, h
  <2>2. /\ Max(T) \in T /\ \A x \in T : x <= Max(T)
        /\ Min(T) \in T /\ \A x \in T : Min(T) <= x
    BY <2>1, Extremes
  <2>3. QED BY <2>2 DEF T
<1>10. QED BY <1>2, <1>3, <1>6, <1>8, <1>7 DEF n

\* Both medians are the same.
LEMMA MediansAgree ==
  ASSUME NEW s \in Seq(Int), s # <<>>
  PROVE  Median(s) = NumpyMedian(s)
<1> DEFINE t == Ascending(s)  n == Len(s)  m == n \div 2
<1>1. t \in Seq(Int) /\ Len(t) = n /\ InOrder(t) /\ Reordered(t, s, n) BY AscendingOrders
<1>2. n \in Nat /\ n > 0 OBVIOUS
<1>3. \A k \in 1 .. n : Smallest(s, k) = t[k] /\ t[k] \in Int
  <2> HIDE DEF t
  <2>1. QED BY <1>1, SmallestIs
<1>4. Median(s) = IF n % 2 = 1 THEN 2 * t[m + 1] ELSE t[m] + t[m + 1] BY DEF Median
<1>5. NumpyMedian(s) = Smallest(s, (n + 1) \div 2) + Smallest(s, m + 1) BY DEF NumpyMedian
<1> HIDE DEF t, n
<1>6. CASE n % 2 = 1
  <2>1. (n + 1) \div 2 = m + 1 /\ m + 1 \in 1 .. n BY <1>2, <1>6
  <2> HIDE DEF m
  <2>2. QED BY <1>3, <1>4, <1>5, <1>6, <2>1
<1>7. CASE n % 2 # 1
  <2>1. (n + 1) \div 2 = m /\ m \in 1 .. n /\ m + 1 \in 1 .. n BY <1>2, <1>7
  <2> HIDE DEF m
  <2>2. QED BY <1>3, <1>4, <1>5, <1>7, <2>1
<1>8. QED BY <1>6, <1>7

----------------------------------------------------------------------------
(* What sums count.                                                         *)

Added(D, k) == D[k] \ D[k - 1]

\* What a growing set grows by adds up to what it has grown to.
LEMMA Layers ==
  ASSUME NEW m \in Nat, NEW A, IsFiniteSet(A), NEW D \in [0 .. m -> SUBSET A], D[0] = {},
         \A k \in 1 .. m : D[k - 1] \subseteq D[k],
         NEW s \in Seq(Int), Len(s) = m, \A k \in 1 .. m : s[k] = Cardinality(Added(D, k))
  PROVE  Sum(s) = Cardinality(D[m])
<1>1. PICK f \in [0 .. m -> Int] :
        f[0] = 0 /\ (\A k \in 1 .. m : f[k] = f[k - 1] + s[k]) /\ Sum(s) = f[m]
  BY PartialSums
<1> DEFINE S == {k \in 0 .. m : f[k] = Cardinality(D[k])}
<1>2. 0 \in S
  <2>1. Cardinality(D[0]) = 0 BY FS_EmptySet
  <2>2. QED BY <1>1, <2>1
<1>3. ASSUME NEW k \in 1 .. m, k - 1 \in S PROVE k \in S
  <2>1. k \in 0 .. m /\ k - 1 \in 0 .. m /\ D[k] \in SUBSET A /\ D[k - 1] \subseteq D[k] OBVIOUS
  <2>2. IsFiniteSet(D[k]) BY <2>1, FS_Subset
  <2>3. IsFiniteSet(D[k - 1]) BY <2>1, <2>2, FS_Subset
  <2>4. /\ Cardinality(D[k] \ D[k - 1]) = Cardinality(D[k]) - Cardinality(D[k] \cap D[k - 1])
        /\ D[k] \cap D[k - 1] = D[k - 1]
    BY <2>1, <2>2, <2>3, FS_Difference
  <2>6. f[k] = f[k - 1] + s[k] /\ s[k] = Cardinality(D[k] \ D[k - 1]) /\ f[k - 1] = Cardinality(D[k - 1])
    BY <1>1, <1>3 DEF Added
  <2>7. Cardinality(D[k] \ D[k - 1]) = Cardinality(D[k]) - Cardinality(D[k - 1]) BY <2>4
  <2>8. f[k] = Cardinality(D[k])
    <3> DEFINE x == Cardinality(D[k])  y == Cardinality(D[k - 1])
    <3>1. x \in Nat /\ y \in Nat /\ f[k] = y + (x - y)
      BY <2>2, <2>3, FS_CardinalityType, <2>6, <2>7
    <3> HIDE DEF x, y
    <3>2. f[k] = x BY <3>1
    <3>3. QED BY <3>2 DEF x
  <2>9. QED BY <2>1, <2>8
<1>4. \A k \in 0 .. m : k \in S
  <2> HIDE DEF S
  <2>1. QED BY <1>2, <1>3, UpTo
<1>5. QED BY <1>1, <1>4

\* Ones add up to how many there are.
LEMMA OnesAre ==
  ASSUME NEW n \in Nat, NEW I \in SUBSET (1 .. n)
  PROVE  Sum([i \in 1 .. n |-> IF i \in I THEN 1 ELSE 0]) = Cardinality(I)
<1> DEFINE s == [i \in 1 .. n |-> IF i \in I THEN 1 ELSE 0]
           D == [k \in 0 .. n |-> {i \in I : i <= k}]
           A == 1 .. n
<1>1. s \in Seq(Int) /\ Len(s) = n OBVIOUS
<1>2. \A i \in I : i \in 1 .. n /\ i \in Int OBVIOUS
<1>3. /\ D \in [0 .. n -> SUBSET A] /\ D[0] = {} /\ D[n] = I
      /\ \A k \in 1 .. n : D[k - 1] \subseteq D[k]
  <2>1. D \in [0 .. n -> SUBSET A] OBVIOUS
  <2>2. \A k \in 0 .. n : D[k] = {i \in I : i <= k} OBVIOUS
  <2>3. 0 \in 0 .. n /\ n \in 0 .. n /\ \A k \in 1 .. n : k \in 0 .. n /\ k - 1 \in 0 .. n
    OBVIOUS
  <2> HIDE DEF D
  <2>4. D[0] = {} /\ D[n] = I
    <3>2. \A i \in I : ~(i <= 0) /\ i <= n BY <1>2
    <3>3. QED BY <2>2, <2>3, <3>2
  <2>5. ASSUME NEW k \in 1 .. n PROVE D[k - 1] \subseteq D[k]
    <3>0. k \in 0 .. n /\ k - 1 \in 0 .. n /\ k \in Int BY <2>3
    <3>2. \A i \in I : i <= k - 1 => i <= k BY <1>2, <3>0
    <3>3. QED BY <2>2, <3>0, <3>2
  <2>6. QED BY <2>1, <2>4, <2>5
<1>4. ASSUME NEW k \in 1 .. n PROVE s[k] = Cardinality(Added(D, k))
  <2>1. Added(D, k) = IF k \in I THEN {k} ELSE {}
    <3>1. D[k] = {i \in I : i <= k} /\ D[k - 1] = {i \in I : i <= k - 1} OBVIOUS
    <3> HIDE DEF D
    <3>2. \A i \in I : i <= k /\ ~(i <= k - 1) <=> i = k BY <1>2
    <3>3. Added(D, k) = {i \in I : i <= k /\ ~(i <= k - 1)} BY <3>1 DEF Added
    <3>4. QED BY <3>2, <3>3
  <2>3. QED BY <2>1, FS_Singleton, FS_EmptySet
<1>5. IsFiniteSet(A) BY FS_Interval
<1> HIDE DEF s, D, A
<1>6. Sum(s) = Cardinality(D[n]) BY <1>1, <1>3, <1>4, <1>5, Layers
<1>7. QED BY <1>3, <1>6 DEF s

OfKind(h, n, r) == {k \in 1 .. n : h[k] = r}

\* Each is of one kind, so the kinds have all of them.
LEMMA KindsAre ==
  ASSUME NEW n \in Nat, NEW m \in Nat, NEW h \in [1 .. n -> 1 .. m]
  PROVE  Sum([r \in 1 .. m |-> Cardinality(OfKind(h, n, r))]) = n
<1> DEFINE s == [r \in 1 .. m |-> Cardinality(OfKind(h, n, r))]
           D == [k \in 0 .. m |-> {i \in 1 .. n : h[i] <= k}]
           A == 1 .. n
<1>1. \A r : Cardinality(OfKind(h, n, r)) \in Int
  <2>2. ASSUME NEW r PROVE Cardinality(OfKind(h, n, r)) \in Int BY Counted DEF OfKind
  <2>3. QED BY <2>2
<1>2. s \in Seq(Int) /\ Len(s) = m
  <2>1. s \in [1 .. m -> Int] BY <1>1
  <2> HIDE DEF s
  <2>2. QED BY <2>1
<1>3. D \in [0 .. m -> SUBSET A] OBVIOUS
<1>4. D[0] = {} /\ D[m] = A OBVIOUS
<1>5. \A k \in 1 .. m : D[k - 1] \subseteq D[k] OBVIOUS
<1>6. ASSUME NEW k \in 1 .. m PROVE s[k] = Cardinality(Added(D, k))
  <2>1. Added(D, k) = OfKind(h, n, k)
    <3>2. D[k] = {i \in 1 .. n : h[i] <= k} /\ D[k - 1] = {i \in 1 .. n : h[i] <= k - 1} OBVIOUS
    <3> HIDE DEF D
    <3>3. QED BY <3>2 DEF Added, OfKind
  <2>2. QED BY <2>1
<1>7. IsFiniteSet(A) /\ Cardinality(A) = n BY PlacesUpTo
<1> HIDE DEF s, D, A
<1>8. Sum(s) = Cardinality(D[m]) BY <1>2, <1>3, <1>4, <1>5, <1>6, <1>7, Layers
<1>9. QED BY <1>4, <1>7, <1>8 DEF s

\* The steps from one number to the next lead from the first to the last.
LEMMA StepsLead ==
  ASSUME NEW t \in Seq(Int), Len(t) > 0, NEW g \in Seq(Int), Len(t) <= Len(g),
         \A k \in 1 .. Len(g) : g[k] = IF k > 1 /\ k <= Len(t) THEN t[k] - t[k - 1] ELSE 0
  PROVE  Sum(g) = t[Len(t)] - t[1]
<1> DEFINE n == Len(g)  m == Len(t)  Least(k) == IF k <= m THEN k ELSE m
<1>1. n \in Nat /\ m \in 1 .. n /\ \A k \in 1 .. m : t[k] \in Int OBVIOUS
<1>2. PICK f \in [0 .. n -> Int] :
        f[0] = 0 /\ (\A k \in 1 .. n : f[k] = f[k - 1] + g[k]) /\ Sum(g) = f[n]
  BY PartialSums
<1> DEFINE S == {k \in 0 .. n : f[k] = IF k = 0 THEN 0 ELSE t[Least(k)] - t[1]}
<1>3. 0 \in S BY <1>1, <1>2
<1>4. ASSUME NEW k \in 1 .. n, k - 1 \in S PROVE k \in S
  <2>1. /\ f[k] = f[k - 1] + g[k] /\ k \in 0 .. n
        /\ g[k] = IF k > 1 /\ k <= m THEN t[k] - t[k - 1] ELSE 0
        /\ f[k - 1] = IF k - 1 = 0 THEN 0 ELSE t[Least(k - 1)] - t[1]
    BY <1>2, <1>4
  <2> HIDE DEF n, m
  <2>2. t[1] \in Int /\ 1 \in 1 .. m BY <1>1
  <2>3. CASE k = 1 BY <1>1, <2>1, <2>3, <2>2
  <2>4. CASE k > 1 /\ k <= m
    <3>1. t[k] \in Int /\ t[k - 1] \in Int /\ Least(k) = k /\ Least(k - 1) = k - 1 BY <1>1, <2>4
    <3>2. g[k] = t[k] - t[k - 1] /\ f[k - 1] = t[k - 1] - t[1] BY <1>1, <2>1, <2>4, <3>1
    <3>3. f[k] = t[k] - t[1]
      <4> DEFINE x == t[k]  y == t[k - 1]  z == t[1]
      <4>1. x \in Int /\ y \in Int /\ z \in Int /\ f[k] = (y - z) + (x - y)
        BY <2>1, <2>2, <3>1, <3>2
      <4> HIDE DEF x, y, z
      <4>3. QED BY <4>1 DEF x, z
    <3>4. QED BY <2>1, <2>4, <3>1, <3>3
  <2>5. CASE k > 1 /\ k > m
    <3>1. t[m] \in Int /\ Least(k) = m /\ Least(k - 1) = m BY <1>1, <2>5
    <3>2. f[k] = t[m] - t[1] BY <2>1, <2>2, <2>5, <3>1
    <3>3. QED BY <2>1, <2>5, <3>1, <3>2
  <2>7. QED BY <2>3, <2>4, <2>5, <1>1
<1>5. n \in S
  <2> HIDE DEF S, n
  <2>1. \A k \in 0 .. n : k \in S BY <1>1, <1>3, <1>4, UpTo
  <2>2. QED BY <1>1, <2>1
<1>6. QED BY <1>1, <1>2, <1>5

----------------------------------------------------------------------------
(* What the model was fitted on.                                            *)

\* The levels, all and the ones from some level on.
LEMMA LevelsAre ==
  ASSUME NEW w \in Seq(Alerts)
  PROVE  LET levels == [i \in DOMAIN w |-> w[i].level]
         IN  /\ levels \in Seq(Int) /\ Len(levels) = Len(w)
             /\ levels # <<>> <=> w # <<>>
             /\ ToSet(levels) = Levels(w)
             /\ \A l : AtLeast(w, l) = Sum([i \in DOMAIN w |-> IF levels[i] >= l THEN 1 ELSE 0])
<1> DEFINE levels == [i \in DOMAIN w |-> w[i].level]  n == Len(w)
<1>1. DOMAIN w = 1 .. n /\ n \in Nat /\ \A i \in 1 .. n : w[i].level \in 0 .. 15
  BY AlertIs, SMTT(30)
<1>2. levels \in [1 .. n -> Int] BY <1>1
<1>3. \A i \in DOMAIN w : levels[i] = w[i].level OBVIOUS
<1>4. DOMAIN levels = DOMAIN w OBVIOUS
<1> HIDE DEF levels
<1>5. levels \in Seq(Int) /\ Len(levels) = n BY <1>1, <1>2
<1>6. levels # <<>> <=> w # <<>>
  <2> HIDE DEF n
  <2>2. w # <<>> <=> n # 0 BY DEF n
  <2>3. QED BY <1>5, <2>2
<1>7. ToSet(levels) = Levels(w) BY <1>3, <1>4 DEF ToSet, Levels
<1>8. ASSUME NEW l PROVE AtLeast(w, l) = Sum([i \in DOMAIN w |-> IF levels[i] >= l THEN 1 ELSE 0])
  <2> DEFINE I == {i \in DOMAIN w : w[i].level >= l}
  <2>1. I \in SUBSET (1 .. n) BY <1>1
  <2>2. [i \in 1 .. n |-> IF i \in I THEN 1 ELSE 0]
          = [i \in DOMAIN w |-> IF levels[i] >= l THEN 1 ELSE 0]
    BY <1>1, <1>3
  <2>3. AtLeast(w, l) = Cardinality(I) BY DEF AtLeast
  <2> HIDE DEF I, n
  <2>4. Sum([i \in 1 .. n |-> IF i \in I THEN 1 ELSE 0]) = Cardinality(I) BY <1>1, <2>1, OnesAre
  <2>5. QED BY <2>2, <2>3, <2>4
<1>9. QED BY <1>5, <1>6, <1>7, <1>8 DEF levels, n

\* Six numbers and five are eleven.
LEMMA SixAndFive ==
  ASSUME NEW a1, NEW a2, NEW a3, NEW a4, NEW a5, NEW a6, NEW b1, NEW b2, NEW b3, NEW b4, NEW b5
  PROVE  <<a1, a2, a3, a4, a5, a6>> \o <<b1, b2, b3, b4, b5>>
           = <<a1, a2, a3, a4, a5, a6, b1, b2, b3, b4, b5>>
<1> DEFINE s == <<a1, a2, a3, a4, a5, a6>>  t == <<b1, b2, b3, b4, b5>>
           u == <<a1, a2, a3, a4, a5, a6, b1, b2, b3, b4, b5>>
           E == {a1, a2, a3, a4, a5, a6, b1, b2, b3, b4, b5}
<1>1. s \in Seq(E) /\ Len(s) = 6 /\ t \in Seq(E) /\ Len(t) = 5 /\ u \in Seq(E) /\ Len(u) = 11
  OBVIOUS
<1>2. /\ u[1] = s[1] /\ u[2] = s[2] /\ u[3] = s[3] /\ u[4] = s[4] /\ u[5] = s[5] /\ u[6] = s[6]
      /\ u[7] = t[1] /\ u[8] = t[2] /\ u[9] = t[3] /\ u[10] = t[4] /\ u[11] = t[5]
  OBVIOUS
<1> HIDE DEF s, t, u, E
<1>3. s \o t \in Seq(E) /\ Len(s \o t) = 11
      /\ \A i \in 1 .. 11 : (s \o t)[i] = IF i <= 6 THEN s[i] ELSE t[i - 6]
  <2>1. /\ s \o t \in Seq(E) /\ Len(s \o t) = Len(s) + Len(t)
        /\ \A i \in 1 .. Len(s) + Len(t) :
             (s \o t)[i] = IF i <= Len(s) THEN s[i] ELSE t[i - Len(s)]
    BY <1>1, ConcatProperties
  <2>2. Len(s) = 6 /\ Len(s) + Len(t) = 11 BY <1>1
  <2>3. QED BY <2>1, <2>2
<1>4. ASSUME NEW i \in 1 .. 11 PROVE u[i] = IF i <= 6 THEN s[i] ELSE t[i - 6] BY <1>2
<1>6. s \o t = u
  <2> DEFINE v == s \o t
  <2>1. v \in Seq(E) /\ u \in Seq(E) /\ Len(v) = Len(u) /\ \A i \in 1 .. Len(v) : v[i] = u[i]
    BY <1>1, <1>3, <1>4
  <2> HIDE DEF v
  <2>2. v = u BY <2>1, SeqEqual
  <2>3. QED BY <2>2 DEF v
<1>7. QED BY <1>6 DEF s, t, u

\* The scorer's numbers are those the model was fitted on.
LEMMA FeaturesAgree ==
  ASSUME NEW w \in Seq(Alerts)
  PROVE  Features(w) = ShapeOnly(w)
<1> DEFINE at == SortedTimes(w)  gaps == Gaps(at)
           levels == [i \in DOMAIN w |-> w[i].level]
           Ones(l) == Sum([i \in DOMAIN w |-> IF levels[i] >= l THEN 1 ELSE 0])
           a1 == Len(at)
           a2 == IF Len(at) > 1 THEN at[Len(at)] - at[1] ELSE 0
           a3 == Smallest(gaps, 1)
           a4 == NumpyMedian(gaps)
           a5 == Smallest(gaps, Len(gaps))
           a6 == Busiest(at)
           b1 == Cardinality(Rules(w))
           b2 == IF levels = <<>> THEN 0 ELSE Smallest(levels, Len(levels))
           b3 == IF levels = <<>> THEN 0 ELSE (60 * Sum(levels)) \div Len(levels)
           b4 == Ones(7)
           b5 == Ones(10)
<1>1. at \in Seq(Int) /\ Len(at) = Len(w) /\ Len(w) \in Nat BY SortedTimesIs
<1>2. gaps \in Seq(Int) /\ gaps # <<>>
  <2> HIDE DEF at
  <2>1. QED BY <1>1, GapsAre
<1>3. /\ levels \in Seq(Int) /\ Len(levels) = Len(w)
      /\ levels # <<>> <=> w # <<>>
      /\ ToSet(levels) = Levels(w)
      /\ \A l : AtLeast(w, l) = Ones(l)
  BY LevelsAre
<1>4. ShapeOnly(w) = <<a1, a2, a3, a4, a5, a6>> \o <<b1, b2, b3, b4, b5>>
  BY DEF TimingRow, Gaps, NumpyDiff, ShapeOnly
<1> DEFINE c2 == IF Len(w) > 1 THEN Last(at) - Head(at) ELSE 0
           c9 == IF w = <<>> THEN 0 ELSE (60 * Sum(levels)) \div Len(w)
<1>5. Features(w) = << Len(w), c2, Min(ToSet(gaps)), Median(gaps), Max(ToSet(gaps)), a6,
                       b1, Highest(Levels(w)), c9, AtLeast(w, 7), AtLeast(w, 10) >>
  BY DEF Features
<1>6. c2 = a2
  <2> HIDE DEF at
  <2>1. CASE Len(w) > 1 BY <1>1, <2>1 DEF Last
  <2>2. CASE ~(Len(w) > 1) BY <1>1, <2>2
  <2>3. QED BY <2>1, <2>2
<1>7. Min(ToSet(gaps)) = a3 /\ Max(ToSet(gaps)) = a5 /\ Median(gaps) = a4
  <2> HIDE DEF gaps
  <2>1. QED BY <1>2, EndsAre, MediansAgree
<1>8. Highest(Levels(w)) = b2
  <2> HIDE DEF levels
  <2>1. CASE levels = <<>> BY <2>1, <1>3 DEF ToSet, Highest
  <2>2. CASE levels # <<>>
    <3>2. ToSet(levels) # {}
      <4>1. 1 \in DOMAIN levels BY <1>3, <2>2
      <4>2. QED BY <4>1 DEF ToSet
    <3>3. QED BY <1>3, <2>2, EndsAre, <3>2 DEF Highest
  <2>3. QED BY <2>1, <2>2
<1>9. c9 = b3
  <2> HIDE DEF levels
  <2>1. QED BY <1>3
<1>10. AtLeast(w, 7) = b4 /\ AtLeast(w, 10) = b5 BY <1>3
<1>11. Len(w) = a1 BY <1>1
<1> HIDE DEF a1, a2, a3, a4, a5, a6, b1, b2, b3, b4, b5, c2, c9, at, gaps, levels, Ones
<1>12. Features(w) = <<a1, a2, a3, a4, a5, a6, b1, b2, b3, b4, b5>>
  BY <1>5, <1>6, <1>7, <1>8, <1>9, <1>10, <1>11
<1>13. QED BY <1>4, <1>12, SixAndFive

----------------------------------------------------------------------------
(* What the sequence models read.                                           *)

\* Of whatever has a time.
Timed(E) == \A e \in E : e.at \in Int

\* Sorted by time, the elements are the same in another order, and their times rise.
LEMMA SortedAt ==
  ASSUME NEW E, Timed(E), NEW w \in Seq(E)
  PROVE  LET t == Sorted(w, Sooner)
         IN  /\ t \in Seq(E) /\ Len(t) = Len(w) /\ Reordered(t, w, Len(w))
             /\ \A k, l \in 1 .. Len(w) : k <= l => t[k].at <= t[l].at
<1> DEFINE n == Len(w)
           At(i)    == w[i].at
           Leading(i) == {j \in DOMAIN w : Sooner(w[j], w[i]) \/ (~Sooner(w[i], w[j]) /\ j < i)}
           ahead    == [i \in DOMAIN w |-> Leading(i)]
           line     == InLine(DOMAIN w, ahead)
           t        == [k \in DOMAIN w |-> w[line[k]]]
<1>1. n \in Nat /\ DOMAIN w = 1 .. n /\ \A i \in DOMAIN w : At(i) \in Int BY DEF Timed
<1>2. Sorted(w, Sooner) = t BY DEF Sorted
<1>3. ahead \in [DOMAIN w -> SUBSET DOMAIN w] OBVIOUS
<1>4. \A i, j \in DOMAIN w : j \in ahead[i] <=> At(j) < At(i) \/ (~(At(i) < At(j)) /\ j < i)
  BY DEF Sooner
<1>5. DOMAIN w \subseteq Int /\ IsFiniteSet(DOMAIN w) /\ Cardinality(DOMAIN w) = n
  BY <1>1, PlacesUpTo
<1> HIDE DEF At, ahead
<1>6. \A i \in DOMAIN w : i \notin ahead[i] BY <1>1, <1>4, <1>5
<1>8. \A i \in DOMAIN w : \A j \in ahead[i] : ahead[j] \subseteq ahead[i]
  <2> SUFFICES ASSUME NEW i \in DOMAIN w, NEW j \in ahead[i], NEW k \in ahead[j]
               PROVE  k \in ahead[i]
    OBVIOUS
  <2>2. QED BY <1>1, <1>4, <1>5, <1>3
<1>9. IsLine(DOMAIN w, ahead) BY <1>3, <1>5, <1>6, <1>1, <1>4, <1>8 DEF IsLine
<1>10. Lined(line, DOMAIN w, ahead) BY <1>9, LineIs
<1>11. /\ line \in [1 .. n -> 1 .. n]
       /\ \A i \in 1 .. n : \E k \in 1 .. n : line[k] = i
       /\ \A k, l \in 1 .. n : k < l => line[k] \in ahead[line[l]]
  BY <1>1, <1>5, <1>10 DEF Lined
<1> HIDE DEF line
<1>12. Shuffles(line, n)
  <2>1. ASSUME NEW i \in 1 .. n, NEW j \in 1 .. n, line[i] = line[j] PROVE i = j
    <3>2. ~(i < j) /\ ~(j < i) BY <1>11, <1>1, <1>6, <2>1
    <3>3. QED BY <1>1, <3>2
  <2>2. QED BY <1>11, <2>1 DEF Shuffles
<1>13. t = [k \in 1 .. n |-> w[line[k]]] BY <1>1
<1> HIDE DEF n, t
<1>15. t \in Seq(E) /\ Len(t) = n BY <1>1, <1>13, <1>11
<1>16. \A k \in 1 .. n : t[k] = w[line[k]] BY <1>13
<1>17. Reordered(t, w, n) BY <1>12, <1>16 DEF Reordered
<1>18. ASSUME NEW k \in 1 .. n, NEW l \in 1 .. n, k <= l PROVE t[k].at <= t[l].at
  <2>1. line[k] \in DOMAIN w /\ line[l] \in DOMAIN w BY <1>1, <1>11
  <2>2. t[k].at = At(line[k]) /\ t[l].at = At(line[l]) /\ At(line[k]) \in Int /\ At(line[l]) \in Int
    BY <1>1, <1>16, <2>1 DEF At
  <2>3. CASE k = l BY <2>2, <2>3
  <2>4. CASE k < l
    <3>2. At(line[k]) < At(line[l]) \/ ~(At(line[l]) < At(line[k])) BY <1>4, <2>1, <1>11, <2>4
    <3>3. QED BY <2>2, <3>2
  <2>5. QED BY <1>1, <1>18, <2>3, <2>4
<1>19. QED BY <1>2, <1>15, <1>17, <1>18 DEF n

\* So are the alerts.
LEMMA SortedAlerts ==
  ASSUME NEW w \in Seq(Alerts)
  PROVE  LET t == Sorted(w, Sooner)
         IN  /\ t \in Seq(Alerts) /\ Len(t) = Len(w) /\ Reordered(t, w, Len(w))
             /\ \A k, l \in 1 .. Len(w) : k <= l => t[k].at <= t[l].at
  BY SortedAt DEF Timed, Alerts

\* The times of the sorted alerts are the sorted times.
LEMMA TimesSorted ==
  ASSUME NEW w \in Seq(Alerts), NEW k \in 1 .. Len(w)
  PROVE  SortedTimes(w)[k] = Sorted(w, Sooner)[k].at
<1> DEFINE n == Len(w)  t == Sorted(w, Sooner)
           s == [i \in DOMAIN w |-> w[i].at]
           u == [i \in 1 .. n |-> t[i].at]
           a == Ascending(s)
<1>1. n \in Nat /\ DOMAIN w = 1 .. n /\ \A i \in 1 .. n : w[i].at \in Int BY AlertIs, SMTT(30)
<1>2. /\ t \in Seq(Alerts) /\ Len(t) = n /\ Reordered(t, w, n)
      /\ \A i, j \in 1 .. n : i <= j => t[i].at <= t[j].at
  BY SortedAlerts
<1>3. s \in Seq(Int) /\ Len(s) = n
  <2>1. s \in [1 .. n -> Int] BY <1>1
  <2> HIDE DEF s
  <2>2. QED BY <1>1, <2>1
<1>4. \A i \in 1 .. n : t[i].at \in Int
  <2> HIDE DEF t
  <2>2. QED BY <1>2, AlertIs
<1>5. u \in Seq(Int) /\ Len(u) = n
  <2>1. u \in [1 .. n -> Int] BY <1>4
  <2> HIDE DEF u
  <2>2. QED BY <1>1, <2>1
<1>6. \A i \in 1 .. n : u[i] = t[i].at /\ s[i] = w[i].at BY <1>1
<1>7. SortedTimes(w) = a BY DEF SortedTimes
<1> HIDE DEF s, u, t, n
<1>8. InOrder(u) BY <1>2, <1>5, <1>6 DEF InOrder
<1>9. Reordered(u, s, n)
  <2>1. PICK f : Shuffles(f, n) /\ \A i \in 1 .. n : t[i] = w[f[i]] BY <1>2 DEF Reordered
  <2>2. \A i \in 1 .. n : f[i] \in 1 .. n BY <2>1 DEF Shuffles
  <2>3. \A i \in 1 .. n : u[i] = s[f[i]] BY <1>6, <2>1, <2>2
  <2>4. QED BY <2>1, <2>3 DEF Reordered
<1>10. a \in Seq(Int) /\ Len(a) = n /\ InOrder(a) /\ Reordered(a, s, n) BY <1>3, AscendingOrders
<1>11. k \in 1 .. Len(s) BY <1>3 DEF n
<1> HIDE DEF a
<1>12. Smallest(s, k) = a[k] /\ Smallest(s, k) = u[k]
  BY <1>3, <1>5, <1>8, <1>9, <1>10, <1>11, SmallestIs
<1>13. QED BY <1>3, <1>6, <1>7, <1>11, <1>12 DEF t

\* A rule has a place, among those the vocabulary knows or after them.
LEMMA IndexIs ==
  ASSUME NEW vocab \in Seq(Int), NEW r
  PROVE  Index(vocab, r) \in 1 .. Len(vocab) + 1
<1>1. Len(vocab) \in Nat /\ DOMAIN vocab = 1 .. Len(vocab) OBVIOUS
<1>2. CASE r \in Range(vocab)
  <2>2. (CHOOSE i \in DOMAIN vocab : vocab[i] = r) \in 1 .. Len(vocab) BY <1>1, <1>2 DEF Range
  <2> DEFINE c == CHOOSE i \in DOMAIN vocab : vocab[i] = r
  <2> HIDE DEF c
  <2>4. QED BY <1>1, <1>2, <2>2 DEF Index
<1>3. CASE r \notin Range(vocab) BY <1>1, <1>3 DEF Index
<1>4. QED BY <1>2, <1>3

Kept(w, most) == IF Len(w) <= most THEN Len(w) ELSE most
Skipped(w, most) == Len(w) - Kept(w, most)

\* What a row holds: the latest alerts in order of time, and nothing behind them.
LEMMA RowIs ==
  ASSUME NEW w \in Seq(Alerts), NEW vocab \in Seq(Int), NEW most \in Nat \ {0}
  PROVE  LET row == Rolled(Sequence(w, vocab, most), most)
             t   == Sorted(w, Sooner)
         IN  /\ DOMAIN row.gaps = 1 .. most
             /\ \A k \in 1 .. most :
                  /\ row.ids[k] = IF k <= Kept(w, most)
                                  THEN Index(vocab, t[k + Skipped(w, most)].rule) ELSE Pad
                  /\ row.gaps[k] = IF 1 < k /\ k <= Kept(w, most)
                                   THEN t[k + Skipped(w, most)].at - t[k - 1 + Skipped(w, most)].at
                                   ELSE 0
<1> DEFINE n == Len(w)  t == Sorted(w, Sooner)  L == Kept(w, most)  d == Skipped(w, most)
           from == Max({1, Len(w) - most + 1})
           kept == SubSeq(t, from, Len(w))
           Place(k) == k - (most - Len(kept))
           seq == Sequence(w, vocab, most)
           row == Rolled(seq, most)
<1>1. n \in Nat /\ t \in Seq(Alerts) /\ Len(t) = n BY SortedAlerts
<1>2. L \in Nat /\ d \in Nat /\ L <= most /\ L <= n /\ n = L + d /\ from = d + 1
  <2> DEFINE m == n - most + 1
  <2>1. 1 \in Int /\ m \in Int BY <1>1
  <2>2. from = Max({1, m}) OBVIOUS
  <2> HIDE DEF m, from, n
  <2>3. from = IF 1 >= m THEN 1 ELSE m BY <2>1, <2>2, OfTwo
  <2>4. from = IF 1 >= n - most + 1 THEN 1 ELSE n - most + 1 BY <2>3 DEF m
  <2>5. L = (IF n <= most THEN n ELSE most) /\ d = n - L BY DEF Kept, Skipped, n
  <2> HIDE DEF L, d
  <2>6. CASE n <= most BY <1>1, <2>4, <2>5, <2>6
  <2>7. CASE ~(n <= most) BY <1>1, <2>4, <2>5, <2>7
  <2>8. QED BY <2>6, <2>7
<1>3. seq = [length |-> Len(kept),
             ids    |-> [k \in 1 .. most |-> IF Place(k) < 1 THEN Pad ELSE Index(vocab, kept[Place(k)].rule)],
             gaps   |-> [k \in 1 .. most |->
                           IF Place(k) <= 1 THEN 0 ELSE kept[Place(k)].at - kept[Place(k) - 1].at]]
  BY DEF Sequence
<1> HIDE DEF n, t, L, d, from, seq
<1>4. Len(kept) = L /\ \A k \in 1 .. L : kept[k] = t[k + d]
  <2>2. from \in Int /\ n \in Int BY <1>1, <1>2
  <2>3. /\ Len(SubSeq(t, from, n)) = IF from <= n THEN n - from + 1 ELSE 0
        /\ \A i \in 1 .. n - from + 1 : SubSeq(t, from, n)[i] = t[from + i - 1]
    BY <1>1, <1>2, <2>2, SubSeqProperties
  <2>4. kept = SubSeq(t, from, n) BY DEF n
  <2> HIDE DEF kept
  <2>5. n - from + 1 = L /\ (from <= n <=> L > 0) /\ \A i \in 1 .. L : from + i - 1 = i + d
    BY <1>1, <1>2
  <2>7. ASSUME NEW k \in 1 .. L PROVE kept[k] = t[k + d] BY <2>3, <2>4, <2>5
  <2>8. QED BY <2>3, <2>4, <2>5, <1>2, <2>7
<1> HIDE DEF kept
<1>5. row = [length |-> L,
             ids    |-> [k \in 1 .. most |-> IF k <= L THEN seq.ids[most - L + k] ELSE Pad],
             gaps   |-> [k \in 1 .. most |-> IF k <= L THEN seq.gaps[most - L + k] ELSE 0]]
  BY <1>3, <1>4 DEF Rolled
<1>6. ASSUME NEW k \in 1 .. most, k <= L
      PROVE  /\ seq.ids[most - L + k] = Index(vocab, t[k + d].rule)
             /\ seq.gaps[most - L + k] = IF 1 < k THEN t[k + d].at - t[k - 1 + d].at ELSE 0
  <2> DEFINE j == most - L + k
  <2>1. j \in 1 .. most /\ k \in 1 .. L /\ Place(j) = k /\ ~(k < 1) BY <1>2, <1>4, <1>6
  <2> HIDE DEF j, Place
  <2>3. seq.ids[j] = Index(vocab, kept[k].rule)
        /\ seq.gaps[j] = IF k <= 1 THEN 0 ELSE kept[k].at - kept[k - 1].at
    BY <2>1, <1>3
  <2>5. 1 < k => kept[k - 1] = t[k - 1 + d] BY <1>2, <2>1, <1>4
  <2>6. k <= 1 <=> ~(1 < k) BY <2>1
  <2>7. QED BY <2>3, <1>4, <2>1, <2>5, <2>6 DEF j
<1> HIDE DEF row
<1>8. ASSUME NEW k \in 1 .. most
      PROVE  /\ row.ids[k] = IF k <= L THEN Index(vocab, t[k + d].rule) ELSE Pad
             /\ row.gaps[k] = IF 1 < k /\ k <= L THEN t[k + d].at - t[k - 1 + d].at ELSE 0
  <2>1. /\ row.ids[k] = IF k <= L THEN seq.ids[most - L + k] ELSE Pad
        /\ row.gaps[k] = IF k <= L THEN seq.gaps[most - L + k] ELSE 0
    BY <1>5
  <2>2. CASE k <= L BY <1>6, <2>1, <2>2
  <2>3. CASE ~(k <= L) BY <2>1, <2>3
  <2>4. QED BY <2>2, <2>3
<1>9. QED BY <1>5, <1>8 DEF row, seq, t, L, d

\* Where what is kept begins.
LEMMA KeptFrom ==
  ASSUME NEW n \in Nat, NEW most \in Nat \ {0}
  PROVE  /\ Max({1, n - most + 1}) = IF n <= most THEN 1 ELSE n - most + 1
         /\ Min({n, most}) = IF n <= most THEN n ELSE most
<1> DEFINE m == n - most + 1
<1>1. 1 \in Int /\ m \in Int /\ n \in Int /\ most \in Int OBVIOUS
<1> HIDE DEF m
<1>2. Max({1, m}) = IF 1 >= m THEN 1 ELSE m BY <1>1, OfTwo
<1>3. Min({n, most}) = IF n <= most THEN n ELSE most BY <1>1, OfTwo
<1>4. 1 >= m <=> n <= most BY DEF m
<1>5. QED BY <1>2, <1>3, <1>4 DEF m

\* Every alert is counted, as one of its rule or of none the vocabulary knows.
LEMMA CountsAre ==
  ASSUME NEW w \in Seq(Alerts), NEW vocab \in Seq(Int)
  PROVE  /\ DOMAIN Counts(w, vocab) = 1 .. Len(vocab) + 1
         /\ \A r \in 1 .. Len(vocab) + 1 :
              Counts(w, vocab)[r] = Cardinality({k \in 1 .. Len(w) : Index(vocab, w[k].rule) = r})
         /\ Sum(Counts(w, vocab)) = Len(w)
<1> DEFINE n == Len(w)  m == Len(vocab) + 1  h == [k \in 1 .. n |-> Index(vocab, w[k].rule)]
<1>1. n \in Nat /\ m \in Nat /\ DOMAIN w = 1 .. n OBVIOUS
<1>2. h \in [1 .. n -> 1 .. m] BY IndexIs
<1>4. Counts(w, vocab) = [r \in 1 .. m |-> Cardinality({k \in 1 .. n : Index(vocab, w[k].rule) = r})]
  BY <1>1 DEF Counts
<1>5. Counts(w, vocab) = [r \in 1 .. m |-> Cardinality(OfKind(h, n, r))] BY <1>4 DEF OfKind
<1> HIDE DEF h, n, m
<1>6. Sum([r \in 1 .. m |-> Cardinality(OfKind(h, n, r))]) = n
  BY <1>1, <1>2, KindsAre, ZenonT(30)
<1>7. QED BY <1>4, <1>5, <1>6 DEF n, m

\* A row is padded behind what it holds, its gaps lead from the first alert it holds to
\* the last, and with nothing left out it holds each rule as often as the window.
LEMMA RowsAgree ==
  ASSUME NEW w \in Seq(Alerts), NEW vocab \in Seq(Int), NEW most \in Nat \ {0}
  PROVE  LET row  == Rolled(Sequence(w, vocab, most), most)
             from == Max({1, Len(w) - most + 1})
         IN  /\ \A k \in 1 .. most : row.ids[k] # Pad <=> k <= Min({Len(w), most})
             /\ w # <<>> => Sum(row.gaps) = SortedTimes(w)[Len(w)] - SortedTimes(w)[from]
             /\ from = 1 => \A r \in DOMAIN Counts(w, vocab) :
                               Cardinality({k \in 1 .. most : row.ids[k] = r}) = Counts(w, vocab)[r]
<1> DEFINE n == Len(w)  t == Sorted(w, Sooner)  L == Kept(w, most)  d == Skipped(w, most)
           from == Max({1, Len(w) - most + 1})
           row == Rolled(Sequence(w, vocab, most), most)
           at == SortedTimes(w)
           counts == Counts(w, vocab)
<1>1. /\ n \in Nat /\ DOMAIN w = 1 .. n
      /\ t \in Seq(Alerts) /\ Len(t) = n /\ Reordered(t, w, n)
  BY SortedAlerts
<1>2. /\ DOMAIN row.gaps = 1 .. most
      /\ \A k \in 1 .. most :
           /\ row.ids[k] = IF k <= L THEN Index(vocab, t[k + d].rule) ELSE Pad
           /\ row.gaps[k] = IF 1 < k /\ k <= L THEN t[k + d].at - t[k - 1 + d].at ELSE 0
  BY RowIs
<1>3. /\ from = IF n <= most THEN 1 ELSE n - most + 1
      /\ Min({n, most}) = IF n <= most THEN n ELSE most
  BY <1>1, KeptFrom
<1>4. L = (IF n <= most THEN n ELSE most) /\ d = n - L BY DEF Kept, Skipped
<1>5. \A k \in 1 .. n : at[k] = t[k].at /\ t[k].at \in Int
  <2>1. \A k \in 1 .. n : at[k] = t[k].at BY TimesSorted
  <2> HIDE DEF t
  <2>2. \A k \in 1 .. Len(t) : t[k].at \in Int BY <1>1, AlertIs
  <2>3. QED BY <1>1, <2>1, <2>2
<1>6. \A r : Index(vocab, r) \in 1 .. Len(vocab) + 1 /\ Index(vocab, r) # Pad BY IndexIs DEF Pad
<1>7. /\ DOMAIN counts = 1 .. Len(vocab) + 1
      /\ \A r \in 1 .. Len(vocab) + 1 :
           counts[r] = Cardinality({k \in 1 .. n : Index(vocab, w[k].rule) = r})
  BY CountsAre
<1> HIDE DEF n, t, L, d, from, row, at, counts
<1>9. /\ L \in Nat /\ d \in Nat /\ L <= most /\ n = L + d /\ from = d + 1
      /\ Min({n, most}) = L
  <2>1. CASE n <= most BY <1>1, <1>3, <1>4, <2>1
  <2>2. CASE ~(n <= most) BY <1>1, <1>3, <1>4, <2>2
  <2>3. QED BY <2>1, <2>2
<1>10. \A k \in 1 .. most : row.ids[k] # Pad <=> k <= Min({n, most}) BY <1>2, <1>6, <1>9
<1>11. ASSUME n # 0 PROVE Sum(row.gaps) = at[n] - at[from]
  <2> DEFINE u == [k \in 1 .. L |-> t[k + d].at]  g == row.gaps
  <2>1. L > 0 BY <1>1, <1>4, <1>11
  <2>2. \A k \in 1 .. L : k + d \in 1 .. n /\ t[k + d].at \in Int BY <1>9, <1>5
  <2>3. u \in Seq(Int) /\ Len(u) = L
    <3>1. u \in [1 .. L -> Int] BY <2>2
    <3> HIDE DEF u
    <3>2. QED BY <1>9, <3>1
  <2>4. \A k \in 1 .. L : u[k] = t[k + d].at OBVIOUS
  <2> HIDE DEF u
  <2>5. ASSUME NEW k \in 1 .. most
        PROVE  row.gaps[k] = IF k > 1 /\ k <= L THEN u[k] - u[k - 1] ELSE 0
    <3>1. row.gaps[k] = IF 1 < k /\ k <= L THEN t[k + d].at - t[k - 1 + d].at ELSE 0 BY <1>2
    <3>2. CASE k > 1 /\ k <= L BY <1>9, <3>2, <2>4, <3>1
    <3>3. CASE ~(k > 1 /\ k <= L) BY <3>1, <3>3
    <3>4. QED BY <3>2, <3>3
  <2>6. g \in Seq(Int) /\ Len(g) = most
    <3>1. \A k \in 1 .. most : row.gaps[k] \in Int
      <4>1. ASSUME NEW k \in 1 .. most PROVE row.gaps[k] \in Int
        <5>1. CASE k > 1 /\ k <= L
          <6>2. u[k] \in Int /\ u[k - 1] \in Int BY <2>3, <1>9, <5>1
          <6>3. QED BY <2>5, <5>1, <6>2
        <5>2. CASE ~(k > 1 /\ k <= L) BY <2>5, <5>2
        <5>3. QED BY <5>1, <5>2
      <4>2. QED BY <4>1
    <3>3. g \in [1 .. most -> Int] BY <1>2, <3>1 DEF row, Rolled
    <3> HIDE DEF g
    <3>4. QED BY <3>3
  <2>7. \A k \in 1 .. most : g[k] = IF k > 1 /\ k <= Len(u) THEN u[k] - u[k - 1] ELSE 0
    BY <2>3, <2>5
  <2> HIDE DEF g
  <2>8. Sum(g) = u[Len(u)] - u[1] BY <1>9, <2>1, <2>3, <2>6, <2>7, StepsLead
  <2>9. u[Len(u)] = at[n] /\ u[1] = at[from]
    <3>1. 1 \in 1 .. L /\ L \in 1 .. L /\ L + d = n /\ 1 + d = from BY <1>9, <2>1
    <3>2. QED BY <1>5, <2>2, <2>3, <2>4, <3>1
  <2>10. QED BY <2>8, <2>9 DEF g
<1>12. ASSUME from = 1, NEW r \in DOMAIN counts
       PROVE  Cardinality({k \in 1 .. most : row.ids[k] = r}) = counts[r]
  <2> DEFINE K == {k \in 1 .. n : Index(vocab, t[k].rule) = r}
             J == {k \in 1 .. n : Index(vocab, w[k].rule) = r}
  <2>1. d = 0 /\ L = n /\ n <= most /\ r \in 1 .. Len(vocab) + 1 /\ r # Pad
    BY <1>7, <1>9, <1>12 DEF Pad
  <2>2. {k \in 1 .. most : row.ids[k] = r} = K BY <2>1, <1>2, <1>1
  <2>3. PICK f : Shuffles(f, n) /\ \A k \in 1 .. n : t[k] = w[f[k]] BY <1>1 DEF Reordered
  <2>4. /\ \A k \in 1 .. n : f[k] \in 1 .. n
        /\ \A i, j \in 1 .. n : f[i] = f[j] => i = j
        /\ \A i \in 1 .. n : \E k \in 1 .. n : f[k] = i
    BY <2>3 DEF Shuffles
  <2>5. J = {f[k] : k \in K}
    <3>1. ASSUME NEW i \in J PROVE i \in {f[k] : k \in K}
      <4>1. PICK k \in 1 .. n : f[k] = i BY <2>4
      <4>3. QED BY <4>1, <2>3
    <3>2. ASSUME NEW k \in K PROVE f[k] \in J BY <2>3, <2>4
    <3>3. QED BY <3>1, <3>2
  <2>6. IsFiniteSet(K) /\ \A i, j \in K : f[i] = f[j] => i = j BY <1>1, Counted, <2>4
  <2>7. counts[r] = Cardinality(J) BY <1>7, <2>1
  <2> HIDE DEF K, J
  <2>8. Cardinality({f[k] : k \in K}) = Cardinality(K) BY <2>6, ImageOf, SMTT(30)
  <2>9. QED BY <2>2, <2>5, <2>7, <2>8
<1>13. w # <<>> => n # 0 BY <1>1 DEF n
<1>14. QED BY <1>10, <1>11, <1>12, <1>13 DEF n, from, row, at, counts

\* For every window, in whatever order its alerts come, every vocabulary and any length of
\* a sequence: the scorer's eleven numbers are those of features.py, numpy's median and
\* extremes included, counts by rule leave no alert out, and the sequence models' rows
\* hold the latest alerts in order of time (score.py 44-80, features.py 106-230, train.py 65-77).
THEOREM ScorerAsFitted == Spec => []ScorerReadsWhatWasFitted
<1>1. GivenIs => ScorerReadsWhatWasFitted
  <2>1. SUFFICES ASSUME GivenIs, given[1] = "burst" PROVE ScorerReadsWhatWasFitted
    BY DEF ScorerReadsWhatWasFitted
  <2> DEFINE w == given[2].window  vocab == given[2].vocab
  <2>2. w \in Seq(Alerts) /\ vocab \in Seq(Int)
    BY <2>1, BurstsAssumption DEF GivenIs, IsWindow, BurstsAssumption
  <2> HIDE DEF w, vocab
  <2>3. Features(w) = ShapeOnly(w) BY <2>2, FeaturesAgree
  <2>4. Sum(Counts(w, vocab)) = Len(w) BY <2>2, CountsAre
  <2>5. Features(w)[1] = Len(w) BY DEF Features
  <2>6. ASSUME NEW most \in {2, 5}
        PROVE  LET row  == Rolled(Sequence(w, vocab, most), most)
                   from == Max({1, Len(w) - most + 1})
               IN  /\ \A k \in 1 .. most : row.ids[k] # Pad <=> k <= Min({Len(w), most})
                   /\ w # <<>> => Sum(row.gaps) = SortedTimes(w)[Len(w)] - SortedTimes(w)[from]
                   /\ from = 1 => \A r \in DOMAIN Counts(w, vocab) :
                                     Cardinality({k \in 1 .. most : row.ids[k] = r}) = Counts(w, vocab)[r]
    <3>1. most \in Nat \ {0} OBVIOUS
    <3>2. QED BY <2>2, <3>1, RowsAgree
  <2>7. QED BY <2>3, <2>4, <2>5, <2>6 DEF ScorerReadsWhatWasFitted, w, vocab
<1>2. QED BY <1>1, GivenCase, PTL

----------------------------------------------------------------------------
(* Alerts the other way round.                                              *)

\* t is s read from its end.
Backwards(t, s) == Len(t) = Len(s) /\ \A k \in 1 .. Len(s) : t[k] = s[Len(s) + 1 - k]

\* As many places qualify from either end.
LEMMA CountedBackwards ==
  ASSUME NEW n \in Nat, NEW I \in SUBSET (1 .. n), NEW J \in SUBSET (1 .. n),
         \A k \in 1 .. n : k \in J <=> n + 1 - k \in I
  PROVE  Cardinality(J) = Cardinality(I)
<1> DEFINE f == [k \in J |-> n + 1 - k]
<1>1. IsFiniteSet(J) BY Counted
<1>2. \A i, j \in J : f[i] = f[j] => i = j OBVIOUS
<1>3. {f[i] : i \in J} = I
  <2>1. ASSUME NEW i \in I PROVE \E k \in J : f[k] = i OBVIOUS
  <2>2. ASSUME NEW k \in J PROVE f[k] \in I OBVIOUS
  <2> HIDE DEF f
  <2>3. QED BY <2>1, <2>2
<1> HIDE DEF f
<1>4. Cardinality({f[i] : i \in J}) = Cardinality(J) BY <1>1, <1>2, ImageOf
<1>5. QED BY <1>3, <1>4

\* The k-th smallest is the same from either end.
LEMMA SmallestBackwards ==
  ASSUME NEW s \in Seq(Int), NEW t \in Seq(Int), Backwards(t, s), NEW k
  PROVE  Smallest(t, k) = Smallest(s, k)
<1> DEFINE n == Len(s)
<1>1. /\ n \in Nat /\ DOMAIN s = 1 .. n /\ DOMAIN t = 1 .. n
      /\ \A i \in 1 .. n : t[i] = s[n + 1 - i]
  BY DEF Backwards
<1>2. ToSet(t) = ToSet(s)
  <2>1. ASSUME NEW i \in 1 .. n PROVE n + 1 - i \in 1 .. n /\ t[n + 1 - i] = s[i] BY <1>1
  <2>2. ASSUME NEW x \in ToSet(s) PROVE x \in ToSet(t)
    <3>1. PICK i \in 1 .. n : x = s[i] BY <1>1 DEF ToSet
    <3>3. QED BY <1>1, <2>1, <3>1 DEF ToSet
  <2>3. ASSUME NEW x \in ToSet(t) PROVE x \in ToSet(s)
    <3>1. PICK i \in 1 .. n : x = t[i] BY <1>1 DEF ToSet
    <3>3. QED BY <1>1, <2>1, <3>1 DEF ToSet
  <2>4. QED BY <2>2, <2>3
<1>3. ASSUME NEW v
      PROVE  /\ Cardinality({i \in DOMAIN t : t[i] < v}) = Cardinality({i \in DOMAIN s : s[i] < v})
             /\ Cardinality({i \in DOMAIN t : t[i] <= v}) = Cardinality({i \in DOMAIN s : s[i] <= v})
  <2> DEFINE I == {i \in DOMAIN s : s[i] < v}   J == {i \in DOMAIN t : t[i] < v}
             K == {i \in DOMAIN s : s[i] <= v}  L == {i \in DOMAIN t : t[i] <= v}
  <2>0. \A i \in 1 .. n : n + 1 - i \in 1 .. n BY <1>1
  <2>1. I \in SUBSET (1 .. n) /\ J \in SUBSET (1 .. n) /\ \A i \in 1 .. n : i \in J <=> n + 1 - i \in I
    BY <1>1, <2>0
  <2>2. K \in SUBSET (1 .. n) /\ L \in SUBSET (1 .. n) /\ \A i \in 1 .. n : i \in L <=> n + 1 - i \in K
    BY <1>1, <2>0
  <2> HIDE DEF I, J, K, L, n
  <2>3. Cardinality(J) = Cardinality(I) BY <1>1, <2>1, CountedBackwards
  <2>4. Cardinality(L) = Cardinality(K) BY <1>1, <2>2, CountedBackwards
  <2>5. QED BY <2>3, <2>4 DEF I, J, K, L
<1>4. QED BY <1>2, <1>3 DEF Smallest

\* Put in order, a sequence is the same from either end.
LEMMA AscendingBackwards ==
  ASSUME NEW s \in Seq(Int), NEW t \in Seq(Int), Backwards(t, s)
  PROVE  Ascending(t) = Ascending(s)
<1> DEFINE n == Len(s)  a == Ascending(s)  b == Ascending(t)
<1>1. n \in Nat /\ Len(t) = n BY DEF Backwards
<1>2. a \in Seq(Int) /\ Len(a) = n /\ InOrder(a) /\ Reordered(a, s, n) BY AscendingOrders
<1>3. b \in Seq(Int) /\ Len(b) = n /\ InOrder(b) /\ Reordered(b, t, n) BY <1>1, AscendingOrders
<1> HIDE DEF a, b
<1>4. ASSUME NEW k \in 1 .. n PROVE b[k] = a[k]
  <2>2. Smallest(t, k) = b[k] BY <1>1, <1>3, SmallestIs
  <2>3. QED BY <1>2, SmallestIs, <2>2, SmallestBackwards
<1>5. b = a
  <2> HIDE DEF n
  <2>1. QED BY <1>2, <1>3, <1>4, SeqEqual
<1>6. QED BY <1>5 DEF a, b

\* A sum is the same from either end.
LEMMA SumBackwards ==
  ASSUME NEW s \in Seq(Int), NEW t \in Seq(Int), Backwards(t, s)
  PROVE  Sum(t) = Sum(s)
<1> DEFINE n == Len(s)
<1>1. n \in Nat /\ Len(t) = n /\ \A i \in 1 .. n : t[i] = s[n + 1 - i] /\ s[i] \in Int /\ t[i] \in Int
  BY DEF Backwards
<1>2. PICK f \in [0 .. n -> Int] :
        f[0] = 0 /\ (\A k \in 1 .. n : f[k] = f[k - 1] + s[k]) /\ Sum(s) = f[n]
  BY PartialSums
<1>3. PICK g \in [0 .. n -> Int] :
        g[0] = 0 /\ (\A k \in 1 .. n : g[k] = g[k - 1] + t[k]) /\ Sum(t) = g[n]
  BY <1>1, PartialSums
<1> DEFINE S == {k \in 0 .. n : g[k] = f[n] - f[n - k]}
<1> HIDE DEF n
<1>4. 0 \in S BY <1>1, <1>2, <1>3
<1>5. ASSUME NEW k \in 1 .. n, k - 1 \in S PROVE k \in S
  <2> DEFINE m == n + 1 - k
  <2>1. m \in 1 .. n /\ m - 1 = n - k /\ n - (k - 1) = m /\ k \in 0 .. n /\ n - k \in 0 .. n /\ n \in 0 .. n
        /\ m \in 0 .. n
    BY <1>1
  <2>3. f[m] = f[n - k] + s[m] BY <1>2, <2>1
  <2>4. g[k] = g[k - 1] + s[m] BY <1>1, <1>3
  <2> HIDE DEF m
  <2>6. g[k] = f[n] - f[n - k]
    <3>1. g[k] = f[n] - (f[n - k] + s[m]) + s[m] BY <1>5, <2>1, <2>3, <2>4
    <3> DEFINE x == f[n]  y == f[n - k]  z == s[m]
    <3>2. x \in Int /\ y \in Int /\ z \in Int /\ g[k] = x - (y + z) + z
      BY <1>1, <1>2, <2>1, <3>1
    <3> HIDE DEF x, y, z
    <3>4. QED BY <3>2 DEF x, y
  <2>7. QED BY <2>1, <2>6
<1>6. n \in S
  <2> HIDE DEF S
  <2>1. \A k \in 0 .. n : k \in S BY <1>1, <1>4, <1>5, UpTo
  <2>2. QED BY <1>1, <2>1
<1>8. f[n] \in Int BY <1>1, <1>2
<1>9. QED BY <1>2, <1>3, <1>1, <1>6, <1>8

\* The eleven numbers are the same from either end.
LEMMA FeaturesBackwards ==
  ASSUME NEW v \in Seq(Alerts), NEW w \in Seq(Alerts), Backwards(v, w)
  PROVE  Features(v) = Features(w)
<1> DEFINE n == Len(w)
           At(u) == [i \in DOMAIN u |-> u[i].at]
           Level(u) == [i \in DOMAIN u |-> u[i].level]
<1>1. /\ n \in Nat /\ DOMAIN w = 1 .. n /\ DOMAIN v = 1 .. n /\ Len(v) = n
      /\ \A i \in 1 .. n : v[i] = w[n + 1 - i]
  BY DEF Backwards
<1>2. \A i \in 1 .. n : n + 1 - i \in 1 .. n /\ n + 1 - (n + 1 - i) = i BY <1>1
<1>3. \A i \in 1 .. n : w[i].at \in Int /\ w[i].level \in Int /\ v[i].at \in Int /\ v[i].level \in Int
  <2>0. \A l \in 0 .. 15 : l \in Int OBVIOUS
  <2>2. \A i \in 1 .. Len(v) : v[i].at \in Int /\ v[i].level \in Int BY <2>0, AlertIs
  <2>3. QED BY <1>1, <2>0, AlertIs, <2>2
<1>4. /\ At(w) \in Seq(Int) /\ Len(At(w)) = n /\ At(v) \in Seq(Int) /\ Len(At(v)) = n
      /\ \A i \in 1 .. n : At(v)[i] = At(w)[n + 1 - i]
  <2>1. At(w) \in [1 .. n -> Int] /\ At(v) \in [1 .. n -> Int] BY <1>1, <1>3
  <2>2. \A i \in 1 .. n : At(v)[i] = At(w)[n + 1 - i] BY <1>1, <1>2
  <2> HIDE DEF At, n
  <2>3. QED BY <1>1, <2>1, <2>2
<1>5. /\ Level(w) \in Seq(Int) /\ Len(Level(w)) = n /\ Level(v) \in Seq(Int) /\ Len(Level(v)) = n
      /\ \A i \in 1 .. n : Level(v)[i] = Level(w)[n + 1 - i]
  <2>1. Level(w) \in [1 .. n -> Int] /\ Level(v) \in [1 .. n -> Int] BY <1>1, <1>3
  <2>2. \A i \in 1 .. n : Level(v)[i] = Level(w)[n + 1 - i] BY <1>1, <1>2
  <2> HIDE DEF Level, n
  <2>3. QED BY <1>1, <2>1, <2>2
<1>6. SortedTimes(v) = SortedTimes(w)
  <2>1. SortedTimes(v) = Ascending(At(v)) /\ SortedTimes(w) = Ascending(At(w))
    BY DEF SortedTimes
  <2> HIDE DEF At
  <2>2. Backwards(At(v), At(w)) BY <1>4 DEF Backwards
  <2>3. QED BY <1>4, <2>1, <2>2, AscendingBackwards
<1>7. Sum(Level(v)) = Sum(Level(w))
  <2> HIDE DEF Level
  <2>2. QED BY <1>5, SumBackwards DEF Backwards
<1>8. Rules(v) = Rules(w) /\ Levels(v) = Levels(w)
  <2>1. \A i \in 1 .. n : w[i] = v[n + 1 - i] /\ v[i] = w[n + 1 - i] BY <1>1, <1>2
  <2> HIDE DEF n
  <2>3. Levels(v) = {v[i].level : i \in 1 .. n} /\ Levels(w) = {w[i].level : i \in 1 .. n}
    BY <1>1 DEF Levels
  <2>4. \A x : (\E i \in 1 .. n : x = v[i].rule) <=> (\E i \in 1 .. n : x = w[i].rule)
    BY <1>2, <2>1
  <2>5. \A x : (\E i \in 1 .. n : x = v[i].level) <=> (\E i \in 1 .. n : x = w[i].level)
    BY <1>2, <2>1
  <2>6. {v[i].rule : i \in 1 .. n} = {w[i].rule : i \in 1 .. n} BY <2>4
  <2>7. {v[i].level : i \in 1 .. n} = {w[i].level : i \in 1 .. n} BY <2>5
  <2>8. QED BY <1>1, <2>3, <2>6, <2>7 DEF Rules
<1>9. ASSUME NEW l PROVE AtLeast(v, l) = AtLeast(w, l)
  <2> DEFINE I == {i \in DOMAIN w : w[i].level >= l}  J == {i \in DOMAIN v : v[i].level >= l}
  <2>1. I \in SUBSET (1 .. n) /\ J \in SUBSET (1 .. n) /\ \A i \in 1 .. n : i \in J <=> n + 1 - i \in I
    BY <1>1, <1>2
  <2> HIDE DEF I, J, n
  <2>2. Cardinality(J) = Cardinality(I) BY <1>1, <2>1, CountedBackwards, ZenonT(30)
  <2>3. QED BY <2>2 DEF I, J, AtLeast
<1>11. AtLeast(v, 7) = AtLeast(w, 7) /\ AtLeast(v, 10) = AtLeast(w, 10) /\ Len(v) = Len(w)
  BY <1>1, <1>9
<1>12. Sum([i \in DOMAIN v |-> v[i].level]) = Sum([i \in DOMAIN w |-> w[i].level]) BY <1>7
<1> HIDE DEF n, At, Level
<1>13. QED BY <1>6, <1>8, <1>1, <1>11, <1>12 DEF Features

----------------------------------------------------------------------------
(* Windows of a capture, and of the live stream.                            *)

\* Where the window of a time begins.
Low(t, width) == width * (t \div width)

\* Multiples of the same width.
LEMMA Multiples ==
  ASSUME NEW d \in Nat \ {0}, NEW a \in Int, NEW b \in Int, a < b
  PROVE  d * a \in Int /\ d * b \in Int /\ d * a + d <= d * b
<1>1. d * a \in Int /\ d * b \in Int /\ b - a - 1 \in Nat BY SMT
<1>2. d * b = d * a + d + d * (b - a - 1) BY SMT
<1>4. QED BY <1>1, <1>2, Products

\* A time is in the window that begins at its edge, and in no other.
LEMMA EdgesAre ==
  ASSUME NEW d \in Nat \ {0}, NEW t \in Int, NEW u \in Int
  PROVE  /\ Low(t, d) \in Int /\ Low(t, d) <= t /\ t < Low(t, d) + d
         /\ Low(u, d) \in Int /\ Low(u, d) <= u /\ u < Low(u, d) + d
         /\ Low(t, d) <= u /\ u < Low(t, d) + d => Low(u, d) = Low(t, d)
         /\ u >= Low(t, d) + d => Low(u, d) >= Low(t, d) + d
<1> DEFINE q == t \div d  r == u \div d
<1>1. q \in Int /\ d * q <= t /\ t < d * q + d BY Quotient
<1>2. r \in Int /\ d * r <= u /\ u < d * r + d BY Quotient
<1>3. d * q \in Int /\ d * r \in Int BY <1>1, <1>2, SMT
<1>4. Low(t, d) = d * q /\ Low(u, d) = d * r BY DEF Low
<1> HIDE DEF q, r
<1>6. r < q => d * r + d <= d * q BY <1>1, <1>2, Multiples
<1>7. q < r \/ r < q \/ q = r BY <1>1, <1>2
<1> DEFINE x == d * q  y == d * r
<1>8. /\ x \in Int /\ y \in Int /\ x <= t /\ t < x + d /\ y <= u /\ u < y + d
      /\ x + d <= y \/ y + d <= x \/ x = y
  BY <1>1, <1>2, <1>3, Multiples, <1>6, <1>7
<1> HIDE DEF x, y
<1>9. /\ x <= u /\ u < x + d => y = x
      /\ u >= x + d => y >= x + d
  BY <1>8
<1>10. QED BY <1>4, <1>8, <1>9 DEF x, y

Rise(s) == \A i, j \in 1 .. Len(s) : i < j => s[i] <= s[j]

\* The window of an alert ends behind it, with the last that is before the next edge.
LEMMA EndsIs ==
  ASSUME NEW s \in Seq(Int), NEW d \in Nat \ {0}, NEW i \in 1 .. Len(s)
  PROVE  LET j == EndOf(s, i, d)
         IN  /\ j \in i + 1 .. Len(s) + 1
             /\ j <= Len(s) => s[j] >= Low(s[i], d) + d
             /\ \A k \in i .. j - 1 : s[k] < Low(s[i], d) + d
<1> DEFINE n  == Len(s)
           hi == Low(s[i], d) + d
           S  == {k \in i .. n + 1 : k = n + 1 \/ s[k] >= hi}
           j  == Min(S)
<1>1. n \in Nat /\ i \in 1 .. n /\ \A k \in 1 .. n : s[k] \in Int OBVIOUS
<1>2. hi \in Int /\ s[i] < hi
  <2>1. Low(s[i], d) \in Int /\ s[i] < Low(s[i], d) + d BY <1>1, EdgesAre
  <2>2. QED BY <2>1
<1>3. EndOf(s, i, d) = j BY DEF EndOf, LowEdge, Low
<1>4. j \in S /\ \A k \in S : j <= k
  <2>1. S \in SUBSET Nat /\ n + 1 \in S BY <1>1
  <2> HIDE DEF S
  <2>2. QED BY <2>1, MinExists
<1> HIDE DEF j, hi
<1>5. j \in i .. n + 1 /\ (j = n + 1 \/ s[j] >= hi) BY <1>4
<1>7. ASSUME NEW k \in i .. j - 1 PROVE s[k] < hi
  <2>1. k \in i .. n + 1 /\ k \in 1 .. n /\ k < j BY <1>1, <1>5
  <2>3. ~(s[k] >= hi) BY <2>1, <1>1, <1>4, <1>5
  <2>4. QED BY <1>1, <1>2, <2>1, <2>3
<1>8. /\ j \in i + 1 .. n + 1
      /\ j <= n => s[j] >= hi
  BY <1>1, <1>5, <1>2
<1>9. QED BY <1>3, <1>7, <1>8 DEF hi

\* Each window begins where the one before it ends.
LEMMA BeginsAre ==
  ASSUME NEW s \in Seq(Int), NEW d \in Nat \ {0}
  PROVE  LET n == Len(s)  b == BeginsOf(s, d)
         IN  /\ b \in [0 .. n -> 1 .. n + 1] /\ b[0] = 1
             /\ \A k \in 1 .. n : b[k] = IF b[k - 1] > n THEN n + 1 ELSE EndOf(s, b[k - 1], d)
<1> DEFINE n == Len(s)  V == 1 .. n + 1
           Step(i) == IF i > n THEN n + 1 ELSE EndOf(s, i, d)
           Body(f) == [k \in 0 .. n |->
                         IF k = 0 THEN 1 ELSE IF f[k - 1] > n THEN n + 1 ELSE EndOf(s, f[k - 1], d)]
           b == CHOOSE f : f = Body(f)
           g == [k \in 1 .. n |-> [i \in V |-> Step(i)]]
<1>1. n \in Nat /\ 1 \in V OBVIOUS
<1>2. ASSUME NEW i \in V PROVE Step(i) \in V
  <2>1. CASE i > n BY <1>1, <2>1
  <2>2. CASE ~(i > n)
    <3>1. i \in 1 .. Len(s) BY <1>1, <2>2
    <3>2. EndOf(s, i, d) \in i + 1 .. Len(s) + 1 BY <3>1, EndsIs
    <3>3. QED BY <1>1, <2>2, <3>1, <3>2
  <2>3. QED BY <2>1, <2>2
<1>3. g \in [1 .. n -> [V -> V]]
  <2> HIDE DEF Step, V, n
  <2>1. QED BY <1>2
<1>4. PICK f : Steps(f, n, V, 1, g)
  <2> HIDE DEF g, n, V, Body, b
  <2>1. QED BY <1>1, <1>3, Recursion
<1>5. f = Body(f)
  <2>1. ASSUME NEW k \in 1 .. n PROVE f[k] = Step(f[k - 1])
    <3>2. f[k - 1] \in V /\ f[k] = g[k][f[k - 1]]
      <4> HIDE DEF g, n, V
      <4>1. QED BY <1>4, <1>1 DEF Steps
    <3>3. QED
      <4> HIDE DEF Step, V
      <4>1. QED BY <3>2
  <2>3. QED BY <1>1, <2>1, <1>4 DEF Steps
<1>6. b = Body(b) BY <1>5
<1>7. BeginsOf(s, d) = b BY DEF BeginsOf
<1> HIDE DEF b
<1>8. /\ b[0] = 1
      /\ \A k \in 1 .. n : b[k] = IF b[k - 1] > n THEN n + 1 ELSE EndOf(s, b[k - 1], d)
  BY <1>1, <1>6, SMTT(30)
<1> DEFINE S == {k \in 0 .. n : b[k] \in V}
<1>9. n \in S /\ \A k \in 0 .. n : k \in S
  <2>1. 0 \in S BY <1>1, <1>8
  <2>2. ASSUME NEW k \in 1 .. n, k - 1 \in S PROVE k \in S
    <3>1. b[k - 1] \in V /\ b[k] = Step(b[k - 1]) /\ k \in 0 .. n BY <1>8, <2>2
    <3> HIDE DEF Step, V
    <3>3. QED BY <3>1, <1>2
  <2> HIDE DEF S, n
  <2>3. \A k \in 0 .. n : k \in S BY <1>1, <2>1, <2>2, UpTo
  <2>4. QED BY <1>1, <2>3
<1>10. b \in [0 .. n -> V]
  <2> HIDE DEF V, n
  <2>2. QED BY <1>9, <1>6
<1>11. QED BY <1>7, <1>8, <1>10

\* How many windows there are.
Made(s, d) == Cardinality({k \in 0 .. Len(s) : BeginsOf(s, d)[k] <= Len(s)})

\* From where one begins to where the next one does are the alerts of its window.
Block(s, d, k) == BeginsOf(s, d)[k - 1] .. BeginsOf(s, d)[k] - 1

\* Windows are as many as there are beginnings; they hold all the alerts of one window of
\* the clock each, and every alert is in one.
LEMMA BlocksAre ==
  ASSUME NEW s \in Seq(Int), NEW d \in Nat \ {0}, Rise(s)
  PROVE  LET b == BeginsOf(s, d)  m == Made(s, d)
         IN  /\ m \in 0 .. Len(s)
             /\ \A k \in 1 .. m :
                  /\ b[k - 1] \in 1 .. Len(s) /\ b[k] \in b[k - 1] + 1 .. Len(s) + 1
                  /\ \A l \in 1 .. Len(s) :
                       Low(s[l], d) = Low(s[b[k - 1]], d) <=> l \in Block(s, d, k)
             /\ \A l \in 1 .. Len(s) : \E k \in 1 .. m : l \in Block(s, d, k)
<1> DEFINE n == Len(s)  b == BeginsOf(s, d)
           D == {k \in 0 .. n : b[k] <= n}
           O == {k \in 1 .. n : b[k - 1] <= n}
<1>1. n \in Nat /\ \A k \in 1 .. n : s[k] \in Int OBVIOUS
<1>2. /\ b \in [0 .. n -> 1 .. n + 1] /\ b[0] = 1
      /\ \A k \in 1 .. n : b[k] = IF b[k - 1] > n THEN n + 1 ELSE EndOf(s, b[k - 1], d)
  BY BeginsAre
<1>3. Made(s, d) = Cardinality(D) /\ \A k : Block(s, d, k) = b[k - 1] .. b[k] - 1
  BY DEF Made, Block
<1> HIDE DEF b
<1>4. ASSUME NEW k \in 1 .. n
      PROVE  /\ k - 1 \in 0 .. n /\ k \in 0 .. n
             /\ b[k - 1] \in 1 .. n + 1 /\ b[k] \in 1 .. n + 1
             /\ b[k - 1] > n => b[k] = n + 1
  <2>1. k - 1 \in 0 .. n /\ k \in 0 .. n BY <1>1
  <2>3. QED BY <1>2, <2>1
<1>5. ASSUME NEW k \in 1 .. n, b[k - 1] <= n
      PROVE  /\ b[k - 1] \in 1 .. n /\ b[k] \in b[k - 1] + 1 .. n + 1
             /\ b[k] <= n => s[b[k]] >= Low(s[b[k - 1]], d) + d
             /\ \A l \in b[k - 1] .. b[k] - 1 : s[l] < Low(s[b[k - 1]], d) + d
  <2> DEFINE i == b[k - 1]
  <2>1. i \in 1 .. n BY <1>1, <1>4, <1>5
  <2>2. b[k] = EndOf(s, i, d) BY <1>1, <1>2, <1>4, <1>5
  <2> HIDE DEF i
  <2>3. /\ EndOf(s, i, d) \in i + 1 .. n + 1
        /\ EndOf(s, i, d) <= n => s[EndOf(s, i, d)] >= Low(s[i], d) + d
        /\ \A l \in i .. EndOf(s, i, d) - 1 : s[l] < Low(s[i], d) + d
    BY <2>1, EndsIs
  <2>4. QED BY <2>1, <2>2, <2>3 DEF i
<1>6. \A k \in 0 .. n : b[k] >= k + 1
  <2> DEFINE S == {k \in 0 .. n : b[k] >= k + 1}
  <2>1. 0 \in S BY <1>1, <1>2
  <2>2. ASSUME NEW k \in 1 .. n, k - 1 \in S PROVE k \in S
    <3>1. b[k - 1] >= k /\ k \in 0 .. n /\ b[k - 1] \in 1 .. n + 1 BY <1>4, <2>2
    <3>2. CASE b[k - 1] <= n
      <4>1. b[k] \in b[k - 1] + 1 .. n + 1 BY <1>5, <3>2
      <4>2. QED BY <1>1, <3>1, <4>1
    <3>3. CASE b[k - 1] > n BY <1>4, <3>3, <1>1, <3>1
    <3>4. QED BY <1>1, <3>1, <3>2, <3>3
  <2> HIDE DEF S, n
  <2>3. \A k \in 0 .. n : k \in S BY <1>1, <2>1, <2>2, UpTo
  <2>4. QED BY <2>3 DEF S
<1>7. n \in 0 .. n /\ b[n] = n + 1
  <2>1. n \in 0 .. n BY <1>1
  <2>2. b[n] \in 1 .. n + 1 /\ b[n] >= n + 1 BY <1>2, <1>6, <2>1
  <2>3. QED BY <1>1, <2>1, <2>2
<1>8. \A k \in 0 .. n : \A j \in 0 .. k : b[j] <= b[k]
  <2> DEFINE S == {k \in 0 .. n : \A j \in 0 .. k : b[j] <= b[k]}
  <2>1. 0 \in S BY <1>1, <1>2
  <2>2. ASSUME NEW k \in 1 .. n, k - 1 \in S PROVE k \in S
    <3>1. b[k - 1] <= b[k] /\ b[k - 1] \in Int /\ b[k] \in Int /\ k \in 0 .. n
      <4>2. b[k - 1] <= n => b[k] \in b[k - 1] + 1 .. n + 1 BY <1>5
      <4>3. b[k - 1] > n => b[k] = n + 1 BY <1>4
      <4>4. QED BY <1>1, <1>4, <4>2, <4>3
    <3>2. ASSUME NEW j \in 0 .. k PROVE b[j] <= b[k]
      <4>1. CASE j = k BY <3>1, <4>1
      <4>2. CASE j # k
        <5>1. j \in 0 .. k - 1 /\ j \in 0 .. n BY <1>1, <4>2
        <5>2. b[j] <= b[k - 1] /\ b[j] \in 1 .. n + 1 BY <1>2, <2>2, <5>1
        <5>3. QED BY <1>1, <3>1, <5>2
      <4>3. QED BY <4>1, <4>2
    <3>3. QED BY <3>1, <3>2
  <2> HIDE DEF S, n
  <2>3. \A k \in 0 .. n : k \in S BY <1>1, <2>1, <2>2, UpTo
  <2>4. QED BY <2>3 DEF S
<1> DEFINE m == Cardinality(O)
<1>9. m \in 0 .. n /\ O = 1 .. m
  <2>1. \A k \in O : \A j \in 1 .. k : j \in O
    <3>1. SUFFICES ASSUME NEW k \in O, NEW j \in 1 .. k PROVE j \in O OBVIOUS
    <3>2. j \in 1 .. n /\ k - 1 \in 0 .. n /\ j - 1 \in 0 .. k - 1 /\ j - 1 \in 0 .. n BY <1>1
    <3>3. b[j - 1] <= b[k - 1] /\ b[j - 1] \in 1 .. n + 1 /\ b[k - 1] \in 1 .. n + 1
      BY <1>2, <1>8, <3>2
    <3>4. QED BY <1>1, <3>2, <3>3
  <2>2. O \in SUBSET (1 .. n) OBVIOUS
  <2> HIDE DEF O, n
  <2>3. QED BY <1>1, <2>1, <2>2, FirstPlaces
<1>10. Cardinality(D) = m
  <2> DEFINE f == [k \in O |-> k - 1]
  <2>1. IsFiniteSet(O) /\ \A i, j \in O : f[i] = f[j] => i = j
    <3>1. O \in SUBSET (1 .. n) OBVIOUS
    <3>2. IsFiniteSet(O)
      <4> HIDE DEF O, n
      <4>1. QED BY <1>1, <3>1, Counted
    <3>3. QED BY <3>2
  <2>2. {f[i] : i \in O} = D
    <3>1. ASSUME NEW i \in D PROVE i + 1 \in O /\ f[i + 1] = i BY <1>1, <1>7
    <3>2. ASSUME NEW k \in O PROVE f[k] \in D BY <1>4
    <3> HIDE DEF f, O, D
    <3>3. QED BY <3>1, <3>2
  <2> HIDE DEF f, O, D
  <2>4. QED BY <2>2, <2>1, ImageOf
<1>11. \A k \in 1 .. m : k \in 1 .. n /\ b[k - 1] <= n
  <2>1. \A k \in O : k \in 1 .. n /\ b[k - 1] <= n OBVIOUS
  <2> HIDE DEF O, m
  <2>2. QED BY <1>9, <2>1
<1>12. \A k \in 1 .. n : b[k - 1] <= n => k \in 1 .. m
  <2>1. \A k \in 1 .. n : b[k - 1] <= n => k \in O OBVIOUS
  <2> HIDE DEF O, m
  <2>2. QED BY <1>9, <2>1
<1> HIDE DEF m, O, D
<1>13. ASSUME NEW k \in 1 .. m, NEW l \in 1 .. n
       PROVE  Low(s[l], d) = Low(s[b[k - 1]], d) <=> l \in b[k - 1] .. b[k] - 1
  <2> DEFINE i == b[k - 1]  j == b[k]  lo == Low(s[b[k - 1]], d)
  <2>1. k \in 1 .. n /\ b[k - 1] <= n BY <1>11
  <2>2. /\ i \in 1 .. n /\ j \in i + 1 .. n + 1
        /\ j <= n => s[j] >= lo + d
        /\ \A x \in i .. j - 1 : s[x] < lo + d
    BY <1>5, <2>1
  <2>3. s[i] \in Int /\ s[l] \in Int BY <1>1, <2>2
  <2>4. /\ lo \in Int /\ lo <= s[i] /\ s[i] < lo + d
        /\ Low(s[l], d) \in Int /\ Low(s[l], d) <= s[l] /\ s[l] < Low(s[l], d) + d
        /\ lo <= s[l] /\ s[l] < lo + d => Low(s[l], d) = lo
        /\ s[l] >= lo + d => Low(s[l], d) >= lo + d
    BY <2>3, EdgesAre DEF i
  <2>5. CASE l \in i .. j - 1
    <3>1. s[i] <= s[l]
      <4>1. i = l \/ i < l BY <1>1, <2>2, <2>5
      <4>2. QED BY <1>1, <2>2, <2>3, <4>1 DEF Rise
    <3>3. lo <= s[l]
      <4> HIDE DEF i, lo
      <4>1. QED BY <2>3, <2>4, <3>1
    <3>4. QED BY <2>4, <2>5, <2>2, <3>3
  <2>6. CASE l >= j
    <3>1. j \in 1 .. n /\ s[j] >= lo + d /\ s[j] \in Int
      <4>1. j \in 1 .. n /\ j <= n
        <5> HIDE DEF i, j, lo
        <5>1. QED BY <1>1, <2>2, <2>6
      <4>3. QED BY <1>1, <4>1, <2>2
    <3>2. s[j] <= s[l]
      <4>1. j = l \/ j < l BY <1>1, <2>2, <2>6
      <4>2. QED BY <1>1, <2>3, <3>1, <4>1 DEF Rise
    <3>3. s[l] >= lo + d
      <4> HIDE DEF i, j, lo
      <4>1. QED BY <2>3, <2>4, <3>1, <3>2, SMTT(30)
    <3>4. Low(s[l], d) # lo
      <4> HIDE DEF i, j, lo
      <4>1. QED BY <2>3, <2>4, <3>3
    <3>6. QED BY <3>4, <1>1, <2>2, <2>6
  <2>7. CASE l < i
    <3> DEFINE h == k - 1  g == b[h - 1]
    <3>2. h \in 1 .. n /\ h \in 0 .. n /\ h - 1 \in 0 .. n /\ b[h] = i BY <1>1, <1>2, <2>7, <2>1
    <3>3. b[h - 1] <= n /\ b[h - 1] \in 1 .. n + 1
      <4>1. h - 1 \in 0 .. h /\ h - 1 \in 0 .. n BY <1>1, <3>2
      <4>2. b[h - 1] <= b[h] BY <1>8, <3>2, <4>1
      <4>3. b[h - 1] \in 1 .. n + 1 BY <1>2, <3>2
      <4>4. b[h] \in Int /\ b[h] <= n BY <1>1, <2>2, <3>2
      <4> HIDE DEF h, i
      <4>5. QED BY <1>1, <4>2, <4>3, <4>4
    <3>4. /\ g \in 1 .. n /\ s[b[h]] >= Low(s[g], d) + d
          /\ \A x \in g .. b[h] - 1 : s[x] < Low(s[g], d) + d
      <4>1. b[h] <= n BY <1>1, <2>2, <3>2
      <4> HIDE DEF h, i
      <4>2. QED BY <1>5, <3>2, <3>3, <4>1
    <3>5. s[g] \in Int /\ Low(s[g], d) \in Int /\ s[g] < Low(s[g], d) + d
      <4> HIDE DEF g
      <4>2. QED BY <1>1, <3>4, EdgesAre
    <3>6. s[l] < Low(s[g], d) + d
      <4>1. CASE l >= g
        <5>1. l \in g .. b[h] - 1 BY <1>1, <2>2, <2>7, <3>2, <3>4, <4>1, SMTT(30)
        <5>2. QED BY <3>4, <5>1
      <4>2. CASE l < g
        <5>1. s[l] <= s[g] BY <1>1, <3>4, <4>2 DEF Rise
        <5> HIDE DEF g
        <5>2. QED BY <2>3, <3>5, <5>1
      <4>3. QED BY <1>1, <3>4, <4>1, <4>2
    <3>8. lo >= Low(s[g], d) + d
      <4> DEFINE t == s[g]  u == s[i]
      <4>1. t \in Int /\ u \in Int /\ u >= Low(t, d) + d BY <2>3, <3>5, <3>2, <3>4
      <4>2. Low(u, d) >= Low(t, d) + d
        <5> HIDE DEF t, u
        <5>1. QED BY <4>1, EdgesAre
      <4>3. QED BY <4>2
    <3>9. Low(s[l], d) < lo
      <4> HIDE DEF g, lo, i
      <4>1. QED BY <2>3, <2>4, <3>5, <3>6, <3>8
    <3>10. Low(s[l], d) # lo
      <4> HIDE DEF g, lo, i
      <4>1. QED BY <2>4, <3>9
    <3>12. QED BY <3>10, <1>1, <2>2, <2>7
  <2>8. l \in i .. j - 1 \/ l >= j \/ l < i BY <1>1, <2>2
  <2>9. QED BY <2>5, <2>6, <2>7, <2>8
<1>14. ASSUME NEW l \in 1 .. n PROVE \E k \in 1 .. m : l \in b[k - 1] .. b[k] - 1
  <2> DEFINE S == {k \in 0 .. n : b[k] > l}
  <2>1. S \in SUBSET Nat /\ n \in S BY <1>1, <1>7
  <2>2. PICK k \in S : \A j \in S : k <= j
    <3> HIDE DEF S
    <3>1. QED BY <2>1, MinExists
  <2>3. k \in 1 .. n /\ b[k] > l BY <1>1, <1>2, <2>2
  <2>4. k - 1 \in 0 .. n /\ b[k - 1] \in 1 .. n + 1 /\ b[k] \in 1 .. n + 1 BY <1>4, <2>3
  <2>5. ~(b[k - 1] > l) BY <1>1, <2>2, <2>3, <2>4
  <2>6. b[k - 1] <= n /\ l \in b[k - 1] .. b[k] - 1 BY <1>1, <2>3, <2>4, <2>5
  <2>7. QED BY <1>12, <2>3, <2>6
<1>17. /\ m \in 0 .. n
       /\ \A k \in 1 .. m :
            /\ b[k - 1] \in 1 .. n /\ b[k] \in b[k - 1] + 1 .. n + 1
            /\ \A l \in 1 .. n : Low(s[l], d) = Low(s[b[k - 1]], d) <=> l \in Block(s, d, k)
       /\ \A l \in 1 .. n : \E k \in 1 .. m : l \in Block(s, d, k)
  <2> HIDE DEF n
  <2>0. \A k : Block(s, d, k) = b[k - 1] .. b[k] - 1 BY <1>3
  <2>1. ASSUME NEW k \in 1 .. m, NEW l \in 1 .. n
        PROVE  Low(s[l], d) = Low(s[b[k - 1]], d) <=> l \in Block(s, d, k)
    BY <2>0, <1>13
  <2>2. \A l \in 1 .. n : \E k \in 1 .. m : l \in Block(s, d, k) BY <2>0, <1>14
  <2>3. QED BY <1>9, <1>5, <1>11, <2>1, <2>2
<1>18. QED BY <1>3, <1>10, <1>17 DEF b

\* An alert, its time counted from where its window begins.
Shifted(a, lo) == [a EXCEPT !.at = @ - lo]

\* It is an alert like any other.
LEMMA ShiftedIs ==
  ASSUME NEW a \in Alerts, NEW lo \in Int
  PROVE  Shifted(a, lo) \in Alerts /\ Shifted(a, lo).at = a.at - lo
  BY DEF Alerts, Shifted

\* Picking out places that lie together.
LEMMA PickTogether ==
  ASSUME NEW s, NEW a \in Nat, NEW b \in Nat, a <= b
  PROVE  Pick(s, a .. b) = [k \in 1 .. b - a + 1 |-> s[a + k - 1]]
<1> DEFINE I == a .. b  before == [i \in I |-> {j \in I : j < i}]
<1>1. Cardinality(I) = b - a + 1 BY FS_Interval
<1>2. ASSUME NEW i \in I PROVE Cardinality(before[i]) = i - a
  <2>1. before[i] = a .. i - 1 OBVIOUS
  <2>3. Cardinality(a .. i - 1) = IF a > i - 1 THEN 0 ELSE (i - 1) - a + 1 BY FS_Interval
  <2>4. Cardinality(a .. i - 1) = i - a BY <2>3
  <2> HIDE DEF before
  <2>5. QED BY <2>1, <2>4
<1> DEFINE line == Rising(I)
<1>3. ASSUME NEW k \in 1 .. b - a + 1 PROVE line[k] = a + k - 1
  <2>1. line[k] = CHOOSE i \in I : Cardinality(before[i]) = k - 1 BY <1>1 DEF Rising, InLine
  <2>2. a + k - 1 \in I /\ \A i \in I : Cardinality(before[i]) = k - 1 <=> i = a + k - 1
    <3>2. ASSUME NEW i \in I PROVE Cardinality(before[i]) = k - 1 <=> i = a + k - 1
      <4>2. i - a = k - 1 <=> i = a + k - 1 OBVIOUS
      <4> HIDE DEF before
      <4>3. QED BY <1>2, <4>2
    <3>3. QED BY <3>2
  <2> HIDE DEF I, before, line
  <2>3. QED BY <2>1, <2>2
<1>4. Pick(s, I) = [k \in 1 .. b - a + 1 |-> s[line[k]]] BY <1>1 DEF Pick
<1> HIDE DEF line
<1>5. QED BY <1>3, <1>4

\* The times of alerts.
TimesOf(alerts) == [k \in 1 .. Len(alerts) |-> alerts[k].at]

\* The alerts from the i-th on that come before the j-th, the latest of too many, and all
\* of them from the last to the first.
Latest(alerts, i, j, most, lo) ==
  [x \in 1 .. Min({j - i, most}) |-> Shifted(alerts[x + Max({i, j - most}) - 1], lo)]
FromLast(alerts, i, j, lo) == [k \in 1 .. j - i |-> Shifted(alerts[j - k], lo)]

\* A window that begins at lo holds the latest of them, and is an attack if it overlaps one.
Holding(w, alerts, phases, i, j, most, lo, d) ==
  /\ w.startedAt = lo
  /\ (\E p \in phases : p.start < lo + d /\ p.end > lo) => w.label = "attack"
  /\ w.alerts = Latest(alerts, i, j, most, lo)

\* What import-ait.py makes of its alerts.
LEMMA WindowsAre ==
  ASSUME NEW alerts \in Seq(Alerts), NEW phases, NEW d, NEW most
  PROVE  LET at   == TimesOf(alerts)
             made == Windows(alerts, phases, d, most)
         IN  /\ DOMAIN made = 1 .. Made(at, d)
             /\ \A k \in 1 .. Made(at, d) :
                  Holding(made[k], alerts, phases, BeginsOf(at, d)[k - 1], BeginsOf(at, d)[k],
                          most, Low(at[BeginsOf(at, d)[k - 1]], d), d)
<1> DEFINE n == Len(alerts)  at == TimesOf(alerts)  b == BeginsOf(at, d)
           Cut(i, j) ==
             [startedAt |-> Low(at[i], d),
              label  |-> IF \E p \in phases : p.start < Low(at[i], d) + d /\ p.end > Low(at[i], d)
                         THEN "attack" ELSE "benign",
              alerts |-> Latest(alerts, i, j, most, Low(at[i], d))]
           made == Windows(alerts, phases, d, most)
<1>1. made = [k \in 1 .. Cardinality({x \in 0 .. n : b[x] <= n}) |-> Cut(b[k - 1], b[k])]
  BY DEF Windows, TimesOf, LowEdge, Low, Latest, Shifted
<1>2. Len(at) = n BY DEF TimesOf
<1>3. Made(at, d) = Cardinality({x \in 0 .. n : b[x] <= n}) BY <1>2 DEF Made
<1> HIDE DEF made, at, b, n
<1>4. DOMAIN made = 1 .. Made(at, d) /\ \A k \in 1 .. Made(at, d) : made[k] = Cut(b[k - 1], b[k])
  BY <1>1, <1>3
<1>5. ASSUME NEW k \in 1 .. Made(at, d)
      PROVE  Holding(made[k], alerts, phases, b[k - 1], b[k], most, Low(at[b[k - 1]], d), d)
  <2> DEFINE i == b[k - 1]  j == b[k]  lo == Low(at[b[k - 1]], d)
             Hit == \E p \in phases : p.start < lo + d /\ p.end > lo
             own == Latest(alerts, i, j, most, lo)
  <2>1. made[k] = [startedAt |-> lo, label |-> IF Hit THEN "attack" ELSE "benign", alerts |-> own]
    BY <1>4
  <2> HIDE DEF Hit, own, lo
  <2>2. made[k].startedAt = lo /\ (Hit => made[k].label = "attack") /\ made[k].alerts = own
    BY <2>1
  <2>3. QED BY <2>2 DEF Holding, Hit, own, lo
<1>6. QED BY <1>4, <1>5 DEF made, at, b

\* What the status script makes of the same alerts sent newest first.
LEMMA BucketsAre ==
  ASSUME NEW alerts \in Seq(Alerts), NEW d \in Nat \ {0}
  PROVE  LET at == TimesOf(alerts)  n == Len(alerts)
             live == Buckets(Reverse(alerts), d)
         IN  /\ DOMAIN live = {Low(at[l], d) : l \in 1 .. n}
             /\ \A i \in 1 .. n : \A j \in i + 1 .. n + 1 :
                  (\A l \in 1 .. n : Low(at[l], d) = Low(at[i], d) <=> l \in i .. j - 1)
                    => live[Low(at[i], d)] = FromLast(alerts, i, j, Low(at[i], d))
<1> DEFINE at == TimesOf(alerts)  n == Len(alerts)  rev == Reverse(alerts)
           live == Buckets(rev, d)
           Places(lo) == {x \in DOMAIN rev : Low(rev[x].at, d) = lo}
<1>1. n \in Nat /\ at = [l \in 1 .. n |-> alerts[l].at] BY DEF TimesOf
<1>2. /\ rev = [x \in 1 .. n |-> alerts[n - x + 1]]
      /\ DOMAIN rev = 1 .. n
  BY <1>1 DEF Reverse
<1>3. \A x \in 1 .. n : n - x + 1 \in 1 .. n /\ n - (n - x + 1) + 1 = x BY <1>1
<1>4. \A x \in 1 .. n : rev[x] = alerts[n - x + 1] /\ rev[x].at = at[n - x + 1]
  BY <1>1, <1>2, <1>3
<1>5. live = [lo \in {Low(rev[x].at, d) : x \in DOMAIN rev} |->
                LET own == Pick(rev, Places(lo)) IN [k \in DOMAIN own |-> Shifted(own[k], lo)]]
  BY DEF Buckets, Low, Shifted
<1> HIDE DEF at, rev, live, n
<1>6. {Low(rev[x].at, d) : x \in DOMAIN rev} = {Low(at[l], d) : l \in 1 .. n}
  <2>1. ASSUME NEW x \in 1 .. n PROVE \E l \in 1 .. n : Low(rev[x].at, d) = Low(at[l], d)
    BY <1>3, <1>4
  <2>2. ASSUME NEW l \in 1 .. n PROVE \E x \in 1 .. n : Low(rev[x].at, d) = Low(at[l], d)
    BY <1>3, <1>4
  <2>3. \A v : (\E x \in 1 .. n : v = Low(rev[x].at, d)) <=> (\E l \in 1 .. n : v = Low(at[l], d))
    BY <2>1, <2>2
  <2>4. QED BY <1>2, <2>3
<1>7. ASSUME NEW i \in 1 .. n, NEW j \in i + 1 .. n + 1,
             \A l \in 1 .. n : Low(at[l], d) = Low(at[i], d) <=> l \in i .. j - 1
      PROVE  live[Low(at[i], d)] = FromLast(alerts, i, j, Low(at[i], d))
  <2> DEFINE lo == Low(at[i], d)  a == n + 2 - j  z == n + 1 - i  own == Pick(rev, Places(lo))
  <2>1. a \in Nat /\ z \in Nat /\ a <= z /\ z - a + 1 = j - i BY <1>1
  <2>2. Places(lo) = a .. z
    <3>1. ASSUME NEW x \in 1 .. n PROVE Low(rev[x].at, d) = lo <=> x \in a .. z
      BY <1>3, <1>4, <1>7, <1>1
    <3>2. a .. z \subseteq 1 .. n BY <1>1
    <3> HIDE DEF lo, a, z
    <3>3. QED BY <1>2, <3>1, <3>2
  <2>3. lo \in {Low(rev[x].at, d) : x \in DOMAIN rev} BY <1>6
  <2>4. live[lo] = [k \in DOMAIN own |-> Shifted(own[k], lo)]
    <3> HIDE DEF Places, lo, own
    <3>1. QED BY <1>5, <2>3 DEF own
  <2>5. own = [k \in 1 .. z - a + 1 |-> rev[a + k - 1]]
    <3> HIDE DEF a, z, lo, Places
    <3>1. Pick(rev, a .. z) = [k \in 1 .. z - a + 1 |-> rev[a + k - 1]]
      <4> HIDE DEF own
      <4>1. \A u, v \in Nat : u <= v => Pick(rev, u .. v) = [k \in 1 .. v - u + 1 |-> rev[u + k - 1]]
        BY PickTogether
      <4>2. QED BY <2>1, <4>1
    <3>2. QED BY <2>2, <3>1
  <2>6. \A k \in 1 .. j - i : rev[a + k - 1] = alerts[j - k]
    <3>1. ASSUME NEW k \in 1 .. j - i PROVE rev[a + k - 1] = alerts[j - k]
      <4>1. a + k - 1 \in 1 .. n /\ n - (a + k - 1) + 1 = j - k BY <1>1
      <4>3. QED BY <4>1, <1>4
    <3>2. QED BY <3>1
  <2> HIDE DEF a, z, lo, Places, own
  <2>8. live[lo] = [k \in 1 .. j - i |-> Shifted(alerts[j - k], lo)] BY <2>4, <2>1, <2>5, <2>6
  <2>9. QED BY <2>8 DEF lo, FromLast
<1>9. QED BY <1>6, <1>7, <1>5 DEF at, live, rev, n

\* A window has the features of a bucket it holds all of, and else the latest of its alerts.
Alike(own, cut, most) ==
  /\ Len(own) = Min({Features(cut)[1], most})
  /\ Last(own).at = cut[1].at
  /\ Features(cut)[1] <= most => Features(own) = Features(cut)

\* A window and the bucket of the same edge.
LEMMA WindowAsBucket ==
  ASSUME NEW alerts \in Seq(Alerts), NEW lo \in Int, NEW most \in Nat \ {0},
         NEW i \in 1 .. Len(alerts), NEW j \in i + 1 .. Len(alerts) + 1,
         NEW own, own = Latest(alerts, i, j, most, lo), NEW cut, cut = FromLast(alerts, i, j, lo)
  PROVE  Alike(own, cut, most)
<1> DEFINE n == Len(alerts)  m == Min({j - i, most})  from == Max({i, j - most})
<1>1. n \in Nat /\ i \in 1 .. n /\ j \in i + 1 .. n + 1 /\ j - i \in Nat \ {0} /\ j \in Int /\ i \in Int
      /\ most \in Int /\ j - most \in Int
  OBVIOUS
<1>2. /\ m = IF j - i <= most THEN j - i ELSE most
      /\ from = IF i >= j - most THEN i ELSE j - most
  <2>2. j - i \in Int BY <1>1
  <2>3. QED BY <1>1, OfTwo, <2>2
<1> HIDE DEF m, from
<1>3. /\ m \in Nat \ {0} /\ m <= j - i /\ from \in i .. j - 1 /\ m + from - 1 = j - 1
      /\ \A x \in 1 .. m : x + from - 1 \in 1 .. n
  BY <1>1, <1>2
<1>5. \A l \in 1 .. n : Shifted(alerts[l], lo) \in Alerts
  <2>1. \A l \in 1 .. n : alerts[l] \in Alerts OBVIOUS
  <2>2. QED BY <2>1, ShiftedIs
<1>6. own = [x \in 1 .. m |-> Shifted(alerts[x + from - 1], lo)] BY DEF Latest, m, from
<1>0. cut = [k \in 1 .. j - i |-> Shifted(alerts[j - k], lo)] BY DEF FromLast
<1> HIDE DEF n
<1>7. own \in Seq(Alerts) /\ Len(own) = m
  <2>0. \A x \in 1 .. m : Shifted(alerts[x + from - 1], lo) \in Alerts
    <3>1. ASSUME NEW x \in 1 .. m PROVE Shifted(alerts[x + from - 1], lo) \in Alerts
      BY <1>3, <1>5
    <3>2. QED BY <3>1
  <2>2. QED BY <1>3, <1>6, <2>0
<1>8. cut \in Seq(Alerts) /\ Len(cut) = j - i
  <2>1. cut \in [1 .. j - i -> Alerts]
    <3>1. ASSUME NEW k \in 1 .. j - i PROVE Shifted(alerts[j - k], lo) \in Alerts BY <1>1, <1>5
    <3>2. QED BY <1>0, <3>1
  <2>2. QED BY <1>1, <2>1
<1>10. Last(own).at = cut[1].at
  <2>2. cut[1] = Shifted(alerts[j - 1], lo) BY <1>0, <1>1
  <2>3. Last(own) = own[m] BY <1>7 DEF Last
  <2>4. QED BY <1>3, <1>6, <2>2, <2>3
<1>11. ASSUME j - i <= most PROVE Features(own) = Features(cut)
  <2>1. m = j - i /\ from = i BY <1>1, <1>2, <1>11
  <2>2. ASSUME NEW x \in 1 .. Len(cut) PROVE own[x] = cut[Len(cut) + 1 - x]
    BY <1>1, <1>8, <2>1, <1>6, <1>0
  <2>4. QED BY <1>7, <1>8, <2>1, <2>2, FeaturesBackwards DEF Backwards
<1>12. QED BY <1>7, <1>8, <1>10, <1>11 DEF m, Alike, Features

\* Training and the live panel cut the same windows.
LEMMA CapturesCut ==
  ASSUME NEW alerts \in Seq(Alerts), Rise(TimesOf(alerts)),
         NEW d \in Nat \ {0}, NEW most \in Nat \ {0},
         NEW phases, \A p \in phases : p.start \in Int /\ p.end \in Int
  PROVE  LET made == Windows(alerts, phases, d, most)
             live == Buckets(Reverse(alerts), d)
         IN  /\ DOMAIN live = {made[k].startedAt : k \in DOMAIN made}
             /\ \A k \in DOMAIN made : Alike(made[k].alerts, live[made[k].startedAt], most)
             /\ \A a \in Range(alerts), p \in phases :
                  p.start <= a.at /\ a.at < p.end =>
                    \E k \in DOMAIN made : /\ made[k].label = "attack"
                                           /\ a.at - made[k].startedAt \in 0 .. d - 1
<1> DEFINE n == Len(alerts)  at == TimesOf(alerts)  b == BeginsOf(at, d)  m == Made(at, d)
           made == Windows(alerts, phases, d, most)  live == Buckets(Reverse(alerts), d)
<1>1. /\ n \in Nat /\ at \in Seq(Int) /\ Len(at) = n
      /\ \A l \in 1 .. n : at[l] = alerts[l].at /\ at[l] \in Int /\ alerts[l] \in Alerts
  <2>1. n \in Nat /\ DOMAIN alerts = 1 .. n /\ \A l \in 1 .. n : alerts[l] \in Alerts OBVIOUS
  <2>2. \A l \in 1 .. n : alerts[l].at \in Int BY <2>1 DEF Alerts
  <2>3. at = [l \in 1 .. n |-> alerts[l].at] BY DEF TimesOf
  <2> HIDE DEF at
  <2>5. at \in Seq(Int) /\ Len(at) = n BY <2>1, <2>2, <2>3
  <2>6. QED BY <2>1, <2>2, <2>3, <2>5
<1>2. /\ m \in 0 .. n
      /\ \A k \in 1 .. m :
           /\ b[k - 1] \in 1 .. n /\ b[k] \in b[k - 1] + 1 .. n + 1
           /\ \A l \in 1 .. n : Low(at[l], d) = Low(at[b[k - 1]], d) <=> l \in Block(at, d, k)
      /\ \A l \in 1 .. n : \E k \in 1 .. m : l \in Block(at, d, k)
  <2> HIDE DEF at, n
  <2>2. QED BY <1>1, BlocksAre DEF at
<1>3. \A k \in 1 .. m : Block(at, d, k) = b[k - 1] .. b[k] - 1 BY DEF Block
<1>4. /\ DOMAIN made = 1 .. m
      /\ \A k \in 1 .. m : Holding(made[k], alerts, phases, b[k - 1], b[k], most, Low(at[b[k - 1]], d), d)
  BY WindowsAre
<1>5. /\ DOMAIN live = {Low(at[l], d) : l \in 1 .. n}
      /\ \A i \in 1 .. n : \A j \in i + 1 .. n + 1 :
           (\A l \in 1 .. n : Low(at[l], d) = Low(at[i], d) <=> l \in i .. j - 1)
             => live[Low(at[i], d)] = FromLast(alerts, i, j, Low(at[i], d))
  BY BucketsAre
<1> HIDE DEF n, at, b, m, made, live
<1>6. \A k \in 1 .. m : b[k - 1] \in 1 .. n /\ at[b[k - 1]] \in Int /\ Low(at[b[k - 1]], d) \in Int
  <2>2. QED
    <3>1. \A t \in Int : Low(t, d) \in Int BY EdgesAre
    <3>2. QED BY <1>1, <1>2, <3>1
<1>7. DOMAIN live = {made[k].startedAt : k \in DOMAIN made}
  <2>1. ASSUME NEW l \in 1 .. n PROVE \E k \in DOMAIN made : made[k].startedAt = Low(at[l], d)
    <3>1. PICK k \in 1 .. m : l \in Block(at, d, k) BY <1>2
    <3>3. QED BY <1>4, <3>1, <1>2 DEF Holding
  <2>2. ASSUME NEW k \in DOMAIN made PROVE \E l \in 1 .. n : made[k].startedAt = Low(at[l], d)
    BY <1>4, <1>6 DEF Holding
  <2>3. QED BY <1>5, <2>1, <2>2
<1>8. ASSUME NEW k \in DOMAIN made PROVE Alike(made[k].alerts, live[made[k].startedAt], most)
  <2> DEFINE i == b[k - 1]  j == b[k]  lo == Low(at[b[k - 1]], d)
             own == made[k].alerts  cut == live[made[k].startedAt]
  <2>1. k \in 1 .. m BY <1>4
  <2>2. i \in 1 .. n /\ j \in i + 1 .. n + 1 /\ lo \in Int BY <1>2, <1>6, <2>1
  <2>3. \A l \in 1 .. n : Low(at[l], d) = Low(at[i], d) <=> l \in i .. j - 1
    <3>2. Block(at, d, k) = i .. j - 1 BY <1>3, <2>1
    <3>3. QED BY <1>2, <2>1, <3>2
  <2>4. cut = FromLast(alerts, i, j, lo)
    <3> HIDE DEF i, j
    <3>2. live[Low(at[i], d)] = FromLast(alerts, i, j, Low(at[i], d)) BY <1>5, <2>2, <2>3
    <3>3. QED BY <1>4, <2>1, <3>2 DEF i, Holding
  <2>5. own = Latest(alerts, i, j, most, lo) BY <1>4, <2>1 DEF Holding
  <2> HIDE DEF i, j, lo, own, cut
  <2>6. Alike(own, cut, most) BY <2>2, <2>4, <2>5, WindowAsBucket DEF n
  <2>7. QED BY <2>6 DEF own, cut
<1>9. ASSUME NEW a \in Range(alerts), NEW p \in phases, p.start <= a.at, a.at < p.end
      PROVE  \E k \in DOMAIN made : made[k].label = "attack" /\ a.at - made[k].startedAt \in 0 .. d - 1
  <2>1. PICK l \in 1 .. n : a = alerts[l] BY DEF Range, n
  <2>2. PICK k \in 1 .. m : l \in Block(at, d, k) BY <1>2, <2>1
  <2> DEFINE lo == Low(at[b[k - 1]], d)  t == at[l]
  <2>3. Low(t, d) = lo /\ t \in Int /\ t = a.at BY <1>1, <1>2, <2>1, <2>2
  <2>4. lo \in Int /\ lo <= t /\ t < lo + d
    <3> HIDE DEF t, lo
    <3>2. QED BY <2>3, EdgesAre
  <2>5. p.start < lo + d /\ p.end > lo
    <3> HIDE DEF t, lo
    <3>2. QED BY <1>9, <2>3, <2>4
  <2>7. a.at - lo \in 0 .. d - 1
    <3> HIDE DEF t, lo
    <3>1. QED BY <2>3, <2>4, SMTT(30)
  <2>8. QED BY <1>4, <2>2, <2>5, <2>7 DEF Holding
<1>10. QED BY <1>7, <1>8, <1>9 DEF made, live

\* For any capture in order of time, any phases, width and cap: what is fitted on and what
\* is scored on are cut at the same edges and hold the same alerts, the latest of too many
\* (import-ait.py 148-208, Start-LabDashboard.ps1 375-404).  A window of import-ait.py ends
\* where the next edge is, so it holds exactly the alerts of one window of the clock, which
\* is what a bucket is; the bucket holds them newest first, and no feature depends on that.
THEOREM CutAsLive == Spec => []WindowsAsLive
<1>1. GivenIs => WindowsAsLive
  <2>1. SUFFICES ASSUME GivenIs, given[1] = "capture" PROVE WindowsAsLive BY DEF WindowsAsLive
  <2> DEFINE c == given[2]  alerts == c.alerts  phases == c.phases  d == c.width  most == c.most
  <2>2. c \in Captures BY <2>1 DEF GivenIs
  <2> HIDE DEF c
  <2>3. /\ alerts \in Seq(Alerts)
        /\ \A i, j \in DOMAIN alerts : i < j => alerts[i].at <= alerts[j].at
        /\ d \in Nat \ {0} /\ most \in Nat \ {0}
        /\ \A p \in phases : p.start \in Int /\ p.end \in Int
    BY <2>2, CapturesAssumption DEF CapturesAssumption
  <2> HIDE DEF alerts, phases, d, most
  <2>4. Rise(TimesOf(alerts)) BY <2>3 DEF TimesOf, Rise
  <2> DEFINE made == Windows(alerts, phases, d, most)
             live == Buckets(Reverse(alerts), d)
  <2>5. /\ DOMAIN live = {made[k].startedAt : k \in DOMAIN made}
        /\ \A k \in DOMAIN made : Alike(made[k].alerts, live[made[k].startedAt], most)
        /\ \A a \in Range(alerts), p \in phases :
             p.start <= a.at /\ a.at < p.end =>
               \E k \in DOMAIN made : /\ made[k].label = "attack"
                                      /\ a.at - made[k].startedAt \in 0 .. d - 1
    BY <2>3, <2>4, CapturesCut
  <2> HIDE DEF made, live
  <2>6. \A k \in DOMAIN made :
          LET cut == Features(live[made[k].startedAt])
          IN  /\ Len(made[k].alerts) = Min({cut[1], most})
              /\ Last(made[k].alerts).at = live[made[k].startedAt][1].at
              /\ cut[1] <= most => Features(made[k].alerts) = cut
    BY <2>5 DEF Alike
  <2>7. QED BY <2>5, <2>6, ZenonT(30) DEF WindowsAsLive, c, alerts, phases, d, most, made, live
<1>2. QED BY <1>1, GivenCase, PTL

----------------------------------------------------------------------------
(* Operating points of a ranking.                                           *)

\* The ranking has every row once, and none behind a row of a lower score.
LEMMA RankingIs ==
  ASSUME NEW s \in Seq(Int)
  PROVE  /\ Shuffles(Ranking(s), Len(s))
         /\ \A k, l \in 1 .. Len(s) : k < l => s[Ranking(s)[l]] <= s[Ranking(s)[k]]
<1> DEFINE n == Len(s)
           ahead == [i \in DOMAIN s |-> {j \in DOMAIN s : s[j] > s[i] \/ (s[j] = s[i] /\ j < i)}]
<1>1. n \in Nat /\ DOMAIN s = 1 .. n /\ \A i \in 1 .. n : s[i] \in Int OBVIOUS
<1>2. ahead \in [1 .. n -> SUBSET (1 .. n)] BY <1>1
<1>3. \A i, j \in 1 .. n : j \in ahead[i] <=> s[j] > s[i] \/ (s[j] = s[i] /\ j < i) BY <1>1
<1>4. Ranking(s) = InLine(1 .. n, ahead) BY <1>1 DEF Ranking
<1> HIDE DEF ahead, n
<1>5. IsLine(1 .. n, ahead)
  <2>2. ASSUME NEW i \in 1 .. n, NEW j \in 1 .. n, i # j PROVE i \in ahead[j] \/ j \in ahead[i]
    BY <1>1, <2>2, <1>3
  <2>3. ASSUME NEW i \in 1 .. n, NEW j \in ahead[i], NEW k \in ahead[j] PROVE k \in ahead[i]
    BY <1>2, <1>1, <1>3
  <2>4. \A i \in 1 .. n : \A j \in ahead[i] : ahead[j] \subseteq ahead[i] BY <2>3
  <2>5. IsFiniteSet(1 .. n) BY <1>1, PlacesUpTo
  <2>6. QED BY <1>2, <1>1, <1>3, <2>2, <2>4, <2>5 DEF IsLine
<1>7. Lined(Ranking(s), 1 .. n, ahead) BY <1>4, <1>5, LineIs
<1> DEFINE r == Ranking(s)
<1> HIDE DEF r
<1>8. /\ r \in [1 .. n -> 1 .. n]
      /\ \A i \in 1 .. n : \E k \in 1 .. n : r[k] = i
      /\ \A k, l \in 1 .. n : k < l => r[k] \in ahead[r[l]]
  BY <1>1, PlacesUpTo, <1>7 DEF Lined, r
<1>9. ASSUME NEW k \in 1 .. n, NEW l \in 1 .. n, k < l PROVE r[k] # r[l] /\ s[r[l]] <= s[r[k]]
  <2>1. r[k] \in 1 .. n /\ r[l] \in 1 .. n /\ r[k] \in ahead[r[l]] BY <1>8, <1>9
  <2>2. s[r[k]] > s[r[l]] \/ (s[r[k]] = s[r[l]] /\ r[k] < r[l]) BY <1>3, <2>1
  <2>3. s[r[k]] \in Int /\ s[r[l]] \in Int /\ r[k] \in Int /\ r[l] \in Int BY <1>1, <2>1
  <2>4. QED BY <2>2, <2>3
<1>10. Shuffles(r, n)
  <2>1. ASSUME NEW k \in 1 .. n, NEW l \in 1 .. n, r[k] = r[l] PROVE k = l BY <1>1, <1>9, <2>1
  <2>2. QED BY <1>8, <2>1 DEF Shuffles
<1>11. QED BY <1>9, <1>10 DEF r, n

\* As many rows qualify in any order of them.
LEMMA CountedInOrder ==
  ASSUME NEW n \in Nat, NEW r, Shuffles(r, n),
         NEW I \in SUBSET (1 .. n), NEW J \in SUBSET (1 .. n),
         \A k \in 1 .. n : k \in J <=> r[k] \in I
  PROVE  Cardinality(I) = Cardinality(J)
<1>1. IsFiniteSet(J) BY Counted
<1> DEFINE f == [k \in J |-> r[k]]
<1>3. \A i, j \in J : f[i] = f[j] => i = j BY DEF Shuffles
<1>4. {f[i] : i \in J} = I
  <2>1. \A k \in J : f[k] \in I OBVIOUS
  <2>2. ASSUME NEW i \in I PROVE \E k \in J : f[k] = i
    <3>1. PICK k \in 1 .. n : r[k] = i BY DEF Shuffles
    <3>3. QED BY <3>1
  <2> HIDE DEF f
  <2>3. QED BY ONLY <2>1, <2>2
<1> HIDE DEF f
<1>5. Cardinality({f[i] : i \in J}) = Cardinality(J) BY ONLY <1>1, <1>3, ImageOf
<1>6. QED BY <1>4, <1>5

\* Down a ranking neither the rows that hit nor those that do not grow fewer.
LEMMA RowsDown ==
  ASSUME NEW n \in Nat, NEW H \in SUBSET (1 .. n)
  PROVE  \A i \in 0 .. n :
           /\ Cardinality((1 .. i) \cap H) \in 0 .. i
           /\ Cardinality((1 .. i) \ H) = i - Cardinality((1 .. i) \cap H)
           /\ \A j \in i .. n :
                /\ Cardinality((1 .. i) \cap H) <= Cardinality((1 .. j) \cap H)
                /\ i - Cardinality((1 .. i) \cap H) <= j - Cardinality((1 .. j) \cap H)
<1> DEFINE In(i) == (1 .. i) \cap H  Out(i) == (1 .. i) \ H
<1>1. ASSUME NEW i \in 0 .. n
      PROVE  /\ IsFiniteSet(In(i)) /\ IsFiniteSet(Out(i))
             /\ Cardinality(In(i)) \in 0 .. i /\ Cardinality(Out(i)) = i - Cardinality(In(i))
  <2>1. i \in Nat /\ IsFiniteSet(1 .. i) /\ Cardinality(1 .. i) = i BY PlacesUpTo
  <2>2. In(i) \in SUBSET (1 .. i) /\ Out(i) \in SUBSET (1 .. i) OBVIOUS
  <2>3. In(i) \cup Out(i) = 1 .. i /\ In(i) \cap Out(i) = {} OBVIOUS
  <2> HIDE DEF In, Out
  <2>4. /\ IsFiniteSet(In(i)) /\ Cardinality(In(i)) \in 0 .. i
        /\ IsFiniteSet(Out(i)) /\ Cardinality(Out(i)) \in 0 .. i
    BY <2>1, <2>2, Counted
  <2>6. Cardinality(In(i) \cap Out(i)) = 0 BY <2>3, FS_EmptySet
  <2>7. Cardinality(In(i) \cup Out(i)) = i BY <2>1, <2>3
  <2> DEFINE a == Cardinality(In(i))  b == Cardinality(Out(i))
  <2>8. i \in Nat /\ a \in 0 .. i /\ b \in 0 .. i /\ i = a + b - 0
    BY <2>1, <2>4, FS_Union, <2>6, <2>7
  <2> HIDE DEF a, b
  <2>9. b = i - a BY <2>8
  <2>10. QED BY <2>4, <2>9 DEF a, b
<1>2. ASSUME NEW i \in 0 .. n, NEW j \in i .. n
      PROVE  /\ Cardinality(In(i)) <= Cardinality(In(j))
             /\ Cardinality(Out(i)) <= Cardinality(Out(j))
  <2>1. In(i) \in SUBSET In(j) /\ Out(i) \in SUBSET Out(j) /\ j \in 0 .. n OBVIOUS
  <2> HIDE DEF In, Out
  <2>2. IsFiniteSet(In(j)) /\ IsFiniteSet(Out(j)) BY <1>1, <2>1
  <2>4. Cardinality(Out(i)) <= Cardinality(Out(j)) BY <2>1, <2>2, FS_Subset
  <2>5. QED BY <2>1, <2>2, FS_Subset, <2>4
<1> HIDE DEF In, Out
<1>3. ASSUME NEW i \in 0 .. n
      PROVE  /\ Cardinality(In(i)) \in 0 .. i
             /\ Cardinality(Out(i)) = i - Cardinality(In(i))
             /\ \A j \in i .. n : /\ Cardinality(In(i)) <= Cardinality(In(j))
                                  /\ i - Cardinality(In(i)) <= j - Cardinality(In(j))
  <2>1. ASSUME NEW j \in i .. n
        PROVE  /\ Cardinality(In(i)) <= Cardinality(In(j))
               /\ i - Cardinality(In(i)) <= j - Cardinality(In(j))
    BY <1>1, <1>2
  <2>2. QED BY <1>1, <2>1
<1>4. QED BY <1>3 DEF In, Out

\* What a cutoff lets through is the top of the ranking.
LEMMA TopOfRanking ==
  ASSUME NEW s \in Seq(Int), NEW t \in Int
  PROVE  \E r \in 0 .. Len(s) : \A k \in 1 .. Len(s) : s[Ranking(s)[k]] >= t <=> k <= r
<1> DEFINE n == Len(s)  o == Ranking(s)
           S == {k \in 1 .. n : s[o[k]] >= t}
<1>1. n \in Nat /\ \A i \in 1 .. n : s[i] \in Int OBVIOUS
<1>2. /\ o \in [1 .. n -> 1 .. n]
      /\ \A k, l \in 1 .. n : k < l => s[o[l]] <= s[o[k]]
  BY RankingIs DEF Shuffles
<1> HIDE DEF n, o
<1>3. \A k \in 1 .. n : s[o[k]] \in Int BY <1>1, <1>2
<1>4. CASE S = {}
  <2>1. 0 \in 0 .. n /\ \A k \in 1 .. n : ~(k <= 0) BY <1>1
  <2>3. QED BY <2>1, <1>4 DEF n, o
<1>5. CASE S # {}
  <2>1. /\ S \in SUBSET Int /\ \A k \in S : 1 <= k /\ k <= n
        /\ 1 \in Int /\ n \in Int
    BY <1>1
  <2> HIDE DEF S
  <2>2. Max(S) \in S /\ \A k \in S : k <= Max(S) BY <1>1, <1>5, <2>1, Extremes
  <2> DEFINE r == Max(S)
  <2> HIDE DEF r
  <2>3. r \in S /\ \A k \in S : k <= r BY <2>2 DEF r
  <2>4. r \in 1 .. n /\ s[o[r]] >= t BY <2>3 DEF S
  <2>5. ASSUME NEW k \in 1 .. n PROVE s[o[k]] >= t <=> k <= r BY <2>3, <1>2, <2>4, <1>3 DEF S
  <2>6. r \in 0 .. n BY <2>4
  <2>7. QED BY <2>5, <2>6 DEF n, o
<1>6. QED BY <1>4, <1>5

\* The rows of the ranking that are attacks, and how many of them are in the first i.
HitRows(y, s)   == {k \in 1 .. Len(s) : y[Ranking(s)[k]]}
Caught(y, s, i) == Cardinality((1 .. i) \cap HitRows(y, s))

\* Every cutoff catches what is in some number of rows, all attacks are in all rows.
LEMMA CutoffIs ==
  ASSUME NEW y \in Seq(BOOLEAN), NEW s \in Seq(Int), Len(y) = Len(s)
  PROVE  /\ Cardinality({i \in DOMAIN y : y[i]}) = Caught(y, s, Len(s))
         /\ \A t \in Int : \A r \in 0 .. Len(s) :
              (\A k \in 1 .. Len(s) : s[Ranking(s)[k]] >= t <=> k <= r) =>
                /\ Scores(y, [i \in DOMAIN s |-> s[i] >= t]).tp = Caught(y, s, r)
                /\ Scores(y, [i \in DOMAIN s |-> s[i] >= t]).fp = r - Caught(y, s, r)
<1> DEFINE n == Len(s)  o == Ranking(s)  H == HitRows(y, s)
           A == {i \in DOMAIN y : y[i]}
<1>1. n \in Nat /\ DOMAIN y = 1 .. n /\ DOMAIN s = 1 .. n /\ A \in SUBSET (1 .. n) OBVIOUS
<1>2. Shuffles(o, n) BY RankingIs
<1>3. H \in SUBSET (1 .. n) /\ \A k \in 1 .. n : k \in H <=> o[k] \in A
  BY <1>1, <1>2 DEF HitRows, Shuffles
<1>4. \A i : Caught(y, s, i) = Cardinality((1 .. i) \cap H) BY DEF Caught
<1> HIDE DEF n, o, H
<1>5. \A I, J \in SUBSET (1 .. n) :
        (\A k \in 1 .. n : k \in J <=> o[k] \in I) => Cardinality(I) = Cardinality(J)
  BY <1>1, <1>2, CountedInOrder
<1>6. Cardinality(A) = Cardinality(H)
  <2> HIDE DEF A
  <2>1. QED BY <1>1, <1>3, <1>5
<1>8. ASSUME NEW t \in Int, NEW r \in 0 .. n, \A k \in 1 .. n : s[o[k]] >= t <=> k <= r
      PROVE  /\ Scores(y, [i \in DOMAIN s |-> s[i] >= t]).tp = Caught(y, s, r)
             /\ Scores(y, [i \in DOMAIN s |-> s[i] >= t]).fp = r - Caught(y, s, r)
  <2> DEFINE hits == [i \in DOMAIN s |-> s[i] >= t]
             T == {i \in DOMAIN y : y[i] /\ hits[i]}
             P == {i \in DOMAIN y : ~y[i] /\ hits[i]}
             above == {i \in 1 .. n : s[i] >= t}
  <2>1. /\ Scores(y, hits).tp = Cardinality(T)
        /\ Scores(y, hits).fp = Cardinality(P)
    BY DEF Scores
  <2>2. T = A \cap above BY <1>1
  <2>3. P = above \ A BY <1>1
  <2>4. \A k \in 1 .. n : o[k] \in above <=> k \in 1 .. r
    <3>1. \A k \in 1 .. n : o[k] \in 1 .. n BY <1>2 DEF Shuffles
    <3>2. QED BY <1>1, <1>8, <3>1
  <2>5. above \in SUBSET (1 .. n) /\ r \in 0 .. n /\ 1 .. r \in SUBSET (1 .. n) BY <1>1
  <2> HIDE DEF T, P, A, above, hits
  <2>6. Cardinality(T) = Cardinality((1 .. r) \cap H)
    <3> DEFINE J == (1 .. r) \cap H
    <3>1. /\ T \in SUBSET (1 .. n) /\ J \in SUBSET (1 .. n)
          /\ \A k \in 1 .. n : k \in J <=> o[k] \in T
      BY <1>3, <2>2, <2>4, <2>5
    <3> HIDE DEF J
    <3>3. QED BY <1>5, <3>1 DEF J
  <2>7. Cardinality(P) = Cardinality((1 .. r) \ H)
    <3> DEFINE J == (1 .. r) \ H
    <3>1. /\ P \in SUBSET (1 .. n) /\ J \in SUBSET (1 .. n)
          /\ \A k \in 1 .. n : k \in J <=> o[k] \in P
      BY <1>3, <2>3, <2>4, <2>5
    <3> HIDE DEF J
    <3>3. QED BY <1>5, <3>1 DEF J
  <2>8. Cardinality((1 .. r) \ H) = r - Cardinality((1 .. r) \cap H)
    BY <1>1, <1>3, <2>5, RowsDown
  <2>9. QED BY <1>4, <2>1, <2>6, <2>7, <2>8 DEF hits
<1>9. QED BY <1>4, <1>6, <1>3, <1>8 DEF n, o, A

\* The two points are rows of the ranking: the last one down to which there are only
\* attacks, the first row if there is none; and the first one that catches half of them,
\* the last row if there is nothing to catch.
LEMMA PointsAre ==
  ASSUME NEW y \in Seq(BOOLEAN), NEW s \in Seq(Int), Len(y) = Len(s), Len(s) > 0
  PROVE  /\ \E m \in 1 .. Len(s) :
              /\ OperatingPoints(y, s).perfect = [tp |-> Caught(y, s, m), fp |-> m - Caught(y, s, m)]
              /\ Caught(y, s, m) = m \/ (m = 1 /\ Caught(y, s, 1) = 0)
              /\ \A i \in 1 .. Len(s) : Caught(y, s, i) = i => i <= m
         /\ \E h \in 1 .. Len(s) :
              /\ OperatingPoints(y, s).half = [tp |-> Caught(y, s, h), fp |-> h - Caught(y, s, h)]
              /\ 2 * Caught(y, s, h) >= Caught(y, s, Len(s))
              /\ \A i \in 1 .. Len(s) :
                   Caught(y, s, i) > 0 /\ 2 * Caught(y, s, i) >= Caught(y, s, Len(s)) => h <= i
<1> DEFINE n == Len(s)  o == Ranking(s)  F(i) == Caught(y, s, i)
           found == [i \in DOMAIN y |-> Cardinality({k \in 1 .. i : y[o[k]]})]
           clean == {i \in DOMAIN found : found[i] = i}
           half == {i \in DOMAIN y : 2 * found[i] >= Max({1, Last(found)})}
<1>1. n \in Nat /\ n >= 1 /\ DOMAIN y = 1 .. n /\ Len(y) = n OBVIOUS
<1>0. \A x, z \in Int : Max({x, z}) = IF x >= z THEN x ELSE z BY OfTwo
<1>3. ASSUME NEW i \in 1 .. n PROVE F(i) \in 0 .. i
  <2>1. i \in 0 .. n BY <1>1
  <2>2. QED BY <1>1, <2>1, RowsDown DEF Caught, HitRows
<1>4. ASSUME NEW i \in 1 .. n PROVE found[i] = F(i)
  <2>1. {k \in 1 .. i : y[o[k]]} = (1 .. i) \cap HitRows(y, s) BY <1>1 DEF HitRows
  <2>2. QED BY <1>1, <2>1 DEF Caught
<1>5. DOMAIN found = 1 .. n /\ Len(found) = n /\ Last(found) = F(n)
  <2>1. DOMAIN found = 1 .. n BY <1>1
  <2>2. Len(found) = n BY <1>1, <2>1
  <2> HIDE DEF found, n
  <2>4. n \in 1 .. n BY <1>1
  <2>5. QED BY <1>4, <2>1, <2>2, <2>4 DEF Last
<1>6. OperatingPoints(y, s) =
        LET Point(i) == [tp |-> found[i], fp |-> i - found[i]]
        IN  [perfect |-> Point(Max({1, LastClean(found)})),
             half    |-> Point(IF half = {} THEN Len(y) ELSE Min(half))]
  BY DEF OperatingPoints
<1>7. LastClean(found) = Highest(clean) BY DEF LastClean
<1> HIDE DEF found, n, o, F
<1>8. clean = {i \in 1 .. n : F(i) = i} BY <1>4, <1>5
<1>9. half = {i \in 1 .. n : 2 * F(i) >= IF F(n) >= 1 THEN F(n) ELSE 1}
  <2>1. n \in 1 .. n /\ F(n) \in Int /\ 1 \in Int BY <1>1, <1>3
  <2>2. Max({1, F(n)}) = IF 1 >= F(n) THEN 1 ELSE F(n) BY <2>1, OfTwo
  <2>3. Max({1, F(n)}) = IF F(n) >= 1 THEN F(n) ELSE 1 BY <2>1, <2>2
  <2>5. QED BY <1>4, <2>3, <1>1, <1>5
<1> HIDE DEF clean, half
<1> DEFINE m == Max({1, LastClean(found)})  h == IF half = {} THEN n ELSE Min(half)
<1>10. /\ m \in 1 .. n
       /\ F(m) = m \/ (m = 1 /\ F(1) = 0)
       /\ \A i \in 1 .. n : F(i) = i => i <= m
  <2>1. CASE clean = {}
    <3>2. m = 1 BY <1>0, <1>7, <2>1 DEF Highest
    <3>3. 1 \in 1 .. n BY <1>1
    <3> HIDE DEF m
    <3>5. QED BY <1>8, <2>1, <3>2, <3>3, <1>3
  <2>2. CASE clean # {}
    <3> DEFINE l == Max(clean)
    <3>1. /\ clean \in SUBSET Int /\ \A i \in clean : 1 <= i /\ i <= n
          /\ 1 \in Int /\ n \in Int
      BY <1>1, <1>8
    <3>2. l \in clean /\ \A i \in clean : i <= l BY <2>2, <3>1, Extremes
    <3>3. LastClean(found) = l BY <1>7, <2>2 DEF Highest
    <3> HIDE DEF l
    <3>4. l \in Int /\ 1 <= l BY <3>1, <3>2
    <3>5. Max({1, l}) = IF 1 >= l THEN 1 ELSE l BY <1>0, <3>4
    <3>6. m = l BY <3>3, <3>4, <3>5
    <3> HIDE DEF m
    <3>7. QED BY <1>8, <3>2, <3>6
  <2>3. QED BY <2>1, <2>2
<1>11. /\ h \in 1 .. n /\ 2 * F(h) >= F(n)
       /\ \A i \in 1 .. n : F(i) > 0 /\ 2 * F(i) >= F(n) => h <= i
  <2>1. n \in 1 .. n /\ F(n) \in 0 .. n BY <1>1, <1>3
  <2>2. ASSUME NEW i \in 1 .. n, F(i) > 0, 2 * F(i) >= F(n) PROVE i \in half
    <3>2. 2 * F(i) >= IF F(n) >= 1 THEN F(n) ELSE 1 BY <2>2, <1>3, <2>1
    <3>3. QED BY <1>9, <3>2
  <2>3. CASE half = {}
    <3>1. h = n BY <2>3
    <3> HIDE DEF h
    <3>2. 2 * F(n) >= F(n) BY <2>1
    <3>3. QED BY <2>1, <2>2, <2>3, <3>1, <3>2
  <2>4. CASE half # {}
    <3>1. /\ half \in SUBSET Int /\ \A i \in half : 1 <= i /\ i <= n
          /\ 1 \in Int /\ n \in Int
      BY <1>1, <1>9
    <3>2. Min(half) \in half /\ \A i \in half : Min(half) <= i BY <2>4, <3>1, Extremes
    <3>3. h = Min(half) BY <2>4
    <3> HIDE DEF h
    <3>4. h \in 1 .. n /\ 2 * F(h) >= IF F(n) >= 1 THEN F(n) ELSE 1 BY <1>9, <3>2, <3>3
    <3>6. 2 * F(h) >= F(n) BY <2>1, <3>4, <1>3
    <3>7. QED BY <2>2, <3>2, <3>3, <3>4, <3>6
  <2>5. QED BY <2>3, <2>4
<1>12. /\ OperatingPoints(y, s).perfect = [tp |-> F(m), fp |-> m - F(m)]
       /\ OperatingPoints(y, s).half = [tp |-> F(h), fp |-> h - F(h)]
  <2>1. /\ OperatingPoints(y, s).perfect = [tp |-> found[m], fp |-> m - found[m]]
        /\ OperatingPoints(y, s).half = [tp |-> found[h], fp |-> h - found[h]]
    BY <1>1, <1>6
  <2> HIDE DEF m, h
  <2>2. found[m] = F(m) /\ found[h] = F(h) BY <1>4, <1>10, <1>11
  <2>3. QED BY <2>1, <2>2
<1> HIDE DEF m, h
<1>13. QED BY <1>10, <1>11, <1>12 DEF F, n

\* Where no two scores are equal, the score of a row cuts the ranking at it.
LEMMA CutAtRow ==
  ASSUME NEW s \in Seq(Int), Cardinality(Range(s)) = Len(s), NEW i \in 1 .. Len(s)
  PROVE  /\ s[Ranking(s)[i]] \in Range(s)
         /\ \A k \in 1 .. Len(s) : s[Ranking(s)[k]] >= s[Ranking(s)[i]] <=> k <= i
<1> DEFINE n == Len(s)  o == Ranking(s)  S == Range(s)
<1>1. n \in Nat /\ DOMAIN s = 1 .. n /\ \A k \in 1 .. n : s[k] \in Int OBVIOUS
<1>2. IsFiniteSet(1 .. n) /\ Cardinality(1 .. n) = n BY <1>1, PlacesUpTo, SMTT(30)
<1>3. S = {s[k] : k \in 1 .. n} BY <1>1 DEF Range
<1>4. Shuffles(o, n) /\ \A k, l \in 1 .. n : k < l => s[o[l]] <= s[o[k]] BY RankingIs, SMTT(30)
<1>5. s \in [1 .. n -> S]
  <2>1. \A k \in 1 .. n : s[k] \in S BY <1>3
  <2>2. s = [k \in 1 .. n |-> s[k]] BY <1>1
  <2> HIDE DEF S, n
  <2>3. QED BY <2>1, <2>2, SMTT(30)
<1> HIDE DEF n, o, S
<1>6. s \in Surjection(1 .. n, S) BY <1>3, <1>5 DEF Surjection
<1>7. s \in Injection(1 .. n, S) BY <1>2, <1>6, FS_Surjection DEF S, n
<1>9. \A k \in 1 .. n : o[k] \in 1 .. n /\ s[o[k]] \in Int /\ s[o[k]] \in S
  BY <1>1, <1>4, <1>5 DEF Shuffles
<1>10. ASSUME NEW k \in 1 .. n PROVE s[o[k]] >= s[o[i]] <=> k <= i
  <2>1. i \in 1 .. n BY DEF n
  <2>2. o[k] = o[i] => k = i BY <1>4, <2>1 DEF Shuffles
  <2>3. s[o[k]] = s[o[i]] => k = i BY <1>7, <1>9, <2>1, <2>2 DEF Injection, IsInjective
  <2>4. (k < i => s[o[i]] <= s[o[k]]) /\ (i < k => s[o[k]] <= s[o[i]]) BY <1>4, <2>1
  <2>5. s[o[k]] \in Int /\ s[o[i]] \in Int /\ k \in Int /\ i \in Int BY <1>1, <1>9, <2>1
  <2>6. k = i => s[o[k]] = s[o[i]] OBVIOUS
  <2>7. QED BY <2>3, <2>4, <2>5, <2>6
<1>11. QED BY <1>9, <1>10 DEF n, o, S

\* What is promised of the two points of one ranking.
QuotedHonestly(y, s) ==
  LET At(t)   == Scores(y, [i \in DOMAIN s |-> s[i] >= t])
      cutoffs == {At(t) : t \in Range(s) \cup {1000}}
      points  == OperatingPoints(y, s)
      attacks == Cardinality({i \in DOMAIN y : y[i]})
  IN  /\ points.perfect.fp = 0 \/ points.perfect.tp = 0
      /\ 2 * points.half.tp >= attacks
      /\ \A c \in cutoffs : /\ c.fp = 0 => c.tp <= points.perfect.tp
                            /\ c.tp > 0 /\ 2 * c.tp >= attacks => c.fp >= points.half.fp
      /\ Cardinality(Range(s)) = Len(s) =>
           \A point \in {points.perfect, points.half} :
             \E c \in cutoffs : c.tp = point.tp /\ c.fp = point.fp

\* The cutoffs let through tops of the ranking, in which both counts only grow.
LEMMA PointsBound ==
  ASSUME NEW y \in Seq(BOOLEAN), NEW s \in Seq(Int), Len(y) = Len(s), s # <<>>
  PROVE  QuotedHonestly(y, s)
<1> DEFINE n == Len(s)  F(i) == Caught(y, s, i)  o == Ranking(s)
           At(t)   == Scores(y, [i \in DOMAIN s |-> s[i] >= t])
           cuts    == Range(s) \cup {1000}
           perfect == OperatingPoints(y, s).perfect
           half    == OperatingPoints(y, s).half
           attacks == Cardinality({i \in DOMAIN y : y[i]})
<1>1. n \in Nat /\ n > 0 /\ DOMAIN s = 1 .. n /\ \A k \in 1 .. n : s[k] \in Int OBVIOUS
<1>2. cuts \in SUBSET Int BY <1>1 DEF Range
<1>3. /\ attacks = F(n)
      /\ \A t \in Int : \A r \in 0 .. n :
           (\A k \in 1 .. n : s[o[k]] >= t <=> k <= r) => At(t).tp = F(r) /\ At(t).fp = r - F(r)
  BY CutoffIs
<1>4. \A t \in Int : \E r \in 0 .. n : \A k \in 1 .. n : s[o[k]] >= t <=> k <= r BY TopOfRanking
<1>5. \A i \in 0 .. n : F(i) \in 0 .. i /\ \A j \in i .. n : F(i) <= F(j) /\ i - F(i) <= j - F(j)
  <2>1. HitRows(y, s) \in SUBSET (1 .. n) BY DEF HitRows
  <2> HIDE DEF n
  <2>2. QED BY <1>1, <2>1, RowsDown DEF Caught
<1>6. /\ \E m \in 1 .. n :
           /\ perfect = [tp |-> F(m), fp |-> m - F(m)]
           /\ F(m) = m \/ (m = 1 /\ F(1) = 0)
           /\ \A i \in 1 .. n : F(i) = i => i <= m
      /\ \E h \in 1 .. n :
           /\ half = [tp |-> F(h), fp |-> h - F(h)]
           /\ 2 * F(h) >= F(n)
           /\ \A i \in 1 .. n : F(i) > 0 /\ 2 * F(i) >= F(n) => h <= i
  BY <1>1, PointsAre
<1>7. Cardinality(Range(s)) = n =>
        \A i \in 1 .. n : /\ s[o[i]] \in cuts
                          /\ \A k \in 1 .. n : s[o[k]] >= s[o[i]] <=> k <= i
  <2>1. Cardinality(Range(s)) = n =>
          \A i \in 1 .. n : /\ s[o[i]] \in Range(s)
                            /\ \A k \in 1 .. n : s[o[k]] >= s[o[i]] <=> k <= i
    BY CutAtRow
  <2>2. Range(s) \subseteq cuts OBVIOUS
  <2> HIDE DEF cuts, n, o
  <2>3. QED BY <2>1, <2>2
<1>8. Cardinality(Range(s)) = n =>
        \A i \in 1 .. n : \E t \in cuts : At(t).tp = F(i) /\ At(t).fp = i - F(i)
  <2> SUFFICES ASSUME Cardinality(Range(s)) = n, NEW i \in 1 .. n
               PROVE  \E t \in cuts : At(t).tp = F(i) /\ At(t).fp = i - F(i)
    OBVIOUS
  <2> DEFINE t == s[o[i]]
  <2> HIDE DEF At, F, cuts, n, o
  <2>1. t \in cuts /\ \A k \in 1 .. n : s[o[k]] >= t <=> k <= i BY <1>7
  <2> HIDE DEF t
  <2>3. i \in 0 .. n BY <1>1
  <2>4. At(t).tp = F(i) /\ At(t).fp = i - F(i) BY <1>3, <2>1, <1>2, <2>3
  <2>5. QED BY <2>1, <2>4
<1> HIDE DEF n, F, o, At, cuts, perfect, half, attacks
<1>9. PICK m \in 1 .. n :
        /\ perfect = [tp |-> F(m), fp |-> m - F(m)]
        /\ F(m) = m \/ (m = 1 /\ F(1) = 0)
        /\ \A i \in 1 .. n : F(i) = i => i <= m
  BY <1>6
<1>10. PICK h \in 1 .. n :
         /\ half = [tp |-> F(h), fp |-> h - F(h)]
         /\ 2 * F(h) >= F(n)
         /\ \A i \in 1 .. n : F(i) > 0 /\ 2 * F(i) >= F(n) => h <= i
  BY <1>6
<1>11. /\ perfect.tp = F(m) /\ perfect.fp = m - F(m)
       /\ half.tp = F(h) /\ half.fp = h - F(h)
  BY <1>9, <1>10
<1>12. /\ m \in 0 .. n /\ h \in 0 .. n /\ n \in 0 .. n
       /\ F(m) \in 0 .. m /\ F(h) \in 0 .. h /\ F(n) \in Int
  <2>1. m \in 0 .. n /\ h \in 0 .. n /\ n \in 0 .. n BY <1>1
  <2>2. QED BY <1>5, <2>1
<1>13. perfect.fp = 0 \/ perfect.tp = 0 BY <1>9, <1>11, <1>12
<1>14. 2 * half.tp >= attacks BY <1>3, <1>10, <1>11
<1>15. ASSUME NEW t \in cuts
       PROVE  /\ At(t).fp = 0 => At(t).tp <= perfect.tp
              /\ At(t).tp > 0 /\ 2 * At(t).tp >= attacks => At(t).fp >= half.fp
  <2>1. t \in Int BY <1>2
  <2>2. PICK r \in 0 .. n : \A k \in 1 .. n : s[o[k]] >= t <=> k <= r BY <1>4, <2>1
  <2>4. F(r) \in 0 .. r /\ r \in Nat /\ (r = 0 \/ r \in 1 .. n)
    <3>2. r \in Nat /\ (r = 0 \/ r \in 1 .. n) BY <1>1
    <3>3. QED BY <1>5, <3>2
  <2>5. ASSUME r - F(r) = 0 PROVE F(r) <= F(m)
    <3>1. CASE r = 0 BY <1>12, <2>4, <3>1
    <3>2. CASE r \in 1 .. n BY <2>4, <2>5, <1>9, <3>2, <1>1, <1>5
    <3>3. QED BY <2>4, <3>1, <3>2
  <2>6. ASSUME F(r) > 0, 2 * F(r) >= F(n) PROVE r - F(r) >= h - F(h)
    BY <2>4, <2>6, <1>10, <1>1, <1>5, <1>12
  <2>7. QED BY <1>3, <1>11, <2>1, <2>2, <2>5, <2>6
<1>17. \A c \in {At(t) : t \in cuts} :
         /\ c.fp = 0 => c.tp <= perfect.tp
         /\ c.tp > 0 /\ 2 * c.tp >= attacks => c.fp >= half.fp
  BY <1>15
<1>18. Cardinality(Range(s)) = n =>
         \A point \in {perfect, half} :
           \E c \in {At(t) : t \in cuts} : c.tp = point.tp /\ c.fp = point.fp
  BY <1>8, <1>11
<1>19. QED BY <1>13, <1>14, <1>17, <1>18 DEF QuotedHonestly, n, At, cuts, perfect, half, attacks

\* For any labels and any scores, tied or not: no cutoff without a false alarm catches more
\* than the perfect point, none that catches half of the attacks has fewer false alarms than
\* the half one, and without ties each of the two is what some cutoff gives
\* (build-report.py 105-123).  What a cutoff lets through is the top of the ranking, and
\* down a ranking neither the caught attacks nor the false alarms grow fewer.
THEOREM PointsHonest == Spec => []OperatingPointsHonest
<1>1. GivenIs => OperatingPointsHonest
  <2>1. SUFFICES ASSUME GivenIs, given[1] = "ranking" PROVE OperatingPointsHonest
    BY DEF OperatingPointsHonest
  <2> DEFINE c == given[2]  y == c.y  s == c.s
  <2>2. c \in Rankings BY <2>1 DEF GivenIs
  <2> HIDE DEF c
  <2>3. y \in Seq(BOOLEAN) /\ s \in Seq(Int) /\ Len(y) = Len(s) /\ s # <<>>
    BY <2>2, RankingsAssumption
  <2> HIDE DEF y, s
  <2>4. QuotedHonestly(y, s) BY <2>3, PointsBound
  <2>5. QED BY <2>4 DEF QuotedHonestly, OperatingPointsHonest, c, y, s
<1>2. QED BY <1>1, GivenCase, PTL

----------------------------------------------------------------------------
(* A ranking read by its blocks.                                            *)

\* Below each place as many tiles as its number says.
Tiles(s, h) == {p \in (1 .. Len(s)) \X (1 .. h) : p[2] <= s[p[1]]}

\* The sum of naturals is how many tiles there are.
LEMMA TilesAre ==
  ASSUME NEW h \in Nat, NEW s \in Seq(Nat), \A k \in 1 .. Len(s) : s[k] <= h
  PROVE  IsFiniteSet(Tiles(s, h)) /\ Sum(s) = Cardinality(Tiles(s, h))
<1> DEFINE n == Len(s)  A == Tiles(s, h)
           D == [m \in 0 .. n |-> {p \in A : p[1] <= m}]
<1>1. n \in Nat /\ s \in Seq(Int) /\ \A k \in 1 .. n : s[k] \in 0 .. h OBVIOUS
<1>2. \A p : p \in A <=> p \in (1 .. n) \X (1 .. h) /\ p[2] <= s[p[1]] BY DEF Tiles
<1>3. IsFiniteSet(A) BY <1>1, PlacesUpTo, FS_Product, <1>2, FS_Subset
<1> HIDE DEF n, A
<1>4. /\ D \in [0 .. n -> SUBSET A]
      /\ \A m \in 0 .. n : \A p : p \in D[m] <=> p \in A /\ p[1] <= m
  OBVIOUS
<1>5. D[0] = {} /\ D[n] = A
  <2>1. \A p \in A : p[1] \in 1 .. n BY <1>2
  <2>2. 0 \in 0 .. n /\ n \in 0 .. n /\ (\A i \in 1 .. n : i <= n /\ ~(i <= 0)) BY <1>1
  <2> HIDE DEF D
  <2>3. QED BY <1>4, <2>1, <2>2
<1> HIDE DEF D
<1>6. ASSUME NEW k \in 1 .. n
      PROVE  D[k - 1] \subseteq D[k] /\ s[k] = Cardinality(Added(D, k))
  <2>1. k \in 0 .. n /\ k - 1 \in 0 .. n /\ s[k] \in 0 .. h BY <1>1
  <2>2. \A p \in A : p \in (1 .. n) \X (1 .. h) /\ p[1] \in Int /\ (p[1] <= k - 1 => p[1] <= k)
    BY <1>2
  <2> DEFINE f == [j \in 1 .. s[k] |-> <<k, j>>]
  <2>4. \A p : p \in Added(D, k) <=> p \in A /\ p[1] = k
    <3>1. \A p \in A : (p[1] <= k /\ ~(p[1] <= k - 1)) <=> p[1] = k BY <2>2
    <3>2. QED BY <1>4, <2>1, <3>1 DEF Added
  <2>5. Added(D, k) = {f[j] : j \in 1 .. s[k]}
    <3>1. ASSUME NEW j \in 1 .. s[k] PROVE f[j] \in Added(D, k)
      <4>1. j \in 1 .. h /\ f[j] = <<k, j>> /\ j <= s[k] BY <2>1
      <4>3. QED BY <2>4, <4>1, <1>2
    <3>2. ASSUME NEW p \in Added(D, k) PROVE \E j \in 1 .. s[k] : f[j] = p BY <1>2, <2>4, <2>1
    <3> HIDE DEF f
    <3>3. QED BY <3>1, <3>2
  <2>6. \A i, j \in 1 .. s[k] : f[i] = f[j] => i = j OBVIOUS
  <2> HIDE DEF f
  <2>7. IsFiniteSet(1 .. s[k]) /\ Cardinality(1 .. s[k]) = s[k] BY <2>1, PlacesUpTo
  <2>8. Cardinality({f[j] : j \in 1 .. s[k]}) = Cardinality(1 .. s[k])
    <3> DEFINE K == 1 .. s[k]
    <3>1. IsFiniteSet(K) /\ \A i, j \in K : f[i] = f[j] => i = j BY <2>6, <2>7
    <3> HIDE DEF K
    <3>2. Cardinality({f[j] : j \in K}) = Cardinality(K) BY ONLY <3>1, ImageOf
    <3>3. QED BY <3>2 DEF K
  <2>9. QED BY <1>4, <2>1, <2>2, <2>5, <2>7, <2>8
<1>7. Sum(s) = Cardinality(D[n])
  <2>1. Len(s) = n BY DEF n
  <2>2. /\ D \in [0 .. n -> SUBSET A] /\ D[0] = {}
        /\ \A k \in 1 .. n : D[k - 1] \subseteq D[k]
        /\ \A k \in 1 .. n : s[k] = Cardinality(Added(D, k))
    BY <1>4, <1>5, <1>6
  <2>3. QED BY ONLY <1>1, <1>3, <2>1, <2>2, Layers
<1>8. QED BY <1>3, <1>5, <1>7 DEF A

\* A sum of naturals is the same in any order of them.
LEMMA SumShuffled ==
  ASSUME NEW s \in Seq(Nat), NEW t \in Seq(Nat), Len(t) = Len(s),
         NEW f, Shuffles(f, Len(s)), \A k \in 1 .. Len(s) : t[k] = s[f[k]]
  PROVE  Sum(t) = Sum(s)
<1> DEFINE n == Len(s)
<1>1. n \in Nat /\ DOMAIN s = 1 .. n /\ Len(t) = n /\ s \in Seq(Int) OBVIOUS
<1>2. PICK l \in Int, b \in Int : \A i \in 1 .. n : l <= s[i] /\ s[i] <= b
  BY <1>1, SequencesBounded
<1> DEFINE h == IF b < 0 THEN 0 ELSE b
<1>3. h \in Nat /\ \A k \in 1 .. n : s[k] <= h /\ s[k] \in Nat BY <1>1, <1>2
<1> HIDE DEF h
<1>4. /\ \A k \in 1 .. n : f[k] \in 1 .. n
      /\ \A i, j \in 1 .. n : f[i] = f[j] => i = j
      /\ \A i \in 1 .. n : \E j \in 1 .. n : f[j] = i
  BY DEF Shuffles
<1>5. \A k \in 1 .. n : t[k] = s[f[k]] /\ t[k] <= h BY <1>3, <1>4
<1> DEFINE S == Tiles(t, h)  T == Tiles(s, h)
           g == [p \in S |-> <<f[p[1]], p[2]>>]
<1>6. /\ \A p : p \in S <=> p \in (1 .. n) \X (1 .. h) /\ p[2] <= t[p[1]]
      /\ \A p : p \in T <=> p \in (1 .. n) \X (1 .. h) /\ p[2] <= s[p[1]]
  BY <1>1 DEF Tiles
<1>7. IsFiniteSet(S) /\ Sum(t) = Cardinality(S) /\ Sum(s) = Cardinality(T)
  BY <1>1, <1>3, <1>5, TilesAre
<1> HIDE DEF S, T, n
<1>8. \A p, q \in S : g[p] = g[q] => p = q
  <2> SUFFICES ASSUME NEW p \in S, NEW q \in S, g[p] = g[q] PROVE p = q OBVIOUS
  <2>1. p \in (1 .. n) \X (1 .. h) /\ q \in (1 .. n) \X (1 .. h) BY <1>6
  <2>2. f[p[1]] = f[q[1]] /\ p[2] = q[2] OBVIOUS
  <2>3. p[1] = q[1]
    <3>1. p[1] \in 1 .. n /\ q[1] \in 1 .. n BY <2>1
    <3>2. QED BY <1>4, <2>2, <3>1
  <2>5. QED BY <2>2, <2>3, <2>1
<1>9. T = {g[p] : p \in S}
  <2>1. ASSUME NEW p \in S PROVE g[p] \in T
    <3>1. p \in (1 .. n) \X (1 .. h) /\ p[2] <= t[p[1]] BY <1>6
    <3>2. p[1] \in 1 .. n /\ p[2] \in 1 .. h /\ f[p[1]] \in 1 .. n /\ p[2] <= s[f[p[1]]]
      BY <1>4, <1>5, <3>1
    <3>3. g[p] = <<f[p[1]], p[2]>> OBVIOUS
    <3> HIDE DEF g
    <3>4. QED BY <1>6, <3>2, <3>3
  <2>2. ASSUME NEW q \in T PROVE \E p \in S : g[p] = q
    <3>1. q \in (1 .. n) \X (1 .. h) /\ q[2] <= s[q[1]] BY <1>6
    <3>2. PICK i \in 1 .. n : f[i] = q[1] BY <1>4, <3>1
    <3>3. q = <<f[i], q[2]>> /\ q[2] \in 1 .. h /\ q[2] <= t[i] BY <1>5, <3>1, <3>2
    <3> DEFINE p == <<i, q[2]>>
    <3>4. p \in S BY <1>6, <3>3
    <3>5. p[1] = i /\ p[2] = q[2] OBVIOUS
    <3> HIDE DEF p
    <3>6. g[p] = q BY <3>3, <3>4, <3>5
    <3>7. QED BY <3>4, <3>6
  <2> HIDE DEF g
  <2>3. QED BY ONLY <2>1, <2>2
<1> HIDE DEF g
<1>10. Cardinality({g[p] : p \in S}) = Cardinality(S) BY ONLY <1>7, <1>8, ImageOf
<1>11. QED BY <1>7, <1>9, <1>10

\* n rows of which the ones in hits hit, F of them down to each; where each row's block is
\* cut, and what a hit is worth in a block that is cut there.
Blocks(n, cuts, hits, F, E, w) ==
  /\ n \in Nat /\ cuts \in SUBSET (1 .. n) /\ hits \in SUBSET (1 .. n)
  /\ F \in [0 .. n -> Nat] /\ E \in [1 .. n -> 1 .. n] /\ w \in [1 .. n -> Nat]
  /\ F[0] = 0 /\ \A k \in 1 .. n : F[k] = IF k \in hits THEN F[k - 1] + 1 ELSE F[k - 1]
  /\ n > 0 => n \in cuts
  /\ \A k \in 1 .. n : (k \in cuts => E[k] = k) /\ (k \notin cuts => E[k + 1] = E[k])

CutBefore(cuts, i) == Highest({c \in cuts : c < i})

\* What is added at the cuts, for all hits of the block at once, and at the hits, for each.
AtCuts(s, n, cuts, F, w) ==
  /\ s \in Seq(Int) /\ Len(s) = n
  /\ \A c \in 1 .. n : s[c] = IF c \in cuts THEN (F[c] - F[CutBefore(cuts, c)]) * w[c] ELSE 0
AtHits(t, n, hits, E, w) ==
  /\ t \in Seq(Int) /\ Len(t) = n
  /\ \A k \in 1 .. n : t[k] = IF k \in hits THEN w[E[k]] ELSE 0

\* The last cut before the next row.
LEMMA CutBeforeIs ==
  ASSUME NEW n \in Nat, NEW cuts \in SUBSET (1 .. n), NEW i \in 1 .. n
  PROVE  /\ CutBefore(cuts, i) \in 0 .. n /\ CutBefore(cuts, 1) = 0
         /\ CutBefore(cuts, i + 1) = IF i \in cuts THEN i ELSE CutBefore(cuts, i)
<1> DEFINE B(j) == {c \in cuts : c < j}
<1>0. \A c \in cuts : c \in 0 .. n /\ 1 <= c /\ c <= n /\ (c < i + 1 <=> c < i \/ c = i) /\ ~(c < 1)
  OBVIOUS
<1>1. \A j : B(j) \in SUBSET (0 .. n) /\ CutBefore(cuts, j) = Highest(B(j))
  BY <1>0 DEF CutBefore
<1>2. i \in Int /\ i <= n /\ n \in Int OBVIOUS
<1>3. B(1) = {} BY <1>0
<1>4. i \notin cuts => B(i + 1) = B(i) BY <1>0
<1>5. i \in cuts => i \in B(i + 1) /\ \A c \in B(i + 1) : c <= i BY <1>0
<1> HIDE DEF B
<1>6. CutBefore(cuts, i) \in 0 .. n BY <1>1, <1>2, HighestUpTo
<1>7. CutBefore(cuts, 1) = 0 BY <1>1, <1>2, <1>3 DEF Highest
<1>8. ASSUME i \in cuts PROVE CutBefore(cuts, i + 1) = i
  <2>2. B(i + 1) \in SUBSET Int /\ B(i + 1) # {} /\ 0 \in Int /\ n \in Int
        /\ \A c \in B(i + 1) : 0 <= c /\ c <= n
    BY <1>1, <1>2, <1>5, <1>8
  <2>4. Max(B(i + 1)) <= i /\ i <= Max(B(i + 1)) /\ Max(B(i + 1)) \in Int
    BY <1>5, <1>8, <2>2, Extremes
  <2>5. QED BY <1>1, <1>5, <1>8, <2>4 DEF Highest
<1>9. QED BY <1>1, <1>2, <1>4, <1>6, <1>7, <1>8

\* Block by block the hits add up to as much as one by one.
LEMMA BlocksSum ==
  ASSUME NEW n, NEW cuts, NEW hits, NEW F, NEW E, NEW w, Blocks(n, cuts, hits, F, E, w),
         NEW s, NEW t, AtCuts(s, n, cuts, F, w), AtHits(t, n, hits, E, w)
  PROVE  Sum(s) = Sum(t)
<1>0. /\ s \in Seq(Int) /\ Len(s) = n /\ t \in Seq(Int) /\ Len(t) = n
       /\ \A k \in 1 .. n : s[k] \in Int /\ t[k] \in Int
  BY DEF AtCuts, AtHits
<1>1. /\ n \in Nat /\ cuts \in SUBSET (1 .. n) /\ hits \in SUBSET (1 .. n)
      /\ F \in [0 .. n -> Nat] /\ E \in [1 .. n -> 1 .. n] /\ w \in [1 .. n -> Nat]
      /\ F[0] = 0 /\ \A k \in 1 .. n : F[k] = IF k \in hits THEN F[k - 1] + 1 ELSE F[k - 1]
      /\ n > 0 => n \in cuts
      /\ \A k \in 1 .. n : (k \in cuts => E[k] = k) /\ (k \notin cuts => E[k + 1] = E[k])
  BY DEF Blocks
<1>12. /\ F \in [0 .. n -> Nat] /\ F[0] = 0
      /\ \A k \in 1 .. n : F[k] = IF k \in hits THEN F[k - 1] + 1 ELSE F[k - 1]
  BY <1>1
<1>2. PICK P \in [0 .. n -> Int] :
        P[0] = 0 /\ (\A k \in 1 .. n : P[k] = P[k - 1] + s[k]) /\ Sum(s) = P[n]
  BY <1>0, PartialSums
<1>3. PICK Q \in [0 .. n -> Int] :
        Q[0] = 0 /\ (\A k \in 1 .. n : Q[k] = Q[k - 1] + t[k]) /\ Sum(t) = Q[n]
  BY <1>0, PartialSums
<1> DEFINE B(k) == CutBefore(cuts, k)  v == [k \in 1 .. n |-> w[E[k]]]
           Open(k) == (F[k] - F[B(k)]) * v[k]
           S == {k \in 0 .. n : k = 0 \/ Q[k] = P[k - 1] + Open(k)}
<1>4. ASSUME NEW k \in 1 .. n
      PROVE  /\ k \in Int /\ k \in 0 .. n /\ k - 1 \in 0 .. n
             /\ P[k] \in Int /\ P[k - 1] \in Int /\ Q[k] \in Int /\ Q[k - 1] \in Int
             /\ F[k] \in Int /\ F[k - 1] \in Int /\ v[k] \in Int /\ s[k] \in Int /\ t[k] \in Int
  <2>1. k \in Int /\ k \in 0 .. n /\ k - 1 \in 0 .. n BY <1>1
  <2>2. E[k] \in 1 .. n /\ v[k] = w[E[k]] BY <1>1
  <2>3. v[k] \in Int BY <1>1, <2>2
  <2>5. P[k] \in Int /\ P[k - 1] \in Int /\ Q[k] \in Int /\ Q[k - 1] \in Int BY <1>2, <1>3, <2>1
  <2>6. s[k] \in Int /\ t[k] \in Int BY <1>0
  <2>7. QED BY <2>1, <2>3, <1>12, <2>5, <2>6
<1>5. ASSUME NEW k \in 1 .. n
      PROVE  B(k) \in 0 .. n /\ B(1) = 0 /\ F[B(k)] \in Int
             /\ B(k + 1) = IF k \in cuts THEN k ELSE B(k)
  <2>1. B(k) \in 0 .. n /\ B(1) = 0 /\ B(k + 1) = IF k \in cuts THEN k ELSE B(k)
    BY <1>1, CutBeforeIs
  <2> HIDE DEF B
  <2>3. QED BY <2>1, <1>1
<1>6. ASSUME NEW k \in 1 .. n
      PROVE  /\ t[k] = IF k \in hits THEN v[k] ELSE 0
             /\ s[k] = IF k \in cuts THEN Open(k) ELSE 0
             /\ F[k] = IF k \in hits THEN F[k - 1] + 1 ELSE F[k - 1]
             /\ k \notin cuts => v[k + 1] = v[k]
  <2>1. v[k] = w[E[k]] /\ (k \in cuts => E[k] = k) BY <1>1
  <2>2. k \notin cuts => k + 1 \in 1 .. n /\ E[k + 1] = E[k]
    <3>2. k # n => k + 1 \in 1 .. n BY <1>1
    <3>3. k \notin cuts => E[k + 1] = E[k] BY <1>1
    <3>4. QED BY <1>1, <3>2, <3>3
  <2>3. k \notin cuts => v[k + 1] = v[k] BY <2>1, <2>2
  <2>4. t[k] = IF k \in hits THEN w[E[k]] ELSE 0 BY DEF AtHits
  <2>5. s[k] = IF k \in cuts THEN (F[k] - F[B(k)]) * w[k] ELSE 0 BY DEF AtCuts
  <2>6. F[k] = IF k \in hits THEN F[k - 1] + 1 ELSE F[k - 1] BY <1>12
  <2> HIDE DEF v, B
  <2>7. QED BY <2>1, <2>3, <2>4, <2>5, <2>6
<1> HIDE DEF B, v
\* What one more row in the open block adds.
<1>7. ASSUME NEW k \in 1 .. n, NEW b \in Int
      PROVE  (F[k] - b) * v[k] = (F[k - 1] - b) * v[k] + t[k]
  <2> DEFINE a == F[k - 1] - b  x == v[k]
  <2>1. a \in Int /\ x \in Int /\ F[k - 1] \in Int BY <1>4
  <2>2. CASE k \in hits
    <3>1. F[k] = F[k - 1] + 1 /\ t[k] = x BY <1>6, <2>2
    <3>3. (a + 1) * x = a * x + x
      <4> HIDE DEF a, x
      <4>1. QED BY <2>1
    <3> HIDE DEF x
    <3>4. QED BY <3>1, <2>1, <3>3 DEF x
  <2>3. CASE k \notin hits
    <3>2. a * x = a * x + 0
      <4> HIDE DEF a, x
      <4>2. QED BY <2>1
    <3>3. QED BY <1>6, <2>3, <3>2
  <2>4. QED BY <2>2, <2>3
<1>8. ASSUME NEW k \in 1 .. n, k - 1 \in S PROVE k \in S
  <2>0. k \in 0 .. n BY <1>4
  <2>1. CASE k = 1
    <3>2. 1 \in 1 .. n /\ 1 - 1 = 0 BY <2>1
    <3>1. B(1) = 0 /\ F[0] = 0 /\ F[0] \in Int BY <1>12, <1>5, <3>2
    <3>3. (F[1] - F[0]) * v[1] = (F[0] - F[0]) * v[1] + t[1] BY <1>7, <3>1, <3>2
    <3>4. F[0] - F[0] = 0 /\ v[1] \in Int /\ t[1] \in Int /\ P[0] = 0 /\ Q[0] = 0 /\ Q[1] = Q[0] + t[1]
      BY <1>2, <1>3, <1>4, <3>1, <3>2
    <3>5. Open(1) = t[1] BY <3>1, <3>3, <3>4
    <3> HIDE DEF Open
    <3>7. QED BY <2>0, <2>1, <3>4, <3>5
  <2>2. CASE k # 1
    <3> DEFINE j == k - 1
    <3>1. j \in 1 .. n /\ j + 1 = k /\ k - 1 = j /\ j # 0 /\ j \in Int BY <1>4, <2>2
    <3> HIDE DEF j
    <3>2. Q[j] = P[j - 1] + Open(j) BY <1>8, <3>1
    <3>3. B(k) = (IF j \in cuts THEN j ELSE B(j)) /\ F[B(k)] \in Int BY <1>5, <3>1
    <3>4. Open(k) = (F[j] - F[B(k)]) * v[k] + t[k] BY <1>7, <3>1, <3>3
    <3>5. Q[k] = Q[j] + t[k] BY <1>3, <3>1
    <3>6. P[j] = P[j - 1] + s[j] BY <1>2, <3>1
    <3>7. /\ v[k] \in Int /\ F[j] \in Int /\ t[k] \in Int /\ s[j] \in Int
          /\ P[j] \in Int /\ P[j - 1] \in Int /\ Q[j] \in Int
      BY <1>4, <3>1
    <3>8. CASE j \in cuts
      <4>2. F[j] - F[j] = 0 /\ 0 * v[k] = 0 BY <3>7
      <4>3. Open(k) = 0 + t[k] BY <3>3, <3>4, <3>8, <4>2
      <4>4. s[j] = Open(j) BY <1>6, <3>1, <3>8
      <4> HIDE DEF Open
      <4>5. Q[k] = P[k - 1] + Open(k) BY <3>1, <3>2, <3>5, <3>6, <3>7, <4>3, <4>4
      <4>6. QED BY <2>0, <4>5
    <3>9. CASE j \notin cuts
      <4>2. Open(k) = Open(j) + t[k] BY <3>4, <1>6, <3>1, <3>3, <3>9
      <4>3. s[j] = 0 BY <1>6, <3>1, <3>9
      <4>4. Open(j) \in Int
        <5> DEFINE x == F[j]  y == F[B(j)]  z == v[j]
        <5>1. x \in Int /\ y \in Int /\ z \in Int BY <1>4, <1>5, <3>1
        <5> HIDE DEF x, y, z
        <5>2. (x - y) * z \in Int BY <5>1
        <5>3. QED BY <5>2 DEF x, y, z
      <4> HIDE DEF Open
      <4>5. Q[k] = P[k - 1] + Open(k) BY <3>1, <3>2, <3>5, <3>6, <3>7, <4>2, <4>3, <4>4
      <4>6. QED BY <2>0, <4>5
    <3>10. QED BY <3>8, <3>9
  <2>3. QED BY <2>1, <2>2
<1>9. CASE n = 0 BY <1>2, <1>3, <1>9
<1>10. CASE n # 0
  <2>1. n \in 1 .. n /\ n \in cuts BY <1>1, <1>10
  <2>2. n \in S
    <3> HIDE DEF S
    <3>1. 0 \in S BY <1>1 DEF S
    <3>2. \A k \in 0 .. n : k \in S BY <1>1, <1>8, <3>1, UpTo
    <3>3. QED BY <1>1, <3>2
  <2> HIDE DEF Open
  <2>4. s[n] = Open(n) BY <1>6, <2>1
  <2>5. P[n] = P[n - 1] + s[n] BY <1>2, <2>1
  <2>6. QED BY <1>2, <1>3, <1>10, <2>2, <2>4, <2>5
<1>11. QED BY <1>9, <1>10

\* The unit precisions are counted in is a multiple of every number of rows.
LEMMA UnitIs ==
  ASSUME NEW n \in Nat
  PROVE  /\ Unit(n) \in Nat /\ Unit(n) > 0
         /\ \A k \in 1 .. n : \E m \in Nat : Unit(n) = k * m
<1> DEFINE Body(f) == [k \in 0 .. n |-> IF k = 0 THEN 1 ELSE k * f[k - 1]]
           u == CHOOSE f : f = Body(f)
           g == [k \in 1 .. n |-> [x \in Nat |-> k * x]]
<1>1. PICK f \in [0 .. n -> Nat] : f[0] = 1 /\ \A k \in 1 .. n : f[k] = k * f[k - 1]
  <2>1. g \in [1 .. n -> [Nat -> Nat]]
    <3>1. \A k \in 1 .. n : \A x \in Nat : k * x \in Nat BY SMT
    <3>2. QED BY <3>1
  <2>2. \A k \in 1 .. n : \A x \in Nat : g[k][x] = k * x OBVIOUS
  <2> HIDE DEF g
  <2>4. PICK f : Steps(f, n, Nat, 1, g) BY <2>1, Recursion
  <2>5. f \in [0 .. n -> Nat] /\ f[0] = 1 /\ \A k \in 1 .. n : f[k] = g[k][f[k - 1]]
    BY <2>4 DEF Steps
  <2>6. \A k \in 1 .. n : f[k - 1] \in Nat BY <2>5
  <2>7. QED BY <2>2, <2>5, <2>6
<1>2. f = Body(f)
  <2>1. ASSUME NEW k \in 0 .. n PROVE f[k] = IF k = 0 THEN 1 ELSE k * f[k - 1] BY <1>1
  <2>2. QED BY <1>1, <2>1
<1>3. u = Body(u) BY <1>2
<1>4. Unit(n) = u[n] BY DEF Unit
<1>5. u[0] = 1 /\ \A k \in 1 .. n : u[k] = k * u[k - 1]
  <2> HIDE DEF u
  <2>1. \A k \in 0 .. n : u[k] = IF k = 0 THEN 1 ELSE k * u[k - 1] BY <1>3
  <2> HIDE DEF Body
  <2>2. 0 \in 0 .. n /\ \A k \in 1 .. n : k \in 0 .. n /\ k # 0 OBVIOUS
  <2>3. QED BY <2>1, <2>2
<1> HIDE DEF u, Body
<1> DEFINE Fits(x, k) == x \in Nat /\ x > 0 /\ \A j \in 1 .. k : \E m \in Nat : x = j * m
           S == {k \in 0 .. n : Fits(u[k], k)}
<1>6. 0 \in S BY <1>5
<1>7. ASSUME NEW k \in 1 .. n, k - 1 \in S PROVE k \in S
  <2> DEFINE x == u[k - 1]
  <2>1. x \in Nat /\ x > 0 /\ \A j \in 1 .. k - 1 : \E m \in Nat : x = j * m BY <1>7
  <2>2. u[k] = k * x /\ k \in Nat /\ k > 0 /\ k \in 0 .. n BY <1>5
  <2> HIDE DEF x
  <2>3. k * x \in Nat /\ k * x > 0 BY <2>1, <2>2, SMT
  <2>4. ASSUME NEW j \in 1 .. k PROVE \E m \in Nat : k * x = j * m
    <3>1. CASE j = k BY <2>1, <3>1
    <3>2. CASE j # k
      <4>0. j \in 1 .. k - 1 BY <3>2
      <4>1. PICK m \in Nat : x = j * m BY <2>1, <4>0
      <4>2. k * m \in Nat /\ k * (j * m) = j * (k * m) BY <2>2, SMT
      <4>3. QED BY <4>1, <4>2
    <3>3. QED BY <3>1, <3>2
  <2>5. Fits(u[k], k) BY <2>2, <2>3, <2>4
  <2> HIDE DEF Fits
  <2>6. QED BY <2>2, <2>5
<1>8. n \in S
  <2> HIDE DEF S
  <2>1. \A k \in 0 .. n : k \in S BY <1>6, <1>7, UpTo
  <2>2. QED BY <2>1
<1>9. QED BY <1>4, <1>8

\* The block a row stands in with the rows that score no less, and the hits among them.
BlockOf(s, i)   == Cardinality({j \in DOMAIN s : s[j] >= s[i]})
HitsOf(y, s, i) == Cardinality({j \in DOMAIN s : s[j] >= s[i] /\ y[j]})

\* Both are counted down the ranking to where the block ends.
LEMMA BlockIs ==
  ASSUME NEW y \in Seq(BOOLEAN), NEW s \in Seq(Int), Len(y) = Len(s), NEW k \in 1 .. Len(s)
  PROVE  /\ BlockOf(s, Ranking(s)[k]) \in k .. Len(s)
         /\ HitsOf(y, s, Ranking(s)[k]) = Caught(y, s, BlockOf(s, Ranking(s)[k]))
         /\ \A j \in 1 .. Len(s) :
              s[Ranking(s)[j]] >= s[Ranking(s)[k]] <=> j <= BlockOf(s, Ranking(s)[k])
<1> DEFINE n == Len(s)  o == Ranking(s)  t == s[o[k]]
           I == {j \in DOMAIN s : s[j] >= t}
           J == {j \in DOMAIN s : s[j] >= t /\ y[j]}
<1>1. n \in Nat /\ DOMAIN s = 1 .. n /\ DOMAIN y = 1 .. n /\ \A j \in 1 .. n : s[j] \in Int
  OBVIOUS
<1>2. Shuffles(o, n) BY RankingIs
<1>3. \A j \in 1 .. n : o[j] \in 1 .. n BY <1>2 DEF Shuffles
<1>4. t \in Int BY <1>1, <1>3
<1>5. BlockOf(s, o[k]) = Cardinality(I) /\ HitsOf(y, s, o[k]) = Cardinality(J)
  BY DEF BlockOf, HitsOf
<1>6. PICK r \in 0 .. n : \A j \in 1 .. n : s[o[j]] >= t <=> j <= r
  <2> HIDE DEF t
  <2>1. QED BY <1>4, TopOfRanking
<1>7. k <= r BY <1>4, <1>6
<1>8. /\ I \in SUBSET (1 .. n) /\ J \in SUBSET (1 .. n)
      /\ \A j \in 1 .. n : (o[j] \in I <=> j <= r) /\ (o[j] \in J <=> j <= r /\ y[o[j]])
  BY <1>1, <1>3, <1>6
<1>9. \A j \in 1 .. n : j \in HitRows(y, s) <=> y[o[j]] BY DEF HitRows
<1> HIDE DEF n, o, t, I, J
<1>10. \A A, B \in SUBSET (1 .. n) :
        (\A j \in 1 .. n : j \in B <=> o[j] \in A) => Cardinality(A) = Cardinality(B)
  BY <1>1, <1>2, CountedInOrder
<1>11. Cardinality(I) = r
  <2> DEFINE B == 1 .. r
  <2>1. B \in SUBSET (1 .. n) /\ \A j \in 1 .. n : j \in B <=> j <= r BY <1>1
  <2>2. Cardinality(B) = r BY PlacesUpTo
  <2> HIDE DEF B
  <2>3. Cardinality(I) = Cardinality(B) BY <1>8, <1>10, <2>1
  <2>4. QED BY <2>2, <2>3
<1>12. Cardinality(J) = Caught(y, s, r)
  <2> DEFINE B == (1 .. r) \cap HitRows(y, s)
  <2>1. B \in SUBSET (1 .. n) /\ \A j \in 1 .. n : j \in B <=> j <= r /\ y[o[j]] BY <1>1, <1>9
  <2>2. Cardinality(B) = Caught(y, s, r) BY DEF Caught
  <2> HIDE DEF B
  <2>3. Cardinality(J) = Cardinality(B) BY <1>8, <1>10, <2>1
  <2>4. QED BY <2>2, <2>3
<1>13. r \in k .. n BY <1>1, <1>6, <1>7
<1>14. \A j \in 1 .. n : s[o[j]] >= s[o[k]] <=> j <= r BY <1>6 DEF t
<1>15. QED BY <1>5, <1>11, <1>12, <1>13, <1>14 DEF n, o

\* What each row counts for: a hit with the precision of its block, in the unit.
Worths(y, s) ==
  [i \in DOMAIN s |-> IF y[i] THEN HitsOf(y, s, i) * (Unit(Len(s)) \div BlockOf(s, i)) ELSE 0]

\* A block holds the row it is of, and its hits are a number.
LEMMA WorthsAre ==
  ASSUME NEW y \in Seq(BOOLEAN), NEW s \in Seq(Int), Len(y) = Len(s)
  PROVE  /\ Worths(y, s) \in Seq(Nat) /\ Len(Worths(y, s)) = Len(s)
         /\ \A i \in 1 .. Len(s) : BlockOf(s, i) \in 1 .. Len(s) /\ HitsOf(y, s, i) \in Nat
<1> DEFINE n == Len(s)  H(i) == HitsOf(y, s, i)  B(i) == BlockOf(s, i)
<1>1. n \in Nat /\ DOMAIN s = 1 .. n /\ \A i \in 1 .. n : s[i] \in Int OBVIOUS
<1>2. ASSUME NEW i \in 1 .. n PROVE B(i) \in 1 .. n /\ H(i) \in Nat
  <2> DEFINE I == {j \in DOMAIN s : s[j] >= s[i]}
             J == {j \in DOMAIN s : s[j] >= s[i] /\ y[j]}
  <2>1. I \in SUBSET (1 .. n) /\ J \in SUBSET (1 .. n) /\ i \in I BY <1>1
  <2>2. B(i) = Cardinality(I) /\ H(i) = Cardinality(J) BY DEF BlockOf, HitsOf
  <2> HIDE DEF I, J, n
  <2>3. IsFiniteSet(I) /\ Cardinality(I) \in 0 .. n BY <1>1, <2>1, Counted
  <2>4. IsFiniteSet(J) /\ Cardinality(J) \in 0 .. n BY <1>1, <2>1, Counted
  <2>5. Cardinality(I) # 0 BY <2>1, <2>3, FS_EmptySet
  <2>6. QED BY <1>1, <2>2, <2>3, <2>4, <2>5
<1>3. Unit(n) \in Nat BY UnitIs
<1> HIDE DEF n, H, B
<1>4. ASSUME NEW i \in 1 .. n PROVE H(i) * (Unit(n) \div B(i)) \in Nat
  <2> DEFINE u == Unit(n)  b == B(i)  h == H(i)
  <2>1. u \in Nat /\ b \in Nat /\ b > 0 /\ h \in Nat BY <1>2, <1>3
  <2> HIDE DEF u, b, h
  <2>3. h * (u \div b) \in Nat
    <3> DEFINE q == u \div b
    <3>1. q \in Nat BY <2>1
    <3> HIDE DEF q
    <3>2. h * q \in Nat BY <2>1, <3>1, SMT
    <3>3. QED BY <3>2 DEF q
  <2>4. QED BY <2>3 DEF u, b, h
<1>6. Worths(y, s) \in Seq(Nat) /\ Len(Worths(y, s)) = n BY <1>1, <1>4 DEF Worths, n, H, B
<1>7. QED BY <1>2, <1>6 DEF n, H, B

\* Average precision is the worth of the rows, whatever their order.
LEMMA AveragePrecisionIs ==
  ASSUME NEW y \in Seq(BOOLEAN), NEW s \in Seq(Int), Len(y) = Len(s)
  PROVE  AveragePrecision(y, s) = Sum(Worths(y, s))
<1> DEFINE n == Len(s)  o == Ranking(s)  hits == HitRows(y, s)  u == Unit(n)
           ranked == [i \in DOMAIN s |-> s[o[i]]]
           cuts  == Cuts(ranked)
           Found(i) == Cardinality({k \in 1 .. i : y[o[k]]})
           a == [i \in DOMAIN s |-> IF i \in cuts
                                    THEN (Found(i) - Found(Highest({c \in cuts : c < i})))
                                           * (Found(i) * (Unit(Len(s)) \div i))
                                    ELSE 0]
           B(k) == BlockOf(s, o[k])
           F == [i \in 0 .. n |-> Caught(y, s, i)]
           E == [k \in 1 .. n |-> B(k)]
           w == [c \in 1 .. n |-> F[c] * (u \div c)]
           t == [k \in 1 .. n |-> IF k \in hits THEN w[E[k]] ELSE 0]
<1>1. n \in Nat /\ DOMAIN s = 1 .. n /\ DOMAIN y = 1 .. n /\ \A i \in 1 .. n : s[i] \in Int
  OBVIOUS
<1>2. AveragePrecision(y, s) = Sum(a) BY DEF AveragePrecision
<1>3. Shuffles(o, n) /\ \A k, l \in 1 .. n : k < l => s[o[l]] <= s[o[k]] BY RankingIs
<1>4. \A k \in 1 .. n : o[k] \in 1 .. n /\ s[o[k]] \in Int BY <1>1, <1>3 DEF Shuffles
<1>5. hits \in SUBSET (1 .. n) /\ \A k \in 1 .. n : k \in hits <=> y[o[k]] BY DEF HitRows
<1>6. u \in Nat BY UnitIs
<1>7. cuts \in SUBSET (1 .. n) /\ \A k \in 1 .. n : k \in cuts <=> k = n \/ s[o[k + 1]] # s[o[k]]
  <2>1. DOMAIN ranked = 1 .. n /\ Len(ranked) = n BY <1>1
  <2>2. \A k \in 1 .. n : ranked[k] = s[o[k]] BY <1>1
  <2> HIDE DEF ranked
  <2>3. cuts = {i \in 1 .. n : i = n \/ ranked[i + 1] # ranked[i]} BY <2>1 DEF Cuts
  <2>4. \A k \in 1 .. n : k # n => k + 1 \in 1 .. n
    <3> HIDE DEF n
    <3>1. QED BY <1>1
  <2>5. QED BY <2>2, <2>3, <2>4
<1>8. \A i \in 0 .. n : Found(i) = F[i]
  <2>1. ASSUME NEW i \in 0 .. n PROVE {k \in 1 .. i : y[o[k]]} = (1 .. i) \cap hits
    BY <1>1, <1>5
  <2>2. QED BY <2>1 DEF Caught
<1>9. /\ F \in [0 .. n -> Nat] /\ F[0] = 0
      /\ \A k \in 1 .. n : F[k] = IF k \in hits THEN F[k - 1] + 1 ELSE F[k - 1]
  <2> HIDE DEF n, hits
  <2>1. \A i \in 0 .. n : F[i] = Cardinality((1 .. i) \cap hits) BY DEF Caught, hits
  <2>2. \A i \in 0 .. n : Cardinality((1 .. i) \cap hits) \in 0 .. i BY <1>1, <1>5, RowsDown
  <2>3. \A i \in 0 .. n : F[i] \in Nat
    <3> HIDE DEF F
    <3>1. ASSUME NEW i \in 0 .. n PROVE F[i] \in Nat
      <4>2. Cardinality((1 .. i) \cap hits) \in 0 .. i BY <2>2
      <4> HIDE DEF hits
      <4>3. QED BY <2>1, <4>2
    <3>2. QED BY <3>1
  <2>4. F[0] = 0
    <3>1. 0 \in 0 .. n BY <1>1
    <3>2. F[0] \in 0 .. 0 BY <2>1, <2>2, <3>1
    <3>3. QED BY <3>2
  <2>5. ASSUME NEW k \in 1 .. n PROVE F[k] = IF k \in hits THEN F[k - 1] + 1 ELSE F[k - 1]
    <3> DEFINE X == (1 .. k - 1) \cap hits  Y == (1 .. k) \cap hits
    <3>2. F[k] = Cardinality(Y) /\ F[k - 1] = Cardinality(X) BY <2>1, <1>1
    <3>3. IsFiniteSet(X)
      <4>1. X \in SUBSET (1 .. n) BY <1>5
      <4> HIDE DEF X
      <4>2. QED BY <1>1, <4>1, Counted
    <3>4. k \notin X /\ Y = IF k \in hits THEN X \cup {k} ELSE X BY <1>1
    <3> HIDE DEF X, Y, F
    <3>6. QED BY <3>2, <3>4, <3>3, FS_AddElement
  <2> HIDE DEF F
  <2>7. QED BY <2>3, <2>4, <2>5 DEF F
<1>10. ASSUME NEW k \in 1 .. n
       PROVE  /\ B(k) \in k .. n /\ HitsOf(y, s, o[k]) = Caught(y, s, B(k))
              /\ \A j \in 1 .. n : s[o[j]] >= s[o[k]] <=> j <= B(k)
  BY BlockIs
<1> HIDE DEF n, o, hits, u, cuts, F, Found, B, ranked
<1>11. ASSUME NEW k \in 1 .. n
       PROVE  (k \in cuts => B(k) = k) /\ (k \notin cuts => B(k + 1) = B(k))
  <2>1. /\ B(k) \in k .. n /\ s[o[k]] \in Int /\ k \in Int
        /\ \A j \in 1 .. n : s[o[j]] >= s[o[k]] <=> j <= B(k)
    BY <1>4, <1>10
  <2>2. CASE k = n BY <1>7, <2>1, <2>2
  <2>3. CASE k # n
    <3> DEFINE m == k + 1
    <3>1. m \in 1 .. n /\ k < m /\ m = k + 1 /\ m \in Int BY <1>1, <2>3
    <3> HIDE DEF m
    <3>2. /\ B(m) \in m .. n /\ s[o[m]] \in Int /\ s[o[m]] <= s[o[k]]
          /\ \A j \in 1 .. n : s[o[j]] >= s[o[m]] <=> j <= B(m)
      BY <1>3, <1>4, <1>10, <3>1
    <3>3. k \in cuts <=> s[o[m]] # s[o[k]] BY <1>7, <2>3, <3>1
    <3>4. CASE k \in cuts
      <4>2. ~(m <= B(k)) BY <2>1, <3>1, <3>2, <3>3, <3>4
      <4>3. B(k) = k BY <2>1, <3>1, <4>2
      <4>4. QED BY <3>4, <4>3
    <3>5. CASE k \notin cuts
      <4>1. s[o[m]] = s[o[k]] BY <3>3, <3>5
      <4>2. B(k) \in 1 .. n /\ B(m) \in 1 .. n /\ B(k) \in Int /\ B(m) \in Int
        BY <2>1, <3>1, <3>2
      <4>3. B(k) <= B(m)
        <5>2. QED BY <3>2, <4>1, <4>2, <2>1
      <4>5. B(m) = B(k) BY <4>2, <4>3, <3>2, <2>1, <4>1
      <4>6. QED BY <3>1, <3>5, <4>5
    <3>6. QED BY <3>4, <3>5
  <2>4. QED BY <2>2, <2>3
<1>12. E \in [1 .. n -> 1 .. n] /\ \A k \in 1 .. n : E[k] = B(k) BY <1>1, <1>10
<1>13. /\ w \in [1 .. n -> Nat]
       /\ \A c \in 1 .. n : w[c] = F[c] * (u \div c)
  <2>1. ASSUME NEW c \in 1 .. n PROVE F[c] * (u \div c) \in Nat
    <3> DEFINE f == F[c]  q == u \div c
    <3>1. f \in Nat /\ c \in Nat /\ c > 0 BY <1>9
    <3>2. q \in Nat BY <1>6, <3>1
    <3> HIDE DEF f, q
    <3>3. f * q \in Nat BY <3>1, <3>2, SMT
    <3>4. QED BY <3>3 DEF f, q
  <2>2. QED BY <2>1
<1> HIDE DEF E, w
<1>14. Blocks(n, cuts, hits, F, E, w)
  <2>1. n > 0 => n \in cuts BY <1>1, <1>7
  <2>2. \A k \in 1 .. n : (k \in cuts => E[k] = k) /\ (k \notin cuts => E[k + 1] = E[k])
    BY <1>1, <1>7, <1>11, <1>12
  <2>3. QED BY <1>1, <1>5, <1>7, <1>9, <1>12, <1>13, <2>1, <2>2 DEF Blocks
<1>15. /\ a \in Seq(Int) /\ Len(a) = n
       /\ \A c \in 1 .. n : a[c] = IF c \in cuts THEN (F[c] - F[CutBefore(cuts, c)]) * w[c] ELSE 0
  <2>1. \A c \in 1 .. n : /\ c \in 0 .. n /\ CutBefore(cuts, c) \in 0 .. n
                          /\ CutBefore(cuts, c) = Highest({b \in cuts : b < c})
    <3>1. \A c \in 1 .. n : CutBefore(cuts, c) \in 0 .. n BY <1>1, <1>7, CutBeforeIs
    <3>2. QED BY <1>1, <3>1 DEF CutBefore
  <2>2. \A c \in 1 .. n : /\ Found(c) = F[c] /\ F[c] \in Nat
                          /\ Found(Highest({b \in cuts : b < c})) = F[CutBefore(cuts, c)]
                          /\ F[CutBefore(cuts, c)] \in Nat
                          /\ w[c] = F[c] * (u \div c) /\ w[c] \in Nat
    BY <1>8, <1>9, <1>13, <2>1
  <2>3. DOMAIN a = 1 .. n BY <1>1
  <2>4. \A c \in 1 .. n : a[c] = IF c \in cuts THEN (F[c] - F[CutBefore(cuts, c)]) * w[c] ELSE 0
    BY <1>1, <2>2 DEF u, n
  <2>5. \A c \in 1 .. n : (F[c] - F[CutBefore(cuts, c)]) * w[c] \in Int
    <3>1. \A x, z, v \in Nat : (x - z) * v \in Int BY SMT
    <3>2. QED BY <2>2, <3>1
  <2>6. a = [c \in 1 .. n |-> a[c]] BY <2>3
  <2> HIDE DEF a
  <2>7. \A c \in 1 .. n : a[c] \in Int BY <2>4, <2>5
  <2>8. a \in Seq(Int) /\ Len(a) = n BY <1>1, <2>3, <2>6, <2>7
  <2>9. QED BY <2>4, <2>8
<1>16. /\ t \in Seq(Nat) /\ Len(t) = n
       /\ \A k \in 1 .. n : t[k] = IF k \in hits THEN w[E[k]] ELSE 0
  BY <1>12, <1>13, <1>1
<1> HIDE DEF a, t
<1>17. Sum(a) = Sum(t)
  <2>3. AtHits(t, n, hits, E, w) BY <1>16 DEF AtHits
  <2>4. QED BY <1>14, <1>15, <2>3, BlocksSum DEF AtCuts
<1> DEFINE v == Worths(y, s)
<1>18. v \in Seq(Nat) /\ Len(v) = n BY WorthsAre DEF n
<1>19. \A k \in 1 .. n : t[k] = v[o[k]]
  <2> SUFFICES ASSUME NEW k \in 1 .. n PROVE t[k] = v[o[k]] OBVIOUS
  <2>1. o[k] \in 1 .. n /\ (k \in hits <=> y[o[k]]) BY <1>4, <1>5
  <2>2. v[o[k]] = IF y[o[k]] THEN HitsOf(y, s, o[k]) * (Unit(n) \div BlockOf(s, o[k])) ELSE 0
    BY <1>1, <2>1 DEF Worths, n
  <2>3. B(k) \in 1 .. n /\ B(k) \in 0 .. n /\ B(k) = BlockOf(s, o[k]) BY <1>10 DEF B
  <2>4. HitsOf(y, s, o[k]) = F[B(k)] BY <1>10, <2>3 DEF F
  <2>5. w[E[k]] = F[B(k)] * (u \div B(k)) BY <1>12, <1>13, <2>3
  <2> HIDE DEF v
  <2>6. QED BY <1>16, <2>1, <2>2, <2>3, <2>4, <2>5 DEF u
<1> HIDE DEF v
<1>20. Sum(t) = Sum(v) BY <1>3, <1>16, <1>18, <1>19, SumShuffled, ZenonT(30)
<1>21. QED BY <1>2, <1>17, <1>20 DEF v

----------------------------------------------------------------------------
(* A ranking in another order.                                              *)

\* The sequence that has in each place what s has in the place f gives.
Moved(s, f, q) == q = [i \in DOMAIN s |-> s[f[i]]]

\* What another order of a sequence is.
LEMMA OrderIs ==
  ASSUME NEW S, NEW s \in Seq(S), NEW f, Shuffles(f, Len(s)), NEW q, Moved(s, f, q)
  PROVE  /\ q \in Seq(S) /\ Len(q) = Len(s) /\ \A i \in 1 .. Len(s) : q[i] = s[f[i]]
         /\ Range(q) = Range(s)
<1> DEFINE n == Len(s)
<1>1. n \in Nat /\ DOMAIN s = 1 .. n /\ \A i \in 1 .. n : s[i] \in S OBVIOUS
<1>2. /\ \A i \in 1 .. n : f[i] \in 1 .. n
      /\ \A i \in 1 .. n : \E j \in 1 .. n : f[j] = i
  BY DEF Shuffles
<1>3. DOMAIN q = 1 .. n /\ \A i \in 1 .. n : q[i] = s[f[i]] /\ q[i] \in S
  BY <1>1, <1>2 DEF Moved
<1> HIDE DEF n
<1>5. q \in Seq(S) /\ Len(q) = n BY <1>1, <1>3 DEF Moved
<1>6. \A x : (x \in Range(q) <=> \E i \in 1 .. n : x = q[i]) /\ (x \in Range(s) <=> \E i \in 1 .. n : x = s[i])
  BY <1>1, <1>3 DEF Range
<1>7. ASSUME NEW x PROVE x \in Range(q) <=> x \in Range(s)
  <2>1. ASSUME NEW i \in 1 .. n PROVE \E j \in 1 .. n : q[i] = s[j] BY <1>2, <1>3, SMTT(30)
  <2>2. ASSUME NEW i \in 1 .. n PROVE \E j \in 1 .. n : s[i] = q[j] BY <1>2, <1>3, SMTT(30)
  <2>3. QED BY <1>6, <2>1, <2>2
<1>8. QED BY <1>3, <1>5, <1>7 DEF n

\* Average precision is the same in any order of the rows.
LEMMA PrecisionOrderFree ==
  ASSUME NEW y \in Seq(BOOLEAN), NEW s \in Seq(Int), Len(y) = Len(s), NEW f, Shuffles(f, Len(s)),
         NEW u, Moved(y, f, u), NEW q, Moved(s, f, q)
  PROVE  AveragePrecision(u, q) = AveragePrecision(y, s)
<1> DEFINE n == Len(s)
<1>1. n \in Nat /\ DOMAIN s = 1 .. n /\ DOMAIN y = 1 .. n /\ Len(y) = n OBVIOUS
<1>2. Shuffles(f, n) /\ \A i \in 1 .. n : f[i] \in 1 .. n BY DEF Shuffles
<1>3. q \in Seq(Int) /\ Len(q) = n /\ \A i \in 1 .. n : q[i] = s[f[i]] BY OrderIs
<1>4. u \in Seq(BOOLEAN) /\ Len(u) = n /\ \A i \in 1 .. n : u[i] = y[f[i]]
  <2>1. Shuffles(f, Len(y)) BY <1>1, <1>2
  <2> HIDE DEF n
  <2>2. u \in Seq(BOOLEAN) /\ Len(u) = Len(y) /\ \A i \in 1 .. Len(y) : u[i] = y[f[i]]
    BY <2>1, OrderIs
  <2>3. QED BY <1>1, <2>2 DEF n
<1> HIDE DEF n
<1>5. DOMAIN q = 1 .. n /\ DOMAIN u = 1 .. n BY <1>3, <1>4
<1>6. \A A, B \in SUBSET (1 .. n) :
        (\A j \in 1 .. n : j \in B <=> f[j] \in A) => Cardinality(A) = Cardinality(B)
  BY <1>1, <1>2, CountedInOrder
<1>7. ASSUME NEW i \in 1 .. n
      PROVE  BlockOf(q, i) = BlockOf(s, f[i]) /\ HitsOf(u, q, i) = HitsOf(y, s, f[i])
  <2> DEFINE A == {j \in DOMAIN s : s[j] >= s[f[i]]}
             B == {j \in DOMAIN q : q[j] >= q[i]}
             C == {j \in DOMAIN s : s[j] >= s[f[i]] /\ y[j]}
             D == {j \in DOMAIN q : q[j] >= q[i] /\ u[j]}
  <2>1. /\ A \in SUBSET (1 .. n) /\ B \in SUBSET (1 .. n)
        /\ C \in SUBSET (1 .. n) /\ D \in SUBSET (1 .. n)
        /\ \A j \in 1 .. n : (j \in B <=> f[j] \in A) /\ (j \in D <=> f[j] \in C)
    BY <1>1, <1>2, <1>3, <1>4, <1>5
  <2>2. /\ BlockOf(s, f[i]) = Cardinality(A) /\ BlockOf(q, i) = Cardinality(B)
        /\ HitsOf(y, s, f[i]) = Cardinality(C) /\ HitsOf(u, q, i) = Cardinality(D)
    BY DEF BlockOf, HitsOf
  <2> HIDE DEF A, B, C, D
  <2>3. Cardinality(A) = Cardinality(B) BY <1>6, <2>1
  <2>4. Cardinality(C) = Cardinality(D) BY <1>6, <2>1
  <2>5. QED BY <2>2, <2>3, <2>4
<1> DEFINE v == Worths(y, s)  x == Worths(u, q)
<1>8. v \in Seq(Nat) /\ Len(v) = n BY <1>1, WorthsAre DEF n
<1>9. x \in Seq(Nat) /\ Len(x) = n BY <1>3, <1>4, WorthsAre
<1>10. \A i \in 1 .. n : x[i] = v[f[i]]
  <2> SUFFICES ASSUME NEW i \in 1 .. n PROVE x[i] = v[f[i]] OBVIOUS
  <2>1. x[i] = IF u[i] THEN HitsOf(u, q, i) * (Unit(n) \div BlockOf(q, i)) ELSE 0
    BY <1>3, <1>5 DEF Worths
  <2>3. v[f[i]] = IF y[f[i]] THEN HitsOf(y, s, f[i]) * (Unit(n) \div BlockOf(s, f[i])) ELSE 0
    BY <1>1, <1>2 DEF Worths, n
  <2> HIDE DEF v, x
  <2>4. QED BY <1>4, <1>7, <2>1, <2>3
<1> HIDE DEF v, x
<1>11. Sum(x) = Sum(v) BY <1>2, <1>8, <1>9, <1>10, SumShuffled, ZenonT(30)
<1>13. AveragePrecision(u, q) = Sum(x) BY <1>3, <1>4, AveragePrecisionIs DEF x
<1>14. QED BY <1>11, <1>1, AveragePrecisionIs, <1>13 DEF v

\* Labels u and hits g are the labels y and hits h of n rows in another order.
Alternates(n, y, h, u, g, f) ==
  /\ Shuffles(f, n) /\ DOMAIN y = 1 .. n /\ DOMAIN u = 1 .. n
  /\ \A i \in 1 .. n : y[i] \in BOOLEAN /\ h[i] \in BOOLEAN /\ u[i] = y[f[i]] /\ g[i] = h[f[i]]

\* The counts of hits and misses are the same in any order of the rows.
LEMMA ScoresOrderFree ==
  ASSUME NEW n \in Nat, NEW y, NEW h, NEW u, NEW g, NEW f, Alternates(n, y, h, u, g, f)
  PROVE  Scores(u, g) = Scores(y, h)
<1>0. /\ Shuffles(f, n) /\ DOMAIN y = 1 .. n /\ DOMAIN u = 1 .. n
      /\ \A i \in 1 .. n : y[i] \in BOOLEAN /\ h[i] \in BOOLEAN /\ u[i] = y[f[i]] /\ g[i] = h[f[i]]
  BY DEF Alternates
<1>1. \A i \in 1 .. n : f[i] \in 1 .. n BY <1>0 DEF Shuffles
<1>2. \A A, B \in SUBSET (1 .. n) :
        (\A j \in 1 .. n : j \in B <=> f[j] \in A) => Cardinality(A) = Cardinality(B)
  BY <1>0, CountedInOrder
<1> DEFINE T(a, b) == {i \in DOMAIN a : a[i] /\ b[i]}
           P(a, b) == {i \in DOMAIN a : ~a[i] /\ b[i]}
           N(a, b) == {i \in DOMAIN a : a[i] /\ ~b[i]}
<1>3. Cardinality(T(y, h)) = Cardinality(T(u, g))
  <2>1. T(y, h) \in SUBSET (1 .. n) /\ T(u, g) \in SUBSET (1 .. n) BY <1>0
  <2>2. \A j \in 1 .. n : j \in T(u, g) <=> f[j] \in T(y, h) BY <1>0, <1>1
  <2> HIDE DEF T
  <2>3. QED BY <1>2, <2>1, <2>2
<1>4. Cardinality(P(y, h)) = Cardinality(P(u, g))
  <2>1. P(y, h) \in SUBSET (1 .. n) /\ P(u, g) \in SUBSET (1 .. n) BY <1>0
  <2>2. \A j \in 1 .. n : j \in P(u, g) <=> f[j] \in P(y, h) BY <1>0, <1>1
  <2> HIDE DEF P
  <2>3. QED BY <1>2, <2>1, <2>2
<1>5. Cardinality(N(y, h)) = Cardinality(N(u, g))
  <2>1. N(y, h) \in SUBSET (1 .. n) /\ N(u, g) \in SUBSET (1 .. n) BY <1>0
  <2>2. \A j \in 1 .. n : j \in N(u, g) <=> f[j] \in N(y, h) BY <1>0, <1>1
  <2> HIDE DEF N
  <2>3. QED BY <1>2, <2>1, <2>2
<1>6. \A a, b : Scores(a, b) = [tp |-> Cardinality(T(a, b)), fp |-> Cardinality(P(a, b)),
                                fn |-> Cardinality(N(a, b))]
  BY DEF Scores
<1> HIDE DEF T, P, N
<1>7. QED BY <1>3, <1>4, <1>5, <1>6

\* An f1 is a fraction.
Fractions == [num : Int, den : Nat \ {0}]

\* What is not above one that is not above a third is not above the third.
LEMMA NotAboveOf ==
  ASSUME NEW f \in Fractions, NEW g \in Fractions, NEW h \in Fractions, ~Above(f, g), ~Above(g, h)
  PROVE  ~Above(f, h)
<1> DEFINE a == f.num  b == f.den  c == g.num  d == g.den  e == h.num  k == h.den
<1>1. a \in Int /\ b \in Nat /\ b > 0 /\ c \in Int /\ d \in Nat /\ d > 0 /\ e \in Int /\ k \in Nat /\ k > 0
  BY DEF Fractions
<1>2. ~(a * d > c * b) /\ ~(c * k > e * d) BY DEF Above
<1> HIDE DEF a, b, c, d, e, k
<1>3. a * d <= c * b /\ c * k <= e * d BY <1>1, <1>2
<1>4. (a * d) * k <= (c * b) * k /\ (c * k) * b <= (e * d) * b
  <2>1. \A x, z \in Int, m \in Nat : x <= z => x * m <= z * m BY SMT
  <2>3. QED BY <1>1, <1>3, <2>1
<1>5. (a * k) * d <= (e * b) * d
  <2>1. /\ (a * d) * k = (a * k) * d /\ (c * b) * k = (c * k) * b /\ (e * d) * b = (e * b) * d
        /\ (a * d) * k \in Int /\ (c * b) * k \in Int /\ (e * d) * b \in Int
    BY <1>1, SMT
  <2>2. QED BY <1>4, <2>1
<1>6. a * k <= e * b
  <2> DEFINE x == a * k  z == e * b
  <2> HIDE DEF x, z
  <2>2. x \in Int /\ z \in Int /\ x * d <= z * d BY <1>5, <1>1 DEF x, z
  <2>3. x > z => x * d > z * d
    <3>1. SUFFICES ASSUME x > z PROVE x * d > z * d OBVIOUS
    <3>2. x - z \in Nat /\ x - z > 0 /\ x = z + (x - z) BY <2>2, <3>1
    <3>3. (x - z) * d > 0 /\ x * d = z * d + (x - z) * d /\ z * d \in Int /\ (x - z) * d \in Int
      BY <1>1, <2>2, <3>2, SMT
    <3>4. QED BY <3>3
  <2>4. x <= z BY <1>1, <2>2, <2>3
  <2>5. QED BY <2>4 DEF x, z
<1>8. QED BY <1>1, <1>6 DEF Above, a, b, e, k

\* Of two that differ only one is above the other.
LEMMA AboveOrNot ==
  ASSUME NEW f \in Fractions, NEW g \in Fractions
  PROVE  ~Above(f, f) /\ (Above(f, g) => ~Above(g, f))
  BY DEF Fractions, Above

\* No member of a line has an f1 above the one that is chosen.
LEMMA FirstBestIs ==
  ASSUME NEW S, NEW line \in Seq(S), NEW f1 \in [S -> Fractions], NEW none
  PROVE  /\ FirstBest(line, f1, none).f1 \in Fractions
         /\ \A k \in 1 .. Len(line) : ~Above(f1[line[k]], FirstBest(line, f1, none).f1)
<1> DEFINE n == Len(line)
           A(k) == [of |-> line[k], f1 |-> f1[line[k]]]
           v0 == [of |-> none, f1 |-> [num |-> -1, den |-> 1]]
           Better(k, b) == Above(f1[line[k]], b.f1)
           Body(f) == [k \in 0 .. n |-> IF k = 0 THEN v0
                                        ELSE IF Better(k, f[k - 1]) THEN A(k) ELSE f[k - 1]]
           u == CHOOSE f : f = Body(f)
           V == [of : S \cup {none}, f1 : Fractions]
           g == [k \in 1 .. n |-> [b \in V |-> IF Better(k, b) THEN A(k) ELSE b]]
<1>1. n \in Nat /\ \A k \in 1 .. n : line[k] \in S /\ f1[line[k]] \in Fractions OBVIOUS
<1>2. v0 \in V /\ \A k \in 1 .. n : A(k) \in V /\ A(k).f1 = f1[line[k]] BY <1>1 DEF Fractions
<1>3. FirstBest(line, f1, none) = u[n] BY DEF FirstBest
<1>4. \A b \in V : b.f1 \in Fractions OBVIOUS
<1>5. \A k \in 1 .. n : \A b : Better(k, b) <=> Above(f1[line[k]], b.f1) OBVIOUS
<1> HIDE DEF A, v0, V, Better
<1>6. g \in [1 .. n -> [V -> V]] /\ \A k \in 1 .. n : \A b \in V : g[k][b] = IF Better(k, b) THEN A(k) ELSE b
  BY <1>2
<1> HIDE DEF g, n
<1>7. PICK f \in [0 .. n -> V] :
        f[0] = v0 /\ \A k \in 1 .. n : f[k] = IF Better(k, f[k - 1]) THEN A(k) ELSE f[k - 1]
  <2>1. PICK f : Steps(f, n, V, v0, g) BY <1>1, <1>2, <1>6, Recursion
  <2>2. f \in [0 .. n -> V] /\ f[0] = v0 /\ \A k \in 1 .. n : f[k] = g[k][f[k - 1]]
    BY <2>1 DEF Steps
  <2>4. ASSUME NEW k \in 1 .. n PROVE f[k] = IF Better(k, f[k - 1]) THEN A(k) ELSE f[k - 1]
    BY <2>2, <1>1, <1>6
  <2>5. QED BY <2>2, <2>4
<1>8. f = Body(f)
  <2>1. ASSUME NEW k \in 0 .. n
        PROVE  f[k] = IF k = 0 THEN v0 ELSE IF Better(k, f[k - 1]) THEN A(k) ELSE f[k - 1]
    BY <1>1, <1>7
  <2>3. QED BY <2>1, <1>7
<1>9. u = Body(u) BY <1>8
<1>10. u[0] = v0 /\ \A k \in 1 .. n : u[k] = IF Better(k, u[k - 1]) THEN A(k) ELSE u[k - 1]
  <2> HIDE DEF u
  <2>1. \A k \in 0 .. n : u[k] = IF k = 0 THEN v0
                                 ELSE IF Better(k, u[k - 1]) THEN A(k) ELSE u[k - 1]
    BY <1>9
  <2> HIDE DEF Body
  <2>2. 0 \in 0 .. n /\ \A k \in 1 .. n : k \in 0 .. n /\ k # 0 BY <1>1
  <2>3. QED BY <2>1, <2>2
<1> HIDE DEF u, Body
<1> DEFINE Best(b, k) == b \in V /\ \A j \in 1 .. k : ~Above(f1[line[j]], b.f1)
           T == {k \in 0 .. n : Best(u[k], k)}
<1>11. 0 \in T BY <1>1, <1>2, <1>10
<1>12. ASSUME NEW k \in 1 .. n, k - 1 \in T PROVE k \in T
  <2> DEFINE b == u[k - 1]  x == f1[line[k]]
  <2>1. b \in V /\ b.f1 \in Fractions /\ \A j \in 1 .. k - 1 : ~Above(f1[line[j]], b.f1)
    BY <1>4, <1>12
  <2>2. x \in Fractions /\ k \in 0 .. n /\ \A j \in 1 .. k : j \in 1 .. n /\ (j # k => j \in 1 .. k - 1)
    BY <1>1
  <2>3. u[k] = IF Above(x, b.f1) THEN A(k) ELSE b BY <1>5, <1>10
  <2> HIDE DEF b, x
  <2>4. CASE Above(x, b.f1)
    <3>2. ~Above(x, x) /\ ~Above(b.f1, x) BY <2>1, <2>2, <2>4, AboveOrNot
    <3>3. ASSUME NEW j \in 1 .. k PROVE ~Above(f1[line[j]], x)
      <4>1. CASE j = k BY <3>2, <4>1 DEF x
      <4>2. CASE j # k BY <1>1, <2>1, <2>2, <4>2, <3>2, NotAboveOf
      <4>3. QED BY <4>1, <4>2
    <3>4. Best(u[k], k) BY <1>2, <2>3, <2>4, <3>3 DEF x
    <3> HIDE DEF Best
    <3>5. QED BY <2>2, <3>4
  <2>5. CASE ~Above(x, b.f1)
    <3>1. u[k] = b BY <2>3, <2>5
    <3>3. Best(u[k], k) BY <2>1, <3>1, <2>2, <2>5 DEF x
    <3> HIDE DEF Best
    <3>4. QED BY <2>2, <3>3
  <2>6. QED BY <2>4, <2>5
<1>13. n \in T
  <2> HIDE DEF T
  <2>1. \A k \in 0 .. n : k \in T BY <1>1, <1>11, <1>12, UpTo
  <2>2. QED BY <1>1, <2>1
<1>14. QED BY <1>3, <1>4, <1>13 DEF n

\* No number has an f1 above the one that is chosen of them.
LEMMA BestOfRising ==
  ASSUME NEW I \in SUBSET Int, IsFiniteSet(I), NEW f1 \in [I -> Fractions], NEW none
  PROVE  /\ FirstBest(Rising(I), f1, none).f1 \in Fractions
         /\ \A i \in I : ~Above(f1[i], FirstBest(Rising(I), f1, none).f1)
<1> DEFINE line == Rising(I)  n == Cardinality(I)
<1>1. n \in Nat /\ line \in [1 .. n -> I] /\ \A i \in I : \E k \in 1 .. n : line[k] = i
  BY RisingIs
<1> HIDE DEF line, n
<1>2. line \in Seq(I) /\ Len(line) = n BY <1>1
<1>4. QED BY <1>1, <1>2, FirstBestIs DEF line

\* The counts are numbers, and their f1 a fraction.
LEMMA ScoresAre ==
  ASSUME NEW n \in Nat, NEW y, NEW h, DOMAIN y = 1 .. n
  PROVE  /\ F1(Scores(y, h)) \in Fractions /\ F1(Scores(y, h)).num >= 0
         /\ (\A i \in 1 .. n : ~h[i]) => F1(Scores(y, h)) = [num |-> 0, den |-> 1]
<1> DEFINE T == {i \in DOMAIN y : y[i] /\ h[i]}
           P == {i \in DOMAIN y : ~y[i] /\ h[i]}
           N == {i \in DOMAIN y : y[i] /\ ~h[i]}
           c == [tp |-> Cardinality(T), fp |-> Cardinality(P), fn |-> Cardinality(N)]
<1>1. T \in SUBSET (1 .. n) /\ P \in SUBSET (1 .. n) /\ N \in SUBSET (1 .. n) OBVIOUS
<1>2. Scores(y, h) = c BY DEF Scores
<1>3. (\A i \in 1 .. n : ~h[i]) => T = {} OBVIOUS
<1> HIDE DEF T, P, N
<1>5. Cardinality(P) \in 0 .. n BY <1>1, Counted
<1>6. Cardinality(N) \in 0 .. n BY <1>1, Counted
<1>7. c.tp \in Nat /\ c.fp \in Nat /\ c.fn \in Nat BY <1>1, Counted, <1>5, <1>6
<1>8. (\A i \in 1 .. n : ~h[i]) => c.tp = 0 BY <1>3, FS_EmptySet
<1> HIDE DEF c
<1> DEFINE a == c.tp  b == c.fp  d == c.fn  g == F1(c)
<1>10. a \in Nat /\ b \in Nat /\ d \in Nat /\ g = [num |-> 2 * a, den |-> IF a = 0 THEN 1 ELSE 2 * a + b + d]
  BY <1>7 DEF F1
<1> HIDE DEF a, b, d, g
<1>11. g \in Fractions /\ g.num >= 0 /\ (a = 0 => g = [num |-> 0, den |-> 1])
  BY <1>10 DEF Fractions
<1>12. QED BY <1>2, <1>8, <1>11 DEF a, g

\* The scores that occur.
LEMMA ScoresOf ==
  ASSUME NEW s \in Seq(Int)
  PROVE  /\ Range(s) \in SUBSET Int /\ IsFiniteSet(Range(s))
         /\ Range(s) = {s[i] : i \in 1 .. Len(s)}
  BY FiniteRange DEF Range

\* A cutoff lets through the same rows in any order of them.
LEMMA CutoffOrderFree ==
  ASSUME NEW n \in Nat, NEW y \in Seq(BOOLEAN), NEW s \in Seq(Int), Len(y) = n, Len(s) = n,
         NEW u \in Seq(BOOLEAN), NEW q \in Seq(Int), Len(u) = n, Len(q) = n,
         NEW f, Shuffles(f, n), \A i \in 1 .. n : u[i] = y[f[i]] /\ q[i] = s[f[i]], NEW t
  PROVE  AtCutoff(u, q, t) = AtCutoff(y, s, t)
<1> DEFINE h == [i \in DOMAIN s |-> s[i] >= t]  g == [i \in DOMAIN q |-> q[i] >= t]
<1>2. DOMAIN y = 1 .. n /\ DOMAIN s = 1 .. n /\ DOMAIN u = 1 .. n /\ DOMAIN q = 1 .. n OBVIOUS
<1>3. \A i \in 1 .. n : y[i] \in BOOLEAN /\ h[i] \in BOOLEAN /\ u[i] = y[f[i]] /\ g[i] = h[f[i]]
  BY <1>2 DEF Shuffles
<1> HIDE DEF h, g
<1>4. Alternates(n, y, h, u, g, f) BY <1>2, <1>3 DEF Alternates
<1>5. Scores(u, g) = Scores(y, h) BY <1>4, ScoresOrderFree
<1>6. QED BY <1>5 DEF AtCutoff, h, g

\* The episodes in which one rule fires each.
Firings(q) == [i \in DOMAIN q |-> [alerts |-> <<[rule |-> q[i]]>>]]

\* Its rules are those that fire, and each fires where it does.
LEMMA FiringsAre ==
  ASSUME NEW q \in Seq(Int)
  PROVE  /\ RulesOf(Firings(q)) = Range(q)
         /\ BuildVocab(Firings(q)) = Rising(Range(q))
         /\ Range(BuildVocab(Firings(q))) = Range(q)
         /\ \A r : RuleOnly(Firings(q), r) = [i \in 1 .. Len(q) |-> q[i] = r]
<1> DEFINE n == Len(q)  e == Firings(q)
<1>1. n \in Nat /\ DOMAIN q = 1 .. n /\ DOMAIN e = 1 .. n BY DEF Firings
<1>2. ASSUME NEW i \in 1 .. n PROVE Range(e[i].alerts) = {[rule |-> q[i]]}
  <2> DEFINE a == <<[rule |-> q[i]]>>
  <2>1. e[i].alerts = a BY <1>1 DEF Firings
  <2>2. DOMAIN a = {1} /\ a[1] = [rule |-> q[i]] OBVIOUS
  <2> HIDE DEF a
  <2>3. Range(a) = {[rule |-> q[i]]} BY <2>2 DEF Range
  <2>4. QED BY <2>1, <2>3
<1> HIDE DEF n, e
<1>3. RulesOf(e) = Range(q)
  <2>1. ASSUME NEW i \in 1 .. n PROVE {a.rule : a \in Range(e[i].alerts)} = {q[i]}
    <3> DEFINE x == [rule |-> q[i]]
    <3>1. x.rule = q[i] OBVIOUS
    <3>2. Range(e[i].alerts) = {x} BY <1>2
    <3> HIDE DEF x
    <3>3. {a.rule : a \in {x}} = {q[i]} BY <3>1
    <3>4. QED BY <3>2, <3>3
  <2>3. RulesOf(e) = UNION {{q[i]} : i \in 1 .. n} BY <2>1, <1>1 DEF RulesOf
  <2>4. QED BY <1>1, <2>3 DEF Range
<1>5. Range(Rising(Range(q))) = Range(q)
  <2> DEFINE R == Range(q)  m == Cardinality(R)  line == Rising(R)
  <2>1. R \in SUBSET Int /\ IsFiniteSet(R) BY ScoresOf
  <2> HIDE DEF R
  <2>2. m \in Nat /\ line \in [1 .. m -> R] /\ \A i \in R : \E k \in 1 .. m : line[k] = i
    BY <2>1, RisingIs
  <2> HIDE DEF line, m
  <2>4. QED BY <2>2 DEF line, R, Range
<1>6. ASSUME NEW r PROVE RuleOnly(e, r) = [i \in 1 .. n |-> q[i] = r]
  <2>1. ASSUME NEW i \in 1 .. n PROVE (\E a \in Range(e[i].alerts) : a.rule = r) = (q[i] = r)
    <3> DEFINE x == [rule |-> q[i]]
    <3>1. x.rule = q[i] OBVIOUS
    <3>2. Range(e[i].alerts) = {x} BY <1>2
    <3> HIDE DEF x
    <3>3. (\E a \in Range(e[i].alerts) : a.rule = r) <=> q[i] = r BY <3>1, <3>2
    <3>4. QED BY <3>3
  <2>3. QED BY <2>1, <1>1 DEF RuleOnly
<1>7. QED BY <1>3, <1>5, <1>6 DEF n, e, BuildVocab

\* The f1 of every score taken as a cutoff, and of every score taken as a rule that fires.
AsCutoffs(y, s) == [t \in Range(s) |-> AtCutoff(y, s, t)]
AsRules(y, s)   == [r \in Range(s) |-> F1(Scores(y, RuleOnly(Firings(s), r)))]

\* What is chosen is chosen by these.
LEMMA ChoicesAre ==
  ASSUME NEW n \in Nat, NEW y \in Seq(BOOLEAN), NEW s \in Seq(Int), Len(y) = n, Len(s) = n
  PROVE  /\ AsCutoffs(y, s) \in [Range(s) -> Fractions] /\ AsRules(y, s) \in [Range(s) -> Fractions]
         /\ PickThreshold(y, s) = FirstBest(Rising(Range(s)), AsCutoffs(y, s), 500)
         /\ BestSingleRule(Firings(s), y, BuildVocab(Firings(s)))
              = FirstBest(Rising(Range(s)), AsRules(y, s), 0)
<1>2. \A h : F1(Scores(y, h)) \in Fractions BY ScoresAre
<1>4. AsRules(y, s) \in [Range(s) -> Fractions] BY <1>2 DEF AsRules
<1>5. PickThreshold(y, s) = FirstBest(Rising(Range(s)), AsCutoffs(y, s), 500)
  BY DEF PickThreshold, AsCutoffs
<1>6. BestSingleRule(Firings(s), y, BuildVocab(Firings(s)))
        = FirstBest(Rising(Range(s)), AsRules(y, s), 0)
  <2> DEFINE e == Firings(s)  vocab == BuildVocab(e)
  <2>1. vocab = Rising(Range(s)) /\ Range(vocab) = Range(s) BY FiringsAre
  <2> HIDE DEF e, vocab
  <2>3. QED BY <2>1 DEF AsRules, e, vocab, BestSingleRule
<1>7. QED BY <1>2, <1>4, <1>5, <1>6 DEF AsCutoffs, AtCutoff

\* Above all scores nothing is let through, and any other cutoff lets through what one of
\* the scores does.
LEMMA CutoffAtScore ==
  ASSUME NEW n \in Nat, NEW y \in Seq(BOOLEAN), NEW s \in Seq(Int), Len(y) = n, Len(s) = n, n > 0,
         NEW t \in Int
  PROVE  \E x \in Range(s) : ~Above(AtCutoff(y, s, t), AtCutoff(y, s, x))
<1> DEFINE h == [i \in DOMAIN s |-> s[i] >= t]  I == {s[i] : i \in {j \in 1 .. n : s[j] >= t}}
<1>1. DOMAIN y = 1 .. n /\ DOMAIN s = 1 .. n /\ 1 \in 1 .. n /\ \A i \in 1 .. n : s[i] \in Int
  OBVIOUS
<1>2. Range(s) = {s[i] : i \in 1 .. n} BY ScoresOf
<1>3. AtCutoff(y, s, t) = F1(Scores(y, h)) /\ \A i \in 1 .. n : h[i] <=> s[i] >= t
  BY <1>1 DEF AtCutoff
<1>4. CASE \A i \in 1 .. n : ~(s[i] >= t)
  <2> DEFINE f == AtCutoff(y, s, t)  g == AtCutoff(y, s, s[1])
  <2>1. f = [num |-> 0, den |-> 1]
    <3> HIDE DEF h
    <3>2. QED BY <1>1, <1>3, <1>4, ScoresAre
  <2>2. g \in Fractions /\ g.num >= 0 BY <1>1, ScoresAre DEF AtCutoff
  <2> HIDE DEF f, g
  <2>4. g.num \in Int /\ g.den \in Int /\ 0 * g.den = 0 /\ g.num * 1 = g.num
    BY <2>2 DEF Fractions
  <2>5. ~Above(f, g) BY <2>2, <2>1, <2>4 DEF Above
  <2>7. QED BY <2>5, <1>1, <1>2 DEF f, g
<1>5. CASE \E i \in 1 .. n : s[i] >= t
  <2>1. I \in SUBSET Int /\ I # {} /\ I \subseteq Range(s) BY <1>1, <1>2, <1>5
  <2>2. PICK l \in Int, m \in Int : \A i \in DOMAIN s : l <= s[i] /\ s[i] <= m
    BY <1>1, SequencesBounded
  <2>3. (\A x \in I : t <= x /\ x <= m) /\ \A i \in 1 .. n : s[i] >= t <=> s[i] \in I
    BY <1>1, <2>2
  <2> DEFINE x == Min(I)
  <2> HIDE DEF I, x
  <2>4. x \in I /\ \A z \in I : x <= z BY <2>1, <2>3, Extremes DEF x
  <2>5. x \in Int /\ t <= x /\ x \in Range(s) BY <2>1, <2>3, <2>4
  <2>6. ASSUME NEW i \in 1 .. n PROVE (s[i] >= t) = (s[i] >= x) BY <1>1, <2>3, <2>4, <2>5
  <2>8. AtCutoff(y, s, t) = AtCutoff(y, s, x) BY <1>1, <2>6 DEF AtCutoff
  <2>10. QED BY <2>5, <2>8, <1>1, ScoresAre, AboveOrNot DEF AtCutoff
<1>6. QED BY <1>4, <1>5

\* No cutoff and no rule does better than the one that is chosen.
LEMMA NoneBetter ==
  ASSUME NEW n \in Nat, NEW y \in Seq(BOOLEAN), NEW s \in Seq(Int), Len(y) = n, Len(s) = n, n > 0
  PROVE  /\ \A t \in Int : ~Above(AtCutoff(y, s, t), PickThreshold(y, s).f1)
         /\ \A r \in Range(s) : ~Above(F1(Scores(y, RuleOnly(Firings(s), r))),
                                       BestSingleRule(Firings(s), y, BuildVocab(Firings(s))).f1)
<1> DEFINE R == Range(s)  F == AsCutoffs(y, s)  G == AsRules(y, s)
           p == PickThreshold(y, s)  b == BestSingleRule(Firings(s), y, BuildVocab(Firings(s)))
<1>1. R \in SUBSET Int /\ IsFiniteSet(R) BY ScoresOf
<1>2. F \in [R -> Fractions] /\ G \in [R -> Fractions] BY ChoicesAre
<1>3. p = FirstBest(Rising(R), F, 500) /\ b = FirstBest(Rising(R), G, 0) BY ChoicesAre
<1>4. \A t \in R : F[t] = AtCutoff(y, s, t) BY DEF AsCutoffs
<1>5. \A r \in R : G[r] = F1(Scores(y, RuleOnly(Firings(s), r))) BY DEF AsRules
<1>6. \A t \in Int : AtCutoff(y, s, t) \in Fractions /\ \E x \in R : ~Above(AtCutoff(y, s, t), AtCutoff(y, s, x))
  <2>2. \A h : F1(Scores(y, h)) \in Fractions BY ScoresAre
  <2>4. \A t \in Int : \E x \in R : ~Above(AtCutoff(y, s, t), AtCutoff(y, s, x))
    BY CutoffAtScore
  <2>5. QED BY <2>2, <2>4 DEF AtCutoff
<1> HIDE DEF R, F, G, p, b
<1>7. p.f1 \in Fractions /\ \A t \in R : ~Above(F[t], p.f1) BY <1>1, <1>2, <1>3, BestOfRising
<1>8. \A r \in R : ~Above(G[r], b.f1) BY <1>1, <1>2, <1>3, BestOfRising
<1>9. ASSUME NEW t \in Int PROVE ~Above(AtCutoff(y, s, t), p.f1)
  <2>1. PICK x \in R : ~Above(AtCutoff(y, s, t), AtCutoff(y, s, x)) BY <1>6
  <2>2. AtCutoff(y, s, x) = F[x] /\ F[x] \in Fractions /\ ~Above(F[x], p.f1) BY <1>2, <1>4, <1>7
  <2>4. QED BY <1>7, <2>1, <2>2, <1>6, NotAboveOf
<1>10. QED BY <1>5, <1>8, <1>9 DEF R, p, b

\* The same cutoff and the same rule are chosen in any order of the rows.
LEMMA ChoicesOrderFree ==
  ASSUME NEW n \in Nat, NEW y \in Seq(BOOLEAN), NEW s \in Seq(Int), Len(y) = n, Len(s) = n,
         NEW f, Shuffles(f, n),
         NEW u, Moved(y, f, u), NEW q, Moved(s, f, q)
  PROVE  /\ PickThreshold(u, q) = PickThreshold(y, s)
         /\ BestSingleRule(Firings(q), u, BuildVocab(Firings(q)))
              = BestSingleRule(Firings(s), y, BuildVocab(Firings(s)))
<1>1. /\ q \in Seq(Int) /\ Len(q) = n /\ Range(q) = Range(s) /\ \A i \in 1 .. n : q[i] = s[f[i]]
  <2>1. s \in Seq(Int) /\ Shuffles(f, Len(s)) /\ Moved(s, f, q) OBVIOUS
  <2>2. /\ q \in Seq(Int) /\ Len(q) = Len(s) /\ Range(q) = Range(s)
        /\ \A i \in 1 .. Len(s) : q[i] = s[f[i]]
    BY ONLY <2>1, OrderIs
  <2>3. QED BY <2>2
<1>2. u \in Seq(BOOLEAN) /\ Len(u) = n /\ \A i \in 1 .. n : u[i] = y[f[i]]
  <2>1. y \in Seq(BOOLEAN) /\ Shuffles(f, Len(y)) /\ Moved(y, f, u) OBVIOUS
  <2>2. u \in Seq(BOOLEAN) /\ Len(u) = Len(y) /\ \A i \in 1 .. Len(y) : u[i] = y[f[i]]
    BY ONLY <2>1, OrderIs
  <2>3. QED BY <2>2
<1>4. AsCutoffs(u, q) = AsCutoffs(y, s)
  <2>1. \A t : AtCutoff(u, q, t) = AtCutoff(y, s, t) BY <1>1, <1>2, CutoffOrderFree, ZenonT(30)
  <2>2. QED BY <1>1, <2>1 DEF AsCutoffs
<1>5. AsRules(u, q) = AsRules(y, s)
  <2>1. ASSUME NEW r PROVE F1(Scores(u, RuleOnly(Firings(q), r))) = F1(Scores(y, RuleOnly(Firings(s), r)))
    <3> DEFINE h == RuleOnly(Firings(s), r)  g == RuleOnly(Firings(q), r)
    <3>1. h = [i \in 1 .. n |-> s[i] = r] BY FiringsAre
    <3>2. g = [i \in 1 .. n |-> q[i] = r]
      <4>1. q \in Seq(Int) BY <1>1
      <4>2. g = [i \in 1 .. Len(q) |-> q[i] = r] BY ONLY <4>1, FiringsAre DEF g
      <4> HIDE DEF g
      <4>3. QED BY <1>1, <4>2
    <3> HIDE DEF h, g
    <3>3. \A i \in 1 .. n : f[i] \in 1 .. n BY DEF Shuffles
    <3>4. \A i \in 1 .. n : h[i] \in BOOLEAN /\ g[i] = h[f[i]] BY <1>1, <3>1, <3>2, <3>3
    <3>5. Alternates(n, y, h, u, g, f) BY <1>2, <3>4 DEF Alternates
    <3>7. QED BY <3>5, ScoresOrderFree DEF h, g
  <2>2. QED BY <1>1, <2>1 DEF AsRules
<1>6. QED BY <1>1, <1>2, ChoicesAre, <1>4, <1>5

\* What is promised of the reading of one ranking.
ReadInAnyOrder(y, s) ==
  LET Best(u, q) == BestSingleRule(Firings(q), u, BuildVocab(Firings(q)))
      picked == PickThreshold(y, s)
  IN  /\ AveragePrecision(y, s) = Sum(Worths(y, s))
      /\ \A f \in Bijection(DOMAIN s, DOMAIN s) :
           LET u == [i \in DOMAIN y |-> y[f[i]]]  q == [i \in DOMAIN s |-> s[f[i]]]
           IN  /\ AveragePrecision(u, q) = AveragePrecision(y, s)
               /\ PickThreshold(u, q) = picked
               /\ Best(u, q) = Best(y, s)
      /\ \A t \in Range(s) \cup {1000} : ~Above(AtCutoff(y, s, t), picked.f1)
      /\ \A r \in Range(s) : ~Above(F1(Scores(y, RuleOnly(Firings(s), r))), Best(y, s).f1)

\* It is kept by every ranking.
LEMMA AnyOrder ==
  ASSUME NEW y \in Seq(BOOLEAN), NEW s \in Seq(Int), Len(y) = Len(s), s # <<>>
  PROVE  ReadInAnyOrder(y, s)
<1> DEFINE n == Len(s)  Best(u, q) == BestSingleRule(Firings(q), u, BuildVocab(Firings(q)))
<1>1. n \in Nat /\ n > 0 /\ DOMAIN s = 1 .. n /\ DOMAIN y = 1 .. n /\ Len(y) = n /\ Len(s) = n
  OBVIOUS
<1>2. AveragePrecision(y, s) = Sum(Worths(y, s)) BY AveragePrecisionIs
<1> HIDE DEF n
<1>3. ASSUME NEW f \in Bijection(DOMAIN s, DOMAIN s),
             NEW u, Moved(y, f, u), NEW q, Moved(s, f, q)
      PROVE  /\ AveragePrecision(u, q) = AveragePrecision(y, s)
             /\ PickThreshold(u, q) = PickThreshold(y, s)
             /\ Best(u, q) = Best(y, s)
  <2>1. Shuffles(f, n) BY <1>1 DEF Bijection, Injection, Surjection, IsInjective, Shuffles
  <2>3. AveragePrecision(u, q) = AveragePrecision(y, s) BY <1>3, <1>1, <2>1, PrecisionOrderFree
  <2>5. QED BY <2>3, <1>1, <1>3, <2>1, ChoicesOrderFree
<1>5. \A r \in Range(s) : ~Above(F1(Scores(y, RuleOnly(Firings(s), r))), Best(y, s).f1)
  BY <1>1, NoneBetter
<1>6. Range(s) \cup {1000} \subseteq Int BY ScoresOf
<1> HIDE DEF Best
<1>7. \A f \in Bijection(DOMAIN s, DOMAIN s) :
        LET u == [i \in DOMAIN y |-> y[f[i]]]  q == [i \in DOMAIN s |-> s[f[i]]]
        IN  /\ AveragePrecision(u, q) = AveragePrecision(y, s)
            /\ PickThreshold(u, q) = PickThreshold(y, s)
            /\ Best(u, q) = Best(y, s)
  <2> TAKE f \in Bijection(DOMAIN s, DOMAIN s)
  <2> DEFINE u == [i \in DOMAIN y |-> y[f[i]]]  q == [i \in DOMAIN s |-> s[f[i]]]
  <2>1. Moved(y, f, u) /\ Moved(s, f, q) BY DEF Moved
  <2> HIDE DEF u, q
  <2>2. /\ AveragePrecision(u, q) = AveragePrecision(y, s)
        /\ PickThreshold(u, q) = PickThreshold(y, s)
        /\ Best(u, q) = Best(y, s)
    BY <1>3, <2>1
  <2>3. QED BY <2>2 DEF u, q
<1>8. \A t \in Range(s) \cup {1000} : ~Above(AtCutoff(y, s, t), PickThreshold(y, s).f1)
  <2>1. ASSUME NEW t \in Range(s) \cup {1000}
        PROVE  ~Above(AtCutoff(y, s, t), PickThreshold(y, s).f1)
    BY <1>6, <1>1, NoneBetter
  <2>2. QED BY <2>1
<1>9. QED BY <1>2, <1>5, <1>7, <1>8, ZenonT(30) DEF ReadInAnyOrder, Best

\* For any labels and any scores, tied or not: average precision, the cutoff and the best
\* single rule are the same in any order of the episodes; each hit counts with the
\* precision of the whole block that ties with it; and no other cutoff and no other rule
\* has a better f1 (features.py 258-297, baseline.py 51-67).  A block is what stands above
\* its cut, so the differences from cut to cut of the hits add up to the hits themselves.
THEOREM RankingsOrderFree == Spec => []RankingOrderFree
<1>1. GivenIs => RankingOrderFree
  <2>1. SUFFICES ASSUME GivenIs, given[1] = "ranking" PROVE RankingOrderFree
    BY DEF RankingOrderFree
  <2> DEFINE c == given[2]  y == c.y  s == c.s
  <2>2. c \in Rankings BY <2>1 DEF GivenIs
  <2> HIDE DEF c
  <2>3. y \in Seq(BOOLEAN) /\ s \in Seq(Int) /\ Len(y) = Len(s) /\ s # <<>>
    BY <2>2, RankingsAssumption
  <2> HIDE DEF y, s
  <2>4. ReadInAnyOrder(y, s) BY <2>3, AnyOrder
  <2>5. QED
    BY <2>4, ZenonT(30) DEF ReadInAnyOrder, RankingOrderFree, Worths, HitsOf, BlockOf, Firings, c, y, s
<1>2. QED BY <1>1, GivenCase, PTL

----------------------------------------------------------------------------
(* The synthetic stream.                                                    *)

\* What a run raises: a time in tenths and a rule.
Raises == [at : Int, rule : Int]

\* When is read from the places.
LEMMA TimesAre ==
  ASSUME NEW s \in Seq(Raises), NEW rule
  PROVE  /\ RuleTimes(s, rule) \in SUBSET Int
         /\ \A t : t \in RuleTimes(s, rule) <=> \E i \in 1 .. Len(s) : s[i].rule = rule /\ s[i].at = t
<1>1. DOMAIN s = 1 .. Len(s) /\ \A i \in 1 .. Len(s) : s[i] \in Raises OBVIOUS
<1>3. ASSUME NEW t PROVE t \in RuleTimes(s, rule) <=> \E i \in 1 .. Len(s) : s[i].rule = rule /\ s[i].at = t
  BY <1>1 DEF RuleTimes, Range
<1>5. QED BY <1>3, <1>1 DEF Raises

\* After what was raised before comes what is raised then.
LEMMA TimesJoin ==
  ASSUME NEW s \in Seq(Raises), NEW t \in Seq(Raises), NEW rule
  PROVE  s \o t \in Seq(Raises) /\ RuleTimes(s \o t, rule) = RuleTimes(s, rule) \cup RuleTimes(t, rule)
<1> DEFINE v == s \o t
<1>1. /\ v \in Seq(Raises) /\ Len(s) \in Nat /\ Len(t) \in Nat /\ Len(v) = Len(s) + Len(t)
      /\ \A i \in 1 .. Len(v) : v[i] = IF i <= Len(s) THEN s[i] ELSE t[i - Len(s)]
  OBVIOUS
<1> HIDE DEF v
<1>2. ASSUME NEW x PROVE x \in RuleTimes(v, rule) <=> x \in RuleTimes(s, rule) \/ x \in RuleTimes(t, rule)
  <2>1. x \in RuleTimes(v, rule) <=> \E i \in 1 .. Len(v) : v[i].rule = rule /\ v[i].at = x
    BY <1>1, TimesAre, SMTT(30)
  <2>2. x \in RuleTimes(s, rule) <=> \E i \in 1 .. Len(s) : s[i].rule = rule /\ s[i].at = x
    BY TimesAre
  <2>3. x \in RuleTimes(t, rule) <=> \E i \in 1 .. Len(t) : t[i].rule = rule /\ t[i].at = x
    BY TimesAre
  <2>4. ASSUME NEW i \in 1 .. Len(v)
        PROVE  \/ i \in 1 .. Len(s) /\ v[i] = s[i]
               \/ i - Len(s) \in 1 .. Len(t) /\ v[i] = t[i - Len(s)]
    BY <1>1
  <2>5. \A i \in 1 .. Len(s) : i \in 1 .. Len(v) /\ v[i] = s[i] BY <1>1
  <2>6. ASSUME NEW i \in 1 .. Len(t) PROVE i + Len(s) \in 1 .. Len(v) /\ v[i + Len(s)] = t[i]
    <3> DEFINE k == i + Len(s)
    <3>1. k \in 1 .. Len(v) /\ ~(k <= Len(s)) /\ k - Len(s) = i BY <1>1
    <3> HIDE DEF k
    <3>3. QED BY <3>1, <1>1 DEF k
  <2>8. x \in RuleTimes(s, rule) \/ x \in RuleTimes(t, rule) => x \in RuleTimes(v, rule)
    BY <2>1, <2>2, <2>3, <2>5, <2>6
  <2>9. QED BY <2>1, <2>2, <2>3, <2>4, <2>8
<1>3. QED BY <1>1, <1>2 DEF v

\* A sequence of one, and of none.
LEMMA TimesOfOne ==
  ASSUME NEW t \in Int, NEW raised \in Int, NEW rule
  PROVE  /\ <<Raised(t, raised)>> \in Seq(Raises) /\ <<>> \in Seq(Raises)
         /\ RuleTimes(<<Raised(t, raised)>>, rule) = (IF raised = rule THEN {t} ELSE {})
         /\ RuleTimes(<<>>, rule) = {}
<1> DEFINE a == Raised(t, raised)  s == <<a>>  e == <<>>
<1>1. a \in Raises /\ a.at = t /\ a.rule = raised BY DEF Raised, Raises
<1> HIDE DEF a
<1>2. s \in Seq(Raises) /\ Len(s) = 1 /\ s[1] = a /\ e \in Seq(Raises) /\ Len(e) = 0 BY <1>1
<1> HIDE DEF s, e
<1>4. \A x : x \notin RuleTimes(e, rule)
  <2>1. \A x : x \in RuleTimes(e, rule) <=> \E i \in 1 .. 0 : e[i].rule = rule /\ e[i].at = x
    <3>1. \A x : x \in RuleTimes(e, rule) <=> \E i \in 1 .. Len(e) : e[i].rule = rule /\ e[i].at = x
      <4>1. e \in Seq(Raises) BY <1>2
      <4>2. QED BY ONLY <4>1, TimesAre
    <3>2. QED BY <1>2, <3>1
  <2>3. QED BY <2>1
<1>5. RuleTimes(s, rule) = (IF raised = rule THEN {t} ELSE {}) /\ RuleTimes(e, rule) = {}
  BY <1>2, TimesAre, <1>1, <1>4
<1>6. QED BY <1>2, <1>5 DEF s, e, a

\* The tries of a run of failed logons that begins at b.
TryAt(b, p, i) == b + p.setup + (i - 1) * p.each
TriesOf(b, p, n) == {TryAt(b, p, i) : i \in 1 .. n}
CrossedAt(b, p, n) == IF n >= CompositeThreshold THEN {TryAt(b, p, CompositeThreshold) + p.trigger} ELSE {}

\* What was raised: n tries from b on, the composite if there were enough, and no login.
Tried(s, b, p, n) ==
  /\ s \in Seq(Raises)
  /\ RuleTimes(s, FailedLogon) = TriesOf(b, p, n) /\ RuleTimes(s, Composite) = CrossedAt(b, p, n)
  /\ RuleTimes(s, 5501) = {} /\ RuleTimes(s, 5502) = {}

\* The pace is in whole tenths.
LEMMA PaceIs ==
  ASSUME NEW p, Paced(p)
  PROVE  /\ p.setup \in 40 .. 70 /\ p.each \in 20 .. 36 /\ p.trigger \in 1 .. 4 /\ p.tail \in 25 .. 35
         /\ p.account \in Int /\ p.accountEnd \in Int /\ p.accountEnd > 0
         /\ p.cron \in Int /\ p.cronEnd \in Int /\ p.cronEnd > 0
         /\ \A b \in Int, i \in Int : TryAt(b, p, i) \in Int
<1>1. /\ p.setup \in 40 .. 70 /\ p.each \in 20 .. 36 /\ p.trigger \in 1 .. 4 /\ p.tail \in 25 .. 35
      /\ p.account \in Int /\ p.accountEnd \in Int /\ p.accountEnd > 0
      /\ p.cron \in Int /\ p.cronEnd \in Int /\ p.cronEnd > 0
  BY DEF Paced
<1>2. \A b \in Int, i \in Int : TryAt(b, p, i) \in Int
  <2> DEFINE x == p.setup  z == p.each
  <2>1. x \in Int /\ z \in Int BY <1>1
  <2> HIDE DEF x, z
  <2>2. \A b \in Int, i \in Int : b + x + (i - 1) * z \in Int BY <2>1, SMT
  <2>3. QED BY <2>2 DEF TryAt, x, z
<1>3. QED BY <1>1, <1>2

\* One try after the other, with the composite after the sixth.
LEMMA LogonsAre ==
  ASSUME NEW n \in Nat, NEW b \in Int, NEW p, Paced(p)
  PROVE  Tried(Logons(n, b, p), b, p, n)
<1> DEFINE Crosses(i) == IF i = CompositeThreshold
                         THEN <<Raised(TryAt(b, p, i) + p.trigger, Composite)>> ELSE <<>>
           More(i, s) == s \o <<Raised(TryAt(b, p, i), FailedLogon)>> \o Crosses(i)
           Body(f) == [i \in 0 .. n |-> IF i = 0 THEN <<>> ELSE More(i, f[i - 1])]
           u == CHOOSE f : f = Body(f)
           V == Seq(Raises)
           g == [i \in 1 .. n |-> [s \in V |-> More(i, s)]]
<1>1. Logons(n, b, p) = u[n] BY DEF Logons, TryAt
<1>3. ASSUME NEW i \in 1 .. n, NEW s \in V, NEW rule
      PROVE  /\ More(i, s) \in V
             /\ RuleTimes(More(i, s), rule)
                  = RuleTimes(s, rule) \cup (IF FailedLogon = rule THEN {TryAt(b, p, i)} ELSE {})
                      \cup (IF i = CompositeThreshold /\ Composite = rule
                            THEN {TryAt(b, p, i) + p.trigger} ELSE {})
  <2> DEFINE x == TryAt(b, p, i)  y == x + p.trigger  a == <<Raised(x, FailedLogon)>>  c == Crosses(i)
  <2>1. x \in Int /\ y \in Int /\ FailedLogon \in Int /\ Composite \in Int
    BY PaceIs DEF FailedLogon, Composite
  <2> HIDE DEF x, y
  <2>2. a \in V /\ RuleTimes(a, rule) = IF FailedLogon = rule THEN {x} ELSE {}
    BY <2>1, TimesOfOne
  <2>3. c \in V /\ RuleTimes(c, rule) = IF i = CompositeThreshold /\ Composite = rule THEN {y} ELSE {}
    <3>1. CASE i = CompositeThreshold
      <4>1. c = <<Raised(y, Composite)>> BY <3>1 DEF y, x
      <4>2. QED BY <2>1, <3>1, <4>1, TimesOfOne
    <3>2. CASE i # CompositeThreshold BY <3>2, <2>1, TimesOfOne
    <3>3. QED BY <3>1, <3>2
  <2>4. More(i, s) = (s \o a) \o c BY DEF x
  <2> HIDE DEF a, c, Crosses, More
  <2>5. s \o a \in V /\ RuleTimes(s \o a, rule) = RuleTimes(s, rule) \cup RuleTimes(a, rule)
    BY <2>2, TimesJoin
  <2> DEFINE v == s \o a
  <2>6. v \in V BY <2>5
  <2> HIDE DEF v
  <2>7. v \o c \in V /\ RuleTimes(v \o c, rule) = RuleTimes(v, rule) \cup RuleTimes(c, rule)
    BY <2>3, <2>6, TimesJoin
  <2>8. QED BY <2>2, <2>3, <2>4, <2>5, <2>7 DEF v, x, y
<1> HIDE DEF More, Crosses
<1>4. PICK f \in [0 .. n -> V] : f[0] = <<>> /\ \A i \in 1 .. n : f[i] = More(i, f[i - 1])
  <2>1. g \in [1 .. n -> [V -> V]] /\ \A i \in 1 .. n : \A s \in V : g[i][s] = More(i, s)
    BY <1>3
  <2>2. <<>> \in V OBVIOUS
  <2> HIDE DEF g, V
  <2>3. PICK f : Steps(f, n, V, <<>>, g) BY <2>1, <2>2, Recursion
  <2>4. f \in [0 .. n -> V] /\ f[0] = <<>> /\ \A i \in 1 .. n : f[i] = g[i][f[i - 1]]
    BY <2>3 DEF Steps
  <2>6. \A i \in 1 .. n : f[i] = More(i, f[i - 1]) BY <2>1, <2>4
  <2>7. QED BY <2>4, <2>6
<1>5. f = Body(f)
  <2>1. ASSUME NEW i \in 0 .. n PROVE f[i] = IF i = 0 THEN <<>> ELSE More(i, f[i - 1]) BY <1>4
  <2>3. QED BY <2>1, <1>4
<1>6. u = Body(u) BY <1>5
<1>7. u[0] = <<>> /\ \A i \in 1 .. n : u[i] = More(i, u[i - 1])
  <2> HIDE DEF u
  <2>1. \A i \in 0 .. n : u[i] = IF i = 0 THEN <<>> ELSE More(i, u[i - 1]) BY <1>6
  <2> HIDE DEF Body
  <2>2. 0 \in 0 .. n /\ \A i \in 1 .. n : i \in 0 .. n /\ i # 0 OBVIOUS
  <2>3. QED BY <2>1, <2>2
<1> HIDE DEF u, Body
<1> DEFINE S == {i \in 0 .. n : Tried(u[i], b, p, i)}
<1>8. 0 \in S
  <2>1. u[0] \in Seq(Raises) /\ \A rule : RuleTimes(u[0], rule) = {} BY <1>7, TimesOfOne
  <2>3. /\ RuleTimes(u[0], FailedLogon) = TriesOf(b, p, 0)
        /\ RuleTimes(u[0], Composite) = CrossedAt(b, p, 0)
    BY <2>1 DEF TriesOf, CrossedAt, CompositeThreshold
  <2>5. Tried(u[0], b, p, 0) BY <2>1, <2>3 DEF Tried
  <2>6. QED BY <2>5
<1>9. ASSUME NEW i \in 1 .. n, i - 1 \in S PROVE i \in S
  <2> DEFINE s == u[i - 1]
  <2>1. /\ s \in V /\ RuleTimes(s, FailedLogon) = TriesOf(b, p, i - 1)
        /\ RuleTimes(s, Composite) = CrossedAt(b, p, i - 1)
        /\ RuleTimes(s, 5501) = {} /\ RuleTimes(s, 5502) = {}
    BY <1>9 DEF Tried
  <2>2. u[i] = More(i, s) BY <1>7
  <2> HIDE DEF s
  <2>3. \A rule : /\ More(i, s) \in V
                  /\ RuleTimes(More(i, s), rule)
                       = RuleTimes(s, rule) \cup (IF FailedLogon = rule THEN {TryAt(b, p, i)} ELSE {})
                           \cup (IF i = CompositeThreshold /\ Composite = rule
                                 THEN {TryAt(b, p, i) + p.trigger} ELSE {})
    BY <1>3, <2>1
  <2>4. FailedLogon # Composite /\ FailedLogon \notin {5501, 5502} /\ Composite \notin {5501, 5502}
    BY DEF FailedLogon, Composite
  <2>5. RuleTimes(u[i], FailedLogon) = TriesOf(b, p, i) BY <2>1, <2>2, <2>3, <2>4 DEF TriesOf
  <2>6. RuleTimes(u[i], Composite) = CrossedAt(b, p, i)
    <3>2. CrossedAt(b, p, i)
            = CrossedAt(b, p, i - 1) \cup (IF i = CompositeThreshold
                                           THEN {TryAt(b, p, i) + p.trigger} ELSE {})
      BY DEF CrossedAt, CompositeThreshold
    <3>3. QED BY <2>1, <2>2, <2>3, <2>4, <3>2
  <2>8. Tried(u[i], b, p, i) BY <2>5, <2>6, <2>1, <2>2, <2>3, <2>4 DEF Tried
  <2>9. QED BY <2>8
<1>10. n \in S
  <2> HIDE DEF S
  <2>1. \A i \in 0 .. n : i \in S BY <1>8, <1>9, UpTo
  <2>2. QED BY <2>1
<1>11. QED BY <1>1, <1>10

\* Only the first run of an episode may be one of failed logons, and only an attack has six.
LEMMA GrammarIs ==
  ASSUME NEW d, Drawn(d)
  PROVE  /\ d.kind \in Kinds /\ d.rest \in 1500 .. 3300
         /\ Grammar(d.kind) \in Seq({"S1", "S2", "S3"}) /\ Len(Grammar(d.kind)) \in 1 .. 3
         /\ \A i \in 2 .. Len(Grammar(d.kind)) : Grammar(d.kind)[i] # "S1"
         /\ \A i \in 1 .. Len(Grammar(d.kind)) - 1 : d.gaps[i] \in Nat
         /\ d.logons \in Nat
         /\ Grammar(d.kind)[1] = "S1" /\ d.logons >= CompositeThreshold => d.kind \in Attacks
<1> DEFINE k == d.kind  steps == Grammar(k)
<1>1. /\ k \in Kinds /\ d.logons \in LogonsOf(k) /\ d.rest \in 1500 .. 3300
      /\ d.gaps \in [1 .. Len(steps) - 1 -> GapsOf(k)]
  BY DEF Drawn
<1> HIDE DEF k
<1>2. \/ steps = <<"S1">> /\ k \in {"admin-failed-login", "bruteforce"}
      \/ steps = <<"S2">> \/ steps = <<"S3">> \/ steps = <<"S2", "S3">>
      \/ steps = <<"S1", "S2", "S3">> /\ k = "bruteforce-persist"
  BY <1>1 DEF Grammar
<1> HIDE DEF steps
<1>3. /\ steps \in Seq({"S1", "S2", "S3"}) /\ Len(steps) \in 1 .. 3
      /\ \A i \in 2 .. Len(steps) : steps[i] # "S1"
  <2> DEFINE Fine(s) == /\ s \in Seq({"S1", "S2", "S3"}) /\ Len(s) \in 1 .. 3
                        /\ \A i \in 2 .. Len(s) : s[i] # "S1"
  <2>1. \A a \in {"S1", "S2", "S3"} : Fine(<<a>>) OBVIOUS
  <2>2. \A a \in {"S1", "S2", "S3"}, b \in {"S2", "S3"} : Fine(<<a, b>>) OBVIOUS
  <2>3. \A a \in {"S1", "S2", "S3"}, b \in {"S2", "S3"}, c \in {"S2", "S3"} : Fine(<<a, b, c>>)
    OBVIOUS
  <2> HIDE DEF Fine
  <2>4. Fine(steps) BY <1>2, <2>1, <2>2, <2>3
  <2>5. QED BY <2>4 DEF Fine
<1>4. \A i \in 1 .. Len(steps) - 1 : d.gaps[i] \in Nat
  <2> DEFINE A == 600 .. 3000  B == 150 .. 750  C == 100 .. 450
  <2>1. GapsOf(k) = A \/ GapsOf(k) = B \/ GapsOf(k) = C BY DEF GapsOf
  <2>2. A \subseteq Nat /\ B \subseteq Nat /\ C \subseteq Nat OBVIOUS
  <2> HIDE DEF A, B, C
  <2>3. GapsOf(k) \subseteq Nat BY <2>1, <2>2
  <2>4. QED BY <1>1, <2>3
<1>5. d.logons \in Nat /\ (d.logons >= CompositeThreshold => k # "admin-failed-login")
  <2>1. k = "admin-failed-login" => LogonsOf(k) = 1 .. 5 BY DEF LogonsOf
  <2>2. k # "admin-failed-login" => LogonsOf(k) = 6 .. 14 \/ LogonsOf(k) = {0}
    <3>1. CASE k \in {"bruteforce", "bruteforce-persist"} BY <3>1 DEF LogonsOf
    <3>2. CASE k \notin {"admin-failed-login", "bruteforce", "bruteforce-persist"}
      BY <3>2 DEF LogonsOf
    <3>3. QED BY <3>1, <3>2
  <2>3. QED BY <1>1, <2>1, <2>2 DEF CompositeThreshold
<1>6. steps[1] = "S1" => k \in {"admin-failed-login", "bruteforce", "bruteforce-persist"}
  BY <1>2
<1>7. QED BY <1>1, <1>3, <1>4, <1>5, <1>6 DEF k, steps, Attacks

\* Runs that are of an episode at t, behind failed logons that ended at last: n tries have
\* been made, from b on.
TriedFrom(x, last, p, b, n) ==
  /\ b \in Int /\ b >= last + MinS1Gap /\ Tried(x.alerts, b, p, n)
  /\ \A u \in TriesOf(b, p, n) : u <= x.lastS1End
RunsSo(x, t, last, p, n) ==
  /\ x.cursor \in Int /\ x.cursor >= t /\ x.lastS1End \in Int /\ x.lastS1End >= last
  /\ \E b : TriedFrom(x, last, p, b, n)

\* No try is later than the end of its run.
LEMMA TriesEnd ==
  ASSUME NEW p, Paced(p), NEW b \in Int, NEW n \in Nat
  PROVE  /\ b + p.setup + n * p.each + p.tail \in Int /\ b + p.setup + n * p.each + p.tail >= b
         /\ \A u \in TriesOf(b, p, n) : u \in Int /\ u >= b /\ u <= b + p.setup + n * p.each + p.tail
<1> DEFINE x == p.setup  z == p.each  v == p.tail
<1>1. x \in Nat /\ z \in Nat /\ v \in Nat BY PaceIs
<1> HIDE DEF x, z, v
<1>2. n * z \in Nat BY <1>1, SMT
<1>3. ASSUME NEW i \in 1 .. n PROVE (i - 1) * z \in Nat /\ (i - 1) * z <= n * z
  <2> DEFINE j == i - 1  k == n - j
  <2>1. j \in Nat /\ k \in Nat /\ n = j + k OBVIOUS
  <2> HIDE DEF j, k
  <2>2. j * z \in Nat /\ k * z \in Nat /\ (j + k) * z = j * z + k * z BY <1>1, <2>1, SMT
  <2>4. QED BY <2>2, <2>1 DEF j
<1>4. ASSUME NEW i \in 1 .. n
      PROVE  TryAt(b, p, i) \in Int /\ TryAt(b, p, i) >= b /\ TryAt(b, p, i) <= b + x + n * z + v
  <2> DEFINE w == (i - 1) * z  m == n * z
  <2>1. w \in Nat /\ w <= m /\ m \in Nat BY <1>2, <1>3
  <2>2. TryAt(b, p, i) = b + x + w BY DEF TryAt, x, z
  <2> HIDE DEF w, m
  <2>3. b + x + w <= b + x + m + v /\ b + x + w >= b /\ b + x + w \in Int BY <1>1, <2>1
  <2>4. QED BY <2>2, <2>3 DEF m
<1>5. b + x + n * z + v \in Int /\ b + x + n * z + v >= b
  <2> DEFINE m == n * z
  <2>1. m \in Nat BY <1>2
  <2> HIDE DEF m
  <2>3. QED BY <1>1, <2>1 DEF m
<1>6. QED BY <1>4, <1>5 DEF TriesOf, x, z, v

\* Neither failed logons, nor the composite, nor logins.
Unrelated(s) ==
  s \in Seq(Raises) /\ \A rule \in {FailedLogon, Composite, 5501, 5502} : RuleTimes(s, rule) = {}

\* One alert of another rule is neither.
LEMMA OneUnrelated ==
  ASSUME NEW t \in Int, NEW raised \in Int
  PROVE  raised \notin {FailedLogon, Composite, 5501, 5502} => Unrelated(<<Raised(t, raised)>>)
<1>1. ASSUME NEW r PROVE /\ <<Raised(t, raised)>> \in Seq(Raises)
                         /\ RuleTimes(<<Raised(t, raised)>>, r) = IF raised = r THEN {t} ELSE {}
  BY TimesOfOne, Zenon
<1>3. ASSUME NEW r, raised # r PROVE RuleTimes(<<Raised(t, raised)>>, r) = {} BY <1>1, <1>3
<1>4. ASSUME raised \notin {FailedLogon, Composite, 5501, 5502}
      PROVE  \A r \in {FailedLogon, Composite, 5501, 5502} : RuleTimes(<<Raised(t, raised)>>, r) = {}
  BY <1>3, <1>4
<1>5. QED BY <1>1, <1>4 DEF Unrelated

\* A run of another scenario raises neither failed logons nor the composite.
LEMMA OthersRaise ==
  ASSUME NEW scenario \in {"S2", "S3"}, NEW n, NEW t0 \in Int, NEW p, Paced(p)
  PROVE  /\ ScenarioAlerts(scenario, n, t0, p).end \in Int
         /\ ScenarioAlerts(scenario, n, t0, p).end >= t0
         /\ Unrelated(ScenarioAlerts(scenario, n, t0, p).alerts)
<1> DEFINE made == ScenarioAlerts(scenario, n, t0, p)
<1>1. Unrelated(made.alerts)
  <2> DEFINE x == t0 + p.account  y == t0 + p.cron
  <2>1. x \in Int /\ y \in Int BY PaceIs
  <2>2. made.alerts = <<Raised(x, 100112)>> \/ made.alerts = <<Raised(y, 100113)>>
    BY DEF ScenarioAlerts
  <2>3. \A rule \in {100112, 100113} : rule \in Int /\ rule \notin {FailedLogon, Composite, 5501, 5502}
    BY DEF FailedLogon, Composite
  <2> HIDE DEF made, x, y
  <2>4. Unrelated(<<Raised(x, 100112)>>) /\ Unrelated(<<Raised(y, 100113)>>)
    BY <2>1, <2>3, OneUnrelated
  <2>5. QED BY <2>2, <2>4
<1>3. QED BY <1>1, PaceIs DEF ScenarioAlerts

\* Where a run begins.
LEMMA BeginsAt ==
  ASSUME NEW scenario, NEW c \in Int, NEW last \in Int
  PROVE  /\ Begins(scenario, c, last) \in Int /\ Begins(scenario, c, last) >= c
         /\ scenario = "S1" => Begins(scenario, c, last) >= last + MinS1Gap
BY DEF Begins, MinS1Gap

\* No failed logons have come before the run, if it is one of failed logons.
OnlyFirst(scenario, m) == scenario = "S1" => m = 0

\* The next run of an episode.
LEMMA RunIs ==
  ASSUME NEW p, Paced(p), NEW t \in Int, NEW last \in Int, NEW n \in Nat, NEW x,
         NEW m \in Nat, RunsSo(x, t, last, p, m), NEW gap \in Nat,
         NEW scenario \in {"S1", "S2", "S3"}, OnlyFirst(scenario, m)
  PROVE  RunsSo(Run(x, scenario, n, gap, p), t, last, p, IF scenario = "S1" THEN n ELSE m)
<1> DEFINE at   == Begins(scenario, x.cursor, x.lastS1End)
           made == ScenarioAlerts(scenario, n, at, p)
           y    == Run(x, scenario, n, gap, p)
<1>1. x.cursor \in Int /\ x.cursor >= t /\ x.lastS1End \in Int /\ x.lastS1End >= last
  BY DEF RunsSo
<1>2. PICK b : TriedFrom(x, last, p, b, m) BY DEF RunsSo
<1>3. /\ b \in Int /\ b >= last + MinS1Gap /\ \A u \in TriesOf(b, p, m) : u <= x.lastS1End
      /\ Tried(x.alerts, b, p, m)
  BY <1>2 DEF TriedFrom
<1>4. /\ x.alerts \in Seq(Raises)
      /\ RuleTimes(x.alerts, FailedLogon) = TriesOf(b, p, m) /\ RuleTimes(x.alerts, Composite) = CrossedAt(b, p, m)
      /\ RuleTimes(x.alerts, 5501) = {} /\ RuleTimes(x.alerts, 5502) = {}
  BY <1>3 DEF Tried
<1>5. at \in Int /\ at >= x.cursor /\ (scenario = "S1" => at >= last + MinS1Gap)
  <2> DEFINE c == x.cursor  l == x.lastS1End
  <2>1. c \in Int /\ l \in Int /\ l >= last /\ MinS1Gap \in Int BY <1>1 DEF MinS1Gap
  <2> HIDE DEF c, l
  <2>2. /\ Begins(scenario, c, l) \in Int /\ Begins(scenario, c, l) >= c
        /\ scenario = "S1" => Begins(scenario, c, l) >= l + MinS1Gap
    BY <2>1, BeginsAt
  <2>4. scenario = "S1" => Begins(scenario, c, l) >= last + MinS1Gap BY <2>2, <2>1
  <2>5. QED BY <2>2, <2>4 DEF c, l
<1>6. /\ y.cursor = made.end + gap /\ y.alerts = x.alerts \o made.alerts
      /\ y.lastS1End = IF scenario = "S1" THEN made.end ELSE x.lastS1End
  BY DEF Run, Ran
<1> HIDE DEF at, made, y
<1>7. CASE scenario = "S1"
  <2> DEFINE end == at + p.setup + n * p.each + p.tail
  <2>1. made.alerts = Logons(n, at, p) /\ made.end = end BY <1>7 DEF ScenarioAlerts, made
  <2>3. end \in Int /\ end >= at /\ \A u \in TriesOf(at, p, n) : u <= end BY <1>5, TriesEnd
  <2> HIDE DEF end
  <2>4. /\ made.alerts \in Seq(Raises)
        /\ RuleTimes(made.alerts, FailedLogon) = TriesOf(at, p, n)
        /\ RuleTimes(made.alerts, Composite) = CrossedAt(at, p, n)
        /\ RuleTimes(made.alerts, 5501) = {} /\ RuleTimes(made.alerts, 5502) = {}
    BY <1>5, <2>1, LogonsAre DEF Tried
  <2>5. y.alerts \in Seq(Raises) /\ \A rule : RuleTimes(y.alerts, rule) = RuleTimes(x.alerts, rule) \cup RuleTimes(made.alerts, rule)
    BY <1>4, <1>6, <2>4, TimesJoin
  <2>6. TriesOf(b, p, m) = {} /\ CrossedAt(b, p, m) = {}
    BY <1>7 DEF OnlyFirst, TriesOf, CrossedAt, CompositeThreshold
  <2>7. Tried(y.alerts, at, p, n)
    <3>1. /\ RuleTimes(y.alerts, FailedLogon) = TriesOf(at, p, n)
          /\ RuleTimes(y.alerts, Composite) = CrossedAt(at, p, n)
      <4>1. /\ RuleTimes(y.alerts, FailedLogon) = TriesOf(b, p, m) \cup TriesOf(at, p, n)
            /\ RuleTimes(y.alerts, Composite) = CrossedAt(b, p, m) \cup CrossedAt(at, p, n)
        BY <1>4, <2>4, <2>5
      <4>2. QED BY <2>6, <4>1
    <3>2. RuleTimes(y.alerts, 5501) = {} /\ RuleTimes(y.alerts, 5502) = {} BY <1>4, <2>4, <2>5
    <3>3. QED BY <2>5, <3>1, <3>2 DEF Tried
  <2>8. y.cursor \in Int /\ y.cursor >= t /\ y.lastS1End = end /\ end >= last
    <3>1. MinS1Gap \in Nat BY DEF MinS1Gap
    <3>2. QED BY <1>1, <1>5, <1>6, <1>7, <2>1, <2>3, <3>1
  <2>9. TriedFrom(y, last, p, at, n) BY <1>5, <1>7, <2>3, <2>7, <2>8 DEF TriedFrom
  <2>10. RunsSo(y, t, last, p, n) BY <2>3, <2>8, <2>9 DEF RunsSo
  <2>11. QED BY <1>7, <2>10 DEF y
<1>8. CASE scenario # "S1"
  <2>1. scenario \in {"S2", "S3"} BY <1>8
  <2>2. /\ made.end \in Int /\ made.end >= at /\ made.alerts \in Seq(Raises)
        /\ RuleTimes(made.alerts, FailedLogon) = {} /\ RuleTimes(made.alerts, Composite) = {}
        /\ RuleTimes(made.alerts, 5501) = {} /\ RuleTimes(made.alerts, 5502) = {}
    <3>1. at \in Int BY <1>5
    <3>2. made.end \in Int /\ made.end >= at /\ Unrelated(made.alerts)
      BY <2>1, <3>1, OthersRaise DEF made
    <3>3. QED BY <3>2 DEF Unrelated
  <2>3. y.alerts \in Seq(Raises) /\ \A rule : RuleTimes(y.alerts, rule) = RuleTimes(x.alerts, rule) \cup RuleTimes(made.alerts, rule)
    BY <1>4, <1>6, <2>2, TimesJoin
  <2>4. Tried(y.alerts, b, p, m)
    <3>1. /\ RuleTimes(y.alerts, FailedLogon) = TriesOf(b, p, m)
          /\ RuleTimes(y.alerts, Composite) = CrossedAt(b, p, m)
      <4>1. RuleTimes(y.alerts, FailedLogon) = TriesOf(b, p, m) \cup {}
        <5>1. RuleTimes(y.alerts, FailedLogon) = RuleTimes(x.alerts, FailedLogon) \cup RuleTimes(made.alerts, FailedLogon)
          BY <2>3
        <5>2. QED BY <1>4, <2>2, <5>1
      <4>2. RuleTimes(y.alerts, Composite) = CrossedAt(b, p, m) \cup {}
        <5>1. RuleTimes(y.alerts, Composite) = RuleTimes(x.alerts, Composite) \cup RuleTimes(made.alerts, Composite)
          BY <2>3
        <5>2. QED BY <1>4, <2>2, <5>1
      <4>3. QED BY <4>1, <4>2
    <3>2. RuleTimes(y.alerts, 5501) = {} /\ RuleTimes(y.alerts, 5502) = {} BY <1>4, <2>2, <2>3
    <3>3. QED BY <2>3, <3>1, <3>2 DEF Tried
  <2>5. y.cursor \in Int /\ y.cursor >= t /\ y.lastS1End = x.lastS1End
    BY <1>1, <1>5, <1>6, <1>8, <2>2
  <2>6. TriedFrom(y, last, p, b, m) BY <1>3, <2>4, <2>5 DEF TriedFrom
  <2>7. RunsSo(y, t, last, p, m) BY <1>1, <2>5, <2>6 DEF RunsSo
  <2>8. QED BY <1>8, <2>5, <2>7 DEF y
<1>9. QED BY <1>7, <1>8

\* All runs of an episode: tries of one run at most, and six of them only in an attack.
LEMMA AllRunsAre ==
  ASSUME NEW p, Paced(p), NEW d, Drawn(d), NEW t \in Int, NEW last \in Int
  PROVE  \E n \in Nat : /\ RunsSo(AllRuns(d, t, last, p), t, last, p, n)
                        /\ n >= CompositeThreshold => d.kind \in Attacks
<1> DEFINE steps == Grammar(d.kind)  k == Len(steps)
           Gap(i) == IF i = k THEN 0 ELSE d.gaps[i]
           x0 == [cursor |-> t, lastS1End |-> last, alerts |-> <<>>]
           More(i, x) == Run(x, steps[i], d.logons, Gap(i), p)
           m == IF steps[1] = "S1" THEN d.logons ELSE 0
           Body(f) == [i \in 0 .. k |-> IF i = 0 THEN x0 ELSE More(i, f[i - 1])]
           u == CHOOSE f : f = Body(f)
           f3 == [i \in 0 .. k |-> IF i = 0 THEN x0
                                   ELSE IF i = 1 THEN More(1, x0)
                                   ELSE IF i = 2 THEN More(2, More(1, x0))
                                   ELSE More(3, More(2, More(1, x0)))]
           N(i) == IF i = 0 THEN 0 ELSE m
           Fine(i) == RunsSo(u[i], t, last, p, N(i))
           S == {i \in 0 .. k : Fine(i)}
<1>1. AllRuns(d, t, last, p) = u[k] BY DEF AllRuns
<1>2. /\ steps \in Seq({"S1", "S2", "S3"}) /\ k \in 1 .. 3 /\ \A i \in 2 .. k : steps[i] # "S1"
      /\ \A i \in 1 .. k - 1 : d.gaps[i] \in Nat
      /\ d.logons \in Nat /\ (steps[1] = "S1" /\ d.logons >= CompositeThreshold => d.kind \in Attacks)
  BY GrammarIs
<1> HIDE DEF steps
<1>3. \A i \in 1 .. k : steps[i] \in {"S1", "S2", "S3"} /\ Gap(i) \in Nat BY <1>2
<1>4. m \in Nat /\ (m >= CompositeThreshold => d.kind \in Attacks)
  BY <1>2 DEF CompositeThreshold
<1>5. x0.cursor = t /\ x0.lastS1End = last /\ x0.alerts = <<>> OBVIOUS
<1>6. \A i, x : More(i, x) = Run(x, steps[i], d.logons, Gap(i), p) OBVIOUS
<1>7. \A i \in 1 .. k : steps[i] = "S1" => i = 1 /\ m = d.logons BY <1>2
<1>8. steps[1] # "S1" => m = 0 OBVIOUS
<1> HIDE DEF k, x0, More, m, Gap
<1>9. k \in Nat /\ \A i \in 0 .. k : i \in {0, 1, 2, 3} BY <1>2
<1>10. f3 = Body(f3)
  <2>1. \A i \in 0 .. k : f3[i] = IF i = 0 THEN x0 ELSE More(i, f3[i - 1])
    <3>1. /\ 0 \in 0 .. k => f3[0] = x0
          /\ 1 \in 0 .. k => f3[1] = More(1, x0)
          /\ 2 \in 0 .. k => f3[2] = More(2, More(1, x0))
          /\ 3 \in 0 .. k => f3[3] = More(3, More(2, More(1, x0)))
      OBVIOUS
    <3>2. 0 \in 0 .. k /\ (2 \in 0 .. k => 1 \in 0 .. k) /\ (3 \in 0 .. k => 2 \in 0 .. k)
      BY <1>9
    <3> HIDE DEF f3
    <3>3. (2 \in 0 .. k => f3[2] = More(2, f3[1])) /\ (3 \in 0 .. k => f3[3] = More(3, f3[2]))
      BY <3>1, <3>2
    <3>4. QED BY <1>9, <3>1, <3>2, <3>3
  <2>2. f3 = [i \in 0 .. k |-> f3[i]] OBVIOUS
  <2> HIDE DEF f3
  <2>3. QED BY <2>1, <2>2
<1> HIDE DEF f3
<1>11. u = Body(u) BY <1>10
<1>12. u[0] = x0 /\ \A i \in 1 .. k : u[i] = More(i, u[i - 1])
  <2> HIDE DEF u
  <2>1. \A i \in 0 .. k : u[i] = IF i = 0 THEN x0 ELSE More(i, u[i - 1]) BY <1>11
  <2> HIDE DEF Body
  <2>2. 0 \in 0 .. k /\ \A i \in 1 .. k : i \in 0 .. k /\ i # 0 BY <1>9
  <2>3. QED BY <2>1, <2>2
<1> HIDE DEF u, Body
<1>13. 0 \in S
  <2> DEFINE b == last + MinS1Gap
  <2>1. b \in Int /\ b >= last + MinS1Gap BY DEF MinS1Gap
  <2> HIDE DEF b
  <2>2. TriesOf(b, p, 0) = {} /\ CrossedAt(b, p, 0) = {}
    BY DEF TriesOf, CrossedAt, CompositeThreshold
  <2>3. Tried(x0.alerts, b, p, 0)
    <3>1. 0 \in Int OBVIOUS
    <3>2. x0.alerts \in Seq(Raises) /\ \A rule : RuleTimes(x0.alerts, rule) = {}
      BY <1>5, <3>1, TimesOfOne
    <3>3. /\ RuleTimes(x0.alerts, FailedLogon) = TriesOf(b, p, 0)
          /\ RuleTimes(x0.alerts, Composite) = CrossedAt(b, p, 0)
      BY <2>2, <3>2
    <3>4. RuleTimes(x0.alerts, 5501) = {} /\ RuleTimes(x0.alerts, 5502) = {} BY <3>2
    <3>5. QED BY <3>2, <3>3, <3>4 DEF Tried
  <2>4. TriedFrom(x0, last, p, b, 0) BY <2>1, <2>2, <2>3 DEF TriedFrom
  <2>5. RunsSo(x0, t, last, p, 0) BY <1>5, <2>4 DEF RunsSo
  <2>6. 0 \in 0 .. k BY <1>9
  <2>7. QED BY <1>5, <1>12, <2>5, <2>6
<1>14. ASSUME NEW i \in 1 .. k, i - 1 \in S PROVE i \in S
  <2> DEFINE x == u[i - 1]  n == N(i - 1)
  <2>1. RunsSo(x, t, last, p, n) BY <1>14
  <2>2. /\ n \in Nat /\ (i = 1 => n = 0) /\ (i # 1 => n = m) /\ i \in 0 .. k /\ i # 0
        /\ (i = 1 => i - 1 = 0)
    BY <1>4, <1>9
  <2>3. steps[i] \in {"S1", "S2", "S3"} /\ Gap(i) \in Nat BY <1>3
  <2> HIDE DEF x, n
  <2>4. steps[i] = "S1" => n = 0 BY <1>7, <2>1, <2>2
  <2>5. RunsSo(Run(x, steps[i], d.logons, Gap(i), p), t, last, p, IF steps[i] = "S1" THEN d.logons ELSE n)
    <3> DEFINE scenario == steps[i]  gap == Gap(i)  tries == d.logons
    <3>1. /\ scenario \in {"S1", "S2", "S3"} /\ gap \in Nat /\ tries \in Nat /\ n \in Nat
          /\ RunsSo(x, t, last, p, n)
      BY <1>2, <2>1, <2>2, <2>3
    <3>2. scenario = "S1" => n = 0 BY <2>4
    <3> HIDE DEF scenario, gap, tries
    <3>3. OnlyFirst(scenario, n) BY <3>2 DEF OnlyFirst
    <3>4. RunsSo(Run(x, scenario, tries, gap, p), t, last, p, IF scenario = "S1" THEN tries ELSE n)
      BY <3>1, <3>3, RunIs
    <3>5. QED BY <3>4 DEF scenario, gap, tries
  <2>6. u[i] = Run(x, steps[i], d.logons, Gap(i), p) BY <1>6, <1>12 DEF x
  <2>7. (IF steps[i] = "S1" THEN d.logons ELSE n) = m BY <1>7, <1>8, <2>2
  <2>8. RunsSo(u[i], t, last, p, m) BY <2>5, <2>6, <2>7
  <2>9. QED BY <2>2, <2>8
<1>15. k \in S
  <2> HIDE DEF S
  <2>1. \A i \in 0 .. k : i \in S BY <1>9, <1>13, <1>14, UpTo
  <2>2. QED BY <1>9, <2>1
<1>16. RunsSo(u[k], t, last, p, m) BY <1>2, <1>15
<1>17. QED BY <1>1, <1>4, <1>16

\* An episode of a stream, before the standing accounts' logins are added.
Produced == [kind : Kinds, label : {"attack", "benign"}, startedAt : Int, endedAt : Int, alerts : Seq(Raises)]

\* Its tries are those of one run, and six of them only of an attack.
Plausible(e, p) ==
  /\ e \in Produced /\ e.startedAt <= e.endedAt
  /\ \E b \in Int, n \in Nat : Tried(e.alerts, b, p, n) /\ (n >= CompositeThreshold => e.label = "attack")

\* Two episodes do not touch, and their tries are as far apart as the campaign keeps them.
Apart2(e, f) ==
  /\ e.endedAt + 1500 <= f.startedAt
  /\ \A v \in RuleTimes(e.alerts, FailedLogon), w \in RuleTimes(f.alerts, FailedLogon) : w - v >= MinS1Gap

\* All of them are behind the state the next one begins in.
Behind(e, x) ==
  e.endedAt + 1500 <= x.t /\ \A v \in RuleTimes(e.alerts, FailedLogon) : v <= x.lastS1End

States == [t : Int, lastS1End : Int, made : Seq(Produced)]
StreamSo(x, p) ==
  /\ x \in States
  /\ \A i \in 1 .. Len(x.made) : Plausible(x.made[i], p) /\ Behind(x.made[i], x)
  /\ \A i, j \in 1 .. Len(x.made) : i < j => Apart2(x.made[i], x.made[j])

\* What one more episode adds.
LEMMA OneMoreIs ==
  ASSUME NEW p, Paced(p), NEW d, Drawn(d), NEW x \in States, NEW total
  PROVE  \/ OneMore(x, d, total, p) = x
         \/ \E y \in States, e \in Produced :
              /\ OneMore(x, d, total, p) = y
              /\ y.made = Append(x.made, e) /\ Plausible(e, p) /\ Behind(e, y)
              /\ y.t >= x.t /\ y.lastS1End >= x.lastS1End /\ e.startedAt = x.t
              /\ \A w \in RuleTimes(e.alerts, FailedLogon) : w >= x.lastS1End + MinS1Gap
<1> DEFINE ran == AllRuns(d, x.t, x.lastS1End, p)
           e == [kind |-> d.kind, label |-> LabelOf(d.kind), startedAt |-> x.t,
                 endedAt |-> ran.cursor, alerts |-> ran.alerts]
           y == [t |-> ran.cursor + d.rest, lastS1End |-> ran.lastS1End, made |-> Append(x.made, e)]
<1>1. OneMore(x, d, total, p) = x \/ OneMore(x, d, total, p) = y BY DEF OneMore, WithEpisode
<1>2. x.t \in Int /\ x.lastS1End \in Int /\ x.made \in Seq(Produced) BY DEF States
<1>3. PICK n \in Nat : /\ RunsSo(ran, x.t, x.lastS1End, p, n)
                       /\ n >= CompositeThreshold => d.kind \in Attacks
  BY <1>2, AllRunsAre
<1>4. /\ ran.cursor \in Int /\ ran.cursor >= x.t /\ ran.lastS1End \in Int
      /\ ran.lastS1End >= x.lastS1End
  BY <1>3 DEF RunsSo
<1>5. PICK b : TriedFrom(ran, x.lastS1End, p, b, n) BY <1>3 DEF RunsSo
<1>6. /\ b \in Int /\ b >= x.lastS1End + MinS1Gap /\ Tried(ran.alerts, b, p, n)
      /\ \A u \in TriesOf(b, p, n) : u <= ran.lastS1End
  BY <1>5 DEF TriedFrom
<1>7. ran.alerts \in Seq(Raises) /\ RuleTimes(ran.alerts, FailedLogon) = TriesOf(b, p, n)
  BY <1>6 DEF Tried
<1> DEFINE rest == d.rest
<1>8. d.kind \in Kinds /\ rest \in Int /\ rest >= 1500
  <2>1. d.kind \in Kinds /\ rest \in 1500 .. 3300 BY GrammarIs
  <2> HIDE DEF rest
  <2>2. QED BY <2>1
<1>9. LabelOf(d.kind) \in {"attack", "benign"} /\ (d.kind \in Attacks => LabelOf(d.kind) = "attack")
  BY DEF LabelOf
<1> HIDE DEF ran
<1>10. /\ e \in Produced /\ e.startedAt = x.t /\ e.endedAt = ran.cursor /\ e.alerts = ran.alerts
       /\ (n >= CompositeThreshold => e.label = "attack")
  BY <1>2, <1>3, <1>4, <1>7, <1>8, <1>9 DEF Produced
<1> HIDE DEF e
<1>11. /\ y \in States /\ y.t = ran.cursor + rest /\ y.lastS1End = ran.lastS1End
       /\ y.made = Append(x.made, e)
  <2>1. Append(x.made, e) \in Seq(Produced) BY <1>2, <1>10
  <2>2. ran.cursor + rest \in Int
    <3> HIDE DEF rest
    <3>1. QED BY <1>4, <1>8
  <2>3. QED BY <1>4, <2>1, <2>2 DEF States
<1> HIDE DEF y, rest
<1>12. Plausible(e, p) BY <1>4, <1>6, <1>10 DEF Plausible
<1>13. Behind(e, y) BY <1>4, <1>6, <1>7, <1>8, <1>10, <1>11 DEF Behind
<1>14. ASSUME NEW w \in RuleTimes(e.alerts, FailedLogon) PROVE w >= x.lastS1End + MinS1Gap
  <2>1. w \in TriesOf(b, p, n) BY <1>7, <1>10
  <2>2. w \in Int /\ w >= b BY <1>6, <2>1, TriesEnd
  <2>3. x.lastS1End + MinS1Gap \in Int BY <1>2 DEF MinS1Gap
  <2>4. QED BY <1>6, <2>2, <2>3
<1>15. y.t >= x.t BY <1>2, <1>4, <1>8, <1>11
<1>16. QED BY <1>1, <1>4, <1>10, <1>11, <1>12, <1>13, <1>14, <1>15

\* One more episode keeps the stream plausible.
LEMMA StreamGoesOn ==
  ASSUME NEW p, Paced(p), NEW d, Drawn(d), NEW x, StreamSo(x, p), NEW total
  PROVE  StreamSo(OneMore(x, d, total, p), p)
<1>1. x \in States BY DEF StreamSo
<1>2. CASE OneMore(x, d, total, p) = x BY <1>2
<1>3. CASE OneMore(x, d, total, p) # x
  <2>1. PICK y \in States, e \in Produced :
          /\ OneMore(x, d, total, p) = y
          /\ y.made = Append(x.made, e) /\ Plausible(e, p) /\ Behind(e, y)
          /\ y.t >= x.t /\ y.lastS1End >= x.lastS1End /\ e.startedAt = x.t
          /\ \A w \in RuleTimes(e.alerts, FailedLogon) : w >= x.lastS1End + MinS1Gap
    BY <1>1, <1>3, OneMoreIs
  <2>2. /\ x.t \in Int /\ x.lastS1End \in Int /\ x.made \in Seq(Produced)
        /\ y.t \in Int /\ y.lastS1End \in Int
    BY <1>1 DEF States
  <2> DEFINE k == Len(x.made)
  <2>3. k \in Nat BY <2>2
  <2>4. e \in Produced BY <2>1 DEF Plausible
  <2>5. Len(y.made) = k + 1 /\ y.made[k + 1] = e /\ \A i \in 1 .. k : y.made[i] = x.made[i]
    BY <2>1, <2>2, <2>4
  <2>6. \A i \in 1 .. k : Plausible(x.made[i], p) /\ Behind(x.made[i], x) BY DEF StreamSo
  <2>7. \A i, j \in 1 .. k : i < j => Apart2(x.made[i], x.made[j]) BY DEF StreamSo
  <2> HIDE DEF k
  <2>8. \A i \in 1 .. k + 1 : i = k + 1 \/ i \in 1 .. k BY <2>3
  <2>9. ASSUME NEW i \in 1 .. k PROVE Behind(x.made[i], y) /\ Apart2(x.made[i], e)
    <3> DEFINE f == x.made[i]
    <3>1. /\ f.endedAt + 1500 <= x.t /\ \A v \in RuleTimes(f.alerts, FailedLogon) : v <= x.lastS1End
          /\ f.endedAt \in Int /\ f.alerts \in Seq(Raises)
      BY <2>6 DEF Behind, Plausible, Produced
    <3> HIDE DEF f
    <3>2. e.alerts \in Seq(Raises) BY <2>4 DEF Produced
    <3>3. RuleTimes(f.alerts, FailedLogon) \in SUBSET Int BY <3>1, TimesAre
    <3>4. RuleTimes(e.alerts, FailedLogon) \in SUBSET Int BY <3>2, TimesAre
    <3>5. ASSUME NEW v \in RuleTimes(f.alerts, FailedLogon), NEW w \in RuleTimes(e.alerts, FailedLogon)
          PROVE  w - v >= MinS1Gap
      BY <2>1, <3>1, <3>3, <3>4, <2>2 DEF MinS1Gap
    <3>6. ASSUME NEW v \in RuleTimes(f.alerts, FailedLogon) PROVE v <= y.lastS1End
      BY <3>1, <3>3, <2>1, <2>2
    <3>7. f.endedAt + 1500 <= y.t /\ f.endedAt + 1500 <= e.startedAt BY <2>1, <2>2, <3>1
    <3>8. QED BY <3>5, <3>6, <3>7 DEF Behind, Apart2, f
  <2>10. \A i \in 1 .. k + 1 : Plausible(y.made[i], p) /\ Behind(y.made[i], y)
    BY <2>1, <2>5, <2>6, <2>8, <2>9
  <2>11. ASSUME NEW i \in 1 .. k + 1, NEW j \in 1 .. k + 1, i < j PROVE Apart2(y.made[i], y.made[j])
    <3>1. i \in 1 .. k /\ (j = k + 1 \/ j \in 1 .. k) BY <2>3, <2>8, <2>11
    <3>2. QED BY <2>5, <2>7, <2>9, <2>11, <3>1
  <2>12. StreamSo(y, p) BY <2>5, <2>10, <2>11 DEF StreamSo
  <2>13. QED BY <2>1, <2>12
<1>4. QED BY <1>2, <1>3

\* The episodes of a stream.
LEMMA EpisodesAre ==
  ASSUME NEW p, Paced(p), NEW draws, draws \in Seq(Range(draws)), \A d \in Range(draws) : Drawn(d),
         NEW total, NEW first \in Int
  PROVE  LET made == Episodes(total, first, draws, p)
         IN  /\ made \in Seq(Produced) /\ \A i \in 1 .. Len(made) : Plausible(made[i], p)
             /\ \A i, j \in 1 .. Len(made) : i < j => Apart2(made[i], made[j])
<1> DEFINE n == Len(draws)
           x0 == [t |-> first, lastS1End |-> -Never, made |-> <<>>]
           More(k, x) == OneMore(x, draws[k], total, p)
           Body(f) == [k \in 0 .. n |-> IF k = 0 THEN x0 ELSE More(k, f[k - 1])]
           u == CHOOSE f : f = Body(f)
           V == States
           g == [k \in 1 .. n |-> [x \in V |-> More(k, x)]]
           S == {k \in 0 .. n : StreamSo(u[k], p)}
<1>1. Episodes(total, first, draws, p) = u[n].made BY DEF Episodes
<1>2. n \in Nat /\ \A k \in 1 .. n : Drawn(draws[k]) OBVIOUS
<1>3. x0 \in States /\ x0.made = <<>> BY DEF Never, States
<1> HIDE DEF n, x0
<1>4. ASSUME NEW k \in 1 .. n, NEW x \in V PROVE More(k, x) \in V BY <1>2, OneMoreIs
<1>5. \A k, x : More(k, x) = OneMore(x, draws[k], total, p) OBVIOUS
<1> HIDE DEF More
<1>6. PICK f \in [0 .. n -> V] : f[0] = x0 /\ \A k \in 1 .. n : f[k] = More(k, f[k - 1])
  <2>1. g \in [1 .. n -> [V -> V]] /\ \A k \in 1 .. n : \A x \in V : g[k][x] = More(k, x)
    BY <1>4
  <2> HIDE DEF g, V
  <2>2. x0 \in V BY <1>3 DEF V
  <2>3. PICK f : Steps(f, n, V, x0, g) BY <1>2, <2>1, <2>2, Recursion
  <2>4. f \in [0 .. n -> V] /\ f[0] = x0 /\ \A k \in 1 .. n : f[k] = g[k][f[k - 1]]
    BY <2>3 DEF Steps
  <2>5. \A k \in 1 .. n : f[k - 1] \in V BY <1>2, <2>4
  <2>6. \A k \in 1 .. n : f[k] = More(k, f[k - 1]) BY <2>1, <2>4, <2>5
  <2>7. QED BY <2>4, <2>6
<1>7. f = Body(f)
  <2>1. ASSUME NEW k \in 0 .. n PROVE f[k] = IF k = 0 THEN x0 ELSE More(k, f[k - 1])
    BY <1>2, <1>6
  <2>2. f = [k \in 0 .. n |-> f[k]] BY <1>6
  <2>3. QED BY <2>1, <2>2
<1>8. u = Body(u) BY <1>7
<1>9. u[0] = x0 /\ \A k \in 1 .. n : u[k] = More(k, u[k - 1])
  <2> HIDE DEF u
  <2>1. \A k \in 0 .. n : u[k] = IF k = 0 THEN x0 ELSE More(k, u[k - 1]) BY <1>8
  <2> HIDE DEF Body
  <2>2. 0 \in 0 .. n /\ \A k \in 1 .. n : k \in 0 .. n /\ k # 0 BY <1>2
  <2>3. QED BY <2>1, <2>2
<1> HIDE DEF u, Body
<1>10. 0 \in S BY <1>3, <1>2, <1>9 DEF StreamSo
<1>11. ASSUME NEW k \in 1 .. n, k - 1 \in S PROVE k \in S
  <2> DEFINE x == u[k - 1]
  <2>1. StreamSo(x, p) /\ k \in 0 .. n BY <1>2, <1>11
  <2>2. u[k] = OneMore(x, draws[k], total, p) /\ Drawn(draws[k]) BY <1>2, <1>5, <1>9
  <2> HIDE DEF x
  <2>3. StreamSo(u[k], p) BY <2>1, <2>2, StreamGoesOn
  <2>4. QED BY <2>1, <2>3
<1>12. n \in S
  <2> HIDE DEF S
  <2>1. \A k \in 0 .. n : k \in S BY <1>2, <1>10, <1>11, UpTo
  <2>2. QED BY <1>2, <2>1
<1>13. StreamSo(u[n], p) BY <1>12
<1>14. u[n].made \in Seq(Produced) BY <1>13 DEF StreamSo, States
<1>15. QED BY <1>1, <1>13, <1>14 DEF StreamSo

\* Put in order of time, the same was raised.
LEMMA SortedRaises ==
  ASSUME NEW w \in Seq(Raises)
  PROVE  /\ Sorted(w, Sooner) \in Seq(Raises)
         /\ \A rule : RuleTimes(Sorted(w, Sooner), rule) = RuleTimes(w, rule)
<1> DEFINE t == Sorted(w, Sooner)  n == Len(w)
<1>1. Timed(Raises) BY DEF Timed, Raises
<1>2. t \in Seq(Raises) /\ Len(t) = n /\ Reordered(t, w, n) BY <1>1, SortedAt
<1> HIDE DEF t
<1>3. PICK f : Shuffles(f, n) /\ \A k \in 1 .. n : t[k] = w[f[k]] BY <1>2 DEF Reordered
<1>4. /\ \A k \in 1 .. n : f[k] \in 1 .. n /\ t[k] = w[f[k]]
      /\ \A i \in 1 .. n : \E k \in 1 .. n : f[k] = i
  BY <1>3 DEF Shuffles
<1>5. ASSUME NEW rule PROVE RuleTimes(t, rule) = RuleTimes(w, rule)
  <2>1. \A x : x \in RuleTimes(t, rule) <=> \E i \in 1 .. n : t[i].rule = rule /\ t[i].at = x
    BY <1>2, TimesAre
  <2>2. \A x : x \in RuleTimes(w, rule) <=> \E i \in 1 .. n : w[i].rule = rule /\ w[i].at = x
    BY TimesAre
  <2>3. ASSUME NEW x PROVE x \in RuleTimes(t, rule) <=> x \in RuleTimes(w, rule)
    <3>1. ASSUME x \in RuleTimes(t, rule) PROVE x \in RuleTimes(w, rule)
      <4>1. PICK i \in 1 .. n : t[i].rule = rule /\ t[i].at = x BY <2>1, <3>1
      <4>2. f[i] \in 1 .. n /\ w[f[i]].rule = rule /\ w[f[i]].at = x BY <1>4, <4>1
      <4>3. QED BY <2>2, <4>2
    <3>2. ASSUME x \in RuleTimes(w, rule) PROVE x \in RuleTimes(t, rule)
      <4>1. PICK i \in 1 .. n : w[i].rule = rule /\ w[i].at = x BY <2>2, <3>2
      <4>2. PICK k \in 1 .. n : f[k] = i BY <1>4
      <4>3. t[k].rule = rule /\ t[k].at = x BY <1>4, <4>1, <4>2
      <4>4. QED BY <2>1, <4>3
    <3>3. QED BY <3>1, <3>2
  <2>4. QED BY <2>3
<1>6. QED BY <1>2, <1>5 DEF t

\* The standing accounts raise their logins and nothing else.
OnlyLogins(s) == s \in Seq(Raises) /\ \A k \in 1 .. Len(s) : s[k].rule \in {5501, 5502}

\* The background is logins only.
LEMMA BackgroundIs ==
  ASSUME NEW every \in Nat \ {0}, NEW total \in Nat, NEW closed \in Nat
  PROVE  OnlyLogins(Background(total, every, closed))
<1> DEFINE n == 2 * (total \div every)  s == Background(total, every, closed)
<1>1. n \in Nat
  <2>1. total \div every \in Nat BY SMT
  <2>2. QED BY <2>1
<1>2. \A k \in 1 .. n : ((k + 1) \div 2) * every \in Int /\ (k \div 2) * every + closed \in Int
  <2>1. \A a \in Int : a * every \in Int /\ a * every + closed \in Int BY SMT
  <2>2. \A k \in 1 .. n : (k + 1) \div 2 \in Int /\ k \div 2 \in Int BY <1>1
  <2>3. QED BY <2>1, <2>2
<1>3. s = [k \in 1 .. n |->
             IF k % 2 = 1 THEN Raised(((k + 1) \div 2) * every, 5501)
             ELSE Raised((k \div 2) * every + closed, 5502)]
  BY DEF Background
<1> HIDE DEF n, s
<1>4. \A t \in Int, rule \in {5501, 5502} : Raised(t, rule) \in Raises /\ Raised(t, rule).rule \in {5501, 5502}
  BY DEF Raised, Raises
<1>5. ASSUME NEW k \in 1 .. n PROVE s[k] \in Raises /\ s[k].rule \in {5501, 5502}
  <2> DEFINE x == ((k + 1) \div 2) * every  y == (k \div 2) * every + closed
  <2>1. x \in Int /\ y \in Int BY <1>2
  <2>2. s[k] = Raised(x, 5501) \/ s[k] = Raised(y, 5502) BY <1>3
  <2> HIDE DEF x, y
  <2>3. QED BY <1>4, <2>1, <2>2
<1>6. s \in [1 .. n -> Raises] BY <1>3, <1>5
<1>7. s \in Seq(Raises) /\ Len(s) = n BY <1>1, <1>6
<1>8. QED BY <1>5, <1>7 DEF OnlyLogins, s

\* An alert of the background that an episode is given.
FallsIn(e, background) ==
  {k \in DOMAIN background : /\ e.startedAt - 100 <= background[k].at
                             /\ background[k].at <= e.endedAt + 600}

\* What is written of an episode: its own tries and composites, and the logins around it.
Written(s, e) ==
  /\ s \in Seq(Raises)
  /\ RuleTimes(s, FailedLogon) = RuleTimes(e.alerts, FailedLogon)
  /\ RuleTimes(s, Composite) = RuleTimes(e.alerts, Composite)
  /\ \A rule \in {5501, 5502} : \A t \in RuleTimes(s, rule) :
       t \in Int /\ e.startedAt - 100 <= t /\ t <= e.endedAt + 600

\* Sorted with the logins around it, an episode is written so.
LEMMA WrittenIs ==
  ASSUME NEW p, NEW e, Plausible(e, p), NEW background, OnlyLogins(background)
  PROVE  Written(Sorted(e.alerts \o Pick(background, FallsIn(e, background)), Sooner), e)
<1> DEFINE I == FallsIn(e, background)  q == Pick(background, I)  s == e.alerts \o q
           w == Sorted(s, Sooner)
<1>1. /\ background \in Seq(Raises) /\ DOMAIN background = 1 .. Len(background)
      /\ \A k \in DOMAIN background : background[k].rule \in {5501, 5502}
  BY DEF OnlyLogins
<1>2. e.alerts \in Seq(Raises) /\ e.startedAt \in Int /\ e.endedAt \in Int
  BY DEF Plausible, Produced
<1>3. PICK b \in Int, n \in Nat : Tried(e.alerts, b, p, n) BY DEF Plausible
<1>4. RuleTimes(e.alerts, 5501) = {} /\ RuleTimes(e.alerts, 5502) = {} BY <1>3 DEF Tried
<1>5. I \in SUBSET DOMAIN background BY DEF FallsIn
<1>6. \A k \in I : e.startedAt - 100 <= background[k].at /\ background[k].at <= e.endedAt + 600
  BY DEF FallsIn
<1> HIDE DEF I
<1>7. q \in Seq(Raises) /\ Range(q) = {background[k] : k \in I} BY <1>1, <1>5, PickIs
<1> HIDE DEF q
<1>8. ASSUME NEW i \in 1 .. Len(q) PROVE \E k \in I : q[i] = background[k]
  <2>1. q[i] \in Range(q) BY <1>7 DEF Range
  <2>2. QED BY <1>7, <2>1
<1>9. RuleTimes(q, FailedLogon) = {} /\ RuleTimes(q, Composite) = {}
  <2>1. ASSUME NEW i \in 1 .. Len(q) PROVE q[i].rule # FailedLogon /\ q[i].rule # Composite
    <3>1. PICK k \in I : q[i] = background[k] BY <1>8
    <3>2. q[i].rule \in {5501, 5502} BY <1>1, <1>5, <3>1
    <3>3. QED BY <3>2 DEF FailedLogon, Composite
  <2>2. \A x : x \in RuleTimes(q, FailedLogon) <=> \E i \in 1 .. Len(q) : q[i].rule = FailedLogon /\ q[i].at = x
    BY <1>7, TimesAre
  <2>3. \A x : x \in RuleTimes(q, Composite) <=> \E i \in 1 .. Len(q) : q[i].rule = Composite /\ q[i].at = x
    BY <1>7, TimesAre
  <2>4. (\A x : x \notin RuleTimes(q, FailedLogon)) /\ \A x : x \notin RuleTimes(q, Composite)
    BY <2>1, <2>2, <2>3
  <2>5. QED BY <2>4
<1>10. ASSUME NEW rule, NEW t \in RuleTimes(q, rule)
       PROVE  t \in Int /\ e.startedAt - 100 <= t /\ t <= e.endedAt + 600
  <2>1. RuleTimes(q, rule) \in SUBSET Int
        /\ \A x : x \in RuleTimes(q, rule) <=> \E i \in 1 .. Len(q) : q[i].rule = rule /\ q[i].at = x
    BY <1>7, TimesAre
  <2>2. PICK i \in 1 .. Len(q) : q[i].at = t BY <2>1
  <2>3. PICK k \in I : q[i] = background[k] BY <1>8
  <2>4. t = background[k].at BY <2>2, <2>3
  <2>5. e.startedAt - 100 <= background[k].at /\ background[k].at <= e.endedAt + 600 BY <1>6
  <2>6. t \in Int BY <2>1
  <2>7. QED BY <2>4, <2>5, <2>6
<1>11. /\ s \in Seq(Raises)
       /\ \A rule : RuleTimes(s, rule) = RuleTimes(e.alerts, rule) \cup RuleTimes(q, rule)
  BY <1>2, <1>7, TimesJoin
<1> HIDE DEF s
<1>12. w \in Seq(Raises) /\ \A rule : RuleTimes(w, rule) = RuleTimes(s, rule)
  BY <1>11, SortedRaises
<1> HIDE DEF w
<1>13. RuleTimes(w, FailedLogon) = RuleTimes(e.alerts, FailedLogon) BY <1>11, <1>12, <1>9
<1>14. RuleTimes(w, Composite) = RuleTimes(e.alerts, Composite) BY <1>11, <1>12, <1>9
<1>15. ASSUME NEW rule \in {5501, 5502} PROVE RuleTimes(w, rule) = RuleTimes(q, rule)
  <2>1. RuleTimes(w, rule) = RuleTimes(e.alerts, rule) \cup RuleTimes(q, rule) BY <1>11, <1>12
  <2>2. RuleTimes(e.alerts, rule) = {} BY <1>4
  <2>3. QED BY <2>1, <2>2
<1>16. \A rule \in {5501, 5502} : \A t \in RuleTimes(w, rule) :
         t \in Int /\ e.startedAt - 100 <= t /\ t <= e.endedAt + 600
  BY <1>10, <1>15
<1>17. Written(w, e) BY <1>12, <1>13, <1>14, <1>16 DEF Written
<1>18. QED BY <1>17 DEF w, s, q, I

\* One try after the other, no two of them at the same time.
LEMMA TriesRise ==
  ASSUME NEW p, Paced(p), NEW b \in Int, NEW i \in Int, NEW j \in Int, i < j
  PROVE  /\ TryAt(b, p, i) \in Int /\ TryAt(b, p, j) \in Int
         /\ TryAt(b, p, i) + p.each <= TryAt(b, p, j) /\ p.each \in 20 .. 36
<1> DEFINE x == b + p.setup  z == p.each
<1>1. x \in Int /\ z \in Nat \ {0} /\ p.each \in 20 .. 36 BY PaceIs
<1> HIDE DEF x, z
<1> DEFINE k == i - 1  l == j - 1
<1>2. k \in Int /\ l \in Int /\ k < l OBVIOUS
<1> HIDE DEF k, l
<1>3. z * k \in Int /\ z * l \in Int /\ z * k + z <= z * l /\ z * k = k * z /\ z * l = l * z
  <2>1. z * k \in Int /\ z * l \in Int /\ z * k + z <= z * l BY <1>1, <1>2, Multiples
  <2>2. z * k = k * z /\ z * l = l * z BY <1>1, <1>2, SMT
  <2>3. QED BY <2>1, <2>2
<1> DEFINE f == k * z  g == l * z
<1>4. f \in Int /\ g \in Int /\ f + z <= g /\ TryAt(b, p, i) = x + f /\ TryAt(b, p, j) = x + g
  BY <1>3 DEF TryAt, x, z, k, l
<1> HIDE DEF f, g
<1>5. x + f \in Int /\ x + g \in Int /\ x + f + z <= x + g BY <1>1, <1>4
<1>6. QED BY <1>1, <1>4, <1>5 DEF z

\* As many times as there are tries.
LEMMA TriesCount ==
  ASSUME NEW p, Paced(p), NEW b \in Int, NEW n \in Nat
  PROVE  IsFiniteSet(TriesOf(b, p, n)) /\ Cardinality(TriesOf(b, p, n)) = n
<1> DEFINE S == 1 .. n  f == [i \in S |-> TryAt(b, p, i)]
<1>1. IsFiniteSet(S) /\ Cardinality(S) = n BY PlacesUpTo
<1>2. ASSUME NEW i \in S, NEW j \in S, f[i] = f[j] PROVE i = j
  <2>1. TryAt(b, p, i) = TryAt(b, p, j) BY <1>2
  <2>2. ASSUME NEW k \in Int, NEW l \in Int, k < l PROVE TryAt(b, p, k) # TryAt(b, p, l)
    <3>1. /\ TryAt(b, p, k) \in Int /\ TryAt(b, p, l) \in Int
          /\ TryAt(b, p, k) + p.each <= TryAt(b, p, l) /\ p.each \in 20 .. 36
      BY <2>2, TriesRise
    <3> DEFINE z == p.each
    <3>2. z \in Int /\ z > 0 /\ TryAt(b, p, k) + z <= TryAt(b, p, l) BY <3>1
    <3> HIDE DEF z
    <3>3. QED BY <3>1, <3>2
  <2>3. i \in Int /\ j \in Int OBVIOUS
  <2>4. ~(i < j) /\ ~(j < i) BY <2>1, <2>2, <2>3
  <2>5. QED BY <2>3, <2>4
<1>3. TriesOf(b, p, n) = {f[i] : i \in S} BY DEF TriesOf
<1> HIDE DEF f, S
<1>4. \A i, j \in S : f[i] = f[j] => i = j BY <1>2
<1>5. IsFiniteSet({f[i] : i \in S}) /\ Cardinality({f[i] : i \in S}) = Cardinality(S)
  BY <1>1, <1>4, ImageOf
<1>6. QED BY <1>1, <1>3, <1>5

\* An episode as it is written: the tries of one run, the composite if there were enough of
\* them, and enough only in an attack.
TriesAndComposite(m, p, b, n) ==
  /\ b \in Int /\ n \in Nat
  /\ RuleTimes(m.alerts, FailedLogon) = TriesOf(b, p, n)
  /\ RuleTimes(m.alerts, Composite) = CrossedAt(b, p, n)
  /\ n >= CompositeThreshold => m.label = "attack"

\* The tries of two episodes are far apart, and they share no login.
FarApart(m, o) ==
  /\ \A t \in RuleTimes(m.alerts, FailedLogon), u \in RuleTimes(o.alerts, FailedLogon) : u - t >= MinS1Gap
  /\ \A rule \in {5501, 5502} : RuleTimes(m.alerts, rule) \cap RuleTimes(o.alerts, rule) = {}

WellWritten(made, p) ==
  /\ DOMAIN made \subseteq Int
  /\ \A i \in DOMAIN made : \E b, n : TriesAndComposite(made[i], p, b, n)
  /\ \A i, j \in DOMAIN made : i < j => FarApart(made[i], made[j])

\* The failed logons in the composite rule's window.
WithinOf(made, t) == Recent(TriesIn(made), t)

\* Every try is a time, and of one of the episodes.
LEMMA TriesInAre ==
  ASSUME NEW p, Paced(p), NEW made, WellWritten(made, p)
  PROVE  /\ \A u : u \in TriesIn(made) <=> \E i \in DOMAIN made : u \in RuleTimes(made[i].alerts, FailedLogon)
         /\ \A i \in DOMAIN made : RuleTimes(made[i].alerts, FailedLogon) \in SUBSET Int
<1>1. \A u : u \in TriesIn(made) <=> \E i \in DOMAIN made : u \in RuleTimes(made[i].alerts, FailedLogon)
  BY DEF TriesIn
<1>2. ASSUME NEW i \in DOMAIN made PROVE RuleTimes(made[i].alerts, FailedLogon) \in SUBSET Int
  <2>1. PICK b, n : TriesAndComposite(made[i], p, b, n) BY DEF WellWritten
  <2>2. b \in Int /\ n \in Nat /\ RuleTimes(made[i].alerts, FailedLogon) = TriesOf(b, p, n)
    BY <2>1 DEF TriesAndComposite
  <2>3. \A u \in TriesOf(b, p, n) : u \in Int BY <2>2, TriesEnd
  <2>4. QED BY <2>2, <2>3
<1>3. QED BY <1>1, <1>2

\* A try that is less than the gap away from another is of the same episode.
LEMMA NearIsOwn ==
  ASSUME NEW p, Paced(p), NEW made, WellWritten(made, p), NEW i \in DOMAIN made,
         NEW t \in RuleTimes(made[i].alerts, FailedLogon), NEW u \in TriesIn(made),
         u - t < MinS1Gap, t - u < MinS1Gap
  PROVE  u \in RuleTimes(made[i].alerts, FailedLogon)
<1>1. PICK j \in DOMAIN made : u \in RuleTimes(made[j].alerts, FailedLogon) BY TriesInAre
<1>2. i \in Int /\ j \in Int /\ t \in Int /\ u \in Int BY <1>1, TriesInAre DEF WellWritten
<1>3. i < j => u - t >= MinS1Gap BY <1>1 DEF WellWritten, FarApart
<1>4. j < i => t - u >= MinS1Gap BY <1>1 DEF WellWritten, FarApart
<1>5. ~(i < j) /\ ~(j < i) BY <1>2, <1>3, <1>4 DEF MinS1Gap
<1>6. i = j BY <1>2, <1>5
<1>7. QED BY <1>1, <1>6

\* Six tries within the window of one are all of its own episode, an attack.
LEMMA SixMeanAttack ==
  ASSUME NEW p, Paced(p), NEW made, WellWritten(made, p), NEW t \in TriesIn(made),
         Cardinality(WithinOf(made, t)) >= CompositeThreshold
  PROVE  \E i \in DOMAIN made : /\ WithinOf(made, t) \subseteq RuleTimes(made[i].alerts, FailedLogon)
                                /\ made[i].label = "attack"
<1> DEFINE W == WithinOf(made, t)
<1>1. PICK i \in DOMAIN made : t \in RuleTimes(made[i].alerts, FailedLogon) BY TriesInAre
<1>2. t \in Int BY <1>1, TriesInAre
<1>3. ASSUME NEW u \in W PROVE u \in RuleTimes(made[i].alerts, FailedLogon)
  BY TriesInAre, <1>2, <1>1, NearIsOwn DEF WithinOf, Recent, MinS1Gap, CompositeWindow
<1>4. PICK b, n : TriesAndComposite(made[i], p, b, n) BY DEF WellWritten
<1>5. /\ b \in Int /\ n \in Nat /\ RuleTimes(made[i].alerts, FailedLogon) = TriesOf(b, p, n)
      /\ (n >= CompositeThreshold => made[i].label = "attack")
  BY <1>4 DEF TriesAndComposite
<1>6. IsFiniteSet(TriesOf(b, p, n)) /\ Cardinality(TriesOf(b, p, n)) = n BY <1>5, TriesCount
<1>7. W \in SUBSET TriesOf(b, p, n) BY <1>3, <1>5
<1>8. Cardinality(W) <= n /\ Cardinality(W) \in Nat BY <1>6, <1>7, FS_Subset, FS_CardinalityType
<1>9. n >= CompositeThreshold BY <1>5, <1>8 DEF CompositeThreshold
<1>10. QED BY <1>3, <1>5, <1>9

\* When the composite fires its window holds the first six tries of the run.
LEMMA SixAtComposite ==
  ASSUME NEW p, Paced(p), NEW made, WellWritten(made, p), NEW i \in DOMAIN made,
         NEW t \in RuleTimes(made[i].alerts, Composite)
  PROVE  Cardinality(WithinOf(made, t)) = CompositeThreshold
<1>1. PICK b, n : TriesAndComposite(made[i], p, b, n) BY DEF WellWritten
<1>2. /\ b \in Int /\ n \in Nat /\ RuleTimes(made[i].alerts, FailedLogon) = TriesOf(b, p, n)
      /\ t \in CrossedAt(b, p, n)
  BY <1>1 DEF TriesAndComposite
<1> DEFINE Try(k) == TryAt(b, p, k)  trigger == p.trigger
<1>3. n >= 6 /\ t = Try(6) + trigger BY <1>2 DEF CrossedAt, CompositeThreshold
<1>4. trigger \in Int /\ trigger >= 1 /\ trigger <= 4 /\ Try(6) \in Int /\ t \in Int
  <2>1. p.trigger \in 1 .. 4 /\ Try(6) \in Int BY <1>2, PaceIs
  <2>2. trigger \in Int /\ trigger >= 1 /\ trigger <= 4 BY <2>1
  <2> HIDE DEF trigger, Try
  <2>3. QED BY <1>3, <2>1, <2>2
<1>5. ASSUME NEW k \in Int PROVE Try(k) \in Int BY <1>2, PaceIs
<1>6. ASSUME NEW k \in Int, k > 6 PROVE Try(k) > t
  <2> DEFINE z == p.each
  <2>1. Try(6) + z <= Try(k) /\ z \in Int /\ z >= 20
    <3>1. TryAt(b, p, 6) + p.each <= TryAt(b, p, k) /\ p.each \in 20 .. 36
      BY <1>2, <1>6, TriesRise
    <3>2. QED BY <3>1
  <2> HIDE DEF z, Try, trigger
  <2>2. QED BY <1>3, <1>4, <1>5, <2>1
<1>7. ASSUME NEW k \in 1 .. 6 PROVE Try(k) > t - CompositeWindow /\ Try(k) <= t
  <2> DEFINE z == p.each  x == b + p.setup  y == Try(k)  v == Try(6)
  <2>1. z \in 20 .. 36 /\ x \in Int BY <1>2, PaceIs
  <2>2. y = x + (k - 1) * z /\ v = x + (6 - 1) * z BY DEF TryAt
  <2> HIDE DEF z, x, y, v, trigger
  <2>3. k = 1 \/ k = 2 \/ k = 3 \/ k = 4 \/ k = 5 \/ k = 6 OBVIOUS
  <2>4. y <= v /\ y >= v - 180 BY <2>1, <2>2, <2>3
  <2>5. y \in Int /\ v \in Int BY <2>1, <2>2, <2>3
  <2>6. t = v + trigger BY <1>3 DEF v
  <2>7. y > t - 1200 /\ y <= t BY <1>4, <2>4, <2>5, <2>6
  <2>8. QED BY <2>7 DEF y, CompositeWindow
<1> DEFINE W == WithinOf(made, t)
<1>8. ASSUME NEW u \in W PROVE u \in TriesOf(b, p, 6)
  <2>1. u \in TriesIn(made) /\ u > t - CompositeWindow /\ u <= t BY DEF WithinOf, Recent
  <2>2. u \in Int BY <2>1, TriesInAre
  <2>3. Try(6) \in RuleTimes(made[i].alerts, FailedLogon) BY <1>2, <1>3 DEF TriesOf
  <2>4. u - Try(6) < MinS1Gap /\ Try(6) - u < MinS1Gap
    <3> DEFINE v == Try(6)
    <3>1. v \in Int /\ t = v + trigger BY <1>3, <1>4
    <3> HIDE DEF v, trigger
    <3>2. u - v < MinS1Gap /\ v - u < MinS1Gap
      BY <1>4, <2>1, <2>2, <3>1 DEF MinS1Gap, CompositeWindow
    <3>3. QED BY <3>2 DEF v
  <2>5. u \in RuleTimes(made[i].alerts, FailedLogon) BY <2>1, <2>3, <2>4, NearIsOwn
  <2>6. PICK k \in 1 .. n : u = Try(k) BY <1>2, <2>5 DEF TriesOf
  <2>7. k \in Int /\ ~(k > 6) BY <1>2, <1>6, <2>6, <1>4, <2>1, <2>2
  <2>8. k \in 1 .. 6 BY <2>7
  <2>9. QED BY <2>6, <2>8 DEF TriesOf
<1>9. ASSUME NEW u \in TriesOf(b, p, 6) PROVE u \in W
  <2>1. PICK k \in 1 .. 6 : u = Try(k) BY DEF TriesOf
  <2>2. k \in 1 .. n BY <1>2, <1>3
  <2>3. u \in RuleTimes(made[i].alerts, FailedLogon) BY <1>2, <2>1, <2>2 DEF TriesOf
  <2>4. u \in TriesIn(made) BY <2>3, TriesInAre
  <2>5. u > t - CompositeWindow /\ u <= t BY <1>7, <2>1
  <2>6. QED BY <2>4, <2>5 DEF WithinOf, Recent
<1>10. W = TriesOf(b, p, 6) BY <1>8, <1>9
<1>11. QED BY <1>2, TriesCount, <1>10 DEF CompositeThreshold

\* The composite fires once, if there are enough tries.
LEMMA OneComposite ==
  ASSUME NEW p, Paced(p), NEW made, WellWritten(made, p), NEW i \in DOMAIN made
  PROVE  Cardinality(RuleTimes(made[i].alerts, Composite)) =
           IF Cardinality(RuleTimes(made[i].alerts, FailedLogon)) >= CompositeThreshold THEN 1 ELSE 0
<1>1. PICK b, n : TriesAndComposite(made[i], p, b, n) BY DEF WellWritten
<1>2. /\ b \in Int /\ n \in Nat /\ RuleTimes(made[i].alerts, FailedLogon) = TriesOf(b, p, n)
      /\ RuleTimes(made[i].alerts, Composite) = CrossedAt(b, p, n)
  BY <1>1 DEF TriesAndComposite
<1>3. Cardinality(TriesOf(b, p, n)) = n BY <1>2, TriesCount
<1>4. Cardinality({}) = 0 /\ \A x : Cardinality({x}) = 1 BY FS_EmptySet, FS_Singleton
<1>5. Cardinality(CrossedAt(b, p, n)) = IF n >= CompositeThreshold THEN 1 ELSE 0
  BY <1>4 DEF CrossedAt
<1>6. QED BY <1>2, <1>3, <1>5

\* Episodes that are well written are as the rules raise them.
LEMMA WrittenAsRaised ==
  ASSUME NEW p, Paced(p), NEW made, WellWritten(made, p)
  PROVE  AsRaised(made)
<1> DEFINE At(i, rule) == RuleTimes(made[i].alerts, rule)
<1>1. \A t \in TriesIn(made) : Cardinality(WithinOf(made, t)) >= CompositeThreshold =>
        \E i \in DOMAIN made : WithinOf(made, t) \subseteq At(i, FailedLogon) /\ made[i].label = "attack"
  BY SixMeanAttack
<1>2. \A i \in DOMAIN made :
        Cardinality(At(i, Composite)) =
          IF Cardinality(At(i, FailedLogon)) >= CompositeThreshold THEN 1 ELSE 0
  BY OneComposite
<1>3. \A i \in DOMAIN made : \A t \in At(i, Composite) : Cardinality(WithinOf(made, t)) = CompositeThreshold
  BY SixAtComposite
<1>4. \A i \in DOMAIN made : \A j \in DOMAIN made : i < j =>
        /\ \A t \in At(i, FailedLogon), u \in At(j, FailedLogon) : u - t >= MinS1Gap
        /\ \A rule \in {5501, 5502} : At(i, rule) \cap At(j, rule) = {}
  BY DEF WellWritten, FarApart
<1>5. QED BY ONLY <1>1, <1>2, <1>3, <1>4 DEF AsRaised, WithinOf

\* An episode of the stream as it is written.
LEMMA OneWritten ==
  ASSUME NEW p, NEW e, Plausible(e, p), NEW background, OnlyLogins(background), NEW m,
         m = AsDict([e EXCEPT !.alerts = @ \o Pick(background, FallsIn(e, background))])
  PROVE  m.label = e.label /\ Written(m.alerts, e)
<1> DEFINE s == e.alerts \o Pick(background, FallsIn(e, background))
           w == Sorted(s, Sooner)
           f == [e EXCEPT !.alerts = s]
           g == [f EXCEPT !.alerts = w]
<1>1. e \in [kind : Kinds, label : {"attack", "benign"}, startedAt : Int, endedAt : Int, alerts : Seq(Raises)]
  BY DEF Plausible, Produced
<1>2. Written(w, e) BY WrittenIs, SMTT(30)
<1> HIDE DEF s
<1>3. f.alerts = s /\ f.label = e.label BY <1>1
<1>4. f \in [kind : Kinds, label : {"attack", "benign"}, startedAt : Int, endedAt : Int, alerts : {s}]
  BY <1>1
<1> HIDE DEF f, w
<1>5. g.alerts = w /\ g.label = e.label BY <1>3, <1>4
<1>6. m = g BY <1>3 DEF AsDict, f, w, s
<1>7. QED BY <1>2, <1>5, <1>6

\* Its tries and composites are its own.
LEMMA TriesWritten ==
  ASSUME NEW p, NEW e, NEW m, m.label = e.label, Written(m.alerts, e), NEW b \in Int, NEW n \in Nat,
         Tried(e.alerts, b, p, n), n >= CompositeThreshold => e.label = "attack"
  PROVE  TriesAndComposite(m, p, b, n)
<1>1. /\ RuleTimes(e.alerts, FailedLogon) = TriesOf(b, p, n)
      /\ RuleTimes(e.alerts, Composite) = CrossedAt(b, p, n)
  BY DEF Tried
<1>2. /\ RuleTimes(m.alerts, FailedLogon) = RuleTimes(e.alerts, FailedLogon)
      /\ RuleTimes(m.alerts, Composite) = RuleTimes(e.alerts, Composite)
  BY DEF Written
<1>3. QED BY <1>1, <1>2 DEF TriesAndComposite

\* Episodes that do not touch stay apart with the logins around them.
LEMMA FarWritten ==
  ASSUME NEW p, NEW e, NEW f, Plausible(e, p), Plausible(f, p), Apart2(e, f),
         NEW m, NEW o, Written(m.alerts, e), Written(o.alerts, f)
  PROVE  FarApart(m, o)
<1>1. /\ RuleTimes(m.alerts, FailedLogon) = RuleTimes(e.alerts, FailedLogon)
      /\ RuleTimes(o.alerts, FailedLogon) = RuleTimes(f.alerts, FailedLogon)
  BY SMTT(30) DEF Written
<1>2. \A t \in RuleTimes(m.alerts, FailedLogon), u \in RuleTimes(o.alerts, FailedLogon) : u - t >= MinS1Gap
  BY <1>1 DEF Apart2
<1> DEFINE x == e.endedAt  y == f.startedAt
<1>3. x \in Int /\ y \in Int /\ x + 1500 <= y BY DEF Plausible, Produced, Apart2
<1>4. ASSUME NEW rule \in {5501, 5502}, NEW t \in RuleTimes(m.alerts, rule)
      PROVE  t \in Int /\ t <= x + 600
  BY DEF Written
<1>5. ASSUME NEW rule \in {5501, 5502}, NEW t \in RuleTimes(o.alerts, rule)
      PROVE  t \in Int /\ y - 100 <= t
  BY DEF Written
<1> HIDE DEF x, y
<1>6. ASSUME NEW rule \in {5501, 5502}, NEW t \in RuleTimes(m.alerts, rule)
      PROVE  t \notin RuleTimes(o.alerts, rule)
  BY <1>4, <1>3, <1>5
<1>7. QED BY <1>2, <1>6 DEF FarApart

\* The episodes of a stream are well written.
LEMMA StreamWritten ==
  ASSUME NEW p, Paced(p), NEW draws, draws \in Seq(Range(draws)), \A d \in Range(draws) : Drawn(d),
         NEW background, OnlyLogins(background), NEW total, NEW first \in Int, NEW eps, NEW made,
         eps = Build(total, first, draws, p, background), made = [i \in DOMAIN eps |-> AsDict(eps[i])]
  PROVE  WellWritten(made, p)
<1> DEFINE M == Episodes(total, first, draws, p)  n == Len(M)
<1>1. /\ M \in Seq(Produced) /\ \A i \in 1 .. n : Plausible(M[i], p)
      /\ \A i, j \in 1 .. n : i < j => Apart2(M[i], M[j])
  BY EpisodesAre
<1>2. n \in Nat /\ DOMAIN M = 1 .. n BY <1>1
<1>3. eps = [i \in DOMAIN M |->
               [M[i] EXCEPT !.alerts = @ \o Pick(background, FallsIn(M[i], background))]]
  BY DEF Build, Windowed, FallsIn
<1> HIDE DEF M, n
<1>4. DOMAIN made = 1 .. n BY <1>2, <1>3
<1>5. ASSUME NEW i \in 1 .. n PROVE made[i].label = M[i].label /\ Written(made[i].alerts, M[i])
  <2> DEFINE e == M[i]  m == made[i]
  <2>1. m = AsDict([e EXCEPT !.alerts = @ \o Pick(background, FallsIn(e, background))])
    BY <1>2, <1>3
  <2>2. Plausible(e, p) BY <1>1
  <2> HIDE DEF e, m
  <2>3. m.label = e.label /\ Written(m.alerts, e) BY <2>1, <2>2, OneWritten
  <2>4. QED BY <2>3 DEF e, m
<1>6. ASSUME NEW i \in 1 .. n PROVE \E b, k : TriesAndComposite(made[i], p, b, k)
  <2>1. PICK b \in Int, k \in Nat : Tried(M[i].alerts, b, p, k) /\ (k >= CompositeThreshold => M[i].label = "attack")
    BY <1>1 DEF Plausible
  <2>2. made[i].label = M[i].label /\ Written(made[i].alerts, M[i]) BY <1>5
  <2>3. TriesAndComposite(made[i], p, b, k) BY <2>1, <2>2, TriesWritten
  <2>4. QED BY <2>3
<1>7. ASSUME NEW i \in 1 .. n, NEW j \in 1 .. n, i < j PROVE FarApart(made[i], made[j])
  BY <1>1, <1>7, <1>5, FarWritten
<1>8. DOMAIN made \subseteq Int BY <1>2, <1>4
<1>9. QED BY <1>4, <1>6, <1>7, <1>8 DEF WellWritten

\* What StreamAsRaised says of a case.
AllRaised(c) ==
  LET eps == Build(12000, 300, c.draws, c.pace, Background(15000, c.every, 20))
  IN  \A made \in {[i \in DOMAIN eps |-> AsDict(eps[i])]} : AsRaised(made)

\* Every case is raised so.
LEMMA StreamRaises == ASSUME NEW c \in Streams PROVE AllRaised(c)
<1> DEFINE draws == c.draws  p == c.pace  every == c.every
           background == Background(15000, every, 20)
           eps == Build(12000, 300, draws, p, background)
           made == [i \in DOMAIN eps |-> AsDict(eps[i])]
<1>1. /\ draws \in Seq(Range(draws)) /\ \A d \in Range(draws) : Drawn(d)
      /\ Paced(p) /\ every \in Nat \ {0}
  BY StreamsAssumption
<1> HIDE DEF draws, p, every
<1>3. OnlyLogins(background) BY <1>1, BackgroundIs
<1> HIDE DEF background
<1>4. 300 \in Int /\ eps = Build(12000, 300, draws, p, background) /\ made = [i \in DOMAIN eps |-> AsDict(eps[i])]
  OBVIOUS
<1> HIDE DEF eps, made
<1>5. WellWritten(made, p) BY <1>1, <1>3, <1>4, StreamWritten
<1>6. AsRaised(made) BY <1>1, <1>5, WrittenAsRaised
<1>7. QED BY <1>6 DEF AllRaised, draws, p, every, background, eps, made

\* For whatever is drawn of every episode: failed logons are of one episode when six of them
\* are in the composite rule's window, and that episode is an attack, the composite fires once
\* per run that has six of them, with exactly the first six in its window, the tries of two
\* episodes are as far apart as the campaign keeps them, and no login is in two episodes
\* (make-synthetic.py 36-81, 84-137).
THEOREM StreamsAsRaised == Spec => []StreamAsRaised
<1>1. GivenIs => StreamAsRaised
  <2>1. SUFFICES ASSUME GivenIs, given[1] = "stream" PROVE StreamAsRaised BY DEF StreamAsRaised
  <2>2. given[2] \in Streams BY <2>1 DEF GivenIs
  <2>3. AllRaised(given[2]) BY <2>2, StreamRaises
  <2>4. QED BY <2>1, <2>3 DEF AllRaised, StreamAsRaised
<1>2. QED BY <1>1, GivenCase, PTL
=============================================================================
