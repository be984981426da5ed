------------------------------- MODULE Window -------------------------------
(***************************************************************************)
(* What the scorer reads from a window of alerts: features and score of    *)
(* score.py, which run on the manager, and shape_only of features.py,      *)
(* which the model was fitted with.  A window is a sequence of alerts, an  *)
(* alert a record of at (seconds since the window's start), rule, level,   *)
(* tactics and agent.                                                      *)
(*                                                                         *)
(* Numbers that are no integers are kept in a unit that makes them ones:   *)
(* medians are doubled, means are in sixtieths, and probabilities, shares, *)
(* mass and denominators in thousandths.                                   *)
(***************************************************************************)
EXTENDS Integers, SequencesExt

\* What a window holds, a number standing for each rule and each endpoint.
Alerts == [at: Int, rule: Int, level: 0 .. 15, tactics: SUBSET STRING, agent: Nat]
IsWindow(w) == w \in Seq(Alerts) /\ \A i \in DOMAIN w : IsFiniteSet(w[i].tactics)

\* x in its place among the ascending a, and the numbers of s in order.
Placed(a, x) ==
  LET at == Cardinality({i \in DOMAIN a : a[i] <= x}) + 1
  IN  [i \in 1 .. Len(a) + 1 |-> IF i < at THEN a[i] ELSE IF i = at THEN x ELSE a[i - 1]]
Ascending(s) ==
  LET upTo[n \in 0 .. Len(s)] == IF n = 0 THEN <<>> ELSE Placed(upTo[n - 1], s[n])
  IN  upTo[Len(s)]

SortedTimes(w) == Ascending([i \in DOMAIN w |-> w[i].at])
Levels(w)      == {w[i].level : i \in DOMAIN w}
Rules(w)       == {w[i].rule : i \in DOMAIN w}
Sum(s) ==
  LET upTo[n \in 0 .. Len(s)] == IF n = 0 THEN 0 ELSE upTo[n - 1] + s[n]
  IN  upTo[Len(s)]
AtLeast(w, l)  == Cardinality({i \in DOMAIN w : w[i].level >= l})
Highest(S)     == IF S = {} THEN 0 ELSE Max(S)

\* Slip: the upper of the two middle ones is taken of an even number.
UpperMedian(s) == IF s = <<>> THEN 0 ELSE 2 * Ascending(s)[(Len(s) \div 2) + 1]

Median(s) ==
  LET a == Ascending(s)  mid == Len(s) \div 2
  IN  IF s = <<>> THEN 0
      ELSE IF Len(s) % 2 = 1 THEN 2 * a[mid + 1] ELSE a[mid] + a[mid + 1]

\* The busiest minute of sorted times; how it is found is BusiestMinute.
Busiest(times) ==
  Highest({Cardinality({k \in DOMAIN times : times[i] <= times[k] /\ times[k] < times[i] + 60}) :
             i \in DOMAIN times})

Gaps(times) ==
  IF Len(times) > 1 THEN [i \in 1 .. Len(times) - 1 |-> times[i + 1] - times[i]] ELSE <<0>>

\* The eleven numbers, in the order of COLUMNS.
Features(w) ==
  LET times == SortedTimes(w)  gaps == Gaps(times)
  IN  << Len(w),
         IF Len(w) > 1 THEN Last(times) - Head(times) ELSE 0,
         Min(ToSet(gaps)), Median(gaps), Max(ToSet(gaps)),
         Busiest(times),
         Cardinality(Rules(w)),
         Highest(Levels(w)),
         IF w = <<>> THEN 0 ELSE (60 * Sum([i \in DOMAIN w |-> w[i].level])) \div Len(w),
         AtLeast(w, 7), AtLeast(w, 10) >>

----------------------------------------------------------------------------
(* features.py has the same numbers from numpy.                            *)

\* The k-th smallest, and the median as numpy has it.
Smallest(s, k) ==
  CHOOSE v \in ToSet(s) : /\ Cardinality({i \in DOMAIN s : s[i] < v}) < k
                          /\ Cardinality({i \in DOMAIN s : s[i] <= v}) >= k
NumpyMedian(s) == Smallest(s, (Len(s) + 1) \div 2) + Smallest(s, (Len(s) \div 2) + 1)
NumpyDiff(s)   == [i \in 1 .. Len(s) - 1 |-> s[i + 1] - s[i]]

TimingRow(times) ==
  LET gaps == IF Len(times) > 1 THEN NumpyDiff(times) ELSE <<0>>
  IN  << Len(times),
         IF Len(times) > 1 THEN times[Len(times)] - times[1] ELSE 0,
         Smallest(gaps, 1), NumpyMedian(gaps), Smallest(gaps, Len(gaps)),
         Busiest(times) >>

ShapeOnly(w) ==
  LET levels  == [i \in DOMAIN w |-> w[i].level]
      From(l) == Sum([i \in DOMAIN w |-> IF levels[i] >= l THEN 1 ELSE 0])
  IN  TimingRow(SortedTimes(w)) \o
      << Cardinality(Rules(w)),
         IF levels = <<>> THEN 0 ELSE Smallest(levels, Len(levels)),
         IF levels = <<>> THEN 0 ELSE (60 * Sum(levels)) \div Len(levels),
         From(7), From(10) >>

----------------------------------------------------------------------------
(* The probability.                                                        *)

\* The logistic at 0, 1 ... 7, in thousandths, and beyond the clamp it stands still.
LogisticTable == <<500, 731, 881, 953, 982, 993, 998, 999>>
Logistic(z) ==
  LET up(x) == LogisticTable[IF x > 7 THEN 8 ELSE x + 1]
  IN  IF z >= 0 THEN up(z) ELSE 1000 - up(-z)

\* The features, standardised by the mean and spread the model was fitted with.
Score(model, feats) ==
  Logistic(model.bias +
    Sum([i \in DOMAIN model.weights |->
           (model.weights[i] * (feats[i] - model.mean[i]))
             \div (IF model.sd[i] = 0 THEN 1 ELSE model.sd[i])]))
=============================================================================
