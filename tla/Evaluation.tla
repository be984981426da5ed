----------------------------- MODULE Evaluation -----------------------------
(***************************************************************************)
(* How a ranking is judged: average_precision and pick_threshold of        *)
(* features.py, the single rule they are also applied to in baseline.py,   *)
(* and the walk of evaluate_adaptive.py over one network, which scores     *)
(* every window with and without the baseline the windows before it left.  *)
(*                                                                         *)
(* y says of each episode whether it is an attack, s how it scores.        *)
(* Average precision is counted in a unit that makes precisions integers,  *)
(* before the division by the number of hits.                              *)
(***************************************************************************)
EXTENDS Severity, Dataset

CONSTANTS
  SampleLimit,   \* SAMPLE_LIMIT, 288
  RuleLimit      \* RULE_LIMIT, 400

ASSUME LimitsAssumption == SampleLimit \in Nat \ {0} /\ RuleLimit \in Nat \ {0}

----------------------------------------------------------------------------
(* Rankings.                                                               *)

\* The rows from the highest score to the lowest, of equal ones the earlier row first.
Ranking(s) ==
  InLine(DOMAIN s,
         [i \in DOMAIN s |-> {j \in DOMAIN s : s[j] > s[i] \/ (s[j] = s[i] /\ j < i)}])

\* Slip: the curve is cut at every row.
EveryRow(ranked) == DOMAIN ranked

\* The curve is cut where the score changes, and at its end.
Cuts(ranked) == {i \in DOMAIN ranked : i = Len(ranked) \/ ranked[i + 1] # ranked[i]}

\* A multiple of every number of rows up to n.
Unit(n) ==
  LET upTo[k \in 0 .. n] == IF k = 0 THEN 1 ELSE k * upTo[k - 1]
  IN  upTo[n]

AveragePrecision(y, s) ==
  LET order     == Ranking(s)
      cuts      == Cuts([i \in DOMAIN s |-> s[order[i]]])
      Found(i)  == Cardinality({k \in 1 .. i : y[order[k]]})
      Before(i) == Found(Highest({c \in cuts : c < i}))
      Precision(i) == Found(i) * (Unit(Len(s)) \div i)
  IN  Sum([i \in DOMAIN s |-> IF i \in cuts THEN (Found(i) - Before(i)) * Precision(i) ELSE 0])

Scores(y, hits) ==
  [tp |-> Cardinality({i \in DOMAIN y : y[i] /\ hits[i]}),
   fp |-> Cardinality({i \in DOMAIN y : ~y[i] /\ hits[i]}),
   fn |-> Cardinality({i \in DOMAIN y : y[i] /\ ~hits[i]})]

\* f1 as a fraction, and one f1 above another.
F1(c)       == [num |-> 2 * c.tp, den |-> IF c.tp = 0 THEN 1 ELSE 2 * c.tp + c.fp + c.fn]
Above(f, g) == f.num * g.den > g.num * f.den

\* The first in a line whose f1 is the best of all, with nothing in it the one given.
FirstBest(line, f1, none) ==
  LET upTo[k \in 0 .. Len(line)] ==
        IF k = 0 THEN [of |-> none, f1 |-> [num |-> -1, den |-> 1]]
        ELSE IF Above(f1[line[k]], upTo[k - 1].f1) THEN [of |-> line[k], f1 |-> f1[line[k]]]
        ELSE upTo[k - 1]
  IN  upTo[Len(line)]

\* The cutoff with the best f1, the lowest of equals; 500 with nothing to rank.
AtCutoff(y, s, t) == F1(Scores(y, [i \in DOMAIN s |-> s[i] >= t]))
PickThreshold(y, s) == FirstBest(Rising(Range(s)), [t \in Range(s) |-> AtCutoff(y, s, t)], 500)

\* Slip: the walk down the ranking stops at its first row.
FirstClean(found) == IF found[1] = 1 THEN 1 ELSE 0

\* The last row down to which there are only hits, or none.
LastClean(found) == Highest({i \in DOMAIN found : found[i] = i})

\* build-report.py's two points of the curve, row by row down the ranking: the last one
\* without a false alarm, the first row if there is none, and the first one with half of
\* the attacks.
OperatingPoints(y, s) ==
  LET order == Ranking(s)
      found == [i \in DOMAIN y |-> Cardinality({k \in 1 .. i : y[order[k]]})]
      half  == {i \in DOMAIN y : 2 * found[i] >= Max({1, Last(found)})}
      Point(i) == [tp |-> found[i], fp |-> i - found[i]]
  IN  [perfect |-> Point(Max({1, LastClean(found)})),
       half    |-> Point(IF half = {} THEN Len(y) ELSE Min(half))]

\* What alerting on one rule would say, and the rule that says it best.
RuleOnly(eps, r) == [i \in DOMAIN eps |-> \E a \in Range(eps[i].alerts) : a.rule = r]
BestSingleRule(eps, y, vocab) ==
  FirstBest(vocab, [r \in Range(vocab) |-> F1(Scores(y, RuleOnly(eps, r)))], 0)

----------------------------------------------------------------------------
(* The walk over one network.                                              *)

HourOf(startedAt) == (startedAt \div 3600) % 24

\* blank and fold of lab-dashboard-baseline, as far as a severity reads the baseline.  A
\* rule's stamp is when it was last seen, and which place it has among the others: when it
\* was first seen, and where in that window.
Blank ==
  [windows |-> 0, last |-> 0, hours |-> [h \in 0 .. 23 |-> 0], rules |-> <<>>, stamps |-> <<>>,
   samples |-> [k \in {"mass", "burst", "distinct", "prob"} |-> <<>>]]

\* The readings of one window and what fired in it.
Observation(e, p) ==
  [epoch |-> e.startedAt, hour |-> HourOf(e.startedAt),
   mass |-> Mass(e.alerts), burst |-> 1000 * Busiest(SortedTimes(e.alerts)),
   distinct |-> 1000 * Cardinality(Rules(e.alerts)), prob |-> p,
   rules |-> [r \in Rules(e.alerts) |-> Occurrences(e.alerts, r)],
   place |-> [r \in Rules(e.alerts) |-> Min({i \in DOMAIN e.alerts : e.alerts[i].rule = r})]]

\* The series keeps its latest readings; one more makes it at most one too long.
Trimmed(series) == IF Len(series) > SampleLimit THEN Tail(series) ELSE series

\* The rules beyond the limit, the least recently seen ones.
Older(s, t) == \E k \in 1 .. 3 : s[k] < t[k] /\ \A j \in 1 .. k - 1 : s[j] = t[j]
Forgotten(stamps) ==
  LET all    == DOMAIN stamps
      oldest == InLine(all, [r \in all |-> {q \in all : Older(stamps[q], stamps[r])}])
  IN  {oldest[k] : k \in 1 .. Cardinality(all) - RuleLimit}

\* A window no later than the last one folded changes nothing.
FoldIn(b, o) ==
  LET all    == DOMAIN o.rules \cup DOMAIN b.rules
      Of0(r) == IF r \in DOMAIN b.rules THEN b.rules[r] ELSE [h \in 0 .. 23 |-> 0]
      Raised(r) == IF r \in DOMAIN o.rules
                   THEN [Of0(r) EXCEPT ![o.hour] = @ + o.rules[r]] ELSE b.rules[r]
      stamps == [r \in all |->
                   IF r \notin DOMAIN o.rules THEN b.stamps[r]
                   ELSE IF r \in DOMAIN b.rules THEN [b.stamps[r] EXCEPT ![1] = o.epoch]
                   ELSE <<o.epoch, o.epoch, o.place[r]>>]
      kept   == all \ Forgotten(stamps)
  IN  IF o.epoch <= b.last THEN b
      ELSE [windows |-> b.windows + 1, last |-> o.epoch,
            hours   |-> [b.hours EXCEPT ![o.hour] = @ + 1],
            rules   |-> [r \in kept |-> Raised(r)],
            stamps  |-> [r \in kept |-> stamps[r]],
            samples |-> [k \in DOMAIN b.samples |-> Trimmed(Append(b.samples[k], o[k]))]]

\* A window with its two severities and the baseline it is scored against.
Row(e, p, threshold, seen) ==
  [fixed    |-> Severity(e.alerts, p, threshold, NoBaseline, -1),
   adaptive |-> Severity(e.alerts, p, threshold, seen, HourOf(e.startedAt)),
   baseline |-> seen]

\* Each window is scored against a baseline that does not hold it, and folded.
ScoresThenFolds(walked, e, p, threshold) ==
  [baseline |-> FoldIn(walked.baseline, Observation(e, p)),
   rows     |-> Append(walked.rows, Row(e, p, threshold, walked.baseline))]

Walk(eps, probs, threshold) ==
  LET upTo[n \in 0 .. Len(eps)] ==
        IF n = 0 THEN [baseline |-> Blank, rows |-> <<>>]
        ELSE ScoresThenFolds(upTo[n - 1], eps[n], probs[n], threshold)
  IN  upTo[Len(eps)]

After(s, warm) == SubSeq(s, warm + 1, Len(s))

\* What is reported of rows whose labels are y and whose probabilities are p, and of the
\* baseline at the end.
Reported(rows, baseline, y, p) ==
  LET fixed    == [i \in DOMAIN rows |-> rows[i].fixed.score]
      adaptive == [i \in DOMAIN rows |-> rows[i].adaptive.score]
  IN  [n |-> Len(rows), windows |-> baseline.windows,
       rulesSeen   |-> Cardinality(DOMAIN baseline.rules),
       warmed      |-> Cardinality({i \in DOMAIN rows : Warm(rows[i].baseline)}),
       moved       |-> Cardinality({i \in DOMAIN rows : adaptive[i] # fixed[i]}),
       model_ap    |-> AveragePrecision(y, p),
       fixed_ap    |-> AveragePrecision(y, fixed),
       adaptive_ap |-> AveragePrecision(y, adaptive)]

\* The first warm windows are walked and not reported.
FoldRow(walked, labels, probs, warm) ==
  Reported(After(walked.rows, warm), walked.baseline, After(labels, warm), After(probs, warm))
=============================================================================
