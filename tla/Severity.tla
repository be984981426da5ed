------------------------------ MODULE Severity ------------------------------
(***************************************************************************)
(* severity and severity_by_agent of score.py: how bad a window looks, for *)
(* the endpoint it looks worst for.                                        *)
(*                                                                         *)
(* Six components between 0 and 1 are weighted; their divisors are fixed,  *)
(* or come from the endpoint's own baseline once it is warm.  A chain of   *)
(* credential access and persistence on one endpoint counts for more, so   *)
(* do rules that are new to it, and its routine counts for less.           *)
(***************************************************************************)
EXTENDS Window

CONSTANTS
  NoModel,          \* no model to score an endpoint's share with
  WarmupWindows,    \* windows a baseline needs, 24
  NoveltySeen,      \* a rule seen no more often is new, 3
  RoutineSeen,      \* a rule seen less often is no routine, 20
  RoutineMinHours   \* windows needed of an hour of the day, 3

ASSUME SeverityAssumption ==
  /\ WarmupWindows \in Nat \ {0}
  /\ NoveltySeen \in Nat /\ RoutineSeen \in Nat /\ NoveltySeen < RoutineSeen
  /\ RoutineMinHours \in Nat \ {0}

Keys == {"model", "peak", "mass", "velocity", "breadth", "coverage"}

Weight == [model |-> 28, peak |-> 18, mass |-> 16, velocity |-> 12, breadth |-> 10, coverage |-> 16]

FixedDenominators ==
  [model |-> 2000, peak |-> 15000, mass |-> 12000, velocity |-> 8000, breadth |-> 5000,
   coverage |-> 3000]

HighestDenominators == [model |-> 4000, mass |-> 36000, velocity |-> 24000, breadth |-> 15000]

\* Which readings of the baseline a divisor is measured from.
Metric == [mass |-> "mass", velocity |-> "burst", breadth |-> "distinct"]

PersistenceRules == {100102, 100103, 100112, 100113}
CredentialRules  == {100100, 100101, 100110, 100111}

\* x of d, in thousandths, never below none or above all of it.
Share(x, d) == IF x <= 0 THEN 0 ELSE IF x >= d THEN 1000 ELSE (1000 * x) \div d

----------------------------------------------------------------------------
(* The divisors.                                                           *)

\* An endpoint without a baseline: an empty one, with no windows.
NoBaseline == [windows |-> 0]

Warm(baseline) == baseline # NoBaseline /\ baseline.windows >= WarmupWindows

\* Slip: a measured divisor may lie below the fixed one.
OnlyCapped(v, key) == IF v > HighestDenominators[key] THEN HighestDenominators[key] ELSE v

Bounded(v, key) ==
  IF v < FixedDenominators[key] THEN FixedDenominators[key] ELSE OnlyCapped(v, key)

\* The centre of the readings and three robust standard deviations; the deviation
\* from a doubled centre has its median doubled twice.
CentreAndSpread(s) ==
  LET centre == Median(s)
      mad    == Median([i \in DOMAIN s |-> IF 2 * s[i] >= centre THEN 2 * s[i] - centre
                                                                ELSE centre - 2 * s[i]])
  IN  centre \div 2 + (11120 * mad) \div 10000

Saturation(s, key) == Bounded(CentreAndSpread(s), key)

Denominators(baseline, threshold) ==
  [key \in Keys |->
     IF ~Warm(baseline) THEN FixedDenominators[key]
     ELSE IF key \in DOMAIN Metric /\ baseline.samples[Metric[key]] # <<>>
          THEN Saturation(baseline.samples[Metric[key]], key)
     ELSE IF key = "model" /\ baseline.samples["prob"] # <<>> /\ threshold > 0
          THEN Bounded((1000 * CentreAndSpread(baseline.samples["prob"])) \div threshold, key)
     ELSE FixedDenominators[key]]

----------------------------------------------------------------------------
(* New rules and routine.                                                  *)

Occurrences(w, r) == Cardinality({i \in DOMAIN w : w[i].rule = r})

TimesSeen(baseline, r) ==
  IF r \in DOMAIN baseline.rules THEN Sum([h \in 1 .. 24 |-> baseline.rules[r][h - 1]]) ELSE 0

NewRules(w, baseline) == {r \in Rules(w) : TimesSeen(baseline, r) <= NoveltySeen}

\* Seen often, at an hour that was watched often, and no more than twice its usual
\* rate there, and one.
RoutineRules(w, baseline, hour) ==
  {r \in Rules(w) \ NewRules(w, baseline) :
     /\ hour \in DOMAIN baseline.hours
     /\ TimesSeen(baseline, r) >= RoutineSeen
     /\ baseline.hours[hour] >= RoutineMinHours
     /\ (Occurrences(w, r) - 1) * baseline.hours[hour] <= 2 * baseline.rules[r][hour]}

InRules(w, R) == Cardinality({i \in DOMAIN w : w[i].rule \in R})

\* The shares of new and of routine alerts.
RuleProfile(w, baseline, hour) ==
  IF w = <<>> \/ baseline = NoBaseline THEN [novel |-> 0, routine |-> 0]
  ELSE [novel   |-> Share(InRules(w, NewRules(w, baseline)), Len(w)),
        routine |-> Share(InRules(w, RoutineRules(w, baseline, hour)), Len(w))]

----------------------------------------------------------------------------
(* The severity.                                                           *)

\* Each alert above level 7 counts, doubling with every two levels.
MassOfLevel == [l \in 7 .. 15 |->
  <<1000, 1414, 2000, 2828, 4000, 5657, 8000, 11314, 16000>>[l - 6]]
Mass(w) == Sum([i \in DOMAIN w |-> IF w[i].level >= 7 THEN MassOfLevel[w[i].level] ELSE 0])

\* The level as a share of the scale, to the power 1.2.
PeakShare == [l \in 0 .. 15 |->
  <<0, 39, 89, 145, 205, 268, 333, 401, 470, 542, 615, 689, 765, 842, 921, 1000>>[l + 1]]

Tactics(w)    == UNION {w[i].tactics : i \in DOMAIN w}
Persistent(w) == "persistence" \in Tactics(w) \/ Rules(w) \cap PersistenceRules # {}
Credential(w) == "credential access" \in Tactics(w) \/ Rules(w) \cap CredentialRules # {}
Chained(w)    == Persistent(w) /\ Credential(w)
Stages(w)     == Tactics(w) \cup (IF Credential(w) THEN {"credential access"} ELSE {})
                            \cup (IF Persistent(w) THEN {"persistence"} ELSE {})

Norm(w, p, threshold, den) ==
  [model    |-> IF threshold > 0
                THEN Share(p, Min({(den.model * threshold) \div 1000, 1000})) ELSE 0,
   peak     |-> PeakShare[Highest(Levels(w))],
   mass     |-> Share(Mass(w), den.mass),
   velocity |-> Share(1000 * Busiest(SortedTimes(w)), Max({den.velocity, 500 * Len(w)})),
   breadth  |-> Share(1000 * (Cardinality(Rules(w)) - 1), den.breadth),
   coverage |-> Share(1000 * Cardinality(Stages(w)), den.coverage)]

\* The parts of a severity: each component's share, and the three factors.
Parts(norm, chained, profile) ==
  [norm    |-> norm,
   chain   |-> IF chained THEN 1150 + (150 * norm.coverage) \div 1000 ELSE 1000,
   novelty |-> 1000 + (250 * profile.novel) \div 1000,
   routine |-> IF chained THEN 1000 ELSE 1000 - (350 * profile.routine) \div 1000]

\* In thousandths of a point, at most a hundred points.
Total(parts) ==
  LET Of(key) == Weight[key] * parts.norm[key]
      base    == Of("model") + Of("peak") + Of("mass") + Of("velocity") + Of("breadth") + Of("coverage")
  IN  Min({100000, (((((base * parts.chain) \div 1000) * parts.novelty) \div 1000) * parts.routine) \div 1000})

Bands == <<[from |-> 85, name |-> "critical"], [from |-> 70, name |-> "high"],
           [from |-> 50, name |-> "elevated"], [from |-> 25, name |-> "low"],
           [from |-> 0, name |-> "informational"]>>
Band(total) == Bands[Min({i \in DOMAIN Bands : total >= 1000 * Bands[i].from})].name

\* Slip: the rule history is read before the baseline is warm.
AsItIs(baseline) == baseline

Gated(baseline) == IF Warm(baseline) THEN baseline ELSE NoBaseline

\* The score is the total rounded to tenths of a point; the band goes by the total itself.
Rated(parts, total, chained) ==
  [score |-> (total + 50) \div 100, band |-> Band(total), chained |-> chained, parts |-> parts]

Rating(parts, chained) == Rated(parts, Total(parts), chained)

Severity(w, p, threshold, baseline, hour) ==
  Rating(Parts(Norm(w, p, threshold, Denominators(baseline, threshold)), Chained(w),
               RuleProfile(w, Gated(baseline), hour)),
         Chained(w))

----------------------------------------------------------------------------
(* The worst endpoint of a window.                                         *)

\* The alerts of one endpoint.
OfAgent(w, a) ==
  LET upTo[n \in 0 .. Len(w)] ==
        IF n = 0 THEN <<>>
        ELSE IF w[n].agent = a THEN Append(upTo[n - 1], w[n]) ELSE upTo[n - 1]
  IN  upTo[Len(w)]

\* Slip: a window is taken for one machine.
OneMachine(w) == {w}

ByAgent(w) == IF w = <<>> THEN {w} ELSE {OfAgent(w, w[i].agent) : i \in DOMAIN w}

AgentOf(share) == IF share = <<>> THEN 0 ELSE share[1].agent

\* The worst, and of equals the first by name.
Worst(scored) ==
  CHOOSE s \in scored :
    \A t \in scored : \/ t.rated.score < s.rated.score
                      \/ t.rated.score = s.rated.score /\ s.agent <= t.agent

\* Each endpoint's alerts are scored by themselves, with the probability of their own
\* where there is a model, against the endpoint's own baseline.
SeverityByAgent(w, p, threshold, baselines, hour, model) ==
  LET Own(share) == IF model = NoModel \/ share = <<>> THEN p ELSE Score(model, Features(share))
  IN  Worst({[agent |-> AgentOf(share),
              rated |-> Severity(share, Own(share), threshold, baselines[AgentOf(share)], hour)] :
               share \in ByAgent(w)})
=============================================================================
