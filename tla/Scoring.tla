------------------------------ MODULE Scoring ------------------------------
(***************************************************************************)
(* What the scorer, the baseline it reads and the evaluation behind them,  *)
(* the synthetic stream included, promise.  The busiest minute is a loop   *)
(* and runs step by step; the rest is computed at once from what is given, *)
(* which is one case of one kind.                                          *)
(***************************************************************************)
EXTENDS BusiestMinute, Evaluation, Synthetic

CONSTANTS
  Captures,    \* [alerts, phases, width, most]: a capture and how it is cut
  Bursts,      \* [window, vocab]: the alerts of one window, in any order
  Severities,  \* [window, p, threshold, baseline, hour]: what one severity is computed from
  Mixed,       \* [window, p, threshold, baselines, hour, model]: alerts of several endpoints
  Walks,       \* [eps, labels, probs, threshold]: one network in order of time
  Rankings,    \* [y, s]: labels and scores
  Divided,     \* [eps, share]: episodes of several networks, as the file has them
  Streams      \* [draws, pace, every]: what a synthetic stream is drawn from

\* What the baseline of an endpoint, and a model, are made of.
IsBaseline(b) == b # NoBaseline => b.samples \in [{"mass", "burst", "distinct", "prob"} -> Seq(Int)]
IsModel(m) ==
  m # NoModel =>
    /\ m.bias \in Int /\ m.weights \in [1 .. 11 -> Int]
    /\ m.mean \in [1 .. 11 -> Int] /\ m.sd \in [1 .. 11 -> Nat]

\* The alerts of a capture in order of time, which import-ait.py sorts them in.
ASSUME CapturesAssumption ==
  \A c \in Captures :
    /\ c.alerts \in Seq(Alerts)
    /\ \A i, j \in DOMAIN c.alerts : i < j => c.alerts[i].at <= c.alerts[j].at
    /\ c.width \in Nat \ {0} /\ c.most \in Nat \ {0}
    /\ \A p \in c.phases : p.start \in Int /\ p.end \in Int

ASSUME BurstsAssumption ==
  \A c \in Bursts : IsWindow(c.window) /\ c.vocab \in Seq(Int)

ASSUME SeveritiesAssumption ==
  \A c \in Severities :
    IsWindow(c.window) /\ c.p \in 0 .. 1000 /\ c.threshold \in Nat /\ IsBaseline(c.baseline)

ASSUME MixedAssumption ==
  \A c \in Mixed :
    /\ IsWindow(c.window) /\ c.window # <<>> /\ c.p \in 0 .. 1000 /\ c.threshold \in Nat
    /\ \A i \in DOMAIN c.window : IsBaseline(c.baselines[c.window[i].agent])
    /\ IsModel(c.model)

\* The windows of one network, each later than the one before it.
ASSUME WalksAssumption ==
  \A c \in Walks :
    /\ c.eps \in Seq([startedAt : Nat \ {0}, alerts : Seq(Alerts)])
    /\ \A i, j \in DOMAIN c.eps : i < j => c.eps[i].startedAt < c.eps[j].startedAt

\* A label and a score of every episode, of one at least.
ASSUME RankingsAssumption ==
  \A c \in Rankings : /\ c.y \in Seq(BOOLEAN) /\ c.s \in Seq(Int)
                      /\ Len(c.y) = Len(c.s) /\ c.s # <<>>

\* Episodes of two networks or more (evaluate.py asks for three), and a share in hundredths.
IsEpisode(e) == e.source \in Nat \ {0} /\ e.startedAt \in Int
ASSUME DividedAssumption ==
  \A c \in Divided :
    /\ c.eps \in Seq(Range(c.eps)) /\ \A e \in Range(c.eps) : IsEpisode(e)
    /\ \E x, y \in SourcesOf(c.eps) : x # y
    /\ c.share \in 0 .. 100

ASSUME StreamsAssumption ==
  \A c \in Streams :
    /\ c.draws \in Seq(Range(c.draws)) /\ \A d \in Range(c.draws) : Drawn(d)
    /\ Paced(c.pace) /\ c.every \in Nat \ {0}

VARIABLE given \* the case, a kind and its data

vars == <<loopVars, given>>

Given(kind, cases) == \E c \in cases : given = <<kind, c>>

Init ==
  /\ LoopInit
  /\ \/ given = <<"loop">>
     \/ /\ times = <<>>
        /\ \/ Given("stream", Streams)
           \/ Given("capture", Captures)     \/ Given("burst", Bursts)
           \/ Given("severity", Severities)  \/ Given("mixed", Mixed)
           \/ Given("walk", Walks)           \/ Given("ranking", Rankings)
           \/ Given("divided", Divided)

Next == LoopNext /\ UNCHANGED given

Spec == Init /\ [][Next]_vars

----------------------------------------------------------------------------
(* Properties.                                                             *)

\* Training and the live panel cut the same alerts into the same windows, so a feature
\* means the same on both sides: a window of import-ait.py that is not capped has the
\* features of the bucket the status script makes of the same alerts sent newest first,
\* a capped one keeps the latest alerts, and whatever fires while an attack phase is
\* running is in a window that is labelled an attack.
WindowsAsLive ==
  given[1] = "capture" =>
    LET c    == given[2]
        made == Windows(c.alerts, c.phases, c.width, c.most)
        live == Buckets(Reverse(c.alerts), c.width)
        Cut(i) == Features(live[made[i].startedAt])
    IN  /\ DOMAIN live = {made[i].startedAt : i \in DOMAIN made}
        /\ \A i \in DOMAIN made :
             /\ Len(made[i].alerts) = Min({Cut(i)[1], c.most})
             /\ Last(made[i].alerts).at = live[made[i].startedAt][1].at
             /\ Cut(i)[1] <= c.most => Features(made[i].alerts) = Cut(i)
        /\ \A a \in Range(c.alerts), p \in c.phases :
             p.start <= a.at /\ a.at < p.end =>
               \E i \in DOMAIN made : /\ made[i].label = "attack"
                                      /\ a.at - made[i].startedAt \in 0 .. c.width - 1

\* The scorer on the manager, which has no numpy, computes the eleven numbers the model
\* was fitted on, in the same order, from the same alerts.  The full feature set counts
\* every alert once, the ones of unknown rules included, and the sequence model reads the
\* same alerts, or the latest of too many, first to last and followed by padding only.
ScorerReadsWhatWasFitted ==
  given[1] = "burst" =>
    LET w == given[2].window  counts == Counts(w, given[2].vocab)
        at == SortedTimes(w)
    IN  /\ Features(w) = ShapeOnly(w)
        /\ Sum(counts) = Features(w)[1]
        /\ \A most \in {2, 5} :
             LET row  == Rolled(Sequence(w, given[2].vocab, most), most)
                 from == Max({1, Len(w) - most + 1})
             IN  /\ \A k \in 1 .. most : row.ids[k] # Pad <=> k <= Min({Len(w), most})
                 /\ w # <<>> => Sum(row.gaps) = at[Len(w)] - at[from]
                 /\ from = 1 => \A r \in DOMAIN counts :
                                   Cardinality({k \in 1 .. most : row.ids[k] = r}) = counts[r]

\* A baseline may say that something is usual here, and never that little is a lot: no
\* component of a severity is larger with a baseline than without, without a new rule the
\* severity is not either, with new rules it is at most a quarter larger, and a chain of
\* credential access and persistence is never discounted as routine.
BaselineOnlyRaisesTheBar ==
  given[1] = "severity" =>
    LET c       == given[2]
        with    == Severity(c.window, c.p, c.threshold, c.baseline, c.hour)
        without == Severity(c.window, c.p, c.threshold, NoBaseline, -1)
    IN  /\ \A k \in Keys : with.parts.norm[k] <= without.parts.norm[k]
        /\ NewRules(c.window, c.baseline) = {} => with.score <= without.score
        /\ 4 * with.score <= 5 * without.score + 4
        /\ with.chained => with.parts.routine = 1000

\* What is shown for a window is what its worst endpoint looks like alone: alerts of other
\* endpoints neither hide it nor complete a chain for it.
WorstEndpointShown ==
  given[1] = "mixed" =>
    LET c        == given[2]
        Shown(w) == SeverityByAgent(w, c.p, c.threshold, c.baselines, c.hour, c.model)
        Own(a)   == OfAgent(c.window, a)
        agents   == {x.agent : x \in Range(c.window)}
    IN  /\ \A a \in agents : Shown(Own(a)).rated.score <= Shown(c.window).rated.score
        /\ \E a \in agents : Shown(Own(a)) = Shown(c.window)
        /\ Shown(c.window).rated.chained =>
             \E a \in agents : Persistent(Own(a)) /\ Credential(Own(a))

\* The rules that fired in the first n windows, and how often one of them did.
RulesUpTo(eps, n)    == UNION {Rules(eps[j].alerts) : j \in 1 .. n}
FiredUpTo(eps, n, r) == Sum([j \in 1 .. n |-> Occurrences(eps[j].alerts, r)])

\* One of the readings of every window, and the latest ones of the first n.
Readings(eps, probs, k) == [i \in DOMAIN eps |-> Observation(eps[i], probs[i])[k]]
Newest(f, n) == LET m == Min({n, SampleLimit}) IN [j \in 1 .. m |-> f[n - m + j]]

\* A baseline has counted each of the first n windows once: its readings are those of the
\* latest ones, and it has seen each rule as often as it fired in them, or less often once
\* there were more rules than it may remember.
HasCounted(b, eps, probs, n) ==
  /\ b.windows = n
  /\ b.samples = [k \in DOMAIN Blank.samples |-> Newest(Readings(eps, probs, k), n)]
  /\ \A r \in RulesUpTo(eps, Len(eps)) :
       /\ TimesSeen(b, r) <= FiredUpTo(eps, n, r)
       /\ Cardinality(RulesUpTo(eps, n)) <= RuleLimit => TimesSeen(b, r) = FiredUpTo(eps, n, r)

Honest(row, eps, warm) ==
  /\ row.warmed = row.n /\ row.n = Max({0, Len(eps) - warm})
  /\ row.windows = Len(eps)
  /\ row.rulesSeen = Min({Cardinality(RulesUpTo(eps, Len(eps))), RuleLimit})
  /\ row.moved = 0 => row.adaptive_ap = row.fixed_ap

\* On a walk over a network nothing of the baseline is read before it is warm: until then
\* a window scores the same in both arms.  Every window is scored against a baseline that
\* has counted each window before it once, and not the window itself, within what it may
\* keep; every one that is reported, against a warm one.  A fold in which the layer moves no
\* window reports the same ranking for both arms.
WarmupGatesTheLayer ==
  given[1] = "walk" =>
    LET c == given[2]
    IN  \A walked \in {Walk(c.eps, c.probs, c.threshold)} :
          /\ \A i \in DOMAIN c.eps :
               /\ i <= WarmupWindows => walked.rows[i].adaptive = walked.rows[i].fixed
               /\ HasCounted(walked.rows[i].baseline, c.eps, c.probs, i - 1)
          /\ \A warm \in {WarmupWindows, WarmupWindows + 1} :
               Honest(FoldRow(walked, c.labels, c.probs, warm), c.eps, warm)

\* Average precision, the cutoff and the best single rule depend on labels and scores and
\* not on the order the episodes stand in; every hit counts with the precision of the
\* whole block that ties with it, and no other cutoff or rule does better.
RankingOrderFree ==
  given[1] = "ranking" =>
    LET y == given[2].y  s == given[2].s
        Hits(i)  == Cardinality({j \in DOMAIN s : s[j] >= s[i] /\ y[j]})
        Block(i) == Cardinality({j \in DOMAIN s : s[j] >= s[i]})
        Worth(i) == IF y[i] THEN Hits(i) * (Unit(Len(s)) \div Block(i)) ELSE 0
        Firing(q) == [i \in DOMAIN q |-> [alerts |-> <<[rule |-> q[i]]>>]]
        Best(u, q) == BestSingleRule(Firing(q), u, BuildVocab(Firing(q)))
        picked == PickThreshold(y, s)
    IN  /\ AveragePrecision(y, s) = Sum([i \in DOMAIN s |-> Worth(i)])
        /\ \A f \in Bijection(DOMAIN s, DOMAIN s) :
             LET u == [i \in DOMAIN y |-> y[f[i]]]  q == [i \in DOMAIN s |-> s[f[i]]]
             IN  /\ AveragePrecision(u, q) = AveragePrecision(y, s)
                 /\ PickThreshold(u, q) = picked
                 /\ Best(u, q) = Best(y, s)
        /\ \A t \in Range(s) \cup {1000} : ~Above(AtCutoff(y, s, t), picked.f1)
        /\ \A r \in Range(s) : ~Above(F1(Scores(y, RuleOnly(Firing(s), r))), Best(y, s).f1)

\* The two points the report quotes are bounds no cutoff beats: none without a false
\* alarm catches more than the perfect one, none that catches half does so with fewer
\* false alarms than the half one; and where no two windows score alike each of them is
\* what some cutoff gives.
OperatingPointsHonest ==
  given[1] = "ranking" =>
    LET y == given[2].y  s == given[2].s
        At(t)   == Scores(y, [i \in DOMAIN s |-> s[i] >= t])
        cutoffs == {At(t) : t \in Range(s) \cup {1000}}
        points  == OperatingPoints(y, s)
        attacks == Cardinality({i \in DOMAIN y : y[i]})
    IN  /\ points.perfect.fp = 0 \/ points.perfect.tp = 0
        /\ 2 * points.half.tp >= attacks
        /\ \A c \in cutoffs : /\ c.fp = 0 => c.tp <= points.perfect.tp
                              /\ c.tp > 0 /\ 2 * c.tp >= attacks => c.fp >= points.half.fp
        /\ Cardinality(Range(s)) = Len(s) =>
             \A point \in {points.perfect, points.half} :
               \E c \in cutoffs : c.tp = point.tp /\ c.fp = point.fp

\* No network is on two sides of a split by network, none is lost, and every one validates
\* once as each is held out in turn; the report, the adaptive walk, the window sensitivity
\* and the ablation fit the episodes that the fold they are quoted beside was fitted on.
\* A split by time trains on nothing later than what it validates or tests on.
NetworksHeldApart ==
  given[1] = "divided" =>
    LET eps == given[2].eps  share == given[2].share
        Sides(p) == <<SourcesOf(p.inner), SourcesOf(p.val), SourcesOf(p.test)>>
        Apart(p) ==
          /\ \A i, j \in 1 .. 3 : i < j => Sides(p)[i] \cap Sides(p)[j] = {}
          /\ Len(p.inner) + Len(p.val) + Len(p.test) = Len(eps)
        Same(p, q) == Range(p.inner) = Range(q.inner) /\ Range(p.test) = Range(q.test)
    IN  /\ \A held \in SourcesOf(eps) :
             LET fold == FoldSplit(eps, held)
             IN  /\ Apart(fold)
                 /\ SourcesOf(fold.val) = {ValidatedOn(eps, held)} /\ SourcesOf(fold.test) = {held}
                 /\ AdaptiveSplit(eps, held).val # <<>>
                 /\ Same(AdaptiveSplit(eps, held), fold)
                 /\ \A i \in DOMAIN Names(eps) : Names(eps)[i] = held =>
                      Same(SensitivitySplit(eps, i), fold) /\ Same(AblationSplit(eps, i), fold)
                 /\ \A row \in {0, ValidatedOn(eps, held)} : Same(ReportSplit(eps, held, row), fold)
        /\ {ValidatedOn(eps, held) : held \in SourcesOf(eps)} = SourcesOf(eps)
        /\ LET out == ExportSplit(eps, share) IN out # Refused => Apart(out) /\ out.val # <<>>
        /\ LET out == HoldBackTail(SourceSplit(eps, share))
           IN  SourceSplit(eps, share) # Refused =>
                 /\ out.test # <<>> /\ Apart(Parts3(out.inner \o out.val, <<>>, out.test))
        /\ LET out == HoldBackTail(TimeSplit(eps, share))
           IN  \A d \in Range(out.inner), v \in Range(out.val), e \in Range(out.test) :
                 ~Earlier(v, d) /\ ~Earlier(e, v)

\* When a rule is raised, when logons fail, and which of those are in the composite rule's window at t.
RuleTimes(s, rule) == {a.at : a \in {b \in Range(s) : b.rule = rule}}
TriesIn(made)      == UNION {RuleTimes(made[i].alerts, FailedLogon) : i \in DOMAIN made}
Recent(tries, t)   == {u \in tries : u > t - CompositeWindow /\ u <= t}

\* Six failed logons within the composite rule's window are always of one of the episodes
\* made, which is an attack; the composite is raised once in such an episode and in no other,
\* with exactly six of them in its window; the failed logons of two episodes are kept as far
\* apart as the campaign keeps them; and no login of a standing account is in two episodes.
AsRaised(made) ==
  LET At(i, rule) == RuleTimes(made[i].alerts, rule)
      tries       == TriesIn(made)
      Within(t)   == Recent(tries, t)
  IN  /\ \A t \in tries : Cardinality(Within(t)) >= CompositeThreshold =>
           \E i \in DOMAIN made :
             Within(t) \subseteq At(i, FailedLogon) /\ made[i].label = "attack"
      /\ \A i \in DOMAIN made :
           /\ Cardinality(At(i, Composite)) =
                IF Cardinality(At(i, FailedLogon)) >= CompositeThreshold THEN 1 ELSE 0
           /\ \A t \in At(i, Composite) : Cardinality(Within(t)) = CompositeThreshold
           /\ \A j \in DOMAIN made : i < j =>
                /\ \A t \in At(i, FailedLogon), u \in At(j, FailedLogon) : u - t >= MinS1Gap
                /\ \A rule \in {5501, 5502} : At(i, rule) \cap At(j, rule) = {}

\* The synthetic stream is one the lab's rules could have raised, whatever is drawn of each
\* episode and however long its runs wait for each other.
StreamAsRaised ==
  given[1] = "stream" =>
    LET c   == given[2]
        eps == Build(12000, 300, c.draws, c.pace, Background(15000, c.every, 20))
    IN  \A made \in {[i \in DOMAIN eps |-> AsDict(eps[i])]} : AsRaised(made)
=============================================================================
