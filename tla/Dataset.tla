------------------------------ MODULE Dataset ------------------------------
(***************************************************************************)
(* How a capture becomes episodes and episodes become training, validation *)
(* and test: windows of import-ait.py, the buckets of the status script    *)
(* that the live panel scores, and every split of the scoring directory.   *)
(*                                                                         *)
(* An alert has its time at and its rule; an episode its source, which is  *)
(* the network it was captured on, when it startedAt, and more besides.    *)
(* Names of networks are ordered as the numbers that stand for them.       *)
(***************************************************************************)
EXTENDS Integers, SequencesExt

----------------------------------------------------------------------------
(* Lines: what has been sorted or picked out.                              *)

\* The members of a set in line, each behind the ones that are ahead of it.
InLine(I, ahead) == [k \in 1 .. Cardinality(I) |-> CHOOSE i \in I : Cardinality(ahead[i]) = k - 1]

Rising(I) == InLine(I, [i \in I |-> {j \in I : j < i}])

\* The elements of a sequence at some places, in the order of the places.
Pick(s, I) == LET line == Rising(I) IN [k \in 1 .. Cardinality(I) |-> s[line[k]]]

\* The elements of a sequence sorted, of equal ones the earlier one first.
Sorted(s, Before(_, _)) ==
  LET Ahead(i) == {j \in DOMAIN s : Before(s[j], s[i]) \/ (~Before(s[i], s[j]) /\ j < i)}
      line     == InLine(DOMAIN s, [i \in DOMAIN s |-> Ahead(i)])
  IN  [k \in DOMAIN s |-> s[line[k]]]

----------------------------------------------------------------------------
(* Windows of a capture, and of the live stream.                           *)

\* Slip: windows are laid from the capture's first alert.
FromFirst(times, t, width) == times[1] + width * ((t - times[1]) \div width)

LowEdge(times, t, width) == width * (t \div width)

\* Where, over sorted times, the alerts of the i-th one's window end.
EndOf(times, i, width) ==
  LET hi == LowEdge(times, times[i], width) + width
  IN  Min({k \in i .. Len(times) + 1 : k = Len(times) + 1 \/ times[k] >= hi})

\* Where one window begins after the other, as long as alerts are left.
BeginsOf(times, width) ==
  LET n == Len(times)
      begin[k \in 0 .. n] ==
        IF k = 0 THEN 1 ELSE IF begin[k - 1] > n THEN n + 1 ELSE EndOf(times, begin[k - 1], width)
  IN  begin

\* Consecutive windows over sorted alerts, empty ones left out, each labelled by the
\* phases it overlaps; of more than most alerts the last ones are kept.
Windows(alerts, phases, width, most) ==
  LET n     == Len(alerts)
      times == [k \in 1 .. n |-> alerts[k].at]
      begin == BeginsOf(times, width)
      Window(i, j) ==
        LET lo == LowEdge(times, times[i], width)
        IN  [startedAt |-> lo,
             label  |-> IF \E p \in phases : p.start < lo + width /\ p.end > lo
                        THEN "attack" ELSE "benign",
             alerts |-> [k \in 1 .. Min({j - i, most}) |->
                           [alerts[k + Max({i, j - most}) - 1] EXCEPT !.at = @ - lo]]]
  IN  [k \in 1 .. Cardinality({b \in 0 .. n : begin[b] <= n}) |-> Window(begin[k - 1], begin[k])]

\* The status script's buckets: each alert, in whatever order the indexer sends them,
\* goes to the window of its own time.
Buckets(records, width) ==
  LET Low(a) == width * (a.at \div width)
  IN  [lo \in {Low(records[i]) : i \in DOMAIN records} |->
         LET own == Pick(records, {i \in DOMAIN records : Low(records[i]) = lo})
         IN  [i \in DOMAIN own |-> [own[i] EXCEPT !.at = @ - lo]]]

----------------------------------------------------------------------------
(* What a vocabulary knows, and the full feature set's counts.             *)

RulesOf(eps) == UNION {{a.rule : a \in Range(eps[i].alerts)} : i \in DOMAIN eps}

\* The rules of the episodes the model is fitted on, and no other.
BuildVocab(eps) == Rising(RulesOf(eps))

\* A rule's place in the vocabulary, or the one after the last for a rule unknown to it.
Index(vocab, r) ==
  IF r \in Range(vocab) THEN CHOOSE i \in DOMAIN vocab : vocab[i] = r ELSE Len(vocab) + 1

\* Alerts of each rule, and of rules the vocabulary does not know.
Counts(w, vocab) ==
  [i \in 1 .. Len(vocab) + 1 |-> Cardinality({k \in DOMAIN w : Index(vocab, w[k].rule) = i})]

----------------------------------------------------------------------------
(* Sequences.                                                              *)

Sooner(a, b) == a.at < b.at

\* What the sequence models read: of more than most alerts the latest, in order of time,
\* each as a rule's index and the time since the one before it, padded on the left.
Pad == 0
Sequence(w, vocab, most) ==
  LET sorted == Sorted(w, Sooner)
      kept   == SubSeq(sorted, Max({1, Len(w) - most + 1}), Len(w))
      Place(k) == k - (most - Len(kept))
  IN  [length |-> Len(kept),
       ids    |-> [k \in 1 .. most |-> IF Place(k) < 1 THEN Pad ELSE Index(vocab, kept[Place(k)].rule)],
       gaps   |-> [k \in 1 .. most |->
                     IF Place(k) <= 1 THEN 0 ELSE kept[Place(k)].at - kept[Place(k) - 1].at]]

\* to_tensors of train.py: each row rolled, so that what it holds leads.
Rolled(row, most) ==
  LET Led(s, none) == [k \in 1 .. most |->
                         IF k <= row.length THEN s[most - row.length + k] ELSE none]
  IN  [length |-> row.length, ids |-> Led(row.ids, Pad), gaps |-> Led(row.gaps, 0)]

----------------------------------------------------------------------------
(* Splits.                                                                 *)

SourcesOf(eps) == {eps[i].source : i \in DOMAIN eps}
Names(eps)     == Rising(SourcesOf(eps))
Of(eps, S)     == Pick(eps, {i \in DOMAIN eps : eps[i].source \in S})
Without(eps, S) == Of(eps, SourcesOf(eps) \ S)
Earlier(d, e)  == d.startedAt < e.startedAt
BySource(d, e) == d.source < e.source \/ (d.source = e.source /\ Earlier(d, e))
Parts3(inner, val, test) == [inner |-> inner, val |-> val, test |-> test]
Refused == Parts3(<<>>, <<>>, <<>>)

\* A share of a number of episodes, the share in hundredths.
Portion(n, share) == (n * share) \div 100

\* The network that follows the one held out, the first after the last.
ValidatedOn(eps, held) ==
  LET names == Names(eps)
  IN  names[((CHOOSE i \in DOMAIN names : names[i] = held) % Len(names)) + 1]

\* Slip: the last rows of training validate, wherever a network begins.
TailValidates(eps, held) ==
  LET train == Sorted(Without(eps, {held}), BySource)
      cut   == Portion(Len(train), 85)
  IN  Parts3(SubSeq(train, 1, cut), SubSeq(train, cut + 1, Len(train)), Of(eps, {held}))

\* evaluate.py: one network is tested on, the next validates, the others are fitted on.
FoldSplit(eps, held) ==
  LET train == Sorted(Without(eps, {held}), BySource)
      val   == ValidatedOn(eps, held)
  IN  Parts3(Without(train, {val}), Of(train, {val}),
             Sorted(Of(eps, {held}), Earlier))

\* evaluate_adaptive.py, for the probabilities the severities are computed from.
AdaptiveSplit(eps, held) ==
  LET train == Without(eps, {held})
      val   == ValidatedOn(eps, held)
  IN  Parts3(Without(train, {val}), Of(train, {val}),
             Sorted(Of(eps, {held}), Earlier))

\* window-sensitivity.py and severity-ablation.py need no threshold, so the network that
\* validates elsewhere is only left out; both go by a network's place in the list.
Unvalidated(eps, i) ==
  LET names == Names(eps)  val == names[(i % Len(names)) + 1]
  IN  Parts3(Without(eps, {names[i], val}), <<>>, Of(eps, {names[i]}))

SensitivitySplit(eps, i) == Unvalidated(eps, i)
AblationSplit(eps, i)    == Unvalidated(eps, i)

\* build-report.py refits a fold, by the network its row says it was validated on, or by
\* rotation for a row that does not say (0).
ReportSplit(eps, held, validatedOn) ==
  LET train == Sorted(Without(eps, {held}), BySource)
      val   == IF validatedOn # 0 THEN validatedOn ELSE ValidatedOn(eps, held)
  IN  Parts3(Without(train, {val}), <<>>, Sorted(Of(eps, {held}), Earlier))

\* export-model.py: the share's cut is moved on to where the next network begins.  Nothing
\* left to validate on is refused.
ExportSplit(eps, share) ==
  LET sorted == Sorted(eps, BySource)
      n   == Len(sorted)
      cut == Min({k \in Portion(n, share) .. n :
                    k = n \/ sorted[k + 1].source # sorted[IF k = 0 THEN n ELSE k].source})
  IN  IF cut = n THEN Refused
      ELSE Parts3(SubSeq(sorted, 1, cut), SubSeq(sorted, cut + 1, n), <<>>)

\* load_split by source: networks go to training by name until it has its share, the last
\* one never; with fewer than two, or none in training, there is no split.
SourceSplit(eps, share) ==
  LET names == Names(eps)
      Held(S) == Len(Of(eps, S))
      Taken[k \in 0 .. Len(names)] ==
        IF k = 0 THEN {}
        ELSE LET S == Taken[k - 1]
             IN  IF 100 * Held(S) < Len(eps) * share /\ k # Len(names)
                 THEN S \cup {names[k]} ELSE S
      trained == Taken[Len(names)]
  IN  IF Len(names) < 2 \/ trained = {} THEN Refused
      ELSE Parts3(Sorted(Of(eps, trained), BySource), <<>>,
                  Sorted(Without(eps, trained), BySource))

\* load_split by time.
TimeSplit(eps, share) ==
  LET sorted == Sorted(eps, Earlier)
      cut    == Portion(Len(eps), share)
  IN  IF cut = 0 \/ cut = Len(eps) THEN Refused
      ELSE Parts3(SubSeq(sorted, 1, cut), <<>>, SubSeq(sorted, cut + 1, Len(eps)))

\* The last of what load_split left to train on validates, by rows: in train.py, in
\* baseline.py, and in time_split of window-sensitivity.py, which then ignores it.
HoldBackTail(split) ==
  LET n == Len(split.inner)  cut == Portion(n, 85)
  IN  Parts3(SubSeq(split.inner, 1, cut), SubSeq(split.inner, cut + 1, n), split.test)
=============================================================================
