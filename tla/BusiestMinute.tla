--------------------------- MODULE BusiestMinute ---------------------------
(***************************************************************************)
(* The one pass that finds how many alerts the busiest minute of a window  *)
(* holds.  The loop stands four times in the code, over times that are     *)
(* sorted: in features and severity of score.py, in _timing_row of         *)
(* features.py and in observation of evaluate_adaptive.py.  Two indices    *)
(* move over the times, neither ever back.                                 *)
(***************************************************************************)
EXTENDS Integers, Sequences, FiniteSets

CONSTANTS
  Minute,    \* seconds of the span that is slid over the times, 60
  Times      \* the sorted times the loop may be given

ASSUME TimesAssumption ==
  /\ Minute \in Nat \ {0}
  /\ \A s \in Times : /\ s \in Seq(Int)
                      /\ \A i, j \in 1 .. Len(s) : i <= j => s[i] <= s[j]

VARIABLES
  times,     \* what the loop was given
  left,      \* alerts behind the left edge
  right,     \* alerts before the right edge
  busiest    \* the most that were between the two

loopVars == <<times, left, right, busiest>>

LoopTypeOK ==
  /\ times \in Times
  /\ left \in 0 .. Len(times)
  /\ right \in left .. Len(times)
  /\ busiest \in 0 .. Len(times)

LoopInit ==
  /\ times \in Times
  /\ left = 0
  /\ right = 0
  /\ busiest = 0

\* Slip: an alert a whole minute later is taken in, too.
ReachesFurther == right < Len(times) /\ times[right + 1] <= times[left + 1] + Minute

\* The alert at the right edge is within a minute of the one at the left.
Reaches == right < Len(times) /\ times[right + 1] < times[left + 1] + Minute

Extend ==
  /\ left < Len(times) /\ Reaches
  /\ right' = right + 1
  /\ UNCHANGED <<times, left, busiest>>

Advance ==
  /\ left < Len(times) /\ ~Reaches
  /\ busiest' = IF right - left > busiest THEN right - left ELSE busiest
  /\ left' = left + 1
  /\ UNCHANGED <<times, right>>

LoopNext == Extend \/ Advance

LoopSpec == LoopInit /\ [][LoopNext]_loopVars

----------------------------------------------------------------------------
(* What the loop is to find.                                                *)

\* The alerts of the minute that begins at t.
From(t) == {k \in 1 .. Len(times) : t <= times[k] /\ times[k] < t + Minute}

\* When the pass is over, no minute with an alert in it, wherever it begins, holds
\* more alerts than were found, and one holds as many: alerts of the same second
\* are all counted, and one that is exactly a minute later is not.
BusiestMinuteFound ==
  left = Len(times) =>
    /\ \A k \in 1 .. Len(times) : \A d \in 0 .. Minute - 1 :
         Cardinality(From(times[k] - d)) <= busiest
    /\ IF times = <<>> THEN busiest = 0
       ELSE \E k \in 1 .. Len(times) : Cardinality(From(times[k])) = busiest
=============================================================================
