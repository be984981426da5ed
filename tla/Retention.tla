----------------------------- MODULE Retention -----------------------------
(***************************************************************************)
(* configure-retention.py: the deletion policy of the alert indices.       *)
(*                                                                         *)
(* A run waits for the indexer, makes the policy where there is none,      *)
(* reads which indices are managed, attaches the policy to the ones that   *)
(* are not and reads them again.  Every request is tried a few times, and  *)
(* one that got no answer may have been done.  Between two requests a new  *)
(* day's index appears, an old one is deleted, and another client changes  *)
(* what it likes.  tune-manager.sh is run again after a run that failed.   *)
(***************************************************************************)
EXTENDS Naturals

CONSTANTS
  Names,        \* alert indices
  Attempts,     \* how often a request is tried, 5
  HealthWaits,  \* how often the health is asked for, 12
  MaxFaults,    \* bound: requests that go wrong, runs that are stopped
  MaxOthers     \* bound: changes made by others

ASSUME RetentionAssumption ==
  /\ Attempts \in Nat \ {0} /\ HealthWaits \in Nat \ {0}
  /\ MaxFaults \in Nat /\ MaxOthers \in Nat

VARIABLES
  policy,    \* the policy of the lab's name: none, as asked for, or different
  index,     \* what each index is under
  pc,        \* the request the run is at, or how it ended
  attempt,   \* tries of that request that got no answer
  waits,     \* times the indexer was not ready
  before,    \* the indices of the first reading
  pending,   \* those of them that were not managed
  cause,     \* history: in this run a request went wrong, or others changed something
  faults,    \* faults so far
  others     \* changes by others so far

indexer == <<policy, index>>
run     == <<pc, attempt, waits, before, pending>>
vars    == <<policy, index, pc, attempt, waits, before, pending, cause, faults, others>>

Requests == {"health", "lookup", "create", "readback", "before", "add", "after"}

TypeOK ==
  /\ policy \in {"none", "wanted", "different"}
  /\ index \in [Names -> {"absent", "unmanaged", "lab", "disabled", "other"}]
  /\ pc \in Requests \cup {"ready", "failed"}
  /\ attempt \in 0 .. Attempts - 1
  /\ waits \in 0 .. HealthWaits - 1
  /\ before \subseteq Names /\ pending \subseteq Names
  /\ cause \in BOOLEAN
  /\ faults \in 0 .. MaxFaults /\ others \in 0 .. MaxOthers

Present   == {n \in Names : index[n] # "absent"}
Unmanaged == {n \in Names : index[n] = "unmanaged"}
Foreign   == {n \in Names : index[n] \in {"disabled", "other"}}

Init ==
  /\ policy \in {"none", "different"}
  /\ index \in [Names -> {"absent", "unmanaged", "other"}]
  /\ pc = "health" /\ attempt = 0 /\ waits = 0
  /\ before = {} /\ pending = {}
  /\ cause = FALSE /\ faults = 0 /\ others = 0

----------------------------------------------------------------------------
(* What the indexer does with a request that changes something.            *)

\* A policy is made only where there is none; otherwise that is a conflict.
Creates == policy' = (IF policy = "none" THEN "wanted" ELSE policy) /\ index' = index

\* The policy is attached to those of S that have none.
Attaches(S) ==
  /\ index' = [n \in Names |-> IF n \in S \cap Unmanaged THEN "lab" ELSE index[n]]
  /\ policy' = policy

Does ==
  CASE pc = "create" -> Creates
    [] pc = "add"    -> Attaches(pending)
    [] OTHER         -> UNCHANGED indexer

----------------------------------------------------------------------------
(* The run.                                                                *)

To(p)    == pc' = p /\ attempt' = 0
Quietly  == UNCHANGED <<cause, faults, others>>
Kept     == UNCHANGED <<waits, before, pending>>

Ready ==
  /\ pc = "health" /\ To("lookup")
  /\ Kept /\ Quietly /\ UNCHANGED indexer

Lookup ==
  /\ pc = "lookup"
  /\ To(CASE policy = "none" -> "create" [] policy = "wanted" -> "before" [] OTHER -> "failed")
  /\ Kept /\ Quietly /\ UNCHANGED indexer

\* Slip: the conflict that a retry meets is taken for an error.
CreateOnce ==
  /\ pc = "create" /\ Creates /\ To(IF policy = "none" THEN "readback" ELSE "failed")
  /\ Kept /\ Quietly

\* A conflict is as good as having made it: what is there is read next.
Create ==
  /\ pc = "create" /\ Creates /\ To("readback")
  /\ Kept /\ Quietly

ReadBack ==
  /\ pc = "readback"
  /\ To(IF policy = "wanted" THEN "before" ELSE "failed")
  /\ Kept /\ Quietly /\ UNCHANGED indexer

\* Slip: the policy is attached to every index that is there.
EveryIndex == Present

ToAttach == Unmanaged

ReadBefore ==
  /\ pc = "before"
  /\ before' = Present /\ pending' = ToAttach
  /\ To(IF Foreign # {} THEN "failed" ELSE IF ToAttach # {} THEN "add" ELSE "after")
  /\ Quietly /\ UNCHANGED <<waits, policy, index>>

\* An index that is managed by now, or gone, is reported as a failure.
Add ==
  /\ pc = "add" /\ Attaches(pending)
  /\ To(IF pending \subseteq Unmanaged THEN "after" ELSE "failed")
  /\ Kept /\ Quietly

\* Slip: only the indices of the first reading are looked at again.
KnownManaged == before \subseteq Present /\ \A n \in before : index[n] = "lab"

AllManaged == before \subseteq Present /\ \A n \in Present : index[n] = "lab"

ReadAfter ==
  /\ pc = "after" /\ To(IF AllManaged THEN "ready" ELSE "failed")
  /\ Kept /\ Quietly /\ UNCHANGED indexer

----------------------------------------------------------------------------
(* What goes wrong.                                                        *)

Fault == faults < MaxFaults /\ faults' = faults + 1 /\ UNCHANGED others

\* There is no answer, or one that asks to try again; the request may have been done.
\* After the last try the run fails.  An add that is tried again may meet what it
\* did, which the indexer reports as a failure.
NoAnswer ==
  /\ pc \in Requests /\ Fault
  /\ Does \/ UNCHANGED indexer
  /\ IF attempt + 1 < Attempts
     THEN attempt' = attempt + 1 /\ pc' = pc /\ cause' = (cause \/ pc = "add")
     ELSE To("failed") /\ cause' = TRUE
  /\ Kept

\* The answer is an error or no JSON, or the run is stopped: the end, done or not.
BadAnswer ==
  /\ pc \in Requests /\ Fault
  /\ Does \/ UNCHANGED indexer
  /\ To("failed") /\ cause' = TRUE /\ Kept

\* The indexer is up and has not reached yellow.
NotReady ==
  /\ pc = "health" /\ Fault
  /\ IF waits + 1 < HealthWaits
     THEN waits' = waits + 1 /\ To("health") /\ cause' = cause
     ELSE waits' = waits /\ To("failed") /\ cause' = TRUE
  /\ UNCHANGED <<before, pending, policy, index>>

\* Only some indices are attached, and the answer says so or claims success.
AddsSome ==
  /\ pc = "add" /\ Fault
  /\ \E S \in SUBSET pending : S # pending /\ Attaches(S)
  /\ To("after") \/ To("failed")
  /\ cause' = TRUE /\ Kept

----------------------------------------------------------------------------
(* What others do.                                                         *)

Other ==
  /\ others < MaxOthers /\ others' = others + 1
  /\ cause' = TRUE /\ UNCHANGED <<faults, run>>

\* A new day's index: the policy, if there is one, is attached to it at once or not yet.
NewIndex(n) ==
  /\ index[n] = "absent" /\ Other /\ policy' = policy
  /\ \/ index' = [index EXCEPT ![n] = "unmanaged"]
     \/ policy # "none" /\ index' = [index EXCEPT ![n] = "lab"]

\* The indexer attaches the policy to an index that has been there for a while.
AttachedLater(n) ==
  /\ index[n] = "unmanaged" /\ policy # "none" /\ Other /\ policy' = policy
  /\ index' = [index EXCEPT ![n] = "lab"]

\* An index that is old enough is deleted, as is one somebody deletes.
IndexGoes(n) ==
  /\ index[n] # "absent" /\ Other /\ policy' = policy
  /\ index' = [index EXCEPT ![n] = "absent"]

\* Somebody manages an index otherwise, or no longer.
IndexTaken(n) ==
  /\ index[n] # "absent" /\ Other /\ policy' = policy
  /\ \E s \in {"unmanaged", "disabled", "other"} : index' = [index EXCEPT ![n] = s]

PolicyChanged ==
  /\ Other /\ policy' \in {"none", "wanted", "different"} /\ index' = index

\* tune-manager.sh is run again.
Rerun ==
  /\ pc \in {"ready", "failed"} /\ To("health")
  /\ waits' = 0 /\ before' = {} /\ pending' = {} /\ cause' = FALSE
  /\ UNCHANGED <<policy, index, faults, others>>

----------------------------------------------------------------------------
Answered == Ready \/ Lookup \/ Create \/ ReadBack \/ ReadBefore \/ Add \/ ReadAfter

Wrong == NoAnswer \/ BadAnswer \/ NotReady \/ AddsSome

Others == PolicyChanged \/ \E n \in Names : NewIndex(n) \/ AttachedLater(n) \/ IndexGoes(n) \/ IndexTaken(n)

Next == Answered \/ Wrong \/ Others \/ Rerun

\* A request is answered in the end or the run fails (curl's time limits and the
\* bounded tries), and a run that failed is repeated, as it asks to be.
Fairness == WF_vars(Answered) /\ WF_vars(pc = "failed" /\ Rerun)

Spec == Init /\ [][Next]_vars /\ Fairness

----------------------------------------------------------------------------
\* A run says that retention is ready only if at that moment every alert index there
\* is, one that appeared during the run included, is under the lab's policy, and the
\* policy is the one that was asked for unless another changed it during the run:
\* configure-retention.py 153-158.
ReadyIsManaged ==
  [][pc # "ready" /\ pc' = "ready" =>
       /\ \A n \in Present : index[n] = "lab"
       /\ policy = "wanted" \/ cause]_vars

\* A run does not fail by what it did itself: if no request failed for good, none was
\* cut off while attaching and nobody else changed anything, it fails only where there
\* is something to review.  A create that timed out, was done and is tried again is no
\* failure: 123-130.
FailsForCause ==
  [][pc # "failed" /\ pc' = "failed" =>
       cause' \/ policy = "different" \/ Foreign # {}]_vars

\* Run again after it failed, the script gets done whatever the failed runs had left
\* behind, unless something remains that has to be reviewed: 135-151.
Settles ==
  <>(pc = "ready") \/ <>[](policy = "different" \/ Foreign # {})
=============================================================================
