------------------------------ MODULE Baseline ------------------------------
(***************************************************************************)
(* lab-dashboard-baseline, the helper that keeps what each endpoint        *)
(* normally does (dashboard/Enable-LabDashboard.ps1).  Each call is a      *)
(* process: it reads the file, folds the observations it was handed one by *)
(* one in the order of their windows, and replaces the file, which a       *)
(* preview does not.  Calls take no lock, so that of a poll that was given *)
(* up may overlap the next poll's, and a call may be killed at any point.  *)
(* A file that cannot be read counts as empty.                             *)
(*                                                                         *)
(* An observation is an agent and the epoch of a completed window; what    *)
(* was measured in the window is kept as the epoch it was measured in, and *)
(* the counts and hours of a rule are left out.                            *)
(***************************************************************************)
EXTENDS Integers, Sequences, FiniteSets

CONSTANTS
  Helpers,       \* processes of the helper that may run at a time
  Agents,        \* names of the endpoints
  Epochs,        \* epochs of the windows
  Rules,         \* ids of the rules that may fire
  RulesIn,       \* the rules that fired for an agent in a window
  SampleLimit,   \* SAMPLE_LIMIT, 288
  RuleLimit,     \* RULE_LIMIT, 400
  MaxCalls       \* bound: calls of the helper

Observations == Agents \X Epochs

ASSUME BaselineAssumption ==
  /\ IsFiniteSet(Agents)
  /\ Epochs \subseteq Nat \ {0} /\ IsFiniteSet(Epochs)
  /\ IsFiniteSet(Rules)
  /\ RulesIn \in [Observations -> SUBSET Rules]
  /\ SampleLimit \in Nat \ {0} /\ RuleLimit \in Nat \ {0}
  /\ MaxCalls \in Nat

VARIABLES
  file,    \* the agents of baseline.json
  proc,    \* the helper processes
  calls,   \* calls so far, at most MaxCalls
  handed   \* history: observations handed over to be folded

vars == <<file, proc, calls, handed>>

Stamps == UNION {[R -> Epochs] : R \in SUBSET Rules}   \* when a rule was last seen
Record == [windows: Nat, last: Nat, samples: Seq(Epochs), rules: Stamps]
States == [Agents -> Record]

\* What setdefault makes of an agent without a record.
Blank == [windows |-> 0, last |-> 0, samples |-> <<>>, rules |-> [r \in {} |-> 0]]

Processes ==
  [running: BOOLEAN, preview: BOOLEAN, state: States, todo: SUBSET Observations,
   changed: BOOLEAN, taken: SUBSET Epochs, snapshots: [Epochs -> States],
   base: States, asked: SUBSET Observations]      \* the last two are history

Nothing == [a \in Agents |-> Blank]

\* A process that has read the state s and was handed obs, and one that has ended.
Started(s, obs, preview) ==
  [running |-> TRUE, preview |-> preview, state |-> s, todo |-> obs, changed |-> FALSE,
   taken |-> {}, snapshots |-> [e \in Epochs |-> Nothing], base |-> s, asked |-> obs]
Ended ==
  [running |-> FALSE, preview |-> FALSE, state |-> Nothing, todo |-> {}, changed |-> FALSE,
   taken |-> {}, snapshots |-> [e \in Epochs |-> Nothing], base |-> Nothing, asked |-> {}]

TypeOK ==
  /\ file \in States
  /\ proc \in [Helpers -> Processes]
  /\ calls \in Nat
  /\ handed \subseteq Observations

Init ==
  /\ file = Nothing
  /\ proc = [h \in Helpers |-> Ended]
  /\ calls = 0
  /\ handed = {}

----------------------------------------------------------------------------
(* The fold of one observation.                                             *)

\* Slip (the slips are used by no action, the runs must notice them): the
\* series is cut one sample early.
TrimTooShort(s) == IF Len(s) >= SampleLimit THEN Tail(s) ELSE s

\* Appending one sample makes the series at most one too long.
Trim(s) == IF Len(s) > SampleLimit THEN Tail(s) ELSE s

\* Slip: the rules seen last go first.
EvictNewest(rules) ==
  {[r \in kept |-> rules[r]] : kept \in
    {K \in SUBSET DOMAIN rules :
       /\ Cardinality(K) = RuleLimit
       /\ \A k \in K, g \in DOMAIN rules \ K : rules[k] <= rules[g]}}

\* Rules beyond the limit are forgotten, the least recently seen first.  Which
\* of those seen in the same window go is left open.
Evict(rules) ==
  IF Cardinality(DOMAIN rules) <= RuleLimit THEN {rules}
  ELSE {[r \in kept |-> rules[r]] : kept \in
         {K \in SUBSET DOMAIN rules :
            /\ Cardinality(K) = RuleLimit
            /\ \A k \in K, g \in DOMAIN rules \ K : rules[g] <= rules[k]}}

\* The rules remembered once those of the observation o have been stamped.
Stamped(rules, o) ==
  [r \in DOMAIN rules \cup RulesIn[o] |-> IF r \in RulesIn[o] THEN o[2] ELSE rules[r]]

\* Slip: a window that was the newest already is folded again.
SeenBefore(record, e) == e < record.last

Seen(record, e) == e <= record.last

\* What fold may make of an agent's record.
Fold(record, o) ==
  IF Seen(record, o[2]) THEN {record}
  ELSE {[windows |-> record.windows + 1, last |-> o[2],
         samples |-> Trim(Append(record.samples, o[2])),
         rules |-> rules] : rules \in Evict(Stamped(record.rules, o))}

----------------------------------------------------------------------------
(* A call of the helper.                                                    *)

\* The process starts and reads the file, which fails and is not noticed, or does
\* not, and its request.
Call(h, obs, preview) ==
  /\ ~proc[h].running /\ calls < MaxCalls
  /\ calls' = calls + 1
  /\ \E s \in {file, Nothing} : proc' = [proc EXCEPT ![h] = Started(s, obs, preview)]
  /\ handed' = IF preview THEN handed ELSE handed \cup obs
  /\ UNCHANGED file

\* Slip: the observations are taken in no particular order.
Unsorted(todo) == todo

\* The observations that may come first when they are sorted by their epoch.
First(todo) == {o \in todo : \A p \in todo : o[2] <= p[2]}

\* The process p once the observation o has made a record of its agent's.  A
\* preview first keeps a copy of the state as it stands before the first
\* observation of each window.
Took(p, o, record) ==
  [running   |-> p.running,
   preview   |-> p.preview,
   state     |-> [p.state EXCEPT ![o[1]] = record],
   todo      |-> p.todo \ {o},
   changed   |-> p.changed \/ ~Seen(p.state[o[1]], o[2]),
   taken     |-> IF p.preview THEN p.taken \cup {o[2]} ELSE p.taken,
   snapshots |-> IF p.preview /\ o[2] \notin p.taken
                   THEN [p.snapshots EXCEPT ![o[2]] = p.state] ELSE p.snapshots,
   base      |-> p.base,
   asked     |-> p.asked]

\* The loop takes the next observation.
FoldNext(h) ==
  /\ proc[h].running
  /\ \E o \in First(proc[h].todo) : \E record \in Fold(proc[h].state[o[1]], o) :
       proc' = [proc EXCEPT ![h] = Took(@, o, record)]
  /\ UNCHANGED <<file, calls, handed>>

\* Slip: what a preview has folded is written back, too.
FinishPreviewed(h) ==
  /\ proc[h].running /\ proc[h].todo = {}
  /\ file' = IF proc[h].changed THEN proc[h].state ELSE file
  /\ proc' = [proc EXCEPT ![h] = Ended]
  /\ UNCHANGED <<calls, handed>>

\* The process ends; os.replace puts what it has folded in the file's place.
Finish(h) ==
  /\ proc[h].running /\ proc[h].todo = {}
  /\ file' = IF proc[h].changed /\ ~proc[h].preview THEN proc[h].state ELSE file
  /\ proc' = [proc EXCEPT ![h] = Ended]
  /\ UNCHANGED <<calls, handed>>

\* The process is killed, or it cannot write; the file is as it was.
Die(h) ==
  /\ proc[h].running
  /\ proc' = [proc EXCEPT ![h] = Ended]
  /\ UNCHANGED <<file, calls, handed>>

Next ==
  \E h \in Helpers :
    \/ \E obs \in SUBSET Observations, preview \in BOOLEAN : Call(h, obs, preview)
    \/ FoldNext(h)
    \/ Finish(h)
    \/ Die(h)

Spec == Init /\ [][Next]_vars

----------------------------------------------------------------------------
(* Properties.                                                              *)

AtMost(cap, n) == IF n < cap THEN n ELSE cap

\* However calls overlap, die or repeat themselves, the samples of an agent are
\* of different windows in the order of time, the newest window among them.
FoldedOnce ==
  \A a \in Agents :
    LET s == file[a].samples
    IN  /\ \A i, j \in 1..Len(s) : i < j => s[i] < s[j]
        /\ IF s = <<>> THEN file[a].last = 0 ELSE file[a].last = s[Len(s)]

\* An agent has a sample for each window it has counted, up to the limit: the
\* divisor is taken from as many windows as the warm-up counts.
SamplesCounted ==
  \A a \in Agents : Len(file[a].samples) = AtMost(SampleLimit, file[a].windows)

\* The rules of the newest window are remembered unless they alone are more than
\* the limit, and no more than the limit are.
RulesRemembered ==
  \A a \in Agents :
    /\ Cardinality(DOMAIN file[a].rules) <= RuleLimit
    /\ file[a].windows > 0 /\ Cardinality(RulesIn[<<a, file[a].last>>]) <= RuleLimit
         => RulesIn[<<a, file[a].last>>] \subseteq DOMAIN file[a].rules

\* A window that was only ever previewed is not in the file: previewing keeps
\* history without persisting the scored window.
PreviewsNotKept ==
  \A a \in Agents : \A i \in 1..Len(file[a].samples) : <<a, file[a].samples[i]>> \in handed

\* The copy a preview keeps of the state before a window counts, beyond the state
\* it started from, the earlier windows it was asked about and no other: no
\* window is its own history, or has a later one in it.
HistoryBefore ==
  \A h \in Helpers : \A e \in proc[h].taken :
      \A a \in Agents :
        proc[h].snapshots[e][a].windows = proc[h].base[a].windows
          + Cardinality({f \in Epochs : <<a, f>> \in proc[h].asked /\ f < e /\ f > proc[h].base[a].last})

\* With one call at a time the file is what the store promises, whatever dies and
\* whichever reads fail.
Summary(s) == [a \in Agents |-> [windows |-> s[a].windows, last |-> s[a].last]]
Unread == \E h \in Helpers : proc[h].running /\ proc[h].base # file
Store == INSTANCE BaselineStore WITH store <- Summary(file), unread <- Unread
StoreSpec == Store!Spec
=============================================================================
