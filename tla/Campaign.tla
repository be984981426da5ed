------------------------------ MODULE Campaign ------------------------------
(***************************************************************************)
(* agents/linux/run-campaign.sh: campaigns that run the lab's scenarios    *)
(* for hours on the Linux endpoint.  `start` finds out whether a campaign  *)
(* is running, makes the campaign's directory, spawns its body and writes  *)
(* its pid file; the body sweeps and creates the standing accounts, waits  *)
(* until their alerts have passed, and runs episodes until its deadline,   *)
(* its STOP file, a signal or an error; then `finish` takes everything     *)
(* away again.  Power may be cut at any moment, and `finish` itself be     *)
(* interrupted.                                                            *)
(*                                                                         *)
(* Time goes by in ticks, and timers and ages are counted in them: a timer *)
(* is the rest of a sleep, an age is capped where nothing tells it from a  *)
(* longer one.  Modes, logons, labels and what a record says are left out; *)
(* so are the ticks of background activity, which touch nothing else.      *)
(***************************************************************************)
EXTENDS Naturals, Sequences

CONSTANTS
  N,           \* campaigns are 1..N, in the order of their names, which is that of their starts
  Staff,       \* the standing accounts of STAFF_PLAN
  Gap,         \* MIN_S1_GAP, 330 s
  Settle,      \* the wait after the accounts are created, 180 s
  First,       \* waits before the first episode, 30 to 120 s
  Between,     \* waits between episodes, 150 to 330 s
  Pauses,      \* waits between the steps of an episode, 10 to 300 s
  Length,      \* what --hours comes to
  Alone,       \* whether no two `start` commands run at the same time
  MaxFaults,   \* bound: commands that fail and power cuts
  MaxSignals   \* bound: signals sent to a campaign

ASSUME CampaignAssumption ==
  /\ N \in Nat /\ Gap \in Nat /\ Settle \in Nat /\ Length \in Nat
  /\ MaxFaults \in Nat /\ MaxSignals \in Nat
  /\ First \subseteq Nat /\ Between \subseteq Nat /\ Pauses \subseteq Nat
  /\ Alone \in BOOLEAN

Campaigns == 1..N

\* The scenarios each kind of episode runs, in order.
Kinds == {<<"S1">>, <<"S2">>, <<"S3">>, <<"S2", "S3">>, <<"S1", "S2", "S3">>}

VARIABLES
  start,     \* how far the start command of each campaign has come
  pc,        \* what the body of each campaign is about to do
  timer,     \* the rest of the sleep it is in
  left,      \* the time to its deadline
  steps,     \* the scenarios left of its episode
  last,      \* the time since LAST_S1_END
  reason,    \* FINISH_REASON
  term,      \* the campaigns with a signal not handled yet
  pidfile,   \* the campaigns with a pid file
  stopfile,  \* the campaigns with a STOP file
  state,     \* what campaign.state says of each
  staff,     \* the standing accounts there are
  evidence,  \* whether the scenarios' evidence directory exists
  faults, signals,
  sinceS1,   \* history: the time since an S1 run of each campaign really ended
  settled,   \* history: the time since a standing account was last created
  orphaned   \* history: whether accounts are left by a campaign that was cut off

vars == <<start, pc, timer, left, steps, last, reason, term, pidfile, stopfile, state,
          staff, evidence, faults, signals, sinceS1, settled, orphaned>>

starting == <<start, pidfile>>                                   \* written by start, and at the end
episode  == <<steps, last, sinceS1, evidence>>
accounts == <<staff, settled, orphaned>>
bounds   == <<faults, signals>>

Init ==
  /\ start = [c \in Campaigns |-> "no"]
  /\ pc = [c \in Campaigns |-> "off"]
  /\ timer = [c \in Campaigns |-> 0]
  /\ left = [c \in Campaigns |-> Length]
  /\ steps = [c \in Campaigns |-> <<>>]
  /\ last = [c \in Campaigns |-> Gap]
  /\ reason = [c \in Campaigns |-> "error"]
  /\ term = {} /\ pidfile = {} /\ stopfile = {}
  /\ state = [c \in Campaigns |-> "none"]
  /\ staff = {}
  /\ evidence \in BOOLEAN
  /\ faults = 0 /\ signals = 0
  /\ sinceS1 = [c \in Campaigns |-> Gap]
  /\ settled = Settle
  /\ orphaned = FALSE

Alive(c) == pc[c] \notin {"off", "gone"}

\* running_campaign: a campaign's directory with a pid file whose process answers.
\* Another process may have the number of one that has died, so any of those may answer.
Answers == {live \in SUBSET pidfile : {c \in pidfile : Alive(c)} \subseteq live}

-----------------------------------------------------------------------------
(* start and stop, typed by the operator.                                  *)

InProgress(c) == start[c] \in {"checked", "made", "spawned"}

StartChecks(c) ==
  /\ start[c] = "no"
  /\ \A d \in Campaigns : d < c => start[d] # "no"
  /\ Alone => \A d \in Campaigns : ~InProgress(d)
  /\ {} \in Answers
  /\ start' = [start EXCEPT ![c] = "checked"]
  /\ UNCHANGED <<pc, timer, left, term, pidfile, stopfile, state, reason, episode, accounts, bounds>>

StartMakesDirectory(c) ==
  /\ start[c] = "checked"
  /\ start' = [start EXCEPT ![c] = "made"]
  /\ state' = [state EXCEPT ![c] = "waiting"]
  /\ UNCHANGED <<pc, timer, left, term, pidfile, stopfile, reason, episode, accounts, bounds>>

StartSpawns(c) ==
  /\ start[c] = "made"
  /\ start' = [start EXCEPT ![c] = "spawned"]
  /\ pc' = [pc EXCEPT ![c] = "begin"]
  /\ UNCHANGED <<timer, left, term, pidfile, stopfile, state, reason, episode, accounts, bounds>>

StartWritesPid(c) ==
  /\ start[c] = "spawned"
  /\ start' = [start EXCEPT ![c] = "told"]
  /\ pidfile' = pidfile \cup {c}
  /\ UNCHANGED <<pc, timer, left, term, stopfile, state, reason, episode, accounts, bounds>>

\* cmd_stop asks the first campaign that answers, in the order of the names.
Stop ==
  /\ \E live \in Answers : \E c \in live :
        /\ \A d \in live : c <= d
        /\ stopfile' = stopfile \cup {c}
  /\ UNCHANGED <<pc, timer, left, term, starting, state, reason, episode, accounts, bounds>>

Signal(c) ==
  /\ Alive(c) /\ signals < MaxSignals
  /\ term' = term \cup {c}
  /\ signals' = signals + 1
  /\ UNCHANGED <<pc, timer, left, starting, stopfile, state, reason, episode, accounts, faults>>

-----------------------------------------------------------------------------
(* cmd_run: the body.  A signal is handled between two commands, so every  *)
(* step of the body waits for its sleep to end and has no signal pending.  *)

Ready(c, at) == pc[c] = at /\ c \notin term /\ timer[c] = 0

Go(c, to) == pc' = [pc EXCEPT ![c] = to]

\* What a body holds in its variables goes with it.
Die(dead) ==
  /\ pc' = [c \in Campaigns |-> IF c \in dead THEN "gone" ELSE pc[c]]
  /\ timer' = [c \in Campaigns |-> IF c \in dead THEN 0 ELSE timer[c]]
  /\ left' = [c \in Campaigns |-> IF c \in dead THEN 0 ELSE left[c]]
  /\ steps' = [c \in Campaigns |-> IF c \in dead THEN <<>> ELSE steps[c]]
  /\ last' = [c \in Campaigns |-> IF c \in dead THEN Gap ELSE last[c]]
  /\ reason' = [c \in Campaigns |-> IF c \in dead THEN "error" ELSE reason[c]]

Finish(c, why) ==
  /\ Go(c, "finish")
  /\ reason' = [reason EXCEPT ![c] = why]

\* An account whose removal fails stays, and remove_staff carries on.
RemoveStaff ==
  \E stuck \in SUBSET staff :
     /\ staff' = stuck
     /\ orphaned' = (stuck # {})
     /\ IF stuck = {} THEN UNCHANGED faults ELSE faults < MaxFaults /\ faults' = faults + 1

SetsTrap(c) ==
  /\ Ready(c, "begin") /\ Go(c, "sweep")
  /\ UNCHANGED <<timer, left, term, starting, stopfile, state, reason, episode, accounts, bounds>>

Sweeps(c) ==
  /\ Ready(c, "sweep") /\ Go(c, "create")
  /\ RemoveStaff
  /\ UNCHANGED <<timer, left, term, starting, stopfile, state, reason, episode, settled, signals>>

\* A slip: recording begins at once.
CreatesStaffAndRecords(c) ==
  /\ Ready(c, "create") /\ staff = {}
  /\ staff' = Staff
  /\ settled' = 0
  /\ Go(c, "settle")
  /\ UNCHANGED <<timer, left, term, starting, stopfile, state, reason, episode, orphaned, bounds>>

CreatesStaff(c) ==
  /\ Ready(c, "create") /\ staff = {}
  /\ staff' = Staff
  /\ settled' = 0
  /\ Go(c, "settle")
  /\ timer' = [timer EXCEPT ![c] = Settle]
  /\ UNCHANGED <<left, term, starting, stopfile, state, reason, episode, orphaned, bounds>>

\* useradd fails: of an account that is still there, or for a reason of its own.
CreationFails(c) ==
  /\ Ready(c, "create")
  /\ IF staff # {} THEN UNCHANGED faults ELSE faults < MaxFaults /\ faults' = faults + 1
  /\ \E made \in SUBSET Staff : staff' = staff \cup made
  /\ settled' = 0
  /\ Finish(c, "error")
  /\ UNCHANGED <<timer, left, term, starting, stopfile, state, episode, orphaned, signals>>

Settles(c) ==
  /\ Ready(c, "settle") /\ Go(c, "loop")
  /\ state' = [state EXCEPT ![c] = "running"]
  /\ \E t \in First : timer' = [timer EXCEPT ![c] = t]
  /\ UNCHANGED <<left, term, starting, stopfile, reason, episode, accounts, bounds>>

\* The loop looks every few seconds; its timer is the time to the next episode.
ReachesDeadline(c) ==
  /\ pc[c] = "loop" /\ c \notin term
  /\ left[c] = 0
  /\ Finish(c, "deadline")
  /\ timer' = [timer EXCEPT ![c] = 0]
  /\ UNCHANGED <<left, term, starting, stopfile, state, episode, accounts, bounds>>

SeesStop(c) ==
  /\ pc[c] = "loop" /\ c \notin term
  /\ left[c] > 0 /\ c \in stopfile
  /\ Finish(c, "stopped")
  /\ timer' = [timer EXCEPT ![c] = 0]
  /\ UNCHANGED <<left, term, starting, stopfile, state, episode, accounts, bounds>>

PicksEpisode(c) ==
  /\ Ready(c, "loop") /\ Go(c, "step")
  /\ left[c] > 0 /\ c \notin stopfile
  /\ \E kind \in Kinds : steps' = [steps EXCEPT ![c] = kind]
  /\ UNCHANGED <<timer, left, term, starting, stopfile, state, reason, last, sinceS1, evidence,
                 accounts, bounds>>

-----------------------------------------------------------------------------
(* run_step and record_run.                                                *)

IsS1(c) == Head(steps[c]) = "S1"

\* A slip: the hold is one tick too short.
HoldsTooShort(c) ==
  /\ Ready(c, "step") /\ Go(c, "held")
  /\ timer' = [timer EXCEPT ![c] = IF IsS1(c) /\ last[c] < Gap THEN Gap - last[c] - 1 ELSE 0]
  /\ UNCHANGED <<left, term, starting, stopfile, state, reason, episode, accounts, bounds>>

\* An S1 run is held until MIN_S1_GAP has passed since the end of the last one.
Holds(c) ==
  /\ Ready(c, "step") /\ Go(c, "held")
  /\ timer' = [timer EXCEPT ![c] = IF IsS1(c) /\ last[c] < Gap THEN Gap - last[c] ELSE 0]
  /\ UNCHANGED <<left, term, starting, stopfile, state, reason, episode, accounts, bounds>>

RunsScenario(c) ==
  /\ Ready(c, "held") /\ Go(c, "running")
  /\ UNCHANGED <<timer, left, term, starting, stopfile, state, reason, episode, accounts, bounds>>

\* invoke-scenario.sh succeeds or fails; it may fail before it makes its directory.
ScenarioEnds(c) ==
  /\ pc[c] = "running" /\ Go(c, "ran")
  /\ evidence' \in {evidence, TRUE}
  /\ sinceS1' = IF IsS1(c) THEN [sinceS1 EXCEPT ![c] = 0] ELSE sinceS1
  /\ UNCHANGED <<timer, left, term, starting, stopfile, state, reason, steps, last, accounts, bounds>>

NotesEnd(c) ==
  /\ Ready(c, "ran") /\ Go(c, "find")
  /\ last' = IF IsS1(c) THEN [last EXCEPT ![c] = 0] ELSE last
  /\ UNCHANGED <<timer, left, term, starting, stopfile, state, reason, steps, sinceS1, evidence,
                 accounts, bounds>>

\* The run is recorded; the next step, or the next episode, follows after a pause.
Records(c) ==
  /\ Ready(c, "find") /\ evidence
  /\ steps' = [steps EXCEPT ![c] = Tail(@)]
  /\ Go(c, IF Tail(steps[c]) = <<>> THEN "loop" ELSE "step")
  /\ \E t \in (IF Tail(steps[c]) = <<>> THEN Between ELSE Pauses) : timer' = [timer EXCEPT ![c] = t]
  /\ UNCHANGED <<left, term, starting, stopfile, state, reason, last, sinceS1, evidence,
                 accounts, bounds>>

\* find fails where no scenario has ever made the directory, and pipefail and errexit end the body.
FindFails(c) ==
  /\ Ready(c, "find") /\ ~evidence
  /\ Finish(c, "error")
  /\ UNCHANGED <<timer, left, term, starting, stopfile, state, episode, accounts, bounds>>

-----------------------------------------------------------------------------
(* Signals, and finish, which hangs off EXIT.                              *)

\* A slip: the trap is set after the accounts are created.
DiesUntrappedLater(c) ==
  /\ pc[c] \in {"begin", "sweep", "create", "settle"} /\ c \in term
  /\ Die({c})
  /\ term' = term \ {c}
  /\ UNCHANGED <<starting, stopfile, state, sinceS1, evidence, accounts, bounds>>

\* Before the trap is set, a signal is the end.
DiesUntrapped(c) ==
  /\ pc[c] = "begin" /\ c \in term
  /\ Die({c})
  /\ term' = term \ {c}
  /\ UNCHANGED <<starting, stopfile, state, sinceS1, evidence, accounts, bounds>>

\* Handled when the command in the foreground has ended; the loop's is a short sleep.
IsInterrupted(c) ==
  /\ c \in term
  /\ pc[c] \in {"sweep", "create", "settle", "loop", "step", "held", "ran", "find"}
  /\ pc[c] = "loop" \/ timer[c] = 0
  /\ IF pc[c] = "create"
       THEN \E made \in SUBSET Staff : staff' = staff \cup made /\ settled' = 0
       ELSE UNCHANGED <<staff, settled>>
  /\ Finish(c, "interrupted")
  /\ term' = term \ {c}
  /\ timer' = [timer EXCEPT ![c] = 0]
  /\ UNCHANGED <<left, starting, stopfile, state, episode, orphaned, bounds>>

\* A slip: the pid file goes first.
FinishRemovesPidFirst(c) ==
  /\ Ready(c, "finish") /\ Go(c, "ending")
  /\ RemoveStaff
  /\ pidfile' = pidfile \ {c}
  /\ UNCHANGED <<timer, left, term, start, stopfile, state, reason, episode, settled, signals>>

FinishRemovesStaff(c) ==
  /\ Ready(c, "finish") /\ Go(c, "ending")
  /\ RemoveStaff
  /\ UNCHANGED <<timer, left, term, starting, stopfile, state, reason, episode, settled, signals>>

FinishWritesState(c) ==
  /\ Ready(c, "ending") /\ Go(c, "ended")
  /\ state' = [state EXCEPT ![c] = "ended"]
  /\ UNCHANGED <<timer, left, term, starting, stopfile, reason, episode, accounts, bounds>>

FinishRemovesPid(c) ==
  /\ Ready(c, "ended") /\ Die({c})
  /\ pidfile' = pidfile \ {c}
  /\ UNCHANGED <<term, start, stopfile, state, sinceS1, evidence, accounts, bounds>>

\* A signal while finish runs: its handler exits, and bash runs no EXIT trap twice.
FinishIsCut(c) ==
  /\ pc[c] \in {"finish", "ending", "ended"} /\ c \in term
  /\ Die({c})
  /\ term' = term \ {c}
  /\ \E kept \in SUBSET staff :
        /\ pc[c] # "finish" => kept = staff
        /\ staff' = kept
        /\ orphaned' = (kept # {})
  /\ UNCHANGED <<starting, stopfile, state, sinceS1, evidence, settled, bounds>>

-----------------------------------------------------------------------------

\* Every process dies, the starts in progress too; what is on the disk stays.
PowerCut ==
  /\ faults < MaxFaults /\ faults' = faults + 1
  /\ Die({c \in Campaigns : Alive(c)})
  /\ start' = [c \in Campaigns |-> IF InProgress(c) THEN "told" ELSE start[c]]
  /\ term' = {}
  /\ orphaned' = (staff # {})
  /\ UNCHANGED <<pidfile, stopfile, state, sinceS1, evidence, staff, settled, signals>>

Older(age, cap) == IF age < cap THEN age + 1 ELSE age

Tick ==
  /\ timer' = [c \in Campaigns |-> IF timer[c] > 0 THEN timer[c] - 1 ELSE 0]
  /\ left' = [c \in Campaigns |-> IF Alive(c) /\ left[c] > 0 THEN left[c] - 1 ELSE left[c]]
  /\ last' = [c \in Campaigns |-> Older(last[c], Gap)]
  /\ sinceS1' = [c \in Campaigns |-> Older(sinceS1[c], Gap)]
  /\ settled' = Older(settled, Settle)
  /\ UNCHANGED <<pc, term, starting, stopfile, state, reason, steps, evidence, staff, orphaned, bounds>>

Body(c) ==
  \/ SetsTrap(c) \/ Sweeps(c) \/ CreatesStaff(c) \/ CreationFails(c) \/ Settles(c)
  \/ ReachesDeadline(c) \/ SeesStop(c) \/ PicksEpisode(c)
  \/ Holds(c) \/ RunsScenario(c) \/ ScenarioEnds(c) \/ NotesEnd(c) \/ Records(c) \/ FindFails(c)
  \/ DiesUntrapped(c) \/ IsInterrupted(c)
  \/ FinishRemovesStaff(c) \/ FinishWritesState(c) \/ FinishRemovesPid(c) \/ FinishIsCut(c)

Start(c) == StartChecks(c) \/ StartMakesDirectory(c) \/ StartSpawns(c) \/ StartWritesPid(c)

Next ==
  \/ \E c \in Campaigns : Start(c) \/ Signal(c) \/ Body(c)
  \/ Stop
  \/ PowerCut
  \/ Tick

Spec == Init /\ [][Next]_vars

-----------------------------------------------------------------------------

TypeOK ==
  /\ start \in [Campaigns -> {"no", "checked", "made", "spawned", "told"}]
  /\ pc \in [Campaigns -> {"off", "begin", "sweep", "create", "settle", "loop", "step", "held",
                           "running", "ran", "find", "finish", "ending", "ended", "gone"}]
  /\ timer \in [Campaigns -> Nat]
  /\ left \in [Campaigns -> 0..Length]
  /\ steps \in [Campaigns -> Seq({"S1", "S2", "S3"})]
  /\ last \in [Campaigns -> 0..Gap]
  /\ reason \in [Campaigns -> {"error", "deadline", "stopped", "interrupted"}]
  /\ term \subseteq Campaigns /\ pidfile \subseteq Campaigns /\ stopfile \subseteq Campaigns
  /\ state \in [Campaigns -> {"none", "waiting", "running", "ended"}]
  /\ staff \subseteq Staff
  /\ evidence \in BOOLEAN
  /\ faults \in 0..MaxFaults /\ signals \in 0..MaxSignals
  /\ sinceS1 \in [Campaigns -> 0..Gap]
  /\ settled \in 0..Settle
  /\ orphaned \in BOOLEAN

Recording == {"loop", "step", "held", "running", "ran", "find"}

\* The standing accounts come out however a campaign ends: there are none but those of a
\* campaign that has still to run finish, or that was cut off (run-campaign.sh:269-293).
StaffComeOut ==
  staff # {} /\ ~orphaned => \E c \in Campaigns : pc[c] \in Recording \cup {"settle", "finish"}

\* Where starts are typed one after the other, a campaign is not started while another one
\* still runs, its finish included (cmd_start's refusal and the order of finish).
OneCampaign ==
  \A c, d \in Campaigns : Alive(c) /\ Alive(d) => c = d

\* Nothing is recorded before the alerts of the accounts' creation have passed (line 299).
SetupOutside ==
  \A c \in Campaigns : pc[c] \in Recording => settled = Settle

\* Two S1 runs of a campaign never come closer than MIN_S1_GAP, from the end of one to the
\* start of the next, whatever the steps and pauses between them (lines 203-222).
S1KeepApart ==
  [][\A c \in Campaigns :
       pc[c] = "held" /\ pc'[c] = "running" /\ IsS1(c) => sinceS1[c] = Gap]_vars

\* "Never fails the campaign": a campaign that records ends at its deadline, by its STOP file
\* or by a signal (lines 196-198).
ScenariosNeverEndIt ==
  [][\A c \in Campaigns :
       pc[c] \in Recording /\ pc'[c] = "finish" => reason'[c] # "error"]_vars
=============================================================================
