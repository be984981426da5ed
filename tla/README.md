# Specifications of the Wazuh MITRE ATT&CK lab

The lab is a set of virtual machines (a Wazuh manager and one or two endpoints
that run attack scenarios), the scripts that build and remove them, a dashboard
that starts, stops and watches them, the campaigns that record runs of the
scenarios, and the scoring of what the manager saw, with the datasets, splits and
evaluations behind its model. This directory holds TLA+
models of those programs, the TLC configurations that check them on small
instances, and TLAPS proofs of what matters most for every instance.

    cd tla
    tlc -config LabSequence_order.cfg MCLabSequence     # any line of the table of runs
    tlapm LabSequence_proofs.tla                        # any *_proofs module

- [The system and its parts](#the-system-and-its-parts)
- [Modules, runs and theorems at a glance](#modules-runs-and-theorems-at-a-glance)
- [LabSequence](#labsequence), [Baseline](#baseline-and-baselinestore),
  [StatusPoll](#statuspoll), [PagePolling](#pagepolling),
  [LabLifecycle](#lablifecycle), [Campaign](#campaign), [Scoring](#scoring),
  [Retention](#retention), [Offline](#offline)
- [Disagreements with comments and documents](#disagreements-with-comments-and-documents)
- [What is not modelled](#what-is-not-modelled), [The plan](#the-plan)

## The system and its parts

| Part | Source | State it keeps | Operations |
|---|---|---|---|
| Lab sequence | `dashboard/Start-LabDashboard.ps1` | `Sequence`, `LastSequencePoll`, the health and probe caches, background jobs | `/api/state`, `/api/lab`, `/api/action`, `/api/service` |
| Status poll | the script that listener sends the manager | none between polls | fetch, group into windows, fold, score |
| Baseline store | the `lab-dashboard-baseline` helper in `dashboard/Enable-LabDashboard.ps1` | a JSON file on the manager | fold, preview, report |
| Page | `dashboard/dashboard.html` | its timeout, `paused`, `seqRunning` | refresh, buttons, visibility |
| Build and removal | `setup/New-Lab.ps1`, `Remove-Lab.ps1`, `backends/*.psm1` | none of their own: the hypervisor's objects and the storage directory | build, remove, of a profile or one VM |
| Campaign | `agents/linux/run-campaign.sh` | a directory per campaign: `campaign.pid`, `campaign.state`, `STOP`, `runs.jsonl`; the standing accounts | start, stop, status, the body, finish |
| Scenarios | `agents/linux/invoke-scenario.sh`, `agents/windows/Invoke-Scenario.ps1` | an account or a task while one runs, evidence files | S1, S2, S3 |
| Copies of records | `scoring/Sync-LabCampaign.ps1` | the host's `runs.jsonl` | copy, merge |
| Scoring | `scoring/scorer/score.py` | none (pure functions of alerts and a baseline) | features, score, severity |
| Retention | `manager/configure-retention.py` | the indexer's policy and managed indices | health, get, put, add, explain |
| Images and secrets | `setup/Get-LabImage.ps1`, `QcowImage.ps1`, `New-LabSecrets.ps1` | files in a cache | fetch, verify, convert, create |
| Enrolment | `setup/Install-LabAgents.ps1`, `agents/**` | keys on the manager and the endpoints | key, copy, install, clean |
| Import, training, evaluation | `scoring/import-ait.py`, `make-synthetic.py`, `train.py`, `features.py`, `baseline.py`, `evaluate*.py`, `export-model.py`, `report/` | a cache of two files per network, the episodes, `folds.jsonl`, `adaptive.jsonl`, the model | import, split, fold, walk, export, report |

How they interact: the page polls the listener, and the poll is the only thing
that advances a bring-up or a take-down, so the page's timer is the sequence's
clock. The listener hands power actions to background jobs and asks the manager
over SSH: for its units and agents (the health answer) and, in a longer script,
for recent alerts, which that script folds into the baseline file through the
helper and scores against it. The build scripts make and remove the VMs that the
sequence starts and stops. Campaigns run on the Linux endpoint beside all this;
their records are later copied to the host, joined with alerts and scored. Offline,
an archive of other networks' alerts is cut into the same windows the listener
makes of live ones, a model is fitted on them, judged with each network held out
in turn, and exported to the file that the scorer on the manager reads.

What is hard in each, and what has to hold for it to be correct:

| Part | Hard behaviour | Correctness |
|---|---|---|
| Lab sequence | states read before an SSH round trip and used after it; cached answers; gaps between polls given back to a deadline; jobs that outlive the sequence | endpoints come after the manager's services and go before the manager; deadlines bounded and patient; a sequence ends |
| Status poll | two fetches at two times, ceilings that cut windows, an orphaned earlier poll, a file that reads as empty | a window is not scored against itself and none is shut out of the baseline, but by one that began between a poll's fetches |
| Baseline store | unlocked read, fold, replace by several processes; killed between steps; limits | a window counts once; the samples agree with the windows counted; previews leave nothing |
| Page | timeouts, answers in flight, tabs hidden and shown, several pages | a page in view polls, a paused one does not, a sequence is driven to its end |
| Build and removal | any step fails or is the last; the next run sees only what is left | an installed disk is never written over; a network is not taken from under a VM; a clean build is whole; what was removed can be rebuilt |
| Campaign | signals and power cuts at any step, a pid file as the only lock, sleeps | accounts come out; one campaign at a time; runs apart; setup not recorded |
| Scenarios, copies | a scenario stopped half way; copies of a file that is still written | nothing a scenario made is left; no record is lost twice over |
| Scoring | a sliding window over sorted times; thresholds with little data; boundaries; the same numbers computed by two programs | the window equals its definition; a baseline never makes a little a lot; a chain is never routine and of one endpoint; what is scored is what was fitted |
| Retention | requests that are tried again and may have been done, other clients, reruns | "ready" is true when it is said; a run that nobody disturbed does not fail by what it did itself; reruns get done |
| Import, training, evaluation | hours of work stopped anywhere and run again on what is left; reads that end early; ties in a ranking; leaks between the sides of a split | nothing is made from part of a network; measured folds stay; every fold is reported in the end; no network on two sides; ranks do not depend on the order of the file |
| Images and secrets | an interrupted download or conversion, reruns | what is taken for prepared is whole |

`PROJECT.json` lists every hazard at its line, with the properties that cover it.

## Modules, runs and theorems at a glance

| Module | What it is | Composed with |
|---|---|---|
| `LabSequence` | the listener's sequence over VMs, jobs, guests and time | - |
| `BaselineStore` | abstract: what the helper promises | - |
| `Baseline` | the helper, step by step, any number of processes | implements `BaselineStore` |
| `StatusPoll` | the poll's script, two fetches and its calls of the helper | implements `BaselineStore`, uses what it promises |
| `PagePolling` | the pages and the server's sequence as a counter of requests | stands for `LabSequence`'s poller |
| `LabLifecycle` | build and removal over both hypervisors | - |
| `Campaign` | start, stop, the body and `finish` of campaigns | - |
| `BusiestMinute` | the loop that finds the busiest minute, step by step | used by `Scoring` |
| `Window`, `Severity` | what the scorer computes from a window, and from a baseline | `Severity` extends `Window` |
| `Dataset` | windows of a capture, buckets of the live stream, every split | used by `Evaluation` |
| `Evaluation` | rankings, cutoffs, operating points, the adaptive walk | extends `Severity` and `Dataset` |
| `Synthetic` | the synthetic stream | used by `Scoring` |
| `Scoring` | what all five promise, on given cases | composes them |
| `Retention` | `configure-retention.py` against an indexer that others use | - |
| `Offline` | the import's cache, the folds, the adaptive rows and the model on disk | - |
| `MC*` | instances for TLC | the module they extend |
| `Polling_proofs` | theorems of `PagePolling` and `StatusPoll` | extends both |
| other `*_proofs` | theorems of the module they are named for | extend it |

Definitions marked "Slip" are plausible bugs: no specification uses them. Each
takes the place of the definition beneath it in one experiment, which shows that
the property it is meant for would notice.

| Run | Configuration | Result | Distinct states |
|---|---|---|---|
| `sequence_order` | `LabSequence_order.cfg` | all hold | 4.4 million |
| `sequence_ends` | `LabSequence_ends.cfg` | holds | 553 000 |
| `baseline_overlap` | `Baseline_overlap.cfg` | all hold | 675 000 |
| `poll_prompt` | `StatusPoll_prompt.cfg` | all hold | 710 000 |
| `poll_store` | `StatusPoll_store.cfg` | holds (refinement) | 1.3 million |
| `poll_straddle` | `StatusPoll_straddle.cfg` | violated: disagreement 1 | |
| `page_driven` | `PagePolling_driven.cfg` | all hold | 125 000 |
| `lifecycle_scripts` | `LabLifecycle_scripts.cfg` | all hold | 387 000 |
| `campaign_nights` | `Campaign_nights.cfg` | all hold | 698 000 |
| `scoring_cases` | `Scoring_cases.cfg` | all hold | 41 000 |
| `retention_reruns` | `Retention_reruns.cfg` | all hold | 151 000 |
| `offline_stopped` | `Offline_stopped.cfg` | all hold | 657 000 |

Two more configurations repeat `poll_prompt` with other bounds (see StatusPoll), and
four reproduce disagreements listed below, each by one
violated property: `PagePolling_hidden.cfg`, `LabLifecycle_rebuild.cfg` (of
`MCLabLifecycle`), `Campaign_fails.cfg` and `LabSequence_missed.cfg` (of
`MCLabSequence`).

The properties proved in TLAPS, for every value of the constants that satisfies
the module's assumptions: all four of `sequence_order`; all five of
`baseline_overlap`, and that one helper at a time implements `BaselineStore`;
`ScoredAgainstOthers` and `NothingSkipped` of `poll_prompt`, for any number of
polls that are over within a tick, alerts arriving in their course, and read the
indexer (what the run assumes, too); `StoreSpec` of `poll_store`, for one process of the
script; `KeepsPolling` of `page_driven`; all four of `lifecycle_scripts`; all four
of `campaign_nights`; `BusiestMinuteFound`, `BaselineOnlyRaisesTheBar`,
`WorstEndpointShown`, `WarmupGatesTheLayer`, `NetworksHeldApart`, `WindowsAsLive`,
`ScorerReadsWhatWasFitted`, `RankingOrderFree`, `OperatingPointsHonest` and
`StreamAsRaised` of `scoring_cases`; `ReadyIsManaged` and
`FailsForCause` of `retention_reruns`; `EpisodesFromWholeMembers` and `FinishedFoldsKept` of
`offline_stopped`. The type invariants of these modules are proved as well and are
no longer part of the runs; so is `PausedIsQuiet`.

Checked by TLC only: liveness (`SequenceEnds`, `SequenceDriven`,
`QuietInBackground`, `Settles`, `EveryFoldReported`), which is beyond the prover.
Every invariant that a passing run checks has a theorem. The bounds on the user's presses, faults and calls
(`MaxRequests`, `MaxFaults`, ...) are constants like any other, so what is proved
holds for any number of them.

## LabSequence

**State.** `vm`, `jobs`, `boot`, `table` are the world: the hypervisor's power
states, the background jobs, how far the manager's guest has booted and which
agents it lists. `kind`, `phase`, `note`, `left`, `idle` are `$script:Sequence`
and `LastSequencePoll`; `health`, `hAge`, `probe` the caches; `view` a
`/api/state` that waits for its SSH round trip, with the VM states it read
before. Clock readings are kept as differences, which is all the code uses of
them. `gap`, `seen`, `carry`, `svcAge`, `calm`, `missed` are history and read by no
action.

**Actions.** A poll is one action when it does not ask the manager
(`PollWithoutSsh`), and otherwise two with the manager's reading in between
(`PollAsksManager`, `ManagerReports`, `PollAnswered`): the world moves while the
listener waits, and the states the sequence is advanced with are those of the
start. `UpdateLabSequence` is `Update-LabSequence` whole: the gap given back, the
test, the next phase entered with its power requests, the deadline. The buttons
are `StartLabSequence`, `CancelSequence`, `InvokeVmAction`, `InvokeServiceAction`;
`Relaunch` closes the listener and starts it again. Jobs run, fail or find
nothing to do on their own. Any request may read a VM as not found, because the
read failed or returned nothing (`Reads`), and then counts it as not running; the
power request that meets such a read throws and leaves out those after it (`Ask`).

**Bounds.** A tick is about ten seconds. The grace (15 s) and the health interval
(10 s) become one tick, the SSH timeout (22 s) one or two and the phase timeouts
one or two, so that a gap is shorter or longer than the grace, a cached answer
fresh or stale, a deadline met or missed, each by one tick. One endpoint: the two phases of
endpoints quantify over all of them, and the proofs are for any number. Two
buttons and one fault reach a second sequence behind a cancelled one, a click in
the middle of one, a power loss between two phases or a poll with failed reads.
`sequence_order` lets a click start or restart a VM; `sequence_ends` takes the
force-off, round trips of two ticks and gaps of up to three, and no fault.

**Properties.**
`ManagerClosesLast` (no endpoint runs when the manager is asked to stop, unless
`missed`: a poll had one that ran as not found, see disagreement 5),
`EndpointsAfterServices` (the endpoints are started on an answer that is not
older than the health interval and one round trip), `DeadlineBounded` and
`GivesUpAfterWatching` (the two sides of the gap correction: never too patient,
but for the idle time that precedes a sequence, and never too hasty, but for the
first gap of a listener), and `SequenceEnds`.

**Fairness.** `FairSpec` adds weak fairness of polls and of time. The page
provides the polls, as `SequenceDriven` of `PagePolling` says, and the SSH client
is killed at its timeout, which is why `PollAnswered` is part of `Poll`. That is
not enough for a sequence to end: with polls that are all further apart than the
grace (a round trip may take 22 s, the grace is 15) all the time is given back and
the deadline never comes. `SequenceEnds` has the weakest premise that excludes
this: again and again the sequence is polled after a gap within the grace. The
page's cycle of 3 s provides it, since an answer is kept for 10 s.

**Proof.** `TimeInv` relates what is ahead of a phase, what was watched and what
may still be given back; the two deadline properties follow from it by
arithmetic. `DeadlineBounded` alone is not inductive: a gap that is given back
at the next poll would raise `left` beyond anything it says. `ServicesInv` bounds
the age of an answer wherever it is: on its way, in the cache, or just given.
`CalmInv` says that no start of an endpoint is pending and that what a waiting
poll saw stopped is still stopped, so that a stale view is a safe one.

## Baseline and BaselineStore

**State.** `file` is `baseline.json`, per agent the number of windows, the newest,
the samples and when each rule was last seen; `proc` the helper processes, each
with its own copy. `handed` is history.

**Actions.** `Call` reads the file and the request; whatever goes wrong with the
file, the call goes on with an empty state (`read_state`, 382-390). `FoldNext` takes the next
observation in the order of windows; `Finish` is `os.replace` (nothing for a
preview, or when nothing changed); `Die` a kill, or a failed write, at any point
in between. There is no lock, as in the code.

**Bounds.** Two helpers and three calls: a call that overlaps two others, one of
them begun after the other ended. Four windows, a series of two samples and two
rules, so that trimming and forgetting happen; one agent, for agents only meet
in the order of a preview's observations, which the proofs cover for any number.
What a window measures is abstracted to its number, hours and counts of rules
are left out, and so are requests that do not parse and observations without an
agent's name.

**Properties.** `FoldedOnce`, `SamplesCounted`, `RulesRemembered`,
`PreviewsNotKept`, `HistoryBefore`. What overlapping calls may lose is a fold, what a
failed reading may lose is all that was folded; the next poll hands over again the
windows it still sees. What neither does is count one twice in what is kept.

**Proof.** `SoundInv` says of the file and of every process's copy that it is
what some order of folds made: ascending samples ending in the newest window, as
many as were counted up to the limit, the newest window's rules remembered. That
it holds of the copies is what makes it inductive. `HandedInv` follows what each
copy was made from, `CountsInv` what a call has folded against the file it read.
`AloneImplementsStore`: with one process, the file refines `BaselineStore`, each
call being one atomic fold or nothing (`AloneInv`: the call holds the file as it is,
or could not read it). The store says of the latter what the code does: the call
`StartsOver`, from nothing and with what it was handed; no other step takes a window
back. With two processes it is not refined: a lost fold takes a window back.

## StatusPoll

**State.** The manager's clock, every alert so far (an agent and the tick it was
raised in), the observations that went into the baseline, and per process of the
script its two fetches and its copies of the baseline. `early` is history: what was
folded of windows that were newer than the folding poll's page.

**Actions.** `Fetch` (from the indexer, with its ceiling, or from the tail of a
log), `Open` (read the baseline), `WarmFetch` (the longer span, when an endpoint is
without history), `CallHelper` and `WarmFolded` or `Settled` (the two folds, each a
read and a replacement), `CallFails`, `Score`. Each reading of the baseline's file may
pass for an empty one (`Readings`), and a call that folded nothing leaves the file
alone (`Written`). Alerts arrive between any two steps (`Arrive`), those of a poll's
two fetches among them, and open new windows there.

**Bounds.** A window is two ticks, the spans of the fetches are such that windows
are cut, and so does the ceiling on documents. In `poll_prompt` a poll is over within
a tick (a poll's timeouts come to some two minutes, a window is five), in which alerts
go on arriving, and a second, orphaned poll runs beside it. One window is shown.
`StatusPoll_shown.cfg` repeats the run with two (2.1 million states) and
`StatusPoll_late.cfg` with polls in which the clock moves on by half a window (3.1
million, four minutes and a half); all hold. In `poll_straddle` the clock moves on,
too, and in `poll_store`: one poll at a time, two agents. Runs stop at `MaxTime`, so
they do not look for deadlocks. Left out: alerts the indexer gets late, and a change
of the manager's clock.

**Properties.** `NotScoredAgainstItself` is what the comments say, and
`poll_straddle` refutes it. `ScoredAgainstOthers` is what holds of it: a window is
scored against itself only if a poll in whose course it began has folded it, or on a
page that a newer window has overtaken (a poll that began later may have folded what
is still on that page). `NothingSkipped` (the second reason for folding the long span
first: the store takes only windows newer than its newest) says that what is behind a
page gets into the baseline, with two exceptions that the code has: windows that a
fetch may no longer return whole (`Whole`), and those shut out by a window that began
between a poll's two fetches. `StoreSpec` is the refinement of `BaselineStore` by whole
polls.

**Proof.** Of any number of polls (`PromptPollsScoreOthers`,
`PromptPollsSkipNothing`) that are over within a tick and take no tail of a log
(`Prompt`); the tail may show windows that the warm pass has folded. Within the tick
anything may arrive. `Kept` is the invariant, of the file and of every copy that any
poll has of it: each observation in it is behind every page there can still be, unless
newer windows begin (`Behind`, `Older`), or was folded early; and no whole window is
missing behind the newest one, unless one folded early shuts it out. `Fit` and
`WarmFit` say of a running poll's fetches that what it is going to fold is of that
kind, and `LaterMoment` that all this survives whatever arrives and the passing of
time. The copies are what makes it inductive: a poll that overlaps
others writes back a file that it read before them, or could not read, and what it
writes is kept all the same. `PageSpan` is at most `WarmSpan` by the defaults of
`Start-LabDashboard.ps1` (227, 233); with a page that reached further back than
the warm pass, a window could be shut out by it.

`AloneFoldsAsStore`: one process of the script, its polls one after the other,
whatever the clock does and wherever its calls and readings fail, implements
`BaselineStore`, each of its two folds being one atomic fold or nothing, and a fold
that could not read the file beginning anew. What is needed of the
state is that a call in progress has the file as its copy, or nothing, and that what it
is going to fold can be counted: windows in order and each newer than the newest.
One process is a hypothesis that cannot be dropped, prompt as the polls may be: of
two that copied the empty file, one folds the windows of its page (its long span
was refused); then the other folds its long span, which is older, and writes its own
copy back, and a window that the file had counted is gone until a page brings it
again. The last one to write wins, as in `Baseline`; what
survives an overlap is what `ScoredAgainstOthers` and `NothingSkipped` say.

## PagePolling

**State.** By page: whether the preflight gate covers it, `document.hidden`,
`paused`, `seqRunning` as last rendered, the timeout, requests on their way and
answers on their way; and the server's sequence as the number of requests until
it ends. The listener answers one request at a time; requests of one page may
reach it in any order, answers come in the order in which they were given.

**Actions.** `TimerFires`, `GateOpens`, `Hide`, `Show`, `Pause`, `Press` (a sequence's
buttons, a VM's, "Shut down all VMs", which begins with a reading of the state),
`Handle`, `Fails`, and the server's `Serve`.

**Bounds.** Two pages, two presses, one failure; the user adds no request while
one is in flight (`MaxCalls`), which bounds nothing the timers do. A sequence
takes two requests.

**Fairness.** Timers run out, answers are taken, the server answers. Nothing is
asked of the user.

**Properties.** `KeepsPolling`, `SequenceDriven`, `QuietInBackground`, and
`PausedIsQuiet`, which is proved. With `LeavesEarly = FALSE` a tab is hidden only
once it shows what its button did; with `TRUE`, see disagreement 2.

**Proof.** `KeepsPolling` and `PausedIsQuiet` by an invariant per page (`Alive`,
`Still`), in which an answer on its way counts as a cycle that goes on.

## LabLifecycle

**State.** The switch (or host-only interface), the NAT, each VM's definition
and what its directory holds (a fresh disk, or one a guest has written to), the
script that runs. The scripts keep no record of their own.

**Actions.** `NewLab` with its refusals, then the network's pieces, the copied
disk, the definition and its configuration, per VM; `RemoveLab` with what it
lists, then VM by VM, then the network. On Hyper-V errors of the backend's
cmdlets are printed and the script goes on (`errors`), so a copy that failed is
followed by the next step, until a step asks for the VM with `-ErrorAction Stop`: a
VM that was not made (`NoVm`) ends the script there. On VirtualBox they throw.
`Stops` ends a script anywhere, in the middle of a copy or between a VM and its
disks. `GuestRuns` makes a disk worth keeping, `Review` deletes unused files by
hand, as the refusal asks.

**Bounds.** Three VMs in two profiles, five scripts, three faults: enough to
build, break, remove, break and build again with a VM of the other profile
present. One script runs at a time; images, seeds and room on the disk are
taken to be there, what VMs there are is read truthfully, power is abstracted.

**Properties.** `InstalledDisksKept`, `BuiltWhole`, `NetworkGoesLast`,
`RebuildsOnHyperV`; on VirtualBox, see disagreement 3.

**Proof.** `Unused`: what a build is going to write over was empty when it began.
`Alone`: a removal that takes the network has only its own VMs left. `Clearing`,
with `DiskFirst`, and `Building` follow a removal and a build from VM to VM.

## Campaign

**State.** Per campaign how far its `start` and its body have come, the sleep it
is in, the time to its deadline, the steps of its episode, `LAST_S1_END`,
`FINISH_REASON`, pid file, STOP file, `campaign.state`, and a signal that bash has
not handled yet; the standing accounts on the endpoint. `sinceS1`, `settled`,
`orphaned` are history.

**Actions.** `start` in four steps, with the body beginning before the pid file
is written; the body's trap, sweep, creation, wait and loop; `run_step` as `Holds`,
`RunsScenario`, `ScenarioEnds`, `NotesEnd`, `Records` or `FindFails`; `finish` in three.
Signals are handled between two commands, and before the trap, or inside
`finish`, they end the body (`DiesUntrapped`, `FinishIsCut`). `PowerCut` ends every
process and leaves the files. Another process may have the number in an old pid
file (`Answers`).

**Bounds.** A tick is about 110 s: the gap of 330 s is three, the wait for the
accounts' alerts (180 s) two, the waits between episodes one to three. Two
campaigns, one fault, two signals: a signal in the middle of `finish` after one
in the body, and a campaign started behind one that was cut off. `Alone` is the
documented use, one start typed after the other. Both runs look for deadlocks:
time always passes. What a record says, the modes, logons and labels, background
activity, `status` and `simulate` are left out, and a scenario is one step.

**Properties.** `StaffComeOut`, `OneCampaign`, `SetupOutside`, `S1KeepApart`.

**Proof.** `Known` (what is alive has a pid file, or is the one start in
progress) makes `OneCampaign` inductive; the order of `finish` is what keeps it.
`Settling` (the rest of the wait and the time since the creation come to the
whole) gives `SetupOutside`, `Noted` (what the body knows of its last S1 run is no
older than the run) gives `S1KeepApart`. `OneCampaign` and `SetupOutside` assume
`Alone`.

## Scoring

**State.** Only the loop has any: `BusiestMinute` is the two-index pass that stands
four times in the code (`score.py` 60-65 and in `severity`, `_timing_row` of
`features.py`, `observation` of `evaluate_adaptive.py`), with `left`, `right` and
`busiest` as its variables and one action per branch. Everything else is a
function of what it is given; `Scoring` has a variable `given` that is one case of
one kind and never changes, so that a case is an initial state.

**Operators.** `Window` has `features`, `score`, `shape_only` and the full feature
rows; `Severity` the divisors, the rule profile, the six components, the chain and
the endpoint that looks worst; `Dataset` the windows of `import-ait.py`, the buckets
of the status script and the splits of `evaluate.py`, `evaluate_adaptive.py`,
`export-model.py`, `build-report.py`, `window-sensitivity.py`, `severity-ablation.py`
and `train.py`, and the sequences the GRU reads; `Evaluation` average precision,
cutoffs, the single rule, operating points, and the walk with one baseline that
every window joins after it was scored; `Synthetic` the stream of
`make-synthetic.py`, whose random draws are given.

**Units.** Times are whole seconds (tenths in `Synthetic`), medians doubled, means
in sixtieths, probabilities, shares and denominators in thousandths; average
precision in a unit that every number of rows divides. The rounding
of times to milliseconds is left out. The fold of a window in the walk keeps every
reading and rule; the limits on samples and rules are modelled in `Baseline`.

**Bounds.** Windows of up to five alerts for the loop, three for what is computed
from alerts of every kind, on both sides of the edges 59/60 and 119/120 s, of the
window edges and of phases that begin and end there; rankings of up to four with
ties; three networks of one to three episodes and four of one or two, in the order
of time and against it; walks of five windows; streams of three episodes of every kind at the
ends of their ranges, with the standing accounts' logins evenly spaced.
Thresholds that count windows are small (`WarmupWindows` 2 for 24, `NoveltySeen` 1
for 3, `RoutineSeen` 3 for 20, `RoutineMinHours` 2 for 3), so that few windows lie on
each side of each. The behaviours end with the loop, so the run does not look for
deadlocks.

**Properties.** `BusiestMinuteFound` (the loop against its definition),
`WindowsAsLive` (training and the live panel cut the same windows),
`ScorerReadsWhatWasFitted` (two programs, one row of numbers),
`BaselineOnlyRaisesTheBar`, `WorstEndpointShown`, `WarmupGatesTheLayer`,
`RankingOrderFree`, `OperatingPointsHonest`, `NetworksHeldApart`, `StreamAsRaised`.

**Proof.** `FindsBusiest`, for sorted times of any length and any span. What the
loop has found is an upper bound for every minute whose first alert is behind the
left edge (`MinutesSoFar`) and is itself some minute's (`FoundSoFar`); `Between`
says that the alerts between the edges are within a minute of the one at the left,
which is what makes a minute complete when its first alert is left behind.

`BaselineOnlyRaises`, for windows, baselines, thresholds and hours of any kind
(`SeveritiesAssumption` asks only that they have the shapes the code gives them).
Divisors learnt from a baseline are never below the fixed ones, a share falls as
its divisor rises, the routine factor is at most one and novelty's at most a
quarter more. That the rounding of six components and of the total costs no more
than four tenths is what `4 * with.score <= 5 * without.score + 4` leaves room for,
and the proof shows it to be enough.

`WorstEndpoint`, for any number of endpoints (`MixedAssumption`). An endpoint's
share of its own share is that share, so scoring it alone is what the loop over
endpoints did with it; scores are in 0 .. 1000, so of finitely many there is a
largest, and it is the one that is shown. That a chain of a window is its worst
endpoint's follows, since severities are made of one endpoint's alerts only.

`WarmupGates`, for networks of any length. `WalksAssumption` is that the windows
are those of one network, each later than the one before it, which is how the walk
sorts them. The invariant along the walk is `Holds`: after n windows the baseline
has counted n of them and the newest is the n-th, the rules it knows are those that
fired, and each was seen in as many windows as it fired in. `Walked` says of the
rows so far that each was made against such a baseline, before the fold of its own
window. That a window is folded at all needs the order of time, since the store
refuses what is not newer than its newest. A baseline that is not warm gives the
fixed divisors, no novelty and no routine, so both arms are one severity; and a fold
reports from the warm window on, so what it reports was gated by none.

`SplitsApart`, for any number of networks from two on, any number of episodes, in
any order in the file (`DividedAssumption`; the evaluations ask for three networks).
A sort is a line: an order in which no element is ahead of itself and of two one is
ahead of the other gives each element one place, as many places from the front as
elements are ahead of it (`LineIs`, by the pigeonhole principle). What is picked or
sorted therefore holds what it was made from, as often, and the sides of every split
are the episodes of their networks (`FoldIs`, `OthersFoldAlike`, `ExportIs`,
`SourceIs`). In the line of the names each name stands once, so the next one is
another one and each is the next of one (`ValidatedAt`, `EachValidates`). The cut of
the export is the least edge from the share on, and at an edge the networks differ.
Under a split by source what is trained on is among the names before the last, by
induction over the names. Under a split by time a cut of a sorted sequence has
nothing later before it (`TimeIs`).

`CutAsLive`, for any capture in order of time, any phases, width and cap
(`CapturesAssumption`). A window of `import-ait.py` ends at the first alert that is
not before the next edge (`EndsIs`), and the next one begins there at an edge that is
later, so what a window holds are all the alerts of one window of the clock, and each
alert is in one (`BlocksAre`, with `EdgesAre` for the arithmetic of the edges). Those
alerts lie together in the bucket as well, the latest first (`BucketsAre`), and
`FeaturesBackwards` says that no feature depends on that: the k-th smallest, a count
and a sum are the same from either end.

`ScorerAsFitted`, for any window (`BurstsAssumption` gives its alerts their shape),
any vocabulary and any length of the sequence. The scorer sorts by inserting one
number after the other and numpy sorts its own way; `AscendingOrders` says that the
insertion gives the numbers it was given, shuffled, in order (`Shuffles`, `InOrder`),
so its k-th number is the least one that k of them do not exceed, which is what the
other side is defined by (`SmallestIs`, `MediansAgree`). A sum of numbers is the sum of
how many of them reach each level (`Layers`), the sum of the counts of the rules is
the number of alerts since each has one index (`KindsAre`), and the gaps of a row
telescope to the time between the first and the last alert it keeps (`StepsLead`).

`PointsHonest`, for any number of episodes, any labels and any scores, tied or not
(`RankingsAssumption` asks for a label and a score of each, and for one episode at
least, without which `operating_points` has no row to quote). A ranking is a line like
the sorts above; what a cutoff lets through is its top, however the ties fall
(`TopOfRanking`), and what that catches is what its rows catch (`CutoffIs`). Down the
rows neither the attacks caught nor the false alarms grow fewer (`RowsDown`), so a
cutoff without a false alarm ends before the last clean row and one that catches half
ends no earlier than the first row that does (`PointsAre`). Scores without ties make
every row the end of a cutoff (`CutAtRow`).

`RankingsOrderFree`, under the same assumption. The code adds up, cut by cut, the hits
since the last cut times the precision at this one. All rows between two cuts tie, so
each of them has the second cut for the end of its block (`BlockIs`), and the sum over
the cuts is the sum over the hits of the precision at the end of their block
(`BlocksSum`, by induction down the ranking). That sum names no place of the ranking but
only how many score no less (`AveragePrecisionIs`), so another order of the episodes
shuffles its terms, and a sum of shuffled numbers is the same (`SumShuffled`; precisions
are integers, since `Unit` is a multiple of every number of rows, `UnitIs`). A cutoff and
a rule are judged by counts, which are of the same size in any order (`ScoresOrderFree`),
so the same one is chosen; none in the line has an f1 above the chosen one
(`FirstBestIs`; that "not above" is transitive for fractions is `NotAboveOf`), and a
cutoff that is no score lets through what the next score above it does (`CutoffAtScore`).

`StreamsAsRaised`, for any number of episodes, whatever is drawn of each within its
ranges, any pace and any interval of the logins (`StreamsAssumption`; the length of
the stream is the one `StreamAsRaised` names). A run of failed logons raises one every
`each` and the composite on the sixth (`LogonsAre`, by induction over the logons). Along
the runs of an episode (`AllRunsAre`) only the first can be one of failed logons, and it
has six of them only in an attack (`GrammarIs`). Along the episodes (`EpisodesAre`) every
such run begins at least `MinS1Gap` after the last one's end, and every episode begins a
rest after the last one's end. So the tries of two episodes are 330 s apart, and what a
window of 120 s holds is of one (`NearIsOwn`, `SixMeanAttack`). Fourteen tries may take
longer than the window, but six never do, and the composite comes before the seventh:
its window has exactly the first six (`SixAtComposite`). The windows around two
episodes, 10 s before and a minute after, are shorter than the rest between them, so
no login is in two (`FarWritten`). Adding the logins and sorting by time keep what was
raised (`SortedRaises`).

The sums, the sorting of times, the share of an endpoint, where windows begin, the
walk, the networks taken for training and the logons, runs and episodes of the stream
are recursive functions for these proofs, and the sorts and selections of the splits
and the ranking lines of places. Each lemma about a recursive function is an
induction, done on the least index at which it would fail.

## Retention

**State.** `policy` and `index` are the indexer's: the lab's policy and what each
alert index is under. `pc`, `attempt`, `waits`, `before`, `pending` are a run's. `cause`
is history: something went wrong, or another changed something, in this run.

**Actions.** One per request (`Ready`, `Lookup`, `Create`, `ReadBack`, `ReadBefore`,
`Add`, `ReadAfter`); no answer, in which the request may have been done, up to the
last try (`NoAnswer`); an answer that is an error or no JSON (`BadAnswer`); a health
that is not enough; an add that attaches some. A new day's index, one the indexer
attaches the policy to later, an index deleted, taken over, a policy changed, between any two. `Rerun` is
`tune-manager.sh` typed again. Whether two policies are the same is abstracted.

**Bounds.** Three indices, two tries, two waits for health, three faults, two
changes by others: enough for a create that was done unseen, tried again, in a
conflict, with an index that appears while the policy is attached.

**Fairness.** A request is answered or given up (curl's time limits, bounded
tries), and a run that failed is repeated, as its message asks. With faults
bounded `Settles` says that reruns get done unless something remains to be
reviewed by hand.

**Proof.** `Known` says what a run has read still holds while `cause` is false;
without it neither action property is inductive.

## Offline

**State.** On disk: the two files of every network's cache (`npz`, `meta`), the
episodes (`data`), the vocabulary beside them (`vocab`), the columns of every row of
the table of folds (`table`), the rows of the adaptive evaluation (`walked`), which of the two ends in a cut line
(`ragged`), and the model with what it quotes. In the process: what runs, the
network it is at, the table it holds.

**Actions.** The import network by network (`Cached`, `ReadsWhole`, `ReadsShort`,
`ShortUnseen`, `Saves`, `NamesSaved`), then `Windows`, `WritesEpisodes` and
`WritesVocabulary`; `Evaluate`, `TakesRow`,
`Fold`, `Rewrites`, `Reports`; `Adaptive` and `Records`; `Export` and `Exports`.
`Killed` stops whatever runs at any step, and cuts the file it was writing at any
line or within one.

**Bounds.** Three networks, one of which has text that is not UTF-8 (`BadText`), two
columns of which an earlier version had one, two stops, two short reads (one
retried, one fatal), one `--fresh`.

**Fairness.** A run goes on until it ends or is stopped, and the programs are run
again: the import until the episodes are whole, the others after it. It is strong
for the starts, because a start is not possible while another program runs.

**Properties.** `EpisodesFromWholeMembers`, `FinishedFoldsKept`,
`EveryFoldReported`. The first is of networks whose members are UTF-8, for the check
of a short read counts any other byte as three. The last excepts a stop in the middle
of writing a network's names, or of the vocabulary; see below.

**Proof.** `CacheSound` (a cache that has its names is whole; one that is being
written has none yet) and `RunSound` (an evaluation holds at least what is on disk)
are what is inductive; `WholeMembersOnly` and `MeasuredStays` follow for any
archive, any number of stops and short reads. The first is of the members that are
UTF-8, like the property.

## Disagreements with comments and documents

The first is a run of the table above, the next four have a configuration:

1. `poll_straddle`: a window that begins between a poll's two fetches is folded
   as a fragment, is then scored against itself, and shuts the windows before it
   out (`Start-LabDashboard.ps1:537`, against its comments at 211-213 and 534-536).
2. `PagePolling_hidden.cfg`: a tab hidden between a button and the rendering of what it
   started stops polling, and the sequence stands still
   (`dashboard.html:1728`, against 1718-1720).
3. `LabLifecycle_rebuild.cfg`: on VirtualBox the host-only interface outlives
   `Remove-Lab.ps1`, and `New-Lab.ps1` then refuses (`virtualbox.psm1:347`, against
   `Remove-Lab.ps1:152` and `New-Lab.ps1:89`).
4. `Campaign_fails.cfg`: the first scenario of an endpoint that fails before it makes
   the evidence directory ends the campaign (`run-campaign.sh:226`, against 196-198).
5. `LabSequence_missed.cfg`: a VM whose read fails is "not found" and counts as not
   running (`Start-LabDashboard.ps1:1528-1538`, 1744), so one failed read of an
   endpoint that runs lets a take-down stop the manager before it (against 107-109
   and 1821: "The endpoints stop first and the manager last").

Seen while modelling, within the models or next to them, and kept without a run:

- Sequence. The first phase of a second sequence is given the idle time before it
  (1764, comment 110-111); `carry` in `DeadlineBounded`. The first gap of a listener
  counts (comment 1760-1762); the exception in `GivesUpAfterWatching`. A service
  that was stopped is reported as an error, since `is-active` then fails (985), and
  the cached answer is kept (1907, comment 1906). The manager's own row counts as an agent (1737-1738, label 117). If all polls are
  over 15 s apart the deadline moves for ever (1766, comment 110-111); the premise of
  `SequenceEnds`. A take-down that begins with a
  start job pending can leave an endpoint running without a manager (1693, 1744,
  comment 107-108); the premise `calm`.
- Poll. The tail that stands in for the indexer can show windows the warm pass
  has folded (259-276, comment 211-213). The oldest window of a span is folded as
  a fragment (`Enable-LabDashboard.ps1:192`, comment 515-519); the ceiling on a
  fetch may leave the page's oldest windows out of the longer one, when alerts arrive
  in between (508); both are the first exception in `NothingSkipped`. A window that
  begins between the two fetches shuts the older ones out although the clock is still
  in the same half (537); the second. A baseline that cannot be read or parsed is taken
  for an empty one and written over (`Enable-LabDashboard.ps1:388`); `StartsOver`.
- Page. A tab shown again starts polling behind the preflight gate
  (`dashboard.html:1726-1729`, comment 2412-2413). "Shut down all VMs" is not
  disabled during a sequence (727, 1696-1705, `dashboard/README.md:86`).
- Build. On Hyper-V a build may say "built" without its NAT or address
  (`hyperv.psm1:205-206`, comment 388-390), a switch without an address passes for
  a network, and another NAT on the subnet makes one "half built" that
  `Remove-Lab.ps1` cannot clear (166, 211).
- Campaign. The first S1 of a campaign may come 210 s after the last one's last
  (`LAST_S1_END=0` at 267; `docs/collecting-a-dataset.md:60` says 330 s apart). A
  second signal cuts `finish` off (comment 269-273); `orphaned`. After a power cut a
  reused process number makes a dead campaign look alive
  (`collecting-a-dataset.md:125`). Two starts at once both pass (372); `Alone`. A
  record is flushed and not synced (24-25), and the copy on the host may then be
  replaced by a shorter one (`Sync-LabCampaign.ps1:14-15`). `stop` may take longer
  than the "three minutes" of 455. A scenario killed by a signal is recorded as
  without error, and leaves its account if it had not noted it (`invoke-scenario.sh:76`).
- Scoring. `severity`'s band is chosen from the total before it is rounded, so a
  shown score can lie on the other side of a band's edge. An alert at the very end
  of a phase that ends on a window's edge is labelled benign. `operating_points`
  walks tied scores one row at a time, so a quoted point may be one that no cutoff
  gives; the last clause of `OperatingPointsHonest` is for scores without ties.
- Splits. `train.py:109` says that under a split by source the validation tail is
  "a whole source held back"; the cut at 85 % of the rows (110) may fall within a
  source, and `NetworksHeldApart` demands of it only that the test network is apart.
- Retention. An attachment that was done and not answered is tried again and then
  reports failures, and the run fails although everything is attached; a rerun
  finds it so.
- Offline. `evaluate.py:193` calls it avoidable to lose seven finished folds to the
  eighth being killed; the rewrite at 225 truncates the file first, so a stop
  there loses them; the exception in `FinishedFoldsKept`. The option's help (180)
  says that folds are appended. Rows taken over are not compared with the data or
  arguments they were made with. A stop while the names are written leaves a cache
  that every later import fails on until it is deleted by hand. A stop while the
  vocabulary is written leaves whole episodes that no evaluation can fold
  (`import-ait.py:257-258`, `features.py:49-50`) until somebody imports again, which
  nothing asks for. The check that a member was read whole counts the bytes of what
  was decoded, where a byte that is not UTF-8 has become three
  (`import-ait.py:84-85`), so a read that ended early may pass it. A cut line of the
  episodes is skipped by the readers, so a dataset may be smaller without a word;
  a cut line of the folds is skipped by the evaluation and ends the export and the
  report. The export writes the model before it has compared the scorer's
  probabilities with the fitted model's, and quotes as many folds as the file holds.
- Enrolment. `configure_agent.py:35-38` takes the tags it finds in a second
  `syscheck` section out of the first one, which fails; seen next to the models.

## What is not modelled

- Fitting: gradient descent and the GRU, floating-point work of libraries. A
  fitted model is a set of given weights (`MCModel`), a fold a column that is there.
- The report's page and tables, `severity-ablation.py`'s table, the documents' text:
  layout. Of the report its split is modelled.
- The check of the model file when the scorer loads it, and what it returns for
  display only.
- The checks of the host: they read and report.
- The manager's installation: straight-line scripts over package managers.
- The correlation rules: data of Wazuh's engine, which is not in this repository.
  `Synthetic` has the one composite rule that the generator imitates.
- What is drawn on the page or worded in messages.
- Scenarios and copies of records, images and secrets, enrolment: see the plan.
  Two hazards of theirs are listed without a property.
- Of the listener: a row too many in the manager's list of agents (1737-1738),
  which is a count and has no run of its own.

## The plan

Done, in this order: the sequence, the store, the poll over the store, the page,
build and removal, the campaign, scoring, retention, offline. What a further
extension would take up, in order:

1. **Records.** The scenario's account and the note of it, `runs.jsonl`, the power
   cut that loses unsynced records, the copies to the host: an abstract log that
   only grows, and what of it the copies implement. Extends `Campaign`.
2. **Images and secrets.** Download, verify, convert and rename, stopped at any
   step and run again: what is taken for prepared is whole.
3. **Enrolment.** One endpoint after the other, each of which may fail half way:
   no endpoint keeps a key the manager does not know, and the next run mends it.

To prove: that the copies of the records implement the abstract log.
