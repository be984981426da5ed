---------------------------- MODULE LabSequence ----------------------------
(***************************************************************************)
(* Bringing the lab up and taking it down (dashboard/Start-LabDashboard.ps1).*)
(* The dashboard's listener is single threaded, so the bring-up is a state *)
(* machine advanced by the page's poll of /api/state: one power request on *)
(* entering a phase, then a test per poll until it passes or the phase's   *)
(* deadline is over.  The virtual machines, the power jobs and the guests  *)
(* move on their own, also while a poll is waiting for the manager's SSH.  *)
(*                                                                         *)
(* Clock readings are kept as differences, which is all the code uses:     *)
(*   left = Sequence.deadline - UtcNow     idle = UtcNow - LastSequencePoll *)
(*   hAge = UtcNow - HealthStamp           (Never is [datetime]::MinValue) *)
(***************************************************************************)
EXTENDS Integers, FiniteSets

CONSTANTS
  Endpoints,        \* $LabEndpoints: every VM of the profile but the manager
  Manager,          \* WAZUH-MANAGER
  Timeout,          \* seconds allowed to each phase
  Grace,            \* a gap between polls longer than this is given back (15 s)
  HealthInterval,   \* age at which the health answer is asked for again (10 s)
  SshTimeout,       \* time after which the manager's round trip is killed (22 s)
  SelfRow,          \* rows agent_control -l prints for the manager itself
  ClickActs,        \* power actions a page posts to /api/action
  MaxRequests,      \* bound: buttons pressed, relaunches of the listener among them
  MaxFaults,        \* bound: reads and jobs that fail, power losses, units and agents that drop
  MaxGap,           \* bound: longest time a running sequence goes unpolled
  IdleCap           \* bound: idle times between sequences saturate here

UpPhases   == {"manager", "manager-ssh", "manager-services", "endpoints", "agents"}
DownPhases == {"endpoints-off", "manager-off"}
Phases     == UpPhases \cup DownPhases
VMs        == Endpoints \cup {Manager}
VmStates   == {"Off", "Running", "Stopping", "Saved", "Not found"}
Acts       == {"start", "shutdown", "restart", "forceoff"}
Never      == -1

ASSUME SequenceAssumption ==
  /\ Manager \notin Endpoints
  /\ IsFiniteSet(Endpoints)
  /\ Timeout \in [Phases -> Nat \ {0}]
  /\ Grace \in Nat /\ HealthInterval \in Nat \ {0} /\ SshTimeout \in Nat /\ SelfRow \in Nat
  /\ ClickActs \subseteq Acts
  /\ MaxRequests \in Nat /\ MaxFaults \in Nat /\ MaxGap \in Nat \ {0} /\ IdleCap \in Nat

VARIABLES
  vm,      \* the power state the hypervisor reports for each VM
  jobs,    \* power actions handed to background jobs and not finished
  boot,    \* the manager's guest: 0 booting, 1 sshd answers, 2 every unit active
  table,   \* endpoints whose agent the manager lists as active
  presses, \* buttons pressed so far, at most MaxRequests
  faults,  \* mishaps of the world so far, at most MaxFaults
  kind,    \* Sequence.kind
  phase,   \* Sequence.phase, "none" when $script:Sequence is $null
  note,    \* whether Sequence.note says that the agents were not checked
  left,    \* time left to the deadline of the phase
  idle,    \* time since LastSequencePoll
  health,  \* HealthCache
  hAge,    \* time since HealthStamp, saturating at HealthInterval
  probe,   \* the manager's ssh port in ProbeCache
  view,    \* the poll waiting for SSH: the VM states it has read, for how long
           \* it has waited, and what the manager has found out for it so far
  \* history, read by no action
  gap,     \* time since the sequence was last advanced or started
  seen,    \* time of the phase spent in gaps of at most Grace
  carry,   \* idle when the sequence was started, 0 after its first phase
  svcAge,  \* time since every manager unit was active, saturating at Forgotten
  calm,    \* the running sequence began with no job pending and met no click
  missed   \* while the endpoints were to stop, a poll read one that ran as not found

lab     == <<vm, jobs, boot, table>>
bounds  == <<presses, faults>>
sequence == <<kind, phase, note, left, idle>>
caches  == <<health, hAge, probe, view>>
history == <<gap, seen, carry, svcAge, calm, missed>>
vars    == <<lab, bounds, sequence, caches, history>>

NoHealth == [kind |-> "none", services |-> FALSE, listed |-> FALSE, live |-> {}]
Silent   == [NoHealth EXCEPT !.kind = "silent"]
Healths  == [kind: {"none", "silent", "answer"}, services: BOOLEAN,
             listed: BOOLEAN, live: SUBSET Endpoints]
Views    == [busy: BOOLEAN, vms: [VMs -> VmStates], age: 0..SshTimeout, answer: Healths]
NoView   == [busy |-> FALSE, vms |-> [v \in VMs |-> "Off"], age |-> 0, answer |-> NoHealth]

Forgotten == HealthInterval + SshTimeout

Active   == phase \in Phases
Free     == ~view.busy      \* the listener answers one request at a time
AtMost(cap, n) == IF n < cap THEN n ELSE cap

TypeOK ==
  /\ vm \in [VMs -> VmStates]
  /\ jobs \subseteq VMs \X Acts
  /\ boot \in 0..2
  /\ table \subseteq Endpoints
  /\ presses \in Nat
  /\ faults \in Nat
  /\ kind \in {"up", "down"}
  /\ phase \in Phases \cup {"none", "done", "failed"}
  /\ note \in BOOLEAN
  /\ left \in Int
  /\ idle \in Nat \cup {Never}
  /\ health \in Healths
  /\ hAge \in 0..HealthInterval
  /\ probe \in {"none", "closed", "open"}
  /\ view \in Views
  /\ gap \in Nat
  /\ seen \in Nat
  /\ carry \in Nat \cup {Never}
  /\ svcAge \in 0..Forgotten
  /\ calm \in BOOLEAN /\ missed \in BOOLEAN

Init ==
  /\ vm \in [VMs -> {"Off", "Running", "Saved", "Not found"}]
  /\ jobs = {}
  /\ boot = 0
  /\ table = {}
  /\ presses = 0
  /\ faults = 0
  /\ kind = "up" /\ phase = "none" /\ note = FALSE /\ left = 0 /\ idle = Never
  /\ health = NoHealth /\ hAge = HealthInterval /\ probe = "none" /\ view = NoView
  /\ gap = 0 /\ seen = 0 /\ carry = 0 /\ svcAge = Forgotten
  /\ calm = FALSE /\ missed = FALSE

----------------------------------------------------------------------------
(* The sequence: Enter-LabPhase, Test-LabPhase, Update-LabSequence.         *)

\* Slip: the manager is looked at for the endpoints, and the test is turned around.
SatisfiedByManager(p, s, r, h) ==
  CASE p = "manager-services" -> h.kind = "answer" /\ h.services
    [] p = "endpoints" -> \A e \in Endpoints : s[e] = "Running"
    [] p = "manager" -> s[Manager] = "Running"
    [] p \in {"endpoints-off", "manager-off"} -> s[Manager] # "Off"
    [] OTHER -> r = "open"

\* A request that reads VMs may meet a mishap: a read that fails.
MayFail == faults' \in {faults, faults + 1} /\ faults' <= MaxFaults /\ UNCHANGED presses
Failing == faults' > faults

\* What a request may read: a VM whose read fails or returns nothing is one that is
\* not found ("Needs administrator" counts the same in every test below).
Reads ==
  {[v \in VMs |-> IF v \in lost THEN "Not found" ELSE vm[v]] :
     lost \in IF Failing THEN SUBSET VMs ELSE {{}}}

\* The power requests Enter-LabPhase makes from the states s.
Requests(p, s) ==
  {r \in VMs \X Acts :
     \/ p = "manager" /\ r = <<Manager, "start">> /\ s[Manager] # "Running"
     \/ p = "endpoints" /\ \E e \in Endpoints : r = <<e, "start">> /\ s[e] = "Off"
     \/ p = "endpoints-off" /\ \E e \in Endpoints : r = <<e, "shutdown">> /\ s[e] = "Running"
     \/ p = "manager-off" /\ r = <<Manager, "shutdown">> /\ s[Manager] = "Running"}

\* Test-LabPhase: whether p is satisfied by the states s, the probe r and the health h.
Satisfied(p, s, r, h) ==
  CASE p = "manager" -> s[Manager] = "Running"
    [] p = "manager-ssh" -> r = "open"
    [] p = "manager-services" -> h.kind = "answer" /\ h.services
    [] p = "endpoints" -> \A e \in Endpoints : s[e] = "Running"
    [] p = "agents" -> /\ h.kind = "answer"
                       /\ h.listed => Cardinality(h.live) + SelfRow >= Cardinality(Endpoints)
    [] p = "endpoints-off" -> \A e \in Endpoints : s[e] # "Running"
    [] p = "manager-off" -> s[Manager] # "Running"

After(p) ==
  CASE p = "manager" -> "manager-ssh"
    [] p = "manager-ssh" -> "manager-services"
    [] p = "manager-services" -> "endpoints"
    [] p = "endpoints" -> "agents"
    [] p = "endpoints-off" -> "manager-off"
    [] OTHER -> "done"

\* Invoke-VmAction reads its VM once more and throws when it is not found; the
\* phase has been entered by then, and the requests after that one are not made.
Ask(p, s) ==
  \E some \in SUBSET Requests(p, s) :
    /\ \A r \in some : vm[r[1]] # "Not found"
    /\ some = Requests(p, s) \/ Failing \/ \E r \in Requests(p, s) : vm[r[1]] = "Not found"
    /\ jobs' = jobs \cup some

\* Slip: the phase's timeout is added to what is left of the previous deadline.
EnterLabPhaseExtends(p, s) ==
  /\ phase' = p
  /\ left' = left + Timeout[p]
  /\ Ask(p, s)
  /\ gap' = 0 /\ seen' = 0

EnterLabPhase(p, s) ==
  /\ phase' = p
  /\ left' = Timeout[p]
  /\ Ask(p, s)
  /\ gap' = 0 /\ seen' = 0

\* Slip: the gap is not given back.
RestoredNever == left

\* The time left once the time nothing polled has been given back.
Restored == left + (IF idle # Never /\ idle > Grace THEN idle ELSE 0)

\* Slip: a phase that is not satisfied is entered anew, its request made again.
StillWaitingRetries == EnterLabPhase(phase, vm) /\ UNCHANGED <<note, carry>>

StillWaiting ==
  /\ phase' = IF Restored < 0 THEN "failed" ELSE phase
  /\ left' = Restored
  /\ gap' = 0
  /\ seen' = seen + (IF gap > Grace THEN 0 ELSE gap)
  /\ UNCHANGED <<jobs, note, carry>>

Advance(s, h) ==
  /\ note' = (note \/ (phase = "agents" /\ ~h.listed))
  /\ carry' = 0
  /\ IF After(phase) = "done"
       THEN phase' = "done" /\ left' = 0 /\ gap' = 0 /\ seen' = 0 /\ UNCHANGED jobs
       ELSE EnterLabPhase(After(phase), s)

\* An endpoint runs that the states s have as not found.
Missed(s) == \E e \in Endpoints : s[e] = "Not found" /\ vm[e] = "Running"

\* Update-LabSequence on the states s, the probe r and the health h of this poll.
UpdateLabSequence(s, r, h) ==
  /\ UNCHANGED <<kind, calm>>
  /\ missed' = (missed \/ (phase = "endpoints-off" /\ Missed(s)))
  /\ \/ ~Active /\ UNCHANGED <<phase, note, left, idle, jobs, gap, seen, carry>>
     \/ Active /\ idle' = 0 /\ Satisfied(phase, s, r, h) /\ Advance(s, h)
     \/ Active /\ idle' = 0 /\ ~Satisfied(phase, s, r, h) /\ StillWaiting

----------------------------------------------------------------------------
(* The listener's requests.                                                 *)

\* Get-LabState's probe of the manager's ssh port, from the states s: skipped while
\* the VM is not running, kept from the cache when it is recent and no sequence is
\* active.  A VM that is not found is passed over, and its cached probe stays.
ProbeManager(s) ==
  CASE s[Manager] = "Not found" -> probe' = probe
    [] s[Manager] \notin {"Running", "Not found"} -> probe' = "none"
    [] OTHER -> \/ probe' = IF boot > 0 THEN "open" ELSE "closed"
                \/ ~Active /\ probe' = probe

\* The probe this poll has: a manager that is not running shows none.
Shown(s) == IF s[Manager] = "Running" THEN probe' ELSE "none"

\* The gate of Get-LabHealth: a manager that runs and whose ssh is not known closed.
WorthAsking(s) == s[Manager] = "Running" /\ probe' # "closed"

\* Slip: the answer is served one tick too long.
CacheFreshTooLong == health.kind # "none" /\ hAge <= HealthInterval

\* A cached answer is served while it is younger than HealthInterval.
CacheFresh == health.kind # "none" /\ hAge < HealthInterval

\* GET /api/state answered without asking the manager.
PollWithoutSsh ==
  /\ Free
  /\ MayFail
  /\ \E s \in Reads :
       /\ ProbeManager(s)
       /\ \/ ~WorthAsking(s) /\ health' = NoHealth
          \/ WorthAsking(s) /\ CacheFresh /\ health' = health
       /\ UpdateLabSequence(s, Shown(s), health')
  /\ UNCHANGED <<vm, boot, table, hAge, view, svcAge>>

\* GET /api/state up to the SSH round trip: the VM states have been read.
PollAsksManager ==
  /\ Free
  /\ MayFail
  /\ \E s \in Reads :
       /\ ProbeManager(s)
       /\ WorthAsking(s) /\ ~CacheFresh
       /\ view' = [NoView EXCEPT !.busy = TRUE, !.vms = s]
  /\ UNCHANGED <<lab, sequence, health, hAge, history>>

\* The script sent to the manager reads the units and agent_control -l there.
\* One that is refused, fails or is slow is reported as missing.
ManagerReports ==
  /\ view.busy /\ view.answer = NoHealth
  /\ boot > 0
  /\ \E l \in BOOLEAN :
       view' = [view EXCEPT !.answer = [kind |-> "answer", services |-> boot = 2, listed |-> l,
                                        live |-> IF l THEN table ELSE {}]]
  /\ UNCHANGED <<lab, bounds, sequence, health, hAge, probe, history>>

\* The round trip ends, with what was found out or with nothing.  HealthStamp is
\* the time of its end.
PollAnswered ==
  /\ view.busy
  /\ \/ health' = Silent
     \/ view.answer # NoHealth /\ health' = view.answer
  /\ hAge' = 0
  /\ view' = NoView
  /\ MayFail
  /\ UpdateLabSequence(view.vms, probe, health')
  /\ UNCHANGED <<vm, boot, table, probe, svcAge>>

Pressed == presses < MaxRequests /\ presses' = presses + 1
Press   == Pressed /\ UNCHANGED faults

\* POST /api/lab up or down: refused while a sequence is active.
StartLabSequence(k) ==
  /\ Pressed /\ Free /\ ~Active
  /\ faults' \in {faults, faults + 1} /\ faults' <= MaxFaults
  /\ kind' = k
  /\ note' = FALSE
  /\ \E s \in Reads : EnterLabPhase(IF k = "up" THEN "manager" ELSE "endpoints-off", s)
  /\ carry' = idle
  /\ calm' = (jobs = {}) /\ missed' = FALSE
  /\ UNCHANGED <<vm, boot, table, idle, caches, svcAge>>

\* POST /api/lab cancel.
CancelSequence ==
  /\ Press /\ Free /\ Active
  /\ phase' = "none"
  /\ left' = 0 /\ gap' = 0 /\ seen' = 0 /\ carry' = 0
  /\ UNCHANGED <<lab, kind, note, idle, caches, svcAge, calm, missed>>

\* POST /api/action: no test of the sequence here, the page disables its buttons.
InvokeVmAction(v, a) ==
  /\ Press /\ Free
  /\ vm[v] # "Not found"
  /\ jobs' = jobs \cup {<<v, a>>}
  /\ calm' = FALSE
  /\ UNCHANGED <<vm, boot, table, sequence, caches, gap, seen, carry, svcAge, missed>>

\* POST /api/service on a manager unit: the next poll asks again, unless the action
\* throws, as it does when is-active fails after a stop that was carried out.
InvokeServiceAction ==
  /\ Press /\ Free
  /\ vm[Manager] = "Running" /\ boot > 0
  /\ boot' \in {1, 2}
  /\ hAge' \in {HealthInterval, hAge}
  /\ svcAge' = IF 2 \in {boot, boot'} THEN 0 ELSE svcAge
  /\ UNCHANGED <<vm, jobs, table, sequence, health, probe, view, gap, seen, carry, calm, missed>>

\* The listener is closed and started again.  The VMs carry on; of its jobs,
\* those that are processes of its own (VirtualBox) end with it.
Relaunch ==
  /\ Press
  /\ phase' = "none" /\ left' = 0 /\ idle' = Never
  /\ health' = NoHealth /\ hAge' = HealthInterval /\ probe' = "none" /\ view' = NoView
  /\ gap' = 0 /\ seen' = 0 /\ carry' = 0
  /\ jobs' \in SUBSET jobs
  /\ UNCHANGED <<vm, boot, table, kind, note, svcAge, calm, missed>>

----------------------------------------------------------------------------
(* The world: time, the hypervisor's jobs, the guests, the manager's list.  *)

Tick ==
  /\ Active => gap < MaxGap
  /\ view.busy => view.age < SshTimeout
  /\ view' = IF view.busy THEN [view EXCEPT !.age = @ + 1] ELSE view
  /\ IF Active THEN left' = left - 1 /\ gap' = gap + 1 ELSE UNCHANGED <<left, gap>>
  /\ idle' = IF idle = Never THEN Never
             ELSE IF Active THEN idle + 1 ELSE AtMost(IdleCap, idle + 1)
  /\ hAge' = AtMost(HealthInterval, hAge + 1)
  /\ svcAge' = IF boot = 2 THEN 0 ELSE AtMost(Forgotten, svcAge + 1)
  /\ UNCHANGED <<lab, bounds, kind, phase, note, health, probe, seen, carry, calm, missed>>

\* VM v goes to the power state s; a manager that leaves or restarts Running boots anew.
Power(v, s) ==
  /\ vm' = [vm EXCEPT ![v] = s]
  /\ boot' = IF v = Manager THEN 0 ELSE boot
  /\ svcAge' = IF boot = 2 THEN 0 ELSE svcAge

Mishap == faults < MaxFaults /\ faults' = faults + 1

\* The power states in which Invoke-LabVmAction's job has something to do.
Applies(v, a) ==
  \/ a = "start" /\ vm[v] \in {"Off", "Saved"}
  \/ a \in {"shutdown", "restart"} /\ vm[v] = "Running"
  \/ a = "forceoff" /\ vm[v] \in {"Running", "Stopping", "Saved"}

\* The job takes effect.  Hyper-V restarts a VM in one go; VirtualBox's job
\* presses the power button, waits for the VM to be off and then starts it.
JobRuns(v, a) ==
  /\ <<v, a>> \in jobs /\ Applies(v, a)
  /\ \/ a \in {"start", "restart"} /\ Power(v, "Running") /\ jobs' = jobs \ {<<v, a>>}
     \/ a = "restart" /\ Power(v, "Off") /\ jobs' = (jobs \ {<<v, a>>}) \cup {<<v, "start">>}
     \/ a = "shutdown" /\ Power(v, "Stopping") /\ jobs' = jobs \ {<<v, a>>}
     \/ a \in {"shutdown", "forceoff"} /\ Power(v, "Off") /\ jobs' = jobs \ {<<v, a>>}
  /\ UNCHANGED <<table, bounds, sequence, caches, gap, seen, carry, calm, missed>>

\* The job ends without effect: there was nothing to do, or it failed, which
\* Get-JobNotices reports.  Nothing retries it.
JobFails(v, a) ==
  /\ <<v, a>> \in jobs
  /\ \/ Applies(v, a) /\ Mishap
     \/ ~Applies(v, a) /\ UNCHANGED faults
  /\ jobs' = jobs \ {<<v, a>>}
  /\ UNCHANGED <<vm, boot, table, presses, sequence, caches, history>>

\* A guest that is stopping has stopped, or one that runs loses its power.
PowersOff(v) ==
  /\ \/ vm[v] = "Stopping" /\ UNCHANGED faults
     \/ vm[v] = "Running" /\ Mishap
  /\ Power(v, "Off")
  /\ UNCHANGED <<jobs, table, presses, sequence, caches, gap, seen, carry, calm, missed>>

\* The manager's guest gets further with its boot, or one of its units stops.
GuestMoves ==
  /\ vm[Manager] = "Running"
  /\ \/ boot < 2 /\ boot' = boot + 1 /\ UNCHANGED faults
     \/ boot = 2 /\ boot' = 1 /\ Mishap
  /\ svcAge' = IF 2 \in {boot, boot'} THEN 0 ELSE svcAge
  /\ UNCHANGED <<vm, jobs, table, presses, sequence, caches, gap, seen, carry, calm, missed>>

\* The manager lists an agent as active, or stops doing so.
AgentReported(e) ==
  /\ \/ e \notin table /\ vm[e] = "Running" /\ boot = 2 /\ table' = table \cup {e} /\ UNCHANGED faults
     \/ e \in table /\ Mishap /\ table' = table \ {e}
  /\ UNCHANGED <<vm, jobs, boot, presses, sequence, caches, history>>

Poll == PollWithoutSsh \/ PollAsksManager \/ PollAnswered

Request ==
  \/ \E k \in {"up", "down"} : StartLabSequence(k)
  \/ CancelSequence
  \/ \E v \in VMs, a \in ClickActs : InvokeVmAction(v, a)
  \/ InvokeServiceAction
  \/ Relaunch

World ==
  \/ \E v \in VMs, a \in Acts : JobRuns(v, a) \/ JobFails(v, a)
  \/ \E v \in VMs : PowersOff(v)
  \/ GuestMoves
  \/ ManagerReports
  \/ \E e \in Endpoints : AgentReported(e)

Next == Poll \/ Request \/ World \/ Tick

Spec == Init /\ [][Next]_vars

\* The page keeps polling while a sequence runs, and time goes on.
FairSpec == Spec /\ WF_vars(Poll) /\ WF_vars(Tick)

----------------------------------------------------------------------------
(* Properties.                                                              *)

\* A phase never has more than its own timeout ahead of it, but for the first
\* phase of a sequence, which is also given the time the lab was left alone
\* between two sequences: LastSequencePoll is not reset by Start-LabSequence.
DeadlineBounded ==
  Active => left <= Timeout[phase] + (IF carry = Never THEN 0 ELSE carry)

\* A sequence gives up only after its phase has been watched for the whole
\* timeout, time in which nothing polled left out, except in the first sequence
\* of a listener, whose first gap has no LastSequencePoll to be measured from.
GivesUpAfterWatching ==
  [][phase' = "failed" /\ Active => seen' > Timeout[phase] \/ carry = Never]_vars

\* The sequence asks for the endpoints only if every manager unit was active
\* less than HealthInterval and one SSH round trip ago, however old the answer
\* and the states read at the start of the poll are: agents need a manager to
\* connect to.
EndpointsAfterServices ==
  [][phase' = "endpoints" /\ phase # "endpoints" => svcAge < HealthInterval + SshTimeout]_vars

\* The manager is asked to stop, and the lab said to be down, only with no
\* endpoint running, provided no power job was pending when the sequence began,
\* no single VM was acted on during it, and no poll of it had a running endpoint as
\* not found: one whose read fails counts as stopped.
ManagerClosesLast ==
  calm /\ ~missed /\ kind = "down" /\ phase \in {"manager-off", "done"}
    => \A e \in Endpoints : vm[e] # "Running"

\* The same without the last condition, as the dashboard's message has it: "The
\* endpoints stop first and the manager last, so the indexer closes cleanly."
EndpointsStopFirst ==
  calm /\ kind = "down" /\ phase \in {"manager-off", "done"}
    => \A e \in Endpoints : vm[e] # "Running"

\* A running sequence has been polled after a gap that is not given back.
PolledInTime == Active /\ gap \in 1..Grace /\ gap' = 0

\* A sequence ends, as done, failed or cancelled, if it is polled in time again and
\* again.  Polls that are all further apart than Grace, a round trip of up to
\* SshTimeout among them, give all the time back: then the deadline never comes.
SequenceEnds == []<><<PolledInTime>>_vars => (Active ~> ~Active)
=============================================================================
