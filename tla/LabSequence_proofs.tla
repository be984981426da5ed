------------------------ MODULE LabSequence_proofs -------------------------
(***************************************************************************)
(* What LabSequence promises for every set of endpoints, every timeout and *)
(* every bound.  TypeCorrect comes first; the three invariants after it    *)
(* are the strengthenings the properties need:                             *)
(*   TimeInv      where the time of a phase has gone,                      *)
(*   ServicesInv  how old what the dashboard believes of the services is,  *)
(*   CalmInv      why no endpoint comes up behind an undisturbed shutdown. *)
(***************************************************************************)
EXTENDS LabSequence, TLAPS

USE SequenceAssumption

LEMMA RequestsType ==
  ASSUME NEW p, NEW s
  PROVE  Requests(p, s) \subseteq VMs \X Acts
BY DEF Requests

\* A VM is read as it is or as not found.
LEMMA ReadsType ==
  ASSUME TypeOK, NEW s \in Reads
  PROVE  s \in [VMs -> VmStates] /\ \A v \in VMs : s[v] \in {vm[v], "Not found"}
<1>1. PICK lost : s = [v \in VMs |-> IF v \in lost THEN "Not found" ELSE vm[v]]
  BY DEF Reads
<1>2. QED BY <1>1 DEF TypeOK, VmStates

LEMMA FaultsType ==
  ASSUME TypeOK
  PROVE  /\ MayFail => presses' \in Nat /\ faults' \in Nat
         /\ Pressed => presses' \in Nat
BY DEF MayFail, Pressed, TypeOK

LEMMA CacheValues ==
  /\ NoHealth \in Healths /\ Silent \in Healths
  /\ NoView \in Views
  /\ HealthInterval \in 0..HealthInterval /\ 0 \in 0..HealthInterval
  /\ Forgotten \in 0..Forgotten /\ 0 \in 0..Forgotten
<1>1. NoHealth \in Healths
  BY DEF NoHealth, Healths
<1>2. Silent \in Healths
  BY DEF Silent, NoHealth, Healths
<1>3. NoView \in Views
  <2>1. [v \in VMs |-> "Off"] \in [VMs -> VmStates]
    BY DEF VmStates
  <2>2. 0 \in 0..SshTimeout
    BY DEF SequenceAssumption
  <2>3. QED BY <1>1, <2>1, <2>2 DEF NoView, Views
<1>4. HealthInterval \in Nat /\ Forgotten \in Nat
  BY DEF SequenceAssumption, Forgotten
<1>5. QED BY <1>1, <1>2, <1>3, <1>4

LEMMA AfterType ==
  ASSUME NEW p \in Phases
  PROVE  After(p) \in Phases \cup {"done"}
BY DEF After, Phases, UpPhases, DownPhases

LEMMA EnterType ==
  ASSUME TypeOK, NEW p \in Phases, NEW s \in [VMs -> VmStates], EnterLabPhase(p, s)
  PROVE  /\ phase' \in Phases /\ left' \in Int /\ jobs' \subseteq VMs \X Acts
         /\ gap' \in Nat /\ seen' \in Nat
<1>1. jobs' \subseteq VMs \X Acts
  <2>1. PICK some \in SUBSET Requests(p, s) : jobs' = jobs \cup some
    BY DEF EnterLabPhase, Ask
  <2>2. QED BY <2>1, RequestsType DEF TypeOK
<1>2. Timeout[p] \in Nat
  BY DEF SequenceAssumption
<1>3. QED BY <1>1, <1>2 DEF EnterLabPhase

LEMMA UpdateType ==
  ASSUME TypeOK, NEW s \in [VMs -> VmStates], NEW r, NEW h \in Healths,
         UpdateLabSequence(s, r, h)
  PROVE  /\ kind' \in {"up", "down"}
         /\ phase' \in Phases \cup {"none", "done", "failed"}
         /\ note' \in BOOLEAN
         /\ left' \in Int
         /\ idle' \in Nat \cup {Never}
         /\ jobs' \subseteq VMs \X Acts
         /\ gap' \in Nat
         /\ seen' \in Nat
         /\ carry' \in Nat \cup {Never}
         /\ calm' \in BOOLEAN /\ missed' \in BOOLEAN
<1>0. missed' \in BOOLEAN
  BY DEF UpdateLabSequence, TypeOK
<1>1. CASE ~Active
  BY <1>0, <1>1 DEF UpdateLabSequence, TypeOK
<1>2. CASE Active /\ idle' = 0 /\ Satisfied(phase, s, r, h) /\ Advance(s, h)
  <2>1. After(phase) \in Phases \cup {"done"}
    BY <1>2, AfterType DEF Active
  <2>2. CASE After(phase) = "done"
    BY <1>0, <1>2, <2>2 DEF Advance, UpdateLabSequence, TypeOK, Healths
  <2>3. CASE After(phase) # "done"
    BY <1>0, <1>2, <2>1, <2>3, EnterType DEF Advance, UpdateLabSequence, TypeOK, Healths
  <2>4. QED BY <2>2, <2>3
<1>3. CASE Active /\ idle' = 0 /\ StillWaiting
  BY <1>0, <1>3 DEF StillWaiting, UpdateLabSequence, Restored, TypeOK, Never, Active
<1>4. QED BY <1>1, <1>2, <1>3 DEF UpdateLabSequence

THEOREM TypeCorrect == Spec => []TypeOK
<1>1. Init => TypeOK
  <2> SUFFICES ASSUME Init PROVE TypeOK
    OBVIOUS
  <2>1. vm \in [VMs -> VmStates]
    BY DEF Init, VmStates
  <2>2. /\ health \in Healths /\ view \in Views
        /\ hAge \in 0..HealthInterval /\ svcAge \in 0..Forgotten
    BY CacheValues DEF Init
  <2>3. note \in BOOLEAN /\ calm \in BOOLEAN /\ missed \in BOOLEAN /\ jobs \subseteq VMs \X Acts /\ table \subseteq Endpoints
    BY DEF Init
  <2>4. /\ boot \in 0..2 /\ presses \in Nat /\ faults \in Nat /\ left \in Int
        /\ idle \in Nat \cup {Never} /\ gap \in Nat /\ seen \in Nat /\ carry \in Nat \cup {Never}
    <3>1. /\ boot = 0 /\ presses = 0 /\ faults = 0 /\ left = 0 /\ idle = Never
          /\ gap = 0 /\ seen = 0 /\ carry = 0
      BY DEF Init
    <3>2. QED BY <3>1
  <2>5. /\ kind \in {"up", "down"} /\ phase \in Phases \cup {"none", "done", "failed"}
        /\ probe \in {"none", "closed", "open"}
    BY DEF Init
  <2>6. QED BY <2>1, <2>2, <2>3, <2>4, <2>5 DEF TypeOK
<1>2. TypeOK /\ [Next]_vars => TypeOK'
  <2> SUFFICES ASSUME TypeOK, [Next]_vars PROVE TypeOK'
    OBVIOUS
  <2>1. CASE PollWithoutSsh
    <3>1. PICK s \in Reads : /\ ProbeManager(s) /\ health' \in {NoHealth, health}
                             /\ UpdateLabSequence(s, Shown(s), health')
      BY <2>1 DEF PollWithoutSsh
    <3>2. health' \in Healths /\ probe' \in {"none", "closed", "open"}
      BY <3>1, CacheValues DEF ProbeManager, TypeOK
    <3>3. presses' \in Nat /\ faults' \in Nat
      BY <2>1, FaultsType DEF PollWithoutSsh
    <3>4. QED BY <2>1, <3>1, <3>2, <3>3, ReadsType, UpdateType DEF PollWithoutSsh, TypeOK
  <2>2. CASE PollAsksManager
    <3>1. PICK s \in Reads : ProbeManager(s) /\ view' = [NoView EXCEPT !.busy = TRUE, !.vms = s]
      BY <2>2 DEF PollAsksManager
    <3>2. view' \in Views
      <4>1. NoView \in Views /\ s \in [VMs -> VmStates]
        BY CacheValues, ReadsType
      <4>2. QED BY <3>1, <4>1 DEF Views
    <3>3. probe' \in {"none", "closed", "open"}
      BY <3>1 DEF ProbeManager, TypeOK
    <3>4. presses' \in Nat /\ faults' \in Nat
      BY <2>2, FaultsType DEF PollAsksManager
    <3>5. QED BY <2>2, <3>2, <3>3, <3>4 DEF PollAsksManager, TypeOK, lab, sequence, history
  <2>3. CASE PollAnswered
    <3>1. health' \in Healths
      <4>1. view.answer \in Healths
        BY DEF TypeOK, Views
      <4>2. QED BY <2>3, <4>1, CacheValues DEF PollAnswered
    <3>2. view' \in Views
      BY <2>3, CacheValues DEF PollAnswered
    <3>3. view.vms \in [VMs -> VmStates]
      BY DEF TypeOK, Views
    <3>4. presses' \in Nat /\ faults' \in Nat
      BY <2>3, FaultsType DEF PollAnswered
    <3>5. QED BY <2>3, <3>1, <3>2, <3>3, <3>4, UpdateType, CacheValues DEF PollAnswered, TypeOK
  <2>4. ASSUME NEW k \in {"up", "down"}, StartLabSequence(k) PROVE TypeOK'
    <3>1. (IF k = "up" THEN "manager" ELSE "endpoints-off") \in Phases
      BY DEF Phases, UpPhases, DownPhases
    <3>2. PICK s \in Reads : EnterLabPhase(IF k = "up" THEN "manager" ELSE "endpoints-off", s)
      BY <2>4 DEF StartLabSequence
    <3>3. /\ phase' \in Phases /\ left' \in Int /\ jobs' \subseteq VMs \X Acts
          /\ gap' \in Nat /\ seen' \in Nat
      BY <3>1, <3>2, EnterType, ReadsType
    <3>4. carry' \in Nat \cup {Never} /\ presses' \in Nat /\ faults' \in Nat
      BY <2>4, FaultsType DEF StartLabSequence, TypeOK
    <3>5. calm' \in BOOLEAN /\ missed' \in BOOLEAN
      BY <2>4 DEF StartLabSequence
    <3>6. QED BY <2>4, <3>3, <3>4, <3>5 DEF StartLabSequence, TypeOK, caches
  <2>5. CASE CancelSequence
    BY <2>5 DEF CancelSequence, Press, Pressed, TypeOK, lab, caches, Never
  <2>6. ASSUME NEW v \in VMs, NEW a \in ClickActs, InvokeVmAction(v, a) PROVE TypeOK'
    <3>1. <<v, a>> \in VMs \X Acts
      BY DEF SequenceAssumption
    <3>2. jobs' \subseteq VMs \X Acts
      <4>1. jobs \subseteq VMs \X Acts /\ jobs' = jobs \cup {<<v, a>>}
        BY <2>6 DEF InvokeVmAction, TypeOK
      <4>2. QED BY <3>1, <4>1
    <3>3. presses' \in Nat /\ faults' = faults
      <4>1. Press
        BY <2>6 DEF InvokeVmAction
      <4>2. QED BY <4>1 DEF Press, Pressed, TypeOK
    <3>4. calm' \in BOOLEAN
      BY <2>6 DEF InvokeVmAction
    <3>5. QED BY <2>6, <3>2, <3>3, <3>4 DEF InvokeVmAction, TypeOK, sequence, caches
  <2>7. CASE InvokeServiceAction
    BY <2>7, CacheValues DEF InvokeServiceAction, Press, Pressed, TypeOK, sequence
  <2>8. CASE Relaunch
    BY <2>8, CacheValues DEF Relaunch, Press, Pressed, TypeOK, Never
  <2>9. ASSUME NEW v \in VMs, NEW a \in Acts, JobRuns(v, a) PROVE TypeOK'
    <3>1. PICK s \in VmStates : Power(v, s)
      BY <2>9 DEF JobRuns, VmStates
    <3>2. jobs' \subseteq VMs \X Acts
      <4>1. <<v, "start">> \in VMs \X Acts
        BY DEF Acts
      <4>2. jobs' \subseteq jobs \cup {<<v, "start">>}
        BY <2>9 DEF JobRuns
      <4>3. QED BY <4>1, <4>2 DEF TypeOK
    <3>3. /\ vm' \in [VMs -> VmStates] /\ boot' \in 0..2 /\ svcAge' \in 0..Forgotten
      BY <3>1, CacheValues DEF Power, TypeOK
    <3>4. QED BY <2>9, <3>2, <3>3 DEF JobRuns, TypeOK, bounds, sequence, caches
  <2>10. ASSUME NEW v \in VMs, NEW a \in Acts, JobFails(v, a) PROVE TypeOK'
    BY <2>10 DEF JobFails, Mishap, TypeOK, sequence, caches, history
  <2>11. ASSUME NEW v \in VMs, PowersOff(v) PROVE TypeOK'
    <3>1. Power(v, "Off") /\ "Off" \in VmStates
      BY <2>11 DEF PowersOff, VmStates
    <3>2. /\ vm' \in [VMs -> VmStates] /\ boot' \in 0..2 /\ svcAge' \in 0..Forgotten
      BY <3>1, CacheValues DEF Power, TypeOK
    <3>3. QED BY <2>11, <3>2 DEF PowersOff, Mishap, TypeOK, sequence, caches
  <2>12. CASE GuestMoves
    BY <2>12, CacheValues DEF GuestMoves, Mishap, TypeOK, sequence, caches
  <2>13. ASSUME NEW e \in Endpoints, AgentReported(e) PROVE TypeOK'
    BY <2>13 DEF AgentReported, Mishap, TypeOK, sequence, caches, history
  <2>14. CASE ManagerReports
    <3>1. PICK l \in BOOLEAN :
            view' = [view EXCEPT !.answer = [kind |-> "answer", services |-> boot = 2, listed |-> l,
                                             live |-> IF l THEN table ELSE {}]]
      BY <2>14 DEF ManagerReports
    <3>2. [kind |-> "answer", services |-> boot = 2, listed |-> l,
           live |-> IF l THEN table ELSE {}] \in Healths
      BY DEF Healths, TypeOK
    <3>3. view' \in Views
      BY <3>1, <3>2 DEF TypeOK, Views
    <3>4. QED BY <2>14, <3>3 DEF ManagerReports, TypeOK, lab, bounds, sequence, history
  <2>15. CASE Tick
    <3>1. view' \in Views
      BY <2>15 DEF Tick, TypeOK, Views, SequenceAssumption
    <3>2. hAge' \in 0..HealthInterval /\ svcAge' \in 0..Forgotten
      BY <2>15, CacheValues DEF Tick, AtMost, TypeOK
    <3>3. left' \in Int /\ gap' \in Nat /\ idle' \in Nat \cup {Never}
      BY <2>15 DEF Tick, AtMost, TypeOK, Never
    <3>4. QED BY <2>15, <3>1, <3>2, <3>3 DEF Tick, TypeOK, lab, bounds
  <2>16. CASE UNCHANGED vars
    BY <2>16 DEF vars, lab, bounds, sequence, caches, history, TypeOK
  <2>17. QED
    BY <2>1, <2>2, <2>3, <2>4, <2>5, <2>6, <2>7, <2>8, <2>9, <2>10, <2>11, <2>12,
       <2>13, <2>14, <2>15, <2>16 DEF Next, Poll, Request, World
<1>3. QED BY <1>1, <1>2, PTL DEF Spec

----------------------------------------------------------------------------
(* Where the time of a phase goes.                                          *)

\* Once LastSequencePoll is set, a gap is never longer than the time since it,
\* and no time of the phase is lost: it is ahead, was watched, or is in the gap.
\* What is ahead and what may still be given back never exceed the timeout and
\* what the sequence began with.
TimeInv ==
  Active =>
    /\ idle = Never => carry = Never
    /\ carry # Never => idle >= gap /\ left + seen + gap >= Timeout[phase]
    /\ left + (IF idle = Never THEN 0 ELSE idle)
         <= Timeout[phase] + (IF carry = Never THEN 0 ELSE carry)

clock == <<phase, left, idle, gap, seen, carry>>

LEMMA TimeoutType ==
  ASSUME NEW p \in Phases
  PROVE  Timeout[p] \in Nat /\ Timeout[p] > 0
BY DEF SequenceAssumption

LEMMA TimeUntouched ==
  ASSUME TimeInv, UNCHANGED clock
  PROVE  TimeInv'
BY DEF TimeInv, clock, Active

LEMMA TimeEntered ==
  ASSUME TypeOK, NEW p \in Phases, NEW s, EnterLabPhase(p, s),
         idle' \in Nat \cup {Never}, carry' = idle'
  PROVE  TimeInv'
<1>1. Timeout[p] \in Nat
  BY TimeoutType
<1>2. phase' = p /\ left' = Timeout[p] /\ gap' = 0 /\ seen' = 0
  BY DEF EnterLabPhase
<1>3. QED BY <1>1, <1>2 DEF TimeInv, Active, Never

LEMMA TimeUpdated ==
  ASSUME TypeOK, TimeInv, NEW s, NEW r, NEW h, UpdateLabSequence(s, r, h)
  PROVE  TimeInv'
<1>1. CASE ~Active
  BY <1>1 DEF UpdateLabSequence, TimeInv, Active
<1>2. CASE Active /\ idle' = 0 /\ Advance(s, h)
  <2>1. CASE After(phase) = "done"
    BY <1>2, <2>1 DEF Advance, TimeInv, Active, Phases, UpPhases, DownPhases
  <2>2. CASE After(phase) # "done"
    <3>1. After(phase) \in Phases
      BY <1>2, <2>2, AfterType DEF Active
    <3>2. EnterLabPhase(After(phase), s) /\ carry' = 0
      BY <1>2, <2>2 DEF Advance
    <3>3. QED BY <1>2, <3>1, <3>2, TimeEntered
  <2>3. QED BY <2>1, <2>2
<1>3. CASE Active /\ idle' = 0 /\ StillWaiting
  <2>1. CASE Restored < 0
    BY <1>3, <2>1 DEF StillWaiting, TimeInv, Active, Phases, UpPhases, DownPhases
  <2>2. CASE ~(Restored < 0)
    <3>1. /\ phase' = phase /\ left' = Restored /\ gap' = 0 /\ carry' = carry
          /\ seen' = seen + (IF gap > Grace THEN 0 ELSE gap)
      BY <1>3, <2>2 DEF StillWaiting
    <3>2. Timeout[phase] \in Nat /\ Grace \in Nat
      BY <1>3, TimeoutType DEF Active, SequenceAssumption
    <3>3. left \in Int /\ idle \in Nat \cup {Never} /\ gap \in Nat /\ seen \in Nat
          /\ carry \in Nat \cup {Never}
      BY DEF TypeOK
    <3>4. QED BY <1>3, <3>1, <3>2, <3>3 DEF TimeInv, Restored, Active, Never
  <2>3. QED BY <2>1, <2>2
<1>4. QED BY <1>1, <1>2, <1>3 DEF UpdateLabSequence

LEMMA TimeTicks ==
  ASSUME TypeOK, TimeInv, Tick
  PROVE  TimeInv'
<1>1. CASE ~Active
  BY <1>1 DEF Tick, TimeInv, Active
<1>2. CASE Active
  <2>1. /\ phase' = phase /\ left' = left - 1 /\ gap' = gap + 1 /\ seen' = seen
        /\ carry' = carry /\ idle' = IF idle = Never THEN Never ELSE idle + 1
    BY <1>2 DEF Tick
  <2>2. Timeout[phase] \in Nat
    BY <1>2, TimeoutType DEF Active
  <2>3. left \in Int /\ idle \in Nat \cup {Never} /\ gap \in Nat /\ seen \in Nat
        /\ carry \in Nat \cup {Never}
    BY DEF TypeOK
  <2>4. QED BY <1>2, <2>1, <2>2, <2>3 DEF TimeInv, Active, Never
<1>3. QED BY <1>1, <1>2

\* No step but the sequence's own, the clock's and the two buttons touches the clock.
LEMMA TimeElsewhere ==
  ASSUME [Next]_vars
  PROVE  \/ UNCHANGED clock
         \/ \E s, r, h : UpdateLabSequence(s, r, h)
         \/ \E k \in {"up", "down"} : StartLabSequence(k)
         \/ CancelSequence \/ Relaunch \/ Tick
<1>1. CASE PollWithoutSsh
  BY <1>1 DEF PollWithoutSsh
<1>2. CASE PollAsksManager
  BY <1>2 DEF PollAsksManager, clock, sequence, history
<1>3. CASE PollAnswered
  BY <1>3 DEF PollAnswered
<1>4. CASE \E v \in VMs, a \in ClickActs : InvokeVmAction(v, a)
  BY <1>4 DEF InvokeVmAction, clock, sequence
<1>5. CASE InvokeServiceAction
  BY <1>5 DEF InvokeServiceAction, clock, sequence
<1>6. CASE World
  BY <1>6 DEF World, JobRuns, JobFails, PowersOff, GuestMoves, ManagerReports, AgentReported,
              clock, sequence, history
<1>7. CASE UNCHANGED vars
  BY <1>7 DEF vars, clock, sequence, history
<1>8. QED
  BY <1>1, <1>2, <1>3, <1>4, <1>5, <1>6, <1>7 DEF Next, Poll, Request

LEMMA TimeKept ==
  ASSUME TypeOK, TimeInv, [Next]_vars
  PROVE  TimeInv'
<1>1. CASE UNCHANGED clock
  BY <1>1, TimeUntouched
<1>2. CASE \E s, r, h : UpdateLabSequence(s, r, h)
  BY <1>2, TimeUpdated
<1>3. ASSUME NEW k \in {"up", "down"}, StartLabSequence(k)
      PROVE  TimeInv'
  <2>1. (IF k = "up" THEN "manager" ELSE "endpoints-off") \in Phases
    BY DEF Phases, UpPhases, DownPhases
  <2>2. idle' \in Nat \cup {Never} /\ carry' = idle'
    BY <1>3 DEF StartLabSequence, TypeOK
  <2>3. \E s : EnterLabPhase(IF k = "up" THEN "manager" ELSE "endpoints-off", s)
    BY <1>3 DEF StartLabSequence
  <2>4. QED BY <2>1, <2>2, <2>3, TimeEntered
<1>4. CASE CancelSequence \/ Relaunch
  BY <1>4 DEF CancelSequence, Relaunch, TimeInv, Active, Phases, UpPhases, DownPhases
<1>5. CASE Tick
  BY <1>5, TimeTicks
<1>6. QED BY <1>1, <1>2, <1>3, <1>4, <1>5, TimeElsewhere

LEMMA TimeCorrect == Spec => []TimeInv
<1>1. Init => TimeInv
  BY DEF Init, TimeInv, Active, Phases, UpPhases, DownPhases
<1>2. QED BY <1>1, TimeKept, TypeCorrect, PTL DEF Spec

\* However the page polls, and however long the manager's answers take, a phase
\* never has more than its timeout ahead of it and what the sequence began with.
THEOREM DeadlineStaysBounded == Spec => []DeadlineBounded
<1>1. TypeOK /\ TimeInv => DeadlineBounded
  <2> SUFFICES ASSUME TypeOK, TimeInv, Active
               PROVE  left <= Timeout[phase] + (IF carry = Never THEN 0 ELSE carry)
    BY DEF DeadlineBounded
  <2>1. Timeout[phase] \in Nat
    BY TimeoutType DEF Active
  <2>2. left \in Int /\ idle \in Nat \cup {Never} /\ carry \in Nat \cup {Never}
    BY DEF TypeOK
  <2>3. QED BY <2>1, <2>2 DEF TimeInv, Never
<1>2. QED BY <1>1, TimeCorrect, TypeCorrect, PTL

\* A sequence gives up only after its phase has been watched for its whole
\* timeout, the first sequence of a listener excepted.
THEOREM PatienceKept == Spec => GivesUpAfterWatching
<1>1. TypeOK /\ TimeInv /\ [Next]_vars
        => [phase' = "failed" /\ Active => seen' > Timeout[phase] \/ carry = Never]_vars
  <2> SUFFICES ASSUME TypeOK, TimeInv, [Next]_vars, phase' = "failed", Active, carry # Never
               PROVE  seen' > Timeout[phase]
    OBVIOUS
  <2>1. phase # "failed"
    BY DEF Active, Phases, UpPhases, DownPhases
  <2>2. PICK s, r, h : UpdateLabSequence(s, r, h)
    <3>1. ~ UNCHANGED clock
      BY <2>1 DEF clock
    <3>2. ~(CancelSequence \/ Relaunch \/ Tick)
      BY <2>1 DEF CancelSequence, Relaunch, Tick
    <3>3. ASSUME NEW k \in {"up", "down"} PROVE ~StartLabSequence(k)
      BY DEF StartLabSequence
    <3>4. QED BY <3>1, <3>2, <3>3, TimeElsewhere
  <2>3. StillWaiting
    <3>1. ~Advance(s, h)
      BY AfterType DEF Advance, EnterLabPhase, Active, Phases, UpPhases, DownPhases
    <3>2. QED BY <2>2, <3>1 DEF UpdateLabSequence
  <2>4. Restored < 0 /\ seen' = seen + (IF gap > Grace THEN 0 ELSE gap)
    BY <2>1, <2>3 DEF StillWaiting
  <2>5. Timeout[phase] \in Nat /\ Grace \in Nat
    BY TimeoutType DEF Active, SequenceAssumption
  <2>6. left \in Int /\ idle \in Nat \cup {Never} /\ gap \in Nat /\ seen \in Nat
    BY DEF TypeOK
  <2>7. QED BY <2>4, <2>5, <2>6 DEF TimeInv, Restored, Never
<1>2. QED BY <1>1, TimeCorrect, TypeCorrect, PTL DEF Spec, GivesUpAfterWatching

----------------------------------------------------------------------------
(* How old what the dashboard believes of the manager's units is.           *)

\* Every unit was active when an answer says so: less than the poll's wait ago if
\* the answer is still on its way, and a round trip more than its age ago if cached.
SaysActive(h) == h.kind = "answer" /\ h.services

ServicesInv ==
  /\ boot = 2 => svcAge = 0
  /\ view.busy /\ SaysActive(view.answer) => svcAge <= view.age
  /\ SaysActive(health) => svcAge <= hAge + SshTimeout

belief == <<boot, svcAge, health, hAge, view>>

LEMMA Ages ==
  ASSUME TypeOK
  PROVE  /\ HealthInterval \in Nat /\ HealthInterval > 0 /\ SshTimeout \in Nat
         /\ Forgotten = HealthInterval + SshTimeout
         /\ hAge \in 0..HealthInterval /\ svcAge \in 0..Forgotten
         /\ view.age \in 0..SshTimeout
BY DEF TypeOK, Views, Forgotten, SequenceAssumption

LEMMA ServicesUntouched ==
  ASSUME ServicesInv, UNCHANGED belief
  PROVE  ServicesInv'
BY DEF ServicesInv, belief, SaysActive

LEMMA NotAnswers ==
  /\ ~SaysActive(NoHealth) /\ ~SaysActive(Silent)
  /\ ~NoView.busy
BY DEF NoHealth, Silent, NoView, SaysActive

\* A poll that is answered from the cache, or that found nothing worth asking.
LEMMA ServicesPolled ==
  ASSUME ServicesInv, PollWithoutSsh
  PROVE  ServicesInv'
<1>1. UNCHANGED <<boot, svcAge, hAge, view>> /\ health' \in {NoHealth, health}
  BY DEF PollWithoutSsh
<1>2. CASE health' = NoHealth
  BY <1>1, <1>2, NotAnswers DEF ServicesInv, SaysActive
<1>3. CASE health' = health
  BY <1>1, <1>3, ServicesUntouched DEF belief
<1>4. QED BY <1>1, <1>2, <1>3

LEMMA ServicesAsked ==
  ASSUME ServicesInv, PollAsksManager
  PROVE  ServicesInv'
<1>1. (\E s : view' = [NoView EXCEPT !.busy = TRUE, !.vms = s]) /\ UNCHANGED <<boot, svcAge, health, hAge>>
  BY DEF PollAsksManager, lab, history
<1>2. view'.answer = NoHealth
  BY <1>1 DEF NoView
<1>3. QED BY <1>1, <1>2, NotAnswers DEF ServicesInv, SaysActive

LEMMA ServicesReported ==
  ASSUME TypeOK, ServicesInv, ManagerReports
  PROVE  ServicesInv'
<1>1. PICK l \in BOOLEAN :
        view' = [view EXCEPT !.answer = [kind |-> "answer", services |-> boot = 2, listed |-> l,
                                         live |-> IF l THEN table ELSE {}]]
  BY DEF ManagerReports
<1>2. view'.age = view.age /\ (view'.answer.services => boot = 2)
  BY <1>1 DEF TypeOK, Views
<1>3. UNCHANGED <<boot, svcAge, health, hAge>>
  BY DEF ManagerReports, lab, history
<1>4. boot = 2 => svcAge = 0
  BY DEF ServicesInv
<1>5. SaysActive(view'.answer) => svcAge' <= view'.age
  BY <1>2, <1>3, <1>4, Ages DEF SaysActive
<1>6. QED BY <1>3, <1>5 DEF ServicesInv, SaysActive

LEMMA ServicesAnswered ==
  ASSUME TypeOK, ServicesInv, PollAnswered
  PROVE  ServicesInv' /\ (SaysActive(health') => svcAge <= SshTimeout)
<1>1. UNCHANGED <<boot, svcAge>> /\ hAge' = 0 /\ view.busy /\ ~view'.busy
  BY NotAnswers DEF PollAnswered
<1>2. SaysActive(health') => svcAge <= SshTimeout
  <2>1. health' = Silent \/ health' = view.answer
    BY DEF PollAnswered
  <2>2. CASE health' = Silent
    BY <2>2, NotAnswers
  <2>3. CASE health' = view.answer
    <3>1. SaysActive(health') => svcAge <= view.age
      BY <1>1, <2>3 DEF ServicesInv
    <3>2. QED BY <3>1, Ages
  <2>4. QED BY <2>1, <2>2, <2>3
<1>3. SaysActive(health') => svcAge' <= hAge' + SshTimeout
  BY <1>1, <1>2, Ages
<1>4. boot' = 2 => svcAge' = 0
  BY <1>1 DEF ServicesInv
<1>5. QED BY <1>1, <1>2, <1>3, <1>4 DEF ServicesInv, SaysActive

LEMMA ServicesTick ==
  ASSUME TypeOK, ServicesInv, Tick
  PROVE  ServicesInv'
<1>1. /\ boot' = boot /\ health' = health
      /\ hAge' = AtMost(HealthInterval, hAge + 1)
      /\ svcAge' = IF boot = 2 THEN 0 ELSE AtMost(Forgotten, svcAge + 1)
      /\ view' = IF view.busy THEN [view EXCEPT !.age = @ + 1] ELSE view
  BY DEF Tick, lab
<1>2. boot' = 2 => svcAge' = 0
  BY <1>1
<1>3. svcAge <= hAge + SshTimeout => svcAge' <= hAge' + SshTimeout
  BY <1>1, Ages DEF AtMost
<1>4. CASE view.busy
  <2>1. view'.age = view.age + 1 /\ view'.answer = view.answer
    BY <1>1, <1>4 DEF TypeOK, Views
  <2>2. svcAge <= view.age => svcAge' <= view'.age
    BY <1>1, <2>1, Ages DEF AtMost
  <2>3. QED BY <1>1, <1>2, <1>3, <1>4, <2>1, <2>2 DEF ServicesInv, SaysActive
<1>5. CASE ~view.busy
  BY <1>1, <1>2, <1>3, <1>5 DEF ServicesInv, SaysActive
<1>6. QED BY <1>4, <1>5

\* A step that changes the manager's guest and leaves the answers alone.
LEMMA ServicesMoved ==
  ASSUME TypeOK, ServicesInv, UNCHANGED <<health, hAge, view>>,
         boot' = 2 => svcAge' = 0, svcAge' \in {0, svcAge}
  PROVE  ServicesInv'
<1>1. CASE svcAge' = 0
  BY <1>1, Ages DEF ServicesInv, SaysActive
<1>2. CASE svcAge' = svcAge
  BY <1>2 DEF ServicesInv, SaysActive
<1>3. QED BY <1>1, <1>2

LEMMA PowerMoves ==
  ASSUME ServicesInv, NEW v, NEW s, Power(v, s)
  PROVE  (boot' = 2 => svcAge' = 0) /\ svcAge' \in {0, svcAge}
BY DEF Power, ServicesInv

LEMMA ServicesKept ==
  ASSUME TypeOK, ServicesInv, [Next]_vars
  PROVE  ServicesInv'
<1>1. CASE PollWithoutSsh
  BY <1>1, ServicesPolled
<1>2. CASE PollAsksManager \/ ManagerReports
  BY <1>2, ServicesAsked, ServicesReported
<1>3. CASE PollAnswered
  BY <1>3, ServicesAnswered
<1>4. CASE (\E k \in {"up", "down"} : StartLabSequence(k)) \/ CancelSequence
           \/ \E v \in VMs, a \in ClickActs : InvokeVmAction(v, a)
  <2>1. UNCHANGED belief
    BY <1>4 DEF StartLabSequence, CancelSequence, InvokeVmAction, belief, lab, caches
  <2>2. QED BY <2>1, ServicesUntouched
<1>5. CASE InvokeServiceAction
  <2>1. /\ hAge' \in {HealthInterval, hAge} /\ health' = health
        /\ svcAge' = (IF 2 \in {boot, boot'} THEN 0 ELSE svcAge) /\ view' = view /\ ~view.busy
    BY <1>5 DEF InvokeServiceAction, Free
  <2>2. SaysActive(health') => svcAge' <= hAge' + SshTimeout
    <3>1. svcAge' \in {0, svcAge}
      BY <2>1
    <3>2. CASE hAge' = HealthInterval
      BY <3>1, <3>2, Ages
    <3>3. CASE hAge' = hAge
      <4>1. SaysActive(health') => svcAge <= hAge + SshTimeout
        BY <2>1 DEF ServicesInv
      <4>2. QED BY <3>1, <3>3, <4>1, Ages
    <3>4. QED BY <2>1, <3>2, <3>3
  <2>3. boot' = 2 => svcAge' = 0
    BY <2>1
  <2>4. QED BY <2>1, <2>2, <2>3 DEF ServicesInv, SaysActive
<1>6. CASE Relaunch
  BY <1>6, NotAnswers DEF Relaunch, ServicesInv, SaysActive
<1>7. CASE Tick
  BY <1>7, ServicesTick
<1>8. ASSUME NEW v \in VMs, NEW a \in Acts, JobRuns(v, a)
      PROVE  ServicesInv'
  BY <1>8, PowerMoves, ServicesMoved DEF JobRuns, caches
<1>9. ASSUME NEW v \in VMs, PowersOff(v)
      PROVE  ServicesInv'
  BY <1>9, PowerMoves, ServicesMoved DEF PowersOff, caches
<1>10. CASE GuestMoves
  BY <1>10, ServicesMoved DEF GuestMoves, caches
<1>11. CASE \/ \E v \in VMs, a \in Acts : JobFails(v, a)
            \/ \E e \in Endpoints : AgentReported(e)
            \/ UNCHANGED vars
  BY <1>11, ServicesUntouched DEF JobFails, AgentReported, vars, belief, lab, caches, history
<1>12. QED
  BY <1>1, <1>2, <1>3, <1>4, <1>5, <1>6, <1>7, <1>8, <1>9, <1>10, <1>11
     DEF Next, Poll, Request, World

LEMMA ServicesCorrect == Spec => []ServicesInv
<1>1. Init => ServicesInv
  <2>1. Init => boot = 0 /\ health = NoHealth /\ view = NoView
    BY DEF Init
  <2>2. QED BY <2>1, NotAnswers DEF ServicesInv
<1>2. QED BY <1>1, ServicesKept, TypeCorrect, PTL DEF Spec

\* The endpoints are asked for only if every manager unit was active less than
\* HealthInterval and one round trip ago, whatever the cached answer and the poll's
\* SSH cost.
THEOREM EndpointsComeAfterServices == Spec => EndpointsAfterServices
<1>1. TypeOK /\ ServicesInv /\ [Next]_vars
        => [phase' = "endpoints" /\ phase # "endpoints" => svcAge < HealthInterval + SshTimeout]_vars
  <2> SUFFICES ASSUME TypeOK, ServicesInv, [Next]_vars, phase' = "endpoints", phase # "endpoints"
               PROVE  svcAge < HealthInterval + SshTimeout
    OBVIOUS
  <2>0. ASSUME NEW s, NEW r, NEW h, UpdateLabSequence(s, r, h)
        PROVE  SaysActive(h)
    <3>1. Active /\ Satisfied(phase, s, r, h) /\ Advance(s, h)
      BY <2>0 DEF UpdateLabSequence, StillWaiting
    <3>2. After(phase) = "endpoints"
      BY <3>1 DEF Advance, EnterLabPhase
    <3>3. phase = "manager-services"
      BY <3>1, <3>2 DEF After, Active, Phases, UpPhases, DownPhases
    <3>4. QED BY <3>1, <3>3 DEF Satisfied, SaysActive
  <2>2. PollWithoutSsh \/ PollAnswered
    <3>1. ~ UNCHANGED clock
      BY DEF clock
    <3>2. ASSUME NEW k \in {"up", "down"} PROVE ~StartLabSequence(k)
      BY DEF StartLabSequence, EnterLabPhase
    <3>3. ~(CancelSequence \/ Relaunch \/ Tick)
      BY DEF CancelSequence, Relaunch, Tick
    <3>4. ~PollAsksManager /\ ~InvokeServiceAction /\ ~ManagerReports
      BY DEF PollAsksManager, InvokeServiceAction, ManagerReports, sequence
    <3>5. ASSUME NEW v \in VMs, NEW a PROVE ~InvokeVmAction(v, a)
      BY DEF InvokeVmAction, sequence
    <3>6. ~World
      BY DEF World, JobRuns, JobFails, PowersOff, GuestMoves, AgentReported, ManagerReports, sequence
    <3>7. ~ UNCHANGED vars
      BY DEF vars, sequence
    <3>8. QED BY <3>2, <3>3, <3>4, <3>5, <3>6, <3>7 DEF Next, Poll, Request
  <2>3. CASE PollWithoutSsh
    <3>1. SaysActive(health')
      BY <2>0, <2>3 DEF PollWithoutSsh
    <3>2. CacheFresh /\ health' = health
      BY <2>3, <3>1, NotAnswers DEF PollWithoutSsh
    <3>3. svcAge <= hAge + SshTimeout /\ hAge < HealthInterval
      BY <3>1, <3>2 DEF ServicesInv, CacheFresh
    <3>4. QED BY <3>3, Ages
  <2>4. CASE PollAnswered
    <3>1. SaysActive(health')
      BY <2>0, <2>4 DEF PollAnswered
    <3>2. QED BY <2>4, <3>1, ServicesAnswered, Ages
  <2>5. QED BY <2>2, <2>3, <2>4
<1>2. QED BY <1>1, ServicesCorrect, TypeCorrect, PTL DEF Spec, EndpointsAfterServices

----------------------------------------------------------------------------
(* Why no endpoint comes up behind an undisturbed shutdown.                 *)

\* While the lab is going down undisturbed, no endpoint is about to be started,
\* what a poll in flight read as neither running nor missing still does not run,
\* and once the manager's turn has come no endpoint runs.
Quiet == calm /\ ~missed /\ kind = "down" /\ phase \in DownPhases \cup {"done"}

KindInv == Active => (kind = "up" <=> phase \in UpPhases)

Stopped(s) == s \notin {"Running", "Not found"}

NoneStarts(js) == \A e \in Endpoints : <<e, "start">> \notin js /\ <<e, "restart">> \notin js

CalmInv ==
  Quiet => /\ NoneStarts(jobs)
           /\ view.busy => \A e \in Endpoints : Stopped(view.vms[e]) => vm[e] # "Running"
           /\ phase \in {"manager-off", "done"} => \A e \in Endpoints : vm[e] # "Running"

\* Down phases ask for shutdowns only.
LEMMA ShutdownsOnly ==
  ASSUME NEW p \in DownPhases, NEW s, NEW e
  PROVE  <<e, "start">> \notin Requests(p, s) /\ <<e, "restart">> \notin Requests(p, s)
<1>1. p # "manager" /\ p # "endpoints"
  BY DEF DownPhases
<1>2. QED BY <1>1 DEF Requests

\* With no start pending, a VM that does not run does not come to run.
LEMMA PowerStays ==
  ASSUME TypeOK, NEW e \in Endpoints, vm[e] # "Running", NEW v \in VMs, NEW s \in VmStates,
         Power(v, s), s = "Running" => v # e
  PROVE  vm'[e] # "Running"
<1>1. vm \in [VMs -> VmStates] /\ e \in VMs /\ vm' = [vm EXCEPT ![v] = s]
  BY DEF TypeOK, Power, VMs
<1>2. QED BY <1>1

LEMMA VmStays ==
  ASSUME TypeOK, World, NEW e \in Endpoints, vm[e] # "Running",
         <<e, "start">> \notin jobs, <<e, "restart">> \notin jobs
  PROVE  vm'[e] # "Running"
<1>1. ASSUME NEW v \in VMs, NEW a \in Acts, JobRuns(v, a)
      PROVE  vm'[e] # "Running"
  <2>1. PICK s \in VmStates : Power(v, s) /\ (s = "Running" => v # e)
    <3>1. a \in {"start", "restart"} => v # e
      BY <1>1 DEF JobRuns
    <3>2. QED BY <1>1, <3>1 DEF JobRuns, VmStates
  <2>2. QED BY <2>1, PowerStays
<1>2. ASSUME NEW v \in VMs, PowersOff(v)
      PROVE  vm'[e] # "Running"
  <2>1. Power(v, "Off") /\ "Off" \in VmStates
    BY <1>2 DEF PowersOff, VmStates
  <2>2. QED BY <2>1, PowerStays
<1>3. CASE \/ \E v \in VMs, a \in Acts : JobFails(v, a)
           \/ GuestMoves \/ ManagerReports
           \/ \E d \in Endpoints : AgentReported(d)
  BY <1>3 DEF JobFails, GuestMoves, ManagerReports, AgentReported, lab
<1>4. QED BY <1>1, <1>2, <1>3 DEF World

\* Update-LabSequence on states in which an endpoint that does not run truly does not.
LEMMA CalmUpdated ==
  ASSUME TypeOK, KindInv, CalmInv, NEW s, NEW r, NEW h, UpdateLabSequence(s, r, h), vm' = vm,
         Quiet => \A e \in Endpoints : Stopped(s[e]) => vm[e] # "Running",
         ~view'.busy
  PROVE  KindInv' /\ CalmInv'
<1> USE DEF Active, Phases
<1>0. kind' = kind /\ calm' = calm /\ (~missed' => ~missed)
  BY DEF UpdateLabSequence
<1>1. CASE ~Active
  BY <1>0, <1>1 DEF UpdateLabSequence, KindInv, CalmInv, Quiet
<1>2. CASE Active /\ StillWaiting
  <2>1. jobs' = jobs /\ phase' \in {phase, "failed"}
    BY <1>2 DEF StillWaiting
  <2>2. QED BY <1>0, <2>1 DEF KindInv, CalmInv, Quiet, UpPhases, DownPhases
<1>3. CASE Active /\ Satisfied(phase, s, r, h) /\ Advance(s, h)
  <2>1. phase' = After(phase) /\ After(phase) \in Phases \cup {"done"}
    BY <1>3, AfterType DEF Advance, EnterLabPhase
  <2>2. KindInv'
    BY <1>0, <1>3, <2>1 DEF After, KindInv, UpPhases, DownPhases
  <2>3. CASE phase \in UpPhases
    <3>1. kind = "up"
      BY <1>3, <2>3 DEF KindInv
    <3>2. QED BY <1>0, <2>2, <3>1 DEF CalmInv, Quiet
  <2>4. CASE phase \in DownPhases
    <3>1. phase' \in {"manager-off", "done"}
      BY <2>1, <2>4 DEF After, DownPhases
    <3>2. SUFFICES ASSUME Quiet'
                   PROVE  CalmInv'
      BY <2>2 DEF CalmInv
    <3>3. Quiet
      BY <1>0, <2>4, <3>2 DEF Quiet
    <3>4. \A e \in Endpoints : vm[e] # "Running"
      <4>1. CASE phase = "endpoints-off"
        <5>1. \A e \in Endpoints : s[e] # "Running"
          BY <1>3, <4>1 DEF Satisfied
        <5>2. ~Missed(s)
          BY <3>2, <4>1 DEF Quiet, UpdateLabSequence
        <5>3. QED BY <3>3, <5>1, <5>2 DEF Missed, Stopped
      <4>2. CASE phase = "manager-off"
        BY <3>3, <4>2 DEF CalmInv
      <4>3. QED BY <2>4, <4>1, <4>2 DEF DownPhases
    <3>5. NoneStarts(jobs')
      <4>1. CASE phase' = "done"
        BY <1>3, <2>1, <3>3, <4>1 DEF Advance, CalmInv
      <4>2. CASE phase' = "manager-off"
        <5>1. jobs' \subseteq jobs \cup Requests("manager-off", s)
          BY <1>3, <2>1, <4>2 DEF Advance, EnterLabPhase, Ask
        <5>2. "manager-off" \in DownPhases
          BY DEF DownPhases
        <5>3. QED BY <3>3, <5>1, <5>2, ShutdownsOnly DEF CalmInv, NoneStarts
      <4>3. QED BY <3>1, <4>1, <4>2
    <3>6. QED BY <3>4, <3>5 DEF CalmInv
  <2>5. QED BY <1>3, <2>3, <2>4
<1>4. QED BY <1>1, <1>2, <1>3 DEF UpdateLabSequence

\* A step that leaves the sequence alone and starts no endpoint.
LEMMA CalmUntouched ==
  ASSUME KindInv, CalmInv, UNCHANGED <<kind, phase, missed>>, calm' => calm,
         view'.busy = view.busy, view'.vms = view.vms,
         NoneStarts(jobs) => NoneStarts(jobs'),
         NoneStarts(jobs) => \A e \in Endpoints : vm[e] # "Running" => vm'[e] # "Running"
  PROVE  KindInv' /\ CalmInv'
<1>1. KindInv'
  BY DEF KindInv, Active
<1>2. Quiet' => Quiet
  BY DEF Quiet
<1>3. SUFFICES ASSUME Quiet' PROVE CalmInv'
  BY <1>1 DEF CalmInv
<1>4. /\ NoneStarts(jobs)
      /\ view.busy => \A e \in Endpoints : Stopped(view.vms[e]) => vm[e] # "Running"
      /\ phase \in {"manager-off", "done"} => \A e \in Endpoints : vm[e] # "Running"
  BY <1>2, <1>3 DEF CalmInv
<1>5. \A e \in Endpoints : vm[e] # "Running" => vm'[e] # "Running"
  BY <1>4
<1>6. NoneStarts(jobs')
  BY <1>4
<1>7. view'.busy => \A e \in Endpoints : Stopped(view'.vms[e]) => vm'[e] # "Running"
  BY <1>4, <1>5
<1>8. phase' \in {"manager-off", "done"} => \A e \in Endpoints : vm'[e] # "Running"
  BY <1>4, <1>5
<1>9. QED BY <1>6, <1>7, <1>8 DEF CalmInv

LEMMA CalmKept ==
  ASSUME TypeOK, KindInv, CalmInv, [Next]_vars
  PROVE  KindInv' /\ CalmInv'
<1>1. CASE PollWithoutSsh
  <2>1. PICK s \in Reads : UpdateLabSequence(s, Shown(s), health')
    BY <1>1 DEF PollWithoutSsh
  <2>2. \A e \in Endpoints : Stopped(s[e]) => vm[e] # "Running"
    BY ReadsType DEF Stopped, VMs
  <2>3. QED BY <1>1, <2>1, <2>2, CalmUpdated DEF PollWithoutSsh, Free
<1>2. CASE PollAsksManager
  <2>1. PICK s \in Reads : view' = [NoView EXCEPT !.busy = TRUE, !.vms = s]
    BY <1>2 DEF PollAsksManager
  <2>2. UNCHANGED <<jobs, vm, kind, phase, calm, missed>>
    BY <1>2 DEF PollAsksManager, lab, sequence, history
  <2>3. view'.vms = s
    BY <2>1 DEF NoView
  <2>4. \A e \in Endpoints : Stopped(s[e]) => vm[e] # "Running"
    BY ReadsType DEF Stopped, VMs
  <2>5. QED BY <2>1, <2>2, <2>3, <2>4 DEF KindInv, CalmInv, Quiet, Active
<1>3. CASE PollAnswered
  <2>1. view.busy /\ ~view'.busy /\ vm' = vm /\ UpdateLabSequence(view.vms, probe, health')
    BY <1>3 DEF PollAnswered, NoView
  <2>2. Quiet => \A e \in Endpoints : Stopped(view.vms[e]) => vm[e] # "Running"
    BY <2>1 DEF CalmInv
  <2>3. QED BY <2>1, <2>2, CalmUpdated
<1>4. ASSUME NEW k \in {"up", "down"}, StartLabSequence(k)
      PROVE  KindInv' /\ CalmInv'
  <2>1. PICK s \in Reads :
             /\ kind' = k /\ vm' = vm /\ ~view'.busy /\ calm' = (jobs = {})
             /\ EnterLabPhase(IF k = "up" THEN "manager" ELSE "endpoints-off", s)
    BY <1>4 DEF StartLabSequence, Free, caches
  <2>2. CASE k = "up"
    BY <2>1, <2>2 DEF EnterLabPhase, KindInv, CalmInv, Quiet, Active, Phases, UpPhases
  <2>3. CASE k = "down"
    <3>1. phase' = "endpoints-off" /\ jobs' \subseteq jobs \cup Requests("endpoints-off", s)
      BY <2>1, <2>3 DEF EnterLabPhase, Ask
    <3>2. KindInv'
      BY <2>1, <2>3, <3>1 DEF KindInv, Active, UpPhases
    <3>3. calm' => NoneStarts(jobs')
      <4>1. "endpoints-off" \in DownPhases
        BY DEF DownPhases
      <4>2. QED BY <2>1, <3>1, <4>1, ShutdownsOnly DEF NoneStarts
    <3>4. QED BY <2>1, <3>1, <3>2, <3>3 DEF CalmInv, Quiet
  <2>4. QED BY <2>2, <2>3
<1>5. CASE CancelSequence \/ Relaunch
  BY <1>5 DEF CancelSequence, Relaunch, KindInv, CalmInv, Quiet, Active, Phases, UpPhases, DownPhases
<1>6. ASSUME NEW v \in VMs, NEW a \in ClickActs, InvokeVmAction(v, a)
      PROVE  KindInv' /\ CalmInv'
  BY <1>6 DEF InvokeVmAction, sequence, KindInv, CalmInv, Quiet, Active
<1>7. CASE World
  <2>1. UNCHANGED <<kind, phase, calm, missed>> /\ view'.busy = view.busy /\ view'.vms = view.vms
    <3>1. CASE ManagerReports
      BY <3>1 DEF ManagerReports, TypeOK, Views, sequence, history
    <3>2. CASE ~ManagerReports
      BY <1>7, <3>2 DEF World, JobRuns, JobFails, PowersOff, GuestMoves, AgentReported,
                        sequence, caches, history
    <3>3. QED BY <3>1, <3>2
  <2>2. NoneStarts(jobs) => NoneStarts(jobs')
    <3>1. ASSUME NEW v \in VMs, NEW a \in Acts, JobRuns(v, a), NoneStarts(jobs)
          PROVE  NoneStarts(jobs')
      <4>1. \/ jobs' = jobs \ {<<v, a>>}
            \/ a = "restart" /\ jobs' = (jobs \ {<<v, a>>}) \cup {<<v, "start">>}
        BY <3>1 DEF JobRuns
      <4>2. a = "restart" => v \notin Endpoints
        BY <3>1 DEF JobRuns, NoneStarts
      <4>3. CASE jobs' = jobs \ {<<v, a>>}
        BY <3>1, <4>3 DEF NoneStarts
      <4>4. CASE a = "restart" /\ jobs' = (jobs \ {<<v, a>>}) \cup {<<v, "start">>}
        <5>1. SUFFICES ASSUME NEW e \in Endpoints
                       PROVE  <<e, "start">> \notin jobs' /\ <<e, "restart">> \notin jobs'
          BY DEF NoneStarts
        <5>2. <<e, "start">> # <<v, "start">> /\ <<e, "restart">> # <<v, "start">>
          BY <4>2, <4>4
        <5>3. <<e, "start">> \notin jobs /\ <<e, "restart">> \notin jobs
          BY <3>1 DEF NoneStarts
        <5>4. QED BY <4>4, <5>2, <5>3
      <4>5. QED BY <4>1, <4>3, <4>4
    <3>2. CASE ~ \E v \in VMs, a \in Acts : JobRuns(v, a)
      <4>1. jobs' \subseteq jobs
        BY <1>7, <3>2 DEF World, JobFails, PowersOff, GuestMoves, ManagerReports, AgentReported, lab
      <4>2. QED BY <4>1 DEF NoneStarts
    <3>3. QED BY <3>1, <3>2
  <2>3. NoneStarts(jobs) => \A e \in Endpoints : vm[e] # "Running" => vm'[e] # "Running"
    BY <1>7, VmStays DEF NoneStarts
  <2>4. QED BY <2>1, <2>2, <2>3, CalmUntouched
<1>8. CASE InvokeServiceAction \/ Tick \/ UNCHANGED vars
  <2>1. UNCHANGED <<vm, jobs, kind, phase, calm, missed>>
    BY <1>8 DEF InvokeServiceAction, Tick, vars, lab, sequence, caches, history
  <2>2. view'.busy = view.busy /\ view'.vms = view.vms
    <3>1. CASE Tick
      BY <3>1 DEF Tick, TypeOK, Views
    <3>2. CASE ~Tick
      BY <1>8, <3>2 DEF InvokeServiceAction, vars, caches
    <3>3. QED BY <3>1, <3>2
  <2>3. QED BY <2>1, <2>2, CalmUntouched
<1>9. QED
  BY <1>1, <1>2, <1>3, <1>4, <1>5, <1>6, <1>7, <1>8 DEF Next, Poll, Request

\* Undisturbed, the lab goes down in order: no endpoint runs once the manager has
\* been asked to stop, and none when the lab is said to be down, unless a poll of the
\* take-down had a running endpoint as not found.
THEOREM ManagerGoesLast == Spec => []ManagerClosesLast
<1>1. Init => KindInv /\ CalmInv
  BY DEF Init, KindInv, CalmInv, Quiet, Active, Phases, UpPhases, DownPhases
<1>2. CalmInv => ManagerClosesLast
  BY DEF CalmInv, Quiet, ManagerClosesLast, DownPhases
<1>3. QED BY <1>1, <1>2, CalmKept, TypeCorrect, PTL DEF Spec
=============================================================================
