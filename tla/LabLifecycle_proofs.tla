------------------------ MODULE LabLifecycle_proofs ------------------------
(* What LabLifecycle promises, for any lab, and any number of scripts and    *)
(* faults.                                                                   *)
EXTENDS LabLifecycle, WellFoundedInduction, TLAPS

LEMMA OrderType == VMs = {Order[i] : i \in DOMAIN Order} /\ DOMAIN Order \subseteq Nat
BY LifecycleAssumption DEF VMs, LifecycleAssumption

\* The VM a loop comes to next is one of those left.
LEMMA FirstIn ==
  ASSUME NEW vms \in SUBSET VMs, vms # {}
  PROVE  First(vms) \in vms
<1> DEFINE at == {i \in DOMAIN Order : Order[i] \in vms}
<1>1. at \subseteq Nat /\ at # {}
  BY OrderType
<1>2. \E i \in at : \A j \in at : ~(<<j, i>> \in OpToRel(<, Nat))
  BY <1>1, NatLessThanWellFounded, WFMin
<1>3. \E i \in at : \A j \in at : i <= j
  <2>1. PICK i \in at : \A j \in at : ~(<<j, i>> \in OpToRel(<, Nat))
    BY <1>2
  <2>2. ASSUME NEW j \in at PROVE i <= j
    <3>1. i \in Nat /\ j \in Nat
      BY <1>1
    <3>2. ~(j < i)
      BY <2>1, <3>1 DEF OpToRel
    <3>3. QED BY <3>1, <3>2
  <2>3. QED BY <2>2
<1>4. (CHOOSE i \in at : \A j \in at : i <= j) \in at
  BY <1>3
<1>5. QED BY <1>4 DEF First

\* Where a script can be, and what it has left to do.
Shape ==
  /\ script.name = "none" <=> script.pc = "idle"
  /\ script.name = "new" =>
       script.pc \in {"nat", "adapter", "address", "copy", "define", "configure", "end"}
  /\ script.name = "remove" => script.pc \in {"vm", "end"}
  /\ script.pc \in {"copy", "define", "configure"} => script.todo # {}
  /\ script.pc = "end" => script.todo = {}
  /\ script.todo \subseteq script.all

LEMMA IdleType ==
  /\ Idle \in Scripts
  /\ Idle.name = "none" /\ Idle.pc = "idle" /\ Idle.todo = {} /\ Idle.all = {}
BY DEF Idle, Scripts, Pcs

LEMMA TargetsType == \A vms \in Targets : vms \subseteq VMs
BY LifecycleAssumption DEF Targets, LifecycleAssumption

LEMMA FaultType ==
  ASSUME faults \in 0 .. MaxFaults, Fault \/ Spared
  PROVE  faults' \in 0 .. MaxFaults
BY LifecycleAssumption DEF LifecycleAssumption, Fault, Spared

LEMMA TodoType ==
  ASSUME TypeOK, script.todo # {}
  PROVE  First(script.todo) \in script.todo /\ First(script.todo) \in VMs
BY FirstIn DEF TypeOK, Scripts

LEMMA ToVmType == \A todo : ToVm(todo) = IF todo = {} THEN "end" ELSE "copy"
BY DEF ToVm

LEMMA TypeKept ==
  ASSUME TypeOK, Shape, [Next]_vars
  PROVE  TypeOK' /\ Shape'
<1> USE DEF TypeOK, Shape, Scripts, Pcs, lab, host, vars
<1>1. ASSUME NEW vms \in Targets, NewLab(vms)
      PROVE  TypeOK' /\ Shape'
  <2>1. /\ vms \subseteq VMs /\ runs' \in 0 .. MaxRuns
        /\ UNCHANGED <<backend, foreign, adapter, nat, defs, files, faults>>
    BY <1>1, TargetsType, LifecycleAssumption DEF NewLab, LifecycleAssumption
  <2>2. /\ script'.name = "new" /\ script'.all = vms /\ script'.todo = vms
        /\ script'.pc \in {"copy", "end", "adapter", "nat"}
        /\ script'.pc = "copy" => vms # {}
        /\ script'.pc = "end" => vms = {}
        /\ script' \in Scripts
    <3>1. PICK pc \in {"copy", "end", "adapter", "nat"} :
             /\ script' = [Idle EXCEPT !.name = "new", !.all = vms, !.todo = vms, !.pc = pc]
             /\ pc = "copy" => vms # {}
             /\ pc = "end" => vms = {}
      BY <1>1, ToVmType DEF NewLab
    <3>2. QED BY <2>1, <3>1 DEF Idle
  <2>3. QED BY <2>1, <2>2
<1>2. CASE AddAdapter \/ AddAddress \/ AddNat
  <2>1. faults' \in 0 .. MaxFaults
    BY <1>2, FaultType DEF AddAdapter, AddAddress, AddNat
  <2>2. /\ UNCHANGED <<backend, foreign, defs, files, runs>>
        /\ adapter' \in {"none", "bare", "addressed"} /\ nat' \in BOOLEAN
    BY <1>2 DEF AddAdapter, AddAddress, AddNat
  <2>3. PICK pc \in {"adapter", "address", "nat", "copy", "end"} :
           /\ Goes(pc) \/ Complains(pc)
           /\ pc = "copy" => script.todo # {}
           /\ pc = "end" => script.todo = {}
    BY <1>2, ToVmType DEF AddAdapter, AddAddress, AddNat
  <2>4. script.name = "new"
    BY <1>2 DEF AddAdapter, AddAddress, AddNat
  <2>5. QED BY <2>1, <2>2, <2>3, <2>4 DEF Goes, Complains
<1>3. CASE CopyDisk \/ DefineVm
  <2>1. faults' \in 0 .. MaxFaults
    BY <1>3, FaultType DEF CopyDisk, DefineVm
  <2>2. First(script.todo) \in VMs
    BY <1>3, TodoType DEF CopyDisk, DefineVm
  <2>3. PICK pc \in {"define", "configure"} : Goes(pc) \/ Complains(pc)
    BY <1>3 DEF CopyDisk, DefineVm
  <2>4. /\ UNCHANGED <<backend, foreign, adapter, nat, runs>>
        /\ script.name = "new" /\ script.todo # {}
    BY <1>3 DEF CopyDisk, DefineVm
  <2>5. /\ files' \in [VMs -> {"none", "fresh", "used"}]
        /\ defs' \in [VMs -> {"none", "bare", "part", "whole"}]
    BY <1>3, <2>2 DEF CopyDisk, DefineVm
  <2>6. /\ script' \in Scripts
        /\ script'.name = "new" /\ script'.pc = pc
        /\ script'.all = script.all /\ script'.todo = script.todo
    BY <2>3, <2>4 DEF Goes, Complains
  <2>7. QED BY <2>1, <2>4, <2>5, <2>6
<1>12. CASE NoVm
  <2>1. faults' \in 0 .. MaxFaults
    BY <1>12, FaultType DEF NoVm
  <2>2. First(script.todo) \in VMs
    BY <1>12, TodoType DEF NoVm
  <2>3. files' \in [VMs -> {"none", "fresh", "used"}]
    BY <1>12, <2>2 DEF NoVm
  <2>4. QED BY <1>12, <2>1, <2>3, IdleType DEF NoVm
<1>4. CASE ConfigureVm \/ StopAttached
  <2>1. faults' \in 0 .. MaxFaults
    BY <1>4, FaultType DEF ConfigureVm, StopAttached
  <2>2. First(script.todo) \in VMs
    BY <1>4, TodoType DEF ConfigureVm, StopAttached
  <2>3. /\ UNCHANGED <<backend, foreign, adapter, nat, files, runs>>
        /\ defs' \in [VMs -> {"none", "bare", "part", "whole"}]
    BY <1>4, <2>2 DEF ConfigureVm, StopAttached
  <2>4. CASE script' = Idle
    BY <2>1, <2>3, <2>4, IdleType
  <2>5. CASE script' # Idle
    <3>1. /\ script' \in Scripts
          /\ script'.name = script.name /\ script'.all = script.all
          /\ script'.todo = script.todo \ {First(script.todo)}
          /\ script'.pc = ToVm(script.todo \ {First(script.todo)})
      <4> DEFINE left == script.todo \ {First(script.todo)}
                 rest == [script EXCEPT !.todo = left, !.pc = ToVm(left)]
      <4>1. script' = rest \/ script' = [rest EXCEPT !.errors = TRUE]
        BY <1>4, <2>5 DEF ConfigureVm, StopAttached
      <4>2. left \in SUBSET VMs /\ ToVm(left) \in Pcs
        BY ToVmType
      <4>3. QED BY <4>1, <4>2
    <3>2. script.name = "new"
      BY <1>4 DEF ConfigureVm, StopAttached
    <3>3. QED BY <2>1, <2>3, <3>1, <3>2, ToVmType
  <2>6. QED BY <2>4, <2>5
<1>5. ASSUME NEW vms \in Targets, NEW keep \in BOOLEAN, NEW disks \in BOOLEAN,
             RemoveLab(vms, keep, disks)
      PROVE  TypeOK' /\ Shape'
  <2> DEFINE present == {v \in vms : defs[v] # "none"}
  <2>1. /\ present \subseteq VMs /\ runs' \in 0 .. MaxRuns
        /\ UNCHANGED <<backend, foreign, adapter, nat, defs, files, faults>>
    BY <1>5, TargetsType, LifecycleAssumption DEF RemoveLab, LifecycleAssumption
  <2>2. RemovingNetwork(vms, keep) \in BOOLEAN
    BY DEF RemovingNetwork
  <2>3. script' = [Idle EXCEPT !.name = "remove", !.all = present, !.todo = present,
                     !.disks = disks, !.network = RemovingNetwork(vms, keep), !.pc = "vm"]
    BY <1>5 DEF RemoveLab
  <2>4. QED BY <2>1, <2>2, <2>3, IdleType DEF Idle
<1>6. CASE RemoveVm
  <2>1. faults' \in 0 .. MaxFaults
    BY <1>6, FaultType DEF RemoveVm
  <2>2. First(script.todo) \in VMs
    BY <1>6, TodoType DEF RemoveVm
  <2>3. Left(First(script.todo), script.disks) \in {"none", "fresh", "used"}
    BY <2>2 DEF Left
  <2>4. /\ UNCHANGED <<backend, foreign, adapter, nat, runs>>
        /\ defs' \in [VMs -> {"none", "bare", "part", "whole"}]
        /\ files' \in [VMs -> {"none", "fresh", "used"}]
    <3>1. PICK d \in {defs, [defs EXCEPT ![First(script.todo)] = "none"]},
               f \in {files, [files EXCEPT ![First(script.todo)] = Left(First(script.todo), script.disks)]} :
             defs' = d /\ files' = f
      BY <1>6 DEF RemoveVm
    <3>2. UNCHANGED <<backend, foreign, adapter, nat, runs>>
      BY <1>6 DEF RemoveVm
    <3>3. QED BY <2>2, <2>3, <3>1, <3>2
  <2>5. /\ script' \in Scripts
        /\ script'.name = script.name /\ script'.all = script.all
        /\ script'.todo = script.todo \ {First(script.todo)}
        /\ script'.pc = script.pc
    <3> DEFINE left == script.todo \ {First(script.todo)}
               rest == [script EXCEPT !.todo = left]
    <3>1. script' = rest \/ script' = [rest EXCEPT !.errors = TRUE]
      BY <1>6 DEF RemoveVm
    <3>2. left \in SUBSET VMs
      OBVIOUS
    <3>3. QED BY <3>1, <3>2
  <2>6. script.pc = "vm"
    BY <1>6 DEF RemoveVm
  <2>7. QED BY <2>1, <2>4, <2>5, <2>6
<1>7. CASE RemoveNetwork \/ KeepNetwork
  <2>1. faults' \in 0 .. MaxFaults
    BY <1>7, FaultType DEF RemoveNetwork, KeepNetwork
  <2>2. /\ UNCHANGED <<backend, foreign, defs, files, runs>>
        /\ adapter' \in {"none", "bare", "addressed"} /\ nat' \in BOOLEAN
    BY <1>7 DEF RemoveNetwork, KeepNetwork
  <2>3. script.pc = "vm" /\ script.todo = {} /\ (Goes("end") \/ Complains("end"))
    BY <1>7 DEF RemoveNetwork, KeepNetwork, VmsGone
  <2>4. /\ script' \in Scripts
        /\ script'.name = "remove" /\ script'.pc = "end"
        /\ script'.all = script.all /\ script'.todo = script.todo
    BY <2>3 DEF Goes, Complains
  <2>5. QED BY <2>1, <2>2, <2>3, <2>4
<1>8. CASE Ends \/ Stops
  <2>1. faults' \in 0 .. MaxFaults
    BY <1>8, FaultType DEF Ends, Stops
  <2>2. script' = Idle /\ UNCHANGED <<backend, foreign, adapter, nat, runs>>
    BY <1>8 DEF Ends, Stops
  <2>3. defs' \in [VMs -> {"none", "bare", "part", "whole"}]
        /\ files' \in [VMs -> {"none", "fresh", "used"}]
    BY <1>8 DEF Ends, Stops
  <2>4. QED BY <2>1, <2>2, <2>3, IdleType
<1>9. ASSUME NEW v \in VMs, GuestRuns(v) \/ Review(v)
      PROVE  TypeOK' /\ Shape'
  BY <1>9 DEF GuestRuns, Review
<1>10. CASE UNCHANGED vars
  BY <1>10
<1>11. QED BY <1>1, <1>2, <1>3, <1>4, <1>5, <1>6, <1>7, <1>8, <1>9, <1>10, <1>12 DEF Next

LEMMA ShapeCorrect == Spec => [](TypeOK /\ Shape)
<1>1. Init => TypeOK /\ Shape
  <2> SUFFICES ASSUME Init PROVE TypeOK /\ Shape
    OBVIOUS
  <2>1. script = Idle /\ runs = 0 /\ faults = 0 /\ backend \in Backends
        /\ adapter = "none" /\ nat = FALSE
        /\ defs = [v \in VMs |-> "none"] /\ files = [v \in VMs |-> "none"]
    BY DEF Init
  <2>2. foreign \in BOOLEAN
    BY LifecycleAssumption DEF Init, LifecycleAssumption
  <2>3. 0 \in 0 .. MaxRuns /\ 0 \in 0 .. MaxFaults
    BY LifecycleAssumption DEF LifecycleAssumption
  <2>4. QED BY <2>1, <2>2, <2>3, IdleType DEF TypeOK, Shape
<1>2. QED BY <1>1, TypeKept, PTL DEF Spec

\* The network, the definitions, the directories and the script keep their types.
THEOREM LifecycleTypes == Spec => []TypeOK
BY ShapeCorrect, PTL

----------------------------------------------------------------------------
\* No directory a build writes to holds a guest.
Unused == script.name = "new" => \A v \in script.all : files[v] # "used"

\* What the steps of a build leave of the script.
BuildSteps == AddAdapter \/ AddAddress \/ AddNat \/ CopyDisk \/ DefineVm \/ ConfigureVm

LEMMA BuildsOn ==
  ASSUME TypeOK, Shape, BuildSteps
  PROVE  script.name = "new" /\ script'.name = "new" /\ script'.all = script.all
<1>1. script.name = "new"
  BY DEF BuildSteps, AddAdapter, AddAddress, AddNat, CopyDisk, DefineVm, ConfigureVm,
         TypeOK, Shape, Scripts
<1>2. script'.name = script.name /\ script'.all = script.all
  BY DEF BuildSteps, AddAdapter, AddAddress, AddNat, CopyDisk, DefineVm, ConfigureVm,
         Goes, Complains, TypeOK, Scripts
<1>3. QED BY <1>1, <1>2

LEMMA UnusedKept ==
  ASSUME TypeOK, Shape, Unused, [Next]_vars
  PROVE  Unused'
<1> USE DEF TypeOK, Shape, Scripts, Unused
<1>1. ASSUME NEW vms \in Targets, NewLab(vms)
      PROVE  Unused'
  <2>1. files' = files /\ script'.all = vms /\ \A v \in vms : files[v] = "none"
    BY <1>1 DEF NewLab, Refuses, Exists, lab, Idle
  <2>2. QED BY <2>1
<1>2. CASE BuildSteps
  <2>1. script.name = "new" /\ script'.name = "new" /\ script'.all = script.all
    BY <1>2, BuildsOn
  <2>2. files' = files \/ \E v : files' = [files EXCEPT ![v] = "fresh"]
    BY <1>2 DEF BuildSteps, AddAdapter, AddAddress, AddNat, CopyDisk, DefineVm, ConfigureVm
  <2>3. QED BY <2>1, <2>2
<1>3. ASSUME NEW vms \in Targets, NEW keep \in BOOLEAN, NEW disks \in BOOLEAN,
             RemoveLab(vms, keep, disks)
      PROVE  Unused'
  <2>1. script'.name = "remove"
    BY <1>3 DEF RemoveLab, Idle
  <2>2. QED BY <2>1
<1>4. CASE RemoveVm \/ RemoveNetwork \/ KeepNetwork
  <2>1. script.pc = "vm" /\ script'.name = script.name
    BY <1>4 DEF RemoveVm, RemoveNetwork, KeepNetwork, VmsGone, Goes, Complains
  <2>2. QED BY <2>1
<1>5. CASE StopAttached \/ Ends \/ Stops
  BY <1>5, IdleType DEF StopAttached, Ends, Stops
<1>9. CASE NoVm
  BY <1>9, IdleType DEF NoVm
<1>6. ASSUME NEW v \in VMs, GuestRuns(v) \/ Review(v)
      PROVE  Unused'
  BY <1>6 DEF GuestRuns, Review
<1>7. CASE UNCHANGED vars
  BY <1>7 DEF vars, lab
<1>8. QED BY <1>1, <1>2, <1>3, <1>4, <1>5, <1>6, <1>7, <1>9 DEF Next, BuildSteps

\* No build, and no removal that keeps disks, loses what a guest has written, in
\* any lab and after any number of stopped scripts.
THEOREM DisksKept == Spec => InstalledDisksKept
<1>1. Init => Unused
  BY IdleType DEF Init, Unused
<1>2. TypeOK /\ Shape /\ Unused /\ [Next]_vars => Unused'
  BY UnusedKept
<1>3. TypeOK /\ Shape /\ Unused /\ [Next]_vars
        => [\A v \in VMs : files[v] = "used" /\ files'[v] # "used" =>
              (script.name = "remove" /\ script.disks /\ v \in script.all) \/ Review(v)]_vars
  <2> SUFFICES ASSUME TypeOK, Shape, Unused, [Next]_vars,
                      NEW v \in VMs, files[v] = "used", files'[v] # "used"
               PROVE  (script.name = "remove" /\ script.disks /\ v \in script.all) \/ Review(v)
    OBVIOUS
  <2> USE DEF TypeOK, Shape, Scripts, Unused
  <2>1. ASSUME NEW vms \in Targets, NEW keep \in BOOLEAN, NEW disks \in BOOLEAN,
               NewLab(vms) \/ RemoveLab(vms, keep, disks)
        PROVE  FALSE
    BY <2>1 DEF NewLab, RemoveLab, lab
  <2>2. ASSUME BuildSteps PROVE FALSE
    <3>1. CopyDisk \/ DefineVm
      BY <2>2 DEF BuildSteps, AddAdapter, AddAddress, AddNat, CopyDisk, DefineVm, ConfigureVm
    <3>2. First(script.todo) \in script.all /\ script.name = "new"
      BY <3>1, TodoType DEF CopyDisk, DefineVm
    <3>3. files' = files \/ files' = [files EXCEPT ![First(script.todo)] = "fresh"]
      BY <3>1 DEF CopyDisk, DefineVm
    <3>4. QED BY <3>2, <3>3
  <2>3. CASE RemoveVm
    <3>1. First(script.todo) \in script.all /\ script.name = "remove"
      BY <2>3, TodoType DEF RemoveVm
    <3>2. files' \in {files, [files EXCEPT ![First(script.todo)] = Left(First(script.todo), script.disks)]}
      BY <2>3 DEF RemoveVm
    <3>3. ~script.disks => Left(First(script.todo), script.disks) = files[First(script.todo)]
      BY DEF Left
    <3>4. QED BY <3>1, <3>2, <3>3
  <2>4. ASSUME RemoveNetwork \/ KeepNetwork \/ StopAttached \/ Ends
        PROVE  FALSE
    BY <2>4 DEF RemoveNetwork, KeepNetwork, StopAttached, Ends, lab
  <2>5. ASSUME Stops PROVE FALSE
    <3>1. \/ files' = files
          \/ script.pc = "copy" /\ files' = [files EXCEPT ![First(script.todo)] = "fresh"]
      BY <2>5 DEF Stops
    <3>2. script.pc = "copy" => First(script.todo) \in script.all /\ script.name = "new"
      BY TodoType
    <3>3. QED BY <3>1, <3>2
  <2>9. ASSUME NoVm PROVE FALSE
    <3>1. files' = files \/ files' = [files EXCEPT ![First(script.todo)] = "fresh"]
      BY <2>9 DEF NoVm
    <3>2. First(script.todo) \in script.all /\ script.name = "new"
      BY <2>9, TodoType DEF NoVm
    <3>3. QED BY <3>1, <3>2
  <2>6. ASSUME NEW u \in VMs, GuestRuns(u) \/ Review(u)
        PROVE  Review(v)
    <3>1. u = v \/ files'[v] = files[v]
      BY <2>6 DEF GuestRuns, Review
    <3>2. QED BY <2>6, <3>1 DEF GuestRuns
  <2>7. ASSUME UNCHANGED vars PROVE FALSE
    BY <2>7 DEF vars, lab
  <2>8. QED BY <2>1, <2>2, <2>3, <2>4, <2>5, <2>6, <2>7, <2>9 DEF Next, BuildSteps
<1>4. QED BY <1>1, <1>2, <1>3, ShapeCorrect, PTL DEF Spec, InstalledDisksKept

----------------------------------------------------------------------------
\* A removal that takes the network, and met no VM that would not go, has only
\* the VMs it still has to remove.
Alone ==
  script.name = "remove" /\ script.network /\ ~script.errors =>
    \A v \in VMs \ script.todo : defs[v] = "none"

\* A removal begins with what it listed.
LEMMA RemovalBegins ==
  ASSUME TypeOK, NEW vms \in Targets, NEW keep \in BOOLEAN, NEW disks \in BOOLEAN,
         RemoveLab(vms, keep, disks)
  PROVE  /\ script'.name = "remove" /\ script'.pc = "vm" /\ script'.disks = disks
         /\ script'.network = RemovingNetwork(vms, keep)
         /\ script'.all = {v \in vms : defs[v] # "none"} /\ script'.todo = script'.all
         /\ UNCHANGED <<adapter, nat, defs, files, backend, foreign>>
BY DEF RemoveLab, Idle, lab, host

\* One VM goes, or an error is reported.
LEMMA RemovalGoesOn ==
  ASSUME TypeOK, Shape, RemoveVm
  PROVE  LET v == First(script.todo)
         IN  /\ v \in script.todo /\ v \in VMs
             /\ script.name = "remove" /\ script.pc = "vm"
             /\ script'.name = "remove" /\ script'.pc = "vm" /\ script'.todo = script.todo \ {v}
             /\ script'.all = script.all /\ script'.disks = script.disks
             /\ script'.network = script.network
             /\ UNCHANGED <<adapter, nat, backend, foreign>>
             /\ \/ /\ script'.errors = script.errors
                   /\ defs' = [defs EXCEPT ![v] = "none"]
                   /\ files' = [files EXCEPT ![v] = Left(v, script.disks)]
                \/ script'.errors /\ defs' = defs
<1>1. First(script.todo) \in script.todo /\ First(script.todo) \in VMs
  BY TodoType DEF RemoveVm
<1>2. QED BY <1>1 DEF RemoveVm, host, TypeOK, Shape, Scripts

\* The network goes, or is kept, or an error is reported.
LEMMA RemovalEnds ==
  ASSUME TypeOK, Shape, RemoveNetwork \/ KeepNetwork
  PROVE  /\ script.name = "remove" /\ script.todo = {}
         /\ script'.name = "remove" /\ script'.todo = {} /\ script'.pc = "end"
         /\ script'.all = script.all /\ script'.disks = script.disks
         /\ script'.network = script.network
         /\ UNCHANGED <<defs, files, backend, foreign>>
         /\ script'.errors = script.errors \/ script'.errors
         /\ script.network /\ ~script'.errors /\ backend = "hyperv"
              => adapter' = "none" /\ nat' = FALSE
<1>1. /\ script.name = "remove" /\ script.todo = {}
      /\ UNCHANGED <<defs, files, backend, foreign>>
  BY DEF RemoveNetwork, KeepNetwork, VmsGone, lab, host, TypeOK, Shape, Scripts
<1>2. Goes("end") \/ Complains("end")
  BY DEF RemoveNetwork, KeepNetwork
<1>3. /\ script'.name = script.name /\ script'.todo = script.todo /\ script'.pc = "end"
      /\ script'.all = script.all /\ script'.disks = script.disks
      /\ script'.network = script.network
      /\ script'.errors = script.errors \/ script'.errors
  BY <1>2 DEF Goes, Complains, TypeOK, Scripts
<1>4. script.network /\ ~script'.errors /\ backend = "hyperv" => adapter' = "none" /\ nat' = FALSE
  BY DEF RemoveNetwork, KeepNetwork, Complains, TypeOK, Scripts
<1>5. QED BY <1>1, <1>3, <1>4

LEMMA AloneKept ==
  ASSUME TypeOK, Shape, Alone, [Next]_vars
  PROVE  Alone'
<1>1. ASSUME NEW vms \in Targets, NewLab(vms)
      PROVE  Alone'
  <2>1. script'.name = "new"
    BY <1>1 DEF NewLab, Idle
  <2>2. QED BY <2>1 DEF Alone
<1>2. CASE BuildSteps
  BY <1>2, BuildsOn DEF Alone
<1>3. ASSUME NEW vms \in Targets, NEW keep \in BOOLEAN, NEW disks \in BOOLEAN,
             RemoveLab(vms, keep, disks)
      PROVE  Alone'
  <2>1. RemovingNetwork(vms, keep) => \A v \in VMs \ vms : defs[v] = "none"
    BY DEF RemovingNetwork, Strays
  <2>2. QED BY <1>3, <2>1, RemovalBegins DEF Alone
<1>4. CASE RemoveVm
  <2>1. SUFFICES ASSUME script'.name = "remove", script'.network, ~script'.errors,
                        NEW u \in VMs \ script'.todo
                 PROVE  defs'[u] = "none"
    BY DEF Alone
  <2>2. /\ script.name = "remove" /\ script.network /\ ~script.errors
        /\ script'.todo = script.todo \ {First(script.todo)}
        /\ defs' = [defs EXCEPT ![First(script.todo)] = "none"]
    BY <1>4, <2>1, RemovalGoesOn
  <2>3. QED BY <2>1, <2>2 DEF Alone, TypeOK
<1>5. CASE RemoveNetwork \/ KeepNetwork
  BY <1>5, RemovalEnds DEF Alone
<1>6. CASE NoVm \/ StopAttached \/ Ends \/ Stops
  BY <1>6, IdleType DEF NoVm, StopAttached, Ends, Stops, Alone
<1>7. ASSUME NEW v \in VMs, GuestRuns(v) \/ Review(v)
      PROVE  Alone'
  BY <1>7 DEF GuestRuns, Review, Alone
<1>8. CASE UNCHANGED vars
  BY <1>8 DEF vars, lab, Alone
<1>9. QED BY <1>1, <1>2, <1>3, <1>4, <1>5, <1>6, <1>7, <1>8 DEF Next, BuildSteps

\* A removal leaves no VM without its network, whichever profile it removes and
\* whatever else is there.
THEOREM NetworkTakenLast == Spec => NetworkGoesLast
<1>1. Init => Alone
  BY IdleType DEF Init, Alone
<1>2. TypeOK /\ Shape /\ Alone /\ [Next]_vars => Alone'
  BY AloneKept
<1>3. TypeOK /\ Shape /\ Alone /\ [Next]_vars
        => [(nat /\ ~nat') \/ (adapter # "none" /\ adapter' = "none") =>
              script.errors \/ \A v \in VMs : defs[v] = "none"]_vars
  <2> SUFFICES ASSUME TypeOK, Shape, Alone, [Next]_vars, ~script.errors,
                      (nat /\ ~nat') \/ (adapter # "none" /\ adapter' = "none")
               PROVE  \A v \in VMs : defs[v] = "none"
    BY DEF TypeOK, Scripts
  <2>1. CASE RemoveNetwork
    <3>1. script.name = "remove" /\ script.todo = {} /\ script.network
      BY <2>1, RemovalEnds DEF RemoveNetwork
    <3>2. QED BY <3>1 DEF Alone
  <2>2. ASSUME NEW vms \in Targets, NEW keep \in BOOLEAN, NEW disks \in BOOLEAN,
               NewLab(vms) \/ RemoveLab(vms, keep, disks)
        PROVE  FALSE
    BY <2>2 DEF NewLab, RemoveLab, lab
  <2>3. ASSUME BuildSteps PROVE FALSE
    BY <2>3 DEF BuildSteps, AddAdapter, AddAddress, AddNat, CopyDisk, DefineVm, ConfigureVm
  <2>4. ASSUME RemoveVm \/ KeepNetwork \/ NoVm \/ StopAttached \/ Ends \/ Stops PROVE FALSE
    BY <2>4 DEF RemoveVm, KeepNetwork, NoVm, StopAttached, Ends, Stops, lab
  <2>5. ASSUME NEW u \in VMs, GuestRuns(u) \/ Review(u) PROVE FALSE
    BY <2>5 DEF GuestRuns, Review
  <2>6. ASSUME UNCHANGED vars PROVE FALSE
    BY <2>6 DEF vars, lab
  <2>7. QED BY <2>1, <2>2, <2>3, <2>4, <2>5, <2>6 DEF Next, BuildSteps
<1>4. QED BY <1>1, <1>2, <1>3, ShapeCorrect, PTL DEF Spec, NetworkGoesLast

----------------------------------------------------------------------------
\* On Hyper-V a VM has its disk from the first.
DiskFirst == backend = "hyperv" => \A v \in VMs : defs[v] # "bare"

\* What a removal of disks has come to on Hyper-V with no error reported.
Clearing ==
  backend = "hyperv" /\ script.name = "remove" /\ script.disks /\ ~script.errors =>
    /\ \A v \in script.all \ script.todo : ~Exists(v)
    /\ script.pc = "end" /\ script.network => adapter = "none" /\ nat = FALSE

LEMMA DiskFirstKept ==
  ASSUME TypeOK, Shape, DiskFirst, [Next]_vars
  PROVE  DiskFirst'
<1> USE DEF TypeOK, DiskFirst
<1>1. backend' = backend
  BY DEF Next, NewLab, AddAdapter, AddAddress, AddNat, CopyDisk, DefineVm, ConfigureVm,
         NoVm, StopAttached, RemoveLab, RemoveVm, RemoveNetwork, KeepNetwork, Ends, Stops, GuestRuns,
         Review, vars, host
<1>2. \/ defs' = defs
      \/ \E v : defs' = [defs EXCEPT ![v] = "none"]
      \/ \E v : defs' = [defs EXCEPT ![v] = "part"]
      \/ \E v : defs' = [defs EXCEPT ![v] = "whole"]
      \/ backend # "hyperv"
  <2>1. CASE DefineVm \/ ConfigureVm \/ StopAttached
    BY <2>1 DEF DefineVm, ConfigureVm, StopAttached
  <2>2. CASE RemoveVm \/ Stops
    BY <2>2 DEF RemoveVm, Stops
  <2>3. CASE ~(DefineVm \/ ConfigureVm \/ StopAttached \/ RemoveVm \/ Stops)
    BY <2>3 DEF Next, NewLab, AddAdapter, AddAddress, AddNat, CopyDisk, NoVm, RemoveLab, RemoveNetwork,
                KeepNetwork, Ends, GuestRuns, Review, vars, lab
  <2>4. QED BY <2>1, <2>2, <2>3
<1>3. QED BY <1>1, <1>2

LEMMA ClearingKept ==
  ASSUME TypeOK, Shape, DiskFirst, Clearing, [Next]_vars
  PROVE  Clearing'
<1>1. ASSUME NEW vms \in Targets, NewLab(vms)
      PROVE  Clearing'
  <2>1. script'.name = "new"
    BY <1>1 DEF NewLab, Idle
  <2>2. QED BY <2>1 DEF Clearing
<1>2. CASE BuildSteps
  BY <1>2, BuildsOn DEF Clearing
<1>3. ASSUME NEW vms \in Targets, NEW keep \in BOOLEAN, NEW disks \in BOOLEAN,
             RemoveLab(vms, keep, disks)
      PROVE  Clearing'
  BY <1>3, RemovalBegins DEF Clearing
<1>4. CASE RemoveVm
  <2>1. SUFFICES ASSUME backend' = "hyperv", script'.name = "remove", script'.disks, ~script'.errors,
                        NEW u \in script'.all \ script'.todo
                 PROVE  ~Exists(u)'
    BY <1>4, RemovalGoesOn DEF Clearing
  <2> DEFINE v == First(script.todo)
  <2>2. /\ backend = "hyperv" /\ script.name = "remove" /\ script.disks /\ ~script.errors
        /\ v \in VMs /\ script'.todo = script.todo \ {v} /\ script'.all = script.all
        /\ defs' = [defs EXCEPT ![v] = "none"]
        /\ files' = [files EXCEPT ![v] = Left(v, script.disks)]
    BY <1>4, <2>1, RemovalGoesOn
  <2>3. Left(v, script.disks) = "none"
    BY <2>2 DEF Left, DiskFirst
  <2>4. u \in VMs
    BY <2>1, <2>2 DEF TypeOK, Scripts
  <2>5. CASE u = v
    BY <2>2, <2>3, <2>5 DEF Exists, TypeOK
  <2>6. CASE u # v
    <3>1. ~Exists(u)
      BY <2>1, <2>2, <2>6 DEF Clearing
    <3>2. defs'[u] = defs[u] /\ files'[u] = files[u]
      BY <2>2, <2>4, <2>6 DEF TypeOK
    <3>3. QED BY <3>1, <3>2 DEF Exists
  <2>7. QED BY <2>5, <2>6
<1>5. CASE RemoveNetwork \/ KeepNetwork
  BY <1>5, RemovalEnds DEF Clearing, Exists
<1>6. CASE NoVm \/ StopAttached \/ Ends \/ Stops
  BY <1>6, IdleType DEF NoVm, StopAttached, Ends, Stops, Clearing
<1>7. ASSUME NEW v \in VMs, GuestRuns(v) \/ Review(v)
      PROVE  Clearing'
  BY <1>7 DEF GuestRuns, Review, Clearing
<1>8. CASE UNCHANGED vars
  BY <1>8 DEF vars, lab, host, Clearing, Exists
<1>9. QED BY <1>1, <1>2, <1>3, <1>4, <1>5, <1>6, <1>7, <1>8 DEF Next, BuildSteps

\* On Hyper-V what was removed with its disks and network can be built again,
\* whatever was stopped or failed before.
THEOREM HyperVRebuilds == Spec => []RebuildsOnHyperV
<1>1. Init => DiskFirst /\ Clearing
  BY IdleType DEF Init, DiskFirst, Clearing
<1>2. TypeOK /\ Shape /\ DiskFirst /\ Clearing /\ [Next]_vars => (DiskFirst /\ Clearing)'
  BY DiskFirstKept, ClearingKept
<1>3. TypeOK /\ Shape /\ Clearing => RebuildsOnHyperV
  <2> SUFFICES ASSUME TypeOK, Shape, Clearing, backend = "hyperv", ~foreign, Cleared
               PROVE  ~Refuses(script.all)
    BY DEF RebuildsOnHyperV, RebuildsAfterRemoval
  <2>1. /\ \A v \in script.all : ~Exists(v)
        /\ adapter = "none" /\ nat = FALSE
    BY DEF Clearing, Cleared, Shape
  <2>2. QED BY <2>1 DEF Refuses, HalfBuilt, NetworkExists, SwitchPresent, NatPresent
<1>4. QED BY <1>1, <1>2, <1>3, ShapeCorrect, PTL DEF Spec

----------------------------------------------------------------------------
\* How far a build with no error reported has come with the network and the VMs.
Building ==
  script.name = "new" /\ ~script.errors =>
    /\ script.pc = "nat" /\ backend = "hyperv" => adapter = "addressed"
    /\ script.pc \in {"adapter", "address"} /\ backend # "hyperv" => nat
    /\ script.pc \in {"copy", "define", "configure", "end"} => SwitchPresent /\ NatPresent
    /\ script.pc = "configure" => files[First(script.todo)] # "none"
    /\ \A v \in script.all \ script.todo : defs[v] = "whole" /\ files[v] # "none"

LEMMA NetworkBuilding ==
  ASSUME TypeOK, Shape, Building, AddAdapter \/ AddAddress \/ AddNat
  PROVE  Building'
<1>1. script'.name = "new" /\ script.name = "new" /\ script'.all = script.all
  BY BuildsOn DEF BuildSteps
<1>2. UNCHANGED <<backend, foreign, defs, files>> /\ script'.todo = script.todo
  BY DEF AddAdapter, AddAddress, AddNat, host, Goes, Complains, TypeOK, Scripts
<1>3. CASE AddAdapter
  <2>1. nat' = nat /\ script'.pc = "address" /\ script'.errors = script.errors /\ script.pc = "adapter"
    BY <1>3 DEF AddAdapter, Goes, TypeOK, Scripts
  <2>2. QED BY <1>1, <1>2, <2>1 DEF Building
<1>4. CASE AddAddress
  <2>1. SUFFICES ASSUME ~script'.errors PROVE Building'
    BY DEF Building
  <2>2. /\ adapter' = "addressed" /\ nat' = nat /\ script.pc = "address"
        /\ ~script.errors
        /\ script'.pc = IF backend = "hyperv" THEN "nat" ELSE ToVm(script.todo)
    BY <1>4, <2>1 DEF AddAddress, Goes, Complains, TypeOK, Scripts
  <2>3. script'.pc \in {"nat", "copy", "end"}
    BY <2>2, ToVmType
  <2>4. script'.pc # "nat" => backend # "hyperv" /\ nat
    BY <1>1, <2>2, ToVmType DEF Building
  <2>5. script'.pc # "nat" => SwitchPresent' /\ NatPresent'
    BY <2>2, <2>4 DEF SwitchPresent, NatPresent
  <2>6. QED BY <1>1, <1>2, <2>2, <2>3, <2>5 DEF Building
<1>5. CASE AddNat
  <2>1. SUFFICES ASSUME ~script'.errors PROVE Building'
    BY DEF Building
  <2>2. /\ nat' = TRUE /\ adapter' = adapter /\ script.pc = "nat"
        /\ ~script.errors
        /\ script'.pc = IF backend = "hyperv" THEN ToVm(script.todo) ELSE "adapter"
    BY <1>5, <2>1 DEF AddNat, Goes, Complains, TypeOK, Scripts
  <2>3. script'.pc \in {"adapter", "copy", "end"}
    BY <2>2, ToVmType
  <2>4. script'.pc # "adapter" => adapter = "addressed"
    BY <1>1, <2>2 DEF Building
  <2>5. script'.pc # "adapter" => SwitchPresent' /\ NatPresent'
    BY <2>2, <2>4 DEF SwitchPresent, NatPresent
  <2>6. QED BY <1>1, <1>2, <2>2, <2>3, <2>5 DEF Building
<1>6. QED BY <1>3, <1>4, <1>5

LEMMA VmBuilding ==
  ASSUME TypeOK, Shape, Building, CopyDisk \/ DefineVm \/ ConfigureVm
  PROVE  Building'
<1>1. script'.name = "new" /\ script.name = "new" /\ script'.all = script.all
  BY BuildsOn DEF BuildSteps
<1> DEFINE v == First(script.todo)
<1>2. v \in script.todo /\ v \in VMs
  BY TodoType DEF CopyDisk, DefineVm, ConfigureVm, Shape
<1>3. UNCHANGED <<backend, foreign, adapter, nat>>
  BY DEF CopyDisk, DefineVm, ConfigureVm, host
<1>4. SUFFICES ASSUME ~script'.errors PROVE Building'
  BY DEF Building
<1>5. CASE CopyDisk \/ DefineVm
  <2>1. /\ script'.todo = script.todo /\ ~script.errors
        /\ script.pc \in {"copy", "define"} /\ script'.pc \in {"define", "configure"}
        /\ script'.pc = "configure" => files' = [files EXCEPT ![v] = "fresh"]
    BY <1>4, <1>5 DEF CopyDisk, DefineVm, Goes, Complains, TypeOK, Scripts
  <2>2. /\ files' = files \/ files' = [files EXCEPT ![v] = "fresh"]
        /\ defs' = defs \/ \E d : defs' = [defs EXCEPT ![v] = d]
    BY <1>5 DEF CopyDisk, DefineVm
  <2>3. SwitchPresent' /\ NatPresent'
    BY <1>1, <1>3, <2>1 DEF Building, SwitchPresent, NatPresent
  <2>4. ASSUME NEW u \in script.all \ script.todo PROVE defs'[u] = "whole" /\ files'[u] # "none"
    <3>1. u \in VMs /\ u # v /\ defs[u] = "whole" /\ files[u] # "none"
      BY <1>1, <1>2, <2>1, <2>4 DEF Building, TypeOK, Scripts
    <3>2. QED BY <2>2, <3>1 DEF TypeOK
  <2>5. script'.pc = "configure" => files'[First(script'.todo)] # "none"
    BY <1>2, <2>1 DEF TypeOK
  <2>6. QED BY <1>1, <2>1, <2>3, <2>4, <2>5 DEF Building
<1>6. CASE ConfigureVm
  <2>1. /\ script'.todo = script.todo \ {v} /\ ~script.errors
        /\ script.pc = "configure" /\ script'.pc = ToVm(script.todo \ {v})
        /\ files' = files /\ defs' = [defs EXCEPT ![v] = "whole"]
    BY <1>4, <1>6 DEF ConfigureVm, TypeOK, Scripts
  <2>2. script'.pc \in {"copy", "end"}
    BY <2>1, ToVmType
  <2>3. SwitchPresent' /\ NatPresent'
    BY <1>1, <1>3, <2>1 DEF Building, SwitchPresent, NatPresent
  <2>4. ASSUME NEW u \in script.all \ script'.todo PROVE defs'[u] = "whole" /\ files'[u] # "none"
    <3>1. u \in VMs /\ (u # v => defs[u] = "whole") /\ files[u] # "none"
      BY <1>1, <1>2, <2>1, <2>4 DEF Building, TypeOK, Scripts
    <3>2. QED BY <2>1, <3>1 DEF TypeOK
  <2>5. QED BY <1>1, <2>1, <2>2, <2>3, <2>4 DEF Building
<1>7. QED BY <1>5, <1>6

LEMMA BuildingKept ==
  ASSUME TypeOK, Shape, Building, [Next]_vars
  PROVE  Building'
<1>1. ASSUME NEW vms \in Targets, NewLab(vms)
      PROVE  Building'
  <2>1. /\ UNCHANGED <<backend, foreign, adapter, nat, defs, files>>
        /\ script'.all = vms /\ script'.todo = vms
        /\ script'.pc = IF NetworkExists THEN ToVm(vms)
                        ELSE IF backend = "hyperv" THEN "adapter" ELSE "nat"
    BY <1>1 DEF NewLab, lab, host, Idle
  <2>2. NetworkExists => SwitchPresent' /\ NatPresent'
    BY <2>1 DEF NetworkExists, SwitchPresent, NatPresent
  <2>3. QED BY <2>1, <2>2, ToVmType DEF Building
<1>2. CASE BuildSteps
  BY <1>2, NetworkBuilding, VmBuilding DEF BuildSteps
<1>3. ASSUME NEW vms \in Targets, NEW keep \in BOOLEAN, NEW disks \in BOOLEAN,
             RemoveLab(vms, keep, disks)
      PROVE  Building'
  BY <1>3, RemovalBegins DEF Building
<1>4. CASE RemoveVm \/ RemoveNetwork \/ KeepNetwork
  BY <1>4, RemovalGoesOn, RemovalEnds DEF Building
<1>5. CASE NoVm \/ StopAttached \/ Ends \/ Stops
  BY <1>5, IdleType DEF NoVm, StopAttached, Ends, Stops, Building
<1>6. ASSUME NEW v \in VMs, GuestRuns(v) \/ Review(v)
      PROVE  Building'
  BY <1>6 DEF GuestRuns, Review, Building
<1>7. CASE UNCHANGED vars
  BY <1>7 DEF vars, lab, host, Building, SwitchPresent, NatPresent
<1>8. QED BY <1>1, <1>2, <1>3, <1>4, <1>5, <1>6, <1>7 DEF Next, BuildSteps

\* A build that complained of nothing has its network and its VMs, whatever it
\* found when it began.
THEOREM BuildsWhole == Spec => []BuiltWhole
<1>1. Init => Building
  BY IdleType DEF Init, Building
<1>2. TypeOK /\ Shape /\ Building /\ [Next]_vars => Building'
  BY BuildingKept
<1>3. TypeOK /\ Shape /\ Building => BuiltWhole
  BY DEF Building, BuiltWhole, Shape
<1>4. QED BY <1>1, <1>2, <1>3, ShapeCorrect, PTL DEF Spec
=============================================================================
