---------------------------- MODULE LabLifecycle ----------------------------
(***************************************************************************)
(* Building the lab and taking it apart (setup/New-Lab.ps1, Remove-Lab.ps1 *)
(* and the two backends).  The scripts keep no record of what they did:    *)
(* each run looks at what the hypervisor and the storage directory hold,   *)
(* refuses or goes ahead, and then works step by step, any of which may    *)
(* fail or be the last before the window is closed.  One script runs at a  *)
(* time.                                                                   *)
(*                                                                         *)
(* In a backend's module an error does not stop the script unless it is    *)
(* thrown: VirtualBox's calls throw nearly all of theirs, Hyper-V's        *)
(* cmdlets print them and the script goes on (errors).                     *)
(***************************************************************************)
EXTENDS Naturals, Sequences

CONSTANTS
  Order,       \* the VMs of the full profile, in its order
  Windows,     \* those that boot an installer; the rest copy the prepared image
  Lean,        \* the VMs of the lean profile
  Backends,    \* "hyperv", "virtualbox"
  Foreign,     \* may another NAT of the host cover the lab's subnet?
  MaxRuns,     \* bound: scripts started
  MaxFaults    \* bound: steps that fail, scripts that are stopped

VMs == {Order[i] : i \in DOMAIN Order}
Targets == {VMs, Lean} \cup {{v} : v \in VMs}   \* a profile, or one VM of it with -Only

ASSUME LifecycleAssumption ==
  /\ Order \in Seq(VMs) /\ \A i, j \in DOMAIN Order : Order[i] = Order[j] => i = j
  /\ Windows \subseteq VMs /\ Lean \subseteq VMs
  /\ Backends \subseteq {"hyperv", "virtualbox"}
  /\ Foreign \in BOOLEAN /\ MaxRuns \in Nat /\ MaxFaults \in Nat

VARIABLES
  backend,   \* the hypervisor
  foreign,   \* another NAT covers the lab's subnet
  adapter,   \* the switch, or host-only interface: "none", "bare", "addressed"
  nat,       \* the NAT of the lab's name exists
  defs,      \* each VM's definition: "none", "bare" (no disk yet), "part", "whole"
  files,     \* what each VM's directory holds: "none", "fresh", "used" by a guest
  script,    \* the script that runs
  runs, faults

lab  == <<adapter, nat, defs, files>>
host == <<backend, foreign>>
vars == <<lab, host, script, runs, faults>>

Idle == [name |-> "none", pc |-> "idle", all |-> {}, todo |-> {},
         disks |-> FALSE, network |-> FALSE, errors |-> FALSE]

Pcs == {"idle", "nat", "adapter", "address", "copy", "define", "configure", "vm", "end"}

Scripts == [name: {"none", "new", "remove"}, pc: Pcs, all: SUBSET VMs, todo: SUBSET VMs,
            disks: BOOLEAN, network: BOOLEAN, errors: BOOLEAN]

TypeOK ==
  /\ backend \in Backends /\ foreign \in BOOLEAN
  /\ adapter \in {"none", "bare", "addressed"} /\ nat \in BOOLEAN
  /\ defs \in [VMs -> {"none", "bare", "part", "whole"}]
  /\ files \in [VMs -> {"none", "fresh", "used"}]
  /\ script \in Scripts
  /\ runs \in 0 .. MaxRuns /\ faults \in 0 .. MaxFaults

Init ==
  /\ backend \in Backends
  /\ foreign \in {FALSE, Foreign /\ backend = "hyperv"}
  /\ adapter = "none" /\ nat = FALSE
  /\ defs = [v \in VMs |-> "none"] /\ files = [v \in VMs |-> "none"]
  /\ script = Idle /\ runs = 0 /\ faults = 0

----------------------------------------------------------------------------
(* What a script sees.                                                      *)

\* VirtualBox looks for the interface with the gateway's address, Hyper-V for
\* the switch by its name and for any NAT of the subnet.
SwitchPresent == adapter = "addressed" \/ (backend = "hyperv" /\ adapter = "bare")
NatPresent == nat \/ foreign

\* Slip: either of them is taken for the whole network.
NetworkIfEither == SwitchPresent \/ NatPresent

NetworkExists == SwitchPresent /\ NatPresent
HalfBuilt == ~NetworkExists /\ (SwitchPresent \/ NatPresent)

\* The VM of those left that comes first in the profile.
First(vms) ==
  LET at == {i \in DOMAIN Order : Order[i] \in vms}
  IN  Order[CHOOSE i \in at : \A j \in at : i <= j]

\* Slip: a directory is not looked into.
ExistsOnlyIfDefined(v) == defs[v] # "none"

\* There is a VM of the name, or its directory holds files.
Exists(v) == defs[v] # "none" \/ files[v] # "none"

\* The problems New-Lab.ps1 finds; images, seeds and room are taken to be there.
Refuses(vms) == HalfBuilt \/ \E v \in vms : Exists(v)

----------------------------------------------------------------------------
(* New-Lab.ps1.                                                             *)

\* On to the next VM, or to the end.
ToVm(todo) == IF todo = {} THEN "end" ELSE "copy"

Goes(pc) == script' = [script EXCEPT !.pc = pc]
Complains(pc) == script' = [script EXCEPT !.pc = pc, !.errors = TRUE]
Spared == faults' = faults
Fault == faults < MaxFaults /\ faults' = faults + 1

\* A run of the script that is refused changes nothing.
NewLab(vms) ==
  /\ script.name = "none" /\ runs < MaxRuns
  /\ ~Refuses(vms)
  /\ runs' = runs + 1
  /\ script' = [Idle EXCEPT
       !.name = "new", !.all = vms, !.todo = vms,
       !.pc = IF NetworkExists THEN ToVm(vms)
              ELSE IF backend = "hyperv" THEN "adapter" ELSE "nat"]
  /\ UNCHANGED <<lab, host, faults>>

\* New-LabNetwork: VirtualBox adds the NAT, the interface and its address, each
\* of which throws; Hyper-V the switch, which does too once no adapter appears,
\* the address and the NAT, which do not.
AddAdapter ==
  /\ script.pc = "adapter"
  /\ adapter' = "bare" /\ Goes("address") /\ Spared
  /\ UNCHANGED <<host, nat, defs, files, runs>>

AddAddress ==
  /\ script.pc = "address"
  /\ LET next == IF backend = "hyperv" THEN "nat" ELSE ToVm(script.todo)
     IN  \/ adapter' = "addressed" /\ Goes(next) /\ Spared
         \/ backend = "hyperv" /\ adapter' = adapter /\ Complains(next) /\ Fault
  /\ UNCHANGED <<host, nat, defs, files, runs>>

AddNat ==
  /\ script.pc = "nat"
  /\ LET next == IF backend = "hyperv" THEN ToVm(script.todo) ELSE "adapter"
     IN  \/ nat' = TRUE /\ Goes(next) /\ Spared
         \/ backend = "hyperv" /\ nat' = nat /\ Complains(next) /\ Fault
  /\ UNCHANGED <<host, adapter, defs, files, runs>>

\* Copy-LabBootDisk writes over what is there; an installed guest brings no disk.  On
\* Hyper-V a copy that fails is printed, whatever it has written of the disk.
CopyDisk ==
  /\ script.pc = "copy"
  /\ LET v == First(script.todo)
         copied == [files EXCEPT ![v] = "fresh"]
     IN  \/ /\ files' = IF v \in Windows THEN files ELSE copied
            /\ Goes("define") /\ Spared
         \/ /\ backend = "hyperv" /\ v \notin Windows
            /\ files' \in {files, copied}
            /\ Complains("define") /\ Fault
  /\ UNCHANGED <<host, adapter, nat, defs, runs>>

NoDisk(v) == v \notin Windows /\ files[v] = "none"

\* New-LabVm: Hyper-V makes the VM with its disk, VirtualBox registers it first.
DefineVm ==
  /\ script.pc = "define" /\ ~NoDisk(First(script.todo))
  /\ IF backend = "hyperv" THEN adapter # "none" ELSE adapter = "addressed"
  /\ LET v == First(script.todo)
     IN  /\ defs' = [defs EXCEPT ![v] = IF backend = "hyperv" THEN "part" ELSE "bare"]
         /\ files' = [files EXCEPT ![v] = "fresh"]
  /\ Goes("configure") /\ Spared
  /\ UNCHANGED <<host, adapter, nat, runs>>

\* On Hyper-V a VM that is not made, as without its disk, is printed too, and so is every
\* setting of it; the next call, for its drive, finds no VM and throws.  The disk that
\* was made for it may stay.
NoVm ==
  /\ script.pc = "define" /\ backend = "hyperv"
  /\ LET v == First(script.todo)
     IN  \/ NoDisk(v) /\ files' = files /\ Spared
         \/ ~NoDisk(v) /\ files' \in {files, [files EXCEPT ![v] = "fresh"]} /\ Fault
  /\ script' = Idle
  /\ UNCHANGED <<host, adapter, nat, defs, runs>>

\* The rest of New-LabVm, the drives and the autostart, on to the next VM.
ConfigureVm ==
  /\ script.pc = "configure"
  /\ LET v == First(script.todo)
         rest == [script EXCEPT !.todo = @ \ {v}, !.pc = ToVm(script.todo \ {v})]
     IN  \/ /\ defs' = [defs EXCEPT ![v] = "whole"]
            /\ script' = rest /\ Spared
         \/ /\ backend = "hyperv"
            /\ defs' = defs
            /\ script' = [rest EXCEPT !.errors = TRUE] /\ Fault
  /\ UNCHANGED <<host, adapter, nat, files, runs>>

\* VirtualBox has attached the disk when a later call throws.
StopAttached ==
  /\ script.pc = "configure" /\ backend = "virtualbox" /\ Fault
  /\ defs' = [defs EXCEPT ![First(script.todo)] = "part"]
  /\ script' = Idle
  /\ UNCHANGED <<host, adapter, nat, files, runs>>

----------------------------------------------------------------------------
(* Remove-Lab.ps1.                                                          *)

Strays(vms) == {v \in VMs \ vms : defs[v] # "none"}

\* Slip: VMs of the other profile are not looked for.
NetworkGoesWithProfile(vms, keep) == ~keep /\ (SwitchPresent \/ NatPresent)

\* The network is removed unless it is kept, or not there, or a VM that is not
\* of the profile is on it.
RemovingNetwork(vms, keep) ==
  /\ ~keep
  /\ SwitchPresent \/ NatPresent
  /\ Strays(vms) = {}

\* -Only keeps the network.  The word is typed, or -Force given.
RemoveLab(vms, keep, disks) ==
  /\ script.name = "none" /\ runs < MaxRuns
  /\ vms \in {VMs, Lean} \/ keep
  /\ LET present == {v \in vms : defs[v] # "none"}
         network == RemovingNetwork(vms, keep)
     IN  /\ present # {} \/ network
         /\ script' = [Idle EXCEPT
              !.name = "remove", !.all = present, !.todo = present,
              !.disks = disks, !.network = network, !.pc = "vm"]
  /\ runs' = runs + 1
  /\ UNCHANGED <<lab, host, faults>>

\* Remove-LabVm takes the disks that are attached; a copy that never was, the
\* script leaves where it is, and the directory with it.
Left(v, disks) ==
  IF ~disks \/ (defs[v] = "bare" /\ v \notin Windows) THEN files[v] ELSE "none"

RemoveVm ==
  /\ script.pc = "vm" /\ script.todo # {}
  /\ LET v == First(script.todo)
         rest == [script EXCEPT !.todo = @ \ {v}]
     IN  \/ /\ defs' = [defs EXCEPT ![v] = "none"]
            /\ files' = [files EXCEPT ![v] = Left(v, script.disks)]
            /\ script' = rest /\ Spared
         \/ /\ backend = "hyperv"
            /\ defs' = defs
            /\ files' \in {files, [files EXCEPT ![v] = Left(v, script.disks)]}
            /\ script' = [rest EXCEPT !.errors = TRUE] /\ Fault
  /\ UNCHANGED <<host, adapter, nat, runs>>

VmsGone == script.pc = "vm" /\ script.todo = {}

\* Slip: as VirtualBox does, the NAT goes and the switch stays.
RemoveNatOnly ==
  /\ VmsGone /\ script.network
  /\ nat' = FALSE
  /\ Goes("end") /\ Spared
  /\ UNCHANGED <<host, adapter, defs, files, runs>>

\* Remove-LabNetwork: VirtualBox removes the NAT network by its name, and no one
\* reads its answer; Hyper-V the NAT of the lab's name and the switch.
RemoveNetwork ==
  /\ VmsGone /\ script.network
  /\ \/ /\ nat' = FALSE
        /\ adapter' = IF backend = "hyperv" THEN "none" ELSE adapter
        /\ Goes("end") /\ Spared
     \/ /\ backend = "hyperv"
        /\ nat' \in {nat, FALSE} /\ adapter' \in {adapter, "none"}
        /\ Complains("end") /\ Fault
     \/ /\ backend = "virtualbox"
        /\ UNCHANGED <<adapter, nat>>
        /\ Goes("end") /\ Fault
  /\ UNCHANGED <<host, defs, files, runs>>

KeepNetwork ==
  /\ VmsGone /\ ~script.network
  /\ Goes("end")
  /\ UNCHANGED <<lab, host, runs, faults>>

----------------------------------------------------------------------------
(* A script ends, fails or is stopped; guests run; files are reviewed.       *)

Ends == script.pc = "end" /\ script' = Idle /\ UNCHANGED <<lab, host, runs, faults>>

\* In the middle of a copy the file is there; between a VM and its disks only
\* the VM is gone.
Stops ==
  /\ script.name # "none" /\ Fault
  /\ script' = Idle
  /\ \/ UNCHANGED <<defs, files>>
     \/ /\ script.pc = "copy" /\ First(script.todo) \notin Windows
        /\ files' = [files EXCEPT ![First(script.todo)] = "fresh"]
        /\ defs' = defs
     \/ /\ script.pc = "vm" /\ script.todo # {}
        /\ defs' = [defs EXCEPT ![First(script.todo)] = "none"]
        /\ files' = files
  /\ UNCHANGED <<adapter, nat, host, runs>>

GuestRuns(v) ==
  /\ script.name = "none" /\ defs[v] = "whole" /\ files[v] = "fresh"
  /\ files' = [files EXCEPT ![v] = "used"]
  /\ UNCHANGED <<host, adapter, nat, defs, script, runs, faults>>

\* Files no VM uses are deleted by hand, as New-Lab.ps1 asks when it refuses.
Review(v) ==
  /\ script.name = "none" /\ defs[v] = "none" /\ files[v] # "none"
  /\ files' = [files EXCEPT ![v] = "none"]
  /\ UNCHANGED <<host, adapter, nat, defs, script, runs, faults>>

Next ==
  \/ \E vms \in Targets : NewLab(vms)
  \/ AddAdapter \/ AddAddress \/ AddNat
  \/ CopyDisk \/ DefineVm \/ NoVm \/ ConfigureVm \/ StopAttached
  \/ \E vms \in Targets, keep, disks \in BOOLEAN : RemoveLab(vms, keep, disks)
  \/ RemoveVm \/ RemoveNetwork \/ KeepNetwork
  \/ Ends \/ Stops
  \/ \E v \in VMs : GuestRuns(v) \/ Review(v)

Spec == Init /\ [][Next]_vars

----------------------------------------------------------------------------
(* Properties.                                                              *)

\* What a guest has written is lost only to a removal told to delete disks, or
\* by hand: no build writes over it, whatever was stopped half way before.
InstalledDisksKept ==
  [][\A v \in VMs : files[v] = "used" /\ files'[v] # "used" =>
       (script.name = "remove" /\ script.disks /\ v \in script.all) \/ Review(v)]_vars

\* A build that ends with no error reported has a whole network, its own or one
\* it found, and each VM it was asked for.
BuiltWhole ==
  script.name = "new" /\ script.pc = "end" /\ ~script.errors =>
    /\ SwitchPresent /\ NatPresent
    /\ \A v \in script.all : defs[v] = "whole" /\ files[v] # "none"

\* A removal never takes the network from under a VM, one of the other profile
\* included, unless a VM would not go.
NetworkGoesLast ==
  [][(nat /\ ~nat') \/ (adapter # "none" /\ adapter' = "none") =>
       script.errors \/ \A v \in VMs : defs[v] = "none"]_vars

\* A removal of disks and network that has ended with no error reported.
Cleared ==
  /\ script.name = "remove" /\ script.pc = "end" /\ ~script.errors
  /\ script.disks /\ script.network

\* As its last line and the refusal of a half-built network have it: what was
\* removed can be rebuilt with New-Lab.ps1.
RebuildsAfterRemoval == Cleared => ~Refuses(script.all)

\* So it can on Hyper-V, unless another NAT covers the lab's subnet, whatever was
\* stopped or failed before.
RebuildsOnHyperV == backend = "hyperv" /\ ~foreign => RebuildsAfterRemoval
=============================================================================
