---------------------------- MODULE KernelModules ----------------------------
(***************************************************************************)
(* roles/kernel_modules on one host: the denylist is written to            *)
(* /etc/modprobe.d, then unload_modules.py calls rmmod on every module of  *)
(* it and tries to load each again, while the host goes on loading, using  *)
(* and releasing modules. External: what modprobe, rmmod and the kernel    *)
(* do. A modprobe is one step: none is under way across a task.            *)
(***************************************************************************)
EXTENDS Naturals, SequencesExt

CONSTANTS
    Modules,    \* kernel modules the host has
    Needs,      \* Needs[m]: the modules m needs, directly or not
    SoftDep,    \* modules with a softdep line in /lib/modules
    Denylists   \* what kernel_modules_denylist may be set to: sequences

ASSUME NeedsAssumption ==
    /\ Needs \in [Modules -> SUBSET Modules]
    /\ \A m \in Modules : m \notin Needs[m]
    /\ \A m \in Modules : \A n \in Needs[m] : Needs[n] \subseteq Needs[m]
ASSUME SoftDepAssumption == SoftDep \subseteq Modules
ASSUME DenylistsAssumption == Denylists \subseteq Seq(Modules)

VARIABLES
    denylist,  \* kernel_modules_denylist
    conf,      \* /etc/modprobe.d/appliance.conf: its install and softdep lines
    loaded,    \* modules in the kernel
    used,      \* those a process holds
    kpc,       \* the task or loop the role is at, or how it ended
    index,     \* position in the denylist of the loop
    enforced   \* history: what the last completed run has denied

kvars == <<denylist, conf, loaded, used, kpc, index, enforced>>

NoConf == [install |-> {}, softdep |-> {}]

(* A module can be removed if no process and no loaded module holds it.    *)
Dependents(m) == {n \in loaded : m \in Needs[n]}
Busy(m) == m \in used \/ Dependents(m) # {}

(* modprobe obeys an install line, unless a softdep line of /lib/modules   *)
(* takes over and the file has none of its own for the module.             *)
Denied(m) == m \in conf.install /\ (m \in SoftDep => m \in conf.softdep)
CanLoad(m) == \A n \in ({m} \cup Needs[m]) \ loaded : ~Denied(n)

KInit ==
    /\ denylist \in Denylists
    /\ conf = NoConf
    /\ loaded \in {ms \in SUBSET Modules : \A m \in ms : Needs[m] \subseteq ms}
    /\ used = {}
    /\ kpc = "idle"
    /\ index = 1
    /\ enforced = {}

-----------------------------------------------------------------------------
(* The host.                                                               *)

Load(m) ==
    /\ m \notin loaded
    /\ CanLoad(m)
    /\ loaded' = loaded \cup {m} \cup Needs[m]
    /\ UNCHANGED <<denylist, conf, used, kpc, index, enforced>>

Use(m) ==
    /\ m \in loaded \ used
    /\ used' = used \cup {m}
    /\ UNCHANGED <<denylist, conf, loaded, kpc, index, enforced>>

Release(m) ==
    /\ m \in used
    /\ used' = used \ {m}
    /\ UNCHANGED <<denylist, conf, loaded, kpc, index, enforced>>

Host == \E m \in Modules : Load(m) \/ Use(m) \/ Release(m)

-----------------------------------------------------------------------------
(* The role. Only a run that is not under way starts, from any denylist    *)
(* the inventory may have by then.                                         *)

Over == kpc \in {"idle", "done", "failed"}

KernelStart ==
    /\ Over
    /\ denylist' \in Denylists
    /\ kpc' = "copy"
    /\ UNCHANGED <<conf, loaded, used, index, enforced>>

(* "Prevent modules loading": the whole file is replaced.                  *)
Lines == [install |-> ToSet(denylist), softdep |-> ToSet(denylist)]

PreventLoading ==
    /\ kpc = "copy"
    /\ conf' = Lines
    /\ kpc' = IF denylist = <<>> THEN "done" ELSE "rmmod"
    /\ index' = 1
    /\ enforced' = enforced \cap ToSet(denylist)
    /\ UNCHANGED <<denylist, loaded, used>>

(* Mutant: the last module of the list is passed over.                     *)
NextModuleShort(loop, then) ==
    IF index + 1 >= Len(denylist) THEN kpc' = then /\ index' = 1
                                  ELSE kpc' = loop /\ index' = index + 1

(* "for m in denylist" of both loops.                                      *)
NextModule(loop, then) ==
    IF index = Len(denylist) THEN kpc' = then /\ index' = 1
                             ELSE kpc' = loop /\ index' = index + 1

(* rmmod says the module is not loaded: on to the next.                    *)
RmmodAbsent ==
    /\ kpc = "rmmod"
    /\ denylist[index] \notin loaded
    /\ NextModule("rmmod", "modprobe")
    /\ UNCHANGED <<denylist, conf, loaded, used, enforced>>

Rmmod ==
    /\ kpc = "rmmod"
    /\ denylist[index] \in loaded
    /\ ~Busy(denylist[index])
    /\ loaded' = loaded \ {denylist[index]}
    /\ NextModule("rmmod", "modprobe")
    /\ UNCHANGED <<denylist, conf, used, enforced>>

(* Any other error of rmmod raises and ends the module: fail_json.         *)
RmmodBusy ==
    /\ kpc = "rmmod"
    /\ denylist[index] \in loaded
    /\ Busy(denylist[index])
    /\ kpc' = "failed"
    /\ UNCHANGED <<denylist, conf, loaded, used, index, enforced>>

(* So does a timeout, whether or not the kernel removes the module yet.    *)
RmmodTimeout ==
    /\ kpc = "rmmod"
    /\ denylist[index] \in loaded
    /\ ~Busy(denylist[index])
    /\ loaded' \in {loaded, loaded \ {denylist[index]}}
    /\ kpc' = "failed"
    /\ UNCHANGED <<denylist, conf, used, index, enforced>>

(* try_loading_modules: a modprobe that succeeds ends the module; it does  *)
(* so for a module that is loaded, whatever the configuration.             *)
ModprobeSucceeds(m) == m \in loaded \/ CanLoad(m)

TryLoading ==
    /\ kpc = "modprobe"
    /\ ~ModprobeSucceeds(denylist[index])
    /\ NextModule("modprobe", "done")
    /\ enforced' = IF kpc' = "done" THEN ToSet(denylist) ELSE enforced
    /\ UNCHANGED <<denylist, conf, loaded, used>>

TryLoadingFails ==
    /\ kpc = "modprobe"
    /\ ModprobeSucceeds(denylist[index])
    /\ loaded' = loaded \cup {denylist[index]} \cup Needs[denylist[index]]
    /\ kpc' = "failed"
    /\ UNCHANGED <<denylist, conf, used, index, enforced>>

KernelStep ==
    \/ PreventLoading
    \/ RmmodAbsent
    \/ Rmmod
    \/ RmmodBusy
    \/ RmmodTimeout
    \/ TryLoading
    \/ TryLoadingFails

(* The run ends on another host: any_errors_fatal.                         *)
KernelAbort ==
    /\ ~Over
    /\ kpc' = "failed"
    /\ UNCHANGED <<denylist, conf, loaded, used, index, enforced>>

(* The file is on disk, the modules are not.                               *)
KernelReboot ==
    /\ loaded' = {}
    /\ used' = {}
    /\ kpc' = IF Over THEN kpc ELSE "failed"
    /\ UNCHANGED <<denylist, conf, index, enforced>>

-----------------------------------------------------------------------------
KernelTypeOK ==
    /\ denylist \in Denylists
    /\ conf \in [install : SUBSET Modules, softdep : SUBSET Modules]
    /\ used \subseteq loaded
    /\ loaded \subseteq Modules
    /\ enforced \subseteq Modules
    /\ kpc \in {"idle", "copy", "rmmod", "modprobe", "done", "failed"}
    /\ kpc \in {"rmmod", "modprobe"} => index \in DOMAIN denylist

(* A module denied by a completed run is not in the kernel, whatever the   *)
(* host loads, however it boots and wherever later runs break off.         *)
DenylistEnforced == loaded \cap enforced = {}

(* What the docs say of a vulnerable module: adding it to the list and     *)
(* running the playbook unloads it. So only a process, or a module that is *)
(* to stay, keeps rmmod from removing one.                                 *)
OnlyUsersKeepModules ==
    kpc = "rmmod" /\ Busy(denylist[index]) =>
        LET holders == {denylist[index]} \cup Dependents(denylist[index])
        IN holders \cap used # {} \/ ~(holders \subseteq ToSet(denylist))
=============================================================================
