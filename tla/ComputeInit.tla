----------------------------- MODULE ComputeInit -----------------------------
(***************************************************************************)
(* How a compute node gets its configuration without ansible/site.yml: the *)
(* export that ends a run of site.yml writes each node's configuration to  *)
(* the NFS share /exports/cluster of the control node; a node that has     *)
(* been (re)built runs compute-init.yml on boot, which copies the share    *)
(* and applies what the flags in its metadata enable, then starts slurmd.  *)
(* The two run concurrently, and site.yml itself also configures nodes.    *)
(***************************************************************************)
EXTENDS Integers

CONSTANTS
    Hosts,       \* the compute_init group
    Metadata,    \* the keys compute_init_enable sets in the nodes' metadata
    MaxVersion,  \* bound: successive configurations of the cluster
    NoFile,      \* the content of a file that does not exist
    Failures     \* what may fail for reasons of its own: "site", "boot"

ASSUME MaxVersionAssumption == MaxVersion \in Nat \ {0}
ASSUME NoFileAssumption == NoFile \notin 0..MaxVersion
ASSUME FailuresAssumption == Failures \subseteq {"site", "boot"}

(* What is configured on a node ("munge" stands for all that is always     *)
(* configured from hostvars), and the file of the share it comes from.     *)
Source == [etc_hosts |-> "hosts", sssd |-> "sssd.conf", nhc |-> "nhc.conf",
           vgpu |-> "hostvars.yml", munge |-> "hostvars.yml"]
Features == DOMAIN Source
Files == {Source[f] : f \in Features}

(* The enable_* variables of compute-init.yml.                             *)
Enabled(f) == \/ f = "munge"
              \/ f = "vgpu" /\ "vpgu" \in Metadata
              \/ f \in {"etc_hosts", "sssd", "nhc"} \cap Metadata

VARIABLES
    config,     \* the configuration the inventory asks for
    completed,  \* the last configuration a run of site.yml has completed with
    \* the control node
    nfs,        \* it exports /exports/cluster
    share,      \* share[n][f]: configuration in n's copy of file f, or NoFile
    \* ansible/site.yml
    sitePc,     \* the stage the run is at
    siteVersion,\* the configuration of that run
    siteTodo,   \* hosts the current stage has still to reach
    \* a compute node n
    boot,       \* boot[n]: the step compute-init.yml is at
    local,      \* local[n][f]: what /var/tmp/cluster has of file f
    toSync,     \* toSync[n]: files the rsync has still to look at
    conf,       \* conf[n][f]: active configuration of f, 0 is the image's own
    slurmd,     \* slurmd[n]: slurmd runs
    \* history: what the properties compare with
    late,       \* nodes that have been rebuilt under the run of site.yml
    stale,      \* nodes rebuilt under a run, and under every one completed since
    began       \* began[n]: completed when n was last rebuilt

site == <<sitePc, siteVersion, siteTodo>>
node == <<boot, local, toSync, conf, slurmd>>
history == <<late, stale, began>>
vars == <<config, completed, nfs, share, site, node, history>>

NoFiles == [f \in Files |-> NoFile]

BootSteps == {"mount", "check", "sync", "etc_hosts", "sssd", "vgpu", "munge",
              "slurmd", "nhc", "done", "failed"}
BootNext == [etc_hosts |-> "sssd", sssd |-> "vgpu", vgpu |-> "munge",
             munge |-> "slurmd", slurmd |-> "nhc", nhc |-> "done"]

(* The stages of site.yml that matter here; the last four are the export.  *)
SiteNext == [x \in {"wait", "apply", "nfs", "slurm"} \cup Files |->
    CASE x = "wait" -> "apply"
      [] x = "apply" -> "nfs"
      [] x = "nfs" -> "slurm"
      [] x = "slurm" -> "hosts"
      [] x = "hosts" -> "hostvars.yml"
      [] x = "hostvars.yml" -> "sssd.conf"
      [] x = "sssd.conf" -> "nhc.conf"
      [] x = "nhc.conf" -> "idle"]

(* A new cluster: no share, and the nodes are booting for the first time.  *)
Init ==
    /\ config = 1
    /\ completed = 0
    /\ nfs = FALSE
    /\ share = [n \in Hosts |-> NoFiles]
    /\ sitePc = "idle"
    /\ siteVersion = 0
    /\ siteTodo = {}
    /\ boot = [n \in Hosts |-> "mount"]
    /\ local = [n \in Hosts |-> NoFiles]
    /\ toSync = [n \in Hosts |-> {}]
    /\ conf = [n \in Hosts |-> [f \in Features |-> 0]]
    /\ slurmd = [n \in Hosts |-> FALSE]
    /\ late = {}
    /\ stale = {}
    /\ began = [n \in Hosts |-> 0]

-----------------------------------------------------------------------------
(* What operators do to the inventory and to servers                       *)

Reconfigure ==
    /\ sitePc = "idle"
    /\ config < MaxVersion
    /\ config' = config + 1
    /\ UNCHANGED <<completed, nfs, share, site, node, history>>

(* A rebuilt control node has neither the share nor its NFS server.        *)
ControlRebuild ==
    /\ sitePc = "idle"
    /\ nfs' = FALSE
    /\ share' = [n \in Hosts |-> NoFiles]
    /\ UNCHANGED <<config, completed, site, node, history>>

(* Slurm, or ansible/adhoc/rebuild.yml, rebuilds a node, also while a run  *)
(* of site.yml is anywhere in its stages.                                  *)
Rebuild(n) ==
    /\ boot[n] \in {"done", "failed"}
    /\ boot' = [boot EXCEPT ![n] = "mount"]
    /\ local' = [local EXCEPT ![n] = NoFiles]
    /\ conf' = [conf EXCEPT ![n] = [f \in Features |-> 0]]
    /\ slurmd' = [slurmd EXCEPT ![n] = FALSE]
    /\ late' = IF sitePc = "idle" THEN late ELSE late \cup {n}
    /\ stale' = IF sitePc = "idle" THEN stale ELSE stale \cup {n}
    /\ began' = [began EXCEPT ![n] = completed]
    /\ UNCHANGED <<config, completed, nfs, share, site, toSync>>

-----------------------------------------------------------------------------
(* ansible/site.yml. A task reaches its hosts in any order, and the next   *)
(* task starts when it has reached all of them (linear strategy).          *)

SiteStart ==
    /\ sitePc = "idle"
    /\ sitePc' = "wait"
    /\ siteTodo' = Hosts
    /\ siteVersion' = config
    /\ UNCHANGED <<config, completed, nfs, share, node, history>>

(* bootstrap.yml waits for ansible-init on every host, and does not look   *)
(* at a host again that is rebuilt afterwards.                             *)
SiteWait(n) ==
    /\ sitePc = "wait" /\ n \in siteTodo
    /\ boot[n] = "done"
    /\ siteTodo' = siteTodo \ {n}
    /\ UNCHANGED <<config, completed, nfs, share, sitePc, siteVersion, node, history>>

(* A stage is over: the next one starts on all hosts, or the run is done.  *)
SiteNextStage ==
    /\ sitePc \in DOMAIN SiteNext /\ siteTodo = {}
    /\ sitePc' = SiteNext[sitePc]
    /\ siteTodo' = IF sitePc' = "idle" THEN {} ELSE Hosts
    /\ completed' = IF sitePc' = "idle" THEN siteVersion ELSE completed
    /\ stale' = IF sitePc' = "idle" THEN late ELSE stale
    /\ late' = IF sitePc' = "idle" THEN {} ELSE late
    /\ UNCHANGED <<config, nfs, share, siteVersion, node, began>>

(* bootstrap.yml, iam.yml and the roles that need no Slurm; on a node that *)
(* has been rebuilt meanwhile, at any moment of its boot.                  *)
SiteApply(n) ==
    /\ sitePc = "apply" /\ n \in siteTodo
    /\ siteTodo' = siteTodo \ {n}
    /\ conf' = [conf EXCEPT ![n] = [f \in Features |->
                    IF f = "nhc" THEN conf[n][f] ELSE siteVersion]]
    /\ UNCHANGED <<config, completed, nfs, share, sitePc, siteVersion,
                   boot, local, toSync, slurmd, history>>

(* filesystems.yml starts the NFS server before it mounts on the clients.  *)
SiteNfs ==
    /\ sitePc = "nfs" /\ siteTodo # {}
    /\ nfs' = TRUE
    /\ siteTodo' = {}
    /\ UNCHANGED <<config, completed, share, sitePc, siteVersion, node, history>>

(* slurm.yml starts slurmd and templates nhc.conf.                         *)
SiteSlurm(n) ==
    /\ sitePc = "slurm" /\ n \in siteTodo
    /\ siteTodo' = siteTodo \ {n}
    /\ slurmd' = [slurmd EXCEPT ![n] = TRUE]
    /\ conf' = [conf EXCEPT ![n].nhc = siteVersion]
    /\ UNCHANGED <<config, completed, nfs, share, sitePc, siteVersion,
                   boot, local, toSync, history>>

(* final.yml, export.yml: the hosts file is copied once for all hosts, the *)
(* other files are templated for each host, nhc.conf is fetched from it.   *)
SiteExportHosts ==
    /\ sitePc = "hosts" /\ siteTodo # {}
    /\ siteTodo' = {}
    /\ share' = [n \in Hosts |-> [share[n] EXCEPT !["hosts"] = siteVersion]]
    /\ UNCHANGED <<config, completed, nfs, sitePc, siteVersion, node, history>>

(* Mutant: a file that has been exported once is not overwritten.          *)
SiteExportOnce(n) ==
    /\ sitePc \in Files \ {"hosts"} /\ n \in siteTodo
    /\ siteTodo' = siteTodo \ {n}
    /\ share' = IF share[n][sitePc] = NoFile
                THEN [share EXCEPT ![n][sitePc] = siteVersion] ELSE share
    /\ UNCHANGED <<config, completed, nfs, sitePc, siteVersion, node, history>>

SiteExport(n) ==
    /\ sitePc \in Files \ {"hosts"} /\ n \in siteTodo
    /\ siteTodo' = siteTodo \ {n}
    /\ share' = [share EXCEPT ![n][sitePc] =
                    IF sitePc = "nhc.conf" THEN conf[n].nhc ELSE siteVersion]
    /\ UNCHANGED <<config, completed, nfs, sitePc, siteVersion, node, history>>

(* A failed task ends the run, and so does a host whose ansible-init       *)
(* failed. (Other failures of the wait come to the same as no run.)        *)
SiteAbort ==
    /\ \/ "site" \in Failures /\ sitePc \in DOMAIN SiteNext \ {"wait"}
       \/ sitePc = "wait" /\ \E n \in Hosts : boot[n] = "failed"
    /\ sitePc' = "idle"
    /\ siteTodo' = {}
    /\ late' = {}
    /\ UNCHANGED <<config, completed, nfs, share, siteVersion, node, stale, began>>

-----------------------------------------------------------------------------
(* compute-init.yml on node n                                              *)

BootStep(n, step) == boot' = [boot EXCEPT ![n] = step]

(* Mutant: a boot waits until it can mount the share.                      *)
MountRetried(n) ==
    /\ boot[n] = "mount"
    /\ BootStep(n, IF nfs THEN "check" ELSE "mount")
    /\ UNCHANGED <<config, completed, nfs, share, site, local, toSync, conf, slurmd, history>>

(* Not a compute node, or no share to mount: the playbook ends here.       *)
Mount(n) ==
    /\ boot[n] = "mount"
    /\ BootStep(n, IF "compute" \in Metadata /\ nfs THEN "check" ELSE "done")
    /\ UNCHANGED <<config, completed, nfs, share, site, local, toSync, conf, slurmd, history>>

(* Neither does it go on before the node's hostvars have been exported.    *)
CheckHostvars(n) ==
    /\ boot[n] = "check"
    /\ IF nfs /\ share[n]["hostvars.yml"] # NoFile
       THEN BootStep(n, "sync") /\ toSync' = [toSync EXCEPT ![n] = Files]
       ELSE BootStep(n, IF nfs THEN "done" ELSE "failed") /\ UNCHANGED toSync
    /\ UNCHANGED <<config, completed, nfs, share, site, local, conf, slurmd, history>>

(* The rsync takes each file as it finds it; on a node rebuilt under a run *)
(* of site.yml, while that run is writing them.                            *)
SyncFile(n, f) ==
    /\ boot[n] = "sync" /\ nfs /\ f \in toSync[n]
    /\ local' = [local EXCEPT ![n][f] = share[n][f]]
    /\ toSync' = [toSync EXCEPT ![n] = @ \ {f}]
    /\ UNCHANGED <<config, completed, nfs, share, site, boot, conf, slurmd, history>>

(* It also fails when the control node goes away under it.                 *)
SyncEnd(n) ==
    /\ boot[n] = "sync"
    /\ \/ toSync[n] = {} /\ BootStep(n, "etc_hosts") /\ UNCHANGED toSync
       \/ ~nfs /\ BootStep(n, "failed") /\ toSync' = [toSync EXCEPT ![n] = {}]
    /\ UNCHANGED <<config, completed, nfs, share, site, local, conf, slurmd, history>>

(* Mutant: a role whose file is missing is skipped.                        *)
ApplyFeatureLenient(n, f) ==
    /\ boot[n] = f
    /\ BootStep(n, BootNext[f])
    /\ conf' = IF Enabled(f) /\ local[n][Source[f]] # NoFile
               THEN [conf EXCEPT ![n][f] = local[n][Source[f]]] ELSE conf
    /\ UNCHANGED <<config, completed, nfs, share, site, local, toSync, slurmd, history>>

(* Mutant: the file a role needs is not checked for.                       *)
ApplyFeatureUnchecked(n, f) ==
    /\ boot[n] = f
    /\ BootStep(n, BootNext[f])
    /\ conf' = IF Enabled(f)
               THEN [conf EXCEPT ![n][f] = local[n][Source[f]]] ELSE conf
    /\ UNCHANGED <<config, completed, nfs, share, site, local, toSync, slurmd, history>>

(* A role runs if it is enabled, and fails without the file it needs.      *)
ApplyFeature(n, f) ==
    /\ boot[n] = f
    /\ \/ /\ ~Enabled(f)
          /\ BootStep(n, BootNext[f])
          /\ UNCHANGED conf
       \/ /\ Enabled(f) /\ local[n][Source[f]] # NoFile
          /\ BootStep(n, BootNext[f])
          /\ conf' = [conf EXCEPT ![n][f] = local[n][Source[f]]]
       \/ /\ Enabled(f)
          /\ local[n][Source[f]] = NoFile \/ "boot" \in Failures
          /\ BootStep(n, "failed")
          /\ UNCHANGED conf
    /\ UNCHANGED <<config, completed, nfs, share, site, local, toSync, slurmd, history>>

StartSlurmd(n) ==
    /\ boot[n] = "slurmd"
    /\ slurmd' = [slurmd EXCEPT ![n] = TRUE]
    /\ BootStep(n, BootNext["slurmd"])
    /\ UNCHANGED <<config, completed, nfs, share, site, local, toSync, conf, history>>

-----------------------------------------------------------------------------

Site ==
    \/ SiteStart \/ SiteNextStage \/ SiteNfs \/ SiteExportHosts \/ SiteAbort
    \/ \E n \in Hosts : SiteWait(n) \/ SiteApply(n) \/ SiteSlurm(n) \/ SiteExport(n)

Boot(n) ==
    \/ Mount(n) \/ CheckHostvars(n) \/ SyncEnd(n) \/ StartSlurmd(n)
    \/ \E f \in Files : SyncFile(n, f)
    \/ \E f \in Features : ApplyFeature(n, f)

Next ==
    \/ Reconfigure \/ ControlRebuild \/ Site
    \/ \E n \in Hosts : Rebuild(n) \/ Boot(n)

Spec == Init /\ [][Next]_vars

(* A playbook that runs goes on to its next task, on the deploy host as on *)
(* a booting node; nobody has to start a run of site.yml or a rebuild.     *)
Fairness ==
    /\ WF_vars(Site /\ sitePc # "idle")
    /\ \A n \in Hosts : WF_vars(Boot(n))

FairSpec == Spec /\ Fairness

-----------------------------------------------------------------------------
(* Correctness                                                             *)

TypeOK ==
    /\ config \in 1..MaxVersion
    /\ completed \in 0..MaxVersion
    /\ nfs \in BOOLEAN
    /\ share \in [Hosts -> [Files -> 0..MaxVersion \cup {NoFile}]]
    /\ sitePc \in {"idle"} \cup DOMAIN SiteNext
    /\ siteVersion \in 0..MaxVersion
    /\ siteTodo \subseteq Hosts
    /\ boot \in [Hosts -> BootSteps]
    /\ local \in [Hosts -> [Files -> 0..MaxVersion \cup {NoFile}]]
    /\ toSync \in [Hosts -> SUBSET Files]
    /\ conf \in [Hosts -> [Features -> 0..MaxVersion]]
    /\ slurmd \in [Hosts -> BOOLEAN]
    /\ late \subseteq Hosts /\ stale \subseteq Hosts
    /\ began \in [Hosts -> 0..MaxVersion]

(* A node takes jobs only with a configuration at least as new as the last *)
(* one a run of site.yml has completed with, in every feature enabled on   *)
(* it, however boots, aborted runs and rebuilds of the control node came   *)
(* before one another. (Its health checks may follow at the end of the     *)
(* boot.) A node rebuilt under a run is only held to that once a later run *)
(* has completed; but its boot, though the share is written while it is    *)
(* copied, starts slurmd with nothing older than what was completed when   *)
(* it was rebuilt.                                                         *)
ConfigCurrent ==
    \A n \in Hosts : \A f \in Features : Enabled(f) =>
        /\ slurmd[n] /\ n \notin stale /\ (f = "nhc" => boot[n] = "done")
              => conf[n][f] >= completed
        /\ boot[n] = "slurmd" /\ f # "nhc" => conf[n][f] >= began[n]

(* "load configuration from the control node's NFS share and apply it      *)
(* before starting slurmd": no enabled feature is still the image's own,   *)
(* even if the share was only partly written, or is being written, when it *)
(* is copied. Only site.yml may start slurmd on a node with less, one that *)
(* has been rebuilt after the wait at the start of the run.                *)
SlurmdConfigured ==
    \A n \in Hosts : boot[n] = "slurmd" \/ (slurmd[n] /\ n \notin stale) =>
        \A f \in Features \ {"nhc"} : Enabled(f) => conf[n][f] # 0

(* The first deployment, like one after a rebuild of the control node, is  *)
(* not held up by nodes that boot with no share to mount, unless one is    *)
(* rebuilt again under it.                                                 *)
DeployCompletes ==
    (sitePc = "wait" /\ ~nfs /\ late = {} /\ \A n \in Hosts : boot[n] \in {"mount", "done"})
        ~> (sitePc = "apply" \/ late # {})

=============================================================================
