-------------------------- MODULE ComputeInitProofs --------------------------
(***************************************************************************)
(* Proofs about ComputeInit: for every set of hosts, all features they may *)
(* have enabled, any number of configurations, runs of site.yml, rebuilds  *)
(* of nodes, also under a run, and of the control node, and every choice   *)
(* of failures.                                                            *)
(***************************************************************************)
EXTENDS ComputeInit, TLAPS

LEMMA FeaturesFact == Features = {"etc_hosts", "sssd", "nhc", "vgpu", "munge"}
BY DEF Features, Source

LEMMA SourceFact ==
    /\ Source["etc_hosts"] = "hosts" /\ Source["sssd"] = "sssd.conf"
    /\ Source["nhc"] = "nhc.conf" /\ Source["vgpu"] = "hostvars.yml"
    /\ Source["munge"] = "hostvars.yml"
BY DEF Source

LEMMA FilesFact ==
    /\ Files = {"hosts", "sssd.conf", "nhc.conf", "hostvars.yml"}
    /\ \A f \in Features : Source[f] \in Files
BY FeaturesFact, SourceFact DEF Files

LEMMA StagesFact ==
    /\ DOMAIN SiteNext = {"wait", "apply", "nfs", "slurm", "hosts", "hostvars.yml", "sssd.conf", "nhc.conf"}
    /\ SiteNext["wait"] = "apply" /\ SiteNext["apply"] = "nfs" /\ SiteNext["nfs"] = "slurm" /\ SiteNext["slurm"] = "hosts"
    /\ SiteNext["hosts"] = "hostvars.yml" /\ SiteNext["hostvars.yml"] = "sssd.conf"
    /\ SiteNext["sssd.conf"] = "nhc.conf" /\ SiteNext["nhc.conf"] = "idle"
BY FilesFact DEF SiteNext

(* The order in which a boot applies the features.                         *)
LEMMA BootFact ==
    /\ BootNext["etc_hosts"] = "sssd" /\ BootNext["sssd"] = "vgpu" /\ BootNext["vgpu"] = "munge"
    /\ BootNext["munge"] = "slurmd" /\ BootNext["slurmd"] = "nhc" /\ BootNext["nhc"] = "done"
BY DEF BootNext

-----------------------------------------------------------------------------
(* The inductive invariant.                                                *)

Versions == 1..MaxVersion

(* A configuration that may be used: not the image's own, and none that    *)
(* is older than what the last complete run has deployed.                  *)
Current(v) == v \in Versions /\ v >= completed

(* What node n's boot may use: on a stale node, whatever was current when  *)
(* it was rebuilt.                                                         *)
Recent(n, v) == v \in Versions /\ v >= began[n] /\ (n \notin stale => Current(v))

(* Runs of site.yml follow the inventory, and what a node is held to       *)
(* follows the runs.                                                       *)
VersionsOrdered ==
    /\ completed <= siteVersion /\ siteVersion <= config
    /\ sitePc # "idle" => siteVersion >= 1
    /\ late \subseteq stale
    /\ \A n \in Hosts : began[n] <= completed

(* Only nhc.conf is exported from the node itself, and so as a node that   *)
(* was rebuilt under the run happens to have it.                           *)
Reliable(f, n) == f = "nhc.conf" => n \notin stale

(* What the share holds can be used, even half written.                    *)
ShareCurrent ==
    \A n \in Hosts : \A f \in Files :
        share[n][f] # NoFile /\ Reliable(f, n) => Current(share[n][f])

(* The features a boot that is at this step has applied.                   *)
Applied(step) ==
    CASE step = "sssd" -> {"etc_hosts"}
      [] step = "vgpu" -> {"etc_hosts", "sssd"}
      [] step = "munge" -> {"etc_hosts", "sssd", "vgpu"}
      [] step \in {"slurmd", "nhc"} -> {"etc_hosts", "sssd", "vgpu", "munge"}
      [] OTHER -> {}

Booting(n) == boot[n] \notin {"done", "failed"}

(* What a boot has copied, and what it has applied, is still recent when   *)
(* it gets to use it, and slurmd waits until all of it is.                 *)
BootRecent(n) ==
    /\ \A f \in Files : local[n][f] # NoFile /\ Reliable(f, n) => Recent(n, local[n][f])
    /\ \A f \in Applied(boot[n]) : Enabled(f) => Recent(n, conf[n][f])
    /\ boot[n] # "nhc" /\ n \notin stale => ~slurmd[n]

BootCurrent == \A n \in Hosts : Booting(n) => BootRecent(n)

(* With slurmd all features are current, health checks at the end of boot. *)
ServiceCurrent ==
    \A n \in Hosts : slurmd[n] /\ n \notin stale =>
        \A f \in Features : Enabled(f) /\ (f = "nhc" => boot[n] = "done") => Current(conf[n][f])

(* The stages that come after a stage.                                     *)
After(stage) ==
    CASE stage = "wait" -> {"apply", "nfs", "slurm", "hosts", "hostvars.yml", "sssd.conf", "nhc.conf"}
      [] stage = "apply" -> {"nfs", "slurm", "hosts", "hostvars.yml", "sssd.conf", "nhc.conf"}
      [] stage = "slurm" -> {"hosts", "hostvars.yml", "sssd.conf", "nhc.conf"}
      [] stage = "hosts" -> {"hostvars.yml", "sssd.conf", "nhc.conf"}
      [] stage = "hostvars.yml" -> {"sssd.conf", "nhc.conf"}
      [] stage = "sssd.conf" -> {"nhc.conf"}
      [] OTHER -> {}

(* A run is through with a stage on a host.                                *)
Through(stage, n) == sitePc \in After(stage) \/ (sitePc = stage /\ n \notin siteTodo)

Stages == {"wait", "apply", "slurm"} \cup Files

(* What the stages have done so far is not undone by the later ones, and   *)
(* on nodes that are not rebuilt meanwhile by nothing else either.         *)
StageProgress ==
    \A n \in Hosts :
        /\ \A f \in Files \ {"nhc.conf"} : Through(f, n) => share[n][f] = siteVersion
        /\ n \notin late =>
             /\ Through("wait", n) => boot[n] = "done"
             /\ Through("apply", n) => \A f \in Features \ {"nhc"} : conf[n][f] = siteVersion
             /\ Through("slurm", n) => conf[n]["nhc"] = siteVersion
             /\ Through("nhc.conf", n) => share[n]["nhc.conf"] = siteVersion

IInv ==
    /\ TypeOK
    /\ VersionsOrdered
    /\ ShareCurrent
    /\ BootCurrent
    /\ ServiceCurrent
    /\ StageProgress

-----------------------------------------------------------------------------
(* Types.                                                                  *)

LEMMA InitType == Init => TypeOK
<1> SUFFICES ASSUME Init PROVE TypeOK
  OBVIOUS
<1>1. NoFiles \in [Files -> 0..MaxVersion \cup {NoFile}]
  BY DEF NoFiles
<1>2. config = 1 /\ completed = 0 /\ siteVersion = 0 /\ nfs = FALSE
      /\ sitePc = "idle" /\ siteTodo = {}
  BY DEF Init
<1>3. share \in [Hosts -> [Files -> 0..MaxVersion \cup {NoFile}]]
      /\ local \in [Hosts -> [Files -> 0..MaxVersion \cup {NoFile}]]
  BY <1>1 DEF Init
<1>4. boot \in [Hosts -> BootSteps] /\ toSync \in [Hosts -> SUBSET Files]
      /\ slurmd \in [Hosts -> BOOLEAN]
  BY DEF Init, BootSteps
<1>5. conf \in [Hosts -> [Features -> 0..MaxVersion]]
  BY MaxVersionAssumption DEF Init
<1>6. config \in 1..MaxVersion /\ completed \in 0..MaxVersion /\ siteVersion \in 0..MaxVersion
  BY <1>2, MaxVersionAssumption
<1>7. nfs \in BOOLEAN /\ sitePc \in {"idle"} \cup DOMAIN SiteNext /\ siteTodo \subseteq Hosts
  BY <1>2
<1>8. late \subseteq Hosts /\ stale \subseteq Hosts /\ began \in [Hosts -> 0..MaxVersion]
  BY MaxVersionAssumption DEF Init
<1> QED BY <1>3, <1>4, <1>5, <1>6, <1>7, <1>8 DEF TypeOK

LEMMA OperatorType ==
    ASSUME TypeOK, Reconfigure \/ ControlRebuild \/ \E n \in Hosts : Rebuild(n)
    PROVE  TypeOK'
<1> USE MaxVersionAssumption DEF TypeOK, site, node, history
<1>1. NoFiles \in [Files -> 0..MaxVersion \cup {NoFile}]
  BY DEF NoFiles
<1>2. CASE Reconfigure
  BY <1>2 DEF Reconfigure
<1>3. CASE ControlRebuild
  BY <1>1, <1>3 DEF ControlRebuild
<1>4. ASSUME NEW n \in Hosts, Rebuild(n) PROVE TypeOK'
  BY <1>1, <1>4 DEF Rebuild, BootSteps
<1> QED BY <1>2, <1>3, <1>4

LEMMA SiteType == ASSUME TypeOK, Site PROVE TypeOK'
<1> USE MaxVersionAssumption, StagesFact DEF TypeOK, site, node, history
<1>1. CASE SiteStart
  BY <1>1 DEF SiteStart
<1>2. ASSUME NEW n \in Hosts, SiteWait(n) PROVE TypeOK'
  BY <1>2 DEF SiteWait
<1>3. CASE SiteNextStage
  BY <1>3 DEF SiteNextStage
<1>4. CASE SiteNfs
  BY <1>4 DEF SiteNfs
<1>5. CASE SiteExportHosts
  <2>1. \A n \in Hosts : [share[n] EXCEPT !["hosts"] = siteVersion]
                            \in [Files -> 0..MaxVersion \cup {NoFile}]
    OBVIOUS
  <2>2. share' \in [Hosts -> [Files -> 0..MaxVersion \cup {NoFile}]]
    BY <1>5, <2>1 DEF SiteExportHosts
  <2> QED BY <1>5, <2>2 DEF SiteExportHosts
<1>6. CASE SiteAbort
  BY <1>6 DEF SiteAbort
<1>7. ASSUME NEW n \in Hosts, SiteApply(n) PROVE TypeOK'
  <2>1. [f \in Features |-> IF f = "nhc" THEN conf[n][f] ELSE siteVersion]
           \in [Features -> 0..MaxVersion]
    OBVIOUS
  <2> QED BY <1>7, <2>1 DEF SiteApply
<1>8. ASSUME NEW n \in Hosts, SiteSlurm(n) PROVE TypeOK'
  BY <1>8 DEF SiteSlurm
<1>9. ASSUME NEW n \in Hosts, SiteExport(n) PROVE TypeOK'
  <2>1. (IF sitePc = "nhc.conf" THEN conf[n].nhc ELSE siteVersion) \in 0..MaxVersion
    BY FeaturesFact
  <2> QED BY <1>9, <2>1 DEF SiteExport
<1> QED BY <1>1, <1>2, <1>3, <1>4, <1>5, <1>6, <1>7, <1>8, <1>9 DEF Site

LEMMA BootType == ASSUME TypeOK, NEW n \in Hosts, Boot(n) PROVE TypeOK'
<1> USE DEF TypeOK, site, history, BootStep, BootSteps
<1>1. CASE Mount(n)
  BY <1>1 DEF Mount
<1>2. CASE CheckHostvars(n)
  BY <1>2 DEF CheckHostvars
<1>3. CASE SyncEnd(n)
  BY <1>3 DEF SyncEnd
<1>4. CASE StartSlurmd(n)
  BY <1>4, BootFact DEF StartSlurmd
<1>5. ASSUME NEW f \in Files, SyncFile(n, f) PROVE TypeOK'
  BY <1>5 DEF SyncFile
<1>6. ASSUME NEW f \in Features, ApplyFeature(n, f) PROVE TypeOK'
  <2>1. BootNext[f] \in BootSteps
    BY FeaturesFact, BootFact
  <2>2. local[n][Source[f]] \in 0..MaxVersion \cup {NoFile}
    BY FilesFact
  <2>3. PICK step \in BootSteps : BootStep(n, step)
    BY <1>6, <2>1 DEF ApplyFeature
  <2>4. conf' \in [Hosts -> [Features -> 0..MaxVersion]]
    <3>1. conf' = conf \/ (local[n][Source[f]] \in 0..MaxVersion
                              /\ conf' = [conf EXCEPT ![n][f] = local[n][Source[f]]])
      BY <1>6, <2>2 DEF ApplyFeature
    <3>2. ASSUME NEW v \in 0..MaxVersion
          PROVE  [conf EXCEPT ![n][f] = v] \in [Hosts -> [Features -> 0..MaxVersion]]
      OBVIOUS
    <3> QED BY <3>1, <3>2
  <2> QED BY <1>6, <2>3, <2>4 DEF ApplyFeature
<1> QED BY <1>1, <1>2, <1>3, <1>4, <1>5, <1>6 DEF Boot

LEMMA NextType == TypeOK /\ [Next]_vars => TypeOK'
<1> SUFFICES ASSUME TypeOK, [Next]_vars PROVE TypeOK'
  OBVIOUS
<1>1. CASE UNCHANGED vars
  BY <1>1 DEF TypeOK, vars, site, node, history
<1> QED BY <1>1, OperatorType, SiteType, BootType DEF Next

(* Every variable of the model keeps its type, whether boots and runs of   *)
(* site.yml overlap or not.                                                *)
THEOREM TypeCorrect == Spec => []TypeOK
BY InitType, NextType, PTL DEF Spec

-----------------------------------------------------------------------------
(* The invariant is inductive, step by step.                               *)

LEMMA AppliedFact ==
    /\ Applied("mount") = {} /\ Applied("check") = {} /\ Applied("sync") = {}
    /\ Applied("etc_hosts") = {}
    /\ Applied("sssd") = {"etc_hosts"}
    /\ Applied("vgpu") = {"etc_hosts", "sssd"}
    /\ Applied("munge") = {"etc_hosts", "sssd", "vgpu"}
    /\ Applied("slurmd") = {"etc_hosts", "sssd", "vgpu", "munge"}
    /\ Applied("nhc") = {"etc_hosts", "sssd", "vgpu", "munge"}
BY DEF Applied

LEMMA AfterFact ==
    /\ After("wait") = {"apply", "nfs", "slurm", "hosts", "hostvars.yml", "sssd.conf", "nhc.conf"}
    /\ After("apply") = {"nfs", "slurm", "hosts", "hostvars.yml", "sssd.conf", "nhc.conf"}
    /\ After("slurm") = {"hosts", "hostvars.yml", "sssd.conf", "nhc.conf"}
    /\ After("hosts") = {"hostvars.yml", "sssd.conf", "nhc.conf"}
    /\ After("hostvars.yml") = {"sssd.conf", "nhc.conf"}
    /\ After("sssd.conf") = {"nhc.conf"}
    /\ After("nhc.conf") = {}
BY DEF After

(* What a boot does next with one feature more applied.                    *)
LEMMA NextApplied ==
    ASSUME NEW f \in Features \ {"nhc"}
    PROVE  /\ Applied(BootNext[f]) = Applied(f) \cup {f}
           /\ BootNext[f] \notin {"nhc", "done", "failed"}
<1>1. CASE f = "etc_hosts"
  BY <1>1, BootFact, AppliedFact
<1>2. CASE f = "sssd"
  BY <1>2, BootFact, AppliedFact
<1>3. CASE f = "vgpu"
  BY <1>3, BootFact, AppliedFact
<1>4. CASE f = "munge"
  BY <1>4, BootFact, AppliedFact
<1> QED BY <1>1, <1>2, <1>3, <1>4, FeaturesFact

(* A run is through with its wait before any other stage.                  *)
LEMMA ThroughWait ==
    ASSUME NEW stage \in Stages, NEW n \in Hosts, Through(stage, n)
    PROVE  Through("wait", n)
<1>1. CASE stage = "wait"
  BY <1>1
<1>2. CASE stage # "wait"
  <2>1. sitePc \in After(stage) \cup {stage}
    BY DEF Through
  <2>2. After(stage) \cup {stage} \subseteq After("wait")
    BY <1>2, FilesFact, AfterFact DEF Stages
  <2> QED BY <2>1, <2>2 DEF Through
<1> QED BY <1>1, <1>2

(* When it starts, and when it is over, a run has done nothing yet.        *)
LEMMA NoStage ==
    ASSUME sitePc' = "idle" \/ (sitePc' = "wait" /\ siteTodo' = Hosts)
    PROVE  StageProgress'
<1>1. ASSUME NEW stage \in Stages, NEW n \in Hosts
      PROVE  ~ Through(stage, n)'
  BY FilesFact, AfterFact DEF Through, Stages
<1> QED BY <1>1, FilesFact DEF StageProgress, Stages

LEMMA InitInv == Init => IInv
<1> SUFFICES ASSUME Init PROVE IInv
  OBVIOUS
<1>1. TypeOK
  BY InitType
<1>2. VersionsOrdered
  BY DEF Init, VersionsOrdered
<1>3. \A n \in Hosts : \A f \in Files : share[n][f] = NoFile /\ local[n][f] = NoFile
  BY DEF Init, NoFiles
<1>4. \A n \in Hosts : boot[n] = "mount" /\ slurmd[n] = FALSE
  BY DEF Init
<1>5. ShareCurrent /\ BootCurrent /\ ServiceCurrent
  BY <1>3, <1>4, AppliedFact DEF ShareCurrent, BootCurrent, BootRecent, ServiceCurrent
<1>6. sitePc = "idle"
  BY DEF Init
<1>7. StageProgress
  BY <1>6, FilesFact, AfterFact DEF StageProgress, Through
<1> QED BY <1>1, <1>2, <1>5, <1>7 DEF IInv

(* Operators; a node that is rebuilt under a run is not held to it.        *)
LEMMA OperatorInv ==
    ASSUME IInv, Reconfigure \/ ControlRebuild \/ \E n \in Hosts : Rebuild(n)
    PROVE  IInv'
<1> USE DEF IInv, site, node, history
<1>1. TypeOK'
  BY OperatorType
<1>2. CASE Reconfigure
  <2>1. VersionsOrdered'
    BY <1>2 DEF Reconfigure, VersionsOrdered, TypeOK
  <2>2. UNCHANGED <<completed, share, boot, local, conf, slurmd, stale, began>>
    BY <1>2 DEF Reconfigure
  <2>3. ShareCurrent' /\ BootCurrent' /\ ServiceCurrent'
    BY <2>2 DEF ShareCurrent, BootCurrent, BootRecent, ServiceCurrent, Reliable, Recent, Current, Booting
  <2>4. StageProgress'
    BY <1>2, NoStage DEF Reconfigure
  <2> QED BY <1>1, <2>1, <2>3, <2>4
<1>3. CASE ControlRebuild
  <2>1. UNCHANGED <<config, completed, sitePc, siteVersion, boot, local, conf, slurmd, late, stale, began>>
    BY <1>3 DEF ControlRebuild
  <2>2. ShareCurrent'
    BY <1>3 DEF ControlRebuild, ShareCurrent, NoFiles
  <2>3. VersionsOrdered' /\ BootCurrent' /\ ServiceCurrent'
    BY <2>1 DEF VersionsOrdered, BootCurrent, BootRecent, ServiceCurrent, Reliable, Recent, Current, Booting
  <2>4. StageProgress'
    BY <1>3, NoStage DEF ControlRebuild
  <2> QED BY <1>1, <2>2, <2>3, <2>4
<1>4. ASSUME NEW n \in Hosts, Rebuild(n) PROVE IInv'
  <2>1. UNCHANGED <<config, completed, share, sitePc, siteVersion, siteTodo>>
    BY <1>4 DEF Rebuild
  <2>2. /\ boot'[n] = "mount" /\ slurmd'[n] = FALSE
        /\ \A f \in Files : local'[n][f] = NoFile
    BY <1>4 DEF Rebuild, NoFiles, TypeOK
  <2>3. \A m \in Hosts \ {n} : /\ boot'[m] = boot[m] /\ slurmd'[m] = slurmd[m]
                               /\ local'[m] = local[m] /\ conf'[m] = conf[m]
                               /\ began'[m] = began[m] /\ (m \in stale' <=> m \in stale)
                               /\ (m \in late' <=> m \in late)
    BY <1>4 DEF Rebuild, TypeOK
  <2>4. /\ began'[n] = completed /\ stale \subseteq stale'
        /\ IF sitePc = "idle" THEN late' = late /\ stale' = stale
                              ELSE late' = late \cup {n} /\ stale' = stale \cup {n}
    BY <1>4 DEF Rebuild, TypeOK
  <2>5. VersionsOrdered'
    <3>1. late' \subseteq stale'
      BY <2>4 DEF VersionsOrdered
    <3>2. completed <= completed
      BY DEF TypeOK
    <3>3. \A m \in Hosts : began'[m] <= completed'
      BY <2>1, <2>3, <2>4, <3>2 DEF VersionsOrdered
    <3> QED BY <2>1, <3>1, <3>3 DEF VersionsOrdered
  <2>6. ShareCurrent'
    BY <2>1, <2>4 DEF ShareCurrent, Reliable, Current
  <2>7. ASSUME NEW m \in Hosts, Booting(m)' PROVE BootRecent(m)'
    <3>1. CASE m = n
      BY <2>2, <3>1, AppliedFact DEF BootRecent
    <3>2. CASE m # n
      <4>1. BootRecent(m)
        BY <2>3, <2>7, <3>2 DEF BootCurrent, Booting
      <4> QED BY <2>1, <2>3, <3>2, <4>1 DEF BootRecent, Reliable, Recent, Current
    <3> QED BY <3>1, <3>2
  <2>8. ServiceCurrent'
    BY <2>1, <2>2, <2>3 DEF ServiceCurrent, Current
  <2>9. StageProgress'
    <3>1. CASE sitePc = "idle"
      BY <2>1, <3>1, NoStage
    <3>2. CASE sitePc # "idle"
      <4>1. n \in late'
        BY <2>4, <3>2
      <4> QED BY <2>1, <2>3, <4>1 DEF StageProgress, Through
    <3> QED BY <3>1, <3>2
  <2> QED BY <1>1, <2>5, <2>6, <2>7, <2>8, <2>9 DEF BootCurrent
<1> QED BY <1>2, <1>3, <1>4

(* A step of the boot of one node, described by what it must do: it takes  *)
(* what the share holds, applies only what is recent, and starts slurmd    *)
(* with everything applied. If a run of site.yml has come past its wait,   *)
(* the node has been rebuilt under it.                                     *)
LEMMA BootStepInv ==
    ASSUME IInv, TypeOK', NEW n \in Hosts, boot[n] \notin {"done", "failed"},
           UNCHANGED <<config, completed, share, sitePc, siteVersion, siteTodo, late, stale, began>>,
           \A m \in Hosts \ {n} : /\ boot'[m] = boot[m] /\ slurmd'[m] = slurmd[m]
                                  /\ local'[m] = local[m] /\ conf'[m] = conf[m],
           \A f \in Files : local'[n][f] \in {local[n][f], share[n][f]},
           boot'[n] \notin {"done", "failed"} =>
               /\ \A f \in Applied(boot'[n]) : Enabled(f) => Recent(n, conf'[n][f])
               /\ boot'[n] # "nhc" /\ n \notin stale => ~slurmd'[n],
           slurmd'[n] /\ n \notin stale => \A f \in Features :
               Enabled(f) /\ (f = "nhc" => boot'[n] = "done") => Current(conf'[n][f])
    PROVE  IInv'
<1> USE DEF IInv
<1>1. n \notin late => \A stage \in Stages : ~ Through(stage, n)
  BY ThroughWait DEF StageProgress
<1>2. StageProgress'
  BY <1>1, FilesFact DEF StageProgress, Through, Stages
<1>3. VersionsOrdered' /\ ShareCurrent'
  BY DEF VersionsOrdered, ShareCurrent, Reliable, Current
<1>4. ASSUME NEW f \in Files, local'[n][f] # NoFile, Reliable(f, n) PROVE Recent(n, local'[n][f])
  <2>1. CASE local'[n][f] = local[n][f]
    BY <1>4, <2>1 DEF BootCurrent, BootRecent, Booting, Recent
  <2>2. CASE local'[n][f] = share[n][f]
    <3>1. Current(share[n][f])
      BY <1>4, <2>2 DEF ShareCurrent
    <3>2. share[n][f] >= began[n]
      BY <3>1 DEF Current, VersionsOrdered, TypeOK, Versions
    <3> QED BY <2>2, <3>1, <3>2 DEF Recent, Current
  <2> QED BY <2>1, <2>2
<1>5. BootCurrent'
  <2>1. ASSUME NEW m \in Hosts, Booting(m)' PROVE BootRecent(m)'
    <3>1. CASE m = n
      BY <1>4, <2>1, <3>1 DEF BootRecent, Reliable, Recent, Current, Booting
    <3>2. CASE m # n
      <4>1. BootRecent(m)
        BY <2>1, <3>2 DEF BootCurrent, Booting
      <4> QED BY <3>2, <4>1 DEF BootRecent, Reliable, Recent, Current
    <3> QED BY <3>1, <3>2
  <2> QED BY <2>1 DEF BootCurrent
<1>6. ServiceCurrent'
  BY DEF ServiceCurrent, Current
<1> QED BY <1>2, <1>3, <1>5, <1>6

LEMMA BootInv == ASSUME IInv, NEW n \in Hosts, Boot(n) PROVE IInv'
<1>1. TypeOK'
  BY BootType DEF IInv
<1> USE DEF site, history, BootStep, TypeOK
<1>2. TypeOK
  BY DEF IInv
<1>3. Booting(n) /\ n \notin stale => ~slurmd[n] \/ boot[n] = "nhc"
  BY DEF IInv, BootCurrent, BootRecent
<1>4. CASE Mount(n) \/ CheckHostvars(n) \/ SyncEnd(n)
  <2>1. boot[n] \in {"mount", "check", "sync"}
    BY <1>4 DEF Mount, CheckHostvars, SyncEnd
  <2>2. boot'[n] \in {"check", "sync", "etc_hosts", "done", "failed"}
    BY <1>2, <1>4 DEF Mount, CheckHostvars, SyncEnd
  <2>3. UNCHANGED <<config, completed, share, sitePc, siteVersion, siteTodo, local, conf, slurmd, late, stale, began>>
    BY <1>4 DEF Mount, CheckHostvars, SyncEnd
  <2>4. \A m \in Hosts \ {n} : boot'[m] = boot[m]
    BY <1>2, <1>4 DEF Mount, CheckHostvars, SyncEnd
  <2> QED BY <1>1, <1>3, <2>1, <2>2, <2>3, <2>4, AppliedFact, BootStepInv DEF Booting
<1>5. ASSUME NEW f \in Files, SyncFile(n, f) PROVE IInv'
  <2>1. UNCHANGED <<config, completed, share, sitePc, siteVersion, siteTodo, boot, conf, slurmd, late, stale, began>>
    BY <1>5 DEF SyncFile
  <2>2. \A m \in Hosts \ {n} : local'[m] = local[m]
    BY <1>2, <1>5 DEF SyncFile
  <2>3. \A g \in Files : local'[n][g] \in {local[n][g], share[n][g]}
    BY <1>2, <1>5 DEF SyncFile
  <2>4. boot[n] = "sync"
    BY <1>5 DEF SyncFile
  <2> QED BY <1>1, <1>3, <2>1, <2>2, <2>3, <2>4, AppliedFact, BootStepInv DEF Booting
<1>6. CASE StartSlurmd(n)
  <2>1. UNCHANGED <<config, completed, share, sitePc, siteVersion, siteTodo, local, conf, late, stale, began>>
    BY <1>6 DEF StartSlurmd
  <2>2. boot[n] = "slurmd" /\ boot'[n] = "nhc"
    BY <1>2, <1>6, BootFact DEF StartSlurmd
  <2>3. \A m \in Hosts \ {n} : boot'[m] = boot[m] /\ slurmd'[m] = slurmd[m]
    BY <1>2, <1>6 DEF StartSlurmd
  <2>4. \A f \in Features \ {"nhc"} : Enabled(f) => Recent(n, conf[n][f])
    BY <2>2, FeaturesFact, AppliedFact DEF IInv, BootCurrent, BootRecent, Booting
  <2>5. n \notin stale => \A f \in Features \ {"nhc"} : Enabled(f) => Current(conf[n][f])
    BY <2>4 DEF Recent
  <2> QED BY <1>1, <2>1, <2>2, <2>3, <2>4, <2>5, FeaturesFact, AppliedFact, BootStepInv
<1>7. ASSUME NEW f \in Features, ApplyFeature(n, f) PROVE IInv'
  <2>1. UNCHANGED <<config, completed, share, sitePc, siteVersion, siteTodo, local, slurmd, late, stale, began>>
    BY <1>7 DEF ApplyFeature
  <2>2. boot[n] = f /\ Booting(n) /\ BootRecent(n)
    BY <1>7, FeaturesFact DEF ApplyFeature, Booting, IInv, BootCurrent
  <2>3. \A m \in Hosts \ {n} : boot'[m] = boot[m] /\ conf'[m] = conf[m]
    BY <1>2, <1>7 DEF ApplyFeature
  <2>4. \A g \in Features \ {f} : conf'[n][g] = conf[n][g]
    BY <1>2, <1>7 DEF ApplyFeature
  <2>5. boot'[n] = "failed"
        \/ (boot'[n] = BootNext[f]
              /\ (Enabled(f) /\ Reliable(Source[f], n) => Recent(n, conf'[n][f])))
    <3>1. local[n][Source[f]] # NoFile /\ Reliable(Source[f], n) => Recent(n, local[n][Source[f]])
      BY <2>2, FilesFact DEF BootRecent
    <3>2. CASE boot'[n] = "failed"
      BY <3>2
    <3>3. CASE boot'[n] = BootNext[f] /\ ~Enabled(f)
      BY <3>3
    <3>4. CASE /\ boot'[n] = BootNext[f] /\ local[n][Source[f]] # NoFile
               /\ conf'[n][f] = local[n][Source[f]]
      BY <3>1, <3>4
    <3> QED BY <1>2, <1>7, <3>2, <3>3, <3>4 DEF ApplyFeature
  <2>6. Applied(f) \subseteq Features \ {f}
    BY FeaturesFact, AppliedFact
  <2>7. \A g \in Applied(f) : Enabled(g) => Recent(n, conf'[n][g])
    BY <2>2, <2>4, <2>6 DEF BootRecent
  <2>8. CASE f = "nhc"
    <3>1. Features = Applied(f) \cup {"nhc"}
      BY <2>8, FeaturesFact, AppliedFact
    <3>2. boot'[n] \in {"done", "failed"}
      BY <2>5, <2>8, BootFact
    <3>3. n \notin stale => Reliable(Source[f], n)
      BY DEF Reliable
    <3>4. n \notin stale => \A g \in Features :
              Enabled(g) /\ (g = "nhc" => boot'[n] = "done") => Current(conf'[n][g])
      BY <2>5, <2>7, <2>8, <3>1, <3>3 DEF Recent
    <3> QED BY <1>1, <2>1, <2>2, <2>3, <3>2, <3>4, BootStepInv DEF Booting
  <2>9. CASE f # "nhc"
    <3>1. n \notin stale => ~slurmd'[n]
      BY <1>3, <2>1, <2>2, <2>9
    <3>2. Reliable(Source[f], n)
      BY <2>9, FeaturesFact, SourceFact DEF Reliable
    <3>3. boot'[n] # "failed" => \A g \in Applied(boot'[n]) : Enabled(g) => Recent(n, conf'[n][g])
      BY <2>5, <2>7, <2>9, <3>2, NextApplied
    <3> QED BY <1>1, <2>1, <2>2, <2>3, <3>1, <3>3, BootStepInv DEF Booting
  <2> QED BY <2>8, <2>9
<1> QED BY <1>4, <1>5, <1>6, <1>7 DEF Boot

(* A stage that follows one a run is through with.                         *)
LEMMA NextStage ==
    ASSUME NEW stage \in Stages,
           sitePc \in DOMAIN SiteNext, SiteNext[sitePc] \in After(stage)
    PROVE  sitePc \in After(stage) \cup {stage}
<1>1. CASE stage = "wait"
  BY <1>1, StagesFact, AfterFact
<1>2. CASE stage = "apply"
  BY <1>2, StagesFact, AfterFact
<1>3. CASE stage = "slurm"
  BY <1>3, StagesFact, AfterFact
<1>4. CASE stage = "hosts"
  BY <1>4, StagesFact, AfterFact
<1>5. CASE stage = "hostvars.yml"
  BY <1>5, StagesFact, AfterFact
<1>6. CASE stage = "sssd.conf"
  BY <1>6, StagesFact, AfterFact
<1>7. CASE stage = "nhc.conf"
  BY <1>7, AfterFact
<1> QED BY <1>1, <1>2, <1>3, <1>4, <1>5, <1>6, <1>7, FilesFact DEF Stages

(* What a run of site.yml does around its stages.                          *)
LEMMA SiteTurnInv ==
    ASSUME IInv, SiteStart \/ (\E n \in Hosts : SiteWait(n)) \/ SiteAbort
    PROVE  IInv'
<1> USE DEF IInv, node, history
<1>1. TypeOK'
  BY SiteType DEF Site
<1>2. /\ UNCHANGED <<config, completed, share, boot, local, conf, slurmd, stale, began>>
      /\ late' \subseteq late
  BY DEF SiteStart, SiteWait, SiteAbort
<1>3. ShareCurrent' /\ BootCurrent' /\ ServiceCurrent'
  BY <1>2 DEF ShareCurrent, BootCurrent, BootRecent, ServiceCurrent, Reliable, Recent, Current, Booting
<1>4. VersionsOrdered'
  BY <1>2 DEF SiteStart, SiteWait, SiteAbort, VersionsOrdered, TypeOK
<1>5. CASE SiteStart \/ SiteAbort
  BY <1>1, <1>3, <1>4, <1>5, NoStage DEF SiteStart, SiteAbort
<1>6. ASSUME NEW n \in Hosts, SiteWait(n) PROVE IInv'
  <2>1. /\ sitePc = "wait" /\ sitePc' = "wait" /\ siteTodo' = siteTodo \ {n} /\ boot[n] = "done"
        /\ UNCHANGED <<siteVersion, late>>
    BY <1>6 DEF SiteWait
  <2>2. ASSUME NEW stage \in Stages \ {"wait"}, NEW m \in Hosts
        PROVE  ~ Through(stage, m)'
    BY <2>1, FilesFact, AfterFact DEF Through, Stages
  <2>3. \A m \in Hosts : Through("wait", m)' => Through("wait", m) \/ m = n
    BY <2>1 DEF Through
  <2>4. StageProgress'
    BY <1>2, <2>1, <2>2, <2>3, FilesFact DEF StageProgress, Stages
  <2> QED BY <1>1, <1>3, <1>4, <2>4
<1> QED BY <1>5, <1>6

(* The end of a stage; that of the last completes the run, and holds every *)
(* node to it that was not rebuilt meanwhile.                              *)
LEMMA SiteNextStageInv == ASSUME IInv, SiteNextStage PROVE IInv'
<1> USE DEF IInv, node
<1>1. TypeOK'
  BY SiteType DEF Site
<1>2. /\ UNCHANGED <<config, share, siteVersion, boot, local, conf, slurmd, began>>
      /\ sitePc \in DOMAIN SiteNext /\ siteTodo = {} /\ sitePc' = SiteNext[sitePc]
  BY DEF SiteNextStage
<1>3. CASE SiteNext[sitePc] = "idle"
  <2>1. /\ sitePc = "nhc.conf" /\ completed' = siteVersion /\ sitePc' = "idle"
        /\ stale' = late /\ late' = {}
    BY <1>2, <1>3, StagesFact DEF SiteNextStage
  <2>2. siteVersion \in Versions /\ completed <= siteVersion
    BY <2>1 DEF TypeOK, VersionsOrdered, Versions
  <2>3. ASSUME NEW stage \in Stages, NEW n \in Hosts
        PROVE  Through(stage, n)
    BY <1>2, <2>1, FilesFact, AfterFact DEF Through, Stages
  <2>4. \A n \in Hosts :
            /\ \A f \in Files \ {"nhc.conf"} : share[n][f] = siteVersion
            /\ n \notin late => /\ boot[n] = "done" /\ share[n]["nhc.conf"] = siteVersion
                                /\ \A f \in Features : conf[n][f] = siteVersion
    <3>1. {"wait", "apply", "slurm"} \cup Files \subseteq Stages /\ "nhc.conf" \in Files
      BY FilesFact DEF Stages
    <3> QED BY <2>3, <3>1 DEF StageProgress
  <2>5. ShareCurrent' /\ ServiceCurrent'
    BY <1>2, <2>1, <2>2, <2>4 DEF ShareCurrent, ServiceCurrent, Reliable, Current, Versions
  <2>6. VersionsOrdered'
    <3>1. \A n \in Hosts : began'[n] <= completed'
      BY <1>2, <2>1, <2>2 DEF VersionsOrdered, TypeOK
    <3> QED BY <1>2, <2>1, <3>1 DEF VersionsOrdered, TypeOK
  <2>7. ASSUME NEW n \in Hosts, Booting(n)' PROVE BootRecent(n)'
    <3>1. n \in late /\ n \in stale /\ n \in stale'
      BY <1>2, <2>1, <2>4, <2>7 DEF Booting, VersionsOrdered
    <3>2. BootRecent(n)
      BY <1>2, <2>7 DEF Booting, BootCurrent
    <3> QED BY <1>2, <3>1, <3>2 DEF BootRecent, Reliable, Recent
  <2> QED BY <1>1, <2>1, <2>5, <2>6, <2>7, NoStage DEF BootCurrent
<1>4. CASE SiteNext[sitePc] # "idle"
  <2>1. UNCHANGED <<completed, late, stale>> /\ siteTodo' = Hosts
    BY <1>2, <1>4 DEF SiteNextStage
  <2>2. ShareCurrent' /\ ServiceCurrent' /\ VersionsOrdered' /\ BootCurrent'
    BY <1>2, <2>1, StagesFact
    DEF ShareCurrent, ServiceCurrent, VersionsOrdered, BootCurrent, BootRecent,
        Reliable, Recent, Current, Booting
  <2>3. ASSUME NEW stage \in Stages, NEW n \in Hosts, Through(stage, n)'
        PROVE  Through(stage, n)
    <3>1. SiteNext[sitePc] \in After(stage)
      BY <1>2, <2>1, <2>3 DEF Through, After
    <3> QED BY <1>2, <3>1, NextStage DEF Through
  <2>4. StageProgress'
    BY <1>2, <2>1, <2>3, FilesFact DEF StageProgress, Stages
  <2> QED BY <1>1, <2>2, <2>4
<1> QED BY <1>3, <1>4

(* The stages that configure the nodes.                                    *)
LEMMA SiteNodesInv ==
    ASSUME IInv, NEW n \in Hosts, SiteApply(n) \/ SiteSlurm(n)
    PROVE  IInv'
<1> USE DEF IInv
<1>1. TypeOK'
  BY SiteType DEF Site
<1>2. /\ UNCHANGED <<config, completed, share, sitePc, siteVersion, boot, local, late, stale, began>>
      /\ sitePc \in {"apply", "slurm"} /\ siteTodo' = siteTodo \ {n}
  BY DEF SiteApply, SiteSlurm, history
<1>3. \A m \in Hosts \ late : boot[m] = "done"
  BY <1>2, AfterFact DEF StageProgress, Through
<1>4. /\ siteVersion \in Versions /\ siteVersion >= completed
      /\ \A m \in Hosts : siteVersion >= began[m]
  BY <1>2 DEF VersionsOrdered, TypeOK, Versions
<1>5. VersionsOrdered' /\ ShareCurrent'
  BY <1>2 DEF VersionsOrdered, ShareCurrent, Reliable, Current
<1>6. \A m \in Hosts \ {n} : conf'[m] = conf[m] /\ slurmd'[m] = slurmd[m]
  BY DEF SiteApply, SiteSlurm, TypeOK
<1>7. \A f \in Features : conf'[n][f] = conf[n][f] \/ conf'[n][f] = siteVersion
  BY FeaturesFact DEF SiteApply, SiteSlurm, TypeOK
<1>8. n \notin stale => n \notin late
  BY DEF VersionsOrdered
<1>9. ASSUME NEW m \in Hosts, Booting(m)' PROVE BootRecent(m)'
  <2>1. Booting(m) /\ BootRecent(m) /\ m \in stale
    BY <1>2, <1>3, <1>9 DEF Booting, BootCurrent, VersionsOrdered
  <2>2. Applied(boot[m]) \subseteq Features
    BY FeaturesFact DEF Applied
  <2>3. ASSUME NEW f \in Applied(boot[m]), Enabled(f) PROVE Recent(m, conf'[m][f])
    BY <1>4, <1>6, <1>7, <2>1, <2>2, <2>3 DEF BootRecent, Recent
  <2> QED BY <1>2, <2>1, <2>3 DEF BootRecent, Reliable, Recent
<1>10. ASSUME NEW stage \in Stages, NEW m \in Hosts, Through(stage, m)', stage # sitePc \/ m # n
       PROVE  Through(stage, m)
  BY <1>2, <1>10 DEF Through, After
<1>11. \A m \in Hosts : \A f \in Files : Through(f, m)' => Through(f, m)
  BY <1>2, <1>10, FilesFact DEF Stages
<1>12. \A m \in Hosts : Through("wait", m)' => Through("wait", m)
  BY <1>2, <1>10 DEF Stages
<1>13. CASE SiteApply(n)
  <2>1. sitePc = "apply" /\ UNCHANGED slurmd /\ conf'[n]["nhc"] = conf[n]["nhc"]
        /\ \A f \in Features \ {"nhc"} : conf'[n][f] = siteVersion
    BY <1>13, FeaturesFact DEF SiteApply, TypeOK
  <2>2. ServiceCurrent'
    BY <1>2, <1>4, <1>6, <1>7, <2>1 DEF ServiceCurrent, Current
  <2>3. \A m \in Hosts : ~ Through("slurm", m)'
    BY <1>2, <2>1, AfterFact DEF Through
  <2>4. ASSUME NEW m \in Hosts \ late, Through("apply", m)'
        PROVE  \A f \in Features \ {"nhc"} : conf'[m][f] = siteVersion
    BY <1>6, <1>10, <2>1, <2>4 DEF StageProgress, Stages
  <2>5. StageProgress'
    BY <1>2, <1>11, <1>12, <2>3, <2>4, FilesFact DEF StageProgress
  <2> QED BY <1>1, <1>5, <1>9, <2>2, <2>5 DEF BootCurrent
<1>14. CASE SiteSlurm(n)
  <2>1. /\ sitePc = "slurm" /\ conf'[n]["nhc"] = siteVersion
        /\ \A f \in Features \ {"nhc"} : conf'[n][f] = conf[n][f]
    BY <1>14, FeaturesFact DEF SiteSlurm, TypeOK
  <2>2. \A m \in Hosts \ late : \A f \in Features \ {"nhc"} : conf[m][f] = siteVersion
    BY <2>1, AfterFact DEF StageProgress, Through
  <2>3. n \notin stale => \A f \in Features : Current(conf'[n][f])
    BY <1>4, <1>8, <2>1, <2>2 DEF Current
  <2>4. ServiceCurrent'
    BY <1>2, <1>6, <2>3 DEF ServiceCurrent, Current
  <2>5. ASSUME NEW m \in Hosts \ late
        PROVE  /\ \A f \in Features \ {"nhc"} : conf'[m][f] = siteVersion
               /\ Through("slurm", m)' => conf'[m]["nhc"] = siteVersion
    BY <1>6, <1>10, <2>1, <2>2 DEF StageProgress, Stages
  <2>6. StageProgress'
    BY <1>2, <1>11, <1>12, <2>5, FilesFact DEF StageProgress
  <2> QED BY <1>1, <1>5, <1>9, <2>4, <2>6 DEF BootCurrent
<1> QED BY <1>13, <1>14

(* The stages that only touch the control node.                            *)
LEMMA SiteExportInv ==
    ASSUME IInv, SiteNfs \/ SiteExportHosts \/ \E n \in Hosts : SiteExport(n)
    PROVE  IInv'
<1> USE DEF IInv, node, history
<1>1. TypeOK'
  BY SiteType DEF Site
<1>2. /\ UNCHANGED <<config, completed, sitePc, siteVersion, boot, local, conf, slurmd, late, stale, began>>
      /\ sitePc \in {"nfs"} \cup Files /\ siteTodo' \subseteq siteTodo
  BY FilesFact DEF SiteNfs, SiteExportHosts, SiteExport
<1>3. Current(siteVersion)
  BY <1>2, FilesFact DEF VersionsOrdered, Current, TypeOK, Versions
<1>4. VersionsOrdered' /\ BootCurrent' /\ ServiceCurrent'
  BY <1>2 DEF VersionsOrdered, BootCurrent, BootRecent, ServiceCurrent, Reliable, Recent, Current, Booting
<1>5. sitePc \in After("wait") /\ sitePc \in After("apply") /\ (sitePc # "nfs" => sitePc \in After("slurm"))
  BY <1>2, FilesFact, AfterFact
<1>6. \A m \in Hosts \ late :
        /\ boot[m] = "done"
        /\ \A f \in Features \ {"nhc"} : conf[m][f] = siteVersion
        /\ sitePc # "nfs" => conf[m]["nhc"] = siteVersion
  BY <1>5 DEF StageProgress, Through
<1>7. \A m \in Hosts : Through("slurm", m)' => sitePc # "nfs"
  BY <1>2, AfterFact DEF Through
<1>8. \A m \in Hosts : \A f \in Files :
        \/ share'[m][f] = share[m][f]
        \/ share'[m][f] = siteVersion
        \/ f = "nhc.conf" /\ m \in late
  <2>1. CASE SiteNfs
    BY <2>1 DEF SiteNfs
  <2>2. CASE SiteExportHosts
    BY <2>2 DEF SiteExportHosts, TypeOK
  <2>3. ASSUME NEW n \in Hosts, SiteExport(n)
        PROVE  \A m \in Hosts : \A f \in Files :
                   \/ share'[m][f] = share[m][f]
                   \/ share'[m][f] = siteVersion
                   \/ f = "nhc.conf" /\ m \in late
    <3>1. sitePc = "nhc.conf" => conf[n].nhc = siteVersion \/ n \in late
      BY <1>6
    <3> QED BY <2>3, <3>1 DEF SiteExport, TypeOK
  <2> QED BY <2>1, <2>2, <2>3
<1>9. ASSUME NEW f \in Files, NEW m \in Hosts, Through(f, m)', f = "nhc.conf" => m \notin late
      PROVE  Through(f, m) \/ share'[m][f] = siteVersion
  <2>1. CASE SiteNfs
    BY <1>2, <1>9, <2>1, FilesFact DEF SiteNfs, Through, After
  <2>2. CASE SiteExportHosts
    BY <1>2, <1>9, <2>2 DEF SiteExportHosts, TypeOK, Through, After
  <2>3. ASSUME NEW n \in Hosts, SiteExport(n)
        PROVE  Through(f, m) \/ share'[m][f] = siteVersion
    <3>1. CASE f = sitePc /\ m = n
      BY <1>6, <1>9, <2>3, <3>1 DEF SiteExport, TypeOK
    <3>2. CASE ~(f = sitePc /\ m = n)
      BY <1>2, <1>9, <2>3, <3>2 DEF SiteExport, Through, After
    <3> QED BY <3>1, <3>2
  <2> QED BY <2>1, <2>2, <2>3
<1>10. ShareCurrent'
  <2>1. ASSUME NEW m \in Hosts, NEW f \in Files, share'[m][f] # NoFile, Reliable(f, m)
        PROVE  Current(share'[m][f])
    <3>1. ~(f = "nhc.conf" /\ m \in late)
      BY <2>1 DEF Reliable, VersionsOrdered
    <3> QED BY <1>3, <1>8, <2>1, <3>1 DEF ShareCurrent
  <2> QED BY <1>2, <2>1 DEF ShareCurrent, Reliable, Current
<1>11. ASSUME NEW m \in Hosts, NEW f \in Files, Through(f, m)', f = "nhc.conf" => m \notin late
       PROVE  share'[m][f] = siteVersion
  <2>1. Through(f, m) => share[m][f] = siteVersion
    BY <1>11 DEF StageProgress
  <2> QED BY <1>8, <1>9, <1>11, <2>1
<1>12. StageProgress'
  BY <1>2, <1>6, <1>7, <1>11, FilesFact DEF StageProgress
<1> QED BY <1>1, <1>4, <1>10, <1>12

LEMMA NextInv == IInv /\ [Next]_vars => IInv'
<1> SUFFICES ASSUME IInv, [Next]_vars PROVE IInv'
  OBVIOUS
<1>1. CASE UNCHANGED vars
  BY <1>1 DEF vars, site, node, history, IInv, TypeOK, VersionsOrdered, ShareCurrent, BootCurrent,
              BootRecent, ServiceCurrent, StageProgress, Reliable, Recent, Current, Booting, Through
<1> QED
  BY <1>1, OperatorInv, BootInv, SiteTurnInv, SiteNextStageInv, SiteNodesInv, SiteExportInv
  DEF Next, Site

LEMMA Invariant == Spec => []IInv
BY InitInv, NextInv, PTL DEF Spec

(* No node takes jobs with a configuration older than the last complete    *)
(* run of site.yml deployed, and one rebuilt under a run starts slurmd     *)
(* with nothing older than what was complete when it was rebuilt.          *)
THEOREM NodesAreCurrent == Spec => []ConfigCurrent
<1>1. ASSUME IInv, NEW n \in Hosts, NEW f \in Features, Enabled(f)
      PROVE  /\ slurmd[n] /\ n \notin stale /\ (f = "nhc" => boot[n] = "done")
                   => conf[n][f] >= completed
             /\ boot[n] = "slurmd" /\ f # "nhc" => conf[n][f] >= began[n]
  <2>1. slurmd[n] /\ n \notin stale /\ (f = "nhc" => boot[n] = "done") => conf[n][f] >= completed
    BY <1>1 DEF IInv, ServiceCurrent, Current
  <2>2. ASSUME boot[n] = "slurmd", f # "nhc" PROVE conf[n][f] >= began[n]
    <3>1. BootRecent(n) /\ f \in Applied(boot[n])
      BY <1>1, <2>2, FeaturesFact, AppliedFact DEF IInv, BootCurrent, Booting
    <3> QED BY <1>1, <3>1 DEF BootRecent, Recent
  <2> QED BY <2>1, <2>2
<1>2. IInv => ConfigCurrent
  BY <1>1 DEF ConfigCurrent
<1> QED BY <1>2, Invariant, PTL

(* slurmd never runs with an enabled feature as the image has it, even if  *)
(* the share was half written, lost or stale when the node booted, and no  *)
(* boot starts it so, even if the share is written under it.               *)
THEOREM SlurmdWaits == Spec => []SlurmdConfigured
<1>1. ASSUME IInv, NEW n \in Hosts, boot[n] = "slurmd" \/ (slurmd[n] /\ n \notin stale),
             NEW f \in Features \ {"nhc"}, Enabled(f)
      PROVE  conf[n][f] # 0
  <2>1. CASE boot[n] = "slurmd"
    <3>1. BootRecent(n) /\ f \in Applied(boot[n])
      BY <1>1, <2>1, FeaturesFact, AppliedFact DEF IInv, BootCurrent, Booting
    <3> QED BY <1>1, <3>1 DEF BootRecent, Recent, Versions
  <2>2. CASE slurmd[n] /\ n \notin stale
    BY <1>1, <2>2 DEF IInv, ServiceCurrent, Current, Versions
  <2> QED BY <1>1, <2>1, <2>2
<1>2. IInv => SlurmdConfigured
  BY <1>1 DEF SlurmdConfigured
<1> QED BY <1>2, Invariant, PTL
=============================================================================
