------------------------- MODULE SlurmRebuildProofs -------------------------
(***************************************************************************)
(* Proofs about SlurmRebuild: for every set of nodes, partitions, jobs and *)
(* images, every batch size and every choice of failures.                  *)
(***************************************************************************)
EXTENDS SlurmRebuild, TLAPS

(* A batch is part of what the loop has still to reach.                    *)
LEMMA NextBatchSubset == \A S : NextBatch(S) \subseteq S
BY DEF NextBatch

LEMMA ImageMapsType == ImageMaps \subseteq [Nodes -> Images]
BY DEF ImageMaps

(* A site.yml step keeps the type invariant.                               *)
LEMMA SiteType == ASSUME TypeOK, Site PROVE TypeOK'
<1> USE ImageMapsType DEF TypeOK
<1>1. CASE SiteStart
  BY <1>1 DEF SiteStart, cloudVars, slurmVars, playVars
<1>2. CASE SiteSlurm
  BY <1>2 DEF SiteSlurm, cloudVars, slurmVars, playVars
<1>3. CASE SiteEnd
  BY <1>3 DEF SiteEnd, cloudVars, slurmVars, playVars
<1>4. CASE SiteAbort
  BY <1>4 DEF SiteAbort, cloudVars, slurmVars, playVars
<1>5. ASSUME NEW n \in Nodes, SiteExport(n) PROVE TypeOK'
  <2>1. siteVars[n] \in Images \cup {NoImage}
    <3>1. CASE siteVars = NoVars
      BY <3>1, <1>5, NoVars[n] = NoImage DEF NoVars
    <3>2. CASE siteVars \in [Nodes -> Images]
      BY <3>2
    <3> QED BY <3>1, <3>2
  <2>2. rebootVars' \in [Nodes -> Images \cup {NoImage}] /\ siteTodo' \subseteq Nodes
    BY <1>5, <2>1 DEF SiteExport
  <2>3. UNCHANGED <<wanted, cloudVars, ctld, slurmVars, alloc, sitePc, siteVars,
                    siteDone, playVars>>
    BY <1>5 DEF SiteExport
  <2> QED BY <2>2, <2>3 DEF cloudVars, slurmVars, playVars
<1> QED BY <1>1, <1>2, <1>3, <1>4, <1>5 DEF Site

(* A step of the rebuild play keeps the type invariant.                    *)
LEMMA PlayType == ASSUME TypeOK, Play PROVE TypeOK'
<1> USE ImageMapsType, NextBatchSubset DEF TypeOK
<1>1. CASE PlayStart
  <2>1. opts' \in [dryrun : BOOLEAN, next : NextStates \cup {""}]
    BY <1>1 DEF PlayStart
  <2>2. rebuildNodes' \in NodeSets /\ hostvars' = wanted /\ pc' = "info"
    BY <1>1 DEF PlayStart
  <2>3. targets' = {} /\ todo' = {}
    BY <1>1 DEF PlayStart
  <2>4. /\ UNCHANGED <<wanted, cloudVars, ctld, rebootVars, slurmVars, alloc, siteVarsAll>>
        /\ UNCHANGED itemFailed
    BY <1>1 DEF PlayStart
  <2> QED BY <2>1, <2>2, <2>3, <2>4 DEF cloudVars, slurmVars, siteVarsAll
<1>2. CASE GetTargets
  BY <1>2 DEF GetTargets, cloudVars, slurmVars, siteVarsAll
<1>3. CASE DrainBatch
  BY <1>3, NodeSetsAssumption DEF DrainBatch, CommandFails, cloudVars, siteVarsAll
<1>4. CASE DrainEnd
  BY <1>4 DEF DrainEnd, cloudVars, slurmVars, siteVarsAll
<1>5. CASE RequestBatch
  <2>1. /\ UNCHANGED <<wanted, cloudVars, ctld, rebootVars, drain, down, alloc, siteVarsAll>>
        /\ UNCHANGED <<pc, opts, hostvars, rebuildNodes, targets>>
        /\ todo' \subseteq todo /\ itemFailed' \in BOOLEAN
    BY <1>5 DEF RequestBatch, CommandFails
  <2>2. /\ reboot' \in [Nodes -> {"none", "requested", "issued"}]
        /\ nextState' \in [Nodes -> {"RESUME", "DOWN", ""}]
    <3>1. CASE CommandFails /\ UNCHANGED <<reboot, nextState>>
      BY <3>1
    <3>2. CASE ~(CommandFails /\ UNCHANGED <<reboot, nextState>>)
      <4>1. opts.next \in {"RESUME", "DOWN", ""}
        BY NextStatesAssumption
      <4>2. \A n \in Nodes : /\ reboot[n] \in {"none", "requested", "issued"}
                            /\ nextState[n] \in {"RESUME", "DOWN", ""}
        OBVIOUS
      <4> DEFINE new == IF opts.dryrun THEN {} ELSE {n \in NextBatch(todo) : reboot[n] = "none"}
      <4>3. /\ reboot' = [n \in Nodes |-> IF n \in new THEN "requested" ELSE reboot[n]]
            /\ nextState' = [n \in Nodes |-> IF n \in new THEN opts.next ELSE nextState[n]]
        BY <1>5, <3>2 DEF RequestBatch
      <4> HIDE DEF TypeOK, new
      <4> QED BY <4>1, <4>2, <4>3
    <3> QED BY <3>1, <3>2
  <2> QED BY <2>1, <2>2 DEF cloudVars, siteVarsAll
<1>6. CASE PlayOver
  BY <1>6 DEF PlayOver, NoOpts, cloudVars, slurmVars, siteVarsAll
<1> QED BY <1>1, <1>2, <1>3, <1>4, <1>5, <1>6 DEF Play, PlayEnd, LoopFails, PlayAbort

(* A step of slurmctld, the RebootProgram or a node keeps it.              *)
LEMMA SlurmType == ASSUME TypeOK, Slurm PROVE TypeOK'
<1> USE ImageMapsType DEF TypeOK, slurmVars, siteVarsAll, playVars
<1>1. ASSUME NEW j \in Jobs, JobStart(j) PROVE TypeOK'
  <2>1. PICK S \in SUBSET Nodes : alloc' = [alloc EXCEPT ![j] = S]
    BY <1>1, PartitionsAssumption DEF JobStart
  <2> QED BY <1>1, <2>1 DEF JobStart, cloudVars
<1>2. ASSUME NEW j \in Jobs, JobFinish(j) PROVE TypeOK'
  BY <1>2 DEF JobFinish, cloudVars
<1>3. ASSUME NEW n \in Nodes, RebootIssue(n) PROVE TypeOK'
  BY <1>3 DEF RebootIssue
<1>4. ASSUME NEW n \in Nodes, RebootProgram(n) PROVE TypeOK'
  BY <1>4 DEF RebootProgram
<1>5. ASSUME NEW n \in Nodes, RebootProgramFail(n) PROVE TypeOK'
  BY <1>5 DEF RebootProgramFail
<1>6. ASSUME NEW n \in Nodes, Boot(n) PROVE TypeOK'
  <2>1. boot' \in [Nodes -> {"up", "program", "booting", "slurmd", "noslurmd"}]
    <3>1. PICK b \in {"slurmd", "noslurmd"} : boot' = [boot EXCEPT ![n] = b]
      BY <1>6 DEF Boot
    <3> QED BY <3>1
  <2> QED BY <1>6, <2>1 DEF Boot
<1>7. ASSUME NEW n \in Nodes, Register(n) PROVE TypeOK'
  BY <1>7 DEF Register
<1>8. ASSUME NEW n \in Nodes, RebootTimeout(n) PROVE TypeOK'
  BY <1>8 DEF RebootTimeout, cloudVars
<1>9. ASSUME NEW n \in Nodes, LateRegister(n) PROVE TypeOK'
  BY <1>9 DEF LateRegister
<1>10. ASSUME NEW n \in Nodes, OperatorResume(n) PROVE TypeOK'
  BY <1>10 DEF OperatorResume, cloudVars
<1> QED
  BY <1>1, <1>2, <1>3, <1>4, <1>5, <1>6, <1>7, <1>8, <1>9, <1>10 DEF Slurm

LEMMA TofuType == ASSUME TypeOK, TofuApply PROVE TypeOK'
BY ImageMapsType DEF TypeOK, TofuApply, NoVars, cloudVars, slurmVars, playVars

LEMMA NextType == TypeOK /\ [Next]_vars => TypeOK'
<1> SUFFICES ASSUME TypeOK, [Next]_vars PROVE TypeOK'
  OBVIOUS
<1>1. CASE UNCHANGED vars
  BY <1>1 DEF TypeOK, vars
<1> QED BY <1>1, SiteType, PlayType, SlurmType, TofuType DEF Next

LEMMA InitType == Init => TypeOK
<1> SUFFICES ASSUME Init PROVE TypeOK
  OBVIOUS
<1>1. wanted \in ImageMaps /\ wanted \in [Nodes -> Images]
  BY ImageMapsType DEF Init
<1>2. opts \in [dryrun : BOOLEAN, next : NextStates \cup {""}]
  BY DEF Init, NoOpts
<1> QED BY <1>1, <1>2 DEF Init, TypeOK

(* Every variable of the model keeps its type, in every run.               *)
THEOREM TypeCorrect == Spec => []TypeOK
BY InitType, NextType, PTL DEF Spec

-----------------------------------------------------------------------------
(* site.yml: what it exports is what the inventory asks for.               *)
LEMMA SiteExported == ASSUME TypeOK, ExportedCurrent, Site PROVE ExportedCurrent'
<1> USE DEF ExportedCurrent
<1>1. UNCHANGED wanted
  BY DEF Site, SiteStart, SiteSlurm, SiteEnd, SiteAbort, SiteExport
<1>2. CASE SiteStart
  BY <1>1, <1>2 DEF SiteStart
<1>3. CASE SiteSlurm
  BY <1>1, <1>3 DEF SiteSlurm
<1>4. CASE SiteEnd
  <2>1. \A n \in Nodes : rebootVars[n] = wanted[n]
    BY <1>4 DEF SiteEnd
  <2>2. rebootVars \in [Nodes -> Images \cup {NoImage}] /\ wanted \in [Nodes -> Images]
    BY ImageMapsType DEF TypeOK
  <2>3. rebootVars = wanted
    BY <2>1, <2>2
  <2> QED BY <1>1, <1>4, <2>3 DEF SiteEnd
<1>5. CASE SiteAbort
  BY <1>1, <1>5 DEF SiteAbort
<1>6. ASSUME NEW n \in Nodes, SiteExport(n) PROVE ExportedCurrent'
  <2>1. siteVars = wanted /\ sitePc' = "export" /\ siteDone' = siteDone
    BY <1>6 DEF SiteExport
  <2>2. rebootVars' = [rebootVars EXCEPT ![n] = wanted[n]]
    BY <1>6, <2>1 DEF SiteExport
  <2>3. siteDone => rebootVars' = wanted
    BY <2>2, ImageMapsType DEF TypeOK
  <2>4. \A m \in Nodes \ siteTodo' : rebootVars'[m] = wanted[m]
    BY <1>6, <2>2 DEF SiteExport, TypeOK
  <2> QED BY <1>1, <1>6, <2>1, <2>3, <2>4 DEF SiteExport
<1> QED BY <1>2, <1>3, <1>4, <1>5, <1>6 DEF Site

(* tofu apply may lose what was exported, and then none counts as complete;*)
(* nobody else writes it.                                                  *)
LEMMA ExportedStep == TypeOK /\ ExportedCurrent /\ [Next]_vars => ExportedCurrent'
<1> SUFFICES ASSUME TypeOK, ExportedCurrent, [Next]_vars PROVE ExportedCurrent'
  OBVIOUS
<1>1. CASE TofuApply
  BY <1>1 DEF TofuApply, ExportedCurrent
<1>2. CASE UNCHANGED <<wanted, rebootVars, sitePc, siteVars, siteTodo, siteDone>>
  BY <1>2 DEF ExportedCurrent
<1> QED
  BY <1>1, <1>2, SiteExported
  DEF Next, vars, Play, PlayStart, GetTargets, DrainBatch, DrainEnd, RequestBatch, PlayEnd,
      LoopFails, PlayAbort, PlayOver, Slurm, JobStart, JobFinish, RebootIssue, RebootProgram,
      RebootProgramFail, Boot, Register, RebootTimeout, LateRegister, OperatorResume,
      siteVarsAll

-----------------------------------------------------------------------------
(* The inductive invariant.                                                *)

IInv ==
    /\ TypeOK
    /\ VarsCurrent
    /\ RestartsAccounted
    /\ DrainProgress
    /\ ServingUniform
    /\ RollingPartition
    /\ NoMixedJob
    /\ NoJobOnRestartingNode

(* A step in which every node that serves afterwards has kept its image,   *)
(* and served before or joins nodes that are all on the wanted image.      *)
ServiceStep ==
    \A n \in Nodes :
        Serving(n)' => image'[n] = image[n] /\ (Serving(n) \/ OnWanted(n))

LEMMA UniformStep ==
  ASSUME wanted \in ImageMaps, ServingUniform, ServiceStep
  PROVE  ServingUniform'
<1> SUFFICES ASSUME NEW P \in Partitions, NEW m \in P, NEW n \in P,
                    Serving(m)', Serving(n)'
             PROVE  image'[m] = image'[n]
  BY DEF ServingUniform
<1>1. m \in Nodes /\ n \in Nodes
  BY PartitionsAssumption
<1>2. image'[m] = image[m] /\ image'[n] = image[n]
  BY <1>1 DEF ServiceStep
<1>3. wanted[m] = wanted[n]
  BY DEF ImageMaps
<1>4. CASE Serving(m) /\ Serving(n)
  BY <1>2, <1>4 DEF ServingUniform
<1>5. CASE OnWanted(m)
  BY <1>1, <1>2, <1>3, <1>5 DEF ServiceStep, OnWanted
<1>6. CASE OnWanted(n)
  BY <1>1, <1>2, <1>3, <1>6 DEF ServiceStep, OnWanted
<1> QED BY <1>1, <1>4, <1>5, <1>6 DEF ServiceStep

LEMMA RollingStep ==
  ASSUME RollingPartition, ServiceStep, wanted' = wanted,
         \A n \in Nodes : reboot'[n] # "none" => reboot[n] # "none"
  PROVE  RollingPartition'
<1> SUFFICES ASSUME NEW P \in Partitions, NEW k \in P, reboot'[k] # "none",
                    NEW n \in P, Serving(n)'
             PROVE  image'[n] = wanted'[n]
  BY DEF RollingPartition
<1>1. k \in Nodes /\ n \in Nodes
  BY PartitionsAssumption
<1>2. image'[n] = image[n] /\ (Serving(n) \/ OnWanted(n))
  BY <1>1 DEF ServiceStep
<1>3. Serving(n) => image[n] = wanted[n]
  BY <1>1 DEF RollingPartition
<1> QED BY <1>2, <1>3 DEF OnWanted

LEMMA DrainStep ==
  ASSUME TypeOK, DrainProgress, ServiceStep,
         UNCHANGED <<wanted, pc, opts, rebuildNodes, todo, itemFailed>>
  PROVE  DrainProgress'
<1> SUFFICES ASSUME ~opts.dryrun, NEW n \in rebuildNodes, Serving(n)',
                    (pc = "drain" /\ ~itemFailed /\ n \notin todo) \/ pc = "request"
             PROVE  image'[n] = wanted[n]
  BY DEF DrainProgress
<1>1. n \in Nodes
  BY NodeSetsAssumption DEF TypeOK
<1> QED BY <1>1 DEF DrainProgress, ServiceStep, OnWanted

(* A step that keeps jobs where they are, or ends them, and neither        *)
(* rebuilds nor restarts a node that has one.                              *)
LEMMA JobsStep ==
  ASSUME NoMixedJob, NoJobOnRestartingNode,
         \A j \in Jobs : alloc'[j] \subseteq alloc[j],
         \A j \in Jobs : \A n \in alloc[j] : image'[n] = image[n] /\ boot'[n] = boot[n]
  PROVE  NoMixedJob' /\ NoJobOnRestartingNode'
<1>1. ASSUME NEW j \in Jobs, NEW m \in alloc'[j], NEW n \in alloc'[j]
      PROVE  image'[m] = image'[n] /\ boot'[n] = "up"
  <2>1. m \in alloc[j] /\ n \in alloc[j]
    BY <1>1
  <2>2. image'[m] = image[m] /\ image'[n] = image[n] /\ boot'[n] = boot[n]
    BY <2>1
  <2> QED BY <2>1, <2>2 DEF NoMixedJob, NoJobOnRestartingNode
<1> QED BY <1>1 DEF NoMixedJob, NoJobOnRestartingNode

(* A step of a playbook that touches neither the nodes nor slurmctld.      *)
LEMMA QuietStep ==
  ASSUME IInv, UNCHANGED <<wanted, image, boot, drain, down, reboot, alloc>>
  PROVE  /\ RestartsAccounted' /\ ServingUniform' /\ RollingPartition'
         /\ NoMixedJob' /\ NoJobOnRestartingNode'
<1>1. ServiceStep
  BY DEF ServiceStep, Serving
<1>2. RestartsAccounted'
  BY DEF IInv, RestartsAccounted, Serving
<1> QED BY <1>1, <1>2, UniformStep, RollingStep, JobsStep DEF IInv, TypeOK

(* site.yml leaves the nodes and slurmctld's view of them alone.           *)
LEMMA SiteInv == ASSUME IInv, Site PROVE IInv'
<1>1. TypeOK'
  BY SiteType DEF IInv
<1>2. UNCHANGED <<wanted, image, boot, drain, down, reboot, alloc>>
  BY DEF Site, SiteStart, SiteSlurm, SiteEnd, SiteAbort, SiteExport, cloudVars, slurmVars
<1>3. UNCHANGED <<pc, opts, hostvars, rebuildNodes, todo, itemFailed>>
  BY DEF Site, SiteStart, SiteSlurm, SiteEnd, SiteAbort, SiteExport, playVars
<1>4. DrainProgress'
  BY <1>2, <1>3, DrainStep DEF IInv, ServiceStep, Serving
<1>5. Outstanding' => Outstanding
  BY <1>2 DEF Outstanding
<1>6. VarsCurrent'
  <2>1. ExportedCurrent'
    BY SiteExported DEF IInv, VarsCurrent
  <2>2. siteDone => siteDone'
    BY DEF Site, SiteStart, SiteSlurm, SiteEnd, SiteAbort, SiteExport
  <2> QED BY <1>2, <1>3, <1>5, <2>1, <2>2 DEF IInv, VarsCurrent
<1> QED BY <1>1, <1>2, <1>4, <1>6, QuietStep DEF IInv

(* tofu apply changes the wanted images while nothing is under way.        *)
LEMMA TofuInv == ASSUME ~Overlap, IInv, TofuApply PROVE IInv'
<1> USE DEF IInv
<1>1. TypeOK'
  BY TofuType
<1>2. /\ UNCHANGED <<image, boot, drain, down, reboot, alloc, sitePc, siteTodo>>
      /\ UNCHANGED <<pc, opts, hostvars, rebuildNodes, todo, itemFailed>>
      /\ pc = "idle" /\ sitePc = "idle" /\ ~Outstanding /\ siteDone' = FALSE
  BY DEF TofuApply, cloudVars, slurmVars, playVars
<1>3. ~Outstanding'
  BY <1>2 DEF Outstanding
<1>4. VarsCurrent'
  BY <1>2, <1>3 DEF VarsCurrent, ExportedCurrent
<1>5. RestartsAccounted'
  BY <1>2 DEF RestartsAccounted, Outstanding, Serving
<1>6. DrainProgress'
  BY <1>2 DEF DrainProgress
<1>7. ServingUniform'
  BY <1>2 DEF ServingUniform, Serving
<1>8. RollingPartition'
  BY <1>2, PartitionsAssumption DEF RollingPartition, Outstanding
<1>9. NoMixedJob' /\ NoJobOnRestartingNode'
  BY <1>2, JobsStep
<1> QED BY <1>1, <1>4, <1>5, <1>6, <1>7, <1>8, <1>9

(* The tasks of the play that issue no scontrol command.                   *)
LEMMA PlayQuietInv ==
  ASSUME IInv, PlayStart \/ GetTargets \/ DrainEnd \/ PlayOver
  PROVE  IInv'
<1> USE DEF IInv
<1>1. TypeOK'
  <2>1. CASE PlayStart \/ GetTargets \/ DrainEnd
    BY <2>1, PlayType DEF Play
  <2>2. CASE PlayOver
    BY <2>2 DEF PlayOver, TypeOK, NoOpts, cloudVars, slurmVars, siteVarsAll
  <2> QED BY <2>1, <2>2
<1>2. /\ UNCHANGED <<wanted, image, boot, drain, down, reboot, alloc, rebootVars>>
      /\ UNCHANGED <<sitePc, siteVars, siteTodo, siteDone>>
  BY DEF PlayStart, GetTargets, DrainEnd, PlayOver, cloudVars, slurmVars, siteVarsAll
<1>3. Outstanding' => Outstanding
  BY <1>2 DEF Outstanding
<1>4. VarsCurrent'
  BY <1>2, <1>3
  DEF VarsCurrent, ExportedCurrent, PlayStart, GetTargets, DrainEnd, PlayOver, TypeOK
<1>5. \A n \in Nodes : Serving(n)' = Serving(n)
  BY <1>2 DEF Serving
<1>6. DrainProgress'
  <2>1. CASE PlayStart
    BY <2>1 DEF PlayStart, DrainProgress
  <2>2. CASE GetTargets
    <3>1. hostvars = wanted /\ rebuildNodes' = rebuildNodes /\ pc' = "drain"
      BY <2>2 DEF GetTargets, VarsCurrent
    <3>2. todo' = {n \in rebuildNodes : image[n] # wanted[n]}
      BY <2>2, <3>1 DEF GetTargets
    <3> QED BY <1>2, <3>1, <3>2 DEF DrainProgress
  <2>3. CASE DrainEnd
    <3>1. /\ pc = "drain" /\ todo = {} /\ ~itemFailed /\ pc' = "request"
          /\ UNCHANGED <<opts, rebuildNodes>>
      BY <2>3 DEF DrainEnd
    <3>2. ~opts.dryrun => \A n \in rebuildNodes : Serving(n) => image[n] = wanted[n]
      BY <3>1 DEF DrainProgress
    <3>3. rebuildNodes \subseteq Nodes
      BY NodeSetsAssumption DEF TypeOK
    <3> QED BY <1>2, <1>5, <3>1, <3>2, <3>3 DEF DrainProgress
  <2>4. CASE PlayOver
    BY <2>4 DEF PlayOver, DrainProgress
  <2> QED BY <2>1, <2>2, <2>3, <2>4
<1> QED BY <1>1, <1>2, <1>4, <1>6, QuietStep

(* Draining only takes nodes out of service, and takes the batch out       *)
(* unless its command fails.                                               *)
LEMMA DrainBatchInv == ASSUME IInv, DrainBatch PROVE IInv'
<1> USE DEF IInv
<1>1. TypeOK'
  BY PlayType DEF Play
<1>2. /\ UNCHANGED <<wanted, image, boot, down, reboot, alloc, rebootVars, opts>>
      /\ UNCHANGED <<sitePc, siteVars, siteTodo, siteDone, pc, hostvars, rebuildNodes>>
      /\ pc = "drain" /\ drain \subseteq drain'
      /\ todo' = todo \ NextBatch(todo)
      /\ ~opts.dryrun /\ ~itemFailed' => NextBatch(todo) \subseteq drain'
      /\ itemFailed => itemFailed'
  BY DEF DrainBatch, CommandFails, cloudVars, siteVarsAll
<1>3. ServiceStep
  BY <1>2 DEF ServiceStep, Serving
<1>4. VarsCurrent'
  BY <1>2 DEF VarsCurrent, ExportedCurrent, Outstanding
<1>5. RestartsAccounted'
  BY <1>2 DEF RestartsAccounted, Serving
<1>6. DrainProgress'
  <2> SUFFICES ASSUME ~opts.dryrun, ~itemFailed', NEW n \in rebuildNodes, n \notin todo', Serving(n)'
               PROVE  image[n] = wanted[n]
    BY <1>2 DEF DrainProgress
  <2>1. n \notin todo /\ Serving(n)
    BY <1>2 DEF Serving
  <2> QED BY <1>2, <2>1 DEF DrainProgress
<1>7. ServingUniform' /\ RollingPartition'
  BY <1>2, <1>3, UniformStep, RollingStep DEF TypeOK
<1>8. NoMixedJob' /\ NoJobOnRestartingNode'
  BY <1>2, JobsStep
<1> QED BY <1>1, <1>4, <1>5, <1>6, <1>7, <1>8

(* Reboots are requested only once the drain loop is over, so every        *)
(* partition a request reaches serves the wanted image alone.              *)
LEMMA RequestBatchInv == ASSUME IInv, RequestBatch PROVE IInv'
<1> USE DEF IInv
<1>1. TypeOK'
  BY PlayType DEF Play
<1>2. /\ UNCHANGED <<wanted, image, boot, drain, down, alloc, rebootVars, opts>>
      /\ UNCHANGED <<sitePc, siteVars, siteTodo, siteDone, pc, hostvars, rebuildNodes>>
      /\ pc = "request"
  BY DEF RequestBatch, cloudVars, siteVarsAll
<1>0. PICK new \in SUBSET NextBatch(todo) :
        /\ opts.dryrun => new = {}
        /\ reboot' = [n \in Nodes |-> IF n \in new THEN "requested" ELSE reboot[n]]
  <2> DEFINE batch == IF opts.dryrun THEN {} ELSE {n \in NextBatch(todo) : reboot[n] = "none"}
  <2>1. CASE reboot' = reboot
    <3> WITNESS {} \in SUBSET NextBatch(todo)
    <3> QED BY <2>1 DEF TypeOK
  <2>2. CASE reboot' = [n \in Nodes |-> IF n \in batch THEN "requested" ELSE reboot[n]]
    <3>1. batch \in SUBSET NextBatch(todo) /\ (opts.dryrun => batch = {})
      OBVIOUS
    <3> HIDE DEF batch
    <3> QED BY <2>2, <3>1
  <2> QED BY <2>1, <2>2 DEF RequestBatch
<1>3. \A n \in Nodes : reboot'[n] # "none" => n \in new \/ reboot[n] # "none"
  BY <1>0
<1>4. \A n \in Nodes : Serving(n)' => Serving(n)
  BY <1>0, <1>2 DEF Serving, TypeOK
<1>5. ServiceStep
  BY <1>2, <1>4 DEF ServiceStep
<1>6. VarsCurrent'
  BY <1>2 DEF VarsCurrent, ExportedCurrent
<1>7. RestartsAccounted'
  BY <1>0, <1>2, <1>4 DEF RestartsAccounted
<1>8. rebuildNodes \subseteq Nodes
  BY NodeSetsAssumption DEF TypeOK
<1>9. DrainProgress'
  BY <1>2, <1>4, <1>8 DEF DrainProgress
<1>10. RollingPartition'
  <2> SUFFICES ASSUME NEW P \in Partitions, NEW k \in P, reboot'[k] # "none",
                      NEW n \in P, Serving(n)'
               PROVE  image[n] = wanted[n]
    BY <1>2 DEF RollingPartition
  <2>1. k \in Nodes /\ n \in Nodes /\ Serving(n)
    BY <1>4, PartitionsAssumption
  <2>2. CASE reboot[k] # "none"
    BY <2>1, <2>2 DEF RollingPartition
  <2>3. CASE k \in new
    <3>1. k \in rebuildNodes /\ ~opts.dryrun
      BY <1>0, <2>3, NextBatchSubset DEF TypeOK
    <3>2. rebuildNodes \in NodeSets /\ k \in P \cap rebuildNodes
      BY <3>1 DEF TypeOK
    <3>3. P \subseteq rebuildNodes
      BY <3>2, NodeSetsAssumption
    <3> QED BY <1>2, <2>1, <3>1, <3>3 DEF DrainProgress
  <2> QED BY <1>3, <2>1, <2>2, <2>3
<1>11. ServingUniform'
  BY <1>5, UniformStep DEF TypeOK
<1>12. NoMixedJob' /\ NoJobOnRestartingNode'
  BY <1>2, JobsStep
<1> QED BY <1>1, <1>6, <1>7, <1>9, <1>10, <1>11, <1>12

LEMMA PlayInv == ASSUME IInv, Play PROVE IInv'
BY PlayQuietInv, DrainBatchInv, RequestBatchInv DEF Play, PlayEnd, LoopFails, PlayAbort

-----------------------------------------------------------------------------
(* slurmctld, the RebootProgram and the nodes leave the playbooks alone:   *)
(* what is left to show of a step that keeps the wanted images.            *)
LEMMA SlurmStep ==
  ASSUME IInv, TypeOK', ServiceStep, RestartsAccounted',
         UNCHANGED <<wanted, rebootVars, siteVarsAll, playVars>>,
         Outstanding' => Outstanding,
         \A n \in Nodes : reboot'[n] # "none" => reboot[n] # "none",
         NoMixedJob', NoJobOnRestartingNode'
  PROVE  IInv'
<1> USE DEF IInv, siteVarsAll, playVars
<1>1. VarsCurrent'
  BY DEF VarsCurrent, ExportedCurrent
<1>2. DrainProgress'
  BY DrainStep
<1>3. ServingUniform' /\ RollingPartition'
  BY UniformStep, RollingStep DEF TypeOK
<1> QED BY <1>1, <1>2, <1>3

(* The types a node's step depends on.                                     *)
LEMMA NodeTypes ==
  ASSUME TypeOK
  PROVE  /\ wanted \in [Nodes -> Images] /\ image \in [Nodes -> Images]
         /\ boot \in [Nodes -> {"up", "program", "booting", "slurmd", "noslurmd"}]
         /\ reboot \in [Nodes -> {"none", "requested", "issued"}]
         /\ alloc \in [Jobs -> SUBSET Nodes]
BY ImageMapsType DEF TypeOK

LEMMA JobInv ==
  ASSUME IInv, NEW j \in Jobs, JobStart(j) \/ JobFinish(j)
  PROVE  IInv'
<1> USE DEF IInv
<1>1. TypeOK'
  BY SlurmType DEF Slurm
<1>2. /\ UNCHANGED <<wanted, image, boot, drain, down, reboot, rebootVars>>
      /\ UNCHANGED <<siteVarsAll, playVars>>
  BY DEF JobStart, JobFinish, cloudVars, slurmVars
<1>3. ServiceStep
  BY <1>2 DEF ServiceStep, Serving
<1>4. RestartsAccounted'
  BY <1>2 DEF RestartsAccounted, Serving
<1>5. NoMixedJob' /\ NoJobOnRestartingNode'
  <2>1. CASE JobFinish(j)
    <3>1. \A k \in Jobs : alloc'[k] \subseteq alloc[k]
      BY <2>1, NodeTypes DEF JobFinish
    <3> QED BY <1>2, <3>1, JobsStep
  <2>2. CASE JobStart(j)
    <3>0. PICK P \in Partitions :
            \E S \in SUBSET P : /\ \A n \in S : Serving(n)
                               /\ alloc' = [alloc EXCEPT ![j] = S]
      BY <2>2 DEF JobStart
    <3>1. PICK S \in SUBSET P : /\ \A n \in S : Serving(n)
                               /\ alloc' = [alloc EXCEPT ![j] = S]
      BY <3>0
    <3>2. \A m, n \in S : image[m] = image[n] /\ boot[n] = "up"
      BY <3>1, PartitionsAssumption DEF ServingUniform, RestartsAccounted
    <3>3. \A k \in Jobs : alloc'[k] = IF k = j THEN S ELSE alloc[k]
      BY <3>1, NodeTypes
    <3> QED BY <1>2, <3>2, <3>3 DEF NoMixedJob, NoJobOnRestartingNode
  <2> QED BY <2>1, <2>2
<1>6. Outstanding' => Outstanding
  BY <1>2 DEF Outstanding
<1> QED BY <1>1, <1>2, <1>3, <1>4, <1>5, <1>6, SlurmStep

LEMMA RebootIssueInv == ASSUME IInv, NEW n \in Nodes, RebootIssue(n) PROVE IInv'
<1> USE DEF IInv
<1>1. TypeOK'
  BY SlurmType DEF Slurm
<1>2. /\ UNCHANGED <<wanted, image, drain, down, alloc, rebootVars, siteVarsAll, playVars>>
      /\ reboot[n] = "requested" /\ Idle(n)
      /\ reboot' = [reboot EXCEPT ![n] = "issued"]
      /\ boot' = [boot EXCEPT ![n] = "program"]
  BY DEF RebootIssue
<1>3. \A m \in Nodes : /\ reboot'[m] # "none" => reboot[m] # "none"
                       /\ Serving(m)' => m # n /\ Serving(m)
  BY <1>2, NodeTypes DEF Serving
<1>4. ServiceStep
  BY <1>2, <1>3 DEF ServiceStep
<1>5. RestartsAccounted'
  BY <1>2, <1>3, NodeTypes DEF RestartsAccounted
<1>6. Outstanding
  BY <1>2 DEF Outstanding
<1>7. NoMixedJob' /\ NoJobOnRestartingNode'
  <2>1. \A j \in Jobs : \A m \in alloc[j] : m \in Nodes /\ m # n
    BY <1>2, NodeTypes DEF Idle
  <2>2. \A j \in Jobs : \A m \in alloc[j] : boot'[m] = boot[m]
    BY <1>2, <2>1, NodeTypes
  <2> QED BY <1>2, <2>2, JobsStep
<1> QED BY <1>1, <1>2, <1>3, <1>4, <1>5, <1>6, <1>7, SlurmStep

(* A rebuild reaches the wanted image: reboot_vars are current as long as  *)
(* a RebootProgram may run.                                                *)
LEMMA RebootProgramImage ==
  ASSUME IInv, NEW n \in Nodes, RebootProgram(n)
  PROVE  image' = [image EXCEPT ![n] = wanted[n]]
BY DEF IInv, RebootProgram, VarsCurrent, ExportedCurrent, Outstanding

LEMMA RebootProgramInv == ASSUME IInv, NEW n \in Nodes, RebootProgram(n) PROVE IInv'
<1> USE DEF IInv
<1>1. TypeOK'
  BY SlurmType DEF Slurm
<1>2. /\ UNCHANGED <<wanted, drain, down, reboot, alloc, rebootVars, siteVarsAll, playVars>>
      /\ boot[n] = "program"
      /\ boot' = [boot EXCEPT ![n] = "booting"]
      /\ image' = [image EXCEPT ![n] = wanted[n]]
  BY RebootProgramImage DEF RebootProgram, slurmVars
<1>3. \A m \in Nodes : Serving(m)' => m # n /\ Serving(m)
  BY <1>2 DEF Serving, RestartsAccounted
<1>4. ServiceStep
  BY <1>2, <1>3, NodeTypes DEF ServiceStep
<1>5. RestartsAccounted'
  BY <1>2, <1>3, NodeTypes DEF RestartsAccounted
<1>6. Outstanding
  BY <1>2 DEF Outstanding
<1>7. NoMixedJob' /\ NoJobOnRestartingNode'
  <2>1. \A j \in Jobs : \A m \in alloc[j] : m \in Nodes /\ m # n
    BY <1>2, NodeTypes DEF NoJobOnRestartingNode
  <2>2. \A j \in Jobs : \A m \in alloc[j] : image'[m] = image[m] /\ boot'[m] = boot[m]
    BY <1>2, <2>1, NodeTypes
  <2> QED BY <1>2, <2>2, JobsStep
<1> QED BY <1>1, <1>2, <1>4, <1>5, <1>6, <1>7, SlurmStep

(* The steps of a restart that slurmctld does not see.                     *)
LEMMA BootInv ==
  ASSUME IInv, NEW n \in Nodes, RebootProgramFail(n) \/ Boot(n) \/ LateRegister(n)
  PROVE  IInv'
<1> USE DEF IInv
<1>1. TypeOK'
  BY SlurmType DEF Slurm
<1>2. /\ UNCHANGED <<wanted, image, drain, down, reboot, alloc, rebootVars, siteVarsAll, playVars>>
      /\ boot[n] # "up"
      /\ \/ boot' = [boot EXCEPT ![n] = "up"]
         \/ boot[n] = "booting" /\ boot' = [boot EXCEPT ![n] = "slurmd"]
         \/ boot' = [boot EXCEPT ![n] = "noslurmd"]
  BY DEF RebootProgramFail, Boot, LateRegister, slurmVars
<1>3. \A m \in Nodes : Serving(m)' => m # n /\ Serving(m)
  BY <1>2 DEF Serving, RestartsAccounted
<1>4. ServiceStep
  BY <1>2, <1>3 DEF ServiceStep
<1>5. RestartsAccounted'
  BY <1>2, <1>3, NodeTypes DEF RestartsAccounted
<1>6. Outstanding' => Outstanding
  BY <1>2, NodeTypes DEF Outstanding
<1>7. NoMixedJob' /\ NoJobOnRestartingNode'
  <2>1. \A j \in Jobs : \A m \in alloc[j] : m \in Nodes /\ m # n
    BY <1>2, NodeTypes DEF NoJobOnRestartingNode
  <2>2. \A j \in Jobs : \A m \in alloc[j] : boot'[m] = boot[m]
    BY <1>2, <2>1, NodeTypes
  <2> QED BY <1>2, <2>2, JobsStep
<1> QED BY <1>1, <1>2, <1>4, <1>5, <1>6, <1>7, SlurmStep

(* A node that registers in time is on the wanted image, and so is every   *)
(* node that serves with it.                                               *)
LEMMA RegisterInv == ASSUME IInv, NEW n \in Nodes, Register(n) PROVE IInv'
<1> USE DEF IInv
<1>1. TypeOK'
  BY SlurmType DEF Slurm
<1>2. /\ UNCHANGED <<wanted, image, alloc, rebootVars, siteVarsAll, playVars>>
      /\ boot[n] = "slurmd" /\ reboot[n] = "issued"
      /\ boot' = [boot EXCEPT ![n] = "up"]
      /\ reboot' = [reboot EXCEPT ![n] = "none"]
      /\ drain \subseteq drain' \cup {n} /\ down \subseteq down' \cup {n}
  BY DEF Register
<1>3. OnWanted(n)
  BY <1>2 DEF OnWanted, RestartsAccounted, RollingPartition
<1>4. \A m \in Nodes : /\ reboot'[m] # "none" => reboot[m] # "none"
                       /\ Serving(m)' => m = n \/ Serving(m)
  BY <1>2, NodeTypes DEF Serving
<1>5. ServiceStep
  BY <1>2, <1>3, <1>4 DEF ServiceStep
<1>6. RestartsAccounted'
  BY <1>2, <1>4, NodeTypes DEF RestartsAccounted
<1>7. Outstanding
  BY <1>2 DEF Outstanding
<1>8. NoMixedJob' /\ NoJobOnRestartingNode'
  <2>1. \A j \in Jobs : \A m \in alloc[j] : m \in Nodes /\ m # n
    BY <1>2, NodeTypes DEF NoJobOnRestartingNode
  <2>2. \A j \in Jobs : \A m \in alloc[j] : boot'[m] = boot[m]
    BY <1>2, <2>1, NodeTypes
  <2> QED BY <1>2, <2>2, JobsStep
<1> QED BY <1>1, <1>2, <1>4, <1>5, <1>6, <1>7, <1>8, SlurmStep

(* A node slurmctld gives up on does not serve; one an operator resumes    *)
(* has been seen to be up on the wanted image.                             *)
LEMMA SettleInv ==
  ASSUME IInv, NEW n \in Nodes, RebootTimeout(n) \/ OperatorResume(n)
  PROVE  IInv'
<1> USE DEF IInv
<1>1. TypeOK'
  BY SlurmType DEF Slurm
<1>2. UNCHANGED <<wanted, image, boot, alloc, rebootVars, siteVarsAll, playVars>>
  BY DEF RebootTimeout, OperatorResume, cloudVars
<1>3. /\ \A m \in Nodes : reboot'[m] # "none" => reboot[m] # "none"
      /\ \A m \in Nodes : reboot'[m] = "issued" => reboot[m] = "issued"
      /\ \A m \in Nodes : Serving(m)' => Serving(m) \/ (m = n /\ OnWanted(n) /\ boot[n] = "up")
  <2>1. CASE RebootTimeout(n)
    <3>1. /\ reboot' = [reboot EXCEPT ![n] = "none"]
          /\ drain' = drain /\ down' = down \cup {n}
      BY <2>1 DEF RebootTimeout
    <3>2. \A m \in Nodes : reboot'[m] = IF m = n THEN "none" ELSE reboot[m]
      BY <3>1, NodeTypes
    <3>3. \A m \in Nodes : Serving(m)' => Serving(m)
      BY <3>1, <3>2 DEF Serving
    <3> QED BY <3>2, <3>3
  <2>2. CASE OperatorResume(n)
    BY <2>2 DEF OperatorResume, Serving
  <2> QED BY <2>1, <2>2
<1>4. ServiceStep
  BY <1>2, <1>3 DEF ServiceStep
<1>5. RestartsAccounted'
  BY <1>2, <1>3 DEF RestartsAccounted
<1>6. Outstanding' => Outstanding
  BY <1>2, <1>3 DEF Outstanding
<1>7. NoMixedJob' /\ NoJobOnRestartingNode'
  BY <1>2, JobsStep
<1> QED BY <1>1, <1>2, <1>3, <1>4, <1>5, <1>6, <1>7, SlurmStep

-----------------------------------------------------------------------------

LEMMA InitInv == Init => IInv
<1> SUFFICES ASSUME Init PROVE IInv
  OBVIOUS
<1>1. TypeOK
  BY InitType
<1>2. ServingUniform
  BY DEF Init, ServingUniform, ImageMaps
<1>3. VarsCurrent /\ RestartsAccounted /\ DrainProgress
  BY DEF Init, VarsCurrent, ExportedCurrent, Outstanding, RestartsAccounted, DrainProgress
<1>4. RollingPartition /\ NoMixedJob /\ NoJobOnRestartingNode
  BY PartitionsAssumption DEF Init, RollingPartition, NoMixedJob, NoJobOnRestartingNode
<1> QED BY <1>1, <1>2, <1>3, <1>4 DEF IInv

LEMMA NextInv == ASSUME ~Overlap PROVE IInv /\ [Next]_vars => IInv'
<1> SUFFICES ASSUME IInv, [Next]_vars PROVE IInv'
  OBVIOUS
<1>1. CASE UNCHANGED vars
  <2>1. TypeOK' /\ DrainProgress' /\ VarsCurrent'
    <3>1. TypeOK'
      BY <1>1 DEF IInv, vars, TypeOK
    <3>2. DrainProgress'
      BY <1>1 DEF IInv, vars, DrainProgress, Serving
    <3>3. VarsCurrent'
      BY <1>1 DEF IInv, vars, VarsCurrent, ExportedCurrent, Outstanding
    <3> QED BY <3>1, <3>2, <3>3
  <2> QED BY <1>1, <2>1, QuietStep DEF IInv, vars
<1>2. CASE Slurm
  BY <1>2, JobInv, RebootIssueInv, RebootProgramInv, BootInv, RegisterInv, SettleInv
  DEF Slurm
<1> QED BY <1>1, <1>2, TofuInv, SiteInv, PlayInv DEF Next

LEMMA Inductive == ASSUME ~Overlap PROVE Spec => []IInv
BY InitInv, NextInv, PTL DEF Spec

(* As long as tofu apply waits for outstanding reboots, no job ever runs   *)
(* on a mix of images, however many batches the rebuild takes and whatever *)
(* fails on the way.                                                       *)
THEOREM JobsNeverMixed == ASSUME ~Overlap PROVE Spec => []NoMixedJob
<1>1. IInv => NoMixedJob
  BY DEF IInv
<1> QED BY <1>1, Inductive, PTL

(* A node that serves, or runs a job, is not in a restart: what holds of   *)
(* upgrades that overlap, too.                                             *)
RestartInv ==
    /\ \A n \in Nodes : Serving(n) => boot[n] = "up"
    /\ NoJobOnRestartingNode

(* Steps that restart nothing, start no job and resume no node.            *)
LEMMA RestartQuiet ==
  ASSUME RestartInv, boot' = boot, alloc' = alloc,
         drain \subseteq drain', down \subseteq down',
         \A n \in Nodes : reboot'[n] = "none" => reboot[n] = "none"
  PROVE  RestartInv'
<1>1. \A n \in Nodes : Serving(n)' => Serving(n)
  BY DEF Serving
<1> QED BY <1>1 DEF RestartInv, NoJobOnRestartingNode

LEMMA RestartPlaybooks ==
  ASSUME TypeOK, RestartInv, TofuApply \/ Site \/ Play PROVE RestartInv'
<1>1. boot' = boot /\ alloc' = alloc /\ down' = down
  BY DEF TofuApply, Site, SiteStart, SiteSlurm, SiteEnd, SiteAbort, SiteExport, Play, PlayStart,
         GetTargets, DrainBatch, DrainEnd, RequestBatch, PlayEnd, LoopFails, PlayAbort, PlayOver,
         cloudVars, slurmVars
<1>2. drain \subseteq drain'
  BY DEF TofuApply, Site, SiteStart, SiteSlurm, SiteEnd, SiteAbort, SiteExport, Play, PlayStart,
         GetTargets, DrainBatch, DrainEnd, RequestBatch, PlayEnd, LoopFails, PlayAbort, PlayOver,
         slurmVars
<1>3. \A n \in Nodes : reboot'[n] = "none" => reboot[n] = "none"
  <2>1. CASE RequestBatch
    BY <2>1 DEF RequestBatch
  <2>2. CASE reboot' = reboot
    BY <2>2
  <2> QED BY <2>1, <2>2 DEF TofuApply, Site, SiteStart, SiteSlurm, SiteEnd, SiteAbort, SiteExport,
        Play, PlayStart, GetTargets, DrainBatch, DrainEnd, PlayEnd, LoopFails, PlayAbort, PlayOver,
        slurmVars
<1> QED BY <1>1, <1>2, <1>3, RestartQuiet

LEMMA RestartJobs ==
  ASSUME TypeOK, RestartInv, NEW j \in Jobs, JobStart(j) \/ JobFinish(j) PROVE RestartInv'
<1>1. boot' = boot /\ \A n \in Nodes : Serving(n)' <=> Serving(n)
  BY DEF JobStart, JobFinish, cloudVars, slurmVars, Serving
<1>2. \A k \in Jobs : \A n \in alloc'[k] : n \in alloc[k] \/ (n \in Nodes /\ Serving(n))
  <2>1. CASE JobStart(j)
    BY <2>1, PartitionsAssumption DEF JobStart, TypeOK
  <2>2. CASE JobFinish(j)
    BY <2>2 DEF JobFinish, TypeOK
  <2> QED BY <2>1, <2>2
<1> QED BY <1>1, <1>2 DEF RestartInv, NoJobOnRestartingNode

(* One node goes on with its restart, or is resumed when it is up. It is   *)
(* only restarted when idle, and has no job before it is up again.         *)
LEMMA RestartNodes ==
  ASSUME TypeOK, RestartInv, NEW n \in Nodes,
         \/ RebootIssue(n) \/ RebootProgram(n) \/ RebootProgramFail(n) \/ Boot(n)
         \/ Register(n) \/ RebootTimeout(n) \/ LateRegister(n) \/ OperatorResume(n)
  PROVE  RestartInv'
<1>1. alloc' = alloc
  BY DEF RebootIssue, RebootProgram, RebootProgramFail, Boot, Register, RebootTimeout,
         LateRegister, OperatorResume
<1>2. ASSUME NEW m \in Nodes, m # n
      PROVE  boot'[m] = boot[m] /\ (Serving(m)' => Serving(m))
  BY <1>2 DEF TypeOK, Serving, RebootIssue, RebootProgram, RebootProgramFail, Boot, Register,
              RebootTimeout, LateRegister, OperatorResume, slurmVars, cloudVars
<1>3. Serving(n)' => boot'[n] = "up"
  <2>1. CASE RebootIssue(n)
    BY <2>1 DEF TypeOK, RebootIssue, Serving
  <2>2. CASE RebootProgram(n) \/ RebootProgramFail(n) \/ Boot(n)
    BY <2>2 DEF RestartInv, TypeOK, RebootProgram, RebootProgramFail, Boot, Serving, slurmVars
  <2>3. CASE Register(n) \/ LateRegister(n)
    BY <2>3 DEF TypeOK, Register, LateRegister
  <2>4. CASE RebootTimeout(n)
    BY <2>4 DEF RebootTimeout, Serving
  <2>5. CASE OperatorResume(n)
    BY <2>5 DEF OperatorResume, cloudVars
  <2> QED BY <2>1, <2>2, <2>3, <2>4, <2>5
<1>4. boot'[n] = "up" \/ \A j \in Jobs : n \notin alloc[j]
  BY DEF RestartInv, NoJobOnRestartingNode, TypeOK, Idle, RebootIssue, RebootProgram,
         RebootProgramFail, Boot, Register, RebootTimeout, LateRegister, OperatorResume, cloudVars
<1>5. \A j \in Jobs : alloc[j] \subseteq Nodes
  BY DEF TypeOK
<1>6. \A m \in Nodes : Serving(m)' => boot'[m] = "up"
  BY <1>2, <1>3 DEF RestartInv
<1>7. NoJobOnRestartingNode'
  BY <1>1, <1>2, <1>4, <1>5 DEF RestartInv, NoJobOnRestartingNode
<1> QED BY <1>6, <1>7 DEF RestartInv

(* Nor is a node ever restarted under a job, not even by upgrades that     *)
(* overlap.                                                                *)
THEOREM JobsNeverRestarted == Spec => []NoJobOnRestartingNode
<1>1. Init => RestartInv
  BY DEF Init, RestartInv, NoJobOnRestartingNode
<1>2. TypeOK /\ RestartInv /\ [Next]_vars => RestartInv'
  <2> SUFFICES ASSUME TypeOK, RestartInv, [Next]_vars PROVE RestartInv'
    OBVIOUS
  <2>1. CASE TofuApply \/ Site \/ Play
    BY <2>1, RestartPlaybooks
  <2>2. CASE Slurm
    BY <2>2, RestartJobs, RestartNodes DEF Slurm
  <2>3. CASE UNCHANGED vars
    BY <2>3 DEF vars, RestartInv, NoJobOnRestartingNode, Serving
  <2> QED BY <2>1, <2>2, <2>3 DEF Next
<1>3. RestartInv => NoJobOnRestartingNode
  BY DEF RestartInv
<1> QED BY <1>1, <1>2, <1>3, TypeCorrect, PTL DEF Spec

(* If upgrades do not overlap: while a reboot is outstanding, its          *)
(* partition serves the wanted image alone. (If they do, a node may serve  *)
(* on the image of the one before while its neighbour waits for a reboot.) *)
THEOREM PartitionsRoll == ASSUME ~Overlap PROVE Spec => []RollingPartition
<1>1. IInv => RollingPartition
  BY DEF IInv
<1> QED BY <1>1, Inductive, PTL

(* Once site.yml has completed for an inventory, servers are only rebuilt  *)
(* to its images, by whichever upgrade their reboot was requested, also if *)
(* upgrades overlap.                                                       *)
THEOREM RebuildsAreCurrent == Spec => RebuildsReachInventory
<1>1. Init => ExportedCurrent
  BY DEF Init, ExportedCurrent
<1>2. TypeOK /\ ExportedCurrent /\ [Next]_vars
        => [\A n \in Nodes : image'[n] # image[n] /\ siteDone => image'[n] = wanted[n]]_vars
  <2> SUFFICES ASSUME TypeOK, ExportedCurrent, Next, siteDone,
                      NEW n \in Nodes, image'[n] # image[n]
               PROVE  image'[n] = wanted[n]
    OBVIOUS
  <2>1. image' # image
    OBVIOUS
  <2>2. PICK m \in Nodes : RebootProgram(m)
    BY <2>1 DEF Next, TofuApply, Site, SiteStart, SiteSlurm, SiteEnd, SiteAbort, SiteExport,
       Play, PlayStart, GetTargets, DrainBatch, DrainEnd, RequestBatch, PlayEnd, LoopFails,
       PlayAbort, PlayOver, Slurm, JobStart, JobFinish, RebootIssue, RebootProgramFail, Boot,
       Register, RebootTimeout, LateRegister, OperatorResume, cloudVars
  <2>3. image' = [image EXCEPT ![m] = wanted[m]] /\ image \in [Nodes -> Images]
    BY <2>2, NodeTypes DEF RebootProgram, ExportedCurrent
  <2> QED BY <2>3
<1> QED BY <1>1, <1>2, ExportedStep, TypeCorrect, PTL DEF Spec, RebuildsReachInventory

-----------------------------------------------------------------------------
(* SlurmRebuild implements RollingUpgrade.                                 *)

ServingNodes == {n \in Nodes : Serving(n)}

LEMMA InitRefines == Init => Upgrade!Init
<1> SUFFICES ASSUME Init PROVE Upgrade!Init
  OBVIOUS
<1>1. image \in [Nodes -> Images]
  BY ImageMapsType DEF Init
<1>2. {n \in Nodes : Serving(n)} = Nodes
  BY DEF Init, Serving
<1> QED BY <1>1, <1>2 DEF Init, Upgrade!Init

(* A step that takes nodes out of service and does nothing else.           *)
LEMMA LeaveRefines ==
  ASSUME UNCHANGED <<image, alloc>>, ServingNodes' \subseteq ServingNodes
  PROVE  Upgrade!Leave
<1>1. ServingNodes' = ServingNodes \ (ServingNodes \ ServingNodes')
  OBVIOUS
<1>2. ServingNodes \ ServingNodes' \in SUBSET Nodes
  BY DEF ServingNodes
<1> QED BY <1>1, <1>2 DEF Upgrade!Leave, ServingNodes

(* Every step outside slurmctld's own is a stutter or takes nodes out of   *)
(* service.                                                                *)
LEMMA PlaybookRefines ==
  ASSUME TypeOK, TofuApply \/ Site \/ Play
  PROVE  Upgrade!Leave
<1>1. UNCHANGED <<image, alloc, down>> /\ drain \subseteq drain'
  BY DEF TofuApply, Site, SiteStart, SiteSlurm, SiteEnd, SiteAbort, SiteExport,
     Play, PlayStart, GetTargets, DrainBatch, DrainEnd, RequestBatch, PlayEnd, LoopFails, PlayAbort,
     PlayOver, cloudVars, slurmVars
<1>2. ASSUME NEW n \in Nodes, reboot'[n] = "none" PROVE reboot[n] = "none"
  <2>1. CASE RequestBatch
    BY <1>2, <2>1 DEF RequestBatch
  <2>2. CASE ~RequestBatch
    <3>1. reboot' = reboot
      BY <2>2 DEF TofuApply, Site, SiteStart, SiteSlurm, SiteEnd, SiteAbort, SiteExport,
         Play, PlayStart, GetTargets, DrainBatch, DrainEnd, PlayEnd, LoopFails, PlayAbort,
         PlayOver, slurmVars
    <3> QED BY <1>2, <3>1
  <2> QED BY <2>1, <2>2
<1>3. ServingNodes' \subseteq ServingNodes
  BY <1>1, <1>2 DEF ServingNodes, Serving
<1> QED BY <1>1, <1>3, LeaveRefines

(* Jobs start only on nodes that serve, and those are on one image.        *)
LEMMA JobRefines ==
  ASSUME IInv, NEW j \in Jobs, JobStart(j) \/ JobFinish(j)
  PROVE  Upgrade!Start(j) \/ Upgrade!Finish(j)
<1>1. ServingNodes' = ServingNodes /\ image' = image
  BY DEF JobStart, JobFinish, ServingNodes, Serving, cloudVars, slurmVars
<1>2. CASE JobFinish(j)
  BY <1>1, <1>2 DEF JobFinish, Upgrade!Finish, ServingNodes
<1>3. CASE JobStart(j)
  <2>1. PICK P \in Partitions :
          \E S \in SUBSET P : /\ \A n \in S : Serving(n)
                             /\ alloc' = [alloc EXCEPT ![j] = S]
    BY <1>3 DEF JobStart
  <2>2. PICK S \in SUBSET P : /\ \A n \in S : Serving(n)
                             /\ alloc' = [alloc EXCEPT ![j] = S]
    BY <2>1
  <2>3. S \in SUBSET ServingNodes
    BY <2>2, PartitionsAssumption DEF ServingNodes
  <2>4. Upgrade!OneImage(S)
    BY <2>2 DEF IInv, ServingUniform, Upgrade!OneImage
  <2>5. alloc[j] = {}
    BY <1>3 DEF JobStart
  <2> QED BY <1>1, <2>2, <2>3, <2>4, <2>5 DEF Upgrade!Start, ServingNodes
<1> QED BY <1>2, <1>3

(* slurmctld's other steps on node n.                                      *)
LEMMA NodeRefines ==
  ASSUME IInv, IInv', NEW n \in Nodes,
         \/ RebootIssue(n) \/ RebootProgram(n) \/ RebootProgramFail(n)
         \/ Boot(n) \/ Register(n) \/ RebootTimeout(n) \/ LateRegister(n)
         \/ OperatorResume(n)
  PROVE  Upgrade!Leave \/ Upgrade!Upgrade(n) \/ Upgrade!Return(n)
<1> USE NodeTypes DEF IInv
<1>1. alloc' = alloc
  BY DEF RebootIssue, RebootProgram, RebootProgramFail, Boot, Register, RebootTimeout,
     LateRegister, OperatorResume
<1>2. CASE RebootProgram(n)
  <2>1. n \notin ServingNodes /\ ServingNodes' = ServingNodes
    BY <1>2 DEF RebootProgram, ServingNodes, Serving, RestartsAccounted, slurmVars
  <2>2. Upgrade!Idle(n)
    BY <1>2 DEF RebootProgram, NoJobOnRestartingNode, Upgrade!Idle
  <2>3. image' = [image EXCEPT ![n] = wanted[n]] /\ wanted[n] \in Images
    BY <1>2, RebootProgramImage
  <2> QED BY <1>1, <2>1, <2>2, <2>3 DEF Upgrade!Upgrade, ServingNodes
<1>3. CASE Register(n) \/ OperatorResume(n)
  <2>1. image' = image
    BY <1>3 DEF Register, OperatorResume, cloudVars
  <2>2. \A m \in Nodes : m # n => Serving(m)' = Serving(m)
    <3>1. /\ \A m \in Nodes : m # n => reboot'[m] = reboot[m]
          /\ \A m \in Nodes : m # n => (m \in drain' <=> m \in drain) /\ (m \in down' <=> m \in down)
      BY <1>3 DEF Register, OperatorResume
    <3> QED BY <3>1 DEF Serving
  <2>3. ServingNodes' \subseteq ServingNodes \/ ServingNodes' = ServingNodes \cup {n}
    BY <2>2 DEF ServingNodes
  <2>4. CASE ServingNodes' \subseteq ServingNodes
    BY <1>1, <2>1, <2>4, LeaveRefines
  <2>5. CASE ServingNodes' = ServingNodes \cup {n}
    BY <1>1, <2>1, <2>5 DEF Upgrade!Return, ServingNodes
  <2> QED BY <2>3, <2>4, <2>5
<1>4. CASE \/ RebootIssue(n) \/ RebootProgramFail(n) \/ Boot(n) \/ RebootTimeout(n)
           \/ LateRegister(n)
  <2>1. image' = image /\ drain' = drain /\ down \subseteq down'
    BY <1>4 DEF RebootIssue, RebootProgramFail, Boot, RebootTimeout, LateRegister,
       cloudVars, slurmVars
  <2>2. \/ reboot' = reboot
        \/ reboot' = [reboot EXCEPT ![n] = "issued"]
        \/ n \in down' /\ reboot' = [reboot EXCEPT ![n] = "none"]
    BY <1>4 DEF RebootIssue, RebootProgramFail, Boot, RebootTimeout, LateRegister, slurmVars
  <2>3. ServingNodes' \subseteq ServingNodes
    BY <2>1, <2>2 DEF ServingNodes, Serving
  <2> QED BY <1>1, <2>1, <2>3, LeaveRefines
<1> QED BY <1>2, <1>3, <1>4

(* If upgrades do not overlap, every run of the rebuild is one of the      *)
(* rolling upgrade.                                                        *)
THEOREM RebuildRefinesRollingUpgrade == ASSUME ~Overlap PROVE Spec => ImplementsRollingUpgrade
<1>1. IInv /\ IInv' /\ [Next]_vars => [Upgrade!Next]_(Upgrade!vars)
  <2> SUFFICES ASSUME IInv, IInv', [Next]_vars
               PROVE  [Upgrade!Next]_(Upgrade!vars)
    OBVIOUS
  <2>1. CASE UNCHANGED vars
    BY <2>1 DEF vars, Upgrade!vars, Serving
  <2>2. CASE TofuApply \/ Site \/ Play
    BY <2>2, PlaybookRefines DEF IInv, Upgrade!Next
  <2>3. CASE Slurm
    BY <2>3, JobRefines, NodeRefines DEF Slurm, Upgrade!Next
  <2> QED BY <2>1, <2>2, <2>3 DEF Next
<1> QED BY <1>1, InitRefines, Inductive, PTL
    DEF Spec, ImplementsRollingUpgrade, Upgrade!Spec
=============================================================================
