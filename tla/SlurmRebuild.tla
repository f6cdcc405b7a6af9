---------------------------- MODULE SlurmRebuild ----------------------------
(***************************************************************************)
(* The Slurm-controlled rebuild of compute nodes, end to end: the operator *)
(* runs "tofu apply" (new image ids in the inventory), ansible/site.yml    *)
(* (slurm.yml brings slurmctld up, final.yml exports the RebootProgram's   *)
(* reboot_vars) and ansible/adhoc/rebuild-via-slurm.yml (drains every node *)
(* that is not on its image, then requests reboots in batches), while      *)
(* slurmctld keeps starting jobs, issues the requested reboots on idle     *)
(* nodes, runs the RebootProgram and takes rebooted nodes back.            *)
(*                                                                         *)
(* slurmctld, the RebootProgram, OpenStack and tofu are external: they do  *)
(* what src/ configures them to do and relies on them for.                 *)
(***************************************************************************)
EXTENDS Integers, FiniteSets

CONSTANTS
    Nodes,       \* the compute nodes (the compute_init group), in name order
    Partitions,  \* the Slurm partitions, sets of nodes
    NodeSets,    \* the values rebuild_nodes may be given
    Jobs,        \* identities of the jobs that may run at the same time
    Images,      \* the image ids
    NoImage,     \* reboot_vars of a node that are not on the control node
    BatchSize,   \* rebuild_batch_size
    NextStates,  \* the values of rebuild_nextstate in use
    Failures,    \* the kinds of failure that may happen
    Overlap      \* TRUE lets tofu apply run while reboots are outstanding

ASSUME NodesAssumption == Nodes \subseteq Nat /\ IsFiniteSet(Nodes)
ASSUME PartitionsAssumption == Partitions \subseteq SUBSET Nodes
(* roles/rebuild/README.md: rebuild_nodes "must contain all nodes in       *)
(* partitions for which it includes nodes".                                *)
ASSUME NodeSetsAssumption ==
    /\ NodeSets \subseteq SUBSET Nodes
    /\ \A S \in NodeSets, P \in Partitions : P \subseteq S \/ P \cap S = {}
ASSUME ImagesAssumption == Images # {} /\ NoImage \notin Images
ASSUME BatchSizeAssumption == BatchSize \in Nat \ {0}
ASSUME NextStatesAssumption == NextStates \subseteq {"RESUME", "DOWN", ""}
ASSUME FailuresAssumption ==
    Failures \subseteq {"site", "play", "program", "boot", "timeout"}
ASSUME OverlapAssumption == Overlap \in BOOLEAN

VARIABLES
    \* the OpenTofu-templated inventory and the cloud
    wanted,      \* wanted[n]: image_id of n in hosts.yml
    image,       \* image[n]: image of the server in OpenStack
    boot,        \* boot[n]: where the server is in a restart
    \* the control node
    ctld,        \* slurmctld runs
    rebootVars,  \* rebootVars[n]: image_id in /etc/slurm/reboot_vars/n.yml
    \* slurmctld's state
    drain,       \* nodes with the DRAIN flag
    down,        \* nodes in state DOWN
    reboot,      \* reboot[n]: progress of a requested reboot
    nextState,   \* nextState[n]: state n goes to when that reboot completes
    alloc,       \* alloc[j]: the nodes of running job j, {} if it does not run
    \* ansible/site.yml
    sitePc,      \* where the run is
    siteVars,    \* hostvars of that run: image_id by node
    siteTodo,    \* nodes whose reboot_vars it has still to template
    siteDone,    \* it has completed since the last tofu apply
    \* ansible/adhoc/rebuild-via-slurm.yml
    pc,          \* the task the run is at
    opts,        \* rebuild_dryrun and rebuild_nextstate of the run
    hostvars,    \* hostvars of the run: image_id by node
    rebuildNodes,\* rebuild_nodes of the run
    targets,     \* _rebuild_targets
    todo,        \* targets the current loop has still to reach
    itemFailed   \* an item of that loop has failed

cloudVars == <<image, boot>>
slurmVars == <<drain, down, reboot, nextState>>
siteVarsAll == <<sitePc, siteVars, siteTodo, siteDone>>
playVars == <<pc, opts, hostvars, rebuildNodes, targets, todo, itemFailed>>
vars == <<wanted, image, boot, ctld, rebootVars, drain, down, reboot, nextState,
          alloc, sitePc, siteVars, siteTodo, siteDone,
          pc, opts, hostvars, rebuildNodes, targets, todo, itemFailed>>

-----------------------------------------------------------------------------

(* The hostvars of a playbook that is not running.                         *)
NoVars == [n \in Nodes |-> NoImage]

NoOpts == [dryrun |-> TRUE, next |-> ""]

(* A node group has one image_id (inventory.tpl) and every partition is a  *)
(* node group by default (openhpc_user_partitions).                        *)
ImageMaps ==
    {w \in [Nodes -> Images] : \A P \in Partitions : \A m, n \in P : w[m] = w[n]}

Idle(n) == \A j \in Jobs : n \notin alloc[j]

(* The nodes slurmctld may give to a job.                                  *)
Serving(n) == n \notin drain /\ n \notin down /\ reboot[n] = "none"

(* What an operator looks for before a node is resumed: rebuild-status.yml *)
(* shows image_correct of every compute node. That the operator heeds the  *)
(* nodes that serve in the same partition is an assumption on the operator,*)
(* which no playbook checks.                                               *)
OnWanted(n) ==
    /\ image[n] = wanted[n]
    /\ \A P \in Partitions : n \in P =>
          \A m \in P : Serving(m) => image[m] = wanted[m]

(* Some reboot is not over: slurmctld waits for one, or a RebootProgram it *)
(* has given up on is still running.                                       *)
Outstanding == \E n \in Nodes : reboot[n] # "none" \/ boot[n] = "program"

(* The next slice of _rebuild_targets | batch(rebuild_batch_size).         *)
NextBatch(S) == {n \in S : Cardinality({m \in S : m < n}) < BatchSize}

Init ==
    /\ wanted \in ImageMaps
    /\ image = wanted
    /\ boot = [n \in Nodes |-> "up"]
    /\ ctld = TRUE
    /\ rebootVars = wanted
    /\ drain = {}
    /\ down = {}
    /\ reboot = [n \in Nodes |-> "none"]
    /\ nextState = [n \in Nodes |-> ""]
    /\ alloc = [j \in Jobs |-> {}]
    /\ sitePc = "idle"
    /\ siteVars = NoVars
    /\ siteTodo = {}
    /\ siteDone = TRUE
    /\ pc = "idle"
    /\ opts = NoOpts
    /\ hostvars = NoVars
    /\ rebuildNodes = {}
    /\ targets = {}
    /\ todo = {}
    /\ itemFailed = FALSE

-----------------------------------------------------------------------------
(* tofu apply and site.yml                                                 *)

(* New image ids are templated into the inventory. With                    *)
(* ignore_image_changes the compute nodes are left alone; the control node *)
(* is rebuilt if its image changed too, which loses /etc/slurm and stops   *)
(* slurmctld until slurm.yml; slurmctld's state is on the state volume.    *)
TofuApply ==
    /\ pc = "idle" /\ sitePc = "idle"
    /\ Overlap \/ ~Outstanding
    /\ wanted' \in ImageMaps
    /\ wanted' # wanted
    /\ \/ ctld' = FALSE /\ rebootVars' = NoVars
       \/ UNCHANGED <<ctld, rebootVars>>
    /\ siteDone' = FALSE
    /\ UNCHANGED <<cloudVars, slurmVars, alloc, sitePc, siteVars, siteTodo, playVars>>

(* A run of site.yml reads the inventory once, at its start.               *)
SiteStart ==
    /\ sitePc = "idle" /\ pc = "idle"
    /\ sitePc' = "slurm"
    /\ siteVars' = wanted
    /\ UNCHANGED <<wanted, cloudVars, ctld, rebootVars, slurmVars, alloc,
                   siteTodo, siteDone, playVars>>

(* slurm.yml: slurmctld is configured and running.                         *)
SiteSlurm ==
    /\ sitePc = "slurm"
    /\ sitePc' = "export"
    /\ siteTodo' = Nodes
    /\ ctld' = TRUE
    /\ UNCHANGED <<wanted, cloudVars, rebootVars, slurmVars, alloc,
                   siteVars, siteDone, playVars>>

(* final.yml, last task of compute_init's export.yml, for one host.        *)
SiteExport(n) ==
    /\ sitePc = "export" /\ n \in siteTodo
    /\ rebootVars' = [rebootVars EXCEPT ![n] = siteVars[n]]
    /\ siteTodo' = siteTodo \ {n}
    /\ UNCHANGED <<wanted, cloudVars, ctld, slurmVars, alloc,
                   sitePc, siteVars, siteDone, playVars>>

(* Mutant: the export task runs for some hosts only ("run_once").          *)
SiteEndRunOnce ==
    /\ sitePc = "export"
    /\ sitePc' = "idle"
    /\ siteVars' = NoVars
    /\ siteTodo' = {}
    /\ siteDone' = TRUE
    /\ UNCHANGED <<wanted, cloudVars, ctld, rebootVars, slurmVars, alloc, playVars>>

SiteEnd ==
    /\ sitePc = "export" /\ siteTodo = {}
    /\ sitePc' = "idle"
    /\ siteVars' = NoVars
    /\ siteDone' = TRUE
    /\ UNCHANGED <<wanted, cloudVars, ctld, rebootVars, slurmVars, alloc,
                   siteTodo, playVars>>

(* Any failed task ends the run (any_errors_fatal in ansible.cfg).         *)
SiteAbort ==
    /\ "site" \in Failures
    /\ sitePc # "idle"
    /\ sitePc' = "idle"
    /\ siteVars' = NoVars
    /\ siteTodo' = {}
    /\ UNCHANGED <<wanted, cloudVars, ctld, rebootVars, slurmVars, alloc,
                   siteDone, playVars>>

-----------------------------------------------------------------------------
(* rebuild-via-slurm.yml                                                   *)

(* The documented upgrade runs the play once site.yml has completed.       *)
PlayStart ==
    /\ pc = "idle" /\ sitePc = "idle" /\ siteDone
    /\ pc' = "info"
    /\ hostvars' = wanted
    /\ rebuildNodes' \in NodeSets
    /\ opts' \in [dryrun : BOOLEAN, next : NextStates]
    /\ UNCHANGED <<wanted, cloudVars, ctld, rebootVars, slurmVars, alloc,
                   siteVarsAll, targets, todo, itemFailed>>

(* Mutant: no drain loop before the request loop.                          *)
GetTargetsNoDrain ==
    /\ pc = "info"
    /\ pc' = "request"
    /\ targets' = {n \in rebuildNodes : image[n] # hostvars[n]}
    /\ todo' = targets'
    /\ UNCHANGED <<wanted, cloudVars, ctld, rebootVars, slurmVars, alloc,
                   siteVarsAll, opts, hostvars, rebuildNodes, itemFailed>>

(* Server info from OpenStack, and the nodes it shows on another image.    *)
GetTargets ==
    /\ pc = "info"
    /\ pc' = "drain"
    /\ targets' = {n \in rebuildNodes : image[n] # hostvars[n]}
    /\ todo' = targets'
    /\ UNCHANGED <<wanted, cloudVars, ctld, rebootVars, slurmVars, alloc,
                   siteVarsAll, opts, hostvars, rebuildNodes, itemFailed>>

(* The scontrol command of one batch fails.                                *)
CommandFails ==
    /\ "play" \in Failures /\ ~opts.dryrun
    /\ itemFailed' = TRUE

(* Mutant: the dry run drains and the real run echoes.                     *)
DrainBatchInverted ==
    /\ pc = "drain" /\ todo # {}
    /\ drain' = IF opts.dryrun THEN drain \cup NextBatch(todo) ELSE drain
    /\ todo' = todo \ NextBatch(todo)
    /\ UNCHANGED <<wanted, cloudVars, ctld, rebootVars, down, reboot, nextState, alloc,
                   siteVarsAll, pc, opts, hostvars, rebuildNodes, targets, itemFailed>>

(* scontrol update state=DRAIN nodename=<batch>, or only echoed. A batch   *)
(* that fails does not end the loop.                                       *)
DrainBatch ==
    /\ pc = "drain" /\ todo # {}
    /\ \/ /\ drain' = IF opts.dryrun THEN drain ELSE drain \cup NextBatch(todo)
          /\ UNCHANGED itemFailed
       \/ CommandFails /\ UNCHANGED drain
    /\ todo' = todo \ NextBatch(todo)
    /\ UNCHANGED <<wanted, cloudVars, ctld, rebootVars, down, reboot, nextState,
                   alloc, siteVarsAll, pc, opts, hostvars, rebuildNodes, targets>>

(* Mutant: reboots are requested before the later batches are drained.     *)
DrainEndEarly ==
    /\ pc = "drain"
    /\ pc' = "request"
    /\ todo' = targets
    /\ UNCHANGED <<wanted, cloudVars, ctld, rebootVars, slurmVars, alloc,
                   siteVarsAll, opts, hostvars, rebuildNodes, targets, itemFailed>>

(* Mutant: the request loop runs over rebuild_nodes, not its targets.      *)
DrainEndAllNodes ==
    /\ pc = "drain" /\ todo = {} /\ ~itemFailed
    /\ pc' = "request"
    /\ todo' = rebuildNodes
    /\ UNCHANGED <<wanted, cloudVars, ctld, rebootVars, slurmVars, alloc,
                   siteVarsAll, opts, hostvars, rebuildNodes, targets, itemFailed>>

DrainEnd ==
    /\ pc = "drain" /\ todo = {} /\ ~itemFailed
    /\ pc' = "request"
    /\ todo' = targets
    /\ UNCHANGED <<wanted, cloudVars, ctld, rebootVars, slurmVars, alloc,
                   siteVarsAll, opts, hostvars, rebuildNodes, targets, itemFailed>>

(* Mutant: rebuild_nextstate is not passed on.                             *)
RequestBatchNoNextState ==
    /\ pc = "request" /\ todo # {}
    /\ reboot' = [n \in Nodes |->
          IF n \in NextBatch(todo) /\ ~opts.dryrun /\ reboot[n] = "none"
          THEN "requested" ELSE reboot[n]]
    /\ todo' = todo \ NextBatch(todo)
    /\ UNCHANGED <<wanted, cloudVars, ctld, rebootVars, drain, down, nextState, alloc,
                   siteVarsAll, pc, opts, hostvars, rebuildNodes, targets, itemFailed>>

(* scontrol reboot ASAP [nextstate=..] <batch>; slurmctld skips nodes that *)
(* have a reboot outstanding already. A batch that fails does not end the  *)
(* loop here either.                                                       *)
RequestBatch ==
    /\ pc = "request" /\ todo # {}
    /\ \/ LET new == IF opts.dryrun THEN {}
                     ELSE {n \in NextBatch(todo) : reboot[n] = "none"}
          IN  /\ reboot' = [n \in Nodes |-> IF n \in new THEN "requested" ELSE reboot[n]]
              /\ nextState' = [n \in Nodes |-> IF n \in new THEN opts.next ELSE nextState[n]]
              /\ UNCHANGED itemFailed
       \/ CommandFails /\ UNCHANGED <<reboot, nextState>>
    /\ todo' = todo \ NextBatch(todo)
    /\ UNCHANGED <<wanted, cloudVars, ctld, rebootVars, drain, down, alloc,
                   siteVarsAll, pc, opts, hostvars, rebuildNodes, targets>>

(* The facts and variables of a run of the play end with it.               *)
PlayOver ==
    /\ pc' = "idle"
    /\ opts' = NoOpts
    /\ hostvars' = NoVars
    /\ rebuildNodes' = {}
    /\ targets' = {}
    /\ todo' = {}
    /\ itemFailed' = FALSE
    /\ UNCHANGED <<wanted, cloudVars, ctld, rebootVars, slurmVars, alloc, siteVarsAll>>

PlayEnd == pc = "request" /\ todo = {} /\ ~itemFailed /\ PlayOver

(* A loop that has lost an item fails once it is over, and the run with it.*)
LoopFails == pc \in {"drain", "request"} /\ todo = {} /\ itemFailed /\ PlayOver

(* Any other failure ends the run where it is: what it drained stays so.   *)
PlayAbort == "play" \in Failures /\ pc # "idle" /\ PlayOver

-----------------------------------------------------------------------------
(* slurmctld, the RebootProgram and booting nodes                          *)

JobStart(j) ==
    /\ ctld
    /\ alloc[j] = {}
    /\ \E P \in Partitions : \E S \in SUBSET P \ {{}} :
          /\ \A n \in S : Serving(n)
          /\ alloc' = [alloc EXCEPT ![j] = S]
    /\ UNCHANGED <<wanted, cloudVars, ctld, rebootVars, slurmVars, siteVarsAll, playVars>>

(* Without slurmctld jobs run on but cannot complete.                      *)
JobFinish(j) ==
    /\ ctld
    /\ alloc[j] # {}
    /\ alloc' = [alloc EXCEPT ![j] = {}]
    /\ UNCHANGED <<wanted, cloudVars, ctld, rebootVars, slurmVars, siteVarsAll, playVars>>

(* Mutant: the node is restarted at once, as adhoc/rebuild.yml does.       *)
RebootIssueNow(n) ==
    /\ ctld
    /\ reboot[n] = "requested"
    /\ reboot' = [reboot EXCEPT ![n] = "issued"]
    /\ boot' = [boot EXCEPT ![n] = "program"]
    /\ UNCHANGED <<wanted, image, ctld, rebootVars, drain, down, nextState, alloc,
                   siteVarsAll, playVars>>

(* "ASAP": slurmctld runs the RebootProgram once the node is idle.         *)
RebootIssue(n) ==
    /\ ctld
    /\ reboot[n] = "requested"
    /\ Idle(n)
    /\ reboot' = [reboot EXCEPT ![n] = "issued"]
    /\ boot' = [boot EXCEPT ![n] = "program"]
    /\ UNCHANGED <<wanted, image, ctld, rebootVars, drain, down, nextState, alloc,
                   siteVarsAll, playVars>>

(* The RebootProgram rebuilds the server if its image is not the one in    *)
(* reboot_vars, and reboots it otherwise.                                  *)
RebootProgram(n) ==
    /\ boot[n] = "program"
    /\ rebootVars[n] # NoImage
    /\ image' = [image EXCEPT ![n] = rebootVars[n]]
    /\ boot' = [boot EXCEPT ![n] = "booting"]
    /\ UNCHANGED <<wanted, ctld, rebootVars, slurmVars, alloc, siteVarsAll, playVars>>

(* No reboot_vars, or OpenStack refuses: the node is not restarted.        *)
RebootProgramFail(n) ==
    /\ boot[n] = "program"
    /\ rebootVars[n] = NoImage \/ "program" \in Failures
    /\ boot' = [boot EXCEPT ![n] = "up"]
    /\ UNCHANGED <<wanted, image, ctld, rebootVars, slurmVars, alloc,
                   siteVarsAll, playVars>>

(* compute-init.yml either gets to start slurmd or ends before it.         *)
Boot(n) ==
    /\ boot[n] = "booting"
    /\ \/ boot' = [boot EXCEPT ![n] = "slurmd"]
       \/ "boot" \in Failures /\ boot' = [boot EXCEPT ![n] = "noslurmd"]
    /\ UNCHANGED <<wanted, image, ctld, rebootVars, slurmVars, alloc,
                   siteVarsAll, playVars>>

(* A rebooted node registers in time: the nextstate of the request applies.*)
(* RESUME clears DRAIN and DOWN; the default, UNDRAIN, does not clear a    *)
(* DRAIN that was set explicitly.                                          *)
Register(n) ==
    /\ ctld
    /\ boot[n] = "slurmd" /\ reboot[n] = "issued"
    /\ boot' = [boot EXCEPT ![n] = "up"]
    /\ reboot' = [reboot EXCEPT ![n] = "none"]
    /\ nextState' = [nextState EXCEPT ![n] = ""]
    /\ drain' = IF nextState[n] = "RESUME" THEN drain \ {n} ELSE drain
    /\ down' = CASE nextState[n] = "RESUME" -> down \ {n}
                 [] nextState[n] = "DOWN" -> down \cup {n}
                 [] OTHER -> down
    /\ UNCHANGED <<wanted, image, ctld, rebootVars, alloc, siteVarsAll, playVars>>

(* Mutant: no ResumeTimeout for a node whose RebootProgram failed.         *)
RebootTimeoutBootsOnly(n) ==
    /\ ctld
    /\ reboot[n] = "issued"
    /\ \/ boot[n] = "noslurmd"
       \/ boot[n] # "up" /\ "timeout" \in Failures
    /\ reboot' = [reboot EXCEPT ![n] = "none"]
    /\ nextState' = [nextState EXCEPT ![n] = ""]
    /\ down' = down \cup {n}
    /\ UNCHANGED <<wanted, cloudVars, ctld, rebootVars, drain, alloc,
                   siteVarsAll, playVars>>

(* ResumeTimeout: a node that has not come back, because it never will or  *)
(* because it is slow, is set DOWN.                                        *)
RebootTimeout(n) ==
    /\ ctld
    /\ reboot[n] = "issued"
    /\ boot[n] \in {"up", "noslurmd"} \/ "timeout" \in Failures
    /\ reboot' = [reboot EXCEPT ![n] = "none"]
    /\ nextState' = [nextState EXCEPT ![n] = ""]
    /\ down' = down \cup {n}
    /\ UNCHANGED <<wanted, cloudVars, ctld, rebootVars, drain, alloc,
                   siteVarsAll, playVars>>

(* It may still boot later, and stays DOWN ("unexpectedly rebooted").      *)
LateRegister(n) ==
    /\ ctld
    /\ boot[n] = "slurmd" /\ reboot[n] = "none"
    /\ boot' = [boot EXCEPT ![n] = "up"]
    /\ UNCHANGED <<wanted, image, ctld, rebootVars, slurmVars, alloc,
                   siteVarsAll, playVars>>

(* scontrol update state=RESUME by an operator (docs/upgrades.md) who has  *)
(* seen with rebuild-status.yml that the node and the nodes that serve     *)
(* with it are on the right image.                                         *)
OperatorResume(n) ==
    /\ ctld
    /\ boot[n] = "up" /\ reboot[n] = "none"
    /\ n \in down \cup drain
    /\ OnWanted(n)
    /\ drain' = drain \ {n}
    /\ down' = down \ {n}
    /\ UNCHANGED <<wanted, cloudVars, ctld, rebootVars, reboot, nextState, alloc,
                   siteVarsAll, playVars>>

-----------------------------------------------------------------------------

Site ==
    \/ SiteStart \/ SiteSlurm \/ SiteEnd \/ SiteAbort
    \/ \E n \in Nodes : SiteExport(n)

Play ==
    \/ PlayStart \/ GetTargets \/ DrainBatch \/ DrainEnd
    \/ RequestBatch \/ PlayEnd \/ LoopFails \/ PlayAbort

Slurm ==
    \/ \E j \in Jobs : JobStart(j) \/ JobFinish(j)
    \/ \E n \in Nodes :
          \/ RebootIssue(n) \/ RebootProgram(n) \/ RebootProgramFail(n)
          \/ Boot(n) \/ Register(n) \/ RebootTimeout(n) \/ LateRegister(n)
          \/ OperatorResume(n)

Next == TofuApply \/ Site \/ Play \/ Slurm

Spec == Init /\ [][Next]_vars

(* slurmctld keeps scheduling, the RebootProgram and a boot end, jobs have *)
(* a time limit, and a playbook that was started goes on to its next task. *)
(* Nobody has to start a playbook or a job.                                *)
Fairness ==
    /\ \A n \in Nodes :
          /\ WF_vars(RebootIssue(n))
          /\ WF_vars(RebootProgram(n) \/ RebootProgramFail(n))
          /\ WF_vars(Boot(n))
          /\ WF_vars(Register(n))
          /\ WF_vars(RebootTimeout(n))
    /\ \A j \in Jobs : WF_vars(JobFinish(j))
    /\ WF_vars(GetTargets \/ DrainBatch \/ DrainEnd \/ RequestBatch \/ PlayEnd \/ LoopFails)

FairSpec == Spec /\ Fairness

-----------------------------------------------------------------------------
(* Correctness                                                             *)

TypeOK ==
    /\ wanted \in ImageMaps
    /\ image \in [Nodes -> Images]
    /\ boot \in [Nodes -> {"up", "program", "booting", "slurmd", "noslurmd"}]
    /\ ctld \in BOOLEAN
    /\ rebootVars \in [Nodes -> Images \cup {NoImage}]
    /\ drain \subseteq Nodes
    /\ down \subseteq Nodes
    /\ reboot \in [Nodes -> {"none", "requested", "issued"}]
    /\ nextState \in [Nodes -> {"RESUME", "DOWN", ""}]
    /\ alloc \in [Jobs -> SUBSET Nodes]
    /\ sitePc \in {"idle", "slurm", "export"}
    /\ siteVars \in ImageMaps \cup {NoVars}
    /\ siteTodo \subseteq Nodes
    /\ siteDone \in BOOLEAN
    /\ pc \in {"idle", "info", "drain", "request"}
    /\ opts \in [dryrun : BOOLEAN, next : NextStates \cup {""}]
    /\ hostvars \in ImageMaps \cup {NoVars}
    /\ rebuildNodes \in NodeSets \cup {{}}
    /\ pc = "idle" => rebuildNodes = {}
    /\ targets \subseteq rebuildNodes
    /\ todo \subseteq targets
    /\ itemFailed \in BOOLEAN

(* A multi-node job never runs on a mix of old and new nodes, which is     *)
(* what draining every target before the first reboot request is for       *)
(* (comment in roles/rebuild/tasks/rebuild.yml).                           *)
NoMixedJob ==
    \A j \in Jobs : \A m, n \in alloc[j] : image[m] = image[n]

(* "Nodes are rebuilt between jobs": no restart under a running job, even  *)
(* if slurmctld has given up on an earlier reboot of the node.             *)
NoJobOnRestartingNode ==
    \A j \in Jobs : \A n \in alloc[j] : boot[n] = "up"

(* While a reboot is outstanding, every node its partition could give to a *)
(* new job is already on the image the inventory asks for.                 *)
RollingPartition ==
    \A P \in Partitions :
        (\E n \in P : reboot[n] # "none") =>
            \A n \in P : Serving(n) => image[n] = wanted[n]

(* Once site.yml has completed for the inventory, a server's image only    *)
(* changes to the one the inventory has, also by a reboot that an earlier  *)
(* upgrade requested and left behind, over images that changed meanwhile   *)
(* and a control node that was rebuilt and lost its reboot_vars.           *)
RebuildsReachInventory ==
    [][\A n \in Nodes : image'[n] # image[n] /\ siteDone => image'[n] = wanted[n]]_vars

(* What site.yml has exported is the inventory's, once it has completed    *)
(* since the last tofu apply and as far as it has come before.             *)
ExportedCurrent ==
    /\ siteDone => rebootVars = wanted
    /\ sitePc # "idle" => siteVars = wanted
    /\ sitePc = "export" => \A n \in Nodes \ siteTodo : rebootVars[n] = wanted[n]

(* The inductive invariant behind the properties above, for ~Overlap.      *)
(* Every outstanding reboot and every run of the play follows a site.yml   *)
(* that has exported the images of the current inventory.                  *)
VarsCurrent ==
    /\ Outstanding \/ pc # "idle" => siteDone
    /\ ExportedCurrent
    /\ pc \in {"info", "drain", "request"} => hostvars = wanted

(* A rebooted node that slurmctld waits for is on the wanted image, and a  *)
(* node in a restart serves nobody.                                        *)
RestartsAccounted ==
    \A n \in Nodes :
        /\ reboot[n] = "issued" /\ boot[n] \in {"booting", "slurmd"} => image[n] = wanted[n]
        /\ Serving(n) => boot[n] = "up"

(* What the drain loop has achieved so far, and in full once it is over.   *)
DrainProgress ==
    ~opts.dryrun =>
        /\ pc = "drain" /\ ~itemFailed =>
              \A n \in rebuildNodes \ todo : Serving(n) => image[n] = wanted[n]
        /\ pc = "request" => \A n \in rebuildNodes : Serving(n) => image[n] = wanted[n]

ServingUniform ==
    \A P \in Partitions : \A m, n \in P :
        Serving(m) /\ Serving(n) => image[m] = image[n]

(* Every reboot that was requested comes to an end, however many jobs      *)
(* contend for the node and whatever fails: the node is back, or DOWN.     *)
RequestsSettle == \A n \in Nodes : reboot[n] = "requested" ~> reboot[n] = "none"

(* If nothing fails, every node a completed run found on another image is  *)
(* back in service on the image the inventory asks for.                    *)
UpgradeCompletes ==
    \A n \in Nodes :
        pc = "request" /\ ~opts.dryrun /\ n \in targets
            ~> Serving(n) /\ image[n] = wanted[n]

(* The abstract view of a run.                                             *)
Upgrade == INSTANCE RollingUpgrade WITH serving <- {n \in Nodes : Serving(n)}

(* Every run is one of the rolling upgrade the documentation promises.     *)
ImplementsRollingUpgrade == Upgrade!Spec
=============================================================================
