# A TLA+ model of the Ansible Slurm Appliance

The appliance is a set of OpenTofu configurations, Ansible playbooks and roles
that deploy, configure and upgrade a Slurm cluster on OpenStack. Most of it
states what a host should look like; this project models the part that has
behaviour: what runs concurrently, in which order, over which state that
outlives a run, and what is left when a step fails.

## The system

| Component | State it keeps | Operations | Talks to | Hard behaviour |
| --- | --- | --- | --- | --- |
| OpenTofu cluster (`environments/site/tofu`) | image ids in the inventory | `tofu apply` | inventory, OpenStack | `ignore_image_changes`: inventory and servers differ on purpose |
| Slurm-controlled rebuild (`roles/rebuild`, `adhoc/rebuild-via-slurm.yml`) | facts of a run; DRAIN flags and reboot requests in slurmctld | find targets, drain loop, request loop | slurmctld, OpenStack | two batched loops against a scheduler that never stops; loops that go on after a batch that failed; runs that fail half way |
| RebootProgram, slurmctld (external) | node states, allocations, `/etc/slurm/reboot_vars` | schedule, reboot, rebuild, time out | OpenStack, nodes | idle nodes only, `ResumeTimeout`, late boots |
| compute_init (`export.yml`, `compute-init.yml`) | NFS share, files on the node | export; mount, check, sync, apply, start slurmd | site.yml, control node | boots while the share is being written and while site.yml configures the node itself; a share that does not exist yet |
| `site.yml` and the playbooks it imports | none of its own | 12 stages over all hosts | every role | barriers between tasks, abort anywhere, rerun |
| persist_hostkeys | keys on the state volume, keys of each host's own | check, generate, slurp, copy | all hosts of the group at once | concurrent scripts in one directory, crash in `mv`, hosts that come with keys of their own |
| Health checks (`roles/nhc`), mount_facts, infiniband_facts | facts of a run, `nhc.conf` | gather, template, check | kernel, sysfs, Slurm | facts that are stale when the checks run; servers that hang; automounts that expire; links that flap |
| kernel_modules, unload_modules | `/etc/modprobe.d/appliance.conf`, the kernel's modules | write, rmmod loop, modprobe loop | kernel | modules in use or loaded meanwhile; a failure in the loop |
| basic_users, sssd | `/etc/passwd`, sssd's state, sessions | terminate sessions, stop sssd, write users, start sssd | logind, the users | logins between listing and deletion; runs that fail while sssd is off |
| hpctests | outputs in the user's home | size, submit, wait, read | Slurm, MPI | a timeout that leaves a job behind; outputs of earlier runs; truncated outputs |
| dnf_repos, pulp_site, timestamps | pinned timestamps, Pulp's repositories, repo files | update, sync, enable, disable | Ark, Pulp, dnf | four parties that must agree on one URL; partial syncs; repositories left enabled |
| topology (`map_hosts`) | `topology.conf` | list servers, shorten host ids, template | OpenStack, Slurm | servers that move; prefixes that must stay unique; one namespace for all switches |
| `dev/delete-cluster.py` | none | list, ask, delete | OpenStack | the project changes between the lists, the question and the deletion; any command may fail; snapshots go with their volumes |
| freeipa | keytabs on the state volume | backup, restore, enrol | FreeIPA | an old keytab on a rebuilt host |
| persist_openhpc_secrets, passwords | secrets in one file each | read, write | control node | none: one file, written by one task |
| monitoring, portals, image build | configuration | install, template | - | none beyond Ansible's own |

For each: a component is correct if what it leaves behind is what its
documentation promises however its steps interleave with those of the
components it talks to, and if a run that failed can be completed by another.

## Modules

| Module | Models | Abstracts |
| --- | --- | --- |
| `RollingUpgrade` | the promise: nodes leave service, are upgraded idle and return; jobs run on one image | everything that makes it happen |
| `SlurmRebuild` | one upgrade after another, `tofu apply` to the last reboot | hostlists, reasons, delays between batches |
| `ComputeInit` | export, boots and site.yml's own configuration of nodes | content of a file to the number of the configuration it comes from; features to five that differ in their source |
| `PersistHostkeys` | the role and each command of its shell script | a key to who generated it and in which run |
| `MountFacts` | `mount_facts.py` on a host whose mounts change | parsing: a source is the sequence of mounts it lists; patterns are sets of types |
| `NodeHealth` | extends `MountFacts`: the nhc role from the facts to the checks | the lines of `nhc.conf` to what they compare; MAC addresses and GIDs to names |
| `KernelModules` | the role and `unload_modules.py` on one host | what modprobe reads to install and softdep lines |
| `BasicUsers` | sessions, sssd and users on one host | groups, sudo rules, home directories, keys |
| `SiteHost` | composes these two: `site.yml`, `mitigations.yml` and the tag `users`, run after run, with aborts and reboots | the other roles |
| `HpcReports` | what sizes the benchmarks and reads their outputs, as functions | a line to a record of what the readers tell apart |
| `HpcTests` | `hpl-solo` on Slurm, and the readers on outputs that may be damaged | pictures, formatting, the problem size |
| `Repositories` | Ark, the timestamps, the local Pulp server and a host's repo files | a URL to path and snapshot |
| `CloudProject` | `map_hosts` with its template, and `delete-cluster.py`, in a project that changes | host ids to short sequences of digits |
| `SlurmRebuildProofs`, `ComputeInitProofs`, `PersistHostkeysProofs`, `NodeHealthProofs` (of `MountFacts` too), `SiteHostProofs`, `HpcTestsProofs`, `RepositoriesProofs`, `CloudProjectProofs` | the theorems | |
| `MC...` | constants for TLC | |

`SlurmRebuild` in the code: `wanted` is `image_id` in `hosts.yml`, `image` what
OpenStack says, `rebootVars` the files under `/etc/slurm/reboot_vars`,
`drain`/`down`/`reboot`/`nextState`/`alloc` slurmctld's node and job state.
`PlayStart` .. `PlayEnd` are the tasks of `roles/rebuild/tasks/rebuild.yml` in
order, one action for each pass of a loop; `hostvars`, `targets` and `todo` are
the variables of that run. A batch for which `scontrol` fails does not end the loop:
`itemFailed` remembers it, the later batches follow, and the task fails after the
last (`LoopFails`), so a run may drain or request any of its batches. `SiteStart` ..
`SiteEnd` are the parts of `site.yml` an upgrade depends on; `SiteExport(n)` is the last task of
`compute_init/tasks/export.yml` for one host. What slurmctld, the RebootProgram
(a separate repository), OpenStack and operators do is external: `RebootIssue`,
`RebootProgram`, `Register`, `RebootTimeout` and so on follow the parameters
`openhpc.yml` sets and what the roles' comments and documents rely on.

`ComputeInit`: `share[n][f]` is a file of `/exports/cluster`, `local[n][f]` one of
`/var/tmp/cluster`, `conf[n][f]` what is active on the node, `boot[n]` the task
`compute-init.yml` is at, `sitePc` the stage `site.yml` is at and `siteTodo` the
hosts that stage has still to reach: Ansible's linear strategy, hosts in any
order within a task and no host ahead of a task. `completed` only records which
configuration the last complete run had. A node may be rebuilt at any time, also after
`site.yml` has passed its wait for ansible-init: its boot then copies the
share while the export writes it, and `site.yml` configures the node, starts its
slurmd and exports its `nhc.conf` at whatever step that boot is. The properties
need to know of which nodes this is true: `late` has those rebuilt under the present
run, `stale` those of which no later run has completed, `began[n]` what was complete
when the node was rebuilt. Compute nodes run `compute-init.yml`
after a (re)build and not on a plain reboot, as the developer notes of the role
say (`ansible-init.done`).

`PersistHostkeys`: `store` is `persist_hostkeys_state_dir`, `tmp` the `etc/ssh`
under it, `shell[h]` the command the script of host `h` is at. A host boots with keys of
its own (`Own(h)`, run 0), at first and when it is rebuilt, and `Copy` replaces those the
store has; what the store lacks stays. `crashed` is a history variable: a crash has met a
script at its `mv`.

`MountFacts`: `table` is the kernel's mount table, `hung` the mount points whose
server does not answer, `todo`, `seen`, `fallback` and `queue` are the variables of
`gen_mounts_by_source`, a generator, so that `get_mount_facts` looks at the mounts
of one source before the next is read; `mounts` is the result. A command that does not
answer is waited for unless there is a timeout (`CommandTimeout`, "waiting"); the size
of a filesystem has a timeout of the library's own. `stable` is a history
variable: what was mounted all the time since the module started.

`NodeHealth` puts the module into the role that calls it: `gathered` is
`ansible_mounts`, of a time before the role runs, `ReadPort` one pass of the loop
of `infiniband_facts.py` over ports, `Template` is `nhc.conf.j2`, and `HealthCheck`
what Slurm's HealthCheckProgram does with the result: a check of a filesystem compares
mount point, device and type, all one member of `KernelMounts`, and the mode (`readonly`).
Links, modes and the mount table change between any two steps. `flapped` and `lost` are
history variables; `lost` leaves out what was mounted over an automount point and
expired (`Automounted`).

`KernelModules` and `BasicUsers`: `kpc` and `upc` are the task the role is at and
`index` and `item` the position of its loop, one action for each pass and each
outcome of it. `NextItem` is Ansible's loop: an item that fails does not end it,
the task fails after the last. The kernel loads, uses and releases modules, and
users log in and out, between any two steps. `SiteHost` runs the roles in the
order of `mitigations.yml`, `iam.yml` and `extras.yml`; `SiteAbort` is a failure
anywhere, on this host or another (`any_errors_fatal`); `enforced` is a history
variable, the denylist of the last complete run.

`HpcTests`: `tasks` are the array tasks Slurm still has, of this and of earlier
runs, `outputs` the files `hpl-solo.sh.<index>.out` with an identity each, since a
task goes on writing to a file that has been removed. `HplTimeout` is the 20 minutes
of the task that waits. `Processes` divides the fewest effective processors `scontrol` tells of a
selected node by the threads of a core, as `hpl-solo.yml:28-40` does, and `Homogeneous`
is the assertion before it, on columns of `sinfo` that say nothing of processors which
are reserved; `HplSize` fails without a process. `PingMatrix` and `PingPong` read one of the outputs in
`input`, damaged or whole.

`Repositories`: `pins` is `dnf_repo_timestamps.yml`, `update` the variables of
`latest_timestamps.py`, `sync` those of `sync.yml` with what
`pulp-list-filters.py` selects, `pulp` the server, `files` the sections under
`/etc/yum.repos.d`, `run` a playbook that has reached `set_repos.yml` and not yet
`disable_repos.yml`. Both loops of `disable_repos.yml` go on after an item that failed, so that
any of their items may be left undone by a run that then fails. A playbook runs at
a time; Ark publishes at any.

`CloudProject`: `cloud` is what OpenStack lists. `topo` holds what `map_hosts`
returned and `conf` is the set of lines of `topology.conf`, in which zones, shortened host
ids and "master" are names in one namespace: all are sequences in the model, so they
may collide. `snapshots` are those of volumes, which the script does not list but deletes
(`--purge`). `del` holds the variables of the script; any of its commands may fail for any
reason, and `erred` remembers those errors for which nobody else was the cause. The two
tools are alternatives of `Init` and share only the project.

Operators whose comment begins with "Mutant:" are variants of one definition with
a plausible bug, named in `PROJECT.json`; no run uses them, and each makes the
property it is listed with fail.

## Runs

| Run | Question | Bounds |
| --- | --- | --- |
| `SlurmRebuild.cfg` | no job on mixed images, no restart under a job, partitions roll; the machinery implements `RollingUpgrade`; every requested reboot settles | 2 nodes, 1 job, 2 images, batches of 1, both nextstates, all failures; the next `tofu apply` waits for outstanding reboots |
| `SlurmRebuildComplete.cfg` | rebuilds only to the inventory's image; without failures a run completes | 3 nodes, 3 images, batches of 2 |
| `ComputeInit.cfg` | no node takes jobs with an old or partial configuration; a deployment is not held up by nodes without a share | 1 node, 3 configurations, aborted runs, failing boots, rebuilds at any stage of a run |
| `PersistHostkeys.cfg` | all hosts present the stored keys and no private key is missing; keys given to hosts are kept | 2 hosts with keys of their own, 2 key types, 2 runs, rebuilds, crashes |
| `NodeHealth.cfg` | what stays mounted is reported from a live source, no file is reported twice, the module ends; nhc checks the speed of exactly the InfiniBand ports; a node goes DOWN only for a cause | 4 filesystems, one on an automount point, 5 lists of sources, with a timeout and without, 2 ports, 2 changes (mount, unmount, remount, hang, link), hosts with and without `/proc` |
| `SiteHost.cfg` | what a complete run denied stays out of the kernel; users are as listed; sssd runs after a complete `site.yml`; nobody else is logged out | 2 modules, one needing the other; 2 users, one known to the directory; 3 lists each, the empty one too; 2 sessions between boots |
| `HpcTests.cfg` | what `hpl-solo` reports is of this run; grids fit; the readers report no part of an output as the whole | 2 jobs, 5 selections of 4 nodes, of which some have processors reserved; every set of lost lines of 2 and 3 ranks; outputs of IMB cut, with a line inserted at any place, or both |
| `Repositories.cfg` | pins follow Ark; what is synced is what hosts ask for and is served for good; roles install from pinned repositories only; none stays enabled | 3 repositories, 3 versions of the distribution, 1 new snapshot, 4 playbooks |
| `CloudProject.cfg` | `topology.conf` is the project's and, if names do not collide, a tree; deleting leaves nothing it listed or fails, by itself only for an error of a command; it takes what was listed, and the snapshots of that | 4 servers with ports and volumes, a snapshot each; 4 hypervisors in 2 zones, one called like a shortened id; 2 changes by others; errors at any command |

Two nodes are the fewest on which images can mix and batches of one make the
loops take two passes, so every interleaving of a half done loop with jobs,
boots and failures occurs; the third image of the three-node run lets an upgrade start from
a node two images behind, and three nodes with batches of two give a full and a
partial batch. One job identity suffices since a job's allocation never depends on
another's; it may be started any number of times. Three configurations of
`ComputeInit` let a node start with one, be rebuilt under the run of a second and meet the
third, and the image's own is a fourth value. One node is enough there: nodes meet only in the
barriers of `site.yml`, and what these allow two of them (one past the wait and
rebuilt, while a stage goes on) a node that is rebuilt after its own wait reaches
alone; the theorems are for every set of nodes. There is no bound on the number of
upgrades, reboots, boots, runs or jobs but where the table says so. `NodeHealth` bounds the changes to its host by two during one run,
enough for a filesystem to go between two sources and another to hang, a link to go
down before it is read and up before it is checked, or an automount to expire and
something else to be the cause of a node's state. In `SiteHost` a denylist with
dependents first and one without the module they need tell apart who holds a module; a
user of the directory and one who is not reach both branches of
`UserPresent`; two sessions let a user log in again while the first is terminated.
In `HpcTests` the second job is the one that meets what the first left behind, on
a larger, smaller or overlapping selection. In `Repositories` one repository has a
path for a minor version beside that of the major, one has one path for two majors,
and a switch of the skip list changes what is synced and set. The host ids of
`CloudProject` differ in the last digit, in the one before and between zones, so that
the shortest unique prefix takes every length from the start to the whole id.

Fairness. In `SlurmRebuild`: slurmctld keeps issuing reboots and registering
nodes, a RebootProgram ends, jobs have a time limit, a playbook that runs goes
on to its next task. Nothing makes an operator start a playbook, resume a node
or a user submit a job. In `ComputeInit`: a run of `site.yml` and a boot go on to
their next task. In `MountFacts` and `NodeHealth`: the module goes on unless what it
asks does not answer. All of it is weak fairness. The other modules state safety only:
each of their runs may fail or be aborted at any task, so nothing must happen.

Deadlock is checked where the system never stops. Where it may, `CHECK_DEADLOCK` is
off: a gathering that has ended, an array of jobs, a number of playbooks or of events
that is used up.

Runs that show the code, or the deployment it configures, not doing what its
documents say (`expect` is `violation`; the texts are quoted under `findings` in
`PROJECT.json`):

| Run | What happens |
| --- | --- |
| `PersistHostkeysRace.cfg` | hosts generating keys at once leave a public key of another pair |
| `MountFactsTimeout.cfg` | a timeout of `mount` or `blkid` that is to be ignored crashes the module |
| `SiteHostDenylist.cfg` | with the appliance's own denylist `mitigations.yml` fails where `sctp_diag` is loaded: it holds `sctp`, which comes first |

Other divergences and surprises met while modelling, which the modules contain or leave
out by an assumption but no run states as a property:

Rebuilds and boots

- An upgrade started while reboots of the last are outstanding mixes images in a job:
  with `Overlap = TRUE` TLC finds `NoMixedJob` violated. `rebuild.yml:36-39` and
  `slurm-controlled-rebuild.md:158-159` promise otherwise without that condition, and
  nothing in the code makes `tofu apply` wait. `NoMixedJob`, `RollingPartition` and the
  refinement are therefore claimed only of upgrades that do not overlap;
  `NoJobOnRestartingNode` and `RebuildsReachInventory` of all.
- A node rebuilt after `site.yml` has passed its wait for ansible-init is configured by
  its boot and by `site.yml` at once. `site.yml` may start slurmd before the boot has
  applied anything newer, `export.yml` may fetch the image's `nhc.conf` from it, and both last
  until the next complete run: `ConfigCurrent` and `SlurmdConfigured` hold such a node (`stale`) only
  to what its boot does.
- `rebuild-via-slurm.yml:3-4` says nodes on the right image are "rebooted" otherwise;
  they are left alone.
- `compute-init.yml:24` reads `vpgu`: `vgpu` in the metadata has no effect.
- `roles/compute_init/README.md:153` says the boot resumes the node with `scontrol`;
  nothing does, and a node that boots after `ResumeTimeout` stays DOWN (`LateRegister`).
- `slurm-controlled-rebuild.md:168-171` says health checks are configured before slurmd
  starts; `compute-init.yml:381` does it after (`BootSteps`).
- A crash of the control node during `mv` leaves an incomplete set of host keys that
  no later run completes, because `Check` asks only whether any file is there. For the types
  that are missing every host keeps the keys it made for itself, also after
  later runs have completed, and new ones after a rebuild.
  `roles/persist_hostkeys/README.md:5` says "All hosts in group will share the same set
  hostkeys".
  `SharedKeys` claims that what is stored is shared, and that no private key
  is missing unless there was such a crash.

Hosts

- `nhc.conf.j2:8` looks a dict up in a list of strings, so no check ever has the option
  `-F` (`Template`). `ansible_mounts` has no autofs entries, but it has what is mounted
  over an automount point when facts are gathered. That is then checked as if it were
  permanent, and a node on which it expires goes DOWN although nothing happened to it:
  `DownForCause` supposes that none was mounted then (`NoAutomountGathered`), and without that
  condition is violated. Also, since those facts are older than `filesystems.yml`, what
  that mounts is not checked before the next run.
- `mount_facts.py:59` says of the timeout "When this is V(null), wait indefinitely". That is so of
  `mount`, `lsblk` and `blkid`, which then hold up the module for ever, and the play
  with it (`GatheringEnds` allows it without a timeout only). The size of a filesystem has the
  library's default timeout even then, and is treated as `on_timeout` says.
- The regular expression of `infiniband_facts.py` does not match a fractional rate, the
  one a link that is down may show; `check_hw_ib` then takes the port's name for
  its rate (`Rate`, `Passes`).
- `roles/basic_users/README.md:64` says sssd "will be stopped and restarted each time this
  role is run". A run that fails in between leaves it stopped, and a rerun with
  `--tags users` finds it stopped, so not changed, and does not start it. A
  whole `site.yml` repairs this (`SiteLeavesSssdRunning`).

Tests

- `hpctests/README.md:10` says `hpl-solo` runs "individually on all nodes". The tasks of
  the array take any free selected node, two of them the same one after the
  other, and `hpl-solo.yml:143-144` gives result `i` to node `i`.
- A job that the 20 minutes of the role leave behind may write into the outputs of
  the next run: `ReportFresh` excludes that case (`busy`).
- `hpl_pq.py` has no grid for 0 processes, of which it asks for the last of none: on a
  node with fewer effective processors than a core has threads the task fails (`HplSize`).
- `hpl-solo.yml:93` gives the batch script `hpctests_hplsolo_ntasks: 2`, "TODO: FIXME". It has no
  effect: the fact set in line 37, the number in `HPL.dat`, takes precedence over variables of a task.

Repositories and cloud

- Three repositories have one `pulp_path` for two major versions. Their distributions have
  two names and one base path, of which Pulp refuses the second
  (`docs/experimental/pulp.md:104-108`): a sync for the other version then fails
  (`DistributionRefused`), so `SyncServesHosts` speaks of syncs that ended.
- The expression of `disable_repos.yml` finds `enabled=1` but not a section without
  `enabled`, which is what `set_repos.yml` writes: a repository that an aborted run
  set and the configuration has lost stays enabled (`OnlyAbortedEnabled`).
- A shelved server is in no zone, so its node is missing from `topology.conf`.
- Zones, shortened host ids and "master" share Slurm's one namespace of switch names, and nobody checks
  that they differ (`topology.conf.j2:5,7,10`): a zone called "master", or as a host id
  begins, gives a switch two lines or two parents. `MapFaithful` claims one of each only
  if there is no such zone (`ZonesApart`); that nodes are shown together exactly if
  they are on one hypervisor does not depend on it.
- `--purge` (`delete-cluster.py:21`) deletes the snapshots of a volume, which the script neither
  lists nor shows, those taken while it waits for the answer too. `DeletesOnlyListed` says
  that they are of listed volumes.
- A command that fails, for whatever reason, ends the script with what the later types list
  left behind (`delete-cluster.py:59-63`); only another run removes it.
- Two deletions of one cluster at the same time can both end with an error and leave
  ports or volumes behind (`DeletionOutcome` allows it: somebody else was at work);
  and the prefix `slurm-1` is one of `slurm-10` too.

## Proofs

`SlurmRebuildProofs` proves for every set of nodes, partitions, jobs and
images, every batch size and every set of failures:

- `TypeCorrect`: `Spec => []TypeOK`;
- `JobsNeverRestarted`, `RebuildsAreCurrent`: safety properties of the two runs, also of upgrades that
  overlap;
- `JobsNeverMixed`, `PartitionsRoll`, `RebuildRefinesRollingUpgrade` (every behaviour is one of
  `RollingUpgrade`): of upgrades that do not overlap.

Assumptions: those of `SlurmRebuild` (a partition is rebuilt as a whole or not at
all, as `roles/rebuild/README.md` demands of `rebuild_nodes`; a partition's nodes
have one image id, as the inventory template gives a node group), and for the last three
`~Overlap`: operators start `tofu apply` only when no reboot is outstanding. Neither the code
nor a document ensures that, and without it these three are false. Another assumption is part of the
model: operators who resume a node heed the others that serve in its partition (`OnWanted`),
which no playbook checks.

`JobsNeverRestarted` has an invariant of its own: a node that serves or runs a job is up
(`RestartInv`). So has `RebuildsAreCurrent`: what `site.yml` has exported is the inventory's,
once it has completed since the last `tofu apply` and as far as it has come before
(`ExportedCurrent`). A reboot requested by an earlier upgrade reads the file when its
RebootProgram runs, so it goes to the image the inventory has then.

The argument for the others. None of the properties is inductive. `NoMixedJob` needs that the
nodes that serve in a partition are on one image (`ServingUniform`), so that a job
starts uniform, and that a node changes image only when idle
(`RestartsAccounted`: a serving node is not in a restart; with
`NoJobOnRestartingNode`). A node returns to service on the wanted image because
every outstanding reboot and every running play follow an export of the current
inventory (`VarsCurrent`), and the others in its partition are either on that image
or not serving (`RollingPartition`), because the drain loop has passed over all of
them before the first request (`DrainProgress`). The conjunction `IInv` of these is
inductive; there is one lemma for each action or group of actions that touch
the same state, and one generic lemma for each conjunct (`UniformStep`,
`RollingStep`, `DrainStep`, `JobsStep`, `QuietStep`) that says what a step must not do.

`SiteHostProofs` proves all properties of `SiteHost.cfg`, and `TypeOK`, for every set of
modules, dependencies and denylists, every set of users and every list of them, any number
of runs, failures, logins and reboots. Assumptions: `Needs` is the transitive closure of
what modules depend on; a list has each user once (with a user twice, once to be
deleted, no run could satisfy both).

- `DeniedStayOut`. `DenylistEnforced` is not inductive, since a module may enter as a
  dependency of another. `KInv` adds that the kernel's modules are closed under `Needs`,
  that what is enforced is denied by the file on disk, and that the loop of
  `try_loading_modules` has found none of the modules it has passed. Nothing loads
  between its steps because the file already denies the whole list.
- `UsersAreApplied`. `UInv` says that items the loop over users has passed are as listed,
  unless one has failed, which `broken` remembers; and that sssd is off in that
  loop if it is to be overridden, for only then does `useradd` see no user of the directory.
- `SiteRepairsSssd`. `SInv` says that `site.yml` reaches `basic_users` with sssd running, and
  that while sssd is off the role knows that it has to start it.
- `OthersKeepSessions`. `LInv` says that ids are not reused before a reboot and that those
  listed are of the user to be deleted or of nobody, for as long as they are used.

`ComputeInitProofs` proves `TypeCorrect`, `NodesAreCurrent` (`ConfigCurrent`) and `SlurmdWaits`
(`SlurmdConfigured`) for every set of nodes and number of configurations, with rebuilds at any
stage of a run of `site.yml`. The invariant orders the configurations (`VersionsOrdered`); it says that
what is on the share is of the last complete run or a later one, but for the `nhc.conf` of a
node that was rebuilt under a run (`ShareCurrent`, `Reliable`), that a boot has copied and applied nothing
older than what was complete when the node was rebuilt (`BootCurrent`, `Recent`) and has slurmd off
until the step that starts it unless `site.yml` does, that a node with slurmd is current if it is not
stale (`ServiceCurrent`), and that each stage of `site.yml` has done its part on the hosts it has
passed, as far as they were not rebuilt under the run (`StageProgress`), so that a run that
completes has reached all others.

`PersistHostkeysProofs` proves `TypeCorrect`, `HostsShareKeys` (`SharedKeys`) and `KeysPersist`
(`PersistentKeys`) for every set of hosts, any number of runs and rebuilds, and crashes anywhere. The
invariant: what a host presents is its own or what is stored (`PresentedIsStored`); keys are only
generated while nothing is stored at the check, thus while hosts present nothing but their own
(`GenerateFirst`); and the tasks `slurp` and `copy` carry the store, which no longer changes, to every
host (`Distributed`). The scripts do get into each other's way, and a public key may be lost or
come from another script than its private key; but no `rm` removes the only copy of a
private key (`NoneIsLost`), because a script has moved all it saw or another has, so that
the store has all of them unless a crash met a `mv` (`Complete`).

`NodeHealthProofs` proves the safety properties of `NodeHealth.cfg`, those of `MountFacts` among
them, for every list of sources, every mount table and any number of changes, ports, addresses
and GIDs. Assumptions: sources are not empty, and
"mount" is one only with a mount command (`ArgumentsAssumption`); the tables list what may be
mounted (`TablesAssumption`); a net device of a port has an address of which the end is one of
the port's GIDs, and no other device's is (`NetDevicesAssumption`); no port runs at 2.5, which
is what one that is down shows (`SpeedAssumption`).

- `StableIsFound`. `Progress` says that each source asked for is still to be read or has been, and that
  once the kernel has been asked, or the fallback was given up, whatever has been mounted ever since the
  start is in the result or in the queue.
- `NoneIsRepeated`. `Distinct` says that every line in result and queue comes from a source that was
  read, each of which is read once, or from the fallback, which is not used if the
  mount command was such a source and listed anything.
- `KernelDefines`. `LiveFirst`: the first definition of a mount point, which deduplication
  keeps, is the kernel's as soon as the first default source has been read.
- `PortsAreChecked`, `DownHasCause`. `Facts` says of each port read that its rate is its speed
  unless the link was down meanwhile, and of the gathered mounts that they are still there in the same
  mode or have been lost, if none of them is on an automount point (`NoAutomountGathered`, the
  condition of `DownForCause`); `Checks` that `nhc.conf` is made from these.

`HpcTestsProofs` proves `TypeCorrect`, `ReportsOwnRun` (`ReportFresh`), `GridIsRight` (`GridFits`),
`MatrixIsRight` (`MatrixFaithful`) and `PingpongIsWhole` (`PingpongWhole`), for any selections of nodes,
any number of jobs, cores and ranks, and whichever lines of an output are lost. Assumptions: sinfo
lists a node once in a partition (`SelectionsAssumption`), and with at least one thread to a core
(`RowsAssumption`); the effective processors of a node are a natural number, which may
be 0 (`EffectiveAssumption`); nxnlatbw numbers ranks from 0 and
reports no negative latency; and `ImbAssumption` on what IMB-MPI1 may have written: one table, whose rows
come after its header and are of all sizes if it has its end, and not two foreign lines before
the header. (With two, an empty one last, `read_imb_out` takes the one for the header and ends at
the other: it plots no rows of a table that `read_imb_pingpong` reads.)

- `ReportsOwnRun`. `OwnRun` says that, if no task was left when the outputs were removed, every task is
  of this job, no two have one index, and an output has at most one line, none while its task is still to
  end. So there are never more lines than nodes, and if as many have passed as there are
  nodes then no other line was found (`CheckedIsWhole`, by counting).
- `GridIsRight`. The processes fit on every selected node because they fit on the one with the fewest
  effective processors, and as nodes agree in the threads of a core. The greatest factor whose
  square is not above `n` is the least side of a grid
  nearest to a square (`GridIsSquarest`).
- `MatrixIsRight`. There are as many ranks as names and none has no name, so the ranks are
  `0..n-1` (`PlotIsFaithful`).
- `PingpongIsWhole`. Each reader is a fold over the lines; the prover has no rule of induction, so
  `Stepwise` (by a least counterexample) and `FoldExists` give the sequence of states that a reader goes through
  (`PingpongTrace`, `ImbOutTrace`). Before the header one searches and the other is at most in an
  empty table that a foreign line started (`Before`); from it on both hold the lines since the header
  up to the empty one, unless either has failed (`After`), and a reader that reaches the end has
  passed the empty line.

`RepositoriesProofs` proves all properties of `Repositories.cfg`, for every table of repositories,
any number of snapshots, syncs and runs, and failures anywhere. Assumptions: the
tables name each other's entries (`RepoListAssumption`, `PathOfAssumption`), EPEL is a repository that
no switch skips (`EpelAssumption`), and the bound on snapshots is not below the first
(`MaxSnapshotsAssumption`).

- `PinsFollow`. What an update has collected lies between the pins and what Ark has (`PInv`), a
  failure discards it, and only a complete collection replaces the pins.
- `SyncedIsServed`, `ServedForGood`. A name on the local server contains path and
  timestamp, so that repositories, publications and distributions of one name never stand for
  another snapshot, at any stage of any sync (`PulpFaithful`); each stage has put there
  what it has passed (`SyncProgress`).
- `RolesInstallPinned`, `EndedDisables`. Both loops write what they pass, also over what epel-release brings
  (`RunProgress`), and a section is without `enabled` only if a run that did
  not end wrote it (`HostFiles`).

`CloudProjectProofs` proves all properties of `CloudProject.cfg`, for every set of nodes, servers,
zones and hypervisors, and any number of changes by others. Assumption (`CloudAssumption`): the
host ids are sequences of one length, differ from one another and do not begin with "master", being
hexadecimal; and the set of nodes is finite.

- `OnlyListedAreDeleted`. What the script has in hand, and each server that is being deleted for it, is in
  the list of its type, existed then and has a name with the prefix (`DInv`, `Old`); an id
  given out later is larger, and snapshots are only of volumes that are there.
- `DeletionEnds`. `Worked` says what is gone whatever others do, since they only take
  more away; `Alone` what is still there, so that nothing is in the way of a deletion, as long as
  there are neither others nor errors of a command (`erred`); `Linked` and `Waiting` that a
  volume is free once the servers are.
- `TreeShowsHosts`. `TInv`: the tree is that of the servers listed, and prefixes that are unique in
  number are a bijection of the host ids, over all zones. That the switches are a tree needs
  `ZonesApart`, a condition of `MapFaithful`, since their names are in one namespace.

Proof attempts corrected the model in two places. `StableReported` was false for a source
list that has `/proc/self/mounts`, a name of the kernel's table which `mount_facts.py` does not
know as dynamic: it is now a kernel's source of the model (`Kernel`), and one of the run's source
lists has it. And the assumptions about net devices and speeds were hidden in the
constants of the run.

Only model-checked: the liveness properties, out of the prover's reach (`RequestsSettle`,
`UpgradeCompletes`, `DeployCompletes`, `GatheringEnds`). All other properties of the passing runs
are theorems; the three runs that expect a violation have their counterexamples from TLC.

## Not modelled

- FreeIPA enrolment: the tasks run `ipa-client-install`, and whether an old keytab still
  enrols a rebuilt host depends on FreeIPA alone.
- Secrets and passwords: each is one task that writes one file from its earlier content
  and random values; there is nothing between two steps that a crash could find.
- The roles that only install and template (monitoring, portals, filesystems'
  own roles, image build): Ansible's idempotence is all the behaviour they have.
- Operators draining nodes for their own reasons before an upgrade, which
  `nextstate=RESUME` would undo; delays between batches; several clusters sharing one
  OpenStack project.
- `ComputeInit`: features configured like those in the model (manila, lustre,
  eessi, tuned, chrony, mounts, basic_users); a plain reboot; restarts of
  ansible-init by systemd.
- `PersistHostkeys`: a run of Ansible killed while its scripts go on.
- `NodeHealth`: ethernet and site-specific lines of `nhc.conf`.
- `BasicUsers`: the filter that chooses a user's parameters, groups, sudo rules, home
  directories and keys. `KernelModules`: check mode.
- `HpcTests`: building HPL, its problem size, the jobs of pingmatrix and pingpong
  themselves, the pictures.
- `Repositories`: installing the Pulp server, GPG keys, `pulp_content_url` and other overrides,
  credentials; runs in which `dnf_repos_enabled` is on at the end and `disable_repos.yml` is skipped.
- `CloudProject`: `topology_above_rack_topology`, which is empty by default: with switches above the
  zones a tree has more levels; that Slurm has to be restarted for a new tree.

## What is left

1. Compose `SlurmRebuild` with `ComputeInit` (a reboot's boot is a boot of
   `ComputeInit`; the export is one) and operators' own drains.
2. Proofs: what the composition of 1 needs.
