----------------------------- MODULE Repositories -----------------------------
(***************************************************************************)
(* The package repositories: the snapshots Ark publishes, the timestamps   *)
(* this repository pins (ci/update_timestamps.yml), the local Pulp server  *)
(* they are synced to (pulp_site), and the repo files of a host            *)
(* (dnf_repos). External: Ark, Pulp, dnf.                                  *)
(*                                                                         *)
(* A snapshot is a number, 1 for the oldest of its path; a URL below       *)
(* ".../pulp/content" is a pair <<path, snapshot>>.                        *)
(***************************************************************************)
EXTENDS Integers, FiniteSetsExt, SequencesExt, Functions

CONSTANTS
    RepoList,      \* the keys of dnf_repos_repos, in order
    PathOf,        \* pulp_path: [repository -> [version -> path]]
    Distros,       \* M.m versions of the distribution
    MajorOf,       \* [Distros -> major version]
    Epel,          \* the repository named "epel"
    Skippable,     \* dnf_repos_skip where Slurm does not come from OpenHPC
    MaxSnapshots,  \* bound: snapshots of a path
    MaxPublished,  \* bound: snapshots published after the start, over all paths
    MaxPlaybooks   \* bound: playbooks run

Repos == Range(RepoList)
Versions(r) == DOMAIN PathOf[r]
Paths == UNION {Range(PathOf[r]) : r \in Repos}

ASSUME RepoListAssumption == RepoList \in Seq(Repos)
ASSUME PathOfAssumption == DOMAIN PathOf = Repos
ASSUME EpelAssumption == Epel \in Repos /\ Skippable \subseteq Repos \ {Epel}

Initial == 2  \* snapshots of each path, of which the last is pinned
ASSUME MaxSnapshotsAssumption == MaxSnapshots \in Nat /\ MaxSnapshots >= Initial

VARIABLES
    ark,       \* [Paths -> number of snapshots Ark has]
    pins,      \* dnf_repo_timestamps.yml: [repository -> [version -> snapshot]]
    skipped,   \* dnf_repos_skip
    update,    \* the run of update_timestamps.yml: [pc, todo, got]
    sync,      \* the run of pulp_site's sync.yml: [pc, target, repos, todo]
    pulp,      \* the local Pulp server: [repository, publication, distribution]
    os,        \* the host's version
    files,     \* its repo files: [section -> [base, enabled]]
    run,       \* the playbook that configures it: [pc, repos, todo]
    played,    \* playbooks started
    partial    \* history: sections set_repos.yml wrote and no run has ended for

arkVars == <<pins, skipped, update>>
hostVars == <<os, files, run, partial>>
vars == <<ark, arkVars, sync, pulp, hostVars, played>>

Vendor == <<"vendor", 0>>  \* what a repo file that is not ours points at
Section(b, e) == [base |-> b, enabled |-> e]

(* A table with one entry added or replaced.                               *)
Put(table, key, entry) ==
    [k \in DOMAIN table \cup {key} |-> IF k = key THEN entry ELSE table[k]]

Init ==
    /\ ark = [p \in Paths |-> Initial]
    /\ pins = [r \in Repos |-> [v \in Versions(r) |-> Initial]]
    /\ skipped \in {{}, Skippable}
    /\ update = [pc |-> "idle", todo |-> <<>>, got |-> pins]
    /\ sync = [pc |-> "idle", target |-> CHOOSE v \in Distros : TRUE, repos |-> <<>>, todo |-> {}]
    /\ pulp = [repository |-> <<>>, publication |-> <<>>, distribution |-> <<>>]
    /\ os \in Distros
    /\ files = [s \in Repos \ {Epel} |-> Section(Vendor, "yes")]
    /\ run = [pc |-> "idle", repos |-> <<>>, todo |-> {}]
    /\ played = 0
    /\ partial = {}

(* One playbook at a time, from the one deploy host.                      *)
Running == run.pc \notin {"idle", "ended"}
Syncing == sync.pc \in {"repos", "pubs", "distros"}

Play ==
    /\ ~ Running /\ ~ Syncing /\ update.pc = "idle"
    /\ played < MaxPlaybooks
    /\ played' = played + 1

-----------------------------------------------------------------------------
(* Ark, and the timestamps: one GET per repository and version, and the    *)
(* file is overwritten only when all of them were answered.                *)

Published == FoldFunction(+, 0, ark)

Publish ==
    /\ Published < MaxPublished + Initial * Cardinality(Paths)
    /\ \E p \in Paths :
        /\ ark[p] < MaxSnapshots
        /\ ark' = [ark EXCEPT ![p] = @ + 1]
    /\ UNCHANGED <<arkVars, sync, pulp, hostVars, played>>

Entries == FoldSeq(LAMBDA r, s : SetToSeq({r} \X Versions(r)) \o s, <<>>, RepoList)

UpdateStarts ==
    /\ Play
    /\ update' = [pc |-> "get", todo |-> Entries, got |-> pins]
    /\ UNCHANGED <<ark, pins, skipped, sync, pulp, hostVars>>

(* Mutants: with its "/" the link names no snapshot; the first link.       *)
LatestWithSlash(p) == 0
LatestFirst(p) == 1

(* The last link of the listing, without its trailing "/".                 *)
Listing(p) == [s \in 1..ark[p] |-> s]

LatestTimestamp(p) == Last(Listing(p))

GetLatest ==
    /\ update.pc = "get"
    /\ update.todo # <<>>
    /\ LET e == Head(update.todo)
       IN update' = [update EXCEPT
            !.todo = Tail(@), !.got[e[1]][e[2]] = LatestTimestamp(PathOf[e[1]][e[2]])]
    /\ UNCHANGED <<ark, pins, skipped, sync, pulp, hostVars, played>>

GetFails ==
    /\ update.pc = "get"
    /\ update.todo # <<>>
    /\ update' = [update EXCEPT !.pc = "idle", !.todo = <<>>, !.got = pins]
    /\ UNCHANGED <<ark, pins, skipped, sync, pulp, hostVars, played>>

OverwriteTimestamps ==
    /\ update.pc = "get"
    /\ update.todo = <<>>
    /\ pins' = update.got
    /\ update' = [update EXCEPT !.pc = "idle"]
    /\ UNCHANGED <<ark, skipped, sync, pulp, hostVars, played>>

-----------------------------------------------------------------------------
(* pulp_site: what is synced for a version.                                *)

DnfRepos == Repos \ skipped  \* the keys of dnf_repos_repos

(* Mutant: the major version first.                                        *)
SelectedMajor(r, target) ==
    IF MajorOf[target] \in Versions(r) THEN {MajorOf[target]} ELSE {target} \cap Versions(r)

SelectedVersion(r, target) ==
    IF target \in Versions(r) THEN {target} ELSE {MajorOf[target]} \cap Versions(r)

(* Mutant: a name without the timestamp.                                   *)
NameWithoutTimestamp(r, v) == <<r, v, 1>>

(* A repository of the local server is named for its key, version and      *)
(* timestamp.                                                              *)
PulpRepoName(r, v) == <<r, v, pins[r][v]>>

(* select_repos: the list, by the positions of its members in RepoList.    *)
SelectRepos(target) ==
    LET relevant == {n \in DOMAIN RepoList :
                        RepoList[n] \in DnfRepos /\ SelectedVersion(RepoList[n], target) # {}}
        data(r) == LET v == CHOOSE v \in SelectedVersion(r, target) : TRUE
                   IN [name |-> PulpRepoName(r, v), path |-> PathOf[r][v], ts |-> pins[r][v]]
    IN [n \in relevant |-> data(RepoList[n])]

ToRpmRepo(d) == [name |-> d.name, url |-> <<d.path, d.ts>>]
ToRpmPub(d) == [repository |-> d.name]
ToRpmDistro(d) == [name |-> d.name, repository |-> d.name, base |-> <<d.path, d.ts>>]

SyncStarts(target) ==
    /\ Play
    /\ LET repos == SelectRepos(target)
       IN sync' = [pc |-> IF DOMAIN repos = {} THEN "done" ELSE "repos",
                   target |-> target, repos |-> repos, todo |-> DOMAIN repos]
    /\ UNCHANGED <<ark, arkVars, pulp, hostVars>>

NextStage == [repos |-> "pubs", pubs |-> "distros", distros |-> "done"]
Item == sync.repos[Min(sync.todo)]
Synced(stage) ==
    LET left == sync.todo \ {Min(sync.todo)}
    IN sync' = IF left # {} THEN [sync EXCEPT !.todo = left]
               ELSE [sync EXCEPT !.todo = DOMAIN sync.repos, !.pc = NextStage[stage]]

(* External: a repository is what its remote had when it was last synced,  *)
(* a publication what its repository had, and a distribution serves one at *)
(* a base path that no other distribution has.                             *)
SyncRepository ==
    /\ sync.pc = "repos"
    /\ LET r == ToRpmRepo(Item)
       IN pulp' = [pulp EXCEPT !.repository = Put(@, r.name, r.url)]
    /\ Synced("repos")
    /\ UNCHANGED <<ark, arkVars, hostVars, played>>

CreatePublication ==
    /\ sync.pc = "pubs"
    /\ LET p == ToRpmPub(Item)
       IN pulp' = [pulp EXCEPT !.publication = Put(@, p.repository, pulp.repository[p.repository])]
    /\ Synced("pubs")
    /\ UNCHANGED <<ark, arkVars, hostVars, played>>

Taken(d) == \E n \in DOMAIN pulp.distribution \ {d.name} : pulp.distribution[n].base = d.base

CreateDistribution ==
    /\ sync.pc = "distros"
    /\ LET d == ToRpmDistro(Item)
       IN /\ ~ Taken(d)
          /\ pulp' = [pulp EXCEPT !.distribution =
                Put(@, d.name, [base |-> d.base, content |-> pulp.publication[d.repository]])]
    /\ Synced("distros")
    /\ UNCHANGED <<ark, arkVars, hostVars, played>>

DistributionRefused ==
    /\ sync.pc = "distros"
    /\ Taken(ToRpmDistro(Item))
    /\ sync' = [sync EXCEPT !.pc = "failed"]
    /\ UNCHANGED <<ark, arkVars, pulp, hostVars, played>>

SyncFails ==
    /\ Syncing
    /\ sync' = [sync EXCEPT !.pc = "failed"]
    /\ UNCHANGED <<ark, arkVars, pulp, hostVars, played>>

Served == {pulp.distribution[n] : n \in DOMAIN pulp.distribution}

-----------------------------------------------------------------------------
(* dnf_repos on the host: set_repos.yml early in site.yml or fatimage.yml, *)
(* disable_repos.yml in final.yml.                                         *)

RepoOs(r) == IF os \in Versions(r) THEN os ELSE MajorOf[os]
BaseUrl(r) == <<PathOf[r][RepoOs(r)], pins[r][RepoOs(r)]>>
HostRepos == [r \in {r \in DnfRepos : RepoOs(r) \in Versions(r)} |-> BaseUrl(r)]

(* Mutant: the second loop does not find epel by its name.                 *)
LoopWithoutEpel(pc, repos) ==
    {n \in DOMAIN RepoList : pc = "set" /\ RepoList[n] \in DOMAIN repos \ {Epel}}

(* The items of dnf_repos_repos "when" lets through, by their positions.   *)
Loop(pc, repos) ==
    {n \in DOMAIN RepoList : RepoList[n] \in DOMAIN repos /\ ((RepoList[n] = Epel) <=> (pc = "epel"))}

AfterLoop == [set |-> "epel-release", epel |-> "roles"]

RunStarts ==
    /\ Play
    /\ run' = [pc |-> "set", repos |-> HostRepos, todo |-> Loop("set", HostRepos)]
    /\ UNCHANGED <<ark, arkVars, sync, pulp, os, files, partial>>

(* yum_repository replaces the section and leaves "enabled" out of it.     *)
SetRepo(pc) ==
    /\ run.pc = pc
    /\ run.todo # {}
    /\ LET n == Min(run.todo)
           r == RepoList[n]
       IN /\ files' = Put(files, r, Section(run.repos[r], "unset"))
          /\ partial' = partial \cup {r}
          /\ run' = [run EXCEPT !.todo = @ \ {n}]
    /\ UNCHANGED <<ark, arkVars, sync, pulp, os, played>>

SetReposEnds(pc) ==
    /\ run.pc = pc
    /\ run.todo = {}
    /\ run' = [run EXCEPT !.pc = AfterLoop[pc]]
    /\ UNCHANGED <<ark, arkVars, sync, pulp, os, files, partial, played>>

(* External: the package brings its own repo file unless there is one.     *)
InstallEpelRelease ==
    /\ run.pc = "epel-release"
    /\ files' = IF Epel \in DOMAIN files THEN files ELSE Put(files, Epel, Section(Vendor, "yes"))
    /\ run' = [run EXCEPT !.pc = "epel", !.todo = Loop("epel", run.repos)]
    /\ UNCHANGED <<ark, arkVars, sync, pulp, os, partial, played>>

(* The roles between: a site's hook may install a release package.         *)
RolesEnd(released) ==
    /\ run.pc = "roles"
    /\ files' = [s \in DOMAIN files \cup released |->
                    IF s \in DOMAIN files THEN files[s] ELSE Section(Vendor, "yes")]
    /\ run' = [run EXCEPT !.pc = "remove"]
    /\ UNCHANGED <<ark, arkVars, sync, pulp, os, partial, played>>

Idle == [pc |-> "idle", repos |-> <<>>, todo |-> {}]

(* Mutant: the section is rewritten without "enabled".                     *)
RemoveOnlyPassword(done) ==
    /\ run.pc = "remove"
    /\ files' = [s \in DOMAIN files \cup done |->
                    IF s \in done THEN Section(run.repos[s], "unset") ELSE files[s]]
    /\ run' = IF done = DOMAIN run.repos THEN [run EXCEPT !.pc = "disable"] ELSE Idle
    /\ UNCHANGED <<ark, arkVars, sync, pulp, os, partial, played>>

(* This loop and the next go on after an item that failed; the run ends    *)
(* after the loop unless every item is done.                               *)
RemovePassword(done) ==
    /\ run.pc = "remove"
    /\ files' = [s \in DOMAIN files \cup done |->
                    IF s \in done THEN Section(run.repos[s], "no") ELSE files[s]]
    /\ run' = IF done = DOMAIN run.repos THEN [run EXCEPT !.pc = "disable"] ELSE Idle
    /\ UNCHANGED <<ark, arkVars, sync, pulp, os, partial, played>>

(* The regular expression finds "enabled=1" and no missing "enabled".      *)
DisableEvery(done) ==
    /\ run.pc = "disable"
    /\ files' = [s \in DOMAIN files |->
                    IF s \in done /\ files[s].enabled = "yes"
                    THEN [files[s] EXCEPT !.enabled = "no"] ELSE files[s]]
    /\ IF done = DOMAIN files
       THEN /\ run' = [run EXCEPT !.pc = "ended", !.repos = <<>>]
            /\ partial' = partial \ DOMAIN run.repos
       ELSE run' = Idle /\ UNCHANGED partial
    /\ UNCHANGED <<ark, arkVars, sync, pulp, os, played>>

RunAborts ==
    /\ Running
    /\ run' = Idle
    /\ UNCHANGED <<ark, arkVars, sync, pulp, os, files, partial, played>>

(* The operator switches between OpenHPC's Slurm and another.              *)
SwitchSlurm ==
    /\ Play
    /\ skipped' = IF skipped = {} THEN Skippable ELSE {}
    /\ UNCHANGED <<ark, pins, update, sync, pulp, hostVars>>

Next ==
    \/ Publish
    \/ UpdateStarts
    \/ GetLatest
    \/ GetFails
    \/ OverwriteTimestamps
    \/ \E target \in Distros : SyncStarts(target)
    \/ SyncRepository
    \/ CreatePublication
    \/ CreateDistribution
    \/ DistributionRefused
    \/ SyncFails
    \/ RunStarts
    \/ \E pc \in {"set", "epel"} : SetRepo(pc) \/ SetReposEnds(pc)
    \/ InstallEpelRelease
    \/ \E released \in {{}, {"release"}} : RolesEnd(released)
    \/ \E done \in SUBSET DOMAIN run.repos : RemovePassword(done)
    \/ \E done \in SUBSET DOMAIN files : DisableEvery(done)
    \/ RunAborts
    \/ SwitchSlurm

Spec == Init /\ [][Next]_vars

-----------------------------------------------------------------------------
(* The values the variables take: every name, URL and stage is one that    *)
(* the repositories of dnf_repos_repos give.                               *)
Bases == Paths \X (1..MaxSnapshots)
Names == UNION {{<<r, v, s>> : v \in Versions(r), s \in 1..MaxSnapshots} : r \in Repos}
Shape(table) == DOMAIN table = Repos /\ \A r \in Repos : table[r] \in [Versions(r) -> 1..MaxSnapshots]

TypeOK ==
    /\ ark \in [Paths -> 1..MaxSnapshots]
    /\ Shape(pins) /\ Shape(update.got)
    /\ sync.pc \in {"idle", "repos", "pubs", "distros", "done", "failed"}
    /\ \A d \in Range(sync.repos) : d.name \in Names /\ <<d.path, d.ts>> \in Bases
    /\ DOMAIN pulp.distribution \subseteq DOMAIN pulp.publication
    /\ DOMAIN pulp.publication \subseteq DOMAIN pulp.repository
    /\ DOMAIN pulp.repository \subseteq Names
    /\ \A s \in DOMAIN files : files[s].base \in Bases \cup {Vendor}
    /\ run.pc \in {"idle", "set", "epel-release", "epel", "roles", "remove", "disable", "ended"}

(* An update moves every pin to a snapshot that Ark has, and to no older   *)
(* one than it had, whatever Ark publishes while the timestamps are        *)
(* collected and wherever the collection fails.                            *)
PinsFollowArk ==
    [][\A r \in Repos : \A v \in Versions(r) :
          pins'[r][v] \in pins[r][v]..ark'[PathOf[r][v]]]_vars

(* pulp_site's selection and dnf_repos' agree: after a sync for the        *)
(* version of a host ended, every baseurl its repo files would get from    *)
(* the same timestamps is served, as the snapshot of that timestamp.       *)
SyncedFor(version) ==
    /\ sync.pc = "done"
    /\ sync.target = version
    /\ sync.repos = SelectRepos(version)  \* neither pins nor skip list changed
SyncServesHosts ==
    SyncedFor(os) => \A b \in Range(HostRepos) : [base |-> b, content |-> b] \in Served

(* Reproducibility of what is built from the local server: a base path     *)
(* serves the snapshot of its timestamp and goes on doing so, through      *)
(* later timestamps, syncs for other versions and syncs that fail.         *)
ServedStays ==
    [][/\ Served \subseteq Served'
       /\ \A s \in Served' : s.content = s.base]_vars

(* While the roles install packages, every repository of the configuration *)
(* is the pinned one, epel too, whose file a package also writes.          *)
RolesUsePinned ==
    run.pc = "roles" => \A r \in DOMAIN run.repos : files[r].base = run.repos[r]

(* A run that ended leaves no repository enabled, but for those a run that *)
(* failed had written and the configuration no longer has.                 *)
Enabled == {s \in DOMAIN files : files[s].enabled # "no"}
OnlyAbortedEnabled ==
    run.pc = "ended" => Enabled \subseteq partial

=============================================================================
