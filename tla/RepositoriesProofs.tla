-------------------------- MODULE RepositoriesProofs --------------------------
(***************************************************************************)
(* Proofs about Repositories: for every list of repositories, versions and *)
(* paths, and any number of snapshots, updates, syncs, playbooks and       *)
(* failures of them.                                                       *)
(***************************************************************************)
EXTENDS Repositories, WellFoundedInduction, TLAPS

(* The table has a pin for every repository and version.                   *)
Table(t) ==
    /\ DOMAIN t = Repos
    /\ \A r \in Repos : DOMAIN t[r] = Versions(r) /\ \A v \in Versions(r) : t[r][v] \in Nat

(* Pins are snapshots that Ark has; what a running update has collected is *)
(* no older than the pins and is no newer than what Ark has.               *)
PInv ==
    /\ ark \in [Paths -> Nat \ {0}]
    /\ update = [pc |-> update.pc, todo |-> update.todo, got |-> update.got]
    /\ Table(pins)
    /\ Table(update.got)
    /\ \A r \in Repos : \A v \in Versions(r) :
          /\ pins[r][v] <= ark[PathOf[r][v]]
          /\ update.pc = "get" => /\ pins[r][v] <= update.got[r][v]
                                  /\ update.got[r][v] <= ark[PathOf[r][v]]

LEMMA PathsFact == \A r \in Repos : \A v \in Versions(r) : PathOf[r][v] \in Paths
BY DEF Paths, Versions, Range

(* What an update reads of a listing is the newest snapshot.               *)
LEMMA LatestIsNewest ==
    ASSUME NEW p \in Paths, ark[p] \in Nat \ {0}
    PROVE  LatestTimestamp(p) = ark[p]
<1> DEFINE n == ark[p]
<1>1. n \in Nat \ {0}
  OBVIOUS
<1>2. Len([s \in 1..n |-> s]) = n /\ [s \in 1..n |-> s][n] = n
  BY <1>1
<1> QED BY <1>2 DEF LatestTimestamp, Listing, Last

LEMMA InitPInv == Init => PInv
<1> SUFFICES ASSUME Init PROVE PInv
  OBVIOUS
<1>1. ark = [p \in Paths |-> 2] /\ pins = [r \in Repos |-> [v \in Versions(r) |-> 2]]
  BY DEF Init, Initial
<1>2. /\ update.pc = "idle" /\ update.got = pins
      /\ update = [pc |-> update.pc, todo |-> update.todo, got |-> update.got]
  BY DEF Init
<1>3. Table(pins) /\ Table(update.got)
  BY <1>1, <1>2 DEF Table
<1>4. \A r \in Repos : \A v \in Versions(r) : pins[r][v] <= ark[PathOf[r][v]]
  BY <1>1, PathsFact
<1> QED BY <1>1, <1>2, <1>3, <1>4 DEF PInv

LEMMA PublishPInv ==
    ASSUME PInv, Publish
    PROVE  /\ PInv'
           /\ \A p \in Paths : ark[p] <= ark'[p]
<1>1. UNCHANGED <<pins, update>>
  BY DEF Publish, arkVars
<1>2. /\ ark' \in [Paths -> Nat \ {0}]
      /\ \A p \in Paths : ark[p] \in Nat /\ ark'[p] \in Nat /\ ark[p] <= ark'[p]
  <2>1. PICK q \in Paths : ark' = [ark EXCEPT ![q] = @ + 1]
    BY DEF Publish
  <2> QED BY <2>1 DEF PInv
<1>3. \A r \in Repos : \A v \in Versions(r) :
        /\ pins[r][v] \in Nat /\ update.got[r][v] \in Nat
        /\ PathOf[r][v] \in Paths
  BY PathsFact DEF PInv, Table
<1>4. \A r \in Repos : \A v \in Versions(r) :
        /\ pins[r][v] <= ark'[PathOf[r][v]]
        /\ update.pc = "get" => /\ pins[r][v] <= update.got[r][v]
                                /\ update.got[r][v] <= ark'[PathOf[r][v]]
  BY <1>2, <1>3 DEF PInv
<1> QED BY <1>1, <1>2, <1>4 DEF PInv, Table

(* The step of the loop changes one entry, to what Ark has for it.         *)
LEMMA GetLatestMoves ==
    ASSUME PInv, GetLatest
    PROVE  /\ UNCHANGED <<ark, pins>> /\ update.pc = "get" /\ update'.pc = "get"
           /\ update' = [pc |-> update'.pc, todo |-> update'.todo, got |-> update'.got]
           /\ DOMAIN update'.got = Repos
           /\ \A r \in Repos : DOMAIN update'.got[r] = Versions(r)
           /\ \A r \in Repos : update.got[r] = [v \in Versions(r) |-> update.got[r][v]]
                                => update'.got[r] = [v \in Versions(r) |-> update'.got[r][v]]
           /\ \A r \in Repos : \A v \in Versions(r) :
                /\ PathOf[r][v] \in Paths /\ ark[PathOf[r][v]] \in Nat
                /\ update'.got[r][v] = update.got[r][v] \/ update'.got[r][v] = ark[PathOf[r][v]]
<1> DEFINE e == Head(update.todo)
           x == LatestTimestamp(PathOf[e[1]][e[2]])
<1>1. UNCHANGED <<ark, pins>> /\ update.pc = "get"
  BY DEF GetLatest
<1>2. update' = [update EXCEPT !.todo = Tail(@), !.got[e[1]][e[2]] = x]
  BY DEF GetLatest
<1> HIDE DEF e, x
<1>3. /\ update'.pc = "get"
      /\ update' = [pc |-> update'.pc, todo |-> update'.todo, got |-> update'.got]
      /\ update'.got = [update.got EXCEPT ![e[1]] = [@ EXCEPT ![e[2]] = x]]
  BY <1>1, <1>2 DEF PInv
<1>4. \A r \in Repos : \A v \in Versions(r) :
        update'.got[r][v] = IF r = e[1] /\ v = e[2] THEN x ELSE update.got[r][v]
  BY <1>3 DEF PInv, Table
<1>5. \A r \in Repos : \A v \in Versions(r) :
        r = e[1] /\ v = e[2] => x = ark[PathOf[r][v]]
  <2> SUFFICES ASSUME NEW r \in Repos, NEW v \in Versions(r), r = e[1], v = e[2]
               PROVE  x = ark[PathOf[r][v]]
    OBVIOUS
  <2>1. PathOf[r][v] \in Paths /\ ark[PathOf[r][v]] \in Nat \ {0}
    BY PathsFact DEF PInv
  <2> QED BY <2>1, LatestIsNewest DEF x
<1>6. \A r \in Repos : \A v \in Versions(r) :
        /\ PathOf[r][v] \in Paths /\ ark[PathOf[r][v]] \in Nat
        /\ update'.got[r][v] = update.got[r][v] \/ update'.got[r][v] = ark[PathOf[r][v]]
  BY <1>4, <1>5, PathsFact DEF PInv
<1>7. DOMAIN update'.got = Repos /\ \A r \in Repos : DOMAIN update'.got[r] = Versions(r)
  BY <1>3 DEF PInv, Table
<1>8. \A r \in Repos : update.got[r] = [v \in Versions(r) |-> update.got[r][v]]
                       => update'.got[r] = [v \in Versions(r) |-> update'.got[r][v]]
  BY <1>3 DEF PInv, Table
<1> QED BY <1>1, <1>3, <1>6, <1>7, <1>8

LEMMA GetLatestPInv == ASSUME PInv, GetLatest PROVE PInv'
<1>1. Table(update'.got)
  BY GetLatestMoves DEF PInv, Table
<1>2. \A r \in Repos : \A v \in Versions(r) :
        /\ pins[r][v] <= update'.got[r][v]
        /\ update'.got[r][v] <= ark[PathOf[r][v]]
  BY GetLatestMoves DEF PInv, Table
<1> QED BY GetLatestMoves, <1>1, <1>2 DEF PInv, Table

(* The steps of an update that read or write the timestamps as a whole.    *)
LEMMA UpdatePInv ==
    ASSUME PInv, UpdateStarts \/ GetFails \/ OverwriteTimestamps
    PROVE  PInv'
<1>1. CASE UpdateStarts
  <2>1. UNCHANGED <<ark, pins>> /\ update' = [pc |-> "get", todo |-> Entries, got |-> pins]
    BY <1>1 DEF UpdateStarts
  <2> QED BY <2>1 DEF PInv, Table
<1>2. CASE GetFails
  <2>1. UNCHANGED <<ark, pins>> /\ update' = [update EXCEPT !.pc = "idle", !.todo = <<>>, !.got = pins]
    BY <1>2 DEF GetFails
  <2> QED BY <2>1 DEF PInv, Table
<1>3. CASE OverwriteTimestamps
  <2>1. /\ update.pc = "get" /\ ark' = ark /\ pins' = update.got
        /\ update' = [update EXCEPT !.pc = "idle"]
    BY <1>3 DEF OverwriteTimestamps
  <2>2. /\ update'.pc = "idle" /\ update'.got = update.got
        /\ update' = [pc |-> update'.pc, todo |-> update'.todo, got |-> update'.got]
    BY <2>1 DEF PInv
  <2> QED BY <2>1, <2>2 DEF PInv, Table
<1> QED BY <1>1, <1>2, <1>3

(* The three groups of variables: a step changes one and leaves the rest.  *)
LEMMA StepsByPart ==
    ASSUME [Next]_vars
    PROVE  /\ \/ UNCHANGED <<ark, pins, update>>
              \/ Publish \/ GetLatest \/ UpdateStarts \/ GetFails \/ OverwriteTimestamps
           /\ \/ UNCHANGED <<sync, pulp>>
              \/ (\E target \in Distros : SyncStarts(target)) \/ SyncRepository \/ CreatePublication
              \/ CreateDistribution \/ DistributionRefused \/ SyncFails
           /\ \/ UNCHANGED <<files, run, partial>>
              \/ RunStarts \/ (\E pc \in {"set", "epel"} : SetRepo(pc) \/ SetReposEnds(pc))
              \/ InstallEpelRelease \/ (\E released \in {{}, {"release"}} : RolesEnd(released))
              \/ (\E done \in SUBSET DOMAIN run.repos : RemovePassword(done))
              \/ (\E done \in SUBSET DOMAIN files : DisableEvery(done)) \/ RunAborts
<1> QED BY DEF Next, vars, arkVars, hostVars, Publish, GetLatest, UpdateStarts, GetFails,
      OverwriteTimestamps, SyncStarts, SyncRepository, CreatePublication, CreateDistribution,
      DistributionRefused, SyncFails, RunStarts, SetRepo, SetReposEnds, InstallEpelRelease,
      RolesEnd, RemovePassword, DisableEvery, RunAborts, SwitchSlurm

LEMMA PInvStep == ASSUME PInv, [Next]_vars PROVE PInv'
<1>1. CASE UNCHANGED <<ark, pins, update>>
  BY <1>1 DEF PInv, Table
<1> QED BY <1>1, StepsByPart, PublishPInv, GetLatestPInv, UpdatePInv

(* A pin only moves to a newer snapshot that Ark has, or not at all,       *)
(* whatever Ark publishes while an update collects the timestamps and      *)
(* wherever the update fails.                                              *)
THEOREM PinsFollow == Spec => PinsFollowArk
<1>1. ASSUME PInv, [Next]_vars, NEW r \in Repos, NEW v \in Versions(r)
      PROVE  pins'[r][v] \in pins[r][v]..ark'[PathOf[r][v]]
  <2>1. PathOf[r][v] \in Paths /\ ark[PathOf[r][v]] \in Nat /\ pins[r][v] \in Nat
        /\ pins[r][v] <= ark[PathOf[r][v]]
    BY <1>1, PathsFact DEF PInv, Table
  <2>2. CASE pins' = pins /\ ark' = ark
    BY <2>1, <2>2
  <2>3. CASE Publish
    <3>1. pins' = pins /\ ark'[PathOf[r][v]] \in Nat /\ ark[PathOf[r][v]] <= ark'[PathOf[r][v]]
      BY <1>1, <2>1, <2>3, PublishPInv DEF Publish, arkVars, PInv
    <3> QED BY <2>1, <3>1
  <2>4. CASE OverwriteTimestamps
    <3>1. pins' = update.got /\ ark' = ark /\ update.pc = "get"
      BY <2>4 DEF OverwriteTimestamps
    <3> QED BY <1>1, <2>1, <3>1 DEF PInv, Table
  <2> QED BY <1>1, <2>2, <2>3, <2>4, StepsByPart DEF UpdateStarts, GetLatest, GetFails
<1>2. PInv /\ [Next]_vars => \A r \in Repos : \A v \in Versions(r) :
                                pins'[r][v] \in pins[r][v]..ark'[PathOf[r][v]]
  BY <1>1
<1>3. PInv /\ [Next]_vars => PInv'
  BY PInvStep
<1> QED BY InitPInv, <1>2, <1>3, PTL DEF Spec, PinsFollowArk

-----------------------------------------------------------------------------
(* The invariant for the other properties, in the parts that the update    *)
(* (Tables), pulp_site (the next three) and dnf_repos (the last three)     *)
(* change.                                                                 *)
Tables == PInv /\ ark \in [Paths -> 1..MaxSnapshots] /\ Shape(pins) /\ Shape(update.got)

(* What a name on the local server stands for.                             *)
UrlOf(n) == <<PathOf[n[1]][n[2]], n[3]>>

SyncShape ==
    /\ sync = [pc |-> sync.pc, target |-> sync.target, repos |-> sync.repos, todo |-> sync.todo]
    /\ sync.pc \in {"idle", "repos", "pubs", "distros", "done", "failed"}
    /\ DOMAIN sync.repos \subseteq DOMAIN RepoList
    /\ \A i \in DOMAIN sync.repos :
          LET d == sync.repos[i] IN d.name \in Names /\ <<d.path, d.ts>> = UrlOf(d.name)
    /\ sync.todo \subseteq DOMAIN sync.repos
    /\ Syncing => sync.todo # {}

(* A name never stands for another snapshot, at any stage of any sync.     *)
PulpFaithful ==
    /\ pulp = [repository |-> pulp.repository, publication |-> pulp.publication,
               distribution |-> pulp.distribution]
    /\ DOMAIN pulp.distribution \subseteq DOMAIN pulp.publication
    /\ DOMAIN pulp.publication \subseteq DOMAIN pulp.repository
    /\ DOMAIN pulp.repository \subseteq Names
    /\ \A n \in DOMAIN pulp.repository : pulp.repository[n] = UrlOf(n)
    /\ \A n \in DOMAIN pulp.publication : pulp.publication[n] = UrlOf(n)
    /\ \A n \in DOMAIN pulp.distribution :
          pulp.distribution[n] = [base |-> UrlOf(n), content |-> UrlOf(n)]

(* What the stages of the running sync have put on the server.             *)
SyncProgress ==
    LET all == DOMAIN sync.repos
        in(table, done) == \A i \in done : sync.repos[i].name \in DOMAIN table
    IN /\ sync.pc = "repos" => in(pulp.repository, all \ sync.todo)
       /\ sync.pc = "pubs" => /\ in(pulp.repository, all)
                              /\ in(pulp.publication, all \ sync.todo)
       /\ sync.pc = "distros" => /\ in(pulp.publication, all)
                                 /\ in(pulp.distribution, all \ sync.todo)
       /\ sync.pc = "done" => in(pulp.distribution, all)

(* A section without "enabled" is one that a run wrote and none ended for. *)
HostFiles ==
    \A s \in DOMAIN files :
        /\ files[s] = Section(files[s].base, files[s].enabled)
        /\ files[s].base \in Bases \cup {Vendor}
        /\ files[s].enabled \in {"yes", "no", "unset"}
        /\ files[s].enabled = "unset" => s \in partial

RunShape ==
    /\ run = [pc |-> run.pc, repos |-> run.repos, todo |-> run.todo]
    /\ run.pc \in {"idle", "set", "epel-release", "epel", "roles", "remove", "disable", "ended"}
    /\ DOMAIN run.repos \subseteq Repos
    /\ \A r \in DOMAIN run.repos : run.repos[r] \in Bases
    /\ run.pc \in {"set", "epel"} => run.todo \subseteq Loop(run.pc, run.repos)

(* What the steps of the running playbook have written.                    *)
RunProgress ==
    LET written(done) == \A n \in done :
            LET r == RepoList[n] IN r \in DOMAIN files /\ files[r].base = run.repos[r]
        first == Loop("set", run.repos)
        second == Loop("epel", run.repos)
    IN /\ run.pc = "set" => written(first \ run.todo)
       /\ run.pc \in {"epel-release", "epel", "roles"} => written(first)
       /\ run.pc = "epel" => written(second \ run.todo)
       /\ run.pc = "roles" => written(second)
       /\ run.pc = "disable" => \A r \in DOMAIN run.repos : r \in DOMAIN files /\ files[r].enabled = "no"
       /\ run.pc = "ended" => Enabled \subseteq partial

SyncInv == SyncShape /\ PulpFaithful /\ SyncProgress
HostInv == HostFiles /\ RunShape /\ RunProgress
IInv == Tables /\ SyncInv /\ HostInv

-----------------------------------------------------------------------------
(* Lemmas about the operators.                                             *)
LEMMA LeastIsMember == ASSUME NEW S, S \subseteq Nat, S # {} PROVE Min(S) \in S
<1>1. PICK x \in S : \A y \in S : <<y, x>> \notin OpToRel(<, Nat)
  BY NatLessThanWellFounded, WFMin
<1>2. ASSUME NEW y \in S PROVE x <= y
  <2>1. <<y, x>> \in Nat \X Nat /\ y \in Nat /\ x \in Nat
    OBVIOUS
  <2>2. ~ (y < x)
    BY <1>1, <2>1 DEF OpToRel
  <2> QED BY <2>1, <2>2
<1> QED BY <1>2 DEF Min

LEMMA PositionsAreNat ==
    /\ DOMAIN RepoList \subseteq Nat
    /\ \A n \in DOMAIN RepoList : RepoList[n] \in Repos
    /\ \A r \in Repos : \E n \in DOMAIN RepoList : RepoList[n] = r
<1>1. RepoList \in Seq(Repos)
  BY RepoListAssumption DEF RepoListAssumption
<1>2. DOMAIN RepoList = 1..Len(RepoList) /\ Len(RepoList) \in Nat
  BY <1>1
<1> QED BY <1>2 DEF Repos, Range

LEMMA NamesFact ==
    ASSUME NEW r \in Repos, NEW v \in Versions(r), NEW s \in 1..MaxSnapshots
    PROVE  <<r, v, s>> \in Names /\ UrlOf(<<r, v, s>>) \in Bases
<1>1. <<r, v, s>> \in {<<r, w, t>> : w \in Versions(r), t \in 1..MaxSnapshots}
  OBVIOUS
<1>2. <<r, v, s>> \in Names
  BY <1>1 DEF Names
<1>3. UrlOf(<<r, v, s>>) = <<PathOf[r][v], s>>
  BY DEF UrlOf
<1> QED BY <1>2, <1>3, PathsFact DEF Bases

LEMMA UrlFact == ASSUME NEW n \in Names PROVE UrlOf(n) \in Bases
<1>1. PICK r \in Repos : n \in {<<r, v, s>> : v \in Versions(r), s \in 1..MaxSnapshots}
  BY DEF Names
<1>2. PICK v \in Versions(r), s \in 1..MaxSnapshots : n = <<r, v, s>>
  BY <1>1
<1> QED BY <1>2, NamesFact

(* What select_repos lists.                                                *)
LEMMA SelectedAre ==
    ASSUME NEW target
    PROVE  DOMAIN SelectRepos(target) =
             {n \in DOMAIN RepoList :
                 RepoList[n] \in DnfRepos /\ SelectedVersion(RepoList[n], target) # {}}
BY DEF SelectRepos

LEMMA SelectedIs ==
    ASSUME NEW target, NEW n \in DOMAIN SelectRepos(target)
    PROVE  \E v \in SelectedVersion(RepoList[n], target) :
               SelectRepos(target)[n] =
                   [name |-> <<RepoList[n], v, pins[RepoList[n]][v]>>,
                    path |-> PathOf[RepoList[n]][v], ts |-> pins[RepoList[n]][v]]
<1> DEFINE r == RepoList[n]
           v == CHOOSE v \in SelectedVersion(r, target) : TRUE
<1>1. v \in SelectedVersion(r, target)
  BY SelectedAre
<1>2. SelectRepos(target)[n] =
          [name |-> <<r, v, pins[r][v]>>, path |-> PathOf[r][v], ts |-> pins[r][v]]
  BY SelectedAre DEF SelectRepos, PulpRepoName
<1> QED BY <1>1, <1>2

(* Every repository select_repos lists is named for the URL it is synced   *)
(* from, and is the one the host of the version looks for.                 *)
LEMMA SelectFact ==
    ASSUME Shape(pins), NEW target
    PROVE  LET repos == SelectRepos(target)
           IN /\ DOMAIN repos = {n \in DOMAIN RepoList :
                    RepoList[n] \in DnfRepos /\ SelectedVersion(RepoList[n], target) # {}}
              /\ \A n \in DOMAIN repos :
                    \E v \in SelectedVersion(RepoList[n], target) :
                        repos[n] = [name |-> <<RepoList[n], v, pins[RepoList[n]][v]>>,
                                    path |-> PathOf[RepoList[n]][v], ts |-> pins[RepoList[n]][v]]
              /\ \A n \in DOMAIN repos : /\ repos[n].name \in Names
                                         /\ <<repos[n].path, repos[n].ts>> = UrlOf(repos[n].name)
<1> DEFINE repos == SelectRepos(target)
<1>1. DOMAIN repos = {n \in DOMAIN RepoList :
          RepoList[n] \in DnfRepos /\ SelectedVersion(RepoList[n], target) # {}}
  BY SelectedAre
<1>2. ASSUME NEW n \in DOMAIN repos
      PROVE  \E v \in SelectedVersion(RepoList[n], target) :
                repos[n] = [name |-> <<RepoList[n], v, pins[RepoList[n]][v]>>,
                            path |-> PathOf[RepoList[n]][v], ts |-> pins[RepoList[n]][v]]
  BY SelectedIs
<1>3. ASSUME NEW n \in DOMAIN repos
      PROVE  repos[n].name \in Names /\ <<repos[n].path, repos[n].ts>> = UrlOf(repos[n].name)
  <2> DEFINE r == RepoList[n]
  <2>1. PICK v \in SelectedVersion(r, target) :
          repos[n] = [name |-> <<r, v, pins[r][v]>>, path |-> PathOf[r][v], ts |-> pins[r][v]]
    BY <1>2
  <2>2. r \in Repos
    BY <1>1 DEF DnfRepos
  <2>3. v \in Versions(r)
    BY <2>1 DEF SelectedVersion
  <2>4. pins[r][v] \in 1..MaxSnapshots
    BY <2>2, <2>3 DEF Shape
  <2> HIDE DEF r
  <2>5. repos[n].name = <<r, v, pins[r][v]>> /\ repos[n].name \in Names
    BY <2>1, <2>2, <2>3, <2>4, NamesFact
  <2>6. UrlOf(repos[n].name) = <<PathOf[r][v], pins[r][v]>>
    BY <2>5 DEF UrlOf
  <2>7. repos[n].path = PathOf[r][v] /\ repos[n].ts = pins[r][v]
    BY <2>1
  <2> QED BY <2>5, <2>6, <2>7
<1> QED BY <1>1, <1>2, <1>3

(* The URLs a host's repo files are given are pinned snapshots.            *)
LEMMA HostReposFact ==
    ASSUME Shape(pins)
    PROVE  /\ DOMAIN HostRepos \subseteq DnfRepos /\ DnfRepos \subseteq Repos
           /\ \A r \in DOMAIN HostRepos : /\ HostRepos[r] = <<PathOf[r][RepoOs(r)], pins[r][RepoOs(r)]>>
                                          /\ RepoOs(r) \in Versions(r)
                                          /\ HostRepos[r] \in Bases
<1>1. DOMAIN HostRepos = {r \in DnfRepos : RepoOs(r) \in Versions(r)} /\ DnfRepos \subseteq Repos
  BY DEF HostRepos, DnfRepos
<1>2. ASSUME NEW r \in DOMAIN HostRepos
      PROVE  HostRepos[r] = <<PathOf[r][RepoOs(r)], pins[r][RepoOs(r)]>> /\ HostRepos[r] \in Bases
  <2>1. HostRepos[r] = <<PathOf[r][RepoOs(r)], pins[r][RepoOs(r)]>>
    BY <1>1 DEF HostRepos, BaseUrl
  <2> QED BY <1>1, <2>1, PathsFact DEF Shape, Bases
<1> QED BY <1>1, <1>2

-----------------------------------------------------------------------------
(* The update.                                                             *)
LEMMA InitTables == Init => Tables
<1> SUFFICES ASSUME Init PROVE Tables
  OBVIOUS
<1>1. 2 \in 1..MaxSnapshots
  BY MaxSnapshotsAssumption DEF MaxSnapshotsAssumption, Initial
<1>2. /\ ark = [p \in Paths |-> 2] /\ pins = [r \in Repos |-> [v \in Versions(r) |-> 2]]
      /\ update.got = pins
  BY DEF Init, Initial
<1>3. Shape(pins) /\ Shape(update.got)
  BY <1>1, <1>2 DEF Shape
<1> QED BY <1>1, <1>2, <1>3, InitPInv DEF Tables

LEMMA TablesStep == ASSUME Tables, [Next]_vars PROVE Tables'
<1> USE MaxSnapshotsAssumption DEF MaxSnapshotsAssumption, Initial
<1>1. PInv /\ PInv'
  BY PInvStep DEF Tables
<1>2. CASE UNCHANGED <<ark, pins, update>>
  BY <1>1, <1>2 DEF Tables, Shape
<1>3. CASE Publish
  <2>1. PICK q \in Paths : ark[q] < MaxSnapshots /\ ark' = [ark EXCEPT ![q] = @ + 1]
    BY <1>3 DEF Publish
  <2>2. ark' \in [Paths -> 1..MaxSnapshots]
    BY <2>1 DEF Tables
  <2> QED BY <1>1, <1>3, <2>2 DEF Publish, arkVars, Tables, Shape
<1>4. CASE GetLatest
  <2>1. \A r \in Repos : update'.got[r] \in [Versions(r) -> 1..MaxSnapshots]
    <3> SUFFICES ASSUME NEW r \in Repos
                 PROVE  update'.got[r] \in [Versions(r) -> 1..MaxSnapshots]
      OBVIOUS
    <3>1. update.got[r] \in [Versions(r) -> 1..MaxSnapshots]
      BY DEF Tables, Shape
    <3>2. update'.got[r] = [v \in Versions(r) |-> update'.got[r][v]]
      BY <1>1, <1>4, <3>1, GetLatestMoves
    <3>3. \A v \in Versions(r) : update'.got[r][v] \in 1..MaxSnapshots
      <4> SUFFICES ASSUME NEW v \in Versions(r) PROVE update'.got[r][v] \in 1..MaxSnapshots
        OBVIOUS
      <4>1. /\ PathOf[r][v] \in Paths
            /\ update'.got[r][v] = update.got[r][v] \/ update'.got[r][v] = ark[PathOf[r][v]]
        BY <1>1, <1>4, GetLatestMoves
      <4>2. ark[PathOf[r][v]] \in 1..MaxSnapshots
        BY <4>1 DEF Tables
      <4> QED BY <3>1, <4>1, <4>2
    <3> QED BY <3>2, <3>3
  <2>2. DOMAIN update'.got = Repos /\ UNCHANGED <<ark, pins>>
    BY <1>1, <1>4, GetLatestMoves
  <2> QED BY <1>1, <2>1, <2>2 DEF Tables, Shape
<1>5. CASE UpdateStarts
  <2>1. UNCHANGED <<ark, pins>> /\ update'.got = pins
    BY <1>5 DEF UpdateStarts
  <2> QED BY <1>1, <2>1 DEF Tables, Shape
<1>6. CASE GetFails
  <2>1. UNCHANGED <<ark, pins>> /\ update' = [update EXCEPT !.pc = "idle", !.todo = <<>>, !.got = pins]
    BY <1>6 DEF GetFails
  <2>2. update'.got = pins
    BY <1>1, <2>1 DEF PInv
  <2> QED BY <1>1, <2>1, <2>2 DEF Tables, Shape
<1>7. CASE OverwriteTimestamps
  <2>1. ark' = ark /\ pins' = update.got /\ update' = [update EXCEPT !.pc = "idle"]
    BY <1>7 DEF OverwriteTimestamps
  <2>2. update'.got = update.got
    BY <1>1, <2>1 DEF PInv
  <2> QED BY <1>1, <2>1, <2>2 DEF Tables, Shape
<1> QED BY <1>2, <1>3, <1>4, <1>5, <1>6, <1>7, StepsByPart

-----------------------------------------------------------------------------
(* pulp_site.                                                              *)
LEMMA InitSync == Init => SyncInv
<1> SUFFICES ASSUME Init PROVE SyncInv
  OBVIOUS
<1>1. /\ sync = [pc |-> "idle", target |-> CHOOSE v \in Distros : TRUE, repos |-> <<>>, todo |-> {}]
      /\ pulp = [repository |-> <<>>, publication |-> <<>>, distribution |-> <<>>]
      /\ DOMAIN <<>> = {}
  BY DEF Init
<1>2. SyncShape
  BY <1>1 DEF SyncShape, Syncing
<1>3. PulpFaithful
  BY <1>1 DEF PulpFaithful
<1>4. SyncProgress
  BY <1>1 DEF SyncProgress
<1> QED BY <1>2, <1>3, <1>4 DEF SyncInv

LEMMA ItemFact ==
    ASSUME SyncShape, Syncing
    PROVE  LET m == Min(sync.todo)
           IN /\ m \in sync.todo /\ m \in DOMAIN sync.repos
              /\ Item = sync.repos[m]
              /\ Item.name \in Names /\ <<Item.path, Item.ts>> = UrlOf(Item.name)
<1>1. sync.todo \subseteq Nat /\ sync.todo # {}
  BY PositionsAreNat DEF SyncShape
<1>2. Min(sync.todo) \in sync.todo /\ Min(sync.todo) \in DOMAIN sync.repos
  BY <1>1, LeastIsMember DEF SyncShape
<1> QED BY <1>2 DEF Item, SyncShape

(* The end of an item: the next one, or the next stage with all of them.   *)
LEMMA SyncedFact ==
    ASSUME SyncShape, NEW stage \in {"repos", "pubs", "distros"}, sync.pc = stage, Synced(stage)
    PROVE  LET m == Min(sync.todo)
           IN /\ SyncShape'
              /\ sync'.repos = sync.repos
              /\ \/ sync'.pc = stage /\ sync'.todo = sync.todo \ {m}
                 \/ /\ sync'.pc = NextStage[stage] /\ sync'.todo = DOMAIN sync.repos
                    /\ sync.todo \subseteq {m}
<1> DEFINE m == Min(sync.todo)
           left == sync.todo \ {m}
<1>1. m \in sync.todo /\ m \in DOMAIN sync.repos
  BY ItemFact DEF Syncing
<1>2. CASE left # {}
  <2>1. sync' = [sync EXCEPT !.todo = left]
    BY <1>2 DEF Synced
  <2>2. /\ sync' = [pc |-> sync'.pc, target |-> sync'.target, repos |-> sync'.repos, todo |-> sync'.todo]
        /\ sync'.pc = stage /\ sync'.repos = sync.repos /\ sync'.todo = left
    BY <2>1 DEF SyncShape
  <2> QED BY <1>2, <2>2 DEF SyncShape, Syncing
<1>3. CASE left = {}
  <2>1. sync' = [sync EXCEPT !.todo = DOMAIN sync.repos, !.pc = NextStage[stage]]
    BY <1>3 DEF Synced
  <2>2. /\ sync' = [pc |-> sync'.pc, target |-> sync'.target, repos |-> sync'.repos, todo |-> sync'.todo]
        /\ sync'.pc = NextStage[stage] /\ sync'.repos = sync.repos /\ sync'.todo = DOMAIN sync.repos
    BY <2>1 DEF SyncShape
  <2>3. NextStage[stage] \in {"pubs", "distros", "done"}
    BY DEF NextStage
  <2>4. SyncShape'
    BY <1>1, <2>2, <2>3 DEF SyncShape, Syncing
  <2> QED BY <1>3, <2>2, <2>4
<1> QED BY <1>2, <1>3

LEMMA SyncStartsInv ==
    ASSUME SyncInv, Tables, NEW target, SyncStarts(target)
    PROVE  SyncInv'
<1> DEFINE repos == SelectRepos(target)
<1>1. /\ sync' = [pc |-> IF DOMAIN repos = {} THEN "done" ELSE "repos",
                  target |-> target, repos |-> repos, todo |-> DOMAIN repos]
      /\ pulp' = pulp
  BY DEF SyncStarts
<1>2. /\ DOMAIN repos \subseteq DOMAIN RepoList
      /\ \A n \in DOMAIN repos : /\ repos[n].name \in Names
                                 /\ <<repos[n].path, repos[n].ts>> = UrlOf(repos[n].name)
  BY SelectFact DEF Tables
<1> HIDE DEF repos
<1>3. SyncShape'
  BY <1>1, <1>2 DEF SyncShape, Syncing
<1>4. PulpFaithful'
  BY <1>1 DEF SyncInv, PulpFaithful
<1>5. SyncProgress'
  BY <1>1 DEF SyncProgress
<1> QED BY <1>3, <1>4, <1>5 DEF SyncInv

LEMMA SyncRepositoryInv == ASSUME SyncInv, SyncRepository PROVE SyncInv'
<1> DEFINE m == Min(sync.todo)
<1>1. /\ sync.pc = "repos" /\ Synced("repos")
      /\ pulp' = [pulp EXCEPT !.repository = Put(@, Item.name, <<Item.path, Item.ts>>)]
  BY DEF SyncRepository, ToRpmRepo
<1>2. /\ m \in sync.todo /\ Item = sync.repos[m]
      /\ Item.name \in Names /\ <<Item.path, Item.ts>> = UrlOf(Item.name)
  BY <1>1, ItemFact DEF SyncInv, Syncing
<1>3. /\ SyncShape' /\ sync'.repos = sync.repos
      /\ \/ sync'.pc = "repos" /\ sync'.todo = sync.todo \ {m}
         \/ /\ sync'.pc = "pubs" /\ sync'.todo = DOMAIN sync.repos
            /\ sync.todo \subseteq {m}
  BY <1>1, SyncedFact DEF SyncInv, NextStage
<1>4. /\ pulp' = [repository |-> pulp'.repository, publication |-> pulp'.publication,
                  distribution |-> pulp'.distribution]
      /\ pulp'.repository = Put(pulp.repository, Item.name, UrlOf(Item.name))
      /\ pulp'.publication = pulp.publication /\ pulp'.distribution = pulp.distribution
  BY <1>1, <1>2 DEF SyncInv, PulpFaithful
<1> HIDE DEF m
<1>5. /\ DOMAIN pulp'.repository = DOMAIN pulp.repository \cup {Item.name}
      /\ pulp'.repository[Item.name] = UrlOf(Item.name)
      /\ \A k \in DOMAIN pulp.repository \ {Item.name} : pulp'.repository[k] = pulp.repository[k]
  BY <1>4 DEF Put
<1>6. PulpFaithful'
  BY <1>2, <1>4, <1>5 DEF SyncInv, PulpFaithful
<1>7. SyncProgress'
  <2>1. CASE sync'.pc = "repos" /\ sync'.todo = sync.todo \ {m}
    BY <1>1, <1>2, <1>3, <1>5, <2>1 DEF SyncInv, SyncProgress
  <2>2. CASE sync'.pc = "pubs" /\ sync.todo \subseteq {m}
    BY <1>1, <1>2, <1>3, <1>5, <2>2 DEF SyncInv, SyncProgress
  <2> QED BY <1>3, <2>1, <2>2
<1> QED BY <1>3, <1>6, <1>7 DEF SyncInv

LEMMA CreatePublicationInv == ASSUME SyncInv, CreatePublication PROVE SyncInv'
<1> DEFINE m == Min(sync.todo)
<1>1. /\ sync.pc = "pubs" /\ Synced("pubs")
      /\ pulp' = [pulp EXCEPT !.publication = Put(@, Item.name, pulp.repository[Item.name])]
  BY DEF CreatePublication, ToRpmPub
<1>2. /\ m \in sync.todo /\ m \in DOMAIN sync.repos /\ Item = sync.repos[m] /\ Item.name \in Names
  BY <1>1, ItemFact DEF SyncInv, Syncing
<1>3. /\ SyncShape' /\ sync'.repos = sync.repos
      /\ \/ sync'.pc = "pubs" /\ sync'.todo = sync.todo \ {m}
         \/ /\ sync'.pc = "distros" /\ sync'.todo = DOMAIN sync.repos
            /\ sync.todo \subseteq {m}
  BY <1>1, SyncedFact DEF SyncInv, NextStage
<1>4. Item.name \in DOMAIN pulp.repository
  BY <1>1, <1>2 DEF SyncInv, SyncProgress
<1>5. /\ pulp' = [repository |-> pulp'.repository, publication |-> pulp'.publication,
                  distribution |-> pulp'.distribution]
      /\ pulp'.publication = Put(pulp.publication, Item.name, UrlOf(Item.name))
      /\ pulp'.repository = pulp.repository /\ pulp'.distribution = pulp.distribution
  BY <1>1, <1>4 DEF SyncInv, PulpFaithful
<1> HIDE DEF m
<1>6. /\ DOMAIN pulp'.publication = DOMAIN pulp.publication \cup {Item.name}
      /\ pulp'.publication[Item.name] = UrlOf(Item.name)
      /\ \A k \in DOMAIN pulp.publication \ {Item.name} : pulp'.publication[k] = pulp.publication[k]
  BY <1>5 DEF Put
<1>7. PulpFaithful'
  BY <1>4, <1>5, <1>6 DEF SyncInv, PulpFaithful
<1>8. SyncProgress'
  <2>1. CASE sync'.pc = "pubs" /\ sync'.todo = sync.todo \ {m}
    BY <1>1, <1>2, <1>3, <1>5, <1>6, <2>1 DEF SyncInv, SyncProgress
  <2>2. CASE sync'.pc = "distros" /\ sync.todo \subseteq {m}
    BY <1>1, <1>2, <1>3, <1>5, <1>6, <2>2 DEF SyncInv, SyncProgress
  <2> QED BY <1>3, <2>1, <2>2
<1> QED BY <1>3, <1>7, <1>8 DEF SyncInv

(* A distribution is only ever created anew or again as what it was.       *)
LEMMA CreateDistributionPuts ==
    ASSUME SyncInv, CreateDistribution
    PROVE  /\ sync.pc = "distros" /\ Synced("distros")
           /\ Item.name \in DOMAIN pulp.publication
           /\ pulp' = [repository |-> pulp'.repository, publication |-> pulp'.publication,
                       distribution |-> pulp'.distribution]
           /\ pulp'.distribution = Put(pulp.distribution, Item.name,
                                       [base |-> UrlOf(Item.name), content |-> UrlOf(Item.name)])
           /\ pulp'.repository = pulp.repository /\ pulp'.publication = pulp.publication
<1>1. /\ sync.pc = "distros" /\ Synced("distros")
      /\ pulp' = [pulp EXCEPT !.distribution =
                    Put(@, Item.name, [base |-> <<Item.path, Item.ts>>,
                                       content |-> pulp.publication[Item.name]])]
  BY DEF CreateDistribution, ToRpmDistro
<1>2. /\ Min(sync.todo) \in DOMAIN sync.repos /\ Item = sync.repos[Min(sync.todo)]
      /\ <<Item.path, Item.ts>> = UrlOf(Item.name)
  BY <1>1, ItemFact DEF SyncInv, Syncing
<1>3. Item.name \in DOMAIN pulp.publication
  BY <1>1, <1>2 DEF SyncInv, SyncProgress
<1>4. pulp.publication[Item.name] = UrlOf(Item.name)
  BY <1>3 DEF SyncInv, PulpFaithful
<1> QED BY <1>1, <1>2, <1>3, <1>4 DEF SyncInv, PulpFaithful

LEMMA CreateDistributionInv == ASSUME SyncInv, CreateDistribution PROVE SyncInv'
<1> DEFINE m == Min(sync.todo)
<1>1. /\ sync.pc = "distros" /\ Synced("distros")
      /\ Item.name \in DOMAIN pulp.publication
      /\ pulp' = [repository |-> pulp'.repository, publication |-> pulp'.publication,
                  distribution |-> pulp'.distribution]
      /\ pulp'.distribution = Put(pulp.distribution, Item.name,
                                  [base |-> UrlOf(Item.name), content |-> UrlOf(Item.name)])
      /\ pulp'.repository = pulp.repository /\ pulp'.publication = pulp.publication
  BY CreateDistributionPuts
<1>2. /\ m \in sync.todo /\ m \in DOMAIN sync.repos /\ Item = sync.repos[m] /\ Item.name \in Names
  BY <1>1, ItemFact DEF SyncInv, Syncing
<1>3. /\ SyncShape' /\ sync'.repos = sync.repos
      /\ \/ sync'.pc = "distros" /\ sync'.todo = sync.todo \ {m}
         \/ /\ sync'.pc = "done" /\ sync'.todo = DOMAIN sync.repos
            /\ sync.todo \subseteq {m}
  BY <1>1, SyncedFact DEF SyncInv, NextStage
<1> HIDE DEF m
<1>4. /\ DOMAIN pulp'.distribution = DOMAIN pulp.distribution \cup {Item.name}
      /\ pulp'.distribution[Item.name] = [base |-> UrlOf(Item.name), content |-> UrlOf(Item.name)]
      /\ \A k \in DOMAIN pulp.distribution \ {Item.name} : pulp'.distribution[k] = pulp.distribution[k]
  BY <1>1 DEF Put
<1>5. PulpFaithful'
  BY <1>1, <1>4 DEF SyncInv, PulpFaithful
<1>6. SyncProgress'
  <2>1. CASE sync'.pc = "distros" /\ sync'.todo = sync.todo \ {m}
    BY <1>1, <1>2, <1>3, <1>4, <2>1 DEF SyncInv, SyncProgress
  <2>2. CASE sync'.pc = "done" /\ sync.todo \subseteq {m}
    BY <1>1, <1>2, <1>3, <1>4, <2>2 DEF SyncInv, SyncProgress
  <2> QED BY <1>3, <2>1, <2>2
<1> QED BY <1>3, <1>5, <1>6 DEF SyncInv

LEMMA SyncStep == ASSUME SyncInv, Tables, [Next]_vars PROVE SyncInv'
<1>1. CASE UNCHANGED <<sync, pulp>>
  <2>1. SyncShape'
    BY <1>1 DEF SyncInv, SyncShape, Syncing
  <2>2. PulpFaithful' /\ SyncProgress'
    BY <1>1 DEF SyncInv, PulpFaithful, SyncProgress
  <2> QED BY <2>1, <2>2 DEF SyncInv
<1>2. CASE DistributionRefused \/ SyncFails
  <2>1. sync' = [sync EXCEPT !.pc = "failed"] /\ pulp' = pulp
    BY <1>2 DEF DistributionRefused, SyncFails
  <2>2. /\ sync' = [pc |-> sync'.pc, target |-> sync'.target, repos |-> sync'.repos, todo |-> sync'.todo]
        /\ sync'.pc = "failed" /\ sync'.repos = sync.repos /\ sync'.todo = sync.todo
    BY <2>1 DEF SyncInv, SyncShape
  <2>3. SyncShape'
    BY <2>2 DEF SyncInv, SyncShape, Syncing
  <2>4. PulpFaithful'
    BY <2>1 DEF SyncInv, PulpFaithful
  <2>5. SyncProgress'
    BY <2>2 DEF SyncProgress
  <2> QED BY <2>3, <2>4, <2>5 DEF SyncInv
<1> QED BY <1>1, <1>2, StepsByPart, SyncStartsInv, SyncRepositoryInv, CreatePublicationInv,
      CreateDistributionInv

-----------------------------------------------------------------------------
(* dnf_repos.                                                              *)
LEMMA InitHost == Init => HostInv
<1> SUFFICES ASSUME Init PROVE HostInv
  OBVIOUS
<1>1. /\ files = [s \in Repos \ {Epel} |-> Section(Vendor, "yes")]
      /\ run = [pc |-> "idle", repos |-> <<>>, todo |-> {}]
      /\ DOMAIN <<>> = {}
  BY DEF Init
<1>2. HostFiles
  BY <1>1 DEF HostFiles, Section
<1>3. RunShape
  BY <1>1 DEF RunShape
<1>4. RunProgress
  BY <1>1 DEF RunProgress
<1> QED BY <1>2, <1>3, <1>4 DEF HostInv

LEMMA RunStartsInv == ASSUME HostInv, Tables, RunStarts PROVE HostInv'
<1> DEFINE repos == HostRepos
<1>1. /\ run' = [pc |-> "set", repos |-> repos, todo |-> Loop("set", repos)]
      /\ files' = files /\ partial' = partial
  BY DEF RunStarts
<1>2. DOMAIN repos \subseteq Repos /\ \A r \in DOMAIN repos : repos[r] \in Bases
  BY HostReposFact DEF Tables
<1> HIDE DEF repos
<1>3. HostFiles'
  BY <1>1 DEF HostInv, HostFiles
<1>4. RunShape'
  BY <1>1, <1>2 DEF RunShape
<1>5. RunProgress'
  BY <1>1 DEF RunProgress
<1> QED BY <1>3, <1>4, <1>5 DEF HostInv

LEMMA SetRepoInv == ASSUME HostInv, NEW pc \in {"set", "epel"}, SetRepo(pc) PROVE HostInv'
<1> DEFINE n == Min(run.todo)
           r == RepoList[n]
<1>1. /\ run.pc = pc /\ run.todo # {}
      /\ files' = Put(files, r, Section(run.repos[r], "unset"))
      /\ partial' = partial \cup {r}
      /\ run' = [run EXCEPT !.todo = @ \ {n}]
  BY DEF SetRepo
<1>2. n \in run.todo /\ run.todo \subseteq Loop(pc, run.repos)
  <2>1. run.todo \subseteq Loop(pc, run.repos)
    BY <1>1 DEF HostInv, RunShape
  <2>2. run.todo \subseteq Nat
    BY <2>1, PositionsAreNat DEF Loop
  <2> QED BY <1>1, <2>1, <2>2, LeastIsMember
<1>3. n \in DOMAIN RepoList /\ r \in DOMAIN run.repos /\ run.repos[r] \in Bases
  BY <1>2 DEF Loop, HostInv, RunShape
<1> HIDE DEF n, r
<1>4. /\ run' = [pc |-> run'.pc, repos |-> run'.repos, todo |-> run'.todo]
      /\ run'.pc = pc /\ run'.repos = run.repos /\ run'.todo = run.todo \ {n}
  BY <1>1 DEF HostInv, RunShape
<1>5. /\ DOMAIN files' = DOMAIN files \cup {r}
      /\ files'[r] = Section(run.repos[r], "unset")
      /\ \A k \in DOMAIN files \ {r} : files'[k] = files[k]
  BY <1>1 DEF Put
<1>6. HostFiles'
  BY <1>1, <1>3, <1>5 DEF HostInv, HostFiles, Section
<1>7. RunShape'
  BY <1>2, <1>4 DEF HostInv, RunShape
<1>8. files'[r].base = run.repos[r]
  BY <1>5 DEF Section
<1>9. RunProgress'
  <2>1. r = RepoList[n]
    BY DEF r
  <2>2. CASE pc = "set"
    BY <1>1, <1>4, <1>5, <1>8, <2>1, <2>2 DEF HostInv, RunProgress
  <2>3. CASE pc = "epel"
    BY <1>1, <1>4, <1>5, <1>8, <2>1, <2>3 DEF HostInv, RunProgress
  <2> QED BY <2>2, <2>3
<1> QED BY <1>6, <1>7, <1>9 DEF HostInv

LEMMA SetReposEndsInv == ASSUME HostInv, NEW pc \in {"set", "epel"}, SetReposEnds(pc) PROVE HostInv'
<1>1. /\ run.pc = pc /\ run.todo = {}
      /\ run' = [run EXCEPT !.pc = AfterLoop[pc]]
      /\ files' = files /\ partial' = partial
  BY DEF SetReposEnds
<1>2. /\ run' = [pc |-> run'.pc, repos |-> run'.repos, todo |-> run'.todo]
      /\ run'.pc = AfterLoop[pc] /\ run'.repos = run.repos /\ run'.todo = run.todo
  BY <1>1 DEF HostInv, RunShape
<1>3. HostFiles'
  BY <1>1 DEF HostInv, HostFiles
<1>4. RunShape'
  BY <1>2 DEF HostInv, RunShape, AfterLoop
<1>5. RunProgress'
  <2>1. CASE pc = "set"
    <3>1. run'.pc = "epel-release"
      BY <1>2, <2>1 DEF AfterLoop
    <3> QED BY <1>1, <1>2, <2>1, <3>1 DEF HostInv, RunProgress
  <2>2. CASE pc = "epel"
    <3>1. run'.pc = "roles"
      BY <1>2, <2>2 DEF AfterLoop
    <3> QED BY <1>1, <1>2, <2>2, <3>1 DEF HostInv, RunProgress
  <2> QED BY <2>1, <2>2
<1> QED BY <1>3, <1>4, <1>5 DEF HostInv

(* The package's own repo file is written only where there was none, and   *)
(* the loop for epel that follows replaces it.                             *)
LEMMA InstallEpelReleaseInv == ASSUME HostInv, InstallEpelRelease PROVE HostInv'
<1>1. /\ run.pc = "epel-release"
      /\ files' = IF Epel \in DOMAIN files THEN files ELSE Put(files, Epel, Section(Vendor, "yes"))
      /\ run' = [run EXCEPT !.pc = "epel", !.todo = Loop("epel", run.repos)]
      /\ partial' = partial
  BY DEF InstallEpelRelease
<1>2. /\ run' = [pc |-> run'.pc, repos |-> run'.repos, todo |-> run'.todo]
      /\ run'.pc = "epel" /\ run'.repos = run.repos /\ run'.todo = Loop("epel", run.repos)
  BY <1>1 DEF HostInv, RunShape
<1>3. /\ DOMAIN files' = DOMAIN files \cup {Epel}
      /\ Epel \notin DOMAIN files => files'[Epel] = Section(Vendor, "yes")
      /\ \A k \in DOMAIN files : files'[k] = files[k]
  BY <1>1 DEF Put
<1>4. HostFiles'
  BY <1>1, <1>3 DEF HostInv, HostFiles, Section
<1>5. RunShape'
  BY <1>2 DEF HostInv, RunShape
<1>6. RunProgress'
  BY <1>1, <1>2, <1>3 DEF HostInv, RunProgress
<1> QED BY <1>4, <1>5, <1>6 DEF HostInv

LEMMA IdleInv == ASSUME run' = Idle PROVE RunShape' /\ RunProgress'
<1>1. run' = [pc |-> "idle", repos |-> <<>>, todo |-> {}] /\ DOMAIN <<>> = {}
  BY DEF Idle
<1> QED BY <1>1 DEF RunShape, RunProgress

LEMMA RolesEndInv == ASSUME HostInv, NEW released, RolesEnd(released) PROVE HostInv'
<1>1. /\ run' = [run EXCEPT !.pc = "remove"] /\ partial' = partial
      /\ files' = [s \in DOMAIN files \cup released |->
                      IF s \in DOMAIN files THEN files[s] ELSE Section(Vendor, "yes")]
  BY DEF RolesEnd
<1>2. /\ run' = [pc |-> run'.pc, repos |-> run'.repos, todo |-> run'.todo]
      /\ run'.pc = "remove" /\ run'.repos = run.repos
  BY <1>1 DEF HostInv, RunShape
<1>3. HostFiles'
  BY <1>1 DEF HostInv, HostFiles, Section
<1>4. RunShape'
  BY <1>2 DEF HostInv, RunShape
<1>5. RunProgress'
  BY <1>2 DEF RunProgress
<1> QED BY <1>3, <1>4, <1>5 DEF HostInv

LEMMA RemovePasswordInv ==
    ASSUME HostInv, NEW done \in SUBSET DOMAIN run.repos, RemovePassword(done)
    PROVE  HostInv'
<1>1. /\ run' = IF done = DOMAIN run.repos THEN [run EXCEPT !.pc = "disable"] ELSE Idle
      /\ partial' = partial
      /\ files' = [s \in DOMAIN files \cup done |->
                      IF s \in done THEN Section(run.repos[s], "no") ELSE files[s]]
  BY DEF RemovePassword
<1>2. HostFiles'
  BY <1>1 DEF HostInv, HostFiles, RunShape, Section
<1>3. CASE done = DOMAIN run.repos
  <2>1. /\ run' = [pc |-> run'.pc, repos |-> run'.repos, todo |-> run'.todo]
        /\ run'.pc = "disable" /\ run'.repos = run.repos
    BY <1>1, <1>3 DEF HostInv, RunShape
  <2>2. RunShape'
    BY <2>1 DEF HostInv, RunShape
  <2>3. RunProgress'
    BY <1>1, <1>3, <2>1 DEF RunProgress, Section
  <2> QED BY <1>2, <2>2, <2>3 DEF HostInv
<1>4. CASE done # DOMAIN run.repos
  <2>1. run' = Idle
    BY <1>1, <1>4
  <2> QED BY <1>2, <2>1, IdleInv DEF HostInv
<1> QED BY <1>3, <1>4

LEMMA DisableEveryInv ==
    ASSUME HostInv, NEW done \in SUBSET DOMAIN files, DisableEvery(done)
    PROVE  HostInv'
<1>1. /\ run.pc = "disable"
      /\ files' = [s \in DOMAIN files |->
              IF s \in done /\ files[s].enabled = "yes"
              THEN [files[s] EXCEPT !.enabled = "no"] ELSE files[s]]
      /\ IF done = DOMAIN files
         THEN /\ run' = [run EXCEPT !.pc = "ended", !.repos = <<>>]
              /\ partial' = partial \ DOMAIN run.repos
         ELSE run' = Idle /\ partial' = partial
  BY DEF DisableEvery
<1>2. ASSUME NEW s \in DOMAIN files
      PROVE  /\ files'[s] = Section(files'[s].base, files'[s].enabled)
             /\ files'[s].base = files[s].base
             /\ files'[s].enabled \in {"yes", "no", "unset"}
             /\ done = DOMAIN files => files'[s].enabled # "yes"
             /\ files'[s].enabled = "unset" => files[s].enabled = "unset"
  <2>1. files[s] = [base |-> files[s].base, enabled |-> files[s].enabled]
        /\ files[s].enabled \in {"yes", "no", "unset"}
    BY DEF HostInv, HostFiles, Section
  <2>2. CASE s \in done /\ files[s].enabled = "yes"
    <3>1. files'[s] = [base |-> files[s].base, enabled |-> "no"]
      BY <1>1, <2>1, <2>2
    <3> QED BY <3>1 DEF Section
  <2>3. CASE ~ (s \in done /\ files[s].enabled = "yes")
    <3>1. files'[s] = files[s]
      BY <1>1, <2>3
    <3> QED BY <2>1, <2>3, <3>1 DEF Section
  <2> QED BY <2>2, <2>3
<1>3. DOMAIN files' = DOMAIN files
  BY <1>1
<1>4. CASE done = DOMAIN files
  <2>1. /\ run' = [pc |-> run'.pc, repos |-> run'.repos, todo |-> run'.todo]
        /\ run'.pc = "ended" /\ run'.repos = <<>> /\ DOMAIN run'.repos = {}
    <3>1. run = [pc |-> run.pc, repos |-> run.repos, todo |-> run.todo]
      BY DEF HostInv, RunShape
    <3>2. run' = [pc |-> "ended", repos |-> <<>>, todo |-> run.todo]
      BY <1>1, <1>4, <3>1
    <3>3. DOMAIN <<>> = {}
      OBVIOUS
    <3> QED BY <3>2, <3>3
  <2>2. \A s \in DOMAIN files : files[s].enabled = "unset" => s \in partial'
    BY <1>1, <1>4 DEF HostInv, HostFiles, RunProgress
  <2>3. HostFiles'
    BY <1>2, <1>3, <2>2 DEF HostInv, HostFiles
  <2>4. RunShape'
    BY <2>1 DEF RunShape
  <2>5. RunProgress'
    BY <1>2, <1>3, <1>4, <2>1, <2>2 DEF RunProgress, Enabled
  <2> QED BY <2>3, <2>4, <2>5 DEF HostInv
<1>5. CASE done # DOMAIN files
  <2>1. run' = Idle /\ partial' = partial
    BY <1>1, <1>5
  <2>2. HostFiles'
    BY <1>2, <1>3, <2>1 DEF HostInv, HostFiles
  <2> QED BY <2>1, <2>2, IdleInv DEF HostInv
<1> QED BY <1>4, <1>5

LEMMA HostStep == ASSUME HostInv, Tables, [Next]_vars PROVE HostInv'
<1>1. CASE UNCHANGED <<files, run, partial>>
  BY <1>1 DEF HostInv, HostFiles, RunShape, RunProgress, Enabled
<1>2. CASE RunAborts
  <2>1. run' = Idle /\ files' = files /\ partial' = partial
    BY <1>2 DEF RunAborts
  <2>2. HostFiles'
    BY <2>1 DEF HostInv, HostFiles
  <2> QED BY <2>1, <2>2, IdleInv DEF HostInv
<1> QED BY <1>1, <1>2, StepsByPart, RunStartsInv, SetRepoInv, SetReposEndsInv,
      InstallEpelReleaseInv, RolesEndInv, RemovePasswordInv, DisableEveryInv

-----------------------------------------------------------------------------
LEMMA Invariance == Spec => []IInv
<1>1. Init => IInv
  BY InitTables, InitSync, InitHost DEF IInv
<1>2. IInv /\ [Next]_vars => IInv'
  BY TablesStep, SyncStep, HostStep DEF IInv
<1> QED BY <1>1, <1>2, PTL DEF Spec

(* The types of the timestamps, of what a sync is given, of the tables of  *)
(* the local server and of the sections of a host's repo files: every name *)
(* and URL is a pinned snapshot of a path that dnf_repos_repos gives.      *)
THEOREM TypeCorrect == Spec => []TypeOK
<1>1. ASSUME IInv PROVE TypeOK
  <2> USE <1>1 DEF IInv, SyncInv, HostInv
  <2>1. ark \in [Paths -> 1..MaxSnapshots] /\ Shape(pins) /\ Shape(update.got)
    BY DEF Tables
  <2>2. \A d \in Range(sync.repos) : d.name \in Names /\ <<d.path, d.ts>> \in Bases
    BY UrlFact DEF SyncShape, Range
  <2>3. sync.pc \in {"idle", "repos", "pubs", "distros", "done", "failed"}
    BY DEF SyncShape
  <2>4. run.pc \in {"idle", "set", "epel-release", "epel", "roles", "remove", "disable", "ended"}
    BY DEF RunShape
  <2> QED BY <2>1, <2>2, <2>3, <2>4 DEF PulpFaithful, HostFiles, TypeOK
<1> QED BY <1>1, Invariance, PTL

(* Whatever was synced, updated, aborted or refused before: once a sync    *)
(* for a host's version ended, the local server serves every URL that the  *)
(* same timestamps give the host's repo files.                             *)
THEOREM SyncedIsServed == Spec => []SyncServesHosts
<1>1. ASSUME IInv, SyncedFor(os), NEW b \in Range(HostRepos)
      PROVE  [base |-> b, content |-> b] \in Served
  <2>1. PICK r \in DOMAIN HostRepos : b = HostRepos[r]
    BY DEF Range
  <2>2. /\ r \in DnfRepos /\ r \in Repos /\ RepoOs(r) \in Versions(r)
        /\ b = <<PathOf[r][RepoOs(r)], pins[r][RepoOs(r)]>>
    BY <1>1, <2>1, HostReposFact DEF IInv, Tables
  <2>3. PICK n \in DOMAIN RepoList : RepoList[n] = r
    BY <2>2, PositionsAreNat
  <2>4. SelectedVersion(r, os) = {RepoOs(r)}
    BY <2>2 DEF SelectedVersion, RepoOs
  <2> DEFINE repos == SelectRepos(os)
  <2>5. n \in DOMAIN repos
    BY <2>2, <2>3, <2>4, SelectedAre
  <2>6. PICK v \in SelectedVersion(RepoList[n], os) :
          repos[n] = [name |-> <<RepoList[n], v, pins[RepoList[n]][v]>>,
                      path |-> PathOf[RepoList[n]][v], ts |-> pins[RepoList[n]][v]]
    BY <2>5, SelectedIs
  <2>7. repos[n].name = <<r, RepoOs(r), pins[r][RepoOs(r)]>>
    BY <2>3, <2>4, <2>6
  <2>8. UrlOf(repos[n].name) = b
    BY <2>2, <2>7 DEF UrlOf
  <2>9. sync.repos = repos /\ sync.pc = "done"
    BY <1>1 DEF SyncedFor
  <2> HIDE DEF repos
  <2>10. repos[n].name \in DOMAIN pulp.distribution
    BY <1>1, <2>5, <2>9 DEF IInv, SyncInv, SyncProgress
  <2>11. pulp.distribution[repos[n].name] = [base |-> b, content |-> b]
    BY <1>1, <2>8, <2>10 DEF IInv, SyncInv, PulpFaithful
  <2> QED BY <2>10, <2>11 DEF Served
<1>2. IInv => SyncServesHosts
  BY <1>1 DEF SyncServesHosts
<1> QED BY <1>2, Invariance, PTL

(* Reproducibility: no later timestamps, sync, refusal or failure takes a  *)
(* base path from the local server or puts another snapshot behind it.     *)
THEOREM ServedForGood == Spec => ServedStays
<1>1. ASSUME IInv, [Next]_vars PROVE Served \subseteq Served'
  <2>1. CASE UNCHANGED <<sync, pulp>>
    BY <2>1 DEF Served
  <2>2. CASE CreateDistribution
    <3> DEFINE entry == [base |-> UrlOf(Item.name), content |-> UrlOf(Item.name)]
    <3>1. pulp'.distribution = Put(pulp.distribution, Item.name, entry)
      BY <1>1, <2>2, CreateDistributionPuts DEF IInv
    <3>2. \A n \in DOMAIN pulp.distribution :
            n \in DOMAIN pulp'.distribution /\ pulp'.distribution[n] = pulp.distribution[n]
      BY <1>1, <3>1 DEF Put, IInv, SyncInv, PulpFaithful
    <3> QED BY <3>2 DEF Served
  <2>3. CASE SyncRepository
    <3>1. pulp' = [pulp EXCEPT !.repository = pulp'.repository]
      BY <1>1, <2>3 DEF SyncRepository, IInv, SyncInv, PulpFaithful
    <3>2. pulp'.distribution = pulp.distribution
      BY <1>1, <3>1 DEF IInv, SyncInv, PulpFaithful
    <3> QED BY <3>2 DEF Served
  <2>4. CASE CreatePublication
    <3>1. pulp' = [pulp EXCEPT !.publication = pulp'.publication]
      BY <1>1, <2>4 DEF CreatePublication, IInv, SyncInv, PulpFaithful
    <3>2. pulp'.distribution = pulp.distribution
      BY <1>1, <3>1 DEF IInv, SyncInv, PulpFaithful
    <3> QED BY <3>2 DEF Served
  <2>5. CASE (\E target \in Distros : SyncStarts(target)) \/ DistributionRefused \/ SyncFails
    <3>1. pulp' = pulp
      BY <2>5 DEF SyncStarts, DistributionRefused, SyncFails
    <3> QED BY <3>1 DEF Served
  <2> QED BY <1>1, <2>1, <2>2, <2>3, <2>4, <2>5, StepsByPart
<1>2. IInv /\ [Next]_vars => Served \subseteq Served'
  BY <1>1
<1>3. IInv' => \A s \in Served' : s.content = s.base
  BY DEF IInv, SyncInv, PulpFaithful, Served
<1> QED BY <1>2, <1>3, Invariance, PTL DEF Spec, ServedStays

(* Whatever a package or an earlier run left in the repo files, the roles  *)
(* of a run install from the pinned repositories only.                     *)
THEOREM RolesInstallPinned == Spec => []RolesUsePinned
<1>1. ASSUME IInv, run.pc = "roles", NEW r \in DOMAIN run.repos
      PROVE  files[r].base = run.repos[r]
  <2>1. r \in Repos
    BY <1>1 DEF IInv, HostInv, RunShape
  <2>2. PICK n \in DOMAIN RepoList : RepoList[n] = r
    BY <2>1, PositionsAreNat
  <2>3. n \in Loop("set", run.repos) \/ n \in Loop("epel", run.repos)
    BY <2>2 DEF Loop
  <2> QED BY <1>1, <2>2, <2>3 DEF IInv, HostInv, RunProgress
<1>2. IInv => RolesUsePinned
  BY <1>1 DEF RolesUsePinned
<1> QED BY <1>2, Invariance, PTL

(* A run that reached its end has disabled every section, whatever was in  *)
(* the files before it, but for those that only aborted runs wrote.        *)
THEOREM EndedDisables == Spec => []OnlyAbortedEnabled
<1>1. IInv => OnlyAbortedEnabled
  BY DEF IInv, HostInv, RunProgress, OnlyAbortedEnabled
<1> QED BY <1>1, Invariance, PTL
=============================================================================
