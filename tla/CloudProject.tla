----------------------------- MODULE CloudProject -----------------------------
(***************************************************************************)
(* The two tools that read the OpenStack project as it is instead of the   *)
(* OpenTofu state: map_hosts of roles/topology, which draws Slurm's tree   *)
(* from where the servers are, and dev/delete-cluster.py, which deletes    *)
(* what is named like a cluster. External: OpenStack, OpenTofu, Slurm.     *)
(***************************************************************************)
EXTENDS Integers, FiniteSetsExt, SequencesExt, Functions

CONSTANTS
    Nodes,         \* names of servers; ports and volumes are named like theirs
    TopologyNodes, \* topology_nodes
    Prefixed,      \* the names that start with the script's PREFIX
    HostId,        \* [hypervisor -> its id in the project, a sequence of digits]
    Az,            \* [hypervisor -> the name of its zone, as a sequence too]
    Master,        \* the name "master", likewise: all switches share one namespace
    Start,         \* min_prefix's start
    MaxEvents      \* bound: what others do to the project

None == "none"          \* the host of a shelved server
Deleting == "deleting"  \* the host of a server that is being deleted

Hosts == DOMAIN HostId

(* What a switch for the hypervisor may be called.                         *)
Beginnings(h) == {SubSeq(HostId[h], 1, n) : n \in 0..Len(HostId[h])}

(* Ids are hexadecimal, so that none begins with "master".                 *)
ASSUME CloudAssumption ==
    /\ IsFiniteSet(Nodes)
    /\ DOMAIN Az = Hosts
    /\ {None, Deleting} \cap Hosts = {}
    /\ Prefixed \cup TopologyNodes \subseteq Nodes
    /\ Start \in Nat
    /\ \A h \in Hosts : HostId[h] \in Seq(Nat) /\ Master \notin Beginnings(h)
    /\ \A h, g \in Hosts : Len(HostId[h]) = Len(HostId[g]) /\ (HostId[h] = HostId[g] => h = g)

VARIABLES
    tool,    \* "topology" or "delete-cluster"
    cloud,   \* [id -> [type, name, host, server]]
    snapshots, \* those of volumes: [id of the volume, number]
    created, \* ids given out
    events,  \* what others did
    topo,    \* the role: [pc, located, topology]
    conf,    \* the lines of /etc/slurm/topology.conf
    del      \* the script: [pc, stage, listed, todo, waiting, failing, since, erred]

vars == <<tool, cloud, snapshots, created, events, topo, conf, del>>

Resource(t, n, h, s) == [type |-> t, name |-> n, host |-> h, server |-> s]
Of(t) == {i \in DOMAIN cloud : cloud[i].type = t}

Servers(host) == LET n == SetToSeq(Nodes) IN [i \in DOMAIN n |-> Resource("server", n[i], host[n[i]], 0)]
PortsAndVolumes ==
    LET n == SetToSeq(Nodes) IN [i \in DOMAIN n |-> Resource("port", n[i], None, 0)]
                             \o [i \in DOMAIN n |-> Resource("volume", n[i], None, i)]

Init ==
    /\ \/ /\ tool = "topology"
          /\ \E host \in [Nodes -> Hosts \cup {None}] : cloud = Servers(host)
       \/ /\ tool = "delete-cluster"
          /\ cloud = Servers([n \in Nodes |-> None]) \o PortsAndVolumes
    /\ snapshots = {<<i, 0>> : i \in Of("volume")}
    /\ created = Cardinality(DOMAIN cloud)
    /\ events = 0
    /\ topo = [pc |-> "idle", located |-> <<>>, topology |-> <<>>]
    /\ conf = {}
    /\ del = [pc |-> "idle", stage |-> 1, listed |-> [t \in {"server", "port", "volume"} |-> {}],
              todo |-> {}, waiting |-> 0, failing |-> FALSE, since |-> 0, erred |-> FALSE]

-----------------------------------------------------------------------------
(* External: what others do in the project meanwhile.                      *)

Event(c) ==
    /\ events < MaxEvents
    /\ events' = events + 1
    /\ cloud' = c
    /\ UNCHANGED <<tool, topo, conf, del>>

(* A server is migrated, shelved or unshelved.                             *)
Move(i, h) ==
    /\ tool = "topology"
    /\ Event([cloud EXCEPT ![i].host = h])
    /\ UNCHANGED <<created, snapshots>>

Without(ids) ==
    [i \in DOMAIN cloud \ ids |->
        IF cloud[i].server \in ids THEN [cloud[i] EXCEPT !.server = 0] ELSE cloud[i]]

SnapshotsIn(c) == {s \in snapshots : s[1] \in DOMAIN c}

(* A volume only with its snapshots.                                       *)
OtherDeletes(i) ==
    /\ tool = "delete-cluster"
    /\ Event(Without({i}))
    /\ snapshots' = SnapshotsIn(cloud')
    /\ UNCHANGED created

OtherSnapshots(i) ==
    /\ tool = "delete-cluster"
    /\ cloud[i].type = "volume"
    /\ Event(cloud)
    /\ snapshots' = snapshots \cup {<<i, events'>>}
    /\ UNCHANGED created

(* OpenTofu creates a server, and attaches its volume to it.               *)
OtherCreates(n) ==
    /\ tool = "delete-cluster"
    /\ \A i \in Of("server") : cloud[i].name # n
    /\ created' = created + 1
    /\ UNCHANGED snapshots
    /\ LET attached(i) == IF cloud[i].type = "volume" /\ cloud[i].name = n
                          THEN [cloud[i] EXCEPT !.server = created'] ELSE cloud[i]
       IN Event([i \in DOMAIN cloud \cup {created'} |->
                    IF i = created' THEN Resource("server", n, None, 0) ELSE attached(i)])

-----------------------------------------------------------------------------
(* roles/topology                                                          *)

(* Mutant: no loop over the length.                                        *)
MinPrefixStart(ids) == Start

PrefixesOf(ids, length) == {SubSeq(u, 1, length) : u \in ids}

MinPrefix(ids) ==
    LET full == Len(CHOOSE u \in ids : TRUE)
    IN Min({full} \cup {length \in Start..(full - 1) :
                            Cardinality(PrefixesOf(ids, length)) = Cardinality(ids)})

Located == [i \in {i \in Of("server") : cloud[i].name \in TopologyNodes /\ cloud[i].host # None} |-> cloud[i]]

(* Of two hosts with one prefix the dict keeps the last.                   *)
Topology(servers) ==
    LET hosts == {servers[i].host : i \in DOMAIN servers}
        length == MinPrefix({HostId[h] : h \in hosts})
        in(az) == {h \in hosts : Az[h] = az}
        short(h) == SubSeq(HostId[h], 1, length)
        names(h) == {servers[i].name : i \in {i \in DOMAIN servers : servers[i].host = h}}
    IN [az \in {Az[h] : h \in hosts} |->
          [p \in {short(h) : h \in in(az)} |-> names(CHOOSE h \in in(az) : short(h) = p)]]

MapHosts ==
    /\ tool = "topology" /\ topo.pc = "idle"
    /\ topo' = IF Located = <<>> THEN [topo EXCEPT !.pc = "failed"]
               ELSE [pc |-> "template", located |-> Located, topology |-> Topology(Located)]
    /\ UNCHANGED <<tool, cloud, snapshots, created, events, conf, del>>

Line(name, nodes, switches) == [switch |-> name, nodes |-> nodes, switches |-> switches]
TopologyConf(topology) ==
    {Line(Master, {}, DOMAIN topology)}
    \cup {Line(az, {}, DOMAIN topology[az]) : az \in DOMAIN topology}
    \cup UNION {{Line(p, topology[az][p], {}) : p \in DOMAIN topology[az]} : az \in DOMAIN topology}

Template ==
    /\ topo.pc = "template"
    /\ conf' = TopologyConf(topo.topology)
    /\ topo' = [topo EXCEPT !.pc = "idle"]
    /\ UNCHANGED <<tool, cloud, snapshots, created, events, del>>

-----------------------------------------------------------------------------
(* dev/delete-cluster.py: three lists, one question, and one delete call   *)
(* for each type in turn.                                                  *)

(* Mutant: volumes while their servers are still there.                    *)
VolumesFirst == <<"volume", "port", "server">>

ClusterResources == <<"server", "port", "volume">>

Type == ClusterResources[del.stage]

(* Mutant: one stage too many.                                             *)
MoreOrSame == del.stage <= Len(ClusterResources)

More == del.stage < Len(ClusterResources)

StartsWithPrefix(n) == n \in Prefixed

(* With a volume go its snapshots ("--purge").                             *)
Script(d, c) ==
    /\ del' = d
    /\ cloud' = c
    /\ snapshots' = SnapshotsIn(c)
    /\ UNCHANGED <<tool, created, events, topo, conf>>

Begin ==
    /\ tool = "delete-cluster" /\ del.pc = "idle"
    /\ Script([del EXCEPT !.pc = "list", !.since = events], cloud)

List ==
    /\ del.pc = "list"
    /\ Script([del EXCEPT !.listed[Type] = {i \in Of(Type) : StartsWithPrefix(cloud[i].name)},
                          !.stage = IF More THEN @ + 1 ELSE 1,
                          !.pc = IF More THEN @ ELSE "ask"], cloud)

ListFails ==
    /\ del.pc = "list"
    /\ Script([del EXCEPT !.pc = "raised"], cloud)

(* Mutant: the names are looked up again when they are deleted.            *)
ItemsNow(t) == {i \in Of(t) : StartsWithPrefix(cloud[i].name)}

Items(t) == del.listed[t]

Answer(yes) ==
    /\ del.pc = "ask"
    /\ Script(IF yes THEN [del EXCEPT !.pc = "call"] ELSE [del EXCEPT !.pc = "cancelled"], cloud)

Call ==
    /\ del.pc = "call"
    /\ Script([del EXCEPT !.todo = Items(Type), !.pc = "delete"], cloud)

(* External: the command fails if one item did, some going on with the     *)
(* others and some not. What is gone and a volume that is attached cannot  *)
(* be deleted; any other item may meet an error, and is one the command    *)
(* cannot blame on others (erred). So is a server that is not seen to go.  *)
Deletable(i) == i \in DOMAIN cloud /\ cloud[i].server = 0

Waits(t) == t = "server"

DeleteItem(i) ==
    /\ del.pc = "delete" /\ del.waiting = 0
    /\ i \in del.todo
    /\ Deletable(i)
    /\ Script([del EXCEPT !.todo = @ \ {i}, !.waiting = IF Waits(Type) THEN i ELSE 0],
              IF Type = "server" THEN [cloud EXCEPT ![i].host = Deleting] ELSE Without({i}))

DeleteItemFails(i, stops) ==
    /\ del.pc = "delete" /\ del.waiting = 0
    /\ i \in del.todo
    /\ Script([del EXCEPT !.todo = @ \ {i}, !.failing = TRUE,
                          !.erred = IF Deletable(i) THEN TRUE ELSE @,
                          !.pc = IF stops THEN "failed" ELSE @], cloud)

WaitFails ==
    /\ del.pc = "delete" /\ del.waiting # 0
    /\ Script([del EXCEPT !.pc = "failed", !.failing = TRUE, !.erred = TRUE], cloud)

ServerGone(i) ==
    /\ cloud[i].host = Deleting
    /\ Script(del, Without({i}))

Waited ==
    /\ del.pc = "delete" /\ del.waiting # 0
    /\ del.waiting \notin DOMAIN cloud
    /\ Script([del EXCEPT !.waiting = 0], cloud)

CallEnds ==
    /\ del.pc = "delete" /\ del.todo = {} /\ del.waiting = 0
    /\ Script(IF del.failing THEN [del EXCEPT !.pc = "failed"]
              ELSE IF More THEN [del EXCEPT !.pc = "call", !.stage = @ + 1]
              ELSE [del EXCEPT !.pc = "deleted"], cloud)

Next ==
    \/ \E i \in DOMAIN cloud : \E h \in Hosts \cup {None} : Move(i, h)
    \/ \E i \in DOMAIN cloud : OtherDeletes(i) \/ OtherSnapshots(i)
    \/ \E n \in Nodes : OtherCreates(n)
    \/ MapHosts
    \/ Template
    \/ Begin
    \/ List
    \/ ListFails
    \/ \E yes \in BOOLEAN : Answer(yes)
    \/ Call
    \/ \E i \in del.todo : DeleteItem(i)
    \/ \E i \in del.todo : \E stops \in BOOLEAN : DeleteItemFails(i, stops)
    \/ WaitFails
    \/ \E i \in DOMAIN cloud : ServerGone(i)
    \/ Waited
    \/ CallEnds

Spec == Init /\ [][Next]_vars

-----------------------------------------------------------------------------
(* The values the variables take; only volumes have a server, and only     *)
(* they snapshots.                                                         *)
TypeOK ==
    /\ \A i \in DOMAIN cloud :
        /\ i \in 1..created
        /\ cloud[i].name \in Nodes
        /\ cloud[i].host \in Hosts \cup {None, Deleting}
        /\ cloud[i].server # 0 => cloud[i].type = "volume" /\ cloud[i].server \in Of("server")
    /\ \A s \in snapshots : s[1] \in Of("volume")
    /\ del.stage \in 1..3
    /\ \A t \in DOMAIN del.listed : del.listed[t] \subseteq 1..created
    /\ topo.pc \in {"idle", "template", "failed"}

(* Slurm's tree is the project's: the node of every located server is under *)
(* one switch and two nodes are under the same one exactly when they were  *)
(* on the same hypervisor: shortening the ids, over all zones, loses       *)
(* nothing. And every switch has one line and one parent, as long as no    *)
(* zone is called "master" or as an id begins, which nobody checks.        *)
Leaf(n) == {l.switch : l \in {l \in conf : n \in l.nodes}}
MappedNodes == {topo.located[i].name : i \in DOMAIN topo.located}
MappedTogether(n, m) ==
    \E i, j \in DOMAIN topo.located :
        /\ topo.located[i].name = n /\ topo.located[j].name = m
        /\ topo.located[i].host = topo.located[j].host
ZonesApart ==
    \A i, j \in DOMAIN topo.located :
        Az[topo.located[i].host] \notin {Master} \cup Beginnings(topo.located[j].host)
MapFaithful ==
    conf # {} /\ topo.pc = "idle" =>
        /\ \A n \in MappedNodes : Cardinality(Leaf(n)) = 1
        /\ \A n, m \in MappedNodes : Leaf(n) = Leaf(m) <=> MappedTogether(n, m)
        /\ ZonesApart =>
            /\ \A l, k \in conf : l.switch = k.switch => l = k
            /\ \A l \in conf : Cardinality({k \in conf : l.switch \in k.switches})
                                 = IF l.switch = Master THEN 0 ELSE 1

(* A deletion that ends well has left nothing of what it listed, whatever  *)
(* others and the commands' errors did, and with nobody else at work       *)
(* nothing of the cluster; one that fails part way with no error of the    *)
(* commands' own has met somebody else's change: the order of the types    *)
(* and the wait for the servers free the volumes in time.                  *)
DeletionOutcome ==
    /\ del.pc = "deleted" => \A t \in DOMAIN del.listed : del.listed[t] \cap DOMAIN cloud = {}
    /\ del.pc = "deleted" /\ events = del.since => \A i \in DOMAIN cloud : cloud[i].name \notin Prefixed
    /\ del.pc = "failed" /\ ~ del.erred => events > del.since

(* Of servers, ports and volumes the script deletes what is named by the   *)
(* prefix and was in its own list: a cluster of the same name created      *)
(* after that, between two lists, or while it waits for the answer or for  *)
(* the servers, survives. Not so the snapshots, which are never listed:    *)
(* they go with a listed volume, those taken meanwhile too, but with no    *)
(* other.                                                                  *)
DeletesOnlyListed ==
    [][events' = events =>
        /\ \A i \in DOMAIN cloud \ DOMAIN cloud' :
              cloud[i].name \in Prefixed /\ i \in del.listed[cloud[i].type]
        /\ \A s \in snapshots \ snapshots' : s[1] \in del.listed["volume"]]_vars

=============================================================================
