-------------------------- MODULE CloudProjectProofs --------------------------
(***************************************************************************)
(* Proofs about CloudProject: for every set of nodes and hypervisors, and  *)
(* any number of servers that others create, move and delete meanwhile.    *)
(***************************************************************************)
EXTENDS CloudProject, FiniteSetTheorems, SequenceTheorems, WellFoundedInduction, TLAPS

Types == {"server", "port", "volume"}
Resources == [type : Types, name : Nodes, host : Hosts \cup {None, Deleting}, server : Int]

(* An id that the script has listed: it existed then, and if it does still *)
(* it has the prefix.                                                      *)
Sound(i, t) ==
    i \in 1..created /\ (i \in DOMAIN cloud => cloud[i].name \in Prefixed /\ cloud[i].type = t)
Old(i) == \E t \in Types : i \in del.listed[t] /\ Sound(i, t)

DelRecord(d) ==
    DOMAIN d = {"pc", "stage", "listed", "todo", "waiting", "failing", "since", "erred"}

(* What the script is about to delete, and what is being deleted for it,   *)
(* is old.                                                                 *)
DInv ==
    /\ created \in Nat
    /\ events \in Nat
    /\ DOMAIN cloud \subseteq 1..created
    /\ \A i \in DOMAIN cloud : cloud[i] \in Resources
    /\ DelRecord(del)
    /\ DOMAIN del.listed = Types
    /\ del.stage \in 1..3
    /\ \A t \in Types : \A i \in del.listed[t] : Sound(i, t)
    /\ \A i \in del.todo : Old(i)
    /\ \A i \in DOMAIN cloud : cloud[i].host = Deleting => Old(i)
    /\ del.pc \in {"idle", "list"} =>
          del.todo = {} /\ \A i \in DOMAIN cloud : cloud[i].host # Deleting
    /\ \A s \in snapshots : s[1] \in Of("volume")

LEMMA TypeIn == ASSUME DInv PROVE Type \in Types
BY DEF DInv, Type, Types, ClusterResources

-----------------------------------------------------------------------------
(* The project at the start.                                               *)

LEMMA NodesSeq ==
    LET n == SetToSeq(Nodes) IN /\ Cardinality(Nodes) \in Nat
                                /\ n \in [1..Cardinality(Nodes) -> Nodes]
<1>1. Cardinality(Nodes) \in Nat /\ ExistsBijection(1..Cardinality(Nodes), Nodes)
  BY FS_CardinalityType, CloudAssumption
<1>2. \E f \in [1..Cardinality(Nodes) -> Nodes] : IsInjective(f)
  BY <1>1 DEF ExistsBijection, Bijection, Injection
<1> QED BY <1>1, <1>2 DEF SetToSeq

LEMMA InitDInv == Init => DInv
<1> SUFFICES ASSUME Init PROVE DInv
  OBVIOUS
<1> DEFINE start == [type : Types, name : Nodes, host : Hosts \cup {None}, server : Int]
           k == Cardinality(Nodes)
           n == SetToSeq(Nodes)
<1>1. k \in Nat /\ n \in [1..k -> Nodes]
  BY NodesSeq
<1>2. ASSUME NEW t \in Types, NEW h \in [Nodes -> Hosts \cup {None}], NEW s \in [1..k -> Int]
      PROVE  [i \in 1..k |-> Resource(t, n[i], h[n[i]], s[i])] \in Seq(start)
  <2>1. \A i \in 1..k : Resource(t, n[i], h[n[i]], s[i]) \in start
    BY <1>1, <1>2 DEF Resource
  <2> HIDE DEF start
  <2> QED BY <1>1, <2>1
<1>3. ASSUME NEW h \in [Nodes -> Hosts \cup {None}] PROVE Servers(h) \in Seq(start)
  <2>1. Servers(h) = [i \in 1..k |-> Resource("server", n[i], h[n[i]], [j \in 1..k |-> 0][i])]
    BY <1>1 DEF Servers
  <2>2. [j \in 1..k |-> 0] \in [1..k -> Int] /\ "server" \in Types
    BY DEF Types
  <2> HIDE DEF start, k, n
  <2> QED BY <1>2, <1>3, <2>1, <2>2
<1>4. PortsAndVolumes \in Seq(start)
  <2> DEFINE h == [x \in Nodes |-> None]
             ports == [i \in 1..k |-> Resource("port", n[i], h[n[i]], [j \in 1..k |-> 0][i])]
             volumes == [i \in 1..k |-> Resource("volume", n[i], h[n[i]], [j \in 1..k |-> j][i])]
  <2>1. h \in [Nodes -> Hosts \cup {None}] /\ [j \in 1..k |-> 0] \in [1..k -> Int]
        /\ [j \in 1..k |-> j] \in [1..k -> Int]
    OBVIOUS
  <2>2. ports \in Seq(start) /\ volumes \in Seq(start)
    BY <1>2, <2>1 DEF Types
  <2>3. PortsAndVolumes = ports \o volumes
    BY <1>1 DEF PortsAndVolumes
  <2> HIDE DEF ports, volumes, start
  <2> QED BY <2>2, <2>3
<1>5. cloud \in Seq(start)
  <2>1. CASE \E h \in [Nodes -> Hosts \cup {None}] : cloud = Servers(h)
    BY <1>3, <2>1
  <2>2. CASE cloud = Servers([m \in Nodes |-> None]) \o PortsAndVolumes
    <3>1. Servers([m \in Nodes |-> None]) \in Seq(start)
      BY <1>3
    <3> HIDE DEF start
    <3> QED BY <1>4, <2>2, <3>1
  <2> QED BY <2>1, <2>2 DEF Init
<1>6. DOMAIN cloud = 1..Len(cloud) /\ Len(cloud) \in Nat /\ \A i \in DOMAIN cloud : cloud[i] \in start
  <2> HIDE DEF start
  <2> QED BY <1>5
<1>7. created = Len(cloud)
  <2>1. Cardinality(1..Len(cloud)) = Len(cloud)
    BY <1>6, FS_Interval
  <2>2. created = Cardinality(DOMAIN cloud)
    BY DEF Init
  <2> QED BY <1>6, <2>1, <2>2
<1>8. \A i \in DOMAIN cloud : cloud[i] \in Resources /\ cloud[i].host # Deleting
  BY <1>6, CloudAssumption DEF Resources, None, Deleting
<1>9. /\ events = 0 /\ DelRecord(del) /\ del.stage = 1 /\ del.todo = {}
      /\ DOMAIN del.listed = Types /\ \A t \in Types : del.listed[t] = {}
      /\ \A s \in snapshots : s[1] \in Of("volume")
  BY DEF Init, DelRecord, Types
<1> HIDE DEF start
<1> QED BY <1>6, <1>7, <1>8, <1>9 DEF DInv

-----------------------------------------------------------------------------
(* The steps.                                                              *)

LEMMA WithoutFacts ==
    ASSUME DInv, NEW ids
    PROVE  /\ DOMAIN Without(ids) = DOMAIN cloud \ ids
           /\ \A i \in DOMAIN cloud \ ids :
                /\ Without(ids)[i] \in Resources
                /\ Without(ids)[i].name = cloud[i].name
                /\ Without(ids)[i].type = cloud[i].type
                /\ Without(ids)[i].host = cloud[i].host
BY DEF DInv, Without, Resources

(* Others may take resources away, or move a server, or add one, which is  *)
(* newer than what is listed.                                              *)
LEMMA EventDInv ==
    ASSUME DInv, NEW c, Event(c), created' \in Nat, created <= created',
           DOMAIN c \subseteq 1..created',
           \A i \in DOMAIN c : c[i] \in Resources,
           \A i \in DOMAIN c : i \in DOMAIN cloud \/ (i = created + 1 /\ c[i].host # Deleting),
           \A i \in DOMAIN c \cap DOMAIN cloud :
                /\ c[i].name = cloud[i].name /\ c[i].type = cloud[i].type
                /\ c[i].host = Deleting => cloud[i].host = Deleting,
           \A s \in snapshots' : s[1] \in DOMAIN c /\ s[1] \in Of("volume")
    PROVE  DInv' /\ events' # events
<1>1. cloud' = c /\ del' = del /\ events' = events + 1
  BY DEF Event
<1>2. \A i \in 1..created : i # created + 1 /\ i \in 1..created'
  BY DEF DInv
<1>3. \A i, t : Sound(i, t) => Sound(i, t)'
  BY <1>1, <1>2 DEF Sound
<1>4. \A i : Old(i) => Old(i)'
  BY <1>1, <1>3 DEF Old
<1>5. \A i \in DOMAIN cloud' : cloud'[i].host = Deleting => Old(i)'
  BY <1>1, <1>4 DEF DInv
<1>6. del'.pc \in {"idle", "list"} =>
          del'.todo = {} /\ \A i \in DOMAIN cloud' : cloud'[i].host # Deleting
  BY <1>1 DEF DInv
<1>7. \A s \in snapshots' : s[1] \in Of("volume")'
  BY <1>1 DEF Of
<1>8. /\ created' \in Nat /\ events' \in Nat /\ events' # events
      /\ DOMAIN cloud' \subseteq 1..created'
      /\ \A i \in DOMAIN cloud' : cloud'[i] \in Resources
      /\ \A t \in Types : \A i \in del'.listed[t] : Sound(i, t)'
      /\ \A i \in del'.todo : Old(i)'
  BY <1>1, <1>3, <1>4 DEF DInv
<1>9. DelRecord(del') /\ DOMAIN del'.listed = Types /\ del'.stage \in 1..3
  BY <1>1 DEF DInv
<1> QED BY <1>5, <1>6, <1>7, <1>8, <1>9 DEF DInv, DelRecord

LEMMA OthersDInv ==
    ASSUME DInv,
           \/ \E i \in DOMAIN cloud : \E h \in Hosts \cup {None} : Move(i, h)
           \/ \E i \in DOMAIN cloud : OtherDeletes(i) \/ OtherSnapshots(i)
           \/ \E n \in Nodes : OtherCreates(n)
    PROVE  DInv' /\ events' # events
<1>1. ASSUME NEW i \in DOMAIN cloud, NEW h \in Hosts \cup {None}, Move(i, h)
      PROVE  DInv' /\ events' # events
  <2> DEFINE c == [cloud EXCEPT ![i].host = h]
  <2>1. DOMAIN c = DOMAIN cloud /\ Event(c) /\ created' = created /\ snapshots' = snapshots
    BY <1>1 DEF Move
  <2>2. \A j \in DOMAIN cloud : c[j] = IF j = i THEN [cloud[j] EXCEPT !.host = h] ELSE cloud[j]
    OBVIOUS
  <2>3. h # Deleting
    BY CloudAssumption DEF None, Deleting
  <2>4. \A j \in DOMAIN cloud :
          /\ c[j] \in Resources
          /\ c[j].name = cloud[j].name /\ c[j].type = cloud[j].type
          /\ c[j].host = Deleting => cloud[j].host = Deleting
    BY <2>2, <2>3 DEF DInv, Resources
  <2>5. \A s \in snapshots' : s[1] \in DOMAIN cloud /\ s[1] \in Of("volume")
    BY <2>1 DEF DInv, Of
  <2> HIDE DEF c
  <2> QED BY <2>1, <2>4, <2>5, EventDInv DEF DInv
<1>2. ASSUME NEW i \in DOMAIN cloud, OtherDeletes(i) PROVE DInv' /\ events' # events
  <2> DEFINE c == Without({i})
  <2>1. Event(c) /\ created' = created /\ snapshots' = SnapshotsIn(c)
    BY <1>2 DEF OtherDeletes, Event
  <2>2. DOMAIN c \subseteq DOMAIN cloud
        /\ \A j \in DOMAIN c : c[j] \in Resources /\ c[j].name = cloud[j].name
                               /\ c[j].type = cloud[j].type /\ c[j].host = cloud[j].host
    BY WithoutFacts
  <2>3. \A s \in snapshots' : s[1] \in DOMAIN c /\ s[1] \in Of("volume")
    BY <2>1 DEF DInv, SnapshotsIn
  <2> HIDE DEF c
  <2> QED BY <2>1, <2>2, <2>3, EventDInv DEF DInv
<1>4. ASSUME NEW i \in DOMAIN cloud, OtherSnapshots(i) PROVE DInv' /\ events' # events
  <2>1. /\ Event(cloud) /\ created' = created /\ cloud[i].type = "volume"
        /\ snapshots' = snapshots \cup {<<i, events'>>}
    BY <1>4 DEF OtherSnapshots
  <2>2. <<i, events'>>[1] = i
    OBVIOUS
  <2>3. \A s \in snapshots' : s[1] \in DOMAIN cloud /\ s[1] \in Of("volume")
    BY <2>1, <2>2 DEF DInv, Of
  <2> QED BY <2>1, <2>3, EventDInv DEF DInv
<1>3. ASSUME NEW n \in Nodes, OtherCreates(n) PROVE DInv' /\ events' # events
  <2>1. PICK c : Event(c) /\ c = [i \in DOMAIN cloud \cup {created'} |->
                     IF i = created' THEN Resource("server", n, None, 0)
                     ELSE IF cloud[i].type = "volume" /\ cloud[i].name = n
                          THEN [cloud[i] EXCEPT !.server = created'] ELSE cloud[i]]
    BY <1>3 DEF OtherCreates
  <2>2. created' = created + 1 /\ created' \in Nat /\ created' \notin DOMAIN cloud
        /\ 1..created \cup {created'} \subseteq 1..created'
    BY <1>3 DEF OtherCreates, DInv
  <2>3. c[created'] \in Resources /\ c[created'].host # Deleting
    BY <2>1 DEF Resource, Resources, Types, None, Deleting
  <2>4. \A i \in DOMAIN cloud : c[i] \in Resources /\ c[i].name = cloud[i].name
                                /\ c[i].type = cloud[i].type /\ c[i].host = cloud[i].host
    BY <2>1, <2>2 DEF DInv, Resources
  <2>5. DOMAIN c = DOMAIN cloud \cup {created'}
    BY <2>1
  <2>6. DOMAIN cloud \subseteq 1..created /\ created \in Nat
    BY DEF DInv
  <2>7. DOMAIN c \subseteq 1..created' /\ created <= created'
    BY <2>2, <2>5, <2>6
  <2>8. \A i \in DOMAIN c : /\ c[i] \in Resources
                            /\ i \in DOMAIN cloud \/ (i = created + 1 /\ c[i].host # Deleting)
    BY <2>2, <2>3, <2>4, <2>5
  <2>9. Event(c)
    BY <2>1
  <2>10. \A s \in snapshots' : s[1] \in DOMAIN c /\ s[1] \in Of("volume")
    BY <1>3, <2>5 DEF OtherCreates, DInv, Of
  <2> QED BY <2>2, <2>4, <2>7, <2>8, <2>9, <2>10, EventDInv
<1> QED BY <1>1, <1>2, <1>3, <1>4

(* A step of the script that deletes nothing but what is old, and keeps    *)
(* what it has listed, or lists again while it deletes nothing.            *)
LEMMA ScriptDInv ==
    ASSUME DInv, NEW d, NEW c, Script(d, c),
           DelRecord(d), d.stage \in 1..3, DOMAIN d.listed = Types,
           d.listed = del.listed \/ (d.todo = {} /\ \A i \in DOMAIN c : c[i].host # Deleting),
           \A t \in Types : \A i \in d.listed[t] : Sound(i, t),
           \A i \in d.todo : Old(i),
           d.pc \in {"idle", "list"} =>
                d.todo = {} /\ \A i \in DOMAIN c : c[i].host # Deleting,
           DOMAIN c \subseteq DOMAIN cloud,
           \A i \in DOMAIN c :
                /\ c[i] \in Resources
                /\ c[i].name = cloud[i].name /\ c[i].type = cloud[i].type
                /\ c[i].host = Deleting => Old(i)
    PROVE  DInv'
<1>1. cloud' = c /\ del' = d /\ created' = created /\ events' = events /\ snapshots' = SnapshotsIn(c)
  BY DEF Script
<1>2. \A i, t : Sound(i, t) => Sound(i, t)'
  BY <1>1 DEF Sound
<1>3. d.listed = del.listed => \A i : Old(i) => Old(i)'
  BY <1>1, <1>2 DEF Old
<1>4. (\A i \in d.todo : Old(i)') /\ (\A i \in DOMAIN c : c[i].host = Deleting => Old(i)')
  BY <1>3
<1>5. \A s \in snapshots' : s[1] \in Of("volume")'
  BY <1>1 DEF DInv, SnapshotsIn, Of
<1>6. /\ created' \in Nat /\ events' \in Nat /\ DOMAIN cloud' \subseteq 1..created'
      /\ \A t \in Types : \A i \in del'.listed[t] : Sound(i, t)'
  BY <1>1, <1>2 DEF DInv
<1> QED BY <1>1, <1>4, <1>5, <1>6 DEF DInv, DelRecord

(* The steps that leave the project as it is.                              *)
Failing == (\E i \in del.todo : \E stops \in BOOLEAN : DeleteItemFails(i, stops)) \/ WaitFails

LEMMA ReadingDInv ==
    ASSUME DInv, Begin \/ List \/ ListFails \/ (\E yes \in BOOLEAN : Answer(yes)) \/ Call
                 \/ Failing \/ Waited \/ CallEnds
    PROVE  DInv' /\ cloud' = cloud
<1> DEFINE Same(d) == DelRecord(d) /\ d.stage \in 1..3 /\ d.listed = del.listed
<1>1. Type \in Types /\ del.stage \in 1..3 /\ DelRecord(del)
      /\ (More => del.stage + 1 \in 1..3)
  BY TypeIn DEF DInv, More, ClusterResources
<1>2. ASSUME NEW d, Script(d, cloud), Same(d), \A i \in d.todo : Old(i),
             d.pc \in {"idle", "list"} => del.pc \in {"idle", "list"} /\ d.todo = del.todo
      PROVE  DInv' /\ cloud' = cloud
  BY <1>1, <1>2, ScriptDInv DEF DInv, Script
<1>3. CASE List
  <2> DEFINE items == {i \in Of(Type) : StartsWithPrefix(cloud[i].name)}
             d == [del EXCEPT !.listed[Type] = items,
                              !.stage = IF More THEN @ + 1 ELSE 1,
                              !.pc = IF More THEN @ ELSE "ask"]
  <2>1. Script(d, cloud) /\ del.pc = "list"
    BY <1>3 DEF List
  <2>2. \A i \in items : i \in DOMAIN cloud /\ cloud[i].name \in Prefixed /\ cloud[i].type = Type
    BY DEF Of, StartsWithPrefix
  <2> HIDE DEF items
  <2>3. /\ DelRecord(d) /\ d.stage = (IF More THEN del.stage + 1 ELSE 1)
        /\ d.listed = [del.listed EXCEPT ![Type] = items] /\ d.todo = del.todo
    BY <1>1 DEF DelRecord
  <2> HIDE DEF d
  <2>4. d.stage \in 1..3 /\ DOMAIN d.listed = Types
    BY <1>1, <2>3 DEF DInv
  <2>5. \A i \in items : Sound(i, Type)
    BY <2>2 DEF Sound, DInv
  <2>6. \A t \in Types : \A i \in d.listed[t] : Sound(i, t)
    BY <2>3, <2>5 DEF DInv
  <2>7. cloud' = cloud
    BY <2>1 DEF Script
  <2>8. d.todo = {} /\ \A i \in DOMAIN cloud : cloud[i].host # Deleting
    BY <2>1, <2>3 DEF DInv
  <2>9. \A i \in DOMAIN cloud : cloud[i] \in Resources
    BY DEF DInv
  <2>10. DInv'
    BY <2>1, <2>3, <2>4, <2>6, <2>8, <2>9, ScriptDInv
  <2> QED BY <2>7, <2>10
<1>4. CASE Call
  <2>1. Script([del EXCEPT !.todo = del.listed[Type], !.pc = "delete"], cloud)
    BY <1>4 DEF Call, Items
  <2>2. Same([del EXCEPT !.todo = del.listed[Type], !.pc = "delete"])
        /\ [del EXCEPT !.todo = del.listed[Type], !.pc = "delete"].todo = del.listed[Type]
        /\ [del EXCEPT !.todo = del.listed[Type], !.pc = "delete"].pc = "delete"
    BY <1>1 DEF DelRecord
  <2>3. \A i \in del.listed[Type] : Old(i)
    BY <1>1 DEF DInv, Old
  <2> QED BY <1>2, <2>1, <2>2, <2>3
<1>5. ASSUME NEW i \in del.todo, NEW stops \in BOOLEAN, DeleteItemFails(i, stops)
      PROVE  DInv' /\ cloud' = cloud
  <2> DEFINE d == [del EXCEPT !.todo = @ \ {i}, !.failing = TRUE,
                              !.erred = IF Deletable(i) THEN TRUE ELSE @,
                              !.pc = IF stops THEN "failed" ELSE @]
  <2>1. Script(d, cloud) /\ del.pc = "delete"
    BY <1>5 DEF DeleteItemFails
  <2>2. Same(d) /\ d.todo = del.todo \ {i} /\ d.pc = IF stops THEN "failed" ELSE del.pc
    BY <1>1 DEF DelRecord
  <2> HIDE DEF d
  <2>3. \A j \in d.todo : Old(j)
    BY <2>2 DEF DInv
  <2> QED BY <1>2, <2>1, <2>2, <2>3
<1>6. ASSUME NEW d, Script(d, cloud), Same(d), d.todo = del.todo,
             d.pc \in {"idle", "list"} => del.pc \in {"idle", "list"}
      PROVE  DInv' /\ cloud' = cloud
  <2>1. \A i \in d.todo : Old(i)
    BY <1>6 DEF DInv
  <2> QED BY <1>2, <1>6, <2>1
<1>7. CASE Begin
  <2>1. Same([del EXCEPT !.pc = "list", !.since = events])
        /\ [del EXCEPT !.pc = "list", !.since = events].todo = del.todo
    BY <1>1 DEF DelRecord
  <2> QED BY <1>6, <1>7, <2>1 DEF Begin
<1>8. ASSUME NEW p, Script([del EXCEPT !.pc = p], cloud), p \notin {"idle", "list"}
      PROVE  DInv' /\ cloud' = cloud
  <2>1. Same([del EXCEPT !.pc = p]) /\ [del EXCEPT !.pc = p].todo = del.todo /\ [del EXCEPT !.pc = p].pc = p
    BY <1>1 DEF DelRecord
  <2> QED BY <1>6, <1>8, <2>1
<1>9. CASE Waited
  <2>1. Same([del EXCEPT !.waiting = 0]) /\ [del EXCEPT !.waiting = 0].todo = del.todo
        /\ [del EXCEPT !.waiting = 0].pc = del.pc
    BY <1>1 DEF DelRecord
  <2> QED BY <1>6, <1>9, <2>1 DEF Waited
<1>10. CASE CallEnds
  <2>1. CASE ~del.failing /\ More
    <3> DEFINE d == [del EXCEPT !.pc = "call", !.stage = @ + 1]
    <3>1. Script(d, cloud)
      BY <1>10, <2>1 DEF CallEnds
    <3>2. Same(d) /\ d.todo = del.todo /\ d.pc = "call"
      BY <1>1, <2>1 DEF DelRecord
    <3> QED BY <1>6, <3>1, <3>2
  <2>2. CASE del.failing \/ ~More
    BY <1>8, <1>10, <2>2 DEF CallEnds
  <2> QED BY <2>1, <2>2
<1>11. CASE ListFails \/ \E yes \in BOOLEAN : Answer(yes)
  BY <1>8, <1>11 DEF ListFails, Answer
<1>12. CASE WaitFails
  <2> DEFINE d == [del EXCEPT !.pc = "failed", !.failing = TRUE, !.erred = TRUE]
  <2>1. Script(d, cloud)
    BY <1>12 DEF WaitFails
  <2>2. Same(d) /\ d.todo = del.todo /\ d.pc = "failed"
    BY <1>1 DEF DelRecord
  <2> QED BY <1>6, <2>1, <2>2
<1> QED BY <1>3, <1>4, <1>5, <1>7, <1>9, <1>10, <1>11, <1>12 DEF Failing

(* The steps that delete.                                                  *)
LEMMA DeletingDInv ==
    ASSUME DInv, (\E i \in del.todo : DeleteItem(i)) \/ (\E i \in DOMAIN cloud : ServerGone(i))
    PROVE  /\ DInv'
           /\ \A i \in DOMAIN cloud \ DOMAIN cloud' : Old(i)
<1>1. \A t \in Types : \A i \in del.listed[t] : Sound(i, t)
  BY DEF DInv
<1>2. ASSUME NEW i \in del.todo, DeleteItem(i)
      PROVE  DInv' /\ \A j \in DOMAIN cloud \ DOMAIN cloud' : Old(j)
  <2> DEFINE d == [del EXCEPT !.todo = @ \ {i}, !.waiting = IF Waits(Type) THEN i ELSE 0]
             c == IF Type = "server" THEN [cloud EXCEPT ![i].host = Deleting] ELSE Without({i})
  <2>1. Script(d, c) /\ i \in DOMAIN cloud /\ Old(i) /\ del.pc = "delete"
    BY <1>2 DEF DeleteItem, Deletable, DInv
  <2>2. DelRecord(d) /\ d.stage = del.stage /\ d.listed = del.listed
        /\ d.todo = del.todo \ {i} /\ d.pc = "delete"
    BY <2>1 DEF DInv, DelRecord
  <2>3. DOMAIN c \subseteq DOMAIN cloud /\ DOMAIN cloud \ DOMAIN c \subseteq {i}
        /\ \A j \in DOMAIN c :
              /\ c[j] \in Resources
              /\ c[j].name = cloud[j].name /\ c[j].type = cloud[j].type
              /\ c[j].host = Deleting => Old(j)
    <3>1. CASE Type = "server"
      <4>1. DOMAIN c = DOMAIN cloud
        BY <3>1
      <4>2. \A j \in DOMAIN cloud : c[j] = IF j = i THEN [cloud[j] EXCEPT !.host = Deleting] ELSE cloud[j]
        BY <3>1
      <4> HIDE DEF c
      <4> QED BY <2>1, <4>1, <4>2 DEF DInv, Resources
    <3>2. CASE Type # "server"
      <4>1. c = Without({i})
        BY <3>2
      <4> HIDE DEF c, d
      <4>2. /\ DOMAIN c = DOMAIN cloud \ {i}
            /\ \A j \in DOMAIN cloud \ {i} :
                 /\ c[j] \in Resources /\ c[j].name = cloud[j].name
                 /\ c[j].type = cloud[j].type /\ c[j].host = cloud[j].host
        BY <4>1, WithoutFacts
      <4> QED BY <4>2 DEF DInv
    <3> QED BY <3>1, <3>2
  <2>4. cloud' = c
    BY <2>1 DEF Script
  <2> HIDE DEF c, d
  <2>5. d.stage \in 1..3 /\ DOMAIN d.listed = Types /\ \A j \in d.todo : Old(j)
    BY <2>2 DEF DInv
  <2>6. DInv'
    BY <1>1, <2>1, <2>2, <2>3, <2>5, ScriptDInv
  <2> QED BY <2>1, <2>3, <2>4, <2>6
<1>3. ASSUME NEW i \in DOMAIN cloud, ServerGone(i)
      PROVE  DInv' /\ \A j \in DOMAIN cloud \ DOMAIN cloud' : Old(j)
  <2>1. Script(del, Without({i})) /\ Old(i) /\ cloud' = Without({i})
    BY <1>3 DEF ServerGone, DInv, Script
  <2>2. /\ DOMAIN Without({i}) = DOMAIN cloud \ {i}
        /\ \A j \in DOMAIN cloud \ {i} :
             /\ Without({i})[j] \in Resources /\ Without({i})[j].name = cloud[j].name
             /\ Without({i})[j].type = cloud[j].type /\ Without({i})[j].host = cloud[j].host
    BY WithoutFacts
  <2>3. /\ DelRecord(del) /\ del.stage \in 1..3 /\ DOMAIN del.listed = Types
        /\ \A j \in del.todo : Old(j)
        /\ del.pc \notin {"idle", "list"}
        /\ \A j \in DOMAIN Without({i}) : Without({i})[j].host = Deleting => Old(j)
    BY <1>3, <2>2 DEF DInv, ServerGone
  <2>4. DInv'
    BY <1>1, <2>1, <2>2, <2>3, ScriptDInv
  <2> QED BY <2>1, <2>2, <2>4
<1> QED BY <1>2, <1>3

-----------------------------------------------------------------------------
(* The outcome of a deletion. A volume is attached to the server that has  *)
(* its name, so that one that still is when its turn comes is there        *)
(* because somebody else created the server.                               *)
Position == [server |-> 1, port |-> 2, volume |-> 3]

Linked(c) ==
    \A i \in DOMAIN c : c[i].server # 0 =>
        /\ c[i].type = "volume" /\ c[i].server \in DOMAIN c
        /\ c[c[i].server].type = "server" /\ c[c[i].server].name = c[i].name

Waiting ==
    /\ \A i \in DOMAIN cloud : cloud[i].host = Deleting => i = del.waiting
    /\ del.waiting # 0 =>
          /\ del.pc \in {"delete", "failed"} /\ Type = "server"
          /\ del.waiting \in del.listed["server"] \ del.todo

Chosen ==
    /\ tool = "topology" => del.pc = "idle"
    /\ del.pc \in {"idle", "list", "ask", "call", "delete", "deleted", "failed", "raised", "cancelled"}
    /\ del.since \in 0..events /\ del.failing \in BOOLEAN /\ del.erred \in BOOLEAN
    /\ del.pc = "idle" => del.stage = 1 /\ \A t \in Types : del.listed[t] = {}
    /\ del.pc = "ask" => del.stage = 1
    /\ \A t \in Types : \A i \in del.listed[t] \cap DOMAIN cloud : cloud[i].type = t

(* What is gone, whatever others do: they only take more away.             *)
Worked ==
    /\ del.pc \in {"idle", "list", "ask", "call", "deleted"} => del.failing = FALSE
    /\ del.erred => del.failing = TRUE
    /\ del.pc \in {"call", "delete"} =>
          \A t \in Types : Position[t] < del.stage => del.listed[t] \cap DOMAIN cloud = {}
    /\ del.pc = "delete" =>
          /\ del.todo \subseteq del.listed[Type]
          /\ del.failing = FALSE => del.listed[Type] \cap DOMAIN cloud \subseteq del.todo \cup {del.waiting}
    /\ del.pc = "deleted" => \A t \in Types : del.listed[t] \cap DOMAIN cloud = {}
    /\ del.pc = "failed" => del.failing # FALSE

(* With nobody else at work and no error of a command: what is listed is   *)
(* all there is, and what is still to be deleted is still there.           *)
AllListed(t) ==
    \A i \in DOMAIN cloud : cloud[i].type = t /\ cloud[i].name \in Prefixed => i \in del.listed[t]

There(t) == del.listed[t] \subseteq DOMAIN cloud

Alone ==
    events = del.since /\ del.erred = FALSE =>
        /\ del.failing = FALSE
        /\ del.pc = "list" => \A t \in Types : There(t) /\ (Position[t] < del.stage => AllListed(t))
        /\ del.pc \in {"ask", "call", "delete", "deleted"} => \A t \in Types : AllListed(t)
        /\ del.pc = "ask" => \A t \in Types : There(t)
        /\ del.pc = "call" => \A t \in Types : Position[t] >= del.stage => There(t)
        /\ del.pc = "delete" => /\ del.todo \subseteq DOMAIN cloud
                                /\ \A t \in Types : Position[t] > del.stage => There(t)

OInv == DInv /\ Linked(cloud) /\ Waiting /\ Chosen /\ Worked /\ Alone

-----------------------------------------------------------------------------
(* The tree of switches.                                                   *)

(* What the role takes of the project: a server at least, each with a name *)
(* of its own, on a hypervisor.                                            *)
WellLocated(servers) ==
    /\ IsFiniteSet(DOMAIN servers) /\ DOMAIN servers # {}
    /\ \A i \in DOMAIN servers : servers[i].host \in Hosts
    /\ \A i, j \in DOMAIN servers : servers[i].name = servers[j].name => i = j

TInv ==
    /\ tool = "topology" => \A i, j \in DOMAIN cloud : cloud[i].name = cloud[j].name => i = j
    /\ topo = [pc |-> topo.pc, located |-> topo.located, topology |-> topo.topology]
    /\ topo.pc \in {"idle", "template", "failed"}
    /\ topo.pc = "template" =>
          WellLocated(topo.located) /\ topo.topology = Topology(topo.located)
    /\ topo.pc = "idle" /\ conf # {} =>
          WellLocated(topo.located) /\ conf = TopologyConf(Topology(topo.located))

IInv == OInv /\ TInv

-----------------------------------------------------------------------------
(* The proof for the deletion.                                             *)
LEMMA StageFact ==
    ASSUME DInv
    PROVE  /\ Type \in Types /\ Position[Type] = del.stage
           /\ \A t \in Types : Position[t] \in 1..3 /\ (Position[t] = del.stage => t = Type)
           /\ More <=> del.stage < 3
<1>1. del.stage \in 1..3
  BY DEF DInv
<1>2. Position["server"] = 1 /\ Position["port"] = 2 /\ Position["volume"] = 3
  BY DEF Position
<1>3. /\ del.stage = 1 => Type = "server"
      /\ del.stage = 2 => Type = "port"
      /\ del.stage = 3 => Type = "volume"
  BY DEF Type, ClusterResources
<1>4. More <=> del.stage < 3
  BY DEF More, ClusterResources
<1> QED BY <1>1, <1>2, <1>3, <1>4 DEF Types

LEMMA OldFact ==
    ASSUME DInv
    PROVE  /\ \A t \in Types : \A i \in del.listed[t] : i \in 1..created /\ (i \in DOMAIN cloud => cloud[i].name \in Prefixed)
           /\ created \in Nat /\ DOMAIN cloud \subseteq 1..created
BY DEF DInv, Sound

LEMMA WithoutLinked ==
    ASSUME DInv, Linked(cloud), NEW ids
    PROVE  /\ DOMAIN Without(ids) = DOMAIN cloud \ ids
           /\ \A i \in DOMAIN cloud \ ids :
                /\ Without(ids)[i].type = cloud[i].type
                /\ Without(ids)[i].name = cloud[i].name
                /\ Without(ids)[i].host = cloud[i].host
                /\ Without(ids)[i].server \in {0, cloud[i].server}
                /\ Without(ids)[i].server # 0 => Without(ids)[i].server \notin ids
           /\ Linked(Without(ids))
<1>1. DOMAIN Without(ids) = DOMAIN cloud \ ids
  BY DEF Without
<1>2. ASSUME NEW i \in DOMAIN cloud \ ids
      PROVE  /\ Without(ids)[i].type = cloud[i].type
             /\ Without(ids)[i].name = cloud[i].name
             /\ Without(ids)[i].host = cloud[i].host
             /\ Without(ids)[i].server \in {0, cloud[i].server}
             /\ Without(ids)[i].server # 0 => Without(ids)[i].server \notin ids
  BY DEF DInv, Without, Resources
<1>3. Linked(Without(ids))
  BY <1>1, <1>2 DEF Linked
<1> QED BY <1>1, <1>2, <1>3

(* Whatever others do, it is theirs from then on that not all is left as   *)
(* the script alone would leave it.                                        *)
LEMMA EventOInv ==
    ASSUME OInv, DInv', NEW c, Event(c), Linked(c),
           \A i \in DOMAIN c \ DOMAIN cloud : i \notin 1..created /\ c[i].host # Deleting,
           \A i \in DOMAIN c \cap DOMAIN cloud :
                /\ c[i].type = cloud[i].type
                /\ c[i].host = Deleting => cloud[i].host = Deleting
    PROVE  OInv'
<1>1. cloud' = c /\ del' = del /\ events' = events + 1 /\ tool' = tool
  BY DEF Event
<1>2. del.since \in 0..events /\ events \in Nat
  BY DEF OInv, Chosen, DInv
<1>3. \A t \in Types : del.listed[t] \cap DOMAIN c \subseteq DOMAIN cloud
  BY OldFact DEF OInv
<1>4. Type' = Type
  BY <1>1 DEF Type
<1>5. Type \in Types
  BY TypeIn DEF OInv
<1>6. Waiting'
  BY <1>1, <1>4 DEF OInv, Waiting
<1>7. Chosen'
  BY <1>1, <1>2, <1>3 DEF OInv, Chosen
<1>8. Worked'
  BY <1>1, <1>3, <1>4, <1>5 DEF OInv, Worked
<1>9. Alone'
  BY <1>1, <1>2 DEF Alone
<1> QED BY <1>1, <1>6, <1>7, <1>8, <1>9 DEF OInv

LEMMA OthersOInv ==
    ASSUME OInv, DInv',
           \/ \E i \in DOMAIN cloud : \E h \in Hosts \cup {None} : Move(i, h)
           \/ \E i \in DOMAIN cloud : OtherDeletes(i) \/ OtherSnapshots(i)
           \/ \E n \in Nodes : OtherCreates(n)
    PROVE  OInv'
<1>1. ASSUME NEW i \in DOMAIN cloud, NEW h \in Hosts \cup {None}, Move(i, h) PROVE OInv'
  <2> DEFINE c == [cloud EXCEPT ![i].host = h]
  <2>1. DOMAIN c = DOMAIN cloud /\ Event(c) /\ h # Deleting
    BY <1>1, CloudAssumption DEF Move, None, Deleting
  <2>2. \A j \in DOMAIN cloud :
          /\ c[j].type = cloud[j].type /\ c[j].name = cloud[j].name /\ c[j].server = cloud[j].server
          /\ c[j].host = Deleting => cloud[j].host = Deleting
    BY <2>1 DEF OInv, DInv, Resources
  <2> HIDE DEF c
  <2>3. Linked(c)
    BY <2>1, <2>2 DEF OInv, Linked
  <2> QED BY <2>1, <2>2, <2>3, EventOInv
<1>2. ASSUME NEW i \in DOMAIN cloud, OtherDeletes(i) PROVE OInv'
  <2>1. Event(Without({i}))
    BY <1>2 DEF OtherDeletes
  <2> QED BY <2>1, WithoutLinked, EventOInv DEF OInv
<1>4. ASSUME NEW i \in DOMAIN cloud, OtherSnapshots(i) PROVE OInv'
  <2>1. Event(cloud)
    BY <1>4 DEF OtherSnapshots
  <2> QED BY <2>1, EventOInv DEF OInv
<1>3. ASSUME NEW n \in Nodes, OtherCreates(n) PROVE OInv'
  <2>1. PICK c : Event(c) /\ c = [i \in DOMAIN cloud \cup {created'} |->
                     IF i = created' THEN Resource("server", n, None, 0)
                     ELSE IF cloud[i].type = "volume" /\ cloud[i].name = n
                          THEN [cloud[i] EXCEPT !.server = created'] ELSE cloud[i]]
    BY <1>3 DEF OtherCreates
  <2>2. created' \notin 1..created /\ created' \notin DOMAIN cloud /\ created' # 0
    BY <1>3 DEF OtherCreates, OInv, DInv
  <2>3. DOMAIN c = DOMAIN cloud \cup {created'}
    BY <2>1
  <2>4. /\ c[created'].type = "server" /\ c[created'].name = n /\ c[created'].server = 0
        /\ c[created'].host # Deleting
    BY <2>1 DEF Resource, None, Deleting
  <2>5. \A i \in DOMAIN cloud :
          /\ c[i].type = cloud[i].type /\ c[i].name = cloud[i].name /\ c[i].host = cloud[i].host
          /\ \/ c[i].server = cloud[i].server
             \/ c[i].server = created' /\ cloud[i].type = "volume" /\ cloud[i].name = n
    BY <2>1, <2>2 DEF OInv, DInv, Resources
  <2>6. Linked(c)
    BY <2>2, <2>3, <2>4, <2>5 DEF OInv, Linked
  <2>7. Event(c)
    BY <2>1
  <2> QED BY <2>2, <2>3, <2>4, <2>5, <2>6, <2>7, EventOInv
<1> QED BY <1>1, <1>2, <1>3, <1>4

LEMMA BeginOInv == ASSUME OInv, DInv', Begin PROVE OInv'
<1>1. /\ del.pc = "idle" /\ tool = "delete-cluster"
      /\ del' = [del EXCEPT !.pc = "list", !.since = events]
      /\ UNCHANGED <<cloud, tool, events>>
  BY DEF Begin, Script
<1>2. /\ del'.pc = "list" /\ del'.since = events /\ del'.stage = del.stage /\ del'.listed = del.listed
      /\ del'.todo = del.todo /\ del'.waiting = del.waiting /\ del'.failing = del.failing /\ del'.erred = del.erred
  BY <1>1 DEF OInv, DInv, DelRecord
<1>3. Linked(cloud)' /\ Waiting'
  BY <1>1, <1>2 DEF OInv, Linked, Waiting
<1>4. Chosen'
  BY <1>1, <1>2 DEF OInv, Chosen, DInv
<1>5. Worked'
  BY <1>1, <1>2 DEF OInv, Worked
<1>6. Alone'
  <2>1. \A t \in Types : del.listed[t] = {} /\ ~ (Position[t] < del.stage)
    BY <1>1, StageFact DEF OInv, Chosen
  <2> QED BY <1>1, <1>2, <2>1 DEF OInv, Worked, Alone, There
<1> QED BY <1>3, <1>4, <1>5, <1>6 DEF OInv

LEMMA ListOInv == ASSUME OInv, DInv', List PROVE OInv'
<1> DEFINE items == {i \in Of(Type) : StartsWithPrefix(cloud[i].name)}
<1>1. /\ del.pc = "list"
      /\ del' = [del EXCEPT !.listed[Type] = items,
                            !.stage = IF More THEN @ + 1 ELSE 1,
                            !.pc = IF More THEN @ ELSE "ask"]
      /\ UNCHANGED <<cloud, tool, events>>
  BY DEF List, Script
<1>2. \A i : i \in items <=> i \in DOMAIN cloud /\ cloud[i].type = Type /\ cloud[i].name \in Prefixed
  BY DEF Of, StartsWithPrefix
<1> HIDE DEF items
<1>3. /\ del'.pc = (IF More THEN "list" ELSE "ask") /\ del'.stage = (IF More THEN del.stage + 1 ELSE 1)
      /\ del'.listed = [del.listed EXCEPT ![Type] = items]
      /\ del'.since = del.since
      /\ del'.todo = del.todo /\ del'.waiting = del.waiting /\ del'.failing = del.failing /\ del'.erred = del.erred
  BY <1>1 DEF OInv, DInv, DelRecord
<1>4. \A t \in Types : del'.listed[t] = IF t = Type THEN items ELSE del.listed[t]
  BY <1>3 DEF OInv, DInv
<1>5. del.waiting = 0
  BY <1>1 DEF OInv, Waiting
<1>6. Linked(cloud)' /\ Waiting'
  BY <1>1, <1>3, <1>5 DEF OInv, Linked, Waiting
<1>7. Chosen'
  BY <1>1, <1>2, <1>3, <1>4 DEF OInv, Chosen
<1>8. Worked'
  BY <1>1, <1>3 DEF OInv, Worked
<1>9. Alone'
  <2> SUFFICES ASSUME events = del.since, del.erred = FALSE
               PROVE  /\ del'.failing = FALSE
                      /\ \A t \in Types : There(t)'
                      /\ del'.pc = "list" => \A t \in Types : Position[t] < del'.stage => AllListed(t)'
                      /\ del'.pc = "ask" => \A t \in Types : AllListed(t)'
    <3>1. del'.pc \in {"list", "ask"} /\ events' = events /\ del'.since = del.since
          /\ del'.erred = del.erred
      BY <1>1, <1>3
    <3> QED BY <3>1 DEF Alone
  <2>1. del'.failing = FALSE /\ \A t \in Types : There(t)'
    BY <1>1, <1>2, <1>3, <1>4 DEF OInv, Alone, There
  <2>2. ASSUME NEW t \in Types, Position[t] <= del.stage PROVE AllListed(t)'
    <3>1. CASE t = Type
      BY <1>1, <1>2, <1>4, <3>1 DEF AllListed
    <3>2. CASE t # Type
      <4>1. Position[t] < del.stage
        BY <2>2, <3>2, StageFact DEF OInv, DInv
      <4> QED BY <1>1, <1>4, <3>2, <4>1 DEF OInv, Alone, AllListed
    <3> QED BY <3>1, <3>2
  <2>3. del.stage \in 1..3 /\ \A t \in Types : Position[t] \in 1..3
    BY StageFact DEF OInv, DInv
  <2>4. More <=> del.stage < 3
    BY StageFact DEF OInv
  <2>5. ASSUME del'.pc = "list", NEW t \in Types, Position[t] < del'.stage PROVE AllListed(t)'
    BY <1>3, <2>2, <2>3, <2>5
  <2>6. ASSUME del'.pc = "ask", NEW t \in Types PROVE AllListed(t)'
    BY <1>3, <2>2, <2>3, <2>4, <2>6
  <2> QED BY <2>1, <2>5, <2>6
<1> QED BY <1>6, <1>7, <1>8, <1>9 DEF OInv

LEMMA EndsOInv ==
    ASSUME OInv, DInv', NEW p, del' = [del EXCEPT !.pc = p], UNCHANGED <<cloud, tool, events>>,
           del.pc \in {"list", "ask"} /\ p \in {"raised", "call", "cancelled"},
           p = "call" => del.pc = "ask"
    PROVE  OInv'
<1>1. /\ del'.pc = p /\ del'.since = del.since /\ del'.stage = del.stage /\ del'.listed = del.listed
      /\ del'.todo = del.todo /\ del'.waiting = del.waiting /\ del'.failing = del.failing /\ del'.erred = del.erred
  BY DEF OInv, DInv, DelRecord
<1>2. Linked(cloud)' /\ Waiting'
  BY <1>1 DEF OInv, Linked, Waiting
<1>3. Chosen'
  BY <1>1 DEF OInv, Chosen
<1>4. Worked'
  <2>1. p = "call" => \A t \in Types : ~ (Position[t] < del.stage)
    BY StageFact DEF OInv, Chosen
  <2> QED BY <1>1, <2>1 DEF OInv, Worked
<1>5. Alone'
  BY <1>1 DEF OInv, Alone, There, AllListed
<1> QED BY <1>2, <1>3, <1>4, <1>5 DEF OInv

LEMMA CallOInv == ASSUME OInv, DInv', Call PROVE OInv'
<1>1. /\ del.pc = "call" /\ del' = [del EXCEPT !.todo = del.listed[Type], !.pc = "delete"]
      /\ UNCHANGED <<cloud, tool, events>>
  BY DEF Call, Script, Items
<1>2. /\ del'.pc = "delete" /\ del'.since = del.since /\ del'.stage = del.stage /\ del'.listed = del.listed
      /\ del'.todo = del.listed[Type] /\ del'.waiting = del.waiting /\ del'.failing = del.failing /\ del'.erred = del.erred
      /\ Type' = Type
  BY <1>1 DEF OInv, DInv, DelRecord, Type
<1>3. del.waiting = 0
  BY <1>1 DEF OInv, Waiting
<1>4. Linked(cloud)' /\ Waiting'
  BY <1>1, <1>2, <1>3 DEF OInv, Linked, Waiting
<1>5. Chosen'
  BY <1>1, <1>2 DEF OInv, Chosen
<1>6. Worked'
  BY <1>1, <1>2 DEF OInv, Worked
<1>7. Alone'
  <2>1. /\ Type \in Types /\ Position[Type] >= del.stage
        /\ \A t \in Types : Position[t] > del.stage => Position[t] >= del.stage
    BY StageFact DEF OInv, DInv
  <2> QED BY <1>1, <1>2, <2>1 DEF OInv, Alone, There, AllListed
<1> QED BY <1>4, <1>5, <1>6, <1>7 DEF OInv

LEMMA DeleteItemOInv == ASSUME OInv, DInv', NEW i \in del.todo, DeleteItem(i) PROVE OInv'
<1> DEFINE c == IF Type = "server" THEN [cloud EXCEPT ![i].host = Deleting] ELSE Without({i})
           w == IF Type = "server" THEN i ELSE 0
<1>1. /\ del.pc = "delete" /\ del.waiting = 0 /\ i \in DOMAIN cloud
      /\ del' = [del EXCEPT !.todo = @ \ {i}, !.waiting = w]
      /\ cloud' = c /\ UNCHANGED <<tool, events>>
  BY DEF DeleteItem, Deletable, Script, Waits
<1>2. /\ del'.pc = "delete" /\ del'.since = del.since /\ del'.stage = del.stage /\ del'.listed = del.listed
      /\ del'.todo = del.todo \ {i} /\ del'.waiting = w /\ del'.failing = del.failing /\ del'.erred = del.erred
      /\ Type' = Type
  BY <1>1 DEF OInv, DInv, DelRecord, Type
<1>3. Type \in Types /\ i \in del.listed[Type] /\ i # 0 /\ cloud[i].type = Type
      /\ \A t \in Types : i \in del.listed[t] => t = Type
  BY <1>1, TypeIn, OldFact DEF OInv, Worked, Chosen
<1>4. /\ DOMAIN c = (IF Type = "server" THEN DOMAIN cloud ELSE DOMAIN cloud \ {i})
      /\ \A j \in DOMAIN c : /\ c[j].type = cloud[j].type /\ c[j].name = cloud[j].name
                             /\ c[j].host = Deleting => cloud[j].host = Deleting \/ (j = i /\ Type = "server")
      /\ Linked(c)
  <2>1. CASE Type = "server"
    <3>1. c = [cloud EXCEPT ![i].host = Deleting]
      BY <2>1
    <3>2. DOMAIN c = DOMAIN cloud
      BY <3>1
    <3>3. \A j \in DOMAIN cloud :
            /\ c[j].type = cloud[j].type /\ c[j].name = cloud[j].name /\ c[j].server = cloud[j].server
            /\ j # i => c[j].host = cloud[j].host
      BY <3>1 DEF OInv, DInv, Resources
    <3> HIDE DEF c
    <3>4. Linked(c)
      BY <3>2, <3>3 DEF OInv, Linked
    <3> QED BY <2>1, <3>2, <3>3, <3>4
  <2>2. CASE Type # "server"
    <3>1. c = Without({i})
      BY <2>2
    <3> HIDE DEF c
    <3>2. /\ DOMAIN Without({i}) = DOMAIN cloud \ {i}
          /\ \A j \in DOMAIN cloud \ {i} : /\ Without({i})[j].type = cloud[j].type
                                          /\ Without({i})[j].name = cloud[j].name
                                          /\ Without({i})[j].host = cloud[j].host
      BY WithoutLinked DEF OInv
    <3>3. Linked(Without({i}))
      BY WithoutLinked DEF OInv
    <3> QED BY <2>2, <3>1, <3>2, <3>3
  <2> QED BY <2>1, <2>2
<1>5. \A j \in DOMAIN cloud : cloud[j].host # Deleting
  BY <1>1, OldFact DEF OInv, Waiting
<1> HIDE DEF c
<1>6. Waiting'
  BY <1>1, <1>2, <1>3, <1>4, <1>5 DEF OInv, Waiting
<1>7. Chosen'
  BY <1>1, <1>2, <1>4 DEF OInv, Chosen
<1>8. Worked'
  <2>1. DOMAIN c \subseteq DOMAIN cloud
    BY <1>4
  <2>2. \A t \in Types : Position[t] < del.stage => del.listed[t] \cap DOMAIN c = {}
    BY <1>1, <2>1 DEF OInv, Worked
  <2>3. del.todo \ {i} \subseteq del.listed[Type]
    BY <1>1 DEF OInv, Worked
  <2>4. del.failing = FALSE => del.listed[Type] \cap DOMAIN c \subseteq (del.todo \ {i}) \cup {w}
    <3>1. del.failing = FALSE => del.listed[Type] \cap DOMAIN cloud \subseteq del.todo \cup {0}
      BY <1>1 DEF OInv, Worked
    <3>2. 0 \notin DOMAIN cloud
      BY OldFact DEF OInv
    <3> QED BY <1>4, <3>1, <3>2
  <2>5. del'.erred => del'.failing = TRUE
    BY <1>2 DEF OInv, Worked
  <2> HIDE DEF w
  <2> QED BY <1>1, <1>2, <2>2, <2>3, <2>4, <2>5 DEF Worked
<1>9. Alone'
  <2> SUFFICES ASSUME events = del.since, del.erred = FALSE
               PROVE  /\ del'.failing = FALSE /\ del'.todo \subseteq DOMAIN cloud'
                      /\ \A t \in Types : AllListed(t)'
                      /\ \A t \in Types : Position[t] > del'.stage => There(t)'
    BY <1>1, <1>2 DEF Alone
  <2>1. del'.failing = FALSE /\ del'.todo \subseteq DOMAIN cloud'
    BY <1>1, <1>2, <1>4 DEF OInv, Alone
  <2>2. \A t \in Types : AllListed(t)'
    BY <1>1, <1>2, <1>4 DEF OInv, Alone, AllListed
  <2>3. ASSUME NEW t \in Types, Position[t] > del'.stage PROVE There(t)'
    <3>1. There(t) /\ i \notin del.listed[t]
      <4>1. Position[Type] = del.stage /\ Position[t] > del.stage /\ Position[t] \in 1..3
        BY <1>2, <2>3, StageFact DEF OInv
      <4>2. t # Type
        BY <4>1
      <4> QED BY <1>1, <1>3, <4>1, <4>2 DEF OInv, Alone
    <3> QED BY <1>1, <1>2, <1>4, <3>1 DEF There
  <2> QED BY <2>1, <2>2, <2>3
<1> QED BY <1>1, <1>4, <1>6, <1>7, <1>8, <1>9 DEF OInv

(* Alone, no item is refused: the servers are gone before the volumes.     *)
LEMMA DeleteItemFailsOInv ==
    ASSUME OInv, DInv', NEW i \in del.todo, NEW stops \in BOOLEAN, DeleteItemFails(i, stops)
    PROVE  OInv'
<1>1. /\ del.pc = "delete" /\ del.waiting = 0
      /\ del' = [del EXCEPT !.todo = @ \ {i}, !.failing = TRUE,
                            !.erred = IF Deletable(i) THEN TRUE ELSE @,
                            !.pc = IF stops THEN "failed" ELSE @]
      /\ UNCHANGED <<cloud, tool, events>>
  BY DEF DeleteItemFails, Script
<1>2. /\ del'.pc \in {"delete", "failed"} /\ del'.since = del.since /\ del'.stage = del.stage
      /\ del'.listed = del.listed
      /\ del'.todo = del.todo \ {i} /\ del'.waiting = 0 /\ del'.failing = TRUE
      /\ del'.erred = (IF Deletable(i) THEN TRUE ELSE del.erred)
      /\ Type' = Type
  BY <1>1 DEF OInv, DInv, DelRecord, Type
<1>3. ASSUME events = del.since, del.erred = FALSE PROVE Deletable(i)
  <2>1. SUFFICES ASSUME ~ Deletable(i) PROVE FALSE
    OBVIOUS
  <2>2. i \in DOMAIN cloud
    BY <1>1, <1>3 DEF OInv, Alone
  <2>3. cloud[i].server # 0 /\ cloud[i].type = Type /\ Type \in Types /\ cloud[i].name \in Prefixed
    BY <1>1, <2>1, <2>2, TypeIn, OldFact DEF OInv, Worked, Chosen, Deletable
  <2> DEFINE j == cloud[i].server
  <2>4. Type = "volume" /\ j \in DOMAIN cloud /\ cloud[j].type = "server" /\ cloud[j].name \in Prefixed
    BY <2>2, <2>3 DEF OInv, Linked
  <2>5. "server" \in Types /\ Position["server"] < del.stage
    BY <2>4, StageFact DEF OInv, Position, Types
  <2>6. j \in del.listed["server"]
    BY <1>1, <1>3, <2>4, <2>5 DEF OInv, Alone, AllListed
  <2> QED BY <1>1, <2>4, <2>5, <2>6 DEF OInv, Worked
<1>4. Linked(cloud)' /\ Waiting'
  BY <1>1, <1>2 DEF OInv, Linked, Waiting
<1>5. Chosen'
  <2>1. del'.failing \in BOOLEAN /\ del'.erred \in BOOLEAN
    BY <1>2, Zenon DEF OInv, Chosen
  <2> QED BY <1>1, <1>2, <2>1 DEF OInv, Chosen
<1>6. Worked'
  BY <1>1, <1>2 DEF OInv, Worked
<1>7. Alone'
  BY <1>1, <1>2, <1>3 DEF Alone
<1> QED BY <1>4, <1>5, <1>6, <1>7 DEF OInv

LEMMA WaitFailsOInv == ASSUME OInv, DInv', WaitFails PROVE OInv'
<1>1. /\ del.pc = "delete" /\ del' = [del EXCEPT !.pc = "failed", !.failing = TRUE, !.erred = TRUE]
      /\ UNCHANGED <<cloud, tool, events>>
  BY DEF WaitFails, Script
<1>2. /\ del'.pc = "failed" /\ del'.since = del.since /\ del'.stage = del.stage
      /\ del'.listed = del.listed /\ del'.todo = del.todo /\ del'.waiting = del.waiting
      /\ del'.failing = TRUE /\ del'.erred = TRUE
      /\ Type' = Type
  BY <1>1 DEF OInv, DInv, DelRecord, Type
<1>3. Linked(cloud)' /\ Waiting'
  BY <1>1, <1>2 DEF OInv, Linked, Waiting
<1>4. Chosen'
  <2>1. del'.failing \in BOOLEAN /\ del'.erred \in BOOLEAN
    BY <1>2, Zenon
  <2> QED BY <1>1, <1>2, <2>1 DEF OInv, Chosen
<1>5. Worked' /\ Alone'
  BY <1>2 DEF Worked, Alone
<1> QED BY <1>3, <1>4, <1>5 DEF OInv

LEMMA ServerGoneOInv == ASSUME OInv, DInv', NEW i \in DOMAIN cloud, ServerGone(i) PROVE OInv'
<1>1. /\ cloud[i].host = Deleting /\ del' = del /\ cloud' = Without({i}) /\ UNCHANGED <<tool, events>>
      /\ Type' = Type
  BY DEF ServerGone, Script, Type
<1>2. /\ i = del.waiting /\ del.pc \in {"delete", "failed"} /\ Type = "server"
      /\ i \in del.listed["server"] /\ i \notin del.todo
  BY <1>1, OldFact DEF OInv, Waiting
<1>3. \A t \in Types : i \in del.listed[t] => t = Type
  BY <1>2 DEF OInv, Chosen, Types
<1>4. /\ DOMAIN cloud' = DOMAIN cloud \ {i}
      /\ \A j \in DOMAIN cloud' : /\ cloud'[j].type = cloud[j].type /\ cloud'[j].name = cloud[j].name
                                  /\ cloud'[j].host = cloud[j].host
      /\ Linked(cloud)'
  <2>1. /\ DOMAIN Without({i}) = DOMAIN cloud \ {i}
        /\ \A j \in DOMAIN cloud \ {i} : /\ Without({i})[j].type = cloud[j].type
                                        /\ Without({i})[j].name = cloud[j].name
                                        /\ Without({i})[j].host = cloud[j].host
    BY WithoutLinked DEF OInv
  <2>2. Linked(Without({i}))
    BY WithoutLinked DEF OInv
  <2> QED BY <1>1, <2>1, <2>2 DEF Linked
<1>5. Waiting'
  BY <1>1, <1>2, <1>4 DEF OInv, Waiting
<1>6. Chosen'
  <2>1. \A t \in Types : \A j \in del.listed[t] \cap DOMAIN cloud' : cloud'[j].type = t
    BY <1>4 DEF OInv, Chosen
  <2> QED BY <1>1, <1>2, <2>1 DEF OInv, Chosen
<1>7. Worked'
  BY <1>1, <1>2, <1>4, TypeIn DEF OInv, Worked
<1>8. Alone'
  <2> SUFFICES ASSUME events = del.since, del.erred = FALSE
               PROVE  /\ del.failing = FALSE /\ del.todo \subseteq DOMAIN cloud'
                      /\ \A t \in Types : AllListed(t)'
                      /\ \A t \in Types : Position[t] > del.stage => There(t)'
    BY <1>1, <1>2 DEF Alone
  <2>alone. del.pc = "delete"
    BY <1>2 DEF OInv, Worked, Alone
  <2>1. del.failing = FALSE /\ del.todo \subseteq DOMAIN cloud'
    BY <1>2, <1>4, <2>alone DEF OInv, Alone
  <2>2. \A t \in Types : AllListed(t)'
    BY <1>1, <1>2, <1>4, <2>alone DEF OInv, Alone, AllListed
  <2>3. ASSUME NEW t \in Types, Position[t] > del.stage PROVE There(t)'
    <3>1. t # Type
      BY <2>3, StageFact DEF OInv, DInv
    <3> QED BY <1>1, <1>2, <1>3, <1>4, <2>alone, <2>3, <3>1 DEF OInv, Alone, There
  <2> QED BY <2>1, <2>2, <2>3
<1> QED BY <1>4, <1>5, <1>6, <1>7, <1>8 DEF OInv

LEMMA WaitedOInv == ASSUME OInv, DInv', Waited PROVE OInv'
<1>1. /\ del.pc = "delete" /\ del.waiting # 0 /\ del.waiting \notin DOMAIN cloud
      /\ del' = [del EXCEPT !.waiting = 0]
      /\ UNCHANGED <<cloud, tool, events>>
  BY DEF Waited, Script
<1>2. /\ del'.pc = del.pc /\ del'.since = del.since /\ del'.stage = del.stage /\ del'.listed = del.listed
      /\ del'.todo = del.todo /\ del'.waiting = 0 /\ del'.failing = del.failing /\ del'.erred = del.erred
      /\ Type' = Type
  BY <1>1 DEF OInv, DInv, DelRecord, Type
<1>3. Linked(cloud)' /\ Waiting'
  BY <1>1, <1>2 DEF OInv, Linked, Waiting
<1>4. Chosen'
  BY <1>1, <1>2 DEF OInv, Chosen
<1>5. Worked'
  BY <1>1, <1>2 DEF OInv, Worked
<1>6. Alone'
  BY <1>1, <1>2 DEF OInv, Alone, There, AllListed
<1> QED BY <1>3, <1>4, <1>5, <1>6 DEF OInv

LEMMA CallEndsOInv == ASSUME OInv, DInv', CallEnds PROVE OInv'
<1>1. /\ del.pc = "delete" /\ del.todo = {} /\ del.waiting = 0
      /\ del' = IF del.failing THEN [del EXCEPT !.pc = "failed"]
                ELSE IF More THEN [del EXCEPT !.pc = "call", !.stage = @ + 1]
                ELSE [del EXCEPT !.pc = "deleted"]
      /\ UNCHANGED <<cloud, tool, events>>
  BY DEF CallEnds, Script
<1>2. /\ del'.since = del.since /\ del'.listed = del.listed /\ del'.todo = {}
      /\ del'.waiting = 0 /\ del'.failing = del.failing /\ del'.erred = del.erred
      /\ del.failing => del'.pc = "failed" /\ del'.stage = del.stage
      /\ ~ del.failing /\ More => del'.pc = "call" /\ del'.stage = del.stage + 1
      /\ ~ del.failing /\ ~ More => del'.pc = "deleted" /\ del'.stage = del.stage
  BY <1>1 DEF OInv, DInv, DelRecord
<1>3. /\ del.stage \in 1..3 /\ Type \in Types /\ (More <=> del.stage < 3)
      /\ \A t \in Types : Position[t] \in 1..3 /\ (Position[t] = del.stage => t = Type)
  BY StageFact DEF OInv, DInv
<1>4. ~ del.failing => \A t \in Types : Position[t] <= del.stage => del.listed[t] \cap DOMAIN cloud = {}
  <2> SUFFICES ASSUME ~ del.failing, NEW t \in Types, Position[t] <= del.stage
               PROVE  del.listed[t] \cap DOMAIN cloud = {}
    OBVIOUS
  <2>1. CASE Position[t] < del.stage
    BY <1>1, <2>1 DEF OInv, Worked
  <2>2. CASE t = Type
    <3>1. del.failing = FALSE
      BY DEF OInv, Chosen
    <3>2. 0 \notin DOMAIN cloud
      BY OldFact DEF OInv
    <3> QED BY <1>1, <2>2, <3>1, <3>2 DEF OInv, Worked
  <2> QED BY <1>3, <2>1, <2>2
<1>5. Linked(cloud)' /\ Waiting'
  BY <1>1, <1>2 DEF OInv, Linked, Waiting
<1>6. Chosen'
  BY <1>1, <1>2, <1>3 DEF OInv, Chosen
<1>7. Worked'
  <2>erred. del'.erred => del'.failing = TRUE
    BY <1>2 DEF OInv, Worked
  <2>1. CASE del.failing
    <3>1. del'.pc = "failed" /\ del'.failing # FALSE
      BY <1>2, <2>1
    <3> QED BY <2>erred, <3>1 DEF Worked
  <2>2. CASE ~ del.failing /\ More
    <3>1. del'.pc = "call" /\ del'.failing = FALSE /\ del'.stage = del.stage + 1
      BY <1>2, <2>2 DEF OInv, Chosen
    <3>2. \A t \in Types : Position[t] < del.stage + 1 => del.listed[t] \cap DOMAIN cloud = {}
      BY <1>3, <1>4, <2>2
    <3> QED BY <1>1, <1>2, <2>erred, <3>1, <3>2 DEF Worked
  <2>3. CASE ~ del.failing /\ ~ More
    <3>1. del'.pc = "deleted" /\ del'.failing = FALSE
      BY <1>2, <2>3 DEF OInv, Chosen
    <3>2. \A t \in Types : del.listed[t] \cap DOMAIN cloud = {}
      BY <1>3, <1>4, <2>3
    <3> QED BY <1>1, <1>2, <2>erred, <3>1, <3>2 DEF Worked
  <2> QED BY <2>1, <2>2, <2>3
<1>8. Alone'
  <2>1. ~ del.failing /\ More => \A t \in Types : Position[t] >= del.stage + 1 => Position[t] > del.stage
    BY <1>3
  <2> QED BY <1>1, <1>2, <2>1 DEF OInv, Alone, There, AllListed
<1> QED BY <1>5, <1>6, <1>7, <1>8 DEF OInv

-----------------------------------------------------------------------------
(* The proof for the tree of switches.                                     *)
LEMMA LeastIsMember == ASSUME NEW S, S \subseteq Nat, S # {} PROVE Min(S) \in S
<1>1. PICK x \in S : \A y \in S : <<y, x>> \notin OpToRel(<, Nat)
  BY NatLessThanWellFounded, WFMin
<1>2. ASSUME NEW y \in S PROVE x <= y
  <2>1. <<y, x>> \in Nat \X Nat /\ y \in Nat /\ x \in Nat
    OBVIOUS
  <2>2. ~ (y < x)
    BY <1>1, <2>1 DEF OpToRel
  <2> QED BY <2>1, <2>2
<1> QED BY <1>2 DEF Min

(* The length that min_prefix finds tells the hypervisors apart.           *)
LEMMA PrefixesDiffer ==
    ASSUME NEW hosts, hosts \subseteq Hosts, IsFiniteSet(hosts), hosts # {}
    PROVE  LET length == MinPrefix({HostId[h] : h \in hosts})
           IN /\ \A g, h \in hosts :
                    SubSeq(HostId[g], 1, length) = SubSeq(HostId[h], 1, length) => g = h
              /\ \A h \in hosts : length \in 0..Len(HostId[h])
<1> DEFINE ids == {HostId[h] : h \in hosts}
           length == MinPrefix(ids)
           full == Len(CHOOSE u \in ids : TRUE)
           more == {l \in Start..(full - 1) : Cardinality(PrefixesOf(ids, l)) = Cardinality(ids)}
<1>1. /\ Start \in Nat
      /\ \A h \in hosts : HostId[h] \in Seq(Nat)
      /\ \A h, g \in hosts : Len(HostId[h]) = Len(HostId[g]) /\ (HostId[h] = HostId[g] => h = g)
  BY CloudAssumption
<1>2. IsFiniteSet(ids)
  <2> DEFINE f == [h \in hosts |-> HostId[h]]
  <2>1. f \in Surjection(hosts, ids)
    BY DEF Surjection
  <2> QED BY <2>1, FS_Surjection
<1>3. full \in Nat /\ \A u \in ids : Len(u) = full /\ u \in Seq(Nat)
  <2>1. (CHOOSE u \in ids : TRUE) \in ids
    OBVIOUS
  <2>2. PICK g \in hosts : (CHOOSE u \in ids : TRUE) = HostId[g]
    BY <2>1
  <2> QED BY <1>1, <2>2
<1>4. length \in {full} \cup more
  <2>1. {full} \cup more \subseteq Nat
    BY <1>1, <1>3
  <2>2. length = Min({full} \cup more)
    BY DEF MinPrefix
  <2> HIDE DEF more, full, length
  <2> QED BY <2>1, <2>2, LeastIsMember
<1>5. ASSUME NEW u \in ids, NEW v \in ids, SubSeq(u, 1, length) = SubSeq(v, 1, length)
      PROVE  u = v
  <2>1. CASE length = full
    <3>1. SubSeq(u, 1, full) = u /\ SubSeq(v, 1, full) = v
      BY <1>3, SubSeqFull
    <3> QED BY <1>5, <2>1, <3>1
  <2>2. CASE length \in more
    <3> DEFINE f == [w \in ids |-> SubSeq(w, 1, length)]
               T == PrefixesOf(ids, length)
    <3>1. Cardinality(T) = Cardinality(ids)
      BY <2>2
    <3>2. f \in Surjection(ids, T)
      <4> HIDE DEF ids, length
      <4> QED BY DEF PrefixesOf, Surjection
    <3> HIDE DEF T
    <3>3. f \in Injection(ids, T)
      BY <1>2, <3>1, <3>2, FS_Surjection
    <3>4. \A x, y \in ids : f[x] = f[y] => x = y
      <4> HIDE DEF f, ids
      <4> QED BY <3>3 DEF Injection, IsInjective
    <3> HIDE DEF length
    <3> QED BY <1>5, <3>4
  <2> QED BY <1>4, <2>1, <2>2
<1>7. \A h \in hosts : length \in 0..Len(HostId[h])
  <2>1. length \in 0..full
    <3> HIDE DEF length, full
    <3> QED BY <1>1, <1>3, <1>4
  <2>2. \A h \in hosts : Len(HostId[h]) = full
    BY <1>3
  <2> QED BY <2>1, <2>2
<1> HIDE DEF length
<1>6. ASSUME NEW g \in hosts, NEW h \in hosts, SubSeq(HostId[g], 1, length) = SubSeq(HostId[h], 1, length)
      PROVE  g = h
  <2>1. HostId[g] = HostId[h]
    BY <1>5, <1>6
  <2> QED BY <1>1, <2>1
<1> QED BY <1>6, <1>7 DEF length

HostsOf(servers) == {servers[i].host : i \in DOMAIN servers}
NamesOf(servers, h) == {servers[i].name : i \in {i \in DOMAIN servers : servers[i].host = h}}

(* The lines of the file, by hypervisor, for short names of them that      *)
(* differ.                                                                 *)
Tree(lines, servers, short) ==
    LET hosts == HostsOf(servers)
    IN /\ \A g, h \in hosts : short[g] = short[h] => g = h
       /\ \A h \in hosts : short[h] \in Beginnings(h)
       /\ lines = {Line(Master, {}, {Az[h] : h \in hosts})}
                  \cup {Line(Az[h], {}, {short[g] : g \in {g \in hosts : Az[g] = Az[h]}}) : h \in hosts}
                  \cup {Line(short[h], NamesOf(servers, h), {}) : h \in hosts}

LEMMA LinesOf ==
    ASSUME NEW servers, WellLocated(servers)
    PROVE  \E short : Tree(TopologyConf(Topology(servers)), servers, short)
<1> DEFINE hosts == HostsOf(servers)
           length == MinPrefix({HostId[h] : h \in hosts})
           short == [h \in hosts |-> SubSeq(HostId[h], 1, length)]
           topology == Topology(servers)
<1>1. hosts \subseteq Hosts /\ hosts # {}
  BY DEF WellLocated, HostsOf
<1>2. IsFiniteSet(hosts)
  <2> DEFINE f == [i \in DOMAIN servers |-> servers[i].host]
  <2>1. f \in Surjection(DOMAIN servers, hosts)
    BY DEF Surjection, HostsOf
  <2> QED BY <2>1, FS_Surjection DEF WellLocated
<1>3. \A g, h \in hosts : short[g] = short[h] => g = h
  <2>1. \A g, h \in hosts : SubSeq(HostId[g], 1, length) = SubSeq(HostId[h], 1, length) => g = h
    BY <1>1, <1>2, PrefixesDiffer
  <2> HIDE DEF hosts, length
  <2> QED BY <2>1
<1>begin. \A h \in hosts : short[h] \in Beginnings(h)
  <2>1. \A h \in hosts : length \in 0..Len(HostId[h])
    BY <1>1, <1>2, PrefixesDiffer
  <2> HIDE DEF hosts, length
  <2> QED BY <2>1 DEF Beginnings
<1> DEFINE raw(h) == SubSeq(HostId[h], 1, length)
<1>4. topology = [az \in {Az[h] : h \in hosts} |->
                    [p \in {raw(h) : h \in {h \in hosts : Az[h] = az}} |->
                        NamesOf(servers, CHOOSE h \in {h \in hosts : Az[h] = az} : raw(h) = p)]]
  BY DEF Topology, NamesOf, HostsOf
<1>5. DOMAIN topology = {Az[h] : h \in hosts}
  BY <1>4
<1>same. \A h \in hosts : short[h] = raw(h)
  OBVIOUS
<1> HIDE DEF short, length, hosts, topology, raw
<1>6. \A az \in DOMAIN topology : DOMAIN topology[az] = {short[h] : h \in {h \in hosts : Az[h] = az}}
  <2> SUFFICES ASSUME NEW az \in DOMAIN topology
               PROVE  DOMAIN topology[az] = {short[h] : h \in {h \in hosts : Az[h] = az}}
    OBVIOUS
  <2>1. DOMAIN topology[az] = {raw(h) : h \in {h \in hosts : Az[h] = az}}
    BY <1>4, <1>5
  <2> QED BY <1>same, <2>1
<1>7. \A h \in hosts : topology[Az[h]][short[h]] = NamesOf(servers, h)
  <2> SUFFICES ASSUME NEW h \in hosts PROVE topology[Az[h]][short[h]] = NamesOf(servers, h)
    OBVIOUS
  <2> DEFINE x == CHOOSE g \in {g \in hosts : Az[g] = Az[h]} : raw(g) = raw(h)
  <2>1. topology[Az[h]][raw(h)] = NamesOf(servers, x)
    BY <1>4
  <2>2. x \in hosts /\ raw(x) = raw(h)
    OBVIOUS
  <2> HIDE DEF x
  <2> QED BY <1>3, <1>same, <2>1, <2>2
<1> DEFINE azLines == {Line(az, {}, DOMAIN topology[az]) : az \in DOMAIN topology}
           hostLines == UNION {{Line(p, topology[az][p], {}) : p \in DOMAIN topology[az]} : az \in DOMAIN topology}
<1>8. azLines = {Line(Az[h], {}, {short[g] : g \in {g \in hosts : Az[g] = Az[h]}}) : h \in hosts}
  <2>1. \A h \in hosts : DOMAIN topology[Az[h]]
                            = {short[g] : g \in {g \in hosts : Az[g] = Az[h]}}
    BY <1>5, <1>6
  <2>2. azLines = {Line(Az[h], {}, DOMAIN topology[Az[h]]) : h \in hosts}
    BY <1>5
  <2> HIDE DEF azLines
  <2>3. \A h \in hosts : Line(Az[h], {}, DOMAIN topology[Az[h]])
                            = Line(Az[h], {}, {short[g] : g \in {g \in hosts : Az[g] = Az[h]}})
    BY <2>1
  <2>4. \A l : l \in azLines <=> \E h \in hosts : l = Line(Az[h], {}, DOMAIN topology[Az[h]])
    BY <2>2, Zenon
  <2> DEFINE zones == {Line(Az[h], {}, {short[g] : g \in {g \in hosts : Az[g] = Az[h]}}) : h \in hosts}
  <2>5. \A l : l \in zones
             <=> \E h \in hosts : l = Line(Az[h], {}, {short[g] : g \in {g \in hosts : Az[g] = Az[h]}})
    BY Zenon
  <2>6. \A h \in hosts : \A l :
           l = Line(Az[h], {}, DOMAIN topology[Az[h]])
             <=> l = Line(Az[h], {}, {short[g] : g \in {g \in hosts : Az[g] = Az[h]}})
    BY <2>3, Zenon
  <2> HIDE DEF zones
  <2>7. \A l : l \in azLines <=> l \in zones
    BY <2>4, <2>5, <2>6, Zenon
  <2>8. azLines = zones
    BY <2>7
  <2> QED BY <2>8 DEF zones
<1>9. hostLines = {Line(short[h], NamesOf(servers, h), {}) : h \in hosts}
  <2>1. ASSUME NEW l \in hostLines PROVE \E h \in hosts : l = Line(short[h], NamesOf(servers, h), {})
    <3>1. PICK az \in DOMAIN topology : l \in {Line(p, topology[az][p], {}) : p \in DOMAIN topology[az]}
      OBVIOUS
    <3>2. PICK p \in DOMAIN topology[az] : l = Line(p, topology[az][p], {})
      BY <3>1
    <3>3. PICK h \in hosts : Az[h] = az /\ p = short[h]
      BY <1>6, <3>2
    <3> QED BY <1>7, <3>2, <3>3
  <2>2. ASSUME NEW h \in hosts PROVE Line(short[h], NamesOf(servers, h), {}) \in hostLines
    <3>1. Az[h] \in DOMAIN topology /\ short[h] \in DOMAIN topology[Az[h]]
      BY <1>5, <1>6
    <3>2. Line(short[h], topology[Az[h]][short[h]], {})
            \in {Line(p, topology[Az[h]][p], {}) : p \in DOMAIN topology[Az[h]]}
      BY <3>1
    <3> QED BY <1>7, <3>1, <3>2
  <2> HIDE DEF hostLines
  <2> QED BY <2>1, <2>2
<1>10. DOMAIN topology = {Az[h] : h \in hosts}
  BY <1>5
<1>11. TopologyConf(topology) = {Line(Master, {}, DOMAIN topology)}
                                  \cup azLines \cup hostLines
  BY DEF TopologyConf
<1> HIDE DEF azLines, hostLines
<1>12. TopologyConf(topology) =
           {Line(Master, {}, {Az[h] : h \in hosts})}
           \cup {Line(Az[h], {}, {short[g] : g \in {g \in hosts : Az[g] = Az[h]}}) : h \in hosts}
           \cup {Line(short[h], NamesOf(servers, h), {}) : h \in hosts}
  BY <1>8, <1>9, <1>10, <1>11
<1> QED BY <1>3, <1>begin, <1>12 DEF hosts, topology, Tree

(* The tree is that of the project, when the file was made from it.        *)
LEMMA TreeIsFaithful ==
    ASSUME WellLocated(topo.located), conf = TopologyConf(Topology(topo.located))
    PROVE  /\ \A n \in MappedNodes : Cardinality(Leaf(n)) = 1
           /\ \A n, m \in MappedNodes : Leaf(n) = Leaf(m) <=> MappedTogether(n, m)
           /\ ZonesApart =>
                /\ \A l, k \in conf : l.switch = k.switch => l = k
                /\ \A l \in conf : Cardinality({k \in conf : l.switch \in k.switches})
                                     = IF l.switch = Master THEN 0 ELSE 1
<1> DEFINE servers == topo.located
           hosts == HostsOf(servers)
<1>1. PICK short : Tree(conf, servers, short)
  BY LinesOf
<1>2. /\ \A g, h \in hosts : short[g] = short[h] => g = h
      /\ \A h \in hosts : short[h] \in Beginnings(h)
  BY <1>1 DEF Tree
<1>3. conf = {Line(Master, {}, {Az[h] : h \in hosts})}
             \cup {Line(Az[h], {}, {short[g] : g \in {g \in hosts : Az[g] = Az[h]}}) : h \in hosts}
             \cup {Line(short[h], NamesOf(servers, h), {}) : h \in hosts}
  BY <1>1 DEF Tree
<1> DEFINE top == Line(Master, {}, {Az[h] : h \in hosts})
           zone(h) == Line(Az[h], {}, {short[g] : g \in {g \in hosts : Az[g] = Az[h]}})
           leaf(h) == Line(short[h], NamesOf(servers, h), {})
<1>4. \A l : l \in conf <=> l = top \/ (\E h \in hosts : l = zone(h)) \/ (\E h \in hosts : l = leaf(h))
  BY <1>3
<1>5. /\ top.switch = Master /\ top.nodes = {}
      /\ \A x : x \in top.switches <=> \E h \in hosts : x = zone(h).switch
      /\ \A h \in hosts : /\ zone(h).switch = Az[h] /\ zone(h).nodes = {}
                          /\ \A x : x \in zone(h).switches <=>
                                \E g \in hosts : Az[g] = Az[h] /\ x = leaf(g).switch
      /\ \A h \in hosts : /\ leaf(h).switch = short[h]
                          /\ leaf(h).nodes = NamesOf(servers, h) /\ leaf(h).switches = {}
  <2>1. /\ top.switch = Master /\ top.nodes = {} /\ top.switches = {Az[h] : h \in hosts}
        /\ \A h \in hosts : /\ zone(h).switch = Az[h] /\ zone(h).nodes = {}
                            /\ zone(h).switches = {short[g] : g \in {g \in hosts : Az[g] = Az[h]}}
        /\ \A h \in hosts : /\ leaf(h).switch = short[h] /\ leaf(h).nodes = NamesOf(servers, h)
                            /\ leaf(h).switches = {}
    BY DEF Line
  <2> HIDE DEF top, zone, leaf, hosts
  <2>2. \A x : x \in top.switches <=> \E h \in hosts : x = zone(h).switch
    BY <2>1
  <2>3. ASSUME NEW h \in hosts
        PROVE  \A x : x \in zone(h).switches <=> \E g \in hosts : Az[g] = Az[h] /\ x = leaf(g).switch
    <3>1. zone(h).switches = {short[g] : g \in {g \in hosts : Az[g] = Az[h]}}
          /\ \A g \in hosts : leaf(g).switch = short[g]
      BY <2>1
    <3> QED BY <3>1, Zenon
  <2> QED BY <2>1, <2>2, <2>3
<1>6. \A g, h \in hosts : Az[g] = Az[h] => zone(g) = zone(h)
  OBVIOUS
<1>apart. ASSUME ZonesApart
          PROVE  \A g, h \in hosts : Az[g] # Master /\ Az[g] # short[h]
  <2>1. ASSUME NEW g \in hosts, NEW h \in hosts PROVE Az[g] # Master /\ Az[g] \notin Beginnings(h)
    <3>1. PICK i \in DOMAIN servers : servers[i].host = g
      BY DEF HostsOf
    <3>2. PICK j \in DOMAIN servers : servers[j].host = h
      BY DEF HostsOf
    <3> QED BY <1>apart, <3>1, <3>2 DEF ZonesApart
  <2> QED BY <1>2, <2>1
<1>low. \A h \in hosts : short[h] # Master
  BY <1>2, CloudAssumption DEF WellLocated, HostsOf
<1> HIDE DEF top, zone, leaf, hosts
<1>7. \A g, h \in hosts : leaf(g).switch = leaf(h).switch => g = h
  BY <1>2, <1>5
<1>8. ASSUME ZonesApart, NEW l \in conf, NEW k \in conf, l.switch = k.switch PROVE l = k
  <2>1. \A g, h \in hosts : Az[g] # Master /\ Az[g] # short[h] /\ short[h] # Master
    BY <1>apart, <1>low, <1>8
  <2>2. CASE l = top
    BY <1>4, <1>5, <1>8, <2>1, <2>2
  <2>3. ASSUME NEW h \in hosts, l = zone(h) PROVE l = k
    BY <1>4, <1>5, <1>6, <1>8, <2>1, <2>3
  <2>4. ASSUME NEW h \in hosts, l = leaf(h) PROVE l = k
    BY <1>4, <1>5, <1>7, <1>8, <2>1, <2>4
  <2> QED BY <1>4, <2>2, <2>3, <2>4
<1>9. ASSUME ZonesApart, NEW l \in conf
      PROVE  Cardinality({k \in conf : l.switch \in k.switches}) = IF l.switch = Master THEN 0 ELSE 1
  <2>apart. \A g, h \in hosts : Az[g] # Master /\ Az[g] # short[h] /\ short[h] # Master
    BY <1>apart, <1>low, <1>9
  <2> DEFINE parents == {k \in conf : l.switch \in k.switches}
  <2>1. CASE l = top
    <3>1. parents = {}
      BY <1>4, <1>5, <2>apart, <2>1
    <3> HIDE DEF parents
    <3>2. l.switch = Master
      BY <1>5, <2>1
    <3>3. Cardinality(parents) = 0
      BY <3>1, FS_EmptySet
    <3> QED BY <3>2, <3>3 DEF parents
  <2>2. ASSUME NEW h \in hosts, l = zone(h) PROVE parents = {top} /\ l.switch # Master
    BY <1>4, <1>5, <2>apart, <2>2
  <2>3. ASSUME NEW h \in hosts, l = leaf(h) PROVE parents = {zone(h)} /\ l.switch # Master
    <3>1. l.switch = leaf(h).switch /\ l.switch = short[h]
      BY <1>5, <2>3
    <3>2. zone(h) \in parents
      BY <1>4, <1>5, <3>1
    <3>3. ASSUME NEW k \in parents PROVE k = zone(h)
      <4>1. k # top /\ ~ \E g \in hosts : k = leaf(g)
        BY <1>5, <2>apart, <3>1, <3>3
      <4>2. PICK g \in hosts : k = zone(g)
        BY <1>4, <4>1
      <4>3. PICK x \in hosts : Az[x] = Az[g] /\ leaf(h).switch = leaf(x).switch
        BY <1>5, <3>1, <3>3, <4>2
      <4>4. x = h
        BY <1>7, <4>3
      <4> QED BY <1>6, <4>2, <4>3, <4>4
    <3> QED BY <2>apart, <3>1, <3>2, <3>3
  <2>4. \A k : Cardinality({k}) = 1
    BY FS_Singleton
  <2> HIDE DEF parents
  <2>5. (\E h \in hosts : l = zone(h)) \/ (\E h \in hosts : l = leaf(h))
        => Cardinality(parents) = 1 /\ l.switch # Master
    BY <2>2, <2>3, <2>4
  <2> QED BY <1>4, <2>1, <2>5 DEF parents
<1>10. ASSUME NEW i \in DOMAIN servers
      PROVE  servers[i].host \in hosts /\ Leaf(servers[i].name) = {leaf(servers[i].host).switch}
  <2> DEFINE n == servers[i].name
             h == servers[i].host
  <2>1. h \in hosts /\ n \in NamesOf(servers, h)
    BY DEF hosts, HostsOf, NamesOf
  <2>2. leaf(h) \in conf /\ n \in leaf(h).nodes
    BY <1>4, <1>5, <2>1
  <2>3. ASSUME NEW l \in conf, n \in l.nodes PROVE l = leaf(h)
    <3>1. PICK g \in hosts : l = leaf(g)
      BY <1>4, <1>5, <2>3
    <3>2. n \in NamesOf(servers, g)
      BY <1>5, <2>3, <3>1
    <3>3. PICK j \in DOMAIN servers : servers[j].host = g /\ servers[j].name = n
      BY <3>2 DEF NamesOf
    <3>4. j = i
      BY <3>3 DEF WellLocated
    <3> QED BY <3>1, <3>3, <3>4
  <2>4. Leaf(n) = {leaf(h).switch}
    <3> HIDE DEF h, n
    <3> QED BY <2>2, <2>3 DEF Leaf
  <2> QED BY <1>5, <2>1, <2>4
<1>11. ASSUME NEW n \in MappedNodes PROVE Cardinality(Leaf(n)) = 1
  <2>1. \A x : Cardinality({x}) = 1
    BY FS_Singleton
  <2> QED BY <1>10, <2>1 DEF MappedNodes
<1>12. ASSUME NEW n \in MappedNodes, NEW m \in MappedNodes
      PROVE  Leaf(n) = Leaf(m) <=> MappedTogether(n, m)
  <2>1. PICK i \in DOMAIN servers, j \in DOMAIN servers : servers[i].name = n /\ servers[j].name = m
    BY DEF MappedNodes
  <2>2. Leaf(n) = Leaf(m) <=> servers[i].host = servers[j].host
    <3>1. /\ Leaf(n) = {leaf(servers[i].host).switch}
          /\ Leaf(m) = {leaf(servers[j].host).switch}
          /\ servers[i].host \in hosts /\ servers[j].host \in hosts
      BY <1>10, <2>1
    <3>2. Leaf(n) = Leaf(m) <=> leaf(servers[i].host).switch = leaf(servers[j].host).switch
      BY <3>1
    <3> QED BY <1>7, <3>1, <3>2
  <2>3. MappedTogether(n, m) <=> servers[i].host = servers[j].host
    BY <2>1 DEF MappedTogether, WellLocated
  <2> QED BY <2>2, <2>3
<1> QED BY <1>8, <1>9, <1>11, <1>12

LEMMA MapHostsTInv == ASSUME OInv, TInv, MapHosts PROVE TInv'
<1>1. /\ tool = "topology" /\ topo.pc = "idle"
      /\ topo' = IF Located = <<>> THEN [topo EXCEPT !.pc = "failed"]
                 ELSE [pc |-> "template", located |-> Located, topology |-> Topology(Located)]
      /\ UNCHANGED <<tool, cloud, conf>>
  BY DEF MapHosts
<1>2. CASE Located = <<>>
  <2>1. topo'.pc = "failed" /\ topo' = [pc |-> topo'.pc, located |-> topo'.located, topology |-> topo'.topology]
    BY <1>1, <1>2 DEF TInv
  <2> QED BY <1>1, <2>1 DEF TInv
<1>3. CASE Located # <<>>
  <2>1. \A i \in DOMAIN cloud : cloud[i].host # Deleting
    <3>1. del.waiting = 0 /\ 0 \notin DOMAIN cloud
      BY <1>1, OldFact DEF OInv, Chosen, Waiting
    <3> QED BY <3>1 DEF OInv, Waiting
  <2>2. /\ DOMAIN Located = {i \in Of("server") : cloud[i].name \in TopologyNodes /\ cloud[i].host # None}
        /\ \A i \in DOMAIN Located : Located[i] = cloud[i]
    BY DEF Located
  <2>3. DOMAIN Located \subseteq DOMAIN cloud
    BY <2>2 DEF Of
  <2>4. DOMAIN Located # {}
    BY <1>3 DEF Located
  <2>5. IsFiniteSet(DOMAIN Located)
    <3>1. created \in Nat /\ DOMAIN Located \in SUBSET (1..created)
      BY <2>3, OldFact DEF OInv
    <3>2. IsFiniteSet(1..created)
      BY <3>1, FS_Interval
    <3> QED BY <3>1, <3>2, FS_Subset
  <2>6. \A i \in DOMAIN Located : Located[i].host \in Hosts
    BY <2>1, <2>2, <2>3 DEF OInv, DInv, Resources
  <2>7. WellLocated(Located)
    BY <1>1, <2>2, <2>3, <2>4, <2>5, <2>6 DEF WellLocated, TInv
  <2>8. topo' = [pc |-> "template", located |-> Located, topology |-> Topology(Located)]
    BY <1>1, <1>3
  <2> HIDE DEF Located
  <2> QED BY <1>1, <2>7, <2>8 DEF TInv
<1> QED BY <1>2, <1>3

LEMMA TemplateTInv == ASSUME TInv, Template PROVE TInv'
<1>1. /\ topo.pc = "template" /\ conf' = TopologyConf(topo.topology)
      /\ topo' = [topo EXCEPT !.pc = "idle"] /\ UNCHANGED <<tool, cloud>>
  BY DEF Template
<1>2. /\ topo'.pc = "idle" /\ topo'.located = topo.located
      /\ topo' = [pc |-> topo'.pc, located |-> topo'.located, topology |-> topo'.topology]
  BY <1>1 DEF TInv
<1> QED BY <1>1, <1>2 DEF TInv

(* What others do to the servers leaves the names, and the script does     *)
(* not run where the role does.                                            *)
LEMMA OtherTInv == ASSUME OInv, TInv, [Next]_vars, ~ MapHosts, ~ Template PROVE TInv'
<1>1. UNCHANGED <<tool, topo, conf>>
  BY DEF Next, Event, Script, vars, Move, OtherDeletes, OtherSnapshots, OtherCreates, Begin, List, ListFails, Answer,
         Call, DeleteItem, DeleteItemFails, ServerGone, WaitFails, Waited, CallEnds
<1>2. tool = "topology" => \A i, j \in DOMAIN cloud' : cloud'[i].name = cloud'[j].name => i = j
  <2> SUFFICES ASSUME tool = "topology"
               PROVE  \A i, j \in DOMAIN cloud' : cloud'[i].name = cloud'[j].name => i = j
    OBVIOUS
  <2>1. del.pc = "idle" /\ del.waiting = 0 /\ \A i \in DOMAIN cloud : cloud[i].host # Deleting
    <3>1. del.pc = "idle"
      BY DEF OInv, Chosen
    <3>2. del.waiting = 0 /\ 0 \notin DOMAIN cloud
      BY <3>1, OldFact DEF OInv, Waiting
    <3> QED BY <3>1, <3>2 DEF OInv, Waiting
  <2>2. CASE cloud' = cloud
    BY <2>2 DEF TInv
  <2>3. ASSUME NEW i \in DOMAIN cloud, NEW h \in Hosts \cup {None}, Move(i, h)
        PROVE  \A x, y \in DOMAIN cloud' : cloud'[x].name = cloud'[y].name => x = y
    <3>1. cloud' = [cloud EXCEPT ![i].host = h]
      BY <2>3 DEF Move, Event
    <3>2. DOMAIN cloud' = DOMAIN cloud /\ \A x \in DOMAIN cloud : cloud'[x].name = cloud[x].name
      BY <3>1 DEF OInv, DInv, Resources
    <3> QED BY <3>2 DEF TInv
  <2>4. cloud' = cloud \/ \E i \in DOMAIN cloud : \E h \in Hosts \cup {None} : Move(i, h)
    BY <2>1 DEF Next, Script, vars, OtherDeletes, OtherSnapshots, OtherCreates, Begin, List, ListFails, Answer,
         Call, DeleteItem, DeleteItemFails, ServerGone, WaitFails, Waited, CallEnds
  <2> QED BY <2>2, <2>3, <2>4
<1> QED BY <1>1, <1>2 DEF TInv

-----------------------------------------------------------------------------
(* The invariant holds at the start.                                       *)
LEMMA ConcatThree ==
    ASSUME NEW X, NEW k \in Nat, NEW a \in [1..k -> X], NEW b \in [1..k -> X], NEW c \in [1..k -> X]
    PROVE  LET s == a \o (b \o c)
           IN /\ \A i \in 1..k : s[i] = a[i] /\ s[k + i] = b[i] /\ s[k + k + i] = c[i]
              /\ DOMAIN s = 1..(k + k + k)
<1> DEFINE bc == b \o c
           s == a \o bc
<1>1. a \in Seq(X) /\ Len(a) = k /\ b \in Seq(X) /\ Len(b) = k /\ c \in Seq(X) /\ Len(c) = k
  OBVIOUS
<1>2. bc \in Seq(X) /\ Len(bc) = k + k /\ \A i \in 1..k : bc[i] = b[i] /\ bc[k + i] = c[i]
  <2>1. /\ bc \in Seq(X) /\ Len(bc) = Len(b) + Len(c)
        /\ \A i \in 1..(Len(b) + Len(c)) : bc[i] = IF i <= Len(b) THEN b[i] ELSE c[i - Len(b)]
    BY <1>1, ConcatProperties
  <2>2. ASSUME NEW i \in 1..k PROVE bc[i] = b[i] /\ bc[k + i] = c[i]
    <3>1. i \in 1..(k + k) /\ k + i \in 1..(k + k) /\ i <= k /\ ~ (k + i <= k) /\ (k + i) - k = i
      OBVIOUS
    <3> HIDE DEF bc
    <3>2. \A j \in 1..(k + k) : bc[j] = IF j <= k THEN b[j] ELSE c[j - k]
      BY <1>1, <2>1
    <3> QED BY <3>1, <3>2
  <2> QED BY <1>1, <2>1, <2>2
<1> HIDE DEF bc
<1>3. /\ Len(s) = k + (k + k) /\ s \in Seq(X)
      /\ \A j \in 1..(k + (k + k)) : s[j] = IF j <= k THEN a[j] ELSE bc[j - k]
  <2>1. /\ s \in Seq(X) /\ Len(s) = Len(a) + Len(bc)
        /\ \A j \in 1..(Len(a) + Len(bc)) : s[j] = IF j <= Len(a) THEN a[j] ELSE bc[j - Len(a)]
    BY <1>1, <1>2, ConcatProperties
  <2> HIDE DEF s
  <2> QED BY <1>1, <1>2, <2>1
<1>4. ASSUME NEW i \in 1..k PROVE s[i] = a[i] /\ s[k + i] = bc[i] /\ s[k + k + i] = bc[k + i]
  <2>1. /\ i \in 1..(k + (k + k)) /\ k + i \in 1..(k + (k + k)) /\ k + (k + i) \in 1..(k + (k + k))
        /\ i <= k /\ ~ (k + i <= k) /\ ~ (k + (k + i) <= k)
        /\ (k + i) - k = i /\ (k + (k + i)) - k = k + i /\ k + k + i = k + (k + i)
    OBVIOUS
  <2> HIDE DEF s
  <2> QED BY <1>3, <2>1
<1>5. DOMAIN s = 1..(k + k + k)
  BY <1>3
<1> QED BY <1>2, <1>4, <1>5 DEF bc

LEMMA InitCloud ==
    ASSUME Init
    PROVE  Linked(cloud) /\ (tool = "topology" => \A i, j \in DOMAIN cloud : cloud[i].name = cloud[j].name => i = j)
<1> DEFINE k == Cardinality(Nodes)
           n == SetToSeq(Nodes)
           none == [m \in Nodes |-> None]
           servers == Servers(none)
           ports == [i \in 1..k |-> Resource("port", n[i], None, 0)]
           volumes == [i \in 1..k |-> Resource("volume", n[i], None, i)]
           X == [type : Types, name : Nodes, host : Hosts \cup {None}, server : Int]
<1>1. k \in Nat /\ n \in [1..k -> Nodes] /\ \A i, j \in 1..k : n[i] = n[j] => i = j
  <2>1. Cardinality(Nodes) \in Nat /\ ExistsBijection(1..Cardinality(Nodes), Nodes)
    BY FS_CardinalityType, CloudAssumption
  <2>2. \E f \in [1..Cardinality(Nodes) -> Nodes] : IsInjective(f)
    BY <2>1 DEF ExistsBijection, Bijection, Injection
  <2>3. n \in [1..Cardinality(Nodes) -> Nodes] /\ IsInjective(n)
    BY <2>1, <2>2 DEF SetToSeq
  <2> QED BY <2>1, <2>3 DEF IsInjective
<1>2. CASE tool = "topology"
  <2>1. PICK host \in [Nodes -> Hosts \cup {None}] : cloud = Servers(host)
    BY <1>2 DEF Init
  <2>2. cloud = [i \in 1..k |-> Resource("server", n[i], host[n[i]], 0)]
    BY <1>1, <2>1 DEF Servers
  <2> HIDE DEF k, n
  <2>3. DOMAIN cloud = 1..k /\ \A i \in 1..k : cloud[i].name = n[i] /\ cloud[i].server = 0
    BY <2>2 DEF Resource
  <2> QED BY <1>1, <2>3 DEF Linked
<1>3. CASE tool # "topology"
  <2>1. cloud = servers \o PortsAndVolumes
    BY <1>3 DEF Init
  <2>2. /\ servers = [i \in 1..k |-> Resource("server", n[i], none[n[i]], 0)]
        /\ PortsAndVolumes = ports \o volumes
    BY <1>1 DEF Servers, PortsAndVolumes
  <2>3. \A m \in Nodes : none[m] = None
    OBVIOUS
  <2>4. servers \in [1..k -> X] /\ ports \in [1..k -> X] /\ volumes \in [1..k -> X]
    <3> HIDE DEF k, n, none, servers
    <3> QED BY <1>1, <2>2, <2>3 DEF Resource, Types
  <2>5. /\ \A i \in 1..k : servers[i].type = "server" /\ servers[i].name = n[i] /\ servers[i].server = 0
        /\ \A i \in 1..k : ports[i].server = 0
        /\ \A i \in 1..k : volumes[i].type = "volume" /\ volumes[i].name = n[i] /\ volumes[i].server = i
    <3> HIDE DEF k, n, none, servers
    <3> QED BY <2>2 DEF Resource
  <2> HIDE DEF k, n, none, servers, ports, volumes, X
  <2>6. /\ \A i \in 1..k : cloud[i] = servers[i] /\ cloud[k + i] = ports[i] /\ cloud[k + k + i] = volumes[i]
        /\ DOMAIN cloud = 1..(k + k + k)
    <3>1. cloud = servers \o (ports \o volumes)
      BY <2>1, <2>2
    <3>2. LET s == servers \o (ports \o volumes)
          IN /\ \A i \in 1..k : s[i] = servers[i] /\ s[k + i] = ports[i] /\ s[k + k + i] = volumes[i]
             /\ DOMAIN s = 1..(k + k + k)
      BY <1>1, <2>4, ConcatThree
    <3> QED BY <3>1, <3>2
  <2>7. ASSUME NEW i \in DOMAIN cloud, cloud[i].server # 0
        PROVE  /\ cloud[i].type = "volume" /\ cloud[i].server \in DOMAIN cloud
               /\ cloud[cloud[i].server].type = "server" /\ cloud[cloud[i].server].name = cloud[i].name
    <3>1. CASE i \in 1..k
      BY <2>5, <2>6, <2>7, <3>1
    <3>2. CASE i \in (k + 1)..(k + k)
      <4>1. i - k \in 1..k /\ k + (i - k) = i
        BY <1>1, <3>2
      <4> QED BY <2>5, <2>6, <2>7, <4>1
    <3>3. CASE i \in (k + k + 1)..(k + k + k)
      <4> DEFINE j == i - k - k
      <4>1. j \in 1..k /\ k + k + j = i /\ j \in 1..(k + k + k)
        <5>1. k \in Nat /\ i \in (k + k + 1)..(k + k + k)
          BY <1>1, <3>3
        <5> QED BY <5>1
      <4> HIDE DEF j
      <4>2. cloud[i] = volumes[j] /\ cloud[j] = servers[j]
        BY <2>6, <4>1
      <4> QED BY <2>5, <2>6, <4>1, <4>2
    <3> QED BY <1>1, <2>6, <3>1, <3>2, <3>3
  <2> QED BY <1>3, <2>7 DEF Linked
<1> QED BY <1>2, <1>3

LEMMA InitIInv == Init => IInv
<1> SUFFICES ASSUME Init PROVE IInv
  OBVIOUS
<1>1. DInv
  BY InitDInv
<1>2. /\ events = 0 /\ conf = {} /\ topo = [pc |-> "idle", located |-> <<>>, topology |-> <<>>]
      /\ del.pc = "idle" /\ del.stage = 1 /\ del.waiting = 0 /\ del.failing = FALSE /\ del.since = 0
      /\ del.erred = FALSE
      /\ del.todo = {} /\ \A t \in Types : del.listed[t] = {}
  BY DEF Init, Types
<1>3. \A i \in DOMAIN cloud : cloud[i].host # Deleting
  BY <1>1, <1>2 DEF DInv
<1>4. Waiting
  BY <1>2, <1>3 DEF Waiting
<1>5. Chosen
  <2>1. del.since \in 0..events
    BY <1>2
  <2>2. del.failing \in BOOLEAN /\ del.erred \in BOOLEAN
    BY <1>2, Zenon
  <2> QED BY <1>2, <2>1, <2>2 DEF Chosen
<1>6. Worked
  BY <1>2 DEF Worked
<1>7. Alone
  BY <1>2 DEF Alone
<1>8. TInv
  BY <1>2, InitCloud DEF TInv
<1> QED BY <1>1, <1>4, <1>5, <1>6, <1>7, <1>8, InitCloud DEF IInv, OInv

LEMMA DInvStep ==
    ASSUME DInv, [Next]_vars
    PROVE  /\ DInv'
           /\ events' = events => \A i \in DOMAIN cloud \ DOMAIN cloud' : Old(i)
<1>1. CASE \/ \E i \in DOMAIN cloud : \E h \in Hosts \cup {None} : Move(i, h)
           \/ \E i \in DOMAIN cloud : OtherDeletes(i) \/ OtherSnapshots(i)
           \/ \E n \in Nodes : OtherCreates(n)
  BY <1>1, OthersDInv
<1>2. CASE \/ Begin \/ List \/ ListFails \/ (\E yes \in BOOLEAN : Answer(yes)) \/ Call
           \/ Failing \/ Waited \/ CallEnds
  BY <1>2, ReadingDInv
<1>3. CASE (\E i \in del.todo : DeleteItem(i)) \/ (\E i \in DOMAIN cloud : ServerGone(i))
  BY <1>3, DeletingDInv
<1>4. CASE MapHosts \/ Template \/ UNCHANGED vars
  <2>1. UNCHANGED <<cloud, snapshots, created, events, del>>
    BY <1>4 DEF MapHosts, Template, vars
  <2> QED BY <2>1 DEF DInv, Old, Sound, DelRecord, Of
<1> QED BY <1>1, <1>2, <1>3, <1>4 DEF Next, Failing

LEMMA OInvStep == ASSUME OInv, [Next]_vars PROVE OInv'
<1>1. DInv'
  BY DInvStep DEF OInv
<1>2. CASE \/ \E i \in DOMAIN cloud : \E h \in Hosts \cup {None} : Move(i, h)
           \/ \E i \in DOMAIN cloud : OtherDeletes(i) \/ OtherSnapshots(i)
           \/ \E n \in Nodes : OtherCreates(n)
  BY <1>1, <1>2, OthersOInv
<1>3. CASE ListFails \/ \E yes \in BOOLEAN : Answer(yes)
  <2>1. PICK p \in {"raised", "call", "cancelled"} :
          /\ del' = [del EXCEPT !.pc = p] /\ UNCHANGED <<cloud, tool, events>>
          /\ del.pc \in {"list", "ask"} /\ (p = "call" => del.pc = "ask")
    BY <1>3 DEF ListFails, Answer, Script
  <2> QED BY <1>1, <2>1, EndsOInv
<1>4. CASE MapHosts \/ Template \/ UNCHANGED vars
  <2>1. UNCHANGED <<tool, cloud, created, events, del>>
    BY <1>4 DEF MapHosts, Template, vars
  <2>2. UNCHANGED Type
    BY <2>1 DEF Type
  <2>3. Linked(cloud)' /\ Waiting' /\ Chosen'
    BY <2>1, <2>2 DEF OInv, Linked, Waiting, Chosen
  <2>4. Worked' /\ Alone'
    BY <2>1, <2>2 DEF OInv, Worked, Alone, There, AllListed
  <2> QED BY <1>1, <2>3, <2>4 DEF OInv
<1>5. CASE Begin \/ List \/ Call \/ Waited \/ CallEnds
  BY <1>1, <1>5, BeginOInv, ListOInv, CallOInv, WaitedOInv, CallEndsOInv
<1>6. CASE \/ \E i \in del.todo : DeleteItem(i)
           \/ \E i \in del.todo : \E stops \in BOOLEAN : DeleteItemFails(i, stops)
           \/ WaitFails
  BY <1>1, <1>6, DeleteItemOInv, DeleteItemFailsOInv, WaitFailsOInv
<1>7. CASE \E i \in DOMAIN cloud : ServerGone(i)
  BY <1>1, <1>7, ServerGoneOInv
<1> QED BY <1>2, <1>3, <1>4, <1>5, <1>6, <1>7 DEF Next

LEMMA Invariance == Spec => []IInv
<1>1. IInv /\ [Next]_vars => IInv'
  BY OInvStep, MapHostsTInv, TemplateTInv, OtherTInv DEF IInv
<1> QED BY InitIInv, <1>1, PTL DEF Spec

-----------------------------------------------------------------------------
(* Every resource has an id that was given out and a name of the           *)
(* inventory, what a volume is attached to is a server that is there, and  *)
(* a snapshot is of a volume that is, whoever creates, moves and deletes.  *)
THEOREM TypeCorrect == Spec => []TypeOK
<1>1. ASSUME IInv PROVE TypeOK
  <2>1. ASSUME NEW i \in DOMAIN cloud
        PROVE  /\ i \in 1..created /\ cloud[i].name \in Nodes
               /\ cloud[i].host \in Hosts \cup {None, Deleting}
               /\ cloud[i].server # 0 => cloud[i].type = "volume" /\ cloud[i].server \in Of("server")
    BY <1>1 DEF IInv, OInv, DInv, Resources, Linked, Of
  <2>2. del.stage \in 1..3 /\ \A t \in DOMAIN del.listed : del.listed[t] \subseteq 1..created
    BY <1>1, OldFact DEF IInv, OInv, DInv
  <2>3. topo.pc \in {"idle", "template", "failed"}
    BY <1>1 DEF IInv, TInv
  <2>4. \A s \in snapshots : s[1] \in Of("volume")
    BY <1>1 DEF IInv, OInv, DInv
  <2> QED BY <2>1, <2>2, <2>3, <2>4 DEF TypeOK
<1> QED BY <1>1, Invariance, PTL

(* topology.conf shows which nodes share a hypervisor, for all ids that    *)
(* tell hypervisors apart, although it has only beginnings of them; and it *)
(* is a tree if no zone is called "master" or as an id begins.             *)
THEOREM TreeShowsHosts == Spec => []MapFaithful
<1>1. IInv => MapFaithful
  BY TreeIsFaithful DEF IInv, TInv, MapFaithful
<1> QED BY <1>1, Invariance, PTL

(* How a deletion ends: with nothing left that it listed, with nothing of  *)
(* the cluster left if nobody else was at work, and with a failure only if *)
(* somebody was or a command had an error on something it could delete.    *)
THEOREM DeletionEnds == Spec => []DeletionOutcome
<1>1. ASSUME IInv PROVE DeletionOutcome
  <2>1. DOMAIN del.listed = Types
    BY <1>1 DEF IInv, OInv, DInv
  <2>2. del.pc = "deleted" => \A t \in Types : del.listed[t] \cap DOMAIN cloud = {}
    BY <1>1 DEF IInv, OInv, Worked
  <2>3. del.pc = "deleted" /\ events = del.since => \A i \in DOMAIN cloud : cloud[i].name \notin Prefixed
    <3> SUFFICES ASSUME del.pc = "deleted", events = del.since, NEW i \in DOMAIN cloud, cloud[i].name \in Prefixed
                 PROVE  FALSE
      OBVIOUS
    <3>1. cloud[i].type \in Types
      BY <1>1 DEF IInv, OInv, DInv, Resources
    <3>2. del.erred = FALSE
      BY <1>1 DEF IInv, OInv, Worked, Chosen
    <3>3. i \in del.listed[cloud[i].type]
      BY <1>1, <3>1, <3>2 DEF IInv, OInv, Alone, AllListed
    <3> QED BY <2>2, <3>1, <3>3
  <2>4. del.pc = "failed" /\ ~ del.erred => events > del.since
    <3> SUFFICES ASSUME del.pc = "failed", ~ del.erred PROVE events > del.since
      OBVIOUS
    <3>1. del.erred = FALSE
      BY <1>1 DEF IInv, OInv, Chosen
    <3>2. events # del.since
      BY <1>1, <3>1 DEF IInv, OInv, Worked, Alone
    <3> QED BY <1>1, <3>2 DEF IInv, OInv, Chosen, DInv
  <2> QED BY <2>1, <2>2, <2>3, <2>4 DEF DeletionOutcome
<1> QED BY <1>1, Invariance, PTL

(* Of servers, ports and volumes the script deletes nothing but what has   *)
(* the prefix and is in its lists, and snapshots only of listed volumes,   *)
(* whatever others create or delete while it lists, asks and waits.        *)
THEOREM OnlyListedAreDeleted == Spec => DeletesOnlyListed
<1>1. ASSUME DInv, [Next]_vars, events' = events
      PROVE  /\ \A i \in DOMAIN cloud \ DOMAIN cloud' :
                   cloud[i].name \in Prefixed /\ i \in del.listed[cloud[i].type]
             /\ \A s \in snapshots \ snapshots' : s[1] \in del.listed["volume"]
  <2>1. \A i \in DOMAIN cloud \ DOMAIN cloud' :
           cloud[i].name \in Prefixed /\ i \in del.listed[cloud[i].type]
    BY <1>1, DInvStep DEF Old, Sound
  <2>2. ASSUME NEW s \in snapshots \ snapshots' PROVE s[1] \in del.listed["volume"]
    <3>1. s[1] \in DOMAIN cloud /\ cloud[s[1]].type = "volume"
      BY <1>1 DEF DInv, Of
    <3>2. events \in Nat /\ events + 1 # events
      BY <1>1 DEF DInv
    <3>3. snapshots' = snapshots \/ snapshots' = SnapshotsIn(cloud')
      BY <1>1, <3>2 DEF Next, vars, Event, Script, Move, OtherDeletes, OtherSnapshots, OtherCreates,
         MapHosts, Template, Begin, List, ListFails, Answer, Call, DeleteItem, DeleteItemFails,
         WaitFails, ServerGone, Waited, CallEnds
    <3>4. s[1] \notin DOMAIN cloud'
      BY <2>2, <3>3 DEF SnapshotsIn
    <3> QED BY <2>1, <3>1, <3>4
  <2> QED BY <2>1, <2>2
<1>2. DInv /\ [Next]_vars => (events' = events =>
          /\ \A i \in DOMAIN cloud \ DOMAIN cloud' :
                cloud[i].name \in Prefixed /\ i \in del.listed[cloud[i].type]
          /\ \A s \in snapshots \ snapshots' : s[1] \in del.listed["volume"])
  BY <1>1
<1>3. DInv /\ [Next]_vars => DInv'
  BY DInvStep
<1> QED BY InitDInv, <1>2, <1>3, PTL DEF Spec, DeletesOnlyListed
=============================================================================
