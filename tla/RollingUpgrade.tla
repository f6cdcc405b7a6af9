--------------------------- MODULE RollingUpgrade ---------------------------
(***************************************************************************)
(* What a Slurm-controlled upgrade promises to the users of the cluster,   *)
(* with no playbook, batch, drain flag or reboot request in sight: nodes   *)
(* leave service, are upgraded while out of service and idle, and come     *)
(* back; a job runs only on nodes in service that all run one image.       *)
(* SlurmRebuild is shown to implement this specification.                  *)
(***************************************************************************)
CONSTANTS
    Nodes,   \* the compute nodes
    Jobs,    \* identities of the jobs that may run at the same time
    Images   \* the images a node can be on

VARIABLES
    image,    \* image[n] is the image node n runs
    serving,  \* the nodes that may be given new jobs
    alloc     \* alloc[j] is the set of nodes job j runs on, {} if it does not run

vars == <<image, serving, alloc>>

Idle(n) == \A j \in Jobs : n \notin alloc[j]

OneImage(S) == \A m, n \in S : image[m] = image[n]

Init ==
    /\ image \in [Nodes -> Images]
    /\ serving = Nodes
    /\ alloc = [j \in Jobs |-> {}]

(* Nodes leave service in groups; the jobs they run are left alone.        *)
Leave ==
    /\ \E S \in SUBSET Nodes : serving' = serving \ S
    /\ UNCHANGED <<image, alloc>>

(* A node changes image only out of service, and with no job on it.        *)
Upgrade(n) ==
    /\ n \notin serving
    /\ Idle(n)
    /\ \E i \in Images : image' = [image EXCEPT ![n] = i]
    /\ UNCHANGED <<serving, alloc>>

Return(n) ==
    /\ serving' = serving \cup {n}
    /\ UNCHANGED <<image, alloc>>

Start(j) ==
    /\ alloc[j] = {}
    /\ \E S \in SUBSET serving : OneImage(S) /\ alloc' = [alloc EXCEPT ![j] = S]
    /\ UNCHANGED <<image, serving>>

Finish(j) ==
    /\ alloc' = [alloc EXCEPT ![j] = {}]
    /\ UNCHANGED <<image, serving>>

Next ==
    \/ Leave
    \/ \E n \in Nodes : Upgrade(n) \/ Return(n)
    \/ \E j \in Jobs : Start(j) \/ Finish(j)

Spec == Init /\ [][Next]_vars
=============================================================================
