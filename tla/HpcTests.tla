------------------------------- MODULE HpcTests -------------------------------
(***************************************************************************)
(* roles/hpctests, run after run with one of its tags: hpl-solo as an      *)
(* array job that Slurm may still be running when the role has given up    *)
(* on it, pingmatrix and pingpong as the reading of what their job wrote.  *)
(* External: Slurm, MPI, xhpl and the filesystem with the outputs.         *)
(***************************************************************************)
EXTENDS HpcReports

CONSTANTS
    Selections,   \* hpctests_computes: sequences of nodes, in sinfo's order
    Rows,         \* what "sinfo --Format All --Node" lists
    EffectiveCpus, \* what scontrol tells of each node
    Matrices,     \* what nxnlatbw may have written: [nodes, lines] records
    ImbOutputs,   \* what IMB-MPI1 may have written
    Sizes,        \* the message sizes of its table, in order
    MaxJobs       \* bound: array jobs submitted

ASSUME MaxJobsAssumption == MaxJobs \in Nat

(* sinfo lists a node once in a partition.                                 *)
ASSUME SelectionsAssumption ==
    \A s \in Selections : s \in Seq(ToSet(s)) /\ IsInjective(s)

ASSUME RowsAssumption == \A i \in DOMAIN Rows : Rows[i].THREADS \in Nat \ {0}

(* Threads that are reserved or specialised are not counted, so a node may *)
(* have fewer than its sockets, cores and threads make, or none.           *)
ASSUME EffectiveAssumption ==
    \A s \in Selections : \A n \in ToSet(s) : EffectiveCpus[n] \in Nat

(* nxnlatbw numbers its ranks from 0; no latency is negative.              *)
ASSUME MatricesAssumption ==
    \A m \in Matrices :
        /\ m.nodes \in Seq(ToSet(m.nodes))
        /\ m.lines \in Seq([src : Nat, dst : Nat, lat : Nat, ok : BOOLEAN])

(* IMB-MPI1 prints its table once, its rows only in that and the empty     *)
(* line only after all sizes. Wherever it is cut, and whatever else is     *)
(* printed into it, is left open but for what precedes the header: between *)
(* that and the line of the benchmark there is at most one foreign line.   *)
Is(f, kinds) == {i \in DOMAIN f : f[i].kind \in kinds}

ASSUME ImbAssumption ==
    \A f \in ImbOutputs :
        /\ f \in Seq([kind : Hashed \cup {"header", "row", "blank", "text"}, fields : Nat, bytes : Nat])
        /\ \A r \in Is(f, {"row"}) : \E h \in Is(f, {"header"}) : h < r
        /\ \A h, g \in Is(f, {"header"}) : h = g
        /\ \A b, c \in Is(f, {"benchmark"}) : b = c
        /\ \A h \in Is(f, {"header"}) : \E b \in Is(f, {"benchmark"}) :
              /\ b < h
              /\ \A i, j \in Is(f, {"blank", "text"}) \cap b..h : i = j
        /\ \A h \in Is(f, {"header"}) : \A e \in Is(f, {"blank"}) :
              /\ e > h + 1
              /\ (h + 1)..(e - 1) \subseteq Is(f, {"row"})
              /\ \A r \in Is(f, {"row"}) : r < e
              => [i \in 1..(e - h - 1) |-> f[h + i].bytes] = Sizes

VARIABLES
    tag,      \* "hpl-solo", "pingmatrix" or "pingpong"
    hpc,      \* the task the role is at, or how it ended
    nodes,    \* hpctests_computes of this run
    grid,     \* hpctests_hplsolo_pq
    jobs,     \* jobs submitted, the last is that of this run
    tasks,    \* array tasks pending or running: [job, index, node, file]
    crashed,  \* jobs with a task that exited with an error
    outputs,  \* hpl-solo.sh.<index>.out: [index -> [file, lines]]
    busy,     \* history: tasks of another job were left at the removal
    input,    \* the output that is read
    result    \* what the role reports

hvars == <<nodes, grid, jobs, tasks, crashed, outputs, busy>>
vars == <<tag, hpc, hvars, input, result>>

None == "none"

Init ==
    /\ tag \in {"hpl-solo", "pingmatrix", "pingpong"}
    /\ hpc = "idle"
    /\ nodes = <<>>
    /\ grid = None
    /\ jobs = 0
    /\ tasks = {}
    /\ crashed = {}
    /\ outputs = <<>>
    /\ busy = FALSE
    /\ input = None
    /\ result = None

-----------------------------------------------------------------------------
(* Slurm: a task gets a node no other has (--exclusive) of the selected    *)
(* ones (--exclude) and truncates its output file, which is a new one if   *)
(* there is none by this name.                                             *)

TaskStarts ==
    \E t \in tasks :
        /\ t.node = None
        /\ \E n \in t.allowed \ {u.node : u \in tasks} :
            LET file == IF t.index \in DOMAIN outputs THEN outputs[t.index].file
                                                      ELSE <<t.job, t.index>>
            IN /\ tasks' = (tasks \ {t}) \cup {[t EXCEPT !.node = n, !.file = file]}
               /\ outputs' = [i \in DOMAIN outputs \cup {t.index} |->
                              IF i = t.index THEN [file |-> file, lines |-> <<>>] ELSE outputs[i]]
    /\ UNCHANGED <<tag, hpc, nodes, grid, jobs, crashed, busy, input, result>>

(* xhpl passes, fails its residual check, or crashes without a result. What *)
(* it writes is lost if its file has been removed.                         *)
TaskEnds(ends) ==
    \E t \in tasks :
        /\ t.node # None
        /\ tasks' = tasks \ {t}
        /\ crashed' = IF ends = "crash" THEN crashed \cup {t.job} ELSE crashed
        /\ outputs' =
            IF ends # "crash" /\ t.index \in DOMAIN outputs /\ outputs[t.index].file = t.file
            THEN [outputs EXCEPT ![t.index].lines =
                    Append(@, [job |-> t.job, node |-> t.node, passed |-> ends = "pass"])]
            ELSE outputs
        /\ UNCHANGED <<tag, hpc, nodes, grid, jobs, busy, input, result>>

-----------------------------------------------------------------------------
(* hpl-solo.yml                                                            *)

HplStart ==
    /\ tag = "hpl-solo"
    /\ hpc \in {"idle", "done", "failed"}
    /\ jobs < MaxJobs
    /\ nodes' \in Selections
    /\ hpc' = "sized"
    /\ grid' = None
    /\ result' = None
    /\ UNCHANGED <<tag, jobs, tasks, crashed, outputs, busy, input>>

Homogeneous ==
    \A p \in Columns : \E v \in NodeInfo(Rows, ToSet(nodes))[p] : NodeInfo(Rows, ToSet(nodes))[p] = {v}

(* "Calculate number of processes (per node)", of the node with the fewest *)
(* processors, which the check of the columns does not compare.            *)
Processes ==
    LET threads == CHOOSE t \in NodeInfo(Rows, ToSet(nodes))["THREADS"] : TRUE
    IN Min({EffectiveCpus[n] : n \in ToSet(nodes)}) \div threads

(* "Check nodes are homogeneous" up to "Calculate problem shape", where    *)
(* hpl_pq fails if there is no process.                                    *)
HplSize ==
    /\ hpc = "sized"
    /\ IF Homogeneous /\ Factors(Processes) # {}
       THEN hpc' = "remove" /\ grid' = Grid(Processes)
       ELSE hpc' = "failed" /\ UNCHANGED grid
    /\ UNCHANGED <<tag, nodes, jobs, tasks, crashed, outputs, busy, input, result>>

(* Mutant: outputs of earlier runs are left where they are.                *)
RemainingAll == outputs

Remaining == <<>>

(* "Remove previous outputs".                                              *)
HplRemove ==
    /\ hpc = "remove"
    /\ outputs' = Remaining
    /\ busy' = (tasks # {})
    /\ hpc' = "submit"
    /\ UNCHANGED <<tag, nodes, grid, jobs, tasks, crashed, input, result>>

Array == 0..(Len(nodes) - 1)

HplSubmit ==
    /\ hpc = "submit"
    /\ jobs' = jobs + 1
    /\ tasks' = tasks \cup {[job |-> jobs', index |-> i, node |-> None, file |-> None,
                             allowed |-> ToSet(nodes)] : i \in Array}
    /\ hpc' = "wait"
    /\ UNCHANGED <<tag, nodes, grid, crashed, outputs, busy, input, result>>

(* "sbatch --wait" has the highest exit code of the tasks.                 *)
HplWaited ==
    /\ hpc = "wait"
    /\ \A t \in tasks : t.job # jobs
    /\ hpc' = IF jobs \in crashed THEN "failed" ELSE "check"
    /\ UNCHANGED <<tag, hvars, input, result>>

(* After 20 minutes the task fails; the job goes on.                       *)
HplTimeout ==
    /\ hpc = "wait"
    /\ hpc' = "failed"
    /\ UNCHANGED <<tag, hvars, input, result>>

(* The lines that grep finds, file after file.                             *)
Places == UNION {{<<i, k>> : k \in DOMAIN outputs[i].lines} : i \in DOMAIN outputs}

Lines == LET at == SetToSeq(Places)
         IN [j \in 1..Cardinality(Places) |-> outputs[at[j][1]].lines[at[j][2]]]

(* "Check HPL completed OK": as many tests passed as there are nodes.      *)
Checked == Cardinality({j \in DOMAIN Lines : Lines[j].passed}) = Len(nodes)

(* "Summarise results": nodes zipped with the results, as far as both go.  *)
HplReport ==
    /\ hpc = "check"
    /\ hpc' = IF Checked THEN "done" ELSE "failed"
    /\ result' = IF Checked THEN [i \in {j \in DOMAIN Lines : j <= Len(nodes)} |-> Lines[i]] ELSE None
    /\ UNCHANGED <<tag, hvars, input>>

-----------------------------------------------------------------------------
(* pingmatrix.yml and pingpong.yml, from the output of their job.          *)

PingMatrix ==
    /\ tag = "pingmatrix"
    /\ input' \in Matrices
    /\ result' = Plot(input'.lines, input'.nodes)
    /\ hpc' = IF result'.error = "" THEN "done" ELSE "failed"
    /\ UNCHANGED <<tag, hvars>>

PingPong ==
    /\ tag = "pingpong"
    /\ input' \in ImbOutputs
    /\ result' = [read |-> ReadImbPingpong(input'), plot |-> ReadImbOut(input')]
    /\ hpc' = IF result'.read.mode = "exception" THEN "failed" ELSE "done"
    /\ UNCHANGED <<tag, hvars>>

Next ==
    \/ TaskStarts
    \/ \E ends \in {"pass", "fail", "crash"} : TaskEnds(ends)
    \/ HplStart
    \/ HplSize
    \/ HplRemove
    \/ HplSubmit
    \/ HplWaited
    \/ HplTimeout
    \/ HplReport
    \/ PingMatrix
    \/ PingPong

Spec == Init /\ [][Next]_vars

-----------------------------------------------------------------------------
TypeOK ==
    /\ hpc \in {"idle", "sized", "remove", "submit", "wait", "check", "done", "failed"}
    /\ nodes = <<>> \/ nodes \in Selections
    /\ jobs \in 0..MaxJobs
    /\ crashed \subseteq 1..jobs
    /\ \A t \in tasks :
        /\ t.job \in 1..jobs
        /\ t.index \in 0..(Cardinality(t.allowed) - 1)
        /\ t.node # None => t.node \in t.allowed
    /\ \A i \in DOMAIN outputs : ToSet(outputs[i].lines) \subseteq
            [job : 1..jobs, node : UNION {ToSet(s) : s \in Selections}, passed : BOOLEAN]

HplDone == tag = "hpl-solo" /\ hpc = "done"

(* What hpl-solo reports is one result of this run for each of its nodes,  *)
(* all with their residual check passed, whatever an earlier run on more   *)
(* nodes has left; only a job that a timeout has left behind can spoil it. *)
ReportFresh ==
    HplDone /\ ~busy =>
        /\ DOMAIN result = DOMAIN nodes
        /\ \A i \in DOMAIN result : result[i].job = jobs /\ result[i].passed

(* The problem is sized for as many processes as fit on every one of the   *)
(* selected nodes with a core to each, and no fewer, though the check that *)
(* the nodes are alike does not see their effective processors; in a grid  *)
(* that is as nearly square as it can be. Other nodes do not count.        *)
GridFits ==
    grid # None =>
        LET n == grid[1] * grid[2]
            chosen == {i \in DOMAIN Rows : Rows[i].NODELIST \in ToSet(nodes)}
        IN
        /\ n >= 1
        /\ \A i \in chosen, m \in ToSet(nodes) : n * Rows[i].THREADS <= EffectiveCpus[m]
        /\ \A i \in chosen : \E m \in ToSet(nodes) : EffectiveCpus[m] < (n + 1) * Rows[i].THREADS
        /\ \A i, j \in chosen, p \in Columns : Rows[i][p] = Rows[j][p]
        /\ \A p, q \in 1..n : p <= q /\ p * q = n => q - p >= grid[2] - grid[1]

(* A matrix has a row and a column for every rank, the row with the name   *)
(* of the rank's node, and each pair's own latency, unless its line is     *)
(* lost, whichever lines are.                                              *)
MatrixFaithful ==
    tag = "pingmatrix" /\ hpc = "done" =>
        LET ranks == 0..(Len(input.nodes) - 1)
            lines == input.lines
        IN /\ DOMAIN result.rows = ranks
           /\ \A a, b \in ranks :
                /\ result.rows[a].node = input.nodes[a + 1]
                /\ result.rows[a].cells[b] # -1 =>
                     \E i \in DOMAIN lines :
                        /\ lines[i].src = a /\ lines[i].dst = b
                        /\ lines[i].ok /\ lines[i].lat = result.rows[a].cells[b]
                /\ result.rows[a].cells[b] = -1 =>
                     \A i \in DOMAIN lines : lines[i].src = a /\ lines[i].dst = b => ~lines[i].ok

(* Results of pingpong are never those of a part of its table: output that *)
(* ends within it, or has other text in it, is not read. Only an empty     *)
(* line hides what follows. And what is plotted, if it can be, is what is  *)
(* summarised.                                                             *)
PingpongWhole ==
    tag = "pingpong" /\ hpc = "done" =>
        LET read == result.read.rows
            hidden == \E j, k \in DOMAIN input :
                j < k /\ input[j].kind = "blank" /\ input[k].kind = "row"
        IN /\ read # <<>> /\ ~hidden => [i \in DOMAIN read |-> read[i].bytes] = Sizes
           /\ result.plot.mode # "exception" => result.plot.rows = read
=============================================================================
