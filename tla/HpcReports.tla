------------------------------ MODULE HpcReports ------------------------------
(***************************************************************************)
(* The modules of roles/hpctests that size the benchmarks and read their   *)
(* output, as functions: hpl_pq.py, slurm_node_info.py, plot_nxnlatbw.py,  *)
(* read_imb_pingpong.py and read_imb_out of plot_imb_pingpong.py. A line   *)
(* is a record of what they tell apart in it.                              *)
(***************************************************************************)
EXTENDS Integers, SequencesExt

(* hpl_pq: "a sequence of (a, b) tuples where a < b giving factors of n",  *)
(* in the order of a, of which the last is the grid; 0 has no factors.     *)
Factors(n) == {<<i, n \div i>> : i \in {j \in 1..n : j * j <= n /\ n % j = 0}}

(* Mutant: the first pair.                                                 *)
GridFirst(n) == CHOOSE f \in Factors(n) : \A g \in Factors(n) : f[1] <= g[1]

Grid(n) == CHOOSE f \in Factors(n) : \A g \in Factors(n) : g[1] <= f[1]

(* slurm_node_info: for each column of sinfo, the values of these nodes,   *)
(* as a set: the role asks whether they differ, and takes the first.       *)
Columns == {"SOCKETS", "CORES", "THREADS", "MEMORY"}

NodeInfo(rows, nodes) ==
    [p \in Columns |->
        {rows[i][p] : i \in {j \in DOMAIN rows : rows[j].NODELIST \in nodes}}]

-----------------------------------------------------------------------------
(* plot_nxnlatbw. A line of nxnlatbw that does not have four values, or    *)
(* has one that is no number, is not "ok".                                 *)

Measured(lines) == {i \in DOMAIN lines : lines[i].ok}

(* latencies, with the keys (rankA, rankB); the last of two lines counts.  *)
Latencies(lines) ==
    [k \in {<<lines[i].src, lines[i].dst>> : i \in Measured(lines)} |->
        LET same == {i \in Measured(lines) : <<lines[i].src, lines[i].dst>> = k}
        IN lines[CHOOSE i \in same : \A j \in same : j <= i].lat]

Failed(e) == [error |-> e, rows |-> <<>>]

(* html_rows: a row for each rank, which has the name nodes[rank].         *)
HtmlRows(ranks, nodes, data) ==
    IF \E r \in ranks : r >= Len(nodes) THEN Failed("IndexError")
    ELSE [error |-> "",
          rows |-> [a \in ranks |->
              [node |-> nodes[a + 1],
               cells |-> [b \in ranks |-> IF <<a, b>> \in DOMAIN data
                                          THEN data[<<a, b>>] ELSE -1]]]]

RanksDiffer(data) == {k[1] : k \in DOMAIN data} # {k[2] : k \in DOMAIN data}

(* Mutant: the number of node names is not compared with that of ranks.    *)
PlotUncounted(lines, nodes) ==
    LET data == Latencies(lines) IN
    IF RanksDiffer(data) THEN Failed("Ranks differed")
    ELSE HtmlRows({k[1] : k \in DOMAIN data}, nodes, data)

Plot(lines, nodes) ==
    LET data == Latencies(lines)
        ranks == {k[1] : k \in DOMAIN data}
    IN CASE RanksDiffer(data) -> Failed("Ranks differed")
         [] Len(nodes) # Cardinality(ranks) -> Failed("Results contained")
         [] OTHER -> HtmlRows(ranks, nodes, data)

-----------------------------------------------------------------------------
(* The readers of IMB-MPI1's output. Kinds of lines: "benchmark",          *)
(* "processes" and "comment" start with "#"; "header" is that of the table *)
(* of pingpong; "row" has the numbers of a message size, four if it is     *)
(* whole; "blank"; and "text", which is none of IMB's.                     *)

Broken == [mode |-> "exception", rows |-> <<>>]

ImbStart == [mode |-> "search", rows |-> <<>>]

(* Mutant: a file that ends in a table has been read.                      *)
EndLenient(s) == s

(* "next(f)" at the end of the file raises StopIteration.                  *)
EndOfFile(s) == IF s.mode = "search" THEN s ELSE Broken

(* read_imb_pingpong: what is between the header and an empty line.        *)
PingpongLine(s, line) ==
    CASE s.mode = "search" -> IF line.kind = "header" THEN [s EXCEPT !.mode = "table"] ELSE s
      [] s.mode = "table" ->
            CASE line.kind = "blank" -> [s EXCEPT !.mode = "search"]
              [] line.kind = "row" /\ line.fields <= 4 -> [s EXCEPT !.rows = Append(@, line)]
              [] OTHER -> Broken
      [] OTHER -> s

ReadImbPingpong(file) == EndOfFile(FoldLeft(PingpongLine, ImbStart, file))

(* read_imb_out: the line after "# Benchmarking" is that of the processes; *)
(* the first line after those with "#" is taken for the header, whatever   *)
(* it is. A table replaces one of as many processes.                       *)
Hashed == {"benchmark", "processes", "comment"}

ImbOutLine(s, line) ==
    CASE s.mode = "search" -> IF line.kind = "benchmark" THEN [s EXCEPT !.mode = "processes"] ELSE s
      [] s.mode = "processes" -> IF line.kind = "processes" THEN [s EXCEPT !.mode = "comments"] ELSE Broken
      [] s.mode = "comments" -> IF line.kind \in Hashed THEN s ELSE [mode |-> "table", rows |-> <<>>]
      [] s.mode = "table" ->
            CASE line.kind = "blank" ->
                    IF \A i \in DOMAIN s.rows : s.rows[i].fields >= 4
                    THEN [s EXCEPT !.mode = "search"] ELSE Broken
              [] line.kind = "row" -> [s EXCEPT !.rows = Append(@, line)]
              [] OTHER -> Broken
      [] OTHER -> s

ReadImbOut(file) == EndOfFile(FoldLeft(ImbOutLine, ImbStart, file))
=============================================================================
