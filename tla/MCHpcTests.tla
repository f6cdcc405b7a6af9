------------------------------ MODULE MCHpcTests ------------------------------
EXTENDS HpcTests

(* big is in two partitions. b has processors reserved; all of c's are.    *)
Row(n, s) == [NODELIST |-> n, SOCKETS |-> s, CORES |-> 12, THREADS |-> 2, MEMORY |-> 64]

NodeRows == <<Row("a", 1), Row("b", 1), Row("c", 1), Row("big", 2), Row("big", 2)>>
Cpus == [a |-> 24, b |-> 17, c |-> 0, big |-> 48]
NodeLists == {<<"a">>, <<"a", "b">>, <<"b", "big">>, <<"a", "c">>, <<"big">>}

Pairs(n) == SetToSeq({p \in (0..(n - 1)) \X (0..(n - 1)) : p[1] # p[2]})

(* Any of the lines of two or three ranks may be lost.                     *)
PingLines(n) ==
    LET pairs == Pairs(n)
    IN {[i \in DOMAIN pairs |-> [src |-> pairs[i][1], dst |-> pairs[i][2],
                                 lat |-> 10 * pairs[i][1] + pairs[i][2], ok |-> i \notin lost]] :
           lost \in SUBSET DOMAIN pairs}
PingOutputs ==
    [nodes : {<<"a", "b", "c">>}, lines : PingLines(3)] \cup [nodes : {<<"a", "b">>}, lines : PingLines(2)]

L(k) == [kind |-> k, fields |-> 0, bytes |-> 0]
R(b, f) == [kind |-> "row", fields |-> f, bytes |-> b]

ImbSizes == <<0, 1, 2>>

(* A whole output; with a line of another program or an empty one in any   *)
(* place; and, unless that is an empty one, cut after any line of these or *)
(* within a row.                                                           *)
Whole == <<L("comment"), L("benchmark"), L("processes"), L("comment"), L("header"),
           R(0, 4), R(1, 4), R(2, 4), L("blank"), L("comment")>>
Inserted(k) == {InsertAt(Whole, n, L(k)) : n \in 1..11}
Cut(f) == {SubSeq(f, 1, n) : n \in 0..Len(f)}
Imb == UNION {Cut(f) : f \in {Whole} \cup Inserted("text") \cup Inserted("comment")}
           \cup {SubSeq(Whole, 1, n) \o <<R(1, 2)>> : n \in 5..7}
           \cup Inserted("blank")
=============================================================================
