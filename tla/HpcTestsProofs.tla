---------------------------- MODULE HpcTestsProofs ----------------------------
(***************************************************************************)
(* Proofs about HpcTests: for any selections of nodes, any number of runs  *)
(* and array jobs, and whatever lines nxnlatbw and IMB-MPI1 write.         *)
(***************************************************************************)
EXTENDS HpcTests, FiniteSetTheorems, SequenceTheorems, WellFoundedInduction, TLAPS

-----------------------------------------------------------------------------
(* Greatest elements, and sets as sequences                                *)

LEMMA Greatest ==
    ASSUME NEW S, NEW n \in Nat, S \subseteq 0..n, S # {}
    PROVE  \E x \in S : \A y \in S : y <= x
<1> DEFINE T == {n - x : x \in S}
<1>1. T \subseteq Nat /\ T # {}
  <2>1. \A x \in S : n - x \in Nat
    OBVIOUS
  <2> QED BY <2>1
<1>2. PICK t \in T : \A y \in T : <<y, t>> \notin OpToRel(<, Nat)
  <2> HIDE DEF T
  <2> QED BY <1>1, NatLessThanWellFounded, WFMin
<1>3. PICK x \in S : t = n - x
  OBVIOUS
<1>4. ASSUME NEW y \in S PROVE y <= x
  <2>1. n - y \in T /\ n - y \in Nat /\ t \in Nat
    BY <1>1
  <2>2. ~ (n - y < t)
    BY <1>2, <2>1 DEF OpToRel
  <2> QED BY <1>3, <2>1, <2>2
<1> QED BY <1>4

LEMMA SetAsSeq ==
    ASSUME NEW S, IsFiniteSet(S) PROVE SetToSeq(S) \in [1..Cardinality(S) -> S]
<1>1. Cardinality(S) \in Nat /\ ExistsBijection(1..Cardinality(S), S)
  BY FS_CardinalityType
<1>2. \E f \in [1..Cardinality(S) -> S] : IsInjective(f)
  BY <1>1 DEF ExistsBijection, Bijection, Injection
<1> QED BY <1>2 DEF SetToSeq

-----------------------------------------------------------------------------
(* A product is a multiple.                                                *)
LEMMA Multiple ==
    ASSUME NEW p \in Nat \ {0}, NEW q \in Nat, NEW n \in Nat, p * q = n PROVE n % p = 0
<1> DEFINE d == n \div p
           r == n % p
<1>1. d \in Nat /\ r \in 0..(p - 1) /\ p * d + r = n
  OBVIOUS
<1> HIDE DEF d, r
<1>2. CASE q > d
  <2>1. p * q >= p * (d + 1)
    BY <1>1, <1>2
  <2>2. p * (d + 1) = p * d + p
    BY <1>1
  <2> QED BY <1>1, <2>1, <2>2
<1>3. CASE q < d
  <2>1. p * d >= p * (q + 1)
    BY <1>1, <1>3
  <2>2. p * (q + 1) = p * q + p
    BY <1>1
  <2> QED BY <1>1, <2>1, <2>2
<1>4. CASE q = d
  <2>1. p * d = n /\ p * d + r = n /\ n \in Int /\ r \in Int
    BY <1>1, <1>4
  <2> QED BY <2>1 DEF r
<1> QED BY <1>1, <1>2, <1>3, <1>4 DEF r

(* hpl_pq: the factors of a number that are nearest to one another.        *)
LEMMA GridIsSquarest ==
    ASSUME NEW n \in Nat \ {0}
    PROVE  LET g == Grid(n)
           IN /\ g[1] * g[2] = n
              /\ \A p, q \in 1..n : p <= q /\ p * q = n => q - p >= g[2] - g[1]
<1> DEFINE F == {i \in 1..n : i * i <= n /\ n % i = 0}
<1>1. 1 \in F
  OBVIOUS
<1>2. PICK a \in F : \A i \in F : i <= a
  <2>1. F \subseteq 0..n /\ F # {}
    BY <1>1
  <2> HIDE DEF F
  <2> QED BY <2>1, Greatest
<1>3. <<a, n \div a>> \in Factors(n) /\ \A g \in Factors(n) : g[1] <= a
  BY <1>2 DEF Factors
<1> DEFINE g == Grid(n)
<1>4. g \in Factors(n) /\ \A f \in Factors(n) : f[1] <= g[1]
  BY <1>3 DEF Grid
<1> HIDE DEF g
<1>5. PICK c \in F : g = <<c, n \div c>>
  BY <1>4 DEF Factors
<1>6. g[1] = c /\ g[2] = n \div c
  BY <1>5
<1>7. c \in 1..n /\ n % c = 0 /\ \A i \in F : i <= c
  <2>1. \A i \in F : <<i, n \div i>> \in Factors(n) /\ <<i, n \div i>>[1] = i
    BY DEF Factors
  <2> QED BY <1>4, <1>6, <2>1
<1> DEFINE d == n \div c
<1>8. c * d = n /\ d \in Nat
  BY <1>7
<1> HIDE DEF d
<1>9. ASSUME NEW p \in 1..n, NEW q \in 1..n, p <= q, p * q = n PROVE q - p >= d - c
  <2>1. p * p <= n
    BY <1>9
  <2>2. n % p = 0
    <3>1. p \in Nat \ {0} /\ q \in Nat /\ n \in Nat
      OBVIOUS
    <3> QED BY <1>9, <3>1, Multiple
  <2>3. p <= c
    BY <1>7, <2>1, <2>2
  <2>4. SUFFICES ASSUME q < d PROVE FALSE
    BY <1>7, <1>8, <2>3
  <2>5. p * q <= c * q
    BY <1>7, <2>3
  <2>6. c * q <= c * (d - 1)
    BY <1>7, <1>8, <2>4
  <2>7. c * (d - 1) = n - c
    BY <1>7, <1>8
  <2> QED BY <1>7, <1>9, <2>5, <2>6, <2>7
<1> QED BY <1>6, <1>8, <1>9 DEF d, g

-----------------------------------------------------------------------------
(* plot_nxnlatbw                                                           *)

Line == [src : Nat, dst : Nat, lat : Nat, ok : BOOLEAN]

(* latencies has an entry for a pair of ranks if a line of theirs could be *)
(* read, and it is that of such a line.                                    *)
LEMMA LatenciesFacts ==
    ASSUME NEW lines \in Seq(Line)
    PROVE  /\ DOMAIN Latencies(lines) = {<<lines[i].src, lines[i].dst>> : i \in Measured(lines)}
           /\ \A k \in DOMAIN Latencies(lines) : \E i \in Measured(lines) :
                 <<lines[i].src, lines[i].dst>> = k /\ Latencies(lines)[k] = lines[i].lat
<1>1. DOMAIN Latencies(lines) = {<<lines[i].src, lines[i].dst>> : i \in Measured(lines)}
  BY DEF Latencies
<1>2. ASSUME NEW k \in DOMAIN Latencies(lines)
      PROVE  \E i \in Measured(lines) : <<lines[i].src, lines[i].dst>> = k /\ Latencies(lines)[k] = lines[i].lat
  <2> DEFINE same == {i \in Measured(lines) : <<lines[i].src, lines[i].dst>> = k}
             Final(i) == \A j \in same : j <= i
             last == CHOOSE i \in same : Final(i)
  <2>1. same \subseteq 0..Len(lines) /\ same # {} /\ Len(lines) \in Nat
    BY <1>1 DEF Measured
  <2>2. \E i \in same : \A j \in same : j <= i
    <3> HIDE DEF same
    <3> QED BY <2>1, Greatest
  <2>3. last \in same
    <3> HIDE DEF same
    <3> QED BY <2>2
  <2>4. Latencies(lines)[k] = lines[last].lat
    BY <1>1 DEF Latencies
  <2> HIDE DEF last
  <2> QED BY <2>3, <2>4
<1> QED BY <1>1, <1>2

Faithful(rows, names, lines) ==
    LET ranks == 0..(Len(names) - 1)
    IN /\ DOMAIN rows = ranks
       /\ \A a, b \in ranks :
             /\ rows[a].node = names[a + 1]
             /\ rows[a].cells[b] # -1 =>
                  \E i \in DOMAIN lines :
                     /\ lines[i].src = a /\ lines[i].dst = b
                     /\ lines[i].ok /\ lines[i].lat = rows[a].cells[b]
             /\ rows[a].cells[b] = -1 =>
                  \A i \in DOMAIN lines : lines[i].src = a /\ lines[i].dst = b => ~lines[i].ok

LEMMA PlotIsFaithful ==
    ASSUME NEW S, NEW names \in Seq(S), NEW lines \in Seq(Line)
    PROVE  Plot(lines, names).error = "" => Faithful(Plot(lines, names).rows, names, lines)
<1>0. SUFFICES ASSUME Plot(lines, names).error = ""
               PROVE  Faithful(Plot(lines, names).rows, names, lines)
  OBVIOUS
<1> DEFINE data == Latencies(lines)
           ranks == {k[1] : k \in DOMAIN data}
           N == Len(names)
<1>1. N \in Nat
  OBVIOUS
<1>2. \A e \in {"Ranks differed", "Results contained", "IndexError"} : Failed(e).error # ""
  BY DEF Failed
<1>3. ~RanksDiffer(data) /\ N = Cardinality(ranks) /\ Plot(lines, names) = HtmlRows(ranks, names, data)
  BY <1>0, <1>2 DEF Plot
<1>4. (\A r \in ranks : ~ (r >= N))
      /\ HtmlRows(ranks, names, data).rows =
            [a \in ranks |-> [node |-> names[a + 1],
                              cells |-> [b \in ranks |-> IF <<a, b>> \in DOMAIN data THEN data[<<a, b>>] ELSE -1]]]
  BY <1>0, <1>2, <1>3 DEF HtmlRows
<1>5. DOMAIN data = {<<lines[i].src, lines[i].dst>> : i \in Measured(lines)}
      /\ \A k \in DOMAIN data : \E i \in Measured(lines) :
            <<lines[i].src, lines[i].dst>> = k /\ data[k] = lines[i].lat
  BY LatenciesFacts
<1>6. /\ Measured(lines) \subseteq DOMAIN lines
      /\ \A i \in Measured(lines) : lines[i] \in Line /\ lines[i].ok
      /\ \A i \in DOMAIN lines : lines[i].ok => i \in Measured(lines)
  <2>1. Measured(lines) \subseteq DOMAIN lines
    BY Zenon DEF Measured
  <2>2. \A i \in Measured(lines) : lines[i].ok
    BY Zenon DEF Measured
  <2>3. \A i \in DOMAIN lines : lines[i].ok => i \in Measured(lines)
    BY Zenon DEF Measured
  <2>4. \A i \in DOMAIN lines : lines[i] \in Line
    OBVIOUS
  <2> QED BY <2>1, <2>2, <2>3, <2>4, Zenon
<1> HIDE DEF data
<1>7. ranks \subseteq Nat
  <2>1. ASSUME NEW k \in DOMAIN data PROVE k[1] \in Nat
    <3>1. PICK i \in Measured(lines) : <<lines[i].src, lines[i].dst>> = k
      BY <1>5, Zenon
    <3>2. lines[i].src \in Nat
      BY <1>6 DEF Line
    <3> QED BY <3>1, <3>2
  <2> QED BY <2>1
<1> HIDE DEF ranks, N
<1>8. ranks = 0..(N - 1)
  <2>1. ranks \subseteq 0..(N - 1)
    BY <1>1, <1>4, <1>7
  <2>2. IsFiniteSet(0..(N - 1)) /\ Cardinality(0..(N - 1)) = N
    <3>1. 0 \in Int /\ N - 1 \in Int /\ (0 > N - 1 <=> N = 0) /\ (N - 1) - 0 + 1 = N
      BY <1>1
    <3> QED BY <3>1, FS_Interval
  <2> QED BY <1>3, <2>1, <2>2, FS_Subset
<1> DEFINE rows == Plot(lines, names).rows
<1>9. /\ DOMAIN rows = ranks
      /\ \A a, b \in ranks :
            /\ rows[a].node = names[a + 1]
            /\ rows[a].cells[b] = IF <<a, b>> \in DOMAIN data THEN data[<<a, b>>] ELSE -1
  BY <1>3, <1>4
<1> HIDE DEF rows
<1>10. ASSUME NEW a \in ranks, NEW b \in ranks
       PROVE  /\ rows[a].cells[b] # -1 =>
                   \E i \in DOMAIN lines :
                      /\ lines[i].src = a /\ lines[i].dst = b
                      /\ lines[i].ok /\ lines[i].lat = rows[a].cells[b]
              /\ rows[a].cells[b] = -1 =>
                   \A i \in DOMAIN lines : lines[i].src = a /\ lines[i].dst = b => ~lines[i].ok
  <2>1. CASE <<a, b>> \in DOMAIN data
    <3>1. PICK i \in Measured(lines) : <<lines[i].src, lines[i].dst>> = <<a, b>> /\ data[<<a, b>>] = lines[i].lat
      BY <1>5, <2>1
    <3>2. rows[a].cells[b] = lines[i].lat
      BY <1>9, <2>1, <3>1
    <3>3. lines[i].lat \in Nat
      BY <1>6 DEF Line
    <3>4. rows[a].cells[b] # -1
      BY <3>2, <3>3
    <3>5. lines[i].src = a /\ lines[i].dst = b
      BY <3>1
    <3> QED BY <1>6, <3>2, <3>4, <3>5
  <2>2. CASE <<a, b>> \notin DOMAIN data
    <3>1. rows[a].cells[b] = -1
      BY <1>9, <2>2
    <3>2. ASSUME NEW i \in DOMAIN lines, lines[i].src = a, lines[i].dst = b, lines[i].ok PROVE FALSE
      <4>1. <<lines[i].src, lines[i].dst>> \in DOMAIN data
        BY <1>5, <1>6, <3>2
      <4> QED BY <2>2, <3>2, <4>1
    <3> QED BY <3>1, <3>2
  <2> QED BY <2>1, <2>2
<1>11. ranks = 0..(Len(names) - 1)
  BY <1>8 DEF N
<1>12. Faithful(rows, names, lines)
  <2>1. DOMAIN rows = 0..(Len(names) - 1)
    BY <1>9, <1>11
  <2>2. ASSUME NEW a \in 0..(Len(names) - 1), NEW b \in 0..(Len(names) - 1)
        PROVE  /\ rows[a].node = names[a + 1]
               /\ rows[a].cells[b] # -1 =>
                    \E i \in DOMAIN lines :
                       /\ lines[i].src = a /\ lines[i].dst = b
                       /\ lines[i].ok /\ lines[i].lat = rows[a].cells[b]
               /\ rows[a].cells[b] = -1 =>
                    \A i \in DOMAIN lines : lines[i].src = a /\ lines[i].dst = b => ~lines[i].ok
    <3>1. a \in ranks /\ b \in ranks
      BY <1>11
    <3> HIDE DEF N
    <3>2. rows[a].node = names[a + 1]
      BY <1>9, <3>1
    <3> QED BY <1>10, <3>1, <3>2
  <2> QED BY <2>1, <2>2, Zenon DEF Faithful
<1> QED BY <1>12 DEF rows

-----------------------------------------------------------------------------
(* Folds over the lines of a file                                          *)

(* What holds of 0, and of i + 1 if of i, holds up to n.                   *)
LEMMA Stepwise ==
    ASSUME NEW n \in Nat, NEW T, 0 \in T, \A i \in 0..(n - 1) : i \in T => i + 1 \in T
    PROVE  \A i \in 0..n : i \in T
<1> DEFINE Missing == {i \in 0..n : i \notin T}
<1>1. SUFFICES ASSUME Missing # {} PROVE FALSE
  OBVIOUS
<1>2. PICK i \in Missing : \A j \in Missing : <<j, i>> \notin OpToRel(<, Nat)
  <2>1. Missing \subseteq Nat
    OBVIOUS
  <2> HIDE DEF Missing
  <2> QED BY <1>1, <2>1, NatLessThanWellFounded, WFMin
<1>3. i \in 0..n /\ i \notin T /\ i # 0
  OBVIOUS
<1>4. i - 1 \in 0..(n - 1) /\ i - 1 \in Nat /\ i \in Nat /\ i - 1 < i /\ (i - 1) + 1 = i
  BY <1>3
<1>5. i - 1 \in T
  <2>1. <<i - 1, i>> \in OpToRel(<, Nat)
    BY <1>4 DEF OpToRel
  <2>2. i - 1 \in 0..n
    BY <1>4
  <2> QED BY <1>2, <2>1, <2>2
<1> QED BY <1>3, <1>4, <1>5

LEMMA MaxFacts ==
    ASSUME NEW n \in Nat, NEW s, s \subseteq 1..n, s # {}
    PROVE  Max(s) \in s /\ \A y \in s : Max(s) >= y
<1>1. \E x \in s : \A y \in s : y <= x
  <2>1. s \subseteq 0..n
    OBVIOUS
  <2> QED BY <2>1, Greatest
<1>2. PICK x \in s : \A y \in s : x >= y
  BY <1>1
<1> QED BY <1>2 DEF Max

(* The recursive function of a fold exists, with the step as a function of *)
(* the state and the number of the line.                                   *)
IsFold(iter, n, State, base, step) ==
    iter \in [SUBSET (1..n) -> State] /\ \A s \in SUBSET (1..n) :
        iter[s] = IF s = {} THEN base ELSE step[<<iter[s \ {Max(s)}], Max(s)>>]

LEMMA FoldExists ==
    ASSUME NEW n, n \in Nat, NEW State, NEW base, base \in State,
           NEW step, step \in [State \X (1..n) -> State]
    PROVE  \E iter : IsFold(iter, n, State, base, step)
<1> USE DEF IsFold
<1> DEFINE Fold(iter, k) == IsFold(iter, k, State, base, step)
           T == {k \in 0..n : \E iter : Fold(iter, k)}
<1>1. 0 \in T
  <2> DEFINE iter == [s \in SUBSET (1..0) |-> base]
  <2>1. SUBSET (1..0) = {{}}
    OBVIOUS
  <2>2. Fold(iter, 0)
    BY <2>1
  <2> HIDE DEF Fold
  <2> QED BY <2>2
<1>2. ASSUME NEW k \in 0..(n - 1), k \in T PROVE k + 1 \in T
  <2>1. PICK iter : Fold(iter, k)
    BY <1>2
  <2> DEFINE h == [s \in SUBSET (1..(k + 1)) |->
                      IF k + 1 \in s THEN step[<<iter[s \ {k + 1}], k + 1>>] ELSE iter[s]]
  <2>2. ASSUME NEW s \in SUBSET (1..(k + 1))
        PROVE  h[s] \in State /\ h[s] = IF s = {} THEN base ELSE step[<<h[s \ {Max(s)}], Max(s)>>]
    <3>1. CASE k + 1 \in s
      <4>1. Max(s) = k + 1
        <5>1. Max(s) \in s /\ \A y \in s : Max(s) >= y
          <6>1. k + 1 \in Nat /\ s \subseteq 1..(k + 1) /\ s # {}
            BY <3>1
          <6> QED BY <6>1, MaxFacts
        <5>2. Max(s) \in 1..(k + 1) /\ Max(s) >= k + 1
          BY <3>1, <5>1
        <5> QED BY <5>2
      <4>2. s \ {k + 1} \in SUBSET (1..k) /\ s \ {k + 1} \in SUBSET (1..(k + 1)) /\ k + 1 \notin s \ {k + 1}
        OBVIOUS
      <4>3. h[s] = step[<<iter[s \ {k + 1}], k + 1>>] /\ h[s \ {k + 1}] = iter[s \ {k + 1}]
        BY <3>1, <4>2
      <4>4. iter[s \ {k + 1}] \in State /\ k + 1 \in 1..n
        BY <2>1, <4>2
      <4> HIDE DEF h
      <4>5. h[s] \in State
        BY <4>3, <4>4
      <4> QED BY <3>1, <4>1, <4>3, <4>5
    <3>2. CASE k + 1 \notin s
      <4>1. s \in SUBSET (1..k)
        BY <3>2
      <4>2. h[s] = iter[s]
        BY <3>2
      <4>3. CASE s = {}
        BY <2>1, <4>1, <4>2, <4>3
      <4>4. CASE s # {}
        <5>1. s \ {Max(s)} \in SUBSET (1..k) /\ s \ {Max(s)} \in SUBSET (1..(k + 1)) /\ k + 1 \notin s \ {Max(s)}
          BY <3>2, <4>1
        <5>2. h[s \ {Max(s)}] = iter[s \ {Max(s)}]
          BY <5>1
        <5> HIDE DEF h
        <5> QED BY <2>1, <4>1, <4>2, <4>4, <5>2
      <4> QED BY <4>3, <4>4
    <3> QED BY <3>1, <3>2
  <2>3. h \in [SUBSET (1..(k + 1)) -> State]
    BY <2>2
  <2> HIDE DEF h
  <2>4. Fold(h, k + 1)
    BY <2>2, <2>3
  <2> HIDE DEF Fold
  <2>5. k + 1 \in 0..n
    OBVIOUS
  <2> QED BY <2>4, <2>5
<1> HIDE DEF Fold
<1>3. \A k \in 0..n : k \in T
  <2> HIDE DEF T
  <2> QED BY <1>1, <1>2, Stepwise
<1>4. n \in T
  BY <1>3
<1> QED BY <1>4 DEF Fold

LEMMA PrefixMax ==
    ASSUME NEW i \in Nat \ {0}
    PROVE  1..i # {} /\ Max(1..i) = i /\ (1..i) \ {i} = 1..(i - 1)
<1>1. i \in 1..i
  OBVIOUS
<1>2. Max(1..i) \in 1..i /\ Max(1..i) >= i
  BY <1>1, MaxFacts
<1>3. Max(1..i) = i
  BY <1>2
<1> QED BY <1>1, <1>3

ImbLine == [kind : Hashed \cup {"header", "row", "blank", "text"}, fields : Nat, bytes : Nat]

Reading == [mode : {"search", "table", "processes", "comments", "exception"}, rows : Seq(ImbLine)]

LEMMA Readings ==
    /\ ImbStart \in Reading
    /\ \A s \in Reading, l \in ImbLine : PingpongLine(s, l) \in Reading /\ ImbOutLine(s, l) \in Reading
<1>1. ImbStart \in Reading /\ Broken \in Reading /\ [mode |-> "table", rows |-> <<>>] \in Reading
  BY DEF ImbStart, Broken, Reading
<1>2. ASSUME NEW s \in Reading, NEW l \in ImbLine
      PROVE  /\ [s EXCEPT !.rows = Append(@, l)] \in Reading
             /\ [s EXCEPT !.mode = "search"] \in Reading
             /\ [s EXCEPT !.mode = "table"] \in Reading
             /\ [s EXCEPT !.mode = "processes"] \in Reading
             /\ [s EXCEPT !.mode = "comments"] \in Reading
  <2> DEFINE r == s.rows
  <2>1. s = [mode |-> s.mode, rows |-> r] /\ r \in Seq(ImbLine) /\ s.mode \in {"search", "table", "processes", "comments", "exception"}
    BY DEF Reading
  <2> HIDE DEF r
  <2>2. Append(r, l) \in Seq(ImbLine)
    BY <2>1
  <2>3. [s EXCEPT !.rows = Append(@, l)] = [mode |-> s.mode, rows |-> Append(r, l)]
    BY <2>1 DEF r
  <2>4. [s EXCEPT !.rows = Append(@, l)] \in Reading
    BY <2>1, <2>2, <2>3 DEF Reading
  <2> HIDE DEF ImbLine
  <2> QED BY <2>1, <2>4 DEF Reading
<1>3. ASSUME NEW s \in Reading, NEW l \in ImbLine PROVE PingpongLine(s, l) \in Reading
  BY <1>1, <1>2 DEF PingpongLine
<1>4. ASSUME NEW s \in Reading, NEW l \in ImbLine PROVE ImbOutLine(s, l) \in Reading
  BY <1>1, <1>2 DEF ImbOutLine
<1> QED BY <1>1, <1>3, <1>4

(* read_imb_pingpong, line by line.                                        *)
IsRead(file, t) ==
    /\ t \in [0..Len(file) -> Reading]
    /\ t[0] = ImbStart
    /\ \A i \in 1..Len(file) : t[i] = PingpongLine(t[i - 1], file[i])

LEMMA PingpongTrace ==
    ASSUME NEW file \in Seq(ImbLine)
    PROVE  \E t : IsRead(file, t) /\ ReadImbPingpong(file) = EndOfFile(t[Len(file)])
<1> DEFINE n == Len(file)
           step == [p \in Reading \X (1..n) |-> PingpongLine(p[1], file[p[2]])]
           Eqn(iter) == iter = [s \in SUBSET (1..n) |->
                                  IF s = {} THEN ImbStart
                                  ELSE PingpongLine(iter[s \ {Max(s)}], file[Max(s)])]
           fold == CHOOSE iter : Eqn(iter)
           t == [i \in 0..n |-> fold[1..i]]
<1>1. n \in Nat /\ DOMAIN file = 1..n /\ \A i \in 1..n : file[i] \in ImbLine
  <2> HIDE DEF ImbLine
  <2> QED OBVIOUS
<1>2. ReadImbPingpong(file) = EndOfFile(fold[1..n])
  <2>1. DOMAIN file = 1..n
    BY <1>1
  <2> QED BY <2>1 DEF ReadImbPingpong, FoldLeft, MapThenFoldSet
<1> HIDE DEF n
<1>3. step \in [Reading \X (1..n) -> Reading]
  <2>1. ASSUME NEW p \in Reading \X (1..n) PROVE PingpongLine(p[1], file[p[2]]) \in Reading
    <3>1. p[1] \in Reading /\ file[p[2]] \in ImbLine
      BY <1>1
    <3> QED BY <3>1, Readings
  <2> QED BY <2>1
<1>4. PICK g \in [SUBSET (1..n) -> Reading] : \A s \in SUBSET (1..n) :
          g[s] = IF s = {} THEN ImbStart ELSE step[<<g[s \ {Max(s)}], Max(s)>>]
  <2> HIDE DEF step, t, fold, Eqn
  <2>1. ImbStart \in Reading /\ n \in Nat
    BY <1>1, Readings
  <2>2. \E g : IsFold(g, n, Reading, ImbStart, step)
    BY <1>3, <2>1, FoldExists
  <2> QED BY <2>2 DEF IsFold
<1>5. Eqn(g)
  <2>1. ASSUME NEW s \in SUBSET (1..n), s # {}
        PROVE  g[s] = PingpongLine(g[s \ {Max(s)}], file[Max(s)])
    <3>1. Max(s) \in 1..n
      BY <1>1, <2>1, MaxFacts
    <3>2. g[s \ {Max(s)}] \in Reading
      OBVIOUS
    <3>3. <<g[s \ {Max(s)}], Max(s)>> \in Reading \X (1..n)
      BY <3>1, <3>2
    <3>4. g[s] = step[<<g[s \ {Max(s)}], Max(s)>>]
      BY <1>4, <2>1
    <3> QED BY <3>3, <3>4
  <2>2. \A s \in SUBSET (1..n) : g[s] = IF s = {} THEN ImbStart ELSE PingpongLine(g[s \ {Max(s)}], file[Max(s)])
    BY <1>4, <2>1
  <2> QED BY <2>2
<1>6. Eqn(fold)
  <2> HIDE DEF Eqn
  <2> QED BY <1>5
<1> HIDE DEF fold
<1>7. fold[{}] = ImbStart
  BY <1>6
<1>8. ASSUME NEW i \in 1..n PROVE fold[1..i] = PingpongLine(fold[1..(i - 1)], file[i])
  <2>1. 1..i \in SUBSET (1..n)
    BY <1>1
  <2>2. i \in Nat \ {0}
    BY <1>1
  <2>3. 1..i # {} /\ Max(1..i) = i /\ (1..i) \ {i} = 1..(i - 1)
    BY <2>2, PrefixMax
  <2>4. fold[1..i] = PingpongLine(fold[(1..i) \ {Max(1..i)}], file[Max(1..i)])
    BY <1>6, <2>1, <2>3
  <2> QED BY <2>3, <2>4
<1> HIDE DEF Eqn
<1>9. t[0] = ImbStart /\ 1..0 = {}
  BY <1>1, <1>7
<1>10. ASSUME NEW i \in 1..n PROVE t[i] = PingpongLine(t[i - 1], file[i])
  <2>1. i \in 0..n /\ i - 1 \in 0..n
    BY <1>1
  <2> QED BY <1>8, <2>1
<1>11. t[n] = fold[1..n] /\ DOMAIN t = 0..n /\ t = [i \in 0..n |-> t[i]]
  BY <1>1
<1> HIDE DEF t
<1>12. \A i \in 0..n : t[i] \in Reading
  <2> DEFINE T == {i \in 0..n : t[i] \in Reading}
  <2>1. 0 \in T
    BY <1>1, <1>9, Readings
  <2>2. ASSUME NEW i \in 0..(n - 1), i \in T PROVE i + 1 \in T
    <3>1. i + 1 \in 1..n /\ i + 1 \in 0..n /\ (i + 1) - 1 = i
      BY <1>1
    <3>2. t[i + 1] = PingpongLine(t[i], file[i + 1])
      BY <1>10, <3>1
    <3>3. PingpongLine(t[i], file[i + 1]) \in Reading
      BY <1>1, <2>2, <3>1, Readings
    <3> QED BY <3>1, <3>2, <3>3
  <2> HIDE DEF T
  <2>3. \A i \in 0..n : i \in T
    BY <1>1, <2>1, <2>2, Stepwise
  <2> QED BY <2>3 DEF T
<1>13. t \in [0..n -> Reading]
  BY <1>11, <1>12
<1> QED BY <1>2, <1>9, <1>10, <1>11, <1>13 DEF n, IsRead

(* read_imb_out, line by line.                                             *)
IsPlotted(file, t) ==
    /\ t \in [0..Len(file) -> Reading]
    /\ t[0] = ImbStart
    /\ \A i \in 1..Len(file) : t[i] = ImbOutLine(t[i - 1], file[i])

LEMMA ImbOutTrace ==
    ASSUME NEW file \in Seq(ImbLine)
    PROVE  \E t : IsPlotted(file, t) /\ ReadImbOut(file) = EndOfFile(t[Len(file)])
<1> DEFINE n == Len(file)
           step == [p \in Reading \X (1..n) |-> ImbOutLine(p[1], file[p[2]])]
           Eqn(iter) == iter = [s \in SUBSET (1..n) |->
                                  IF s = {} THEN ImbStart
                                  ELSE ImbOutLine(iter[s \ {Max(s)}], file[Max(s)])]
           fold == CHOOSE iter : Eqn(iter)
           t == [i \in 0..n |-> fold[1..i]]
<1>1. n \in Nat /\ DOMAIN file = 1..n /\ \A i \in 1..n : file[i] \in ImbLine
  <2> HIDE DEF ImbLine
  <2> QED OBVIOUS
<1>2. ReadImbOut(file) = EndOfFile(fold[1..n])
  <2>1. DOMAIN file = 1..n
    BY <1>1
  <2> QED BY <2>1 DEF ReadImbOut, FoldLeft, MapThenFoldSet
<1> HIDE DEF n
<1>3. step \in [Reading \X (1..n) -> Reading]
  <2>1. ASSUME NEW p \in Reading \X (1..n) PROVE ImbOutLine(p[1], file[p[2]]) \in Reading
    <3>1. p[1] \in Reading /\ file[p[2]] \in ImbLine
      BY <1>1
    <3> QED BY <3>1, Readings
  <2> QED BY <2>1
<1>4. PICK g \in [SUBSET (1..n) -> Reading] : \A s \in SUBSET (1..n) :
          g[s] = IF s = {} THEN ImbStart ELSE step[<<g[s \ {Max(s)}], Max(s)>>]
  <2> HIDE DEF step, t, fold, Eqn
  <2>1. ImbStart \in Reading /\ n \in Nat
    BY <1>1, Readings
  <2>2. \E g : IsFold(g, n, Reading, ImbStart, step)
    BY <1>3, <2>1, FoldExists
  <2> QED BY <2>2 DEF IsFold
<1>5. Eqn(g)
  <2>1. ASSUME NEW s \in SUBSET (1..n), s # {}
        PROVE  g[s] = ImbOutLine(g[s \ {Max(s)}], file[Max(s)])
    <3>1. Max(s) \in 1..n
      BY <1>1, <2>1, MaxFacts
    <3>2. g[s \ {Max(s)}] \in Reading
      OBVIOUS
    <3>3. <<g[s \ {Max(s)}], Max(s)>> \in Reading \X (1..n)
      BY <3>1, <3>2
    <3>4. g[s] = step[<<g[s \ {Max(s)}], Max(s)>>]
      BY <1>4, <2>1
    <3> QED BY <3>3, <3>4
  <2>2. \A s \in SUBSET (1..n) : g[s] = IF s = {} THEN ImbStart ELSE ImbOutLine(g[s \ {Max(s)}], file[Max(s)])
    BY <1>4, <2>1
  <2> QED BY <2>2
<1>6. Eqn(fold)
  <2> HIDE DEF Eqn
  <2> QED BY <1>5
<1> HIDE DEF fold
<1>7. fold[{}] = ImbStart
  BY <1>6
<1>8. ASSUME NEW i \in 1..n PROVE fold[1..i] = ImbOutLine(fold[1..(i - 1)], file[i])
  <2>1. 1..i \in SUBSET (1..n)
    BY <1>1
  <2>2. i \in Nat \ {0}
    BY <1>1
  <2>3. 1..i # {} /\ Max(1..i) = i /\ (1..i) \ {i} = 1..(i - 1)
    BY <2>2, PrefixMax
  <2>4. fold[1..i] = ImbOutLine(fold[(1..i) \ {Max(1..i)}], file[Max(1..i)])
    BY <1>6, <2>1, <2>3
  <2> QED BY <2>3, <2>4
<1> HIDE DEF Eqn
<1>9. t[0] = ImbStart /\ 1..0 = {}
  BY <1>1, <1>7
<1>10. ASSUME NEW i \in 1..n PROVE t[i] = ImbOutLine(t[i - 1], file[i])
  <2>1. i \in 0..n /\ i - 1 \in 0..n
    BY <1>1
  <2> QED BY <1>8, <2>1
<1>11. t[n] = fold[1..n] /\ DOMAIN t = 0..n /\ t = [i \in 0..n |-> t[i]]
  BY <1>1
<1> HIDE DEF t
<1>12. \A i \in 0..n : t[i] \in Reading
  <2> DEFINE T == {i \in 0..n : t[i] \in Reading}
  <2>1. 0 \in T
    BY <1>1, <1>9, Readings
  <2>2. ASSUME NEW i \in 0..(n - 1), i \in T PROVE i + 1 \in T
    <3>1. i + 1 \in 1..n /\ i + 1 \in 0..n /\ (i + 1) - 1 = i
      BY <1>1
    <3>2. t[i + 1] = ImbOutLine(t[i], file[i + 1])
      BY <1>10, <3>1
    <3>3. ImbOutLine(t[i], file[i + 1]) \in Reading
      BY <1>1, <2>2, <3>1, Readings
    <3> QED BY <3>1, <3>2, <3>3
  <2> HIDE DEF T
  <2>3. \A i \in 0..n : i \in T
    BY <1>1, <2>1, <2>2, Stepwise
  <2> QED BY <2>3 DEF T
<1>13. t \in [0..n -> Reading]
  BY <1>11, <1>12
<1> QED BY <1>2, <1>9, <1>10, <1>11, <1>13 DEF n, IsPlotted

-----------------------------------------------------------------------------
(* The readers of IMB-MPI1's output                                        *)

(* The lines after h, up to i.                                             *)
Between(f, h, i) == [j \in 1..(i - h) |-> f[h + j]]

LEMMA AppendLine ==
    ASSUME NEW f \in Seq(ImbLine), NEW h \in 1..Len(f), NEW i \in h..(Len(f) - 1)
    PROVE  /\ Between(f, h, i) \in Seq(ImbLine)
           /\ Append(Between(f, h, i), f[i + 1]) = Between(f, h, i + 1)
<1> DEFINE m == i - h
           s == Between(f, h, i)
           l == Between(f, h, i + 1)
<1>1. Len(f) \in Nat /\ DOMAIN f = 1..Len(f) /\ \A j \in 1..Len(f) : f[j] \in ImbLine
  <2> HIDE DEF ImbLine
  <2> QED OBVIOUS
<1>2. m \in Nat /\ (i + 1) - h = m + 1 /\ h + (m + 1) = i + 1
  BY <1>1
<1>3. \A j \in 1..m : h + j \in 1..Len(f)
  BY <1>1
<1>4. DOMAIN s = 1..m /\ \A j \in 1..m : s[j] = f[h + j] /\ f[h + j] \in ImbLine
  BY <1>1, <1>3 DEF Between
<1>5. s = [j \in 1..m |-> f[h + j]]
  BY DEF Between
<1>6. s \in [1..m -> ImbLine]
  <2> HIDE DEF s, m
  <2> QED BY <1>4, <1>5
<1>7. s \in Seq(ImbLine) /\ Len(s) = m
  <2> HIDE DEF s, m
  <2> QED BY <1>2, <1>6
<1>8. l = [j \in 1..(m + 1) |-> f[h + j]]
  BY <1>2 DEF Between
<1> HIDE DEF s, l, m
<1>9. Append(s, f[i + 1]) = [j \in 1..(m + 1) |-> IF j \in 1..m THEN s[j] ELSE f[i + 1]]
  BY <1>2, <1>6, <1>7
<1>10. \A j \in 1..(m + 1) : (IF j \in 1..m THEN s[j] ELSE f[i + 1]) = f[h + j]
  <2> TAKE j \in 1..(m + 1)
  <2>1. j \in 1..m \/ j = m + 1
    BY <1>2
  <2> QED BY <1>2, <1>4, <2>1
<1>11. Append(s, f[i + 1]) = l
  BY <1>8, <1>9, <1>10
<1> QED BY <1>7, <1>11 DEF s, l

LEMMA ImbLines ==
    ASSUME NEW f \in ImbOutputs
    PROVE  /\ f \in Seq(ImbLine) /\ Len(f) \in Nat /\ DOMAIN f = 1..Len(f)
           /\ \A i \in 1..Len(f) : f[i] \in ImbLine
<1>1. f \in Seq(ImbLine)
  BY ImbAssumption DEF ImbLine
<1> HIDE DEF ImbLine
<1> QED BY <1>1

(* What the readers make of a line, in each of their modes.                *)
LEMMA PingpongModes ==
    ASSUME NEW s \in Reading, NEW l \in ImbLine
    PROVE  /\ s.mode = "search" /\ l.kind # "header" => PingpongLine(s, l) = s
           /\ s.mode = "search" /\ l.kind = "header" => PingpongLine(s, l) = [mode |-> "table", rows |-> s.rows]
           /\ s.mode = "table" /\ l.kind = "blank" => PingpongLine(s, l) = [mode |-> "search", rows |-> s.rows]
           /\ s.mode = "table" /\ l.kind = "row" =>
                PingpongLine(s, l) \in {Broken, [mode |-> "table", rows |-> Append(s.rows, l)]}
           /\ s.mode = "table" /\ l.kind \notin {"row", "blank"} => PingpongLine(s, l) = Broken
           /\ s.mode = "exception" => PingpongLine(s, l) = s
<1>1. s = [mode |-> s.mode, rows |-> s.rows]
  BY DEF Reading
<1>2. \A m : [s EXCEPT !.mode = m] = [mode |-> m, rows |-> s.rows]
  BY <1>1
<1>3. [s EXCEPT !.rows = Append(@, l)] = [mode |-> s.mode, rows |-> Append(s.rows, l)]
  BY <1>1
<1> HIDE DEF Reading, ImbLine
<1> QED BY <1>2, <1>3 DEF PingpongLine

LEMMA ImbOutModes ==
    ASSUME NEW s \in Reading, NEW l \in ImbLine
    PROVE  /\ s.mode = "search" /\ l.kind # "benchmark" => ImbOutLine(s, l) = s
           /\ s.mode = "search" /\ l.kind = "benchmark" => ImbOutLine(s, l) = [mode |-> "processes", rows |-> s.rows]
           /\ s.mode = "processes" => ImbOutLine(s, l) \in {Broken, [mode |-> "comments", rows |-> s.rows]}
           /\ s.mode = "processes" /\ l.kind # "processes" => ImbOutLine(s, l) = Broken
           /\ s.mode = "comments" /\ l.kind \in Hashed => ImbOutLine(s, l) = s
           /\ s.mode = "comments" /\ l.kind \notin Hashed => ImbOutLine(s, l) = [mode |-> "table", rows |-> <<>>]
           /\ s.mode = "table" /\ l.kind = "blank" =>
                ImbOutLine(s, l) \in {Broken, [mode |-> "search", rows |-> s.rows]}
           /\ s.mode = "table" /\ l.kind = "row" => ImbOutLine(s, l) = [mode |-> "table", rows |-> Append(s.rows, l)]
           /\ s.mode = "table" /\ l.kind \notin {"row", "blank"} => ImbOutLine(s, l) = Broken
           /\ s.mode = "exception" => ImbOutLine(s, l) = s
<1>1. s = [mode |-> s.mode, rows |-> s.rows]
  BY DEF Reading
<1>2. \A m : [s EXCEPT !.mode = m] = [mode |-> m, rows |-> s.rows]
  BY <1>1
<1>3. [s EXCEPT !.rows = Append(@, l)] = [mode |-> s.mode, rows |-> Append(s.rows, l)]
  BY <1>1
<1> HIDE DEF Reading, ImbLine
<1> QED BY <1>2, <1>3 DEF ImbOutLine

(* Without a header there are no rows, and neither reader has any.         *)
LEMMA NoTable ==
    ASSUME NEW f \in ImbOutputs, Is(f, {"header"}) = {},
           NEW p, IsRead(f, p), NEW q, IsPlotted(f, q)
    PROVE  p[Len(f)].rows = <<>> /\ q[Len(f)].rows = <<>>
<1> DEFINE n == Len(f)
           T == {i \in 0..n : p[i] = ImbStart /\ q[i].rows = <<>>}
<1>1. n \in Nat /\ \A i \in 1..n : f[i] \in ImbLine /\ f[i].kind \notin {"header", "row"}
  <2>1. f \in Seq(ImbLine) /\ Len(f) \in Nat /\ DOMAIN f = 1..Len(f) /\ \A i \in 1..Len(f) : f[i] \in ImbLine
    BY ImbLines
  <2>2. \A i \in DOMAIN f : f[i].kind # "row"
    BY ImbAssumption DEF Is
  <2> QED BY <2>1, <2>2 DEF Is
<1>2. 0 \in T
  BY <1>1 DEF IsRead, IsPlotted, ImbStart
<1>3. ASSUME NEW i \in 0..(n - 1), i \in T PROVE i + 1 \in T
  <2>1. i \in 0..n /\ i + 1 \in 0..n /\ i + 1 \in 1..n /\ (i + 1) - 1 = i
    BY <1>1
  <2> DEFINE l == f[i + 1]
  <2>2. p[i + 1] = PingpongLine(p[i], l) /\ q[i + 1] = ImbOutLine(q[i], l) /\ p[i] \in Reading /\ q[i] \in Reading
    BY <2>1 DEF IsRead, IsPlotted
  <2>3. p[i] = ImbStart /\ q[i].rows = <<>>
    BY <1>3
  <2>4. l \in ImbLine /\ l.kind \notin {"header", "row"}
    BY <1>1, <2>1
  <2> HIDE DEF l
  <2>5. p[i + 1] = ImbStart
    <3>1. ImbStart.mode = "search"
      BY DEF ImbStart
    <3> QED BY <2>2, <2>3, <2>4, <3>1, PingpongModes
  <2>6. q[i + 1].rows = <<>>
    <3>1. Broken.rows = <<>>
      BY DEF Broken
    <3>2. q[i].mode \in {"search", "table", "processes", "comments", "exception"}
      BY <2>2 DEF Reading
    <3> QED BY <2>2, <2>3, <2>4, <3>1, <3>2, ImbOutModes
  <2> QED BY <2>1, <2>5, <2>6
<1> HIDE DEF T, n
<1>4. \A i \in 0..n : i \in T
  BY <1>1, <1>2, <1>3, Stepwise
<1>5. n \in T
  BY <1>1, <1>4
<1> QED BY <1>5 DEF T, ImbStart, n

Foreign(f) == Is(f, {"blank", "text"})

(* Before the header the one reader searches; the other is past the lines  *)
(* after that of the benchmark, in a table at most if there is a foreign   *)
(* line.                                                                   *)
Before(f, b, i, s, t) ==
    /\ s = ImbStart
    /\ i < b => t = ImbStart
    /\ i >= b => \/ t.mode \in {"processes", "comments", "exception"}
                 \/ t.mode = "table" /\ \E j \in (b + 1)..i : j \in Foreign(f)

(* From the header on the one has read the lines after it, up to an empty  *)
(* one, and the other agrees.                                              *)
After(f, h, i, s, t) ==
    /\ "exception" \in {s.mode, t.mode} \/ s = t
    /\ \/ s.mode = "exception"
       \/ /\ s.mode = "table" /\ s.rows = Between(f, h, i)
          /\ (h + 1)..i \subseteq Is(f, {"row"})
       \/ /\ s.mode = "search"
          /\ \E e \in Is(f, {"blank"}) :
                /\ h < e /\ e <= i /\ s.rows = Between(f, h, e - 1)
                /\ (h + 1)..(e - 1) \subseteq Is(f, {"row"})

LEMMA HeaderFacts ==
    ASSUME NEW f \in ImbOutputs, NEW h \in Is(f, {"header"})
    PROVE  /\ h \in 1..Len(f) /\ f[h].kind = "header"
           /\ \E b \in 1..Len(f) :
                /\ b < h /\ f[b].kind = "benchmark"
                /\ \A i \in 1..Len(f) : f[i].kind = "benchmark" => i = b
                /\ \A i, j \in Foreign(f) \cap b..h : i = j
           /\ \A i \in 1..Len(f) : /\ f[i].kind = "header" => i = h
                                   /\ f[i].kind = "row" => h < i
<1>1. DOMAIN f = 1..Len(f)
  BY ImbLines
<1>2. PICK b \in Is(f, {"benchmark"}) : b < h /\ \A i, j \in Is(f, {"blank", "text"}) \cap b..h : i = j
  BY ImbAssumption
<1>3. \A c \in Is(f, {"benchmark"}) : c = b
  BY ImbAssumption
<1>4. \A g \in Is(f, {"header"}) : g = h
  BY ImbAssumption
<1>5. \A r \in Is(f, {"row"}) : h < r
  BY <1>4, ImbAssumption
<1> QED BY <1>1, <1>2, <1>3, <1>4, <1>5 DEF Is, Foreign

(* A line before the header.                                               *)
LEMMA BeforeStep ==
    ASSUME NEW f \in ImbOutputs, NEW h \in 1..Len(f), NEW b \in 1..Len(f), b < h,
           \A i \in 1..Len(f) : f[i].kind = "header" => i = h,
           \A i \in 1..Len(f) : f[i].kind = "row" => h < i,
           \A i \in 1..Len(f) : f[i].kind = "benchmark" => i = b,
           f[b].kind = "benchmark",
           \A i, j \in Foreign(f) \cap b..h : i = j,
           NEW i \in 0..Len(f), i + 1 < h,
           NEW s \in Reading, NEW t \in Reading, Before(f, b, i, s, t)
    PROVE  Before(f, b, i + 1, PingpongLine(s, f[i + 1]), ImbOutLine(t, f[i + 1]))
<1> DEFINE l == f[i + 1]
           u == ImbOutLine(t, l)
<1>0. Len(f) \in Nat /\ DOMAIN f = 1..Len(f) /\ \A k \in 1..Len(f) : f[k] \in ImbLine
  BY ImbLines
<1>1. i + 1 \in 1..Len(f) /\ i \in Nat /\ b \in Nat /\ h \in Nat
  BY <1>0
<1>2. l \in ImbLine /\ l.kind \notin {"header", "row"} /\ (l.kind = "benchmark" <=> i + 1 = b)
  BY <1>0, <1>1
<1>3. l.kind \in Hashed \cup {"blank", "text"}
  BY <1>2 DEF ImbLine
<1>4. l.kind \in {"blank", "text"} => i + 1 \in Foreign(f)
  BY <1>0, <1>1 DEF Foreign, Is
<1> HIDE DEF l
<1>5. PingpongLine(s, l) = ImbStart
  <2>1. ImbStart.mode = "search" /\ s = ImbStart
    BY DEF ImbStart, Before
  <2> QED BY <1>2, <2>1, PingpongModes
<1>6. CASE i + 1 < b
  <2>1. t = ImbStart /\ ImbStart.mode = "search"
    BY <1>1, <1>6 DEF Before, ImbStart
  <2>2. u = ImbStart
    BY <1>1, <1>2, <1>6, <2>1, ImbOutModes
  <2> QED BY <1>1, <1>5, <1>6, <2>2 DEF Before, l
<1>7. CASE i + 1 = b
  <2>1. t = ImbStart /\ ImbStart.mode = "search"
    BY <1>1, <1>7 DEF Before, ImbStart
  <2>2. u.mode = "processes"
    BY <1>2, <1>7, <2>1, ImbOutModes
  <2> QED BY <1>1, <1>5, <1>7, <2>2 DEF Before, l
<1>8. CASE i >= b
  <2>1. \/ t.mode \in {"processes", "comments", "exception"}
        \/ t.mode = "table" /\ \E j \in (b + 1)..i : j \in Foreign(f)
    BY <1>8 DEF Before
  <2>2. u.mode \in {"processes", "comments", "exception"} \/ (u.mode = "table" /\ i + 1 \in Foreign(f))
    <3>1. /\ t.mode = "processes" => u.mode \in {"exception", "comments"}
          /\ t.mode = "comments" /\ l.kind \in Hashed => u.mode = "comments"
          /\ t.mode = "comments" /\ l.kind \notin Hashed => u.mode = "table"
          /\ t.mode = "table" /\ l.kind \notin {"row", "blank"} => u.mode = "exception"
          /\ t.mode = "exception" => u.mode = "exception"
      <4>1. Broken.mode = "exception"
        BY DEF Broken
      <4> QED BY <1>2, <4>1, ImbOutModes
    <3> HIDE DEF u
    <3>2. CASE t.mode = "processes"
      BY <3>1, <3>2
    <3>3. CASE t.mode = "comments"
      BY <1>3, <1>4, <3>1, <3>3
    <3>4. CASE t.mode = "exception"
      BY <3>1, <3>4
    <3>5. CASE t.mode = "table" /\ \E j \in (b + 1)..i : j \in Foreign(f)
      <4>1. PICK j \in (b + 1)..i : j \in Foreign(f)
        BY <3>5
      <4>2. i + 1 \notin Foreign(f)
        <5>1. j \in b..h /\ i + 1 \in b..h /\ j # i + 1
          BY <1>1, <4>1
        <5> QED BY <4>1, <5>1
      <4>3. l.kind \notin {"blank", "row"}
        BY <1>2, <1>4, <4>2
      <4> QED BY <3>1, <3>5, <4>3
    <3> QED BY <2>1, <3>2, <3>3, <3>4, <3>5
  <2>3. i + 1 \in (b + 1)..(i + 1) /\ ~(i + 1 < b)
    BY <1>1, <1>8
  <2> QED BY <1>5, <2>2, <2>3 DEF Before, l
<1> QED BY <1>1, <1>6, <1>7, <1>8

(* The header.                                                             *)
LEMMA HeaderStep ==
    ASSUME NEW f \in ImbOutputs, NEW h \in 1..Len(f), f[h].kind = "header",
           NEW b \in 1..Len(f), b < h,
           NEW s \in Reading, NEW t \in Reading, Before(f, b, h - 1, s, t)
    PROVE  After(f, h, h, PingpongLine(s, f[h]), ImbOutLine(t, f[h]))
<1> DEFINE l == f[h]
           u == ImbOutLine(t, l)
           Empty == [mode |-> "table", rows |-> <<>>]
<1>1. l \in ImbLine /\ l.kind = "header" /\ h \in Nat /\ b \in Nat /\ h - 1 >= b
  BY ImbLines
<1> HIDE DEF l
<1>2. PingpongLine(s, l) = Empty
  <2>1. s.mode = "search" /\ s.rows = <<>>
    BY DEF Before, ImbStart
  <2> QED BY <1>1, <2>1, PingpongModes
<1>3. u.mode = "exception" \/ u = Empty
  <2>1. t.mode \in {"processes", "comments", "exception", "table"}
    BY <1>1 DEF Before
  <2>2. Broken.mode = "exception" /\ "header" \notin Hashed
    BY DEF Broken, Hashed
  <2> QED BY <1>1, <2>1, <2>2, ImbOutModes
<1>4. Between(f, h, h) = <<>> /\ (h + 1)..h = {}
  <2>1. h - h = 0 /\ 1..0 = {}
    BY <1>1
  <2>2. [j \in {} |-> f[h + j]] = <<>>
    OBVIOUS
  <2> QED BY <1>1, <2>1, <2>2 DEF Between
<1>5. Empty.mode = "table" /\ Empty.rows = <<>>
  OBVIOUS
<1> HIDE DEF Empty, u
<1> QED BY <1>2, <1>3, <1>4, <1>5 DEF After, l, u

(* A line after the header.                                                *)
LEMMA AfterStep ==
    ASSUME NEW f \in ImbOutputs, NEW h \in 1..Len(f), NEW i \in h..(Len(f) - 1),
           f[i + 1].kind \notin {"header", "benchmark"},
           NEW s \in Reading, NEW t \in Reading, After(f, h, i, s, t)
    PROVE  After(f, h, i + 1, PingpongLine(s, f[i + 1]), ImbOutLine(t, f[i + 1]))
<1> DEFINE l == f[i + 1]
           v == PingpongLine(s, l)
           u == ImbOutLine(t, l)
<1>1. /\ f \in Seq(ImbLine) /\ Len(f) \in Nat /\ DOMAIN f = 1..Len(f)
      /\ \A k \in 1..Len(f) : f[k] \in ImbLine
  BY ImbLines
<1>2. i + 1 \in 1..Len(f) /\ h \in Nat /\ i \in Nat /\ i >= h
  BY <1>1
<1>3. l \in ImbLine /\ l.kind \notin {"header", "benchmark"}
  BY <1>1, <1>2
<1>4. Append(Between(f, h, i), l) = Between(f, h, i + 1)
  <2> HIDE DEF ImbLine
  <2> QED BY <1>1, AppendLine
<1>5. l.kind \in {"row", "blank"} => i + 1 \in Is(f, {l.kind})
  BY <1>1, <1>2 DEF Is
<1> HIDE DEF l
<1>6. Broken.mode = "exception" /\ s.mode \in {"search", "table", "processes", "comments", "exception"}
  BY DEF Broken, Reading
<1>7. "exception" \in {v.mode, u.mode} \/ v = u
  <2>1. CASE s.mode = "exception"
    BY <1>3, <2>1, PingpongModes
  <2>2. CASE t.mode = "exception"
    BY <1>3, <2>2, ImbOutModes
  <2>3. CASE s = t /\ s.mode = "search"
    BY <1>3, <2>3, PingpongModes, ImbOutModes
  <2>4. CASE s = t /\ s.mode = "table"
    <3>1. CASE l.kind = "row"
      BY <1>3, <1>6, <2>4, <3>1, PingpongModes, ImbOutModes
    <3>2. CASE l.kind = "blank"
      BY <1>3, <1>6, <2>4, <3>2, PingpongModes, ImbOutModes
    <3>3. CASE l.kind \notin {"row", "blank"}
      BY <1>3, <1>6, <2>4, <3>3, PingpongModes
    <3> QED BY <3>1, <3>2, <3>3
  <2> QED BY <2>1, <2>2, <2>3, <2>4 DEF After
<1>8. \/ v.mode = "exception"
      \/ /\ v.mode = "table" /\ v.rows = Between(f, h, i + 1)
         /\ (h + 1)..(i + 1) \subseteq Is(f, {"row"})
      \/ /\ v.mode = "search"
         /\ \E e \in Is(f, {"blank"}) :
               /\ h < e /\ e <= i + 1 /\ v.rows = Between(f, h, e - 1)
               /\ (h + 1)..(e - 1) \subseteq Is(f, {"row"})
  <2>1. CASE s.mode = "exception"
    BY <1>3, <2>1, PingpongModes
  <2>2. CASE s.mode = "table" /\ s.rows = Between(f, h, i) /\ (h + 1)..i \subseteq Is(f, {"row"})
    <3>1. CASE l.kind = "row"
      <4>1. v = Broken \/ v = [mode |-> "table", rows |-> Between(f, h, i + 1)]
        BY <1>3, <1>4, <2>2, <3>1, PingpongModes
      <4>2. (h + 1)..(i + 1) \subseteq Is(f, {"row"})
        BY <1>2, <1>5, <2>2, <3>1
      <4> HIDE DEF v
      <4> QED BY <1>6, <4>1, <4>2
    <3>2. CASE l.kind = "blank"
      <4>1. v = [mode |-> "search", rows |-> Between(f, h, i)]
        BY <1>3, <2>2, <3>2, PingpongModes
      <4>2. i + 1 \in Is(f, {"blank"}) /\ h < i + 1 /\ i + 1 <= i + 1 /\ (i + 1) - 1 = i
        BY <1>2, <1>5, <3>2
      <4> HIDE DEF v
      <4> QED BY <2>2, <4>1, <4>2
    <3>3. CASE l.kind \notin {"row", "blank"}
      BY <1>3, <1>6, <2>2, <3>3, PingpongModes
    <3> QED BY <3>1, <3>2, <3>3
  <2>3. CASE s.mode = "search" /\ \E e \in Is(f, {"blank"}) :
               /\ h < e /\ e <= i /\ s.rows = Between(f, h, e - 1)
               /\ (h + 1)..(e - 1) \subseteq Is(f, {"row"})
    <3>1. v = s
      BY <1>3, <2>3, PingpongModes
    <3>2. \A e \in Is(f, {"blank"}) : e <= i => e <= i + 1
      BY <1>1, <1>2 DEF Is
    <3> HIDE DEF v
    <3> QED BY <2>3, <3>1, <3>2
  <2> QED BY <2>1, <2>2, <2>3 DEF After
<1> HIDE DEF u, v
<1> QED BY <1>7, <1>8 DEF After, l, u, v

(* Both readers, to the end of a file with a header.                       *)
LEMMA TableRead ==
    ASSUME NEW f \in ImbOutputs, NEW h \in Is(f, {"header"}),
           NEW p, IsRead(f, p), NEW q, IsPlotted(f, q)
    PROVE  After(f, h, Len(f), p[Len(f)], q[Len(f)])
<1> DEFINE n == Len(f)
<1>1. n \in Nat
  BY ImbLines
<1>2. h \in 1..n /\ f[h].kind = "header"
  BY HeaderFacts
<1>3. PICK b \in 1..n : /\ b < h /\ f[b].kind = "benchmark"
                        /\ \A i \in 1..n : f[i].kind = "benchmark" => i = b
                        /\ \A i, j \in Foreign(f) \cap b..h : i = j
  BY HeaderFacts
<1>4. \A i \in 1..n : f[i].kind = "header" => i = h
  BY HeaderFacts
<1>5. \A i \in 1..n : f[i].kind = "row" => h < i
  BY HeaderFacts
<1> DEFINE T == {i \in 0..n : /\ i < h => Before(f, b, i, p[i], q[i])
                              /\ i >= h => After(f, h, i, p[i], q[i])}
<1>6. 0 \in T
  <2>1. p[0] = ImbStart /\ q[0] = ImbStart
    BY DEF IsRead, IsPlotted
  <2>2. Before(f, b, 0, p[0], q[0])
    BY <1>1, <2>1 DEF Before
  <2> QED BY <1>1, <1>2, <2>2
<1>7. ASSUME NEW i \in 0..(n - 1), i \in T PROVE i + 1 \in T
  <2>1. i \in 0..n /\ i + 1 \in 0..n /\ i + 1 \in 1..n /\ (i + 1) - 1 = i
    BY <1>1
  <2>2. p[i + 1] = PingpongLine(p[i], f[i + 1]) /\ q[i + 1] = ImbOutLine(q[i], f[i + 1])
    BY <2>1 DEF IsRead, IsPlotted
  <2>3. p[i] \in Reading /\ q[i] \in Reading
    BY <2>1 DEF IsRead, IsPlotted
  <2>4. CASE i + 1 < h
    <3>1. Before(f, b, i, p[i], q[i])
      BY <1>1, <1>2, <1>7, <2>4
    <3>2. Before(f, b, i + 1, PingpongLine(p[i], f[i + 1]), ImbOutLine(q[i], f[i + 1]))
      <4> HIDE DEF T
      <4> QED BY <1>2, <1>3, <1>4, <1>5, <2>1, <2>3, <2>4, <3>1, BeforeStep
    <3> QED BY <1>1, <1>2, <2>1, <2>2, <2>4, <3>2
  <2>5. CASE i + 1 = h
    <3>1. Before(f, b, h - 1, p[i], q[i])
      BY <1>1, <1>2, <1>7, <2>5
    <3>2. After(f, h, h, PingpongLine(p[i], f[h]), ImbOutLine(q[i], f[h]))
      <4> HIDE DEF T
      <4> QED BY <1>2, <1>3, <2>3, <3>1, HeaderStep
    <3> QED BY <1>1, <1>2, <2>1, <2>2, <2>5, <3>2
  <2>6. CASE i + 1 > h
    <3>1. After(f, h, i, p[i], q[i]) /\ i \in h..(n - 1)
      BY <1>1, <1>2, <1>7, <2>6
    <3>2. f[i + 1].kind \notin {"header", "benchmark"}
      BY <1>1, <1>2, <1>3, <1>4, <2>1, <2>6
    <3>3. After(f, h, i + 1, PingpongLine(p[i], f[i + 1]), ImbOutLine(q[i], f[i + 1]))
      <4> HIDE DEF T
      <4> QED BY <1>2, <2>3, <3>1, <3>2, AfterStep
    <3> QED BY <1>1, <1>2, <2>1, <2>2, <2>6, <3>3
  <2> QED BY <1>1, <1>2, <2>1, <2>4, <2>5, <2>6
<1> HIDE DEF T
<1>8. \A i \in 0..n : i \in T
  BY <1>1, <1>6, <1>7, Stepwise
<1>9. n \in T /\ n >= h
  BY <1>1, <1>2, <1>8
<1> HIDE DEF n
<1>10. After(f, h, n, p[n], q[n])
  BY <1>9 DEF T
<1> QED BY <1>10 DEF n

(* What is summarised is the whole table, and what is plotted is the same. *)
LEMMA ReadersAgree ==
    ASSUME NEW f \in ImbOutputs, ReadImbPingpong(f).mode # "exception"
    PROVE  LET read == ReadImbPingpong(f).rows
               plot == ReadImbOut(f)
               hidden == \E j, k \in DOMAIN f : j < k /\ f[j].kind = "blank" /\ f[k].kind = "row"
           IN /\ read # <<>> /\ ~hidden => [i \in DOMAIN read |-> read[i].bytes] = Sizes
              /\ plot.mode # "exception" => plot.rows = read
<1> DEFINE n == Len(f)
           hidden == \E j, k \in DOMAIN f : j < k /\ f[j].kind = "blank" /\ f[k].kind = "row"
<1>1. f \in Seq(ImbLine) /\ n \in Nat /\ DOMAIN f = 1..n
  BY ImbLines
<1>2. PICK p : IsRead(f, p) /\ ReadImbPingpong(f) = EndOfFile(p[n])
  <2> HIDE DEF ImbLine
  <2> QED BY <1>1, PingpongTrace
<1>3. PICK q : IsPlotted(f, q) /\ ReadImbOut(f) = EndOfFile(q[n])
  <2> HIDE DEF ImbLine
  <2> QED BY <1>1, ImbOutTrace
<1>4. p[n].mode = "search" /\ ReadImbPingpong(f) = p[n]
  BY <1>2 DEF EndOfFile, Broken
<1>5. ReadImbOut(f) \in {Broken, q[n]}
  BY <1>3 DEF EndOfFile
<1>6. CASE Is(f, {"header"}) = {}
  <2>1. p[n].rows = <<>> /\ q[n].rows = <<>>
    BY <1>2, <1>3, <1>6, NoTable
  <2> QED BY <1>4, <1>5, <2>1 DEF Broken
<1>7. ASSUME NEW h \in Is(f, {"header"})
      PROVE  /\ p[n].rows # <<>> /\ ~hidden => [i \in DOMAIN p[n].rows |-> p[n].rows[i].bytes] = Sizes
             /\ ReadImbOut(f).mode # "exception" => ReadImbOut(f).rows = p[n].rows
  <2>1. After(f, h, n, p[n], q[n])
    BY <1>2, <1>3, TableRead
  <2>2. PICK e \in Is(f, {"blank"}) : /\ h < e /\ e <= n /\ p[n].rows = Between(f, h, e - 1)
                                      /\ (h + 1)..(e - 1) \subseteq Is(f, {"row"})
    BY <1>4, <2>1 DEF After
  <2>3. h \in 1..n /\ e \in 1..n /\ f[e].kind = "blank"
    BY <1>1 DEF Is
  <2> DEFINE m == (e - 1) - h
  <2>4. m \in Nat /\ m = e - h - 1
    BY <1>1, <2>2, <2>3
  <2>5. p[n].rows = [j \in 1..m |-> f[h + j]]
    BY <2>2 DEF Between
  <2>6. ASSUME p[n].rows # <<>>, ~hidden
        PROVE  [i \in DOMAIN p[n].rows |-> p[n].rows[i].bytes] = Sizes
    <3>1. m # 0
      <4>1. ASSUME m = 0 PROVE FALSE
        <5>1. 1..m = {}
          BY <4>1
        <5>2. [j \in {} |-> f[h + j]] = <<>>
          OBVIOUS
        <5> HIDE DEF m
        <5> QED BY <2>5, <2>6, <5>1, <5>2
      <4> QED BY <4>1
    <3>2. e > h + 1
      BY <1>1, <2>3, <2>4, <3>1
    <3>3. \A r \in Is(f, {"row"}) : r < e
      <4> TAKE r \in Is(f, {"row"})
      <4>1. r \in 1..n /\ f[r].kind = "row"
        BY <1>1 DEF Is
      <4>2. ~(e < r)
        BY <1>1, <2>3, <2>6, <4>1
      <4>3. r # e
        BY <2>3, <4>1
      <4> QED BY <1>1, <2>3, <4>1, <4>2, <4>3
    <3>4. [i \in 1..(e - h - 1) |-> f[h + i].bytes] = Sizes
      BY <2>2, <3>2, <3>3, ImbAssumption
    <3>5. [i \in DOMAIN p[n].rows |-> p[n].rows[i].bytes] = [i \in 1..m |-> f[h + i].bytes]
      <4> HIDE DEF m
      <4> QED BY <2>5
    <3> QED BY <2>4, <3>4, <3>5
  <2>7. ASSUME ReadImbOut(f).mode # "exception" PROVE ReadImbOut(f).rows = p[n].rows
    <3>1. ReadImbOut(f) = q[n]
      BY <1>5, <2>7 DEF Broken
    <3> QED BY <1>4, <2>1, <2>7, <3>1 DEF After
  <2> QED BY <2>6, <2>7
<1> HIDE DEF n, hidden
<1>8. \/ Is(f, {"header"}) = {}
      \/ \E h \in Is(f, {"header"}) : TRUE
  OBVIOUS
<1> QED BY <1>4, <1>6, <1>7, <1>8 DEF hidden
-----------------------------------------------------------------------------
(* The invariant                                                           *)

AllNodes == UNION {ToSet(s) : s \in Selections}

Task == [job : Nat, index : Nat, node : AllNodes \cup {None},
         file : (Nat \X Nat) \cup {None}, allowed : SUBSET AllNodes]

Result == [job : Nat, node : AllNodes, passed : BOOLEAN]

Output == [file : Nat \X Nat, lines : Seq(Result)]

Shape ==
    /\ hpc \in {"idle", "sized", "remove", "submit", "wait", "check", "done", "failed"}
    /\ nodes = <<>> \/ nodes \in Selections
    /\ jobs \in 0..MaxJobs
    /\ hpc \notin {"idle", "done", "failed"} => tag = "hpl-solo"
    /\ hpc \in {"sized", "remove", "submit"} => jobs < MaxJobs
    /\ crashed \subseteq 1..jobs
    /\ tasks \subseteq Task
    /\ \A t \in tasks : /\ t.job \in 1..jobs
                        /\ t.index \in 0..(Cardinality(t.allowed) - 1)
                        /\ t.node # None => t.node \in t.allowed
    /\ outputs \in [DOMAIN outputs -> Output]
    /\ \A i \in DOMAIN outputs : \A k \in DOMAIN outputs[i].lines : outputs[i].lines[k].job \in 1..jobs

(* Nothing is left of earlier jobs: each task of this one has an output of *)
(* its own, with no more than its own result.                              *)
OwnRun ==
    tag = "hpl-solo" /\ ~busy /\ hpc \in {"submit", "wait", "check"} =>
        /\ hpc = "submit" => tasks = {} /\ DOMAIN outputs = {}
        /\ \A t \in tasks : t.job = jobs /\ t.index \in Array
        /\ \A t, u \in tasks : t.index = u.index => t = u
        /\ \A i \in DOMAIN outputs :
              /\ i \in Array
              /\ \A k \in DOMAIN outputs[i].lines : k = 1 /\ outputs[i].lines[k].job = jobs
              /\ \A t \in tasks : t.index = i => outputs[i].lines = <<>>

IInv == Shape /\ OwnRun /\ ReportFresh /\ GridFits /\ MatrixFaithful /\ PingpongWhole

LEMMA InitIInv == Init => IInv
BY MaxJobsAssumption DEF Init, IInv, Shape, OwnRun, ReportFresh, HplDone, GridFits, MatrixFaithful, PingpongWhole, None

-----------------------------------------------------------------------------
(* Slurm                                                                   *)

LEMMA NodesAreSeq ==
    ASSUME Shape
    PROVE  Len(nodes) \in Nat /\ DOMAIN nodes = 1..Len(nodes) /\ ToSet(nodes) \subseteq AllNodes
           /\ Cardinality(ToSet(nodes)) = Len(nodes)
<1>1. CASE nodes = <<>>
  <2>1. ToSet(nodes) = {} /\ Len(nodes) = 0 /\ DOMAIN nodes = 1..Len(nodes)
    BY <1>1 DEF ToSet
  <2> QED BY <2>1, FS_EmptySet
<1>2. CASE nodes \in Selections
  <2> DEFINE T == ToSet(nodes)
             n == Len(nodes)
  <2>1. nodes \in Seq(T) /\ IsInjective(nodes)
    BY <1>2, SelectionsAssumption
  <2>2. n \in Nat /\ DOMAIN nodes = 1..n /\ nodes \in [1..n -> T]
    <3> HIDE DEF T
    <3> QED BY <2>1
  <2>3. nodes \in Bijection(1..n, T)
    <3>1. \A x \in T : \E i \in 1..n : nodes[i] = x
      BY <2>2 DEF ToSet
    <3> HIDE DEF T, n
    <3> QED BY <2>1, <2>2, <3>1 DEF Bijection, Injection, Surjection, IsInjective
  <2>4. IsFiniteSet(1..n) /\ Cardinality(1..n) = n
    <3>1. 1 \in Int /\ n \in Int /\ (1 > n <=> n = 0) /\ n - 1 + 1 = n
      BY <2>2
    <3> HIDE DEF n
    <3> QED BY <3>1, FS_Interval
  <2>5. Cardinality(T) = n
    <3> HIDE DEF T, n
    <3> QED BY <2>3, <2>4, FS_Bijection DEF ExistsBijection
  <2>6. T \subseteq AllNodes
    BY <1>2 DEF AllNodes
  <2> QED BY <2>2, <2>5, <2>6
<1> QED BY <1>1, <1>2 DEF Shape

(* The output of a task that starts is empty.                              *)
LEMMA StartStep == ASSUME IInv, TaskStarts PROVE IInv'
<1>0. PICK t \in tasks : \E n \in t.allowed :
        LET file == IF t.index \in DOMAIN outputs THEN outputs[t.index].file ELSE <<t.job, t.index>>
        IN /\ t.node = None
           /\ tasks' = (tasks \ {t}) \cup {[t EXCEPT !.node = n, !.file = file]}
           /\ outputs' = [i \in DOMAIN outputs \cup {t.index} |->
                            IF i = t.index THEN [file |-> file, lines |-> <<>>] ELSE outputs[i]]
  BY DEF TaskStarts
<1>1. PICK n \in t.allowed, file \in (Nat \X Nat) :
        /\ t.node = None
        /\ tasks' = (tasks \ {t}) \cup {[t EXCEPT !.node = n, !.file = file]}
        /\ outputs' = [i \in DOMAIN outputs \cup {t.index} |->
                         IF i = t.index THEN [file |-> file, lines |-> <<>>] ELSE outputs[i]]
  <2> DEFINE file == IF t.index \in DOMAIN outputs THEN outputs[t.index].file ELSE <<t.job, t.index>>
  <2>2. file \in Nat \X Nat
    BY DEF IInv, Shape, Task, Output
  <2> QED BY <1>0, <2>2
<1> DEFINE u == [t EXCEPT !.node = n, !.file = file]
<1>2. UNCHANGED <<tag, hpc, nodes, grid, jobs, crashed, busy, input, result>>
  BY DEF TaskStarts
<1>3. t \in Task /\ t.allowed \subseteq AllNodes
  BY DEF IInv, Shape, Task
<1>4. u \in Task /\ u.job = t.job /\ u.index = t.index /\ u.allowed = t.allowed /\ u.node = n
  BY <1>1, <1>3 DEF Task
<1> HIDE DEF u
<1>5. tasks' = (tasks \ {t}) \cup {u}
  BY <1>1 DEF u
<1>6. /\ DOMAIN outputs' = DOMAIN outputs \cup {t.index}
      /\ outputs'[t.index] = [file |-> file, lines |-> <<>>]
      /\ \A i \in DOMAIN outputs : i # t.index => outputs'[i] = outputs[i]
  BY <1>1
<1>7. Shape'
  <2>1. tasks' \subseteq Task
    BY <1>4, <1>5 DEF IInv, Shape
  <2>2. \A x \in tasks' : /\ x.job \in 1..jobs'
                          /\ x.index \in 0..(Cardinality(x.allowed) - 1)
                          /\ x.node # None => x.node \in x.allowed
    BY <1>2, <1>4, <1>5 DEF IInv, Shape
  <2>3. [file |-> file, lines |-> <<>>] \in Output
    BY DEF Output
  <2>4. outputs' \in [DOMAIN outputs' -> Output]
    <3>1. \A i \in DOMAIN outputs' : outputs'[i] \in Output
      BY <1>6, <2>3 DEF IInv, Shape
    <3> QED BY <1>1, <1>6, <3>1
  <2>5. \A i \in DOMAIN outputs' : \A k \in DOMAIN outputs'[i].lines : outputs'[i].lines[k].job \in 1..jobs'
    BY <1>2, <1>6 DEF IInv, Shape
  <2> QED BY <1>2, <2>1, <2>2, <2>4, <2>5 DEF IInv, Shape
<1>8. OwnRun'
  <2> SUFFICES ASSUME tag = "hpl-solo", ~busy, hpc \in {"submit", "wait", "check"}
               PROVE  /\ hpc # "submit"
                      /\ \A x \in tasks' : x.job = jobs /\ x.index \in Array
                      /\ \A x, y \in tasks' : x.index = y.index => x = y
                      /\ \A i \in DOMAIN outputs' :
                            /\ i \in Array
                            /\ \A k \in DOMAIN outputs'[i].lines : k = 1 /\ outputs'[i].lines[k].job = jobs
                            /\ \A x \in tasks' : x.index = i => outputs'[i].lines = <<>>
    BY <1>2 DEF OwnRun, Array
  <2>1. /\ hpc # "submit" /\ t.job = jobs /\ t.index \in Array
        /\ \A x \in tasks : x.job = jobs /\ x.index \in Array
        /\ \A x, y \in tasks : x.index = y.index => x = y
        /\ \A i \in DOMAIN outputs :
              /\ i \in Array
              /\ \A k \in DOMAIN outputs[i].lines : k = 1 /\ outputs[i].lines[k].job = jobs
              /\ \A x \in tasks : x.index = i => outputs[i].lines = <<>>
    BY DEF IInv, OwnRun
  <2>2. \A x, y \in tasks' : x.index = y.index => x = y
    BY <1>4, <1>5, <2>1
  <2>3. ASSUME NEW i \in DOMAIN outputs'
        PROVE  /\ i \in Array
               /\ \A k \in DOMAIN outputs'[i].lines : k = 1 /\ outputs'[i].lines[k].job = jobs
               /\ \A x \in tasks' : x.index = i => outputs'[i].lines = <<>>
    <3>1. CASE i = t.index
      BY <1>6, <2>1, <3>1
    <3>2. CASE i # t.index
      BY <1>4, <1>5, <1>6, <2>1, <3>2
    <3> QED BY <3>1, <3>2
  <2> QED BY <1>4, <1>5, <2>1, <2>2, <2>3
<1>9. ReportFresh' /\ GridFits' /\ MatrixFaithful' /\ PingpongWhole'
  BY <1>2 DEF IInv, ReportFresh, HplDone, GridFits, MatrixFaithful, PingpongWhole
<1> QED BY <1>7, <1>8, <1>9 DEF IInv

(* The output of a task that ends gets its result.                         *)
LEMMA EndsStep == ASSUME IInv, NEW ends \in {"pass", "fail", "crash"}, TaskEnds(ends) PROVE IInv'
<1>1. PICK t \in tasks :
        /\ t.node # None
        /\ tasks' = tasks \ {t}
        /\ crashed' = IF ends = "crash" THEN crashed \cup {t.job} ELSE crashed
        /\ outputs' =
            IF ends # "crash" /\ t.index \in DOMAIN outputs /\ outputs[t.index].file = t.file
            THEN [outputs EXCEPT ![t.index].lines =
                    Append(@, [job |-> t.job, node |-> t.node, passed |-> ends = "pass"])]
            ELSE outputs
        /\ UNCHANGED <<tag, hpc, nodes, grid, jobs, busy, input, result>>
  BY DEF TaskEnds
<1> DEFINE r == [job |-> t.job, node |-> t.node, passed |-> ends = "pass"]
<1>2. t \in Task /\ t.job \in 1..jobs /\ r \in Result /\ r.job = t.job
  BY <1>1 DEF IInv, Shape, Task, Result
<1> HIDE DEF r
<1>3. \/ outputs' = outputs
      \/ /\ t.index \in DOMAIN outputs
         /\ outputs' = [outputs EXCEPT ![t.index].lines = Append(@, r)]
  BY <1>1 DEF r
<1>4. DOMAIN outputs' = DOMAIN outputs
  BY <1>3
<1>5. ASSUME NEW i \in DOMAIN outputs
      PROVE  /\ outputs'[i] \in Output
             /\ \/ outputs'[i].lines = outputs[i].lines
                \/ /\ i = t.index
                   /\ \A k \in DOMAIN outputs'[i].lines :
                        \/ k \in DOMAIN outputs[i].lines /\ outputs'[i].lines[k] = outputs[i].lines[k]
                        \/ k = Len(outputs[i].lines) + 1 /\ outputs'[i].lines[k] = r
  <2>1. outputs[i] \in Output /\ outputs[i].lines \in Seq(Result) /\ outputs[i].file \in Nat \X Nat
    BY DEF IInv, Shape, Output
  <2>2. CASE outputs'[i] = outputs[i]
    BY <2>1, <2>2
  <2>3. CASE i = t.index /\ outputs' = [outputs EXCEPT ![t.index].lines = Append(@, r)]
    <3> DEFINE l == Append(outputs[i].lines, r)
    <3>1. outputs'[i] = [outputs[i] EXCEPT !.lines = l]
      BY <2>3 DEF IInv, Shape
    <3>2. /\ l \in Seq(Result)
          /\ \A k \in DOMAIN l : \/ k \in DOMAIN outputs[i].lines /\ l[k] = outputs[i].lines[k]
                                 \/ k = Len(outputs[i].lines) + 1 /\ l[k] = r
      <4> DEFINE s == outputs[i].lines
      <4>1. s \in Seq(Result) /\ r \in Result
        BY <1>2, <2>1
      <4> HIDE DEF s
      <4>2. /\ Append(s, r) \in Seq(Result) /\ Len(Append(s, r)) = Len(s) + 1
            /\ \A k \in 1..Len(s) : Append(s, r)[k] = s[k]
            /\ Append(s, r)[Len(s) + 1] = r
        BY <4>1, AppendProperties
      <4>3. DOMAIN s = 1..Len(s) /\ Len(s) \in Nat /\ DOMAIN Append(s, r) = 1..(Len(s) + 1)
        BY <4>1, <4>2
      <4>4. \A k \in DOMAIN Append(s, r) : \/ k \in DOMAIN s /\ Append(s, r)[k] = s[k]
                                           \/ k = Len(s) + 1 /\ Append(s, r)[k] = r
        BY <4>2, <4>3
      <4> QED BY <4>2, <4>4 DEF s
    <3> HIDE DEF l
    <3>3. outputs'[i].lines = l /\ outputs'[i] \in Output
      BY <2>1, <3>1, <3>2 DEF Output
    <3> QED BY <2>3, <3>2, <3>3
  <2> QED BY <1>3, <2>2, <2>3 DEF IInv, Shape
<1>6. Shape'
  <2>1. crashed' \subseteq 1..jobs'
    BY <1>1, <1>2 DEF IInv, Shape
  <2>2. outputs' \in [DOMAIN outputs' -> Output]
    BY <1>3, <1>4, <1>5 DEF IInv, Shape
  <2>3. \A i \in DOMAIN outputs' : \A k \in DOMAIN outputs'[i].lines : outputs'[i].lines[k].job \in 1..jobs'
    <3> SUFFICES ASSUME NEW i \in DOMAIN outputs, NEW k \in DOMAIN outputs'[i].lines
                 PROVE  outputs'[i].lines[k].job \in 1..jobs
      BY <1>1, <1>4
    <3>1. \A x \in DOMAIN outputs[i].lines : outputs[i].lines[x].job \in 1..jobs
      BY DEF IInv, Shape
    <3> QED BY <1>2, <1>5, <3>1
  <2> QED BY <1>1, <2>1, <2>2, <2>3 DEF IInv, Shape
<1>7. OwnRun'
  <2> SUFFICES ASSUME tag = "hpl-solo", ~busy, hpc \in {"submit", "wait", "check"}
               PROVE  /\ hpc # "submit"
                      /\ \A x \in tasks' : x.job = jobs /\ x.index \in Array
                      /\ \A x, y \in tasks' : x.index = y.index => x = y
                      /\ \A i \in DOMAIN outputs' :
                            /\ i \in Array
                            /\ \A k \in DOMAIN outputs'[i].lines : k = 1 /\ outputs'[i].lines[k].job = jobs
                            /\ \A x \in tasks' : x.index = i => outputs'[i].lines = <<>>
    BY <1>1 DEF OwnRun, Array
  <2>1. /\ hpc # "submit" /\ t.job = jobs
        /\ \A x \in tasks : x.job = jobs /\ x.index \in Array
        /\ \A x, y \in tasks : x.index = y.index => x = y
        /\ \A i \in DOMAIN outputs :
              /\ i \in Array
              /\ \A k \in DOMAIN outputs[i].lines : k = 1 /\ outputs[i].lines[k].job = jobs
              /\ \A x \in tasks : x.index = i => outputs[i].lines = <<>>
    BY DEF IInv, OwnRun
  <2>2. ASSUME NEW i \in DOMAIN outputs
        PROVE  /\ \A k \in DOMAIN outputs'[i].lines : k = 1 /\ outputs'[i].lines[k].job = jobs
               /\ \A x \in tasks' : x.index = i => outputs'[i].lines = <<>>
    <3>1. CASE outputs'[i].lines = outputs[i].lines
      BY <1>1, <2>1, <3>1
    <3>2. CASE i = t.index /\ outputs'[i].lines # outputs[i].lines
      <4>1. outputs[i].lines = <<>> /\ Len(outputs[i].lines) = 0 /\ DOMAIN outputs[i].lines = {}
        BY <2>1, <3>2
      <4>2. \A k \in DOMAIN outputs'[i].lines : k = 1 /\ outputs'[i].lines[k].job = jobs
        BY <1>2, <1>5, <2>1, <3>2, <4>1
      <4>3. \A x \in tasks' : x.index # i
        BY <1>1, <2>1, <3>2
      <4> QED BY <4>2, <4>3
    <3> QED BY <1>5, <3>1, <3>2
  <2> QED BY <1>1, <1>4, <2>1, <2>2
<1>8. ReportFresh' /\ GridFits' /\ MatrixFaithful' /\ PingpongWhole'
  BY <1>1 DEF IInv, ReportFresh, HplDone, GridFits, MatrixFaithful, PingpongWhole
<1> QED BY <1>6, <1>7, <1>8 DEF IInv

-----------------------------------------------------------------------------
(* hpl-solo                                                                *)

LEMMA HplStartStep == ASSUME IInv, HplStart PROVE IInv'
<1>1. Shape'
  BY DEF IInv, Shape, HplStart
<1>2. OwnRun' /\ ReportFresh' /\ GridFits' /\ MatrixFaithful' /\ PingpongWhole'
  BY DEF IInv, HplStart, OwnRun, ReportFresh, HplDone, GridFits, MatrixFaithful, PingpongWhole
<1> QED BY <1>1, <1>2 DEF IInv

(* The least of the processors of the selected nodes.                      *)
LEMMA Fewest ==
    ASSUME NEW S, S # {}, S \subseteq Nat
    PROVE  Min(S) \in S /\ \A y \in S : Min(S) <= y
<1>1. PICK x \in S : \A y \in S : <<y, x>> \notin OpToRel(<, Nat)
  BY NatLessThanWellFounded, WFMin
<1>2. \A y \in S : x <= y
  <2>1. SUFFICES ASSUME NEW y \in S PROVE x <= y
    OBVIOUS
  <2>2. x \in Nat /\ y \in Nat
    OBVIOUS
  <2>3. ~(y < x)
    BY <1>1, <2>2 DEF OpToRel
  <2> QED BY <2>2, <2>3
<1> QED BY <1>2 DEF Min

(* The selected nodes have one number of threads, which is not 0, and the  *)
(* quotient of the fewest processors by it fits on every node.             *)
LEMMA HplSizeStep == ASSUME IInv, HplSize PROVE IInv'
<1>1. Shape'
  BY DEF IInv, Shape, HplSize
<1>2. OwnRun' /\ ReportFresh' /\ MatrixFaithful' /\ PingpongWhole'
  BY DEF IInv, HplSize, OwnRun, ReportFresh, HplDone, MatrixFaithful, PingpongWhole
<1>3. UNCHANGED nodes
  BY DEF HplSize
<1>4. GridFits'
  <2>1. CASE UNCHANGED grid
    BY <1>3, <2>1 DEF IInv, GridFits
  <2>2. ASSUME Homogeneous, Factors(Processes) # {}, grid' = Grid(Processes) PROVE GridFits'
    <3> DEFINE chosen == {i \in DOMAIN Rows : Rows[i].NODELIST \in ToSet(nodes)}
               info(p) == {Rows[i][p] : i \in chosen}
               cpus == {EffectiveCpus[m] : m \in ToSet(nodes)}
    <3>1. \A p \in Columns : NodeInfo(Rows, ToSet(nodes))[p] = info(p)
      BY DEF NodeInfo
    <3>2. \A p \in Columns : \E v : info(p) = {v}
      BY <2>2, <3>1 DEF Homogeneous
    <3>3. \A i, j \in chosen, p \in Columns : Rows[i][p] = Rows[j][p]
      BY <3>2
    <3>4. PICK t : info("THREADS") = {t}
      BY <3>2 DEF Columns
    <3>5. \A i \in chosen : Rows[i].THREADS = t
      BY <3>4
    <3>6. PICK r \in chosen : Rows[r].THREADS = t
      BY <3>4
    <3>7. t \in Nat \ {0}
      BY <3>6, RowsAssumption
    <3>8. cpus # {} /\ cpus \subseteq Nat
      <4>1. nodes \in Selections
        BY <3>6 DEF IInv, Shape, ToSet
      <4> QED BY <3>6, <4>1, EffectiveAssumption
    <3>9. Min(cpus) \in cpus /\ \A y \in cpus : Min(cpus) <= y
      <4> HIDE DEF cpus
      <4> QED BY <3>8, Fewest
    <3>10. Processes = Min(cpus) \div t
      BY <3>1, <3>4 DEF Processes, Columns
    <3> DEFINE c == Min(cpus)
               n == Processes
    <3>11. c \in Nat /\ \A m \in ToSet(nodes) : c <= EffectiveCpus[m] /\ EffectiveCpus[m] \in Nat
      BY <3>8, <3>9
    <3>12. PICK m0 \in ToSet(nodes) : EffectiveCpus[m0] = c
      BY <3>9
    <3> HIDE DEF c, cpus, info, chosen
    <3>13. n \in Nat /\ n * t <= c /\ c < (n + 1) * t
      <4>1. n = c \div t
        BY <3>10 DEF c
      <4> HIDE DEF n
      <4> QED BY <3>7, <3>11, <4>1
    <3>14. n \in Nat \ {0}
      <4>1. n # 0
        BY <2>2 DEF Factors
      <4> QED BY <3>13, <4>1
    <3> HIDE DEF n
    <3>15. /\ grid'[1] * grid'[2] = n
           /\ \A p, q \in 1..n : p <= q /\ p * q = n => q - p >= grid'[2] - grid'[1]
      <4>1. grid' = Grid(n)
        BY <2>2 DEF n
      <4> QED BY <3>14, <4>1, GridIsSquarest
    <3>16. \A i \in chosen, m \in ToSet(nodes) : n * Rows[i].THREADS <= EffectiveCpus[m]
      <4>1. \A m \in ToSet(nodes) : n * t <= EffectiveCpus[m]
        <5>1. n * t \in Nat
          BY <3>7, <3>14
        <5> QED BY <3>11, <3>13, <5>1
      <4> QED BY <3>5, <4>1
    <3>17. \A i \in chosen : \E m \in ToSet(nodes) : EffectiveCpus[m] < (n + 1) * Rows[i].THREADS
      BY <3>5, <3>12, <3>13
    <3>18. n >= 1
      BY <3>14
    <3> QED BY <1>3, <3>3, <3>15, <3>16, <3>17, <3>18 DEF GridFits, chosen
  <2> QED BY <2>1, <2>2 DEF HplSize
<1> QED BY <1>1, <1>2, <1>4 DEF IInv

LEMMA HplRemoveStep == ASSUME IInv, HplRemove PROVE IInv'
<1>1. DOMAIN outputs' = {} /\ outputs' = <<>>
  BY DEF HplRemove, Remaining
<1>2. Shape'
  BY <1>1 DEF IInv, Shape, HplRemove
<1>3. OwnRun'
  BY <1>1 DEF HplRemove, OwnRun
<1>4. ReportFresh' /\ GridFits' /\ MatrixFaithful' /\ PingpongWhole'
  BY DEF IInv, HplRemove, ReportFresh, HplDone, GridFits, MatrixFaithful, PingpongWhole
<1> QED BY <1>2, <1>3, <1>4 DEF IInv

(* The array has a task for each of the nodes.                             *)
LEMMA HplSubmitStep == ASSUME IInv, HplSubmit PROVE IInv'
<1> DEFINE New(i) == [job |-> jobs + 1, index |-> i, node |-> None, file |-> None, allowed |-> ToSet(nodes)]
<1>1. /\ tasks' = tasks \cup {New(i) : i \in Array}
      /\ jobs' = jobs + 1 /\ hpc = "submit" /\ hpc' = "wait"
      /\ UNCHANGED <<tag, nodes, grid, crashed, outputs, busy, input, result>>
  BY DEF HplSubmit
<1>2. /\ jobs \in 0..MaxJobs /\ jobs < MaxJobs /\ MaxJobs \in Nat
      /\ Len(nodes) \in Nat /\ ToSet(nodes) \subseteq AllNodes /\ Cardinality(ToSet(nodes)) = Len(nodes)
  BY <1>1, NodesAreSeq, MaxJobsAssumption DEF IInv, Shape
<1>3. jobs' \in 1..MaxJobs
  BY <1>1, <1>2
<1>4. ASSUME NEW i \in Array
      PROVE  /\ New(i) \in Task /\ New(i).job = jobs' /\ New(i).index = i
             /\ i \in 0..(Cardinality(New(i).allowed) - 1) /\ New(i).node = None
  BY <1>1, <1>2 DEF Array, Task
<1> HIDE DEF New
<1>5. Shape'
  <2>1. tasks' \subseteq Task
    BY <1>1, <1>4 DEF IInv, Shape
  <2>2. \A t \in tasks' : /\ t.job \in 1..jobs'
                          /\ t.index \in 0..(Cardinality(t.allowed) - 1)
                          /\ t.node # None => t.node \in t.allowed
    <3>1. ASSUME NEW t \in tasks
          PROVE  /\ t.job \in 1..jobs'
                 /\ t.index \in 0..(Cardinality(t.allowed) - 1)
                 /\ t.node # None => t.node \in t.allowed
      <4>1. t.job \in 1..jobs
        BY DEF IInv, Shape
      <4>2. t.job \in 1..jobs'
        BY <1>1, <1>2, <4>1
      <4> QED BY <4>2 DEF IInv, Shape
    <3>2. ASSUME NEW i \in Array
          PROVE  /\ New(i).job \in 1..jobs'
                 /\ New(i).index \in 0..(Cardinality(New(i).allowed) - 1)
                 /\ New(i).node = None
      BY <1>3, <1>4
    <3> QED BY <1>1, <3>1, <3>2
  <2>3. crashed' \subseteq 1..jobs'
    BY <1>1, <1>2 DEF IInv, Shape
  <2>4. \A i \in DOMAIN outputs' : \A k \in DOMAIN outputs'[i].lines : outputs'[i].lines[k].job \in 1..jobs'
    <3>1. \A i \in DOMAIN outputs : \A k \in DOMAIN outputs[i].lines : outputs[i].lines[k].job \in 1..jobs
      BY DEF IInv, Shape
    <3>2. 1..jobs \subseteq 1..jobs'
      BY <1>1, <1>2
    <3> QED BY <1>1, <3>1, <3>2
  <2> QED BY <1>1, <1>2, <1>3, <2>1, <2>2, <2>3, <2>4 DEF IInv, Shape
<1>6. OwnRun'
  <2> SUFFICES ASSUME tag = "hpl-solo", ~busy
               PROVE  /\ \A x \in tasks' : x.job = jobs' /\ x.index \in Array
                      /\ \A x, y \in tasks' : x.index = y.index => x = y
                      /\ DOMAIN outputs' = {}
    BY <1>1 DEF OwnRun, Array
  <2>1. tasks = {} /\ DOMAIN outputs = {}
    BY <1>1 DEF IInv, OwnRun
  <2> QED BY <1>1, <1>4, <2>1
<1>7. ReportFresh' /\ GridFits' /\ MatrixFaithful' /\ PingpongWhole'
  BY <1>1 DEF IInv, ReportFresh, HplDone, GridFits, MatrixFaithful, PingpongWhole
<1> QED BY <1>5, <1>6, <1>7 DEF IInv

LEMMA HplWaitStep == ASSUME IInv, HplWaited \/ HplTimeout PROVE IInv'
<1>1. /\ hpc = "wait" /\ hpc' \in {"failed", "check"}
      /\ UNCHANGED <<tag, nodes, grid, jobs, tasks, crashed, outputs, busy, input, result>>
  BY DEF HplWaited, HplTimeout, hvars
<1>2. Shape'
  BY <1>1 DEF IInv, Shape
<1>3. OwnRun'
  BY <1>1 DEF IInv, OwnRun, Array
<1>4. ReportFresh' /\ GridFits' /\ MatrixFaithful' /\ PingpongWhole'
  BY <1>1 DEF IInv, ReportFresh, HplDone, GridFits, MatrixFaithful, PingpongWhole
<1> QED BY <1>2, <1>3, <1>4 DEF IInv

(* There is at most one line for each node, so as many that have passed as *)
(* there are nodes are all there are.                                      *)
LEMMA CheckedIsWhole ==
    ASSUME IInv, tag = "hpl-solo", hpc = "check", ~busy, Checked
    PROVE  DOMAIN Lines = DOMAIN nodes /\ \A j \in DOMAIN Lines : Lines[j].job = jobs /\ Lines[j].passed
<1> DEFINE N == Len(nodes)
           c == Cardinality(Places)
           at == SetToSeq(Places)
           Passed == {j \in DOMAIN Lines : Lines[j].passed}
<1>1. N \in Nat /\ DOMAIN nodes = 1..N
  BY NodesAreSeq DEF IInv
<1>2. \A i \in DOMAIN outputs : i \in Array /\ \A k \in DOMAIN outputs[i].lines : k = 1 /\ outputs[i].lines[k].job = jobs
  BY DEF IInv, OwnRun
<1>3. \A p \in Places : p[1] \in DOMAIN outputs /\ p[2] \in DOMAIN outputs[p[1]].lines /\ p = <<p[1], p[2]>>
  BY DEF Places
<1>4. Places \subseteq Array \X {1}
  BY <1>2, <1>3
<1>5. IsFiniteSet(Array) /\ Cardinality(Array) = N
  <2>1. 0 \in Int /\ N - 1 \in Int /\ (0 > N - 1 <=> N = 0) /\ (N - 1) - 0 + 1 = N
    BY <1>1
  <2> HIDE DEF N
  <2>2. IsFiniteSet(0..(N - 1)) /\ Cardinality(0..(N - 1)) = N
    BY <2>1, FS_Interval
  <2> QED BY <2>2 DEF N, Array
<1>6. IsFiniteSet(Array \X {1}) /\ Cardinality(Array \X {1}) = N
  <2>1. IsFiniteSet({1}) /\ Cardinality({1}) = 1
    BY FS_Singleton
  <2>2. Cardinality(Array \X {1}) = Cardinality(Array) * Cardinality({1}) /\ IsFiniteSet(Array \X {1})
    BY <1>5, <2>1, FS_Product
  <2> HIDE DEF N
  <2> QED BY <1>1, <1>5, <2>1, <2>2
<1>7. IsFiniteSet(Places) /\ c \in Nat /\ c <= N
  BY <1>4, <1>6, FS_Subset, FS_CardinalityType
<1>8. at \in [1..c -> Places]
  BY <1>7, SetAsSeq
<1>9. DOMAIN Lines = 1..c /\ \A j \in 1..c : Lines[j] = outputs[at[j][1]].lines[at[j][2]]
  BY DEF Lines
<1> HIDE DEF at
<1>10. ASSUME NEW j \in DOMAIN Lines PROVE Lines[j].job = jobs
  <2>1. at[j] \in Places
    BY <1>8, <1>9
  <2>2. at[j][1] \in DOMAIN outputs /\ at[j][2] \in DOMAIN outputs[at[j][1]].lines
    BY <1>3, <2>1
  <2> QED BY <1>2, <1>9, <2>2
<1>11. Cardinality(Passed) = N
  BY DEF Checked
<1> HIDE DEF N, c
<1>12. Passed \subseteq 1..c
  BY <1>9
<1>13. IsFiniteSet(1..c) /\ Cardinality(1..c) = c
  <2>1. 1 \in Int /\ c \in Int /\ (1 > c <=> c = 0) /\ c - 1 + 1 = c
    BY <1>7
  <2> QED BY <2>1, FS_Interval
<1>14. c = N /\ Passed = 1..c
  <2> HIDE DEF Passed
  <2>1. Cardinality(Passed) <= c
    BY <1>12, <1>13, FS_Subset
  <2>2. c = N
    BY <1>1, <1>7, <1>11, <2>1
  <2> QED BY <1>11, <1>12, <1>13, <2>2, FS_Subset
<1>15. \A j \in DOMAIN Lines : Lines[j].passed
  BY <1>9, <1>14, Zenon
<1> QED BY <1>1, <1>9, <1>10, <1>14, <1>15

LEMMA HplReportStep == ASSUME IInv, HplReport PROVE IInv'
<1>1. /\ hpc = "check" /\ tag = "hpl-solo"
      /\ hpc' = IF Checked THEN "done" ELSE "failed"
      /\ UNCHANGED <<tag, nodes, grid, jobs, tasks, crashed, outputs, busy, input>>
  BY DEF HplReport, hvars, IInv, Shape
<1>2. Shape'
  BY <1>1 DEF IInv, Shape
<1>3. OwnRun' /\ GridFits' /\ MatrixFaithful' /\ PingpongWhole'
  BY <1>1 DEF IInv, OwnRun, GridFits, MatrixFaithful, PingpongWhole
<1>4. ReportFresh'
  <2> SUFFICES ASSUME Checked, ~busy
               PROVE  /\ DOMAIN result' = DOMAIN nodes
                      /\ \A i \in DOMAIN result' : result'[i].job = jobs /\ result'[i].passed
    BY <1>1 DEF ReportFresh, HplDone
  <2>1. DOMAIN Lines = DOMAIN nodes /\ \A j \in DOMAIN Lines : Lines[j].job = jobs /\ Lines[j].passed
    BY <1>1, CheckedIsWhole
  <2>2. Len(nodes) \in Nat /\ DOMAIN nodes = 1..Len(nodes)
    BY NodesAreSeq DEF IInv
  <2>3. {j \in DOMAIN Lines : j <= Len(nodes)} = DOMAIN nodes
    BY <2>1, <2>2
  <2>4. result' = [i \in DOMAIN nodes |-> Lines[i]]
    BY <2>3 DEF HplReport
  <2> QED BY <2>1, <2>4, Zenon
<1> QED BY <1>2, <1>3, <1>4 DEF IInv

-----------------------------------------------------------------------------
(* pingmatrix and pingpong                                                 *)

LEMMA PingMatrixStep == ASSUME IInv, PingMatrix PROVE IInv'
<1>1. /\ tag = "pingmatrix" /\ hpc' \in {"done", "failed"}
      /\ UNCHANGED <<tag, nodes, grid, jobs, tasks, crashed, outputs, busy>>
  BY DEF PingMatrix, hvars
<1>2. Shape'
  BY <1>1 DEF IInv, Shape
<1>3. OwnRun' /\ ReportFresh' /\ GridFits' /\ PingpongWhole'
  BY <1>1 DEF IInv, OwnRun, ReportFresh, HplDone, GridFits, PingpongWhole
<1>4. MatrixFaithful'
  <2> DEFINE m == input'
  <2>1. m \in Matrices /\ result' = Plot(m.lines, m.nodes)
    BY DEF PingMatrix
  <2>2. m.nodes \in Seq(ToSet(m.nodes)) /\ m.lines \in Seq(Line)
    BY <2>1, MatricesAssumption, Zenon DEF Line
  <2>3. Plot(m.lines, m.nodes).error = "" => Faithful(Plot(m.lines, m.nodes).rows, m.nodes, m.lines)
    <3> HIDE DEF m
    <3> QED BY <2>2, PlotIsFaithful
  <2>4. hpc' = "done" => result'.error = ""
    BY DEF PingMatrix
  <2>5. hpc' = "done" => Faithful(result'.rows, input'.nodes, input'.lines)
    BY <2>1, <2>3, <2>4
  <2> QED BY <2>5, Zenon DEF MatrixFaithful, Faithful
<1> QED BY <1>2, <1>3, <1>4 DEF IInv

LEMMA PingPongStep == ASSUME IInv, PingPong PROVE IInv'
<1>1. /\ tag = "pingpong" /\ hpc' \in {"done", "failed"}
      /\ UNCHANGED <<tag, nodes, grid, jobs, tasks, crashed, outputs, busy>>
  BY DEF PingPong, hvars
<1>2. Shape'
  BY <1>1 DEF IInv, Shape
<1>3. OwnRun' /\ ReportFresh' /\ GridFits' /\ MatrixFaithful'
  BY <1>1 DEF IInv, OwnRun, ReportFresh, HplDone, GridFits, MatrixFaithful
<1>4. PingpongWhole'
  <2> DEFINE f == input'
  <2>1. /\ f \in ImbOutputs
        /\ result'.read = ReadImbPingpong(f) /\ result'.plot = ReadImbOut(f)
        /\ hpc' = "done" => ReadImbPingpong(f).mode # "exception"
    BY DEF PingPong
  <2> SUFFICES ASSUME hpc' = "done"
               PROVE  LET read == result'.read.rows
                          hidden == \E j, k \in DOMAIN f : j < k /\ f[j].kind = "blank" /\ f[k].kind = "row"
                      IN /\ read # <<>> /\ ~hidden => [i \in DOMAIN read |-> read[i].bytes] = Sizes
                         /\ result'.plot.mode # "exception" => result'.plot.rows = read
    BY Zenon DEF PingpongWhole
  <2> HIDE DEF f
  <2> QED BY <2>1, ReadersAgree
<1> QED BY <1>2, <1>3, <1>4 DEF IInv

LEMMA StutterStep == ASSUME IInv, UNCHANGED vars PROVE IInv'
<1>1. UNCHANGED <<tag, hpc, nodes, grid, jobs, tasks, crashed, outputs, busy, input, result>>
  BY DEF vars, hvars
<1> QED
  BY <1>1 DEF IInv, Shape, OwnRun, Array, ReportFresh, HplDone, GridFits, MatrixFaithful, PingpongWhole

-----------------------------------------------------------------------------
(* The theorems                                                            *)

LEMMA Inductive == Spec => []IInv
<1>1. Init => IInv
  BY InitIInv
<1>2. ASSUME IInv, [Next]_vars PROVE IInv'
  <2>1. CASE TaskStarts
    BY <1>2, <2>1, StartStep
  <2>2. CASE \E ends \in {"pass", "fail", "crash"} : TaskEnds(ends)
    BY <1>2, <2>2, EndsStep
  <2>3. CASE HplStart
    BY <1>2, <2>3, HplStartStep
  <2>4. CASE HplSize
    BY <1>2, <2>4, HplSizeStep
  <2>5. CASE HplRemove
    BY <1>2, <2>5, HplRemoveStep
  <2>6. CASE HplSubmit
    BY <1>2, <2>6, HplSubmitStep
  <2>7. CASE HplWaited \/ HplTimeout
    BY <1>2, <2>7, HplWaitStep
  <2>8. CASE HplReport
    BY <1>2, <2>8, HplReportStep
  <2>9. CASE PingMatrix
    BY <1>2, <2>9, PingMatrixStep
  <2>10. CASE PingPong
    BY <1>2, <2>10, PingPongStep
  <2>11. CASE UNCHANGED vars
    BY <1>2, <2>11, StutterStep
  <2> QED BY <1>2, <2>1, <2>2, <2>3, <2>4, <2>5, <2>6, <2>7, <2>8, <2>9, <2>10, <2>11 DEF Next
<1> QED BY <1>1, <1>2, PTL DEF Spec

(* Whatever runs of the role there have been, on other selections of nodes *)
(* and with jobs that failed, hpl-solo reports a passed result of its own  *)
(* job for each of its nodes, unless tasks of an earlier job were still    *)
(* queued or running when it removed the outputs.                          *)
THEOREM ReportsOwnRun == Spec => []ReportFresh
<1>1. IInv => ReportFresh
  BY DEF IInv
<1> QED BY <1>1, Inductive, PTL

(* Whatever sinfo and scontrol tell of the nodes, the problem is sized for *)
(* as many processes as fit on each of the selected nodes with a core to   *)
(* each, in the grid nearest to a square.                                  *)
THEOREM GridIsRight == Spec => []GridFits
<1>1. IInv => GridFits
  BY DEF IInv
<1> QED BY <1>1, Inductive, PTL

(* For any number of ranks, and whichever lines of nxnlatbw are lost or    *)
(* cannot be read, the matrix has each pair's own latency.                 *)
THEOREM MatrixIsRight == Spec => []MatrixFaithful
<1>1. IInv => MatrixFaithful
  BY DEF IInv
<1> QED BY <1>1, Inductive, PTL

(* Wherever the output of IMB-MPI1 is cut, and whatever else is printed    *)
(* into it after its header, pingpong reports all message sizes of its     *)
(* table or none, unless an empty line hides rows; and the plot, if there  *)
(* is one, has what the summary has.                                       *)
THEOREM PingpongIsWhole == Spec => []PingpongWhole
<1>1. IInv => PingpongWhole
  BY DEF IInv
<1> QED BY <1>1, Inductive, PTL

(* A task runs on one of the nodes its job may use, and every line found   *)
(* in an output is of a job there has been.                                *)
THEOREM TypeCorrect == Spec => []TypeOK
<1>1. ASSUME IInv PROVE TypeOK
  <2>1. ASSUME NEW i \in DOMAIN outputs
        PROVE  ToSet(outputs[i].lines) \subseteq [job : 1..jobs, node : AllNodes, passed : BOOLEAN]
    <3>1. outputs[i].lines \in Seq(Result)
      BY <1>1 DEF IInv, Shape, Output
    <3>2. \A k \in DOMAIN outputs[i].lines : outputs[i].lines[k].job \in 1..jobs
      BY <1>1 DEF IInv, Shape
    <3>3. \A k \in DOMAIN outputs[i].lines : outputs[i].lines[k] \in Result
      BY <3>1
    <3>4. \A r \in Result : r.job \in 1..jobs => r \in [job : 1..jobs, node : AllNodes, passed : BOOLEAN]
      BY DEF Result
    <3> QED BY <3>2, <3>3, <3>4 DEF ToSet
  <2> QED BY <1>1, <2>1 DEF TypeOK, IInv, Shape, AllNodes
<1> QED BY <1>1, Inductive, PTL
=============================================================================
