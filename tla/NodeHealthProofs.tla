--------------------------- MODULE NodeHealthProofs ---------------------------
(***************************************************************************)
(* Proofs about NodeHealth and the MountFacts within it: for any sources,  *)
(* mount tables, InfiniBand ports and net devices, and any number of       *)
(* mounts, unmounts and links that fail meanwhile.                         *)
(***************************************************************************)
EXTENDS NodeHealth, SequenceTheorems, WellFoundedInduction, TLAPS

-----------------------------------------------------------------------------
(* Minimum, RemoveFirst and FlattenSeq, which the modules use.             *)
LEMMA LeastIsMember ==
    ASSUME NEW S, S \subseteq Nat, S # {} PROVE Min(S) \in S /\ \A y \in S : Min(S) <= y
<1>1. PICK x \in S : \A y \in S : <<y, x>> \notin OpToRel(<, Nat)
  BY NatLessThanWellFounded, WFMin
<1>2. ASSUME NEW y \in S PROVE x <= y
  <2>1. <<y, x>> \in Nat \X Nat /\ y \in Nat /\ x \in Nat
    OBVIOUS
  <2>2. ~ (y < x)
    BY <1>1, <2>1 DEF OpToRel
  <2> QED BY <2>1, <2>2
<1> QED BY <1>2 DEF Min

(* RemoveFirst takes nothing but the element from a sequence.              *)
LEMMA RemoveFirstKeeps ==
    ASSUME NEW S, NEW s \in Seq(S), NEW e \in ToSet(s)
    PROVE  /\ RemoveFirst(s, e) \in Seq(S)
           /\ ToSet(s) \ {e} \subseteq ToSet(RemoveFirst(s, e))
           /\ ToSet(RemoveFirst(s, e)) \subseteq ToSet(s)
<1> DEFINE I == {i \in 1..Len(s) : s[i] = e}
           k == Min(I)
<1>1. I # {} /\ \E i \in 1..Len(s) : s[i] = e
  BY DEF ToSet
<1>2. k \in 1..Len(s) /\ s[k] = e
  BY <1>1, LeastIsMember
<1>3. SelectInSeq(s, LAMBDA v : v = e) = k
  BY <1>1 DEF SelectInSeq
<1>4. RemoveFirst(s, e) = RemoveAt(s, k)
  BY <1>1, <1>3 DEF RemoveFirst
<1> HIDE DEF k
<1> DEFINE a == SubSeq(s, 1, k - 1)
           b == SubSeq(s, k + 1, Len(s))
<1>5. /\ a \in Seq(S) /\ Len(a) = k - 1 /\ \A i \in 1..(k - 1) : a[i] = s[i]
      /\ b \in Seq(S) /\ Len(b) = Len(s) - k /\ \A i \in 1..(Len(s) - k) : b[i] = s[k + i]
  BY <1>2
<1> HIDE DEF a, b
<1>6. RemoveFirst(s, e) = a \o b
  BY <1>4 DEF RemoveAt, a, b
<1> DEFINE c == a \o b
<1>7. /\ c \in Seq(S) /\ Len(c) = Len(s) - 1
      /\ \A i \in 1..(Len(s) - 1) : c[i] = IF i <= k - 1 THEN a[i] ELSE b[i - (k - 1)]
  <2>1. /\ c \in Seq(S) /\ Len(c) = Len(a) + Len(b)
        /\ \A i \in 1..(Len(a) + Len(b)) : c[i] = IF i <= Len(a) THEN a[i] ELSE b[i - Len(a)]
    BY <1>5, ConcatProperties
  <2>2. Len(a) + Len(b) = Len(s) - 1 /\ Len(a) = k - 1
    BY <1>2, <1>5
  <2> QED BY <2>1, <2>2
<1> HIDE DEF c
<1>8. ASSUME NEW x \in ToSet(s), x # e PROVE x \in ToSet(c)
  <2>1. PICK i \in 1..Len(s) : x = s[i]
    BY DEF ToSet
  <2>2. CASE i < k
    <3>1. i \in 1..(Len(s) - 1) /\ c[i] = s[i]
      BY <1>2, <1>5, <1>7, <2>2
    <3> QED BY <1>7, <2>1, <3>1 DEF ToSet
  <2>3. CASE i > k
    <3>1. i - 1 \in 1..(Len(s) - 1) /\ ~ (i - 1 <= k - 1) /\ i - k \in 1..(Len(s) - k) /\ k + (i - k) = i
          /\ (i - 1) - (k - 1) = i - k
      BY <1>2, <2>3
    <3>2. c[i - 1] = s[i]
      BY <1>5, <1>7, <3>1
    <3> QED BY <1>7, <2>1, <3>1, <3>2 DEF ToSet
  <2>4. i # k
    BY <1>2, <1>8, <2>1
  <2> QED BY <1>2, <2>2, <2>3, <2>4
<1>9. ASSUME NEW i \in 1..(Len(s) - 1) PROVE c[i] \in ToSet(s)
  <2>1. CASE i <= k - 1
    <3>1. i \in 1..(k - 1) /\ i \in 1..Len(s)
      BY <1>2, <2>1
    <3>2. c[i] = s[i]
      BY <1>5, <1>7, <2>1, <3>1
    <3> QED BY <3>1, <3>2 DEF ToSet
  <2>2. CASE ~ (i <= k - 1)
    <3>1. i - (k - 1) \in 1..(Len(s) - k) /\ k + (i - (k - 1)) \in 1..Len(s)
      BY <1>2, <2>2
    <3>2. c[i] = s[k + (i - (k - 1))]
      BY <1>5, <1>7, <2>2, <3>1
    <3> QED BY <3>1, <3>2 DEF ToSet
  <2> QED BY <2>1, <2>2
<1>10. ToSet(c) \subseteq ToSet(s)
  BY <1>7, <1>9 DEF ToSet
<1> QED BY <1>6, <1>7, <1>8, <1>10 DEF c

(* FlattenSeq of sequences is a sequence: its recursive function exists,   *)
(* for as many of them as there are.                                       *)
LEMMA FlattenSeqType ==
    ASSUME NEW S, NEW q \in Seq(Seq(S)) PROVE FlattenSeq(q) \in Seq(S)
<1> DEFINE Def(g, n) == g = [i \in 1..n |-> IF i = 1 THEN q[i] ELSE g[i-1] \o q[i]]
           Good(n) == \E g : Def(g, n) 
           Bad == {n \in 0..Len(q) : ~ Good(n)}
<1>1. Good(0)
  <2>1. Def([i \in 1..0 |-> 0], 0)
    OBVIOUS
  <2> QED BY <2>1
<1>2. ASSUME NEW n \in 0..(Len(q) - 1), Good(n) PROVE Good(n + 1)
  <2>1. PICK g : Def(g, n)
    BY <1>2
  <2> DEFINE h == [i \in 1..(n + 1) |-> IF i <= n THEN g[i] ELSE IF i = 1 THEN q[i] ELSE g[n] \o q[i]]
  <2>2. h = [i \in 1..(n + 1) |-> IF i = 1 THEN q[i] ELSE h[i-1] \o q[i]]
    <3>1. ASSUME NEW i \in 1..(n + 1) PROVE h[i] = IF i = 1 THEN q[i] ELSE h[i-1] \o q[i]
      <4>1. CASE i <= n
        <5>1. i \in 1..n /\ (i # 1 => i - 1 \in 1..(n + 1) /\ i - 1 <= n)
          BY <4>1
        <5>2. h[i] = g[i] /\ (i # 1 => h[i-1] = g[i-1])
          BY <4>1, <5>1
        <5>3. g[i] = IF i = 1 THEN q[i] ELSE g[i-1] \o q[i]
          BY <2>1, <5>1
        <5> QED BY <5>2, <5>3
      <4>2. CASE i = n + 1
        <5>1. ~ (i <= n) /\ i - 1 = n /\ (i # 1 => n \in 1..(n + 1) /\ n <= n)
          BY <4>2
        <5> QED BY <5>1
      <4> QED BY <4>1, <4>2
    <3> HIDE DEF h
    <3>2. h = [i \in 1..(n + 1) |-> h[i]]
      BY DEF h
    <3> QED BY <3>1, <3>2
  <2> HIDE DEF h
  <2> QED BY <2>2
<1>3. \A n \in 0..Len(q) : Good(n)
  <2> HIDE DEF Good
  <2>1. SUFFICES ASSUME Bad # {} PROVE FALSE
    OBVIOUS
  <2> DEFINE m == Min(Bad)
  <2>2. m \in Bad /\ \A y \in Bad : m <= y
    <3>1. Bad \subseteq Nat
      OBVIOUS
    <3> HIDE DEF Bad
    <3> QED BY <2>1, <3>1, LeastIsMember
  <2> HIDE DEF m
  <2>3. m # 0 /\ m \in 0..Len(q)
    BY <1>1, <2>2
  <2>4. m - 1 \in 0..(Len(q) - 1) /\ m - 1 \in 0..Len(q) /\ (m - 1) + 1 = m /\ ~ (m <= m - 1)
    BY <2>3
  <2>5. Good(m - 1)
    BY <2>2, <2>4
  <2>6. Good((m - 1) + 1)
    BY <1>2, <2>4, <2>5
  <2> QED BY <2>2, <2>4, <2>6
<1> DEFINE k == Len(q)
           f == CHOOSE g : Def(g, k)
<1>4. CASE k = 0
  BY <1>4 DEF FlattenSeq
<1>5. CASE k # 0
  <2>1. k \in Nat /\ k >= 1 /\ k \in 0..Len(q) /\ \A i \in 1..k : q[i] \in Seq(S)
    BY <1>5
  <2>2. Def(f, k)
    BY <1>3, <2>1
  <2>3. FlattenSeq(q) = f[k]
    BY <2>1 DEF FlattenSeq
  <2> HIDE DEF f, k
  <2>4. \A i \in 1..k : f[i] = IF i = 1 THEN q[i] ELSE f[i-1] \o q[i]
    BY <2>2
  <2> DEFINE Wrong == {i \in 1..k : f[i] \notin Seq(S)}
  <2>5. SUFFICES ASSUME Wrong # {} PROVE FALSE
    <3>1. k \in 1..k
      BY <2>1
    <3>2. f[k] \in Seq(S) \/ k \in Wrong
      BY <3>1
    <3> HIDE DEF Wrong
    <3> QED BY <2>3, <3>2
  <2>6. PICK i \in Wrong : \A j \in Wrong : i <= j
    <3>1. Wrong \subseteq Nat
      OBVIOUS
    <3> HIDE DEF Wrong
    <3> QED BY <2>5, <3>1, LeastIsMember
  <2>7. i \in 1..k /\ f[i] \notin Seq(S) /\ i \in Int
    OBVIOUS
  <2>8. i # 1
    BY <2>1, <2>4, <2>7
  <2>9. i - 1 \in 1..k /\ ~ (i <= i - 1)
    BY <2>1, <2>7, <2>8
  <2>10. f[i-1] \in Seq(S)
    BY <2>6, <2>9
  <2>11. f[i] = f[i-1] \o q[i]
    BY <2>4, <2>7, <2>8
  <2> QED BY <2>1, <2>7, <2>10, <2>11, ConcatProperties
<1> QED BY <1>4, <1>5
(* What the head, the tail and one more element make of a sequence.        *)
LEMMA TailFacts ==
    ASSUME NEW S, NEW s \in Seq(S), s # <<>>
    PROVE  /\ 1 \in DOMAIN s /\ Head(s) = s[1] /\ Head(s) \in S /\ Tail(s) \in Seq(S)
           /\ \A i \in DOMAIN Tail(s) : i + 1 \in DOMAIN s /\ i + 1 # 1 /\ Tail(s)[i] = s[i + 1]
           /\ \A i \in DOMAIN s : i # 1 => i - 1 \in DOMAIN Tail(s) /\ Tail(s)[i - 1] = s[i]
<1>1. /\ Head(s) \in S /\ Tail(s) \in Seq(S) /\ Len(Tail(s)) = Len(s) - 1
      /\ \A i \in 1..Len(Tail(s)) : Tail(s)[i] = s[i + 1]
  BY HeadTailProperties
<1>2. Len(s) \in Nat /\ Len(s) >= 1 /\ DOMAIN s = 1..Len(s) /\ Head(s) = s[1]
  OBVIOUS
<1> DEFINE t == Tail(s)
<1>3. DOMAIN t = 1..Len(t) /\ Len(t) = Len(s) - 1 /\ \A i \in 1..Len(t) : t[i] = s[i + 1]
  BY <1>1
<1> HIDE DEF t
<1>4. ASSUME NEW i \in DOMAIN t PROVE i + 1 \in DOMAIN s /\ i + 1 # 1 /\ t[i] = s[i + 1]
  BY <1>2, <1>3
<1>5. ASSUME NEW i \in DOMAIN s, i # 1 PROVE i - 1 \in DOMAIN t /\ t[i - 1] = s[i]
  <2>1. i - 1 \in 1..Len(t) /\ (i - 1) + 1 = i
    BY <1>2, <1>3, <1>5
  <2> QED BY <1>3, <2>1
<1> QED BY <1>1, <1>2, <1>4, <1>5 DEF t

LEMMA HeadAndRest ==
    ASSUME NEW S, NEW s \in Seq(S), s # <<>>
    PROVE  /\ Tail(s) \in Seq(S) /\ Head(s) \in S /\ Head(s) \in ToSet(s)
           /\ ToSet(Tail(s)) \subseteq ToSet(s)
           /\ \A x \in ToSet(s) : x = Head(s) \/ x \in ToSet(Tail(s))
<1>1. /\ 1 \in DOMAIN s /\ Head(s) = s[1] /\ Head(s) \in S /\ Tail(s) \in Seq(S)
      /\ \A i \in DOMAIN Tail(s) : i + 1 \in DOMAIN s /\ Tail(s)[i] = s[i + 1]
      /\ \A i \in DOMAIN s : i # 1 => i - 1 \in DOMAIN Tail(s) /\ Tail(s)[i - 1] = s[i]
  BY TailFacts
<1> DEFINE t == Tail(s)
<1> HIDE DEF t
<1>2. ToSet(t) \subseteq ToSet(s) /\ Head(s) \in ToSet(s)
  BY <1>1 DEF ToSet, t
<1>3. ASSUME NEW x \in ToSet(s) PROVE x = Head(s) \/ x \in ToSet(t)
  <2>1. PICK i \in DOMAIN s : x = s[i]
    BY DEF ToSet
  <2>2. i # 1 => i - 1 \in DOMAIN t /\ t[i - 1] = s[i]
    BY <1>1 DEF t
  <2> QED BY <1>1, <2>1, <2>2 DEF ToSet
<1> QED BY <1>1, <1>2, <1>3 DEF t

LEMMA AppendFacts ==
    ASSUME NEW S, NEW s \in Seq(S), NEW e \in S
    PROVE  LET t == Append(s, e)
               n == Len(s) + 1
           IN /\ t \in Seq(S) /\ n \in DOMAIN t /\ t[n] = e
              /\ \A i \in DOMAIN s : i \in DOMAIN t /\ t[i] = s[i] /\ i # n
              /\ \A i \in DOMAIN t : i \in DOMAIN s \/ i = n
<1>1. /\ Append(s, e) \in Seq(S) /\ Len(Append(s, e)) = Len(s) + 1
      /\ \A i \in 1..Len(s) : Append(s, e)[i] = s[i]
      /\ Append(s, e)[Len(s) + 1] = e
  BY AppendProperties
<1>2. Len(s) \in Nat /\ DOMAIN s = 1..Len(s)
  OBVIOUS
<1> DEFINE t == Append(s, e)
<1>3. DOMAIN t = 1..(Len(s) + 1)
  BY <1>1
<1> HIDE DEF t
<1>4. \A i \in DOMAIN s : i \in DOMAIN t /\ i # Len(s) + 1
  BY <1>2, <1>3
<1>5. \A i \in DOMAIN t : i \in DOMAIN s \/ i = Len(s) + 1
  BY <1>2, <1>3
<1>6. Len(s) + 1 \in DOMAIN t
  BY <1>2, <1>3
<1> QED BY <1>1, <1>2, <1>4, <1>5, <1>6 DEF t

-----------------------------------------------------------------------------
(* The invariant of the module                                             *)

Listed == KernelMounts \cup ToSet(Fstab)

Names == {"mount", "/etc/mtab", "/proc/mounts", "/etc/mnttab",
          "/etc/fstab", "/etc/vfstab", "/etc/filesystems"}
         \cup UNION {ToSet(a.sources) : a \in Arguments}

Entry == [source : Names, line : Nat, uuid : {m.uuid : m \in Listed},
          mount : {m.mount : m \in Listed}, fstype : {m.fstype : m \in Listed}]

Asked == ToSet(GetSources(args.sources))

HostShape ==
    /\ proc \in BOOLEAN
    /\ table \in Seq(KernelMounts)
    /\ stable \subseteq ToSet(table)
    /\ changes \in 0..MaxChanges

Shape ==
    /\ args \in Arguments
    /\ pc \in {"run", "waiting", "done", "failed", "crashed"}
    /\ fallback \in BOOLEAN
    /\ todo \in Seq(Names) /\ ToSet(todo) \subseteq Asked
    /\ seen \subseteq Asked \cup {"/proc/self/mounts"}
    /\ queue \in Seq(Entry) /\ mounts \in Seq(Entry)
    /\ \A i \in DOMAIN mounts : mounts[i].fstype \in args.fstypes
    /\ pc = "done" => todo = <<>> /\ queue = <<>> /\ ~fallback

Wants(m) == m.fstype \in args.fstypes
Is(e, m) == e.mount = m.mount /\ e.fstype = m.fstype

(* A mount is in the result, or waits to be looked at, as the kernel has it. *)
Found(m) ==
    \/ \E i \in DOMAIN mounts : Kernel(mounts[i].source) /\ Is(mounts[i], m)
    \/ \E i \in DOMAIN queue : Kernel(queue[i].source) /\ Is(queue[i], m)

StableFound == \A m \in stable : Wants(m) => Found(m)

(* Once the kernel has been asked, or the fallback has been given up, what *)
(* has been there all the time has been found.                             *)
Progress ==
    /\ \A s \in Asked : s \in ToSet(todo) \/ Repeated(s)
    /\ (\E s \in seen : Kernel(s)) => StableFound
    /\ args.mount_binary /\ Asked \cap ToSet(Dynamic) # {} => fallback \/ StableFound

SameLine(e, f) == RealPath(e.source) = RealPath(f.source) /\ e.line = f.line

(* An entry comes from a source that was read, or from the fallback, which *)
(* is not used if the mount command was a source that listed anything.     *)
Origin(e) ==
    /\ RealPath(e.source) \in seen \/ (e.source = "mount" /\ todo = <<>>)
    /\ fallback => e.source # "mount"

Distinct ==
    /\ \A i, j \in DOMAIN mounts : SameLine(mounts[i], mounts[j]) => i = j
    /\ \A i, j \in DOMAIN queue : SameLine(queue[i], queue[j]) => i = j
    /\ \A i \in DOMAIN mounts : \A j \in DOMAIN queue : ~SameLine(mounts[i], queue[j])
    /\ \A i \in DOMAIN mounts : Origin(mounts[i])
    /\ \A i \in DOMAIN queue : Origin(queue[i])

(* The first definition of a mount point is the kernel's.                  *)
Settled(m) ==
    \E i \in DOMAIN mounts :
        mounts[i].mount = m.mount /\ \A j \in 1..i : mounts[j].source \in Live

Fresh == todo = GetSources(<<>>) /\ queue = <<>> /\ mounts = <<>> /\ seen = {}

AllLive ==
    /\ \A i \in DOMAIN mounts : mounts[i].source \in Live
    /\ \A i \in DOMAIN queue : queue[i].source \in Live

LiveFirst ==
    proc /\ args.sources = <<>> /\ ~Fresh =>
        \A m \in stable : Wants(m) =>
            Settled(m) \/ (AllLive /\ \E i \in DOMAIN queue : Is(queue[i], m))

MInv == HostShape /\ Shape /\ Progress /\ Distinct /\ LiveFirst

-----------------------------------------------------------------------------
(* Sources and what they list                                              *)

LEMMA NotEmptyIfLong == ASSUME NEW s, Len(s) = 6 PROVE s # <<>>
<1>1. Len(<<>>) = 0
  OBVIOUS
<1> QED BY <1>1

LEMMA AllSources ==
    /\ GetSources(<<>>) = Dynamic \o Static
    /\ GetSources(<<>>) \in Seq(Names) /\ GetSources(<<>>) # <<>>
    /\ Head(GetSources(<<>>)) = "/etc/mtab"
<1>1. Dynamic \in Seq(Names) /\ Static \in Seq(Names) /\ Len(Dynamic) = 3 /\ Dynamic[1] = "/etc/mtab"
      /\ Len(Static) = 3
  <2>1. {"/etc/mtab", "/proc/mounts", "/etc/mnttab", "/etc/fstab", "/etc/vfstab", "/etc/filesystems"}
           \subseteq Names
    BY DEF Names
  <2> QED BY <2>1 DEF Dynamic, Static
<1>2. GetSources(<<>>) = Dynamic \o Static
  BY DEF GetSources, Expand
<1> DEFINE s == Dynamic \o Static
<1>3. s \in Seq(Names) /\ Len(s) = 6 /\ s[1] = "/etc/mtab"
  <2>1. /\ s \in Seq(Names) /\ Len(s) = Len(Dynamic) + Len(Static)
        /\ \A i \in 1..(Len(Dynamic) + Len(Static)) :
              s[i] = IF i <= Len(Dynamic) THEN Dynamic[i] ELSE Static[i - Len(Dynamic)]
    BY <1>1, ConcatProperties
  <2> HIDE DEF s
  <2> QED BY <1>1, <2>1
<1> HIDE DEF s
<1>4. s # <<>> /\ Head(s) = s[1]
  <2>1. s # <<>>
    BY <1>3, NotEmptyIfLong
  <2> QED BY <1>3, <2>1, TailFacts
<1> QED BY <1>2, <1>3, <1>4 DEF s

LEMMA SourcesType ==
    ASSUME NEW q \in Seq(UNION {ToSet(a.sources) : a \in Arguments})
    PROVE  GetSources(q) \in Seq(Names)
<1>1. CASE q = <<>>
  BY <1>1, AllSources
<1>2. CASE q # <<>>
  <2> DEFINE e == [i \in DOMAIN q |-> Expand(q[i])]
  <2>1. ASSUME NEW s \in Names PROVE Expand(s) \in Seq(Names)
    <3>0. {"/etc/mtab", "/proc/mounts", "/etc/mnttab", "/etc/fstab", "/etc/vfstab", "/etc/filesystems"}
             \subseteq Names
      BY DEF Names
    <3>1. Dynamic \in Seq(Names) /\ Static \in Seq(Names) /\ <<s>> \in Seq(Names)
      BY <3>0 DEF Dynamic, Static
    <3>2. Dynamic \o Static \in Seq(Names)
      BY <3>1, ConcatProperties
    <3> QED BY <3>1, <3>2 DEF Expand
  <2>2. \A i \in 1..Len(q) : Expand(q[i]) \in Seq(Names)
    <3>1. \A i \in 1..Len(q) : q[i] \in Names
      BY DEF Names
    <3> QED BY <2>1, <3>1
  <2>3. e \in Seq(Seq(Names))
    <3> DEFINE n == Len(q)
               T == Seq(Names)
    <3>1. n \in Nat /\ e = [i \in 1..n |-> Expand(q[i])] /\ \A i \in 1..n : Expand(q[i]) \in T
      BY <2>2
    <3> HIDE DEF e, n, T
    <3>2. e \in Seq(T)
      BY <3>1
    <3> QED BY <3>2 DEF T
  <2> HIDE DEF e
  <2>4. FlattenSeq(e) \in Seq(Names)
    BY <2>3, FlattenSeqType
  <2> QED BY <1>2, <2>4 DEF GetSources, e
<1> QED BY <1>1, <1>2

LEMMA KernelReal ==
    ASSUME NEW s PROVE Kernel(RealPath(s)) <=> Kernel(s)
BY DEF Kernel, RealPath

LEMMA RealMount == ASSUME NEW s PROVE RealPath(s) = "mount" <=> s = "mount"
BY DEF RealPath

(* What a source lists is of that source, each line once, and all that is  *)
(* mounted if the kernel answers.                                          *)
LEMMA EntriesFacts ==
    ASSUME HostShape, NEW s \in Names
    PROVE  /\ Entries(s) \in Seq(Entry)
           /\ \A i \in DOMAIN Entries(s) : Entries(s)[i].source = s /\ Entries(s)[i].line = i
           /\ Kernel(s) => \A m \in ToSet(table) : \E i \in DOMAIN Entries(s) : Is(Entries(s)[i], m)
           /\ Entries(s) # <<>> /\ s \in Live => Kernel(s)
<1> DEFINE c == Content(s)
<1>1. c \in Seq(Listed)
  <2>1. Fstab \in Seq(Listed) /\ table \in Seq(Listed) /\ <<>> \in Seq(Listed)
    BY TablesAssumption DEF Listed, HostShape
  <2>2. c = table \/ c = Fstab \/ c = <<>>
    BY DEF Content
  <2> HIDE DEF c
  <2> QED BY <2>1, <2>2
<1>2. Kernel(s) => c = table
  <2>1. Kernel(s) => s # "/etc/fstab"
    BY DEF Kernel, RealPath
  <2> QED BY <2>1 DEF Content
<1>3. s \in Live /\ ~Kernel(s) => c = <<>>
  <2>1. s \in Live => s # "/etc/fstab"
    BY DEF Live, Dynamic, ToSet
  <2> QED BY <2>1 DEF Content
<1>4. /\ DOMAIN Entries(s) = DOMAIN c
      /\ \A i \in DOMAIN c : Entries(s)[i] = [source |-> s, line |-> i, uuid |-> c[i].uuid,
                                              mount |-> c[i].mount, fstype |-> c[i].fstype]
      /\ Entries(s) = [i \in DOMAIN c |-> [source |-> s, line |-> i, uuid |-> c[i].uuid,
                                           mount |-> c[i].mount, fstype |-> c[i].fstype]]
  BY DEF Entries
<1> HIDE DEF c
<1>5. \A i \in DOMAIN c : Entries(s)[i] \in Entry
  <2>1. \A i \in DOMAIN c : i \in Nat /\ c[i] \in Listed
    BY <1>1
  <2> QED BY <1>4, <2>1 DEF Entry
<1>6. Entries(s) \in Seq(Entry)
  <2>1. Len(c) \in Nat /\ DOMAIN c = 1..Len(c)
    BY <1>1
  <2> QED BY <1>4, <1>5, <2>1
<1>7. ASSUME Kernel(s), NEW m \in ToSet(table)
      PROVE  \E i \in DOMAIN Entries(s) : Is(Entries(s)[i], m)
  <2>1. PICK i \in DOMAIN c : c[i] = m
    BY <1>2, <1>7 DEF ToSet
  <2> QED BY <1>4, <2>1 DEF Is
<1>8. c = <<>> => Entries(s) = <<>>
  BY <1>1, <1>4, <1>6
<1> QED BY <1>3, <1>4, <1>6, <1>7, <1>8

-----------------------------------------------------------------------------
(* The invariant holds at the start                                        *)

LEMMA InitMInv == Init => MInv
<1> SUFFICES ASSUME Init PROVE MInv
  OBVIOUS
<1>1. HostShape
  BY TablesAssumption, MaxChangesAssumption DEF Init, HostShape
<1>2. todo \in Seq(Names) /\ ToSet(todo) = Asked
  <2>1. args \in Arguments /\ args.sources \in Seq(UNION {ToSet(a.sources) : a \in Arguments})
    <3>1. args \in Arguments /\ args.sources \in Seq(ToSet(args.sources))
      BY ArgumentsAssumption DEF Init
    <3>2. ToSet(args.sources) \subseteq UNION {ToSet(a.sources) : a \in Arguments}
      BY <3>1
    <3> QED BY <3>1, <3>2
  <2> QED BY <2>1, SourcesType DEF Init, Asked
<1>3. Shape
  <2>1. queue \in Seq(Entry) /\ mounts \in Seq(Entry) /\ DOMAIN mounts = {}
    BY DEF Init
  <2>2. fallback \in BOOLEAN
    BY Zenon DEF Init
  <2> QED BY <1>2, <2>1, <2>2 DEF Init, Shape
<1>4. Progress
  BY <1>2 DEF Init, Progress
<1>5. Distinct
  BY DEF Init, Distinct
<1>6. LiveFirst
  BY DEF Init, LiveFirst, Fresh
<1> QED BY <1>1, <1>3, <1>4, <1>5, <1>6 DEF MInv

-----------------------------------------------------------------------------
(* Steps of the host: what stays mounted only gets less.                   *)

LEMMA HostStep ==
    ASSUME MInv, HostShape', UNCHANGED <<proc, module>>, stable' \subseteq stable
    PROVE  MInv'
<1>1. Shape'
  BY DEF MInv, Shape, module, Asked
<1>2. Progress' /\ Distinct' /\ LiveFirst'
  BY DEF MInv, module, Progress, Repeated, RealPath, Kernel, StableFound, Found, Is, Wants, Asked,
         Distinct, SameLine, Origin, LiveFirst, Fresh, AllLive, Settled
<1> QED BY <1>1, <1>2 DEF MInv

LEMMA MountUnmountHang ==
    ASSUME MInv, NEW m \in KernelMounts, Mount(m) \/ Unmount(m) \/ Hang(m) PROVE MInv'
<1>1. changes' \in 0..MaxChanges
  BY MaxChangesAssumption DEF MInv, HostShape, Mount, Unmount, Hang, Change
<1>2. CASE Mount(m)
  <2>1. table' \in Seq(KernelMounts) /\ ToSet(table) \subseteq ToSet(table')
    <3>1. table \in Seq(KernelMounts) /\ table' = Append(table, m)
      BY <1>2 DEF Mount, MInv, HostShape
    <3>2. table' \in Seq(KernelMounts) /\ \A i \in DOMAIN table : i \in DOMAIN table' /\ table'[i] = table[i]
      BY <3>1, AppendFacts
    <3> QED BY <3>2 DEF ToSet
  <2> QED BY <1>1, <1>2, <2>1, HostStep DEF Mount, MInv, HostShape
<1>3. CASE Unmount(m)
  <2>1. /\ table' \in Seq(KernelMounts)
        /\ ToSet(table) \ {m} \subseteq ToSet(table')
    BY <1>3, RemoveFirstKeeps DEF Unmount, MInv, HostShape
  <2> QED BY <1>1, <1>3, <2>1, HostStep DEF Unmount, MInv, HostShape
<1>4. CASE Hang(m)
  BY <1>1, <1>4, HostStep DEF Hang, MInv, HostShape
<1> QED BY <1>2, <1>3, <1>4

-----------------------------------------------------------------------------
(* Steps of the module                                                     *)

LEMMA SkipStep == ASSUME MInv, SkipSource PROVE MInv'
<1>1. /\ todo' \in Seq(Names) /\ ToSet(todo') \subseteq ToSet(todo)
      /\ \A s \in ToSet(todo) : s = Head(todo) \/ s \in ToSet(todo')
      /\ Head(todo) \in Names /\ todo # <<>> /\ Repeated(Head(todo))
  <2>1. todo \in Seq(Names) /\ todo # <<>> /\ todo' = Tail(todo) /\ Repeated(Head(todo))
    BY DEF SkipSource, NextSource, MInv, Shape
  <2> QED BY <2>1, HeadAndRest
<1>2. UNCHANGED <<proc, table, stable, changes, args, pc, seen, fallback, queue, mounts>>
      /\ queue = <<>> /\ pc = "run"
  BY DEF SkipSource, NextSource, host
<1>3. HostShape' /\ Shape'
  BY <1>1, <1>2 DEF MInv, HostShape, Shape, Asked
<1>4. Progress'
  BY <1>1, <1>2 DEF MInv, Progress, Repeated, RealPath, Kernel, StableFound, Found, Is, Wants, Asked
<1>5. Distinct'
  BY <1>1, <1>2 DEF MInv, Distinct, SameLine, Origin, RealPath
<1>6. LiveFirst'
  <2>1. seen # {}
    BY <1>1 DEF Repeated
  <2> QED BY <1>2, <2>1 DEF MInv, LiveFirst, Fresh, AllLive, Settled, Is, Wants
<1> QED BY <1>3, <1>4, <1>5, <1>6 DEF MInv

LEMMA ReadStep == ASSUME MInv, ReadSource PROVE MInv'
<1> DEFINE s == Head(todo)
<1>1. /\ todo' \in Seq(Names) /\ ToSet(todo') \subseteq ToSet(todo)
      /\ \A x \in ToSet(todo) : x = s \/ x \in ToSet(todo')
      /\ s \in Names /\ s \in ToSet(todo) /\ todo # <<>> /\ s \notin seen /\ RealPath(s) \notin seen
  <2>1. todo \in Seq(Names) /\ todo # <<>> /\ todo' = Tail(todo) /\ ~Repeated(s)
    BY DEF ReadSource, NextSource, MInv, Shape
  <2> QED BY <2>1, HeadAndRest DEF Repeated
<1>2. /\ UNCHANGED <<proc, table, stable, changes, args, pc, mounts>>
      /\ queue = <<>> /\ pc = "run" /\ queue' = Entries(s) /\ seen' = seen \cup {RealPath(s)}
      /\ fallback' = (fallback /\ ~(queue' # <<>> /\ s \in Live))
  BY DEF ReadSource, NextSource, host
<1>3. /\ queue' \in Seq(Entry)
      /\ \A i \in DOMAIN queue' : queue'[i].source = s /\ queue'[i].line = i
      /\ Kernel(s) => \A m \in stable : \E i \in DOMAIN queue' : Is(queue'[i], m)
      /\ queue' # <<>> /\ s \in Live => Kernel(s)
  BY <1>1, <1>2, EntriesFacts DEF MInv, HostShape
<1> HIDE DEF s
<1>4. HostShape'
  BY <1>2 DEF MInv, HostShape
<1>5. Shape'
  <2>1. fallback' \in BOOLEAN
    BY <1>2, Zenon
  <2>2. seen' \subseteq Asked \cup {"/proc/self/mounts"}
    <3>1. s \in Asked
      BY <1>1 DEF MInv, Shape
    <3> QED BY <1>2, <3>1 DEF MInv, Shape, RealPath
  <2> QED BY <1>1, <1>2, <1>3, <2>1, <2>2 DEF MInv, Shape, Asked
<1>6. Kernel(s) => StableFound'
  BY <1>2, <1>3 DEF StableFound, Found, Wants, Is, Kernel, RealPath
<1>7. StableFound => StableFound'
  BY <1>2 DEF StableFound, Found, Wants, Is, Kernel, RealPath
<1>8. Progress'
  <2>1. \A x \in Asked' : x \in ToSet(todo') \/ Repeated(x)'
    BY <1>1, <1>2 DEF MInv, Progress, Asked, Repeated, RealPath
  <2>2. (\E x \in seen' : Kernel(x)') => StableFound'
    <3>1. (\E x \in seen' : Kernel(x)') => Kernel(s) \/ \E x \in seen : Kernel(x)
      BY <1>2, KernelReal DEF Kernel, RealPath
    <3> QED BY <1>6, <1>7, <3>1 DEF MInv, Progress
  <2>3. args'.mount_binary /\ Asked' \cap ToSet(Dynamic) # {} => fallback' \/ StableFound'
    <3>1. fallback => fallback' \/ Kernel(s)
      BY <1>2, <1>3
    <3>2. Asked' = Asked /\ args' = args
      BY <1>2 DEF Asked
    <3> QED BY <1>6, <1>7, <3>1, <3>2 DEF MInv, Progress
  <2> QED BY <2>1, <2>2, <2>3 DEF Progress
<1>9. Distinct'
  <2>1. \A i \in DOMAIN mounts : RealPath(mounts[i].source) \in seen
    BY <1>1 DEF MInv, Distinct, Origin
  <2>2. \A i, j \in DOMAIN queue' : SameLine(queue[i], queue[j])' => i = j
    BY <1>3 DEF SameLine
  <2>3. \A i \in DOMAIN mounts' : \A j \in DOMAIN queue' : ~SameLine(mounts[i], queue[j])'
    BY <1>1, <1>2, <1>3, <2>1 DEF SameLine, RealPath
  <2>4. \A i \in DOMAIN mounts' : Origin(mounts[i])'
    BY <1>2, <2>1 DEF MInv, Distinct, Origin, RealPath
  <2>5. \A i \in DOMAIN queue' : Origin(queue[i])'
    <3> SUFFICES ASSUME NEW i \in DOMAIN queue'
                 PROVE  (RealPath(s) \in seen') /\ (fallback' => s # "mount")
      BY <1>2, <1>3 DEF Origin, RealPath
    <3>1. "mount" \in Live /\ queue' # <<>>
      BY <1>3 DEF Live
    <3> QED BY <1>2, <3>1
  <2>6. \A i, j \in DOMAIN mounts' : SameLine(mounts[i], mounts[j])' => i = j
    BY <1>2 DEF MInv, Distinct, SameLine, RealPath
  <2> QED BY <2>2, <2>3, <2>4, <2>5, <2>6 DEF Distinct
<1>10. LiveFirst'
  <2> SUFFICES ASSUME proc, args.sources = <<>>, NEW m \in stable, Wants(m)
               PROVE  Settled(m)' \/ (AllLive' /\ \E i \in DOMAIN queue' : Is(queue'[i], m))
    BY <1>2 DEF LiveFirst, Wants, Is
  <2>1. CASE Fresh
    <3>1. s = "/etc/mtab"
      BY <2>1, AllSources DEF Fresh, s
    <3>2. Kernel(s) /\ s \in Live
      BY <3>1 DEF Kernel, RealPath, Live, Dynamic, ToSet
    <3>3. AllLive'
      BY <1>2, <1>3, <2>1, <3>2 DEF AllLive, Fresh
    <3> QED BY <1>3, <3>2, <3>3
  <2>2. CASE ~Fresh
    <3>1. Settled(m)
      BY <1>2, <2>2 DEF MInv, LiveFirst
    <3> QED BY <1>2, <3>1 DEF Settled
  <2> QED BY <2>1, <2>2
<1> QED BY <1>4, <1>5, <1>8, <1>9, <1>10 DEF MInv

LEMMA FallbackStep == ASSUME MInv, Fallback PROVE MInv'
<1>1. /\ UNCHANGED <<proc, table, stable, changes, args, pc, mounts, todo, seen>>
      /\ queue = <<>> /\ todo = <<>> /\ fallback /\ ~fallback' /\ fallback' \in BOOLEAN
      /\ pc = "run" /\ queue' = Entries("mount")
  BY DEF Fallback, host
<1>2. Kernel("mount") /\ "mount" \in Names
  BY DEF Kernel, Names
<1>3. /\ queue' \in Seq(Entry)
      /\ \A i \in DOMAIN queue' : queue'[i].source = "mount" /\ queue'[i].line = i
      /\ \A m \in stable : \E i \in DOMAIN queue' : Is(queue'[i], m)
  BY <1>1, <1>2, EntriesFacts DEF MInv, HostShape
<1>4. HostShape' /\ Shape'
  BY <1>1, <1>3 DEF MInv, HostShape, Shape, Asked
<1>5. StableFound'
  BY <1>1, <1>2, <1>3 DEF StableFound, Found, Wants, Is, Kernel, RealPath
<1>6. Progress'
  BY <1>1, <1>5 DEF MInv, Progress, Asked, Repeated, RealPath
<1>7. Distinct'
  <2>1. \A i \in DOMAIN mounts : mounts[i].source # "mount"
    BY <1>1 DEF MInv, Distinct, Origin
  <2>2. \A i \in DOMAIN mounts' : \A j \in DOMAIN queue' : ~SameLine(mounts[i], queue[j])'
    BY <1>1, <1>3, <2>1 DEF SameLine, RealPath
  <2>3. \A i, j \in DOMAIN queue' : SameLine(queue[i], queue[j])' => i = j
    BY <1>3 DEF SameLine
  <2>4. \A i \in DOMAIN queue' : Origin(queue[i])'
    BY <1>1, <1>3 DEF Origin
  <2>5. \A i \in DOMAIN mounts' : Origin(mounts[i])'
    BY <1>1 DEF MInv, Distinct, Origin, RealPath
  <2>6. \A i, j \in DOMAIN mounts' : SameLine(mounts[i], mounts[j])' => i = j
    BY <1>1 DEF MInv, Distinct, SameLine, RealPath
  <2> QED BY <2>2, <2>3, <2>4, <2>5, <2>6 DEF Distinct
<1>8. LiveFirst'
  BY <1>1, AllSources DEF MInv, LiveFirst, Fresh, Settled, Wants
<1> QED BY <1>4, <1>6, <1>7, <1>8 DEF MInv

(* A mount whose type is not wanted is dropped.                            *)
LEMMA FilteredStep == ASSUME MInv, Filtered PROVE MInv'
<1>1. /\ UNCHANGED <<proc, table, stable, changes, args, pc, todo, seen, fallback, mounts>>
      /\ pc = "run" /\ queue # <<>> /\ queue[1].fstype \notin args.fstypes
      /\ queue' \in Seq(Entry)
      /\ \A i \in DOMAIN queue' : i + 1 \in DOMAIN queue /\ queue'[i] = queue[i + 1]
      /\ \A i \in DOMAIN queue : i # 1 => i - 1 \in DOMAIN queue' /\ queue'[i - 1] = queue[i]
  <2>1. queue \in Seq(Entry) /\ queue # <<>> /\ queue' = Tail(queue)
    BY DEF Filtered, MInv, Shape
  <2> QED BY <2>1, TailFacts DEF Filtered, host
<1>2. HostShape' /\ Shape'
  BY <1>1 DEF MInv, HostShape, Shape, Asked
<1>3. StableFound => StableFound'
  <2> SUFFICES ASSUME NEW m \in stable, Wants(m), Found(m) PROVE Found(m)'
    BY <1>1 DEF StableFound, Wants
  <2>1. CASE \E i \in DOMAIN mounts : Kernel(mounts[i].source) /\ Is(mounts[i], m)
    BY <1>1, <2>1 DEF Found, Kernel, RealPath, Is
  <2>2. ASSUME NEW i \in DOMAIN queue, Kernel(queue[i].source), Is(queue[i], m) PROVE Found(m)'
    <3>1. i # 1
      BY <1>1, <2>2 DEF Is, Wants
    <3>2. i - 1 \in DOMAIN queue' /\ queue'[i - 1] = queue[i]
      BY <1>1, <3>1
    <3> QED BY <1>1, <2>2, <3>2 DEF Found, Kernel, RealPath, Is
  <2> QED BY <2>1, <2>2 DEF Found
<1>4. Progress'
  BY <1>1, <1>3 DEF MInv, Progress, Asked, Repeated, RealPath, Kernel
<1>5. Distinct'
  <2>1. \A i, j \in DOMAIN queue' : SameLine(queue[i], queue[j])' => i = j
    <3> SUFFICES ASSUME NEW i \in DOMAIN queue', NEW j \in DOMAIN queue', SameLine(queue[i], queue[j])'
                 PROVE  i = j
      OBVIOUS
    <3>1. SameLine(queue[i + 1], queue[j + 1])
      BY <1>1 DEF SameLine, RealPath
    <3>2. i + 1 = j + 1
      BY <1>1, <3>1 DEF MInv, Distinct
    <3>3. i \in Int /\ j \in Int
      BY <1>1
    <3> QED BY <3>2, <3>3
  <2>2. \A i \in DOMAIN mounts' : \A j \in DOMAIN queue' : ~SameLine(mounts[i], queue[j])'
    BY <1>1 DEF MInv, Distinct, SameLine, RealPath
  <2>3. /\ \A i \in DOMAIN mounts' : Origin(mounts[i])'
        /\ \A i, j \in DOMAIN mounts' : SameLine(mounts[i], mounts[j])' => i = j
    BY <1>1 DEF MInv, Distinct, SameLine, RealPath, Origin
  <2>4. \A i \in DOMAIN queue' : Origin(queue[i])'
    BY <1>1 DEF MInv, Distinct, RealPath, Origin
  <2> QED BY <2>1, <2>2, <2>3, <2>4 DEF Distinct
<1>6. LiveFirst'
  <2> SUFFICES ASSUME proc, args.sources = <<>>, NEW m \in stable, Wants(m)
               PROVE  Settled(m)' \/ (AllLive' /\ \E i \in DOMAIN queue' : Is(queue'[i], m))
    BY <1>1 DEF LiveFirst, Wants, Is
  <2>1. Settled(m) \/ (AllLive /\ \E i \in DOMAIN queue : Is(queue[i], m))
    BY <1>1 DEF MInv, LiveFirst, Fresh
  <2>2. CASE Settled(m)
    BY <1>1, <2>2 DEF Settled
  <2>3. ASSUME AllLive, NEW i \in DOMAIN queue, Is(queue[i], m)
        PROVE  AllLive' /\ \E j \in DOMAIN queue' : Is(queue'[j], m)
    <3>1. i # 1
      BY <1>1, <2>3 DEF Is, Wants
    <3>2. i - 1 \in DOMAIN queue' /\ queue'[i - 1] = queue[i]
      BY <1>1, <3>1
    <3>3. AllLive'
      BY <1>1, <2>3 DEF AllLive
    <3> QED BY <2>3, <3>2, <3>3
  <2> QED BY <2>1, <2>2, <2>3
<1> QED BY <1>2, <1>4, <1>5, <1>6 DEF MInv

(* A mount that is wanted goes from the queue to the result.               *)
LEMMA ReportStep == ASSUME MInv, Wanted, Report PROVE MInv'
<1> DEFINE n == Len(mounts) + 1
<1>1. /\ UNCHANGED <<proc, table, stable, changes, args, pc, todo, seen, fallback>>
      /\ pc = "run" /\ queue # <<>> /\ queue[1].fstype \in args.fstypes
      /\ queue' = Tail(queue) /\ mounts' = Append(mounts, queue[1])
      /\ queue \in Seq(Entry) /\ mounts \in Seq(Entry) /\ queue[1] \in Entry
  BY DEF Wanted, Report, host, MInv, Shape
<1>2. /\ 1 \in DOMAIN queue /\ queue' \in Seq(Entry)
      /\ \A i \in DOMAIN queue' : i + 1 \in DOMAIN queue /\ i + 1 # 1 /\ queue'[i] = queue[i + 1]
      /\ \A i \in DOMAIN queue : i # 1 => i - 1 \in DOMAIN queue' /\ queue'[i - 1] = queue[i]
  BY <1>1, TailFacts
<1>3. /\ mounts' \in Seq(Entry) /\ n \in DOMAIN mounts' /\ mounts'[n] = queue[1]
      /\ \A i \in DOMAIN mounts : i \in DOMAIN mounts' /\ mounts'[i] = mounts[i] /\ i # n
      /\ \A i \in DOMAIN mounts' : i \in DOMAIN mounts \/ i = n
  BY <1>1, AppendFacts
<1>4. n \in Nat /\ \A j \in 1..n : j \in DOMAIN mounts \/ j = n
  BY <1>1
<1> HIDE DEF n
<1>5. HostShape' /\ Shape'
  BY <1>1, <1>2, <1>3 DEF MInv, HostShape, Shape, Asked
<1>6. StableFound => StableFound'
  <2> SUFFICES ASSUME NEW m \in stable, Wants(m), Found(m) PROVE Found(m)'
    BY <1>1 DEF StableFound, Wants
  <2>1. CASE \E i \in DOMAIN mounts : Kernel(mounts[i].source) /\ Is(mounts[i], m)
    BY <1>1, <1>3, <2>1 DEF Found, Kernel, RealPath, Is
  <2>2. ASSUME NEW i \in DOMAIN queue, Kernel(queue[i].source), Is(queue[i], m) PROVE Found(m)'
    <3>1. CASE i = 1
      BY <1>1, <1>3, <2>2, <3>1 DEF Found, Kernel, RealPath, Is
    <3>2. CASE i # 1
      <4>1. i - 1 \in DOMAIN queue' /\ queue'[i - 1] = queue[i]
        BY <1>2, <3>2
      <4> QED BY <1>1, <2>2, <4>1 DEF Found, Kernel, RealPath, Is
    <3> QED BY <3>1, <3>2
  <2> QED BY <2>1, <2>2 DEF Found
<1>7. Progress'
  BY <1>1, <1>6 DEF MInv, Progress, Asked, Repeated, RealPath, Kernel
<1>8. Distinct'
  <2>1. \A i, j \in DOMAIN queue' : SameLine(queue[i], queue[j])' => i = j
    <3> SUFFICES ASSUME NEW i \in DOMAIN queue', NEW j \in DOMAIN queue', SameLine(queue[i], queue[j])'
                 PROVE  i = j
      OBVIOUS
    <3>1. SameLine(queue[i + 1], queue[j + 1])
      BY <1>1, <1>2 DEF SameLine, RealPath
    <3>2. i + 1 = j + 1
      BY <1>2, <3>1 DEF MInv, Distinct
    <3>3. i \in Int /\ j \in Int
      BY <1>2
    <3> QED BY <3>2, <3>3
  <2>2. ASSUME NEW i \in DOMAIN mounts', NEW j \in DOMAIN queue' PROVE ~SameLine(mounts[i], queue[j])'
    <3>1. j + 1 \in DOMAIN queue /\ j + 1 # 1 /\ queue'[j] = queue[j + 1]
      BY <1>2
    <3>2. CASE i \in DOMAIN mounts
      <4>1. ~SameLine(mounts[i], queue[j + 1])
        BY <3>1, <3>2 DEF MInv, Distinct
      <4> QED BY <1>1, <1>3, <3>1, <3>2, <4>1 DEF SameLine, RealPath
    <3>3. CASE i = n
      <4>1. ~SameLine(queue[1], queue[j + 1])
        BY <1>2, <3>1 DEF MInv, Distinct
      <4> QED BY <1>1, <1>3, <3>1, <3>3, <4>1 DEF SameLine, RealPath
    <3> QED BY <1>3, <3>2, <3>3
  <2>3. ASSUME NEW i \in DOMAIN mounts', NEW j \in DOMAIN mounts', SameLine(mounts[i], mounts[j])'
        PROVE  i = j
    <3>1. CASE i \in DOMAIN mounts /\ j \in DOMAIN mounts
      <4>1. SameLine(mounts[i], mounts[j])
        BY <1>1, <1>3, <2>3, <3>1 DEF SameLine, RealPath
      <4> QED BY <3>1, <4>1 DEF MInv, Distinct
    <3>2. CASE i \in DOMAIN mounts /\ j = n
      <4>1. SameLine(mounts[i], queue[1])
        BY <1>1, <1>3, <2>3, <3>2 DEF SameLine, RealPath
      <4> QED BY <1>2, <3>2, <4>1 DEF MInv, Distinct
    <3>3. CASE i = n /\ j \in DOMAIN mounts
      <4>1. SameLine(mounts[j], queue[1])
        BY <1>1, <1>3, <2>3, <3>3 DEF SameLine, RealPath
      <4> QED BY <1>2, <3>3, <4>1 DEF MInv, Distinct
    <3> QED BY <1>3, <3>1, <3>2, <3>3
  <2>4. \A i \in DOMAIN queue' : Origin(queue[i])'
    BY <1>1, <1>2 DEF MInv, Distinct, RealPath, Origin
  <2>5. \A i \in DOMAIN mounts' : Origin(mounts[i])'
    <3> SUFFICES ASSUME NEW i \in DOMAIN mounts' PROVE Origin(mounts[i])'
      OBVIOUS
    <3>1. CASE i \in DOMAIN mounts
      BY <1>1, <1>3, <3>1 DEF MInv, Distinct, RealPath, Origin
    <3>2. CASE i = n
      BY <1>1, <1>2, <1>3, <3>2 DEF MInv, Distinct, RealPath, Origin
    <3> QED BY <1>3, <3>1, <3>2
  <2> QED BY <2>1, <2>2, <2>3, <2>4, <2>5 DEF Distinct
<1>9. LiveFirst'
  <2> SUFFICES ASSUME proc, args.sources = <<>>, NEW m \in stable, Wants(m)
               PROVE  Settled(m)' \/ (AllLive' /\ \E i \in DOMAIN queue' : Is(queue'[i], m))
    BY <1>1 DEF LiveFirst, Wants, Is
  <2>1. Settled(m) \/ (AllLive /\ \E i \in DOMAIN queue : Is(queue[i], m))
    BY <1>1 DEF MInv, LiveFirst, Fresh
  <2>2. CASE Settled(m)
    <3>1. PICK i \in DOMAIN mounts : mounts[i].mount = m.mount /\ \A j \in 1..i : mounts[j].source \in Live
      BY <2>2 DEF Settled
    <3>2. \A j \in 1..i : j \in DOMAIN mounts
      BY <1>1
    <3> QED BY <1>3, <3>1, <3>2 DEF Settled
  <2>3. ASSUME AllLive, NEW i \in DOMAIN queue, Is(queue[i], m)
        PROVE  Settled(m)' \/ (AllLive' /\ \E j \in DOMAIN queue' : Is(queue'[j], m))
    <3>1. \A j \in DOMAIN mounts' : mounts'[j].source \in Live
      BY <1>2, <1>3, <2>3 DEF AllLive
    <3>2. CASE i = 1
      <4>1. mounts'[n].mount = m.mount
        BY <1>3, <2>3, <3>2 DEF Is
      <4>2. \A j \in 1..n : mounts'[j].source \in Live
        BY <1>3, <1>4, <3>1
      <4> QED BY <1>3, <4>1, <4>2 DEF Settled
    <3>3. CASE i # 1
      <4>1. i - 1 \in DOMAIN queue' /\ queue'[i - 1] = queue[i]
        BY <1>2, <3>3
      <4>2. \A j \in DOMAIN queue' : queue'[j].source \in Live
        BY <1>2, <2>3 DEF AllLive
      <4> QED BY <2>3, <3>1, <4>1, <4>2 DEF AllLive
    <3> QED BY <3>2, <3>3
  <2> QED BY <2>1, <2>2, <2>3
<1> QED BY <1>5, <1>7, <1>8, <1>9 DEF MInv

(* The module ends, or waits for ever.                                     *)
LEMMA EndStep ==
    ASSUME MInv, UNCHANGED <<host, args, todo, seen, fallback, queue, mounts>>,
           pc' \in {"waiting", "done", "failed", "crashed"},
           pc' = "done" => todo = <<>> /\ queue = <<>> /\ ~fallback
    PROVE  MInv'
<1>1. HostShape' /\ Shape'
  BY DEF MInv, HostShape, Shape, Asked, host
<1>2. Progress'
  BY DEF MInv, host, Progress, Repeated, RealPath, Kernel, StableFound, Found, Is, Wants, Asked
<1>3. Distinct'
  BY DEF MInv, host, Distinct, SameLine, Origin, RealPath
<1>4. LiveFirst'
  BY DEF MInv, host, LiveFirst, Fresh, AllLive, Settled, Is, Wants
<1> QED BY <1>1, <1>2, <1>3, <1>4 DEF MInv

LEMMA ModuleStep == ASSUME MInv, Module PROVE MInv'
<1>1. CASE SkipSource \/ ReadSource \/ Fallback
  BY <1>1, SkipStep, ReadStep, FallbackStep
<1>2. CASE MountTimeout \/ MountError \/ BlkidTimeout
  <2>1. PICK how \in {"waiting", "failed", "crashed"} : Stop(how)
    <3>1. CASE MountError
      BY <3>1 DEF MountError
    <3>2. CASE MountTimeout \/ BlkidTimeout
      BY <3>2 DEF MountTimeout, BlkidTimeout, CommandTimeout
    <3> QED BY <1>2, <3>1, <3>2
  <2> QED BY <2>1, EndStep DEF Stop
<1>3. CASE Filtered
  BY <1>3, FilteredStep
<1>4. CASE Gather
  BY <1>4, ReportStep DEF Gather
<1>5. CASE GatherTimeout
  <2>1. CASE Report
    BY <1>5, <2>1, ReportStep DEF GatherTimeout
  <2>2. CASE ~Report
    BY <1>5, <2>2, EndStep DEF GatherTimeout, Stop
  <2> QED BY <2>1, <2>2
<1>6. CASE Finish
  BY <1>6, EndStep DEF Finish
<1> QED BY <1>1, <1>2, <1>3, <1>4, <1>5, <1>6 DEF Module

-----------------------------------------------------------------------------
(* What follows from the invariant                                         *)

LEMMA StableIsReported == MInv => StableReported
<1> SUFFICES ASSUME MInv, pc = "done", LiveReadable, NEW m \in stable, Wants(m)
             PROVE  \E i \in DOMAIN mounts : Kernel(mounts[i].source) /\ Is(mounts[i], m)
  BY DEF StableReported, Wants, Is
<1>1. todo = <<>> /\ queue = <<>> /\ ~fallback
  BY DEF MInv, Shape
<1>2. StableFound
  <2>1. CASE \E s \in Asked : Kernel(s)
    <3>1. PICK s \in Asked : Kernel(s)
      BY <2>1
    <3>2. Repeated(s)
      BY <1>1 DEF MInv, Progress, ToSet
    <3>3. \E r \in seen : Kernel(r)
      BY <3>1, <3>2, KernelReal DEF Repeated
    <3> QED BY <3>3 DEF MInv, Progress
  <2>2. CASE args.mount_binary /\ Asked \cap ToSet(Dynamic) # {}
    BY <1>1, <2>2 DEF MInv, Progress
  <2> QED BY <2>1, <2>2 DEF LiveReadable, Asked
<1>3. Found(m)
  BY <1>2 DEF StableFound
<1> QED BY <1>1, <1>3 DEF Found

LEMMA SourcesAreNotRepeated == MInv => NoRepeatedSource
BY DEF MInv, Distinct, SameLine, NoRepeatedSource

LEMMA LiveIsDefined == MInv => LiveDefinition
<1> SUFFICES ASSUME MInv, pc = "done", proc, args.sources = <<>>, NEW m \in stable, Wants(m)
             PROVE  MountPoints[m.mount].source \in Live
  BY DEF LiveDefinition, Wants
<1>1. todo = <<>> /\ queue = <<>> /\ mounts \in Seq(Entry)
  BY DEF MInv, Shape
<1>2. ~Fresh
  BY <1>1, AllSources DEF Fresh
<1>3. Settled(m)
  BY <1>1, <1>2 DEF MInv, LiveFirst
<1>4. PICK k \in DOMAIN mounts : mounts[k].mount = m.mount /\ \A j \in 1..k : mounts[j].source \in Live
  BY <1>3 DEF Settled
<1> DEFINE I == {i \in DOMAIN mounts : mounts[i].mount = m.mount}
           First(i) == mounts[i].mount = m.mount /\ \A j \in DOMAIN mounts : mounts[j].mount = m.mount => i <= j
           c == CHOOSE i \in DOMAIN mounts : First(i)
<1>5. \E i \in DOMAIN mounts : First(i)
  <2>1. I \subseteq Nat /\ I # {}
    BY <1>1, <1>4
  <2>2. Min(I) \in I /\ \A y \in I : Min(I) <= y
    <3> HIDE DEF I
    <3> QED BY <2>1, LeastIsMember
  <2> QED BY <2>2
<1>6. c \in DOMAIN mounts /\ First(c)
  <2> HIDE DEF First
  <2> QED BY <1>5
<1>7. MountPoints[m.mount] = mounts[c]
  BY <1>4 DEF MountPoints
<1> HIDE DEF c
<1>8. c \in 1..k
  BY <1>1, <1>4, <1>6
<1> QED BY <1>4, <1>7, <1>8

-----------------------------------------------------------------------------
(* The node: its facts and its checks                                      *)

HasDevice(p) == \E d \in NetDevices : NetDeviceOf[d] = p

(* A fact of a port is wrong only if its link was down.                    *)
PortFact(r) ==
    /\ r \in [name : Ports, rate : {"", "10"} \cup {Speed[p] : p \in Ports},
              net_device : NetDevices \cup {""}]
    /\ r.rate = Speed[r.name] \/ r.name \in flapped
    /\ r.net_device # "" <=> HasDevice(r.name)

(* A filesystem is as it was when the facts were gathered.                 *)
AsGathered(g) == g.mount \in ToSet(table) /\ g.mode = Mode(g.mount)

Facts ==
    /\ linkdown \subseteq flapped /\ flapped \subseteq Ports
    /\ readonly \subseteq KernelMounts /\ lost \subseteq KernelMounts
    /\ gathered \subseteq [mount : KernelMounts, mode : {"rw", "ro"}]
    /\ NoAutomountGathered => \A g \in CheckedMounts : AsGathered(g) \/ g.mount \in lost
    /\ scan \subseteq Ports
    /\ \A r \in ports : PortFact(r)
    /\ \A p \in Ports \ scan : \E r \in ports : r.name = p

Cause ==
    \/ \E g \in gathered : g.mount \in lost \ {Efi}
    \/ \E d \in NetDevices : NetDeviceOf[d] \in flapped

Checks ==
    /\ step \in {"mount_facts", "infiniband_facts", "configured"}
    /\ step # "configured" => conf = NoConf /\ state = "idle"
    /\ step = "configured" =>
          /\ scan = {}
          /\ conf.fs = {[mount |-> g.mount, mode |-> g.mode, option |-> "-f"] : g \in CheckedMounts}
          /\ conf.ib = {[rate |-> p.rate, name |-> p.name] : p \in CheckedPorts}
    /\ state \in {"idle", "down"}
    /\ state = "down" /\ NoAutomountGathered => Cause

HInv == MInv /\ Facts /\ Checks

LEMMA InitHInv == HealthInit => HInv
<1> SUFFICES ASSUME HealthInit PROVE HInv
  OBVIOUS
<1>1. MInv
  BY InitMInv DEF HealthInit
<1>2. /\ readonly \subseteq ToSet(table) /\ ToSet(table) \subseteq KernelMounts
      /\ \A g \in gathered : g \in [mount : KernelMounts, mode : {"rw", "ro"}] /\ AsGathered(g)
  <2>1. table \in Seq(KernelMounts)
    BY <1>1 DEF MInv, HostShape
  <2>2. ToSet(table) \subseteq KernelMounts
    BY <2>1 DEF ToSet
  <2>3. PICK t \in InitialTables :
            /\ ToSet(t) \subseteq ToSet(table)
            /\ gathered = {[mount |-> m, mode |-> Mode(m)] :
                              m \in {n \in ToSet(t) : n.fstype # "autofs"}}
    BY DEF HealthInit
  <2>4. \A m \in KernelMounts : Mode(m) \in {"rw", "ro"}
    BY DEF Mode
  <2>5. readonly \subseteq ToSet(table)
    BY DEF HealthInit
  <2> QED BY <2>2, <2>3, <2>4, <2>5 DEF AsGathered
<1>3. flapped \subseteq Ports
  BY DEF HealthInit
<1>4. Facts
  <2>1. lost = {} /\ linkdown \subseteq flapped /\ scan = Ports /\ ports = {}
    BY DEF HealthInit
  <2> QED BY <1>2, <1>3, <2>1 DEF Facts, CheckedMounts
<1>5. Checks
  BY DEF HealthInit, Checks
<1> QED BY <1>1, <1>4, <1>5 DEF HInv

LEMMA LinkStep == ASSUME HInv, NEW p \in Ports, Link(p) PROVE HInv'
<1>1. /\ UNCHANGED <<proc, table, hung, stable, module, readonly, lost, facts, step, conf, state>>
      /\ linkdown' \subseteq linkdown \cup {p} /\ flapped' = flapped \cup linkdown'
      /\ changes' = changes + 1 /\ changes < MaxChanges
  BY DEF Link, Change
<1>2. MInv'
  <2>1. HostShape'
    BY <1>1, MaxChangesAssumption DEF HInv, MInv, HostShape
  <2> QED BY <1>1, <2>1, HostStep DEF HInv
<1>3. Facts'
  BY <1>1 DEF HInv, Facts, facts, PortFact, AsGathered, Mode, CheckedMounts, NoAutomountGathered
<1>4. Checks'
  BY <1>1 DEF HInv, Checks, Cause, facts, CheckedMounts, CheckedPorts, NoAutomountGathered
<1> QED BY <1>2, <1>3, <1>4 DEF HInv

LEMMA FilesystemStep == ASSUME HInv, NEW m \in KernelMounts, Filesystem(m) PROVE HInv'
<1>1. MInv'
  BY MountUnmountHang DEF Filesystem, HInv
<1>2. /\ UNCHANGED <<linkdown, flapped, readonly, facts, step, conf, state>>
      /\ lost \subseteq lost' /\ lost' \subseteq lost \cup {m}
      /\ ToSet(table) \subseteq ToSet(table') \cup lost' \cup {n \in {m} : Automounted(n)}
  <2>0. table \in Seq(KernelMounts)
    BY DEF HInv, MInv, HostShape
  <2>1. CASE Mount(m) /\ UNCHANGED lost
    <3>1. \A i \in DOMAIN table : i \in DOMAIN table' /\ table'[i] = table[i]
      BY <2>0, <2>1, AppendFacts DEF Mount
    <3> QED BY <2>1, <3>1 DEF Filesystem, ToSet
  <2>2. CASE Unmount(m) /\ lost' = IF Automounted(m) THEN lost ELSE lost \cup {m}
    <3>1. ToSet(table) \ {m} \subseteq ToSet(table')
      BY <2>0, <2>2, RemoveFirstKeeps DEF Unmount
    <3> QED BY <2>2, <3>1 DEF Filesystem
  <2>3. CASE Hang(m) /\ UNCHANGED lost
    BY <2>3 DEF Filesystem, Hang
  <2> QED BY <2>1, <2>2, <2>3 DEF Filesystem
<1>3. Facts'
  <2>1. ASSUME NoAutomountGathered, NEW g \in CheckedMounts, AsGathered(g), g.mount \notin lost'
        PROVE  AsGathered(g)'
    <3>1. ToSet(table) \subseteq KernelMounts
      BY DEF HInv, MInv, HostShape, ToSet
    <3>2. g \in gathered /\ g.mount # Efi
      BY <2>1 DEF CheckedMounts
    <3>3. ~ (g.mount = m /\ Automounted(m))
      BY <2>1, <3>1, <3>2 DEF Automounted, NoAutomountGathered
    <3> QED BY <1>2, <2>1, <3>3 DEF AsGathered, Mode
  <2>2. NoAutomountGathered' => NoAutomountGathered
    BY <1>2 DEF facts, NoAutomountGathered
  <2>3. CheckedMounts' = CheckedMounts
    BY <1>2 DEF facts, CheckedMounts
  <2>4. NoAutomountGathered' => \A g \in CheckedMounts : AsGathered(g)' \/ g.mount \in lost'
    BY <1>2, <2>1, <2>2 DEF HInv, Facts
  <2> QED BY <1>2, <2>3, <2>4 DEF HInv, Facts, facts, PortFact
<1>4. Checks'
  BY <1>2 DEF HInv, Checks, Cause, facts, CheckedMounts, CheckedPorts, NoAutomountGathered
<1> QED BY <1>1, <1>3, <1>4 DEF HInv

LEMMA RemountStep == ASSUME HInv, NEW m \in KernelMounts, Remount(m) PROVE HInv'
<1>1. /\ UNCHANGED <<proc, table, hung, stable, module, linkdown, flapped, facts, step, conf, state>>
      /\ readonly' = (IF m \in readonly THEN readonly \ {m} ELSE readonly \cup {m})
      /\ lost' = lost \cup {m} /\ changes' = changes + 1 /\ changes < MaxChanges
  BY DEF Remount, Change
<1>2. MInv'
  <2>1. HostShape'
    BY <1>1, MaxChangesAssumption DEF HInv, MInv, HostShape
  <2> QED BY <1>1, <2>1, HostStep DEF HInv
<1>3. Facts'
  <2>1. ASSUME NEW g \in CheckedMounts, AsGathered(g), g.mount \notin lost'
        PROVE  AsGathered(g)'
    BY <1>1, <2>1 DEF AsGathered, Mode
  <2>2. CheckedMounts' = CheckedMounts /\ (NoAutomountGathered' => NoAutomountGathered)
    BY <1>1 DEF facts, CheckedMounts, NoAutomountGathered
  <2>3. NoAutomountGathered' => \A g \in CheckedMounts : AsGathered(g)' \/ g.mount \in lost'
    BY <1>1, <2>1, <2>2 DEF HInv, Facts
  <2> QED BY <1>1, <2>2, <2>3 DEF HInv, Facts, facts, PortFact
<1>4. Checks'
  BY <1>1 DEF HInv, Checks, Cause, facts, CheckedMounts, CheckedPorts, NoAutomountGathered
<1> QED BY <1>2, <1>3, <1>4 DEF HInv

LEMMA QuietStep ==
    ASSUME HInv, UNCHANGED vars PROVE MInv'
<1>1. HostShape'
  BY DEF HInv, MInv, HostShape, vars, host
<1> QED BY <1>1, HostStep DEF HInv, vars, host

LEMMA CollectStep == ASSUME HInv, CollectMountFacts PROVE HInv'
<1>1. MInv'
  BY ModuleStep DEF CollectMountFacts, HInv
<1>2. UNCHANGED health /\ table' = table
  BY DEF CollectMountFacts, Module, SkipSource, ReadSource, Fallback, MountTimeout, MountError,
         BlkidTimeout, CommandTimeout, Stop, Filtered, Gather, GatherTimeout, Report, Finish, host
<1>3. Facts'
  BY <1>2 DEF HInv, Facts, health, links, facts, PortFact, AsGathered, Mode, CheckedMounts, NoAutomountGathered
<1>4. Checks'
  BY <1>2 DEF HInv, Checks, Cause, health, links, facts, CheckedMounts, CheckedPorts, NoAutomountGathered
<1> QED BY <1>1, <1>3, <1>4 DEF HInv

LEMMA SetStep == ASSUME HInv, SetAutofsMounts PROVE HInv'
<1>1. MInv'
  BY QuietStep DEF SetAutofsMounts
<1>2. UNCHANGED <<links, gathered, scan, ports, conf, state, table>> /\ step # "configured" /\ step' = "infiniband_facts"
  BY DEF SetAutofsMounts, vars, host
<1>3. Facts'
  BY <1>2 DEF HInv, Facts, links, PortFact, AsGathered, Mode, CheckedMounts, NoAutomountGathered
<1>4. Checks'
  BY <1>2 DEF HInv, Checks, Cause, links
<1> QED BY <1>1, <1>3, <1>4 DEF HInv

(* A port is given a net device if and only if it has one.                 *)
LEMMA PortHasDevice ==
    ASSUME NEW p \in Ports, NEW macs \in MacAddresses, NEW d \in PortNetDevices(p, macs)
    PROVE  d \in NetDevices \cup {""} /\ (d # "" <=> HasDevice(p))
<1> DEFINE matches == Gids[p] \cap DOMAIN macs
<1>1. /\ DOMAIN macs = {PortGid(e) : e \in NetDevices}
      /\ \A g \in DOMAIN macs : macs[g] \in NetDevices
  BY DEF MacAddresses
<1>2. \A e \in NetDevices : PortGid(e) = Mac[e][Len(Mac[e])]
  <2> SUFFICES ASSUME NEW e \in NetDevices PROVE PortGid(e) = Mac[e][Len(Mac[e])]
    OBVIOUS
  <2>1. Len(Mac[e]) = 1 \/ Len(Mac[e]) = 2
    <3>1. Len(Mac[e]) \in 1..2
      BY NetDevicesAssumption
    <3> QED BY <3>1
  <2> QED BY <2>1 DEF PortGid
<1>3. matches # {} <=> HasDevice(p)
  <2>1. ASSUME NEW e \in NetDevices, NetDeviceOf[e] = p PROVE PortGid(e) \in Gids[p]
    BY <2>1, NetDevicesAssumption DEF PortGid
  <2>2. ASSUME NEW e \in NetDevices, PortGid(e) \in Gids[p] PROVE HasDevice(p)
    BY <1>2, <2>2, NetDevicesAssumption DEF HasDevice
  <2> QED BY <1>1, <2>1, <2>2 DEF HasDevice
<1>4. CASE matches = {}
  BY <1>3, <1>4 DEF PortNetDevices
<1>5. CASE matches # {}
  <2>1. d \in {macs[g] : g \in matches}
    BY <1>5 DEF PortNetDevices
  <2>2. d \in NetDevices
    BY <1>1, <2>1
  <2> QED BY <1>3, <1>5, <2>2, NetDevicesAssumption
<1> QED BY <1>4, <1>5

LEMMA ReadPortStep == ASSUME HInv, ReadPort PROVE HInv'
<1>1. MInv'
  BY QuietStep DEF ReadPort
<1>2. /\ UNCHANGED <<links, gathered, autofs, step, conf, state, table>>
      /\ step = "infiniband_facts"
  BY DEF ReadPort, vars, host
<1>0. PICK p \in scan, macs \in MacAddresses :
        \E raw \in RateFile(p), d \in PortNetDevices(p, macs) :
            /\ scan' = scan \ {p}
            /\ ports' = ports \cup {[name |-> p, rate |-> Rate(raw), net_device |-> d]}
  BY DEF ReadPort
<1>3. PICK raw \in RateFile(p), d \in PortNetDevices(p, macs) :
        /\ scan' = scan \ {p}
        /\ ports' = ports \cup {[name |-> p, rate |-> Rate(raw), net_device |-> d]}
  BY <1>0
<1> DEFINE r == [name |-> p, rate |-> Rate(raw), net_device |-> d]
<1>4. PortFact(r)
  <2>1. p \in Ports /\ linkdown \subseteq flapped
    BY DEF HInv, Facts
  <2>2. d \in NetDevices \cup {""} /\ (d # "" <=> HasDevice(p))
    BY <2>1, PortHasDevice
  <2>3. Rate(raw) \in {"", "10"} \cup {Speed[q] : q \in Ports} /\ (Rate(raw) = Speed[p] \/ p \in flapped)
    <3>1. CASE p \in linkdown
      BY <2>1, <3>1 DEF RateFile, Rate
    <3>2. CASE p \notin linkdown
      BY <2>1, <3>2, SpeedAssumption DEF RateFile, Rate
    <3> QED BY <3>1, <3>2
  <2> QED BY <2>1, <2>2, <2>3 DEF PortFact
<1>5. r.name = p
  OBVIOUS
<1> HIDE DEF r
<1>6. ports' = ports \cup {r}
  BY <1>3 DEF r
<1>7. Facts'
  <2>1. UNCHANGED <<linkdown, flapped, readonly, lost, gathered, table>>
    BY <1>2 DEF links
  <2>2. \A q \in ports' : PortFact(q)'
    BY <1>4, <1>6, <2>1 DEF HInv, Facts, PortFact
  <2>3. \A q \in Ports \ scan' : \E x \in ports' : x.name = q
    BY <1>3, <1>5, <1>6 DEF HInv, Facts
  <2>4. scan' \subseteq Ports
    BY <1>3 DEF HInv, Facts
  <2> QED BY <2>1, <2>2, <2>3, <2>4 DEF HInv, Facts, AsGathered, Mode, CheckedMounts, NoAutomountGathered
<1>8. Checks'
  BY <1>2 DEF HInv, Checks, Cause, links, NoAutomountGathered
<1> QED BY <1>1, <1>7, <1>8 DEF HInv

LEMMA TemplateStep == ASSUME HInv, Template PROVE HInv'
<1>1. MInv'
  BY QuietStep DEF Template
<1>2. /\ UNCHANGED <<links, facts, state, table>> /\ step = "infiniband_facts" /\ step' = "configured" /\ scan = {}
      /\ conf'.fs = {[mount |-> g.mount, mode |-> g.mode, option |-> "-f"] : g \in CheckedMounts}
      /\ conf'.ib = {[rate |-> p.rate, name |-> p.name] : p \in CheckedPorts}
  BY DEF Template, vars, host
<1>3. Facts'
  BY <1>2 DEF HInv, Facts, links, facts, PortFact, AsGathered, Mode, CheckedMounts, NoAutomountGathered
<1>4. Checks'
  BY <1>2 DEF HInv, Checks, Cause, links, facts, CheckedMounts, CheckedPorts, NoAutomountGathered
<1> QED BY <1>1, <1>3, <1>4 DEF HInv

(* A check fails for a cause.                                              *)
LEMMA HealthCheckStep == ASSUME HInv, HealthCheck PROVE HInv'
<1>1. MInv'
  BY QuietStep DEF HealthCheck
<1>2. UNCHANGED <<links, facts, step, conf, table>> /\ step = "configured" /\ ~Passes /\ state' = "down"
  BY DEF HealthCheck, vars, host
<1>3. NoAutomountGathered => Cause
  <2>1. ASSUME NoAutomountGathered, \E c \in conf.fs : ~ (c.mount \in ToSet(table) /\ c.mode = Mode(c.mount))
        PROVE  Cause
    <3>1. PICK g \in CheckedMounts : ~AsGathered(g)
      BY <1>2, <2>1 DEF HInv, Checks, AsGathered
    <3>2. g \in gathered /\ g.mount \in lost \ {Efi}
      BY <2>1, <3>1 DEF HInv, Facts, CheckedMounts
    <3> QED BY <3>2 DEF Cause
  <2>2. CASE \E c \in conf.ib : ~ (c.rate = Speed[c.name] /\ c.name \notin linkdown)
    <3>1. PICK r \in CheckedPorts : ~ (r.rate = Speed[r.name] /\ r.name \notin linkdown)
      BY <1>2, <2>2 DEF HInv, Checks
    <3>2. r.name \in flapped /\ HasDevice(r.name)
      BY <3>1 DEF HInv, Facts, CheckedPorts, PortFact
    <3> QED BY <3>2 DEF HasDevice, Cause
  <2> QED BY <1>2, <2>1, <2>2 DEF Passes
<1>4. Facts'
  BY <1>2 DEF HInv, Facts, links, facts, PortFact, AsGathered, Mode, CheckedMounts, NoAutomountGathered
<1>5. Checks'
  BY <1>2, <1>3 DEF HInv, Checks, Cause, links, facts, CheckedMounts, CheckedPorts, NoAutomountGathered
<1> QED BY <1>1, <1>4, <1>5 DEF HInv

LEMMA HealthStutter == ASSUME HInv, UNCHANGED allvars PROVE HInv'
<1>1. MInv'
  BY QuietStep DEF allvars
<1>2. Facts' /\ Checks'
  BY DEF HInv, Facts, Checks, Cause, allvars, vars, host, health, links, facts, PortFact, CheckedMounts, CheckedPorts,
         AsGathered, Mode, NoAutomountGathered
<1> QED BY <1>1, <1>2 DEF HInv

THEOREM Invariance == HealthSpec => []HInv
<1>1. ASSUME HInv, [HealthNext]_allvars PROVE HInv'
  BY <1>1, LinkStep, FilesystemStep, RemountStep, CollectStep, SetStep, ReadPortStep, TemplateStep, HealthCheckStep,
     HealthStutter DEF HealthNext
<1> QED BY InitHInv, <1>1, PTL DEF HealthSpec

-----------------------------------------------------------------------------
(* What is gathered, templated and reported has its type, the mounts are   *)
(* of the filesystems that are wanted.                                     *)
THEOREM TypeCorrect == HealthSpec => []HealthTypeOK
<1>1. ASSUME HInv PROVE TypeOK
  <2>1. ToSet(table) \subseteq KernelMounts
    BY <1>1 DEF HInv, MInv, HostShape, ToSet
  <2> QED BY <1>1, <2>1 DEF HInv, MInv, HostShape, Shape, TypeOK, Asked
<1>2. ASSUME HInv
      PROVE  /\ conf.fs \subseteq [mount : KernelMounts, mode : {"rw", "ro"}, option : {"-f", "-F"}]
             /\ conf.ib \subseteq [rate : {p.rate : p \in ports}, name : Ports]
  <2>1. CASE step = "configured"
    <3>1. CheckedMounts \subseteq [mount : KernelMounts, mode : {"rw", "ro"}]
      BY <1>2 DEF HInv, Facts, CheckedMounts
    <3>2. \A r \in CheckedPorts : r \in ports /\ r.name \in Ports
      BY <1>2 DEF HInv, Facts, CheckedPorts, PortFact
    <3>3. /\ conf.fs = {[mount |-> g.mount, mode |-> g.mode, option |-> "-f"] : g \in CheckedMounts}
          /\ conf.ib = {[rate |-> p.rate, name |-> p.name] : p \in CheckedPorts}
      BY <1>2, <2>1 DEF HInv, Checks
    <3> QED BY <3>1, <3>2, <3>3
  <2>2. CASE step # "configured"
    BY <1>2, <2>2 DEF HInv, Checks, NoConf
  <2> QED BY <2>1, <2>2
<1>3. HInv => HealthTypeOK
  BY <1>1, <1>2 DEF HInv, Facts, Checks, PortFact, HealthTypeOK
<1> QED BY <1>3, Invariance, PTL

(* A filesystem that stays mounted is reported from a live source.         *)
THEOREM StableIsFound == HealthSpec => []StableReported
<1>1. HInv => StableReported
  BY StableIsReported DEF HInv
<1> QED BY <1>1, Invariance, PTL

(* No line of a file is reported twice.                                    *)
THEOREM NoneIsRepeated == HealthSpec => []NoRepeatedSource
<1>1. HInv => NoRepeatedSource
  BY SourcesAreNotRepeated DEF HInv
<1> QED BY <1>1, Invariance, PTL

(* By default the mount points are defined by the kernel.                  *)
THEOREM KernelDefines == HealthSpec => []LiveDefinition
<1>1. HInv => LiveDefinition
  BY LiveIsDefined DEF HInv
<1> QED BY <1>1, Invariance, PTL

(* NHC checks exactly the ports with a net device, at their full speed,    *)
(* unless a link went down.                                                *)
THEOREM PortsAreChecked == HealthSpec => []InfinibandChecked
<1>1. ASSUME HInv, step = "configured", flapped = {}
      PROVE  conf.ib = {[rate |-> Speed[p], name |-> p] : p \in {q \in Ports : HasDevice(q)}}
  <2>1. conf.ib = {[rate |-> r.rate, name |-> r.name] : r \in CheckedPorts} /\ scan = {}
    BY <1>1 DEF HInv, Checks
  <2>2. \A r \in CheckedPorts : r.rate = Speed[r.name] /\ r.name \in {q \in Ports : HasDevice(q)}
    BY <1>1 DEF HInv, Facts, PortFact, CheckedPorts
  <2>3. \A p \in {q \in Ports : HasDevice(q)} : \E r \in CheckedPorts : r.name = p
    BY <1>1, <2>1 DEF HInv, Facts, PortFact, CheckedPorts
  <2> QED BY <2>1, <2>2, <2>3
<1>2. HInv => InfinibandChecked
  BY <1>1 DEF InfinibandChecked, HasDevice
<1> QED BY <1>2, Invariance, PTL

(* If no automount was mounted when the facts were gathered, a node goes   *)
(* DOWN only for something that happened to it.                            *)
THEOREM DownHasCause == HealthSpec => []DownForCause
<1>1. HInv => DownForCause
  BY DEF HInv, Checks, Cause, DownForCause
<1> QED BY <1>1, Invariance, PTL
=============================================================================
