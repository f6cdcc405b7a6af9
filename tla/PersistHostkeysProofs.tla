------------------------ MODULE PersistHostkeysProofs ------------------------
(***************************************************************************)
(* Proofs about PersistHostkeys: for every group of hosts, every set of    *)
(* key types, any number of runs and rebuilds, and crashes of the control  *)
(* node at any command of any host's script.                               *)
(***************************************************************************)
EXTENDS PersistHostkeys, TLAPS

(* Only a run of the role has hosts at work.                               *)
Runs == pc # "idle" => run >= 1

(* Scripts only run in the task that generates keys, and for hosts that    *)
(* found none.                                                             *)
Scripts == \A h \in Hosts : shell[h] # "none" => pc = "generate" /\ h \in generate

(* What a host presents is its own or in the store.                        *)
PresentedIsStored ==
    \A h \in Hosts : \A f \in Files :
        \/ etcSsh[h][f] = Own(h)
        \/ store[f] # NoKey /\ etcSsh[h][f] = store[f]

(* Keys are only generated if no host presents shared ones: the store is   *)
(* empty while the hosts look for keys, and what is presented is stored.   *)
GenerateFirst ==
    generate # {} /\ pc \in {"check", "generate"} =>
        /\ pc = "check" => store = NoKeys
        /\ \A h \in Hosts : etcSsh[h] = OwnKeys(h)

PresentsStore(h) == \A f \in Files : store[f] # NoKey => etcSsh[h][f] = store[f]

(* What the tasks after it hand on is the store, which they do not change. *)
Distributed ==
    \A h \in Hosts :
        /\ pc = "slurp" /\ h \notin todo => slurped[h] = store
        /\ pc = "copy" => slurped[h] = store
        /\ pc = "copy" /\ h \notin todo => PresentsStore(h)
        /\ pc = "done" => PresentsStore(h)

(* No script loses a private key: what its ssh-keygen has looked at stays  *)
(* in the directory or is in the store, and when its mv has come to its    *)
(* end all are in the store. Thus no rm removes the only copy of one.      *)
Kept(t) == Saved(t) \/ tmp[<<t, "key">>] # NoKey

NoneIsLost ==
    \A h \in Hosts :
        /\ shell[h] = "keygen" => \A t \in Types \ types[h] : Kept(t)
        /\ shell[h] = "keygen" /\ ~made => AllPrivate
        /\ shell[h] = "mv" => \A t \in Types : \/ Saved(t)
                                              \/ /\ <<t, "key">> \in moves[h]
                                                 /\ Kept(t)

(* Unless a crash has met a mv, the store is empty or has all private keys *)
(* whenever no mv is at work.                                              *)
Complete ==
    ~crashed =>
        /\ pc \in {"idle", "check"} => store = NoKeys \/ AllPrivate
        /\ pc = "check" => \A h \in Hosts \ (generate \cup todo) : AllPrivate
        /\ pc = "generate" =>
              /\ \A h \in Hosts : h \in todo \cap generate \/ AllPrivate
              /\ store = NoKeys \/ AllPrivate \/ \E h \in Hosts : shell[h] = "mv"
        /\ pc \in {"slurp", "copy", "done"} => AllPrivate

IInv ==
    /\ TypeOK
    /\ Runs
    /\ Scripts
    /\ PresentedIsStored
    /\ GenerateFirst
    /\ Distributed
    /\ NoneIsLost
    /\ Complete

-----------------------------------------------------------------------------

LEMMA TasksFact ==
    /\ DOMAIN NextTask = {"check", "generate", "slurp", "copy"}
    /\ NextTask["check"] = "generate" /\ NextTask["generate"] = "slurp"
    /\ NextTask["slurp"] = "copy" /\ NextTask["copy"] = "done"
BY DEF NextTask

LEMMA NoKeysFact ==
    /\ NoKeys \in Dirs
    /\ \A f \in Files : NoKeys[f] = NoKey
    /\ Present(NoKeys) = {}
    /\ \A dir \in Dirs : Present(dir) = {} => dir = NoKeys
<1>1. NoKeys \in Dirs /\ \A f \in Files : NoKeys[f] = NoKey
  BY DEF NoKeys, Dirs
<1>2. Present(NoKeys) = {}
  BY <1>1 DEF Present
<1>3. ASSUME NEW dir \in Dirs, Present(dir) = {} PROVE dir = NoKeys
  <2>1. \A f \in Files : dir[f] = NoKey
    BY <1>3 DEF Present
  <2> QED BY <2>1 DEF Dirs, NoKeys
<1> QED BY <1>1, <1>2, <1>3

LEMMA OwnKeysFact ==
    \A h \in Hosts : /\ Own(h) \in Keys /\ Own(h) # NoKey
                     /\ OwnKeys(h) \in Dirs
                     /\ \A f \in Files : OwnKeys(h)[f] = Own(h)
<1> SUFFICES ASSUME NEW h \in Hosts
             PROVE  /\ Own(h) \in Keys /\ Own(h) # NoKey /\ OwnKeys(h) \in Dirs
                    /\ \A f \in Files : OwnKeys(h)[f] = Own(h)
  OBVIOUS
<1>1. Own(h) \in Keys
  BY MaxRunsAssumption DEF Own, Keys
<1>2. Own(h) # NoKey
  BY <1>1, NoKeyAssumption DEF Keys
<1> QED BY <1>1, <1>2 DEF OwnKeys, Dirs

LEMMA InitInv == Init => IInv
<1> SUFFICES ASSUME Init PROVE IInv
  OBVIOUS
<1>1. TypeOK
  <2>1. /\ store \in Dirs /\ tmp \in Dirs /\ made \in BOOLEAN /\ Present(tmp) = {}
        /\ etcSsh \in [Hosts -> Dirs] /\ slurped \in [Hosts -> Dirs]
    BY NoKeysFact, OwnKeysFact DEF Init
  <2>2. run \in 0..MaxRuns /\ pc = "idle" /\ todo = {} /\ generate = {}
    BY MaxRunsAssumption DEF Init
  <2>3. /\ shell \in [Hosts -> {"none", "mkdir", "keygen", "mv"}]
        /\ types \in [Hosts -> SUBSET Types] /\ half \in [Hosts -> SUBSET Types]
        /\ moves \in [Hosts -> SUBSET Files] /\ crashed \in BOOLEAN
    BY DEF Init
  <2> QED BY <2>1, <2>2, <2>3 DEF TypeOK
<1>2. \A h \in Hosts : etcSsh[h] = OwnKeys(h) /\ shell[h] = "none"
  BY DEF Init
<1>3. pc = "idle" /\ generate = {} /\ store = NoKeys
  BY DEF Init
<1>4. PresentedIsStored
  BY <1>2, OwnKeysFact DEF PresentedIsStored
<1>5. NoneIsLost /\ Complete
  BY <1>2, <1>3 DEF NoneIsLost, Complete
<1> QED BY <1>1, <1>2, <1>3, <1>4, <1>5 DEF IInv, Runs, Scripts, GenerateFirst, Distributed

(* Outside the scripts the files on the control node stay as they are.     *)
LEMMA QuietNoneIsLost ==
    ASSUME NoneIsLost, UNCHANGED <<store, made, tmp, shell, types, moves>>
    PROVE  NoneIsLost'
BY DEF NoneIsLost, Kept, Saved, AllPrivate

(* A run starts: no host has looked for keys yet.                          *)
LEMMA StartInv == ASSUME IInv, Start PROVE IInv'
<1> USE DEF IInv, shells
<1>1. TypeOK'
  BY TasksFact, MaxRunsAssumption DEF Start, TypeOK, Present
<1>2. /\ pc' = "check" /\ generate' = {} /\ todo' = Hosts /\ Runs'
      /\ UNCHANGED <<store, made, tmp, etcSsh, shells, crashed>>
      /\ pc \in {"idle", "done"}
  BY DEF Start, Runs, TypeOK
<1>3. Scripts'
  BY <1>2, TasksFact DEF Start, Scripts
<1>4. NoneIsLost'
  BY <1>2, QuietNoneIsLost
<1>5. Complete'
  BY <1>2 DEF Complete, AllPrivate, Saved
<1> QED BY <1>1, <1>2, <1>3, <1>4, <1>5 DEF PresentedIsStored, GenerateFirst, Distributed

LEMMA RebuildInv == ASSUME IInv, NEW h \in Hosts, Rebuild(h) PROVE IInv'
<1> USE DEF IInv, shells
<1>1. TypeOK'
  BY OwnKeysFact DEF Rebuild, TypeOK, Present
<1>2. /\ UNCHANGED <<store, made, tmp, run, todo, generate, slurped, shells, crashed>>
      /\ pc \in {"idle", "done"} /\ pc' = "idle"
  BY DEF Rebuild
<1>3. etcSsh'[h] = OwnKeys(h) /\ \A g \in Hosts \ {h} : etcSsh'[g] = etcSsh[g]
  BY DEF Rebuild, TypeOK
<1>4. PresentedIsStored' /\ Distributed'
  BY <1>2, <1>3, OwnKeysFact DEF PresentedIsStored, Distributed
<1>5. NoneIsLost' /\ Complete'
  BY <1>2, QuietNoneIsLost DEF Complete, AllPrivate, Saved
<1> QED BY <1>1, <1>2, <1>4, <1>5 DEF Runs, Scripts, GenerateFirst

(* The control node goes down: scripts end, the store stays.               *)
LEMMA CrashInv == ASSUME IInv, Crash PROVE IInv'
<1> USE DEF IInv
<1>1. TypeOK'
  BY DEF Crash, TypeOK, Present
<1>2. /\ pc' = "idle" /\ pc \in {"check", "generate", "slurp", "copy"}
      /\ UNCHANGED <<store, etcSsh>> /\ \A h \in Hosts : shell'[h] = "none"
      /\ crashed' = (crashed \/ \E h \in Hosts : shell[h] = "mv")
  BY TasksFact DEF Crash
<1>3. NoneIsLost'
  BY <1>2 DEF NoneIsLost
<1>4. Complete'
  BY <1>2, HostsAssumption DEF Complete, AllPrivate, Saved
<1> QED BY <1>1, <1>2, <1>3, <1>4 DEF Runs, Scripts, PresentedIsStored, GenerateFirst, Distributed

LEMMA TaskEndInv == ASSUME IInv, TaskEnd PROVE IInv'
<1> USE DEF IInv
<1>1. /\ pc' = NextTask[pc] /\ pc \in {"check", "generate", "slurp", "copy"} /\ todo = {}
      /\ UNCHANGED <<store, made, tmp, etcSsh, run, generate, slurped, types, half, moves,
                     crashed>>
  BY TasksFact DEF TaskEnd
<1>2. /\ todo' \subseteq Hosts
      /\ pc' \in {"slurp", "copy"} => todo' = Hosts
      /\ pc' \in {"generate", "slurp", "copy", "done"}
      /\ pc' = "generate" => todo' = generate
  BY <1>1, TasksFact DEF TaskEnd, TypeOK
<1>3. /\ shell' \in [Hosts -> {"none", "mkdir", "keygen", "mv"}]
      /\ \A h \in Hosts : /\ shell'[h] # "none" => pc' = "generate" /\ h \in generate
                          /\ shell'[h] \in {"none", "mkdir"}
  BY DEF TaskEnd
<1>4. TypeOK'
  BY <1>1, <1>2, <1>3, TasksFact DEF TypeOK, Present
<1>5. Runs' /\ Scripts' /\ PresentedIsStored'
  BY <1>1, <1>3 DEF Runs, Scripts, PresentedIsStored
<1>6. GenerateFirst'
  BY <1>1, <1>2, TasksFact DEF GenerateFirst
<1>7. Distributed'
  BY <1>1, <1>2, TasksFact DEF Distributed, PresentsStore
<1>8. NoneIsLost'
  BY <1>3 DEF NoneIsLost
<1>9. Complete'
  <2>1. CASE pc = "check"
    BY <1>1, <1>2, <2>1, TasksFact DEF Complete, AllPrivate, Saved
  <2>2. CASE pc = "generate"
    BY <1>1, <2>2, TasksFact, HostsAssumption DEF Complete, AllPrivate, Saved
  <2>3. CASE pc \in {"slurp", "copy"}
    BY <1>1, <2>3, TasksFact DEF Complete, AllPrivate, Saved
  <2> QED BY <1>1, <2>1, <2>2, <2>3
<1> QED BY <1>4, <1>5, <1>6, <1>7, <1>8, <1>9

(* The tasks that visit the hosts one by one.                              *)
LEMMA CheckInv == ASSUME IInv, NEW h \in Hosts, Check(h) PROVE IInv'
<1> USE DEF IInv, shells
<1>1. TypeOK'
  BY DEF Check, TypeOK, Present
<1>2. /\ UNCHANGED <<store, made, tmp, etcSsh, run, pc, shells, crashed>> /\ pc = "check"
      /\ generate' # generate => Present(store) = {}
      /\ todo' = todo \ {h}
      /\ Present(store) = {} => h \in generate'
      /\ generate \subseteq generate'
  BY DEF Check
<1>3. Scripts'
  BY <1>2 DEF Scripts
<1>4. GenerateFirst'
  <2>1. CASE generate' = generate
    BY <1>2, <2>1 DEF GenerateFirst
  <2>2. CASE Present(store) = {}
    <3>1. store = NoKeys /\ \A g \in Hosts : \A f \in Files : etcSsh[g][f] = Own(g)
      BY <2>2, NoKeysFact DEF PresentedIsStored, TypeOK
    <3>2. \A g \in Hosts : etcSsh[g] = OwnKeys(g)
      BY <3>1 DEF TypeOK, Dirs, OwnKeys
    <3> QED BY <1>2, <3>1, <3>2 DEF GenerateFirst
  <2> QED BY <1>2, <2>1, <2>2
<1>5. NoneIsLost'
  BY <1>2, QuietNoneIsLost
<1>6. Complete'
  <2>1. store = NoKeys => h \in generate'
    BY <1>2, NoKeysFact
  <2> QED BY <1>2, <2>1 DEF Complete, AllPrivate, Saved
<1> QED BY <1>1, <1>2, <1>3, <1>4, <1>5, <1>6 DEF Runs, PresentedIsStored, Distributed

LEMMA SlurpInv == ASSUME IInv, NEW h \in Hosts, Slurp(h) PROVE IInv'
<1> USE DEF IInv, shells
<1>1. TypeOK'
  BY DEF Slurp, TypeOK, Present
<1>2. /\ UNCHANGED <<store, made, tmp, etcSsh, run, pc, generate, shells, crashed>>
      /\ pc = "slurp"
  BY DEF Slurp
<1>3. Distributed'
  BY <1>2 DEF Slurp, Distributed, TypeOK
<1>4. NoneIsLost' /\ Complete'
  BY <1>2, QuietNoneIsLost DEF Complete, AllPrivate, Saved
<1> QED BY <1>1, <1>2, <1>3, <1>4 DEF Runs, Scripts, PresentedIsStored, GenerateFirst

(* A copy gives a host the whole store, and leaves it its own keys of the  *)
(* types that the store has not.                                           *)
LEMMA CopyIsStore ==
    ASSUME IInv, NEW h \in Hosts, Copy(h)
    PROVE  etcSsh' = [etcSsh EXCEPT ![h] = [f \in Files |->
                         IF store[f] # NoKey THEN store[f] ELSE etcSsh[h][f]]]
BY DEF IInv, Distributed, Copy

LEMMA CopyInv == ASSUME IInv, NEW h \in Hosts, Copy(h) PROVE IInv'
<1> USE DEF IInv, shells
<1>1. /\ UNCHANGED <<store, made, tmp, run, pc, generate, slurped, shells, crashed>>
      /\ pc = "copy"
  BY DEF Copy
<1>2. /\ etcSsh' = [etcSsh EXCEPT ![h] = [f \in Files |->
                      IF store[f] # NoKey THEN store[f] ELSE etcSsh[h][f]]]
      /\ todo' = todo \ {h}
  BY CopyIsStore DEF Copy
<1>3. TypeOK'
  BY <1>1, <1>2 DEF TypeOK, Present, Dirs
<1>4. /\ \A f \in Files :
            etcSsh'[h][f] = IF store[f] # NoKey THEN store[f] ELSE etcSsh[h][f]
      /\ \A g \in Hosts \ {h} : etcSsh'[g] = etcSsh[g]
  BY <1>2 DEF TypeOK
<1>5. Distributed'
  BY <1>1, <1>2, <1>4 DEF Distributed, PresentsStore
<1>6. PresentedIsStored'
  BY <1>1, <1>4 DEF PresentedIsStored
<1>7. NoneIsLost' /\ Complete'
  BY <1>1, QuietNoneIsLost DEF Complete, AllPrivate, Saved
<1> QED BY <1>1, <1>3, <1>5, <1>6, <1>7 DEF Runs, Scripts, GenerateFirst

(* A command of a host's script touches neither what hosts present nor     *)
(* what the tasks hand on, and runs only while no host presents a shared   *)
(* key.                                                                    *)
LEMMA CommandInv ==
    ASSUME IInv, TypeOK', UNCHANGED <<etcSsh, run, pc, generate, slurped>>,
           NEW h \in Hosts, shell[h] # "none",
           \A g \in Hosts \ {h} : shell'[g] = shell[g]
    PROVE  Runs' /\ Scripts' /\ PresentedIsStored' /\ GenerateFirst' /\ Distributed'
<1> USE DEF IInv
<1>1. pc = "generate" /\ h \in generate /\ \A g \in Hosts : etcSsh[g] = OwnKeys(g)
  BY DEF Scripts, GenerateFirst
<1>2. PresentedIsStored'
  BY <1>1, OwnKeysFact DEF PresentedIsStored
<1> QED BY <1>1, <1>2 DEF Runs, Scripts, GenerateFirst, Distributed

LEMMA ScriptType ==
    ASSUME IInv, NEW h \in Hosts,
           \/ Mkdir(h) \/ Glob(h) \/ Remove(h)
           \/ \E t \in Types : KeygenPrivate(h, t) \/ KeygenPublic(h, t)
           \/ \E f \in Files : Move(h, f)
    PROVE  TypeOK'
<1> USE DEF TypeOK, Script
<1>1. TypeOK
  BY DEF IInv
<1>2. CASE Mkdir(h)
  BY <1>1, <1>2 DEF Mkdir
<1>3. CASE Glob(h)
  <2>1. Present(tmp) \subseteq Files
    BY DEF Present
  <2> QED BY <1>1, <1>3, <2>1 DEF Glob, Present
<1>4. CASE Remove(h)
  BY <1>1, <1>4, NoKeysFact DEF Remove
<1>5. shell[h] # "none" => <<h, run>> \in Keys
  BY <1>1 DEF IInv, Scripts, Runs, Keys
<1>6. ASSUME NEW t \in Types, KeygenPrivate(h, t) PROVE TypeOK'
  <2>1. /\ tmp' = tmp \/ (made /\ tmp' = [tmp EXCEPT ![<<t, "key">>] = <<h, run>>])
        /\ half' = half \/ half' = [half EXCEPT ![h] = {t}]
    BY <1>6 DEF KeygenPrivate
  <2>2. tmp' \in Dirs
    BY <1>1, <1>5, <1>6, <2>1 DEF KeygenPrivate, Dirs
  <2>3. ~made => Present(tmp') = {}
    BY <1>1, <2>1
  <2> QED BY <1>1, <1>6, <2>1, <2>2, <2>3 DEF KeygenPrivate, Present
<1>7. ASSUME NEW t \in Types, KeygenPublic(h, t) PROVE TypeOK'
  <2>1. tmp' = tmp \/ (made /\ tmp' = [tmp EXCEPT ![<<t, "pub">>] = <<h, run>>])
    BY <1>7 DEF KeygenPublic
  <2>2. tmp' \in Dirs
    BY <1>1, <1>5, <1>7, <2>1 DEF KeygenPublic, Dirs
  <2> QED BY <1>1, <1>7, <2>1, <2>2 DEF KeygenPublic, Present
<1>8. ASSUME NEW f \in Files, Move(h, f) PROVE TypeOK'
  <2>1. store' \in Dirs /\ tmp' \in Dirs
    BY <1>1, <1>8 DEF Move, Dirs
  <2>2. tmp' = [tmp EXCEPT ![f] = NoKey]
    BY <1>8 DEF Move
  <2>3. ~made => Present(tmp)' = {}
    BY <1>1, <2>2 DEF Present, Dirs
  <2> QED BY <1>1, <1>8, <2>1, <2>3 DEF Move
<1> QED BY <1>2, <1>3, <1>4, <1>6, <1>7, <1>8

(* What the commands do to a private key that somebody holds.              *)
LEMMA ScriptNoneIsLost ==
    ASSUME IInv, NEW h \in Hosts,
           \/ Mkdir(h) \/ Glob(h) \/ Remove(h)
           \/ \E t \in Types : KeygenPrivate(h, t) \/ KeygenPublic(h, t)
           \/ \E f \in Files : Move(h, f)
    PROVE  /\ NoneIsLost'
           /\ \A f \in Files : store[f] # NoKey => store'[f] # NoKey
           /\ Remove(h) => AllPrivate
<1> USE DEF Script, Saved, Kept, AllPrivate
<1>1. TypeOK /\ NoneIsLost
  BY DEF IInv
<1>2. CASE Mkdir(h)
  <2>1. /\ shell'[h] = "keygen" /\ types'[h] = Types /\ made'
        /\ \A g \in Hosts \ {h} : shell'[g] = shell[g] /\ types'[g] = types[g]
        /\ UNCHANGED <<store, tmp, moves>>
    BY <1>1, <1>2 DEF Mkdir, TypeOK
  <2> QED BY <1>1, <1>2, <2>1 DEF NoneIsLost, Mkdir, Remove
<1>3. CASE Glob(h)
  <2>1. /\ shell[h] = "keygen" /\ types[h] = {} /\ UNCHANGED <<store, made, tmp, types>>
        /\ shell'[h] = "mv" /\ moves'[h] = Present(tmp)
        /\ \A g \in Hosts \ {h} : shell'[g] = shell[g] /\ moves'[g] = moves[g]
    BY <1>1, <1>3 DEF Glob, TypeOK
  <2>2. \A t \in Types : Kept(t)
    BY <1>1, <2>1 DEF NoneIsLost
  <2>3. \A t \in Types : Saved(t) \/ <<t, "key">> \in moves'[h]
    BY <2>1, <2>2 DEF Present, Files
  <2> QED BY <1>1, <1>3, <2>1, <2>2, <2>3 DEF NoneIsLost, Glob, Remove
<1>4. CASE Remove(h)
  <2>1. /\ shell[h] = "mv" /\ moves[h] = {} /\ UNCHANGED <<store, types, moves>>
        /\ shell'[h] = "none" /\ \A g \in Hosts \ {h} : shell'[g] = shell[g]
    BY <1>1, <1>4 DEF Remove, TypeOK
  <2>2. AllPrivate
    BY <1>1, <2>1 DEF NoneIsLost
  <2>3. NoneIsLost'
    BY <2>1, <2>2 DEF NoneIsLost
  <2> QED BY <2>1, <2>2, <2>3
<1>5. ASSUME NEW t \in Types, KeygenPrivate(h, t)
      PROVE  NoneIsLost' /\ UNCHANGED store /\ shell[h] = "keygen"
  <2>1. /\ shell[h] = "keygen" /\ UNCHANGED <<store, made, shell, moves>>
        /\ types'[h] = types[h] \ {t} /\ \A g \in Hosts \ {h} : types'[g] = types[g]
    BY <1>1, <1>5 DEF KeygenPrivate, TypeOK
  <2> <<h, run>> # NoKey /\ \A u \in Types : <<u, "key">> \in Files
    BY <1>1, MaxRunsAssumption, NoKeyAssumption DEF TypeOK, Files
  <2>2. \A u \in Types : tmp[<<u, "key">>] # NoKey => tmp'[<<u, "key">>] # NoKey
    BY <1>1, <1>5 DEF KeygenPrivate, TypeOK, Dirs
  <2>3. made => tmp'[<<t, "key">>] # NoKey
    BY <1>1, <1>5 DEF KeygenPrivate, TypeOK, Dirs
  <2>4. ~made => AllPrivate
    BY <1>1, <2>1 DEF NoneIsLost
  <2> QED BY <1>1, <2>1, <2>2, <2>3, <2>4 DEF NoneIsLost
<1>6. ASSUME NEW t \in Types, KeygenPublic(h, t)
      PROVE  NoneIsLost' /\ UNCHANGED store
  <2>1. UNCHANGED <<store, made, shell, types, moves>>
    BY <1>6 DEF KeygenPublic
  <2>2. \A u \in Types : tmp'[<<u, "key">>] = tmp[<<u, "key">>]
    BY <1>6 DEF KeygenPublic
  <2> QED BY <1>1, <2>1, <2>2 DEF NoneIsLost
<1>7. ASSUME NEW f \in Files, Move(h, f)
      PROVE  /\ NoneIsLost'
             /\ \A e \in Files : store[e] # NoKey => store'[e] # NoKey
  <2>1. /\ UNCHANGED <<made, shell, types>> /\ shell[h] = "mv"
        /\ moves'[h] = moves[h] \ {f} /\ \A g \in Hosts \ {h} : moves'[g] = moves[g]
    BY <1>1, <1>7 DEF Move, TypeOK
  <2>2. \A e \in Files : store[e] # NoKey => store'[e] # NoKey
    BY <1>1, <1>7 DEF Move, TypeOK, Dirs
  <2>3. /\ tmp[f] # NoKey => store'[f] # NoKey
        /\ \A e \in Files \ {f} : tmp'[e] = tmp[e]
    BY <1>1, <1>7 DEF Move, TypeOK, Dirs
  <2>4. \A t \in Types : <<t, "key">> \in Files
    BY DEF Files
  <2>5. \A t \in Types : Saved(t) => Saved(t)'
    BY <2>2, <2>4
  <2>6. \A t \in Types : Kept(t) => Kept(t)'
    BY <2>2, <2>3, <2>4
  <2>7. \A t \in Types : Kept(t) /\ <<t, "key">> = f => Saved(t)'
    BY <2>2, <2>3, <2>4
  <2>8. \A g \in Hosts : shell[g] = "mv" => \A t \in Types :
            \/ Saved(t)' \/ (<<t, "key">> \in moves'[g] /\ Kept(t)')
    BY <1>1, <2>1, <2>5, <2>6, <2>7 DEF NoneIsLost
  <2> QED BY <1>1, <2>1, <2>2, <2>5, <2>6, <2>8 DEF NoneIsLost
<1> QED BY <1>1, <1>2, <1>3, <1>4, <1>5, <1>6, <1>7
        DEF Mkdir, Glob, Remove, KeygenPrivate, KeygenPublic, Move

LEMMA ScriptInv ==
    ASSUME IInv, NEW h \in Hosts,
           \/ Mkdir(h) \/ Glob(h) \/ Remove(h)
           \/ \E t \in Types : KeygenPrivate(h, t) \/ KeygenPublic(h, t)
           \/ \E f \in Files : Move(h, f)
    PROVE  IInv'
<1>1. TypeOK'
  BY ScriptType
<1>2. UNCHANGED <<etcSsh, run, pc, generate, slurped, crashed>> /\ shell[h] # "none"
  BY DEF Mkdir, Glob, Remove, KeygenPrivate, KeygenPublic, Move, Script
<1>3. \A g \in Hosts \ {h} : shell'[g] = shell[g]
  BY DEF IInv, TypeOK, Mkdir, Glob, Remove, KeygenPrivate, KeygenPublic, Move, Script
<1>4. Runs' /\ Scripts' /\ PresentedIsStored' /\ GenerateFirst' /\ Distributed'
  BY <1>1, <1>2, <1>3, CommandInv
<1>5. /\ NoneIsLost'
      /\ Remove(h) => AllPrivate
      /\ \A f \in Files : store[f] # NoKey => store'[f] # NoKey
  BY ScriptNoneIsLost
<1>6. AllPrivate => AllPrivate'
  BY <1>5 DEF AllPrivate, Saved, Files
<1>7. Complete'
  <2>1. pc = "generate" /\ Complete
    BY <1>2 DEF IInv, Scripts
  <2>2. CASE Remove(h)
    BY <1>2, <1>5, <1>6, <2>1, <2>2 DEF Complete, Remove
  <2>3. CASE ~Remove(h)
    <3>1. todo' = todo
      BY <2>3 DEF Mkdir, Glob, KeygenPrivate, KeygenPublic, Move
    <3>2. \/ UNCHANGED store /\ \A g \in Hosts : shell[g] = "mv" => shell'[g] = "mv"
          \/ shell'[h] = "mv"
      BY <2>3 DEF IInv, TypeOK, Mkdir, Glob, KeygenPrivate, KeygenPublic, Move, Script
    <3> QED BY <1>2, <1>6, <2>1, <3>1, <3>2 DEF Complete
  <2> QED BY <2>2, <2>3
<1> QED BY <1>1, <1>4, <1>5, <1>7 DEF IInv

LEMMA NextInv == IInv /\ [Next]_vars => IInv'
<1> SUFFICES ASSUME IInv, [Next]_vars PROVE IInv'
  OBVIOUS
<1>1. CASE UNCHANGED vars
  BY <1>1 DEF vars, shells, IInv, TypeOK, Present, Runs, Scripts, PresentedIsStored,
              GenerateFirst, Distributed, PresentsStore, NoneIsLost, Kept, Complete,
              AllPrivate, Saved
<1> QED
  BY <1>1, StartInv, TaskEndInv, CrashInv, RebuildInv, CheckInv, SlurpInv, CopyInv, ScriptInv
  DEF Next

-----------------------------------------------------------------------------

LEMMA Invariant == Spec => []IInv
BY InitInv, NextInv, PTL DEF Spec

(* Every variable keeps its type; no file is left in a directory that is   *)
(* gone.                                                                   *)
THEOREM TypeCorrect == Spec => []TypeOK
BY Invariant, PTL DEF IInv

(* After a run that completed every host presents the one set of keys, with *)
(* a private key of every type but where a crash has met a mv, however the  *)
(* scripts of the hosts interleaved.                                        *)
THEOREM HostsShareKeys == Spec => []SharedKeys
<1>1. IInv => SharedKeys
  BY DEF IInv, Distributed, PresentsStore, Complete, SharedKeys
<1> QED BY <1>1, Invariant, PTL

(* A key that a host has been given stays in the store, and on the host    *)
(* until it is rebuilt.                                                    *)
THEOREM KeysPersist == Spec => PersistentKeys
<1>1. ASSUME IInv, [Next]_vars, NEW h \in Hosts, NEW f \in Files, etcSsh[h][f] # Own(h)
      PROVE  store'[f] = store[f] /\ etcSsh'[h][f] \in {store[f], Own(h)}
  <2>1. store[f] # NoKey /\ etcSsh[h][f] = store[f]
    BY <1>1 DEF IInv, PresentedIsStored
  <2>2. \A g \in Hosts : shell[g] = "none"
    <3>1. ASSUME NEW g \in Hosts, shell[g] # "none" PROVE FALSE
      <4>1. etcSsh[h] = OwnKeys(h)
        BY <1>1, <3>1 DEF IInv, Scripts, GenerateFirst
      <4> QED BY <1>1, <4>1, OwnKeysFact
    <3> QED BY <3>1
  <2>3. UNCHANGED store
    BY <1>1, <2>2 DEF Next, vars, Start, TaskEnd, Crash, Rebuild, Check, Slurp, Copy, Script,
                Mkdir, Glob, Remove, KeygenPrivate, KeygenPublic, Move
  <2>4. CASE UNCHANGED etcSsh
    BY <2>1, <2>3, <2>4
  <2>5. ASSUME NEW g \in Hosts, Rebuild(g) PROVE etcSsh'[h][f] \in {store[f], Own(h)}
    BY <1>1, <2>1, <2>5, OwnKeysFact DEF Rebuild, IInv, TypeOK
  <2>6. ASSUME NEW g \in Hosts, Copy(g) PROVE etcSsh'[h][f] \in {store[f], Own(h)}
    BY <1>1, <2>1, <2>6, CopyIsStore DEF IInv, TypeOK
  <2>7. UNCHANGED etcSsh \/ \E g \in Hosts : Rebuild(g) \/ Copy(g)
    BY <1>1 DEF Next, vars, Start, TaskEnd, Crash, Check, Slurp, Script, Mkdir, Glob, Remove,
                KeygenPrivate, KeygenPublic, Move
  <2> QED BY <2>3, <2>4, <2>5, <2>6, <2>7
<1>2. IInv /\ [Next]_vars => \A h \in Hosts : \A f \in Files :
         etcSsh[h][f] # Own(h) =>
             /\ store'[f] = store[f]
             /\ etcSsh'[h][f] \in {store[f], Own(h)}
  BY <1>1
<1> QED BY <1>2, Invariant, PTL DEF Spec, PersistentKeys
=============================================================================
