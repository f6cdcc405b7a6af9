--------------------------- MODULE PersistHostkeys ---------------------------
(***************************************************************************)
(* roles/persist_hostkeys: a set of ssh host keys, kept on the state       *)
(* volume of the control node, that every host of the group presents, also *)
(* after a rebuild. Every host of the group runs the role at the same      *)
(* time, and the tasks that make the keys are all delegated to the control *)
(* node, where the shell scripts of several hosts share one directory.     *)
(***************************************************************************)
EXTENDS Integers

CONSTANTS
    Hosts,    \* the persist_hostkeys group
    Types,    \* the key types of "ssh-keygen -A"
    MaxRuns,  \* bound: runs of the role
    NoKey,    \* no such file
    Crashes   \* TRUE if the control node may crash during a run

ASSUME HostsAssumption == Hosts # {}
ASSUME MaxRunsAssumption == MaxRuns \in Nat \ {0}
ASSUME NoKeyAssumption == NoKey \notin Hosts \X (0..MaxRuns)
ASSUME CrashesAssumption == Crashes \in BOOLEAN

Files == Types \X {"key", "pub"}
\* A key is named by who generated it and in which run; keys of run 0 are
\* those a host has made for itself, at its first boot.
Keys == Hosts \X (0..MaxRuns)
Own(h) == <<h, 0>>
Dirs == [Files -> Keys \cup {NoKey}]

VARIABLES
    store,   \* the files in persist_hostkeys_state_dir
    made,    \* the directory etc/ssh under it exists
    tmp,     \* the files in that directory
    etcSsh,  \* etcSsh[h]: keys installed on h, those it presents
    run,     \* number of the run
    pc,      \* the task the run is at; "done" once it has completed
    todo,    \* hosts this task has still to reach
    generate,\* hosts that found no keys in the store
    slurped, \* slurped[h]: _slurp_keys of h
    shell,   \* shell[h]: the command of h's "Generate hostkeys" script
    types,   \* types[h]: types its ssh-keygen has still to look at
    half,    \* half[h]: types of which it has written the private key only
    moves,   \* moves[h]: arguments of its mv
    crashed  \* history: a crash has met a script at its mv

shells == <<shell, types, half, moves>>
vars == <<store, made, tmp, etcSsh, run, pc, todo, generate, slurped, shells, crashed>>

NoKeys == [f \in Files |-> NoKey]
OwnKeys(h) == [f \in Files |-> Own(h)]
Present(dir) == {f \in Files : dir[f] # NoKey}

Init ==
    /\ store = NoKeys
    /\ made = FALSE
    /\ tmp = NoKeys
    /\ etcSsh = [h \in Hosts |-> OwnKeys(h)]
    /\ run = 0
    /\ pc = "idle"
    /\ todo = {}
    /\ generate = {}
    /\ slurped = [h \in Hosts |-> NoKeys]
    /\ shell = [h \in Hosts |-> "none"]
    /\ types = [h \in Hosts |-> {}]
    /\ half = [h \in Hosts |-> {}]
    /\ moves = [h \in Hosts |-> {}]
    /\ crashed = FALSE

-----------------------------------------------------------------------------
(* The tasks. The next one starts when all hosts have done with this one.  *)

NextTask == [check |-> "generate", generate |-> "slurp", slurp |-> "copy", copy |-> "done"]

Start ==
    /\ pc \in {"idle", "done"} /\ run < MaxRuns
    /\ run' = run + 1
    /\ pc' = "check"
    /\ todo' = Hosts
    /\ generate' = {}
    /\ UNCHANGED <<store, made, tmp, etcSsh, slurped, shells, crashed>>

(* Between runs, the image of a host is rebuilt. It boots with new keys of *)
(* its own, and no longer with what the last run has brought.              *)
Rebuild(h) ==
    /\ pc \in {"idle", "done"}
    /\ etcSsh' = [etcSsh EXCEPT ![h] = OwnKeys(h)]
    /\ pc' = "idle"
    /\ UNCHANGED <<store, made, tmp, run, todo, generate, slurped, shells, crashed>>

TaskEnd ==
    /\ pc \in DOMAIN NextTask /\ todo = {}
    /\ pc' = NextTask[pc]
    /\ todo' = CASE pc' = "generate" -> generate
                 [] pc' = "done" -> {}
                 [] OTHER -> Hosts
    /\ shell' = [h \in Hosts |->
                    IF pc' = "generate" /\ h \in generate THEN "mkdir" ELSE "none"]
    /\ UNCHANGED <<store, made, tmp, etcSsh, run, generate, slurped, types, half, moves, crashed>>

(* Mutant: keys are generated whether there are some already or not.       *)
CheckAlways(h) ==
    /\ pc = "check" /\ h \in todo
    /\ todo' = todo \ {h}
    /\ generate' = generate \cup {h}
    /\ UNCHANGED <<store, made, tmp, etcSsh, run, pc, slurped, shells, crashed>>

(* "Check for existing hostkeys" counts the files, not in subdirectories.  *)
Check(h) ==
    /\ pc = "check" /\ h \in todo
    /\ todo' = todo \ {h}
    /\ generate' = IF Present(store) = {} THEN generate \cup {h} ELSE generate
    /\ UNCHANGED <<store, made, tmp, etcSsh, run, pc, slurped, shells, crashed>>

Slurp(h) ==
    /\ pc = "slurp" /\ h \in todo
    /\ todo' = todo \ {h}
    /\ slurped' = [slurped EXCEPT ![h] = store]
    /\ UNCHANGED <<store, made, tmp, etcSsh, run, pc, generate, shells, crashed>>

(* Mutant: only the private keys are copied.                               *)
CopyPrivate(h) ==
    /\ pc = "copy" /\ h \in todo
    /\ todo' = todo \ {h}
    /\ etcSsh' = [etcSsh EXCEPT ![h] = [f \in Files |->
                    IF f[2] = "key" THEN slurped[h][f] ELSE etcSsh[h][f]]]
    /\ UNCHANGED <<store, made, tmp, run, pc, generate, slurped, shells, crashed>>

(* Files the host has and the store has not, its own keys, are left alone. *)
Copy(h) ==
    /\ pc = "copy" /\ h \in todo
    /\ todo' = todo \ {h}
    /\ etcSsh' = [etcSsh EXCEPT ![h] = [f \in Files |->
                    IF slurped[h][f] # NoKey THEN slurped[h][f] ELSE etcSsh[h][f]]]
    /\ UNCHANGED <<store, made, tmp, run, pc, generate, slurped, shells, crashed>>

-----------------------------------------------------------------------------
(* The script of one host. It goes on after a failed command, and its exit *)
(* status is that of the last, rm -rf.                                     *)

Script == UNCHANGED <<etcSsh, run, pc, generate, slurped, crashed>>

Mkdir(h) ==
    /\ shell[h] = "mkdir"
    /\ made' = TRUE
    /\ shell' = [shell EXCEPT ![h] = "keygen"]
    /\ types' = [types EXCEPT ![h] = Types]
    /\ Script /\ UNCHANGED <<store, tmp, todo, half, moves>>

(* ssh-keygen -A makes the keys whose private key does not exist.          *)
KeygenPrivate(h, t) ==
    /\ shell[h] = "keygen" /\ half[h] = {} /\ t \in types[h]
    /\ types' = [types EXCEPT ![h] = @ \ {t}]
    /\ IF made /\ tmp[<<t, "key">>] = NoKey
       THEN /\ tmp' = [tmp EXCEPT ![<<t, "key">>] = <<h, run>>]
            /\ half' = [half EXCEPT ![h] = {t}]
       ELSE UNCHANGED <<tmp, half>>
    /\ Script /\ UNCHANGED <<store, made, todo, shell, moves>>

KeygenPublic(h, t) ==
    /\ shell[h] = "keygen" /\ t \in half[h]
    /\ half' = [half EXCEPT ![h] = {}]
    /\ tmp' = IF made THEN [tmp EXCEPT ![<<t, "pub">>] = <<h, run>>] ELSE tmp
    /\ Script /\ UNCHANGED <<store, made, todo, shell, types, moves>>

(* The shell expands etc/ssh/* before mv starts.                           *)
Glob(h) ==
    /\ shell[h] = "keygen" /\ types[h] = {} /\ half[h] = {}
    /\ shell' = [shell EXCEPT ![h] = "mv"]
    /\ moves' = [moves EXCEPT ![h] = Present(tmp)]
    /\ Script /\ UNCHANGED <<store, made, tmp, todo, types, half>>

Move(h, f) ==
    /\ shell[h] = "mv" /\ f \in moves[h]
    /\ moves' = [moves EXCEPT ![h] = @ \ {f}]
    /\ store' = IF tmp[f] # NoKey THEN [store EXCEPT ![f] = tmp[f]] ELSE store
    /\ tmp' = [tmp EXCEPT ![f] = NoKey]
    /\ Script /\ UNCHANGED <<made, todo, shell, types, half>>

(* Mutant: the directory is removed, and not what is in it.                *)
RemoveDirectory(h) ==
    /\ shell[h] = "mv" /\ moves[h] = {}
    /\ shell' = [shell EXCEPT ![h] = "none"]
    /\ made' = FALSE
    /\ todo' = todo \ {h}
    /\ Script /\ UNCHANGED <<store, tmp, types, half, moves>>

Remove(h) ==
    /\ shell[h] = "mv" /\ moves[h] = {}
    /\ shell' = [shell EXCEPT ![h] = "none"]
    /\ made' = FALSE
    /\ tmp' = NoKeys
    /\ todo' = todo \ {h}
    /\ Script /\ UNCHANGED <<store, types, half, moves>>

(* The control node goes down; its state volume keeps what is on it.       *)
Crash ==
    /\ Crashes
    /\ pc \in DOMAIN NextTask
    /\ pc' = "idle"
    /\ todo' = {}
    /\ shell' = [h \in Hosts |-> "none"]
    /\ types' = [h \in Hosts |-> {}]
    /\ half' = [h \in Hosts |-> {}]
    /\ moves' = [h \in Hosts |-> {}]
    /\ crashed' = (crashed \/ \E h \in Hosts : shell[h] = "mv")
    /\ UNCHANGED <<store, made, tmp, etcSsh, run, generate, slurped>>

Next ==
    \/ Start \/ TaskEnd \/ Crash
    \/ \E h \in Hosts :
          \/ Rebuild(h) \/ Check(h) \/ Slurp(h) \/ Copy(h)
          \/ Mkdir(h) \/ Glob(h) \/ Remove(h)
          \/ \E t \in Types : KeygenPrivate(h, t) \/ KeygenPublic(h, t)
          \/ \E f \in Files : Move(h, f)

Spec == Init /\ [][Next]_vars

-----------------------------------------------------------------------------
(* Correctness                                                             *)

TypeOK ==
    /\ store \in Dirs /\ tmp \in Dirs /\ made \in BOOLEAN
    /\ etcSsh \in [Hosts -> Dirs] /\ slurped \in [Hosts -> Dirs]
    /\ run \in 0..MaxRuns
    /\ pc \in {"idle", "done"} \cup DOMAIN NextTask
    /\ todo \subseteq Hosts /\ generate \subseteq Hosts
    /\ shell \in [Hosts -> {"none", "mkdir", "keygen", "mv"}]
    /\ types \in [Hosts -> SUBSET Types] /\ half \in [Hosts -> SUBSET Types]
    /\ moves \in [Hosts -> SUBSET Files]
    /\ ~made => Present(tmp) = {}
    /\ crashed \in BOOLEAN

Saved(t) == store[<<t, "key">>] # NoKey
AllPrivate == \A t \in Types : Saved(t)

(* After a run of the role that completed, every host presents what is in  *)
(* the store, and none keeps a key of its own for which the store has one. *)
(* No private key is missing there, however the scripts that share the     *)
(* directory glob, move and remove each other's files, unless the control  *)
(* node has gone down during a mv.                                         *)
SharedKeys ==
    pc = "done" =>
        /\ \A h \in Hosts : \A f \in Files :
              store[f] # NoKey => etcSsh[h][f] = store[f]
        /\ ~crashed => AllPrivate

(* A key that a host has been given is never lost to its clients, over     *)
(* reruns, rebuilds and crashes in the middle of a run: the store keeps    *)
(* it, and the host presents it until it boots with keys of its own.       *)
PersistentKeys ==
    [][\A h \in Hosts : \A f \in Files :
          etcSsh[h][f] # Own(h) =>
              /\ store'[f] = store[f]
              /\ etcSsh'[h][f] \in {store[f], Own(h)}]_vars

(* "Idempotently generates a persistent set of hostkeys": the public keys  *)
(* of the set belong to its private keys.                                  *)
PairsMatch ==
    pc = "done" => \A t \in Types :
        store[<<t, "key">>] # NoKey /\ store[<<t, "pub">>] # NoKey
            => store[<<t, "key">>] = store[<<t, "pub">>]
=============================================================================
