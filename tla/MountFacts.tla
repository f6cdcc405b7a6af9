----------------------------- MODULE MountFacts -----------------------------
(***************************************************************************)
(* ansible/library/mount_facts.py: the mounts of a host, gathered from     *)
(* files and from the mount command, one source after the other and one    *)
(* mount after the other, while filesystems are mounted and unmounted and  *)
(* servers stop answering. Parsing is left out: a source is the sequence   *)
(* of the mounts it lists.                                                 *)
(***************************************************************************)
EXTENDS Naturals, SequencesExt

CONSTANTS
    KernelMounts,   \* what may be mounted: [mount, fstype, uuid] records
    InitialTables,  \* mount tables the module may find at its start
    Fstab,          \* the sequence of mounts in /etc/fstab
    Arguments,      \* arguments of the module, records as in "args" below
    MaxChanges      \* bound: mounts, unmounts and servers lost during a run

ASSUME MaxChangesAssumption == MaxChanges \in Nat

(* A file that is read at once is a sequence of mounts.                    *)
ASSUME TablesAssumption ==
    InitialTables \subseteq Seq(KernelMounts) /\ Fstab \in Seq(ToSet(Fstab))

(* With an empty source, or "mount" without a mount command, it fails.     *)
ASSUME ArgumentsAssumption ==
    \A a \in Arguments :
        /\ a.sources \in Seq(ToSet(a.sources)) /\ "" \notin ToSet(a.sources)
        /\ a.mount_binary \in BOOLEAN
        /\ "mount" \in ToSet(a.sources) => a.mount_binary

Dynamic == <<"/etc/mtab", "/proc/mounts", "/etc/mnttab">>
Static == <<"/etc/fstab", "/etc/vfstab", "/etc/filesystems">>
Live == ToSet(Dynamic) \cup {"mount"}

VARIABLES
    \* the host
    proc,     \* it has /proc/mounts, and /etc/mtab is a link to that
    table,    \* the mount table of its kernel
    hung,     \* mount points whose server does not answer
    stable,   \* what has been mounted ever since the module started
    changes,  \* number of changes so far
    \* the module
    args,     \* sources, mount_binary (is it set), timeout (is there one),
              \* on_timeout, fstypes (those that match the patterns)
    pc,       \* "run", "waiting" (for a command that does not answer), or how
              \* it ended: "done", "failed" (by fail_json) or "crashed" (on an
              \* exception nothing catches)
    todo,     \* sources it has still to read
    seen,     \* the real paths of those it has read
    fallback, \* mount_fallback
    queue,    \* mounts of the last source it has still to look at
    mounts    \* the result so far, each with its source and its line there

host == <<proc, table, hung, stable, changes>>
module == <<args, pc, todo, seen, fallback, queue, mounts>>
vars == <<host, module>>

(* "all" contains "dynamic" and "static".                                  *)
Expand(s) == CASE s = "dynamic" -> Dynamic
               [] s = "static" -> Static
               [] s = "all" -> Dynamic \o Static
               [] OTHER -> <<s>>

GetSources(sources) ==
    LET expanded == [i \in DOMAIN sources |-> Expand(sources[i])]
    IN IF sources = <<>> THEN Expand("all") ELSE FlattenSeq(expanded)

RealPath(s) ==
    IF proc /\ s \in {"/etc/mtab", "/proc/mounts"} THEN "/proc/self/mounts" ELSE s

(* What the kernel answers for.                                            *)
Kernel(s) == s = "mount" \/ (proc /\ RealPath(s) = "/proc/self/mounts")

(* Files that do not exist list nothing.                                   *)
Content(s) == CASE Kernel(s) -> table
                [] s = "/etc/fstab" -> Fstab
                [] OTHER -> <<>>

Entries(s) ==
    [i \in DOMAIN Content(s) |->
        [source |-> s, line |-> i, uuid |-> Content(s)[i].uuid,
         mount |-> Content(s)[i].mount, fstype |-> Content(s)[i].fstype]]

Init ==
    /\ proc \in BOOLEAN
    /\ table \in InitialTables
    /\ hung = {}
    /\ stable = ToSet(table)
    /\ changes = 0
    /\ args \in Arguments
    /\ pc = "run"
    /\ todo = GetSources(args.sources)
    /\ seen = {}
    /\ fallback = (args.mount_binary /\ ToSet(todo) \cap ToSet(Dynamic) # {})
    /\ queue = <<>>
    /\ mounts = <<>>

-----------------------------------------------------------------------------
(* The host                                                                *)

Change == changes < MaxChanges /\ changes' = changes + 1

Mount(m) ==
    /\ Change
    /\ m \notin ToSet(table)
    /\ table' = Append(table, m)
    /\ UNCHANGED <<proc, hung, stable, module>>

Unmount(m) ==
    /\ Change
    /\ m \in ToSet(table)
    /\ table' = RemoveFirst(table, m)
    /\ stable' = stable \ {m}
    /\ UNCHANGED <<proc, hung, module>>

Hang(m) ==
    /\ Change
    /\ m \in ToSet(table) /\ m.mount \notin hung
    /\ hung' = hung \cup {m.mount}
    /\ UNCHANGED <<proc, table, stable, module>>

-----------------------------------------------------------------------------
(* The module: gen_mounts_by_source is a generator, so the mounts of one   *)
(* source are looked at before the next source is read.                    *)

NextSource == pc = "run" /\ queue = <<>> /\ todo # <<>>

Repeated(s) == s \in seen \/ RealPath(s) \in seen

SkipSource ==
    /\ NextSource /\ Repeated(Head(todo))
    /\ todo' = Tail(todo)
    /\ UNCHANGED <<host, args, pc, seen, fallback, queue, mounts>>

(* Mutant: only names are compared, links to a file already read are not.  *)
ReadSourceByName ==
    /\ NextSource /\ Head(todo) \notin seen
    /\ todo' = Tail(todo)
    /\ seen' = seen \cup {Head(todo)}
    /\ queue' = Entries(Head(todo))
    /\ fallback' = (fallback /\ ~(queue' # <<>> /\ Head(todo) \in Live))
    /\ UNCHANGED <<host, args, pc, mounts>>

(* Mutant: a mount found in any source does away with the fallback.        *)
ReadSourceAnyCounts ==
    /\ NextSource /\ ~Repeated(Head(todo))
    /\ todo' = Tail(todo)
    /\ seen' = seen \cup {RealPath(Head(todo))}
    /\ queue' = Entries(Head(todo))
    /\ fallback' = (fallback /\ queue' = <<>>)
    /\ UNCHANGED <<host, args, pc, mounts>>

ReadSource ==
    /\ NextSource /\ ~Repeated(Head(todo))
    /\ todo' = Tail(todo)
    /\ seen' = seen \cup {RealPath(Head(todo))}
    /\ queue' = Entries(Head(todo))
    /\ fallback' = (fallback /\ ~(queue' # <<>> /\ Head(todo) \in Live))
    /\ UNCHANGED <<host, args, pc, mounts>>

(* No dynamic source listed anything.                                      *)
Fallback ==
    /\ pc = "run" /\ queue = <<>> /\ todo = <<>> /\ fallback
    /\ queue' = Entries("mount")
    /\ fallback' = FALSE
    /\ UNCHANGED <<host, args, pc, todo, seen, mounts>>

(* The end of the module, or its wait, in the middle of what it does.      *)
Stop(how) == pc' = how /\ UNCHANGED <<host, args, todo, seen, fallback, queue, mounts>>

(* A command whose output is decoded does not answer. Without a timeout it *)
(* is waited for. With one, what handle_timeout returns if it is not to    *)
(* fail, the default "" or None, has no decode.                            *)
CommandTimeout ==
    Stop(CASE ~args.timeout -> "waiting"
           [] args.timeout /\ args.on_timeout = "error" -> "failed"
           [] args.timeout /\ args.on_timeout # "error" -> "crashed")

(* The mount command is run, as a source or as the fallback.               *)
RunsMount ==
    /\ pc = "run" /\ queue = <<>>
    /\ \/ todo # <<>> /\ Head(todo) = "mount" /\ "mount" \notin seen
       \/ todo = <<>> /\ fallback

MountTimeout == RunsMount /\ CommandTimeout

(* It exits with an error (CalledProcessError), or there is none.          *)
MountError == RunsMount /\ Stop("failed")

(* blkid, for the device of a mount that is given by its UUID. (Its errors *)
(* are suppressed, as are those of lsblk and udevadm.)                     *)
BlkidTimeout ==
    /\ pc = "run" /\ queue # <<>> /\ Head(queue).uuid
    /\ CommandTimeout

Filtered ==
    /\ pc = "run" /\ queue # <<>> /\ Head(queue).fstype \notin args.fstypes
    /\ queue' = Tail(queue)
    /\ UNCHANGED <<host, args, pc, todo, seen, fallback, mounts>>

(* Mutant: every mount is wanted, whatever its type.                       *)
WantedAny == pc = "run" /\ queue # <<>>

Wanted == pc = "run" /\ queue # <<>> /\ Head(queue).fstype \in args.fstypes

Report ==
    /\ queue' = Tail(queue)
    /\ mounts' = Append(mounts, Head(queue))
    /\ UNCHANGED <<host, args, pc, todo, seen, fallback>>

(* get_mount_size does not return while the server does not answer.        *)
Gather == Wanted /\ Head(queue).mount \notin hung /\ Report

(* Mutant: a mount that does not answer in time is asked again.            *)
GatherTimeoutRetry == Wanted /\ UNCHANGED vars

(* The mount is reported without its size, unless that is an error: the    *)
(* timeout of get_mount_size, a library's, has a default that applies if   *)
(* the module has none. lsblk and udevadm, which look for its UUID, are    *)
(* treated alike but have no such default.                                 *)
GatherTimeout ==
    /\ Wanted
    /\ \/ args.on_timeout # "error" /\ Report
       \/ args.on_timeout = "error" /\ Stop("failed")
       \/ ~args.timeout /\ Stop("waiting")

Finish ==
    /\ pc = "run" /\ queue = <<>> /\ todo = <<>> /\ ~fallback
    /\ pc' = "done"
    /\ UNCHANGED <<host, args, todo, seen, fallback, queue, mounts>>

(* The mount_points of the result: handle_deduplication. Mutant: the last  *)
(* definition of a mount point is kept, as a plain assignment would.       *)
MountPointsLast ==
    [p \in {mounts[i].mount : i \in DOMAIN mounts} |->
        mounts[CHOOSE i \in DOMAIN mounts :
                 /\ mounts[i].mount = p
                 /\ \A j \in DOMAIN mounts : mounts[j].mount = p => j <= i]]

MountPoints ==
    [p \in {mounts[i].mount : i \in DOMAIN mounts} |->
        mounts[CHOOSE i \in DOMAIN mounts :
                 /\ mounts[i].mount = p
                 /\ \A j \in DOMAIN mounts : mounts[j].mount = p => i <= j]]

-----------------------------------------------------------------------------

Module ==
    \/ SkipSource \/ ReadSource \/ Fallback \/ MountTimeout \/ MountError
    \/ BlkidTimeout \/ Filtered \/ Gather \/ GatherTimeout \/ Finish

Next ==
    \/ Module
    \/ \E m \in KernelMounts : Mount(m) \/ Unmount(m) \/ Hang(m)

Spec == Init /\ [][Next]_vars

(* The module runs on unless a server or a command keeps it waiting.       *)
FairSpec == Spec /\ WF_vars(Module)

-----------------------------------------------------------------------------
(* Correctness                                                             *)

TypeOK ==
    /\ proc \in BOOLEAN /\ fallback \in BOOLEAN
    /\ ToSet(table) \subseteq KernelMounts /\ stable \subseteq ToSet(table)
    /\ changes \in 0..MaxChanges
    /\ args \in Arguments
    /\ pc \in {"run", "waiting", "done", "failed", "crashed"}
    /\ seen \subseteq ToSet(GetSources(args.sources)) \cup {"/proc/self/mounts"}
    /\ \A i \in DOMAIN mounts : mounts[i].fstype \in args.fstypes

(* Among the sources asked for is one that is live on this host, or the    *)
(* mount command makes up for those that are not.                          *)
LiveReadable ==
    LET asked == ToSet(GetSources(args.sources))
    IN \/ \E s \in asked : Kernel(s)
       \/ args.mount_binary /\ asked \cap ToSet(Dynamic) # {}

(* A filesystem that was mounted all the time the module ran is reported   *)
(* from a live source, also on a host where only the mount command knows,  *)
(* whatever was mounted and unmounted around it and whatever timed out.    *)
StableReported ==
    pc = "done" /\ LiveReadable =>
        \A m \in stable : m.fstype \in args.fstypes =>
            \E i \in DOMAIN mounts :
                /\ Kernel(mounts[i].source)
                /\ mounts[i].mount = m.mount /\ mounts[i].fstype = m.fstype

(* "Repeat sources, including symlinks, are skipped": the aggregate mounts *)
(* do not have one line of one file twice.                                 *)
NoRepeatedSource ==
    \A i, j \in DOMAIN mounts :
        /\ RealPath(mounts[i].source) = RealPath(mounts[j].source)
        /\ mounts[i].line = mounts[j].line
        => i = j

(* With the default sources, what is said of such a filesystem in the      *)
(* mount points is what the kernel says and not what /etc/fstab says.      *)
LiveDefinition ==
    pc = "done" /\ proc /\ args.sources = <<>> =>
        \A m \in stable : m.fstype \in args.fstypes =>
            MountPoints[m.mount].source \in Live

(* The timeout is there "to skip unresponsive mounts": with one, the       *)
(* module ends, even if no server and no command ever answers again.       *)
(* Without one ("wait indefinitely") a server that hangs does not hold it  *)
(* up either, but a command that hangs may, for ever.                      *)
GatheringEnds ==
    pc = "run" ~> (pc \in {"done", "failed", "crashed"} \/ (pc = "waiting" /\ ~args.timeout))

(* "on_timeout: the action to take when gathering mount information        *)
(* exceeds timeout": warn and ignore never end the module in an exception. *)
TimeoutTolerated == args.on_timeout # "error" => pc # "crashed"
=============================================================================
