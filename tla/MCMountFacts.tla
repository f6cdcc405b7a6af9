---------------------------- MODULE MCMountFacts ----------------------------
EXTENDS MountFacts

(* An automount point, the filesystem mounted over it, and another one.    *)
Auto == [mount |-> "/a", fstype |-> "autofs", uuid |-> FALSE]
Home == [mount |-> "/a", fstype |-> "nfs", uuid |-> FALSE]
Data == [mount |-> "/b", fstype |-> "nfs", uuid |-> FALSE]

Mountable == {Auto, Home, Data}
Tables == {<<Auto>>, <<Auto, Home>>, <<Data, Auto>>}
FstabLines == <<[mount |-> "/b", fstype |-> "nfs", uuid |-> TRUE],
                [mount |-> "/a", fstype |-> "nfs", uuid |-> FALSE]>>

SourceLists == {<<>>, <<"static", "dynamic">>, <<"mount", "/proc/mounts", "/etc/mtab">>,
                <<"/etc/mnttab", "/etc/fstab">>}

ModuleArguments ==
    {a \in [sources : SourceLists, mount_binary : BOOLEAN, timeout : BOOLEAN,
            on_timeout : {"error", "ignore"}, fstypes : {{"nfs"}, {"nfs", "autofs"}}] :
        Contains(a.sources, "mount") => a.mount_binary}
=============================================================================
