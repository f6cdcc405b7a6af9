----------------------------- MODULE MCNodeHealth -----------------------------
EXTENDS NodeHealth

(* An automount point, the filesystem mounted over it, another one and the *)
(* one that systemd mounts and unmounts on demand.                         *)
Auto == [mount |-> "/a", fstype |-> "autofs", uuid |-> FALSE]
Home == [mount |-> "/a", fstype |-> "nfs", uuid |-> FALSE]
Data == [mount |-> "/b", fstype |-> "nfs", uuid |-> FALSE]
EfiMount == [mount |-> "/efi", fstype |-> "vfat", uuid |-> FALSE]

Mountable == {Auto, Home, Data, EfiMount}
Tables == {<<Auto>>, <<Auto, Home>>, <<Auto, Data, EfiMount>>}
FstabLines == <<[mount |-> "/b", fstype |-> "nfs", uuid |-> TRUE],
                [mount |-> "/a", fstype |-> "nfs", uuid |-> FALSE]>>

SourceLists == {<<>>, <<"static", "dynamic">>, <<"mount", "/proc/mounts", "/etc/mtab">>,
                <<"/etc/mnttab", "/etc/fstab">>, <<"/proc/self/mounts", "/etc/mtab">>}

ModuleArguments ==
    {a \in [sources : SourceLists, mount_binary : BOOLEAN, timeout : BOOLEAN,
            on_timeout : {"error", "ignore"},
            fstypes : {{"nfs"}, {"nfs", "autofs", "vfat"}}] :
        Contains(a.sources, "mount") => a.mount_binary}

(* An InfiniBand port with a net device and one in Ethernet mode; ib1 is a *)
(* device of another kind, with a short address.                           *)
NodePorts == {"mlx5_0:1", "mlx5_1:1"}
NodeGids == [p \in NodePorts |-> IF p = "mlx5_0:1" THEN {"g0", "g1"} ELSE {"e0"}]
NodeSpeed == [p \in NodePorts |-> IF p = "mlx5_0:1" THEN "200" ELSE "25"]
NodeMac == [d \in {"ib0", "ib1"} |-> IF d = "ib0" THEN <<"47", "g1">> ELSE <<"52">>]
NodeNetDevice == [d \in {"ib0", "ib1"} |-> IF d = "ib0" THEN "mlx5_0:1" ELSE "none"]
=============================================================================
