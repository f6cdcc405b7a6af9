------------------------------ MODULE NodeHealth ------------------------------
(***************************************************************************)
(* The nhc role on one compute node, from the facts to the checks: mounts  *)
(* gathered at the start of site.yml, the automounts of mount_facts.py,    *)
(* the ports of infiniband_facts.py, the nhc.conf templated from the three *)
(* and the health checks Slurm then runs, while filesystems come and go    *)
(* and InfiniBand links go down and up.                                    *)
(* External: sysfs, what NHC checks, slurmd's HealthCheckProgram.          *)
(***************************************************************************)
EXTENDS MountFacts

CONSTANTS
    Ports,       \* /sys/class/infiniband/*/ports/*
    Gids,        \* Gids[p]: its GID table
    Speed,       \* Speed[p]: "rate" of the link when it is up, in Gb/s
    NetDevices,  \* /sys/class/net/ib*
    Mac,         \* Mac[d]: its address, <<prefix, gid>> if 59 characters long
    NetDeviceOf, \* NetDeviceOf[d]: the port it is the net device of, or "none"
    Efi          \* the mount of /efi

(* The address of the net device of a port ends in a GID of the port, and  *)
(* a port without one has a GID table of its own.                          *)
ASSUME NetDevicesAssumption ==
    /\ "" \notin NetDevices
    /\ \A d \in NetDevices :
        /\ Len(Mac[d]) \in 1..2
        /\ NetDeviceOf[d] \in Ports =>
              Len(Mac[d]) = 2 /\ Mac[d][2] \in Gids[NetDeviceOf[d]]
        /\ \A p \in Ports : Mac[d][Len(Mac[d])] \in Gids[p] =>
              \E e \in NetDevices : NetDeviceOf[e] = p

(* 2.5 Gb/s is what a link shows that is down, and is not a whole number.  *)
ASSUME SpeedAssumption == \A p \in Ports : Speed[p] # "2.5"

VARIABLES
    linkdown, \* ports whose link is down
    flapped,  \* those whose link has been down since site.yml started
    readonly, \* mounts that are mounted read-only
    lost,     \* those that were unmounted, or remounted in the other mode,
              \* since then, but for automounts that expired
    gathered, \* ansible_mounts, with their modes
    autofs,   \* nhc_autofs_mounts
    scan,     \* ports infiniband_facts has still to look at
    ports,    \* infiniband_ports, those looked at
    step,     \* the task the role is at
    conf,     \* the checks of nhc.conf
    state     \* of the node in Slurm: "idle" or "down"

facts == <<gathered, autofs, scan, ports>>
links == <<linkdown, flapped, readonly, lost>>
health == <<links, facts, step, conf, state>>
allvars == <<vars, health>>

(* The role calls mount_facts without arguments: those are its defaults.   *)
NhcArguments ==
    /\ args.sources = <<>> /\ args.mount_binary /\ ~args.timeout
    /\ args.on_timeout = "error" /\ "autofs" \in args.fstypes

NoConf == [fs |-> {}, ib |-> {}]

Mode(m) == IF m \in readonly THEN "ro" ELSE "rw"

(* ansible_mounts has the mounts of devices, also where an automount point *)
(* is mounted over, but not the autofs ones, of some time before the role  *)
(* runs: plays that mount filesystems come between. Links may change at    *)
(* any time before infiniband_facts reads them.                            *)
HealthInit ==
    /\ Init
    /\ flapped \in IF NhcArguments THEN SUBSET Ports ELSE {{}}
    /\ linkdown \in SUBSET flapped
    /\ readonly \in IF NhcArguments THEN SUBSET {m \in ToSet(table) : m.fstype # "autofs"} ELSE {{}}
    /\ lost = {}
    /\ \E t \in InitialTables :
        /\ ToSet(t) \subseteq ToSet(table)
        /\ gathered = {[mount |-> m, mode |-> Mode(m)] :
                          m \in {n \in ToSet(t) : n.fstype # "autofs"}}
    /\ autofs = {}
    /\ scan = Ports
    /\ ports = {}
    /\ step = "mount_facts"
    /\ conf = NoConf
    /\ state = "idle"

-----------------------------------------------------------------------------
(* The node.                                                               *)

Link(p) ==
    /\ step # "mount_facts"
    /\ Change
    /\ \/ p \notin linkdown /\ linkdown' = linkdown \cup {p}
       \/ p \in linkdown /\ linkdown' = linkdown \ {p}
    /\ flapped' = flapped \cup linkdown'
    /\ UNCHANGED <<proc, table, hung, stable, module, readonly, lost, facts, step, conf, state>>

(* It is mounted over an automount point, and may expire when it is idle.  *)
Automounted(m) ==
    \E a \in ToSet(table) \ {m} : a.fstype = "autofs" /\ a.mount = m.mount

Filesystem(m) ==
    /\ \/ Mount(m) /\ UNCHANGED lost
       \/ Unmount(m) /\ lost' = IF Automounted(m) THEN lost ELSE lost \cup {m}
       \/ Hang(m) /\ UNCHANGED lost
    /\ UNCHANGED <<linkdown, flapped, readonly, facts, step, conf, state>>

(* By somebody, or by the kernel after an error of the device.             *)
Remount(m) ==
    /\ Change
    /\ m \in ToSet(table) /\ m.fstype # "autofs"
    /\ readonly' = IF m \in readonly THEN readonly \ {m} ELSE readonly \cup {m}
    /\ lost' = lost \cup {m}
    /\ UNCHANGED <<proc, table, hung, stable, module, linkdown, flapped, facts, step, conf, state>>

-----------------------------------------------------------------------------
(* facts.yml                                                               *)

CollectMountFacts == step = "mount_facts" /\ Module /\ UNCHANGED health

SetAutofsMounts ==
    /\ step = "mount_facts" /\ pc = "done" /\ NhcArguments
    /\ autofs' = {mounts[i].mount : i \in {j \in DOMAIN mounts : mounts[j].fstype = "autofs"}}
    /\ step' = "infiniband_facts"
    /\ UNCHANGED <<vars, links, gathered, scan, ports, conf, state>>

(* Mutant: the prefix stays in front of the port's GID.                    *)
PortGidUnstripped(d) == Mac[d][1]

(* A MAC address of 59 characters loses its prefix of 12.                  *)
PortGid(d) == IF Len(Mac[d]) = 2 THEN Mac[d][2] ELSE Mac[d][1]

(* ib_mac_addresses: one device for each GID, whatever glob yields last.   *)
MacAddresses ==
    {f \in [{PortGid(d) : d \in NetDevices} -> NetDevices] :
        \A g \in DOMAIN f : PortGid(f[g]) = g}

(* "rate" as sysfs has it; a link that is down shows its lowest rate.      *)
RateFile(p) == IF p \in linkdown THEN {"2.5", "10"} ELSE {Speed[p]}

(* The regular expression is for whole numbers; "" if it does not match.   *)
Rate(raw) == IF raw = "2.5" THEN "" ELSE raw

(* The device of the last GID that is one of ib_mac_addresses.             *)
PortNetDevices(p, macs) ==
    LET matches == Gids[p] \cap DOMAIN macs
    IN IF matches = {} THEN {""} ELSE {macs[g] : g \in matches}

ReadPort ==
    /\ step = "infiniband_facts"
    /\ \E p \in scan, macs \in MacAddresses :
        \E raw \in RateFile(p), d \in PortNetDevices(p, macs) :
            /\ scan' = scan \ {p}
            /\ ports' = ports \cup {[name |-> p, rate |-> Rate(raw), net_device |-> d]}
    /\ UNCHANGED <<vars, links, gathered, autofs, step, conf, state>>

(* Mutant: all mounts are checked.                                         *)
CheckedMountsAll == gathered

(* "rejectattr('mount', 'eq', '/efi')".                                    *)
CheckedMounts == {g \in gathered : g.mount # Efi}

CheckedPorts == {p \in ports : p.net_device # ""}

(* "mount in nhc_autofs_mounts" compares a fact of a mount with mount      *)
(* points: it is false for every mount, so no check has the option -F, not *)
(* even that of a filesystem on an automount point.                        *)
Template ==
    /\ step = "infiniband_facts" /\ scan = {}
    /\ conf' = [fs |-> {[mount |-> g.mount, mode |-> g.mode, option |-> "-f"] :
                          g \in CheckedMounts},
                ib |-> {[rate |-> p.rate, name |-> p.name] : p \in CheckedPorts}]
    /\ step' = "configured"
    /\ UNCHANGED <<vars, links, facts, state>>

-----------------------------------------------------------------------------
(* HealthCheckProgram, run on nodes that are idle.                         *)

(* check_fs_mount_rw or _ro: the device is mounted on the point with this  *)
(* type (all of it one member of KernelMounts) and in this mode.           *)
(* check_hw_ib without a rate takes the name of the port for one.          *)
Passes ==
    /\ \A c \in conf.fs : c.mount \in ToSet(table) /\ c.mode = Mode(c.mount)
    /\ \A c \in conf.ib : c.rate = Speed[c.name] /\ c.name \notin linkdown

HealthCheck ==
    /\ step = "configured" /\ state = "idle"
    /\ ~Passes
    /\ state' = "down"
    /\ UNCHANGED <<vars, links, facts, step, conf>>

HealthNext ==
    \/ \E p \in Ports : Link(p)
    \/ \E m \in KernelMounts : Filesystem(m) \/ Remount(m)
    \/ CollectMountFacts
    \/ SetAutofsMounts
    \/ ReadPort
    \/ Template
    \/ HealthCheck

HealthSpec == HealthInit /\ [][HealthNext]_allvars /\ WF_allvars(CollectMountFacts)

-----------------------------------------------------------------------------
HealthTypeOK ==
    /\ TypeOK
    /\ linkdown \subseteq flapped /\ flapped \subseteq Ports
    /\ readonly \subseteq KernelMounts /\ lost \subseteq KernelMounts
    /\ gathered \subseteq [mount : KernelMounts, mode : {"rw", "ro"}]
    /\ scan \subseteq Ports
    /\ ports \subseteq [name : Ports, rate : {"", "10"} \cup {Speed[p] : p \in Ports},
                        net_device : NetDevices \cup {""}]
    /\ step \in {"mount_facts", "infiniband_facts", "configured"}
    /\ conf.fs \subseteq [mount : KernelMounts, mode : {"rw", "ro"}, option : {"-f", "-F"}]
    /\ conf.ib \subseteq [rate : {p.rate : p \in ports}, name : Ports]
    /\ state \in {"idle", "down"}

(* If no link went down while site.yml ran, what NHC checks is the speed   *)
(* of exactly the ports that have an ibX net device: ports in Ethernet     *)
(* mode, and devices whose address is not that of a port, are left alone.  *)
InfinibandChecked ==
    step = "configured" /\ flapped = {} =>
        conf.ib = {[rate |-> Speed[p], name |-> p] :
                      p \in {q \in Ports : \E d \in NetDevices : NetDeviceOf[d] = q}}

(* No filesystem of the facts is on an automount point. (One that is would *)
(* be checked as a permanent one, and take the node DOWN when it expires.) *)
NoAutomountGathered ==
    \A g \in gathered, a \in KernelMounts :
        a.fstype = "autofs" /\ a.mount = g.mount.mount => g.mount = Efi

(* If so, a node only goes DOWN for something that happened to it: a       *)
(* filesystem of the facts other than /efi was unmounted or changed its    *)
(* mode, or the link of a port with a net device was down, before the      *)
(* facts of it were read or after. Automounts, and what was mounted later, *)
(* come and go without harm.                                               *)
DownForCause ==
    state = "down" /\ NoAutomountGathered =>
        \/ \E g \in gathered : g.mount \in lost \ {Efi}
        \/ \E d \in NetDevices : NetDeviceOf[d] \in flapped
=============================================================================
