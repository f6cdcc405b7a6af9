--------------------------- MODULE SiteHostProofs ---------------------------
(***************************************************************************)
(* Proofs about SiteHost: for every set of modules with their dependencies *)
(* and softdep lines, every set of users and every list the inventory may  *)
(* have, and any number of runs, failures and reboots.                     *)
(***************************************************************************)
EXTENDS SiteHost, TLAPS

-----------------------------------------------------------------------------
(* The denylist.                                                           *)

(* What is in the kernel has what it needs, what is enforced is denied by  *)
(* the file and not in the kernel, and a run that is probing the modules   *)
(* has written the file and has not found those before index.              *)
KInv ==
    /\ denylist \in Seq(Modules)
    /\ loaded \subseteq Modules
    /\ \A m \in loaded : Needs[m] \subseteq loaded
    /\ enforced \subseteq conf.install \cap conf.softdep
    /\ loaded \cap enforced = {}
    /\ kpc \in {"rmmod", "modprobe"} => index \in 1..Len(denylist) /\ conf = Lines
    /\ kpc = "modprobe" => \A i \in 1..(index - 1) : denylist[i] \notin loaded

(* Modules that enter the kernel by modprobe are not denied.               *)
LEMMA LoadingKeepsKInv ==
    ASSUME KInv, NEW m \in Modules, m \in loaded \/ CanLoad(m),
           loaded' = loaded \cup {m} \cup Needs[m],
           UNCHANGED <<denylist, conf, enforced>>
    PROVE  /\ loaded' \subseteq Modules
           /\ \A n \in loaded' : Needs[n] \subseteq loaded'
           /\ loaded' \cap enforced' = {}
           /\ conf = Lines => \A i \in 1..Len(denylist) :
                                 denylist[i] \notin loaded => denylist[i] \notin loaded'
<1>1. Needs[m] \subseteq Modules /\ \A n \in Needs[m] : Needs[n] \subseteq Needs[m]
  BY NeedsAssumption
<1>2. \A n \in loaded' \ loaded : ~Denied(n)
  BY DEF KInv, CanLoad
<1>3. \A n \in enforced : Denied(n)
  BY DEF KInv, Denied
<1>4. conf = Lines => \A i \in 1..Len(denylist) : Denied(denylist[i])
  <2> SUFFICES ASSUME conf = Lines, NEW i \in 1..Len(denylist) PROVE Denied(denylist[i])
    OBVIOUS
  <2>1. denylist[i] \in ToSet(denylist)
    BY DEF KInv, ToSet
  <2> QED BY <2>1 DEF Denied, Lines
<1> QED BY <1>1, <1>2, <1>3, <1>4 DEF KInv

(* The loops of unload_modules.py stay within the denylist.                *)
LEMMA NextModuleStays ==
    ASSUME KInv, kpc \in {"rmmod", "modprobe"}, NEW loop, NEW then,
           NextModule(loop, then), UNCHANGED denylist
    PROVE  \/ kpc' = then /\ index' = 1 /\ index = Len(denylist) /\ Len(denylist) \in Nat \ {0}
           \/ kpc' = loop /\ index' = index + 1 /\ index' \in 1..Len(denylist')
<1>1. Len(denylist) \in Nat
  BY DEF KInv
<1> QED BY <1>1 DEF KInv, NextModule

LEMMA PreventLoadingKInv == ASSUME KInv, PreventLoading PROVE KInv'
<1>1. enforced' \subseteq ToSet(denylist) /\ loaded' \cap enforced' = {}
  BY DEF PreventLoading, KInv
<1>2. conf'.install = ToSet(denylist) /\ conf'.softdep = ToSet(denylist) /\ conf' = Lines'
  BY DEF PreventLoading, Lines
<1>3. denylist # <<>> => 1 \in 1..Len(denylist)
  BY DEF KInv
<1>4. kpc' \in {"done", "rmmod"} /\ index' = 1 /\ (kpc' = "rmmod" => denylist # <<>>)
  BY DEF PreventLoading
<1> QED BY <1>1, <1>2, <1>3, <1>4 DEF PreventLoading, KInv

(* A step that removes modules no other needs, and goes on or fails.       *)
LEMMA RmmodKInv ==
    ASSUME KInv, RmmodAbsent \/ Rmmod \/ RmmodBusy \/ RmmodTimeout
    PROVE  KInv'
<1>1. UNCHANGED <<denylist, conf, enforced>>
  BY DEF RmmodAbsent, Rmmod, RmmodBusy, RmmodTimeout
<1>2. loaded' \subseteq loaded /\ \A m \in loaded' : Needs[m] \subseteq loaded'
  <2>1. CASE UNCHANGED loaded
    BY <2>1 DEF KInv
  <2>2. CASE loaded' = loaded \ {denylist[index]} /\ ~Busy(denylist[index])
    BY <2>2 DEF KInv, Busy, Dependents
  <2> QED BY <2>1, <2>2 DEF RmmodAbsent, Rmmod, RmmodBusy, RmmodTimeout
<1>3. \/ kpc' = "failed"
      \/ kpc' = "rmmod" /\ index' \in 1..Len(denylist')
      \/ kpc' = "modprobe" /\ index' = 1 /\ Len(denylist') \in Nat \ {0}
  BY <1>1, NextModuleStays DEF RmmodAbsent, Rmmod, RmmodBusy, RmmodTimeout
<1>4. kpc = "rmmod"
  BY DEF RmmodAbsent, Rmmod, RmmodBusy, RmmodTimeout
<1> QED BY <1>1, <1>2, <1>3, <1>4 DEF KInv, Lines

LEMMA TryLoadingKInv == ASSUME KInv, TryLoading PROVE KInv'
<1>1. UNCHANGED <<denylist, conf, loaded>> /\ kpc = "modprobe" /\ conf = Lines
  BY DEF TryLoading, KInv
<1>2. \A i \in 1..index : denylist[i] \notin loaded
  BY DEF TryLoading, KInv, ModprobeSucceeds
<1>3. CASE kpc' = "done" /\ index = Len(denylist)
  <2>1. enforced' = ToSet(denylist) /\ loaded \cap ToSet(denylist) = {}
    BY <1>2, <1>3 DEF TryLoading, KInv, ToSet
  <2> QED BY <1>1, <1>3, <2>1 DEF KInv, Lines
<1>4. CASE kpc' = "modprobe" /\ index' = index + 1 /\ index' \in 1..Len(denylist')
  <2>1. enforced' = enforced
    BY <1>4 DEF TryLoading
  <2>2. index' - 1 = index
    BY <1>4, <1>1 DEF KInv
  <2> QED BY <1>1, <1>2, <1>4, <2>1, <2>2 DEF KInv, Lines
<1> QED BY <1>1, <1>3, <1>4, NextModuleStays DEF TryLoading

LEMMA TryLoadingFailsKInv == ASSUME KInv, TryLoadingFails PROVE KInv'
<1>1. denylist[index] \in Modules
  BY DEF TryLoadingFails, KInv
<1>2. kpc' = "failed" /\ UNCHANGED <<denylist, conf, enforced>>
  BY DEF TryLoadingFails
<1> QED BY <1>1, <1>2, LoadingKeepsKInv DEF TryLoadingFails, ModprobeSucceeds, KInv

(* What the host itself does.                                              *)
LEMMA HostKInv == ASSUME KInv, Host PROVE KInv'
<1>1. ASSUME NEW m \in Modules, Load(m) PROVE KInv'
  <2>1. UNCHANGED <<denylist, conf, kpc, index, enforced>>
    BY <1>1 DEF Load
  <2>2. \A i \in 1..(index - 1) : index \in 1..Len(denylist) => i \in 1..Len(denylist)
    BY DEF KInv
  <2> QED BY <1>1, <2>1, <2>2, LoadingKeepsKInv DEF Load, KInv, Lines
<1>2. ASSUME NEW m \in Modules, Use(m) \/ Release(m) PROVE KInv'
  BY <1>2 DEF Use, Release, KInv, Lines
<1> QED BY <1>1, <1>2 DEF Host

LEMMA RunKInv ==
    ASSUME KInv, KernelStart \/ KernelAbort \/ KernelReboot \/ UNCHANGED kvars
    PROVE  KInv'
<1>1. CASE KernelStart
  BY <1>1, DenylistsAssumption DEF KernelStart, KInv
<1>2. CASE KernelAbort
  BY <1>2 DEF KernelAbort, KInv
<1>3. CASE KernelReboot
  BY <1>3 DEF KernelReboot, Over, KInv
<1>4. CASE UNCHANGED kvars
  BY <1>4 DEF kvars, KInv, Lines
<1> QED BY <1>1, <1>2, <1>3, <1>4

(* No module of a denylist that a completed run applied is in the kernel,  *)
(* whatever is loaded, used or rebooted and wherever later runs fail.      *)
THEOREM DeniedStayOut == Spec => []DenylistEnforced
<1>1. Init => KInv
  BY DenylistsAssumption DEF Init, KInit, NoConf, KInv
<1>2. ASSUME KInv, [Next]_vars PROVE KInv'
  <2>1. KernelStep => KInv'
    BY <1>2, PreventLoadingKInv, RmmodKInv, TryLoadingKInv, TryLoadingFailsKInv DEF KernelStep
  <2>2. KernelStep \/ Host \/ KernelStart \/ KernelAbort \/ KernelReboot \/ UNCHANGED kvars
    BY <1>2 DEF Next, vars, SiteStart, Mitigations, Iam, Extras, BasicUsersRole,
                SiteAbort, Reboot, KernelActivity, UserActivity
  <2> QED BY <1>2, <2>1, <2>2, HostKInv, RunKInv
<1>3. KInv => DenylistEnforced
  BY DEF KInv, DenylistEnforced
<1> QED BY <1>1, <1>2, <1>3, PTL DEF Spec

-----------------------------------------------------------------------------
(* The users.                                                              *)

(* The state of the item with index i is as the list has it.               *)
AsListed(i) ==
    IF users[i].state = "absent" THEN users[i].name \notin passwd
                                 ELSE override => users[i].name \in passwd

(* The items the loop over users has passed are as listed, unless one has  *)
(* failed; sssd is off meanwhile, if it is to be overridden.               *)
UInv ==
    /\ users \in Lists
    /\ override \in BOOLEAN
    /\ stage # "users" => UsersOver
    /\ upc \in {"list", "terminate", "users"} => item \in 1..Len(users)
    /\ upc = "stop" => item = 1 /\ broken = FALSE
    /\ upc = "users" /\ override => ~sssd
    /\ upc = "users" /\ ~broken => \A i \in 1..(item - 1) : AsListed(i)
    /\ upc \in {"start", "done"} => \A i \in 1..Len(users) : AsListed(i)

(* Names of a list are distinct, so an item changes only its own entry.    *)
LEMMA ListFacts ==
    ASSUME UInv
    PROVE  /\ Len(users) \in Nat
           /\ users # <<>> => 1 \in 1..Len(users)
           /\ users = <<>> => Len(users) = 0
           /\ \A i \in 1..Len(users) :
                /\ users[i].state \in {"present", "absent"}
                /\ \A j \in 1..Len(users) : i # j => users[i].name # users[j].name
<1>1. users \in Seq([name : Users, state : {"present", "absent"}])
  BY ListsAssumption DEF UInv
<1>2. \A i, j \in DOMAIN users : i # j => users[i].name # users[j].name
  BY ListsAssumption DEF UInv
<1>3. Len(users) \in Nat /\ DOMAIN users = 1..Len(users)
  BY <1>1
<1>4. users = <<>> => Len(users) = 0
  OBVIOUS
<1>5. users # <<>> => Len(users) # 0
  BY <1>1
<1>6. \A i \in 1..Len(users) : users[i].state \in {"present", "absent"}
  <2> SUFFICES ASSUME NEW i \in 1..Len(users) PROVE users[i].state \in {"present", "absent"}
    OBVIOUS
  <2> DEFINE Item == [name : Users, state : {"present", "absent"}]
  <2>1. users \in Seq(Item) /\ i \in 1..Len(users)
    BY <1>1
  <2>2. users[i] \in Item
    <3> HIDE DEF Item
    <3> QED BY <2>1
  <2> QED BY <2>2
<1>7. users # <<>> => 1 \in 1..Len(users)
  BY <1>3, <1>5
<1> QED BY <1>2, <1>3, <1>4, <1>6, <1>7

(* The loop that terminates sessions leaves all that UInv is about alone.  *)
LEMMA ListingUInv ==
    ASSUME UInv, stage = stage', UNCHANGED <<passwd, sssd, users, override>>,
           \/ upc' = "terminate" /\ upc = "list" /\ item' = item
           \/ upc' = "terminate" /\ upc = "terminate" /\ item' = item
           \/ \E fails \in BOOLEAN : upc \in {"list", "terminate"} /\ NextItem("list", "stop", fails)
    PROVE  UInv'
<1>1. upc \in {"list", "terminate"} /\ item \in 1..Len(users)
  BY DEF UInv
<1>2. \/ upc' = "terminate" /\ item' = item
      \/ upc' = "list" /\ item' = item + 1 /\ item < Len(users)
      \/ upc' = "stop" /\ item' = 1 /\ broken' = FALSE
      \/ upc' = "failed"
  BY DEF NextItem
<1> QED BY <1>1, <1>2, ListFacts DEF UInv, UsersOver, AsListed

(* An item of the loop over users that does not fail is then as listed.    *)
LEMMA UserUInv == ASSUME UInv, UserPresent \/ UserAbsent, stage' = stage PROVE UInv'
<1>1. upc = "users" /\ item \in 1..Len(users) /\ UNCHANGED <<sssd, users, override>>
  BY DEF UserPresent, UserAbsent, UInv
<1>2. PICK fails \in BOOLEAN : 
        /\ NextItem("users", "start", fails)
        /\ ~fails => \A i \in 1..Len(users) : i = item => AsListed(i)'
  <2>1. CASE UserPresent
    <3>1. users[item].state # "absent"
      BY <2>1 DEF UserPresent
    <3>2. PICK fails \in BOOLEAN :
            /\ NextItem("users", "start", fails)
            /\ ~Resolves(users[item].name) => users[item].name \in passwd'
            /\ Resolves(users[item].name) => passwd' = passwd
      BY <2>1 DEF UserPresent
    <3>3. override => users[item].name \in passwd'
      BY <1>1, <3>2 DEF UInv, Resolves
    <3>4. ~fails => IF users[item].state = "absent" THEN users[item].name \notin passwd'
                    ELSE override => users[item].name \in passwd'
      BY <3>1, <3>3
    <3> QED BY <1>1, <3>2, <3>4 DEF AsListed
  <2>2. CASE UserAbsent
    <3> DEFINE u == users[item].name
               deletes == u \in passwd /\ ~LoggedIn(u)
               failing == Resolves(u) /\ ~deletes
    <3>1. users[item].state = "absent" /\ NextItem("users", "start", failing)
      BY <2>2 DEF UserAbsent
    <3>2. ~failing => u \notin passwd'
      BY <2>2 DEF UserAbsent, Resolves
    <3>3. failing \in BOOLEAN
      BY DEF Resolves
    <3> QED BY <1>1, <3>1, <3>2, <3>3 DEF AsListed
  <2> QED BY <2>1, <2>2
<1>3. \A i \in 1..Len(users) : i # item /\ AsListed(i) => AsListed(i)'
  <2>1. \A u : u # users[item].name => (u \in passwd' <=> u \in passwd)
    BY DEF UserPresent, UserAbsent
  <2> QED BY <1>1, <2>1, ListFacts DEF AsListed
<1>4. CASE item < Len(users)
  <2>1. upc' = "users" /\ item' = item + 1 /\ broken' = (broken \/ fails)
    BY <1>2, <1>4 DEF NextItem
  <2>2. item' - 1 = item /\ item' \in 1..Len(users)
    BY <1>1, <1>4, <2>1, ListFacts
  <2>3. ~broken' => \A i \in 1..item : AsListed(i)'
    <3> SUFFICES ASSUME ~broken', NEW i \in 1..item PROVE AsListed(i)'
      OBVIOUS
    <3>1. i \in 1..Len(users)
      BY <1>1, ListFacts
    <3>4. ~broken /\ ~fails
      BY <2>1
    <3>2. i # item => i \in 1..(item - 1)
      BY <1>1
    <3>3. i # item => AsListed(i)
      BY <1>1, <3>2, <3>4 DEF UInv
    <3> QED BY <1>2, <1>3, <3>1, <3>3, <3>4
  <2> QED BY <1>1, <2>1, <2>2, <2>3 DEF UInv, UsersOver
<1>5. CASE ~(item < Len(users))
  <2>1. item = Len(users)
    BY <1>1, <1>5, ListFacts
  <2>2. CASE broken \/ fails
    <3>1. upc' = "failed"
      BY <1>2, <1>5, <2>2 DEF NextItem
    <3> QED BY <1>1, <3>1 DEF UInv, UsersOver
  <2>3. CASE ~broken /\ ~fails
    <3>1. upc' = "start"
      BY <1>2, <1>5, <2>3 DEF NextItem
    <3>2. \A i \in 1..Len(users) : AsListed(i)'
      <4> SUFFICES ASSUME NEW i \in 1..Len(users) PROVE AsListed(i)'
        OBVIOUS
      <4>1. i # item => i \in 1..(item - 1)
        BY <1>1, <2>1, ListFacts
      <4>2. i # item => AsListed(i)
        BY <1>1, <2>3, <4>1 DEF UInv
      <4> QED BY <1>2, <1>3, <2>3, <4>2
    <3> QED BY <1>1, <3>1, <3>2 DEF UInv, UsersOver
  <2> QED BY <2>2, <2>3
<1> QED BY <1>4, <1>5

LEMMA UsersStepUInv == ASSUME UInv, UsersStep, stage' = stage PROVE UInv'
<1>1. CASE SkipPresent \/ SessionsTerminated
  <2>1. NextItem("list", "stop", FALSE) /\ upc \in {"list", "terminate"}
        /\ UNCHANGED <<passwd, sssd, users, override>>
    BY <1>1 DEF SkipPresent, SessionsTerminated, accounts
  <2> QED BY <2>1, ListingUInv
<1>2. CASE ListSessions
  BY <1>2, ListingUInv DEF ListSessions, accounts
<1>3. CASE TerminateSession
  BY <1>3, ListingUInv DEF TerminateSession
<1>4. CASE StopSssd
  <2>1. /\ upc = "stop" /\ users' = users /\ override' = override /\ item' = 1 /\ broken' = FALSE
        /\ passwd' = passwd /\ sssd' = (sssd /\ ~override)
        /\ upc' = IF users = <<>> THEN "start" ELSE "users"
    BY <1>4 DEF StopSssd, UInv
  <2>2. 1..(item' - 1) = {}
    BY <2>1
  <2>3. CASE users = <<>>
    <3>1. 1..Len(users) = {}
      BY <2>3, ListFacts
    <3> QED BY <2>1, <2>3, <3>1 DEF UInv, UsersOver
  <2>4. CASE users # <<>>
    <3>1. 1 \in 1..Len(users) /\ upc' = "users"
      BY <2>1, <2>4, ListFacts
    <3> QED BY <2>1, <2>2, <3>1 DEF UInv, UsersOver
  <2> QED BY <2>3, <2>4
<1>5. CASE RestartSssd
  <2>1. upc = "start" /\ upc' = "done" /\ UNCHANGED <<passwd, users, override>>
    BY <1>5 DEF RestartSssd
  <2> QED BY <2>1 DEF UInv, UsersOver, AsListed
<1> QED BY <1>1, <1>2, <1>3, <1>4, <1>5, UserUInv DEF UsersStep

LEMMA UsersStartUInv == ASSUME UInv, UsersStart, stage' = "users" PROVE UInv'
<1>1. /\ users' \in Lists /\ override' \in BOOLEAN /\ item' = 1 /\ broken' = FALSE
      /\ upc' \in {"stop", "list"} /\ (upc' = "list" => users' # <<>>)
  BY DEF UsersStart
<1>2. users' # <<>> => 1 \in 1..Len(users')
  BY <1>1, ListsAssumption
<1> QED BY <1>1, <1>2 DEF UInv

(* A step that ends no run, or ends one as failed, and leaves users alone. *)
LEMMA OtherUInv ==
    ASSUME UInv, UNCHANGED <<passwd, users, override>>,
           stage' # "users" => UsersOver',
           \/ upc' = upc /\ item' = item /\ broken' = broken /\ (sssd' = sssd \/ UsersOver)
           \/ upc' = "failed"
    PROVE  UInv'
BY DEF UInv, UsersOver, AsListed

(* A run of basic_users that succeeds has deleted whom it was to delete,   *)
(* and made local whom it was to create if it overrides sssd.              *)
THEOREM UsersAreApplied == Spec => []UsersApplied
<1>1. Init => UInv
  BY DEF Init, UInit, UInv, UsersOver
<1>2. ASSUME UInv, [Next]_vars PROVE UInv'
  <2>1. ASSUME NEW p, SiteStart(p) PROVE UInv'
    <3>1. CASE UsersStart /\ stage' = "users"
      BY <1>2, <3>1, UsersStartUInv
    <3>2. CASE UNCHANGED uvars /\ stage' = "mitigations"
      <4>1. UsersOver
        BY <1>2, <2>1 DEF SiteStart, SiteOver, UInv
      <4> QED BY <1>2, <3>2, <4>1, OtherUInv DEF uvars, UsersOver
    <3> QED BY <2>1, <3>1, <3>2 DEF SiteStart
  <2>2. CASE Mitigations
    <3>1. UNCHANGED uvars /\ UsersOver
      BY <1>2, <2>2 DEF Mitigations, UInv
    <3> QED BY <1>2, <3>1, OtherUInv DEF uvars, UsersOver
  <2>3. CASE Iam
    <3>1. UNCHANGED <<passwd, users, override, upc, item, broken>> /\ UsersOver
      BY <1>2, <2>3 DEF Iam, UInv
    <3> QED BY <1>2, <3>1, OtherUInv DEF UsersOver
  <2>4. CASE Extras
    BY <1>2, <2>4, UsersStartUInv DEF Extras
  <2>5. CASE BasicUsersRole
    <3>1. CASE UsersStep /\ UNCHANGED stage
      BY <1>2, <3>1, UsersStepUInv
    <3>2. CASE upc \in {"done", "failed"} /\ stage' = upc /\ UNCHANGED uvars
      BY <1>2, <3>2, OtherUInv DEF uvars, UsersOver
    <3> QED BY <2>5, <3>1, <3>2 DEF BasicUsersRole
  <2>6. CASE SiteAbort
    <3>1. CASE UsersOver /\ UNCHANGED uvars
      BY <1>2, <3>1, OtherUInv DEF uvars, UsersOver
    <3>2. CASE UsersAbort
      BY <1>2, <3>2, OtherUInv DEF UsersAbort, accounts, UsersOver
    <3> QED BY <2>6, <3>1, <3>2 DEF SiteAbort
  <2>7. CASE Reboot
    <3>1. UNCHANGED <<passwd, users, override, item, broken>>
          /\ upc' = IF UsersOver THEN upc ELSE "failed"
      BY <2>7 DEF Reboot, UsersReboot
    <3> QED BY <1>2, <3>1, OtherUInv DEF UsersOver
  <2>8. CASE KernelActivity \/ UserActivity \/ UNCHANGED vars
    <3>1. UNCHANGED <<passwd, users, override, upc, item, broken, sssd, stage>>
      BY <2>8 DEF KernelActivity, UserActivity, Login, Logout, vars, uvars
    <3> QED BY <1>2, <3>1, OtherUInv DEF UInv, UsersOver
  <2> QED BY <1>2, <2>1, <2>2, <2>3, <2>4, <2>5, <2>6, <2>7, <2>8 DEF Next
<1>3. UInv => UsersApplied
  <2> SUFFICES ASSUME UInv PROVE UsersApplied
    OBVIOUS
  <2>1. DOMAIN users = 1..Len(users)
    BY ListsAssumption DEF UInv
  <2> QED BY <2>1 DEF UInv, UsersApplied, AsListed
<1> QED BY <1>1, <1>2, <1>3, PTL DEF Spec

-----------------------------------------------------------------------------
(* sssd.                                                                   *)

(* A run of site.yml reaches basic_users with sssd running, and where sssd *)
(* is off in that role the role knows that it has stopped it.              *)
SInv ==
    /\ sssd \in BOOLEAN
    /\ stage = "extras" => sssd
    /\ play = "site" /\ stage = "users" =>
          sssd \/ (stopped /\ upc \in {"users", "start", "failed"})
    /\ play = "site" /\ stage = "done" => sssd

LEMMA UsersStepSInv == ASSUME SInv, UsersStep, stage = "users", UNCHANGED <<stage, play>> PROVE SInv'
<1>1. CASE SkipPresent \/ ListSessions \/ TerminateSession \/ SessionsTerminated
  <2>1. upc \in {"list", "terminate"} /\ sssd' = sssd
    BY <1>1 DEF SkipPresent, ListSessions, TerminateSession, SessionsTerminated, accounts
  <2> QED BY <2>1 DEF SInv
<1>2. CASE StopSssd
  <2>1. upc' \in {"users", "start"}
    BY <1>2 DEF StopSssd
  <2>2. play = "site" => sssd
    BY <1>2 DEF StopSssd, SInv
  <2>3. sssd' \in BOOLEAN /\ (sssd => sssd' \/ stopped')
    BY <1>2 DEF StopSssd
  <2> QED BY <2>1, <2>2, <2>3 DEF SInv
<1>3. CASE UserPresent \/ UserAbsent
  <2>1. upc = "users" /\ sssd' = sssd /\ stopped' = stopped
    BY <1>3 DEF UserPresent, UserAbsent
  <2>2. upc' \in {"users", "start", "failed"}
    BY <1>3 DEF UserPresent, UserAbsent, NextItem
  <2> QED BY <2>1, <2>2 DEF SInv
<1>4. CASE RestartSssd
  <2>1. sssd' \in BOOLEAN /\ (sssd \/ stopped => sssd')
    BY <1>4 DEF RestartSssd
  <2> QED BY <2>1 DEF SInv
<1> QED BY <1>1, <1>2, <1>3, <1>4 DEF UsersStep

(* A run of site.yml that succeeds leaves sssd running, whatever failed    *)
(* or stopped before it.                                                   *)
THEOREM SiteRepairsSssd == Spec => []SiteLeavesSssdRunning
<1>1. Init => SInv
  BY DEF Init, UInit, SInv
<1>2. ASSUME SInv, [Next]_vars PROVE SInv'
  <2>1. ASSUME NEW p, SiteStart(p) PROVE SInv'
    <3>1. sssd' = sssd /\ stage' \in {"users", "mitigations"}
          /\ (stage' = "users" => play' # "site")
      BY <2>1 DEF SiteStart, UsersStart, accounts, uvars
    <3> QED BY <1>2, <3>1 DEF SInv
  <2>2. CASE Mitigations
    <3>1. stage = "mitigations" /\ sssd' = sssd /\ play' = play
          /\ (stage' \in {"mitigations", "failed", "iam"} \/ (stage' = "done" /\ play # "site"))
      BY <2>2 DEF Mitigations, uvars
    <3> QED BY <1>2, <3>1 DEF SInv
  <2>3. CASE Iam
    BY <2>3 DEF Iam, SssdState, SInv
  <2>4. CASE Extras
    BY <1>2, <2>4 DEF Extras, UsersStart, accounts, SInv
  <2>5. CASE BasicUsersRole
    <3>1. CASE UsersStep /\ UNCHANGED stage
      BY <1>2, <2>5, <3>1, UsersStepSInv DEF BasicUsersRole
    <3>2. CASE upc \in {"done", "failed"} /\ stage' = upc /\ UNCHANGED uvars
      BY <1>2, <2>5, <3>2 DEF BasicUsersRole, uvars, SInv
    <3> QED BY <2>5, <3>1, <3>2 DEF BasicUsersRole
  <2>6. CASE SiteAbort
    BY <1>2, <2>6 DEF SiteAbort, UsersAbort, accounts, uvars, SInv
  <2>7. CASE Reboot
    BY <1>2, <2>7 DEF Reboot, UsersReboot, SiteOver, SInv
  <2>8. CASE KernelActivity \/ UserActivity \/ UNCHANGED vars
    <3>1. UNCHANGED <<sssd, stopped, upc, stage, play>>
      BY <2>8 DEF KernelActivity, UserActivity, Login, Logout, vars, uvars
    <3> QED BY <1>2, <3>1 DEF SInv
  <2> QED BY <1>2, <2>1, <2>2, <2>3, <2>4, <2>5, <2>6, <2>7, <2>8 DEF Next
<1>3. SInv => SiteLeavesSssdRunning
  BY DEF SInv, SiteLeavesSssdRunning
<1> QED BY <1>1, <1>2, <1>3, PTL DEF Spec

-----------------------------------------------------------------------------
(* The sessions.                                                           *)

(* An id is that of one session for good, so what was listed names, until  *)
(* the host reboots, either sessions of the user to be deleted or none.    *)
LInv ==
    /\ lastId \in Nat
    /\ \A s \in sessions : s.id \in 1..lastId
    /\ \A s, t \in sessions : s.id = t.id => s = t
    /\ upc = "terminate" =>
          /\ listed \subseteq 1..lastId
          /\ \A s \in sessions : s.id \in listed => s.user = users[item].name

(* Sessions may end, or there are none, and the terminating loop goes on   *)
(* with the same user or is left.                                          *)
LEMMA FewerSessionsLInv ==
    ASSUME LInv, sessions' \subseteq sessions, lastId' = lastId,
           \/ upc' # "terminate"
           \/ upc = "terminate" /\ listed' \subseteq listed /\ UNCHANGED <<users, item>>
    PROVE  LInv'
<1>1. \A s \in sessions' : s \in sessions
  OBVIOUS
<1> QED BY <1>1 DEF LInv

LEMMA LoginLInv == ASSUME LInv, NEW u \in Users, Login(u) PROVE LInv'
<1> DEFINE new == [id |-> lastId + 1, user |-> u]
<1>1. /\ lastId' = lastId + 1 /\ sessions' = sessions \cup {new}
      /\ UNCHANGED <<users, upc, item, listed>>
  BY DEF Login
<1>2. new.id = lastId + 1 /\ new.id \notin 1..lastId /\ new.id \in 1..lastId'
  BY <1>1 DEF LInv
<1>3. 1..lastId \subseteq 1..lastId' /\ lastId' \in Nat
  BY <1>1 DEF LInv
<1>4. \A s \in sessions' : s = new \/ s \in sessions
  BY <1>1
<1> HIDE DEF new
<1>5. \A s \in sessions' : s.id \in 1..lastId'
  BY <1>2, <1>3, <1>4 DEF LInv
<1>6. \A s, t \in sessions' : s.id = t.id => s = t
  BY <1>2, <1>4 DEF LInv
<1>7. upc = "terminate" => /\ listed \subseteq 1..lastId'
                          /\ \A s \in sessions' : s.id \in listed => s.user = users[item].name
  BY <1>2, <1>3, <1>4 DEF LInv
<1> QED BY <1>1, <1>3, <1>5, <1>6, <1>7 DEF LInv

LEMMA ListSessionsLInv == ASSUME LInv, ListSessions PROVE LInv'
<1>1. /\ listed' = SessionsOf(users[item].name)
      /\ UNCHANGED <<sessions, lastId, users, item>>
  BY DEF ListSessions, accounts
<1>2. \A id \in listed' : \E t \in sessions : t.id = id /\ t.user = users[item].name
  BY <1>1 DEF SessionsOf
<1>3. listed' \subseteq 1..lastId
  BY <1>2 DEF LInv
<1>4. \A s \in sessions : s.id \in listed' => s.user = users[item].name
  BY <1>2 DEF LInv
<1> QED BY <1>1, <1>3, <1>4 DEF LInv

LEMMA UsersStepLInv == ASSUME LInv, UsersStep PROVE LInv'
<1>1. CASE ListSessions
  BY <1>1, ListSessionsLInv
<1>2. CASE TerminateSession
  <2>1. PICK id \in listed :
          /\ sessions' = {s \in sessions : s.id # id}
          /\ IF sessions' = sessions
             THEN NextItem("list", "stop", TRUE) /\ listed' = {}
             ELSE listed' = listed \ {id} /\ UNCHANGED <<upc, item, broken>>
    BY <1>2 DEF TerminateSession
  <2>2. upc = "terminate" /\ UNCHANGED <<lastId, users>>
    BY <1>2 DEF TerminateSession
  <2> QED BY <2>1, <2>2, FewerSessionsLInv DEF NextItem
<1>3. CASE SkipPresent \/ SessionsTerminated \/ UserPresent \/ UserAbsent
  BY <1>3, FewerSessionsLInv DEF SkipPresent, SessionsTerminated, UserPresent, UserAbsent,
                                 NextItem, accounts
<1>4. CASE StopSssd \/ RestartSssd
  BY <1>4, FewerSessionsLInv DEF StopSssd, RestartSssd
<1> QED BY <1>1, <1>2, <1>3, <1>4 DEF UsersStep

(* A session that ends while sessions are terminated, and whose id is      *)
(* listed, is one of the user who is to be deleted.                        *)
THEOREM OthersKeepSessions == Spec => OthersStayLoggedIn
<1>1. Init => LInv
  BY DEF Init, UInit, LInv
<1>2. ASSUME LInv, [Next]_vars PROVE LInv'
  <2>1. CASE UsersStart
    BY <1>2, <2>1, FewerSessionsLInv DEF UsersStart, accounts
  <2>2. CASE UsersStep
    BY <1>2, <2>2, UsersStepLInv
  <2>3. CASE UsersAbort \/ Iam
    BY <1>2, <2>3, FewerSessionsLInv DEF UsersAbort, Iam, accounts
  <2>4. CASE UsersReboot
    BY <2>4 DEF UsersReboot, UsersOver, LInv
  <2>5. CASE Logout
    BY <1>2, <2>5, FewerSessionsLInv DEF Logout
  <2>6. ASSUME NEW u \in Users, Login(u) PROVE LInv'
    BY <1>2, <2>6, LoginLInv
  <2>7. CASE UNCHANGED uvars
    BY <1>2, <2>7, FewerSessionsLInv DEF uvars
  <2> QED
    BY <1>2, <2>1, <2>2, <2>3, <2>4, <2>5, <2>6, <2>7
    DEF Next, vars, SiteStart, Mitigations, Extras, BasicUsersRole, SiteAbort, Reboot,
        KernelActivity, UserActivity
<1>3. LInv => (upc = "terminate" => \A s \in sessions \ sessions' :
                 s.id \in listed => s.user = users[item].name)
  BY DEF LInv
<1> QED BY <1>1, <1>2, <1>3, PTL DEF Spec, OthersStayLoggedIn

-----------------------------------------------------------------------------
(* Types.                                                                  *)

(* The loops stay within the denylist, whatever its length.                *)
LEMMA KernelTyped ==
    ASSUME KernelTypeOK, KernelStep \/ Host \/ KernelStart \/ KernelAbort \/ KernelReboot
                         \/ UNCHANGED kvars
    PROVE  KernelTypeOK'
<1>1. denylist \in Seq(Modules) /\ DOMAIN denylist = 1..Len(denylist) /\ Len(denylist) \in Nat
  BY DenylistsAssumption DEF KernelTypeOK
<1>2. kpc \in {"rmmod", "modprobe"} => denylist[index] \in Modules
  BY <1>1 DEF KernelTypeOK
<1>3. ToSet(denylist) \subseteq Modules
  BY <1>1 DEF ToSet
<1>4. ASSUME NEW m \in Modules PROVE {m} \cup Needs[m] \subseteq Modules
  BY NeedsAssumption
<1>5. ASSUME NEW loop, NEW then, kpc \in {"rmmod", "modprobe"}, NextModule(loop, then)
      PROVE  index' \in DOMAIN denylist /\ kpc' \in {loop, then}
  BY <1>1, <1>5 DEF KernelTypeOK, NextModule
<1>6. CASE PreventLoading
  <2>1. denylist # <<>> => 1 \in DOMAIN denylist
    BY <1>1
  <2> QED BY <1>3, <1>6, <2>1 DEF PreventLoading, Lines, KernelTypeOK
<1>7. CASE RmmodAbsent \/ Rmmod \/ RmmodBusy \/ RmmodTimeout
  BY <1>5, <1>7 DEF RmmodAbsent, Rmmod, RmmodBusy, RmmodTimeout, Busy, KernelTypeOK
<1>8. CASE TryLoading
  BY <1>3, <1>5, <1>8 DEF TryLoading, KernelTypeOK
<1>9. CASE TryLoadingFails
  BY <1>2, <1>4, <1>9 DEF TryLoadingFails, KernelTypeOK
<1>10. CASE Host
  BY <1>4, <1>10 DEF Host, Load, Use, Release, KernelTypeOK
<1>11. CASE KernelStart \/ KernelAbort \/ KernelReboot \/ UNCHANGED kvars
  BY <1>11 DEF KernelStart, KernelAbort, KernelReboot, Over, kvars, KernelTypeOK
<1> QED BY <1>6, <1>7, <1>8, <1>9, <1>10, <1>11 DEF KernelStep

(* The loops stay within the list of users, and each starts at its head.   *)
TInv == UsersTypeOK /\ (upc = "stop" => item = 1)

LEMMA UsersStepTyped == ASSUME TInv, UsersStep PROVE TInv'
<1>1. /\ DOMAIN users = 1..Len(users) /\ Len(users) \in Nat
      /\ \A i \in DOMAIN users : users[i].name \in Users
  <2> DEFINE Item == [name : Users, state : {"present", "absent"}]
  <2>1. users \in Seq(Item)
    BY ListsAssumption DEF TInv, UsersTypeOK
  <2>2. DOMAIN users = 1..Len(users) /\ Len(users) \in Nat /\ \A i \in DOMAIN users : users[i] \in Item
    <3> HIDE DEF Item
    <3> QED BY <2>1
  <2> QED BY <2>2
<1>2. ASSUME NEW loop, NEW then, NEW fails \in BOOLEAN, upc \in {"list", "terminate", "users"},
             NextItem(loop, then, fails)
      PROVE  /\ upc' \in {loop, then, "failed"}
             /\ item' \in DOMAIN users
             /\ upc' # loop => item' = 1
             /\ broken' \in BOOLEAN
  <2>1. item' \in DOMAIN users /\ (upc' # loop => item' = 1)
    BY <1>1, <1>2 DEF NextItem, TInv, UsersTypeOK
  <2>2. upc' \in {loop, then, "failed"} /\ broken' \in BOOLEAN
    BY <1>2 DEF NextItem, TInv, UsersTypeOK
  <2> QED BY <2>1, <2>2
<1>3. CASE SkipPresent \/ SessionsTerminated
  <2>1. upc \in {"list", "terminate"} /\ NextItem("list", "stop", FALSE)
        /\ UNCHANGED <<passwd, sssd, sessions, lastId, users, override, listed, stopped>>
    BY <1>3 DEF SkipPresent, SessionsTerminated, accounts
  <2>2. upc' \in {"list", "stop", "failed"} /\ item' \in DOMAIN users
        /\ (upc' # "list" => item' = 1) /\ broken' \in BOOLEAN
    BY <1>2, <2>1
  <2> QED BY <2>1, <2>2 DEF TInv, UsersTypeOK
<1>4. CASE ListSessions
  <2>1. SessionsOf(users[item].name) \subseteq 1..MaxSessions
    BY DEF SessionsOf, TInv, UsersTypeOK
  <2> QED BY <1>4, <2>1 DEF ListSessions, accounts, TInv, UsersTypeOK
<1>5. CASE TerminateSession
  <2>1. sessions' \subseteq sessions /\ listed' \subseteq listed
        /\ (NextItem("list", "stop", TRUE) \/ UNCHANGED <<upc, item, broken>>)
    BY <1>5 DEF TerminateSession
  <2>2. upc = "terminate" /\ UNCHANGED <<passwd, sssd, lastId, users, override, stopped>>
    BY <1>5 DEF TerminateSession
  <2>3. sessions' \subseteq [id : 1..MaxSessions, user : Users] /\ listed' \subseteq 1..MaxSessions
    BY <2>1 DEF TInv, UsersTypeOK
  <2>4. CASE NextItem("list", "stop", TRUE)
    <3>1. upc' \in {"list", "stop", "failed"} /\ item' \in DOMAIN users
          /\ (upc' # "list" => item' = 1) /\ broken' \in BOOLEAN
      BY <1>2, <2>2, <2>4
    <3> QED BY <2>2, <2>3, <3>1 DEF TInv, UsersTypeOK
  <2>5. CASE UNCHANGED <<upc, item, broken>>
    BY <2>2, <2>3, <2>5 DEF TInv, UsersTypeOK
  <2> QED BY <2>1, <2>4, <2>5
<1>6. CASE StopSssd
  <2>1. sssd' \in BOOLEAN /\ stopped' \in BOOLEAN
    BY <1>6 DEF StopSssd
  <2>2. users # <<>> => 1 \in DOMAIN users
    <3>1. users # <<>> => Len(users) # 0
      <4>1. users \in Seq([name : Users, state : {"present", "absent"}])
        BY ListsAssumption DEF TInv, UsersTypeOK
      <4> QED BY <4>1
    <3> QED BY <1>1, <3>1
  <2> QED BY <1>6, <2>1, <2>2 DEF StopSssd, TInv, UsersTypeOK
<1>7. CASE UserPresent
  <2>1. PICK fails \in BOOLEAN : NextItem("users", "start", fails)
    BY <1>7 DEF UserPresent
  <2>2. passwd' \subseteq Users
    BY <1>1, <1>7 DEF UserPresent, TInv, UsersTypeOK
  <2>3. upc = "users" /\ UNCHANGED <<sssd, sessions, lastId, users, override, listed, stopped>>
    BY <1>7 DEF UserPresent
  <2> QED BY <1>2, <2>1, <2>2, <2>3 DEF TInv, UsersTypeOK
<1>8. CASE UserAbsent
  <2>1. PICK fails \in BOOLEAN : NextItem("users", "start", fails)
    BY <1>8 DEF UserAbsent, Resolves
  <2>2. passwd' \subseteq Users
    BY <1>8 DEF UserAbsent, TInv, UsersTypeOK
  <2>3. upc = "users" /\ UNCHANGED <<sssd, sessions, lastId, users, override, listed, stopped>>
    BY <1>8 DEF UserAbsent
  <2> QED BY <1>2, <2>1, <2>2, <2>3 DEF TInv, UsersTypeOK
<1>9. CASE RestartSssd
  <2>1. sssd' \in BOOLEAN
    BY <1>9 DEF RestartSssd
  <2> QED BY <1>9, <2>1 DEF RestartSssd, TInv, UsersTypeOK
<1> QED BY <1>3, <1>4, <1>5, <1>6, <1>7, <1>8, <1>9 DEF UsersStep

LEMMA UsersOtherTyped ==
    ASSUME TInv, UsersStart \/ UsersAbort \/ UsersReboot \/ Logout \/ Iam \/ UNCHANGED uvars
                 \/ (\E u \in Users : Login(u))
    PROVE  TInv'
<1>1. CASE UsersStart
  <2>1. users' # <<>> => 1 \in DOMAIN users'
    <3>1. users' \in Seq([name : Users, state : {"present", "absent"}])
      BY <1>1, ListsAssumption DEF UsersStart
    <3> QED BY <3>1
  <2> QED BY <1>1, <2>1 DEF UsersStart, accounts, TInv, UsersTypeOK
<1>2. CASE UsersAbort \/ Logout \/ UNCHANGED uvars
  <2>1. sessions' \subseteq sessions /\ upc' \in {upc, "failed"}
        /\ UNCHANGED <<passwd, sssd, lastId, users, override, item, listed, broken, stopped>>
    BY <1>2 DEF UsersAbort, Logout, accounts, uvars
  <2> QED BY <2>1 DEF TInv, UsersTypeOK
<1>5. CASE UsersReboot
  <2>1. sessions' = {} /\ lastId' \in 0..MaxSessions /\ sssd' \in BOOLEAN
        /\ upc' \in {upc, "failed"}
        /\ UNCHANGED <<passwd, users, override, item, listed, broken, stopped>>
    BY <1>5, MaxSessionsAssumption DEF UsersReboot
  <2> QED BY <2>1 DEF TInv, UsersTypeOK
<1>3. CASE Iam
  BY <1>3 DEF Iam, SssdState, TInv, UsersTypeOK
<1>4. ASSUME NEW u \in Users, Login(u) PROVE TInv'
  <2>1. lastId' \in 1..MaxSessions
    BY <1>4, MaxSessionsAssumption DEF Login, TInv, UsersTypeOK
  <2>2. sessions' \subseteq [id : 1..MaxSessions, user : Users]
    BY <1>4, <2>1 DEF Login, TInv, UsersTypeOK
  <2> QED BY <1>4, <2>1, <2>2 DEF Login, TInv, UsersTypeOK
<1> QED BY <1>1, <1>2, <1>3, <1>4, <1>5

(* Every reachable state is well typed, and the loops of the roles never   *)
(* look past the end of the denylist or the list of users.                 *)
THEOREM TypeCorrect == Spec => []TypeOK
<1> DEFINE Inv == KernelTypeOK /\ TInv /\ TypeOK
<1>1. Init => Inv
  <2> SUFFICES ASSUME Init PROVE Inv
    OBVIOUS
  <2>1. KernelTypeOK
    BY DEF Init, KInit, NoConf, KernelTypeOK
  <2>2. TInv
    <3>1. lastId \in 0..MaxSessions
      BY MaxSessionsAssumption DEF Init, UInit
    <3>2. sssd \in BOOLEAN /\ broken \in BOOLEAN /\ stopped \in BOOLEAN
      BY DEF Init, UInit
    <3> QED BY <3>1, <3>2 DEF Init, UInit, TInv, UsersTypeOK
  <2> QED BY <2>1, <2>2 DEF Init, TInv, TypeOK
<1>2. ASSUME Inv, [Next]_vars PROVE Inv'
  <2>1. KernelStep \/ Host \/ KernelStart \/ KernelAbort \/ KernelReboot \/ UNCHANGED kvars
    BY <1>2 DEF Next, vars, SiteStart, Mitigations, Iam, Extras, BasicUsersRole,
                SiteAbort, Reboot, KernelActivity, UserActivity
  <2>2. UsersStep \/ UsersStart \/ UsersAbort \/ UsersReboot \/ Logout \/ Iam \/ UNCHANGED uvars
        \/ (\E u \in Users : Login(u))
    BY <1>2 DEF Next, vars, SiteStart, Mitigations, Extras, BasicUsersRole, SiteAbort,
                Reboot, KernelActivity, UserActivity
  <2>3. play' \in {"site", "mitigations", "users"}
        /\ stage' \in {"idle", "mitigations", "iam", "extras", "users", "done", "failed"}
    BY <1>2 DEF Next, vars, SiteStart, Mitigations, Iam, Extras, BasicUsersRole, SiteAbort,
                Reboot, KernelActivity, UserActivity, TypeOK
  <2>4. KernelTypeOK' /\ TInv'
    BY <1>2, <2>1, <2>2, KernelTyped, UsersStepTyped, UsersOtherTyped
  <2> QED BY <2>3, <2>4 DEF TInv, TypeOK
<1>3. Inv => TypeOK
  OBVIOUS
<1> QED BY <1>1, <1>2, <1>3, PTL DEF Spec
=============================================================================
