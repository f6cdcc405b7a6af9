------------------------------- MODULE SiteHost -------------------------------
(***************************************************************************)
(* What site.yml, mitigations.yml alone and site.yml with the tag "users"  *)
(* do on one host of the groups kernel_modules, sssd and basic_users, run  *)
(* after run: the roles in their order, any of which may fail, here or on  *)
(* another host (any_errors_fatal), and reboots at any time.               *)
(***************************************************************************)
EXTENDS KernelModules, BasicUsers

VARIABLES
    play,   \* what is run: "site", "mitigations" or "users"
    stage   \* the role it is at, or how it ended

vars == <<kvars, uvars, play, stage>>

Init ==
    /\ KInit
    /\ UInit
    /\ play = "site"
    /\ stage = "idle"

SiteOver == stage \in {"idle", "done", "failed"}

SiteStart(p) ==
    /\ SiteOver
    /\ play' = p
    /\ IF p = "users"
       THEN stage' = "users" /\ UsersStart /\ UNCHANGED kvars
       ELSE stage' = "mitigations" /\ KernelStart /\ UNCHANGED uvars

Mitigations ==
    /\ stage = "mitigations"
    /\ \/ KernelStep /\ UNCHANGED stage
       \/ kpc = "failed" /\ stage' = "failed" /\ UNCHANGED kvars
       \/ kpc = "done" /\ stage' = (IF play = "site" THEN "iam" ELSE "done") /\ UNCHANGED kvars
    /\ UNCHANGED <<uvars, play>>

(* Mutant: sssd is restarted by the handler only, when its file changes.   *)
SssdStateOnChange == sssd' \in {sssd, TRUE}

(* "Ensure sssd service state", with sssd_started.                         *)
SssdState == sssd' = TRUE

Iam ==
    /\ stage = "iam"
    /\ SssdState
    /\ stage' = "extras"
    /\ UNCHANGED <<passwd, sessions, lastId, users, override, upc, item,
                   listed, broken, stopped, kvars, play>>

Extras ==
    /\ stage = "extras"
    /\ UsersStart
    /\ stage' = "users"
    /\ UNCHANGED <<kvars, play>>

BasicUsersRole ==
    /\ stage = "users"
    /\ \/ UsersStep /\ UNCHANGED stage
       \/ upc \in {"done", "failed"} /\ stage' = upc /\ UNCHANGED uvars
    /\ UNCHANGED <<kvars, play>>

SiteAbort ==
    /\ ~SiteOver
    /\ stage' = "failed"
    /\ IF Over THEN UNCHANGED kvars ELSE KernelAbort
    /\ IF UsersOver THEN UNCHANGED uvars ELSE UsersAbort
    /\ UNCHANGED play

Reboot ==
    /\ KernelReboot
    /\ UsersReboot
    /\ stage' = IF SiteOver THEN stage ELSE "failed"
    /\ UNCHANGED play

KernelActivity == Host /\ UNCHANGED <<uvars, play, stage>>
UserActivity == ((\E u \in Users : Login(u)) \/ Logout) /\ UNCHANGED <<kvars, play, stage>>

Next ==
    \/ \E p \in {"site", "mitigations", "users"} : SiteStart(p)
    \/ Mitigations
    \/ Iam
    \/ Extras
    \/ BasicUsersRole
    \/ SiteAbort
    \/ Reboot
    \/ KernelActivity
    \/ UserActivity

Spec == Init /\ [][Next]_vars

-----------------------------------------------------------------------------
TypeOK ==
    /\ KernelTypeOK
    /\ UsersTypeOK
    /\ play \in {"site", "mitigations", "users"}
    /\ stage \in {"idle", "mitigations", "iam", "extras", "users", "done", "failed"}

(* A run of the whole of site.yml that succeeds leaves sssd running: it    *)
(* repairs what a run that failed between the tasks that stop and start    *)
(* sssd has left.                                                          *)
SiteLeavesSssdRunning == stage = "done" /\ play = "site" => sssd
=============================================================================
