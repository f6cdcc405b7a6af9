------------------------------ MODULE BasicUsers ------------------------------
(***************************************************************************)
(* roles/basic_users on one host: the sessions of users to be deleted are  *)
(* terminated (terminate_user_sessions.py), sssd is stopped if it is to be *)
(* overridden, users are created and deleted, sssd is started again; the   *)
(* users log in and out meanwhile. A loop of Ansible goes on after an item *)
(* that fails, and its task fails at the end. Groups, sudo rules and home  *)
(* directories are left out; a failure of theirs is UsersAbort.            *)
(* External: logind, sssd, useradd and userdel.                            *)
(***************************************************************************)
EXTENDS Naturals, SequencesExt

CONSTANTS
    Users,        \* names of users
    Directory,    \* those the directory behind sssd has
    Lists,        \* what basic_users_users may be: items, each name once
    MaxSessions   \* bound: sessions opened between two boots

ASSUME DirectoryAssumption == Directory \subseteq Users
ASSUME ListsAssumption ==
    /\ Lists \subseteq Seq([name : Users, state : {"present", "absent"}])
    /\ \A l \in Lists : \A i, j \in DOMAIN l : i # j => l[i].name # l[j].name
ASSUME MaxSessionsAssumption == MaxSessions \in Nat

VARIABLES
    passwd,    \* users in /etc/passwd
    sssd,      \* sssd is running
    sessions,  \* what loginctl lists: [id, user] records
    lastId,    \* session ids are not used again before a reboot
    users,     \* basic_users_users
    override,  \* basic_users_override_sssd
    upc,       \* the task the role is at, or how it ended
    item,      \* position in users of the loop
    listed,    \* ids terminate_user_sessions.py has still to terminate
    broken,    \* an item of this loop has failed
    stopped    \* "_stop_sssd is changed"

uvars == <<passwd, sssd, sessions, lastId, users, override, upc, item, listed,
           broken, stopped>>
accounts == <<passwd, sssd, sessions, lastId>>

(* What getpwnam answers: sssd has no answer while it is stopped.          *)
Resolves(u) == u \in passwd \/ (sssd /\ u \in Directory)
LoggedIn(u) == \E s \in sessions : s.user = u

UInit ==
    /\ passwd \in SUBSET Users
    /\ sssd = TRUE
    /\ sessions = {}
    /\ lastId = 0
    /\ users \in Lists
    /\ override \in BOOLEAN
    /\ upc = "idle"
    /\ item = 1
    /\ listed = {}
    /\ broken = FALSE
    /\ stopped = FALSE

-----------------------------------------------------------------------------
(* The users.                                                              *)

Login(u) ==
    /\ Resolves(u)
    /\ lastId < MaxSessions
    /\ lastId' = lastId + 1
    /\ sessions' = sessions \cup {[id |-> lastId', user |-> u]}
    /\ UNCHANGED <<passwd, sssd, users, override, upc, item, listed, broken,
                   stopped>>

Logout ==
    \E s \in sessions :
        /\ sessions' = sessions \ {s}
        /\ UNCHANGED <<passwd, sssd, lastId, users, override, upc, item,
                       listed, broken, stopped>>

-----------------------------------------------------------------------------
(* The role. A run starts with what the inventory has by then.             *)

UsersOver == upc \in {"idle", "done", "failed"}

UsersStart ==
    /\ UsersOver
    /\ users' \in Lists
    /\ override' \in BOOLEAN
    /\ upc' = IF users' = <<>> THEN "stop" ELSE "list"
    /\ item' = 1
    /\ listed' = {}
    /\ broken' = FALSE
    /\ stopped' = FALSE
    /\ UNCHANGED accounts

(* Mutant: the result of the last item is that of the task.                *)
NextItemLast(loop, then, fails) ==
    IF item < Len(users)
    THEN upc' = loop /\ item' = item + 1 /\ broken' = fails
    ELSE upc' = (IF fails THEN "failed" ELSE then) /\ item' = 1 /\ broken' = FALSE

(* The next item of a loop, or the task after it. "fails": this one has.   *)
NextItem(loop, then, fails) ==
    LET failing == broken \/ fails IN
    IF item < Len(users)
    THEN upc' = loop /\ item' = item + 1 /\ broken' = failing
    ELSE upc' = (IF failing THEN "failed" ELSE then) /\ item' = 1 /\ broken' = FALSE

(* Mutant: every session of the host.                                      *)
SessionsOfAnyone(u) == {s.id : s \in sessions}

(* The lines of "loginctl list-sessions" with this user.                   *)
SessionsOf(u) == {s.id : s \in {t \in sessions : t.user = u}}

SkipPresent ==
    /\ upc = "list"
    /\ users[item].state = "present"
    /\ NextItem("list", "stop", FALSE)
    /\ UNCHANGED <<accounts, users, override, listed, stopped>>

ListSessions ==
    /\ upc = "list"
    /\ users[item].state = "absent"
    /\ upc' = "terminate"
    /\ listed' = SessionsOf(users[item].name)
    /\ UNCHANGED <<accounts, users, override, item, broken, stopped>>

(* check_rc=True: a session that is gone ends the module with a failure.   *)
TerminateSession ==
    /\ upc = "terminate"
    /\ \E id \in listed :
        /\ \A other \in listed : id <= other
        /\ sessions' = {s \in sessions : s.id # id}
        /\ IF sessions' = sessions
           THEN NextItem("list", "stop", TRUE) /\ listed' = {}
           ELSE listed' = listed \ {id} /\ UNCHANGED <<upc, item, broken>>
    /\ UNCHANGED <<passwd, sssd, lastId, users, override, stopped>>

SessionsTerminated ==
    /\ upc = "terminate"
    /\ listed = {}
    /\ NextItem("list", "stop", FALSE)
    /\ UNCHANGED <<accounts, users, override, listed, stopped>>

(* Skipped, so not changed, unless sssd is to be overridden.               *)
StopSssd ==
    /\ upc = "stop"
    /\ stopped' = (override /\ sssd)
    /\ sssd' = (sssd /\ ~override)
    /\ upc' = IF users = <<>> THEN "start" ELSE "users"
    /\ UNCHANGED <<passwd, sessions, lastId, users, override, item, listed,
                   broken>>

(* ansible.builtin.user: a user who resolves is modified, in /etc/passwd,  *)
(* or is found to need no change; one who does not is added.               *)
UserPresent ==
    /\ upc = "users"
    /\ users[item].state = "present"
    /\ LET u == users[item].name IN
        \/ /\ ~Resolves(u)
           /\ passwd' = passwd \cup {u}
           /\ NextItem("users", "start", FALSE)
        \/ /\ Resolves(u)
           /\ passwd' = passwd
           /\ \E fails \in {FALSE, u \notin passwd} :
                NextItem("users", "start", fails)
    /\ UNCHANGED <<sssd, sessions, lastId, users, override, listed, stopped>>

(* userdel fails for one who is logged in or is not in /etc/passwd.        *)
UserAbsent ==
    /\ upc = "users"
    /\ users[item].state = "absent"
    /\ LET u == users[item].name
           deletes == u \in passwd /\ ~LoggedIn(u)
       IN /\ passwd' = IF deletes THEN passwd \ {u} ELSE passwd
          /\ NextItem("users", "start", Resolves(u) /\ ~deletes)
    /\ UNCHANGED <<sssd, sessions, lastId, users, override, listed, stopped>>

RestartSssd ==
    /\ upc = "start"
    /\ sssd' = (sssd \/ stopped)
    /\ upc' = "done"
    /\ UNCHANGED <<passwd, sessions, lastId, users, override, item, listed,
                   broken, stopped>>

UsersStep ==
    \/ SkipPresent
    \/ ListSessions
    \/ TerminateSession
    \/ SessionsTerminated
    \/ StopSssd
    \/ UserPresent
    \/ UserAbsent
    \/ RestartSssd

UsersAbort ==
    /\ ~UsersOver
    /\ upc' = "failed"
    /\ UNCHANGED <<accounts, users, override, item, listed, broken, stopped>>

(* sssd_enabled: sssd comes back with the host.                            *)
UsersReboot ==
    /\ sssd' = TRUE
    /\ sessions' = {}
    /\ lastId' = 0
    /\ upc' = IF UsersOver THEN upc ELSE "failed"
    /\ UNCHANGED <<passwd, users, override, item, listed, broken, stopped>>

-----------------------------------------------------------------------------
UsersTypeOK ==
    /\ passwd \subseteq Users
    /\ sssd \in BOOLEAN
    /\ sessions \subseteq [id : 1..MaxSessions, user : Users]
    /\ lastId \in 0..MaxSessions
    /\ users \in Lists
    /\ override \in BOOLEAN
    /\ upc \in {"idle", "list", "terminate", "stop", "users", "start", "done",
                "failed"}
    /\ upc \in {"list", "terminate", "users"} => item \in DOMAIN users
    /\ listed \subseteq 1..MaxSessions
    /\ broken \in BOOLEAN
    /\ stopped \in BOOLEAN

(* A run that succeeds has deleted every user it was to delete, and with   *)
(* override_sssd every user it was to create is local, although users log  *)
(* in again after their sessions are terminated and items of its loops may *)
(* fail before others succeed.                                             *)
UsersApplied ==
    upc = "done" => \A i \in DOMAIN users :
        IF users[i].state = "absent" THEN users[i].name \notin passwd
                                     ELSE override => users[i].name \in passwd

(* Only users the run is to delete are logged out by it, even if sessions  *)
(* come and go between their listing and their termination.                *)
OthersStayLoggedIn ==
    [][upc = "terminate" => \A s \in sessions \ sessions' :
         s.id \in listed => s.user = users[item].name]_uvars
=============================================================================
