------------------------------ MODULE MCSiteHost ------------------------------
EXTENDS SiteHost

CONSTANTS sctp, sctp_diag, alice, bob

(* sctp_diag needs sctp.                                                   *)
SctpNeeds == [m \in {sctp, sctp_diag} |-> {sctp} \ {m}]

(* Modules before those they need; the other list is the appliance's.      *)
DependentsFirst == {<<>>, <<sctp_diag>>, <<sctp_diag, sctp>>}
ApplianceOrder == {<<sctp, sctp_diag>>}

Named(u, s) == [name |-> u, state |-> s]
UserLists == {<<>>,
              <<Named(alice, "absent"), Named(bob, "present")>>,
              <<Named(bob, "absent"), Named(alice, "absent")>>}
OneList == {<<Named(alice, "present")>>}
=============================================================================
