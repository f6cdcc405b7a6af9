SPECIFICATION Spec
CONSTANTS
    sctp = sctp
    sctp_diag = sctp_diag
    alice = alice
    bob = bob
    Modules = {sctp, sctp_diag}
    Needs <- SctpNeeds
    SoftDep = {sctp_diag}
    Denylists <- DependentsFirst
    Users = {alice, bob}
    Directory = {bob}
    Lists <- UserLists
    MaxSessions = 2
INVARIANTS DenylistEnforced UsersApplied SiteLeavesSssdRunning
PROPERTIES OthersStayLoggedIn
