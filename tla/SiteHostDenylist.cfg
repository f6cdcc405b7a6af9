SPECIFICATION Spec
CONSTANTS
    sctp = sctp
    sctp_diag = sctp_diag
    alice = alice
    bob = bob
    Modules = {sctp, sctp_diag}
    Needs <- SctpNeeds
    SoftDep = {sctp_diag}
    Denylists <- ApplianceOrder
    Users = {alice, bob}
    Directory = {bob}
    Lists <- OneList
    MaxSessions = 2
INVARIANTS OnlyUsersKeepModules
