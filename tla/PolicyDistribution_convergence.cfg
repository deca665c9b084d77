\* An authority and a member that restart, lossy and late delivery.
CONSTANTS
    n1 = n1  p = p
    Members = {n1}
    Peers = {p}
    Configured <- MCConfigured
    MaxEdits = 3
    MaxRestarts = 1
    AuthorityRestarts = 1
SPECIFICATION FairSpec
INVARIANTS
    TypeOK
    VersionNamesPolicy
PROPERTIES
    ImplementsCoalitionPolicy
    OvertakingConverges
