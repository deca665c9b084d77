\* The authority restarts after an edit.
CONSTANTS
    n1 = n1  p = p
    Members = {n1}
    Peers = {p}
    Configured <- MCOpen
    MaxEdits = 1
    MaxRestarts = 0
    AuthorityRestarts = 1
SPECIFICATION FairSpec
PROPERTY Converges
