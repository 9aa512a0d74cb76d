SPECIFICATION TeamsSpec
CONSTANTS
    User = {u1}
    Team = {t1, t2}
    Workspace = {w1, w2}
    Role = {"owner"}
    Request = {r1, r2}
    Transaction = {r1, r2}
    Administered = {u1}
    None = None
SYMMETRY TeamsSymmetry
INVARIANTS
    TeamsTypeOK
PROPERTIES
    ImplementsTeamRules
