SPECIFICATION AccessSpec
CONSTANTS
    User = {u1, u2, u3}
    Team = {}
    Workspace = {w1}
    Role = {"owner", "admin"}
    Request = {r1, r2}
    Transaction = {r1, r2}
    Administered = {w1}
    None = None
SYMMETRY OwnersSymmetry
INVARIANTS
    EveryWorkspaceHasActiveOwner
PROPERTIES
    ChangesAuthorized
