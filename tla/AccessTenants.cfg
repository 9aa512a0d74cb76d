SPECIFICATION AccessSpec
CONSTANTS
    User = {u1, u2}
    Team = {}
    Workspace = {w1, w2}
    Role = {"owner"}
    Request = {r1, r2}
    Transaction = {r1, r2}
    Administered = {u2}
    None = None
SYMMETRY TenantsSymmetry
INVARIANTS
    AccessInv
PROPERTIES
    ChangesAuthorized
    ImplementsMembershipRules
