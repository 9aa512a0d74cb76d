SPECIFICATION TenancySpec
CONSTANTS
    Organization = {o1, o2}
    Workspace = {w1, w2}
    Name = {n1, n2}
    Request = {r1, r2}
    None = None
SYMMETRY TenancySymmetry
INVARIANTS
    KnownOrganizationsHaveWorkspaces
PROPERTIES
    ImplementsTenancyRules
