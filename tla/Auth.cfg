SPECIFICATION AuthSpec
CONSTANTS
    Email = {e1, e2}
    Password = {p1, p2}
    Session = {s1, s2}
    Request = {r1, r2, r3}
    Operation = {"register", "login", "logout", "logoutAll"}
    Ttl = 1
    Horizon = 1
    None = None
SYMMETRY AuthSymmetry
INVARIANTS
    LoggedOutStaysOut
PROPERTIES
    ImplementsAuthRules
