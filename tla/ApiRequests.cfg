SPECIFICATION ApiRequestsSpec
CONSTANTS
    HttpRequest = {r1, r2}
    CorrelationId = {c1}
    Node = {"a", "b"}
    Key = {"message", "name", "cause", "token"}
    SensitiveKey = {"token"}
    Root = "a"
    Details = "b"
    Metadata <- LoggedGraphs
    Thrown <- ThrownGraphs
    None = None
SYMMETRY RequestSymmetry
INVARIANTS
    AnswersTraceable
    NothingSecretLeaves
    RedactionKeepsTheRest
CHECK_DEADLOCK FALSE
