SPECIFICATION FairSystemSpec
CONSTANTS
    User = {u1, u2}
    Team = {t1}
    Workspace = {w1}
    Role = {"owner"}
    Request = {r1}
    TeamRequest = {q1}
    Transaction = {r1, q1}
    Administered = {u2, w1}
    None = None
INVARIANTS
    NoDeadlock
PROPERTIES
    TeamsImplementTeamRules
    RequestsDrain
