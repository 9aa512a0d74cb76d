------------------------------- MODULE Policy -------------------------------
(***************************************************************************)
(* What a workspace role permits, and who has access to a workspace at     *)
(* all: the package access, as every guard of the API applies it.          *)
(***************************************************************************)
EXTENDS Database

Permission == {"organization.read", "organization.update", "workspace.read",
               "workspace.update", "membership.read", "membership.manage",
               "membership.manage_owner", "team.read", "team.manage"}

RolePermissions ==
    [owner      |-> Permission,
     admin      |-> Permission \ {"membership.manage_owner"},
     supervisor |-> {"organization.read", "workspace.read", "membership.read",
                     "team.read", "team.manage"},
     agent      |-> {"workspace.read", "team.read"},
     marketing  |-> {"workspace.read", "team.read"},
     analyst    |-> {"workspace.read", "team.read"}]

RoleHasPermission(role, permission) ==
    role \in WorkspaceRole /\ permission \in RolePermissions[role]

\* The active membership of an active user in an active tenant.
HasAccess(u, w) ==
    /\ userStatus[u] = "active"
    /\ tenant[w] = [organization |-> "active", workspace |-> "active"]
    /\ membership[w][u] # None
    /\ membership[w][u].status = "active"
=============================================================================
