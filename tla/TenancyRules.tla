---------------------------- MODULE TenancyRules ----------------------------
(***************************************************************************)
(* What the tenancy service promises about the committed tables: an        *)
(* organization appears together with its first workspace in ONE step, no  *)
(* row is ever deleted or moved, a change of a name leaves the status as   *)
(* it is, and what has been disabled stays disabled.  Module Tenancy       *)
(* implements this with one transaction and four UPDATE statements.        *)
(***************************************************************************)
CONSTANTS Organization, Workspace, Name, None

VARIABLES organization, workspace

tables == <<organization, workspace>>

Provision(o, w, organizationName, workspaceName) ==
    /\ organization[o] = None /\ workspace[w] = None
    /\ organization' = [organization EXCEPT ![o] =
                           [name |-> organizationName, status |-> "active"]]
    /\ workspace' = [workspace EXCEPT ![w] =
                        [organization |-> o, name |-> workspaceName, status |-> "active"]]

RenameOrganization(o, name) ==
    /\ organization[o] # None
    /\ organization' = [organization EXCEPT ![o].name = name]
    /\ UNCHANGED workspace

RenameWorkspace(w, name) ==
    /\ workspace[w] # None
    /\ workspace' = [workspace EXCEPT ![w].name = name]
    /\ UNCHANGED organization

DisableOrganization(o) ==
    /\ organization[o] # None
    /\ organization' = [organization EXCEPT ![o].status = "disabled"]
    /\ UNCHANGED workspace

DisableWorkspace(w) ==
    /\ workspace[w] # None
    /\ workspace' = [workspace EXCEPT ![w].status = "disabled"]
    /\ UNCHANGED organization

Next ==
    \/ \E o \in Organization, w \in Workspace, m, n \in Name : Provision(o, w, m, n)
    \/ \E o \in Organization : DisableOrganization(o) \/ \E n \in Name : RenameOrganization(o, n)
    \/ \E w \in Workspace : DisableWorkspace(w) \/ \E n \in Name : RenameWorkspace(w, n)

Spec ==
    /\ organization = [o \in Organization |-> None]
    /\ workspace = [w \in Workspace |-> None]
    /\ [][Next]_tables
=============================================================================
