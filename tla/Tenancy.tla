------------------------------- MODULE Tenancy -------------------------------
(***************************************************************************)
(* TenancyService over its PostgreSQL repository.  Creating an             *)
(* organization is a transaction of two INSERTs; every other write is one  *)
(* UPDATE ... RETURNING that names only the column it changes, and every   *)
(* read is one SELECT.  The tables hold the COMMITTED rows; what an open   *)
(* transaction has inserted is in `inserted` and nobody else sees it.      *)
(***************************************************************************)
EXTENDS FiniteSets, Integers

CONSTANTS
    Organization,   \* the UUIDs a new organization may receive
    Workspace,      \* the UUIDs a new workspace may receive
    Name,           \* stored names: trimmed, NFC, 1 to 160 code points
    Request,        \* the creations that may be in flight at once
    None            \* no row; no answer yet

Status == {"active", "disabled"}
OrganizationRows == [name : Name, status : Status]
WorkspaceRows == [organization : Organization, name : Name, status : Status]
Creations == [organization : Organization, workspace : Workspace,
              organizationName : Name, workspaceName : Name]

ASSUME NoneAssumption ==
    None \notin OrganizationRows \cup WorkspaceRows \cup Creations /\ None # {}

VARIABLES
    organization,   \* organizations, by id
    workspace,      \* workspaces, by id
    creation,       \* the transaction of each createOrganizationWithInitialWorkspace
    inserted,       \* the tables it has inserted into and not committed
    found,          \* the organizations that some caller has been told of
    listed          \* the last answer of listOrganizationWorkspaces, by organization

tables == <<organization, workspace>>
answers == <<found, listed>>
tenancyVars == <<tables, creation, inserted, answers>>

-----------------------------------------------------------------------------
(* What callers pass: a stored name, the same name padded or decomposed, or *)
(* something the validation refuses.                                        *)

Spelling == (Name \X {"as stored", "padded or decomposed"}) \cup {<<None, "refused">>}

Accepted(spelling) == spelling[2] # "refused"

ValidName(spelling) == spelling[1]

\* A creation draws two UUIDs; they are nobody else's.
Fresh(o, w) ==
    /\ organization[o] = None /\ workspace[w] = None
    /\ \A r \in Request : creation[r] # None =>
          creation[r].organization # o /\ creation[r].workspace # w

-----------------------------------------------------------------------------
(* createOrganizationWithInitialWorkspace                                   *)

\* Both names are validated before the transaction begins.
Create(r, o, w, organizationName, workspaceName) ==
    /\ creation[r] = None /\ Fresh(o, w)
    /\ Accepted(organizationName) /\ Accepted(workspaceName)
    /\ creation' = [creation EXCEPT ![r] =
          [organization |-> o, workspace |-> w,
           organizationName |-> ValidName(organizationName),
           workspaceName |-> ValidName(workspaceName)]]
    /\ UNCHANGED <<tables, inserted, answers>>

OrganizationRow(c) == [name |-> c.organizationName, status |-> "active"]
WorkspaceRow(c) == [organization |-> c.organization, name |-> c.workspaceName, status |-> "active"]

\* Mutant: the repository is not bound to the transaction, and the first
\* INSERT commits by itself.
InsertOrganizationAtOnce(r) ==
    /\ creation[r] # None /\ inserted[r] = {}
    /\ inserted' = [inserted EXCEPT ![r] = {"organizations"}]
    /\ organization' = [organization EXCEPT ![creation[r].organization] = OrganizationRow(creation[r])]
    /\ UNCHANGED <<workspace, creation, answers>>

InsertOrganization(r) ==
    /\ creation[r] # None /\ inserted[r] = {}
    /\ inserted' = [inserted EXCEPT ![r] = {"organizations"}]
    /\ UNCHANGED <<tables, creation, answers>>

\* The foreign key finds the organization among the transaction's own rows.
InsertWorkspace(r) ==
    /\ inserted[r] = {"organizations"}
    /\ inserted' = [inserted EXCEPT ![r] = @ \cup {"workspaces"}]
    /\ UNCHANGED <<tables, creation, answers>>

End(r) ==
    /\ creation' = [creation EXCEPT ![r] = None]
    /\ inserted' = [inserted EXCEPT ![r] = {}]

\* COMMIT, and the answer with both rows.
CommitCreation(r) ==
    /\ inserted[r] = {"organizations", "workspaces"}
    /\ LET c == creation[r] IN
          /\ organization' = [organization EXCEPT ![c.organization] = OrganizationRow(c)]
          /\ workspace' = [workspace EXCEPT ![c.workspace] = WorkspaceRow(c)]
          /\ found' = found \cup {c.organization}
    /\ End(r)
    /\ UNCHANGED listed

\* A statement fails, or the connection or the process goes.
RollbackCreation(r) ==
    /\ creation[r] # None
    /\ End(r)
    /\ UNCHANGED <<tables, answers>>

-----------------------------------------------------------------------------
(* The other writes: one statement each, not_found without a row.  The      *)
(* answer returns the row, so the caller knows of the organization.         *)

\* Mutant: the row that was read before is written back whole.
UpdateOrganizationNameWhole(o, spelling) ==
    /\ Accepted(spelling) /\ organization[o] # None
    /\ organization' = [organization EXCEPT ![o] =
                           [name |-> ValidName(spelling), status |-> "active"]]
    /\ found' = found \cup {o}
    /\ UNCHANGED <<workspace, creation, inserted, listed>>

UpdateOrganizationName(o, spelling) ==
    /\ Accepted(spelling) /\ organization[o] # None
    /\ organization' = [organization EXCEPT ![o].name = ValidName(spelling)]
    /\ found' = found \cup {o}
    /\ UNCHANGED <<workspace, creation, inserted, listed>>

UpdateOrganizationStatus(o, status) ==
    /\ organization[o] # None
    /\ organization' = [organization EXCEPT ![o].status = status]
    /\ found' = found \cup {o}
    /\ UNCHANGED <<workspace, creation, inserted, listed>>

UpdateWorkspaceName(w, spelling) ==
    /\ Accepted(spelling) /\ workspace[w] # None
    /\ workspace' = [workspace EXCEPT ![w].name = ValidName(spelling)]
    /\ found' = found \cup {workspace[w].organization}
    /\ UNCHANGED <<organization, creation, inserted, listed>>

UpdateWorkspaceStatus(w, status) ==
    /\ workspace[w] # None
    /\ workspace' = [workspace EXCEPT ![w].status = status]
    /\ found' = found \cup {workspace[w].organization}
    /\ UNCHANGED <<organization, creation, inserted, listed>>

DisableOrganization(o) == UpdateOrganizationStatus(o, "disabled")
DisableWorkspace(w) == UpdateWorkspaceStatus(w, "disabled")

-----------------------------------------------------------------------------
(* The reads.                                                               *)

GetOrganization(o) ==
    /\ organization[o] # None
    /\ found' = found \cup {o}
    /\ UNCHANGED <<tables, creation, inserted, listed>>

GetWorkspace(w) ==
    /\ workspace[w] # None
    /\ found' = found \cup {workspace[w].organization}
    /\ UNCHANGED <<tables, creation, inserted, listed>>

\* A caller lists the workspaces of an organization it knows of.
ListOrganizationWorkspaces(o) ==
    /\ o \in found
    /\ listed' = [listed EXCEPT ![o] =
          {w \in Workspace : workspace[w] # None /\ workspace[w].organization = o}]
    /\ UNCHANGED <<tables, creation, inserted, found>>

-----------------------------------------------------------------------------

TenancyInit ==
    /\ organization = [o \in Organization |-> None]
    /\ workspace = [w \in Workspace |-> None]
    /\ creation = [r \in Request |-> None]
    /\ inserted = [r \in Request |-> {}]
    /\ found = {}
    /\ listed = [o \in Organization |-> None]

TenancyNext ==
    \/ \E r \in Request :
          \/ \E o \in Organization, w \in Workspace, m, n \in Spelling : Create(r, o, w, m, n)
          \/ InsertOrganization(r) \/ InsertWorkspace(r)
          \/ CommitCreation(r) \/ RollbackCreation(r)
    \/ \E o \in Organization :
          \/ \E s \in Spelling : UpdateOrganizationName(o, s)
          \/ DisableOrganization(o) \/ GetOrganization(o) \/ ListOrganizationWorkspaces(o)
    \/ \E w \in Workspace :
          \/ \E s \in Spelling : UpdateWorkspaceName(w, s)
          \/ DisableWorkspace(w) \/ GetWorkspace(w)

TenancySpec == TenancyInit /\ [][TenancyNext]_tenancyVars
-----------------------------------------------------------------------------
(* Properties.                                                              *)

\* TENANCY.md: a failed workspace insertion rolls back the organization.  So
\* whoever has been told of an organization, by any answer of the service,
\* finds a workspace in it; and a workspace never points at no organization.
KnownOrganizationsHaveWorkspaces ==
    /\ \A o \in found : organization[o] # None /\ listed[o] # {}
    /\ \A w \in Workspace : workspace[w] # None => organization[workspace[w].organization] # None

\* The committed tables change by the steps of TenancyRules: whole tenants
\* appear, a rename never brings back what a concurrent request disabled, and
\* nothing is deleted or moved.
Rules == INSTANCE TenancyRules
ImplementsTenancyRules == Rules!Spec
=============================================================================
