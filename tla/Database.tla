------------------------------ MODULE Database ------------------------------
(***************************************************************************)
(* The PostgreSQL tables that the access and team services share, and the  *)
(* row locks by which their transactions meet.                             *)
(*                                                                         *)
(* Only COMMITTED rows are variables.  Every transaction of the services   *)
(* runs at READ COMMITTED, the default Kysely leaves in force, so each     *)
(* statement sees the rows committed when it starts; what a transaction    *)
(* has written and not committed is invisible to the others, except that   *)
(* it holds the row locks recorded in `held`.                              *)
(*                                                                         *)
(* A workspace membership is keyed by (workspace, user): the unique        *)
(* constraint workspace_memberships_workspace_user_unique makes that pair  *)
(* as good a name for a committed row as its UUID.  An organization and    *)
(* its workspace are one row here: both services that create them create   *)
(* exactly one workspace with each organization.                           *)
(***************************************************************************)
EXTENDS FiniteSets, Integers

CONSTANTS
    User,           \* the registered users
    Team,           \* the UUIDs a new team may receive
    Workspace,      \* the UUIDs a new workspace may receive
    Role,           \* the workspace roles an instance exercises
    Transaction,    \* the database transactions that may be open at once
    Administered,   \* bound: the users and workspaces whose status operators change
    None            \* no row; a field that a request does not supply

WorkspaceRole == {"owner", "admin", "supervisor", "agent", "marketing", "analyst"}
Status == {"active", "disabled"}

MembershipRow == [role : Role, status : Status]
TenantRow     == [organization : Status, workspace : Status]

ASSUME RoleAssumption == Role \subseteq WorkspaceRole /\ "owner" \in Role
ASSUME UserAssumption == IsFiniteSet(User)
ASSUME NoneAssumption == None \notin Role \cup Status \cup MembershipRow \cup TenantRow

VARIABLES
    userStatus,     \* users.status, by user
    tenant,         \* organizations.status and workspaces.status, by workspace
    membership,     \* workspace_memberships, by workspace and user
    held            \* the row locks each open transaction holds

tables == <<userStatus, tenant, membership>>

ActiveOwner == [role |-> "owner", status |-> "active"]

-----------------------------------------------------------------------------
(* Row locks.  A lock is a row and one of the four strengths of PostgreSQL, *)
(* weakest first; two of them conflict as in its table of row-level locks.  *)

KeyShare    == "for key share"      \* the foreign-key check of an INSERT
Share       == "for share"          \* SELECT ... FOR SHARE
NoKeyUpdate == "for no key update"  \* an UPDATE that leaves the keys alone
Update      == "for update"         \* SELECT ... FOR UPDATE

Mode == {KeyShare, Share, NoKeyUpdate, Update}

Conflict(a, b) ==
    \/ Update \in {a, b}
    \/ NoKeyUpdate \in {a, b} /\ KeyShare \notin {a, b}

UserKey(u)          == <<"users", u>>
WorkspaceKey(w)     == <<"workspaces", w>>
MembershipKey(w, u) == <<"workspace_memberships", w, u>>
TeamKey(t)          == <<"teams", t>>
TeamMembershipKey(t, w, u) == <<"team_memberships", t, w, u>>

Row == ({"users"} \X User) \cup ({"workspaces"} \X Workspace)
          \cup ({"workspace_memberships"} \X Workspace \X User)
          \cup ({"teams"} \X Team)
          \cup ({"team_memberships"} \X Team \X Workspace \X User)
Lock == Row \X Mode

\* No transaction of `others` holds a lock on `row` that conflicts with `mode`.
Unlocked(row, mode, others) ==
    \A s \in others, m \in Mode : <<row, m>> \in held[s] => ~Conflict(m, mode)

\* Transaction t is granted the lock; while it is not enabled, t waits.
Acquire(t, row, mode) ==
    /\ Unlocked(row, mode, Transaction \ {t})
    /\ held' = [held EXCEPT ![t] = @ \cup {<<row, mode>>}]

\* COMMIT and ROLLBACK drop every lock of the transaction.
Release(t) == held' = [held EXCEPT ![t] = {}]

\* Two open transactions never hold conflicting locks on one row.
LocksCompatible ==
    \A s, t \in Transaction : s # t =>
        \A row \in Row, m, n \in Mode :
            <<row, m>> \in held[s] /\ <<row, n>> \in held[t] => ~Conflict(m, n)

-----------------------------------------------------------------------------
(* Statements of one row that other code runs, each a transaction of its    *)
(* own: it waits for the row's lock and holds it for no longer than itself. *)

\* users.status has no writer in src/; operators change it in the database.
SetUserStatus(u, s) ==
    /\ Unlocked(UserKey(u), NoKeyUpdate, Transaction)
    /\ userStatus' = [userStatus EXCEPT ![u] = s]
    /\ UNCHANGED <<tenant, membership, held>>

\* TenancyService.disableOrganization; no transaction locks an organization.
DisableOrganization(w) ==
    /\ tenant[w] # None
    /\ tenant' = [tenant EXCEPT ![w].organization = "disabled"]
    /\ UNCHANGED <<userStatus, membership, held>>

\* TenancyService.disableWorkspace.
DisableWorkspace(w) ==
    /\ tenant[w] # None
    /\ Unlocked(WorkspaceKey(w), NoKeyUpdate, Transaction)
    /\ tenant' = [tenant EXCEPT ![w].workspace = "disabled"]
    /\ UNCHANGED <<userStatus, membership, held>>
=============================================================================
