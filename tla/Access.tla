------------------------------- MODULE Access -------------------------------
(***************************************************************************)
(* The access service: adding a member to a workspace, changing a          *)
(* membership, and bootstrapping an organization with its first workspace. *)
(*                                                                         *)
(* A request runs alone in its own Node task and meets the others only in  *)
(* PostgreSQL, so there is one action per statement.  The first,           *)
(* ResolveAccess, is the guards: it fixes the role the request acts with.  *)
(* Everything later, in the service's transaction, reads the database      *)
(* again, but never that role.                                             *)
(***************************************************************************)
EXTENDS Policy

CONSTANTS Request       \* the requests the service handles at once

ASSUME RequestAssumption == Request \subseteq Transaction

VARIABLES
    phase,      \* how far each request has come
    input       \* what it was asked, and the role it acts with

requestVars == <<phase, input>>
accessVars == <<userStatus, tenant, membership, held, phase, input>>

\* `actor` is the role in the resolved context, None for a bootstrap, which
\* needs no workspace.  `home` is the workspace that really holds the target
\* membership: a client may name the id of a membership of another workspace.
\* An insert gives the new row; a change gives None for a field left out.
Input == [op : {"add", "update", "bootstrap"}, actor : Role \cup {None},
          workspace : Workspace, home : Workspace, user : User,
          role : Role \cup {None}, status : Status \cup {None}]

AddInput(actor, w, u, role) ==
    [op |-> "add", actor |-> actor, workspace |-> w, home |-> w, user |-> u,
     role |-> role, status |-> "active"]

UpdateInput(actor, w, home, u, role, status) ==
    [op |-> "update", actor |-> actor, workspace |-> w, home |-> home, user |-> u,
     role |-> role, status |-> status]

BootstrapInput(w, u) ==
    [op |-> "bootstrap", actor |-> None, workspace |-> w, home |-> w, user |-> u,
     role |-> "owner", status |-> "active"]

Phase == {"idle", "resolved", "workspaceLocked", "counting", "updating", "userLocked",
          "organizationInserted", "workspaceInserted", "inserted", "written"}

AccessInit ==
    /\ userStatus = [u \in User |-> "active"]
    /\ tenant = [w \in Workspace |-> None]
    /\ membership = [w \in Workspace |-> [u \in User |-> None]]
    /\ held = [t \in Transaction |-> {}]
    /\ phase = [r \in Request |-> "idle"]
    /\ input = [r \in Request |-> None]

-----------------------------------------------------------------------------

Goto(r, p) == phase' = [phase EXCEPT ![r] = p] /\ UNCHANGED input

\* The request ends, with its transaction committed or rolled back.
Finish(r) ==
    /\ phase' = [phase EXCEPT ![r] = "idle"]
    /\ input' = [input EXCEPT ![r] = None]
    /\ Release(r)

Reject(r) == Finish(r) /\ UNCHANGED tables

\* The guards' permission check and the service's own: both see the role of
\* the resolved context, so one check stands for the two.
MayRequest(in) ==
    /\ RoleHasPermission(in.actor, "membership.manage")
    /\ in.op = "add" /\ in.role = "owner" =>
          RoleHasPermission(in.actor, "membership.manage_owner")

Begin(r, in) ==
    /\ phase[r] = "idle"
    /\ phase' = [phase EXCEPT ![r] = "resolved"]
    /\ input' = [input EXCEPT ![r] = in]
    /\ UNCHANGED <<tables, held>>

\* WorkspaceAccessGuard resolves the context of an authenticated user, and
\* the permission checks pass.  A refused request leaves no trace.
ResolveAccess(r) ==
    \E w \in Workspace, actor \in User :
       /\ HasAccess(actor, w)
       /\ LET role == membership[w][actor].role IN
          \/ \E u \in User, new \in Role :
                /\ MayRequest(AddInput(role, w, u, new))
                /\ Begin(r, AddInput(role, w, u, new))
          \/ \E home \in Workspace, u \in User,
                new \in Role \cup {None}, status \in Status \cup {None} :
                /\ <<new, status>> # <<None, None>>
                /\ MayRequest(UpdateInput(role, w, home, u, new, status))
                /\ Begin(r, UpdateInput(role, w, home, u, new, status))

\* A bootstrap asks only for an authenticated user; its ids are fresh.
StartBootstrap(r) ==
    \E w \in Workspace, u \in User :
       /\ userStatus[u] = "active"
       /\ tenant[w] = None
       /\ \A s \in Request : phase[s] # "idle" => input[s].workspace # w
       /\ Begin(r, BootstrapInput(w, u))

-----------------------------------------------------------------------------
(* AccessService.updateMembership                                           *)

\* Mutant: the workspace row is read without FOR UPDATE.
LockWorkspaceUnlocked(r) ==
    /\ phase[r] = "resolved" /\ input[r].op = "update"
    /\ Goto(r, "workspaceLocked")
    /\ UNCHANGED <<tables, held>>

LockWorkspace(r) ==
    /\ phase[r] = "resolved" /\ input[r].op = "update"
    /\ Acquire(r, WorkspaceKey(input[r].workspace), Update)
    /\ Goto(r, "workspaceLocked")
    /\ UNCHANGED tables

Patched(row, in) ==
    [role   |-> IF in.role = None THEN row.role ELSE in.role,
     status |-> IF in.status = None THEN row.status ELSE in.status]

RemovesActiveOwner(row, in) == row = ActiveOwner /\ Patched(row, in) # ActiveOwner

\* Mutant: only the new role is looked at.
TouchesOwnerNext(row, in) == Patched(row, in).role = "owner"

TouchesOwner(row, in) == "owner" \in {row.role, Patched(row, in).role}

\* Mutant: the WHERE clause names the id alone.
TargetRowById(in) == membership[in.home][in.user]

\* The row with the id the request names, if it lies in the workspace of the
\* request's context: the WHERE clause that findMembershipByIdWithinWorkspace
\* and updateMembership share.
TargetRow(in) ==
    IF in.home = in.workspace THEN membership[in.home][in.user] ELSE None

\* findMembershipByIdWithinWorkspace, and the checks that follow it.
FindTarget(r) ==
    LET in  == input[r]
        row == TargetRow(in)
        allowed == /\ row # None
                   /\ TouchesOwner(row, in) =>
                         RoleHasPermission(in.actor, "membership.manage_owner")
    IN  /\ phase[r] = "workspaceLocked"
        /\ \/ ~allowed /\ Reject(r)
           \/ /\ allowed
              /\ Goto(r, IF RemovesActiveOwner(row, in) THEN "counting" ELSE "updating")
              /\ UNCHANGED <<tables, held>>

ActiveOwners(w) == {u \in User : membership[w][u] = ActiveOwner}

CountActiveOwners(r) ==
    LET last == Cardinality(ActiveOwners(input[r].workspace)) <= 1
    IN  /\ phase[r] = "counting"
        /\ \/ last /\ Reject(r)
           \/ ~last /\ Goto(r, "updating") /\ UNCHANGED <<tables, held>>

\* The UPDATE statement takes the row; the new version is the patch of the
\* committed row, which from here to the commit nobody else can write.
UpdateRow(r) ==
    /\ phase[r] = "updating"
    /\ Acquire(r, MembershipKey(input[r].home, input[r].user), NoKeyUpdate)
    /\ Goto(r, "written")
    /\ UNCHANGED tables

CommitUpdate(r) ==
    LET in == input[r] IN
    /\ phase[r] = "written" /\ in.op = "update"
    /\ membership' = [membership EXCEPT ![in.home][in.user] = Patched(@, in)]
    /\ Finish(r)
    /\ UNCHANGED <<userStatus, tenant>>

-----------------------------------------------------------------------------
(* AccessService.addMembership and OrganizationBootstrapService.bootstrap   *)

\* Mutant: the active user is read without FOR SHARE.
FindActiveUserUnlocked(r) ==
    /\ phase[r] = "resolved" /\ input[r].op \in {"add", "bootstrap"}
    /\ \/ userStatus[input[r].user] = "active" /\ Goto(r, "userLocked") /\ UNCHANGED <<tables, held>>
       \/ userStatus[input[r].user] # "active" /\ Reject(r)

\* SELECT ... FOR SHARE of the active user: it waits for a change of the user
\* in progress, and then sees its outcome.
FindActiveUser(r) ==
    LET u == input[r].user IN
    /\ phase[r] = "resolved" /\ input[r].op \in {"add", "bootstrap"}
    /\ \/ /\ userStatus[u] = "active"
          /\ Acquire(r, UserKey(u), Share)
          /\ Goto(r, "userLocked")
          /\ UNCHANGED tables
       \/ userStatus[u] # "active" /\ Reject(r)

\* The row another open transaction has inserted under the same unique key.
InsertPending(s, w, u) ==
    /\ phase[s] \in {"inserted", "written"}
    /\ input[s].op # "update"
    /\ input[s].workspace = w /\ input[s].user = u

\* Mutant: no unique constraint; the insert checks for a duplicate by itself.
InsertMembershipUnguarded(r) ==
    LET w == input[r].workspace
        u == input[r].user
    IN  /\ phase[r] = "userLocked" /\ input[r].op = "add"
        /\ \/ membership[w][u] # None /\ Reject(r)
           \/ membership[w][u] = None /\ Goto(r, "inserted") /\ UNCHANGED <<tables, held>>

\* The INSERT of an added member waits for an uncommitted duplicate and fails
\* on a committed one, which the service reports as membership_conflict.
InsertMembership(r) ==
    LET w == input[r].workspace
        u == input[r].user
    IN  /\ phase[r] = "userLocked" /\ input[r].op = "add"
        /\ \A s \in Request \ {r} : ~InsertPending(s, w, u)
        /\ \/ membership[w][u] # None /\ Reject(r)
           \/ membership[w][u] = None /\ Goto(r, "inserted") /\ UNCHANGED <<tables, held>>

\* Its foreign key locks the workspace row, so it waits for a FOR UPDATE.
CheckWorkspaceReference(r) ==
    /\ phase[r] = "inserted"
    /\ Acquire(r, WorkspaceKey(input[r].workspace), KeyShare)
    /\ Goto(r, "written")
    /\ UNCHANGED tables

CommitAdd(r) ==
    LET in == input[r] IN
    /\ phase[r] = "written" /\ in.op = "add"
    /\ membership' = [membership EXCEPT ![in.workspace][in.user] =
                         [role |-> in.role, status |-> in.status]]
    /\ Finish(r)
    /\ UNCHANGED <<userStatus, tenant>>

\* The three inserts of a bootstrap: nobody sees them before the commit.
InsertOrganization(r) ==
    /\ phase[r] = "userLocked" /\ input[r].op = "bootstrap"
    /\ Goto(r, "organizationInserted")
    /\ UNCHANGED <<tables, held>>

InsertWorkspace(r) ==
    /\ phase[r] = "organizationInserted"
    /\ Goto(r, "workspaceInserted")
    /\ UNCHANGED <<tables, held>>

InsertOwner(r) ==
    /\ phase[r] = "workspaceInserted"
    /\ Goto(r, "written")
    /\ UNCHANGED <<tables, held>>

CommitBootstrap(r) ==
    LET in == input[r] IN
    /\ phase[r] = "written" /\ in.op = "bootstrap"
    /\ tenant' = [tenant EXCEPT ![in.workspace] =
                     [organization |-> "active", workspace |-> "active"]]
    /\ membership' = [membership EXCEPT ![in.workspace][in.user] =
                         [role |-> in.role, status |-> in.status]]
    /\ Finish(r)
    /\ UNCHANGED userStatus

-----------------------------------------------------------------------------

\* A lock or statement timeout, a lost connection, a crash of the process: the
\* database rolls back whatever was not committed.
Rollback(r) == phase[r] # "idle" /\ Reject(r)

\* The statements of a request, in the order its service issues them.
Advance(r) ==
    \/ LockWorkspace(r) \/ FindTarget(r) \/ CountActiveOwners(r)
    \/ UpdateRow(r) \/ CommitUpdate(r)
    \/ FindActiveUser(r) \/ InsertMembership(r) \/ CheckWorkspaceReference(r)
    \/ CommitAdd(r)
    \/ InsertOrganization(r) \/ InsertWorkspace(r) \/ InsertOwner(r)
    \/ CommitBootstrap(r)

RequestStep(r) == ResolveAccess(r) \/ StartBootstrap(r) \/ Advance(r) \/ Rollback(r)

Administer ==
    /\ \/ \E u \in User \cap Administered, s \in Status : SetUserStatus(u, s)
       \/ \E w \in Workspace \cap Administered : DisableOrganization(w) \/ DisableWorkspace(w)
    /\ UNCHANGED requestVars

AccessNext == Administer \/ \E r \in Request : RequestStep(r)

AccessSpec == AccessInit /\ [][AccessNext]_accessVars
-----------------------------------------------------------------------------
(* Properties.                                                              *)

AccessTypeOK ==
    /\ userStatus \in [User -> Status]
    /\ tenant \in [Workspace -> TenantRow \cup {None}]
    /\ membership \in [Workspace -> [User -> MembershipRow \cup {None}]]
    /\ held \in [Transaction -> SUBSET Lock]
    /\ phase \in [Request -> Phase]
    /\ input \in [Request -> Input \cup {None}]

\* AUTHORIZATION.md: every workspace retains at least one active owner.  It
\* holds of the committed tables in every state, however changes of several
\* owners interleave, and from the moment the workspace exists.
EveryWorkspaceHasActiveOwner ==
    \A w \in Workspace : tenant[w] # None => ActiveOwners(w) # {}

\* A membership row changes only by the commit of a request whose context is
\* for the row's own workspace and carries membership.manage, and for a row
\* that is, or becomes, owner-level at the commit, membership.manage_owner;
\* or by the bootstrap of that workspace.  The target read before the UPDATE
\* must therefore still be current when the UPDATE commits.
ChangeAuthorized(r, w, u) ==
    LET in == input[r]
        ownerLevel == \/ membership'[w][u].role = "owner"
                      \/ membership[w][u] # None /\ membership[w][u].role = "owner"
    IN  /\ phase[r] = "written" /\ phase'[r] = "idle"
        /\ in.workspace = w
        /\ \/ in.op = "bootstrap" /\ tenant[w] = None
           \/ /\ RoleHasPermission(in.actor, "membership.manage")
              /\ ownerLevel => RoleHasPermission(in.actor, "membership.manage_owner")

ChangesAuthorized ==
    [][\A w \in Workspace, u \in User :
         membership'[w][u] # membership[w][u] =>
            \E r \in Request : ChangeAuthorized(r, w, u)]_accessVars

Rules == INSTANCE MembershipRules

\* The statements of concurrent requests take effect as if each operation
\* were one step on the tables (module MembershipRules).
ImplementsMembershipRules == Rules!Spec
=============================================================================
