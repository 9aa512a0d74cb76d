------------------------------- MODULE Teams -------------------------------
(***************************************************************************)
(* The team service: creating and changing a team, adding a member to it,  *)
(* and activating or deactivating a team membership.                       *)
(*                                                                         *)
(* As in module Access there is one action per statement.  An activation   *)
(* reads the team, the workspace membership and the user FOR SHARE, which  *)
(* must keep all three as they were read until it commits; a deactivation  *)
(* and a change of the team take no lock before they write.                *)
(*                                                                         *)
(* A workspace membership is named by its workspace and user, and a team   *)
(* membership by its team and its workspace membership.                    *)
(***************************************************************************)
EXTENDS Policy

CONSTANTS Request       \* the requests the service handles at once

ASSUME RequestAssumption == Request \subseteq Transaction

Member == Workspace \X User
TeamRow == [workspace : Workspace, status : Status]

ASSUME NoTeamAssumption == None \notin TeamRow

VARIABLES
    team,           \* teams, by id
    teamMember,     \* team_memberships.status, by team and workspace membership
    phase,          \* how far each request has come
    input           \* what it was asked

requestVars == <<phase, input>>
teamTables == <<team, teamMember>>
teamVars == <<userStatus, tenant, membership, held, team, teamMember, phase, input>>


\* `workspace` is that of the resolved context, `team` the id in the path.
\* `member` is the workspace membership to add, or that of the named team
\* membership, which really belongs to the team `home`: a client may name ids
\* of other teams and of other workspaces.
CreateInput == [op : {"create"}, workspace : Workspace, team : Team]
PatchInput  == [op : {"patch"}, workspace : Workspace, team : Team,
                status : Status \cup {None}, rename : BOOLEAN]
AddInput    == [op : {"add"}, workspace : Workspace, team : Team, member : Member]
ChangeInput == [op : {"activate", "deactivate"}, workspace : Workspace, team : Team,
                home : Team, member : Member]
Input == CreateInput \cup PatchInput \cup AddInput \cup ChangeInput

Phase == {"idle", "resolved", "teamLocked", "teamFound", "rowFound", "memberLocked",
          "eligible", "written"}

-----------------------------------------------------------------------------

Goto(r, p) == phase' = [phase EXCEPT ![r] = p] /\ UNCHANGED input

Finish(r) ==
    /\ phase' = [phase EXCEPT ![r] = "idle"]
    /\ input' = [input EXCEPT ![r] = None]
    /\ Release(r)

Reject(r) == Finish(r) /\ UNCHANGED <<tables, teamTables>>

\* A new team gets a fresh id; the other requests name ids of their choice.
\* A PATCH of a team supplies a name, a status or both.
WellFormed(in) ==
    /\ in.op = "create" =>
          /\ team[in.team] = None
          /\ \A s \in Request : phase[s] # "idle" => input[s].team # in.team
    /\ in.op = "patch" => in.rename \/ in.status # None

\* The guards: the actor's role at this moment permits team.manage.
ResolveAccess(r) ==
    /\ phase[r] = "idle"
    /\ \E w \in Workspace, actor \in User, in \in Input :
          /\ HasAccess(actor, w)
          /\ RoleHasPermission(membership[w][actor].role, "team.manage")
          /\ in.workspace = w
          /\ WellFormed(in)
          /\ phase' = [phase EXCEPT ![r] = "resolved"]
          /\ input' = [input EXCEPT ![r] = in]
    /\ UNCHANGED <<tables, teamTables, held>>

\* The team row with the id in the path, if it lies in the request's workspace.
TargetTeam(in) ==
    IF team[in.team] # None /\ team[in.team].workspace = in.workspace
    THEN team[in.team] ELSE None

-----------------------------------------------------------------------------
(* TeamService.createTeam and updateTeam: one statement each.  Team names   *)
(* are left out, so whether the statement meets another team's name in the  *)
(* workspace, and fails on their unique constraint, is left open.           *)

InsertTeam(r) ==
    LET in == input[r] IN
    /\ phase[r] = "resolved" /\ in.op = "create"
    /\ Unlocked(WorkspaceKey(in.workspace), KeyShare, Transaction \ {r})
    /\ \/ /\ team' = [team EXCEPT ![in.team] = [workspace |-> in.workspace, status |-> "active"]]
          /\ Finish(r)
          /\ UNCHANGED <<tables, teamMember>>
       \/ Reject(r)

\* Mutant: a PATCH without a status writes none.
UpdateTeamWhole(r) ==
    LET in == input[r] IN
    /\ phase[r] = "resolved" /\ in.op = "patch" /\ TargetTeam(in) # None
    /\ Unlocked(TeamKey(in.team), NoKeyUpdate, Transaction \ {r})
    /\ team' = [team EXCEPT ![in.team].status = in.status]
    /\ Finish(r)
    /\ UNCHANGED <<tables, teamMember>>

\* A new name changes a column of a unique key, which takes the row FOR UPDATE.
UpdateTeam(r) ==
    LET in  == input[r]
        row == TargetTeam(in)
    IN  /\ phase[r] = "resolved" /\ in.op = "patch"
        /\ \/ /\ row # None
              /\ Unlocked(TeamKey(in.team), IF in.rename THEN Update ELSE NoKeyUpdate,
                          Transaction \ {r})
              /\ team' = [team EXCEPT ![in.team].status =
                             IF in.status = None THEN @ ELSE in.status]
              /\ Finish(r)
              /\ UNCHANGED <<tables, teamMember>>
           \/ (row = None \/ in.rename) /\ Reject(r)

-----------------------------------------------------------------------------
(* TeamService.addTeamMember and updateTeamMember                           *)

\* Mutant: the team is read without FOR SHARE.
FindTeamUnlocked(r) ==
    LET row == TargetTeam(input[r]) IN
    /\ phase[r] = "resolved" /\ input[r].op \in {"add", "activate"}
    /\ \/ /\ row # None /\ row.status = "active"
          /\ Goto(r, "teamLocked")
          /\ UNCHANGED <<tables, teamTables, held>>
       \/ (row # None => row.status = "disabled") /\ Reject(r)

\* SELECT the team FOR SHARE; its status is judged as it was read here.
FindTeamForActivation(r) ==
    LET row == TargetTeam(input[r]) IN
    /\ phase[r] = "resolved" /\ input[r].op \in {"add", "activate"}
    /\ \/ /\ row # None /\ row.status = "active"
          /\ Acquire(r, TeamKey(input[r].team), Share)
          /\ Goto(r, "teamLocked")
          /\ UNCHANGED <<tables, teamTables>>
       \/ (row # None => row.status = "disabled") /\ Reject(r)

FindTeam(r) ==
    LET row == TargetTeam(input[r]) IN
    /\ phase[r] = "resolved" /\ input[r].op = "deactivate"
    /\ \/ row = None /\ Reject(r)
       \/ row # None /\ Goto(r, "teamFound") /\ UNCHANGED <<tables, teamTables, held>>

\* The named team membership, if it is one of the team in the path: the WHERE
\* clause that findTeamMembershipWithinTeamAndWorkspace and
\* updateTeamMembershipStatus share.
TargetRow(in) == IF in.home = in.team THEN teamMember[in.home][in.member] ELSE None

FindTeamMembership(r) ==
    LET row == TargetRow(input[r]) IN
    /\ \/ phase[r] = "teamLocked" /\ input[r].op = "activate"
       \/ phase[r] = "teamFound"
    /\ \/ row = None /\ Reject(r)
       \/ row # None /\ Goto(r, "rowFound") /\ UNCHANGED <<tables, teamTables, held>>

ActiveMember(m) ==
    /\ membership[m[1]][m[2]] # None
    /\ membership[m[1]][m[2]].status = "active"
    /\ userStatus[m[2]] = "active"

\* Mutant: eligibility is read without FOR SHARE of the membership.
LockMemberUnlocked(r) ==
    LET m == input[r].member IN
    /\ \/ phase[r] = "teamLocked" /\ input[r].op = "add"
       \/ phase[r] = "rowFound" /\ input[r].op = "activate"
    /\ \/ /\ m[1] = input[r].workspace /\ ActiveMember(m)
          /\ Goto(r, "memberLocked")
          /\ UNCHANGED <<tables, teamTables, held>>
       \/ ~(m[1] = input[r].workspace /\ ActiveMember(m)) /\ Reject(r)

\* resolveEligibleWorkspaceMember is one SELECT ... FOR SHARE over two tables.
\* It finds an active pair in the workspace and locks the membership row ...
LockMember(r) ==
    LET m == input[r].member IN
    /\ \/ phase[r] = "teamLocked" /\ input[r].op = "add"
       \/ phase[r] = "rowFound" /\ input[r].op = "activate"
    /\ \/ /\ m[1] = input[r].workspace /\ ActiveMember(m)
          /\ Acquire(r, MembershipKey(m[1], m[2]), Share)
          /\ Goto(r, "memberLocked")
          /\ UNCHANGED <<tables, teamTables>>
       \/ ~(m[1] = input[r].workspace /\ ActiveMember(m)) /\ Reject(r)

\* Mutant: the join locks the workspace row in place of the user's.
OtherRowOfJoinWrong(m) == WorkspaceKey(m[1])

\* The row that the join locks besides that of the membership.
OtherRowOfJoin(m) == UserKey(m[2])

\* ... then the user row, and judges again if either changed as it waited.
LockUser(r) ==
    LET m == input[r].member IN
    /\ phase[r] = "memberLocked"
    /\ \/ /\ ActiveMember(m)
          /\ Acquire(r, OtherRowOfJoin(m), Share)
          /\ Goto(r, "eligible")
          /\ UNCHANGED <<tables, teamTables>>
       \/ ~ActiveMember(m) /\ Reject(r)

\* An INSERT waits for another's uncommitted row under the same unique key,
\* fails on a committed one, and finds both foreign keys in the workspace.
InsertPending(s, t, m) ==
    phase[s] = "written" /\ input[s].op = "add" /\ input[s].team = t /\ input[s].member = m

InsertTeamMembership(r) ==
    LET in == input[r] IN
    /\ phase[r] = "eligible" /\ in.op = "add"
    /\ \A s \in Request \ {r} : ~InsertPending(s, in.team, in.member)
    /\ \/ teamMember[in.team][in.member] # None /\ Reject(r)
       \/ /\ teamMember[in.team][in.member] = None
          /\ in.member[1] = in.workspace /\ team[in.team].workspace = in.workspace
          /\ Goto(r, "written")
          /\ UNCHANGED <<tables, teamTables, held>>

UpdateTeamMembership(r) ==
    LET in == input[r] IN
    /\ \/ phase[r] = "eligible" /\ in.op = "activate"
       \/ phase[r] = "rowFound" /\ in.op = "deactivate"
    /\ Acquire(r, TeamMembershipKey(in.home, in.member[1], in.member[2]), NoKeyUpdate)
    /\ Goto(r, "written")
    /\ UNCHANGED <<tables, teamTables>>

CommitInsert(r) ==
    LET in == input[r] IN
    /\ phase[r] = "written" /\ in.op = "add"
    /\ teamMember' = [teamMember EXCEPT ![in.team][in.member] = "active"]
    /\ Finish(r)
    /\ UNCHANGED <<tables, team>>

CommitStatus(r) ==
    LET in == input[r] IN
    /\ phase[r] = "written" /\ in.op \in {"activate", "deactivate"}
    /\ teamMember' = [teamMember EXCEPT ![in.home][in.member] =
                         IF in.op = "activate" THEN "active" ELSE "disabled"]
    /\ Finish(r)
    /\ UNCHANGED <<tables, team>>

-----------------------------------------------------------------------------

\* A timeout, a lost connection or a crash, before the commit.
Rollback(r) == phase[r] # "idle" /\ Reject(r)

\* The statements of a request, in the order its service issues them.
Advance(r) ==
    \/ InsertTeam(r) \/ UpdateTeam(r)
    \/ FindTeamForActivation(r) \/ FindTeam(r) \/ FindTeamMembership(r)
    \/ LockMember(r) \/ LockUser(r)
    \/ InsertTeamMembership(r) \/ CommitInsert(r)
    \/ UpdateTeamMembership(r) \/ CommitStatus(r)

RequestStep(r) == ResolveAccess(r) \/ Advance(r) \/ Rollback(r)

\* What the access service and the operators may do meanwhile: they write one
\* row, and only when no team request holds a lock against it.
ChangeMembership(w, u, row) ==
    /\ Unlocked(MembershipKey(w, u), NoKeyUpdate, Transaction)
    /\ membership' = [membership EXCEPT ![w][u] = row]
    /\ UNCHANGED <<userStatus, tenant, held>>

\* That tenants are disabled as well is explored in WorkspaceSystem.
Upstream ==
    /\ \/ \E u \in User \cap Administered, s \in Status : SetUserStatus(u, s)
       \/ \E w \in Workspace, u \in User \cap Administered, row \in MembershipRow :
             ChangeMembership(w, u, row)
    /\ UNCHANGED <<teamTables, requestVars>>

NoTeams ==
    /\ team = [t \in Team |-> None]
    /\ teamMember = [t \in Team |-> [m \in Member |-> None]]
    /\ phase = [r \in Request |-> "idle"]
    /\ input = [r \in Request |-> None]

\* Every workspace starts out with the owner its bootstrap gave it.
TeamsInit ==
    /\ userStatus = [u \in User |-> "active"]
    /\ tenant = [w \in Workspace |-> [organization |-> "active", workspace |-> "active"]]
    /\ \E owner \in [Workspace -> User] :
          membership = [w \in Workspace |->
                           [u \in User |-> IF u = owner[w] THEN ActiveOwner ELSE None]]
    /\ held = [t \in Transaction |-> {}]
    /\ NoTeams

TeamsNext == Upstream \/ \E r \in Request : RequestStep(r)

TeamsSpec == TeamsInit /\ [][TeamsNext]_teamVars
-----------------------------------------------------------------------------
(* Properties.                                                              *)

TeamsTypeOK ==
    /\ userStatus \in [User -> Status]
    /\ tenant \in [Workspace -> TenantRow \cup {None}]
    /\ membership \in [Workspace -> [User -> MembershipRow \cup {None}]]
    /\ held \in [Transaction -> SUBSET Lock]
    /\ team \in [Team -> TeamRow \cup {None}]
    /\ teamMember \in [Team -> [Member -> Status \cup {None}]]
    /\ phase \in [Request -> Phase]
    /\ input \in [Request -> Input \cup {None}]

Rules == INSTANCE TeamRules

\* Activations racing with a disabled team, membership or user, and with each
\* other, take effect as if each were one step on the tables.
ImplementsTeamRules == Rules!Spec
=============================================================================
