-------------------------- MODULE AccessInvariant --------------------------
(***************************************************************************)
(* Why the access service keeps its rules: what the statements a request   *)
(* has run have established, and which lock keeps it true until the        *)
(* commit.  AccessInv is inductive; WorkspaceProofs proves so.             *)
(***************************************************************************)
EXTENDS Access

InFlight == {r \in Request : phase[r] # "idle"}

\* What the guards and the parsers leave for each operation.
WellFormed(in) ==
    /\ in \in Input
    /\ in.op \in {"add", "bootstrap"} =>
          in.home = in.workspace /\ in.role \in Role /\ in.status = "active"
    /\ in.op = "bootstrap" => in.role = "owner"
    /\ in.op \in {"add", "update"} => MayRequest(in)

PhasesOf(op) ==
    CASE op = "update"    -> {"resolved", "workspaceLocked", "counting", "updating", "written"}
      [] op = "add"       -> {"resolved", "userLocked", "inserted", "written"}
      [] op = "bootstrap" -> {"resolved", "userLocked", "organizationInserted",
                              "workspaceInserted", "written"}

Placed(r) == WellFormed(input[r]) /\ phase[r] \in PhasesOf(input[r].op)

\* A bootstrap's workspace is not there yet; any other request found its own.
Referenced(r) == (tenant[input[r].workspace] = None) <=> (input[r].op = "bootstrap")

At(r, op, phases) == input[r].op = op /\ phase[r] \in phases

\* From its FOR UPDATE on, an update holds the workspace row.
UpdateLocked(r) ==
    At(r, "update", {"workspaceLocked", "counting", "updating", "written"}) =>
        <<WorkspaceKey(input[r].workspace), Update>> \in held[r]

\* The checks an update has passed still hold of the committed row ...
TargetCurrent(r) ==
    At(r, "update", {"counting", "updating", "written"}) =>
        /\ input[r].home = input[r].workspace
        /\ TargetRow(input[r]) # None
        /\ TouchesOwner(TargetRow(input[r]), input[r]) =>
              RoleHasPermission(input[r].actor, "membership.manage_owner")

\* ... and so does the count of the active owners.
CountCurrent(r) ==
    At(r, "update", {"updating", "written"}) =>
        (RemovesActiveOwner(TargetRow(input[r]), input[r]) =>
            ActiveOwners(input[r].workspace) \ {input[r].user} # {})

\* The user an insert is for stays active: FOR SHARE keeps the row unchanged.
UserEligible(r) ==
    input[r].op \in {"add", "bootstrap"} /\ phase[r] # "resolved" =>
        /\ <<UserKey(input[r].user), Share>> \in held[r]
        /\ userStatus[input[r].user] = "active"

\* An uncommitted insert has found its unique key free.
KeyFree(r) ==
    At(r, "add", {"inserted", "written"}) =>
        membership[input[r].workspace][input[r].user] = None

RequestInv(r) ==
    /\ Placed(r) /\ Referenced(r)
    /\ UpdateLocked(r) /\ TargetCurrent(r) /\ CountCurrent(r)
    /\ UserEligible(r) /\ KeyFree(r)

\* Nobody else knows the workspace a bootstrap is creating, and two
\* uncommitted inserts never have the same unique key.
Apart(r, s) ==
    /\ input[r].op = "bootstrap" => input[s].workspace # input[r].workspace
    /\ At(r, "add", {"inserted", "written"}) /\ At(s, "add", {"inserted", "written"}) =>
          <<input[s].workspace, input[s].user>> # <<input[r].workspace, input[r].user>>

RequestsInv ==
    /\ \A r \in InFlight : RequestInv(r)
    /\ \A r, s \in InFlight : r # s => Apart(r, s)

\* A workspace has no members before it exists.
MembersHaveTenant ==
    \A w \in Workspace, u \in User : membership[w][u] # None => tenant[w] # None

AccessInv ==
    /\ AccessTypeOK
    /\ LocksCompatible
    /\ RequestsInv
    /\ MembersHaveTenant
    /\ EveryWorkspaceHasActiveOwner
=============================================================================
