-------------------------- MODULE WorkspaceSystem --------------------------
(***************************************************************************)
(* The access service and the team service on one database.  They share    *)
(* no code on their way to it, only rows: an update of a membership locks  *)
(* the workspace and then the membership; an activation of a team member   *)
(* locks the team, the membership and the user; adding a member locks the  *)
(* user and then the workspace.                                            *)
(***************************************************************************)
EXTENDS Access

CONSTANTS TeamRequest   \* the requests the team service handles at once

ASSUME TeamRequestAssumption ==
    TeamRequest \subseteq Transaction /\ Request \cap TeamRequest = {}

VARIABLES team, teamMember, teamPhase, teamInput

T == INSTANCE Teams WITH Request <- TeamRequest, phase <- teamPhase, input <- teamInput

ASSUME TeamRowAssumption == None \notin T!TeamRow

teamServiceVars == <<team, teamMember, teamPhase, teamInput>>
systemVars == <<accessVars, teamServiceVars>>

SystemInit == AccessInit /\ T!NoTeams

SystemNext ==
    \/ AccessNext /\ UNCHANGED teamServiceVars
    \/ \E r \in TeamRequest : T!RequestStep(r) /\ UNCHANGED requestVars

SystemSpec == SystemInit /\ [][SystemNext]_systemVars

\* A statement that can run does run: PostgreSQL wakes the waiters of a row
\* when its lock goes, and the services await each statement.  Nothing is
\* assumed of timeouts, of new requests or of the operators.
Fairness ==
    /\ \A r \in Request : WF_systemVars(Advance(r) /\ UNCHANGED teamServiceVars)
    /\ \A r \in TeamRequest : WF_systemVars(T!Advance(r) /\ UNCHANGED requestVars)

FairSystemSpec == SystemSpec /\ Fairness
-----------------------------------------------------------------------------
(* Properties.                                                              *)

\* The next statement of an open request waits for no other transaction: the
\* row lock that it takes is free, and so is the unique key that it inserts.
Free(r, row, mode) == Unlocked(row, mode, Transaction \ {r})

AccessReady(r) ==
    LET in == input[r]
        w  == in.workspace
    IN  /\ phase[r] # "idle"
        /\ phase[r] = "resolved" =>
              IF in.op = "update" THEN Free(r, WorkspaceKey(w), Update)
              ELSE Free(r, UserKey(in.user), Share)
        /\ phase[r] = "updating" => Free(r, MembershipKey(in.home, in.user), NoKeyUpdate)
        /\ phase[r] = "userLocked" /\ in.op = "add" =>
              \A s \in Request \ {r} : ~InsertPending(s, w, in.user)
        /\ phase[r] = "inserted" => Free(r, WorkspaceKey(w), KeyShare)

TeamReady(r) ==
    LET in == teamInput[r]
        m  == in.member
        Next(phases, ops) == teamPhase[r] \in phases /\ in.op \in ops
    IN  /\ teamPhase[r] # "idle"
        /\ Next({"resolved"}, {"create"}) => Free(r, WorkspaceKey(in.workspace), KeyShare)
        /\ Next({"resolved"}, {"patch"}) =>
              Free(r, TeamKey(in.team), IF in.rename THEN Update ELSE NoKeyUpdate)
        /\ Next({"resolved"}, {"add", "activate"}) => Free(r, TeamKey(in.team), Share)
        /\ Next({"teamLocked"}, {"add"}) \/ Next({"rowFound"}, {"activate"}) =>
              Free(r, MembershipKey(m[1], m[2]), Share)
        /\ teamPhase[r] = "memberLocked" => Free(r, T!OtherRowOfJoin(m), Share)
        /\ Next({"eligible"}, {"add"}) =>
              \A s \in TeamRequest \ {r} : ~T!InsertPending(s, in.team, m)
        /\ Next({"eligible"}, {"activate"}) \/ Next({"rowFound"}, {"deactivate"}) =>
              Free(r, TeamMembershipKey(in.home, m[1], m[2]), NoKeyUpdate)

\* Some open transaction can always go on: the services' transactions never
\* wait for each other in a circle, so none of them needs the deadlock
\* detector or a lock timeout to get out.
NoDeadlock ==
    (\E r \in Request : phase[r] # "idle") \/ (\E r \in TeamRequest : teamPhase[r] # "idle") =>
        (\E r \in Request : AccessReady(r)) \/ (\E r \in TeamRequest : TeamReady(r))

Quiet == (\A r \in Request : phase[r] = "idle") /\ (\A r \in TeamRequest : teamPhase[r] = "idle")

NoArrival ==
    /\ \A r \in Request : phase[r] = "idle" => phase'[r] = "idle"
    /\ \A r \in TeamRequest : teamPhase[r] = "idle" => teamPhase'[r] = "idle"

\* When no new requests arrive, all that are under way come to an end.
RequestsDrain == <>[][NoArrival]_systemVars => <>[]Quiet

\* Each service keeps its rules while the other works on the same rows.
TeamsImplementTeamRules == T!ImplementsTeamRules
=============================================================================
