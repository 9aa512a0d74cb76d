----------------------------- MODULE TeamRules -----------------------------
(***************************************************************************)
(* What the team service promises about the committed tables: each         *)
(* operation takes effect in ONE step, and at the step that makes a team   *)
(* membership active its team, its workspace membership and its user are   *)
(* all active.  Module Teams implements this with its FOR SHARE locks.     *)
(***************************************************************************)
CONSTANTS User, Team, Workspace, Role, None

VARIABLES userStatus, tenant, membership, team, teamMember

upstream == <<userStatus, tenant, membership>>
tables == <<upstream, team, teamMember>>

Status == {"active", "disabled"}

\* A team row never moves to another workspace, and is never deleted.
PutTeam(t, w, status) ==
    /\ team[t] # None => team[t].workspace = w
    /\ team' = [team EXCEPT ![t] = [workspace |-> w, status |-> status]]
    /\ UNCHANGED <<upstream, teamMember>>

\* Everything that TEAMS.md asks of a new or reactivated team member.
Eligible(t, w, u) ==
    /\ team[t] = [workspace |-> w, status |-> "active"]
    /\ membership[w][u] # None /\ membership[w][u].status = "active"
    /\ userStatus[u] = "active"

Activate(t, w, u) ==
    /\ Eligible(t, w, u)
    /\ teamMember' = [teamMember EXCEPT ![t][<<w, u>>] = "active"]
    /\ UNCHANGED <<upstream, team>>

\* Only a stored team membership is disabled, whatever became of its upstream.
Deactivate(t, w, u) ==
    /\ teamMember[t][<<w, u>>] # None
    /\ teamMember' = [teamMember EXCEPT ![t][<<w, u>>] = "disabled"]
    /\ UNCHANGED <<upstream, team>>

\* The tables of the access service are not the team service's to change.
Next ==
    \/ UNCHANGED <<team, teamMember>>
    \/ \E t \in Team, w \in Workspace :
          \/ \E status \in Status : PutTeam(t, w, status)
          \/ \E u \in User : Activate(t, w, u) \/ Deactivate(t, w, u)

Spec ==
    /\ team = [t \in Team |-> None]
    /\ teamMember = [t \in Team |-> [m \in Workspace \X User |-> None]]
    /\ [][Next]_tables
=============================================================================
