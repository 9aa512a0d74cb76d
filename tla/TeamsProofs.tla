---------------------------- MODULE TeamsProofs ----------------------------
(***************************************************************************)
(* Proofs about the team service: what the statements of a request have    *)
(* established stays so until it commits, because of the FOR SHARE locks   *)
(* it holds, and so each operation takes effect as one step on the tables. *)
(* From these rules alone follows that the rows of tenants stay apart.     *)
(***************************************************************************)
EXTENDS Teams, TLAPS

PhasesOf(op) ==
    CASE op \in {"create", "patch"} -> {"resolved"}
      [] op = "add"        -> {"resolved", "teamLocked", "memberLocked", "eligible", "written"}
      [] op = "activate"   -> {"resolved", "teamLocked", "rowFound", "memberLocked", "eligible",
                               "written"}
      [] op = "deactivate" -> {"resolved", "teamFound", "rowFound", "written"}

Placed(r) == input[r] \in Input /\ phase[r] \in PhasesOf(input[r].op)

\* The team, the workspace membership and the user of an activation, or of an
\* added member, are as they were read: locked FOR SHARE from then on.
Activates(r) == input[r].op \in {"add", "activate"}

TeamCurrent(r) ==
    Activates(r) /\ phase[r] # "resolved" =>
        /\ <<TeamKey(input[r].team), Share>> \in held[r]
        /\ team[input[r].team] = [workspace |-> input[r].workspace, status |-> "active"]

MemberCurrent(r) ==
    LET m == input[r].member IN
    Activates(r) /\ phase[r] \in {"memberLocked", "eligible", "written"} =>
        /\ <<MembershipKey(m[1], m[2]), Share>> \in held[r]
        /\ m[1] = input[r].workspace
        /\ membership[m[1]][m[2]] # None /\ membership[m[1]][m[2]].status = "active"

UserCurrent(r) ==
    LET m == input[r].member IN
    Activates(r) /\ phase[r] \in {"eligible", "written"} =>
        /\ <<UserKey(m[2]), Share>> \in held[r]
        /\ userStatus[m[2]] = "active"

\* A team membership that was found is one of the team in the path, and stays.
RowCurrent(r) ==
    input[r].op \in {"activate", "deactivate"}
      /\ phase[r] \in {"rowFound", "memberLocked", "eligible", "written"} =>
        input[r].home = input[r].team /\ teamMember[input[r].home][input[r].member] # None

\* The id of a new team is no other's.
IdFresh(r) ==
    input[r].op = "create" =>
        /\ team[input[r].team] = None
        /\ \A s \in Request \ {r} : phase[s] # "idle" /\ input[s].op = "create" =>
              input[s].team # input[r].team

RequestInv(r) ==
    phase[r] # "idle" =>
        Placed(r) /\ TeamCurrent(r) /\ MemberCurrent(r) /\ UserCurrent(r) /\ RowCurrent(r)

TeamsInv ==
    /\ TeamsTypeOK
    /\ \A r \in Request : RequestInv(r)
    /\ \A r \in Request : phase[r] # "idle" => IdFresh(r)

-----------------------------------------------------------------------------
(* Locks                                                                    *)

LEMMA SharedAgainstWriters ==
    ASSUME NEW row, NEW s \in Transaction, <<row, Share>> \in held[s],
           NEW mode \in {NoKeyUpdate, Update}, NEW others, Unlocked(row, mode, others)
    PROVE  s \notin others
<1>1. Share \in Mode /\ Conflict(Share, mode)
  BY DEF Mode, Conflict, Share, NoKeyUpdate, Update, KeyShare
<1>2. QED
  BY <1>1 DEF Unlocked

LEMMA AcquireAdds ==
    ASSUME TeamsTypeOK, NEW r \in Request, NEW row \in Row, NEW mode \in Mode, Acquire(r, row, mode)
    PROVE  /\ held' \in [Transaction -> SUBSET Lock] /\ <<row, mode>> \in held'[r]
           /\ \A s \in Transaction : held[s] \subseteq held'[s]
<1>1. r \in Transaction
  BY RequestAssumption
<1>2. <<row, mode>> \in Lock
  BY DEF Lock
<1>3. QED
  BY <1>1, <1>2 DEF TeamsTypeOK, Acquire

LEMMA KeysAreRows ==
    /\ \A t \in Team : TeamKey(t) \in Row
    /\ \A m \in Member : MembershipKey(m[1], m[2]) \in Row /\ UserKey(m[2]) \in Row
    /\ \A t \in Team, m \in Member : TeamMembershipKey(t, m[1], m[2]) \in Row
    /\ Share \in Mode /\ NoKeyUpdate \in Mode
<1>1. \A m \in Member : m[1] \in Workspace /\ m[2] \in User
  BY DEF Member
<1>2. QED
  BY <1>1 DEF Row, TeamKey, MembershipKey, UserKey, TeamMembershipKey, Mode

LEMMA InputsAreTyped ==
    ASSUME NEW in \in Input
    PROVE  /\ in.workspace \in Workspace /\ in.team \in Team
           /\ in.op \in {"create", "patch", "add", "activate", "deactivate"}
           /\ in.op = "patch" => in.status \in Status \cup {None}
           /\ in.op \in {"add", "activate", "deactivate"} => in.member \in Member
           /\ in.op \in {"activate", "deactivate"} => in.home \in Team
  BY DEF Input, CreateInput, PatchInput, AddInput, ChangeInput

-----------------------------------------------------------------------------
(* Steps of one request                                                     *)

\* What a request has established concerns neither the other requests nor the
\* rows that it has not locked.
LEMMA OthersUndisturbed ==
    ASSUME NEW s \in Request, RequestInv(s), phase'[s] = phase[s], input'[s] = input[s],
           held[s] \subseteq held'[s], UNCHANGED tables,
           \A t \in Team : team[t] # None => team'[t] = team[t],
           \A t \in Team, m \in Member : teamMember[t][m] # None => teamMember'[t][m] # None
    PROVE  RequestInv(s)'
<1> SUFFICES ASSUME phase[s] # "idle" PROVE RequestInv(s)'
  BY DEF RequestInv
<1>1. Placed(s) /\ Placed(s)'
  BY DEF RequestInv, Placed
<1>2. TeamCurrent(s)'
  <2>1. [workspace |-> input[s].workspace, status |-> "active"] \in TeamRow /\ input[s].team \in Team
    BY SMTT(30), <1>1, InputsAreTyped DEF Placed, TeamRow, Status
  <2>2. QED
    BY <2>1, NoTeamAssumption DEF RequestInv, TeamCurrent, Activates
<1>3. MemberCurrent(s)' /\ UserCurrent(s)'
  BY DEF RequestInv, MemberCurrent, UserCurrent, Activates, tables
<1>4. RowCurrent(s)'
  BY <1>1, InputsAreTyped DEF RequestInv, RowCurrent, Placed
<1>5. QED
  BY <1>1, <1>2, <1>3, <1>4 DEF RequestInv

\* A request that moves on without writing.
LEMMA MoveKeepsInv ==
    ASSUME TeamsInv, NEW r \in Request, NEW p \in Phase \ {"idle"}, phase[r] # "idle",
           Goto(r, p), UNCHANGED <<tables, teamTables>>,
           held' \in [Transaction -> SUBSET Lock],
           \A s \in Transaction : held[s] \subseteq held'[s],
           p \in PhasesOf(input[r].op),
           TeamCurrent(r)', MemberCurrent(r)', UserCurrent(r)', RowCurrent(r)'
    PROVE  TeamsInv'
<1>1. /\ phase' = [phase EXCEPT ![r] = p] /\ input' = input /\ phase'[r] = p
      /\ \A s \in Request \ {r} : phase'[s] = phase[s]
      /\ UNCHANGED <<userStatus, tenant, membership, team, teamMember>>
  BY DEF TeamsInv, TeamsTypeOK, Goto, tables, teamTables
<1>2. TeamsTypeOK'
  BY <1>1 DEF TeamsInv, TeamsTypeOK
<1>3. RequestInv(r)'
  BY <1>1 DEF TeamsInv, RequestInv, Placed
<1>4. \A s \in Request \ {r} : RequestInv(s)'
  BY <1>1, OthersUndisturbed, RequestAssumption DEF TeamsInv
<1>5. \A s \in Request : phase'[s] # "idle" <=> phase[s] # "idle"
  BY <1>1
<1>6. \A s \in Request : phase'[s] # "idle" => IdFresh(s)'
  BY <1>1, <1>5 DEF TeamsInv, IdFresh
<1>7. QED
  BY <1>2, <1>3, <1>4, <1>6 DEF TeamsInv

\* A request that ends, and may have written a team or a team membership.
LEMMA FinishKeepsInv ==
    ASSUME TeamsInv, NEW r \in Request, Finish(r), UNCHANGED tables,
           team' \in [Team -> TeamRow \cup {None}],
           teamMember' \in [Team -> [Member -> Status \cup {None}]],
           \A s \in Request \ {r} : RequestInv(s)',
           \A s \in Request \ {r} : phase[s] # "idle" /\ input[s].op = "create" =>
              team'[input[s].team] = None
    PROVE  TeamsInv'
<1>1. /\ phase' = [phase EXCEPT ![r] = "idle"] /\ input' = [input EXCEPT ![r] = None]
      /\ held' = [held EXCEPT ![r] = {}] /\ phase'[r] = "idle"
      /\ \A s \in Request \ {r} : phase'[s] = phase[s] /\ input'[s] = input[s]
      /\ UNCHANGED <<userStatus, tenant, membership>>
  BY DEF TeamsInv, TeamsTypeOK, Finish, Release, tables
<1>2. TeamsTypeOK'
  BY <1>1, RequestAssumption DEF TeamsInv, TeamsTypeOK, Phase
<1>3. \A s \in Request : RequestInv(s)'
  BY <1>1 DEF RequestInv
<1>4. \A s \in Request : phase'[s] # "idle" => IdFresh(s)'
  BY <1>1 DEF TeamsInv, IdFresh
<1>5. QED
  BY <1>2, <1>3, <1>4 DEF TeamsInv

\* The requests that do not end keep their locks.
LEMMA FinishedAlone ==
    ASSUME TeamsInv, NEW r \in Request, Finish(r), NEW s \in Request \ {r}
    PROVE  phase'[s] = phase[s] /\ input'[s] = input[s] /\ held'[s] = held[s] /\ s \in Transaction
  BY RequestAssumption DEF TeamsInv, TeamsTypeOK, Finish, Release

LEMMA RejectKeepsInv ==
    ASSUME TeamsInv, NEW r \in Request, Reject(r)
    PROVE  TeamsInv'
<1>1. Finish(r) /\ UNCHANGED <<tables, team, teamMember>>
  BY DEF Reject, teamTables
<1>2. \A s \in Request \ {r} : RequestInv(s)'
  BY <1>1, FinishedAlone, OthersUndisturbed DEF TeamsInv
<1>3. QED
  BY <1>1, <1>2, FinishKeepsInv DEF TeamsInv, TeamsTypeOK, IdFresh

LEMMA ResolveAccessKeepsInv ==
    ASSUME TeamsInv, NEW r \in Request, ResolveAccess(r)
    PROVE  TeamsInv'
<1>1. PICK in \in Input : /\ phase[r] = "idle" /\ WellFormed(in)
                         /\ phase' = [phase EXCEPT ![r] = "resolved"]
                         /\ input' = [input EXCEPT ![r] = in]
  BY DEF ResolveAccess
<1>2. UNCHANGED <<tables, userStatus, tenant, membership, team, teamMember, held>>
  BY DEF ResolveAccess, tables, teamTables
<1>3. /\ phase'[r] = "resolved" /\ input'[r] = in
      /\ \A s \in Request \ {r} : phase'[s] = phase[s] /\ input'[s] = input[s]
  BY <1>1 DEF TeamsInv, TeamsTypeOK
<1>4. TeamsTypeOK'
  BY <1>1, <1>2 DEF TeamsInv, TeamsTypeOK, Phase
<1>5. RequestInv(r)'
  <2>1. "resolved" \in PhasesOf(in.op)
    BY InputsAreTyped DEF PhasesOf
  <2>2. QED
    BY <1>3, <2>1 DEF RequestInv, Placed, TeamCurrent, MemberCurrent, UserCurrent, RowCurrent
<1>6. \A s \in Request \ {r} : RequestInv(s)'
  BY <1>2, <1>3, OthersUndisturbed DEF TeamsInv
<1>7. \A s \in Request : phase'[s] # "idle" => IdFresh(s)'
  <2>1. in.op = "create" =>
           /\ team[in.team] = None
           /\ \A s \in Request : phase[s] # "idle" => input[s].team # in.team
    BY <1>1 DEF WellFormed
  <2>2. IdFresh(r)'
    BY <1>2, <1>3, <2>1 DEF IdFresh
  <2>3. \A s \in Request \ {r} : phase[s] # "idle" => IdFresh(s)'
    BY <1>2, <1>3, <2>1 DEF TeamsInv, IdFresh
  <2>4. QED
    BY <1>3, <2>2, <2>3
<1>8. QED
  BY <1>4, <1>5, <1>6, <1>7 DEF TeamsInv

LEMMA InsertTeamKeepsInv ==
    ASSUME TeamsInv, NEW r \in Request, InsertTeam(r)
    PROVE  TeamsInv'
<1> DEFINE in == input[r]
           row == [workspace |-> in.workspace, status |-> "active"]
<1>1. phase[r] = "resolved" /\ in.op = "create" /\ in \in Input
  BY DEF InsertTeam, TeamsInv, RequestInv, Placed
<1>2. in.team \in Team /\ row \in TeamRow /\ team[in.team] = None
  BY <1>1, InputsAreTyped DEF TeamsInv, IdFresh, TeamRow, Status
<1>3. CASE Reject(r)
  BY <1>3, RejectKeepsInv
<1>4. CASE team' = [team EXCEPT ![in.team] = row] /\ Finish(r) /\ UNCHANGED <<tables, teamMember>>
  <2>1. team' \in [Team -> TeamRow \cup {None}]
    BY <1>2, <1>4 DEF TeamsInv, TeamsTypeOK
  <2>2. \A t \in Team : team[t] # None => team'[t] = team[t]
    BY <1>2, <1>4 DEF TeamsInv, TeamsTypeOK
  <2>3. \A s \in Request \ {r} : RequestInv(s)'
    BY <1>4, <2>2, FinishedAlone, OthersUndisturbed DEF TeamsInv
  <2>4. \A s \in Request \ {r} : phase[s] # "idle" /\ input[s].op = "create" =>
           team'[input[s].team] = None
    <3>1. ASSUME NEW s \in Request \ {r}, phase[s] # "idle", input[s].op = "create"
          PROVE  team'[input[s].team] = None
      <4>1. IdFresh(s) /\ input[s].team \in Team
        BY <3>1, InputsAreTyped DEF TeamsInv, RequestInv, Placed
      <4>2. input[s].team # in.team
        BY <1>1, <3>1, <4>1 DEF IdFresh
      <4>3. QED
        BY <1>4, <3>1, <4>1, <4>2 DEF TeamsInv, TeamsTypeOK, IdFresh
    <3>2. QED
      BY <3>1
  <2>5. QED
    BY <1>4, <2>1, <2>3, <2>4, FinishKeepsInv DEF TeamsInv, TeamsTypeOK
<1>5. QED
  BY <1>3, <1>4 DEF InsertTeam

LEMMA UpdateTeamKeepsInv ==
    ASSUME TeamsInv, NEW r \in Request, UpdateTeam(r)
    PROVE  TeamsInv'
<1> DEFINE in == input[r]
           status == IF in.status = None THEN team[in.team].status ELSE in.status
<1>1. phase[r] = "resolved" /\ in.op = "patch" /\ in \in Input
  BY SMTT(30) DEF UpdateTeam, TeamsInv, RequestInv, Placed
<1>2. CASE Reject(r)
  BY <1>2, RejectKeepsInv
<1>3. CASE /\ TargetTeam(in) # None
           /\ Unlocked(TeamKey(in.team), IF in.rename THEN Update ELSE NoKeyUpdate,
                       Transaction \ {r})
           /\ team' = [team EXCEPT ![in.team].status = status]
           /\ Finish(r)
           /\ UNCHANGED <<tables, teamMember>>
  <2>1. in.team \in Team /\ team[in.team] # None /\ team[in.team] \in TeamRow
    BY <1>1, <1>3, InputsAreTyped DEF TargetTeam, TeamsInv, TeamsTypeOK
  <2>2. status \in Status
    BY <1>1, <2>1, InputsAreTyped DEF TeamRow
  <2>3. team' \in [Team -> TeamRow \cup {None}]
    BY <1>3, <2>1, <2>2 DEF TeamsInv, TeamsTypeOK, TeamRow
  <2>4. \A t \in Team \ {in.team} : team'[t] = team[t]
    BY <1>3 DEF TeamsInv, TeamsTypeOK
  <2>5. \A s \in Transaction \ {r} : <<TeamKey(in.team), Share>> \notin held[s]
    BY <1>3, SharedAgainstWriters
  <2>6. ASSUME NEW s \in Request \ {r} PROVE RequestInv(s)'
    <3>1. phase'[s] = phase[s] /\ input'[s] = input[s] /\ held'[s] = held[s] /\ s \in Transaction
      BY <1>3, FinishedAlone
    <3>2. SUFFICES ASSUME phase[s] # "idle" PROVE RequestInv(s)'
      BY <3>1 DEF RequestInv
    <3>3. RequestInv(s) /\ input[s] \in Input /\ Placed(s)'
      BY <3>1, <3>2 DEF TeamsInv, RequestInv, Placed
    <3>4. TeamCurrent(s)'
      <4>1. Activates(s) /\ phase[s] # "resolved" => input[s].team # in.team
        BY SMTT(30), <2>5, <3>1, <3>2, <3>3 DEF RequestInv, TeamCurrent
      <4>2. QED
        BY <2>4, <3>1, <3>2, <3>3, <4>1, InputsAreTyped DEF RequestInv, TeamCurrent, Activates
    <3>5. MemberCurrent(s)' /\ UserCurrent(s)' /\ RowCurrent(s)'
      BY <1>3, <3>1, <3>2, <3>3
         DEF RequestInv, MemberCurrent, UserCurrent, RowCurrent, Activates, tables
    <3>6. QED
      BY <3>3, <3>4, <3>5 DEF RequestInv
  <2>7. \A s \in Request \ {r} : phase[s] # "idle" /\ input[s].op = "create" =>
           team'[input[s].team] = None
    BY <2>1, <2>4, InputsAreTyped DEF TeamsInv, RequestInv, Placed, IdFresh
  <2>8. QED
    BY <1>3, <2>3, <2>6, <2>7, FinishKeepsInv DEF TeamsInv, TeamsTypeOK
<1>4. QED
  BY <1>2, <1>3 DEF UpdateTeam

-----------------------------------------------------------------------------
(* The statements of an added member, an activation and a deactivation      *)

LEMMA FindTeamForActivationKeepsInv ==
    ASSUME TeamsInv, NEW r \in Request, FindTeamForActivation(r)
    PROVE  TeamsInv'
<1> DEFINE in == input[r]
<1>1. CASE Reject(r)
  BY <1>1, RejectKeepsInv
<1>2. CASE /\ TargetTeam(in) # None /\ TargetTeam(in).status = "active"
           /\ Acquire(r, TeamKey(in.team), Share) /\ Goto(r, "teamLocked")
           /\ UNCHANGED <<tables, teamTables>>
  <2>1. phase[r] = "resolved" /\ in.op \in {"add", "activate"} /\ in \in Input /\ in.team \in Team
    BY InputsAreTyped DEF FindTeamForActivation, TeamsInv, RequestInv, Placed
  <2>2. /\ held' \in [Transaction -> SUBSET Lock] /\ <<TeamKey(in.team), Share>> \in held'[r]
        /\ \A s \in Transaction : held[s] \subseteq held'[s]
    BY <1>2, <2>1, AcquireAdds, KeysAreRows DEF TeamsInv
  <2>3. team[in.team] = [workspace |-> in.workspace, status |-> "active"]
    <3>1. team[in.team] \in TeamRow /\ team[in.team].workspace = in.workspace
            /\ team[in.team].status = "active"
      BY <1>2, <2>1 DEF TargetTeam, TeamsInv, TeamsTypeOK
    <3>2. QED
      BY <3>1 DEF TeamRow
  <2>4. phase'[r] = "teamLocked" /\ input' = input /\ team' = team
    BY <1>2 DEF Goto, TeamsInv, TeamsTypeOK, teamTables
  <2>5. TeamCurrent(r)' /\ MemberCurrent(r)' /\ UserCurrent(r)' /\ RowCurrent(r)'
    BY <2>2, <2>3, <2>4 DEF TeamCurrent, MemberCurrent, UserCurrent, RowCurrent
  <2>6. "teamLocked" \in PhasesOf(in.op) /\ "teamLocked" \in Phase \ {"idle"}
    BY <2>1 DEF PhasesOf, Phase
  <2>7. QED
    BY <1>2, <2>1, <2>2, <2>5, <2>6, MoveKeepsInv
<1>3. QED
  BY <1>1, <1>2 DEF FindTeamForActivation

LEMMA FindTeamKeepsInv ==
    ASSUME TeamsInv, NEW r \in Request, FindTeam(r)
    PROVE  TeamsInv'
<1>1. CASE Reject(r)
  BY <1>1, RejectKeepsInv
<1>2. CASE Goto(r, "teamFound") /\ UNCHANGED <<tables, teamTables, held>>
  <2>1. phase[r] = "resolved" /\ input[r].op = "deactivate"
    BY DEF FindTeam
  <2>2. phase'[r] = "teamFound" /\ input' = input
    BY <1>2 DEF Goto, TeamsInv, TeamsTypeOK
  <2>3. TeamCurrent(r)' /\ MemberCurrent(r)' /\ UserCurrent(r)' /\ RowCurrent(r)'
    BY <2>1, <2>2 DEF TeamCurrent, MemberCurrent, UserCurrent, RowCurrent, Activates
  <2>4. "teamFound" \in PhasesOf(input[r].op) /\ "teamFound" \in Phase \ {"idle"}
    BY <2>1 DEF PhasesOf, Phase
  <2>5. held' \in [Transaction -> SUBSET Lock] /\ \A s \in Transaction : held[s] \subseteq held'[s]
    BY <1>2 DEF TeamsInv, TeamsTypeOK
  <2>6. QED
    BY <1>2, <2>1, <2>3, <2>4, <2>5, MoveKeepsInv
<1>3. QED
  BY <1>1, <1>2 DEF FindTeam

LEMMA FindTeamMembershipKeepsInv ==
    ASSUME TeamsInv, NEW r \in Request, FindTeamMembership(r)
    PROVE  TeamsInv'
<1> DEFINE in == input[r]
<1>1. CASE Reject(r)
  BY <1>1, RejectKeepsInv
<1>2. CASE TargetRow(in) # None /\ Goto(r, "rowFound") /\ UNCHANGED <<tables, teamTables, held>>
  <2>1. /\ phase[r] # "idle" /\ in \in Input /\ RequestInv(r)
        /\ \/ phase[r] = "teamLocked" /\ in.op = "activate"
           \/ phase[r] = "teamFound" /\ in.op = "deactivate"
    <3>1. /\ phase[r] # "idle" /\ in \in Input /\ RequestInv(r) /\ phase[r] \in PhasesOf(in.op)
          /\ (phase[r] = "teamLocked" /\ in.op = "activate") \/ phase[r] = "teamFound"
      BY DEF FindTeamMembership, TeamsInv, RequestInv, Placed
    <3>2. QED
      BY <3>1, InputsAreTyped DEF PhasesOf
  <2>2. phase'[r] = "rowFound" /\ UNCHANGED <<input, held, team, teamMember>>
    BY <1>2 DEF Goto, TeamsInv, TeamsTypeOK, teamTables
  <2>3. RowCurrent(r)'
    BY <1>2, <2>2 DEF RowCurrent, TargetRow
  <2>4. TeamCurrent(r)'
    BY <2>1, <2>2 DEF RequestInv, TeamCurrent, Activates
  <2>5. MemberCurrent(r)' /\ UserCurrent(r)'
    BY <2>2 DEF MemberCurrent, UserCurrent
  <2>6. "rowFound" \in PhasesOf(in.op) /\ "rowFound" \in Phase \ {"idle"}
    BY <2>1 DEF PhasesOf, Phase
  <2>7. held' \in [Transaction -> SUBSET Lock] /\ \A s \in Transaction : held[s] \subseteq held'[s]
    BY <1>2 DEF TeamsInv, TeamsTypeOK
  <2>8. QED
    BY <1>2, <2>1, <2>3, <2>4, <2>5, <2>6, <2>7, MoveKeepsInv
<1>3. QED
  BY <1>1, <1>2 DEF FindTeamMembership

LEMMA LockMemberKeepsInv ==
    ASSUME TeamsInv, NEW r \in Request, LockMember(r)
    PROVE  TeamsInv'
<1> DEFINE in == input[r]
           m == in.member
<1>1. CASE Reject(r)
  BY <1>1, RejectKeepsInv
<1>2. CASE /\ m[1] = in.workspace /\ ActiveMember(m)
           /\ Acquire(r, MembershipKey(m[1], m[2]), Share)
           /\ Goto(r, "memberLocked") /\ UNCHANGED <<tables, teamTables>>
  <2>1. /\ phase[r] \in {"teamLocked", "rowFound"} /\ in.op \in {"add", "activate"}
        /\ in \in Input /\ RequestInv(r) /\ m \in Member
        /\ in.op = "activate" => phase[r] = "rowFound"
    BY InputsAreTyped DEF LockMember, TeamsInv, RequestInv, Placed
  <2>2. /\ held' \in [Transaction -> SUBSET Lock]
        /\ <<MembershipKey(m[1], m[2]), Share>> \in held'[r]
        /\ \A s \in Transaction : held[s] \subseteq held'[s]
    BY <1>2, <2>1, AcquireAdds, KeysAreRows DEF TeamsInv
  <2>3. phase'[r] = "memberLocked" /\ UNCHANGED <<input, team, teamMember, membership>>
    BY <1>2 DEF Goto, TeamsInv, TeamsTypeOK, teamTables, tables
  <2>4. TeamCurrent(r)' /\ RowCurrent(r)'
    BY SMTT(30), <2>1, <2>2, <2>3, RequestAssumption
       DEF RequestInv, TeamCurrent, RowCurrent, Activates
  <2>5. MemberCurrent(r)' /\ UserCurrent(r)'
    BY <1>2, <2>2, <2>3 DEF MemberCurrent, UserCurrent, ActiveMember
  <2>6. "memberLocked" \in PhasesOf(in.op) /\ "memberLocked" \in Phase \ {"idle"}
    BY <2>1 DEF PhasesOf, Phase
  <2>7. QED
    BY <1>2, <2>1, <2>2, <2>4, <2>5, <2>6, MoveKeepsInv
<1>3. QED
  BY <1>1, <1>2 DEF LockMember

LEMMA LockUserKeepsInv ==
    ASSUME TeamsInv, NEW r \in Request, LockUser(r)
    PROVE  TeamsInv'
<1> DEFINE in == input[r]
           m == in.member
<1>1. CASE Reject(r)
  BY <1>1, RejectKeepsInv
<1>2. CASE /\ ActiveMember(m) /\ Acquire(r, UserKey(m[2]), Share)
           /\ Goto(r, "eligible") /\ UNCHANGED <<tables, teamTables>>
  <2>1. phase[r] = "memberLocked" /\ in \in Input /\ RequestInv(r) /\ phase[r] \in PhasesOf(in.op)
    BY DEF LockUser, TeamsInv, RequestInv, Placed
  <2>2. in.op \in {"add", "activate"} /\ m \in Member
    BY <2>1, InputsAreTyped DEF PhasesOf
  <2>3. /\ held' \in [Transaction -> SUBSET Lock] /\ <<UserKey(m[2]), Share>> \in held'[r]
        /\ \A s \in Transaction : held[s] \subseteq held'[s]
    BY <1>2, <2>2, AcquireAdds, KeysAreRows DEF TeamsInv
  <2>4. phase'[r] = "eligible" /\ UNCHANGED <<input, team, teamMember, membership, userStatus>>
    BY SMTT(30), <1>2 DEF Goto, TeamsInv, TeamsTypeOK, teamTables, tables
  <2>5. TeamCurrent(r)' /\ RowCurrent(r)' /\ MemberCurrent(r)'
    BY <2>1, <2>3, <2>4, RequestAssumption
       DEF RequestInv, TeamCurrent, RowCurrent, MemberCurrent, Activates
  <2>6. UserCurrent(r)'
    BY <1>2, <2>3, <2>4 DEF UserCurrent, ActiveMember
  <2>7. "eligible" \in PhasesOf(in.op) /\ "eligible" \in Phase \ {"idle"}
    BY <2>2 DEF PhasesOf, Phase
  <2>8. QED
    BY <1>2, <2>1, <2>3, <2>5, <2>6, <2>7, MoveKeepsInv
<1>3. QED
  BY <1>1, <1>2 DEF LockUser, OtherRowOfJoin

LEMMA InsertTeamMembershipKeepsInv ==
    ASSUME TeamsInv, NEW r \in Request, InsertTeamMembership(r)
    PROVE  TeamsInv'
<1>1. CASE Reject(r)
  BY <1>1, RejectKeepsInv
<1>2. CASE Goto(r, "written") /\ UNCHANGED <<tables, teamTables, held>>
  <2>1. phase[r] = "eligible" /\ input[r].op = "add" /\ RequestInv(r)
    BY DEF InsertTeamMembership, TeamsInv
  <2>2. phase'[r] = "written" /\ UNCHANGED <<input, held, team, teamMember, membership, userStatus>>
    BY SMTT(30), <1>2 DEF Goto, TeamsInv, TeamsTypeOK, teamTables, tables
  <2>3. TeamCurrent(r)' /\ MemberCurrent(r)' /\ UserCurrent(r)' /\ RowCurrent(r)'
    BY <2>1, <2>2 DEF RequestInv, TeamCurrent, MemberCurrent, UserCurrent, RowCurrent, Activates
  <2>4. "written" \in PhasesOf(input[r].op) /\ "written" \in Phase \ {"idle"}
    BY <2>1 DEF PhasesOf, Phase
  <2>5. held' \in [Transaction -> SUBSET Lock] /\ \A s \in Transaction : held[s] \subseteq held'[s]
    BY <1>2 DEF TeamsInv, TeamsTypeOK
  <2>6. QED
    BY <1>2, <2>1, <2>3, <2>4, <2>5, MoveKeepsInv
<1>3. QED
  BY <1>1, <1>2 DEF InsertTeamMembership

LEMMA UpdateTeamMembershipKeepsInv ==
    ASSUME TeamsInv, NEW r \in Request, UpdateTeamMembership(r)
    PROVE  TeamsInv'
<1> DEFINE in == input[r]
           m == in.member
<1>1. /\ in.op \in {"activate", "deactivate"} /\ phase[r] \in {"eligible", "rowFound"}
      /\ in.op = "activate" => phase[r] = "eligible"
      /\ in \in Input /\ RequestInv(r) /\ m \in Member /\ in.home \in Team
      /\ Acquire(r, TeamMembershipKey(in.home, m[1], m[2]), NoKeyUpdate)
      /\ Goto(r, "written") /\ UNCHANGED <<tables, teamTables>>
  BY InputsAreTyped DEF UpdateTeamMembership, TeamsInv, RequestInv, Placed
<1>2. /\ held' \in [Transaction -> SUBSET Lock] /\ \A s \in Transaction : held[s] \subseteq held'[s]
  BY <1>1, AcquireAdds, KeysAreRows DEF TeamsInv
<1>3. phase'[r] = "written" /\ UNCHANGED <<input, team, teamMember, membership, userStatus>>
  BY <1>1 DEF Goto, TeamsInv, TeamsTypeOK, teamTables, tables
<1>4. TeamCurrent(r)' /\ MemberCurrent(r)' /\ UserCurrent(r)' /\ RowCurrent(r)'
  BY <1>1, <1>2, <1>3, RequestAssumption
     DEF RequestInv, TeamCurrent, MemberCurrent, UserCurrent, RowCurrent, Activates
<1>5. "written" \in PhasesOf(in.op) /\ "written" \in Phase \ {"idle"}
  BY <1>1 DEF PhasesOf, Phase
<1>6. QED
  BY <1>1, <1>2, <1>4, <1>5, MoveKeepsInv

\* A commit writes one team membership, and that it is there stays true.
LEMMA CommitKeepsInv ==
    ASSUME TeamsInv, NEW r \in Request, CommitInsert(r) \/ CommitStatus(r)
    PROVE  TeamsInv'
<1>1. PICK t \in Team, m \in Member, status \in Status :
         teamMember' = [teamMember EXCEPT ![t][m] = status]
  <2>1. phase[r] = "written" /\ input[r] \in Input
    BY DEF CommitInsert, CommitStatus, TeamsInv, RequestInv, Placed
  <2>2. QED
    BY <2>1, InputsAreTyped DEF CommitInsert, CommitStatus, Status
<1>2. Finish(r) /\ UNCHANGED <<tables, team>>
  BY DEF CommitInsert, CommitStatus
<1>3. teamMember' \in [Team -> [Member -> Status \cup {None}]]
  BY <1>1 DEF TeamsInv, TeamsTypeOK
<1>4. status # None
  BY NoneAssumption
<1>5. \A u \in Team, n \in Member : teamMember[u][n] # None => teamMember'[u][n] # None
  BY <1>1, <1>4 DEF TeamsInv, TeamsTypeOK
<1>6. \A s \in Request \ {r} : RequestInv(s)'
  BY <1>2, <1>5, FinishedAlone, OthersUndisturbed DEF TeamsInv
<1>7. QED
  BY <1>2, <1>3, <1>6, FinishKeepsInv DEF TeamsInv, TeamsTypeOK, IdFresh

-----------------------------------------------------------------------------
(* Who writes the rows that an activation has read                          *)

LEMMA UpstreamKeepsInv ==
    ASSUME TeamsInv, Upstream
    PROVE  TeamsInv'
<1>1. /\ UNCHANGED <<team, teamMember, phase, input, held, tenant>>
      /\ \/ \E u \in User, status \in Status : SetUserStatus(u, status)
         \/ \E w \in Workspace, u \in User, row \in MembershipRow : ChangeMembership(w, u, row)
  BY DEF Upstream, teamTables, requestVars, SetUserStatus, ChangeMembership
<1>2. ASSUME NEW s \in Request, phase[s] # "idle"
      PROVE  RequestInv(s) /\ input[s] \in Input /\ s \in Transaction
  BY <1>2, RequestAssumption DEF TeamsInv, RequestInv, Placed
<1>3. \A s \in Request : phase[s] # "idle" =>
         Placed(s)' /\ TeamCurrent(s)' /\ RowCurrent(s)' /\ IdFresh(s)'
  BY SMTT(30), <1>1, <1>2
     DEF RequestInv, Placed, TeamCurrent, RowCurrent, IdFresh, Activates, TeamsInv
<1>4. ASSUME NEW u \in User, NEW status \in Status, SetUserStatus(u, status) PROVE TeamsInv'
  <2>1. userStatus' = [userStatus EXCEPT ![u] = status] /\ UNCHANGED membership
    BY <1>4 DEF SetUserStatus
  <2>2. \A s \in Transaction : <<UserKey(u), Share>> \notin held[s]
    BY <1>4, SharedAgainstWriters DEF SetUserStatus
  <2>3. TeamsTypeOK'
    BY <1>1, <2>1 DEF TeamsInv, TeamsTypeOK
  <2>4. ASSUME NEW s \in Request, phase[s] # "idle" PROVE MemberCurrent(s)' /\ UserCurrent(s)'
    <3>1. MemberCurrent(s)'
      BY <1>1, <1>2, <2>1, <2>4 DEF RequestInv, MemberCurrent, Activates
    <3>2. UserCurrent(s)'
      <4>1. SUFFICES ASSUME Activates(s), phase[s] \in {"eligible", "written"}
                     PROVE  UserCurrent(s)'
        BY <1>1 DEF UserCurrent, Activates
      <4>2. /\ <<UserKey(input[s].member[2]), Share>> \in held[s]
            /\ userStatus[input[s].member[2]] = "active"
        BY <1>2, <2>4, <4>1 DEF RequestInv, UserCurrent
      <4>3. input[s].member[2] # u
        BY <1>2, <2>2, <2>4, <4>2
      <4>4. input[s].member[2] \in User
        BY <1>2, <2>4, <4>1, InputsAreTyped DEF Activates, Member
      <4>5. QED
        BY <1>1, <2>1, <4>2, <4>3, <4>4 DEF UserCurrent, TeamsInv, TeamsTypeOK
    <3>3. QED
      BY <3>1, <3>2
  <2>5. QED
    BY <1>1, <1>3, <2>3, <2>4 DEF TeamsInv, RequestInv
<1>5. ASSUME NEW w \in Workspace, NEW u \in User, NEW row \in MembershipRow,
             ChangeMembership(w, u, row)
      PROVE  TeamsInv'
  <2>1. membership' = [membership EXCEPT ![w][u] = row] /\ UNCHANGED userStatus
    BY <1>5 DEF ChangeMembership
  <2>2. \A s \in Transaction : <<MembershipKey(w, u), Share>> \notin held[s]
    BY <1>5, SharedAgainstWriters DEF ChangeMembership
  <2>3. TeamsTypeOK'
    BY <1>1, <2>1 DEF TeamsInv, TeamsTypeOK
  <2>4. ASSUME NEW s \in Request, phase[s] # "idle" PROVE MemberCurrent(s)' /\ UserCurrent(s)'
    <3>1. UserCurrent(s)'
      BY <1>1, <1>2, <2>1, <2>4 DEF RequestInv, UserCurrent, Activates
    <3>2. MemberCurrent(s)'
      <4> DEFINE m == input[s].member
      <4>1. SUFFICES ASSUME Activates(s), phase[s] \in {"memberLocked", "eligible", "written"}
                     PROVE  MemberCurrent(s)'
        BY <1>1 DEF MemberCurrent, Activates
      <4>2. /\ <<MembershipKey(m[1], m[2]), Share>> \in held[s] /\ m[1] = input[s].workspace
            /\ membership[m[1]][m[2]] # None /\ membership[m[1]][m[2]].status = "active"
        BY <1>2, <2>4, <4>1 DEF RequestInv, MemberCurrent
      <4>3. m[1] # w \/ m[2] # u
        BY <1>2, <2>2, <2>4, <4>2
      <4>4. m[1] \in Workspace /\ m[2] \in User
        BY <1>2, <2>4, <4>1, InputsAreTyped DEF Activates, Member
      <4>5. membership'[m[1]][m[2]] = membership[m[1]][m[2]]
        BY <2>1, <4>3, <4>4 DEF TeamsInv, TeamsTypeOK
      <4>6. QED
        BY <1>1, <4>2, <4>5 DEF MemberCurrent
    <3>3. QED
      BY <3>1, <3>2
  <2>5. QED
    BY <1>1, <1>3, <2>3, <2>4 DEF TeamsInv, RequestInv
<1>6. QED
  BY <1>1, <1>4, <1>5

-----------------------------------------------------------------------------

LEMMA TeamsInvInit == TeamsInit => TeamsInv
<1> SUFFICES ASSUME TeamsInit PROVE TeamsInv
  OBVIOUS
<1>1. PICK owner \in [Workspace -> User] :
         membership = [w \in Workspace |->
                          [u \in User |-> IF u = owner[w] THEN ActiveOwner ELSE None]]
  BY DEF TeamsInit
<1>2. ActiveOwner \in MembershipRow
  BY RoleAssumption DEF ActiveOwner, MembershipRow, Status
<1>3. TeamsTypeOK
  BY <1>1, <1>2 DEF TeamsInit, NoTeams, TeamsTypeOK, Status, TenantRow, Phase
<1>4. QED
  BY <1>3 DEF TeamsInit, NoTeams, TeamsInv, RequestInv

LEMMA TeamsStepKeepsInv ==
    ASSUME TeamsInv, [TeamsNext]_teamVars
    PROVE  TeamsInv'
<1>1. CASE UNCHANGED teamVars
  BY ZenonT(60), <1>1
     DEF teamVars, TeamsInv, TeamsTypeOK, RequestInv, Placed, TeamCurrent, MemberCurrent,
              UserCurrent, RowCurrent, IdFresh, Activates
<1>2. CASE TeamsNext
  BY <1>2, UpstreamKeepsInv, ResolveAccessKeepsInv, RejectKeepsInv, InsertTeamKeepsInv,
     UpdateTeamKeepsInv, FindTeamForActivationKeepsInv, FindTeamKeepsInv,
     FindTeamMembershipKeepsInv, LockMemberKeepsInv, LockUserKeepsInv,
     InsertTeamMembershipKeepsInv, UpdateTeamMembershipKeepsInv, CommitKeepsInv
     DEF TeamsNext, RequestStep, Advance, Rollback
<1>3. QED
  BY SMTT(30), <1>1, <1>2

\* What a request has read stays as it was read until it commits, whoever else
\* is at work: for any number of users, teams, workspaces and requests.
THEOREM TeamsInvariant == TeamsSpec => []TeamsInv
  BY TeamsInvInit, TeamsStepKeepsInv, PTL DEF TeamsSpec

\* Every variable of the team service keeps its type.
THEOREM TeamsTypeCorrect == TeamsSpec => []TeamsTypeOK
<1>1. TeamsInv => TeamsTypeOK
  BY DEF TeamsInv
<1>2. QED
  BY <1>1, TeamsInvariant, PTL

-----------------------------------------------------------------------------
(* What a step of a request does to what the services share: the tables    *)
(* are not the team service's to write, and only its own locks change.     *)

LEMMA StepEffect ==
    ASSUME TeamsInv, NEW r \in Request, RequestStep(r)
    PROVE  /\ UNCHANGED <<userStatus, tenant, membership>>
           /\ \/ UNCHANGED held
              \/ Release(r)
              \/ \E row \in Row, mode \in Mode : Acquire(r, row, mode)
<1>1. ASSUME phase[r] # "idle" PROVE input[r] \in Input /\ phase[r] \in PhasesOf(input[r].op)
  BY <1>1 DEF TeamsInv, RequestInv, Placed
<1>2. CASE ResolveAccess(r) \/ FindTeam(r) \/ FindTeamMembership(r) \/ InsertTeamMembership(r)
             \/ InsertTeam(r) \/ UpdateTeam(r) \/ CommitInsert(r) \/ CommitStatus(r) \/ Rollback(r)
  BY <1>2 DEF ResolveAccess, FindTeam, FindTeamMembership, InsertTeamMembership, InsertTeam,
              UpdateTeam, CommitInsert, CommitStatus, Rollback, Reject, Finish, tables
<1>3. CASE FindTeamForActivation(r)
  <2>1. TeamKey(input[r].team) \in Row
    BY <1>1, <1>3, InputsAreTyped, KeysAreRows DEF FindTeamForActivation
  <2>2. QED
    BY <1>3, <2>1, KeysAreRows DEF FindTeamForActivation, Reject, Finish, tables
<1>4. CASE LockMember(r) \/ LockUser(r)
  <2>1. input[r].member \in Member
    BY <1>1, <1>4, InputsAreTyped DEF LockMember, LockUser, PhasesOf
  <2>2. QED
    BY <1>4, <2>1, KeysAreRows DEF LockMember, LockUser, OtherRowOfJoin, Reject, Finish, tables
<1>5. CASE UpdateTeamMembership(r)
  <2>1. input[r].home \in Team /\ input[r].member \in Member
    BY <1>1, <1>5, InputsAreTyped DEF UpdateTeamMembership
  <2>2. QED
    BY <1>5, <2>1, KeysAreRows DEF UpdateTeamMembership, tables
<1>6. QED
  BY <1>2, <1>3, <1>4, <1>5 DEF RequestStep, Advance

\* The locks a request holds are those of the statements it has run.
RequestLocks(r) ==
    LET in == input[r]
        m  == in.member
        Read(key, phases) == IF phase[r] \in phases THEN {<<key, Share>>} ELSE {}
        Written == IF phase[r] = "written"
                   THEN {<<TeamMembershipKey(in.home, m[1], m[2]), NoKeyUpdate>>} ELSE {}
    IN  IF phase[r] \in {"idle", "resolved", "teamFound"} THEN {}
        ELSE IF in.op = "deactivate" THEN Written
        ELSE {<<TeamKey(in.team), Share>>}
                \cup Read(MembershipKey(m[1], m[2]), {"memberLocked", "eligible", "written"})
                \cup Read(UserKey(m[2]), {"eligible", "written"})
                \cup (IF in.op = "activate" THEN Written ELSE {})

LEMMA OnlyItself ==
    ASSUME TeamsInv, NEW r \in Request, RequestStep(r)
    PROVE  \A s \in Request \ {r} : phase'[s] = phase[s] /\ input'[s] = input[s]
<1>1. \E p, in : phase' = [phase EXCEPT ![r] = p] /\ input' = [input EXCEPT ![r] = in]
  BY DEF RequestStep, ResolveAccess, Advance, Rollback, Reject, Finish, Goto, InsertTeam, UpdateTeam,
         FindTeamForActivation, FindTeam, FindTeamMembership, LockMember, LockUser,
         InsertTeamMembership, CommitInsert, UpdateTeamMembership, CommitStatus, TeamsInv, TeamsTypeOK
<1>2. QED
  BY <1>1 DEF TeamsInv, TeamsTypeOK

LEMMA StepLocks ==
    ASSUME TeamsInv, NEW r \in Request, RequestStep(r), held[r] = RequestLocks(r)
    PROVE  held' = [held EXCEPT ![r] = RequestLocks(r)']
<1> DEFINE in == input[r]
           m == in.member
<1>1. /\ phase[r] # "idle" => in \in Input /\ phase[r] \in PhasesOf(in.op)
      /\ r \in Transaction /\ held \in [Transaction -> SUBSET Lock]
  BY RequestAssumption DEF TeamsInv, TeamsTypeOK, RequestInv, Placed
<1>2. CASE Finish(r)
  BY <1>1, <1>2 DEF Finish, Release, RequestLocks, TeamsInv, TeamsTypeOK
<1>3. ASSUME NEW p \in Phase, Goto(r, p) PROVE phase'[r] = p /\ input' = input
  BY <1>3 DEF TeamsInv, TeamsTypeOK, Goto
<1>4. CASE ResolveAccess(r)
  <2>1. phase[r] = "idle" /\ phase'[r] = "resolved" /\ held' = held
    BY <1>4 DEF ResolveAccess, TeamsInv, TeamsTypeOK
  <2>2. QED
    BY <1>1, <2>1 DEF RequestLocks
<1>5. CASE FindTeamForActivation(r) /\ ~Finish(r)
  <2>1. /\ in.op \in {"add", "activate"} /\ phase[r] = "resolved" /\ phase'[r] = "teamLocked"
        /\ input' = input /\ held' = [held EXCEPT ![r] = @ \cup {<<TeamKey(in.team), Share>>}]
    BY <1>3, <1>5 DEF FindTeamForActivation, Reject, Acquire, Phase
  <2>2. QED
    BY <1>1, <2>1 DEF RequestLocks
<1>6. CASE FindTeam(r) /\ ~Finish(r)
  <2>1. /\ phase[r] = "resolved" /\ phase'[r] = "teamFound" /\ held' = held
    BY <1>3, <1>6 DEF FindTeam, Reject, Phase
  <2>2. QED
    BY <1>1, <2>1 DEF RequestLocks
<1>7. CASE FindTeamMembership(r) /\ ~Finish(r)
  <2>1. /\ \/ phase[r] = "teamLocked" /\ in.op = "activate"
           \/ phase[r] = "teamFound" /\ in.op = "deactivate"
        /\ phase'[r] = "rowFound" /\ held' = held /\ input' = input
    BY <1>1, <1>3, <1>7, InputsAreTyped DEF FindTeamMembership, Reject, Phase, PhasesOf
  <2>2. QED
    BY <1>1, <2>1 DEF RequestLocks
<1>8. CASE LockMember(r) /\ ~Finish(r)
  <2>1. /\ in.op \in {"add", "activate"} /\ phase[r] \in {"teamLocked", "rowFound"}
        /\ phase'[r] = "memberLocked" /\ input' = input
        /\ held' = [held EXCEPT ![r] = @ \cup {<<MembershipKey(m[1], m[2]), Share>>}]
    BY <1>3, <1>8 DEF LockMember, Reject, Acquire, Phase
  <2>2. QED
    BY <1>1, <2>1 DEF RequestLocks
<1>9. CASE LockUser(r) /\ ~Finish(r)
  <2>1. /\ in.op \in {"add", "activate"} /\ phase[r] = "memberLocked"
        /\ phase'[r] = "eligible" /\ input' = input
        /\ held' = [held EXCEPT ![r] = @ \cup {<<UserKey(m[2]), Share>>}]
    BY <1>1, <1>3, <1>9, InputsAreTyped
       DEF LockUser, OtherRowOfJoin, Reject, Acquire, Phase, PhasesOf
  <2>2. QED
    BY <1>1, <2>1 DEF RequestLocks
<1>10. CASE InsertTeamMembership(r) /\ ~Finish(r)
  <2>1. /\ in.op = "add" /\ phase[r] = "eligible" /\ phase'[r] = "written" /\ input' = input
        /\ held' = held
    BY <1>3, <1>10 DEF InsertTeamMembership, Reject, Phase
  <2>2. QED
    BY <1>1, <2>1 DEF RequestLocks
<1>11. CASE UpdateTeamMembership(r)
  <2>1. /\ \/ phase[r] = "eligible" /\ in.op = "activate"
           \/ phase[r] = "rowFound" /\ in.op = "deactivate"
        /\ phase'[r] = "written" /\ input' = input
        /\ held' = [held EXCEPT ![r] =
                       @ \cup {<<TeamMembershipKey(in.home, m[1], m[2]), NoKeyUpdate>>}]
    BY <1>3, <1>11 DEF UpdateTeamMembership, Acquire, Phase
  <2>2. QED
    BY <1>1, <2>1 DEF RequestLocks
<1>12. CASE InsertTeam(r) \/ UpdateTeam(r) \/ CommitInsert(r) \/ CommitStatus(r) \/ Rollback(r)
  BY <1>2, <1>12 DEF InsertTeam, UpdateTeam, CommitInsert, CommitStatus, Rollback, Reject
<1>13. QED
  BY <1>2, <1>4, <1>5, <1>6, <1>7, <1>8, <1>9, <1>10, <1>11, <1>12 DEF RequestStep, Advance

\* How many statements a request has still to run, at most.
StatementsLeft(p) ==
    CASE p = "idle"         -> 0
      [] p = "written"      -> 1
      [] p = "eligible"     -> 2
      [] p = "memberLocked" -> 3
      [] p = "rowFound"     -> 4
      [] p \in {"teamLocked", "teamFound"} -> 5
      [] p = "resolved"     -> 6

\* A request begins, or one that is open comes closer to its end and does not
\* forget what it was asked.
StatementRuns(r) ==
    \/ phase[r] = "idle" /\ phase'[r] = "resolved"
    \/ /\ StatementsLeft(phase'[r]) < StatementsLeft(phase[r])
       /\ phase'[r] # "idle" => input'[r] = input[r]

LEMMA StepRunsStatement ==
    ASSUME TeamsInv, NEW r \in Request, RequestStep(r)
    PROVE  StatementRuns(r)
<1>1. /\ phase[r] # "idle" => input[r] \in Input /\ phase[r] \in PhasesOf(input[r].op)
      /\ phase[r] \in Phase
  BY DEF TeamsInv, TeamsTypeOK, RequestInv, Placed
<1>2. ASSUME NEW p \in Phase, Goto(r, p) PROVE phase'[r] = p /\ input'[r] = input[r]
  BY <1>2 DEF TeamsInv, TeamsTypeOK, Goto
<1>3. CASE phase[r] # "idle" /\ Finish(r)
  <2>1. phase'[r] = "idle"
    BY <1>3 DEF Finish, TeamsInv, TeamsTypeOK
  <2>2. QED
    BY <1>1, <1>3, <2>1 DEF StatementRuns, StatementsLeft, Phase
<1>4. CASE ResolveAccess(r)
  BY <1>4 DEF ResolveAccess, StatementRuns, TeamsInv, TeamsTypeOK
<1>5. CASE ~Finish(r) /\ (FindTeamForActivation(r) \/ FindTeam(r))
  <2>1. /\ phase[r] = "resolved" /\ phase'[r] \in {"teamLocked", "teamFound"}
        /\ input'[r] = input[r]
    BY <1>2, <1>5 DEF FindTeamForActivation, FindTeam, Reject, Phase
  <2>2. QED
    BY <2>1 DEF StatementRuns, StatementsLeft
<1>6. CASE ~Finish(r) /\ FindTeamMembership(r)
  <2>1. /\ phase[r] \in {"teamLocked", "teamFound"} /\ phase'[r] = "rowFound"
        /\ input'[r] = input[r]
    BY <1>2, <1>6 DEF FindTeamMembership, Reject, Phase
  <2>2. QED
    BY <2>1 DEF StatementRuns, StatementsLeft
<1>7. CASE ~Finish(r) /\ (LockMember(r) \/ LockUser(r))
  <2>1. /\ \/ phase[r] \in {"teamLocked", "rowFound"} /\ phase'[r] = "memberLocked"
           \/ phase[r] = "memberLocked" /\ phase'[r] = "eligible"
        /\ input'[r] = input[r]
    BY <1>2, <1>7 DEF LockMember, LockUser, Reject, Phase
  <2>2. QED
    BY <2>1 DEF StatementRuns, StatementsLeft
<1>8. CASE ~Finish(r) /\ (InsertTeamMembership(r) \/ UpdateTeamMembership(r))
  <2>1. /\ phase[r] \in {"eligible", "rowFound"} /\ phase'[r] = "written"
        /\ input'[r] = input[r]
    BY <1>2, <1>8 DEF InsertTeamMembership, UpdateTeamMembership, Reject, Phase
  <2>2. QED
    BY <2>1 DEF StatementRuns, StatementsLeft
<1>9. CASE Finish(r) /\ ~ResolveAccess(r)
  <2>1. phase[r] # "idle"
    BY <1>9 DEF RequestStep, Advance, Rollback, InsertTeam, UpdateTeam, FindTeamForActivation,
                FindTeam, FindTeamMembership, LockMember, LockUser, InsertTeamMembership,
                CommitInsert, UpdateTeamMembership, CommitStatus
  <2>2. QED
    BY <1>3, <1>9, <2>1
<1>10. CASE InsertTeam(r) \/ UpdateTeam(r) \/ CommitInsert(r) \/ CommitStatus(r) \/ Rollback(r)
  <2>1. Finish(r) /\ phase[r] # "idle"
    BY <1>10 DEF InsertTeam, UpdateTeam, CommitInsert, CommitStatus, Rollback, Reject
  <2>2. QED
    BY <1>3, <2>1
<1>11. QED
  BY <1>4, <1>5, <1>6, <1>7, <1>8, <1>9, <1>10 DEF RequestStep, Advance

-----------------------------------------------------------------------------
(* The rules                                                                *)

\* Only four statements write a team or a team membership.
LEMMA WriteIsRule ==
    ASSUME TeamsInv, NEW r \in Request,
           InsertTeam(r) \/ UpdateTeam(r) \/ CommitInsert(r) \/ CommitStatus(r)
    PROVE  Rules!Next
<1> DEFINE in == input[r]
           m == in.member
<1>1. phase[r] # "idle" /\ RequestInv(r) /\ in \in Input
  BY DEF InsertTeam, UpdateTeam, CommitInsert, CommitStatus, TeamsInv, RequestInv, Placed
<1>2. in.team \in Team /\ in.workspace \in Workspace
  BY <1>1, InputsAreTyped
<1>3. CASE UNCHANGED <<team, teamMember>>
  BY <1>3 DEF Rules!Next
<1>4. CASE InsertTeam(r) /\ ~UNCHANGED <<team, teamMember>>
  <2>1. team[in.team] = None
    BY <1>1, <1>4 DEF InsertTeam, TeamsInv, IdFresh
  <2>2. Rules!PutTeam(in.team, in.workspace, "active")
    BY <1>4, <2>1
       DEF InsertTeam, Reject, teamTables, tables, Rules!PutTeam, Rules!upstream
  <2>3. QED
    BY <1>2, <2>2 DEF Rules!Next, Rules!Status
<1>5. CASE UpdateTeam(r) /\ ~UNCHANGED <<team, teamMember>>
  <2> DEFINE status == IF in.status = None THEN team[in.team].status ELSE in.status
  <2>1. /\ in.op = "patch" /\ TargetTeam(in) # None
        /\ team' = [team EXCEPT ![in.team].status = status]
        /\ UNCHANGED <<userStatus, tenant, membership, teamMember>>
    BY <1>5 DEF UpdateTeam, Reject, teamTables, tables
  <2>2. team[in.team] \in TeamRow /\ team[in.team].workspace = in.workspace
    BY <1>2, <2>1 DEF TargetTeam, TeamsInv, TeamsTypeOK
  <2>3. status \in Rules!Status
    BY <1>1, <2>1, <2>2, InputsAreTyped DEF TeamRow, Status, Rules!Status
  <2>4. [team[in.team] EXCEPT !.status = status] = [workspace |-> in.workspace, status |-> status]
    BY <2>2 DEF TeamRow
  <2>5. Rules!PutTeam(in.team, in.workspace, status)
    BY <1>2, <2>1, <2>2, <2>4 DEF Rules!PutTeam, Rules!upstream, TeamsInv, TeamsTypeOK
  <2>6. QED
    BY <1>2, <2>3, <2>5 DEF Rules!Next
<1>6. CASE CommitInsert(r) \/ (CommitStatus(r) /\ in.op = "activate")
  <2>1. /\ phase[r] = "written" /\ Activates(r) /\ m \in Member
        /\ in.op = "activate" => in.home = in.team
        /\ TeamCurrent(r) /\ MemberCurrent(r) /\ UserCurrent(r)
    BY <1>1, <1>6, InputsAreTyped
       DEF CommitInsert, CommitStatus, Activates, RequestInv, RowCurrent
  <2>2. /\ teamMember' = [teamMember EXCEPT ![in.team][m] = "active"]
        /\ UNCHANGED <<userStatus, tenant, membership, team>>
    BY <1>6, <2>1 DEF CommitInsert, CommitStatus, tables
  <2>3. m[1] \in Workspace /\ m[2] \in User /\ m = <<m[1], m[2]>>
    BY <2>1 DEF Member
  <2>4. /\ team[in.team] = [workspace |-> m[1], status |-> "active"]
        /\ membership[m[1]][m[2]] # None /\ membership[m[1]][m[2]].status = "active"
        /\ userStatus[m[2]] = "active"
    BY <2>1 DEF TeamCurrent, MemberCurrent, UserCurrent
  <2>5. Rules!Activate(in.team, m[1], m[2])
    BY <2>2, <2>3, <2>4 DEF Rules!Activate, Rules!Eligible, Rules!upstream
  <2>6. QED
    BY <1>2, <2>3, <2>5 DEF Rules!Next
<1>7. CASE CommitStatus(r) /\ in.op # "activate"
  <2>1. in.op = "deactivate" /\ phase[r] = "written" /\ m \in Member
    BY <1>1, <1>7, InputsAreTyped DEF CommitStatus
  <2>2. in.home = in.team /\ teamMember[in.team][m] # None
    BY <1>1, <2>1 DEF RequestInv, RowCurrent
  <2>3. /\ teamMember' = [teamMember EXCEPT ![in.team][m] = "disabled"]
        /\ UNCHANGED <<userStatus, tenant, membership, team>>
    BY <1>7, <2>1, <2>2 DEF CommitStatus, tables
  <2>4. m[1] \in Workspace /\ m[2] \in User /\ m = <<m[1], m[2]>>
    BY <2>1 DEF Member
  <2>5. Rules!Deactivate(in.team, m[1], m[2])
    BY <2>2, <2>3, <2>4 DEF Rules!Deactivate, Rules!upstream
  <2>6. QED
    BY <1>2, <2>4, <2>5 DEF Rules!Next
<1>8. QED
  BY <1>3, <1>4, <1>5, <1>6, <1>7

LEMMA TeamsStepIsRule ==
    ASSUME TeamsInv, [TeamsNext]_teamVars
    PROVE  [Rules!Next]_(Rules!tables)
<1>1. CASE UNCHANGED <<team, teamMember>>
  BY <1>1 DEF Rules!Next
<1>2. CASE ~UNCHANGED <<team, teamMember>>
  <2>1. PICK r \in Request : RequestStep(r)
    BY <1>2 DEF teamVars, TeamsNext, Upstream, teamTables
  <2>2. InsertTeam(r) \/ UpdateTeam(r) \/ CommitInsert(r) \/ CommitStatus(r)
    BY <1>2, <2>1
       DEF RequestStep, ResolveAccess, Advance, Rollback, Reject, teamTables,
           FindTeamForActivation, FindTeam, FindTeamMembership, LockMember, LockUser,
           InsertTeamMembership, UpdateTeamMembership
  <2>3. QED
    BY <2>2, WriteIsRule
<1>3. QED
  BY <1>1, <1>2

\* The team service keeps its rules: a team membership becomes active only in a
\* step at which its team, its workspace membership and its user are active.
THEOREM TeamsImplementRules == TeamsSpec => ImplementsTeamRules
<1>1. TeamsInit => /\ team = [t \in Team |-> None]
                   /\ teamMember = [t \in Team |-> [m \in Workspace \X User |-> None]]
  BY DEF TeamsInit, NoTeams, Member
<1>2. TeamsInv /\ [TeamsNext]_teamVars => [Rules!Next]_(Rules!tables)
  BY TeamsStepIsRule
<1>3. QED
  BY <1>1, <1>2, TeamsInvariant, PTL DEF TeamsSpec, ImplementsTeamRules, Rules!Spec

-----------------------------------------------------------------------------
(* Tenants stay apart                                                       *)

\* A team membership is of a team and a workspace membership that both exist
\* and lie in the same workspace.
TeamMembersBelong ==
    \A t \in Team, w \in Workspace, u \in User :
       teamMember[t][<<w, u>>] # None =>
          /\ team[t] # None /\ team[t].workspace = w
          /\ membership[w][u] # None

MembershipsStay ==
    \A w \in Workspace, u \in User : membership[w][u] # None => membership'[w][u] # None

\* A team stays in its workspace, and its members stay on record.
TeamRowsStay ==
    /\ \A t \in Team : team[t] # None => team'[t] # None /\ team'[t].workspace = team[t].workspace
    /\ \A t \in Team, m \in Member : teamMember[t][m] # None => teamMember'[t][m] # None

\* What the rules of the service mean for the rows.
LEMMA RulesKeepRows ==
    ASSUME TeamsTypeOK, [Rules!Next]_(Rules!tables)
    PROVE  TeamRowsStay
<1> USE DEF TeamsTypeOK, TeamRowsStay
<1>1. CASE UNCHANGED <<team, teamMember>>
  BY <1>1
<1>2. ASSUME NEW t \in Team, NEW w \in Workspace, NEW status \in Rules!Status,
             Rules!PutTeam(t, w, status)
      PROVE  TeamRowsStay
  <2>1. [workspace |-> w, status |-> status] \in TeamRow
    BY DEF TeamRow, Status, Rules!Status
  <2>2. QED
    BY <1>2, <2>1, NoTeamAssumption DEF Rules!PutTeam
<1>3. ASSUME NEW t \in Team, NEW w \in Workspace, NEW u \in User,
             Rules!Activate(t, w, u) \/ Rules!Deactivate(t, w, u)
      PROVE  TeamRowsStay
  <2>1. None \notin {"active", "disabled"}
    BY NoneAssumption DEF Status
  <2>2. PICK status \in {"active", "disabled"} :
           team' = team /\ teamMember' = [teamMember EXCEPT ![t][<<w, u>>] = status]
    BY <1>3 DEF Rules!Activate, Rules!Deactivate
  <2>3. <<w, u>> \in Member
    BY DEF Member
  <2>4. \A t2 \in Team, m \in Member :
           teamMember'[t2][m] = IF t2 = t /\ m = <<w, u>> THEN status ELSE teamMember[t2][m]
    BY <2>2, <2>3
  <2>5. QED
    BY <2>1, <2>2, <2>4
<1>4. QED
  BY <1>1, <1>2, <1>3 DEF Rules!Next, Rules!tables

LEMMA RulesKeepTenantsApart ==
    ASSUME TeamsTypeOK, TeamMembersBelong, [Rules!Next]_(Rules!tables), MembershipsStay
    PROVE  TeamMembersBelong'
<1> SUFFICES ASSUME NEW t \in Team, NEW w \in Workspace, NEW u \in User,
                    teamMember'[t][<<w, u>>] # None
             PROVE  /\ team'[t] # None /\ team'[t].workspace = w
                    /\ membership'[w][u] # None
  BY DEF TeamMembersBelong
<1>1. <<w, u>> \in Member /\ TeamRowsStay
  BY RulesKeepRows DEF Member
<1>2. CASE teamMember[t][<<w, u>>] # None
  BY <1>1, <1>2 DEF TeamMembersBelong, TeamRowsStay, MembershipsStay
<1>3. CASE teamMember[t][<<w, u>>] = None
  <2>1. PICK t1 \in Team, w1 \in Workspace, u1 \in User :
           Rules!Activate(t1, w1, u1) \/ Rules!Deactivate(t1, w1, u1)
    BY <1>3 DEF Rules!Next, Rules!tables, Rules!PutTeam
  <2>2. <<w1, u1>> = <<w, u>> /\ t1 = t
    BY <1>1, <1>3, <2>1 DEF Rules!Activate, Rules!Deactivate, TeamsTypeOK
  <2>3. Rules!Activate(t, w, u)
    BY <1>3, <2>1, <2>2 DEF Rules!Deactivate
  <2>4. [workspace |-> w, status |-> "active"] \in TeamRow
    BY DEF TeamRow, Status
  <2>5. QED
    BY <2>3, <2>4, NoTeamAssumption, <1>1
       DEF Rules!Activate, Rules!Eligible, Rules!upstream, MembershipsStay, TeamRowsStay
<1>4. QED
  BY <1>2, <1>3

\* Nobody takes a workspace membership away, only its status.
LEMMA MembershipsAreKept ==
    ASSUME TeamsInv, [TeamsNext]_teamVars
    PROVE  MembershipsStay
<1>1. ASSUME NEW w \in Workspace, NEW u \in User, NEW row \in MembershipRow,
             ChangeMembership(w, u, row)
      PROVE  MembershipsStay
  BY <1>1, NoneAssumption DEF ChangeMembership, MembershipsStay, TeamsInv, TeamsTypeOK
<1>2. CASE UNCHANGED membership
  BY <1>2 DEF MembershipsStay
<1>3. ASSUME NEW r \in Request, RequestStep(r) PROVE UNCHANGED membership
  BY <1>3, StepEffect
<1>4. QED
  BY <1>1, <1>2, <1>3 DEF TeamsNext, Upstream, SetUserStatus, teamVars

\* Members of a team are members of its workspace, whichever ids the clients
\* name and whatever the operators do: the service never ties a team of one
\* tenant to a membership of another.
THEOREM TenantsStayApart == TeamsSpec => []TeamMembersBelong
<1>1. TeamsInit => TeamMembersBelong
  BY DEF TeamsInit, NoTeams, TeamMembersBelong, Member
<1>2. TeamsInv /\ TeamMembersBelong /\ [TeamsNext]_teamVars => TeamMembersBelong'
  BY TeamsStepIsRule, MembershipsAreKept, RulesKeepTenantsApart DEF TeamsInv
<1>3. QED
  BY <1>1, <1>2, TeamsInvariant, PTL DEF TeamsSpec

\* No step of a request or of an operator deletes a team or a team membership,
\* or moves a team to another workspace.
THEOREM TeamsAreKept == TeamsSpec => [][TeamRowsStay]_teamVars
<1>1. TeamsInv /\ [TeamsNext]_teamVars => [TeamRowsStay]_teamVars
  BY TeamsStepIsRule, RulesKeepRows DEF TeamsInv
<1>2. QED
  BY <1>1, TeamsInvariant, PTL DEF TeamsSpec
=============================================================================
