--------------------------- MODULE WorkspaceProofs ---------------------------
(***************************************************************************)
(* Proofs about the access service, alone and beside the team service.     *)
(*                                                                         *)
(* AccessInv is inductive, and with it the access service keeps its type,  *)
(* never leaves a workspace without an active owner, and implements        *)
(* MembershipRules, for any number of users, workspaces and requests.      *)
(* On one database with the team service (module TeamsProofs), what each   *)
(* transaction holds is exactly what its statements have locked: so the    *)
(* rows a team request has read stay, both services keep their rules, and  *)
(* their transactions never wait for each other in a circle.  Each step of *)
(* a request brings it closer to its end, and the rows of tenants stay     *)
(* apart.                                                                  *)
(***************************************************************************)
EXTENDS AccessInvariant, WorkspaceSystem, FiniteSetTheorems, TLAPS

\* A count above one leaves an active owner besides any given user.
LEMMA AnotherOwner ==
    ASSUME NEW w \in Workspace, NEW u \in User, ~(Cardinality(ActiveOwners(w)) <= 1)
    PROVE  ActiveOwners(w) \ {u} # {}
<1>1. IsFiniteSet(ActiveOwners(w))
  BY UserAssumption, FS_Subset DEF ActiveOwners
<1>2. Cardinality(ActiveOwners(w)) \in Nat
  BY <1>1, FS_CardinalityType
<1>3. SUFFICES ASSUME ActiveOwners(w) \subseteq {u} PROVE FALSE
  OBVIOUS
<1>4. IsFiniteSet({u}) /\ Cardinality({u}) = 1
  BY FS_Singleton
<1>5. Cardinality(ActiveOwners(w)) <= Cardinality({u})
  BY <1>3, <1>4, FS_Subset
<1>6. QED
  BY <1>4, <1>5

\* A lock is granted only beside compatible ones, so they stay compatible.
LEMMA AcquireCompatible ==
    ASSUME held \in [Transaction -> SUBSET Lock], LocksCompatible,
           NEW t \in Transaction, NEW row \in Row, NEW mode \in Mode, Acquire(t, row, mode)
    PROVE  /\ held' \in [Transaction -> SUBSET Lock]
           /\ LocksCompatible'
           /\ <<row, mode>> \in held'[t]
           /\ \A s \in Transaction : held[s] \subseteq held'[s]
<1>1. \A m, n : Conflict(m, n) <=> Conflict(n, m)
  BY DEF Conflict
<1>2. <<row, mode>> \in Lock
  BY DEF Lock
<1>3. /\ held' \in [Transaction -> SUBSET Lock]
      /\ held'[t] = held[t] \cup {<<row, mode>>}
      /\ \A s \in Transaction \ {t} : held'[s] = held[s]
  BY <1>2 DEF Acquire
<1>4. \A s \in Transaction \ {t}, m \in Mode :
         <<row, m>> \in held[s] => ~Conflict(m, mode)
  BY DEF Acquire, Unlocked
<1>5. ASSUME NEW a \in Transaction, NEW b \in Transaction, a # b,
             NEW x \in Row, NEW m \in Mode, NEW n \in Mode,
             <<x, m>> \in held'[a], <<x, n>> \in held'[b]
      PROVE  ~Conflict(m, n)
  <2>1. CASE <<x, m>> \in held[a] /\ <<x, n>> \in held[b]
    BY <1>5, <2>1 DEF LocksCompatible
  <2>2. CASE <<x, m>> \notin held[a]
    BY <1>1, <1>3, <1>4, <1>5, <2>2
  <2>3. CASE <<x, n>> \notin held[b]
    BY <1>1, <1>3, <1>4, <1>5, <2>3
  <2>4. QED
    BY <2>1, <2>2, <2>3
<1>6. LocksCompatible'
  BY <1>5 DEF LocksCompatible
<1>7. QED
  BY <1>3, <1>6

\* Giving up locks cannot make two of them conflict.
LEMMA ReleaseCompatible ==
    ASSUME held \in [Transaction -> SUBSET Lock], LocksCompatible,
           NEW t \in Transaction, Release(t)
    PROVE  /\ held' \in [Transaction -> SUBSET Lock]
           /\ LocksCompatible'
           /\ \A s \in Transaction \ {t} : held'[s] = held[s]
BY DEF LocksCompatible, Release

-----------------------------------------------------------------------------
(* Steps that leave the tables alone.                                       *)

\* A request keeps what it has established while it does not move, the tables
\* do not change and it gives up no lock.
LEMMA Undisturbed ==
    ASSUME AccessInv, UNCHANGED tables, NEW s \in InFlight,
           phase'[s] = phase[s], input'[s] = input[s], held[s] \subseteq held'[s]
    PROVE  RequestInv(s)'
<1>1. RequestInv(s)
  BY DEF AccessInv, RequestsInv
<1>2. UNCHANGED <<userStatus, tenant, membership>>
  BY DEF tables
<1>3. Placed(s)'
  BY <1>1 DEF RequestInv, Placed
<1>4. Referenced(s)'
  BY <1>1, <1>2 DEF RequestInv, Referenced
<1>5. UpdateLocked(s)'
  BY <1>1 DEF RequestInv, UpdateLocked, At
<1>6. TargetCurrent(s)'
  BY SMTT(30), <1>1, <1>2 DEF RequestInv, TargetCurrent, At, TargetRow, TouchesOwner, Patched
<1>7. CountCurrent(s)'
  BY <1>1, <1>2
     DEF RequestInv, CountCurrent, At, TargetRow, RemovesActiveOwner, Patched, ActiveOwners
<1>8. UserEligible(s)'
  BY <1>1, <1>2 DEF RequestInv, UserEligible
<1>9. KeyFree(s)'
  BY <1>1, <1>2 DEF RequestInv, KeyFree, At
<1>10. QED
  BY <1>3, <1>4, <1>5, <1>6, <1>7, <1>8, <1>9 DEF RequestInv

\* One request moves, and establishes what its new phase claims.
LEMMA OneMoves ==
    ASSUME AccessInv, UNCHANGED tables, AccessTypeOK', LocksCompatible', NEW r \in Request,
           \A s \in Request \ {r} : /\ phase'[s] = phase[s] /\ input'[s] = input[s]
                                    /\ held[s] \subseteq held'[s],
           phase'[r] # "idle" => /\ RequestInv(r)'
                                 /\ \A s \in InFlight \ {r} : Apart(r, s)' /\ Apart(s, r)'
    PROVE  AccessInv'
<1>1. InFlight' \ {r} = InFlight \ {r}
  BY DEF InFlight
<1>2. r \in InFlight' => phase'[r] # "idle"
  BY DEF InFlight
<1>3. \A s \in InFlight \ {r} : RequestInv(s)'
  BY Undisturbed DEF InFlight
<1>4. \A s \in InFlight' : RequestInv(s)'
  BY <1>1, <1>2, <1>3
<1>5. \A s, t \in InFlight \ {r} : s # t => Apart(s, t)'
  BY DEF AccessInv, RequestsInv, Apart, At, InFlight
<1>6. \A s, t \in InFlight' : s # t => Apart(s, t)'
  BY <1>1, <1>2, <1>5
<1>7. RequestsInv'
  BY <1>4, <1>6 DEF RequestsInv
<1>8. MembersHaveTenant' /\ EveryWorkspaceHasActiveOwner'
  BY DEF AccessInv, MembersHaveTenant, EveryWorkspaceHasActiveOwner, ActiveOwners, tables
<1>9. QED
  BY <1>7, <1>8 DEF AccessInv

\* A rejected or rolled back request leaves nothing behind.
LEMMA RejectKeepsInv ==
    ASSUME AccessInv, NEW r \in Request, Reject(r)
    PROVE  AccessInv'
<1>1. r \in Transaction
  BY RequestAssumption
<1>2. /\ held' \in [Transaction -> SUBSET Lock]
      /\ LocksCompatible'
      /\ \A s \in Transaction \ {r} : held'[s] = held[s]
  BY <1>1, ReleaseCompatible DEF AccessInv, AccessTypeOK, Reject, Finish
<1>3. AccessTypeOK'
  BY <1>2 DEF AccessInv, AccessTypeOK, Reject, Finish, Phase, tables
<1>4. phase'[r] = "idle" /\ UNCHANGED tables
  BY DEF AccessInv, AccessTypeOK, Reject, Finish
<1>5. \A s \in Request \ {r} : phase'[s] = phase[s] /\ input'[s] = input[s]
  BY DEF AccessInv, AccessTypeOK, Reject, Finish
<1>6. QED
  BY <1>2, <1>3, <1>4, <1>5, OneMoves, RequestAssumption

\* A request whose context has been resolved has done nothing else yet.
LEMMA BeginKeepsInv ==
    ASSUME AccessInv, NEW r \in Request, NEW in, Begin(r, in), WellFormed(in),
           (tenant[in.workspace] = None) <=> (in.op = "bootstrap"),
           in.op = "bootstrap" => \A s \in InFlight : input[s].workspace # in.workspace
    PROVE  AccessInv'
<1>1. /\ phase'[r] = "resolved" /\ input'[r] = in
      /\ \A s \in Request \ {r} : phase'[s] = phase[s] /\ input'[s] = input[s]
      /\ UNCHANGED <<userStatus, tenant, membership, held>>
  BY DEF AccessInv, AccessTypeOK, Begin, tables
<1>2. in \in Input /\ in.op \in {"add", "update", "bootstrap"}
  BY DEF WellFormed, Input
<1>3. AccessTypeOK'
  BY <1>2 DEF AccessInv, AccessTypeOK, Begin, Phase, tables
<1>4. LocksCompatible'
  BY <1>1 DEF AccessInv, LocksCompatible
<1>5. Placed(r)'
  BY <1>1, <1>2 DEF Placed, PhasesOf
<1>6. RequestInv(r)'
  BY <1>1, <1>5
     DEF RequestInv, Referenced, At, UpdateLocked, TargetCurrent, CountCurrent, UserEligible, KeyFree
<1>7. ASSUME NEW s \in InFlight \ {r} PROVE Apart(r, s)' /\ Apart(s, r)'
  <2>1. Referenced(s)
    BY DEF AccessInv, RequestsInv, RequestInv
  <2>2. input[s].op = "bootstrap" => input[s].workspace # in.workspace
    BY <2>1 DEF Referenced
  <2>3. QED
    BY <1>1, <2>2 DEF Apart, At, InFlight
<1>8. QED
  BY <1>1, <1>3, <1>4, <1>6, <1>7, OneMoves DEF tables

\* An open request goes on to its next phase.
LEMMA ProgressKeepsInv ==
    ASSUME AccessInv, NEW r \in InFlight, NEW p \in Phase \ {"idle"}, Goto(r, p), UNCHANGED tables,
           held' \in [Transaction -> SUBSET Lock], LocksCompatible',
           \A t \in Transaction : held[t] \subseteq held'[t],
           p \in PhasesOf(input[r].op),
           UpdateLocked(r)', TargetCurrent(r)', CountCurrent(r)', UserEligible(r)', KeyFree(r)',
           \A s \in InFlight \ {r} : Apart(r, s)' /\ Apart(s, r)'
    PROVE  AccessInv'
<1>1. phase'[r] = p /\ input' = input /\ \A s \in Request \ {r} : phase'[s] = phase[s]
  BY DEF AccessInv, AccessTypeOK, Goto, InFlight
<1>2. AccessTypeOK'
  BY DEF AccessInv, AccessTypeOK, Goto, tables
<1>3. RequestInv(r)
  BY DEF AccessInv, RequestsInv
<1>4. Placed(r)' /\ Referenced(r)'
  BY <1>1, <1>3 DEF RequestInv, Placed, Referenced, tables
<1>5. QED
  BY <1>1, <1>2, <1>4, OneMoves, RequestAssumption DEF RequestInv, InFlight

\* The Apart clauses that involve r only change when it becomes an inserter.
LEMMA StaysApart ==
    ASSUME AccessInv, NEW r \in InFlight, NEW s \in InFlight \ {r},
           input' = input, phase'[s] = phase[s],
           input[r].op = "add" /\ phase'[r] \in {"inserted", "written"} =>
              phase[r] \in {"inserted", "written"}
    PROVE  Apart(r, s)' /\ Apart(s, r)'
BY DEF AccessInv, RequestsInv, Apart, At

LEMMA ResolveAccessKeepsInv ==
    ASSUME AccessInv, NEW r \in Request, ResolveAccess(r)
    PROVE  AccessInv'
<1>1. PICK w \in Workspace, actor \in User : ResolveAccess(r)!(w, actor)
  BY DEF ResolveAccess
<1> DEFINE role == membership[w][actor].role
<1>2. tenant[w] # None /\ membership[w][actor] # None
  BY <1>1, NoneAssumption DEF HasAccess, TenantRow, Status
<1>3. role \in Role
  BY <1>2 DEF AccessInv, AccessTypeOK, MembershipRow
<1>4. ASSUME NEW u \in User, NEW new \in Role,
             MayRequest(AddInput(role, w, u, new)), Begin(r, AddInput(role, w, u, new))
      PROVE  AccessInv'
  <2>1. WellFormed(AddInput(role, w, u, new))
    BY <1>3, <1>4 DEF WellFormed, AddInput, Input, Status
  <2>2. QED
    BY <1>2, <1>4, <2>1, BeginKeepsInv DEF AddInput
<1>5. ASSUME NEW home \in Workspace, NEW u \in User,
             NEW new \in Role \cup {None}, NEW status \in Status \cup {None},
             MayRequest(UpdateInput(role, w, home, u, new, status)),
             Begin(r, UpdateInput(role, w, home, u, new, status))
      PROVE  AccessInv'
  <2>1. WellFormed(UpdateInput(role, w, home, u, new, status))
    BY <1>3, <1>5 DEF WellFormed, UpdateInput, Input
  <2>2. QED
    BY <1>2, <1>5, <2>1, BeginKeepsInv DEF UpdateInput
<1>6. QED
  BY <1>1, <1>4, <1>5

LEMMA StartBootstrapKeepsInv ==
    ASSUME AccessInv, NEW r \in Request, StartBootstrap(r)
    PROVE  AccessInv'
<1>1. PICK w \in Workspace, u \in User :
         /\ tenant[w] = None
         /\ \A s \in InFlight : input[s].workspace # w
         /\ Begin(r, BootstrapInput(w, u))
  BY DEF StartBootstrap, InFlight
<1>2. WellFormed(BootstrapInput(w, u))
  BY RoleAssumption DEF WellFormed, BootstrapInput, Input, Status
<1>3. QED
  BY <1>1, <1>2, BeginKeepsInv DEF BootstrapInput

LEMMA LockWorkspaceKeepsInv ==
    ASSUME AccessInv, NEW r \in Request, LockWorkspace(r)
    PROVE  AccessInv'
<1>1. /\ r \in InFlight /\ r \in Transaction /\ RequestInv(r)
      /\ input[r] \in Input /\ input[r].op = "update" /\ phase[r] = "resolved"
  BY RequestAssumption
     DEF AccessInv, RequestsInv, RequestInv, Placed, WellFormed, InFlight, LockWorkspace
<1>2. WorkspaceKey(input[r].workspace) \in Row /\ Update \in Mode
  BY <1>1 DEF Input, WorkspaceKey, Row, Mode
<1>3. /\ held' \in [Transaction -> SUBSET Lock]
      /\ LocksCompatible'
      /\ <<WorkspaceKey(input[r].workspace), Update>> \in held'[r]
      /\ \A s \in Transaction : held[s] \subseteq held'[s]
  BY <1>1, <1>2, AcquireCompatible DEF AccessInv, AccessTypeOK, LockWorkspace
<1>4. /\ phase' = [phase EXCEPT ![r] = "workspaceLocked"]
      /\ phase'[r] = "workspaceLocked" /\ input' = input
      /\ \A s \in InFlight \ {r} : phase'[s] = phase[s]
  BY DEF AccessInv, AccessTypeOK, LockWorkspace, Goto, InFlight
<1>5. UpdateLocked(r)'
  BY <1>3, <1>4 DEF UpdateLocked, WorkspaceKey
<1>6. TargetCurrent(r)' /\ CountCurrent(r)' /\ UserEligible(r)' /\ KeyFree(r)'
  BY <1>1, <1>4 DEF TargetCurrent, CountCurrent, UserEligible, KeyFree, At
<1>7. \A s \in InFlight \ {r} : Apart(r, s)' /\ Apart(s, r)'
  BY <1>1, <1>4, StaysApart
<1>8. QED
  BY <1>1, <1>3, <1>5, <1>6, <1>7, ProgressKeepsInv DEF LockWorkspace, Phase, PhasesOf

\* The locked workspace lets nobody change what the checks have seen.
LEMMA FindTargetKeepsInv ==
    ASSUME AccessInv, NEW r \in Request, FindTarget(r)
    PROVE  AccessInv'
<1> DEFINE row == TargetRow(input[r])
           next == IF RemovesActiveOwner(row, input[r]) THEN "counting" ELSE "updating"
<1>1. SUFFICES ASSUME row # None,
                      TouchesOwner(row, input[r]) =>
                         RoleHasPermission(input[r].actor, "membership.manage_owner"),
                      Goto(r, next), UNCHANGED <<tables, held>>
               PROVE  AccessInv'
  BY RejectKeepsInv DEF FindTarget
<1>2. /\ r \in InFlight /\ RequestInv(r)
      /\ input[r].op = "update" /\ phase[r] = "workspaceLocked"
  BY
     DEF AccessInv, RequestsInv, RequestInv, Placed, WellFormed, Input, PhasesOf, InFlight, FindTarget
<1>3. /\ phase'[r] = next /\ input' = input
      /\ UNCHANGED <<userStatus, tenant, membership, held>>
      /\ \A s \in InFlight \ {r} : phase'[s] = phase[s]
  BY <1>1 DEF AccessInv, AccessTypeOK, Goto, InFlight, tables
<1>4. UpdateLocked(r)'
  BY <1>2, <1>3 DEF RequestInv, UpdateLocked, At
<1>5. TargetCurrent(r)'
  <2>1. input[r].home = input[r].workspace
    BY <1>1 DEF TargetRow
  <2>2. TargetRow(input[r])' = row
    BY <1>3 DEF TargetRow
  <2>3. TouchesOwner(TargetRow(input[r]), input[r])' <=> TouchesOwner(row, input[r])
    BY <1>3, <2>2 DEF TouchesOwner, Patched
  <2>4. QED
    BY <1>1, <1>3, <2>1, <2>2, <2>3 DEF TargetCurrent
<1>6. CountCurrent(r)'
  BY <1>3 DEF CountCurrent, At, TargetRow, RemovesActiveOwner, Patched
<1>7. UserEligible(r)' /\ KeyFree(r)'
  BY <1>2, <1>3 DEF UserEligible, KeyFree, At
<1>8. \A s \in InFlight \ {r} : Apart(r, s)' /\ Apart(s, r)'
  BY <1>2, <1>3, StaysApart
<1>9. LocksCompatible' /\ held' \in [Transaction -> SUBSET Lock]
  BY <1>3 DEF AccessInv, AccessTypeOK, LocksCompatible
<1>10. next \in Phase \ {"idle"} /\ next \in PhasesOf(input[r].op)
  BY <1>2 DEF Phase, PhasesOf
<1>11. QED
  BY <1>1, <1>2, <1>3, <1>4, <1>5, <1>6, <1>7, <1>8, <1>9, <1>10, ProgressKeepsInv

LEMMA CountActiveOwnersKeepsInv ==
    ASSUME AccessInv, NEW r \in Request, CountActiveOwners(r)
    PROVE  AccessInv'
<1>1. SUFFICES ASSUME ~(Cardinality(ActiveOwners(input[r].workspace)) <= 1),
                      Goto(r, "updating"), UNCHANGED <<tables, held>>
               PROVE  AccessInv'
  BY RejectKeepsInv DEF CountActiveOwners
<1>2. /\ r \in InFlight /\ RequestInv(r) /\ input[r] \in Input
      /\ input[r].op = "update" /\ phase[r] = "counting"
  BY DEF AccessInv, RequestsInv, RequestInv, Placed, WellFormed, Input, PhasesOf, InFlight,
         CountActiveOwners
<1>3. /\ phase'[r] = "updating" /\ input' = input
      /\ UNCHANGED <<userStatus, tenant, membership, held>>
      /\ \A s \in InFlight \ {r} : phase'[s] = phase[s]
  BY <1>1 DEF AccessInv, AccessTypeOK, Goto, InFlight, tables
<1>4. UpdateLocked(r)'
  BY <1>2, <1>3 DEF RequestInv, UpdateLocked, At
<1>5. TargetCurrent(r)'
  BY <1>2, <1>3 DEF RequestInv, TargetCurrent, At, TargetRow, TouchesOwner, Patched
<1>6. CountCurrent(r)'
  <2>1. input[r].workspace \in Workspace /\ input[r].user \in User
    BY <1>2 DEF Input
  <2>2. ActiveOwners(input[r].workspace) \ {input[r].user} # {}
    BY <1>1, <2>1, AnotherOwner
  <2>3. QED
    BY <1>3, <2>2 DEF CountCurrent, ActiveOwners
<1>7. UserEligible(r)' /\ KeyFree(r)'
  BY <1>2, <1>3 DEF UserEligible, KeyFree, At
<1>8. \A s \in InFlight \ {r} : Apart(r, s)' /\ Apart(s, r)'
  BY <1>2, <1>3, StaysApart
<1>9. LocksCompatible' /\ held' \in [Transaction -> SUBSET Lock]
  BY <1>3 DEF AccessInv, AccessTypeOK, LocksCompatible
<1>10. QED
  BY <1>1, <1>2, <1>3, <1>4, <1>5, <1>6, <1>7, <1>8, <1>9, ProgressKeepsInv
     DEF Phase, PhasesOf

LEMMA UpdateRowKeepsInv ==
    ASSUME AccessInv, NEW r \in Request, UpdateRow(r)
    PROVE  AccessInv'
<1>1. /\ r \in InFlight /\ r \in Transaction /\ RequestInv(r)
      /\ input[r] \in Input /\ input[r].op = "update" /\ phase[r] = "updating"
  BY RequestAssumption
     DEF AccessInv, RequestsInv, RequestInv, Placed, WellFormed, Input, PhasesOf, InFlight, UpdateRow
<1>2. MembershipKey(input[r].home, input[r].user) \in Row /\ NoKeyUpdate \in Mode
  BY <1>1 DEF Input, MembershipKey, Row, Mode
<1>3. /\ held' \in [Transaction -> SUBSET Lock]
      /\ LocksCompatible'
      /\ \A s \in Transaction : held[s] \subseteq held'[s]
  BY <1>1, <1>2, AcquireCompatible DEF AccessInv, AccessTypeOK, UpdateRow
<1>4. /\ phase'[r] = "written" /\ input' = input
      /\ UNCHANGED <<userStatus, tenant, membership>>
      /\ \A s \in InFlight \ {r} : phase'[s] = phase[s]
  BY DEF AccessInv, AccessTypeOK, UpdateRow, Goto, InFlight, tables
<1>5. UpdateLocked(r)'
  BY <1>1, <1>3, <1>4 DEF RequestInv, UpdateLocked, At
<1>6. TargetCurrent(r)'
  BY <1>1, <1>4 DEF RequestInv, TargetCurrent, At, TargetRow, TouchesOwner, Patched
<1>7. CountCurrent(r)'
  BY <1>1, <1>4
     DEF RequestInv, CountCurrent, At, TargetRow, RemovesActiveOwner, Patched, ActiveOwners
<1>8. UserEligible(r)' /\ KeyFree(r)'
  BY <1>1, <1>4 DEF UserEligible, KeyFree, At
<1>9. \A s \in InFlight \ {r} : Apart(r, s)' /\ Apart(s, r)'
  BY <1>1, <1>4, StaysApart
<1>10. QED
  BY <1>1, <1>3, <1>4, <1>5, <1>6, <1>7, <1>8, <1>9, ProgressKeepsInv
     DEF UpdateRow, Phase, PhasesOf

LEMMA FindActiveUserKeepsInv ==
    ASSUME AccessInv, NEW r \in Request, FindActiveUser(r)
    PROVE  AccessInv'
<1>1. SUFFICES ASSUME userStatus[input[r].user] = "active",
                      Acquire(r, UserKey(input[r].user), Share),
                      Goto(r, "userLocked"), UNCHANGED tables
               PROVE  AccessInv'
  BY RejectKeepsInv DEF FindActiveUser
<1>2. /\ r \in InFlight /\ r \in Transaction /\ RequestInv(r)
      /\ input[r] \in Input /\ input[r].op \in {"add", "bootstrap"} /\ phase[r] = "resolved"
  BY RequestAssumption
     DEF AccessInv, RequestsInv, RequestInv, Placed, WellFormed, InFlight, FindActiveUser
<1>3. UserKey(input[r].user) \in Row /\ Share \in Mode
  BY <1>2 DEF Input, UserKey, Row, Mode
<1>4. /\ held' \in [Transaction -> SUBSET Lock]
      /\ LocksCompatible'
      /\ <<UserKey(input[r].user), Share>> \in held'[r]
      /\ \A s \in Transaction : held[s] \subseteq held'[s]
  BY <1>1, <1>2, <1>3, AcquireCompatible DEF AccessInv, AccessTypeOK
<1>5. /\ phase'[r] = "userLocked" /\ input' = input
      /\ UNCHANGED <<userStatus, tenant, membership>>
      /\ \A s \in InFlight \ {r} : phase'[s] = phase[s]
  BY <1>1 DEF AccessInv, AccessTypeOK, Goto, InFlight, tables
<1>6. UpdateLocked(r)' /\ TargetCurrent(r)' /\ CountCurrent(r)' /\ KeyFree(r)'
  BY <1>2, <1>5 DEF UpdateLocked, TargetCurrent, CountCurrent, KeyFree, At
<1>7. UserEligible(r)'
  BY <1>1, <1>4, <1>5 DEF UserEligible, UserKey
<1>8. \A s \in InFlight \ {r} : Apart(r, s)' /\ Apart(s, r)'
  BY <1>2, <1>5, StaysApart
<1>9. "userLocked" \in Phase \ {"idle"} /\ "userLocked" \in PhasesOf(input[r].op)
  BY <1>2 DEF Phase, PhasesOf
<1>10. QED
  BY <1>1, <1>2, <1>4, <1>5, <1>6, <1>7, <1>8, <1>9, ProgressKeepsInv

\* The unique key was free, both of committed rows and of pending ones.
LEMMA InsertMembershipKeepsInv ==
    ASSUME AccessInv, NEW r \in Request, InsertMembership(r)
    PROVE  AccessInv'
<1>1. SUFFICES ASSUME membership[input[r].workspace][input[r].user] = None,
                      Goto(r, "inserted"), UNCHANGED <<tables, held>>
               PROVE  AccessInv'
  BY RejectKeepsInv DEF InsertMembership
<1>2. /\ r \in InFlight /\ RequestInv(r)
      /\ input[r].op = "add" /\ phase[r] = "userLocked"
  BY DEF AccessInv, RequestsInv, InFlight, InsertMembership
<1>3. /\ phase'[r] = "inserted" /\ input' = input
      /\ UNCHANGED <<userStatus, tenant, membership, held>>
      /\ \A s \in InFlight \ {r} : phase'[s] = phase[s]
  BY <1>1 DEF AccessInv, AccessTypeOK, Goto, InFlight, tables
<1>4. UpdateLocked(r)' /\ TargetCurrent(r)' /\ CountCurrent(r)'
  BY <1>2, <1>3 DEF UpdateLocked, TargetCurrent, CountCurrent, At
<1>5. UserEligible(r)' /\ KeyFree(r)'
  BY <1>1, <1>2, <1>3 DEF RequestInv, UserEligible, KeyFree
<1>6. ASSUME NEW s \in InFlight \ {r} PROVE Apart(r, s)' /\ Apart(s, r)'
  <2>1. ~InsertPending(s, input[r].workspace, input[r].user)
    BY DEF InsertMembership, InFlight
  <2>2. Apart(s, r)
    BY <1>2 DEF AccessInv, RequestsInv
  <2>3. QED
    BY <1>2, <1>3, <2>1, <2>2 DEF InsertPending, Apart, At
<1>7. LocksCompatible' /\ held' \in [Transaction -> SUBSET Lock]
  BY <1>3 DEF AccessInv, AccessTypeOK, LocksCompatible
<1>8. "inserted" \in Phase \ {"idle"} /\ "inserted" \in PhasesOf(input[r].op)
  BY <1>2 DEF Phase, PhasesOf
<1>9. QED
  BY <1>1, <1>2, <1>3, <1>4, <1>5, <1>6, <1>7, <1>8, ProgressKeepsInv

LEMMA CheckWorkspaceReferenceKeepsInv ==
    ASSUME AccessInv, NEW r \in Request, CheckWorkspaceReference(r)
    PROVE  AccessInv'
<1>1. /\ r \in InFlight /\ r \in Transaction /\ RequestInv(r)
      /\ input[r] \in Input /\ input[r].op = "add" /\ phase[r] = "inserted"
  BY RequestAssumption
     DEF AccessInv, RequestsInv, RequestInv, Placed, WellFormed, Input, PhasesOf, InFlight,
         CheckWorkspaceReference
<1>2. WorkspaceKey(input[r].workspace) \in Row /\ KeyShare \in Mode
  BY <1>1 DEF Input, WorkspaceKey, Row, Mode
<1>3. /\ held' \in [Transaction -> SUBSET Lock]
      /\ LocksCompatible'
      /\ \A s \in Transaction : held[s] \subseteq held'[s]
  BY <1>1, <1>2, AcquireCompatible DEF AccessInv, AccessTypeOK, CheckWorkspaceReference
<1>4. /\ phase'[r] = "written" /\ input' = input
      /\ UNCHANGED <<userStatus, tenant, membership>>
      /\ \A s \in InFlight \ {r} : phase'[s] = phase[s]
  BY DEF AccessInv, AccessTypeOK, CheckWorkspaceReference, Goto, InFlight, tables
<1>5. UpdateLocked(r)' /\ TargetCurrent(r)' /\ CountCurrent(r)'
  BY <1>1, <1>4 DEF UpdateLocked, TargetCurrent, CountCurrent, At
<1>6. UserEligible(r)' /\ KeyFree(r)'
  BY <1>1, <1>3, <1>4 DEF RequestInv, UserEligible, KeyFree, At
<1>7. \A s \in InFlight \ {r} : Apart(r, s)' /\ Apart(s, r)'
  BY <1>1, <1>4, StaysApart
<1>8. "written" \in Phase \ {"idle"} /\ "written" \in PhasesOf(input[r].op)
  BY <1>1 DEF Phase, PhasesOf
<1>9. QED
  BY <1>1, <1>3, <1>4, <1>5, <1>6, <1>7, <1>8, ProgressKeepsInv DEF CheckWorkspaceReference

\* The inserts of a bootstrap, which nobody else can see.
LEMMA BootstrapInsertKeepsInv ==
    ASSUME AccessInv, NEW r \in Request,
           phase[r] \notin {"idle", "resolved"}, input[r].op = "bootstrap",
           NEW p \in {"organizationInserted", "workspaceInserted", "written"},
           Goto(r, p), UNCHANGED <<tables, held>>
    PROVE  AccessInv'
<1>1. r \in InFlight /\ RequestInv(r)
  BY DEF AccessInv, RequestsInv, InFlight
<1>2. /\ phase'[r] = p /\ input' = input
      /\ UNCHANGED <<userStatus, tenant, membership, held>>
      /\ \A s \in InFlight \ {r} : phase'[s] = phase[s]
  BY DEF AccessInv, AccessTypeOK, Goto, InFlight, tables
<1>3. UpdateLocked(r)' /\ TargetCurrent(r)' /\ CountCurrent(r)' /\ KeyFree(r)'
  BY <1>2 DEF UpdateLocked, TargetCurrent, CountCurrent, KeyFree, At
<1>4. UserEligible(r)'
  BY <1>1, <1>2 DEF RequestInv, UserEligible
<1>5. \A s \in InFlight \ {r} : Apart(r, s)' /\ Apart(s, r)'
  BY <1>1, <1>2, StaysApart
<1>6. LocksCompatible' /\ held' \in [Transaction -> SUBSET Lock]
  BY <1>2 DEF AccessInv, AccessTypeOK, LocksCompatible
<1>7. p \in Phase \ {"idle"} /\ p \in PhasesOf(input[r].op)
  BY DEF Phase, PhasesOf
<1>8. QED
  BY <1>1, <1>2, <1>3, <1>4, <1>5, <1>6, <1>7, ProgressKeepsInv

-----------------------------------------------------------------------------
(* Commits.                                                                 *)

\* What is left to show of a commit: what it does to the other requests'
\* rows, and to the tables.
LEMMA Committed ==
    ASSUME AccessInv, NEW r \in InFlight, Finish(r), UNCHANGED userStatus,
           tenant' \in [Workspace -> TenantRow \cup {None}],
           membership' \in [Workspace -> [User -> MembershipRow \cup {None}]],
           \A s \in InFlight \ {r} :
              Referenced(s)' /\ TargetCurrent(s)' /\ CountCurrent(s)' /\ KeyFree(s)',
           MembersHaveTenant', EveryWorkspaceHasActiveOwner'
    PROVE  AccessInv'
<1>1. r \in Request /\ r \in Transaction
  BY RequestAssumption DEF InFlight
<1>2. /\ held' \in [Transaction -> SUBSET Lock]
      /\ LocksCompatible'
      /\ \A s \in Transaction \ {r} : held'[s] = held[s]
  BY <1>1, ReleaseCompatible DEF AccessInv, AccessTypeOK, Finish
<1>3. /\ phase' \in [Request -> Phase]
      /\ input' \in [Request -> Input \cup {None}]
      /\ \A s \in Request \ {r} : phase'[s] = phase[s] /\ input'[s] = input[s]
      /\ phase'[r] = "idle"
  BY <1>1 DEF AccessInv, AccessTypeOK, Finish, Phase
<1>4. AccessTypeOK'
  BY <1>2, <1>3 DEF AccessInv, AccessTypeOK
<1>5. InFlight' = InFlight \ {r}
  BY <1>1, <1>3 DEF InFlight
<1>6. ASSUME NEW s \in InFlight \ {r} PROVE RequestInv(s)'
  <2>1. RequestInv(s) /\ phase'[s] = phase[s] /\ input'[s] = input[s] /\ held'[s] = held[s]
    BY <1>2, <1>3, RequestAssumption DEF AccessInv, RequestsInv, InFlight
  <2>2. Placed(s)'
    BY <2>1 DEF RequestInv, Placed
  <2>3. UpdateLocked(s)' /\ UserEligible(s)'
    BY <2>1 DEF RequestInv, UpdateLocked, UserEligible, At
  <2>4. QED
    BY <2>2, <2>3 DEF RequestInv
<1>7. \A s, t \in InFlight \ {r} : s # t => Apart(s, t)'
  BY <1>3 DEF AccessInv, RequestsInv, Apart, At, InFlight
<1>8. QED
  BY <1>2, <1>4, <1>5, <1>6, <1>7 DEF AccessInv, RequestsInv

\* Two updates of one workspace cannot both have passed the FOR UPDATE.
LEMMA WorkspaceExclusive ==
    ASSUME AccessInv, NEW r \in InFlight, NEW s \in InFlight \ {r},
           At(r, "update", {"workspaceLocked", "counting", "updating", "written"}),
           At(s, "update", {"workspaceLocked", "counting", "updating", "written"})
    PROVE  input[s].workspace # input[r].workspace
<1>1. /\ <<WorkspaceKey(input[r].workspace), Update>> \in held[r]
      /\ <<WorkspaceKey(input[s].workspace), Update>> \in held[s]
      /\ input[r] \in Input
  BY DEF AccessInv, RequestsInv, RequestInv, UpdateLocked, Placed, WellFormed
<1>2. WorkspaceKey(input[r].workspace) \in Row /\ Update \in Mode
  BY <1>1 DEF Input, WorkspaceKey, Row, Mode
<1>3. Conflict(Update, Update)
  BY DEF Conflict
<1>4. r \in Transaction /\ s \in Transaction
  BY RequestAssumption DEF InFlight
<1>5. QED
  BY <1>1, <1>2, <1>3, <1>4 DEF AccessInv, LocksCompatible

LEMMA CommitUpdateKeepsInv ==
    ASSUME AccessInv, NEW r \in Request, CommitUpdate(r)
    PROVE  AccessInv'
<1>1. r \in InFlight /\ RequestInv(r) /\ At(r, "update", {"written"}) /\ input[r] \in Input
  BY DEF AccessInv, RequestsInv, RequestInv, Placed, WellFormed, InFlight, CommitUpdate, At
<1>0. PICK w \in Workspace, u \in User : w = input[r].workspace /\ u = input[r].user
  BY <1>1 DEF Input
<1> DEFINE new == Patched(membership[w][u], input[r])
<1>2. input[r].home = w /\ membership[w][u] # None
  BY <1>0, <1>1 DEF RequestInv, TargetCurrent, TargetRow, At
<1>3. new \in MembershipRow
  BY <1>1, <1>2 DEF AccessInv, AccessTypeOK, Input, Patched, MembershipRow
<1>4. /\ membership' = [membership EXCEPT ![w][u] = new]
      /\ UNCHANGED <<userStatus, tenant>> /\ Finish(r)
  BY <1>0, <1>2 DEF CommitUpdate
<1>5. membership' \in [Workspace -> [User -> MembershipRow \cup {None}]]
  BY <1>2, <1>3, <1>4 DEF AccessInv, AccessTypeOK
<1>6. /\ membership'[w][u] = new /\ new # None
      /\ \A x \in Workspace, y \in User :
            <<x, y>> # <<w, u>> => membership'[x][y] = membership[x][y]
  BY <1>2, <1>3, <1>4, NoneAssumption DEF AccessInv, AccessTypeOK
<1>7. MembersHaveTenant'
  BY <1>2, <1>4, <1>6 DEF AccessInv, MembersHaveTenant
<1>8. EveryWorkspaceHasActiveOwner'
  <2>1. ActiveOwners(w)' # {}
    <3>1. CASE new = ActiveOwner
      BY <1>2, <1>6, <3>1 DEF ActiveOwners
    <3>2. CASE new # ActiveOwner /\ membership[w][u] = ActiveOwner
      <4>1. ActiveOwners(w) \ {u} # {}
        BY <1>0, <1>1, <1>2, <3>2
           DEF RequestInv, CountCurrent, At, TargetRow, RemovesActiveOwner
      <4>2. QED
        BY <1>2, <1>6, <4>1 DEF ActiveOwners
    <3>3. CASE membership[w][u] # ActiveOwner
      <4>1. PICK v \in User : membership[w][v] = ActiveOwner
        BY <1>2 DEF AccessInv, EveryWorkspaceHasActiveOwner, ActiveOwners, MembersHaveTenant
      <4>2. QED
        BY <1>2, <1>6, <3>3, <4>1 DEF ActiveOwners
    <3>4. QED
      BY <3>1, <3>2, <3>3
  <2>2. ASSUME NEW x \in Workspace \ {w}, tenant'[x] # None PROVE ActiveOwners(x)' # {}
    <3>1. ActiveOwners(x) # {}
      BY <1>4, <2>2 DEF AccessInv, EveryWorkspaceHasActiveOwner
    <3>2. QED
      BY <1>6, <3>1 DEF ActiveOwners
  <2>3. QED
    BY <2>1, <2>2 DEF EveryWorkspaceHasActiveOwner
<1>9. ASSUME NEW s \in InFlight \ {r}
      PROVE  Referenced(s)' /\ TargetCurrent(s)' /\ CountCurrent(s)' /\ KeyFree(s)'
  <2>1. /\ RequestInv(s) /\ input[s] \in Input
        /\ phase'[s] = phase[s] /\ input'[s] = input[s]
    BY <1>4
       DEF AccessInv, AccessTypeOK, RequestsInv, RequestInv, Placed, WellFormed, InFlight, Finish
  <2>2. input[s].workspace \in Workspace /\ input[s].user \in User
    BY <2>1 DEF Input
  <2>3. At(s, "update", {"workspaceLocked", "counting", "updating", "written"}) =>
           input[s].workspace # w
    BY <1>0, <1>1, WorkspaceExclusive DEF At
  <2>4. Referenced(s)'
    BY <1>4, <2>1 DEF RequestInv, Referenced
  <2>5. TargetCurrent(s)' /\ CountCurrent(s)'
    <3>1. CASE At(s, "update", {"counting", "updating", "written"})
      <4>1. input[s].home = input[s].workspace /\ input[s].workspace # w
        BY <2>1, <2>3, <3>1 DEF RequestInv, TargetCurrent, At
      <4>2. \A y \in User : membership'[input[s].workspace][y] = membership[input[s].workspace][y]
        BY <1>6, <2>2, <4>1
      <4>3. TargetRow(input[s])' = TargetRow(input[s])
        BY <2>1, <2>2, <4>1, <4>2 DEF TargetRow
      <4>4. ActiveOwners(input[s].workspace)' = ActiveOwners(input[s].workspace)
        BY <2>1, <4>2 DEF ActiveOwners
      <4>5. TargetCurrent(s)'
        BY <2>1, <4>3 DEF RequestInv, TargetCurrent, At, TouchesOwner, Patched
      <4>6. CountCurrent(s)'
        BY <2>1, <4>3, <4>4 DEF RequestInv, CountCurrent, At, RemovesActiveOwner, Patched
      <4>7. QED
        BY <4>5, <4>6
    <3>2. QED
      BY <2>1, <3>1 DEF TargetCurrent, CountCurrent, At
  <2>6. KeyFree(s)'
    BY <1>2, <1>6, <2>1, <2>2 DEF RequestInv, KeyFree, At
  <2>7. QED
    BY <2>4, <2>5, <2>6
<1>10. QED
  BY <1>1, <1>4, <1>5, <1>7, <1>8, <1>9, Committed DEF AccessInv, AccessTypeOK

LEMMA CommitAddKeepsInv ==
    ASSUME AccessInv, NEW r \in Request, CommitAdd(r)
    PROVE  AccessInv'
<1>1. r \in InFlight /\ RequestInv(r) /\ At(r, "add", {"written"}) /\ WellFormed(input[r])
  BY DEF AccessInv, RequestsInv, RequestInv, Placed, InFlight, CommitAdd, At
<1>2. PICK w \in Workspace, u \in User : w = input[r].workspace /\ u = input[r].user
  BY <1>1 DEF WellFormed, Input
<1>3. PICK new \in MembershipRow : new = [role |-> input[r].role, status |-> input[r].status]
  BY <1>1 DEF WellFormed, MembershipRow, Status, At
<1>4. membership[w][u] = None /\ tenant[w] # None
  BY <1>1, <1>2 DEF RequestInv, KeyFree, Referenced, At
<1>5. /\ membership' = [membership EXCEPT ![w][u] = new]
      /\ UNCHANGED <<userStatus, tenant>> /\ Finish(r)
  BY <1>2, <1>3 DEF CommitAdd
<1>6. membership' \in [Workspace -> [User -> MembershipRow \cup {None}]]
  BY <1>5 DEF AccessInv, AccessTypeOK
<1>7. /\ membership'[w][u] = new
      /\ \A x \in Workspace, y \in User :
            <<x, y>> # <<w, u>> => membership'[x][y] = membership[x][y]
  BY <1>5 DEF AccessInv, AccessTypeOK
<1>8. \A x \in Workspace : ActiveOwners(x) \subseteq ActiveOwners(x)'
  BY <1>4, <1>7, NoneAssumption, RoleAssumption
     DEF ActiveOwners, ActiveOwner, MembershipRow, Status
<1>9. MembersHaveTenant'
  BY <1>4, <1>5, <1>7 DEF AccessInv, MembersHaveTenant
<1>10. EveryWorkspaceHasActiveOwner'
  BY <1>5, <1>8 DEF AccessInv, EveryWorkspaceHasActiveOwner
<1>11. ASSUME NEW s \in InFlight \ {r}
       PROVE  Referenced(s)' /\ TargetCurrent(s)' /\ CountCurrent(s)' /\ KeyFree(s)'
  <2>1. /\ RequestInv(s) /\ input[s] \in Input
        /\ phase'[s] = phase[s] /\ input'[s] = input[s]
    BY <1>5
       DEF AccessInv, AccessTypeOK, RequestsInv, RequestInv, Placed, WellFormed, InFlight, Finish
  <2>2. input[s].workspace \in Workspace /\ input[s].user \in User
    BY <2>1 DEF Input
  <2>3. Referenced(s)'
    BY <1>5, <2>1 DEF RequestInv, Referenced
  <2>4. TargetCurrent(s)' /\ CountCurrent(s)'
    <3>1. CASE At(s, "update", {"counting", "updating", "written"})
      <4>1. input[s].home = input[s].workspace /\ TargetRow(input[s]) # None
        BY <2>1, <3>1 DEF RequestInv, TargetCurrent
      <4>2. TargetRow(input[s])' = TargetRow(input[s])
        BY <1>4, <1>7, <2>1, <2>2, <4>1 DEF TargetRow
      <4>3. ActiveOwners(input[s].workspace) \subseteq ActiveOwners(input[s].workspace)'
        BY <1>8, <2>1, <2>2 DEF ActiveOwners
      <4>4. TargetCurrent(s)'
        BY <2>1, <4>2 DEF RequestInv, TargetCurrent, At, TouchesOwner, Patched
      <4>5. CountCurrent(s)'
        BY <2>1, <4>2, <4>3 DEF RequestInv, CountCurrent, At, RemovesActiveOwner, Patched
      <4>6. QED
        BY <4>4, <4>5
    <3>2. QED
      BY <2>1, <3>1 DEF TargetCurrent, CountCurrent, At
  <2>5. KeyFree(s)'
    <3>1. Apart(r, s)
      BY <1>1 DEF AccessInv, RequestsInv
    <3>2. QED
      BY <1>1, <1>2, <1>7, <2>1, <2>2, <3>1 DEF RequestInv, KeyFree, Apart, At
  <2>6. QED
    BY <2>3, <2>4, <2>5
<1>12. QED
  BY <1>1, <1>5, <1>6, <1>9, <1>10, <1>11, Committed DEF AccessInv, AccessTypeOK

LEMMA CommitBootstrapKeepsInv ==
    ASSUME AccessInv, NEW r \in Request, CommitBootstrap(r)
    PROVE  AccessInv'
<1>1. /\ r \in InFlight /\ RequestInv(r) /\ WellFormed(input[r])
      /\ input[r].op = "bootstrap" /\ phase[r] = "written"
  BY DEF AccessInv, RequestsInv, RequestInv, Placed, InFlight, CommitBootstrap
<1>2. PICK w \in Workspace, u \in User : w = input[r].workspace /\ u = input[r].user
  BY <1>1 DEF WellFormed, Input
<1>3. ActiveOwner = [role |-> input[r].role, status |-> input[r].status]
  BY <1>1 DEF WellFormed, ActiveOwner
<1>4. tenant[w] = None /\ \A y \in User : membership[w][y] = None
  BY <1>1, <1>2 DEF AccessInv, RequestInv, Referenced, MembersHaveTenant
<1>5. /\ tenant' = [tenant EXCEPT ![w] = [organization |-> "active", workspace |-> "active"]]
      /\ membership' = [membership EXCEPT ![w][u] = ActiveOwner]
      /\ UNCHANGED userStatus /\ Finish(r)
  BY <1>2, <1>3 DEF CommitBootstrap
<1>6. /\ tenant' \in [Workspace -> TenantRow \cup {None}]
      /\ membership' \in [Workspace -> [User -> MembershipRow \cup {None}]]
  BY <1>5, RoleAssumption
     DEF AccessInv, AccessTypeOK, ActiveOwner, MembershipRow, TenantRow, Status
<1>7. /\ membership'[w][u] = ActiveOwner
      /\ tenant'[w] # None
      /\ \A y \in User \ {u} : membership'[w][y] = None
      /\ \A x \in Workspace \ {w} : membership'[x] = membership[x] /\ tenant'[x] = tenant[x]
  BY <1>4, <1>5, NoneAssumption DEF AccessInv, AccessTypeOK, TenantRow, Status
<1>8. MembersHaveTenant'
  BY <1>7 DEF AccessInv, MembersHaveTenant
<1>9. EveryWorkspaceHasActiveOwner'
  <2>1. u \in ActiveOwners(w)'
    BY <1>7 DEF ActiveOwners
  <2>2. \A x \in Workspace \ {w} : ActiveOwners(x)' = ActiveOwners(x)
    BY <1>7 DEF ActiveOwners
  <2>3. QED
    BY <1>7, <2>1, <2>2 DEF AccessInv, EveryWorkspaceHasActiveOwner
<1>10. ASSUME NEW s \in InFlight \ {r}
       PROVE  Referenced(s)' /\ TargetCurrent(s)' /\ CountCurrent(s)' /\ KeyFree(s)'
  <2>1. /\ RequestInv(s) /\ input[s] \in Input
        /\ phase'[s] = phase[s] /\ input'[s] = input[s]
    BY <1>5
       DEF AccessInv, AccessTypeOK, RequestsInv, RequestInv, Placed, WellFormed, InFlight, Finish
  <2>2. input[s].workspace \in Workspace \ {w}
    <3>1. Apart(r, s)
      BY <1>1 DEF AccessInv, RequestsInv
    <3>2. QED
      BY <1>1, <1>2, <2>1, <3>1 DEF Apart, Input
  <2>3. /\ membership'[input[s].workspace] = membership[input[s].workspace]
        /\ tenant'[input[s].workspace] = tenant[input[s].workspace]
    BY <1>7, <2>2
  <2>4. ActiveOwners(input[s].workspace)' = ActiveOwners(input[s].workspace)
    BY <2>1, <2>3 DEF ActiveOwners
  <2>5. TargetRow(input[s])' = TargetRow(input[s])
    BY <2>1, <2>3 DEF TargetRow
  <2>6. Referenced(s)' /\ KeyFree(s)'
    BY <2>1, <2>3 DEF RequestInv, Referenced, KeyFree, At
  <2>7. TargetCurrent(s)'
    BY <2>1, <2>5 DEF RequestInv, TargetCurrent, At, TouchesOwner, Patched
  <2>8. CountCurrent(s)'
    BY <2>1, <2>4, <2>5 DEF RequestInv, CountCurrent, At, RemovesActiveOwner, Patched
  <2>9. QED
    BY <2>6, <2>7, <2>8
<1>11. QED
  BY <1>1, <1>5, <1>6, <1>8, <1>9, <1>10, Committed DEF AccessInv, AccessTypeOK

-----------------------------------------------------------------------------
(* The operators' steps.                                                    *)

\* A status changes only where no request relies on it.
LEMMA AdministerKeepsInv ==
    ASSUME AccessInv, Administer
    PROVE  AccessInv'
<1>1. UNCHANGED <<membership, held, phase, input>>
  BY DEF Administer, SetUserStatus, DisableOrganization, DisableWorkspace, requestVars
<1>2. /\ userStatus' \in [User -> Status]
      /\ tenant' \in [Workspace -> TenantRow \cup {None}]
      /\ \A w \in Workspace : tenant'[w] = None <=> tenant[w] = None
  BY NoneAssumption
     DEF AccessInv, AccessTypeOK, Administer, SetUserStatus, DisableOrganization,
         DisableWorkspace, TenantRow, Status
<1>3. \A u \in User : userStatus'[u] = userStatus[u] \/ Unlocked(UserKey(u), NoKeyUpdate, Transaction)
  BY
     DEF AccessInv, AccessTypeOK, Administer, SetUserStatus, DisableOrganization, DisableWorkspace
<1>4. AccessTypeOK'
  BY <1>1, <1>2 DEF AccessInv, AccessTypeOK
<1>5. LocksCompatible'
  BY <1>1 DEF AccessInv, LocksCompatible
<1>6. ASSUME NEW s \in InFlight PROVE RequestInv(s)'
  <2>1. RequestInv(s) /\ input[s] \in Input
    BY DEF AccessInv, RequestsInv, RequestInv, Placed, WellFormed
  <2>2. input[s].workspace \in Workspace /\ input[s].user \in User
    BY <2>1 DEF Input
  <2>3. Placed(s)'
    BY <1>1, <2>1 DEF RequestInv, Placed
  <2>4. Referenced(s)'
    BY <1>1, <1>2, <2>1, <2>2 DEF RequestInv, Referenced
  <2>5. UpdateLocked(s)' /\ KeyFree(s)'
    BY <1>1, <2>1 DEF RequestInv, UpdateLocked, KeyFree, At
  <2>6. TargetCurrent(s)'
    BY <1>1, <2>1 DEF RequestInv, TargetCurrent, At, TargetRow, TouchesOwner, Patched
  <2>7. CountCurrent(s)'
    BY <1>1, <2>1
       DEF RequestInv, CountCurrent, At, TargetRow, RemovesActiveOwner, Patched, ActiveOwners
  <2>8. UserEligible(s)'
    <3>1. Conflict(Share, NoKeyUpdate) /\ Share \in Mode
      BY DEF Conflict, Share, NoKeyUpdate, KeyShare, Mode
    <3>2. s \in Transaction
      BY RequestAssumption DEF InFlight
    <3>3. QED
      BY <1>1, <1>3, <2>1, <2>2, <3>1, <3>2 DEF RequestInv, UserEligible, Unlocked
  <2>9. QED
    BY <2>3, <2>4, <2>5, <2>6, <2>7, <2>8 DEF RequestInv
<1>7. RequestsInv'
  BY <1>1, <1>6 DEF AccessInv, RequestsInv, InFlight, Apart, At
<1>8. MembersHaveTenant' /\ EveryWorkspaceHasActiveOwner'
  BY <1>1, <1>2 DEF AccessInv, MembersHaveTenant, EveryWorkspaceHasActiveOwner, ActiveOwners
<1>9. QED
  BY <1>4, <1>5, <1>7, <1>8 DEF AccessInv

-----------------------------------------------------------------------------
(* The theorems.                                                            *)

LEMMA InitEstablishesInv == AccessInit => AccessInv
<1> SUFFICES ASSUME AccessInit PROVE AccessInv
  OBVIOUS
<1>1. AccessTypeOK
  BY DEF AccessInit, AccessTypeOK, Phase, Status
<1>2. InFlight = {} /\ LocksCompatible
  BY RequestAssumption DEF AccessInit, InFlight, LocksCompatible
<1>3. MembersHaveTenant /\ EveryWorkspaceHasActiveOwner
  BY DEF AccessInit, MembersHaveTenant, EveryWorkspaceHasActiveOwner
<1>4. QED
  BY <1>1, <1>2, <1>3 DEF AccessInv, RequestsInv

LEMMA StepKeepsInv ==
    ASSUME AccessInv, [AccessNext]_accessVars
    PROVE  AccessInv'
<1>1. CASE Administer
  BY <1>1, AdministerKeepsInv
<1>2. ASSUME NEW r \in Request, RequestStep(r) PROVE AccessInv'
  <2>1. CASE ResolveAccess(r)
    BY <2>1, ResolveAccessKeepsInv
  <2>2. CASE StartBootstrap(r)
    BY <2>2, StartBootstrapKeepsInv
  <2>3. CASE LockWorkspace(r)
    BY <2>3, LockWorkspaceKeepsInv
  <2>4. CASE FindTarget(r)
    BY <2>4, FindTargetKeepsInv
  <2>5. CASE CountActiveOwners(r)
    BY <2>5, CountActiveOwnersKeepsInv
  <2>6. CASE UpdateRow(r)
    BY <2>6, UpdateRowKeepsInv
  <2>7. CASE CommitUpdate(r)
    BY <2>7, CommitUpdateKeepsInv
  <2>8. CASE FindActiveUser(r)
    BY <2>8, FindActiveUserKeepsInv
  <2>9. CASE InsertMembership(r)
    BY <2>9, InsertMembershipKeepsInv
  <2>10. CASE CheckWorkspaceReference(r)
    BY <2>10, CheckWorkspaceReferenceKeepsInv
  <2>11. CASE CommitAdd(r)
    BY <2>11, CommitAddKeepsInv
  <2>12. CASE InsertOrganization(r)
    BY <2>12, BootstrapInsertKeepsInv DEF InsertOrganization
  <2>13. CASE InsertWorkspace(r) \/ InsertOwner(r)
    <3>1. input[r].op = "bootstrap"
      BY <2>13 DEF AccessInv, RequestsInv, RequestInv, Placed, WellFormed, Input, PhasesOf,
                   InFlight, InsertWorkspace, InsertOwner
    <3>2. QED
      BY <2>13, <3>1, BootstrapInsertKeepsInv DEF InsertWorkspace, InsertOwner
  <2>14. CASE CommitBootstrap(r)
    BY <2>14, CommitBootstrapKeepsInv
  <2>15. CASE Rollback(r)
    BY <2>15, RejectKeepsInv DEF Rollback
  <2>16. QED
    BY <1>2, <2>1, <2>2, <2>3, <2>4, <2>5, <2>6, <2>7, <2>8, <2>9, <2>10, <2>11, <2>12,
       <2>13, <2>14, <2>15 DEF RequestStep, Advance
<1>3. CASE UNCHANGED accessVars
  <2>1. UNCHANGED <<userStatus, tenant, membership, held, phase, input>>
    BY <1>3 DEF accessVars
  <2>2. \A s \in InFlight : RequestInv(s)'
    BY <2>1, Undisturbed DEF tables
  <2>3. RequestsInv'
    BY <2>1, <2>2 DEF AccessInv, RequestsInv, InFlight, Apart, At
  <2>4. QED
    BY <2>1, <2>3 DEF AccessInv, AccessTypeOK, LocksCompatible, MembersHaveTenant,
                      EveryWorkspaceHasActiveOwner, ActiveOwners
<1>4. QED
  BY <1>1, <1>2, <1>3 DEF AccessNext

\* AccessInv holds in every reachable state: what every request in flight has
\* read agrees with the tables as far as its locks protect it.
THEOREM AccessInvariant == AccessSpec => []AccessInv
<1>1. QED
  BY InitEstablishesInv, StepKeepsInv, PTL DEF AccessSpec

\* The variables of the access service keep their types.
THEOREM AccessTypeCorrect == AccessSpec => []AccessTypeOK
<1>1. AccessInv => AccessTypeOK
  BY DEF AccessInv
<1>2. QED
  BY <1>1, AccessInvariant, PTL

\* No interleaving of membership changes, bootstraps and status changes ever
\* leaves a workspace without an active owner.
THEOREM OwnersRetained == AccessSpec => []EveryWorkspaceHasActiveOwner
<1>1. AccessInv => EveryWorkspaceHasActiveOwner
  BY DEF AccessInv
<1>2. QED
  BY <1>1, AccessInvariant, PTL

-----------------------------------------------------------------------------
(* What a step does to the tables: nothing, or one rule.                    *)

\* The steps of a request other than its commit leave the tables alone.
LEMMA OnlyCommitsWrite ==
    ASSUME NEW r \in Request, RequestStep(r),
           ~CommitUpdate(r), ~CommitAdd(r), ~CommitBootstrap(r)
    PROVE  UNCHANGED tables
BY DEF RequestStep, ResolveAccess, StartBootstrap, Begin, Advance, LockWorkspace, FindTarget,
       CountActiveOwners, UpdateRow, FindActiveUser, InsertMembership, CheckWorkspaceReference,
       InsertOrganization, InsertWorkspace, InsertOwner, Rollback, Reject

LEMMA CommitUpdateIsChange ==
    ASSUME AccessInv, NEW r \in Request, CommitUpdate(r)
    PROVE  Rules!Change(input[r].workspace, input[r].user, input[r].role, input[r].status)
<1>1. RequestInv(r) /\ At(r, "update", {"written"})
  BY DEF AccessInv, RequestsInv, InFlight, CommitUpdate, At
<1>2. /\ input[r].home = input[r].workspace
      /\ membership[input[r].workspace][input[r].user] # None
  BY <1>1 DEF RequestInv, TargetCurrent, TargetRow, At
<1>3. RemovesActiveOwner(membership[input[r].workspace][input[r].user], input[r]) =>
         \E v \in User \ {input[r].user} : membership[input[r].workspace][v] = ActiveOwner
  BY <1>1, <1>2 DEF RequestInv, CountCurrent, TargetRow, ActiveOwners, At
<1>4. QED
  BY <1>2, <1>3
     DEF CommitUpdate, Patched, RemovesActiveOwner, ActiveOwner, Rules!Change, Rules!ActiveOwner

LEMMA CommitAddIsAdd ==
    ASSUME AccessInv, NEW r \in Request, CommitAdd(r)
    PROVE  Rules!Add(input[r].workspace, input[r].user, input[r].role)
<1>1. RequestInv(r) /\ At(r, "add", {"written"}) /\ WellFormed(input[r])
  BY DEF AccessInv, RequestsInv, RequestInv, Placed, InFlight, CommitAdd, At
<1>2. /\ tenant[input[r].workspace] # None
      /\ membership[input[r].workspace][input[r].user] = None
      /\ userStatus[input[r].user] = "active"
      /\ input[r].status = "active"
  BY <1>1 DEF RequestInv, Referenced, KeyFree, UserEligible, WellFormed, At
<1>3. QED
  BY <1>2 DEF CommitAdd, Rules!Add

LEMMA CommitBootstrapIsBootstrap ==
    ASSUME AccessInv, NEW r \in Request, CommitBootstrap(r)
    PROVE  Rules!Bootstrap(input[r].workspace, input[r].user)
<1>1. /\ RequestInv(r) /\ WellFormed(input[r])
      /\ input[r].op = "bootstrap" /\ phase[r] = "written"
  BY DEF AccessInv, RequestsInv, RequestInv, Placed, InFlight, CommitBootstrap
<1>2. /\ tenant[input[r].workspace] = None
      /\ userStatus[input[r].user] = "active"
      /\ input[r].role = "owner" /\ input[r].status = "active"
  BY <1>1 DEF RequestInv, Referenced, UserEligible, WellFormed
<1>3. QED
  BY <1>2 DEF CommitBootstrap, Rules!Bootstrap, Rules!ActiveOwner

LEMMA StepIsRule ==
    ASSUME AccessInv, [AccessNext]_accessVars
    PROVE  [Rules!Next]_Rules!tables
<1>1. CASE Administer
  <2>1. CASE \E u \in User \cap Administered, s \in Status : SetUserStatus(u, s)
    <3>1. PICK u \in User, s \in Status : SetUserStatus(u, s)
      BY <2>1
    <3>2. Rules!SetUserStatus(u, s)
      BY <3>1 DEF SetUserStatus, Rules!SetUserStatus
    <3>3. QED
      BY <3>2 DEF Rules!Next, Rules!Status, Status
  <2>2. CASE \E w \in Workspace \cap Administered : DisableOrganization(w) \/ DisableWorkspace(w)
    <3>1. PICK w \in Workspace : DisableOrganization(w) \/ DisableWorkspace(w)
      BY <2>2
    <3>2. tenant[w] \in TenantRow
      BY <3>1 DEF AccessInv, AccessTypeOK, DisableOrganization, DisableWorkspace
    <3>3. Rules!Disable(w)
      BY <3>1, <3>2 DEF DisableOrganization, DisableWorkspace, TenantRow, Rules!Disable
    <3>4. QED
      BY <3>3 DEF Rules!Next
  <2>3. QED
    BY <1>1, <2>1, <2>2 DEF Administer
<1>2. ASSUME NEW r \in Request, RequestStep(r) PROVE [Rules!Next]_Rules!tables
  <2>1. ASSUME phase[r] # "idle"
        PROVE  /\ input[r].workspace \in Workspace /\ input[r].user \in User
               /\ input[r].role \in Role \cup {None} /\ input[r].status \in Status \cup {None}
               /\ input[r].op = "add" => input[r].role \in Role
    BY <2>1 DEF AccessInv, RequestsInv, RequestInv, Placed, WellFormed, Input, InFlight
  <2>2. CASE CommitUpdate(r)
    BY <2>1, <2>2, CommitUpdateIsChange DEF CommitUpdate, Rules!Next, Rules!Status, Status
  <2>3. CASE CommitAdd(r)
    BY <2>1, <2>3, CommitAddIsAdd DEF CommitAdd, Rules!Next
  <2>4. CASE CommitBootstrap(r)
    BY <2>1, <2>4, CommitBootstrapIsBootstrap DEF CommitBootstrap, Rules!Next
  <2>5. QED
    BY <1>2, <2>2, <2>3, <2>4, OnlyCommitsWrite DEF tables, Rules!tables
<1>3. CASE UNCHANGED accessVars
  BY <1>3 DEF accessVars, Rules!tables
<1>4. QED
  BY <1>1, <1>2, <1>3 DEF AccessNext

\* The access service implements MembershipRules: every request takes effect
\* at its commit, in one step that the rules allow.
THEOREM AccessImplementsRules == AccessSpec => ImplementsMembershipRules
<1>1. AccessInit => Rules!Init
  BY DEF AccessInit, Rules!Init
<1>2. QED
  BY <1>1, StepIsRule, AccessInvariant, PTL
     DEF AccessSpec, ImplementsMembershipRules, Rules!Spec

\* Whoever changes a membership held the permission for the row as it was
\* and as it becomes at the commit.
LEMMA StepIsAuthorized ==
    ASSUME AccessInv, [AccessNext]_accessVars,
           NEW w \in Workspace, NEW u \in User, membership'[w][u] # membership[w][u]
    PROVE  \E r \in Request : ChangeAuthorized(r, w, u)
<1>1. PICK r \in Request : CommitUpdate(r) \/ CommitAdd(r) \/ CommitBootstrap(r)
  BY OnlyCommitsWrite
     DEF AccessNext, accessVars, tables, Administer, SetUserStatus, DisableOrganization,
         DisableWorkspace
<1>2. /\ RequestInv(r) /\ WellFormed(input[r]) /\ r \in InFlight
      /\ phase[r] = "written" /\ phase'[r] = "idle"
      /\ input[r].home = input[r].workspace
      /\ input[r].workspace \in Workspace /\ input[r].user \in User
  BY <1>1 DEF AccessInv, AccessTypeOK, RequestsInv, RequestInv, Placed, WellFormed, Input,
              TargetCurrent, At, InFlight, Finish, CommitUpdate, CommitAdd, CommitBootstrap
<1>3. w = input[r].workspace /\ u = input[r].user
  BY SMTT(30), <1>1, <1>2 DEF AccessInv, AccessTypeOK, CommitUpdate, CommitAdd, CommitBootstrap
<1>4. CASE CommitUpdate(r)
  <2>1. /\ membership[w][u] # None
        /\ TouchesOwner(membership[w][u], input[r]) =>
              RoleHasPermission(input[r].actor, "membership.manage_owner")
    BY <1>2, <1>3, <1>4 DEF RequestInv, TargetCurrent, TargetRow, At, CommitUpdate
  <2>2. membership'[w][u] = Patched(membership[w][u], input[r])
    BY <1>2, <1>3, <1>4 DEF AccessInv, AccessTypeOK, CommitUpdate
  <2>3. RoleHasPermission(input[r].actor, "membership.manage")
    BY <1>2, <1>4 DEF WellFormed, MayRequest, CommitUpdate
  <2>4. QED
    BY <1>2, <1>3, <2>1, <2>2, <2>3 DEF ChangeAuthorized, TouchesOwner
<1>5. CASE CommitAdd(r)
  <2>1. membership[w][u] = None
    BY <1>2, <1>3, <1>5 DEF RequestInv, KeyFree, At, CommitAdd
  <2>2. membership'[w][u].role = input[r].role
    BY <1>2, <1>3, <1>5 DEF AccessInv, AccessTypeOK, CommitAdd
  <2>3. MayRequest(input[r]) /\ input[r].op = "add"
    BY SMTT(30), <1>2, <1>5 DEF WellFormed, CommitAdd
  <2>4. QED
    BY <1>2, <1>3, <2>1, <2>2, <2>3 DEF ChangeAuthorized, MayRequest
<1>6. CASE CommitBootstrap(r)
  BY <1>2, <1>3, <1>6 DEF RequestInv, Referenced, CommitBootstrap, ChangeAuthorized
<1>7. QED
  BY <1>1, <1>4, <1>5, <1>6

\* An authorization read before the UPDATE is still good at the commit.
THEOREM AccessChangesAuthorized == AccessSpec => ChangesAuthorized
<1>1. AccessInv /\ [AccessNext]_accessVars =>
         [\A w \in Workspace, u \in User :
             membership'[w][u] # membership[w][u] =>
                \E r \in Request : ChangeAuthorized(r, w, u)]_accessVars
  BY StepIsAuthorized
<1>2. QED
  BY <1>1, AccessInvariant, PTL DEF AccessSpec, ChangesAuthorized

-----------------------------------------------------------------------------
(* The two services on one database                                         *)

\* The proofs about the team service hold of it here as well.
TP == INSTANCE TeamsProofs
      WITH Request <- TeamRequest, phase <- teamPhase, input <- teamInput

\* The locks each request holds are those of the statements it has run.
AccessLocks(r) ==
    LET in == input[r] IN
    IF phase[r] \in {"idle", "resolved"} THEN {}
    ELSE IF in.op = "update"
         THEN {<<WorkspaceKey(in.workspace), Update>>}
                 \cup (IF phase[r] = "written" THEN {<<MembershipKey(in.home, in.user), NoKeyUpdate>>}
                       ELSE {})
         ELSE {<<UserKey(in.user), Share>>}
                 \cup (IF At(r, "add", {"written"}) THEN {<<WorkspaceKey(in.workspace), KeyShare>>}
                       ELSE {})

LocksExact ==
    /\ \A r \in Request : held[r] = AccessLocks(r)
    /\ \A r \in TeamRequest : held[r] = TP!RequestLocks(r)
    /\ \A t \in Transaction \ (Request \cup TeamRequest) : held[t] = {}

SystemInv == AccessInv /\ TP!TeamsInv /\ LocksExact

-----------------------------------------------------------------------------
(* The two instances of the team service                                    *)

LEMMA TeamAssumptions ==
    /\ TP!RoleAssumption /\ TP!UserAssumption /\ TP!NoneAssumption
    /\ TP!RequestAssumption /\ TP!NoTeamAssumption
BY RoleAssumption, UserAssumption, NoneAssumption, TeamRequestAssumption, TeamRowAssumption
   DEF TP!RoleAssumption, TP!UserAssumption, TP!NoneAssumption, TP!RequestAssumption,
       TP!NoTeamAssumption, TP!WorkspaceRole, WorkspaceRole, TP!IsFiniteSet, IsFiniteSet,
       TP!Status, Status, TP!MembershipRow, MembershipRow, TP!TenantRow, TenantRow,
       TP!TeamRow, T!TeamRow, T!Status

\* Every definition on the way from a step to the variables is the same.
LEMMA SameTeamService ==
    /\ \A r \in TeamRequest : T!RequestStep(r) <=> TP!RequestStep(r)
    /\ T!NoTeams <=> TP!NoTeams
<1>1. ASSUME NEW r \in TeamRequest PROVE T!RequestStep(r) <=> TP!RequestStep(r)
  BY ZenonT(60)
     DEF T!RequestStep, T!ResolveAccess, T!Advance, T!Rollback, T!Reject, T!Finish, T!Release,
         T!Goto, T!WellFormed, T!tables, T!teamTables, T!InsertTeam, T!UpdateTeam, T!TargetTeam,
         T!FindTeamForActivation, T!FindTeam, T!FindTeamMembership, T!TargetRow, T!LockMember,
         T!LockUser, T!OtherRowOfJoin, T!ActiveMember, T!InsertTeamMembership, T!InsertPending,
         T!CommitInsert,
         T!CommitStatus, T!UpdateTeamMembership, T!Acquire, T!Unlocked, T!Conflict, T!HasAccess,
         T!RoleHasPermission, T!WorkspaceRole, T!Permission, T!RolePermissions, T!Input,
         T!CreateInput, T!PatchInput, T!AddInput, T!ChangeInput, T!Member, T!Status, T!Mode,
         T!KeyShare, T!Share, T!NoKeyUpdate, T!Update, T!UserKey, T!WorkspaceKey,
         T!MembershipKey, T!TeamKey, T!TeamMembershipKey,
         TP!RequestStep, TP!ResolveAccess, TP!Advance, TP!Rollback, TP!Reject, TP!Finish,
         TP!Release, TP!Goto, TP!WellFormed, TP!tables, TP!teamTables, TP!InsertTeam,
         TP!UpdateTeam, TP!TargetTeam, TP!FindTeamForActivation, TP!FindTeam,
         TP!FindTeamMembership, TP!TargetRow, TP!LockMember, TP!LockUser, TP!OtherRowOfJoin,
         TP!ActiveMember,
         TP!InsertTeamMembership, TP!InsertPending, TP!CommitInsert, TP!CommitStatus,
         TP!UpdateTeamMembership, TP!Acquire, TP!Unlocked, TP!Conflict, TP!HasAccess,
         TP!RoleHasPermission, TP!WorkspaceRole, TP!Permission, TP!RolePermissions, TP!Input,
         TP!CreateInput, TP!PatchInput, TP!AddInput, TP!ChangeInput, TP!Member, TP!Status,
         TP!Mode, TP!KeyShare, TP!Share, TP!NoKeyUpdate, TP!Update, TP!UserKey,
         TP!WorkspaceKey, TP!MembershipKey, TP!TeamKey, TP!TeamMembershipKey
<1>2. T!NoTeams <=> TP!NoTeams
  BY DEF T!NoTeams, TP!NoTeams, T!Member, TP!Member
<1>3. QED
  BY <1>1, <1>2

\* What the proofs about the team service say of one of its steps here.
LEMMA TeamStep ==
    ASSUME TP!TeamsInv, NEW r \in TeamRequest, T!RequestStep(r)
    PROVE  /\ TP!TeamsInv'
           /\ [TP!Rules!Next]_(TP!Rules!tables)
           /\ \A s \in TeamRequest \ {r} : teamPhase'[s] = teamPhase[s] /\ teamInput'[s] = teamInput[s]
           /\ held[r] = TP!RequestLocks(r) => held' = [held EXCEPT ![r] = TP!RequestLocks(r)']
           /\ UNCHANGED <<userStatus, tenant, membership>>
           /\ \/ UNCHANGED held
              \/ Release(r)
              \/ \E row \in Row, mode \in Mode : Acquire(r, row, mode)
<1>1. TP!RequestStep(r) /\ TP!TeamsNext
  BY SameTeamService DEF TP!TeamsNext
<1>2. TP!TeamsInv'
  BY <1>1, TeamAssumptions, TP!TeamsStepKeepsInv DEF TP!TeamsStepKeepsInv
<1>3. [TP!Rules!Next]_(TP!Rules!tables)
  BY <1>1, TeamAssumptions, TP!TeamsStepIsRule DEF TP!TeamsStepIsRule
<1>4. /\ UNCHANGED <<userStatus, tenant, membership>>
      /\ \/ UNCHANGED held
         \/ TP!Release(r)
         \/ \E row \in TP!Row, mode \in TP!Mode : TP!Acquire(r, row, mode)
  BY <1>1, TeamAssumptions, TP!StepEffect DEF TP!StepEffect
<1>5. TP!Release(r) <=> Release(r)
  BY DEF TP!Release, Release
<1>6. /\ TP!Row = Row /\ TP!Mode = Mode
      /\ \A row, mode : TP!Acquire(r, row, mode) <=> Acquire(r, row, mode)
  BY ZenonT(30) DEF TP!Row, Row, TP!Mode, Mode, TP!Acquire, Acquire, TP!Unlocked, Unlocked, TP!Conflict,
         Conflict, TP!KeyShare, KeyShare, TP!Share, Share, TP!NoKeyUpdate, NoKeyUpdate,
         TP!Update, Update
<1>7. \A s \in TeamRequest \ {r} : teamPhase'[s] = teamPhase[s] /\ teamInput'[s] = teamInput[s]
  BY <1>1, TeamAssumptions, TP!OnlyItself DEF TP!OnlyItself
<1>8. held[r] = TP!RequestLocks(r) => held' = [held EXCEPT ![r] = TP!RequestLocks(r)']
  BY <1>1, TeamAssumptions, TP!StepLocks DEF TP!StepLocks
<1>9. QED
  BY <1>2, <1>3, <1>4, <1>5, <1>6, <1>7, <1>8

-----------------------------------------------------------------------------
(* Steps of the access service                                              *)

LEMMA RequestsApart == \A r \in Request : r \in Transaction /\ r \notin TeamRequest
BY RequestAssumption, TeamRequestAssumption

\* A request that has come to an end holds nothing.
LEMMA FinishedHoldsNothing ==
    ASSUME AccessInv, NEW r \in Request, Finish(r)
    PROVE  held' = [held EXCEPT ![r] = AccessLocks(r)']
BY RequestsApart DEF AccessInv, AccessTypeOK, Finish, Release, AccessLocks

LEMMA AccessStepLocks ==
    ASSUME AccessInv, LocksExact, NEW r \in Request, RequestStep(r)
    PROVE  held' = [held EXCEPT ![r] = AccessLocks(r)']
<1> DEFINE in == input[r]
<1>1. /\ phase[r] # "idle" => /\ in \in Input /\ phase[r] \in PhasesOf(in.op)
                              /\ in.op \in {"add", "update", "bootstrap"}
      /\ r \in Transaction /\ held \in [Transaction -> SUBSET Lock]
      /\ held[r] = AccessLocks(r)
  BY RequestsApart
     DEF AccessInv, AccessTypeOK, RequestsInv, RequestInv, Placed, WellFormed, Input, InFlight, LocksExact
<1>2. CASE Finish(r)
  BY <1>2, FinishedHoldsNothing
<1>3. ASSUME NEW p \in Phase, Goto(r, p) PROVE phase'[r] = p /\ input' = input
  BY <1>3 DEF AccessInv, AccessTypeOK, Goto
<1>4. CASE ResolveAccess(r) \/ StartBootstrap(r)
  <2>1. PICK new : Begin(r, new)
    BY <1>4 DEF ResolveAccess, StartBootstrap
  <2>2. phase[r] = "idle" /\ phase'[r] = "resolved" /\ held' = held
    BY <2>1 DEF Begin, AccessInv, AccessTypeOK
  <2>3. QED
    BY <1>1, <2>2 DEF AccessLocks
<1>5. CASE LockWorkspace(r)
  <2>1. /\ phase[r] = "resolved" /\ phase'[r] = "workspaceLocked" /\ input' = input
        /\ in.op = "update"
        /\ held' = [held EXCEPT ![r] = @ \cup {<<WorkspaceKey(in.workspace), Update>>}]
    BY <1>3, <1>5 DEF LockWorkspace, Acquire, Phase
  <2>2. QED
    BY <1>1, <2>1 DEF AccessLocks, WorkspaceKey
<1>6. CASE (FindTarget(r) \/ CountActiveOwners(r)) /\ ~Finish(r)
  <2>1. /\ in.op = "update" /\ phase[r] \in {"workspaceLocked", "counting"} /\ held' = held
        /\ phase'[r] \in {"counting", "updating"} /\ input' = input
    BY <1>1, <1>3, <1>6 DEF FindTarget, CountActiveOwners, Reject, Phase, PhasesOf
  <2>2. QED
    BY <1>1, <2>1 DEF AccessLocks
<1>7. CASE UpdateRow(r)
  <2>1. /\ in.op = "update" /\ phase[r] = "updating" /\ phase'[r] = "written" /\ input' = input
        /\ held' = [held EXCEPT ![r] = @ \cup {<<MembershipKey(in.home, in.user), NoKeyUpdate>>}]
    BY <1>1, <1>3, <1>7 DEF UpdateRow, Acquire, Phase, PhasesOf
  <2>2. QED
    BY <1>1, <2>1 DEF AccessLocks
<1>8. CASE FindActiveUser(r) /\ ~Finish(r)
  <2>1. /\ in.op # "update" /\ phase[r] = "resolved" /\ phase'[r] = "userLocked" /\ input' = input
        /\ held' = [held EXCEPT ![r] = @ \cup {<<UserKey(in.user), Share>>}]
    BY <1>1, <1>3, <1>8 DEF FindActiveUser, Reject, Acquire, Phase
  <2>2. QED
    BY <1>1, <2>1 DEF AccessLocks, At
<1>9. CASE InsertMembership(r) /\ ~Finish(r)
  <2>1. /\ in.op = "add" /\ phase[r] = "userLocked" /\ phase'[r] = "inserted" /\ input' = input
        /\ held' = held
    BY <1>1, <1>3, <1>9 DEF InsertMembership, Reject, Phase
  <2>2. QED
    BY <1>1, <2>1 DEF AccessLocks, At
<1>10. CASE CheckWorkspaceReference(r)
  <2>1. /\ in.op = "add" /\ phase[r] = "inserted" /\ phase'[r] = "written" /\ input' = input
        /\ held' = [held EXCEPT ![r] = @ \cup {<<WorkspaceKey(in.workspace), KeyShare>>}]
    BY <1>1, <1>3, <1>10 DEF CheckWorkspaceReference, Acquire, Phase, PhasesOf
  <2>2. QED
    BY <1>1, <2>1 DEF AccessLocks, At
<1>11. CASE InsertOrganization(r) \/ InsertWorkspace(r) \/ InsertOwner(r)
  <2>1. /\ in.op = "bootstrap" /\ held' = held /\ input' = input
        /\ phase[r] \in {"userLocked", "organizationInserted", "workspaceInserted"}
        /\ phase'[r] \in {"organizationInserted", "workspaceInserted", "written"}
    BY <1>1, <1>3, <1>11 DEF InsertOrganization, InsertWorkspace, InsertOwner, Phase, PhasesOf
  <2>2. QED
    BY <1>1, <2>1 DEF AccessLocks, At
<1>12. CASE CommitUpdate(r) \/ CommitAdd(r) \/ CommitBootstrap(r) \/ Rollback(r)
  BY <1>2, <1>12 DEF CommitUpdate, CommitAdd, CommitBootstrap, Rollback, Reject
<1>13. QED
  BY <1>2, <1>4, <1>5, <1>6, <1>7, <1>8, <1>9, <1>10, <1>11, <1>12 DEF RequestStep, Advance

LEMMA OnlyItself ==
    ASSUME AccessInv, NEW r \in Request, RequestStep(r)
    PROVE  \A s \in Request \ {r} : phase'[s] = phase[s] /\ input'[s] = input[s]
<1>1. \E p \in Phase : \E x : phase' = [phase EXCEPT ![r] = p] /\ input' = [input EXCEPT ![r] = x]
  BY DEF RequestStep, ResolveAccess, StartBootstrap, Begin, Goto, Finish, Advance, LockWorkspace, FindTarget,
       CountActiveOwners, UpdateRow, FindActiveUser, InsertMembership, CheckWorkspaceReference,
       InsertOrganization, InsertWorkspace, InsertOwner, Rollback, Reject,
       CommitUpdate, CommitAdd, CommitBootstrap, AccessInv, AccessTypeOK, Phase
<1>2. QED
  BY <1>1 DEF AccessInv, AccessTypeOK

LEMMA AccessStepKeepsLocks ==
    ASSUME AccessInv, LocksExact, AccessNext, UNCHANGED teamServiceVars
    PROVE  LocksExact' /\ \A r \in TeamRequest : held'[r] = held[r]
<1>1. UNCHANGED <<teamPhase, teamInput>>
  BY DEF teamServiceVars
<1>2. \A r \in TeamRequest : TP!RequestLocks(r)' = TP!RequestLocks(r)
  BY <1>1 DEF TP!RequestLocks
<1>3. CASE Administer
  <2>1. UNCHANGED <<held, phase, input>>
    BY <1>3 DEF Administer, SetUserStatus, DisableOrganization, DisableWorkspace, requestVars
  <2>2. QED
    BY <1>2, <2>1 DEF LocksExact, AccessLocks, At
<1>4. ASSUME NEW r \in Request, RequestStep(r)
      PROVE  LocksExact' /\ \A s \in TeamRequest : held'[s] = held[s]
  <2>1. held' = [held EXCEPT ![r] = AccessLocks(r)'] /\ held \in [Transaction -> SUBSET Lock]
    BY <1>4, AccessStepLocks DEF AccessInv, AccessTypeOK
  <2>2. \A s \in Request \ {r} : phase'[s] = phase[s] /\ input'[s] = input[s]
    BY <1>4, OnlyItself
  <2>3. \A s \in Request \ {r} : AccessLocks(s)' = AccessLocks(s)
    BY <2>2 DEF AccessLocks, At
  <2>4. QED
    BY <1>2, <2>1, <2>3, RequestsApart DEF LocksExact
<1>5. QED
  BY <1>3, <1>4 DEF AccessNext

\* A membership that is there is written only by a request that has locked it.
LEMMA MembershipWriters ==
    ASSUME AccessInv, LocksExact, AccessNext, NEW w \in Workspace, NEW u \in User,
           membership'[w][u] # membership[w][u], membership[w][u] # None
    PROVE  \E r \in Request : <<MembershipKey(w, u), NoKeyUpdate>> \in held[r]
<1>1. PICK r \in Request : CommitUpdate(r) \/ CommitAdd(r) \/ CommitBootstrap(r)
  BY OnlyCommitsWrite
     DEF AccessNext, tables, Administer, SetUserStatus, DisableOrganization, DisableWorkspace
<1>2. /\ RequestInv(r) /\ r \in InFlight /\ phase[r] = "written"
      /\ input[r].home = input[r].workspace
      /\ input[r].workspace \in Workspace /\ input[r].user \in User
  BY <1>1 DEF AccessInv, RequestsInv, RequestInv, Placed, WellFormed, Input,
              TargetCurrent, At, InFlight, CommitUpdate, CommitAdd, CommitBootstrap
<1>3. w = input[r].workspace /\ u = input[r].user
  BY SMTT(30), <1>1, <1>2 DEF AccessInv, AccessTypeOK, CommitUpdate, CommitAdd, CommitBootstrap
<1>4. CASE CommitUpdate(r)
  BY <1>2, <1>3, <1>4 DEF LocksExact, AccessLocks, CommitUpdate
<1>5. CASE CommitAdd(r)
  BY <1>2, <1>3, <1>5 DEF RequestInv, KeyFree, At, CommitAdd
<1>6. CASE CommitBootstrap(r)
  BY <1>2, <1>3, <1>6 DEF RequestInv, Referenced, CommitBootstrap, AccessInv, MembersHaveTenant
<1>7. QED
  BY <1>1, <1>4, <1>5, <1>6

\* The status of a user is written only while nobody has locked the row.
LEMMA UserWriters ==
    ASSUME AccessInv, AccessNext, NEW u \in User, userStatus'[u] # userStatus[u]
    PROVE  Unlocked(UserKey(u), NoKeyUpdate, Transaction)
<1>1. Administer
  BY OnlyCommitsWrite DEF AccessNext, tables, CommitUpdate, CommitAdd, CommitBootstrap
<1>2. QED
  BY <1>1
     DEF AccessInv, AccessTypeOK, Administer, SetUserStatus, DisableOrganization, DisableWorkspace

\* What a team request has read FOR SHARE, no step of the access service writes.
LEMMA ReadRowsStay ==
    ASSUME SystemInv, AccessNext, NEW s \in TeamRequest
    PROVE  /\ \A w \in Workspace, u \in User :
                 <<MembershipKey(w, u), Share>> \in held[s] /\ membership[w][u] # None =>
                    membership'[w][u] = membership[w][u]
           /\ \A u \in User : <<UserKey(u), Share>> \in held[s] => userStatus'[u] = userStatus[u]
<1>1. s \in Transaction /\ Share \in Mode /\ NoKeyUpdate \in Mode /\ Conflict(Share, NoKeyUpdate)
  BY TeamRequestAssumption DEF Mode, Conflict, Share, NoKeyUpdate, KeyShare
<1>2. ASSUME NEW w \in Workspace, NEW u \in User, <<MembershipKey(w, u), Share>> \in held[s],
             membership[w][u] # None, membership'[w][u] # membership[w][u]
      PROVE  FALSE
  <2>1. PICK r \in Request : <<MembershipKey(w, u), NoKeyUpdate>> \in held[r]
    BY <1>2, MembershipWriters DEF SystemInv
  <2>2. r \in Transaction /\ r # s
    BY RequestsApart
  <2>3. MembershipKey(w, u) \in Row
    BY DEF MembershipKey, Row
  <2>4. QED
    BY <1>1, <1>2, <2>1, <2>2, <2>3 DEF SystemInv, AccessInv, LocksCompatible
<1>3. ASSUME NEW u \in User, <<UserKey(u), Share>> \in held[s], userStatus'[u] # userStatus[u]
      PROVE  FALSE
  BY <1>1, <1>3, UserWriters DEF SystemInv, Unlocked
<1>4. QED
  BY <1>2, <1>3

LEMMA AccessStepKeepsTeams ==
    ASSUME SystemInv, AccessNext, UNCHANGED teamServiceVars, AccessInv',
           \A s \in TeamRequest : held'[s] = held[s]
    PROVE  TP!TeamsInv'
<1>1. UNCHANGED <<team, teamMember, teamPhase, teamInput>>
  BY DEF teamServiceVars
<1>2. TP!TeamsTypeOK'
  <2>1. /\ TP!Status = Status /\ TP!TenantRow = TenantRow /\ TP!MembershipRow = MembershipRow
        /\ TP!Lock = Lock
    BY DEF TP!Status, Status, TP!TenantRow, TenantRow, TP!MembershipRow, MembershipRow,
           TP!Lock, Lock, TP!Row, Row, TP!Mode, Mode, TP!KeyShare, KeyShare, TP!Share, Share,
           TP!NoKeyUpdate, NoKeyUpdate, TP!Update, Update
  <2>2. /\ TP!TeamsTypeOK /\ AccessTypeOK'
    BY DEF SystemInv, TP!TeamsInv, AccessInv
  <2>3. QED
    BY <1>1, <2>1, <2>2 DEF TP!TeamsTypeOK, AccessTypeOK
<1>3. ASSUME NEW s \in TeamRequest, teamPhase[s] # "idle"
      PROVE  TP!RequestInv(s)' /\ TP!IdFresh(s)'
  <2> DEFINE m == teamInput[s].member
  <2>1. TP!RequestInv(s) /\ TP!IdFresh(s) /\ TP!Placed(s) /\ teamInput[s] \in TP!Input
    BY <1>3 DEF SystemInv, TP!TeamsInv, TP!RequestInv, TP!Placed
  <2>2. TP!Activates(s) => m \in Workspace \X User
    BY <2>1 DEF TP!Activates, TP!Input, TP!CreateInput, TP!PatchInput, TP!AddInput,
                TP!ChangeInput, TP!Member
  <2>3. /\ TP!MembershipKey(m[1], m[2]) = MembershipKey(m[1], m[2])
        /\ TP!UserKey(m[2]) = UserKey(m[2]) /\ TP!Share = Share
    BY DEF TP!MembershipKey, MembershipKey, TP!UserKey, UserKey, TP!Share, Share
  <2>4. TP!Placed(s)' /\ TP!TeamCurrent(s)' /\ TP!RowCurrent(s)' /\ TP!IdFresh(s)'
    BY <1>1, <1>3, <2>1
       DEF TP!RequestInv, TP!Placed, TP!TeamCurrent, TP!RowCurrent, TP!IdFresh, TP!Activates
  <2>5. TP!MemberCurrent(s)'
    BY <1>1, <1>3, <2>1, <2>2, <2>3, ReadRowsStay DEF TP!RequestInv, TP!MemberCurrent, TP!Activates
  <2>6. TP!UserCurrent(s)'
    BY <1>1, <1>3, <2>1, <2>2, <2>3, ReadRowsStay DEF TP!RequestInv, TP!UserCurrent, TP!Activates
  <2>7. QED
    BY <2>4, <2>5, <2>6 DEF TP!RequestInv
<1>4. QED
  BY <1>1, <1>2, <1>3 DEF TP!TeamsInv, TP!RequestInv

-----------------------------------------------------------------------------
(* Steps of the team service                                                *)

LEMMA TeamStepKeepsAccess ==
    ASSUME SystemInv, NEW r \in TeamRequest, T!RequestStep(r), UNCHANGED requestVars
    PROVE  AccessInv' /\ \A t \in Transaction \ {r} : held'[t] = held[t]
<1>1. UNCHANGED <<userStatus, tenant, membership, phase, input>> /\ UNCHANGED tables
  BY TeamStep DEF SystemInv, requestVars, tables
<1>2. /\ r \in Transaction /\ held \in [Transaction -> SUBSET Lock] /\ LocksCompatible
  BY TeamRequestAssumption DEF SystemInv, AccessInv, AccessTypeOK
<1>3. /\ held' \in [Transaction -> SUBSET Lock] /\ LocksCompatible'
      /\ \A t \in Transaction \ {r} : held'[t] = held[t]
  <2>1. CASE UNCHANGED held
    BY <1>2, <2>1 DEF LocksCompatible
  <2>2. CASE Release(r)
    BY <1>2, <2>2, ReleaseCompatible
  <2>3. ASSUME NEW row \in Row, NEW mode \in Mode, Acquire(r, row, mode)
        PROVE  /\ held' \in [Transaction -> SUBSET Lock] /\ LocksCompatible'
               /\ \A t \in Transaction \ {r} : held'[t] = held[t]
    BY <1>2, <2>3, AcquireCompatible DEF Acquire
  <2>4. QED
    BY <2>1, <2>2, <2>3, TeamStep DEF SystemInv
<1>4. \A s \in InFlight : RequestInv(s)'
  BY <1>1, <1>3, RequestsApart, Undisturbed DEF SystemInv, InFlight
<1>5. RequestsInv'
  BY <1>1, <1>4 DEF SystemInv, AccessInv, RequestsInv, InFlight, Apart, At
<1>6. AccessTypeOK' /\ MembersHaveTenant' /\ EveryWorkspaceHasActiveOwner'
  BY <1>1, <1>3 DEF SystemInv, AccessInv, AccessTypeOK, MembersHaveTenant,
                    EveryWorkspaceHasActiveOwner, ActiveOwners
<1>7. QED
  BY <1>3, <1>5, <1>6 DEF AccessInv

LEMMA TeamStepKeepsLocks ==
    ASSUME SystemInv, NEW r \in TeamRequest, T!RequestStep(r), UNCHANGED requestVars
    PROVE  LocksExact'
<1>1. /\ held' = [held EXCEPT ![r] = TP!RequestLocks(r)']
      /\ \A s \in TeamRequest \ {r} : teamPhase'[s] = teamPhase[s] /\ teamInput'[s] = teamInput[s]
      /\ UNCHANGED <<phase, input>> /\ held \in [Transaction -> SUBSET Lock] /\ r \in Transaction
  BY TeamStep, TeamRequestAssumption DEF SystemInv, LocksExact, requestVars, AccessInv, AccessTypeOK
<1>2. \A s \in TeamRequest \ {r} : TP!RequestLocks(s)' = TP!RequestLocks(s)
  BY <1>1 DEF TP!RequestLocks
<1>3. \A s \in Request : AccessLocks(s)' = AccessLocks(s)
  BY <1>1 DEF AccessLocks, At
<1>4. QED
  BY <1>1, <1>2, <1>3, RequestsApart, TeamRequestAssumption DEF SystemInv, LocksExact

-----------------------------------------------------------------------------
(* Why nobody waits in a circle: were all open requests to wait, none would *)
(* have written yet, so nobody would hold the row of a team membership; an  *)
(* activation would find what it reads locked by readers only; with no      *)
(* activation under way an update could have the row of its membership; and *)
(* with no update holding a workspace nobody would have anything to wait    *)
(* for.                                                                     *)

Stuck ==
    /\ \A r \in Request : ~AccessReady(r)
    /\ \A r \in TeamRequest : ~TeamReady(r)

\* How far the open requests are, by operation.
LEMMA OpenRequests ==
    ASSUME SystemInv
    PROVE  /\ \A r \in Request : phase[r] # "idle" =>
                 /\ input[r].op = "update" =>
                       phase[r] \in {"resolved", "workspaceLocked", "counting", "updating", "written"}
                 /\ input[r].op = "add" =>
                       phase[r] \in {"resolved", "userLocked", "inserted", "written"}
                 /\ input[r].op = "bootstrap" =>
                       phase[r] \in {"resolved", "userLocked", "organizationInserted",
                                     "workspaceInserted", "written"}
                 /\ input[r].op \in {"add", "update", "bootstrap"}
           /\ \A r \in TeamRequest : teamPhase[r] # "idle" =>
                 /\ teamInput[r].op \in {"create", "patch"} => teamPhase[r] = "resolved"
                 /\ teamInput[r].op = "add" =>
                       teamPhase[r] \in {"resolved", "teamLocked", "memberLocked", "eligible", "written"}
                 /\ teamInput[r].op = "activate" =>
                       teamPhase[r] \in {"resolved", "teamLocked", "rowFound", "memberLocked",
                                         "eligible", "written"}
                 /\ teamInput[r].op = "deactivate" =>
                       teamPhase[r] \in {"resolved", "teamFound", "rowFound", "written"}
                 /\ teamInput[r].op \in {"create", "patch", "add", "activate", "deactivate"}
<1>1. ASSUME NEW r \in Request, phase[r] # "idle"
      PROVE  phase[r] \in PhasesOf(input[r].op) /\ input[r].op \in {"add", "update", "bootstrap"}
  BY <1>1 DEF SystemInv, AccessInv, RequestsInv, RequestInv, Placed, WellFormed, Input, InFlight
<1>2. ASSUME NEW r \in TeamRequest, teamPhase[r] # "idle"
      PROVE  /\ teamPhase[r] \in TP!PhasesOf(teamInput[r].op)
             /\ teamInput[r].op \in {"create", "patch", "add", "activate", "deactivate"}
  BY <1>2 DEF SystemInv, TP!TeamsInv, TP!RequestInv, TP!Placed, TP!Input, TP!CreateInput,
              TP!PatchInput, TP!AddInput, TP!ChangeInput
<1>3. QED
  BY <1>1, <1>2 DEF PhasesOf, TP!PhasesOf

LEMMA NobodyHasWritten ==
    ASSUME Stuck
    PROVE  /\ \A r \in Request : phase[r] # "written"
           /\ \A r \in TeamRequest : teamPhase[r] # "written"
BY DEF Stuck, AccessReady, TeamReady

\* The only lock against a reader is then that of an update on its workspace.
LEMMA LocksWhileStuck ==
    ASSUME SystemInv, Stuck, NEW t \in Transaction, NEW row, NEW mode, <<row, mode>> \in held[t]
    PROVE  \/ /\ t \in Request /\ input[t].op = "update"
              /\ phase[t] \in {"workspaceLocked", "counting", "updating"}
              /\ row = WorkspaceKey(input[t].workspace)
           \/ t \in Request /\ mode = Share /\ row = UserKey(input[t].user)
           \/ /\ t \in TeamRequest /\ teamPhase[t] # "idle"
              /\ teamInput[t].op \in {"add", "activate"}
              /\ mode = Share
              /\ \/ row = TeamKey(teamInput[t].team)
                 \/ \E w, u : row = MembershipKey(w, u)
                 \/ \E u : row = UserKey(u)
<1>1. CASE t \in Request
  <2>1. <<row, mode>> \in AccessLocks(t) /\ phase[t] # "written"
    BY <1>1, NobodyHasWritten DEF SystemInv, LocksExact
  <2>2. QED
    BY <1>1, <2>1, OpenRequests DEF AccessLocks, At
<1>2. CASE t \in TeamRequest
  <2>1. <<row, mode>> \in TP!RequestLocks(t) /\ teamPhase[t] # "written"
    BY <1>2, NobodyHasWritten DEF SystemInv, LocksExact
  <2>2. QED
    BY <1>2, <2>1, OpenRequests, ZenonT(60)
       DEF TP!RequestLocks, TP!TeamKey, TeamKey, TP!MembershipKey, MembershipKey,
           TP!UserKey, UserKey, TP!Share, Share
<1>3. QED
  BY <1>1, <1>2 DEF SystemInv, LocksExact

LEMMA KeysDiffer ==
    /\ \A w, u, v : MembershipKey(w, u) # WorkspaceKey(v) /\ MembershipKey(w, u) # UserKey(v)
    /\ \A t, w, u : TeamKey(t) # WorkspaceKey(w) /\ TeamKey(t) # UserKey(u)
    /\ \A t, w, u : TeamKey(t) # MembershipKey(w, u)
    /\ \A u, w : UserKey(u) # WorkspaceKey(w)
    /\ \A t, w, u, v : /\ TeamMembershipKey(t, w, u) # WorkspaceKey(v)
                       /\ TeamMembershipKey(t, w, u) # UserKey(v)
                       /\ TeamMembershipKey(t, w, u) # TeamKey(v)
    /\ \A t, w, u, v, x : TeamMembershipKey(t, w, u) # MembershipKey(v, x)
BY DEF MembershipKey, WorkspaceKey, UserKey, TeamKey, TeamMembershipKey

LEMMA NobodyIsStuck ==
    ASSUME SystemInv
    PROVE  NoDeadlock
<1> SUFFICES ASSUME Stuck
             PROVE  /\ \A r \in Request : phase[r] = "idle"
                    /\ \A r \in TeamRequest : teamPhase[r] = "idle"
  BY DEF NoDeadlock, Stuck
<1>1. ~Conflict(Share, Share)
  BY DEF Conflict, Share, NoKeyUpdate, Update
<1>2. ASSUME NEW r \in TeamRequest, teamPhase[r] # "idle"
      PROVE  teamInput[r].op \in {"create", "patch"}
  <2> DEFINE m == teamInput[r].member
             home == teamInput[r].home
  <2>1. Free(r, TeamKey(teamInput[r].team), Share)
    BY <1>1, LocksWhileStuck, KeysDiffer DEF Free, Unlocked
  <2>2. Free(r, MembershipKey(m[1], m[2]), Share)
    BY <1>1, LocksWhileStuck, KeysDiffer DEF Free, Unlocked
  <2>3. Free(r, T!OtherRowOfJoin(m), Share)
    BY <1>1, LocksWhileStuck, KeysDiffer DEF Free, Unlocked, T!OtherRowOfJoin, T!UserKey, UserKey
  <2>4. Free(r, TeamMembershipKey(home, m[1], m[2]), NoKeyUpdate)
    BY LocksWhileStuck, KeysDiffer DEF Free, Unlocked
  <2>5. \A s \in TeamRequest : ~T!InsertPending(s, teamInput[r].team, m)
    BY NobodyHasWritten DEF T!InsertPending
  <2>6. ~TeamReady(r)
    BY DEF Stuck
  <2>7. QED
    BY <1>2, <2>1, <2>2, <2>3, <2>4, <2>5, <2>6, OpenRequests DEF TeamReady
<1>3. \A r \in TeamRequest : teamInput[r].op = "patch" => teamPhase[r] = "idle"
  <2>1. ASSUME NEW r \in TeamRequest, NEW mode PROVE Free(r, TeamKey(teamInput[r].team), mode)
    BY <1>2, LocksWhileStuck, KeysDiffer DEF Free, Unlocked
  <2>2. QED
    BY <2>1, OpenRequests DEF Stuck, TeamReady
<1>4. \A r \in Request : phase[r] \notin {"workspaceLocked", "counting", "updating"}
  <2>1. ASSUME NEW r \in Request
        PROVE  Free(r, MembershipKey(input[r].home, input[r].user), NoKeyUpdate)
    BY <1>2, LocksWhileStuck, KeysDiffer DEF Free, Unlocked
  <2>2. QED
    BY <2>1 DEF Stuck, AccessReady
<1>5. ASSUME NEW r, NEW w, NEW mode PROVE Free(r, WorkspaceKey(w), mode)
  BY <1>2, <1>4, LocksWhileStuck, KeysDiffer DEF Free, Unlocked
<1>6. \A r \in TeamRequest : teamPhase[r] = "idle"
  BY <1>2, <1>3, <1>5, OpenRequests DEF Stuck, TeamReady
<1>7. \A r \in Request : phase[r] # "inserted"
  BY <1>5 DEF Stuck, AccessReady
<1>8. ASSUME NEW r \in Request, phase[r] # "idle" PROVE FALSE
  <2>1. Free(r, UserKey(input[r].user), Share)
    BY <1>1, LocksWhileStuck, KeysDiffer DEF Free, Unlocked
  <2>2. \A s \in Request : ~InsertPending(s, input[r].workspace, input[r].user)
    BY <1>7, NobodyHasWritten DEF InsertPending
  <2>3. QED
    BY <1>4, <1>5, <1>7, <1>8, <2>1, <2>2, NobodyHasWritten DEF Stuck, AccessReady
<1>9. QED
  BY <1>6, <1>8

-----------------------------------------------------------------------------
(* The theorems                                                             *)

LEMMA SystemInvInit == SystemInit => SystemInv
<1> SUFFICES ASSUME SystemInit PROVE SystemInv
  OBVIOUS
<1>1. AccessInv /\ TP!NoTeams
  BY InitEstablishesInv, SameTeamService DEF SystemInit
<1>2. TP!TeamsTypeOK
  BY <1>1, TeamRequestAssumption DEF SystemInit, AccessInit, TP!NoTeams, TP!TeamsTypeOK, TP!Status, TP!Phase
<1>3. TP!TeamsInv
  BY <1>1, <1>2 DEF TP!NoTeams, TP!TeamsInv, TP!RequestInv
<1>4. LocksExact
  BY <1>1, RequestsApart, TeamRequestAssumption
     DEF SystemInit, AccessInit, TP!NoTeams, LocksExact, AccessLocks, TP!RequestLocks
<1>5. QED
  BY <1>1, <1>3, <1>4 DEF SystemInv

LEMMA SystemStepKeepsInv ==
    ASSUME SystemInv, [SystemNext]_systemVars
    PROVE  SystemInv'
<1>1. CASE AccessNext /\ UNCHANGED teamServiceVars
  <2>1. AccessInv'
    BY <1>1, StepKeepsInv DEF SystemInv
  <2>2. LocksExact' /\ \A s \in TeamRequest : held'[s] = held[s]
    BY <1>1, AccessStepKeepsLocks DEF SystemInv
  <2>3. TP!TeamsInv'
    BY <1>1, <2>1, <2>2, AccessStepKeepsTeams
  <2>4. QED
    BY <2>1, <2>2, <2>3 DEF SystemInv
<1>2. ASSUME NEW r \in TeamRequest, T!RequestStep(r), UNCHANGED requestVars PROVE SystemInv'
  BY <1>2, TeamStep, TeamStepKeepsAccess, TeamStepKeepsLocks DEF SystemInv
<1>3. CASE UNCHANGED systemVars
  <2>1. UNCHANGED accessVars /\ UNCHANGED <<userStatus, tenant, membership, held, phase, input>>
        /\ UNCHANGED <<team, teamMember, teamPhase, teamInput>>
    BY <1>3 DEF systemVars, accessVars, teamServiceVars
  <2>2. AccessInv'
    BY <2>1, StepKeepsInv DEF SystemInv
  <2>3. TP!TeamsInv'
    <3>1. TP!TeamsInv /\ UNCHANGED TP!teamVars
      BY <2>1 DEF SystemInv, TP!teamVars
    <3>2. QED
      BY <3>1, TeamAssumptions, TP!TeamsStepKeepsInv DEF TP!TeamsStepKeepsInv
  <2>4. LocksExact'
    BY <2>1 DEF SystemInv, LocksExact, AccessLocks, At, TP!RequestLocks
  <2>5. QED
    BY <2>2, <2>3, <2>4 DEF SystemInv
<1>4. QED
  BY <1>1, <1>2, <1>3 DEF SystemNext

\* The two services and the operators on one database: what any request of
\* either has read agrees with the tables as far as its locks protect it, and
\* every transaction holds exactly the locks of the statements it has run.
THEOREM SystemInvariant == SystemSpec => []SystemInv
BY SystemInvInit, SystemStepKeepsInv, PTL DEF SystemSpec

\* The transactions of the two services never wait for each other in a circle,
\* however many there are: some open request can always go on.
THEOREM SystemNeverDeadlocks == SystemSpec => []NoDeadlock
BY SystemInvariant, NobodyIsStuck, PTL

\* The team service keeps its rules beside the real access service: no
\* membership or user that an activation has read changes before it commits.
THEOREM SystemImplementsTeamRules == SystemSpec => TeamsImplementTeamRules
<1>1. SystemInit => /\ team = [t \in Team |-> None]
                    /\ teamMember = [t \in Team |-> [m \in Workspace \X User |-> None]]
  BY DEF SystemInit, T!NoTeams, T!Member
<1>2. ASSUME SystemInv, [SystemNext]_systemVars PROVE [T!Rules!Next]_(T!Rules!tables)
  <2>1. CASE UNCHANGED teamServiceVars
    BY <2>1 DEF teamServiceVars, T!Rules!Next
  <2>2. CASE ~UNCHANGED teamServiceVars
    <3>1. PICK r \in TeamRequest : T!RequestStep(r)
      BY <1>2, <2>2 DEF SystemNext, systemVars
    <3>2. [TP!Rules!Next]_(TP!Rules!tables)
      BY <1>2, <3>1, TeamStep DEF SystemInv
    <3>3. QED
      BY <3>2 DEF T!Rules!Next, T!Rules!tables, T!Rules!upstream, T!Rules!Status, T!Rules!PutTeam,
                  T!Rules!Eligible, T!Rules!Activate, T!Rules!Deactivate,
                  TP!Rules!Next, TP!Rules!tables, TP!Rules!upstream, TP!Rules!Status,
                  TP!Rules!PutTeam, TP!Rules!Eligible, TP!Rules!Activate, TP!Rules!Deactivate
  <2>3. QED
    BY <2>1, <2>2
<1>3. QED
  BY <1>1, <1>2, SystemInvariant, PTL
     DEF SystemSpec, TeamsImplementTeamRules, T!ImplementsTeamRules, T!Rules!Spec

\* The access service keeps its own rules while the team service locks the
\* same rows.
THEOREM SystemImplementsMembershipRules == SystemSpec => ImplementsMembershipRules
<1>1. SystemInit => Rules!Init
  BY DEF SystemInit, AccessInit, Rules!Init
<1>2. ASSUME SystemInv, [SystemNext]_systemVars PROVE [Rules!Next]_(Rules!tables)
  <2>1. CASE AccessNext
    BY <1>2, <2>1, StepIsRule DEF SystemInv
  <2>2. CASE ~AccessNext
    BY <1>2, <2>2, TeamStep DEF SystemInv, SystemNext, systemVars, accessVars, Rules!tables
  <2>3. QED
    BY <2>1, <2>2
<1>3. QED
  BY <1>1, <1>2, SystemInvariant, PTL DEF SystemSpec, ImplementsMembershipRules, Rules!Spec

\* With both services at work, no workspace is ever without an active owner.
THEOREM SystemOwnersRetained == SystemSpec => []EveryWorkspaceHasActiveOwner
<1>1. SystemInv => EveryWorkspaceHasActiveOwner
  BY DEF SystemInv, AccessInv
<1>2. QED
  BY <1>1, SystemInvariant, PTL

\* Also beside the team service, whoever changes a membership held the
\* permission for the row as it was and as it becomes at the commit.
THEOREM SystemChangesAuthorized == SystemSpec => ChangesAuthorized
<1>1. ASSUME SystemInv, [SystemNext]_systemVars
      PROVE  [\A w \in Workspace, u \in User :
                 membership'[w][u] # membership[w][u] =>
                    \E r \in Request : ChangeAuthorized(r, w, u)]_accessVars
  <2>1. CASE AccessNext
    BY <1>1, <2>1, StepIsAuthorized DEF SystemInv
  <2>2. CASE ~AccessNext
    BY <1>1, <2>2, TeamStep DEF SystemInv, SystemNext, systemVars, accessVars
  <2>3. QED
    BY <2>1, <2>2
<1>2. QED
  BY <1>1, SystemInvariant, PTL DEF SystemSpec, ChangesAuthorized

-----------------------------------------------------------------------------
(* The safety half of RequestsDrain                                         *)

\* How many statements a request has still to run, at most.
StatementsLeft(p) ==
    CASE p = "idle"    -> 0
      [] p = "written" -> 1
      [] p \in {"updating", "inserted", "workspaceInserted"} -> 2
      [] p \in {"counting", "organizationInserted"} -> 3
      [] p \in {"workspaceLocked", "userLocked"} -> 4
      [] p = "resolved" -> 5

StatementRuns(r) ==
    \/ phase[r] = "idle" /\ phase'[r] = "resolved"
    \/ /\ StatementsLeft(phase'[r]) < StatementsLeft(phase[r])
       /\ phase'[r] # "idle" => input'[r] = input[r]

OthersStay(r) == \A s \in Request \ {r} : phase'[s] = phase[s] /\ input'[s] = input[s]

TeamOthersStay(r) ==
    \A s \in TeamRequest \ {r} : teamPhase'[s] = teamPhase[s] /\ teamInput'[s] = teamInput[s]

\* One request at a time begins or runs a statement, which brings it closer to
\* its end; the other requests, and what they were asked, stay as they are.
RequestsOnlyAdvance ==
    \/ UNCHANGED <<phase, input, teamPhase, teamInput>>
    \/ \E r \in Request :
          StatementRuns(r) /\ OthersStay(r) /\ UNCHANGED <<teamPhase, teamInput>>
    \/ \E r \in TeamRequest :
          TP!StatementRuns(r) /\ TeamOthersStay(r) /\ UNCHANGED <<phase, input>>

LEMMA AccessStepRunsStatement ==
    ASSUME AccessInv, NEW r \in Request, RequestStep(r)
    PROVE  StatementRuns(r) /\ OthersStay(r)
<1> DEFINE in == input[r]
<1>1. /\ phase[r] # "idle" => /\ phase[r] \in PhasesOf(in.op)
                              /\ in.op \in {"add", "update", "bootstrap"}
      /\ phase[r] \in Phase
  BY DEF AccessInv, AccessTypeOK, RequestsInv, RequestInv, Placed, WellFormed, Input, InFlight
<1>2. OthersStay(r)
  <2>1. \E p, i : phase' = [phase EXCEPT ![r] = p] /\ input' = [input EXCEPT ![r] = i]
    BY DEF RequestStep, ResolveAccess, StartBootstrap, Begin, Advance, Rollback, Reject, Finish, Goto,
           LockWorkspace, FindTarget, CountActiveOwners, UpdateRow, CommitUpdate, FindActiveUser,
           InsertMembership, CheckWorkspaceReference, CommitAdd, InsertOrganization,
           InsertWorkspace, InsertOwner, CommitBootstrap, AccessInv, AccessTypeOK
  <2>2. QED
    BY <2>1 DEF OthersStay, AccessInv, AccessTypeOK
<1>3. ASSUME NEW p \in Phase, Goto(r, p) PROVE phase'[r] = p /\ input'[r] = input[r]
  BY <1>3 DEF AccessInv, AccessTypeOK, Goto
<1>4. CASE phase[r] # "idle" /\ Finish(r)
  <2>1. phase'[r] = "idle"
    BY <1>4 DEF Finish, AccessInv, AccessTypeOK
  <2>2. QED
    BY <1>1, <1>2, <1>4, <2>1 DEF StatementRuns, StatementsLeft, Phase
<1>5. CASE ResolveAccess(r) \/ StartBootstrap(r)
  <2>1. PICK new : Begin(r, new)
    BY <1>5 DEF ResolveAccess, StartBootstrap
  <2>2. QED
    BY <1>2, <2>1 DEF Begin, StatementRuns, AccessInv, AccessTypeOK
<1>6. CASE LockWorkspace(r) \/ (FindActiveUser(r) /\ ~Finish(r))
  <2>1. /\ phase[r] = "resolved" /\ phase'[r] \in {"workspaceLocked", "userLocked"}
        /\ input'[r] = input[r]
    BY <1>3, <1>6 DEF LockWorkspace, FindActiveUser, Reject, Phase
  <2>2. QED
    BY <1>2, <2>1 DEF StatementRuns, StatementsLeft
<1>7. CASE (FindTarget(r) \/ CountActiveOwners(r)) /\ ~Finish(r)
  <2>1. /\ \/ phase[r] = "workspaceLocked" /\ phase'[r] \in {"counting", "updating"}
           \/ phase[r] = "counting" /\ phase'[r] = "updating"
        /\ input'[r] = input[r]
    BY <1>3, <1>7 DEF FindTarget, CountActiveOwners, Reject, Phase
  <2>2. QED
    BY <1>2, <2>1 DEF StatementRuns, StatementsLeft
<1>8. CASE UpdateRow(r) \/ (InsertMembership(r) /\ ~Finish(r)) \/ CheckWorkspaceReference(r)
  <2>1. /\ \/ phase[r] \in {"updating", "inserted"} /\ phase'[r] = "written"
           \/ phase[r] = "userLocked" /\ phase'[r] = "inserted"
        /\ input'[r] = input[r]
    BY <1>3, <1>8 DEF UpdateRow, InsertMembership, CheckWorkspaceReference, Reject, Phase
  <2>2. QED
    BY <1>2, <2>1 DEF StatementRuns, StatementsLeft
<1>9. CASE InsertOrganization(r) \/ InsertWorkspace(r) \/ InsertOwner(r)
  <2>1. /\ \/ phase[r] = "userLocked" /\ phase'[r] = "organizationInserted"
           \/ phase[r] = "organizationInserted" /\ phase'[r] = "workspaceInserted"
           \/ phase[r] = "workspaceInserted" /\ phase'[r] = "written"
        /\ input'[r] = input[r]
    BY <1>3, <1>9 DEF InsertOrganization, InsertWorkspace, InsertOwner, Phase
  <2>2. QED
    BY <1>2, <2>1 DEF StatementRuns, StatementsLeft
<1>10. CASE /\ Finish(r)
            /\ FindTarget(r) \/ CountActiveOwners(r) \/ FindActiveUser(r) \/ InsertMembership(r)
  <2>1. phase[r] # "idle"
    BY <1>10 DEF FindTarget, CountActiveOwners, FindActiveUser, InsertMembership
  <2>2. QED
    BY <1>4, <1>10, <2>1
<1>11. CASE CommitUpdate(r) \/ CommitAdd(r) \/ CommitBootstrap(r) \/ Rollback(r)
  <2>1. Finish(r) /\ phase[r] # "idle"
    BY <1>11 DEF CommitUpdate, CommitAdd, CommitBootstrap, Rollback, Reject
  <2>2. QED
    BY <1>4, <2>1
<1>12. QED
  BY <1>5, <1>6, <1>7, <1>8, <1>9, <1>10, <1>11 DEF RequestStep, Advance

\* Every step of an open request of either service brings it closer to its end,
\* and nothing but that step or an arrival moves a request: what remains to be
\* run of the open ones only falls, so they drain as long as statements run.
THEOREM SystemRequestsAdvance == SystemSpec => [][RequestsOnlyAdvance]_systemVars
<1>1. ASSUME SystemInv, [SystemNext]_systemVars PROVE RequestsOnlyAdvance
  <2>1. CASE UNCHANGED <<phase, input, teamPhase, teamInput>>
    BY <2>1 DEF RequestsOnlyAdvance
  <2>2. ASSUME NEW r \in Request, RequestStep(r), UNCHANGED teamServiceVars
        PROVE  RequestsOnlyAdvance
    BY <1>1, <2>2, AccessStepRunsStatement DEF SystemInv, teamServiceVars, RequestsOnlyAdvance
  <2>3. ASSUME NEW r \in TeamRequest, T!RequestStep(r), UNCHANGED requestVars
        PROVE  RequestsOnlyAdvance
    <3>1. TP!RequestStep(r)
      BY <2>3, SameTeamService
    <3>2. TP!StatementRuns(r) /\ TeamOthersStay(r)
      BY <1>1, <2>3, <3>1, TeamAssumptions, TeamStep, TP!StepRunsStatement
         DEF SystemInv, TP!StepRunsStatement, TeamOthersStay
    <3>3. QED
      BY <2>3, <3>2 DEF RequestsOnlyAdvance, requestVars
  <2>4. QED
    BY <1>1, <2>1, <2>2, <2>3
       DEF SystemNext, AccessNext, Administer, systemVars, accessVars, teamServiceVars, requestVars
<1>2. SystemInv /\ [SystemNext]_systemVars => [RequestsOnlyAdvance]_systemVars
  BY <1>1
<1>3. QED
  BY <1>2, SystemInvariant, PTL DEF SystemSpec

-----------------------------------------------------------------------------
(* Tenants stay apart                                                       *)

\* Neither service takes a workspace membership away, only its status.
LEMMA MembershipsAreKept ==
    ASSUME SystemInv, [SystemNext]_systemVars
    PROVE  TP!MembershipsStay
<1>1. membership \in [Workspace -> [User -> MembershipRow \cup {None}]]
  BY DEF SystemInv, AccessInv, AccessTypeOK
<1>2. \A role, status : [role |-> role, status |-> status] # None \/ role \notin Role \/ status \notin Status
  BY NoneAssumption DEF MembershipRow
<1>3. ASSUME NEW w \in Workspace, NEW u \in User, NEW row,
             row # None, membership' = [membership EXCEPT ![w][u] = row]
      PROVE  TP!MembershipsStay
  <2>1. \A v \in Workspace, x \in User :
           membership'[v][x] = IF v = w /\ x = u THEN row ELSE membership[v][x]
    BY <1>1, <1>3
  <2>2. QED
    BY <1>3, <2>1 DEF TP!MembershipsStay
<1>4. CASE UNCHANGED membership
  BY <1>4 DEF TP!MembershipsStay
<1>5. CASE AccessNext /\ ~UNCHANGED membership
  <2>1. PICK w \in Workspace, u \in User :
           \/ Rules!Bootstrap(w, u)
           \/ \E role \in Role : Rules!Add(w, u, role)
           \/ \E role \in Role \cup {None}, status \in Status \cup {None} :
                 Rules!Change(w, u, role, status)
    <3>1. [Rules!Next]_(Rules!tables)
      BY <1>5, StepIsRule DEF SystemInv
    <3>2. /\ Rules!Next
          /\ \A w \in Workspace : ~Rules!Disable(w)
          /\ \A u \in User, status \in Rules!Status : ~Rules!SetUserStatus(u, status)
      BY <1>5, <3>1 DEF Rules!tables, Rules!SetUserStatus, Rules!Disable
    <3>3. QED
      BY <3>2 DEF Rules!Next, Rules!Status, Status
  <2>2. ActiveOwner \in MembershipRow
    BY RoleAssumption DEF ActiveOwner, MembershipRow, Status
  <2>3. CASE Rules!Bootstrap(w, u)
    BY <1>3, <2>2, <2>3, NoneAssumption DEF Rules!Bootstrap, Rules!ActiveOwner, ActiveOwner
  <2>4. CASE \E role \in Role : Rules!Add(w, u, role)
    <3>1. PICK role \in Role : Rules!Add(w, u, role)
      BY <2>4
    <3>2. QED
      BY <1>2, <1>3, <3>1 DEF Rules!Add, Status
  <2>5. CASE \E role \in Role \cup {None}, status \in Status \cup {None} :
                Rules!Change(w, u, role, status)
    <3>1. PICK role \in Role \cup {None}, status \in Status \cup {None} :
             Rules!Change(w, u, role, status)
      BY <2>5
    <3> DEFINE old == membership[w][u]
               newRole == IF role = None THEN old.role ELSE role
               newStatus == IF status = None THEN old.status ELSE status
    <3>2. old \in MembershipRow
      BY <1>1, <3>1 DEF Rules!Change
    <3>3. newRole \in Role /\ newStatus \in Status
      BY <3>1, <3>2 DEF MembershipRow
    <3>4. membership' = [membership EXCEPT ![w][u] = [role |-> newRole, status |-> newStatus]]
      BY <3>1 DEF Rules!Change
    <3>5. QED
      BY <1>2, <1>3, <3>3, <3>4
  <2>6. QED
    BY <2>1, <2>3, <2>4, <2>5
<1>6. CASE ~AccessNext
  BY <1>4, <1>6, TeamStep DEF SystemInv, SystemNext, systemVars, accessVars
<1>7. QED
  BY <1>4, <1>5, <1>6

\* What the rules of the team service say of a step of the system.
LEMMA SystemStepIsTeamRule ==
    ASSUME SystemInv, [SystemNext]_systemVars
    PROVE  TP!TeamsTypeOK /\ [TP!Rules!Next]_(TP!Rules!tables)
<1>1. TP!TeamsTypeOK
  BY DEF SystemInv, TP!TeamsInv
<1>2. CASE UNCHANGED teamServiceVars
  BY <1>1, <1>2 DEF teamServiceVars, TP!Rules!Next
<1>3. CASE ~UNCHANGED teamServiceVars
  <2>1. PICK r \in TeamRequest : T!RequestStep(r)
    BY <1>3 DEF SystemNext, systemVars
  <2>2. QED
    BY <1>1, <2>1, TeamStep DEF SystemInv
<1>4. QED
  BY <1>2, <1>3

\* Members of a team are members of its workspace also while the access service
\* adds and changes memberships: no request of either service, with whatever
\* ids its client names, ties a team of one tenant to a membership of another.
THEOREM SystemTenantsStayApart == SystemSpec => []TP!TeamMembersBelong
<1>1. SystemInit => TP!TeamMembersBelong
  BY DEF SystemInit, T!NoTeams, T!Member, TP!TeamMembersBelong
<1>2. SystemInv /\ TP!TeamMembersBelong /\ [SystemNext]_systemVars => TP!TeamMembersBelong'
  BY MembershipsAreKept, SystemStepIsTeamRule, TeamAssumptions, TP!RulesKeepTenantsApart
     DEF TP!RulesKeepTenantsApart
<1>3. QED
  BY <1>1, <1>2, SystemInvariant, PTL DEF SystemSpec

\* Nothing that ties a user to a tenant is ever deleted: memberships, teams and
\* team memberships stay, and a team stays in its workspace.
THEOREM SystemRowsAreKept ==
    SystemSpec => [][TP!TeamRowsStay /\ TP!MembershipsStay]_systemVars
<1>1. SystemInv /\ [SystemNext]_systemVars => [TP!TeamRowsStay /\ TP!MembershipsStay]_systemVars
  BY MembershipsAreKept, SystemStepIsTeamRule, TeamAssumptions, TP!RulesKeepRows
     DEF TP!RulesKeepRows
<1>2. QED
  BY <1>1, SystemInvariant, PTL DEF SystemSpec
=============================================================================
