-------------------------- MODULE MembershipRules --------------------------
(***************************************************************************)
(* What the access service promises about the committed tables, whatever   *)
(* runs at the same time: each operation takes effect in ONE step, whose   *)
(* conditions hold of the tables at that very step.  The service itself    *)
(* (module Access) reads in one statement, writes in a later one and       *)
(* commits after that; it implements this module because of its locks.     *)
(***************************************************************************)
CONSTANTS User, Workspace, Role, None

VARIABLES userStatus, tenant, membership

tables == <<userStatus, tenant, membership>>

Status == {"active", "disabled"}
ActiveOwner == [role |-> "owner", status |-> "active"]

Init ==
    /\ userStatus = [u \in User |-> "active"]
    /\ tenant = [w \in Workspace |-> None]
    /\ membership = [w \in Workspace |-> [u \in User |-> None]]

\* A new workspace appears together with its organization and its owner.
Bootstrap(w, u) ==
    /\ tenant[w] = None
    /\ userStatus[u] = "active"
    /\ tenant' = [tenant EXCEPT ![w] = [organization |-> "active", workspace |-> "active"]]
    /\ membership' = [membership EXCEPT ![w][u] = ActiveOwner]
    /\ UNCHANGED userStatus

\* A membership is only ever added, for a user active at that moment.
Add(w, u, role) ==
    /\ tenant[w] # None
    /\ membership[w][u] = None
    /\ userStatus[u] = "active"
    /\ membership' = [membership EXCEPT ![w][u] = [role |-> role, status |-> "active"]]
    /\ UNCHANGED <<userStatus, tenant>>

\* An update replaces exactly the fields it was given and never takes the
\* last active owner away.
Change(w, u, role, status) ==
    LET old == membership[w][u]
        new == [role   |-> IF role = None THEN old.role ELSE role,
                status |-> IF status = None THEN old.status ELSE status]
    IN  /\ old # None
        /\ old = ActiveOwner /\ new # ActiveOwner =>
              \E v \in User \ {u} : membership[w][v] = ActiveOwner
        /\ membership' = [membership EXCEPT ![w][u] = new]
        /\ UNCHANGED <<userStatus, tenant>>

\* The operators' changes of status.  A tenant is disabled for good: the code
\* has no operation that reactivates one.
SetUserStatus(u, status) ==
    /\ userStatus' = [userStatus EXCEPT ![u] = status]
    /\ UNCHANGED <<tenant, membership>>

Disable(w) ==
    /\ tenant[w] # None
    /\ \E row \in [organization : {tenant[w].organization, "disabled"},
                   workspace    : {tenant[w].workspace, "disabled"}] :
          tenant' = [tenant EXCEPT ![w] = row]
    /\ UNCHANGED <<userStatus, membership>>

Next ==
    \/ \E u \in User, status \in Status : SetUserStatus(u, status)
    \/ \E w \in Workspace : Disable(w)
    \/ \E w \in Workspace, u \in User :
          \/ Bootstrap(w, u)
          \/ \E role \in Role : Add(w, u, role)
          \/ \E role \in Role \cup {None}, status \in Status \cup {None} :
                Change(w, u, role, status)

Spec == Init /\ [][Next]_tables
=============================================================================
