---------------------------- MODULE TenancyProofs ----------------------------
(***************************************************************************)
(* The tenancy service keeps its promises for any number of organizations, *)
(* workspaces, names and concurrent creations: every committed             *)
(* organization has a workspace, and the ids of an open creation are       *)
(* nobody else's.                                                          *)
(***************************************************************************)
EXTENDS Tenancy, TLAPS

TenancyTypeOK ==
    /\ organization \in [Organization -> OrganizationRows \cup {None}]
    /\ workspace \in [Workspace -> WorkspaceRows \cup {None}]
    /\ creation \in [Request -> Creations \cup {None}]
    /\ inserted \in [Request -> SUBSET {"organizations", "workspaces"}]
    /\ found \subseteq Organization
    /\ listed \in [Organization -> (SUBSET Workspace) \cup {None}]

Open == {r \in Request : creation[r] # None}

\* The ids of an open creation are free, and no other creation has them.
IdsFree ==
    /\ \A r \in Open : /\ organization[creation[r].organization] = None
                       /\ workspace[creation[r].workspace] = None
    /\ \A r, q \in Open : r # q => /\ creation[r].organization # creation[q].organization
                                   /\ creation[r].workspace # creation[q].workspace

OnlyOpenInserted == \A r \in Request : inserted[r] # {} => r \in Open

In(o) == {w \in Workspace : workspace[w] # None /\ workspace[w].organization = o}

Populated ==
    /\ \A o \in Organization : organization[o] # None => In(o) # {}
    /\ \A w \in Workspace : workspace[w] # None => organization[workspace[w].organization] # None

ToldOfRows == \A o \in found : organization[o] # None

ListsNotEmpty == \A o \in Organization : listed[o] # {}

TenancyInv ==
    TenancyTypeOK /\ IdsFree /\ OnlyOpenInserted /\ Populated /\ ToldOfRows /\ ListsNotEmpty

-----------------------------------------------------------------------------

LEMMA AcceptedIsName ==
    ASSUME NEW spelling \in Spelling, Accepted(spelling) PROVE ValidName(spelling) \in Name
<1>1. spelling # <<None, "refused">>
  BY DEF Accepted
<1>2. spelling \in Name \X {"as stored", "padded or decomposed"}
  BY <1>1 DEF Spelling
<1>3. spelling[1] \in Name
  BY <1>2
<1>4. QED
  BY <1>3 DEF ValidName

\* Steps that neither add nor remove a row, nor move a workspace.
LEMMA RowsStay ==
    ASSUME TenancyInv, TenancyTypeOK', UNCHANGED <<creation, inserted>>,
           \A o \in Organization : organization'[o] = None <=> organization[o] = None,
           \A w \in Workspace : /\ workspace'[w] = None <=> workspace[w] = None
                                /\ workspace[w] # None =>
                                      workspace'[w].organization = workspace[w].organization,
           \A o \in found' : organization[o] # None,
           \A o \in Organization : listed'[o] = listed[o] \/ (o \in found /\ listed'[o] = In(o))
    PROVE  TenancyInv'
<1>1. Open' = Open
  BY DEF Open
<1>2. IdsFree' /\ OnlyOpenInserted'
  BY <1>1 DEF TenancyInv, TenancyTypeOK, IdsFree, OnlyOpenInserted, Open, Creations
<1>3. \A o \in Organization : In(o)' = In(o)
  BY DEF In
<1>4. Populated'
  <2>1. \A w \in Workspace : workspace[w] # None => workspace[w].organization \in Organization
    BY DEF TenancyInv, TenancyTypeOK, WorkspaceRows
  <2>2. QED
    BY <1>3, <2>1 DEF TenancyInv, Populated
<1>5. ToldOfRows' /\ ListsNotEmpty'
  BY DEF TenancyInv, TenancyTypeOK, ToldOfRows, ListsNotEmpty, Populated
<1>6. QED
  BY <1>2, <1>4, <1>5 DEF TenancyInv

LEMMA CreateKeepsInv ==
    ASSUME TenancyInv, NEW r \in Request, NEW o \in Organization, NEW w \in Workspace,
           NEW m \in Spelling, NEW n \in Spelling, Create(r, o, w, m, n)
    PROVE  TenancyInv'
<1> DEFINE c == [organization |-> o, workspace |-> w,
                 organizationName |-> ValidName(m), workspaceName |-> ValidName(n)]
<1>1. c \in Creations /\ c # None
  BY AcceptedIsName, NoneAssumption DEF Create, Creations
<1>2. /\ creation[r] = None /\ Fresh(o, w) /\ creation' = [creation EXCEPT ![r] = c]
      /\ UNCHANGED <<organization, workspace, inserted, found, listed>>
  BY DEF Create, tables, answers
<1>3. /\ creation'[r] = c /\ c.organization = o /\ c.workspace = w
      /\ \A q \in Request \ {r} : creation'[q] = creation[q]
  BY <1>2 DEF TenancyInv, TenancyTypeOK
<1>4. TenancyTypeOK'
  BY <1>1, <1>2 DEF TenancyInv, TenancyTypeOK
<1>5. Open' = Open \cup {r} /\ r \notin Open
  BY <1>1, <1>2, <1>3 DEF Open
<1>6. IdsFree'
  BY <1>2, <1>3, <1>5 DEF TenancyInv, IdsFree, Fresh, Open
<1>7. OnlyOpenInserted' /\ Populated' /\ ToldOfRows' /\ ListsNotEmpty'
  BY <1>2, <1>5
     DEF TenancyInv, OnlyOpenInserted, Populated, In, ToldOfRows, ListsNotEmpty
<1>8. QED
  BY <1>4, <1>6, <1>7 DEF TenancyInv

LEMMA InsertKeepsInv ==
    ASSUME TenancyInv, NEW r \in Request, InsertOrganization(r) \/ InsertWorkspace(r)
    PROVE  TenancyInv'
<1>1. UNCHANGED <<organization, workspace, creation, found, listed>>
  BY DEF InsertOrganization, InsertWorkspace, tables, answers
<1>2. creation[r] # None
  BY DEF InsertOrganization, InsertWorkspace, TenancyInv, OnlyOpenInserted, Open
<1>3. PICK S \in SUBSET {"organizations", "workspaces"} : inserted' = [inserted EXCEPT ![r] = S]
  BY DEF InsertOrganization, InsertWorkspace, TenancyInv, TenancyTypeOK
<1>4. TenancyTypeOK'
  BY <1>1, <1>3 DEF TenancyInv, TenancyTypeOK
<1>5. Open' = Open /\ r \in Open
  BY <1>1, <1>2 DEF Open
<1>6. OnlyOpenInserted'
  BY <1>3, <1>5 DEF TenancyInv, TenancyTypeOK, OnlyOpenInserted
<1>7. IdsFree' /\ Populated' /\ ToldOfRows' /\ ListsNotEmpty'
  BY <1>1, <1>5 DEF TenancyInv, IdsFree, Populated, In, ToldOfRows, ListsNotEmpty
<1>8. QED
  BY <1>4, <1>6, <1>7 DEF TenancyInv

\* What a creation that is over leaves to the others.
LEMMA EndFacts ==
    ASSUME TenancyInv, NEW r \in Request, End(r)
    PROVE  /\ creation' \in [Request -> Creations \cup {None}]
           /\ inserted' \in [Request -> SUBSET {"organizations", "workspaces"}]
           /\ Open' = Open \ {r} /\ OnlyOpenInserted'
           /\ \A q \in Open \ {r} : creation'[q] = creation[q]
<1>1. /\ creation' = [creation EXCEPT ![r] = None] /\ inserted' = [inserted EXCEPT ![r] = {}]
  BY DEF End
<1>2. /\ creation' \in [Request -> Creations \cup {None}]
      /\ inserted' \in [Request -> SUBSET {"organizations", "workspaces"}]
  BY <1>1 DEF TenancyInv, TenancyTypeOK
<1>3. Open' = Open \ {r} /\ \A q \in Open \ {r} : creation'[q] = creation[q]
  BY <1>1 DEF TenancyInv, TenancyTypeOK, Open
<1>4. OnlyOpenInserted'
  BY <1>1, <1>3 DEF TenancyInv, TenancyTypeOK, OnlyOpenInserted
<1>5. QED
  BY <1>2, <1>3, <1>4

LEMMA RollbackKeepsInv ==
    ASSUME TenancyInv, NEW r \in Request, RollbackCreation(r)
    PROVE  TenancyInv'
<1>1. End(r) /\ UNCHANGED <<organization, workspace, found, listed>>
  BY DEF RollbackCreation, tables, answers
<1>2. TenancyTypeOK' /\ OnlyOpenInserted'
  BY <1>1, EndFacts DEF TenancyInv, TenancyTypeOK
<1>3. IdsFree'
  BY <1>1, EndFacts DEF TenancyInv, IdsFree
<1>4. Populated' /\ ToldOfRows' /\ ListsNotEmpty'
  BY <1>1 DEF TenancyInv, Populated, In, ToldOfRows, ListsNotEmpty
<1>5. QED
  BY <1>2, <1>3, <1>4 DEF TenancyInv

\* Both rows appear in one step, under ids that were free.
LEMMA CommitFacts ==
    ASSUME TenancyInv, NEW r \in Request, CommitCreation(r)
    PROVE  LET c == creation[r] IN
           /\ c \in Creations /\ End(r) /\ r \in Open
           /\ organization[c.organization] = None /\ workspace[c.workspace] = None
           /\ OrganizationRow(c) \in OrganizationRows /\ WorkspaceRow(c) \in WorkspaceRows
           /\ organization' = [organization EXCEPT ![c.organization] = OrganizationRow(c)]
           /\ workspace' = [workspace EXCEPT ![c.workspace] = WorkspaceRow(c)]
           /\ found' = found \cup {c.organization} /\ UNCHANGED listed
<1>1. r \in Open /\ creation[r] \in Creations
  BY DEF CommitCreation, TenancyInv, TenancyTypeOK, OnlyOpenInserted, Open
<1>2. /\ OrganizationRow(creation[r]) \in OrganizationRows
      /\ WorkspaceRow(creation[r]) \in WorkspaceRows
  BY <1>1 DEF Creations, OrganizationRow, WorkspaceRow, OrganizationRows, WorkspaceRows, Status
<1>3. QED
  BY <1>1, <1>2 DEF CommitCreation, TenancyInv, IdsFree

LEMMA CommitKeepsInv ==
    ASSUME TenancyInv, NEW r \in Request, CommitCreation(r)
    PROVE  TenancyInv'
<1>1. PICK c \in Creations :
      /\ c = creation[r] /\ End(r) /\ r \in Open
      /\ organization[c.organization] = None /\ workspace[c.workspace] = None
      /\ OrganizationRow(c) \in OrganizationRows /\ WorkspaceRow(c) \in WorkspaceRows
      /\ organization' = [organization EXCEPT ![c.organization] = OrganizationRow(c)]
      /\ workspace' = [workspace EXCEPT ![c.workspace] = WorkspaceRow(c)]
      /\ found' = found \cup {c.organization} /\ UNCHANGED listed
  BY CommitFacts
<1> DEFINE o == c.organization
           w == c.workspace
<1>2. o \in Organization /\ w \in Workspace
  BY DEF Creations
<1>3. TenancyTypeOK'
  BY <1>1, <1>2, EndFacts DEF TenancyInv, TenancyTypeOK
<1>4. /\ organization'[o] # None /\ workspace'[w] # None /\ workspace'[w].organization = o
      /\ \A p \in Organization \ {o} : organization'[p] = organization[p]
      /\ \A v \in Workspace \ {w} : workspace'[v] = workspace[v]
  BY <1>1, <1>2, NoneAssumption DEF TenancyInv, TenancyTypeOK, WorkspaceRow
<1>5. IdsFree'
  <2>1. Open' = Open \ {r} /\ \A q \in Open \ {r} : creation'[q] = creation[q]
    BY <1>1, EndFacts
  <2>2. ASSUME NEW q \in Open \ {r}
        PROVE  /\ creation[q].organization \in Organization \ {o}
               /\ creation[q].workspace \in Workspace \ {w}
    BY <1>1 DEF TenancyInv, TenancyTypeOK, IdsFree, Open, Creations
  <2>3. QED
    BY <1>4, <2>1, <2>2 DEF TenancyInv, IdsFree
<1>6. Populated'
  <2>1. \A p \in Organization : In(p) \subseteq In(p)'
    BY <1>1, <1>4 DEF In
  <2>2. w \in In(o)'
    BY <1>2, <1>4 DEF In
  <2>3. \A p \in Organization : organization'[p] # None => In(p)' # {}
    BY <1>4, <2>1, <2>2 DEF TenancyInv, Populated
  <2>4. ASSUME NEW v \in Workspace, workspace'[v] # None
        PROVE  organization'[workspace'[v].organization] # None
    <3>1. CASE v = w
      BY <1>4, <3>1
    <3>2. CASE v # w
      <4>1. /\ workspace'[v] = workspace[v] /\ workspace[v].organization \in Organization
            /\ organization[workspace[v].organization] # None
        BY <1>4, <2>4, <3>2 DEF TenancyInv, TenancyTypeOK, Populated, WorkspaceRows
      <4>2. QED
        BY <1>4, <4>1
    <3>3. QED
      BY <3>1, <3>2
  <2>5. QED
    BY <2>3, <2>4 DEF Populated
<1>7. ToldOfRows'
  BY <1>1, <1>2, <1>4 DEF TenancyInv, TenancyTypeOK, ToldOfRows
<1>8. OnlyOpenInserted' /\ ListsNotEmpty'
  BY <1>1, EndFacts DEF TenancyInv, ListsNotEmpty
<1>9. QED
  BY <1>3, <1>5, <1>6, <1>7, <1>8 DEF TenancyInv

LEMMA WriteKeepsInv ==
    ASSUME TenancyInv,
           \/ \E o \in Organization :
                 (\E s \in Spelling : UpdateOrganizationName(o, s)) \/ DisableOrganization(o)
           \/ \E w \in Workspace :
                 (\E s \in Spelling : UpdateWorkspaceName(w, s)) \/ DisableWorkspace(w)
    PROVE  TenancyInv'
<1>1. ASSUME NEW o \in Organization, NEW row \in OrganizationRows, organization[o] # None,
             organization' = [organization EXCEPT ![o] = row], found' = found \cup {o},
             UNCHANGED <<workspace, creation, inserted, listed>>
      PROVE  TenancyInv'
  <2>1. TenancyTypeOK'
    BY <1>1 DEF TenancyInv, TenancyTypeOK
  <2>2. \A p \in Organization : organization'[p] = None <=> organization[p] = None
    BY <1>1, NoneAssumption DEF TenancyInv, TenancyTypeOK
  <2>3. QED
    BY <1>1, <2>1, <2>2, RowsStay DEF TenancyInv, ToldOfRows
<1>2. ASSUME NEW w \in Workspace, NEW row \in WorkspaceRows, workspace[w] # None,
             row.organization = workspace[w].organization,
             workspace' = [workspace EXCEPT ![w] = row],
             found' = found \cup {workspace[w].organization},
             UNCHANGED <<organization, creation, inserted, listed>>
      PROVE  TenancyInv'
  <2>1. workspace[w].organization \in Organization /\ organization[workspace[w].organization] # None
    BY <1>2 DEF TenancyInv, TenancyTypeOK, Populated, WorkspaceRows
  <2>2. TenancyTypeOK'
    BY <1>2, <2>1 DEF TenancyInv, TenancyTypeOK
  <2>3. \A v \in Workspace : /\ workspace'[v] = None <=> workspace[v] = None
                             /\ workspace[v] # None =>
                                   workspace'[v].organization = workspace[v].organization
    BY <1>2, NoneAssumption DEF TenancyInv, TenancyTypeOK
  <2>4. \A o \in found' : organization[o] # None
    BY <1>2, <2>1 DEF TenancyInv, ToldOfRows
  <2>5. QED
    BY <1>2, <2>2, <2>3, <2>4, RowsStay
<1>3. ASSUME NEW o \in Organization, NEW s \in Spelling, UpdateOrganizationName(o, s)
      PROVE  TenancyInv'
  <2>1. [organization[o] EXCEPT !.name = ValidName(s)] \in OrganizationRows
    BY <1>3, AcceptedIsName
       DEF UpdateOrganizationName, TenancyInv, TenancyTypeOK, OrganizationRows
  <2>2. QED
    BY <1>1, <1>3, <2>1 DEF UpdateOrganizationName
<1>4. ASSUME NEW o \in Organization, DisableOrganization(o) PROVE TenancyInv'
  <2>1. [organization[o] EXCEPT !.status = "disabled"] \in OrganizationRows
    BY <1>4 DEF DisableOrganization, UpdateOrganizationStatus, TenancyInv, TenancyTypeOK,
                OrganizationRows, Status
  <2>2. QED
    BY <1>1, <1>4, <2>1 DEF DisableOrganization, UpdateOrganizationStatus
<1>5. ASSUME NEW w \in Workspace, NEW s \in Spelling, UpdateWorkspaceName(w, s)
      PROVE  TenancyInv'
  <2>1. workspace[w] \in WorkspaceRows /\ ValidName(s) \in Name
    BY <1>5, AcceptedIsName DEF UpdateWorkspaceName, TenancyInv, TenancyTypeOK
  <2>2. PICK row : row = [workspace[w] EXCEPT !.name = ValidName(s)]
    OBVIOUS
  <2>3. row \in WorkspaceRows /\ row.organization = workspace[w].organization
    BY <2>1, <2>2 DEF WorkspaceRows
  <2>4. QED
    BY <1>2, <1>5, <2>2, <2>3 DEF UpdateWorkspaceName
<1>6. ASSUME NEW w \in Workspace, DisableWorkspace(w) PROVE TenancyInv'
  <2>1. workspace[w] \in WorkspaceRows
    BY <1>6 DEF DisableWorkspace, UpdateWorkspaceStatus, TenancyInv, TenancyTypeOK
  <2>2. PICK row : row = [workspace[w] EXCEPT !.status = "disabled"]
    OBVIOUS
  <2>3. row \in WorkspaceRows /\ row.organization = workspace[w].organization
    BY <2>1, <2>2 DEF WorkspaceRows, Status
  <2>4. QED
    BY <1>2, <1>6, <2>2, <2>3 DEF DisableWorkspace, UpdateWorkspaceStatus
<1>7. QED
  BY <1>3, <1>4, <1>5, <1>6

LEMMA ReadKeepsInv ==
    ASSUME TenancyInv,
           \/ \E o \in Organization : GetOrganization(o) \/ ListOrganizationWorkspaces(o)
           \/ \E w \in Workspace : GetWorkspace(w)
    PROVE  TenancyInv'
<1>1. ASSUME NEW o \in Organization, organization[o] # None, found' = found \cup {o},
             UNCHANGED <<organization, workspace, creation, inserted, listed>>
      PROVE  TenancyInv'
  BY <1>1, RowsStay DEF TenancyInv, TenancyTypeOK, ToldOfRows
<1>2. ASSUME NEW o \in Organization, GetOrganization(o) PROVE TenancyInv'
  BY <1>1, <1>2 DEF GetOrganization, tables
<1>3. ASSUME NEW w \in Workspace, GetWorkspace(w) PROVE TenancyInv'
  <2>1. workspace[w].organization \in Organization /\ organization[workspace[w].organization] # None
    BY <1>3 DEF GetWorkspace, TenancyInv, TenancyTypeOK, Populated, WorkspaceRows
  <2>2. QED
    BY <1>1, <1>3, <2>1 DEF GetWorkspace, tables
<1>4. ASSUME NEW o \in Organization, ListOrganizationWorkspaces(o) PROVE TenancyInv'
  <2>1. /\ o \in found /\ listed' = [listed EXCEPT ![o] = In(o)]
        /\ UNCHANGED <<organization, workspace, creation, inserted, found>>
    BY <1>4 DEF ListOrganizationWorkspaces, In, tables
  <2>2. In(o) \in SUBSET Workspace
    BY DEF In
  <2>3. TenancyTypeOK' /\ \A p \in Organization : listed'[p] = listed[p] \/ (p \in found /\ listed'[p] = In(p))
    BY <2>1, <2>2 DEF TenancyInv, TenancyTypeOK
  <2>4. QED
    BY <2>1, <2>3, RowsStay DEF TenancyInv, ToldOfRows
<1>5. QED
  BY <1>2, <1>3, <1>4

-----------------------------------------------------------------------------
(* The theorems.                                                            *)

\* No half of a tenant is ever committed.
THEOREM TenancyInvariant == TenancySpec => []TenancyInv
<1>1. TenancyInit => TenancyInv
  BY NoneAssumption
     DEF TenancyInit, TenancyInv, TenancyTypeOK, IdsFree, Open, OnlyOpenInserted, Populated,
         ToldOfRows, ListsNotEmpty
<1>2. TenancyInv /\ [TenancyNext]_tenancyVars => TenancyInv'
  <2>1. SUFFICES ASSUME TenancyInv, [TenancyNext]_tenancyVars PROVE TenancyInv'
    OBVIOUS
  <2>2. CASE UNCHANGED tenancyVars
    BY <2>1, <2>2
       DEF tenancyVars, tables, answers, TenancyInv, TenancyTypeOK, IdsFree, Open,
           OnlyOpenInserted, Populated, In, ToldOfRows, ListsNotEmpty
  <2>3. CASE TenancyNext
    BY <2>1, <2>3, CreateKeepsInv, InsertKeepsInv, CommitKeepsInv, RollbackKeepsInv,
       WriteKeepsInv, ReadKeepsInv DEF TenancyNext
  <2>4. QED
    BY <2>1, <2>2, <2>3
<1>3. QED
  BY <1>1, <1>2, PTL DEF TenancySpec

\* Whoever has been told of an organization finds a workspace in it.
THEOREM OrganizationsArePopulated == TenancySpec => []KnownOrganizationsHaveWorkspaces
<1>1. TenancyInv => KnownOrganizationsHaveWorkspaces
  BY DEF TenancyInv, TenancyTypeOK, ToldOfRows, ListsNotEmpty, Populated,
         KnownOrganizationsHaveWorkspaces
<1>2. QED
  BY <1>1, TenancyInvariant, PTL

LEMMA StepIsRule == TenancyInv /\ [TenancyNext]_tenancyVars => [Rules!Next]_Rules!tables
<1>1. SUFFICES ASSUME TenancyInv, [TenancyNext]_tenancyVars PROVE [Rules!Next]_Rules!tables
  OBVIOUS
<1>2. ASSUME NEW r \in Request, CommitCreation(r) PROVE Rules!Next
  <2>1. PICK c \in Creations :
        /\ organization[c.organization] = None /\ workspace[c.workspace] = None
        /\ organization' = [organization EXCEPT ![c.organization] = OrganizationRow(c)]
        /\ workspace' = [workspace EXCEPT ![c.workspace] = WorkspaceRow(c)]
    BY <1>1, <1>2, CommitFacts
  <2>2. /\ c.organization \in Organization /\ c.workspace \in Workspace
        /\ c.organizationName \in Name /\ c.workspaceName \in Name
    BY DEF Creations
  <2>3. Rules!Provision(c.organization, c.workspace, c.organizationName, c.workspaceName)
    BY <2>1 DEF Rules!Provision, OrganizationRow, WorkspaceRow
  <2>4. QED
    BY <2>2, <2>3 DEF Rules!Next
<1>3. ASSUME NEW o \in Organization, NEW s \in Spelling, UpdateOrganizationName(o, s)
      PROVE  Rules!Next
  BY <1>3, AcceptedIsName DEF UpdateOrganizationName, Rules!Next, Rules!RenameOrganization
<1>4. ASSUME NEW w \in Workspace, NEW s \in Spelling, UpdateWorkspaceName(w, s)
      PROVE  Rules!Next
  BY <1>4, AcceptedIsName DEF UpdateWorkspaceName, Rules!Next, Rules!RenameWorkspace
<1>5. ASSUME NEW o \in Organization, DisableOrganization(o) PROVE Rules!Next
  BY <1>5
     DEF DisableOrganization, UpdateOrganizationStatus, Rules!Next, Rules!DisableOrganization
<1>6. ASSUME NEW w \in Workspace, DisableWorkspace(w) PROVE Rules!Next
  BY <1>6 DEF DisableWorkspace, UpdateWorkspaceStatus, Rules!Next, Rules!DisableWorkspace
<1>7. CASE UNCHANGED tables
  BY <1>7 DEF tables, Rules!tables
<1>8. CASE UNCHANGED tenancyVars
  BY <1>7, <1>8 DEF tenancyVars
<1>9. ASSUME NEW r \in Request,
             \/ \E o \in Organization, w \in Workspace, m, n \in Spelling : Create(r, o, w, m, n)
             \/ InsertOrganization(r) \/ InsertWorkspace(r) \/ RollbackCreation(r)
      PROVE  UNCHANGED tables
  BY <1>9 DEF Create, InsertOrganization, InsertWorkspace, RollbackCreation
<1>10. ASSUME NEW o \in Organization, GetOrganization(o) \/ ListOrganizationWorkspaces(o)
       PROVE  UNCHANGED tables
  BY <1>10 DEF GetOrganization, ListOrganizationWorkspaces
<1>11. ASSUME NEW w \in Workspace, GetWorkspace(w) PROVE UNCHANGED tables
  BY <1>11 DEF GetWorkspace
<1>12. CASE TenancyNext
  BY <1>2, <1>3, <1>4, <1>5, <1>6, <1>7, <1>9, <1>10, <1>11, <1>12 DEF TenancyNext
<1>13. QED
  BY <1>1, <1>8, <1>12

\* A creation takes effect in one step, and no rename enables what is disabled.
THEOREM TenancyImplementsRules == TenancySpec => ImplementsTenancyRules
<1>1. TenancyInit => organization = [o \in Organization |-> None]
                     /\ workspace = [w \in Workspace |-> None]
  BY DEF TenancyInit
<1>2. QED
  BY <1>1, StepIsRule, TenancyInvariant, PTL
     DEF TenancySpec, ImplementsTenancyRules, Rules!Spec
=============================================================================
