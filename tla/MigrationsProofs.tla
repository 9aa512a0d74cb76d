-------------------------- MODULE MigrationsProofs --------------------------
(***************************************************************************)
(* The migration command keeps its promises for any number of processes:   *)
(* only the holder of the lock has read or changed anything, and what it   *)
(* has done so far is a run of migrations that follow each other.  Every   *)
(* command in progress can go on, and each of its steps leads to its end.  *)
(***************************************************************************)
EXTENDS Migrations, FiniteSetTheorems, TLAPS

\* The tables and keys of the first n migrations.
SchemaOf(n) == UNION {Creates[m] : m \in 1..n}

Work == [todo : SUBSET Migration, done : SUBSET Migration, recorded : SUBSET Migration]

TypeOK ==
    /\ lock \in Runner \cup {None}
    /\ phase \in [Runner -> {"connecting", "listing", "locking", "reading", "migrating",
                             "closing", "failing"} \cup Over]
    /\ command \in [Runner -> {"latest", "down", "status", None}]
    /\ work \in [Runner -> Work]

Holds(r) == phase[r] \in {"reading", "migrating"}

RunnerInv(r) ==
    /\ Holds(r) => lock = r
    /\ phase[r] = "connecting" => command[r] # None
    /\ phase[r] = "locking" \/ Holds(r) => command[r] \in {"latest", "down"}
    /\ phase[r] = "listing" => command[r] = "status"
    /\ phase[r] # "migrating" => work[r] = NoWork

\* A run of "latest" from version n has executed and recorded what follows up
\* to k, and may have executed the next one.
UpTo(w, n, k) ==
    /\ w.todo = (k + 1)..5 /\ w.recorded = (n + 1)..k
    /\ w.done = w.recorded \/ (k < 5 /\ w.done = (n + 1)..(k + 1))

\* A run of "down" has its one migration to undo, or has undone it.
OneDown(w, n) ==
    \/ n = 0 /\ w = NoWork
    \/ n > 0 /\ w.todo = {n} /\ w.recorded = {} /\ w.done \in {{}, {n}}
    \/ n > 0 /\ w.todo = {} /\ w.recorded = {n} /\ w.done = {n}

Progress(r, n) ==
    IF command[r] = "latest" THEN \E k \in n..5 : UpTo(work[r], n, k) ELSE OneDown(work[r], n)

At(n) ==
    /\ applied = 1..n /\ schema = SchemaOf(n)
    /\ \A r \in Runner : phase[r] = "migrating" => Progress(r, n)

MigrationsInv == TypeOK /\ (\A r \in Runner : RunnerInv(r)) /\ \E n \in 0..5 : At(n)

-----------------------------------------------------------------------------
(* The registered migrations.                                               *)

\* Each undoes exactly what it does, no two create the same, and each needs
\* only what came before it.
LEMMA Registered ==
    /\ \A m \in Migration : Drops[m] = Creates[m]
    /\ \A m, k \in Migration : m # k => Creates[m] \cap Creates[k] = {}
    /\ \A m \in Migration : Needs[m] \subseteq SchemaOf(m - 1)
    /\ \A m, k \in Migration : Needs[k] \cap Creates[m] # {} => m < k
<1>1. /\ Creates[1] = {} /\ Creates[2] = {"users", "auth_password_credentials", "auth_sessions"}
      /\ Creates[3] = {"organizations", "workspaces"} /\ Creates[4] = {"workspace_memberships"}
      /\ Creates[5] = {"workspace_memberships_id_workspace_unique", "teams", "team_memberships"}
  BY DEF Creates
<1>2. /\ Drops[1] = {} /\ Drops[2] = {"users", "auth_password_credentials", "auth_sessions"}
      /\ Drops[3] = {"organizations", "workspaces"} /\ Drops[4] = {"workspace_memberships"}
      /\ Drops[5] = {"workspace_memberships_id_workspace_unique", "teams", "team_memberships"}
  BY DEF Drops
<1>3. /\ Needs[1] = {} /\ Needs[2] = {} /\ Needs[3] = {} /\ Needs[4] = {"users", "workspaces"}
      /\ Needs[5] = {"workspaces", "workspace_memberships"}
  BY DEF Needs
<1>4. \A m \in Migration : m = 1 \/ m = 2 \/ m = 3 \/ m = 4 \/ m = 5
  BY DEF Migration
<1>5. \A m \in Migration : Drops[m] = Creates[m]
  BY <1>1, <1>2, <1>4
<1>6. \A m, k \in Migration : m # k => Creates[m] \cap Creates[k] = {}
  BY <1>1, <1>4
<1>7. \A m, k \in Migration : Needs[k] \cap Creates[m] # {} => m < k
  BY <1>1, <1>3, <1>4
<1>8. ASSUME NEW k \in Migration, NEW x \in Needs[k] PROVE x \in SchemaOf(k - 1)
  <2>1. PICK m \in {2, 3, 4} : x \in Creates[m]
    BY <1>1, <1>3, <1>4, <1>8
  <2>2. m \in Migration /\ m < k /\ k \in Nat
    BY <1>7, <1>8, <2>1 DEF Migration
  <2>3. m \in 1..(k - 1)
    BY <2>2 DEF Migration
  <2>4. QED
    BY <2>1, <2>3 DEF SchemaOf
<1>9. QED
  BY <1>5, <1>6, <1>7, <1>8

LEMMA SchemaGrows ==
    ASSUME NEW n \in 0..5, NEW k \in n..5
    PROVE  SchemaOf(n) \cup UNION {Creates[m] : m \in (n + 1)..k} = SchemaOf(k)
<1>1. \A m \in 1..k : m \in 1..n \/ m \in (n + 1)..k
  OBVIOUS
<1>2. 1..n \subseteq 1..k /\ (n + 1)..k \subseteq 1..k
  OBVIOUS
<1>3. QED
  BY <1>1, <1>2 DEF SchemaOf

LEMMA SchemaShrinks ==
    ASSUME NEW n \in 1..5
    PROVE  SchemaOf(n) \ Drops[n] = SchemaOf(n - 1)
<1>1. n \in Migration /\ Drops[n] = Creates[n]
  BY Registered DEF Migration
<1>2. 1..n = 1..(n - 1) \cup {n} /\ n \notin 1..(n - 1)
  OBVIOUS
<1>3. SchemaOf(n) = SchemaOf(n - 1) \cup Creates[n]
  BY <1>2 DEF SchemaOf
<1>4. \A m \in 1..(n - 1) : m \in Migration /\ Creates[m] \cap Creates[n] = {}
  BY <1>1, <1>2, Registered DEF Migration
<1>5. SchemaOf(n - 1) \cap Creates[n] = {}
  BY <1>4 DEF SchemaOf
<1>6. QED
  BY <1>1, <1>3, <1>5

-----------------------------------------------------------------------------
(* What the holder of the lock does and sees.                               *)

LEMMA LeastOfInterval == ASSUME NEW a \in Int, NEW b \in Int, a <= b PROVE Min(a..b) = a
<1>1. a \in a..b /\ \A y \in a..b : a <= y
  OBVIOUS
<1>2. \A x \in a..b : (\A y \in a..b : x <= y) => x = a
  OBVIOUS
<1>3. QED
  BY <1>1, <1>2 DEF Min

LEMMA GreatestOfInterval == ASSUME NEW b \in Nat \ {0} PROVE Max(1..b) = b
<1>1. b \in 1..b /\ \A y \in 1..b : b >= y
  OBVIOUS
<1>2. \A x \in 1..b : (\A y \in 1..b : x >= y) => x = b
  OBVIOUS
<1>3. QED
  BY <1>1, <1>2 DEF Max

LEMMA OnlyOne == ASSUME NEW m PROVE Min({m}) = m
<1>1. \A x \in {m} : x = m
  OBVIOUS
<1>2. QED
  BY <1>1 DEF Min

\* Whenever a migration is due, all that came before it are in place.
LEMMA DueIsExecutable ==
    ASSUME MigrationsInv, NEW r \in Runner, NEW n \in 0..5, At(n),
           phase[r] = "migrating", work[r].todo # {}, work[r].done = work[r].recorded
    PROVE  Executable(r, Due(r))
<1>1. Progress(r, n) /\ schema = SchemaOf(n)
  BY DEF At
<1>2. CASE command[r] = "latest"
  <2>1. PICK k \in n..5 : UpTo(work[r], n, k)
    BY <1>1, <1>2 DEF Progress
  <2>2. k + 1 <= 5 /\ Due(r) = k + 1 /\ work[r].done = (n + 1)..k
    <3>1. work[r].todo = (k + 1)..5 /\ work[r].done = (n + 1)..k
      BY <2>1 DEF UpTo
    <3>2. k + 1 <= 5
      BY <3>1
    <3>3. QED
      BY <3>1, <3>2, LeastOfInterval DEF Due
  <2>3. Visible(r) = SchemaOf(k)
    BY <1>1, <1>2, <2>2, SchemaGrows DEF Visible
  <2>4. k + 1 \in Migration /\ \A m \in 1..k : m \in Migration /\ m # k + 1
    BY <2>2 DEF Migration
  <2>5. Needs[k + 1] \subseteq SchemaOf(k)
    BY <2>4, Registered
  <2>6. Creates[k + 1] \cap SchemaOf(k) = {}
    BY <2>4, Registered DEF SchemaOf
  <2>7. QED
    BY <1>2, <2>2, <2>3, <2>5, <2>6 DEF Executable
<1>3. CASE command[r] # "latest"
  <2>1. n > 0 /\ work[r].todo = {n} /\ work[r].done = {}
    BY <1>1, <1>3 DEF Progress, OneDown, NoWork
  <2>2. Due(r) = n /\ n \in Migration /\ Drops[n] = Creates[n]
    <3>1. Min({n}) = n
      BY OnlyOne
    <3>2. n \in Migration
      BY <2>1 DEF Migration
    <3>3. QED
      BY <2>1, <3>1, <3>2, Registered DEF Due
  <2>3. Visible(r) = SchemaOf(n)
    BY <1>1, <1>3, <2>1 DEF Visible
  <2>4. Drops[n] \subseteq SchemaOf(n)
    BY <2>1, <2>2 DEF SchemaOf
  <2>5. ASSUME NEW k \in Migration \ {n}, Creates[k] \cap SchemaOf(n) # {}
        PROVE  Needs[k] \cap Drops[n] = {}
    <3>1. PICK m \in 1..n : Creates[k] \cap Creates[m] # {}
      BY <2>5 DEF SchemaOf
    <3>2. k = m /\ k <= n /\ k \in Nat /\ n \in Nat
      BY <3>1, Registered DEF Migration
    <3>3. QED
      BY <2>2, <2>5, <3>2, Registered
  <2>6. QED
    BY <1>3, <2>2, <2>3, <2>4, <2>5 DEF Executable
<1>4. QED
  BY <1>2, <1>3

-----------------------------------------------------------------------------
(* The steps.                                                               *)

\* A runner that moves without writing to the database leaves the others alone.
LEMMA OneRunner ==
    ASSUME MigrationsInv, NEW r \in Runner, TypeOK', UNCHANGED <<schema, applied>>,
           \A q \in Runner \ {r} :
              phase'[q] = phase[q] /\ command'[q] = command[q] /\ work'[q] = work[q],
           \A q \in Runner \ {r} : lock = q => lock' = q,
           RunnerInv(r)', \A n \in 0..5 : At(n) /\ phase'[r] = "migrating" => Progress(r, n)'
    PROVE  MigrationsInv'
<1>1. \A q \in Runner \ {r} : RunnerInv(q)'
  BY DEF MigrationsInv, RunnerInv, Holds
<1>2. PICK n \in 0..5 : At(n)
  BY DEF MigrationsInv
<1>3. At(n)'
  <2>1. applied' = 1..n /\ schema' = SchemaOf(n)
    BY <1>2 DEF At
  <2>2. ASSUME NEW q \in Runner \ {r}, phase'[q] = "migrating" PROVE Progress(q, n)'
    BY <1>2, <2>2 DEF At, Progress
  <2>3. QED
    BY <1>2, <2>1, <2>2 DEF At
<1>4. QED
  BY <1>1, <1>3 DEF MigrationsInv

\* Steps before and after the work, and what ends a run without a commit.
LEMMA QuietStep ==
    ASSUME MigrationsInv, NEW r \in Runner,
           \/ StartCommand(r) \/ ExecuteCommand(r) \/ GetMigrationStatus(r) \/ CloseDatabase(r)
    PROVE  MigrationsInv'
<1>1. UNCHANGED <<schema, applied, lock, work>> /\ TypeOK'
  BY DEF MigrationsInv, TypeOK, StartCommand, ExecuteCommand, GetMigrationStatus, CloseDatabase,
         Goto, Over
<1>2. /\ phase[r] \notin {"migrating", "reading"} /\ phase'[r] \notin {"migrating", "reading"}
      /\ \A q \in Runner \ {r} : phase'[q] = phase[q] /\ command'[q] = command[q]
  BY DEF MigrationsInv, TypeOK, StartCommand, ExecuteCommand, GetMigrationStatus, CloseDatabase,
         Goto, Over
<1>3. /\ phase'[r] = "connecting" => command'[r] # None
      /\ phase'[r] = "locking" => command'[r] \in {"latest", "down"}
      /\ phase'[r] = "listing" => command'[r] = "status"
  <2>1. CASE StartCommand(r)
    BY <2>1, NoneAssumption DEF MigrationsInv, TypeOK, StartCommand, Goto
  <2>2. CASE ExecuteCommand(r)
    BY <2>2 DEF MigrationsInv, TypeOK, RunnerInv, ExecuteCommand, Goto
  <2>3. CASE GetMigrationStatus(r) \/ CloseDatabase(r)
    BY <2>3 DEF MigrationsInv, TypeOK, GetMigrationStatus, CloseDatabase, Goto
  <2>4. QED
    BY <2>1, <2>2, <2>3
<1>4. RunnerInv(r)'
  BY <1>1, <1>2, <1>3 DEF MigrationsInv, RunnerInv, Holds
<1>5. QED
  BY <1>1, <1>2, <1>4, OneRunner

LEMMA AcquireStep ==
    ASSUME MigrationsInv, NEW r \in Runner, AcquireMigrationLock(r)
    PROVE  MigrationsInv'
<1>1. UNCHANGED <<schema, applied, command, work>> /\ TypeOK' /\ lock' = r
  BY DEF MigrationsInv, TypeOK, AcquireMigrationLock, Goto
<1>2. /\ phase[r] = "locking" /\ phase'[r] = "reading"
      /\ \A q \in Runner \ {r} : phase'[q] = phase[q]
  BY DEF MigrationsInv, TypeOK, AcquireMigrationLock, Goto
<1>3. RunnerInv(r)'
  BY <1>1, <1>2 DEF MigrationsInv, RunnerInv, Holds
<1>4. \A q \in Runner : lock # q
  BY NoneAssumption DEF AcquireMigrationLock
<1>5. QED
  BY <1>1, <1>2, <1>3, <1>4, OneRunner

\* What a failing run gives up is its own: the lock, if it holds it, and what
\* it has done.
LEMMA FailStep ==
    ASSUME MigrationsInv, NEW r \in Runner, Fail(r)
    PROVE  MigrationsInv'
<1>1. UNCHANGED <<schema, applied, command>> /\ lock' = IF lock = r THEN None ELSE lock
  BY DEF Fail, Rollback, Release
<1>2. /\ phase' = [phase EXCEPT ![r] = "failing"] /\ work' = [work EXCEPT ![r] = NoWork]
      /\ NoWork \in Work
  BY DEF Fail, Rollback, Goto, NoWork, Work
<1>3. TypeOK'
  BY <1>1, <1>2 DEF MigrationsInv, TypeOK
<1>4. /\ phase'[r] = "failing" /\ work'[r] = NoWork
      /\ \A q \in Runner \ {r} : phase'[q] = phase[q] /\ work'[q] = work[q]
  BY <1>2 DEF MigrationsInv, TypeOK
<1>5. RunnerInv(r)'
  BY <1>4 DEF RunnerInv, Holds
<1>6. QED
  BY <1>1, <1>3, <1>4, <1>5, OneRunner

\* The holder works alone: whatever it does to its transaction, it does to one
\* that began at the committed version.
LEMMA OwnWork ==
    ASSUME MigrationsInv, NEW r \in Runner, NEW w \in Work, Holds(r),
           work' = [work EXCEPT ![r] = w],
           phase' = [phase EXCEPT ![r] = "migrating"], UNCHANGED <<schema, applied, lock, command>>,
           \A n \in 0..5 : At(n) =>
              IF command[r] = "latest" THEN \E k \in n..5 : UpTo(w, n, k) ELSE OneDown(w, n)
    PROVE  MigrationsInv'
<1>1. TypeOK'
  BY DEF MigrationsInv, TypeOK
<1>2. /\ phase'[r] = "migrating" /\ work'[r] = w
      /\ \A q \in Runner \ {r} : phase'[q] = phase[q] /\ work'[q] = work[q]
  BY DEF MigrationsInv, TypeOK
<1>3. RunnerInv(r)'
  BY <1>2 DEF MigrationsInv, RunnerInv, Holds
<1>4. \A n \in 0..5 : At(n) => Progress(r, n)'
  BY <1>2 DEF Progress
<1>5. QED
  BY <1>1, <1>2, <1>3, <1>4, OneRunner

LEMMA GetStateStep ==
    ASSUME MigrationsInv, NEW r \in Runner, GetState(r)
    PROVE  MigrationsInv'
<1> DEFINE todo == IF command[r] = "latest" THEN Migration \ applied
                   ELSE IF applied = {} THEN {} ELSE {Max(applied)}
           w == [work[r] EXCEPT !.todo = todo]
<1>1. phase[r] = "reading" /\ Holds(r) /\ work[r] = NoWork
  BY DEF GetState, Holds, MigrationsInv, RunnerInv
<1>2. w = [todo |-> todo, done |-> {}, recorded |-> {}]
  BY <1>1 DEF NoWork
<1>3. ASSUME NEW n \in 0..5, At(n)
      PROVE  IF command[r] = "latest" THEN \E k \in n..5 : UpTo(w, n, k) ELSE OneDown(w, n)
  <2>1. applied = 1..n
    BY <1>3 DEF At
  <2>2. CASE command[r] = "latest"
    <3>1. todo = (n + 1)..5 /\ (n + 1)..n = {}
      BY <2>1, <2>2 DEF Migration
    <3>2. UpTo(w, n, n)
      BY <1>2, <3>1 DEF UpTo
    <3>3. QED
      BY <2>2, <3>2
  <2>3. CASE command[r] # "latest" /\ n = 0
    BY <1>2, <2>1, <2>3 DEF OneDown, NoWork
  <2>4. CASE command[r] # "latest" /\ n > 0
    <3>1. n \in Nat \ {0} /\ n \in 1..n
      BY <2>4
    <3>2. applied # {} /\ Max(applied) = n
      BY <2>1, <3>1, GreatestOfInterval
    <3>3. QED
      BY <1>2, <2>4, <3>2 DEF OneDown
  <2>5. QED
    BY <2>2, <2>3, <2>4
<1>4. w \in Work
  <2>1. PICK n \in 0..5 : At(n)
    BY DEF MigrationsInv
  <2>2. n > 0 => Max(applied) = n /\ n \in Migration
    BY <2>1, GreatestOfInterval DEF At, Migration
  <2>3. n = 0 => applied = {}
    BY <2>1 DEF At
  <2>4. todo \in SUBSET Migration
    BY <2>2, <2>3
  <2>5. QED
    BY <1>2, <2>4 DEF Work
<1>5. /\ work' = [work EXCEPT ![r] = w] /\ phase' = [phase EXCEPT ![r] = "migrating"]
      /\ UNCHANGED <<schema, applied, lock, command>>
  BY DEF GetState, Goto
<1> HIDE DEF w, todo
<1>6. QED
  BY <1>1, <1>3, <1>4, <1>5, OwnWork

\* What is due for "latest" is what follows the executed ones.
LEMMA DueFollows ==
    ASSUME NEW r \in Runner, NEW n \in 0..5, NEW k \in n..5, UpTo(work[r], n, k),
           work[r].todo # {}
    PROVE  k < 5 /\ Due(r) = k + 1
<1>1. work[r].todo = (k + 1)..5
  BY DEF UpTo
<1>2. k + 1 <= 5
  BY <1>1
<1>3. QED
  BY <1>1, <1>2, LeastOfInterval DEF Due

\* The one migration that "down" has to undo.
LEMMA DueDown ==
    ASSUME NEW r \in Runner, NEW n \in 0..5, OneDown(work[r], n), work[r].todo # {}
    PROVE  /\ n > 0 /\ Due(r) = n /\ work[r].todo = {n} /\ work[r].recorded = {}
           /\ work[r].done \in {{}, {n}}
<1>1. n > 0 /\ work[r].todo = {n} /\ work[r].recorded = {} /\ work[r].done \in {{}, {n}}
  BY DEF OneDown, NoWork
<1>2. Min({n}) = n
  BY OnlyOne
<1>3. QED
  BY <1>1, <1>2 DEF Due

LEMMA ExecuteStep ==
    ASSUME MigrationsInv, NEW r \in Runner, Execute(r)
    PROVE  MigrationsInv'
<1> DEFINE w == [work[r] EXCEPT !.done = work[r].done \cup {Due(r)}]
<1>1. /\ phase[r] = "migrating" /\ Holds(r) /\ work[r] \in Work
      /\ work[r].todo # {} /\ work[r].done = work[r].recorded
  BY DEF Execute, Holds, MigrationsInv, TypeOK
<1>2. /\ w.todo = work[r].todo /\ w.recorded = work[r].recorded
      /\ w.done = work[r].done \cup {Due(r)}
  BY <1>1 DEF Work
<1>3. ASSUME NEW n \in 0..5, At(n)
      PROVE  /\ IF command[r] = "latest" THEN \E k \in n..5 : UpTo(w, n, k) ELSE OneDown(w, n)
             /\ Due(r) \in Migration
  <2>1. Progress(r, n)
    BY <1>1, <1>3 DEF At
  <2>2. CASE command[r] = "latest"
    <3>1. PICK k \in n..5 : UpTo(work[r], n, k)
      BY <2>1, <2>2 DEF Progress
    <3>2. k < 5 /\ Due(r) = k + 1
      BY <1>1, <3>1, DueFollows
    <3>3. (n + 1)..k \cup {k + 1} = (n + 1)..(k + 1) /\ k + 1 \in Migration
      BY <3>2 DEF Migration
    <3>4. UpTo(w, n, k)
      BY <1>1, <1>2, <3>1, <3>2, <3>3 DEF UpTo
    <3>5. QED
      BY <2>2, <3>2, <3>3, <3>4
  <2>3. CASE command[r] # "latest"
    <3>1. n > 0 /\ Due(r) = n /\ work[r].todo = {n} /\ work[r].recorded = {}
      BY <1>1, <2>1, <2>3, DueDown DEF Progress
    <3>2. OneDown(w, n) /\ n \in Migration
      BY <1>1, <1>2, <3>1 DEF OneDown, Migration
    <3>3. QED
      BY <2>3, <3>1, <3>2
  <2>4. QED
    BY <2>2, <2>3
<1>4. w \in Work
  BY <1>1, <1>3 DEF Work, MigrationsInv
<1>5. /\ work' = [work EXCEPT ![r] = w] /\ phase' = [phase EXCEPT ![r] = "migrating"]
      /\ UNCHANGED <<schema, applied, lock, command>>
  BY <1>1 DEF Execute, MigrationsInv, TypeOK
<1> HIDE DEF w
<1>6. QED
  BY <1>1, <1>3, <1>4, <1>5, OwnWork

LEMMA RecordStep ==
    ASSUME MigrationsInv, NEW r \in Runner, Record(r)
    PROVE  MigrationsInv'
<1> DEFINE w == [work[r] EXCEPT !.recorded = work[r].recorded \cup {Due(r)},
                                !.todo = work[r].todo \ {Due(r)}]
<1>1. /\ phase[r] = "migrating" /\ Holds(r) /\ work[r] \in Work
      /\ work[r].done # work[r].recorded
  BY DEF Record, Holds, MigrationsInv, TypeOK
<1>2. /\ w.todo = work[r].todo \ {Due(r)} /\ w.recorded = work[r].recorded \cup {Due(r)}
      /\ w.done = work[r].done
  BY <1>1 DEF Work
<1>3. ASSUME NEW n \in 0..5, At(n)
      PROVE  /\ IF command[r] = "latest" THEN \E k \in n..5 : UpTo(w, n, k) ELSE OneDown(w, n)
             /\ Due(r) \in Migration
  <2>1. Progress(r, n)
    BY <1>1, <1>3 DEF At
  <2>2. CASE command[r] = "latest"
    <3>1. PICK k \in n..5 : UpTo(work[r], n, k)
      BY <2>1, <2>2 DEF Progress
    <3>2. /\ k < 5 /\ k + 1 \in n..5 /\ k + 1 \in Migration
          /\ work[r].todo = (k + 1)..5 /\ work[r].recorded = (n + 1)..k
          /\ work[r].done = (n + 1)..(k + 1) /\ k + 1 \in work[r].todo
      BY <1>1, <3>1 DEF UpTo, Migration
    <3>3. Due(r) = k + 1
      BY <3>1, <3>2, DueFollows
    <3>4. /\ (n + 1)..k \cup {k + 1} = (n + 1)..(k + 1)
          /\ (k + 1)..5 \ {k + 1} = ((k + 1) + 1)..5
      BY <3>2
    <3>5. UpTo(w, n, k + 1)
      BY <1>2, <3>2, <3>3, <3>4 DEF UpTo
    <3>6. QED
      BY <2>2, <3>2, <3>3, <3>5
  <2>3. CASE command[r] # "latest"
    <3>1. work[r].todo # {}
      BY SMTT(30), <1>1, <2>1, <2>3 DEF Progress, OneDown, NoWork
    <3>2. /\ n > 0 /\ Due(r) = n /\ work[r].todo = {n} /\ work[r].recorded = {}
          /\ work[r].done = {n}
      BY <1>1, <2>1, <2>3, <3>1, DueDown DEF Progress
    <3>3. OneDown(w, n) /\ n \in Migration
      BY <1>2, <3>2 DEF OneDown, Migration
    <3>4. QED
      BY <2>3, <3>2, <3>3
  <2>4. QED
    BY <2>2, <2>3
<1>4. w \in Work
  BY <1>1, <1>3 DEF Work, MigrationsInv
<1>5. /\ work' = [work EXCEPT ![r] = w] /\ phase' = [phase EXCEPT ![r] = "migrating"]
      /\ UNCHANGED <<schema, applied, lock, command>>
  BY <1>1 DEF Record, MigrationsInv, TypeOK
<1> HIDE DEF w
<1>6. QED
  BY <1>1, <1>3, <1>4, <1>5, OwnWork

\* A commit of "latest" reaches the last version, and one of "down" the version
\* before, unless there is none.
LEMMA CommitReaches ==
    ASSUME MigrationsInv, NEW r \in Runner, Commit(r), NEW n \in 0..5, At(n)
    PROVE  \E v \in 0..5 :
              /\ applied' = 1..v /\ schema' = SchemaOf(v)
              /\ IF command[r] = "latest" THEN v = 5 ELSE v = n \/ v = n - 1
<1>1. /\ Progress(r, n) /\ work[r].todo = {} /\ applied = 1..n /\ schema = SchemaOf(n)
      /\ schema' = Visible(r) /\ applied' = Recorded(r)
  BY DEF Commit, At
<1>2. CASE command[r] = "latest"
  <2>1. PICK k \in n..5 : UpTo(work[r], n, k)
    BY <1>1, <1>2 DEF Progress
  <2>2. k = 5
    <3>1. k + 1 \notin (k + 1)..5
      BY <1>1, <2>1 DEF UpTo
    <3>2. QED
      BY <3>1
  <2>3. work[r].done = (n + 1)..5 /\ work[r].recorded = (n + 1)..5
    BY <2>1, <2>2 DEF UpTo
  <2>4. schema' = SchemaOf(5)
    BY <1>1, <1>2, <2>3, SchemaGrows DEF Visible
  <2>5. applied' = 1..5
    <3>1. 1..n \cup (n + 1)..5 = 1..5
      OBVIOUS
    <3>2. QED
      BY <1>1, <1>2, <2>3, <3>1 DEF Recorded
  <2>6. QED
    BY <1>2, <2>4, <2>5
<1>3. CASE command[r] # "latest" /\ n = 0
  <2>1. work[r].done = {} /\ work[r].recorded = {}
    BY <1>1, <1>3 DEF Progress, OneDown, NoWork
  <2>2. schema' = schema /\ applied' = applied
    BY <1>1, <1>3, <2>1 DEF Visible, Recorded
  <2>3. QED
    BY <1>1, <1>3, <2>2
<1>4. CASE command[r] # "latest" /\ n > 0
  <2>1. work[r].done = {n} /\ work[r].recorded = {n}
    BY <1>1, <1>4 DEF Progress, OneDown
  <2>2. schema' = SchemaOf(n) \ Drops[n] /\ applied' = 1..n \ {n}
    BY <1>1, <1>4, <2>1 DEF Visible, Recorded
  <2>3. schema' = SchemaOf(n - 1)
    BY <1>4, <2>2, SchemaShrinks
  <2>4. applied' = 1..(n - 1)
    BY <1>4, <2>2
  <2>5. n - 1 \in 0..5
    BY <1>4
  <2>6. QED
    BY <1>4, <2>3, <2>4, <2>5
<1>5. QED
  BY <1>2, <1>3, <1>4

LEMMA CommitStep ==
    ASSUME MigrationsInv, NEW r \in Runner, Commit(r)
    PROVE  MigrationsInv'
<1>1. PICK n \in 0..5 : At(n)
  BY DEF MigrationsInv
<1>2. PICK v \in 0..5 : applied' = 1..v /\ schema' = SchemaOf(v)
  BY <1>1, CommitReaches
<1>3. /\ phase' = [phase EXCEPT ![r] = "closing"] /\ work' = [work EXCEPT ![r] = NoWork]
      /\ UNCHANGED command /\ NoWork \in Work
      /\ phase[r] = "migrating" /\ lock = r /\ lock' = None
  BY DEF Commit, Goto, Release, MigrationsInv, RunnerInv, Holds, NoWork, Work
<1>4. TypeOK'
  BY <1>3 DEF MigrationsInv, TypeOK
<1>5. /\ phase'[r] = "closing" /\ work'[r] = NoWork
      /\ \A q \in Runner \ {r} : phase'[q] = phase[q] /\ work'[q] = work[q]
  BY <1>3 DEF MigrationsInv, TypeOK
<1>6. ASSUME NEW q \in Runner PROVE RunnerInv(q)' /\ phase'[q] # "migrating"
  BY <1>3, <1>5 DEF MigrationsInv, RunnerInv, Holds
<1>7. At(v)'
  BY <1>2, <1>6 DEF At
<1>8. QED
  BY <1>4, <1>6, <1>7 DEF MigrationsInv

-----------------------------------------------------------------------------
(* The theorems.                                                            *)

\* What the holder of the lock has done follows what was committed.
THEOREM MigrationsInvariant == Spec => []MigrationsInv
<1>1. Init => MigrationsInv
  <2>1. SUFFICES ASSUME Init PROVE MigrationsInv
    OBVIOUS
  <2>2. TypeOK
    BY <2>1 DEF Init, TypeOK, NoWork, Work, Over
  <2>3. \A r \in Runner : RunnerInv(r)
    BY <2>1 DEF Init, RunnerInv, Holds
  <2>4. 1..0 = {} /\ SchemaOf(0) = {}
    BY DEF SchemaOf
  <2>5. At(0)
    BY <2>1, <2>4 DEF Init, At
  <2>6. QED
    BY <2>2, <2>3, <2>5 DEF MigrationsInv
<1>2. MigrationsInv /\ [Next]_vars => MigrationsInv'
  <2>1. SUFFICES ASSUME MigrationsInv, [Next]_vars PROVE MigrationsInv'
    OBVIOUS
  <2>2. CASE UNCHANGED vars
    BY <2>1, <2>2
       DEF vars, MigrationsInv, TypeOK, RunnerInv, Holds, At, Progress
  <2>3. ASSUME NEW r \in Runner, StartCommand(r) \/ Step(r) \/ StatementFails(r)
        PROVE  MigrationsInv'
    BY <2>1, <2>3, QuietStep, AcquireStep, FailStep, GetStateStep, ExecuteStep, RecordStep,
       CommitStep DEF Step, LockTimeout, StatementFails
  <2>4. QED
    BY <2>1, <2>2, <2>3 DEF Next
<1>3. QED
  BY <1>1, <1>2, PTL DEF Spec

\* The metadata table tells the truth about the schema, whatever failed.
THEOREM RecordIsTrue == Spec => []SchemaMatchesRecord
<1>1. MigrationsInv => SchemaMatchesRecord
  BY DEF MigrationsInv, At, SchemaOf, SchemaMatchesRecord
<1>2. QED
  BY <1>1, MigrationsInvariant, PTL

\* No run meets what another one has created or dropped.
THEOREM RunsDoNotRace == Spec => []NoConflict
<1>1. MigrationsInv => NoConflict
  BY DueIsExecutable DEF MigrationsInv, NoConflict
<1>2. QED
  BY <1>1, MigrationsInvariant, PTL

\* Only the commit of a run reports the success of "latest".
THEOREM SuccessIsLatest == Spec => SuccessMeansLatest
<1>1. ASSUME MigrationsInv, Next, NEW r \in Runner,
             command[r] = "latest", phase[r] # "closing", phase'[r] = "closing"
      PROVE  applied' = Migration
  <2>1. PICK q \in Runner : StartCommand(q) \/ Step(q) \/ StatementFails(q)
    BY <1>1 DEF Next
  <2>2. CASE Commit(q)
    <3>1. q = r
      BY <1>1, <2>2 DEF Commit, Goto, MigrationsInv, TypeOK
    <3>2. QED
      BY <1>1, <2>2, <3>1, CommitReaches DEF MigrationsInv, Migration
  <2>3. CASE GetMigrationStatus(q)
    BY <1>1, <2>3 DEF GetMigrationStatus, Goto, MigrationsInv, TypeOK, RunnerInv
  <2>4. CASE \/ StartCommand(q) \/ ExecuteCommand(q) \/ AcquireMigrationLock(q) \/ GetState(q)
             \/ CloseDatabase(q) \/ Fail(q)
    BY <1>1, <2>4
       DEF MigrationsInv, TypeOK, StartCommand, ExecuteCommand, AcquireMigrationLock, GetState,
           CloseDatabase, Fail, Goto
  <2>5. CASE Execute(q) \/ Record(q)
    BY <1>1, <2>5 DEF Execute, Record
  <2>6. QED
    BY <2>1, <2>2, <2>3, <2>4, <2>5 DEF Step, LockTimeout, StatementFails
<1>2. MigrationsInv /\ [Next]_vars =>
         [\A r \in Runner :
             command[r] = "latest" /\ phase[r] # "closing" /\ phase'[r] = "closing" =>
                applied' = Migration]_vars
  BY <1>1
<1>3. QED
  BY <1>2, MigrationsInvariant, PTL DEF Spec, SuccessMeansLatest

\* Each run changes the version of the schema in one step or not at all.
THEOREM MigrationsImplementVersion == Spec => ImplementsSchemaVersion
<1>1. Init => Versioned!Init
  BY FS_EmptySet DEF Init, Versioned!Init
<1>2. MigrationsInv /\ [Next]_vars =>
         [Versioned!Latest \/ Versioned!Down]_(Cardinality(applied))
  <2>1. SUFFICES ASSUME MigrationsInv, [Next]_vars, applied' # applied
                 PROVE  Versioned!Latest \/ Versioned!Down
    OBVIOUS
  <2>2. PICK r \in Runner : Commit(r)
    BY <2>1 DEF Next, vars, StartCommand, Step, ExecuteCommand, GetMigrationStatus,
                AcquireMigrationLock, LockTimeout, GetState, Execute, Record, CloseDatabase,
                StatementFails, Fail, Rollback
  <2>3. PICK n \in 0..5 : At(n)
    BY <2>1 DEF MigrationsInv
  <2>4. PICK v \in 0..5 :
           /\ applied' = 1..v
           /\ IF command[r] = "latest" THEN v = 5 ELSE v = n \/ v = n - 1
    BY <2>1, <2>2, <2>3, CommitReaches
  <2>5. ASSUME NEW k \in 0..5 PROVE Cardinality(1..k) = k
    <3>1. Cardinality(1..k) = IF 1 > k THEN 0 ELSE k - 1 + 1
      BY FS_Interval
    <3>2. QED
      BY <3>1
  <2>6. Cardinality(applied) = n /\ Cardinality(applied') = v
    BY <2>3, <2>4, <2>5 DEF At
  <2>7. v # n
    BY <2>1, <2>3, <2>4 DEF At
  <2>8. QED
    BY <2>4, <2>6, <2>7 DEF Versioned!Latest, Versioned!Down
<1>3. QED
  BY <1>1, <1>2, MigrationsInvariant, PTL
     DEF Spec, ImplementsSchemaVersion, Versioned!Spec

-----------------------------------------------------------------------------
(* Why every command ends: the safety half of CommandsEnd.                  *)

\* The guards of Step; a process at the lock takes it or gives up waiting.
CanStep(r) ==
    \/ phase[r] \in {"connecting", "listing", "locking", "reading", "closing", "failing"}
    \/ /\ phase[r] = "migrating"
       /\ \/ work[r].done # work[r].recorded
          \/ work[r].todo = {}
          \/ Executable(r, Due(r))

\* Who holds the lock is at work and is a process that can go on, so nobody
\* waits for a lock that was left behind; and no command in progress is stuck.
NeverStuck ==
    /\ lock # None => lock \in Runner /\ Holds(lock) /\ CanStep(lock)
    /\ \A r \in Runner : phase[r] \notin Over => CanStep(r)

\* How far a process is; success and failure are at the same distance.
Stage(p) ==
    CASE p = "connecting" -> 0
      [] p \in {"listing", "locking"} -> 1
      [] p = "reading" -> 2
      [] p = "migrating" -> 3
      [] p \in {"closing", "failing"} -> 4
      [] p \in Over -> 5

\* The work of its transaction grew by an execution or a record, and lost none.
Grows(w, v) ==
    /\ w.done \subseteq v.done /\ w.recorded \subseteq v.recorded
    /\ w.done # v.done \/ w.recorded # v.recorded

\* A command in progress never does again what it has done: it comes strictly
\* closer to its end, with each of five migrations executed and recorded once,
\* or stays as it is.
OnlyAdvances(r) ==
    \/ UNCHANGED <<phase[r], command[r], work[r]>>
    \/ phase[r] \in Over
    \/ /\ command'[r] = command[r]
       /\ \/ Stage(phase[r]) < Stage(phase'[r])
          \/ phase[r] = "migrating" /\ phase'[r] = "migrating" /\ Grows(work[r], work'[r])

CommandsOnlyAdvance == \A r \in Runner : OnlyAdvances(r)

LockIsAlive == lock # None => lock \in Runner /\ Holds(lock)

\* How the phases of a command follow each other.
Follows(p, q) ==
    \/ p = "connecting" /\ q \in {"listing", "locking"}
    \/ p = "listing" /\ q = "closing"
    \/ p = "locking" /\ q = "reading"
    \/ p = "reading" /\ q = "migrating"
    \/ p = "migrating" /\ q = "closing"
    \/ p \in {"closing", "failing"} /\ q \in {"exited 0", "exited 1"}
    \/ p \in {"connecting", "listing", "locking", "reading", "migrating"} /\ q = "failing"

LEMMA Forward == ASSUME NEW p, NEW q, Follows(p, q) PROVE Stage(p) < Stage(q)
<1>1. /\ Stage("connecting") = 0 /\ Stage("listing") = 1 /\ Stage("locking") = 1
      /\ Stage("reading") = 2 /\ Stage("migrating") = 3
      /\ Stage("closing") = 4 /\ Stage("failing") = 4
      /\ Stage("exited 0") = 5 /\ Stage("exited 1") = 5
  BY DEF Stage, Over
<1>2. CASE p = "connecting" /\ q \in {"listing", "locking", "failing"}
  <2>1. Stage(p) = 0 /\ Stage(q) \in {1, 4}
    BY <1>1, <1>2
  <2>2. QED
    BY <2>1
<1>3. CASE p \in {"listing", "locking"} /\ q \in {"reading", "closing", "failing"}
  <2>1. Stage(p) = 1 /\ Stage(q) \in {2, 4}
    BY <1>1, <1>3
  <2>2. QED
    BY <2>1
<1>4. CASE p = "reading" /\ q \in {"migrating", "failing"}
  <2>1. Stage(p) = 2 /\ Stage(q) \in {3, 4}
    BY <1>1, <1>4
  <2>2. QED
    BY <2>1
<1>5. CASE p = "migrating" /\ q \in {"closing", "failing"}
  <2>1. Stage(p) = 3 /\ Stage(q) = 4
    BY <1>1, <1>5
  <2>2. QED
    BY <2>1
<1>6. CASE p \in {"closing", "failing"} /\ q \in {"exited 0", "exited 1"}
  <2>1. Stage(p) = 4 /\ Stage(q) = 5
    BY <1>1, <1>6
  <2>2. QED
    BY <2>1
<1>7. QED
  BY <1>2, <1>3, <1>4, <1>5, <1>6 DEF Follows

\* A lock ends with the transaction that took it, however that ends.
LEMMA LockStaysAlive ==
    ASSUME MigrationsInv, LockIsAlive, [Next]_vars
    PROVE  LockIsAlive'
<1>1. CASE UNCHANGED vars
  BY <1>1 DEF vars, LockIsAlive, Holds
<1>2. ASSUME NEW r \in Runner, StartCommand(r) \/ Step(r) \/ StatementFails(r)
      PROVE  LockIsAlive'
  <2>1. \A q \in Runner : r = q \/ \A p : [phase EXCEPT ![r] = p][q] = phase[q]
    BY DEF MigrationsInv, TypeOK
  <2>2. \A p : [phase EXCEPT ![r] = p][r] = p
    BY DEF MigrationsInv, TypeOK
  <2>3. CASE StartCommand(r) \/ ExecuteCommand(r) \/ GetMigrationStatus(r) \/ CloseDatabase(r)
    <3>1. lock' = lock /\ lock # r
      BY <2>3, NoneAssumption DEF LockIsAlive, Holds, StartCommand, ExecuteCommand,
         GetMigrationStatus, CloseDatabase, Over
    <3>2. \A q \in Runner \ {r} : phase'[q] = phase[q]
      BY <2>1, <2>3 DEF StartCommand, ExecuteCommand, GetMigrationStatus, CloseDatabase, Goto
    <3>3. QED
      BY <3>1, <3>2 DEF LockIsAlive, Holds
  <2>4. CASE AcquireMigrationLock(r)
    BY <2>2, <2>4 DEF AcquireMigrationLock, Goto, LockIsAlive, Holds
  <2>5. CASE GetState(r)
    <3>1. lock' = lock /\ phase'[r] = "migrating" /\ \A q \in Runner \ {r} : phase'[q] = phase[q]
      BY <2>1, <2>2, <2>5 DEF GetState, Goto
    <3>2. QED
      BY <3>1 DEF LockIsAlive, Holds
  <2>6. CASE Execute(r) \/ Record(r)
    BY <2>6 DEF Execute, Record, LockIsAlive, Holds
  <2>7. CASE Commit(r) \/ Fail(r)
    <3>1. /\ lock' = IF lock = r THEN None ELSE lock
          /\ \A q \in Runner \ {r} : phase'[q] = phase[q]
      BY <2>1, <2>7 DEF Commit, Fail, Rollback, Release, Goto
    <3>2. QED
      BY <3>1 DEF LockIsAlive, Holds
  <2>8. QED
    BY <1>2, <2>3, <2>4, <2>5, <2>6, <2>7 DEF Step, LockTimeout, StatementFails
<1>3. QED
  BY <1>1, <1>2 DEF Next

\* What has been executed is recorded before the next is due, and what is due
\* has not been recorded.
LEMMA DueIsNew ==
    ASSUME MigrationsInv, NEW r \in Runner, phase[r] = "migrating"
    PROVE  /\ work[r].done # work[r].recorded => work[r].todo # {}
           /\ work[r].todo # {} => Due(r) \notin work[r].recorded
<1>1. PICK n \in 0..5 : Progress(r, n)
  BY DEF MigrationsInv, At
<1>2. CASE command[r] = "latest"
  <2>1. PICK k \in n..5 : UpTo(work[r], n, k)
    BY <1>1, <1>2 DEF Progress
  <2>2. k < 5 => k + 1 \in (k + 1)..5
    OBVIOUS
  <2>3. work[r].done # work[r].recorded => work[r].todo # {}
    BY <2>1, <2>2 DEF UpTo
  <2>4. k + 1 \notin (n + 1)..k
    OBVIOUS
  <2>5. work[r].todo # {} => Due(r) \notin work[r].recorded
    BY <2>1, <2>4, DueFollows DEF UpTo
  <2>6. QED
    BY <2>3, <2>5
<1>3. CASE command[r] # "latest"
  <2>1. OneDown(work[r], n)
    BY <1>1, <1>3 DEF Progress
  <2>2. work[r].done # work[r].recorded => work[r].todo # {}
    BY <2>1 DEF OneDown, NoWork
  <2>3. work[r].todo # {} => work[r].recorded = {}
    BY <2>1, DueDown
  <2>4. QED
    BY <2>2, <2>3
<1>4. QED
  BY <1>2, <1>3

\* A lock is never left behind by a command that failed or ended, its holder
\* can always go on, and so can every other command in progress: with the
\* fairness of FairSpec, nothing keeps a command from its end.
THEOREM CommandsAreNeverStuck == Spec => []NeverStuck
<1>1. Init => LockIsAlive
  BY DEF Init, LockIsAlive
<1>2. MigrationsInv /\ LockIsAlive /\ [Next]_vars => LockIsAlive'
  BY LockStaysAlive
<1>3. MigrationsInv /\ LockIsAlive => NeverStuck
  <2>1. SUFFICES ASSUME MigrationsInv, LockIsAlive PROVE NeverStuck
    OBVIOUS
  <2>2. ASSUME NEW r \in Runner, phase[r] \notin Over PROVE CanStep(r)
    <3>1. CASE phase[r] = "migrating"
      BY <2>1, <3>1, DueIsExecutable DEF MigrationsInv, CanStep
    <3>2. CASE phase[r] # "migrating"
      BY <2>1, <2>2, <3>2 DEF MigrationsInv, TypeOK, CanStep
    <3>3. QED
      BY <3>1, <3>2
  <2>3. QED
    BY <2>1, <2>2 DEF NeverStuck, LockIsAlive, Holds, Over
<1>4. QED
  BY <1>1, <1>2, <1>3, MigrationsInvariant, PTL DEF Spec

\* No command goes back or around: it does each migration once, and each of its
\* steps brings it closer to its end.
THEOREM CommandsAdvance == Spec => [][CommandsOnlyAdvance]_vars
<1>1. ASSUME MigrationsInv, Next, NEW q \in Runner PROVE OnlyAdvances(q)
  <2>1. PICK r \in Runner : StartCommand(r) \/ Step(r) \/ StatementFails(r)
    BY <1>1 DEF Next
  <2>2. CASE q # r
    <3>1. UNCHANGED <<phase[q], command[q], work[q]>>
      BY <1>1, <2>1, <2>2
         DEF MigrationsInv, TypeOK, StartCommand, Step, ExecuteCommand, GetMigrationStatus,
             AcquireMigrationLock, LockTimeout, GetState, Execute, Record, Commit,
             CloseDatabase, StatementFails, Fail, Rollback, Goto
    <3>2. QED
      BY <3>1 DEF OnlyAdvances
  <2>3. CASE q = r /\ StartCommand(r)
    BY <2>3 DEF StartCommand, OnlyAdvances
  <2>4. CASE q = r /\ (ExecuteCommand(r) \/ GetMigrationStatus(r) \/ AcquireMigrationLock(r)
                       \/ GetState(r) \/ Commit(r) \/ CloseDatabase(r)
                       \/ LockTimeout(r) \/ StatementFails(r))
    <3>1. \A p : [phase EXCEPT ![r] = p][r] = p
      BY <1>1 DEF MigrationsInv, TypeOK
    <3>2. command'[r] = command[r] /\ Follows(phase[r], phase'[r])
      BY <2>4, <3>1
         DEF ExecuteCommand, GetMigrationStatus, AcquireMigrationLock, GetState, Commit,
             CloseDatabase, LockTimeout, StatementFails, Fail, Rollback, Goto, Follows
    <3>3. Stage(phase[r]) < Stage(phase'[r])
      BY <3>2, Forward
    <3>4. QED
      BY <2>4, <3>2, <3>3 DEF OnlyAdvances
  <2>5. CASE q = r /\ Execute(r)
    <3>1. /\ phase[r] = "migrating" /\ phase' = phase /\ command' = command
          /\ work'[r] = [work[r] EXCEPT !.done = work[r].done \cup {Due(r)}]
          /\ work[r] \in Work /\ work[r].todo # {} /\ work[r].done = work[r].recorded
      BY <1>1, <2>5 DEF Execute, MigrationsInv, TypeOK
    <3>2. work'[r].done = work[r].done \cup {Due(r)} /\ work'[r].recorded = work[r].recorded
      BY <3>1 DEF Work
    <3>3. Due(r) \notin work[r].done
      BY <1>1, <3>1, DueIsNew
    <3>4. QED
      BY <2>5, <3>1, <3>2, <3>3 DEF OnlyAdvances, Grows
  <2>6. CASE q = r /\ Record(r)
    <3>1. /\ phase[r] = "migrating" /\ phase' = phase /\ command' = command
          /\ work'[r] = [work[r] EXCEPT !.recorded = work[r].recorded \cup {Due(r)},
                                        !.todo = work[r].todo \ {Due(r)}]
          /\ work[r] \in Work /\ work[r].done # work[r].recorded
      BY <1>1, <2>6 DEF Record, MigrationsInv, TypeOK
    <3>2. work'[r].done = work[r].done /\ work'[r].recorded = work[r].recorded \cup {Due(r)}
      BY <3>1 DEF Work
    <3>3. Due(r) \notin work[r].recorded
      BY <1>1, <3>1, DueIsNew
    <3>4. QED
      BY <2>6, <3>1, <3>2, <3>3 DEF OnlyAdvances, Grows
  <2>7. QED
    BY <2>1, <2>2, <2>3, <2>4, <2>5, <2>6 DEF Step
<1>2. MigrationsInv /\ [Next]_vars => [CommandsOnlyAdvance]_vars
  BY <1>1 DEF CommandsOnlyAdvance
<1>3. QED
  BY <1>2, MigrationsInvariant, PTL DEF Spec
=============================================================================
