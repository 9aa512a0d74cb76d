-------------------------------- MODULE Auth --------------------------------
(***************************************************************************)
(* The authentication service: registration, login, logout and logout-all. *)
(*                                                                         *)
(* There is one action per statement on the database, and between two of   *)
(* them anything else may happen: only a registration runs in a            *)
(* transaction, while a login is three statements that commit one by one.  *)
(* Logout and logout-all are one UPDATE each, which locks the rows it found *)
(* one after the other, judges each again once it has the lock, and writes *)
(* none of them before it has them all.                                    *)
(*                                                                         *)
(* An account is named by its normalized email address: it is unique and   *)
(* never changes.  A session is named by its token.                        *)
(***************************************************************************)
EXTENDS Integers

CONSTANTS
    Email,          \* the normalized email addresses
    Password,       \* the passwords
    Session,        \* the tokens that new sessions may receive
    Request,        \* the requests the service handles at once
    Operation,      \* the operations an instance exercises
    Ttl,            \* the lifetime of a session, AUTH_SESSION_TTL_SECONDS
    Horizon,        \* bound: the clock stops here
    None            \* no row, no value

Status == {"active", "disabled"}
Hash == [password : Password, parameters : {"outdated", "current"}]
SessionRow == [user : Email, expires : Nat, revoked : Nat \cup {None}]

ASSUME OperationAssumption == Operation \subseteq {"register", "login", "logout", "logoutAll"}
ASSUME TimeAssumption == Ttl \in Nat \ {0} /\ Horizon \in Nat
ASSUME NoneAssumption == None \notin Request \cup Nat \cup Status \cup Hash \cup SessionRow

VARIABLES
    user,           \* users.status, by account
    credential,     \* auth_password_credentials, by account
    session,        \* auth_sessions, by token
    now,            \* the clock of the service
    lockedBy,       \* the request whose statement holds the lock of a session row
    phase,          \* how far each request has come
    input,          \* what it was asked
    seen,           \* what it has read and must go by
    loggedOut,      \* the sessions whose end a client has been told of
    chosen          \* the password last chosen for each account

tables == <<user, credential, session>>
history == <<loggedOut, chosen>>
authVars == <<tables, now, lockedBy, phase, input, seen, history>>

\* `session` is the fresh token of a registration or login and the presented
\* one of a logout.
Input == [op : Operation, email : Email \cup {None}, password : Password \cup {None},
          session : Session]

\* What a request has read: a hash, the time, the `rows` that its UPDATE has yet
\* to lock and the sessions `covered` by its answer to the client.
Nothing == [hash |-> None, at |-> 0, rows |-> {}, covered |-> {}]

\* Some accounts are older than the present parameters of the password hasher.
AuthInit ==
    /\ \E known \in SUBSET Email, hash \in [Email -> Hash] :
          /\ user = [e \in Email |-> IF e \in known THEN "active" ELSE None]
          /\ credential = [e \in Email |-> IF e \in known THEN hash[e] ELSE None]
          /\ chosen = [e \in Email |-> IF e \in known THEN hash[e].password ELSE None]
    /\ session = [s \in Session |-> None]
    /\ now = 0
    /\ lockedBy = [s \in Session |-> None]
    /\ phase = [r \in Request |-> "idle"]
    /\ input = [r \in Request |-> None]
    /\ seen = [r \in Request |-> Nothing]
    /\ loggedOut = {}

-----------------------------------------------------------------------------

Goto(r, p) == phase' = [phase EXCEPT ![r] = p]

Note(r, s) == seen' = [seen EXCEPT ![r] = s]

\* The request ends, its statement or transaction committed or rolled back.
Finish(r) ==
    /\ Goto(r, "idle")
    /\ input' = [input EXCEPT ![r] = None]
    /\ Note(r, Nothing)
    /\ lockedBy' = [s \in Session |-> IF lockedBy[s] = r THEN None ELSE lockedBy[s]]
    /\ UNCHANGED now

Reject(r) == Finish(r) /\ UNCHANGED <<tables, history>>

Begin(r, in, p, s) ==
    /\ phase[r] = "idle" /\ in.op \in Operation
    /\ Goto(r, p)
    /\ input' = [input EXCEPT ![r] = in]
    /\ Note(r, s)
    /\ UNCHANGED <<tables, now, lockedBy, history>>

Fresh(s) ==
    /\ session[s] = None
    /\ \A r \in Request : phase[r] # "idle" => input[r].session # s

NewSession(e, at) == [user |-> e, expires |-> at + Ttl, revoked |-> None]

\* The input of a registration or login is valid; its token will be random.
StartCredentials(r) ==
    \E op \in {"register", "login"}, e \in Email, p \in Password, s \in Session :
        /\ Fresh(s)
        /\ Begin(r, [op |-> op, email |-> e, password |-> p, session |-> s],
                 "resolved", [Nothing EXCEPT !.at = now])

-----------------------------------------------------------------------------
(* AuthService.register: three inserts in one transaction                   *)

\* The INSERT of the user waits for an uncommitted one with its email address
\* and fails on a committed one.
InsertUser(r) ==
    LET e == input[r].email IN
    /\ phase[r] = "resolved" /\ input[r].op = "register"
    /\ \A s \in Request \ {r} :
          phase[s] \in {"userInserted", "credentialInserted", "written"} => input[s].email # e
    /\ \/ user[e] # None /\ Reject(r)
       \/ /\ user[e] = None
          /\ Goto(r, "userInserted")
          /\ UNCHANGED <<tables, now, lockedBy, input, seen, history>>

InsertCredential(r) ==
    /\ phase[r] = "userInserted"
    /\ Goto(r, "credentialInserted")
    /\ UNCHANGED <<tables, now, lockedBy, input, seen, history>>

InsertFirstSession(r) ==
    /\ phase[r] = "credentialInserted"
    /\ Goto(r, "written")
    /\ UNCHANGED <<tables, now, lockedBy, input, seen, history>>

CommitRegistration(r) ==
    LET in == input[r] IN
    /\ phase[r] = "written"
    /\ user' = [user EXCEPT ![in.email] = "active"]
    /\ credential' = [credential EXCEPT ![in.email] =
                         [password |-> in.password, parameters |-> "current"]]
    /\ session' = [session EXCEPT ![in.session] = NewSession(in.email, seen[r].at)]
    /\ chosen' = [chosen EXCEPT ![in.email] = in.password]
    /\ Finish(r)
    /\ UNCHANGED loggedOut

-----------------------------------------------------------------------------
(* AuthService.login                                                        *)

\* What was read here decides: an unknown address, a wrong password and a
\* disabled user are refused alike.
FindLoginIdentity(r) ==
    LET e == input[r].email
        accepted == user[e] = "active" /\ credential[e].password = input[r].password
    IN  /\ phase[r] = "resolved" /\ input[r].op = "login"
        /\ \/ ~accepted /\ Reject(r)
           \/ /\ accepted
              /\ Goto(r, "found")
              /\ Note(r, [seen[r] EXCEPT !.hash = credential[e]])
              /\ UNCHANGED <<tables, now, lockedBy, input, history>>

\* The password is verified and the time taken; rehashing is decided.
VerifyPassword(r) ==
    /\ phase[r] = "found"
    /\ Goto(r, IF seen[r].hash.parameters = "outdated" THEN "rehashing" ELSE "opening")
    /\ Note(r, [seen[r] EXCEPT !.at = now])
    /\ UNCHANGED <<tables, now, lockedBy, input, history>>

\* Mutant: the UPDATE does not name the hash it expects.
ReplaceAnyPasswordHash(r) ==
    LET e == input[r].email IN
    /\ phase[r] = "rehashing"
    /\ credential' = [credential EXCEPT ![e] =
                         [password |-> input[r].password, parameters |-> "current"]]
    /\ Goto(r, "opening")
    /\ UNCHANGED <<user, session, now, lockedBy, input, seen, history>>

\* The UPDATE finds the hash that was verified, or does nothing.
ReplacePasswordHash(r) ==
    LET e == input[r].email IN
    /\ phase[r] = "rehashing"
    /\ credential' = IF credential[e] = seen[r].hash
                     THEN [credential EXCEPT ![e] =
                              [password |-> input[r].password, parameters |-> "current"]]
                     ELSE credential
    /\ Goto(r, "opening")
    /\ UNCHANGED <<user, session, now, lockedBy, input, seen, history>>

CreateSession(r) ==
    LET in == input[r] IN
    /\ phase[r] = "opening"
    /\ session' = [session EXCEPT ![in.session] = NewSession(in.email, seen[r].at)]
    /\ Finish(r)
    /\ UNCHANGED <<user, credential, history>>

-----------------------------------------------------------------------------
(* AuthService.logout and logoutAll                                         *)

Authenticated(s) ==
    /\ session[s] # None
    /\ session[s].revoked = None /\ session[s].expires > now
    /\ user[session[s].user] = "active"

\* The UPDATE of a logout begins: it finds the session if it is not revoked.
StartLogout(r) ==
    \E s \in Session :
        /\ session[s] # None
        /\ Begin(r, [op |-> "logout", email |-> None, password |-> None, session |-> s],
                 "revoking",
                 [hash |-> None, at |-> now, covered |-> {s},
                  rows |-> {t \in {s} : session[t].revoked = None}])

\* SessionAuthGuard lets a logout-all through and names its user.
StartLogoutAll(r) ==
    \E s \in Session :
        /\ Authenticated(s)
        /\ Begin(r, [op |-> "logoutAll", email |-> session[s].user, password |-> None,
                     session |-> s], "authenticated", [Nothing EXCEPT !.at = now])

SessionsOf(e) == {s \in Session : session[s] # None /\ session[s].user = e}

\* The UPDATE of a logout-all begins, the time having been taken on the way to
\* it: it finds the user's sessions that are neither revoked nor expired.
RevokeAllActiveSessions(r) ==
    LET mine == SessionsOf(input[r].email) IN
    /\ phase[r] = "authenticated"
    /\ Goto(r, "revoking")
    /\ \E at \in seen[r].at..now :
          Note(r, [hash |-> None, at |-> at, covered |-> mine,
                   rows |-> {s \in mine : session[s].revoked = None /\ session[s].expires > at}])
    /\ UNCHANGED <<tables, now, lockedBy, input, history>>

\* Mutant: the UPDATE skips the rows that are locked.
LockSessionOrSkip(r) ==
    /\ phase[r] = "revoking"
    /\ \E s \in seen[r].rows :
          /\ lockedBy' = IF lockedBy[s] = None /\ session[s].revoked = None
                         THEN [lockedBy EXCEPT ![s] = r] ELSE lockedBy
          /\ Note(r, [seen[r] EXCEPT !.rows = @ \ {s}])
    /\ UNCHANGED <<tables, now, phase, input, history>>

\* The UPDATE takes the lock of a row, in no particular order, and passes over
\* a row that another statement has revoked meanwhile.
LockSession(r) ==
    /\ phase[r] = "revoking"
    /\ \E s \in seen[r].rows :
          /\ lockedBy[s] = None
          /\ lockedBy' = IF session[s].revoked = None
                         THEN [lockedBy EXCEPT ![s] = r] ELSE lockedBy
          /\ Note(r, [seen[r] EXCEPT !.rows = @ \ {s}])
    /\ UNCHANGED <<tables, now, phase, input, history>>

CommitRevocation(r) ==
    /\ phase[r] = "revoking" /\ seen[r].rows = {}
    /\ session' = [s \in Session |-> IF lockedBy[s] = r
                                     THEN [session[s] EXCEPT !.revoked = seen[r].at]
                                     ELSE session[s]]
    /\ loggedOut' = loggedOut \cup seen[r].covered
    /\ Finish(r)
    /\ UNCHANGED <<user, credential, chosen>>

-----------------------------------------------------------------------------

\* A timeout, a lost connection, a deadlock that PostgreSQL breaks, a crash.
Rollback(r) == phase[r] # "idle" /\ Reject(r)

RequestStep(r) ==
    \/ StartCredentials(r) \/ StartLogout(r) \/ StartLogoutAll(r)
    \/ InsertUser(r) \/ InsertCredential(r) \/ InsertFirstSession(r) \/ CommitRegistration(r)
    \/ FindLoginIdentity(r) \/ VerifyPassword(r) \/ ReplacePasswordHash(r) \/ CreateSession(r)
    \/ RevokeAllActiveSessions(r) \/ LockSession(r) \/ CommitRevocation(r)
    \/ Rollback(r)

\* src/ never writes users.status after the registration, nor a new password;
\* operators do so in the database, in statements of their own.
SetUserStatus(e, status) ==
    /\ user[e] # None
    /\ user' = [user EXCEPT ![e] = status]
    /\ UNCHANGED <<credential, session, now, lockedBy, phase, input, seen, history>>

ResetPassword(e, p) ==
    /\ credential[e] # None
    /\ credential' = [credential EXCEPT ![e] = [password |-> p, parameters |-> "current"]]
    /\ chosen' = [chosen EXCEPT ![e] = p]
    /\ UNCHANGED <<user, session, now, lockedBy, phase, input, seen, loggedOut>>

Tick ==
    /\ now < Horizon
    /\ now' = now + 1
    /\ UNCHANGED <<tables, lockedBy, phase, input, seen, history>>

AuthNext ==
    \/ \E r \in Request : RequestStep(r)
    \/ \E e \in Email, status \in Status : SetUserStatus(e, status)
    \/ \E e \in Email, p \in Password : ResetPassword(e, p)
    \/ Tick

AuthSpec == AuthInit /\ [][AuthNext]_authVars
-----------------------------------------------------------------------------
(* Properties.                                                              *)

\* AUTHENTICATION.md: a session whose logout, or whose user's logout-all, has
\* been answered is never accepted again, whatever other logouts were under
\* way on the same rows and however they ended.
LoggedOutStaysOut ==
    \A s \in loggedOut : session[s].revoked # None \/ session[s].expires <= now

Rules == INSTANCE AuthRules

\* Concurrent registrations, logins and logouts take effect as if each were
\* one step on the tables (module AuthRules); in particular, a login that
\* rehashes never sets a password back that was replaced meanwhile.
ImplementsAuthRules == Rules!Spec
=============================================================================
