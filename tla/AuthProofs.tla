----------------------------- MODULE AuthProofs -----------------------------
(***************************************************************************)
(* The authentication service keeps its promises for any number of         *)
(* accounts, sessions and requests: AuthInv says for every phase of a      *)
(* request what its earlier statements have established and nobody can     *)
(* undo before it ends.                                                    *)
(***************************************************************************)
EXTENDS Auth, TLAPS

InFlight == {r \in Request : phase[r] # "idle"}

PhasesOf(op) ==
    CASE op = "register"  -> {"resolved", "userInserted", "credentialInserted", "written"}
      [] op = "login"     -> {"resolved", "found", "rehashing", "opening"}
      [] op = "logout"    -> {"revoking"}
      [] op = "logoutAll" -> {"authenticated", "revoking"}

Phase == {"idle", "resolved", "userInserted", "credentialInserted", "written", "found",
          "rehashing", "opening", "authenticated", "revoking"}

Known == [hash : Hash \cup {None}, at : Nat, rows : SUBSET Session, covered : SUBSET Session]

AuthTypeOK ==
    /\ user \in [Email -> Status \cup {None}]
    /\ credential \in [Email -> Hash \cup {None}]
    /\ session \in [Session -> SessionRow \cup {None}]
    /\ now \in Nat
    /\ lockedBy \in [Session -> Request \cup {None}]
    /\ phase \in [Request -> Phase]
    /\ input \in [Request -> Input \cup {None}]
    /\ seen \in [Request -> Known]
    /\ loggedOut \subseteq Session
    /\ chosen \in [Email -> Password \cup {None}]

Placed(r) ==
    /\ input[r] \in Input /\ phase[r] \in PhasesOf(input[r].op)
    /\ input[r].op # "logout" => input[r].email \in Email
    /\ input[r].op \in {"register", "login"} => input[r].password \in Password
    /\ seen[r].at <= now

\* The token of a session that is still to be opened.
Opening(r) == input[r].op \in {"register", "login"}

TokenFree(r) == Opening(r) => session[input[r].session] = None

\* A registration that has inserted its user.
Inserting(r) == phase[r] \in {"userInserted", "credentialInserted", "written"}

AccountFree(r) == Inserting(r) => user[input[r].email] = None

\* A login goes by the account and the hash that it has read; the account
\* stays, whatever becomes of its hash.
LoginKnown(r) ==
    /\ phase[r] \in {"found", "rehashing", "opening"} => user[input[r].email] # None
    /\ phase[r] \in {"found", "rehashing"} =>
          seen[r].hash \in Hash /\ seen[r].hash.password = input[r].password
    /\ phase[r] = "rehashing" => seen[r].hash.parameters = "outdated"

\* A session that is not accepted any more.
EndedSession(s) == session[s].revoked # None \/ session[s].expires <= now

\* An UPDATE that revokes has dealt with every session it covers, or holds the
\* row's lock, or has yet to take it.
RevocationCovers(r) ==
    phase[r] = "revoking" =>
        /\ seen[r].rows \subseteq seen[r].covered
        /\ \A s \in seen[r].covered :
              session[s] # None /\ (EndedSession(s) \/ s \in seen[r].rows \/ lockedBy[s] = r)
        /\ \E e \in Email : \A s \in seen[r].covered : session[s].user = e

RequestInv(r) ==
    Placed(r) /\ TokenFree(r) /\ AccountFree(r) /\ LoginKnown(r) /\ RevocationCovers(r)

\* No two requests open one session, or create one account.
Apart(r, q) ==
    /\ Opening(r) /\ Opening(q) => input[r].session # input[q].session
    /\ Inserting(r) /\ Inserting(q) => input[r].email # input[q].email

RequestsInv ==
    /\ \A r \in InFlight : RequestInv(r)
    /\ \A r, q \in InFlight : r # q => Apart(r, q)

\* A locked row is not revoked, and is covered by the UPDATE that holds it.
LocksHeld ==
    \A s \in Session : lockedBy[s] # None =>
        /\ phase[lockedBy[s]] = "revoking" /\ s \in seen[lockedBy[s]].covered
        /\ session[s].revoked = None

\* Accounts are whole, and their passwords as last chosen.
AccountsWhole ==
    \A e \in Email :
        /\ user[e] = None <=> credential[e] = None
        /\ credential[e] # None => chosen[e] = credential[e].password

LogoutsFinal == \A s \in loggedOut : session[s] # None /\ EndedSession(s)

AuthInv == AuthTypeOK /\ RequestsInv /\ LocksHeld /\ AccountsWhole /\ LogoutsFinal

-----------------------------------------------------------------------------
(* Steps of other requests, of operators and of the clock.                  *)

\* Sessions stay, with their users and their ends.
SessionsKept ==
    \A s \in Session : session[s] # None =>
        /\ session'[s] # None
        /\ session'[s].user = session[s].user /\ session'[s].expires = session[s].expires
        /\ session[s].revoked # None => session'[s].revoked # None

\* A request keeps what it has established while it does not move, nobody
\* takes its token, its account or its locks, and nothing is undone.
LEMMA Undisturbed ==
    ASSUME AuthInv, AuthTypeOK', NEW q \in InFlight,
           phase'[q] = phase[q], input'[q] = input[q], seen'[q] = seen[q],
           now <= now', SessionsKept,
           Opening(q) => session'[input[q].session] = None,
           \A e \in Email : user[e] # None => user'[e] # None,
           Inserting(q) => user'[input[q].email] = None,
           \A s \in Session : lockedBy[s] = q => lockedBy'[s] = q
    PROVE  RequestInv(q)'
<1>1. RequestInv(q) /\ q \in Request
  BY DEF AuthInv, RequestsInv, InFlight
<1>2. Placed(q)'
  BY <1>1 DEF RequestInv, Placed, AuthInv, AuthTypeOK, Known
<1>3. TokenFree(q)'
  BY DEF TokenFree, Opening
<1>4. AccountFree(q)'
  BY DEF AccountFree, Inserting
<1>5. LoginKnown(q)'
  <2>1. phase[q] \in {"found", "rehashing", "opening"} => input[q].op = "login"
    BY <1>1, OperationAssumption DEF RequestInv, Placed, PhasesOf, Input
  <2>2. QED
    BY <1>1, <2>1 DEF RequestInv, LoginKnown, Placed
<1>6. RevocationCovers(q)'
  <2>1. SUFFICES ASSUME phase[q] = "revoking"
                 PROVE  RevocationCovers(q)'
    BY DEF RevocationCovers
  <2>2. seen[q].covered \subseteq Session /\ seen[q].rows \subseteq seen[q].covered
    BY <1>1, <2>1 DEF RequestInv, RevocationCovers, AuthInv, AuthTypeOK, Known
  <2>3. ASSUME NEW s \in seen[q].covered
        PROVE  session'[s] # None /\ (EndedSession(s)' \/ s \in seen[q].rows \/ lockedBy'[s] = q)
    <3>1. s \in Session /\ session[s] # None
          /\ (EndedSession(s) \/ s \in seen[q].rows \/ lockedBy[s] = q)
      BY <1>1, <2>1, <2>2, <2>3 DEF RequestInv, RevocationCovers
    <3>2. session[s].expires \in Nat /\ now \in Nat /\ now' \in Nat
      BY <3>1 DEF AuthInv, AuthTypeOK, SessionRow
    <3>3. EndedSession(s) => EndedSession(s)'
      BY <3>1, <3>2 DEF SessionsKept, EndedSession
    <3>4. QED
      BY <3>1, <3>3 DEF SessionsKept
  <2>4. \E e \in Email : \A s \in seen[q].covered : session'[s].user = e
    BY <1>1, <2>1, <2>2 DEF RequestInv, RevocationCovers, SessionsKept
  <2>5. QED
    BY <2>2, <2>3, <2>4 DEF RevocationCovers
<1>7. QED
  BY <1>2, <1>3, <1>4, <1>5, <1>6 DEF RequestInv

\* What has ended stays ended.
LEMMA LogoutsStayFinal ==
    ASSUME AuthInv, AuthTypeOK', now <= now', SessionsKept, UNCHANGED loggedOut
    PROVE  LogoutsFinal'
<1>1. SUFFICES ASSUME NEW s \in loggedOut PROVE session'[s] # None /\ EndedSession(s)'
  BY DEF LogoutsFinal
<1>2. s \in Session /\ session[s] # None /\ EndedSession(s)
  BY DEF AuthInv, AuthTypeOK, LogoutsFinal
<1>3. session[s].expires \in Nat /\ now \in Nat /\ now' \in Nat
  BY <1>2 DEF AuthInv, AuthTypeOK, SessionRow
<1>4. QED
  BY <1>2, <1>3 DEF SessionsKept, EndedSession

-----------------------------------------------------------------------------
(* Steps of a request on its own state.                                     *)

\* One request without locks moves, writes to no session and creates no
\* account, and establishes what its new phase claims.
LEMMA OneWrites ==
    ASSUME AuthInv, UNCHANGED <<user, session, now, lockedBy, loggedOut>>, AuthTypeOK',
           AccountsWhole', NEW r \in Request, phase[r] # "revoking",
           \A q \in Request \ {r} :
              phase'[q] = phase[q] /\ input'[q] = input[q] /\ seen'[q] = seen[q],
           phase'[r] # "idle" => /\ RequestInv(r)'
                                 /\ \A q \in InFlight \ {r} : Apart(r, q)' /\ Apart(q, r)'
    PROVE  AuthInv'
<1>1. InFlight' \ {r} = InFlight \ {r} /\ (r \in InFlight' => phase'[r] # "idle")
  BY DEF InFlight
<1>2. UNCHANGED <<user, session, loggedOut>>
  OBVIOUS
<1>3. now <= now' /\ SessionsKept
  BY <1>2 DEF AuthInv, AuthTypeOK, SessionsKept
<1>4. ASSUME NEW q \in InFlight \ {r} PROVE RequestInv(q)'
  <2>1. RequestInv(q) /\ phase'[q] = phase[q] /\ input'[q] = input[q] /\ seen'[q] = seen[q]
    BY DEF AuthInv, RequestsInv, InFlight
  <2>2. QED
    BY <1>2, <1>3, <2>1, Undisturbed DEF RequestInv, TokenFree, AccountFree
<1>5. \A p, q \in InFlight \ {r} : p # q => Apart(p, q)'
  BY DEF AuthInv, RequestsInv, Apart, Opening, Inserting, InFlight
<1>6. RequestsInv'
  BY <1>1, <1>4, <1>5 DEF RequestsInv
<1>7. LocksHeld'
  <2>1. SUFFICES ASSUME NEW s \in Session, lockedBy[s] # None
                 PROVE  /\ phase'[lockedBy[s]] = "revoking"
                        /\ s \in seen'[lockedBy[s]].covered /\ session[s].revoked = None
    BY <1>2 DEF LocksHeld
  <2>2. lockedBy[s] \in Request \ {r}
    BY <2>1 DEF AuthInv, AuthTypeOK, LocksHeld
  <2>3. QED
    BY <2>1, <2>2 DEF AuthInv, LocksHeld
<1>8. LogoutsFinal'
  BY <1>2, <1>3, LogoutsStayFinal
<1>9. QED
  BY <1>6, <1>7, <1>8 DEF AuthInv

\* The same when it writes nothing at all.
LEMMA OneMoves ==
    ASSUME AuthInv, UNCHANGED <<tables, now, lockedBy, history>>, AuthTypeOK',
           NEW r \in Request, phase[r] # "revoking",
           \A q \in Request \ {r} :
              phase'[q] = phase[q] /\ input'[q] = input[q] /\ seen'[q] = seen[q],
           phase'[r] # "idle" => /\ RequestInv(r)'
                                 /\ \A q \in InFlight \ {r} : Apart(r, q)' /\ Apart(q, r)'
    PROVE  AuthInv'
<1>1. UNCHANGED <<user, credential, session, now, lockedBy, loggedOut, chosen>>
  BY DEF tables, history
<1>2. AccountsWhole'
  BY <1>1 DEF AuthInv, AccountsWhole
<1>3. QED
  BY <1>1, <1>2, OneWrites

\* A step that changes one request's own state, and what it leaves of the others.
OwnStep(r, p, i, k) ==
    /\ phase' = [phase EXCEPT ![r] = p] /\ input' = [input EXCEPT ![r] = i]
    /\ seen' = [seen EXCEPT ![r] = k] /\ UNCHANGED <<tables, now, lockedBy, history>>

LEMMA OwnState ==
    ASSUME AuthTypeOK, NEW r \in Request, NEW p \in Phase, NEW i \in Input \cup {None},
           NEW k \in Known, OwnStep(r, p, i, k)
    PROVE  /\ AuthTypeOK'
           /\ phase'[r] = p /\ input'[r] = i /\ seen'[r] = k
           /\ \A q \in Request \ {r} :
                 phase'[q] = phase[q] /\ input'[q] = input[q] /\ seen'[q] = seen[q]
           /\ UNCHANGED <<tables, now, lockedBy, history>>
<1>1. /\ phase' \in [Request -> Phase] /\ input' \in [Request -> Input \cup {None}]
      /\ seen' \in [Request -> Known]
  BY DEF AuthTypeOK, OwnStep
<1>2. QED
  BY <1>1 DEF AuthTypeOK, OwnStep, tables, history

LEMMA NothingKnown == Nothing \in Known /\ \A at \in Nat : [Nothing EXCEPT !.at = at] \in Known
BY DEF Nothing, Known

\* What the beginning of a request leaves of the others.
LEMMA BeginningState ==
    ASSUME AuthInv, NEW r \in Request, NEW in \in Input, NEW p \in Phase, NEW k \in Known,
           Begin(r, in, p, k)
    PROVE  /\ AuthTypeOK' /\ phase[r] = "idle"
           /\ phase'[r] = p /\ input'[r] = in /\ seen'[r] = k
           /\ \A q \in Request \ {r} :
                 phase'[q] = phase[q] /\ input'[q] = input[q] /\ seen'[q] = seen[q]
           /\ UNCHANGED <<tables, now, lockedBy, history>>
<1>1. phase[r] = "idle" /\ OwnStep(r, p, in, k)
  BY DEF Begin, Goto, Note, OwnStep
<1>2. in \in Input \cup {None} /\ AuthTypeOK
  BY DEF AuthInv
<1>3. QED
  BY <1>1, <1>2, OwnState

\* A valid registration or login draws a token that is nobody else's.
LEMMA StartCredentialsKeepsInv ==
    ASSUME AuthInv, NEW r \in Request, StartCredentials(r)
    PROVE  AuthInv'
<1>1. PICK op \in {"register", "login"}, e \in Email, p \in Password, s \in Session :
        /\ Fresh(s)
        /\ Begin(r, [op |-> op, email |-> e, password |-> p, session |-> s],
                 "resolved", [Nothing EXCEPT !.at = now])
  BY DEF StartCredentials
<1> DEFINE in == [op |-> op, email |-> e, password |-> p, session |-> s]
           known == [Nothing EXCEPT !.at = now]
<1>2. in \in Input /\ op \in Operation
  BY <1>1 DEF Begin, Input
<1>3. now \in Nat /\ known \in Known /\ Begin(r, in, "resolved", known)
  BY <1>1, NothingKnown DEF AuthInv, AuthTypeOK
<1> HIDE DEF known
<1>4. /\ AuthTypeOK' /\ phase[r] = "idle" /\ phase'[r] = "resolved" /\ input'[r] = in
      /\ seen'[r] = known
      /\ \A q \in Request \ {r} :
            phase'[q] = phase[q] /\ input'[q] = input[q] /\ seen'[q] = seen[q]
      /\ UNCHANGED <<tables, now, lockedBy, history>>
  <2> HIDE DEF in
  <2>1. "resolved" \in Phase
    BY DEF Phase
  <2>2. QED
    BY <1>2, <1>3, <2>1, BeginningState
<1>5. session'[s] = None
  BY <1>1, <1>4 DEF Fresh, tables
<1>6. RequestInv(r)'
  BY <1>2, <1>3, <1>4, <1>5
     DEF RequestInv, Placed, PhasesOf, TokenFree, AccountFree, Inserting, LoginKnown,
         RevocationCovers, known, Nothing
<1>7. \A q \in InFlight \ {r} : Apart(r, q)' /\ Apart(q, r)'
  BY <1>1, <1>4 DEF Apart, Opening, Inserting, Fresh, InFlight
<1>8. QED
  BY <1>4, <1>6, <1>7, OneMoves

\* A revoked session needs no lock, and any other is still to be locked.
LEMMA StartLogoutKeepsInv ==
    ASSUME AuthInv, NEW r \in Request, StartLogout(r)
    PROVE  AuthInv'
<1>1. PICK s \in Session :
        /\ session[s] # None
        /\ Begin(r, [op |-> "logout", email |-> None, password |-> None, session |-> s],
                 "revoking",
                 [hash |-> None, at |-> now, covered |-> {s},
                  rows |-> {t \in {s} : session[t].revoked = None}])
  BY DEF StartLogout
<1> DEFINE in == [op |-> "logout", email |-> None, password |-> None, session |-> s]
           known == [hash |-> None, at |-> now, covered |-> {s},
                     rows |-> {t \in {s} : session[t].revoked = None}]
<1>2. in \in Input
  BY <1>1 DEF Begin, Input
<1>3. known \in Known /\ now \in Nat /\ Begin(r, in, "revoking", known)
  BY <1>1 DEF AuthInv, AuthTypeOK, Known
<1> HIDE DEF in, known
<1>4. /\ AuthTypeOK' /\ phase[r] = "idle" /\ phase'[r] = "revoking" /\ input'[r] = in
      /\ seen'[r] = known
      /\ \A q \in Request \ {r} :
            phase'[q] = phase[q] /\ input'[q] = input[q] /\ seen'[q] = seen[q]
      /\ UNCHANGED <<tables, now, lockedBy, history>>
  <2>1. "revoking" \in Phase
    BY DEF Phase
  <2>2. QED
    BY <1>2, <1>3, <2>1, BeginningState
<1> USE DEF in, known
<1>5. UNCHANGED session /\ session[s].user \in Email
  BY <1>1, <1>4 DEF tables, AuthInv, AuthTypeOK, SessionRow
<1>6. RevocationCovers(r)'
  BY <1>1, <1>4, <1>5 DEF RevocationCovers, EndedSession
<1>7. RequestInv(r)'
  BY <1>2, <1>3, <1>4, <1>6
     DEF RequestInv, Placed, PhasesOf, TokenFree, Opening, AccountFree, Inserting, LoginKnown
<1>8. \A q \in InFlight \ {r} : Apart(r, q)' /\ Apart(q, r)'
  BY <1>4 DEF Apart, Opening, Inserting
<1>9. QED
  BY <1>4, <1>7, <1>8, OneMoves

LEMMA StartLogoutAllKeepsInv ==
    ASSUME AuthInv, NEW r \in Request, StartLogoutAll(r)
    PROVE  AuthInv'
<1>1. PICK s \in Session :
        /\ Authenticated(s)
        /\ Begin(r, [op |-> "logoutAll", email |-> session[s].user, password |-> None,
                     session |-> s], "authenticated", [Nothing EXCEPT !.at = now])
  BY DEF StartLogoutAll
<1> DEFINE in == [op |-> "logoutAll", email |-> session[s].user, password |-> None, session |-> s]
           known == [Nothing EXCEPT !.at = now]
<1>2. in \in Input /\ in.email \in Email
  BY <1>1 DEF Begin, Input, Authenticated, AuthInv, AuthTypeOK, SessionRow
<1>3. now \in Nat /\ known \in Known /\ Begin(r, in, "authenticated", known)
  BY <1>1, NothingKnown DEF AuthInv, AuthTypeOK
<1> HIDE DEF known
<1>4. /\ AuthTypeOK' /\ phase[r] = "idle" /\ phase'[r] = "authenticated" /\ input'[r] = in
      /\ seen'[r] = known
      /\ \A q \in Request \ {r} :
            phase'[q] = phase[q] /\ input'[q] = input[q] /\ seen'[q] = seen[q]
      /\ UNCHANGED <<tables, now, lockedBy, history>>
  <2> HIDE DEF in
  <2>1. "authenticated" \in Phase
    BY DEF Phase
  <2>2. QED
    BY <1>2, <1>3, <2>1, BeginningState
<1>5. RequestInv(r)'
  BY <1>2, <1>3, <1>4
     DEF RequestInv, Placed, PhasesOf, TokenFree, Opening, AccountFree, Inserting, LoginKnown,
         RevocationCovers, known, Nothing
<1>6. \A q \in InFlight \ {r} : Apart(r, q)' /\ Apart(q, r)'
  BY <1>4 DEF Apart, Opening, Inserting
<1>7. QED
  BY <1>4, <1>5, <1>6, OneMoves

\* The UPDATE covers all of the user's sessions and has yet to lock those that
\* have not ended.
LEMMA RevokeAllKeepsInv ==
    ASSUME AuthInv, NEW r \in Request, RevokeAllActiveSessions(r)
    PROVE  AuthInv'
<1> DEFINE mine == SessionsOf(input[r].email)
<1>1. PICK at \in seen[r].at..now :
         Note(r, [hash |-> None, at |-> at, covered |-> mine,
                  rows |-> {s \in mine : session[s].revoked = None /\ session[s].expires > at}])
  BY DEF RevokeAllActiveSessions
<1> DEFINE known == [hash |-> None, at |-> at, covered |-> mine,
                     rows |-> {s \in mine : session[s].revoked = None /\ session[s].expires > at}]
<1>2. r \in InFlight /\ phase[r] = "authenticated"
  BY DEF RevokeAllActiveSessions, InFlight
<1>3. RequestInv(r) /\ input[r].op = "logoutAll" /\ input[r].email \in Email
  BY <1>2, OperationAssumption
     DEF AuthInv, RequestsInv, RequestInv, Placed, PhasesOf, Input
<1>4. now \in Nat /\ at \in Nat /\ at <= now
  BY DEF AuthInv, AuthTypeOK, Known
<1>5. known \in Known /\ Note(r, known)
  BY <1>1, <1>4 DEF Known, SessionsOf
<1>6. input' = [input EXCEPT ![r] = input[r]]
  BY SMTT(30) DEF RevokeAllActiveSessions, AuthInv, AuthTypeOK
<1> HIDE DEF known
<1>7. /\ AuthTypeOK' /\ phase'[r] = "revoking" /\ input'[r] = input[r] /\ seen'[r] = known
      /\ \A q \in Request \ {r} :
            phase'[q] = phase[q] /\ input'[q] = input[q] /\ seen'[q] = seen[q]
      /\ UNCHANGED <<tables, now, lockedBy, history>>
  <2>1. "revoking" \in Phase /\ input[r] \in Input \cup {None}
    BY <1>3 DEF Phase, RequestInv, Placed
  <2>2. AuthTypeOK /\ OwnStep(r, "revoking", input[r], known)
    BY <1>5, <1>6 DEF AuthInv, RevokeAllActiveSessions, Goto, Note, OwnStep
  <2>3. QED
    BY <1>5, <2>1, <2>2, OwnState
<1> USE DEF known
<1>8. UNCHANGED session
  BY <1>7 DEF tables
<1>9. RevocationCovers(r)'
  <2>1. ASSUME NEW s \in mine
        PROVE  session[s] # None /\ session[s].user = input[r].email
               /\ (session[s].revoked # None \/ session[s].expires <= now \/ s \in known.rows)
    <3>1. session[s] \in SessionRow /\ session[s].expires \in Nat
      BY <2>1 DEF SessionsOf, AuthInv, AuthTypeOK, SessionRow
    <3>2. QED
      BY <1>4, <2>1, <3>1 DEF SessionsOf
  <2>2. QED
    BY <1>3, <1>7, <1>8, <2>1 DEF RevocationCovers, EndedSession
<1>10. RequestInv(r)'
  BY <1>2, <1>3, <1>4, <1>7, <1>9
     DEF RequestInv, Placed, PhasesOf, TokenFree, Opening, AccountFree, Inserting, LoginKnown
<1>11. \A q \in InFlight \ {r} : Apart(r, q)' /\ Apart(q, r)'
  BY <1>3, <1>7 DEF Apart, Opening, Inserting
<1>12. QED
  BY <1>2, <1>7, <1>10, <1>11, OneMoves

\* The same when the request goes on with what it was asked.
LEMMA OwnPhase ==
    ASSUME AuthInv, NEW r \in InFlight, NEW p \in Phase, NEW k \in Known,
           UNCHANGED <<tables, now, lockedBy, input, history>>, Goto(r, p), Note(r, k)
    PROVE  /\ AuthTypeOK' /\ RequestInv(r) /\ r \in Request
           /\ phase'[r] = p /\ input'[r] = input[r] /\ seen'[r] = k
           /\ \A q \in Request \ {r} :
                 phase'[q] = phase[q] /\ input'[q] = input[q] /\ seen'[q] = seen[q]
           /\ UNCHANGED <<user, credential, session>>
<1>1. RequestInv(r) /\ r \in Request /\ input[r] \in Input
  BY DEF AuthInv, RequestsInv, RequestInv, Placed, InFlight
<1>2. input' = [input EXCEPT ![r] = input[r]]
  BY DEF AuthInv, AuthTypeOK
<1>3. phase' = [phase EXCEPT ![r] = p] /\ seen' = [seen EXCEPT ![r] = k]
  BY DEF Goto, Note
<1>4. UNCHANGED <<tables, now, lockedBy, history>> /\ UNCHANGED <<user, credential, session>>
  BY DEF tables
<1>5. /\ AuthTypeOK'
      /\ phase'[r] = p /\ input'[r] = input[r] /\ seen'[r] = k
      /\ \A q \in Request \ {r} :
            phase'[q] = phase[q] /\ input'[q] = input[q] /\ seen'[q] = seen[q]
  <2>1. AuthTypeOK /\ OwnStep(r, p, input[r], k)
    BY <1>2, <1>3, <1>4 DEF AuthInv, OwnStep
  <2>2. QED
    BY <1>1, <1>2, <2>1, OwnState
<1>6. QED
  BY <1>1, <1>4, <1>5

LEMMA UnchangedNote == ASSUME AuthInv, NEW r \in InFlight, UNCHANGED seen
                       PROVE  seen[r] \in Known /\ Note(r, seen[r])
BY DEF AuthInv, AuthTypeOK, Note, InFlight

\* A unique email address: the INSERT finds no committed row, and no
\* uncommitted one of another request.
LEMMA UserInsertedKeepsInv ==
    ASSUME AuthInv, NEW r \in Request, InsertUser(r), user[input[r].email] = None,
           Goto(r, "userInserted"), UNCHANGED <<tables, now, lockedBy, input, seen, history>>
    PROVE  AuthInv'
<1>1. r \in InFlight /\ input[r].op = "register" /\ phase[r] = "resolved"
  BY DEF InsertUser, InFlight
<1>2. /\ AuthTypeOK' /\ RequestInv(r)
      /\ phase'[r] = "userInserted" /\ input'[r] = input[r] /\ seen'[r] = seen[r]
      /\ \A q \in Request \ {r} :
            phase'[q] = phase[q] /\ input'[q] = input[q] /\ seen'[q] = seen[q]
      /\ UNCHANGED <<user, session>>
  BY <1>1, OwnPhase, UnchangedNote DEF Phase
<1>3. RequestInv(r)'
  BY <1>1, <1>2
     DEF RequestInv, Placed, PhasesOf, TokenFree, Opening, AccountFree, Inserting, LoginKnown,
         RevocationCovers
<1>4. \A q \in InFlight \ {r} : Inserting(q) => input[q].email # input[r].email
  BY DEF InsertUser, Inserting, InFlight
<1>5. \A q \in InFlight \ {r} : Apart(r, q)' /\ Apart(q, r)'
  BY <1>1, <1>2, <1>4 DEF AuthInv, RequestsInv, Apart, Opening, Inserting, InFlight
<1>6. QED
  BY <1>1, <1>2, <1>3, <1>5, OneMoves

LEMMA InsertsKeepInv ==
    ASSUME AuthInv, NEW r \in Request, InsertCredential(r) \/ InsertFirstSession(r)
    PROVE  AuthInv'
<1>1. PICK p \in {"credentialInserted", "written"} : Goto(r, p)
  BY DEF InsertCredential, InsertFirstSession
<1>2. r \in InFlight /\ Inserting(r) /\ phase[r] \in {"userInserted", "credentialInserted"}
  BY DEF InsertCredential, InsertFirstSession, InFlight, Inserting
<1>3. /\ AuthTypeOK' /\ RequestInv(r)
      /\ phase'[r] = p /\ input'[r] = input[r] /\ seen'[r] = seen[r]
      /\ \A q \in Request \ {r} :
            phase'[q] = phase[q] /\ input'[q] = input[q] /\ seen'[q] = seen[q]
      /\ UNCHANGED <<user, session, tables, now, lockedBy, history>>
  BY <1>1, <1>2, OwnPhase, UnchangedNote DEF Phase, InsertCredential, InsertFirstSession
<1>4. input[r].op = "register"
  BY <1>2, <1>3, OperationAssumption DEF RequestInv, Placed, PhasesOf, Input
<1>5. RequestInv(r)'
  BY <1>2, <1>3, <1>4
     DEF RequestInv, Placed, PhasesOf, TokenFree, Opening, AccountFree, Inserting, LoginKnown,
         RevocationCovers, InsertCredential, InsertFirstSession
<1>6. \A q \in InFlight \ {r} : Apart(r, q)' /\ Apart(q, r)'
  BY <1>2, <1>3 DEF AuthInv, RequestsInv, Apart, Opening, Inserting, InFlight
<1>7. QED
  BY <1>2, <1>3, <1>5, <1>6, OneMoves

\* A login that goes on has read the account's hash, with the right password.
LEMMA IdentityFoundKeepsInv ==
    ASSUME AuthInv, NEW r \in Request,
           phase[r] = "resolved", input[r].op = "login", Goto(r, "found"),
           user[input[r].email] = "active", credential[input[r].email].password = input[r].password,
           Note(r, [seen[r] EXCEPT !.hash = credential[input[r].email]]),
           UNCHANGED <<tables, now, lockedBy, input, history>>
    PROVE  AuthInv'
<1> DEFINE hash == credential[input[r].email]
<1>1. r \in InFlight /\ seen[r] \in Known /\ input[r].email \in Email
  BY DEF InFlight, AuthInv, AuthTypeOK, RequestsInv, RequestInv, Placed
<1>2. hash \in Hash
  BY <1>1, NoneAssumption DEF AuthInv, AuthTypeOK, AccountsWhole, Status
<1>3. [seen[r] EXCEPT !.hash = hash] \in Known
  BY <1>1, <1>2 DEF Known
<1>4. /\ AuthTypeOK' /\ RequestInv(r)
      /\ phase'[r] = "found" /\ input'[r] = input[r] /\ seen'[r] = [seen[r] EXCEPT !.hash = hash]
      /\ \A q \in Request \ {r} :
            phase'[q] = phase[q] /\ input'[q] = input[q] /\ seen'[q] = seen[q]
      /\ UNCHANGED <<user, session>>
  BY <1>1, <1>3, OwnPhase DEF Phase
<1>5. user[input[r].email] # None
  BY NoneAssumption DEF Status
<1>6. LoginKnown(r)'
  BY <1>1, <1>2, <1>4, <1>5 DEF LoginKnown, Known
<1>7. RequestInv(r)'
  BY <1>1, <1>4, <1>6
     DEF RequestInv, Placed, PhasesOf, TokenFree, Opening, AccountFree, Inserting,
         RevocationCovers, Known
<1>8. \A q \in InFlight \ {r} : Apart(r, q)' /\ Apart(q, r)'
  BY <1>1, <1>4 DEF AuthInv, RequestsInv, Apart, Opening, Inserting, InFlight
<1>9. QED
  BY <1>1, <1>4, <1>7, <1>8, OneMoves

LEMMA VerifyPasswordKeepsInv ==
    ASSUME AuthInv, NEW r \in Request, VerifyPassword(r)
    PROVE  AuthInv'
<1> DEFINE p == IF seen[r].hash.parameters = "outdated" THEN "rehashing" ELSE "opening"
           k == [seen[r] EXCEPT !.at = now]
<1>1. r \in InFlight /\ phase[r] = "found" /\ seen[r] \in Known /\ now \in Nat
  BY DEF VerifyPassword, InFlight, AuthInv, AuthTypeOK
<1>2. k \in Known
  BY <1>1 DEF Known
<1>3. /\ AuthTypeOK' /\ RequestInv(r)
      /\ phase'[r] = p /\ input'[r] = input[r] /\ seen'[r] = k
      /\ \A q \in Request \ {r} :
            phase'[q] = phase[q] /\ input'[q] = input[q] /\ seen'[q] = seen[q]
      /\ UNCHANGED <<user, session, tables, now, lockedBy, history>>
  BY <1>1, <1>2, OwnPhase DEF Phase, VerifyPassword
<1>4. input[r].op = "login"
  BY <1>1, <1>3, OperationAssumption DEF RequestInv, Placed, PhasesOf, Input
<1>5. RequestInv(r)'
  BY <1>1, <1>3, <1>4
     DEF RequestInv, Placed, PhasesOf, TokenFree, Opening, AccountFree, Inserting, LoginKnown,
         RevocationCovers, Known
<1>6. \A q \in InFlight \ {r} : Apart(r, q)' /\ Apart(q, r)'
  BY <1>1, <1>3, <1>4 DEF AuthInv, RequestsInv, Apart, Opening, Inserting, InFlight
<1>7. QED
  BY <1>1, <1>3, <1>5, <1>6, OneMoves

-----------------------------------------------------------------------------
(* The end of a request.                                                    *)

LEMMA FinishEnds ==
    ASSUME AuthInv, NEW r \in Request, Finish(r)
    PROVE  /\ phase' \in [Request -> Phase] /\ input' \in [Request -> Input \cup {None}]
           /\ seen' \in [Request -> Known] /\ lockedBy' \in [Session -> Request \cup {None}]
           /\ phase'[r] = "idle" /\ now' = now
           /\ \A q \in Request \ {r} :
                 phase'[q] = phase[q] /\ input'[q] = input[q] /\ seen'[q] = seen[q]
           /\ \A s \in Session : lockedBy'[s] = IF lockedBy[s] = r THEN None ELSE lockedBy[s]
<1>1. /\ phase' = [phase EXCEPT ![r] = "idle"] /\ input' = [input EXCEPT ![r] = None]
      /\ seen' = [seen EXCEPT ![r] = Nothing] /\ now' = now
      /\ lockedBy' = [s \in Session |-> IF lockedBy[s] = r THEN None ELSE lockedBy[s]]
  BY DEF Finish, Goto, Note
<1>2. Nothing \in Known
  BY NothingKnown
<1>3. /\ phase' \in [Request -> Phase] /\ input' \in [Request -> Input \cup {None}]
      /\ seen' \in [Request -> Known]
  BY <1>1, <1>2 DEF AuthInv, AuthTypeOK, Phase
<1>4. lockedBy' \in [Session -> Request \cup {None}]
  BY <1>1 DEF AuthInv, AuthTypeOK
<1>5. QED
  BY <1>1, <1>3, <1>4 DEF AuthInv, AuthTypeOK

\* A request that ends leaves what the others have established, if what it
\* commits is not theirs.
LEMMA EndKeepsInv ==
    ASSUME AuthInv, NEW r \in Request, Finish(r), AuthTypeOK', SessionsKept,
           \A q \in InFlight \ {r} : Opening(q) => session'[input[q].session] = None,
           \A q \in InFlight \ {r} : Inserting(q) => user'[input[q].email] = None,
           \A e \in Email : user[e] # None => user'[e] # None,
           \A s \in Session : lockedBy[s] \notin {None, r} => session'[s].revoked = session[s].revoked,
           AccountsWhole', LogoutsFinal'
    PROVE  AuthInv'
<1>1. /\ phase'[r] = "idle" /\ now' = now
      /\ \A q \in Request \ {r} :
            phase'[q] = phase[q] /\ input'[q] = input[q] /\ seen'[q] = seen[q]
      /\ \A s \in Session : lockedBy'[s] = IF lockedBy[s] = r THEN None ELSE lockedBy[s]
  BY FinishEnds
<1>2. InFlight' = InFlight \ {r}
  BY <1>1 DEF InFlight
<1>3. now <= now'
  BY <1>1 DEF AuthInv, AuthTypeOK
<1>4. ASSUME NEW q \in InFlight \ {r} PROVE RequestInv(q)'
  BY <1>1, <1>3, Undisturbed DEF InFlight
<1>5. \A p, q \in InFlight \ {r} : p # q => Apart(p, q)'
  BY <1>1 DEF AuthInv, RequestsInv, Apart, Opening, Inserting, InFlight
<1>6. RequestsInv'
  BY <1>2, <1>4, <1>5 DEF RequestsInv
<1>7. LocksHeld'
  <2>1. SUFFICES ASSUME NEW s \in Session, lockedBy'[s] # None
                 PROVE  /\ phase'[lockedBy'[s]] = "revoking"
                        /\ s \in seen'[lockedBy'[s]].covered /\ session'[s].revoked = None
    BY DEF LocksHeld
  <2>2. lockedBy'[s] = lockedBy[s] /\ lockedBy[s] \in Request \ {r} /\ lockedBy[s] # None
    BY <1>1, <2>1 DEF AuthInv, AuthTypeOK
  <2>3. QED
    BY <1>1, <2>1, <2>2 DEF AuthInv, LocksHeld
<1>8. QED
  BY <1>6, <1>7 DEF AuthInv

\* Nothing of a request that is rejected or rolled back remains.
LEMMA RejectKeepsInv ==
    ASSUME AuthInv, NEW r \in Request, Reject(r)
    PROVE  AuthInv'
<1>1. Finish(r) /\ UNCHANGED <<user, credential, session, loggedOut, chosen>>
  BY DEF Reject, tables, history
<1>2. AuthTypeOK' /\ now <= now'
  BY <1>1, FinishEnds DEF AuthInv, AuthTypeOK
<1>3. SessionsKept /\ AccountsWhole'
  BY <1>1 DEF SessionsKept, AuthInv, AccountsWhole
<1>4. LogoutsFinal'
  BY <1>1, <1>2, <1>3, LogoutsStayFinal
<1>5. \A q \in InFlight : RequestInv(q)
  BY DEF AuthInv, RequestsInv
<1>6. QED
  BY <1>1, <1>2, <1>3, <1>4, <1>5, EndKeepsInv DEF RequestInv, TokenFree, AccountFree

\* A locked row is covered by an UPDATE under way, so it exists.
LEMMA LockedExists ==
    ASSUME AuthInv, NEW s \in Session, lockedBy[s] # None
    PROVE  /\ lockedBy[s] \in InFlight /\ phase[lockedBy[s]] = "revoking"
           /\ session[s] # None /\ s \in seen[lockedBy[s]].covered
<1>1. /\ lockedBy[s] \in InFlight /\ phase[lockedBy[s]] = "revoking"
      /\ s \in seen[lockedBy[s]].covered
  BY DEF AuthInv, AuthTypeOK, LocksHeld, InFlight
<1>2. QED
  BY <1>1 DEF AuthInv, RequestsInv, RequestInv, RevocationCovers

\* A new session, under a token that no other request holds.
LEMMA OpenedSession ==
    ASSUME AuthInv, NEW r \in InFlight, Opening(r),
           session' = [session EXCEPT ![input[r].session] = NewSession(input[r].email, seen[r].at)]
    PROVE  /\ session' \in [Session -> SessionRow \cup {None}] /\ SessionsKept
           /\ \A q \in InFlight \ {r} : Opening(q) => session'[input[q].session] = None
           /\ \A s \in Session : session[s] # None => session'[s] = session[s]
<1>1. /\ RequestInv(r) /\ r \in Request /\ input[r] \in Input /\ input[r].session \in Session
      /\ input[r].email \in Email
  BY DEF AuthInv, RequestsInv, RequestInv, Placed, InFlight, Input, Opening
<1>2. NewSession(input[r].email, seen[r].at) \in SessionRow
  BY <1>1, TimeAssumption DEF NewSession, SessionRow, AuthInv, AuthTypeOK, Known
<1>3. session' \in [Session -> SessionRow \cup {None}]
  BY <1>2 DEF AuthInv, AuthTypeOK
<1>4. session[input[r].session] = None
  BY <1>1 DEF RequestInv, TokenFree
<1>5. \A s \in Session : session[s] # None => session'[s] = session[s]
  BY <1>4 DEF AuthInv, AuthTypeOK
<1>6. SessionsKept
  BY <1>5 DEF SessionsKept
<1>7. ASSUME NEW q \in InFlight \ {r}, Opening(q) PROVE session'[input[q].session] = None
  <2>1. RequestInv(q) /\ input[q].session \in Session /\ input[q].session # input[r].session
    BY <1>7 DEF AuthInv, RequestsInv, RequestInv, Placed, Input, Apart
  <2>2. QED
    BY <1>7, <2>1 DEF RequestInv, TokenFree, AuthInv, AuthTypeOK
<1>8. QED
  BY <1>3, <1>5, <1>6, <1>7

LEMMA CreateSessionKeepsInv ==
    ASSUME AuthInv, NEW r \in Request, CreateSession(r)
    PROVE  AuthInv'
<1>1. r \in InFlight /\ phase[r] = "opening" /\ RequestInv(r)
  BY DEF CreateSession, InFlight, AuthInv, RequestsInv
<1>2. Opening(r)
  BY <1>1, OperationAssumption DEF RequestInv, Placed, PhasesOf, Input, Opening
<1>3. Finish(r) /\ UNCHANGED <<user, credential, loggedOut, chosen>>
  BY DEF CreateSession, history
<1>4. /\ session' \in [Session -> SessionRow \cup {None}] /\ SessionsKept
      /\ \A q \in InFlight \ {r} : Opening(q) => session'[input[q].session] = None
      /\ \A s \in Session : session[s] # None => session'[s] = session[s]
  BY <1>1, <1>2, OpenedSession DEF CreateSession
<1>5. AuthTypeOK' /\ now <= now'
  BY <1>3, <1>4, FinishEnds DEF AuthInv, AuthTypeOK
<1>6. AccountsWhole' /\ LogoutsFinal'
  BY <1>3, <1>4, <1>5, LogoutsStayFinal DEF AuthInv, AccountsWhole
<1>7. ASSUME NEW s \in Session, lockedBy[s] \notin {None, r}
      PROVE  session'[s].revoked = session[s].revoked
  BY <1>4, <1>7, LockedExists
<1>8. \A q \in InFlight \ {r} : Inserting(q) => user'[input[q].email] = None
  BY <1>3 DEF AuthInv, RequestsInv, RequestInv, AccountFree
<1>9. QED
  BY <1>3, <1>4, <1>5, <1>6, <1>7, <1>8, EndKeepsInv

LEMMA CommitRegistrationKeepsInv ==
    ASSUME AuthInv, NEW r \in Request, CommitRegistration(r)
    PROVE  AuthInv'
<1> DEFINE e == input[r].email
           hash == [password |-> input[r].password, parameters |-> "current"]
<1>1. r \in InFlight /\ phase[r] = "written" /\ RequestInv(r) /\ Inserting(r)
  BY DEF CommitRegistration, InFlight, AuthInv, RequestsInv, Inserting
<1>2. Opening(r) /\ e \in Email /\ input[r].password \in Password
  BY <1>1, OperationAssumption DEF RequestInv, Placed, PhasesOf, Input, Opening
<1>3. /\ user' = [user EXCEPT ![e] = "active"]
      /\ credential' = [credential EXCEPT ![e] = hash]
      /\ chosen' = [chosen EXCEPT ![e] = input[r].password]
      /\ Finish(r) /\ UNCHANGED loggedOut
  BY DEF CommitRegistration
<1>4. /\ session' \in [Session -> SessionRow \cup {None}] /\ SessionsKept
      /\ \A q \in InFlight \ {r} : Opening(q) => session'[input[q].session] = None
      /\ \A s \in Session : session[s] # None => session'[s] = session[s]
  BY <1>1, <1>2, OpenedSession DEF CommitRegistration
<1>5. hash \in Hash
  BY <1>2 DEF Hash
<1>6. AuthTypeOK' /\ now <= now'
  <2>1. user' \in [Email -> Status \cup {None}] /\ credential' \in [Email -> Hash \cup {None}]
    BY <1>3, <1>5 DEF AuthInv, AuthTypeOK, Status
  <2>2. chosen' \in [Email -> Password \cup {None}]
    BY <1>2, <1>3 DEF AuthInv, AuthTypeOK
  <2>3. QED
    BY <1>3, <1>4, <2>1, <2>2, FinishEnds DEF AuthInv, AuthTypeOK
<1>7. AccountsWhole'
  <2>1. "active" # None /\ hash # None
    BY <1>5, NoneAssumption DEF Status
  <2>2. QED
    BY <1>2, <1>3, <2>1 DEF AuthInv, AuthTypeOK, AccountsWhole
<1>8. LogoutsFinal'
  BY <1>3, <1>4, <1>6, LogoutsStayFinal
<1>9. \A s \in Session : lockedBy[s] \notin {None, r} => session'[s].revoked = session[s].revoked
  BY <1>4, LockedExists
<1>10. \A q \in InFlight \ {r} : Inserting(q) => user'[input[q].email] = None
  BY <1>1, <1>3 DEF AuthInv, AuthTypeOK, RequestsInv, RequestInv, AccountFree, Apart
<1>11. \A f \in Email : user[f] # None => user'[f] # None
  BY <1>3, NoneAssumption DEF AuthInv, AuthTypeOK, Status
<1>12. QED
  BY <1>3, <1>4, <1>6, <1>7, <1>8, <1>9, <1>10, <1>11, EndKeepsInv

-----------------------------------------------------------------------------
(* The UPDATE that revokes.                                                 *)

LEMMA LockSessionKeepsInv ==
    ASSUME AuthInv, NEW r \in Request, LockSession(r)
    PROVE  AuthInv'
<1>1. PICK s \in seen[r].rows :
          /\ lockedBy[s] = None
          /\ lockedBy' = IF session[s].revoked = None
                         THEN [lockedBy EXCEPT ![s] = r] ELSE lockedBy
          /\ Note(r, [seen[r] EXCEPT !.rows = @ \ {s}])
  BY DEF LockSession
<1> DEFINE k == [seen[r] EXCEPT !.rows = seen[r].rows \ {s}]
<1>2. r \in InFlight /\ phase[r] = "revoking" /\ RequestInv(r) /\ seen[r] \in Known
  BY DEF LockSession, InFlight, AuthInv, AuthTypeOK, RequestsInv
<1>3. /\ UNCHANGED <<user, credential, session, now, phase, input, loggedOut, chosen>>
      /\ seen' = [seen EXCEPT ![r] = k]
  BY <1>1 DEF LockSession, Note, tables, history
<1>4. /\ k \in Known /\ k.covered = seen[r].covered /\ k.rows = seen[r].rows \ {s}
      /\ k.at = seen[r].at /\ k.hash = seen[r].hash
      /\ s \in Session /\ s \in seen[r].covered /\ session[s] # None
  BY <1>2 DEF Known, RequestInv, RevocationCovers
<1>5. AuthTypeOK'
  BY <1>1, <1>3, <1>4 DEF AuthInv, AuthTypeOK
<1>6. seen'[r] = k /\ \A q \in Request \ {r} : seen'[q] = seen[q]
  BY <1>3 DEF AuthInv, AuthTypeOK
<1>7. /\ \A t \in Session : t # s => lockedBy'[t] = lockedBy[t]
      /\ lockedBy'[s] = IF session[s].revoked = None THEN r ELSE None
      /\ now <= now' /\ SessionsKept /\ InFlight' = InFlight
  BY <1>1, <1>3, <1>4 DEF AuthInv, AuthTypeOK, SessionsKept, InFlight
<1>8. ASSUME NEW q \in InFlight \ {r} PROVE RequestInv(q)'
  <2>1. RequestInv(q) /\ q \in Request /\ q # None
    BY NoneAssumption DEF AuthInv, RequestsInv, InFlight
  <2>2. \A t \in Session : lockedBy[t] = q => lockedBy'[t] = q
    BY <1>1, <1>7, <2>1
  <2>3. QED
    BY <1>3, <1>5, <1>6, <1>7, <2>1, <2>2, Undisturbed DEF RequestInv, TokenFree, AccountFree
<1>9. RequestInv(r)'
  <2>1. Placed(r)' /\ TokenFree(r)' /\ AccountFree(r)' /\ LoginKnown(r)'
    BY <1>2, <1>3, <1>4, <1>6
       DEF RequestInv, Placed, TokenFree, Opening, AccountFree, Inserting, LoginKnown
  <2>2. ASSUME NEW t \in seen[r].covered
        PROVE  EndedSession(t)' \/ t \in k.rows \/ lockedBy'[t] = r
    <3>1. /\ t \in Session
          /\ EndedSession(t) \/ t \in seen[r].rows \/ lockedBy[t] = r
      BY <1>2, <1>4 DEF RequestInv, RevocationCovers, Known
    <3>2. QED
      BY <1>3, <1>4, <1>7, <3>1 DEF EndedSession
  <2>3. RevocationCovers(r)'
    BY <1>2, <1>3, <1>4, <1>6, <2>2 DEF RequestInv, RevocationCovers
  <2>4. QED
    BY <2>1, <2>3 DEF RequestInv
<1>10. RequestsInv'
  BY <1>3, <1>7, <1>8, <1>9 DEF AuthInv, RequestsInv, Apart, Opening, Inserting
<1>11. LocksHeld'
  <2>1. SUFFICES ASSUME NEW t \in Session, lockedBy'[t] # None
                 PROVE  /\ phase[lockedBy'[t]] = "revoking"
                        /\ t \in seen'[lockedBy'[t]].covered /\ session[t].revoked = None
    BY <1>3 DEF LocksHeld
  <2>2. CASE t = s
    BY <1>2, <1>4, <1>6, <1>7, <2>1, <2>2
  <2>3. CASE t # s
    <3>1. lockedBy'[t] = lockedBy[t] /\ lockedBy[t] \in Request
      BY <1>7, <2>1, <2>3 DEF AuthInv, AuthTypeOK
    <3>2. \A q \in Request : seen'[q].covered = seen[q].covered
      BY <1>4, <1>6
    <3>3. QED
      BY <2>1, <3>1, <3>2 DEF AuthInv, LocksHeld
  <2>4. QED
    BY <2>2, <2>3
<1>12. AccountsWhole' /\ LogoutsFinal'
  BY <1>3, <1>5, <1>7, LogoutsStayFinal DEF AuthInv, AccountsWhole
<1>13. QED
  BY <1>5, <1>10, <1>11, <1>12 DEF AuthInv

\* At its commit the UPDATE has every lock it needs: what it covers is over.
LEMMA CommitRevocationKeepsInv ==
    ASSUME AuthInv, NEW r \in Request, CommitRevocation(r)
    PROVE  AuthInv'
<1>1. r \in InFlight /\ phase[r] = "revoking" /\ RequestInv(r) /\ seen[r] \in Known
  BY DEF CommitRevocation, InFlight, AuthInv, AuthTypeOK, RequestsInv
<1>2. /\ session' = [s \in Session |-> IF lockedBy[s] = r
                                       THEN [session[s] EXCEPT !.revoked = seen[r].at]
                                       ELSE session[s]]
      /\ loggedOut' = loggedOut \cup seen[r].covered /\ seen[r].rows = {}
      /\ Finish(r) /\ UNCHANGED <<user, credential, chosen>>
  BY DEF CommitRevocation
<1>3. seen[r].at \in Nat /\ seen[r].at # None /\ r # None /\ seen[r].covered \subseteq Session
  BY <1>1, NoneAssumption DEF Known
<1>4. ASSUME NEW s \in Session, lockedBy[s] = r
      PROVE  /\ session[s] \in SessionRow /\ session'[s] \in SessionRow
             /\ session'[s] = [session[s] EXCEPT !.revoked = seen[r].at]
             /\ session'[s].user = session[s].user /\ session'[s].expires = session[s].expires
             /\ session'[s].revoked # None
  <2>1. session[s] \in SessionRow
    BY <1>3, <1>4, LockedExists DEF AuthInv, AuthTypeOK
  <2>2. session'[s] = [session[s] EXCEPT !.revoked = seen[r].at]
    BY <1>2, <1>4
  <2>3. QED
    BY <1>3, <2>1, <2>2 DEF SessionRow
<1>5. \A s \in Session : lockedBy[s] # r => session'[s] = session[s]
  BY <1>2
<1>6. session' \in [Session -> SessionRow \cup {None}]
  BY <1>2, <1>4, <1>5 DEF AuthInv, AuthTypeOK
<1>7. SessionsKept
  BY <1>4, <1>5, NoneAssumption DEF SessionsKept
<1>8. AuthTypeOK' /\ now' = now /\ now \in Nat
  BY <1>2, <1>3, <1>6, FinishEnds DEF AuthInv, AuthTypeOK
<1>9. LogoutsFinal'
  <2>1. SUFFICES ASSUME NEW s \in loggedOut \cup seen[r].covered
                 PROVE  session'[s] # None /\ EndedSession(s)'
    BY <1>2 DEF LogoutsFinal
  <2>2. s \in Session /\ session[s] # None /\ (EndedSession(s) \/ lockedBy[s] = r)
    BY <1>1, <1>2, <1>3
       DEF AuthInv, AuthTypeOK, LogoutsFinal, RequestInv, RevocationCovers
  <2>3. QED
    BY <1>4, <1>7, <1>8, <2>2 DEF SessionsKept, EndedSession
<1>10. AccountsWhole'
  BY <1>2 DEF AuthInv, AccountsWhole
<1>11. \A s \in Session : lockedBy[s] \notin {None, r} => session'[s].revoked = session[s].revoked
  BY <1>5
<1>12. ASSUME NEW q \in InFlight \ {r}, Opening(q) PROVE session'[input[q].session] = None
  <2>1. input[q].session \in Session /\ session[input[q].session] = None
    BY <1>12 DEF AuthInv, RequestsInv, RequestInv, Placed, TokenFree, Input
  <2>2. QED
    BY <1>3, <1>5, <2>1, LockedExists
<1>13. \A q \in InFlight \ {r} : Inserting(q) => user'[input[q].email] = None
  BY <1>2 DEF AuthInv, RequestsInv, RequestInv, AccountFree
<1>14. \A e \in Email : user[e] # None => user'[e] # None
  BY <1>2
<1>15. QED
  BY <1>2, <1>7, <1>8, <1>9, <1>10, <1>11, <1>12, <1>13, <1>14, EndKeepsInv

-----------------------------------------------------------------------------
(* Steps that write to accounts, and the clock.                             *)

\* The hash that a login replaces is the one it has verified its password by.
LEMMA ReplacePasswordHashKeepsInv ==
    ASSUME AuthInv, NEW r \in Request, ReplacePasswordHash(r)
    PROVE  AuthInv'
<1> DEFINE e == input[r].email
           hash == [password |-> input[r].password, parameters |-> "current"]
<1>1. r \in InFlight /\ phase[r] = "rehashing" /\ RequestInv(r) /\ seen[r] \in Known
  BY DEF ReplacePasswordHash, InFlight, AuthInv, AuthTypeOK, RequestsInv
<1>2. input[r].op = "login" /\ e \in Email /\ input[r].password \in Password
  BY <1>1, OperationAssumption DEF RequestInv, Placed, PhasesOf, Input
<1>3. hash \in Hash /\ hash # None
  BY <1>2, NoneAssumption DEF Hash
<1>4. /\ phase' = [phase EXCEPT ![r] = "opening"]
      /\ credential' = IF credential[e] = seen[r].hash
                       THEN [credential EXCEPT ![e] = hash] ELSE credential
      /\ UNCHANGED <<user, session, now, lockedBy, input, seen, loggedOut, chosen>>
  BY DEF ReplacePasswordHash, Goto, history
<1>5. AuthTypeOK'
  BY <1>3, <1>4 DEF AuthInv, AuthTypeOK, Phase
<1>6. AccountsWhole'
  BY <1>1, <1>2, <1>3, <1>4
     DEF AuthInv, AuthTypeOK, AccountsWhole, RequestInv, LoginKnown, Hash
<1>7. phase'[r] = "opening" /\ \A q \in Request \ {r} : phase'[q] = phase[q]
  BY <1>4 DEF AuthInv, AuthTypeOK
<1>8. RequestInv(r)'
  BY <1>1, <1>2, <1>4, <1>7
     DEF RequestInv, Placed, PhasesOf, TokenFree, Opening, AccountFree, Inserting, LoginKnown,
         RevocationCovers
<1>9. \A q \in InFlight \ {r} : Apart(r, q)' /\ Apart(q, r)'
  BY <1>1, <1>4, <1>7 DEF AuthInv, RequestsInv, Apart, Opening, Inserting, InFlight
<1>10. QED
  BY <1>1, <1>4, <1>5, <1>6, <1>7, <1>8, <1>9, OneWrites

\* Steps that no request takes.
LEMMA NobodyMoves ==
    ASSUME AuthInv, AuthTypeOK', UNCHANGED <<session, lockedBy, phase, input, seen, loggedOut>>,
           now <= now', AccountsWhole', \A e \in Email : user'[e] = None <=> user[e] = None
    PROVE  AuthInv'
<1>1. SessionsKept /\ InFlight' = InFlight
  BY DEF SessionsKept, InFlight
<1>2. ASSUME NEW q \in InFlight PROVE RequestInv(q)'
  <2>1. RequestInv(q) /\ input[q] \in Input /\ (Inserting(q) => input[q].email \in Email)
    BY OperationAssumption
       DEF AuthInv, RequestsInv, RequestInv, Placed, Inserting, PhasesOf, Input
  <2>2. QED
    BY <1>1, <2>1, Undisturbed DEF RequestInv, TokenFree, AccountFree
<1>3. RequestsInv'
  BY <1>1, <1>2 DEF AuthInv, RequestsInv, Apart, Opening, Inserting
<1>4. LocksHeld' /\ LogoutsFinal'
  BY <1>1, LogoutsStayFinal DEF AuthInv, LocksHeld
<1>5. QED
  BY <1>3, <1>4 DEF AuthInv

LEMMA SetUserStatusKeepsInv ==
    ASSUME AuthInv, NEW e \in Email, NEW status \in Status, SetUserStatus(e, status)
    PROVE  AuthInv'
<1>1. /\ user[e] # None /\ user' = [user EXCEPT ![e] = status] /\ status # None
      /\ UNCHANGED <<credential, session, now, lockedBy, phase, input, seen, loggedOut, chosen>>
  BY NoneAssumption DEF SetUserStatus, history
<1>2. AuthTypeOK' /\ AccountsWhole' /\ now <= now'
  BY <1>1 DEF AuthInv, AuthTypeOK, AccountsWhole
<1>3. \A f \in Email : user'[f] = None <=> user[f] = None
  BY <1>1 DEF AuthInv, AuthTypeOK
<1>4. QED
  BY <1>1, <1>2, <1>3, NobodyMoves

LEMMA ResetPasswordKeepsInv ==
    ASSUME AuthInv, NEW e \in Email, NEW p \in Password, ResetPassword(e, p)
    PROVE  AuthInv'
<1> DEFINE hash == [password |-> p, parameters |-> "current"]
<1>1. /\ credential[e] # None /\ credential' = [credential EXCEPT ![e] = hash]
      /\ chosen' = [chosen EXCEPT ![e] = p]
      /\ UNCHANGED <<user, session, now, lockedBy, phase, input, seen, loggedOut>>
  BY DEF ResetPassword
<1>2. hash \in Hash /\ hash # None
  BY NoneAssumption DEF Hash
<1>3. AuthTypeOK' /\ AccountsWhole' /\ now <= now'
  BY <1>1, <1>2 DEF AuthInv, AuthTypeOK, AccountsWhole
<1>4. QED
  BY <1>1, <1>3, NobodyMoves

LEMMA TickKeepsInv == AuthInv /\ Tick => AuthInv'
<1>1. SUFFICES ASSUME AuthInv, Tick PROVE AuthInv'
  OBVIOUS
<1>2. now \in Nat /\ now' = now + 1
      /\ UNCHANGED <<user, credential, session, lockedBy, phase, input, seen, loggedOut, chosen>>
  BY <1>1 DEF Tick, AuthInv, AuthTypeOK, tables, history
<1>3. AuthTypeOK' /\ AccountsWhole' /\ now <= now'
  BY <1>1, <1>2 DEF AuthInv, AuthTypeOK, AccountsWhole
<1>4. QED
  BY <1>1, <1>2, <1>3, NobodyMoves

-----------------------------------------------------------------------------
(* The theorems.                                                            *)

LEMMA RequestStepKeepsInv ==
    ASSUME AuthInv, NEW r \in Request, RequestStep(r)
    PROVE  AuthInv'
<1>1. CASE InsertUser(r)
  BY <1>1, RejectKeepsInv, UserInsertedKeepsInv DEF InsertUser
<1>2. CASE FindLoginIdentity(r)
  BY <1>2, RejectKeepsInv, IdentityFoundKeepsInv DEF FindLoginIdentity
<1>3. QED
  BY <1>1, <1>2, StartCredentialsKeepsInv, StartLogoutKeepsInv, StartLogoutAllKeepsInv,
     InsertsKeepInv, CommitRegistrationKeepsInv, VerifyPasswordKeepsInv,
     ReplacePasswordHashKeepsInv, CreateSessionKeepsInv, RevokeAllKeepsInv,
     LockSessionKeepsInv, CommitRevocationKeepsInv, RejectKeepsInv
     DEF RequestStep, Rollback

\* Between two statements of a request nothing can undo what it goes by.
THEOREM AuthInvariant == AuthSpec => []AuthInv
<1>1. AuthInit => AuthInv
  <2>1. SUFFICES ASSUME AuthInit PROVE AuthInv
    OBVIOUS
  <2>2. PICK known \in SUBSET Email, hash \in [Email -> Hash] :
          /\ user = [e \in Email |-> IF e \in known THEN "active" ELSE None]
          /\ credential = [e \in Email |-> IF e \in known THEN hash[e] ELSE None]
          /\ chosen = [e \in Email |-> IF e \in known THEN hash[e].password ELSE None]
    BY <2>1 DEF AuthInit
  <2>3. AuthTypeOK
    BY <2>1, <2>2, NothingKnown DEF AuthInit, AuthTypeOK, Status, Hash, Phase
  <2>4. AccountsWhole
    BY <2>2, NoneAssumption DEF AccountsWhole, Status
  <2>5. RequestsInv /\ LocksHeld /\ LogoutsFinal
    BY <2>1 DEF AuthInit, RequestsInv, InFlight, LocksHeld, LogoutsFinal
  <2>6. QED
    BY <2>3, <2>4, <2>5 DEF AuthInv
<1>2. AuthInv /\ [AuthNext]_authVars => AuthInv'
  <2>1. SUFFICES ASSUME AuthInv, [AuthNext]_authVars PROVE AuthInv'
    OBVIOUS
  <2>2. CASE UNCHANGED authVars
    <3>1. UNCHANGED <<user, credential, session, now, lockedBy, phase, input, seen, loggedOut, chosen>>
      BY <2>2 DEF authVars, tables, history
    <3>2. AuthTypeOK' /\ AccountsWhole' /\ now <= now'
      BY <2>1, <3>1 DEF AuthInv, AuthTypeOK, AccountsWhole
    <3>3. QED
      BY <2>1, <3>1, <3>2, NobodyMoves
  <2>3. QED
    BY <2>1, <2>2, RequestStepKeepsInv, SetUserStatusKeepsInv, ResetPasswordKeepsInv,
       TickKeepsInv DEF AuthNext
<1>3. QED
  BY <1>1, <1>2, PTL DEF AuthSpec

\* A session that a logout has ended is never accepted again.
THEOREM LogoutsHold == AuthSpec => []LoggedOutStaysOut
<1>1. AuthInv => LoggedOutStaysOut
  BY DEF AuthInv, LogoutsFinal, EndedSession, LoggedOutStaysOut
<1>2. QED
  BY <1>1, AuthInvariant, PTL

-----------------------------------------------------------------------------
(* The refinement of AuthRules.                                             *)

LEMMA RegistrationIsRegister ==
    ASSUME AuthInv, NEW r \in Request, CommitRegistration(r)
    PROVE  Rules!Next
<1> DEFINE e == input[r].email
           s == input[r].session
<1>1. RequestInv(r) /\ phase[r] = "written" /\ now' = now
  BY FinishEnds DEF CommitRegistration, InFlight, AuthInv, RequestsInv
<1>2. /\ e \in Email /\ s \in Session /\ input[r].password \in Password
      /\ Opening(r) /\ Inserting(r)
  BY <1>1, OperationAssumption
     DEF RequestInv, Placed, PhasesOf, Input, Opening, Inserting
<1>3. user[e] = None /\ session[s] = None
  BY <1>1, <1>2 DEF RequestInv, TokenFree, AccountFree
<1>4. seen[r].at \in 0..now
  BY <1>1 DEF AuthInv, AuthTypeOK, Known, RequestInv, Placed
<1>5. Rules!Register(e, s)
  BY <1>1, <1>2, <1>3, <1>4
     DEF CommitRegistration, NewSession, Rules!Register, Rules!Choose, Rules!Opened
<1>6. QED
  BY <1>2, <1>5 DEF Rules!Next

LEMMA CreateSessionIsOpen ==
    ASSUME AuthInv, NEW r \in Request, CreateSession(r)
    PROVE  Rules!Next
<1> DEFINE e == input[r].email
           s == input[r].session
<1>1. RequestInv(r) /\ phase[r] = "opening" /\ now' = now
  BY FinishEnds DEF CreateSession, InFlight, AuthInv, RequestsInv
<1>2. e \in Email /\ s \in Session /\ Opening(r)
  BY <1>1, OperationAssumption DEF RequestInv, Placed, PhasesOf, Input, Opening
<1>3. user[e] # None /\ session[s] = None
  BY <1>1, <1>2 DEF RequestInv, TokenFree, LoginKnown
<1>4. seen[r].at \in 0..now
  BY <1>1 DEF AuthInv, AuthTypeOK, Known, RequestInv, Placed
<1>5. Rules!Open(e, s)
  BY <1>1, <1>3, <1>4 DEF CreateSession, NewSession, Rules!Open, Rules!Opened, history
<1>6. QED
  BY <1>2, <1>5 DEF Rules!Next

\* A rehash that finds the hash it expects keeps the password.
LEMMA ReplaceIsRehash ==
    ASSUME AuthInv, NEW r \in Request, ReplacePasswordHash(r)
    PROVE  [Rules!Next]_Rules!vars
<1> DEFINE e == input[r].email
<1>1. RequestInv(r) /\ phase[r] = "rehashing"
  BY DEF ReplacePasswordHash, InFlight, AuthInv, RequestsInv
<1>2. e \in Email
  BY <1>1, OperationAssumption DEF RequestInv, Placed, PhasesOf, Input
<1>3. /\ seen[r].hash \in Hash /\ seen[r].hash.password = input[r].password
      /\ seen[r].hash.parameters = "outdated"
  BY <1>1 DEF RequestInv, LoginKnown
<1>4. UNCHANGED <<user, session, now, chosen>>
  BY DEF ReplacePasswordHash, history
<1>5. CASE credential[e] = seen[r].hash
  <2>1. [credential[e] EXCEPT !.parameters = "current"]
           = [password |-> input[r].password, parameters |-> "current"]
    BY <1>3, <1>5 DEF Hash
  <2>2. credential' = [credential EXCEPT ![e] = [credential[e] EXCEPT !.parameters = "current"]]
    BY <1>5, <2>1 DEF ReplacePasswordHash
  <2>3. credential[e] # None /\ credential[e].parameters = "outdated"
    BY <1>3, <1>5, NoneAssumption
  <2>4. Rules!Rehash(e)
    BY <1>4, <2>2, <2>3 DEF Rules!Rehash
  <2>5. QED
    BY <1>2, <2>4 DEF Rules!Next
<1>6. CASE credential[e] # seen[r].hash
  BY <1>4, <1>6 DEF ReplacePasswordHash, Rules!vars, Rules!tables
<1>7. QED
  BY <1>5, <1>6

\* The rows that an UPDATE has locked are of one user and not revoked.
LEMMA RevocationIsRevoke ==
    ASSUME AuthInv, NEW r \in Request, CommitRevocation(r)
    PROVE  Rules!Next
<1> DEFINE S == {s \in Session : lockedBy[s] = r}
           at == seen[r].at
<1>1. /\ RequestInv(r) /\ phase[r] = "revoking" /\ now' = now /\ r # None
      /\ UNCHANGED <<user, credential, chosen>>
      /\ session' = [s \in Session |-> IF lockedBy[s] = r
                                       THEN [session[s] EXCEPT !.revoked = at] ELSE session[s]]
  BY FinishEnds, NoneAssumption DEF CommitRevocation, InFlight, AuthInv, RequestsInv
<1>2. PICK e \in Email : \A s \in seen[r].covered : session[s].user = e
  BY <1>1 DEF RequestInv, RevocationCovers
<1>3. \A s \in S : session[s] # None /\ session[s].user = e /\ session[s].revoked = None
  BY <1>1, <1>2, LockedExists DEF AuthInv, LocksHeld
<1>4. at \in 0..now
  BY <1>1 DEF AuthInv, AuthTypeOK, Known, RequestInv, Placed
<1>5. session' = [s \in Session |-> IF s \in S THEN [session[s] EXCEPT !.revoked = at] ELSE session[s]]
  BY <1>1
<1>6. Rules!Revoke(e, S)
  BY <1>1, <1>3, <1>4, <1>5 DEF Rules!Revoke
<1>7. S \in SUBSET Session
  OBVIOUS
<1> HIDE DEF S
<1>8. QED
  BY <1>2, <1>6, <1>7 DEF Rules!Next

LEMMA StepIsRule == AuthInv /\ [AuthNext]_authVars => [Rules!Next]_Rules!vars
<1>1. SUFFICES ASSUME AuthInv, [AuthNext]_authVars PROVE [Rules!Next]_Rules!vars
  OBVIOUS
<1>2. ASSUME NEW r \in Request, RequestStep(r) PROVE [Rules!Next]_Rules!vars
  <2>1. CASE CommitRegistration(r) \/ CreateSession(r) \/ CommitRevocation(r)
    BY <1>1, <2>1, RegistrationIsRegister, CreateSessionIsOpen, RevocationIsRevoke
  <2>2. CASE ReplacePasswordHash(r)
    BY <1>1, <2>2, ReplaceIsRehash
  <2>3. CASE UNCHANGED <<tables, now, chosen>>
    BY <2>3 DEF tables, Rules!vars, Rules!tables
  <2>4. CASE Reject(r)
    BY <1>1, <2>3, <2>4, FinishEnds DEF Reject, history
  <2>5. CASE StartCredentials(r) \/ StartLogout(r) \/ StartLogoutAll(r)
    BY <2>3, <2>5 DEF StartCredentials, StartLogout, StartLogoutAll, Begin, history
  <2>6. CASE \/ InsertUser(r) \/ InsertCredential(r) \/ InsertFirstSession(r)
             \/ FindLoginIdentity(r) \/ VerifyPassword(r)
    BY <2>3, <2>4, <2>6
       DEF InsertUser, InsertCredential, InsertFirstSession, FindLoginIdentity, VerifyPassword,
           history
  <2>7. CASE RevokeAllActiveSessions(r) \/ LockSession(r) \/ Rollback(r)
    BY <2>3, <2>4, <2>7 DEF RevokeAllActiveSessions, LockSession, Rollback, history
  <2>8. QED
    BY <1>2, <2>1, <2>2, <2>5, <2>6, <2>7 DEF RequestStep
<1>3. ASSUME NEW e \in Email, NEW status \in Status, SetUserStatus(e, status) PROVE Rules!Next
  BY <1>3 DEF SetUserStatus, Status, history, Rules!Next, Rules!SetUserStatus
<1>4. ASSUME NEW e \in Email, NEW p \in Password, ResetPassword(e, p) PROVE Rules!Next
  BY <1>4 DEF ResetPassword, Rules!Next, Rules!ResetPassword, Rules!Choose
<1>5. CASE Tick
  BY <1>5 DEF Tick, tables, history, Rules!Next, Rules!Tick, Rules!tables
<1>6. CASE UNCHANGED authVars
  BY <1>6 DEF authVars, tables, history, Rules!vars, Rules!tables
<1>7. QED
  BY <1>1, <1>2, <1>3, <1>4, <1>5, <1>6 DEF AuthNext

\* Every registration, login and logout takes effect in steps that AuthRules
\* allows, and none sets back a password that was replaced meanwhile.
THEOREM AuthImplementsRules == AuthSpec => ImplementsAuthRules
<1>1. AuthInit => Rules!Init
  BY DEF AuthInit, Rules!Init, Hash, Rules!Hash
<1>2. QED
  BY <1>1, StepIsRule, AuthInvariant, PTL DEF AuthSpec, ImplementsAuthRules, Rules!Spec
=============================================================================
