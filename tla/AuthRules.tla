----------------------------- MODULE AuthRules -----------------------------
(***************************************************************************)
(* What the authentication service promises about the committed tables:    *)
(* an account, its credential and its first session appear in ONE step and *)
(* the account is never replaced; the service only ever strengthens a      *)
(* credential and leaves its password as last chosen; a session lives for  *)
(* at most Ttl and is revoked at most once, for good.  Module Auth         *)
(* implements this.                                                        *)
(***************************************************************************)
EXTENDS Integers

CONSTANTS Email, Password, Session, Ttl, None

VARIABLES user, credential, session, now,
          chosen    \* the password last chosen for each account

tables == <<user, credential, session>>
vars == <<tables, now, chosen>>

Hash == [password : Password, parameters : {"outdated", "current"}]

\* Some accounts are older than the present parameters of the password hasher.
Init ==
    /\ \E known \in SUBSET Email, hash \in [Email -> Hash] :
          /\ user = [e \in Email |-> IF e \in known THEN "active" ELSE None]
          /\ credential = [e \in Email |-> IF e \in known THEN hash[e] ELSE None]
          /\ chosen = [e \in Email |-> IF e \in known THEN hash[e].password ELSE None]
    /\ session = [s \in Session |-> None]
    /\ now = 0

\* The new row of a session, opened now or a while ago, for the user e.
Opened(s, e) ==
    \E at \in 0..now :
        session' = [session EXCEPT ![s] = [user |-> e, expires |-> at + Ttl, revoked |-> None]]

Choose(e, p) ==
    /\ credential' = [credential EXCEPT ![e] = [password |-> p, parameters |-> "current"]]
    /\ chosen' = [chosen EXCEPT ![e] = p]

Register(e, s) ==
    /\ user[e] = None /\ session[s] = None
    /\ user' = [user EXCEPT ![e] = "active"]
    /\ \E p \in Password : Choose(e, p)
    /\ Opened(s, e)
    /\ UNCHANGED now

Open(e, s) ==
    /\ user[e] # None /\ session[s] = None
    /\ Opened(s, e)
    /\ UNCHANGED <<user, credential, now, chosen>>

\* The same password under stronger parameters, whatever it was replaced by
\* since the login read it.
Rehash(e) ==
    /\ credential[e] # None /\ credential[e].parameters = "outdated"
    /\ credential' = [credential EXCEPT ![e].parameters = "current"]
    /\ UNCHANGED <<user, session, now, chosen>>

\* One statement revokes some of the sessions of one user.
Revoke(e, S) ==
    /\ \A s \in S : session[s] # None /\ session[s].user = e /\ session[s].revoked = None
    /\ \E at \in 0..now :
          session' = [s \in Session |->
                         IF s \in S THEN [session[s] EXCEPT !.revoked = at] ELSE session[s]]
    /\ UNCHANGED <<user, credential, now, chosen>>

\* The operators and the clock.
SetUserStatus(e, status) ==
    /\ user[e] # None
    /\ user' = [user EXCEPT ![e] = status]
    /\ UNCHANGED <<credential, session, now, chosen>>

ResetPassword(e, p) ==
    /\ credential[e] # None
    /\ Choose(e, p)
    /\ UNCHANGED <<user, session, now>>

Tick == now' = now + 1 /\ UNCHANGED <<tables, chosen>>

Next ==
    \/ Tick
    \/ \E e \in Email :
          \/ \E s \in Session : Register(e, s) \/ Open(e, s)
          \/ Rehash(e)
          \/ \E S \in SUBSET Session : Revoke(e, S)
          \/ \E status \in {"active", "disabled"} : SetUserStatus(e, status)
          \/ \E p \in Password : ResetPassword(e, p)

Spec == Init /\ [][Next]_vars
=============================================================================
