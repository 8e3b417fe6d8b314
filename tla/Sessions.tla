------------------------------ MODULE Sessions ------------------------------
(***************************************************************************)
(* The sessions of one account.  A session token carries the account's     *)
(* token_version and works while the two are equal and the login is        *)
(* active, so whatever ends the sessions adds one to the version: logout   *)
(* everywhere, a password reset, switching MFA off, a changed address, a   *)
(* deactivation (auth.py, scim.py).  Each loads the account, may wait, and *)
(* writes the version it loaded plus one.                                  *)
(*                                                                         *)
(* A sign-in checks the password, or a second factor against a challenge,  *)
(* and mints the session after a commit, from the account as it is then.   *)
(***************************************************************************)
EXTENDS Naturals, FiniteSets

CONSTANTS
    SignIns,      \* the sign-ins in flight at once
    Endings,      \* bound: the requests that end the sessions
    MaxSessions   \* bound: sessions held

EndingsAssumption == IsFiniteSet(Endings) /\ MaxSessions \in Nat

Kinds == {"logout", "reset", "mfa off", "rename", "deactivate"}

VARIABLES
    version,    \* token_version
    enabled,    \* the login is active
    sessions,   \* the tokens minted: the version of each, the endings begun by
                \* then, and whether its challenge was older than a finished ending
    signin,     \* signin[s]: where it is, the version of its challenge, the
                \* endings begun when that was made, and whether that is too old
    ending,     \* ending[e]: where it is, its kind and the version it loaded
    raced       \* history: two endings were between their load and their commit at once

sessionVars == <<version, enabled, sessions, signin, ending, raced>>

Versions == 0 .. Cardinality(Endings)

NoSignIn == [at |-> "idle", version |-> 0, asked |-> {}, late |-> FALSE]

TypeOK ==
    /\ version \in Versions
    /\ enabled \in BOOLEAN /\ raced \in BOOLEAN
    /\ sessions \subseteq [version : Versions, since : SUBSET Endings, late : BOOLEAN]
    /\ signin \in [SignIns -> [at : {"idle", "checked", "challenged", "answered"},
                               version : Versions, asked : SUBSET Endings, late : BOOLEAN]]
    /\ ending \in [Endings -> [at : {"new", "loaded", "done"}, kind : Kinds,
                               version : Versions]]

Init ==
    /\ version = 0 /\ enabled = TRUE
    /\ sessions = {}
    /\ signin = [s \in SignIns |-> NoSignIn]
    /\ ending = [e \in Endings |-> [at |-> "new", kind |-> "logout", version |-> 0]]
    /\ raced = FALSE

Begun == {e \in Endings : ending[e].at # "new"}
Ended == {e \in Endings : ending[e].at = "done"}
Works(t) == t.version = version /\ enabled

CheckPassword(s) ==
    /\ signin[s].at = "idle" /\ enabled
    /\ signin' = [signin EXCEPT ![s].at = "checked"]
    /\ UNCHANGED <<version, enabled, sessions, ending, raced>>

\* With MFA on, the sign-in goes on with a challenge for the present version.
Challenge(s) ==
    /\ signin[s].at = "checked"
    /\ signin' = [signin EXCEPT ![s] = [at |-> "challenged", version |-> version,
                                        asked |-> Begun, late |-> FALSE]]
    /\ UNCHANGED <<version, enabled, sessions, ending, raced>>

\* Mutant of AnswerChallenge: the version in the challenge is not compared.
AnswerAnyChallenge(s) ==
    /\ signin[s].at = "challenged"
    /\ signin' = [signin EXCEPT ![s] =
           IF enabled
           THEN [NoSignIn EXCEPT !.at = "answered", !.late = ~(Ended \subseteq signin[s].asked)]
           ELSE NoSignIn]
    /\ UNCHANGED <<version, enabled, sessions, ending, raced>>

\* A challenge from before an ending no longer counts.
AnswerChallenge(s) ==
    /\ signin[s].at = "challenged"
    /\ signin' = [signin EXCEPT ![s] =
           IF enabled /\ signin[s].version = version
           THEN [NoSignIn EXCEPT !.at = "answered", !.late = ~(Ended \subseteq signin[s].asked)]
           ELSE NoSignIn]
    /\ UNCHANGED <<version, enabled, sessions, ending, raced>>

\* The session is made from the account as it is after the commit.
MintSession(s) ==
    /\ signin[s].at \in {"checked", "answered"} /\ Cardinality(sessions) < MaxSessions
    /\ sessions' = sessions \cup
           {[version |-> version, since |-> Begun, late |-> signin[s].late]}
    /\ signin' = [signin EXCEPT ![s] = NoSignIn]
    /\ UNCHANGED <<version, enabled, ending, raced>>

(***************************************************************************)
(* A request that ends the sessions loads the account.  Logout and MFA     *)
(* need a session; a reset needs a link mailed for the present version,    *)
(* which can be had at any time.                                           *)
(***************************************************************************)
LoadAccount(e, kind) ==
    /\ ending[e].at = "new"
    /\ kind # "rename" => enabled
    /\ kind \in {"logout", "mfa off"} => \E t \in sessions : Works(t)
    /\ ending' = [ending EXCEPT ![e] = [at |-> "loaded", kind |-> kind, version |-> version]]
    /\ raced' = (raced \/ \E k \in Endings : ending[k].at = "loaded")
    /\ UNCHANGED <<version, enabled, sessions, signin>>

\* Switching MFA off hands its caller a session of the new version.
EndSessions(e) ==
    /\ ending[e].at = "loaded"
    /\ version' = ending[e].version + 1
    /\ enabled' = (enabled /\ ending[e].kind # "deactivate")
    /\ sessions' = IF ending[e].kind = "mfa off"
                   THEN sessions \cup {[version |-> version', since |-> Begun, late |-> FALSE]}
                   ELSE sessions
    /\ ending' = [ending EXCEPT ![e] = [at |-> "done", kind |-> "logout", version |-> 0]]
    /\ UNCHANGED <<signin, raced>>

Reactivate ==
    /\ ~enabled
    /\ enabled' = TRUE
    /\ UNCHANGED <<version, sessions, signin, ending, raced>>

Next ==
    \/ \E s \in SignIns :
          CheckPassword(s) \/ Challenge(s) \/ AnswerChallenge(s) \/ MintSession(s)
    \/ \E e \in Endings :
          (\E kind \in Kinds : LoadAccount(e, kind)) \/ EndSessions(e)
    \/ Reactivate

Spec == Init /\ [][Next]_sessionVars

-----------------------------------------------------------------------------
(***************************************************************************)
(* A session that works was minted after every finished ending had begun,  *)
(* through reactivations and challenges made before, as long as no two     *)
(* endings were in progress at once: those may write the version back to   *)
(* one that ended sessions carry (logout_all, reset_password, mfa_disable, *)
(* update_user; scim.py _apply_active, _apply_rename).                     *)
(***************************************************************************)
SessionsEnd ==
    raced \/ \A t \in sessions : Works(t) => Ended \subseteq t.since /\ ~t.late

=============================================================================
