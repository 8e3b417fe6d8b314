----------------------------- MODULE Enrolment -----------------------------
(***************************************************************************)
(* Devices that enrol with one enrollment token, and the organisation's    *)
(* quota of API keys (auth.py, metering.py).  An enrolment loads the       *)
(* token, claims one use of it with a conditional update, which holds the  *)
(* token's row until the request's commit, counts the keys, and commits    *)
(* the use and the key together.  A key that an admin or an extension's    *)
(* sign-in mints is counted for and inserted without any lock.             *)
(***************************************************************************)
EXTENDS Naturals, FiniteSets

CONSTANTS
    Handlers,   \* requests
    MaxUses,    \* the token's max_uses
    Quota,      \* the keys of the plan; 0 is unlimited
    MaxMints    \* bound: keys that are minted

UsesAssumption == IsFiniteSet(Handlers) /\ {MaxUses, Quota, MaxMints} \subseteq Nat

VARIABLES
    valid, expired,   \* the token: active; whether expires_at is over
    uses,             \* as committed
    keys,             \* the active keys
    enrolled,         \* history: the keys that were minted from the token
    mints,            \* history: all that were minted
    handler,          \* handler[h]
    together,         \* history: two requests counted before either had inserted
    closed            \* history: the keys enrolled when the token was revoked

enrolVars == <<valid, expired, uses, keys, enrolled, mints, handler, together, closed>>

Idle == [at |-> "idle", token |-> FALSE]

TypeOK ==
    /\ valid \in BOOLEAN /\ expired \in BOOLEAN
    /\ uses \in Nat /\ keys \in 0 .. MaxMints
    /\ enrolled \in 0 .. MaxMints /\ mints \in 0 .. MaxMints
    /\ handler \in [Handlers -> [at : {"idle", "loaded", "claimed", "counted"},
                                 token : BOOLEAN]]
    /\ together \in BOOLEAN /\ closed \in 0 .. MaxMints

Init ==
    /\ valid = TRUE /\ expired = FALSE /\ uses = 0
    /\ keys = 0 /\ enrolled = 0 /\ mints = 0
    /\ handler = [h \in Handlers |-> Idle]
    /\ together = FALSE /\ closed = 0

tokenVars   == <<valid, expired, uses>>
keyVars     == <<keys, enrolled, mints>>
historyVars == <<together, closed>>

\* Mutant of Holders: the row is read, and not updated before the commit.
NoHolders == {}

\* The requests that hold the token's row: they updated it and have not committed.
Holders == {h \in Handlers : handler[h].token /\ handler[h].at \in {"claimed", "counted"}}

-----------------------------------------------------------------------------
Present(h) ==
    /\ handler[h].at = "idle" /\ valid /\ ~expired
    /\ handler' = [handler EXCEPT ![h] = [at |-> "loaded", token |-> TRUE]]
    /\ UNCHANGED <<tokenVars, keyVars, historyVars>>

\* The condition of the update, evaluated on the committed row.
Claimable == valid /\ uses < MaxUses

\* The update waits for whoever holds the row.
Claim(h) ==
    /\ handler[h].at = "loaded" /\ Holders = {}
    /\ handler' = [handler EXCEPT ![h] = IF Claimable THEN [@ EXCEPT !.at = "claimed"] ELSE Idle]
    /\ UNCHANGED <<tokenVars, keyVars, historyVars>>

\* An admin's create_api_key, or the extension's first sign-in on a device.
Ask(h) ==
    /\ handler[h].at = "idle"
    /\ handler' = [handler EXCEPT ![h] = [at |-> "claimed", token |-> FALSE]]
    /\ UNCHANGED <<tokenVars, keyVars, historyVars>>

Room == Quota = 0 \/ keys < Quota

\* check_resource_quota: without room the request ends, and its claim is rolled back.
CountKeys(h) ==
    /\ handler[h].at = "claimed"
    /\ IF Room
       THEN /\ handler' = [handler EXCEPT ![h].at = "counted"]
            /\ together' = (together \/ \E g \in Handlers : handler[g].at = "counted")
       ELSE handler' = [handler EXCEPT ![h] = Idle] /\ UNCHANGED together
    /\ UNCHANGED <<tokenVars, keyVars, closed>>

\* The key and the use are committed together.
Mint(h) ==
    LET used == IF handler[h].token THEN 1 ELSE 0
    IN  /\ handler[h].at = "counted" /\ mints < MaxMints
        /\ keys' = keys + 1 /\ mints' = mints + 1
        /\ enrolled' = enrolled + used /\ uses' = uses + used
        /\ handler' = [handler EXCEPT ![h] = Idle]
        /\ UNCHANGED <<valid, expired, historyVars>>

\* The request dies before its commit: what it claimed is rolled back.
Die(h) ==
    /\ handler[h].at # "idle"
    /\ handler' = [handler EXCEPT ![h] = Idle]
    /\ UNCHANGED <<tokenVars, keyVars, historyVars>>

\* revoke_enrollment_token: its update waits for whoever holds the row.
Revoke ==
    /\ valid /\ Holders = {}
    /\ valid' = FALSE /\ closed' = enrolled
    /\ UNCHANGED <<expired, uses, keyVars, handler, together>>

Expire ==
    /\ ~expired /\ expired' = TRUE
    /\ UNCHANGED <<valid, uses, keyVars, handler, historyVars>>

RevokeKey ==
    /\ keys > 0 /\ keys' = keys - 1
    /\ UNCHANGED <<tokenVars, enrolled, mints, handler, historyVars>>

Next ==
    \/ \E h \in Handlers :
          Present(h) \/ Claim(h) \/ Ask(h) \/ CountKeys(h) \/ Mint(h) \/ Die(h)
    \/ Revoke \/ Expire \/ RevokeKey

Spec == Init /\ [][Next]_enrolVars

-----------------------------------------------------------------------------
(***************************************************************************)
(* A token mints no more keys than it has uses, however many devices       *)
(* present it at once, and none once its revocation is committed; the keys *)
(* stay within the quota, unless two requests counted before either had    *)
(* inserted, which two devices with one token never do (auth.py enroll,    *)
(* create_api_key, extension_token, metering.py check_resource_quota).     *)
(***************************************************************************)
MintsAreBounded ==
    /\ enrolled <= MaxUses
    /\ ~valid => enrolled = closed
    /\ Quota # 0 /\ ~together => keys <= Quota

=============================================================================
