----------------------------- MODULE TenantKeys -----------------------------
(***************************************************************************)
(* The first uses of an organisation's data key (crypto.py tenant_dek).    *)
(* Whoever needs the key and finds none in the row as its session loaded   *)
(* it mints one and commits, over a key that was committed meanwhile.      *)
(* After a commit the session reads the row again.                         *)
(*                                                                         *)
(* A request analyses an event (service.py run_analysis), the same one     *)
(* here, which a lock per event makes into one finding; or it stores a     *)
(* credential (auth.py, saas_connectors.py).  A commit releases the lock,  *)
(* so an analysis mints before it takes it, if it knows that it will need  *)
(* the key.                                                                *)
(***************************************************************************)
EXTENDS Naturals, FiniteSets

CONSTANT Requests

RequestsAssumption == IsFiniteSet(Requests)

NoKey == 0
Keys == 1 .. Cardinality(Requests) * 2

VARIABLES
    keeps,      \* what the organisation stores of an event: "content", "excerpts"
    key,        \* the key in the row (dek_wrapped)
    minted,     \* how many keys were minted
    request,    \* request[r]
    lock,       \* the analyses that hold the advisory lock, one at most
    findings,   \* how many findings the event has
    sealed      \* what was stored under a key: [key, calm]

keyVars == <<keeps, key, minted, request, lock, findings, sealed>>

(***************************************************************************)
(* sees: the key as the session has the row, once it has read it.  lacks:  *)
(* the row was read without a key, and none minted since.  with: the keys  *)
(* it has sealed with.  calm: when it began there was a key, and nobody    *)
(* lacked one.                                                             *)
(***************************************************************************)
Fresh == [at |-> "new", does |-> "analysis", fresh |-> FALSE, sees |-> NoKey, lacks |-> FALSE,
          with |-> {}, calm |-> FALSE]

TypeOK ==
    /\ keeps \subseteq {"content", "excerpts"}
    /\ minted \in 0 .. Cardinality(Requests) * 2 /\ key \in 0 .. minted
    /\ request \in [Requests -> [at : {"new", "loaded", "ready", "looked", "sealed", "filed", "done"},
                                 does : {"analysis", "credential"}, fresh : BOOLEAN,
                                 sees : Keys \cup {NoKey}, lacks : BOOLEAN,
                                 with : SUBSET Keys, calm : BOOLEAN]]
    /\ lock \subseteq Requests /\ Cardinality(lock) <= 1
    /\ findings \in 0 .. Cardinality(Requests)
    /\ sealed \subseteq [key : Keys, calm : BOOLEAN]

Init ==
    /\ keeps \in SUBSET {"content", "excerpts"}
    /\ key = NoKey /\ minted = 0
    /\ request = [r \in Requests |-> Fresh]
    /\ lock = {} /\ findings = 0 /\ sealed = {}

-----------------------------------------------------------------------------
Calm == key # NoKey /\ \A r \in Requests : ~request[r].lacks

Load(r, does) ==
    /\ request[r].at = "new"
    /\ request' = [request EXCEPT ![r] =
           [Fresh EXCEPT !.at = "loaded", !.does = does, !.fresh = TRUE, !.sees = key,
                         !.lacks = (key = NoKey), !.calm = Calm]]
    /\ UNCHANGED <<keeps, key, minted, lock, findings, sealed>>

\* Mutant of Sees: the row is not read again after a commit.
SeesFirst(r) == request[r].sees

\* The key in the row as the session has it: a commit lets it read the row again.
Sees(r) == IF request[r].fresh THEN request[r].sees ELSE key

(***************************************************************************)
(* tenant_dek: r goes on to "to" having sealed with the key of the row, or *)
(* with a new one, whose commit releases the locks of the transaction.     *)
(***************************************************************************)
TenantKey(r, to, seals) ==
    LET k == IF Sees(r) = NoKey THEN minted + 1 ELSE Sees(r)
    IN  /\ request' = [request EXCEPT ![r].at = to, ![r].with = @ \cup (IF seals THEN {k} ELSE {}),
                                      ![r].fresh = (Sees(r) # NoKey), ![r].sees = Sees(r),
                                      ![r].lacks = FALSE]
        /\ IF Sees(r) = NoKey
           THEN key' = k /\ minted' = k /\ lock' = lock \ {r}
           ELSE UNCHANGED <<key, minted, lock>>

\* Mutant of MintsEarly: nothing is minted before the lock is taken.
MintsLate(r) == FALSE

\* The session's row has no key, and excerpts will be stored.
MintsEarly(r) == Sees(r) = NoKey /\ "excerpts" \in keeps

Prepare(r) ==
    /\ request[r].at = "loaded" /\ request[r].does = "analysis"
    /\ IF MintsEarly(r)
       THEN TenantKey(r, "ready", FALSE)
       ELSE /\ request' = [request EXCEPT ![r].at = "ready"]
            /\ UNCHANGED <<key, minted, lock>>
    /\ UNCHANGED <<keeps, findings, sealed>>

\* The lock is taken and the event looked up: a repeat is folded.
LockAndLook(r) ==
    /\ request[r].at = "ready" /\ lock = {}
    /\ IF findings > 0
       THEN /\ request' = [request EXCEPT ![r] = [Fresh EXCEPT !.at = "done"]]
            /\ UNCHANGED lock
       ELSE /\ request' = [request EXCEPT ![r].at = "looked"]
            /\ lock' = {r}
    /\ UNCHANGED <<keeps, key, minted, findings, sealed>>

\* The content of a new finding is sealed, then its excerpts.
SealContent(r) ==
    /\ request[r].at = "looked"
    /\ IF "content" \in keeps
       THEN TenantKey(r, "sealed", TRUE)
       ELSE /\ request' = [request EXCEPT ![r].at = "sealed"]
            /\ UNCHANGED <<key, minted, lock>>
    /\ UNCHANGED <<keeps, findings, sealed>>

SealExcerpts(r) ==
    /\ request[r].at = "sealed"
    /\ IF "excerpts" \in keeps
       THEN TenantKey(r, "filed", TRUE)
       ELSE /\ request' = [request EXCEPT ![r].at = "filed"]
            /\ UNCHANGED <<key, minted, lock>>
    /\ UNCHANGED <<keeps, findings, sealed>>

\* A credential is sealed.
SealCredential(r) ==
    /\ request[r].at = "loaded" /\ request[r].does = "credential"
    /\ TenantKey(r, "filed", TRUE)
    /\ UNCHANGED <<keeps, findings, sealed>>

Commit(r) ==
    /\ request[r].at = "filed"
    /\ sealed' = sealed \cup {[key |-> k, calm |-> request[r].calm] : k \in request[r].with}
    /\ findings' = findings + (IF request[r].does = "analysis" THEN 1 ELSE 0)
    /\ lock' = lock \ {r}
    /\ request' = [request EXCEPT ![r] = [Fresh EXCEPT !.at = "done"]]
    /\ UNCHANGED <<keeps, key, minted>>

\* The request fails, or is refused, and its transaction is rolled back.
Abandon(r) ==
    /\ request[r].at \notin {"new", "done"}
    /\ request' = [request EXCEPT ![r] = [Fresh EXCEPT !.at = "done"]]
    /\ lock' = lock \ {r}
    /\ UNCHANGED <<keeps, key, minted, findings, sealed>>

Next ==
    \E r \in Requests :
       \/ \E does \in {"analysis", "credential"} : Load(r, does)
       \/ Prepare(r) \/ LockAndLook(r) \/ SealContent(r) \/ SealExcerpts(r)
       \/ SealCredential(r) \/ Commit(r) \/ Abandon(r)

Spec == Init /\ [][Next]_keyVars

-----------------------------------------------------------------------------
(***************************************************************************)
(* What was sealed by a request that began when there was a key, and       *)
(* nobody was about to mint another, can be opened from then on            *)
(* (crypto.py tenant_dek).                                                 *)
(***************************************************************************)
SealedOpens == \A v \in sealed : v.calm => v.key = key

(***************************************************************************)
(* Minting does not cost an event its lock, so it is one finding: except   *)
(* for an organisation that stores content and has turned excerpts off,    *)
(* whose first analysis mints under the lock (service.py                   *)
(* _lock_fingerprint, _stored_content).                                    *)
(***************************************************************************)
MintKeepsLock == keeps # {"content"} => findings <= 1

=============================================================================
