----------------------------- MODULE SecondFactor ---------------------------
(***************************************************************************)
(* The second factor of one account: its setup, its confirmation, the      *)
(* codes that complete a sign-in, and turning it off (auth.py mfa_setup,   *)
(* mfa_confirm, mfa_verify, mfa_disable; totp.py).  Every request loads    *)
(* the account, decides on what it loaded, and commits the columns that it *)
(* changed, without a lock.  Codes are used once: a time-step by the last  *)
(* one accepted, a recovery code by leaving the list.                      *)
(* The limit on wrong codes is in SignInThrottle, what turning it off does *)
(* to sessions in Sessions.                                                *)
(***************************************************************************)
EXTENDS Integers

CONSTANTS
    Requests,     \* requests under way at once
    NSecrets,     \* bound: setups
    NBatches,     \* bound: confirmations, each with recovery codes of its own
    NCodes,       \* the codes of one set
    MaxStep       \* bound: time-steps

StepsAssumption == {NSecrets, NBatches, NCodes} \subseteq Nat /\ MaxStep \in Nat \ {0}

None        == <<"none", 0, 0>>
Totp(s, n)  == <<"totp", s, n>>
Recovery(b) == {<<"recovery", b, i>> : i \in 1 .. NCodes}

AnyCode ==
    {None} \cup {Totp(s, n) : s \in 1 .. NSecrets, n \in 0 .. MaxStep + 1}
           \cup UNION {Recovery(b) : b \in 1 .. NBatches}
Accounts == [enabled : BOOLEAN, secret : 0 .. NSecrets, step : 0 .. MaxStep + 1,
             recovery : SUBSET UNION {Recovery(b) : b \in 1 .. NBatches}]

VARIABLES
    account,    \* mfa_enabled, mfa_secret (0 for none), mfa_last_step, mfa_recovery
    request,    \* what each request loaded, what it will write, and the code it took
    now,        \* the time-step
    secrets,    \* how many secrets were made
    batches,    \* how many sets of recovery codes
    used,       \* history: the codes that a commit accepted
    told,       \* history: the secret that was confirmed last, and the codes told with it
    again,      \* history: a used code was taken
    crossed     \* history: a commit met one that its request had not seen

factorVars == <<account, request, now, secrets, batches, used, told, again, crossed>>

Empty == [enabled |-> FALSE, secret |-> 0, step |-> 0, recovery |-> {}]
Idle  == [op |-> "none", loaded |-> Empty, write |-> Empty, code |-> None]

TypeOK ==
    /\ account \in Accounts
    /\ request \in [Requests -> [op : {"none", "setup", "confirm", "verify", "disable"},
                                 loaded : Accounts, write : Accounts, code : AnyCode]]
    /\ now \in 1 .. MaxStep /\ secrets \in 0 .. NSecrets /\ batches \in 0 .. NBatches
    /\ used \subseteq AnyCode
    /\ told.secret \in 0 .. NSecrets /\ told.codes \subseteq AnyCode
    /\ {again, crossed} \subseteq BOOLEAN

Init ==
    /\ account = Empty
    /\ request = [r \in Requests |-> Idle]
    /\ now = 1 /\ secrets = 0 /\ batches = 0
    /\ used = {} /\ told = [secret |-> 0, codes |-> {}]
    /\ again = FALSE /\ crossed = FALSE

Tick ==
    /\ now < MaxStep /\ now' = now + 1
    /\ UNCHANGED <<account, request, secrets, batches, used, told, again, crossed>>

Begin(r, op, write, code) ==
    /\ request[r] = Idle
    /\ request' = [request EXCEPT ![r] =
                       [op |-> op, loaded |-> account, write |-> write, code |-> code]]
    /\ again' = (again \/ code \in used)
    /\ UNCHANGED <<account, now, used, told, crossed>>

\* A fresh secret, not active yet.
Setup(r) ==
    /\ ~account.enabled /\ secrets < NSecrets
    /\ secrets' = secrets + 1
    /\ Begin(r, "setup", [account EXCEPT !.secret = secrets'], None)
    /\ UNCHANGED batches

\* verify_step: the codes of this step and of its neighbours match.
Matching(secret) == IF secret = 0 THEN {} ELSE {Totp(secret, n) : n \in now - 1 .. now + 1}

\* Mutant of Confirmed: the step of the confirming code is not recorded.
ConfirmedUnrecorded(row, code, codes) == [row EXCEPT !.enabled = TRUE, !.recovery = codes]

Confirmed(row, code, codes) ==
    [row EXCEPT !.enabled = TRUE, !.recovery = codes, !.step = code[3]]

Confirm(r) ==
    /\ ~account.enabled /\ batches < NBatches
    /\ batches' = batches + 1
    /\ \E code \in Matching(account.secret) :
          Begin(r, "confirm", Confirmed(account, code, Recovery(batches')), code)
    /\ UNCHANGED secrets

\* Mutant of Acceptable: only the last accepted step is refused.
AcceptableNotLast(row) ==
    {code \in Matching(row.secret) : code[3] # row.step} \cup row.recovery

\* A code of a step after the last accepted one, or a recovery code that is left.
Acceptable(row) == {code \in Matching(row.secret) : code[3] > row.step} \cup row.recovery

Verify(r) ==
    /\ account.enabled
    /\ \E code \in Acceptable(account) :
          Begin(r, "verify",
                IF code \in account.recovery THEN [account EXCEPT !.recovery = @ \ {code}]
                ELSE [account EXCEPT !.step = code[3]], code)
    /\ UNCHANGED <<secrets, batches>>

Disable(r) ==
    /\ account.enabled
    /\ \E code \in Acceptable(account) :
          Begin(r, "disable",
                [account EXCEPT !.enabled = FALSE, !.secret = 0, !.recovery = {}], code)
    /\ UNCHANGED <<secrets, batches>>

\* The columns a request changed.
Written(q) == {c \in DOMAIN account : q.write[c] # q.loaded[c]}

\* A column it writes is not as it was loaded, or what it relied on has gone: a setup
\* that meets a confirmation, a confirmation that meets another secret.
Crosses(q) ==
    \/ \E c \in Written(q) : account[c] # q.loaded[c]
    \/ q.op = "setup" /\ account.enabled
    \/ q.op = "confirm" /\ account.secret # q.loaded.secret

Commit(r) ==
    LET q == request[r] IN
    /\ q.op # "none"
    /\ account' = [c \in DOMAIN account |-> IF c \in Written(q) THEN q.write[c] ELSE account[c]]
    /\ used' = used \cup ({q.code} \ {None})
    /\ told' = IF q.op = "confirm" THEN [secret |-> q.loaded.secret, codes |-> q.write.recovery]
               ELSE told
    /\ crossed' = (crossed \/ Crosses(q))
    /\ request' = [request EXCEPT ![r] = Idle]
    /\ UNCHANGED <<now, secrets, batches, again>>

\* Bound: a behaviour ends with the crossing that its properties excuse.
Next ==
    /\ ~crossed
    /\ \/ Tick
       \/ \E r \in Requests : Setup(r) \/ Confirm(r) \/ Verify(r) \/ Disable(r) \/ Commit(r)

Spec == Init /\ [][Next]_factorVars

-----------------------------------------------------------------------------
(***************************************************************************)
(* A code is used once: "the code that confirmed can't then be replayed at *)
(* sign-in" (mfa_confirm), "a code from a step already used" is rejected   *)
(* (mfa_verify), and so is one that came before it, until two requests     *)
(* cross: two codes taken at once each put back what the other used.       *)
(***************************************************************************)
UsedOnce == again => crossed

(***************************************************************************)
(* A factor that is on is the one its owner confirmed, with the recovery   *)
(* codes she was told and has not used, through sign-ins that overlap a    *)
(* setup, a confirmation or its end.  Only requests that cross may lock    *)
(* her out: a setup beside a confirmation replaces the secret of a factor  *)
(* that is on (mfa_setup, mfa_confirm).                                    *)
(***************************************************************************)
FactorIsHers ==
    account.enabled /\ ~crossed =>
        account.secret = told.secret /\ account.recovery = told.codes \ used

=============================================================================
