--------------------------- MODULE SignInThrottle ---------------------------
(***************************************************************************)
(* The limit on wrong guesses at one account's sign-in (auth.py login and  *)
(* mfa_verify), while sign-ins overlap.  A password attempt is recorded    *)
(* before it is counted and checked; a second factor is counted, checked   *)
(* and only then recorded.  Both use the rows of the email.  The limit per *)
(* address is left out: guesses may come from many addresses.              *)
(***************************************************************************)
EXTENDS Naturals, FiniteSets

CONSTANTS
    Handlers,   \* the sign-in requests in flight at once
    MaxFails,   \* login_max_fails
    MaxRows     \* bound: attempts on record

FailsAssumption == IsFiniteSet(Handlers) /\ MaxFails \in Nat \ {0} /\ MaxRows \in Nat

VARIABLES
    step,          \* step[h]: where the request is
    own,           \* the requests whose own row is on record, their guess untested
    refused,       \* rows of attempts turned away untested
    wrongPasswords, wrongFactors   \* rows of guesses tested and wrong

throttleVars == <<step, own, refused, wrongPasswords, wrongFactors>>

Steps == {"idle", "recorded", "password", "right", "factor"}

TypeOK ==
    /\ step \in [Handlers -> Steps]
    /\ own \subseteq Handlers
    /\ {refused, wrongPasswords, wrongFactors} \subseteq 0 .. MaxRows

Init ==
    /\ step = [h \in Handlers |-> "idle"]
    /\ own = {} /\ refused = 0 /\ wrongPasswords = 0 /\ wrongFactors = 0

Rows == Cardinality(own) + refused + wrongPasswords + wrongFactors

Moves(h, to) == step' = [step EXCEPT ![h] = to]

\* A password attempt is recorded first.
RecordAttempt(h) ==
    /\ step[h] = "idle" /\ Rows < MaxRows
    /\ own' = own \cup {h}
    /\ Moves(h, "recorded")
    /\ UNCHANGED <<refused, wrongPasswords, wrongFactors>>

\* 1 for a request whose row is still on record, 0 if a sign-in or the window took it.
Row(h) == Cardinality({h} \cap own)

\* Mutant of CountAttempt: the limit is off by one.
CountOneTooMany(h) ==
    /\ step[h] = "recorded"
    /\ IF Rows >= MaxFails + 2
       THEN Moves(h, "idle") /\ refused' = refused + Row(h) /\ own' = own \ {h}
       ELSE Moves(h, "password") /\ UNCHANGED <<refused, own>>
    /\ UNCHANGED <<wrongPasswords, wrongFactors>>

\* The limit is reached one row later, this attempt being among them.
CountAttempt(h) ==
    /\ step[h] = "recorded"
    /\ IF Rows >= MaxFails + 1
       THEN Moves(h, "idle") /\ refused' = refused + Row(h) /\ own' = own \ {h}
       ELSE Moves(h, "password") /\ UNCHANGED <<refused, own>>
    /\ UNCHANGED <<wrongPasswords, wrongFactors>>

WrongPassword(h) ==
    /\ step[h] = "password"
    /\ wrongPasswords' = wrongPasswords + Row(h)
    /\ own' = own \ {h}
    /\ Moves(h, "idle")
    /\ UNCHANGED <<refused, wrongFactors>>

\* A right password takes its own row away.  With a second factor on, a
\* challenge is all it gives and no other row goes.
RightPassword(h) ==
    /\ step[h] = "password"
    /\ own' = own \ {h}
    /\ step' \in {[step EXCEPT ![h] = "right"], [step EXCEPT ![h] = "idle"]}
    /\ UNCHANGED <<refused, wrongPasswords, wrongFactors>>

\* Someone with a challenge presents a code: the rows are counted first.
CountFactor(h) ==
    /\ step[h] = "idle" /\ Rows < MaxFails
    /\ Moves(h, "factor")
    /\ UNCHANGED <<own, refused, wrongPasswords, wrongFactors>>

WrongFactor(h) ==
    /\ step[h] = "factor" /\ Rows < MaxRows
    /\ wrongFactors' = wrongFactors + 1
    /\ Moves(h, "idle")
    /\ UNCHANGED <<own, refused, wrongPasswords>>

\* A completed sign-in clears the email's rows.
Complete(h) ==
    /\ step[h] \in {"right", "factor"}
    /\ own' = {} /\ refused' = 0 /\ wrongPasswords' = 0 /\ wrongFactors' = 0
    /\ Moves(h, "idle")

\* A row leaves the window and is pruned.
Expire ==
    /\ \/ \E h \in own : own' = own \ {h} /\ UNCHANGED <<refused, wrongPasswords, wrongFactors>>
       \/ refused > 0 /\ refused' = refused - 1 /\ UNCHANGED <<own, wrongPasswords, wrongFactors>>
       \/ wrongPasswords > 0 /\ wrongPasswords' = wrongPasswords - 1
          /\ UNCHANGED <<own, refused, wrongFactors>>
       \/ wrongFactors > 0 /\ wrongFactors' = wrongFactors - 1
          /\ UNCHANGED <<own, refused, wrongPasswords>>
    /\ UNCHANGED step

Next ==
    \/ \E h \in Handlers :
          \/ RecordAttempt(h) \/ CountAttempt(h) \/ WrongPassword(h) \/ RightPassword(h)
          \/ CountFactor(h) \/ WrongFactor(h) \/ Complete(h)
    \/ Expire

Spec == Init /\ [][Next]_throttleVars

-----------------------------------------------------------------------------
(***************************************************************************)
(* However many guesses are made at once, in one window and since the last *)
(* completed sign-in at most MaxFails wrong passwords are tested, because  *)
(* each is on record before any is counted.  Second factors are counted    *)
(* before they are recorded, so a burst of them goes past the limit, by    *)
(* one less than the requests in flight and never by more.                 *)
(***************************************************************************)
GuessesBounded ==
    /\ wrongPasswords <= MaxFails
    /\ wrongPasswords + wrongFactors <= MaxFails - 1 + Cardinality(Handlers)

=============================================================================
