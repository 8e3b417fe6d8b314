---------------------------- MODULE DomainCapture ----------------------------
(***************************************************************************)
(* The claim on one email domain, which several organizations may want.    *)
(* The table has one row per domain.  An admin claims the domain, gets a   *)
(* token, publishes it in DNS and asks for verification; an unverified     *)
(* claim that is a week old may be taken over by another organization.     *)
(*                                                                         *)
(* Every handler loads the row, may wait (a DNS lookup takes seconds), and *)
(* then writes by primary key the columns that differ from what it loaded. *)
(* Under Postgres row security hides a row from every organization but its *)
(* own, also from the UPDATE; SQLite has none.  The takeover runs unbound, *)
(* so it sees every row on either database.                                *)
(***************************************************************************)
EXTENDS Naturals

CONSTANTS
    Orgs,        \* the organizations that want the domain
    MaxTokens    \* bound: tokens drawn

TokensAssumption == MaxTokens \in Nat

Tokens  == 1 .. MaxTokens
Engines == {"postgres", "sqlite"}
Console == {"verify", "auto on", "auto off", "delete"}

NoClaim == [row |-> 0]
Claims  == [row : Tokens, org : Orgs, token : Tokens,
            verified : BOOLEAN, auto : BOOLEAN, lapsed : BOOLEAN]

VARIABLES
    database,    \* the database in use
    claim,       \* the row of the domain, named by the token it was inserted with
    drawn,       \* tokens drawn so far
    published,   \* the tokens in the domain's TXT record
    console,     \* console[o]: the request o's admin has in flight on its claim
    takeover,    \* takeover[o]: the claim o is about to replace, as loaded
    proven,      \* history: the tokens a lookup found
    chosen,      \* history: the claims whose own org switched auto_approve on
    crossed      \* history: the tokens of claims that two handlers wrote at once

domainVars == <<database, claim, drawn, published, console, takeover,
                proven, chosen, crossed>>

Idle == [at |-> "idle", what |-> "verify", row |-> 0, token |-> 0]

TypeOK ==
    /\ database \in Engines
    /\ claim \in Claims \cup {NoClaim}
    /\ drawn \in 0 .. MaxTokens
    /\ published \subseteq Tokens /\ proven \subseteq Tokens
    /\ chosen \subseteq Tokens /\ crossed \subseteq Tokens
    /\ console \in [Orgs -> [at : {"idle", "looking", "writing"}, what : Console,
                             row : 0 .. MaxTokens, token : 0 .. MaxTokens]]
    /\ takeover \in [Orgs -> Claims \cup {NoClaim}]

Init ==
    /\ database \in Engines
    /\ claim = NoClaim /\ drawn = 0 /\ published = {}
    /\ console = [o \in Orgs |-> Idle]
    /\ takeover = [o \in Orgs |-> NoClaim]
    /\ proven = {} /\ chosen = {} /\ crossed = {}

NewClaim(o) == [row |-> drawn', org |-> o, token |-> drawn', verified |-> FALSE,
                auto |-> FALSE, lapsed |-> FALSE]

\* A domain nobody claims: a second insert dies on the unique constraint.
ClaimFresh(o) ==
    /\ claim = NoClaim /\ drawn < MaxTokens
    /\ drawn' = drawn + 1
    /\ claim' = NewClaim(o)
    /\ UNCHANGED <<database, published, console, takeover, proven, chosen, crossed>>

Supersedable(c, o) == c # NoClaim /\ ~c.verified /\ c.org # o /\ c.lapsed

LoadStale(o) ==
    /\ takeover[o] = NoClaim /\ Supersedable(claim, o) /\ drawn < MaxTokens
    /\ takeover' = [takeover EXCEPT ![o] = claim]
    /\ UNCHANGED <<database, claim, drawn, published, console, proven, chosen, crossed>>

\* Mutant of Supersede: auto_approve stays as the other organization left it.
SupersedeKeepingAuto(o) ==
    LET was == takeover[o] IN
    /\ was # NoClaim
    /\ takeover' = [takeover EXCEPT ![o] = NoClaim]
    /\ IF claim.row = was.row /\ drawn < MaxTokens
       THEN /\ drawn' = drawn + 1
            /\ claim' = [claim EXCEPT !.org = o, !.token = drawn', !.lapsed = FALSE]
            /\ crossed' = IF claim = was THEN crossed ELSE crossed \cup {drawn'}
       ELSE UNCHANGED <<claim, drawn, crossed>>
    /\ UNCHANGED <<database, published, console, proven, chosen>>

(***************************************************************************)
(* The takeover writes the organization, the token, the date and, when the *)
(* loaded row had it on, auto_approve.  It never writes `verified`: it     *)
(* loaded that as false.  A row deleted meanwhile makes it fail.           *)
(***************************************************************************)
Supersede(o) ==
    LET was == takeover[o] IN
    /\ was # NoClaim
    /\ takeover' = [takeover EXCEPT ![o] = NoClaim]
    /\ IF claim.row = was.row /\ drawn < MaxTokens
       THEN /\ drawn' = drawn + 1
            /\ claim' = [claim EXCEPT !.org = o, !.token = drawn', !.lapsed = FALSE,
                                      !.auto = IF was.auto THEN FALSE ELSE @]
            /\ crossed' = IF claim = was THEN crossed ELSE crossed \cup {drawn'}
       ELSE UNCHANGED <<claim, drawn, crossed>>
    /\ UNCHANGED <<database, published, console, proven, chosen>>

\* A handler of the console loads the claim; only o's own claim is found.
LoadOwn(o, what) ==
    /\ console[o] = Idle /\ claim # NoClaim /\ claim.org = o
    /\ what = "verify" => ~claim.verified
    /\ console' = [console EXCEPT ![o] =
           [at |-> IF what = "verify" THEN "looking" ELSE "writing", what |-> what,
            row |-> claim.row, token |-> claim.token]]
    /\ UNCHANGED <<database, claim, drawn, published, takeover, proven, chosen, crossed>>

\* The DNS answer: the token is not there, or it is and the claim counts as verified.
Lookup(o) ==
    /\ console[o].at = "looking"
    /\ IF console[o].token \in published
       THEN /\ console' = [console EXCEPT ![o].at = "writing"]
            /\ proven' = proven \cup {console[o].token}
       ELSE console' = [console EXCEPT ![o] = Idle] /\ UNCHANGED proven
    /\ UNCHANGED <<database, claim, drawn, published, takeover, chosen, crossed>>

\* The UPDATE or DELETE by primary key finds the row it loaded.
Finds(o) ==
    /\ claim.row = console[o].row
    /\ database = "postgres" => claim.org = o

WriteOwn(o) ==
    LET do == console[o] IN
    /\ do.at = "writing"
    /\ console' = [console EXCEPT ![o] = Idle]
    /\ IF ~Finds(o) THEN UNCHANGED <<claim, chosen, crossed>>
       ELSE /\ claim' = CASE do.what = "verify"   -> [claim EXCEPT !.verified = TRUE]
                          [] do.what = "auto on"  -> [claim EXCEPT !.auto = TRUE]
                          [] do.what = "auto off" -> [claim EXCEPT !.auto = FALSE]
                          [] do.what = "delete"   -> NoClaim
            /\ chosen' = IF do.what = "auto on" THEN chosen \cup {do.token} ELSE chosen
            /\ crossed' = IF do.token = claim.token THEN crossed
                          ELSE crossed \cup {claim.token}
    /\ UNCHANGED <<database, drawn, published, takeover, proven>>

\* The domain's owner adds the token of the present claim to the TXT record.
Publish ==
    /\ claim # NoClaim
    /\ published' = published \cup {claim.token}
    /\ UNCHANGED <<database, claim, drawn, console, takeover, proven, chosen, crossed>>

\* UNVERIFIED_CLAIM_TTL has passed since the claim was made.
Lapse ==
    /\ claim # NoClaim /\ ~claim.lapsed
    /\ claim' = [claim EXCEPT !.lapsed = TRUE]
    /\ UNCHANGED <<database, drawn, published, console, takeover, proven, chosen, crossed>>

Next ==
    \/ \E o \in Orgs :
          \/ ClaimFresh(o) \/ LoadStale(o) \/ Supersede(o)
          \/ \E what \in Console : LoadOwn(o, what)
          \/ Lookup(o) \/ WriteOwn(o)
    \/ Publish \/ Lapse

Spec == Init /\ [][Next]_domainVars

-----------------------------------------------------------------------------
(***************************************************************************)
(* A verified claim is one whose own token was found in DNS, and a claim   *)
(* approves join requests by itself only if its own organization chose so: *)
(* a claim never inherits either from the organization it took the domain  *)
(* from, nor from a handler of that organization still in flight.  The     *)
(* only claims this leaves out are those two handlers wrote at once, which *)
(* the code does not guard (domains.py _claim_or_supersede, verify_domain, *)
(* update_domain).                                                         *)
(***************************************************************************)
ClaimIsItsOwn ==
    claim # NoClaim /\ claim.token \notin crossed
        => /\ claim.verified => claim.token \in proven
           /\ claim.auto => claim.token \in chosen

=============================================================================
