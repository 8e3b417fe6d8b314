----------------------------- MODULE OAuthGrant -----------------------------
(***************************************************************************)
(* The grants one person gives one MCP client (oauth_provider.py): an      *)
(* authorization code is approved, loaded, burnt and exchanged once for an *)
(* access and a refresh token, and each refresh token is rotated into the  *)
(* next pair.  Requests overlap.  A conditional UPDATE locks the row it    *)
(* wrote until its transaction commits, and the new pair is visible to     *)
(* others only then; a revocation is one UPDATE over the tokens visible    *)
(* when it starts, and waits for the rows that others have locked.         *)
(*                                                                         *)
(* What ends an account's sessions, and a client or a person who gives the *)
(* grant up, all revoke the same way, so they are one action here.         *)
(***************************************************************************)
EXTENDS Integers, FiniteSets

CONSTANTS
    Codes,         \* the authorization codes
    NoCode,        \* no code
    NPairs,        \* bound: token pairs issued
    Handlers,      \* the requests in flight at once
    CodeTTL, AccessTTL, RefreshTTL,
    KeepRevoked,   \* how long prune keeps dead rows
    MaxTime        \* bound: the clock

CodesAssumption == NoCode \notin Codes

LifetimesAssumption ==
    /\ NPairs \in Nat /\ MaxTime \in Nat /\ KeepRevoked \in Nat
    /\ CodeTTL \in Nat /\ AccessTTL \in Nat /\ RefreshTTL \in Nat

Pairs == 1 .. NPairs
Never == -1    \* a token not revoked
Gone  == -2    \* a row prune deleted

VARIABLES
    clock,
    code,       \* code[c]: its state and when it expires
    pairs,      \* the pairs issued and committed
    pair,       \* pair[p]: its line (the code it goes back to) and its tokens
    handler,    \* handler[h]: what request h is doing
    consented,  \* history: when each code was exchanged
    ended       \* history: the lines a whole revocation covered

oauthVars == <<clock, code, pairs, pair, handler, consented, ended>>

Steps == {"idle", "loaded", "burnt", "spending", "presented", "rotating", "revoking"}
Idle == [at |-> "idle", code |-> NoCode, pair |-> 0, new |-> 0, reach |-> {}, whole |-> {}]
NoPair == [line |-> NoCode, ends |-> 0, accessEnds |-> 0, access |-> Gone, refresh |-> Gone]

TypeOK ==
    /\ clock \in 0 .. MaxTime
    /\ code \in [Codes -> [st : {"none", "live", "spent", "gone"}, ends : 0 .. MaxTime + CodeTTL]]
    /\ pairs \subseteq Pairs
    /\ \A p \in Pairs :
          /\ pair[p].line \in Codes \cup {NoCode}
          /\ {pair[p].access, pair[p].refresh} \subseteq Gone .. MaxTime
          /\ {pair[p].ends, pair[p].accessEnds} \subseteq 0 .. MaxTime + RefreshTTL
    /\ \A h \in Handlers :
          /\ handler[h].at \in Steps
          /\ handler[h].code \in Codes \cup {NoCode}
          /\ {handler[h].pair, handler[h].new} \subseteq 0 .. NPairs
          /\ handler[h].reach \subseteq pairs /\ handler[h].whole \subseteq Codes
    /\ consented \in [Codes -> -1 .. MaxTime]
    /\ ended \subseteq Codes

Init ==
    /\ clock = 0
    /\ code = [c \in Codes |-> [st |-> "none", ends |-> 0]]
    /\ pairs = {} /\ pair = [p \in Pairs |-> NoPair]
    /\ handler = [h \in Handlers |-> Idle]
    /\ consented = [c \in Codes |-> -1]
    /\ ended = {}

Least(a, b) == IF a < b THEN a ELSE b

Minting(h) == handler[h].at \in {"spending", "rotating"}
LineOf(h)  == IF handler[h].at = "spending" THEN handler[h].code
              ELSE pair[handler[h].pair].line

Moves(h, to) == handler' = [handler EXCEPT ![h] = to]

\* The number of the next pair: the least that is free.
Free == {p \in Pairs : pair[p].line = NoCode}
NextPair == CHOOSE p \in Free : \A q \in Free : p <= q

-----------------------------------------------------------------------------
\* The person approves the client in the consent screen.
Approve(c) ==
    /\ code[c].st = "none"
    /\ code' = [code EXCEPT ![c] = [st |-> "live", ends |-> clock + CodeTTL]]
    /\ UNCHANGED <<clock, pairs, pair, handler, consented, ended>>

\* Mutant of Revoking: the pairs still being minted are reached too.
RevokingUncommitted == [Idle EXCEPT !.at = "revoking", !.reach = Pairs]

(***************************************************************************)
(* The revocation of the grant: it reaches the pairs committed as it       *)
(* starts.  It is whole for a line if nothing of that line is being minted *)
(* meanwhile and the line has begun.                                       *)
(***************************************************************************)
Revoking ==
    [Idle EXCEPT !.at = "revoking", !.reach = pairs,
                 !.whole = {pair[p].line : p \in pairs}
                           \ {LineOf(k) : k \in {i \in Handlers : Minting(i)}}]

\* A mint that starts is in no revocation's reach.
Mints(h, line, to) ==
    handler' = [k \in Handlers |->
        IF k = h THEN to ELSE [handler[k] EXCEPT !.whole = @ \ {line}]]

\* A client, a person or the end of an account's sessions revokes.
Revoke(h) ==
    /\ handler[h] = Idle /\ pairs # {}
    /\ Moves(h, Revoking)
    /\ UNCHANGED <<clock, code, pairs, pair, consented, ended>>

Dead(t) == IF t = Never THEN clock ELSE t

\* Mutant of FinishRevoke: the access tokens live on.
RevokeRefreshOnly(h) ==
    /\ handler[h].at = "revoking"
    /\ \A k \in Handlers : handler[k].at = "rotating" => handler[k].pair \notin handler[h].reach
    /\ pair' = [p \in Pairs |->
           IF p \in handler[h].reach THEN [pair[p] EXCEPT !.refresh = Dead(@)] ELSE pair[p]]
    /\ ended' = ended \cup handler[h].whole
    /\ Moves(h, Idle)
    /\ UNCHANGED <<clock, code, pairs, consented>>

FinishRevoke(h) ==
    /\ handler[h].at = "revoking"
    /\ \A k \in Handlers : handler[k].at = "rotating" => handler[k].pair \notin handler[h].reach
    /\ pair' = [p \in Pairs |->
           IF p \in handler[h].reach
           THEN [pair[p] EXCEPT !.access = Dead(@), !.refresh = Dead(@)] ELSE pair[p]]
    /\ ended' = ended \cup handler[h].whole
    /\ Moves(h, Idle)
    /\ UNCHANGED <<clock, code, pairs, consented>>

-----------------------------------------------------------------------------
\* A spent code presented again revokes the grant; an expired one is unknown.
LoadCode(h, c) ==
    /\ handler[h] = Idle
    /\ \/ code[c].st = "spent" /\ Moves(h, Revoking)
       \/ /\ code[c].st = "live" /\ code[c].ends >= clock
          /\ Moves(h, [Idle EXCEPT !.at = "loaded", !.code = c])
    /\ UNCHANGED <<clock, code, pairs, pair, consented, ended>>

\* Expiring the row burns the code for any later load.
BurnCode(h) ==
    LET c == handler[h].code IN
    /\ handler[h].at = "loaded"
    /\ code' = [code EXCEPT ![c].ends = clock]
    /\ handler' = [handler EXCEPT ![h].at = "burnt"]
    /\ UNCHANGED <<clock, pairs, pair, consented, ended>>

\* The library checks the PKCE verifier and the redirect after the load.
RefuseCode(h) ==
    /\ handler[h].at = "burnt"
    /\ Moves(h, Idle)
    /\ UNCHANGED <<clock, code, pairs, pair, consented, ended>>

\* Mutant of Issue: every pair gets a whole REFRESH_TTL of its own.
IssueAnew(p, line, ends) ==
    pair' = [pair EXCEPT ![p] =
        [line |-> line, ends |-> clock + RefreshTTL,
         accessEnds |-> clock + AccessTTL, access |-> Never, refresh |-> Never]]

Issue(p, line, ends) ==
    pair' = [pair EXCEPT ![p] =
        [line |-> line, ends |-> ends, accessEnds |-> Least(clock + AccessTTL, ends),
         access |-> Never, refresh |-> Never]]

(***************************************************************************)
(* The exchange.  One conditional UPDATE decides who spends the code; the  *)
(* others wait for that transaction and then revoke the grant.             *)
(***************************************************************************)
SpendCode(h) ==
    LET c == handler[h].code IN
    /\ handler[h].at = "burnt"
    /\ \A k \in Handlers : handler[k].at = "spending" => handler[k].code # c
    /\ IF code[c].st = "live"
       THEN /\ Free # {}
            /\ Mints(h, c, [handler[h] EXCEPT !.at = "spending", !.new = NextPair])
            /\ Issue(NextPair, c, clock + RefreshTTL)
       ELSE /\ Moves(h, IF code[c].st = "spent" THEN Revoking ELSE Idle)
            /\ UNCHANGED pair
    /\ UNCHANGED <<clock, code, pairs, consented, ended>>

CommitExchange(h) ==
    LET c == handler[h].code IN
    /\ handler[h].at = "spending"
    /\ code' = [code EXCEPT ![c].st = "spent"]
    /\ consented' = [consented EXCEPT ![c] = clock]
    /\ pairs' = pairs \cup {handler[h].new}
    /\ Moves(h, Idle)
    /\ UNCHANGED <<clock, pair, ended>>

-----------------------------------------------------------------------------
Valid(p) == pair[p].refresh = Never /\ pair[p].ends >= clock

\* A revoked refresh token is a replay; one that is unknown or only expired is not.
PresentRefresh(h, p) ==
    /\ handler[h] = Idle /\ p \in pairs
    /\ \/ pair[p].refresh >= 0 /\ Moves(h, Revoking)
       \/ Valid(p) /\ Moves(h, [Idle EXCEPT !.at = "presented", !.pair = p])
    /\ UNCHANGED <<clock, code, pairs, pair, consented, ended>>

\* Mutant of Rotate: the token's state is the one the request loaded.
RotateUnchecked(h) ==
    LET p == handler[h].pair IN
    /\ handler[h].at = "presented"
    /\ \A k \in Handlers : handler[k].at = "rotating" => handler[k].pair # p
    /\ Free # {}
    /\ Mints(h, pair[p].line, [handler[h] EXCEPT !.at = "rotating", !.new = NextPair])
    /\ Issue(NextPair, pair[p].line, pair[p].ends)
    /\ UNCHANGED <<clock, code, pairs, consented, ended>>

\* Only the request that flips revoked_at mints the next pair, for the rest of the grant.
Rotate(h) ==
    LET p == handler[h].pair IN
    /\ handler[h].at = "presented"
    /\ \A k \in Handlers : handler[k].at = "rotating" => handler[k].pair # p
    /\ IF Valid(p)
       THEN /\ Free # {}
            /\ Mints(h, pair[p].line, [handler[h] EXCEPT !.at = "rotating", !.new = NextPair])
            /\ Issue(NextPair, pair[p].line, pair[p].ends)
       ELSE Moves(h, Idle) /\ UNCHANGED pair
    /\ UNCHANGED <<clock, code, pairs, consented, ended>>

CommitRotation(h) ==
    /\ handler[h].at = "rotating"
    /\ pair' = [pair EXCEPT ![handler[h].pair].refresh = clock]
    /\ pairs' = pairs \cup {handler[h].new}
    /\ Moves(h, Idle)
    /\ UNCHANGED <<clock, code, consented, ended>>

\* The request dies before its commit: nothing it wrote is kept.
AbandonMint(h) ==
    /\ Minting(h)
    /\ pair' = [pair EXCEPT ![handler[h].new] = NoPair]
    /\ Moves(h, Idle)
    /\ UNCHANGED <<clock, code, pairs, consented, ended>>

-----------------------------------------------------------------------------
Tick ==
    /\ clock < MaxTime
    /\ clock' = clock + 1
    /\ UNCHANGED <<code, pairs, pair, handler, consented, ended>>

Old(t) == t >= 0 /\ t < clock - KeepRevoked

\* The hourly prune of dead codes and tokens.
Prune ==
    /\ code' = [c \in Codes |-> IF code[c].st \in {"live", "spent"} /\ Old(code[c].ends)
                                THEN [code[c] EXCEPT !.st = "gone"] ELSE code[c]]
    /\ pair' = [p \in Pairs |-> IF p \notin pairs THEN pair[p] ELSE
           [pair[p] EXCEPT
               !.access  = IF Old(@) \/ Old(pair[p].accessEnds) THEN Gone ELSE @,
               !.refresh = IF Old(@) \/ Old(pair[p].ends) THEN Gone ELSE @]]
    /\ <<code', pair'>> # <<code, pair>>
    /\ UNCHANGED <<clock, pairs, handler, consented, ended>>

Next ==
    \/ \E c \in Codes : Approve(c)
    \/ \E h \in Handlers :
          \/ \E c \in Codes : LoadCode(h, c)
          \/ BurnCode(h) \/ RefuseCode(h) \/ SpendCode(h) \/ CommitExchange(h)
          \/ \E p \in Pairs : PresentRefresh(h, p)
          \/ Rotate(h) \/ CommitRotation(h) \/ AbandonMint(h)
          \/ Revoke(h) \/ FinishRevoke(h)
    \/ Tick \/ Prune

Spec == Init /\ [][Next]_oauthVars

-----------------------------------------------------------------------------
Usable(p) ==
    \/ pair[p].access = Never /\ pair[p].accessEnds >= clock
    \/ Valid(p)

(***************************************************************************)
(* However its code and its refresh tokens are presented, and however the  *)
(* requests overlap, a line never forks: it has at most one refresh token  *)
(* that can still be rotated, those being minted included                  *)
(* (exchange_authorization_code, exchange_refresh_token).                  *)
(***************************************************************************)
NeverForks ==
    \A p, q \in Pairs :
        /\ pair[p].line = pair[q].line /\ pair[p].line # NoCode
        /\ pair[p].refresh = Never /\ pair[q].refresh = Never
        /\ p # q
        => \E h \in Handlers : /\ handler[h].at = "rotating"
                               /\ {handler[h].pair, handler[h].new} = {p, q}

(***************************************************************************)
(* A client that keeps refreshing still has to come back for consent: no   *)
(* token of a line is usable later than REFRESH_TTL after its exchange     *)
(* (_issue_pair).                                                          *)
(***************************************************************************)
ConsentLapses ==
    \A p \in pairs : Usable(p) => clock <= consented[pair[p].line] + RefreshTTL

(***************************************************************************)
(* Once a revocation that overlapped no mint of a line has finished, no    *)
(* token of that line is usable again, whatever is presented afterwards:   *)
(* a replayed code or refresh token, a sign-out or a removed app ends the  *)
(* line it meets (_revoke_grant, _revoke_family_on_replay, auth.py         *)
(* revoke_oauth_grants).                                                   *)
(***************************************************************************)
EndedStaysEnded == \A p \in pairs : pair[p].line \in ended => ~Usable(p)

=============================================================================
