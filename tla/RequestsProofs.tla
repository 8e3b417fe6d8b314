--------------------------- MODULE RequestsProofs ---------------------------
(***************************************************************************)
(* Proofs about requests that meet at one row: an organisation's claimed   *)
(* domain, its data key, its plan, a person's grant to a client, what a    *)
(* conversation has seen, and what the inference hook remembers.  Each     *)
(* part has an inductive invariant over what its handlers have read and    *)
(* not yet written, and the theorems at the end hold for every             *)
(* organisation, token, request and event, not only for those of the run.  *)
(***************************************************************************)
EXTENDS MCRequests, FiniteSetTheorems, WellFoundedInduction, TLAPS

-----------------------------------------------------------------------------
(* A claimed domain: what the handlers in flight may write.                *)

(***************************************************************************)
(* A lookup that found its token lets the handler write; a takeover loaded *)
(* a claim that was not verified; a handler in flight has loaded a claim.  *)
(***************************************************************************)
DomainInv ==
    /\ Domain!TypeOK
    /\ \A o \in Companies :
          /\ console[o].at # "idle" => console[o].row # 0 /\ console[o].token # 0
          /\ console[o].at = "writing" /\ console[o].what = "verify" => console[o].token \in proven
          /\ takeover[o] # Domain!NoClaim => ~takeover[o].verified
    /\ Domain!ClaimIsItsOwn

\* A claim has its columns, and is not the absence of one.
LEMMA ClaimsAre ==
    \A c \in Domain!Claims :
        /\ c.row \in Domain!Tokens /\ c.org \in Companies /\ c.token \in Domain!Tokens
        /\ c.verified \in BOOLEAN /\ c.auto \in BOOLEAN /\ c.lapsed \in BOOLEAN
        /\ c.row # 0 /\ c # Domain!NoClaim /\ Domain!NoClaim.row = 0
<1>1. Domain!NoClaim.row = 0
    BY DEF Domain!NoClaim
<1>2. MaxTokens \in Nat
    BY Assumptions DEF Domain!TokensAssumption
<1> QED BY <1>1, <1>2 DEF Domain!Claims, Domain!Tokens

\* Every step of the handlers of a domain keeps it.
LEMMA DomainKept == ASSUME DomainInv, [Domain!Next]_(Domain!domainVars) PROVE DomainInv'
<1>1. /\ Domain!TypeOK /\ Domain!ClaimIsItsOwn
      /\ \A o \in Companies :
            /\ console[o].at # "idle" => console[o].row # 0 /\ console[o].token # 0
            /\ console[o].at = "writing" /\ console[o].what = "verify"
                  => console[o].token \in proven
            /\ takeover[o] # Domain!NoClaim => ~takeover[o].verified
    BY DEF DomainInv
<1>2. MaxTokens \in Nat /\ drawn \in 0 .. MaxTokens
    BY <1>1, Assumptions DEF Domain!TokensAssumption, Domain!TypeOK
<1>3. claim = Domain!NoClaim \/ claim \in Domain!Claims
    BY <1>1 DEF Domain!TypeOK
<1>4. ASSUME drawn < MaxTokens, drawn' = drawn + 1
      PROVE  drawn' \in 0 .. MaxTokens /\ drawn' \in Domain!Tokens
    BY <1>2, <1>4 DEF Domain!Tokens
<1>5. ASSUME NEW o \in Companies, Domain!ClaimFresh(o) PROVE DomainInv'
  <2>1. /\ drawn < MaxTokens /\ drawn' = drawn + 1 /\ claim' = Domain!NewClaim(o)
        /\ UNCHANGED <<database, published, console, takeover, proven, chosen, crossed>>
      BY <1>5 DEF Domain!ClaimFresh
  <2>2. drawn' \in 0 .. MaxTokens /\ drawn' \in Domain!Tokens
      BY <1>4, <2>1
  <2>3. claim' \in Domain!Claims /\ claim'.verified = FALSE /\ claim'.auto = FALSE
      BY <2>1, <2>2 DEF Domain!NewClaim, Domain!Claims
  <2>4. Domain!TypeOK'
      BY <1>1, <2>1, <2>2, <2>3 DEF Domain!TypeOK
  <2> QED BY <1>1, <2>1, <2>3, <2>4 DEF DomainInv, Domain!ClaimIsItsOwn
<1>6. ASSUME NEW o \in Companies, Domain!LoadStale(o) PROVE DomainInv'
  <2>1. /\ takeover' = [takeover EXCEPT ![o] = claim] /\ claim \in Domain!Claims
        /\ ~claim.verified
        /\ UNCHANGED <<database, claim, drawn, published, console, proven, chosen, crossed>>
      BY <1>3, <1>6 DEF Domain!LoadStale, Domain!Supersedable
  <2>2. Domain!TypeOK'
      BY <1>1, <2>1 DEF Domain!TypeOK
  <2>3. \A k \in Companies : takeover'[k] # Domain!NoClaim => ~takeover'[k].verified
      BY <1>1, <2>1 DEF Domain!TypeOK
  <2> QED BY <1>1, <2>1, <2>2, <2>3 DEF DomainInv, Domain!ClaimIsItsOwn
<1>7. ASSUME NEW o \in Companies, Domain!Supersede(o) PROVE DomainInv'
  <2> DEFINE was == takeover[o]
  <2>1. /\ was # Domain!NoClaim /\ takeover' = [takeover EXCEPT ![o] = Domain!NoClaim]
        /\ UNCHANGED <<database, published, console, proven, chosen>>
      BY <1>7 DEF Domain!Supersede
  <2>2. was \in Domain!Claims /\ ~was.verified
      BY <1>1, <2>1 DEF Domain!TypeOK
  <2>3. takeover' \in [Companies -> Domain!Claims \cup {Domain!NoClaim}]
        /\ \A k \in Companies : takeover'[k] # Domain!NoClaim => ~takeover'[k].verified
      BY <1>1, <2>1 DEF Domain!TypeOK
  <2>4. CASE ~(claim.row = was.row /\ drawn < MaxTokens)
    <3>1. UNCHANGED <<claim, drawn, crossed>>
        BY <1>7, <2>4 DEF Domain!Supersede
    <3> QED BY <1>1, <2>1, <2>3, <3>1 DEF DomainInv, Domain!TypeOK, Domain!ClaimIsItsOwn
  <2>5. CASE claim.row = was.row /\ drawn < MaxTokens
    <3>1. /\ drawn' = drawn + 1
          /\ claim' = [claim EXCEPT !.org = o, !.token = drawn', !.lapsed = FALSE,
                                    !.auto = IF was.auto THEN FALSE ELSE @]
          /\ crossed' = IF claim = was THEN crossed ELSE crossed \cup {drawn'}
        BY <1>7, <2>5 DEF Domain!Supersede
    <3>2. drawn' \in 0 .. MaxTokens /\ drawn' \in Domain!Tokens
        BY <1>4, <2>5, <3>1
    <3>3. claim \in Domain!Claims
        BY <1>3, <2>2, <2>5, ClaimsAre
    <3>4. /\ claim' \in Domain!Claims /\ claim'.token = drawn'
          /\ claim'.verified = claim.verified
          /\ claim'.auto = IF was.auto THEN FALSE ELSE claim.auto
      <4>1. /\ claim.row \in Domain!Tokens /\ claim.verified \in BOOLEAN
            /\ claim.auto \in BOOLEAN
          BY <3>3, ClaimsAre
      <4>2. claim' = [row |-> claim.row, org |-> o, token |-> drawn',
                      verified |-> claim.verified,
                      auto |-> IF was.auto THEN FALSE ELSE claim.auto, lapsed |-> FALSE]
          BY <3>1, <3>3 DEF Domain!Claims
      <4> QED BY <3>2, <4>1, <4>2 DEF Domain!Claims
    <3>5. crossed' \subseteq Domain!Tokens
        BY <1>1, <3>1, <3>2 DEF Domain!TypeOK
    <3>6. Domain!TypeOK'
        BY <1>1, <2>1, <2>3, <3>2, <3>4, <3>5 DEF Domain!TypeOK
    <3>7. claim'.token \notin crossed' => ~claim'.verified /\ ~claim'.auto
        BY <2>2, <3>1, <3>4
    <3> QED BY <1>1, <2>1, <2>3, <3>6, <3>7 DEF DomainInv, Domain!ClaimIsItsOwn
  <2> QED BY <2>4, <2>5
<1>8. ASSUME NEW o \in Companies, NEW what \in Domain!Console, Domain!LoadOwn(o, what)
      PROVE  DomainInv'
  <2> DEFINE do == [at |-> IF what = "verify" THEN "looking" ELSE "writing", what |-> what,
                    row |-> claim.row, token |-> claim.token]
  <2>1. /\ claim \in Domain!Claims /\ console' = [console EXCEPT ![o] = do]
        /\ UNCHANGED <<database, claim, drawn, published, takeover, proven, chosen, crossed>>
      BY <1>3, <1>8 DEF Domain!LoadOwn
  <2>2. claim.row \in 0 .. MaxTokens /\ claim.token \in 0 .. MaxTokens /\ claim.row # 0
        /\ claim.token # 0
      BY <1>2, <2>1, ClaimsAre DEF Domain!Tokens
  <2>3. do \in [at : {"idle", "looking", "writing"}, what : Domain!Console,
                row : 0 .. MaxTokens, token : 0 .. MaxTokens]
      BY <2>2
  <2>4. Domain!TypeOK'
      BY <1>1, <2>1, <2>3 DEF Domain!TypeOK
  <2>5. \A k \in Companies : console'[k] = IF k = o THEN do ELSE console[k]
      BY <1>1, <2>1 DEF Domain!TypeOK
  <2>6. do.row # 0 /\ do.token # 0 /\ ~(do.at = "writing" /\ do.what = "verify")
      BY <2>2
  <2> HIDE DEF do
  <2> QED BY <1>1, <2>1, <2>4, <2>5, <2>6 DEF DomainInv, Domain!ClaimIsItsOwn
<1>9. \A o \in Companies : console[o] \in [at : {"idle", "looking", "writing"},
                                           what : Domain!Console, row : 0 .. MaxTokens,
                                           token : 0 .. MaxTokens]
    BY <1>1 DEF Domain!TypeOK
<1>10. /\ Domain!Idle \in [at : {"idle", "looking", "writing"}, what : Domain!Console,
                           row : 0 .. MaxTokens, token : 0 .. MaxTokens]
       /\ Domain!Idle.at = "idle"
    BY <1>2 DEF Domain!Idle, Domain!Console
<1>11. ASSUME NEW o \in Companies, Domain!Lookup(o) PROVE DomainInv'
  <2>1. /\ console[o].at = "looking"
        /\ UNCHANGED <<database, claim, drawn, published, takeover, chosen, crossed>>
      BY <1>11 DEF Domain!Lookup
  <2>2. CASE console[o].token \in published
    <3>1. /\ console' = [console EXCEPT ![o] = [console[o] EXCEPT !.at = "writing"]]
          /\ proven' = proven \cup {console[o].token}
        BY <1>11, <2>2 DEF Domain!Lookup
    <3>2. /\ [console[o] EXCEPT !.at = "writing"]
                 \in [at : {"idle", "looking", "writing"}, what : Domain!Console,
                      row : 0 .. MaxTokens, token : 0 .. MaxTokens]
          /\ [console[o] EXCEPT !.at = "writing"].row = console[o].row
          /\ [console[o] EXCEPT !.at = "writing"].token = console[o].token
        BY <1>9
    <3>3. Domain!TypeOK'
        BY <1>1, <2>1, <2>2, <3>1, <3>2 DEF Domain!TypeOK
    <3>4. \A k \in Companies :
              console'[k] = IF k = o THEN [console[o] EXCEPT !.at = "writing"] ELSE console[k]
        BY <1>1, <3>1 DEF Domain!TypeOK
    <3>5. \A k \in Companies :
              /\ console'[k].at # "idle" => console'[k].row # 0 /\ console'[k].token # 0
              /\ console'[k].at = "writing" /\ console'[k].what = "verify"
                    => console'[k].token \in proven'
        BY <1>1, <2>1, <3>1, <3>2, <3>4
    <3>6. Domain!ClaimIsItsOwn'
        BY <1>1, <2>1, <3>1 DEF Domain!ClaimIsItsOwn
    <3> QED BY <1>1, <2>1, <3>3, <3>5, <3>6 DEF DomainInv
  <2>3. CASE console[o].token \notin published
    <3>1. console' = [console EXCEPT ![o] = Domain!Idle] /\ proven' = proven
        BY <1>11, <2>3 DEF Domain!Lookup
    <3>2. \A k \in Companies : console'[k] = IF k = o THEN Domain!Idle ELSE console[k]
        BY <1>1, <3>1 DEF Domain!TypeOK
    <3>3. Domain!TypeOK'
        BY <1>1, <1>10, <2>1, <3>1 DEF Domain!TypeOK
    <3> QED BY <1>1, <1>10, <2>1, <3>1, <3>2, <3>3 DEF DomainInv, Domain!ClaimIsItsOwn
  <2> QED BY <2>2, <2>3
<1>12. ASSUME NEW o \in Companies, Domain!WriteOwn(o) PROVE DomainInv'
  <2> DEFINE do == console[o]
  <2>1. /\ do.at = "writing" /\ console' = [console EXCEPT ![o] = Domain!Idle]
        /\ UNCHANGED <<database, drawn, published, takeover, proven>>
      BY <1>12 DEF Domain!WriteOwn
  <2>2. \A k \in Companies : console'[k] = IF k = o THEN Domain!Idle ELSE console[k]
      BY <1>1, <2>1 DEF Domain!TypeOK
  <2>3. ASSUME claim' \in Domain!Claims \cup {Domain!NoClaim},
               chosen' \subseteq Domain!Tokens, crossed' \subseteq Domain!Tokens,
               Domain!ClaimIsItsOwn'
        PROVE  DomainInv'
    <3>1. Domain!TypeOK'
        BY <1>1, <1>10, <2>1, <2>3 DEF Domain!TypeOK
    <3> QED BY <1>1, <1>10, <2>1, <2>2, <2>3, <3>1 DEF DomainInv
  <2>4. CASE ~Domain!Finds(o)
    <3>1. UNCHANGED <<claim, chosen, crossed>>
        BY <1>12, <2>4 DEF Domain!WriteOwn
    <3>2. Domain!ClaimIsItsOwn'
        BY <1>1, <2>1, <3>1 DEF Domain!ClaimIsItsOwn
    <3> QED BY <1>1, <2>3, <3>1, <3>2 DEF Domain!TypeOK
  <2>5. CASE Domain!Finds(o)
    <3>1. claim \in Domain!Claims /\ claim.row = do.row
      <4>1. claim.row = do.row /\ do.row # 0
          BY <1>1, <2>1, <2>5 DEF Domain!Finds
      <4>2. claim # Domain!NoClaim
          BY <4>1 DEF Domain!NoClaim
      <4> QED BY <1>3, <4>1, <4>2
    <3>2. /\ claim' = CASE do.what = "verify"   -> [claim EXCEPT !.verified = TRUE]
                        [] do.what = "auto on"  -> [claim EXCEPT !.auto = TRUE]
                        [] do.what = "auto off" -> [claim EXCEPT !.auto = FALSE]
                        [] do.what = "delete"   -> Domain!NoClaim
        BY <1>12, <2>5 DEF Domain!WriteOwn
    <3>7. /\ chosen' = IF do.what = "auto on" THEN chosen \cup {do.token} ELSE chosen
          /\ crossed' = IF do.token = claim.token THEN crossed ELSE crossed \cup {claim.token}
        BY <1>12, <2>5 DEF Domain!WriteOwn
    <3>8. do.token \in Domain!Tokens
        BY <1>1, <1>2, <1>9, <2>1 DEF Domain!Tokens
    <3>9. chosen' \subseteq Domain!Tokens
        BY <1>1, <3>7, <3>8 DEF Domain!TypeOK
    <3>3. do.what \in {"verify", "auto on", "auto off", "delete"}
        BY <1>9 DEF Domain!Console
    <3>4. claim.token \in Domain!Tokens /\ crossed' \subseteq Domain!Tokens
        BY <1>1, <3>1, <3>7, ClaimsAre DEF Domain!TypeOK
    <3>5. CASE do.what = "delete"
      <4>1. claim' = Domain!NoClaim
          BY <3>2, <3>5
      <4> QED BY <2>3, <3>4, <3>9, <4>1 DEF Domain!TypeOK, Domain!ClaimIsItsOwn
    <3>6. CASE do.what # "delete"
      <4>1. claim' \in Domain!Claims /\ claim'.token = claim.token
        <5>1. CASE do.what = "verify"
            BY <3>1, <3>2, <5>1 DEF Domain!Claims
        <5>2. CASE do.what = "auto on"
            BY <3>1, <3>2, <5>2 DEF Domain!Claims
        <5>3. CASE do.what = "auto off"
            BY <3>1, <3>2, <5>3 DEF Domain!Claims
        <5> QED BY <3>3, <3>6, <5>1, <5>2, <5>3
      <4>2. /\ claim'.verified => claim.verified \/ do.what = "verify"
            /\ claim'.auto => claim.auto \/ do.what = "auto on"
        <5>1. CASE do.what = "verify"
            BY <3>1, <3>2, <5>1 DEF Domain!Claims
        <5>2. CASE do.what = "auto on"
            BY <3>1, <3>2, <5>2 DEF Domain!Claims
        <5>3. CASE do.what = "auto off"
            BY <3>1, <3>2, <5>3 DEF Domain!Claims
        <5> QED BY <3>3, <3>6, <5>1, <5>2, <5>3
      <4>3. claim'.token \notin crossed' => do.token = claim.token /\ claim.token \notin crossed
          BY <3>7, <4>1
      <4>4. do.what = "verify" => do.token \in proven
          BY <1>1, <2>1
      <4>5. do.what = "auto on" => do.token \in chosen'
          BY <3>7
      <4>6. claim # Domain!NoClaim /\ chosen \subseteq chosen' /\ proven' = proven
          BY <2>1, <3>1, <3>7, ClaimsAre
      <4>7. claim.token \notin crossed => /\ claim.verified => claim.token \in proven
                                          /\ claim.auto => claim.token \in chosen
          BY <1>1, <4>6 DEF Domain!ClaimIsItsOwn
      <4>8. Domain!ClaimIsItsOwn'
          BY <4>1, <4>2, <4>3, <4>4, <4>5, <4>6, <4>7 DEF Domain!ClaimIsItsOwn
      <4> QED BY <2>3, <3>4, <3>9, <4>1, <4>8
    <3> QED BY <3>5, <3>6
  <2> QED BY <2>4, <2>5
<1>13. CASE Domain!Publish
  <2>1. /\ claim \in Domain!Claims /\ published' = published \cup {claim.token}
        /\ UNCHANGED <<database, claim, drawn, console, takeover, proven, chosen, crossed>>
      BY <1>3, <1>13 DEF Domain!Publish
  <2>2. Domain!TypeOK'
      BY <1>1, <2>1, ClaimsAre DEF Domain!TypeOK
  <2> QED BY <1>1, <2>1, <2>2 DEF DomainInv, Domain!ClaimIsItsOwn
<1>14. CASE Domain!Lapse
  <2>1. /\ claim \in Domain!Claims /\ claim' = [claim EXCEPT !.lapsed = TRUE]
        /\ UNCHANGED <<database, drawn, published, console, takeover, proven, chosen, crossed>>
      BY <1>3, <1>14 DEF Domain!Lapse
  <2>2. /\ claim' \in Domain!Claims /\ claim'.token = claim.token
        /\ claim'.verified = claim.verified /\ claim'.auto = claim.auto
      BY <2>1 DEF Domain!Claims
  <2>3. Domain!TypeOK'
      BY <1>1, <2>1, <2>2 DEF Domain!TypeOK
  <2>4. claim # Domain!NoClaim
      BY <2>1, ClaimsAre
  <2> QED BY <1>1, <2>1, <2>2, <2>3, <2>4 DEF DomainInv, Domain!ClaimIsItsOwn
<1>15. CASE UNCHANGED Domain!domainVars
    BY <1>1, <1>15 DEF Domain!domainVars, DomainInv, Domain!TypeOK, Domain!ClaimIsItsOwn
<1> QED BY <1>5, <1>6, <1>7, <1>8, <1>11, <1>12, <1>13, <1>14, <1>15 DEF Domain!Next

\* Nobody has claimed the domain in the initial state.
LEMMA DomainInit == Domain!Init => DomainInv
<1> SUFFICES ASSUME Domain!Init PROVE DomainInv
    OBVIOUS
<1>1. MaxTokens \in Nat
    BY Assumptions DEF Domain!TokensAssumption
<1>2. Domain!Idle \in [at : {"idle", "looking", "writing"}, what : Domain!Console,
                       row : 0 .. MaxTokens, token : 0 .. MaxTokens]
    BY <1>1 DEF Domain!Idle, Domain!Console
<1>3. \A o \in Companies : console[o].at = "idle" /\ takeover[o] = Domain!NoClaim
    BY DEF Domain!Init, Domain!Idle
<1>4. Domain!TypeOK
    BY <1>1, <1>2 DEF Domain!Init, Domain!TypeOK
<1>5. claim = Domain!NoClaim
    BY DEF Domain!Init
<1> QED BY <1>3, <1>4, <1>5 DEF DomainInv, Domain!ClaimIsItsOwn
-----------------------------------------------------------------------------
(* An organisation's data key: who may still mint one, and who has a lock. *)

KeyRequests ==
    [at : {"new", "loaded", "ready", "looked", "sealed", "filed", "done"},
     does : {"analysis", "credential"}, fresh : BOOLEAN,
     sees : DataKey!Keys \cup {DataKey!NoKey}, lacks : BOOLEAN,
     with : SUBSET DataKey!Keys, calm : BOOLEAN]

SeenBy(q)  == IF q.fresh THEN q.sees ELSE key
UnderWay(q) == q.at \notin {"new", "done"}

\* The requests that will not mint a key any more, and those that are over.
Served == {r \in KeyUses : \/ request[r].at = "done"
                           \/ UnderWay(request[r]) /\ SeenBy(request[r]) # DataKey!NoKey}
Over   == {r \in KeyUses : request[r].at = "done"}

(***************************************************************************)
(* A request sees no key only if it lacks one, and has read the row: it    *)
(* has not committed since.  One that began in the calm has seen, and has  *)
(* sealed with, no other key than the one in the row.                      *)
(***************************************************************************)
SeesOrLacks(q) ==
    /\ q.fresh /\ q.sees = DataKey!NoKey => q.lacks
    /\ UnderWay(q) /\ ~q.fresh => key # DataKey!NoKey
    /\ q.calm => DataKey!Calm /\ q.with \subseteq {key} /\ (q.fresh => q.sees = key)

\* An analysis that files with excerpts has made sure of the key before it locks.
Prepared(q) ==
    "excerpts" \in keeps /\ q.does = "analysis" /\ q.at \in {"ready", "looked", "sealed", "filed"}
        => SeenBy(q) # DataKey!NoKey

Files(q) == q.does = "analysis" /\ q.at \in {"looked", "sealed", "filed"}

\* An analysis that is about to file holds the lock, and is the first.
FirstHoldsLock ==
    keeps # {"content"} =>
        \A r \in KeyUses : Files(request[r]) => lock = {r} /\ findings = 0

KeysInv ==
    /\ DataKey!TypeOK
    /\ minted <= Cardinality(Served) /\ findings <= Cardinality(Over)
    /\ \A r \in KeyUses : SeesOrLacks(request[r]) /\ Prepared(request[r])
    /\ \A v \in sealed : v.calm => DataKey!Calm /\ v.key = key
    /\ FirstHoldsLock /\ DataKey!MintKeepsLock

\* The requests are finitely many, and so are those that are served or over.
LEMMA KeyCounts ==
    /\ IsFiniteSet(KeyUses) /\ Cardinality(KeyUses) \in Nat
    /\ DataKey!Keys = 1 .. Cardinality(KeyUses) * 2 /\ DataKey!NoKey = 0
    /\ \A S \in SUBSET KeyUses :
          IsFiniteSet(S) /\ Cardinality(S) \in Nat /\ Cardinality(S) <= Cardinality(KeyUses)
    /\ \A S : DataKey!Cardinality(S) = Cardinality(S)
    /\ \A S, T \in SUBSET KeyUses : S \subseteq T => Cardinality(S) <= Cardinality(T)
    /\ \A S \in SUBSET KeyUses : \A r \in KeyUses \ S : Cardinality(S \cup {r}) = Cardinality(S) + 1
<1>1. \A S : DataKey!Cardinality(S) = Cardinality(S) /\ (DataKey!IsFiniteSet(S) <=> IsFiniteSet(S))
    BY DEF DataKey!Cardinality, Cardinality, DataKey!IsFiniteSet, IsFiniteSet
<1>2. DataKey!RequestsAssumption
    BY Assumptions
<1>3. IsFiniteSet(KeyUses) /\ Cardinality(KeyUses) \in Nat
    BY <1>1, <1>2, FS_CardinalityType DEF DataKey!RequestsAssumption
<1>4. \A S \in SUBSET KeyUses :
          IsFiniteSet(S) /\ Cardinality(S) \in Nat /\ Cardinality(S) <= Cardinality(KeyUses)
    BY <1>3, FS_Subset, FS_CardinalityType
<1>5. \A S, T \in SUBSET KeyUses : S \subseteq T => Cardinality(S) <= Cardinality(T)
    BY <1>4, FS_Subset
<1>6. \A S \in SUBSET KeyUses : \A r \in KeyUses \ S : Cardinality(S \cup {r}) = Cardinality(S) + 1
    BY <1>4, FS_AddElement
<1> QED BY <1>1, <1>3, <1>4, <1>5, <1>6 DEF DataKey!Keys, DataKey!NoKey

\* The types, with numbers for the counts.
LEMMA KeyTypes ==
    ASSUME DataKey!TypeOK
    PROVE  /\ keeps \subseteq {"content", "excerpts"}
           /\ minted \in Nat /\ minted <= Cardinality(KeyUses) * 2 /\ key \in Nat /\ key <= minted
           /\ key # 0 => key \in DataKey!Keys
           /\ request \in [KeyUses -> KeyRequests] /\ lock \subseteq KeyUses
           /\ Cardinality(lock) <= 1
           /\ findings \in Nat /\ findings <= Cardinality(KeyUses)
           /\ sealed \subseteq [key : DataKey!Keys, calm : BOOLEAN]
BY KeyCounts DEF DataKey!TypeOK, KeyRequests

\* The types, from numbers.
LEMMA KeyTypesKept ==
    ASSUME DataKey!TypeOK, keeps' = keeps, request' \in [KeyUses -> KeyRequests],
           minted' \in Nat, minted' <= Cardinality(KeyUses) * 2, key' \in Nat, key' <= minted',
           lock' \subseteq KeyUses, Cardinality(lock') <= 1,
           findings' \in Nat, findings' <= Cardinality(KeyUses),
           sealed' \subseteq [key : DataKey!Keys, calm : BOOLEAN]
    PROVE  DataKey!TypeOK'
<1>1. /\ minted' \in 0 .. Cardinality(KeyUses) * 2 /\ key' \in 0 .. minted'
      /\ findings' \in 0 .. Cardinality(KeyUses)
    BY KeyCounts
<1>2. DataKey!Cardinality(KeyUses) = Cardinality(KeyUses)
      /\ DataKey!Cardinality(lock') = Cardinality(lock')
    BY KeyCounts
<1>3. keeps' \subseteq {"content", "excerpts"}
    BY KeyTypes
<1> QED BY <1>1, <1>2, <1>3 DEF DataKey!TypeOK, KeyRequests

\* A request that is done, or new, is as it was at first.
LEMMA DoneIs ==
    LET q == [DataKey!Fresh EXCEPT !.at = "done"] IN
    /\ q \in KeyRequests /\ q.at = "done" /\ SeesOrLacks(q) /\ Prepared(q) /\ ~Files(q)
    /\ ~q.lacks /\ ~q.calm
BY DEF DataKey!Fresh, KeyRequests, SeesOrLacks, Prepared, Files, UnderWay

(***************************************************************************)
(* A step of r that mints no key: what others have seen is still so, and   *)
(* the calm lasts.                                                         *)
(***************************************************************************)
LEMMA NoMintKept ==
    ASSUME KeysInv, NEW r \in KeyUses, NEW q \in KeyRequests,
           request' = [request EXCEPT ![r] = q], UNCHANGED <<keeps, key, minted>>,
           q.at # "new",
           q.at = "done" \/ (UnderWay(request[r]) /\ SeenBy(request[r]) # DataKey!NoKey
                                 => SeenBy(q) # DataKey!NoKey),
           request[r].at # "done",
           q.lacks => request[r].lacks \/ key = DataKey!NoKey,
           SeesOrLacks(q), Prepared(q)
    PROVE  /\ request' \in [KeyUses -> KeyRequests]
           /\ request'[r] = q /\ \A k \in KeyUses \ {r} : request'[k] = request[k]
           /\ DataKey!Calm => DataKey!Calm'
           /\ minted' <= Cardinality(Served')
           /\ Over' = (IF q.at = "done" THEN Over \cup {r} ELSE Over)
           /\ \A k \in KeyUses : SeesOrLacks(request[k])' /\ Prepared(request[k])'
<1>1. /\ request \in [KeyUses -> KeyRequests] /\ minted \in Nat /\ minted <= Cardinality(Served)
      /\ \A k \in KeyUses : SeesOrLacks(request[k]) /\ Prepared(request[k])
    BY KeyTypes DEF KeysInv
<1>2. /\ request' \in [KeyUses -> KeyRequests]
      /\ request'[r] = q /\ \A k \in KeyUses \ {r} : request'[k] = request[k]
    BY <1>1
<1>3. DataKey!Calm => DataKey!Calm'
    BY <1>2 DEF DataKey!Calm
<1>4. Served \in SUBSET KeyUses /\ Served' \in SUBSET KeyUses /\ Served \subseteq Served'
    BY <1>2 DEF Served, UnderWay, SeenBy
<1>5. minted' <= Cardinality(Served')
  <2>1. Cardinality(Served) <= Cardinality(Served')
      BY <1>4, KeyCounts
  <2>2. Cardinality(Served) \in Nat /\ Cardinality(Served') \in Nat
      BY <1>4, KeyCounts
  <2> QED BY <1>1, <2>1, <2>2
<1>6. Over' = (IF q.at = "done" THEN Over \cup {r} ELSE Over)
    BY <1>2 DEF Over
<1>7. \A k \in KeyUses : SeesOrLacks(request[k])' /\ Prepared(request[k])'
  <2> SUFFICES ASSUME NEW k \in KeyUses PROVE SeesOrLacks(request[k])' /\ Prepared(request[k])'
      OBVIOUS
  <2>1. SeesOrLacks(IF k = r THEN q ELSE request[k]) /\ Prepared(IF k = r THEN q ELSE request[k])
      BY <1>1
  <2>2. request'[k] = IF k = r THEN q ELSE request[k]
      BY <1>2
  <2> QED BY <1>3, <2>1, <2>2 DEF SeesOrLacks, Prepared, UnderWay, SeenBy
<1> QED BY <1>2, <1>3, <1>5, <1>6, <1>7

(***************************************************************************)
(* A step of r that mints a key: nothing was sealed in the calm, and r is  *)
(* served from now on.                                                     *)
(***************************************************************************)
LEMMA MintKept ==
    ASSUME KeysInv, NEW r \in KeyUses, NEW q \in KeyRequests,
           UnderWay(request[r]), SeenBy(request[r]) = DataKey!NoKey,
           request' = [request EXCEPT ![r] = q], keeps' = keeps,
           key' = minted + 1, minted' = minted + 1,
           UnderWay(q), ~q.fresh, ~q.lacks, q.calm = request[r].calm
    PROVE  /\ request' \in [KeyUses -> KeyRequests]
           /\ request'[r] = q /\ \A k \in KeyUses \ {r} : request'[k] = request[k]
           /\ ~DataKey!Calm
           /\ minted' \in Nat /\ minted' <= Cardinality(KeyUses)
           /\ minted' <= Cardinality(Served') /\ Over' = Over
           /\ \A k \in KeyUses : SeesOrLacks(request[k])' /\ Prepared(request[k])'
<1>1. /\ request \in [KeyUses -> KeyRequests] /\ minted \in Nat /\ minted <= Cardinality(Served)
      /\ \A k \in KeyUses : SeesOrLacks(request[k]) /\ Prepared(request[k])
    BY KeyTypes DEF KeysInv
<1>2. /\ request' \in [KeyUses -> KeyRequests]
      /\ request'[r] = q /\ \A k \in KeyUses \ {r} : request'[k] = request[k]
    BY <1>1
<1>3. ~DataKey!Calm /\ ~q.calm
  <2>1. key = DataKey!NoKey \/ request[r].lacks
      BY <1>1 DEF SeesOrLacks, SeenBy, UnderWay
  <2>2. ~DataKey!Calm
      BY <2>1 DEF DataKey!Calm
  <2> QED BY <1>1, <2>2 DEF SeesOrLacks
<1>4. key' # DataKey!NoKey
    BY <1>1 DEF DataKey!NoKey
<1>5. /\ Served \in SUBSET KeyUses /\ Served' \in SUBSET KeyUses /\ r \notin Served
      /\ Served \cup {r} \subseteq Served' /\ Served \cup {r} \in SUBSET KeyUses
    BY <1>2, <1>4 DEF Served, UnderWay, SeenBy
<1>6. /\ Cardinality(Served \cup {r}) = Cardinality(Served) + 1
      /\ Cardinality(Served \cup {r}) <= Cardinality(Served')
      /\ Cardinality(Served') <= Cardinality(KeyUses)
      /\ Cardinality(Served) \in Nat /\ Cardinality(Served') \in Nat
      /\ Cardinality(KeyUses) \in Nat
    BY <1>5, KeyCounts
<1>7. Over' = Over
    BY <1>2 DEF Over, UnderWay
<1>8. \A k \in KeyUses : SeesOrLacks(request[k])' /\ Prepared(request[k])'
  <2>1. \A k \in KeyUses \ {r} : SeesOrLacks(request[k])' /\ Prepared(request[k])'
    <3> SUFFICES ASSUME NEW k \in KeyUses \ {r}
                 PROVE  SeesOrLacks(request[k])' /\ Prepared(request[k])'
        OBVIOUS
    <3>1. request'[k] = request[k] /\ SeesOrLacks(request[k]) /\ Prepared(request[k])
        BY <1>1, <1>2
    <3> QED BY <1>3, <1>4, <3>1 DEF SeesOrLacks, Prepared, UnderWay, SeenBy
  <2>2. SeesOrLacks(request[r])' /\ Prepared(request[r])'
      BY <1>2, <1>3, <1>4 DEF SeesOrLacks, Prepared, UnderWay, SeenBy
  <2> QED BY <2>1, <2>2
<1> QED BY <1>1, <1>2, <1>3, <1>6, <1>7, <1>8

\* A request under way that sees no key is not served, so there is a key left to mint.
LEMMA CanMint ==
    ASSUME KeysInv, NEW r \in KeyUses, UnderWay(request[r]),
           SeenBy(request[r]) = DataKey!NoKey
    PROVE  minted + 1 \in DataKey!Keys
<1>1. minted \in Nat /\ minted <= Cardinality(Served)
    BY KeyTypes DEF KeysInv
<1>2. Served \in SUBSET KeyUses /\ r \notin Served /\ Served \cup {r} \in SUBSET KeyUses
    BY DEF Served, UnderWay
<1>3. /\ Cardinality(Served \cup {r}) = Cardinality(Served) + 1
      /\ Cardinality(Served \cup {r}) <= Cardinality(KeyUses)
      /\ Cardinality(Served) \in Nat /\ Cardinality(KeyUses) \in Nat
    BY <1>2, KeyCounts
<1> QED BY <1>1, <1>3, KeyCounts

(***************************************************************************)
(* tenant_dek, whether or not it mints: it gives up the lock only if it    *)
(* does, which it does not in the calm.                                    *)
(***************************************************************************)
LEMMA TenantKeyKept ==
    ASSUME KeysInv, NEW r \in KeyUses, UnderWay(request[r]),
           NEW to \in {"ready", "sealed", "filed"}, NEW seals \in BOOLEAN,
           DataKey!TenantKey(r, to, seals), keeps' = keeps
    PROVE  /\ request' \in [KeyUses -> KeyRequests]
           /\ request'[r].at = to /\ request'[r].does = request[r].does
           /\ \A k \in KeyUses \ {r} : request'[k] = request[k]
           /\ DataKey!Calm => DataKey!Calm' /\ key' = key
           /\ minted' \in Nat /\ minted' <= Cardinality(KeyUses) * 2
           /\ key' \in Nat /\ key' <= minted'
           /\ minted' <= Cardinality(Served') /\ Over' = Over
           /\ \A k \in KeyUses : SeesOrLacks(request[k])' /\ Prepared(request[k])'
           /\ \/ lock' = lock
              \/ SeenBy(request[r]) = DataKey!NoKey /\ lock' = lock \ {r}
<1> DEFINE was == request[r]
           s   == SeenBy(was)
           k   == IF s = DataKey!NoKey THEN minted + 1 ELSE s
           q   == [at |-> to, does |-> was.does, fresh |-> s # DataKey!NoKey, sees |-> s,
                   lacks |-> FALSE, with |-> was.with \cup (IF seals THEN {k} ELSE {}),
                   calm |-> was.calm]
<1>1. /\ DataKey!TypeOK /\ request \in [KeyUses -> KeyRequests]
      /\ minted \in Nat /\ minted <= Cardinality(KeyUses) * 2 /\ key \in Nat /\ key <= minted
      /\ key # 0 => key \in DataKey!Keys
      /\ SeesOrLacks(was)
    BY KeyTypes DEF KeysInv
<1>2. was \in KeyRequests
    BY <1>1
<1>3. DataKey!Sees(r) = s
    BY DEF DataKey!Sees, SeenBy
<1>4. request' = [request EXCEPT ![r] = q]
  <2>1. request' = [request EXCEPT ![r] =
            [was EXCEPT !.at = to, !.with = @ \cup (IF seals THEN {k} ELSE {}),
                        !.fresh = (s # DataKey!NoKey), !.sees = s, !.lacks = FALSE]]
      BY <1>1, <1>3 DEF DataKey!TenantKey
  <2>2. [was EXCEPT !.at = to, !.with = @ \cup (IF seals THEN {k} ELSE {}),
                    !.fresh = (s # DataKey!NoKey), !.sees = s, !.lacks = FALSE] = q
    <3> DEFINE R(a, b, d, e, g) == [at |-> a, does |-> was.does, fresh |-> d, sees |-> e,
                                    lacks |-> g, with |-> b, calm |-> was.calm]
               w  == was.with \cup (IF seals THEN {k} ELSE {})
               f  == s # DataKey!NoKey
               l  == FALSE
               c1 == [was EXCEPT !.at = to]
               c2 == [c1 EXCEPT !.with = w]
               c3 == [c2 EXCEPT !.fresh = f]
               c4 == [c3 EXCEPT !.sees = s]
    <3>1. f \in BOOLEAN /\ l \in BOOLEAN
        OBVIOUS
    <3> HIDE DEF s, was, w, f, l
    <3>2. c1 = R(to, was.with, was.fresh, was.sees, was.lacks)
        BY <1>2 DEF KeyRequests
    <3> HIDE DEF c1
    <3>3. c2 = R(to, w, was.fresh, was.sees, was.lacks)
        BY <3>2
    <3> HIDE DEF c2
    <3>4. c3 = R(to, w, f, was.sees, was.lacks)
        BY <3>1, <3>3
    <3> HIDE DEF c3
    <3>5. c4 = R(to, w, f, s, was.lacks)
        BY <3>4
    <3> HIDE DEF c4
    <3>6. [c4 EXCEPT !.lacks = l] = R(to, w, f, s, l)
        BY <3>1, <3>5
    <3> QED BY <3>6 DEF c1, c2, c3, c4, w, f, l
  <2> QED BY <2>1, <2>2
<1>5. IF s = DataKey!NoKey
      THEN key' = minted + 1 /\ minted' = minted + 1 /\ lock' = lock \ {r}
      ELSE UNCHANGED <<key, minted, lock>>
    BY <1>3 DEF DataKey!TenantKey
<1>6. s \in DataKey!Keys \cup {DataKey!NoKey}
    BY <1>1, <1>2 DEF SeenBy, KeyRequests, DataKey!NoKey
<1>7. q \in KeyRequests
  <2>1. k \in DataKey!Keys
      BY <1>6, CanMint
  <2>2. was.with \subseteq DataKey!Keys /\ was.does \in {"analysis", "credential"}
        /\ was.calm \in BOOLEAN
      BY <1>2 DEF KeyRequests
  <2> HIDE DEF k, s, was
  <2> QED BY <1>6, <2>1, <2>2 DEF KeyRequests
<1>8. CASE s = DataKey!NoKey
  <2>1. UnderWay(q) /\ ~q.fresh /\ ~q.lacks /\ q.calm = was.calm
      BY <1>8 DEF UnderWay
  <2>2. q.at = to /\ q.does = was.does
      OBVIOUS
  <2> HIDE DEF q
  <2>3. /\ request' \in [KeyUses -> KeyRequests]
        /\ request'[r] = q /\ \A j \in KeyUses \ {r} : request'[j] = request[j]
        /\ ~DataKey!Calm
        /\ minted' \in Nat /\ minted' <= Cardinality(KeyUses)
        /\ minted' <= Cardinality(Served') /\ Over' = Over
        /\ \A j \in KeyUses : SeesOrLacks(request[j])' /\ Prepared(request[j])'
      BY <1>4, <1>5, <1>7, <1>8, <2>1, MintKept DEF s, was
  <2>4. minted' <= Cardinality(KeyUses) * 2 /\ key' \in Nat /\ key' <= minted'
      BY <1>5, <1>8, <2>3, KeyCounts
  <2> QED BY <1>5, <1>8, <2>2, <2>3, <2>4 DEF s, was
<1>9. CASE s # DataKey!NoKey
  <2>1. /\ q.at \notin {"new", "done"} /\ q.fresh /\ q.sees = s /\ ~q.lacks
        /\ q.at = to /\ q.does = was.does
      BY <1>9
  <2>2. SeenBy(q) = s
      BY <2>1 DEF SeenBy
  <2>3. was.calm => DataKey!Calm /\ was.with \subseteq {key} /\ s = key
      BY <1>1 DEF SeesOrLacks, SeenBy
  <2>4. q.calm => DataKey!Calm /\ q.with \subseteq {key} /\ q.sees = key
      BY <1>9, <2>3
  <2>5. SeesOrLacks(q) /\ Prepared(q)
      BY <1>9, <2>1, <2>2, <2>4 DEF SeesOrLacks, Prepared
  <2>6. UNCHANGED <<key, minted, lock>>
      BY <1>5, <1>9
  <2>7. was.at # "done"
      BY DEF UnderWay
  <2>8. SeenBy(q) # DataKey!NoKey
      BY <1>9, <2>2
  <2> HIDE DEF q
  <2>9. /\ request' \in [KeyUses -> KeyRequests]
        /\ request'[r] = q /\ \A j \in KeyUses \ {r} : request'[j] = request[j]
        /\ DataKey!Calm => DataKey!Calm'
        /\ minted' <= Cardinality(Served')
        /\ Over' = (IF q.at = "done" THEN Over \cup {r} ELSE Over)
        /\ \A j \in KeyUses : SeesOrLacks(request[j])' /\ Prepared(request[j])'
      BY <1>4, <1>7, <2>1, <2>5, <2>6, <2>7, <2>8, NoMintKept DEF was
  <2> QED BY <1>1, <2>1, <2>6, <2>9
<1> QED BY <1>8, <1>9

(***************************************************************************)
(* The rest of a step of r: the first to file still holds the lock, what   *)
(* was sealed in the calm still opens, and the counts are in their types.  *)
(***************************************************************************)
LEMMA KeysStep ==
    ASSUME KeysInv, NEW r \in KeyUses, keeps' = keeps,
           request' \in [KeyUses -> KeyRequests],
           \A k \in KeyUses \ {r} : request'[k] = request[k],
           minted' \in Nat, minted' <= Cardinality(KeyUses) * 2, key' \in Nat, key' <= minted',
           minted' <= Cardinality(Served'),
           \A k \in KeyUses : SeesOrLacks(request[k])' /\ Prepared(request[k])',
           DataKey!Calm => DataKey!Calm' /\ key' = key,
           sealed' \subseteq [key : DataKey!Keys, calm : BOOLEAN],
           \A v \in sealed' : v.calm => v \in sealed \/ (DataKey!Calm /\ v.key = key),
           lock' \subseteq KeyUses, Cardinality(lock') <= 1,
           keeps # {"content"} =>
               /\ Files(request'[r]) => lock' = {r} /\ findings' = 0
               /\ \A k \in KeyUses \ {r} : Files(request[k]) /\ lock = {k} /\ findings = 0
                      => lock' = {k} /\ findings' = 0
               /\ findings' <= 1,
           findings' \in Nat, findings' <= Cardinality(Over')
    PROVE  KeysInv'
<1>1. /\ DataKey!TypeOK /\ FirstHoldsLock
      /\ \A v \in sealed : v.calm => DataKey!Calm /\ v.key = key
    BY DEF KeysInv
<1>2. findings' <= Cardinality(KeyUses)
  <2>1. Over' \in SUBSET KeyUses
      BY DEF Over
  <2>2. Cardinality(Over') \in Nat /\ Cardinality(Over') <= Cardinality(KeyUses)
      BY <2>1, KeyCounts
  <2> QED BY <2>2, KeyCounts
<1>3. DataKey!TypeOK'
    BY <1>1, <1>2, KeyTypesKept
<1>4. \A v \in sealed' : v.calm => DataKey!Calm' /\ v.key = key'
    BY <1>1
<1>5. FirstHoldsLock'
  <2> SUFFICES ASSUME keeps # {"content"}, NEW k \in KeyUses, Files(request'[k])
               PROVE  lock' = {k} /\ findings' = 0
      BY DEF FirstHoldsLock, Files
  <2>1. CASE k = r
      BY <2>1
  <2>2. CASE k # r
    <3>1. Files(request[k])
        BY <2>2
    <3>2. lock = {k} /\ findings = 0
        BY <1>1, <3>1 DEF FirstHoldsLock
    <3> QED BY <2>2, <3>1, <3>2
  <2> QED BY <2>1, <2>2
<1>6. DataKey!MintKeepsLock'
    BY DEF DataKey!MintKeepsLock
<1> QED BY <1>3, <1>4, <1>5, <1>6 DEF KeysInv

\* A step of r that mints nothing, files nothing and holds on to the lock if it has it.
LEMMA QuietStep ==
    ASSUME KeysInv, NEW r \in KeyUses, NEW q \in KeyRequests,
           request' = [request EXCEPT ![r] = q], UNCHANGED <<keeps, key, minted, findings, sealed>>,
           q.at # "new",
           q.at = "done" \/ (UnderWay(request[r]) /\ SeenBy(request[r]) # DataKey!NoKey
                                 => SeenBy(q) # DataKey!NoKey),
           request[r].at # "done",
           q.lacks => request[r].lacks \/ key = DataKey!NoKey,
           SeesOrLacks(q), Prepared(q),
           \/ lock' = lock
           \/ lock' = lock \ {r}
           \/ lock = {} /\ findings = 0 /\ lock' = {r},
           keeps # {"content"} /\ Files(q) => lock' = {r} /\ findings = 0
    PROVE  KeysInv'
<1>1. /\ request' \in [KeyUses -> KeyRequests]
      /\ request'[r] = q /\ \A k \in KeyUses \ {r} : request'[k] = request[k]
      /\ DataKey!Calm => DataKey!Calm'
      /\ minted' <= Cardinality(Served')
      /\ Over' = (IF q.at = "done" THEN Over \cup {r} ELSE Over)
      /\ \A k \in KeyUses : SeesOrLacks(request[k])' /\ Prepared(request[k])'
    BY NoMintKept
<1>2. /\ minted \in Nat /\ minted <= Cardinality(KeyUses) * 2 /\ key \in Nat /\ key <= minted
      /\ lock \subseteq KeyUses /\ Cardinality(lock) <= 1 /\ findings \in Nat
      /\ sealed \subseteq [key : DataKey!Keys, calm : BOOLEAN]
      /\ findings <= Cardinality(Over) /\ FirstHoldsLock /\ DataKey!MintKeepsLock
    BY KeyTypes DEF KeysInv
<1>3. lock' \subseteq KeyUses /\ Cardinality(lock') <= 1
  <2>1. CASE lock' = lock
      BY <1>2, <2>1
  <2>2. CASE lock' = lock \ {r}
    <3>1. lock' \in SUBSET KeyUses /\ lock \in SUBSET KeyUses /\ lock' \subseteq lock
        BY <1>2, <2>2
    <3>2. Cardinality(lock') <= Cardinality(lock)
          /\ Cardinality(lock') \in Nat /\ Cardinality(lock) \in Nat
        BY <3>1, KeyCounts
    <3> QED BY <1>2, <3>1, <3>2
  <2>3. CASE lock' = {r}
      BY <2>3, FS_Singleton
  <2> QED BY <2>1, <2>2, <2>3
<1>4. findings <= Cardinality(Over')
  <2>1. Over \in SUBSET KeyUses /\ Over' \in SUBSET KeyUses /\ Over \subseteq Over'
      BY <1>1 DEF Over
  <2>2. Cardinality(Over) <= Cardinality(Over') /\ Cardinality(Over) \in Nat
        /\ Cardinality(Over') \in Nat
      BY <2>1, KeyCounts
  <2> QED BY <1>2, <2>2
<1>5. ASSUME keeps # {"content"}, NEW k \in KeyUses \ {r}, lock = {k} PROVE lock' = {k}
    BY <1>5
<1>6. keeps # {"content"} =>
          /\ Files(request'[r]) => lock' = {r} /\ findings' = 0
          /\ \A k \in KeyUses \ {r} : Files(request[k]) /\ lock = {k} /\ findings = 0
                 => lock' = {k} /\ findings' = 0
          /\ findings' <= 1
    BY <1>1, <1>2, <1>5 DEF DataKey!MintKeepsLock
<1> QED BY <1>1, <1>2, <1>3, <1>4, <1>6, KeysStep

\* A step of r that uses the key, and does not file without the lock if it had it.
LEMMA KeyStep ==
    ASSUME KeysInv, NEW r \in KeyUses, UnderWay(request[r]),
           NEW to \in {"ready", "sealed", "filed"}, NEW seals \in BOOLEAN,
           DataKey!TenantKey(r, to, seals), UNCHANGED <<keeps, findings, sealed>>,
           request[r].does = "analysis" /\ to \in {"sealed", "filed"}
               => Files(request[r]) /\ (keeps # {"content"} => "excerpts" \in keeps)
    PROVE  KeysInv'
<1>1. /\ request' \in [KeyUses -> KeyRequests]
      /\ request'[r].at = to /\ request'[r].does = request[r].does
      /\ \A k \in KeyUses \ {r} : request'[k] = request[k]
      /\ DataKey!Calm => DataKey!Calm' /\ key' = key
      /\ minted' \in Nat /\ minted' <= Cardinality(KeyUses) * 2
      /\ key' \in Nat /\ key' <= minted'
      /\ minted' <= Cardinality(Served') /\ Over' = Over
      /\ \A k \in KeyUses : SeesOrLacks(request[k])' /\ Prepared(request[k])'
      /\ \/ lock' = lock
         \/ SeenBy(request[r]) = DataKey!NoKey /\ lock' = lock \ {r}
    BY TenantKeyKept
<1>2. /\ lock \subseteq KeyUses /\ Cardinality(lock) <= 1 /\ findings \in Nat
      /\ sealed \subseteq [key : DataKey!Keys, calm : BOOLEAN]
      /\ findings <= Cardinality(Over) /\ FirstHoldsLock /\ DataKey!MintKeepsLock
      /\ Prepared(request[r])
    BY KeyTypes DEF KeysInv
<1>3. lock' \subseteq KeyUses /\ Cardinality(lock') <= 1
  <2>1. lock' \in SUBSET KeyUses /\ lock \in SUBSET KeyUses /\ lock' \subseteq lock
      BY <1>1, <1>2
  <2>2. Cardinality(lock') <= Cardinality(lock)
        /\ Cardinality(lock') \in Nat /\ Cardinality(lock) \in Nat
      BY <2>1, KeyCounts
  <2> QED BY <1>2, <2>1, <2>2
<1>4. ASSUME keeps # {"content"}, Files(request'[r]) PROVE lock' = {r} /\ findings' = 0
  <2>1. request[r].does = "analysis" /\ to \in {"sealed", "filed"}
      BY <1>1, <1>4 DEF Files
  <2>2. Files(request[r]) /\ "excerpts" \in keeps
      BY <1>4, <2>1
  <2>3. SeenBy(request[r]) # DataKey!NoKey
      BY <1>2, <2>2 DEF Prepared, Files
  <2> QED BY <1>1, <1>2, <1>4, <2>2, <2>3 DEF FirstHoldsLock
<1>5. keeps # {"content"} =>
          /\ Files(request'[r]) => lock' = {r} /\ findings' = 0
          /\ \A k \in KeyUses \ {r} : Files(request[k]) /\ lock = {k} /\ findings = 0
                 => lock' = {k} /\ findings' = 0
          /\ findings' <= 1
    BY <1>1, <1>2, <1>4 DEF DataKey!MintKeepsLock
<1> QED BY <1>1, <1>2, <1>3, <1>5, KeysStep

\* A request that goes on with what it has seen.
GoesOn(r, to) == [request[r] EXCEPT !.at = to]

\* Every step of the requests that need the key keeps the invariant.
LEMMA KeysKept == ASSUME KeysInv, [DataKey!Next]_(DataKey!keyVars) PROVE KeysInv'
<1>1. /\ DataKey!TypeOK /\ request \in [KeyUses -> KeyRequests] /\ lock \subseteq KeyUses
      /\ keeps \subseteq {"content", "excerpts"} /\ findings \in Nat /\ key \in Nat
      /\ key # 0 => key \in DataKey!Keys
      /\ FirstHoldsLock /\ DataKey!MintKeepsLock /\ findings <= Cardinality(Over)
      /\ \A k \in KeyUses : SeesOrLacks(request[k]) /\ Prepared(request[k])
      /\ sealed \subseteq [key : DataKey!Keys, calm : BOOLEAN]
    BY KeyTypes DEF KeysInv
<1>2. \A r \in KeyUses : request[r] \in KeyRequests
    BY <1>1
<1>3. \A r \in KeyUses : DataKey!Sees(r) = SeenBy(request[r])
    BY DEF DataKey!Sees, SeenBy
\* r goes on to where it does not file, with what it has seen.
<1>4. ASSUME NEW r \in KeyUses, NEW to \in {"ready", "looked", "sealed", "filed"},
             UnderWay(request[r])
      PROVE  LET q == GoesOn(r, to) IN
             /\ q \in KeyRequests /\ q.at = to /\ q.does = request[r].does
             /\ SeenBy(q) = SeenBy(request[r]) /\ q.lacks = request[r].lacks
             /\ SeesOrLacks(q) /\ q.at \notin {"new", "done"} /\ request[r].at # "done"
             /\ Files(q) <=> q.does = "analysis" /\ to # "ready"
             /\ Prepared(q) <=> ("excerpts" \in keeps /\ q.does = "analysis"
                                     => SeenBy(q) # DataKey!NoKey)
  <2> DEFINE q == GoesOn(r, to)
  <2>1. q \in KeyRequests
      BY <1>2 DEF KeyRequests, GoesOn
  <2>2. /\ q.at = to /\ q.does = request[r].does /\ q.lacks = request[r].lacks
        /\ q.fresh = request[r].fresh /\ q.sees = request[r].sees
        /\ q.calm = request[r].calm /\ q.with = request[r].with
      BY <1>2 DEF KeyRequests, GoesOn
  <2>3. SeesOrLacks(request[r])
      BY <1>1
  <2> HIDE DEF q
  <2>4. SeesOrLacks(q) /\ SeenBy(q) = SeenBy(request[r])
      BY <1>4, <2>2, <2>3 DEF SeesOrLacks, SeenBy, UnderWay
  <2>5. /\ q.at \notin {"new", "done"} /\ request[r].at # "done"
        /\ Files(q) <=> q.does = "analysis" /\ to # "ready"
        /\ Prepared(q) <=> ("excerpts" \in keeps /\ q.does = "analysis"
                                     => SeenBy(q) # DataKey!NoKey)
      BY <1>4, <2>2 DEF Files, Prepared, UnderWay
  <2> QED BY <2>1, <2>2, <2>4, <2>5 DEF q
<1>5. ASSUME NEW r \in KeyUses, NEW does \in {"analysis", "credential"}, DataKey!Load(r, does)
      PROVE  KeysInv'
  <2> DEFINE q == [at |-> "loaded", does |-> does, fresh |-> TRUE, sees |-> key,
                   lacks |-> (key = DataKey!NoKey), with |-> {}, calm |-> DataKey!Calm]
  <2>1. /\ request[r].at = "new" /\ request' = [request EXCEPT ![r] = q]
        /\ UNCHANGED <<keeps, key, minted, lock, findings, sealed>>
    <3> DEFINE R(a, b, d, e, f, g) == [at |-> a, does |-> b, fresh |-> d, sees |-> e,
                                       lacks |-> f, with |-> {}, calm |-> g]
               t  == TRUE
               n  == FALSE
               k  == DataKey!NoKey
               l  == (key = DataKey!NoKey)
               m  == DataKey!Calm
               c1 == [DataKey!Fresh EXCEPT !.at = "loaded"]
               c2 == [c1 EXCEPT !.does = does]
               c3 == [c2 EXCEPT !.fresh = t]
               c4 == [c3 EXCEPT !.sees = key]
               c5 == [c4 EXCEPT !.lacks = l]
    <3>1. {t, n, l, m} \subseteq BOOLEAN
        BY DEF DataKey!Calm
    <3>2. DataKey!Fresh = R("new", "analysis", n, k, n, n)
        BY DEF DataKey!Fresh
    <3> HIDE DEF t, n, k, l, m
    <3>3. c1 = R("loaded", "analysis", n, k, n, n)
        BY <3>1, <3>2
    <3> HIDE DEF c1
    <3>4. c2 = R("loaded", does, n, k, n, n)
        BY <3>1, <3>3
    <3> HIDE DEF c2
    <3>5. c3 = R("loaded", does, t, k, n, n)
        BY <3>1, <3>4
    <3> HIDE DEF c3
    <3>6. c4 = R("loaded", does, t, key, n, n)
        BY <3>1, <3>5
    <3> HIDE DEF c4
    <3>7. c5 = R("loaded", does, t, key, l, n)
        BY <3>1, <3>6
    <3> HIDE DEF c5
    <3>8. [c5 EXCEPT !.calm = m] = R("loaded", does, t, key, l, m)
        BY <3>1, <3>7
    <3>9. [c5 EXCEPT !.calm = m] = q
        BY <3>8 DEF t, l, m
    <3>10. request' = [request EXCEPT ![r] = [c5 EXCEPT !.calm = m]]
        BY <1>5 DEF DataKey!Load, c1, c2, c3, c4, c5, t, l, m
    <3> HIDE DEF q
    <3> QED BY <1>5, <3>9, <3>10 DEF DataKey!Load
  <2>2. q \in KeyRequests
    <3>1. DataKey!Calm \in BOOLEAN /\ key \in DataKey!Keys \cup {DataKey!NoKey}
        BY <1>1 DEF DataKey!Calm, DataKey!NoKey
    <3> QED BY <3>1 DEF KeyRequests
  <2>3. /\ q.at = "loaded" /\ q.fresh /\ q.sees = key /\ (q.lacks <=> key = DataKey!NoKey)
        /\ (q.calm <=> DataKey!Calm) /\ q.with = {}
      OBVIOUS
  <2>4. ~UnderWay(request[r]) /\ request[r].at # "done"
      BY <2>1 DEF UnderWay
  <2> HIDE DEF q
  <2>5. SeesOrLacks(q) /\ Prepared(q) /\ ~Files(q)
      BY <2>3 DEF SeesOrLacks, Prepared, Files
  <2> QED BY <2>1, <2>2, <2>3, <2>4, <2>5, QuietStep
<1>6. ASSUME NEW r \in KeyUses, DataKey!Prepare(r) PROVE KeysInv'
  <2>1. /\ request[r].at = "loaded" /\ request[r].does = "analysis"
        /\ UNCHANGED <<keeps, findings, sealed>>
      BY <1>6 DEF DataKey!Prepare
  <2>2. UnderWay(request[r])
      BY <2>1 DEF UnderWay
  <2>3. CASE DataKey!MintsEarly(r)
    <3>1. DataKey!TenantKey(r, "ready", FALSE)
        BY <1>6, <2>3 DEF DataKey!Prepare
    <3> QED BY <2>1, <2>2, <3>1, KeyStep
  <2>4. CASE ~DataKey!MintsEarly(r)
    <3> DEFINE q == GoesOn(r, "ready")
    <3>1. /\ request' = [request EXCEPT ![r] = q] /\ UNCHANGED <<key, minted, lock>>
        BY <1>1, <1>6, <2>4 DEF DataKey!Prepare, GoesOn
    <3>2. "excerpts" \in keeps => SeenBy(request[r]) # DataKey!NoKey
        BY <1>3, <2>4 DEF DataKey!MintsEarly
    <3>3. /\ q \in KeyRequests /\ q.at = "ready" /\ SeenBy(q) = SeenBy(request[r])
          /\ q.lacks = request[r].lacks /\ SeesOrLacks(q) /\ request[r].at # "done"
          /\ ~Files(q) /\ Prepared(q)
        BY <1>4, <2>2, <3>2
    <3> HIDE DEF q
    <3> QED BY <2>1, <3>1, <3>3, QuietStep
  <2> QED BY <2>3, <2>4
<1>7. ASSUME NEW r \in KeyUses, request[r].at # "done", UNCHANGED <<keeps, key, minted>>,
             UNCHANGED <<findings, sealed>>,
             request' = [request EXCEPT ![r] = [DataKey!Fresh EXCEPT !.at = "done"]],
             lock' = lock \/ lock' = lock \ {r}
      PROVE  KeysInv'
  <2> DEFINE q == [DataKey!Fresh EXCEPT !.at = "done"]
  <2>1. q \in KeyRequests /\ q.at = "done" /\ SeesOrLacks(q) /\ Prepared(q) /\ ~Files(q) /\ ~q.lacks
      BY DoneIs
  <2> HIDE DEF q
  <2>2. request' = [request EXCEPT ![r] = q]
      BY <1>7 DEF q
  <2> QED BY <1>7, <2>1, <2>2, QuietStep
<1>8. ASSUME NEW r \in KeyUses, DataKey!LockAndLook(r) PROVE KeysInv'
  <2>1. /\ request[r].at = "ready" /\ lock = {} /\ UNCHANGED <<keeps, key, minted, findings, sealed>>
      BY <1>8 DEF DataKey!LockAndLook
  <2>2. CASE findings > 0
    <3>1. /\ request' = [request EXCEPT ![r] = [DataKey!Fresh EXCEPT !.at = "done"]]
          /\ lock' = lock
        BY <1>8, <2>2 DEF DataKey!LockAndLook
    <3> QED BY <1>7, <2>1, <3>1
  <2>3. CASE ~(findings > 0)
    <3> DEFINE q == GoesOn(r, "looked")
    <3>1. request' = [request EXCEPT ![r] = q] /\ lock' = {r} /\ findings = 0
        BY <1>1, <1>8, <2>3 DEF DataKey!LockAndLook, GoesOn
    <3>2. UnderWay(request[r])
        BY <2>1 DEF UnderWay
    <3>3. "excerpts" \in keeps /\ request[r].does = "analysis"
              => SeenBy(request[r]) # DataKey!NoKey
        BY <1>1, <2>1 DEF Prepared
    <3>4. /\ q \in KeyRequests /\ q.at = "looked" /\ SeenBy(q) = SeenBy(request[r])
          /\ q.lacks = request[r].lacks /\ SeesOrLacks(q) /\ request[r].at # "done"
          /\ Prepared(q)
        BY <1>4, <3>2, <3>3
    <3> HIDE DEF q
    <3> QED BY <2>1, <3>1, <3>4, QuietStep
  <2> QED BY <2>2, <2>3
\* r goes from one sealing to the next without using the key.
<1>9. ASSUME NEW r \in KeyUses, NEW to \in {"sealed", "filed"},
             request[r].at \in {"looked", "sealed"},
             request' = [request EXCEPT ![r].at = to],
             UNCHANGED <<keeps, key, minted, lock, findings, sealed>>
      PROVE  KeysInv'
  <2> DEFINE q == GoesOn(r, to)
  <2>1. UnderWay(request[r]) /\ (Files(request[r]) <=> request[r].does = "analysis")
      BY <1>9 DEF UnderWay, Files
  <2>2. "excerpts" \in keeps /\ request[r].does = "analysis" => SeenBy(request[r]) # DataKey!NoKey
      BY <1>1, <1>9 DEF Prepared
  <2>3. /\ q \in KeyRequests /\ q.at = to /\ SeenBy(q) = SeenBy(request[r])
        /\ q.lacks = request[r].lacks /\ SeesOrLacks(q) /\ request[r].at # "done"
        /\ Prepared(q) /\ (Files(q) => Files(request[r]))
      BY <1>4, <2>1, <2>2
  <2>4. request' = [request EXCEPT ![r] = q]
      BY <1>1, <1>9 DEF GoesOn
  <2> HIDE DEF q
  <2>5. keeps # {"content"} /\ Files(q) => lock' = {r} /\ findings = 0
      BY <1>1, <1>9, <2>3 DEF FirstHoldsLock
  <2> QED BY <1>9, <2>3, <2>4, <2>5, QuietStep
<1>10. ASSUME NEW r \in KeyUses, DataKey!SealContent(r) PROVE KeysInv'
  <2>1. request[r].at = "looked" /\ UNCHANGED <<keeps, findings, sealed>>
      BY <1>10 DEF DataKey!SealContent
  <2>2. CASE "content" \in keeps
    <3>1. DataKey!TenantKey(r, "sealed", TRUE)
        BY <1>10, <2>2 DEF DataKey!SealContent
    <3>2. UnderWay(request[r]) /\ (request[r].does = "analysis" => Files(request[r]))
        BY <2>1 DEF UnderWay, Files
    <3>3. keeps # {"content"} => "excerpts" \in keeps
        BY <1>1, <2>2
    <3> QED BY <2>1, <3>1, <3>2, <3>3, KeyStep
  <2>3. CASE "content" \notin keeps
      BY <1>9, <1>10, <2>1, <2>3 DEF DataKey!SealContent
  <2> QED BY <2>2, <2>3
<1>11. ASSUME NEW r \in KeyUses, DataKey!SealExcerpts(r) PROVE KeysInv'
  <2>1. request[r].at = "sealed" /\ UNCHANGED <<keeps, findings, sealed>>
      BY <1>11 DEF DataKey!SealExcerpts
  <2>2. CASE "excerpts" \in keeps
    <3>1. DataKey!TenantKey(r, "filed", TRUE)
        BY <1>11, <2>2 DEF DataKey!SealExcerpts
    <3>2. UnderWay(request[r]) /\ (request[r].does = "analysis" => Files(request[r]))
        BY <2>1 DEF UnderWay, Files
    <3> QED BY <2>1, <2>2, <3>1, <3>2, KeyStep
  <2>3. CASE "excerpts" \notin keeps
      BY <1>9, <1>11, <2>1, <2>3 DEF DataKey!SealExcerpts
  <2> QED BY <2>2, <2>3
<1>12. ASSUME NEW r \in KeyUses, DataKey!SealCredential(r) PROVE KeysInv'
  <2>1. /\ request[r].at = "loaded" /\ request[r].does = "credential"
        /\ DataKey!TenantKey(r, "filed", TRUE) /\ UNCHANGED <<keeps, findings, sealed>>
      BY <1>12 DEF DataKey!SealCredential
  <2>2. UnderWay(request[r]) /\ request[r].does # "analysis"
      BY <2>1 DEF UnderWay
  <2> QED BY <2>1, <2>2, KeyStep
<1>13. ASSUME NEW r \in KeyUses, DataKey!Abandon(r) PROVE KeysInv'
    BY <1>7, <1>13 DEF DataKey!Abandon
<1>14. ASSUME NEW r \in KeyUses, DataKey!Commit(r) PROVE KeysInv'
  <2> DEFINE q   == [DataKey!Fresh EXCEPT !.at = "done"]
             new == {[key |-> k, calm |-> request[r].calm] : k \in request[r].with}
  <2>1. /\ request[r].at = "filed" /\ request' = [request EXCEPT ![r] = q]
        /\ sealed' = sealed \cup new
        /\ findings' = findings + (IF request[r].does = "analysis" THEN 1 ELSE 0)
        /\ lock' = lock \ {r} /\ UNCHANGED <<keeps, key, minted>>
      BY <1>14 DEF DataKey!Commit
  <2>2. q \in KeyRequests /\ q.at = "done" /\ SeesOrLacks(q) /\ Prepared(q) /\ ~Files(q) /\ ~q.lacks
      BY DoneIs
  <2>3. \A v \in new : v \in [key : DataKey!Keys, calm : BOOLEAN]
                       /\ (v.calm => DataKey!Calm /\ v.key = key)
    <3>1. request[r].with \subseteq DataKey!Keys /\ request[r].calm \in BOOLEAN
        BY <1>2 DEF KeyRequests
    <3>2. request[r].calm => DataKey!Calm /\ request[r].with \subseteq {key}
        BY <1>1 DEF SeesOrLacks
    <3> QED BY <3>1, <3>2
  <2> HIDE DEF q, new
  <2>4. request[r].at # "done"
      BY <2>1
  <2>5. /\ request' \in [KeyUses -> KeyRequests]
        /\ request'[r] = q /\ \A k \in KeyUses \ {r} : request'[k] = request[k]
        /\ DataKey!Calm => DataKey!Calm'
        /\ minted' <= Cardinality(Served')
        /\ Over' = (IF q.at = "done" THEN Over \cup {r} ELSE Over)
        /\ \A k \in KeyUses : SeesOrLacks(request[k])' /\ Prepared(request[k])'
      BY <2>1, <2>2, <2>4, NoMintKept
  <2>6. /\ minted' \in Nat /\ minted' <= Cardinality(KeyUses) * 2 /\ key' \in Nat /\ key' <= minted'
        /\ Cardinality(lock) <= 1
      BY <1>1, <2>1, KeyTypes
  <2>7. lock' \subseteq KeyUses /\ Cardinality(lock') <= 1
    <3>1. lock' \in SUBSET KeyUses /\ lock \in SUBSET KeyUses /\ lock' \subseteq lock
        BY <1>1, <2>1
    <3>2. Cardinality(lock') <= Cardinality(lock)
          /\ Cardinality(lock') \in Nat /\ Cardinality(lock) \in Nat
        BY <3>1, KeyCounts
    <3> QED BY <2>6, <3>1, <3>2
  <2>8. findings' \in Nat /\ findings' <= Cardinality(Over')
    <3>1. Over \in SUBSET KeyUses /\ r \notin Over /\ Over' = Over \cup {r}
        BY <2>2, <2>4, <2>5 DEF Over
    <3>2. Cardinality(Over') = Cardinality(Over) + 1 /\ Cardinality(Over) \in Nat
        BY <3>1, KeyCounts
    <3> QED BY <1>1, <2>1, <3>2
  <2>9. keeps # {"content"} =>
            /\ Files(request'[r]) => lock' = {r} /\ findings' = 0
            /\ \A k \in KeyUses \ {r} : Files(request[k]) /\ lock = {k} /\ findings = 0
                   => lock' = {k} /\ findings' = 0
            /\ findings' <= 1
    <3> SUFFICES ASSUME keeps # {"content"}
                 PROVE  /\ Files(request'[r]) => lock' = {r} /\ findings' = 0
                        /\ \A k \in KeyUses \ {r} : Files(request[k]) /\ lock = {k} /\ findings = 0
                               => lock' = {k} /\ findings' = 0
                        /\ findings' <= 1
        OBVIOUS
    <3>1. CASE request[r].does = "analysis"
      <4>1. lock = {r} /\ findings = 0
          BY <1>1, <2>1, <3>1 DEF FirstHoldsLock, Files
      <4> QED BY <2>1, <2>2, <2>5, <3>1, <4>1
    <3>2. CASE request[r].does # "analysis"
      <4>1. findings' = findings /\ findings <= 1
          BY <1>1, <2>1, <3>2 DEF DataKey!MintKeepsLock
      <4> QED BY <2>1, <2>2, <2>5, <4>1
    <3> QED BY <3>1, <3>2
  <2>10. /\ sealed' \subseteq [key : DataKey!Keys, calm : BOOLEAN]
         /\ \A v \in sealed' : v.calm => v \in sealed \/ (DataKey!Calm /\ v.key = key)
      BY <1>1, <2>1, <2>3
  <2>11. DataKey!Calm => DataKey!Calm' /\ key' = key
      BY <2>1, <2>5
  <2> QED BY <2>1, <2>5, <2>6, <2>7, <2>8, <2>9, <2>10, <2>11, KeysStep
<1>15. CASE UNCHANGED DataKey!keyVars
    BY <1>15 DEF DataKey!keyVars, KeysInv, DataKey!TypeOK, Served, Over, SeesOrLacks, Prepared,
                 SeenBy, UnderWay, FirstHoldsLock, Files, DataKey!MintKeepsLock, DataKey!Calm
<1> QED BY <1>5, <1>6, <1>8, <1>10, <1>11, <1>12, <1>13, <1>14, <1>15 DEF DataKey!Next

\* There is no key, and nothing is sealed, in the initial state.
LEMMA KeysInit == DataKey!Init => KeysInv
<1> SUFFICES ASSUME DataKey!Init PROVE KeysInv
    OBVIOUS
<1>1. /\ keeps \subseteq {"content", "excerpts"} /\ key = 0 /\ minted = 0
      /\ request = [r \in KeyUses |-> DataKey!Fresh]
      /\ lock = {} /\ findings = 0 /\ sealed = {}
    BY DEF DataKey!Init, DataKey!NoKey
<1>2. DataKey!Fresh \in KeyRequests /\ DataKey!Fresh.at = "new" /\ ~DataKey!Fresh.calm
      /\ ~DataKey!Fresh.fresh
    BY DEF DataKey!Fresh, KeyRequests
<1>3. Served \in SUBSET KeyUses /\ Over \in SUBSET KeyUses
    BY DEF Served, Over
<1>4. minted <= Cardinality(Served) /\ findings <= Cardinality(Over)
  <2>1. Cardinality(Served) \in Nat /\ Cardinality(Over) \in Nat
      BY <1>3, KeyCounts
  <2> QED BY <1>1, <2>1
<1>5. DataKey!TypeOK
  <2>1. DataKey!Cardinality(KeyUses) \in Nat /\ DataKey!Cardinality({}) = 0
      BY KeyCounts, FS_EmptySet
  <2> QED BY <1>1, <1>2, <2>1 DEF DataKey!TypeOK, KeyRequests
<1>6. \A r \in KeyUses : SeesOrLacks(request[r]) /\ Prepared(request[r]) /\ ~Files(request[r])
    BY <1>1, <1>2 DEF SeesOrLacks, Prepared, Files, UnderWay
<1> QED BY <1>1, <1>4, <1>5, <1>6 DEF KeysInv, FirstHoldsLock, DataKey!MintKeepsLock

\* What the invariant says of what was sealed and of the lock.
LEMMA KeysAre == KeysInv => DataKey!SealedOpens /\ DataKey!MintKeepsLock
BY DEF KeysInv, DataKey!SealedOpens

-----------------------------------------------------------------------------
(* Stripe's events: what was answered, and what a handler in flight knows. *)

Statuses == {"active", "unpaid", "deleted"}
Tiers == {"free", "team", "enterprise"}

\* An event, and a handler of one, with numbers that nothing bounds.
Notices == [kind : Statuses \cup {"checkout"}, sub : Plans!Subs, number : Nat \ {0}]
Handling == [at : {"idle", "loaded", "asked", "downgraded"}, event : Notices \cup {Plans!NoEvent},
             plan : Tiers, current : Plans!Subs \cup {Plans!NoSub}, kept : BOOLEAN]

BillTypes ==
    /\ status \in [Plans!Subs -> Statuses \cup {"none"}] /\ number \in [Plans!Subs -> Nat]
    /\ sent \subseteq Notices /\ handled \subseteq sent
    /\ plan \in Tiers /\ current \in Plans!Subs \cup {Plans!NoSub}
    /\ webhook \in [Webhooks -> Handling]
    /\ enterprise \in BOOLEAN
    /\ obeyedLate \in BOOLEAN /\ met \in BOOLEAN /\ unaudited \in BOOLEAN

\* The event says that its subscription is over, or is not paid for.
Dead(e) == e.kind \in {"unpaid", "deleted"}

(***************************************************************************)
(* The events of a subscription are numbered as they were made, one for    *)
(* each number, and the newest one says what the subscription is.          *)
(***************************************************************************)
NoticesInv ==
    /\ \A e \in sent : e.number <= number[e.sub] /\ (e.kind = "checkout" <=> e.number = 1)
    /\ \A e \in sent : e.number = number[e.sub] => (Dead(e) <=> status[e.sub] # "active")
    /\ \A e \in sent : \A f \in sent : e.sub = f.sub /\ e.number = f.number => e = f
    /\ \A s \in Plans!Subs :
          /\ status[s] = "none" <=> number[s] = 0
          /\ number[s] # 0 => \E e \in sent : e.sub = s /\ e.number = number[s]

\* What a handler is doing fits its event.
Fits(c) ==
    /\ c.at # "idle" => c.event \in sent
    /\ c.at = "asked" => c.event.kind = "checkout"
    /\ c.at = "downgraded" => Dead(c.event)

(***************************************************************************)
(* What a handler read and was told still holds: the other subscription is *)
(* not live when Stripe said so, and a downgrade left the plan and was of  *)
(* the newest answered event.                                              *)
(***************************************************************************)
StillHolds(c) ==
    /\ c.current # Plans!NoSub => number[c.current] # 0
    /\ c.at = "asked" /\ c.current \notin {Plans!NoSub, c.event.sub} =>
          c.kept \/ ~Plans!Live(c.current)
    /\ c.at = "asked" /\ c.kept => c.current \notin {Plans!NoSub, c.event.sub}
    /\ c.at = "downgraded" => /\ c.plan # "team" /\ c.current = c.event.sub
                              /\ ~Plans!Outdated(c.event)

(***************************************************************************)
(* The row follows what was answered: no end of the current subscription   *)
(* is the newest event of it that was, and one that turned out live is the *)
(* current one or was set aside.                                           *)
(***************************************************************************)
RowFollows ==
    /\ plan = "enterprise" <=> enterprise
    /\ plan = "team" => current # Plans!NoSub
    /\ current # Plans!NoSub => number[current] # 0
    /\ \A e \in handled : Dead(e) /\ e.sub = current => Plans!Outdated(e)
    /\ \A e \in handled : ~Dead(e) /\ e.number = number[e.sub] => e.sub = current \/ e.sub \in aside

\* What the property excuses has happened.
Excused == obeyedLate \/ met \/ unaudited

BillInv ==
    /\ BillTypes
    /\ NoticesInv
    /\ \A h \in Webhooks : Fits(webhook[h])
    /\ ~Excused => RowFollows /\ \A h \in Webhooks : StillHolds(webhook[h])

\* Nothing has been bought in the initial state.
LEMMA BillInit == Plans!Init => BillInv
<1> SUFFICES ASSUME Plans!Init PROVE BillInv
    OBVIOUS
<1>1. /\ status = [s \in Plans!Subs |-> "none"] /\ number = [s \in Plans!Subs |-> 0]
      /\ sent = {} /\ handled = {} /\ plan = "free" /\ current = Plans!NoSub
      /\ webhook = [h \in Webhooks |-> Plans!Idle]
      /\ enterprise = FALSE /\ obeyedLate = FALSE /\ met = FALSE /\ unaudited = FALSE
    BY DEF Plans!Init
<1>2. /\ Plans!Idle \in Handling /\ Plans!Idle.at = "idle" /\ Plans!Idle.plan = "free"
      /\ Plans!Idle.current = Plans!NoSub
    BY DEF Plans!Idle, Handling, Tiers
<1>3. BillTypes
    BY <1>1, <1>2 DEF BillTypes, Tiers
<1>4. NoticesInv
    BY <1>1 DEF NoticesInv
<1>5. \A h \in Webhooks : Fits(webhook[h]) /\ StillHolds(webhook[h])
    BY <1>1, <1>2 DEF Fits, StillHolds
<1>6. RowFollows
    BY <1>1 DEF RowFollows
<1> QED BY <1>3, <1>4, <1>5, <1>6 DEF BillInv

(***************************************************************************)
(* Stripe makes an event of s, the next one of it: what the handlers know  *)
(* still holds, unless s is paid again after one was told it is not.       *)
(***************************************************************************)
LEMMA Makes ==
    ASSUME BillInv, NEW s \in Plans!Subs, NEW e \in Notices,
           NEW to \in Statuses,
           status' = [status EXCEPT ![s] = to], number' = [number EXCEPT ![s] = e.number],
           e.sub = s, e.number = number[s] + 1, e.kind = "checkout" <=> e.number = 1,
           Dead(e) <=> to # "active", sent' = sent \cup {e},
           UNCHANGED <<handled, plan, current, webhook, enterprise, aside, obeyedLate, unaudited>>,
           met' \in BOOLEAN, met => met',
           met' \/ to # "active" \/ number[s] = 0 \/ ~Plans!Answered(s)
    PROVE  BillInv'
<1>1. /\ BillTypes /\ NoticesInv
      /\ \A h \in Webhooks : Fits(webhook[h])
      /\ ~Excused => RowFollows /\ \A h \in Webhooks : StillHolds(webhook[h])
    BY DEF BillInv
<1>2. /\ number \in [Plans!Subs -> Nat] /\ sent \subseteq Notices /\ handled \subseteq sent
      /\ number' \in [Plans!Subs -> Nat] /\ number'[s] = number[s] + 1
      /\ \A k \in Plans!Subs \ {s} : number'[k] = number[k] /\ status'[k] = status[k]
      /\ status'[s] = to /\ status' \in [Plans!Subs -> Statuses \cup {"none"}]
    BY <1>1 DEF BillTypes, Notices
<1>3. BillTypes'
    BY <1>1, <1>2 DEF BillTypes
<1>4. \A f \in sent : f.sub \in Plans!Subs /\ f.number \in Nat \ {0} /\ f.number <= number[f.sub]
                      /\ number[f.sub] \in Nat
    BY <1>1, <1>2 DEF NoticesInv, Notices
<1>5. NoticesInv'
  <2>1. \A f \in sent' : f.number <= number'[f.sub] /\ (f.kind = "checkout" <=> f.number = 1)
      BY <1>1, <1>2, <1>4 DEF NoticesInv
  <2>2. \A f \in sent' : f.number = number'[f.sub] => (Dead(f) <=> status'[f.sub] # "active")
      BY <1>1, <1>2, <1>4 DEF NoticesInv, Dead
  <2>3. \A f \in sent' : \A g \in sent' : f.sub = g.sub /\ f.number = g.number => f = g
      BY <1>1, <1>2, <1>4 DEF NoticesInv
  <2>4. ASSUME NEW k \in Plans!Subs
        PROVE  /\ status'[k] = "none" <=> number'[k] = 0
               /\ number'[k] # 0 => \E f \in sent' : f.sub = k /\ f.number = number'[k]
    <3>1. CASE k = s
        BY <1>2, <3>1 DEF Statuses
    <3>2. CASE k # s
        BY <1>1, <1>2, <3>2 DEF NoticesInv
    <3> QED BY <3>1, <3>2
  <2> QED BY <2>1, <2>2, <2>3, <2>4 DEF NoticesInv, Dead
<1>6. \A h \in Webhooks : Fits(webhook[h])'
    BY <1>1 DEF Fits, Dead
<1>7. ASSUME ~Excused' PROVE RowFollows' /\ \A h \in Webhooks : StillHolds(webhook[h])'
  <2>1. /\ ~Excused /\ ~met' /\ RowFollows /\ \A h \in Webhooks : StillHolds(webhook[h])
      BY <1>1, <1>7 DEF Excused
  <2>2. current # Plans!NoSub => number'[current] # 0
      BY <1>1, <1>2, <2>1 DEF RowFollows, BillTypes
  <2>3. \A f \in handled : f.number = number'[f.sub] => f.number = number[f.sub]
      BY <1>2, <1>4
  <2>4. RowFollows'
      BY <2>1, <2>2, <2>3 DEF RowFollows, Dead, Plans!Outdated
  <2>5. ASSUME NEW h \in Webhooks PROVE StillHolds(webhook[h])'
    <3> DEFINE c == webhook[h]
    <3>1. StillHolds(c) /\ c \in Handling
        BY <1>1, <2>1 DEF BillTypes
    <3>2. c.current # Plans!NoSub => c.current \in Plans!Subs /\ number'[c.current] # 0
        BY <1>2, <3>1 DEF StillHolds, Handling
    <3>3. ASSUME c.at = "asked", c.current \notin {Plans!NoSub, c.event.sub}
          PROVE  c.kept \/ ~Plans!Live(c.current)'
      <4>1. c.kept \/ ~Plans!Live(c.current)
          BY <3>1, <3>3 DEF StillHolds
      <4>2. CASE c.current = s /\ ~c.kept /\ to = "active"
        <5>1. Plans!Answered(s) /\ number[s] # 0
            BY <3>1, <3>3, <4>2 DEF Plans!Answered, StillHolds
        <5> QED BY <2>1, <4>2, <5>1
      <4>3. CASE c.current = s /\ to # "active"
          BY <1>2, <4>3 DEF Plans!Live
      <4>4. CASE c.current # s
          BY <1>2, <3>2, <3>3, <4>1, <4>4 DEF Plans!Live
      <4> QED BY <4>2, <4>3, <4>4
    <3> QED BY <3>1, <3>2, <3>3 DEF StillHolds, Plans!Outdated
  <2> QED BY <2>4, <2>5
<1> QED BY <1>3, <1>5, <1>6, <1>7 DEF BillInv

(***************************************************************************)
(* A handler moves on: what the others know still holds, for one of the    *)
(* same subscription would have been met.                                  *)
(***************************************************************************)
LEMMA MovesOn ==
    ASSUME BillInv, NEW h \in Webhooks, NEW q \in Handling,
           webhook' = [webhook EXCEPT ![h] = q], UNCHANGED <<status, number, sent>>,
           \/ handled' = handled
           \/ /\ handled' = handled \cup {webhook[h].event} /\ webhook[h].at # "idle"
              /\ met' = (met \/ Plans!Meets(h)),
           plan' \in Tiers, current' \in Plans!Subs \cup {Plans!NoSub}, enterprise' = enterprise,
           obeyedLate' \in BOOLEAN, met' \in BOOLEAN, unaudited' \in BOOLEAN,
           obeyedLate => obeyedLate', met => met', unaudited => unaudited',
           Fits(q), ~Excused' => RowFollows' /\ StillHolds(q)'
    PROVE  BillInv'
<1>1. /\ BillTypes /\ NoticesInv
      /\ \A g \in Webhooks : Fits(webhook[g])
      /\ ~Excused => RowFollows /\ \A g \in Webhooks : StillHolds(webhook[g])
    BY DEF BillInv
<1>2. /\ webhook \in [Webhooks -> Handling] /\ webhook' \in [Webhooks -> Handling]
      /\ webhook'[h] = q /\ \A g \in Webhooks \ {h} : webhook'[g] = webhook[g]
    BY <1>1 DEF BillTypes
<1>3. webhook[h].at # "idle" => webhook[h].event \in sent
    BY <1>1 DEF Fits
<1>4. BillTypes'
    BY <1>1, <1>2, <1>3 DEF BillTypes
<1>5. NoticesInv'
    BY <1>1 DEF NoticesInv, Dead
<1>6. \A g \in Webhooks : Fits(webhook[g])'
    BY <1>1, <1>2 DEF Fits, Dead
<1>7. ASSUME ~Excused' PROVE \A g \in Webhooks : StillHolds(webhook[g])'
  <2>1. ~Excused /\ ~met' /\ \A g \in Webhooks : StillHolds(webhook[g])
      BY <1>1, <1>7 DEF Excused
  <2>2. ASSUME NEW g \in Webhooks \ {h} PROVE StillHolds(webhook[g])'
    <3>1. StillHolds(webhook[g])
        BY <2>1
    <3>2. webhook[g].at = "downgraded" => ~Plans!Outdated(webhook[g].event)'
      <4>1. CASE handled' = handled
          BY <3>1, <4>1 DEF StillHolds, Plans!Outdated
      <4>2. CASE handled' = handled \cup {webhook[h].event} /\ ~Plans!Meets(h)
        <5>1. webhook[g].event.sub # webhook[h].event.sub
            BY <4>2 DEF Plans!Meets
        <5> QED BY <3>1, <4>2, <5>1 DEF StillHolds, Plans!Outdated
      <4> QED BY <2>1, <4>1, <4>2
    <3> QED BY <1>2, <3>1, <3>2 DEF StillHolds, Plans!Live
  <2>3. StillHolds(q)'
      BY <1>7
  <2>4. StillHolds(webhook[h])'
      BY <1>2, <2>3 DEF StillHolds, Plans!Live, Plans!Outdated
  <2> QED BY <2>2, <2>4
<1> QED BY <1>4, <1>5, <1>6, <1>7 DEF BillInv

\* The record with these fields.
Order(a, e, p, c, k) == [at |-> a, event |-> e, plan |-> p, current |-> c, kept |-> k]

\* What the invariant says of a handler and its event.
LEMMA HandlersAre ==
    ASSUME BillInv, NEW h \in Webhooks
    PROVE  /\ webhook[h] \in Handling /\ webhook \in [Webhooks -> Handling] /\ Fits(webhook[h])
           /\ webhook[h] = Order(webhook[h].at, webhook[h].event, webhook[h].plan,
                                 webhook[h].current, webhook[h].kept)
           /\ webhook[h].at # "idle" =>
                /\ webhook[h].event \in sent /\ webhook[h].event \in Notices
                /\ webhook[h].event.sub # Plans!NoSub
           /\ plan \in Tiers /\ current \in Plans!Subs \cup {Plans!NoSub}
           /\ {obeyedLate, met, unaudited, enterprise} \subseteq BOOLEAN
           /\ Plans!Idle \in Handling /\ Plans!Idle.at = "idle" /\ Plans!Idle.plan = "free"
           /\ Plans!Idle.current = Plans!NoSub
<1>1. BillTypes /\ Fits(webhook[h])
    BY DEF BillInv
<1>2. webhook[h] \in Handling /\ webhook \in [Webhooks -> Handling] /\ sent \subseteq Notices
    BY <1>1 DEF BillTypes
<1>3. webhook[h] = Order(webhook[h].at, webhook[h].event, webhook[h].plan,
                         webhook[h].current, webhook[h].kept)
    BY <1>2 DEF Handling, Order
<1>4. webhook[h].at # "idle" =>
          /\ webhook[h].event \in sent /\ webhook[h].event \in Notices
          /\ webhook[h].event.sub # Plans!NoSub
    BY <1>1, <1>2 DEF Fits, Notices, Plans!NoSub, Plans!Subs
<1>5. /\ Plans!Idle \in Handling /\ Plans!Idle.at = "idle" /\ Plans!Idle.plan = "free"
      /\ Plans!Idle.current = Plans!NoSub
    BY DEF Plans!Idle, Handling, Tiers
<1> QED BY <1>1, <1>2, <1>3, <1>4, <1>5 DEF BillTypes

\* An idle handler knows nothing that could cease to hold.
LEMMA IdleHolds == Fits(Plans!Idle) /\ StillHolds(Plans!Idle)'
BY DEF Fits, StillHolds, Plans!Idle

\* A handler that loads the row, or asks Stripe.
LEMMA LoadKept ==
    ASSUME BillInv, NEW h \in Webhooks, NEW e \in sent, Plans!Load(h, e) PROVE BillInv'
<1>1. /\ webhook' = [webhook EXCEPT ![h] = Order("loaded", e, plan, current, FALSE)]
      /\ UNCHANGED <<status, number, sent, handled, plan, current, enterprise, aside,
                     obeyedLate, met, unaudited>>
    BY DEF Plans!Load, Plans!stripeVars, Plans!historyVars, Order
<1>2. /\ BillTypes
      /\ ~Excused => RowFollows
    BY DEF BillInv
<1>3. Order("loaded", e, plan, current, FALSE) \in Handling
    BY <1>2 DEF BillTypes, Handling, Order
<1>4. PICK q \in Handling : q = Order("loaded", e, plan, current, FALSE)
    BY <1>3
<1>5. q.at = "loaded" /\ q.event = e /\ q.plan = plan /\ q.current = current
    BY <1>4 DEF Order
<1>6. Excused => Excused'
    BY <1>1 DEF Excused
<1>7. ~Excused' => RowFollows'
    BY <1>1, <1>2, <1>6 DEF RowFollows, Dead, Plans!Outdated
<1>8. ~Excused' => StillHolds(q)'
    BY <1>1, <1>2, <1>5, <1>6 DEF StillHolds, RowFollows
<1>9. Fits(q)
    BY <1>5 DEF Fits
<1> QED BY <1>1, <1>2, <1>4, <1>7, <1>8, <1>9, MovesOn DEF BillTypes

\* A checkout that asks whether the current subscription is live.
LEMMA AskKept == ASSUME BillInv, NEW h \in Webhooks, Plans!AskStripe(h) PROVE BillInv'
<1> DEFINE k == webhook[h].current \notin {Plans!NoSub, webhook[h].event.sub}
                /\ Plans!Live(webhook[h].current)
<1>1. /\ webhook[h].at = "loaded" /\ webhook[h].event.kind = "checkout"
      /\ webhook' = [webhook EXCEPT ![h].at = "asked", ![h].kept = k]
      /\ UNCHANGED <<status, number, sent, handled, plan, current, enterprise, aside,
                     obeyedLate, met, unaudited>>
    BY DEF Plans!AskStripe, Plans!stripeVars, Plans!historyVars
<1>2. PICK b \in BOOLEAN : b <=> k
    OBVIOUS
<1>3. b = k
    BY <1>2
<1>4. webhook' = [webhook EXCEPT ![h].at = "asked", ![h].kept = b]
    BY <1>1, <1>3
<1> HIDE DEF k
<1>5. PICK c \in Handling : c = webhook[h]
    BY HandlersAre
<1>6. [[c EXCEPT !.at = "asked"] EXCEPT !.kept = b]
        = Order("asked", c.event, c.plan, c.current, b)
  <2>1. [c EXCEPT !.at = "asked"] = Order("asked", c.event, c.plan, c.current, c.kept)
      BY <1>5 DEF Handling, Order
  <2>2. [Order("asked", c.event, c.plan, c.current, c.kept) EXCEPT !.kept = b]
          = Order("asked", c.event, c.plan, c.current, b)
      BY <1>2 DEF Order
  <2> QED BY <2>1, <2>2
<1>7. PICK q \in Handling : q = Order("asked", c.event, c.plan, c.current, b)
    BY <1>5 DEF Handling, Order
<1>8. webhook' = [webhook EXCEPT ![h] = q]
  <2>1. webhook \in [Webhooks -> Handling]
      BY HandlersAre
  <2>2. webhook' = [webhook EXCEPT ![h] = [[webhook[h] EXCEPT !.at = "asked"] EXCEPT !.kept = b]]
      BY <1>4, <2>1
  <2> QED BY <1>5, <1>6, <1>7, <2>2
<1>9. /\ q.at = "asked" /\ q.event = c.event /\ q.plan = c.plan /\ q.current = c.current
      /\ q.kept = b
    BY <1>7 DEF Order
<1>10. /\ BillTypes
       /\ ~Excused => RowFollows /\ StillHolds(c)
    BY <1>5 DEF BillInv
<1>11. Excused => Excused'
    BY <1>1 DEF Excused
<1>12. ~Excused' => RowFollows'
    BY <1>1, <1>10, <1>11 DEF RowFollows, Dead, Plans!Outdated
<1>13. ~Excused' => StillHolds(q)'
    BY <1>1, <1>2, <1>5, <1>9, <1>10, <1>11 DEF StillHolds, Plans!Live, k
<1>14. Fits(q)
    BY <1>1, <1>5, <1>9, HandlersAre DEF Fits
<1> QED BY <1>1, <1>8, <1>10, <1>12, <1>13, <1>14, MovesOn DEF BillTypes

\* A handler that fails is idle again, and answered nothing.
LEMMA FailKept == ASSUME BillInv, NEW h \in Webhooks, Plans!Fail(h) PROVE BillInv'
<1>1. /\ webhook' = [webhook EXCEPT ![h] = Plans!Idle]
      /\ UNCHANGED <<status, number, sent, handled, plan, current, enterprise, aside,
                     obeyedLate, met, unaudited>>
    BY DEF Plans!Fail, Plans!stripeVars, Plans!historyVars
<1>2. /\ BillTypes
      /\ ~Excused => RowFollows
    BY DEF BillInv
<1>3. Excused => Excused'
    BY <1>1 DEF Excused
<1>4. ~Excused' => RowFollows'
    BY <1>1, <1>2, <1>3 DEF RowFollows, Dead, Plans!Outdated
<1> QED BY <1>1, <1>2, <1>4, HandlersAre, IdleHolds, MovesOn DEF BillTypes

(***************************************************************************)
(* An event that is the newest answered one of its subscription is newer   *)
(* than an ended one, and no other one has its number.                     *)
(***************************************************************************)
LEMMA NewestIs ==
    ASSUME BillInv, NEW e \in sent, ~Plans!Outdated(e), NEW f \in handled, f.sub = e.sub, f # e
    PROVE  f.number < e.number
<1>1. /\ NoticesInv /\ f \in sent /\ f \in Notices /\ e \in Notices
    BY DEF BillInv, BillTypes
<1>2. f.number # e.number /\ ~(f.number > e.number)
    BY <1>1 DEF NoticesInv, Plans!Outdated
<1> QED BY <1>1, <1>2 DEF Notices

\* An event that makes its subscription the current one.
LEMMA AdoptKept == ASSUME BillInv, NEW h \in Webhooks, Plans!Adopt(h) PROVE BillInv'
<1>1. PICK c \in Handling : c = webhook[h]
    BY HandlersAre
<1> DEFINE e == c.event
<1>2. /\ Plans!Adopts(h)
      /\ plan' = Plans!Written(plan, c.plan, Plans!Paid(c.plan))
      /\ current' = Plans!Written(current, c.current, e.sub)
      /\ obeyedLate' = (obeyedLate \/ Plans!Outdated(e))
      /\ met' = (met \/ Plans!Meets(h))
      /\ handled' = handled \cup {e}
      /\ webhook' = [webhook EXCEPT ![h] = Plans!Idle]
      /\ UNCHANGED <<status, number, sent, enterprise, aside, unaudited>>
    BY <1>1 DEF Plans!Adopt, Plans!stripeVars
<1>3. /\ \/ c.at = "asked" /\ ~c.kept
         \/ c.at = "loaded" /\ e.kind = "active" /\ c.current \in {Plans!NoSub, e.sub}
      /\ c.at # "idle"
    BY <1>1, <1>2 DEF Plans!Adopts
<1>4. /\ e \in sent /\ e \in Notices /\ e.sub # Plans!NoSub /\ ~Dead(e) /\ Fits(c)
      /\ plan \in Tiers /\ current \in Plans!Subs \cup {Plans!NoSub}
      /\ {obeyedLate, met, unaudited} \subseteq BOOLEAN
    BY <1>1, <1>3, HandlersAre DEF Fits, Dead
<1>5. plan' \in Tiers /\ current' \in Plans!Subs \cup {Plans!NoSub}
    BY <1>2, <1>4 DEF Plans!Written, Plans!Paid, Tiers, Notices
<1>6. ASSUME ~Excused' PROVE RowFollows'
  <2>1. ~Excused /\ ~Plans!Outdated(e) /\ ~Plans!Meets(h)
      BY <1>2, <1>4, <1>6 DEF Excused
  <2>2. RowFollows /\ StillHolds(c) /\ NoticesInv /\ BillTypes
      BY <1>1, <2>1 DEF BillInv
  <2>3. plan = c.plan /\ current = c.current
      BY <1>1, <2>1 DEF Plans!Meets
  <2>4. current' = e.sub /\ plan' = Plans!Paid(plan)
      BY <1>2, <2>3 DEF Plans!Written
  <2>5. (plan' = "enterprise" <=> enterprise') /\ (plan' = "team" => current' # Plans!NoSub)
      BY <1>2, <1>4, <2>2, <2>4 DEF RowFollows, Plans!Paid
  <2>6. number'[current'] # 0
    <3>1. e.number <= number[e.sub] /\ e.number \in Nat \ {0} /\ number[e.sub] \in Nat
        BY <1>4, <2>2 DEF NoticesInv, Notices, BillTypes
    <3> QED BY <1>2, <2>4, <3>1
  <2>7. ASSUME NEW f \in handled', Dead(f), f.sub = current' PROVE Plans!Outdated(f)'
    <3>1. f \in handled /\ f # e /\ f.sub = e.sub
        BY <1>2, <1>4, <2>4, <2>7
    <3>2. f.number < e.number /\ e \in handled'
        BY <1>2, <1>4, <2>1, <3>1, NewestIs
    <3>3. e.number > f.number
        BY <3>2
    <3> QED BY <3>1, <3>2, <3>3 DEF Plans!Outdated
  <2>8. ASSUME NEW f \in handled', ~Dead(f), f.number = number[f.sub], f.sub # e.sub
        PROVE  f.sub \in aside
    <3>1. f \in handled /\ f \in sent
        BY <1>2, <2>2, <2>8 DEF BillTypes
    <3>2. f.sub = current \/ f.sub \in aside
        BY <2>2, <2>8, <3>1 DEF RowFollows
    <3>3. ASSUME f.sub = current PROVE FALSE
      <4>1. f.sub \in Plans!Subs /\ f.sub # Plans!NoSub
          BY <2>2, <3>1 DEF BillTypes, Notices, Plans!Subs, Plans!NoSub
      <4>2. c.at = "asked" /\ ~c.kept /\ c.current \notin {Plans!NoSub, e.sub}
          BY <1>3, <2>3, <2>8, <3>3, <4>1
      <4>3. ~Plans!Live(f.sub)
          BY <2>2, <2>3, <3>3, <4>2 DEF StillHolds
      <4>4. status[f.sub] = "active"
          BY <2>2, <2>8, <3>1 DEF NoticesInv
      <4> QED BY <4>3, <4>4 DEF Plans!Live
    <3> QED BY <3>2, <3>3
  <2> QED BY <1>2, <2>4, <2>5, <2>6, <2>7, <2>8 DEF RowFollows, Dead
<1> QED BY <1>1, <1>2, <1>3, <1>4, <1>5, <1>6, HandlersAre, IdleHolds, MovesOn

\* An adoption that its audit entry takes back is excused.
LEMMA AdoptUnauditedKept ==
    ASSUME BillInv, NEW h \in Webhooks, Plans!AdoptUnaudited(h) PROVE BillInv'
<1>1. PICK c \in Handling : c = webhook[h]
    BY HandlersAre
<1> DEFINE e == c.event
<1>2. /\ c.at = "loaded" /\ unaudited' = TRUE
      /\ met' = (met \/ Plans!Meets(h))
      /\ handled' = handled \cup {e}
      /\ webhook' = [webhook EXCEPT ![h] = Plans!Idle]
      /\ UNCHANGED <<status, number, sent, plan, current, enterprise, aside, obeyedLate>>
    BY <1>1 DEF Plans!AdoptUnaudited, Plans!stripeVars
<1>3. /\ e \in sent /\ e \in Notices /\ e.sub # Plans!NoSub /\ Fits(c)
      /\ plan \in Tiers /\ current \in Plans!Subs \cup {Plans!NoSub}
      /\ {obeyedLate, met, unaudited, unaudited'} \subseteq BOOLEAN
    BY <1>1, <1>2, HandlersAre
<1>4. Excused'
    BY <1>2 DEF Excused
<1> QED BY <1>1, <1>2, <1>3, <1>4, HandlersAre, IdleHolds, MovesOn

\* An event of another subscription than the current one, or a second live one.
LEMMA IgnoreKept == ASSUME BillInv, NEW h \in Webhooks, Plans!Ignore(h) PROVE BillInv'
<1>1. PICK c \in Handling : c = webhook[h]
    BY HandlersAre
<1> DEFINE e == c.event
<1>2. /\ c.at = "asked" \/ (c.at = "loaded" /\ e.kind # "checkout")
      /\ ~Plans!Adopts(h) /\ ~Plans!Ends(h)
      /\ aside' = aside \cup
             {s \in {e.sub} : c.at = "asked" \/ (e.kind = "active" /\ e.number > 1)}
      /\ met' = (met \/ Plans!Meets(h))
      /\ handled' = handled \cup {e}
      /\ webhook' = [webhook EXCEPT ![h] = Plans!Idle]
      /\ UNCHANGED <<status, number, sent, plan, current, enterprise, obeyedLate, unaudited>>
    BY <1>1 DEF Plans!Ignore, Plans!stripeVars
<1>3. /\ e \in sent /\ e \in Notices /\ e.sub # Plans!NoSub /\ Fits(c) /\ c.at # "idle"
      /\ plan \in Tiers /\ current \in Plans!Subs \cup {Plans!NoSub}
      /\ {obeyedLate, met, unaudited} \subseteq BOOLEAN
    BY <1>1, <1>2, HandlersAre
<1>4. ASSUME ~Excused' PROVE RowFollows'
  <2>1. ~Excused /\ ~Plans!Meets(h)
      BY <1>2, <1>3, <1>4 DEF Excused
  <2>2. RowFollows /\ StillHolds(c) /\ NoticesInv /\ BillTypes
      BY <1>1, <2>1 DEF BillInv
  <2>3. current = c.current
      BY <1>1, <2>1 DEF Plans!Meets
  <2>4. Dead(e) => c.at = "loaded" /\ current # e.sub
      BY <1>1, <1>2, <1>3, <2>3 DEF Plans!Ends, Dead, Fits
  <2>5. ~Dead(e) => e.sub \in aside'
    <3>1. c.at = "loaded" => e.kind # "checkout" /\ (e.kind = "active" \/ Dead(e))
        BY <1>2, <1>3 DEF Notices, Statuses, Dead
    <3>2. e.kind # "checkout" => e.number > 1
      <4>1. e.number \in Nat \ {0} /\ (e.kind = "checkout" <=> e.number = 1)
          BY <1>3, <2>2 DEF NoticesInv, Notices
      <4> QED BY <4>1
    <3> QED BY <1>2, <3>1, <3>2
  <2>6. \A f \in handled' : Dead(f) /\ f.sub = current' => Plans!Outdated(f)'
      BY <1>2, <2>2, <2>4 DEF RowFollows, Plans!Outdated
  <2>7. \A f \in handled' : ~Dead(f) /\ f.number = number'[f.sub] =>
                                f.sub = current' \/ f.sub \in aside'
      BY <1>2, <2>2, <2>5 DEF RowFollows
  <2> QED BY <1>2, <2>2, <2>6, <2>7 DEF RowFollows, Dead
<1> QED BY <1>1, <1>2, <1>3, <1>4, HandlersAre, IdleHolds, MovesOn

\* An event that ends the current subscription takes the plan it paid for.
LEMMA DowngradeKept ==
    ASSUME BillInv, NEW h \in Webhooks, NEW ok \in BOOLEAN, Plans!Downgrade(h, ok) PROVE BillInv'
<1>1. PICK c \in Handling : c = webhook[h]
    BY HandlersAre
<1> DEFINE e == c.event
<1>2. /\ Plans!Ends(h)
      /\ plan' = IF ok /\ c.plan = "team" THEN "free" ELSE plan
      /\ obeyedLate' = (obeyedLate \/ Plans!Outdated(e))
      /\ met' = (met \/ Plans!Meets(h))
      /\ unaudited' = (unaudited \/ ~ok)
      /\ webhook' = [webhook EXCEPT ![h].at = "downgraded", ![h].plan = plan',
                                    ![h].current = current]
      /\ UNCHANGED <<status, number, sent, handled, current, enterprise, aside>>
    BY <1>1 DEF Plans!Downgrade, Plans!stripeVars
<1>3. c.at = "loaded" /\ Dead(e) /\ c.current = e.sub
    BY <1>1, <1>2 DEF Plans!Ends, Dead
<1>4. /\ e \in sent /\ e \in Notices /\ e.sub # Plans!NoSub
      /\ plan \in Tiers /\ current \in Plans!Subs \cup {Plans!NoSub}
      /\ {obeyedLate, met, unaudited} \subseteq BOOLEAN
    BY <1>1, <1>3, HandlersAre
<1>5. plan' \in Tiers
    BY <1>2, <1>4 DEF Tiers
<1>6. PICK p \in Tiers : p = plan'
    BY <1>5
<1>7. PICK s \in Plans!Subs \cup {Plans!NoSub} : s = current
    BY <1>4
<1>8. PICK q \in Handling : q = Order("downgraded", e, p, s, c.kept)
    BY <1>1 DEF Handling, Order
<1>9. webhook' = [webhook EXCEPT ![h] = q]
  <2>1. webhook \in [Webhooks -> Handling]
      BY HandlersAre
  <2>2. webhook' = [webhook EXCEPT ![h] =
            [[[webhook[h] EXCEPT !.at = "downgraded"] EXCEPT !.plan = p] EXCEPT !.current = s]]
      BY <1>2, <1>6, <1>7, <2>1
  <2>3. [c EXCEPT !.at = "downgraded"] = Order("downgraded", e, c.plan, c.current, c.kept)
      BY <1>1 DEF Handling, Order
  <2>4. [Order("downgraded", e, c.plan, c.current, c.kept) EXCEPT !.plan = p]
          = Order("downgraded", e, p, c.current, c.kept)
      BY DEF Order
  <2>5. [Order("downgraded", e, p, c.current, c.kept) EXCEPT !.current = s]
          = Order("downgraded", e, p, s, c.kept)
      BY DEF Order
  <2>6. [[[c EXCEPT !.at = "downgraded"] EXCEPT !.plan = p] EXCEPT !.current = s] = q
      BY <1>8, <2>3, <2>4, <2>5
  <2> QED BY <1>1, <2>2, <2>6
<1>10. q.at = "downgraded" /\ q.event = e /\ q.plan = p /\ q.current = s /\ q.kept = c.kept
    BY <1>8 DEF Order
<1>11. Fits(q)
    BY <1>3, <1>4, <1>10 DEF Fits
<1>12. ASSUME ~Excused' PROVE RowFollows' /\ StillHolds(q)'
  <2>1. ~Excused /\ ~Plans!Outdated(e) /\ ~Plans!Meets(h) /\ ok
      BY <1>2, <1>4, <1>12 DEF Excused
  <2>2. RowFollows /\ StillHolds(c)
      BY <1>1, <2>1 DEF BillInv
  <2>3. plan = c.plan /\ current = c.current
      BY <1>1, <2>1 DEF Plans!Meets
  <2>4. plan' = (IF plan = "team" THEN "free" ELSE plan)
      BY <1>2, <2>1, <2>3
  <2>5. RowFollows'
      BY <1>2, <2>2, <2>4 DEF RowFollows, Dead, Plans!Outdated
  <2>6. p # "team" /\ s = e.sub
      BY <1>3, <1>6, <1>7, <2>3, <2>4
  <2>7. number'[s] # 0
      BY <1>2, <1>3, <1>4, <1>7, <2>2, <2>3 DEF RowFollows
  <2>8. ~Plans!Outdated(e)'
      BY <1>2, <2>1 DEF Plans!Outdated
  <2> QED BY <1>10, <2>5, <2>6, <2>7, <2>8 DEF StillHolds, Plans!Outdated
<1> QED BY <1>2, <1>4, <1>5, <1>9, <1>11, <1>12, MovesOn

\* And the subscription with it, in the commit after that.
LEMMA ForgetKept == ASSUME BillInv, NEW h \in Webhooks, Plans!Forget(h) PROVE BillInv'
<1>1. PICK c \in Handling : c = webhook[h]
    BY HandlersAre
<1> DEFINE e == c.event
<1>2. /\ c.at = "downgraded" /\ current' = Plans!NoSub
      /\ met' = (met \/ Plans!Meets(h))
      /\ handled' = handled \cup {e}
      /\ webhook' = [webhook EXCEPT ![h] = Plans!Idle]
      /\ UNCHANGED <<status, number, sent, plan, enterprise, aside, obeyedLate, unaudited>>
    BY <1>1 DEF Plans!Forget, Plans!stripeVars
<1>3. /\ e \in sent /\ e \in Notices /\ e.sub # Plans!NoSub /\ Dead(e)
      /\ plan \in Tiers /\ {obeyedLate, met, unaudited} \subseteq BOOLEAN
    BY <1>1, <1>2, HandlersAre DEF Fits
<1>4. ASSUME ~Excused' PROVE RowFollows'
  <2>1. ~Excused /\ ~Plans!Meets(h)
      BY <1>2, <1>3, <1>4 DEF Excused
  <2>2. RowFollows /\ StillHolds(c) /\ NoticesInv /\ BillTypes
      BY <1>1, <2>1 DEF BillInv
  <2>3. plan = c.plan /\ current = c.current
      BY <1>1, <2>1 DEF Plans!Meets
  <2>4. plan # "team" /\ current = e.sub /\ ~Plans!Outdated(e)
      BY <1>2, <2>2, <2>3 DEF StillHolds
  <2>5. \A f \in handled' : f \in Notices /\ f.sub # current'
      BY <1>2, <1>3, <2>2 DEF BillTypes, Notices, Plans!Subs, Plans!NoSub
  <2>6. ASSUME NEW f \in handled', ~Dead(f), f.number = number[f.sub] PROVE f.sub \in aside
    <3>1. f \in handled /\ f # e /\ f \in Notices
        BY <1>2, <1>3, <2>5, <2>6
    <3>2. CASE f.sub = e.sub
      <4>1. f.number < e.number /\ e.number <= number[e.sub]
          BY <1>3, <2>2, <2>4, <3>1, <3>2, NewestIs DEF NoticesInv
      <4>2. {f.number, e.number, number[e.sub]} \subseteq Nat
          BY <1>3, <2>2, <3>1 DEF BillTypes, Notices
      <4> QED BY <2>6, <3>2, <4>1, <4>2
    <3>3. CASE f.sub # e.sub
        BY <2>2, <2>4, <2>6, <3>1, <3>3 DEF RowFollows
    <3> QED BY <3>2, <3>3
  <2> QED BY <1>2, <2>2, <2>4, <2>5, <2>6 DEF RowFollows, Dead
<1> QED BY <1>1, <1>2, <1>3, <1>4, HandlersAre, IdleHolds, MovesOn

\* Every step of Stripe, of sales and of the handlers of its events.
LEMMA BillKept == ASSUME BillInv, [Plans!Next]_(Plans!billingVars) PROVE BillInv'
<1>1. /\ BillTypes /\ NoticesInv
      /\ \A h \in Webhooks : Fits(webhook[h])
      /\ ~Excused => RowFollows /\ \A h \in Webhooks : StillHolds(webhook[h])
    BY DEF BillInv
<1>2. ASSUME NEW s \in Plans!Subs, Plans!Buy(s) PROVE BillInv'
  <2>1. PICK e \in Notices : e = [kind |-> "checkout", sub |-> s, number |-> 1]
    <3>1. [kind |-> "checkout", sub |-> s, number |-> 1] \in Notices
        BY DEF Notices
    <3> QED BY <3>1
  <2>2. e.kind = "checkout" /\ e.sub = s /\ e.number = 1 /\ ~Dead(e)
      BY <2>1 DEF Dead
  <2>3. /\ status[s] = "none" /\ status' = [status EXCEPT ![s] = "active"]
        /\ number' = [number EXCEPT ![s] = e.number] /\ sent' = sent \cup {e}
        /\ UNCHANGED <<handled, plan, current, webhook, enterprise, aside, obeyedLate, met,
                       unaudited>>
      BY <1>2, <2>1, <2>2 DEF Plans!Buy, Plans!historyVars
  <2>4. number[s] = 0
      BY <1>1, <2>3 DEF NoticesInv
  <2>5. "active" \in Statuses /\ met \in BOOLEAN
      BY <1>1 DEF Statuses, BillTypes
  <2>6. /\ e.number = number[s] + 1 /\ (e.kind = "checkout" <=> e.number = 1)
        /\ Dead(e) <=> "active" # "active"
      BY <2>2, <2>4
  <2>7. met' \in BOOLEAN /\ (met => met')
      BY <2>3, <2>5
  <2> QED BY <2>2, <2>3, <2>4, <2>5, <2>6, <2>7, Makes
<1>3. ASSUME NEW s \in Plans!Subs, NEW to \in {"active", "unpaid", "deleted"}, Plans!Turns(s, to)
      PROVE  BillInv'
  <2>1. number[s] \in Nat /\ met \in BOOLEAN
      BY <1>1 DEF BillTypes
  <2>2. PICK e \in Notices : e = [kind |-> to, sub |-> s, number |-> number[s] + 1]
    <3>1. number[s] + 1 \in Nat \ {0} /\ to \in Statuses
        BY <2>1 DEF Statuses
    <3>2. [kind |-> to, sub |-> s, number |-> number[s] + 1] \in Notices
        BY <3>1 DEF Notices
    <3> QED BY <3>2
  <2>3. e.kind = to /\ e.sub = s /\ e.number = number[s] + 1
      BY <2>2
  <2>4. /\ status[s] \in {"active", "unpaid"} /\ status' = [status EXCEPT ![s] = to]
        /\ number' = [number EXCEPT ![s] = e.number] /\ sent' = sent \cup {e}
        /\ met' = (met \/ (to = "active" /\ Plans!Answered(s)))
        /\ UNCHANGED <<handled, plan, current, webhook, enterprise, aside, obeyedLate, unaudited>>
    <3>1. [number EXCEPT ![s] = @ + 1] = [number EXCEPT ![s] = e.number]
        BY <1>1, <2>3 DEF BillTypes
    <3> QED BY <1>3, <2>2, <3>1 DEF Plans!Turns
  <2>5. number[s] # 0 /\ e.number # 1 /\ e.kind # "checkout"
      BY <1>1, <2>1, <2>3, <2>4 DEF NoticesInv
  <2>6. Dead(e) <=> to # "active"
      BY <2>3 DEF Dead
  <2>7. to \in Statuses /\ met' \in BOOLEAN /\ (met => met')
        /\ (met' \/ to # "active" \/ ~Plans!Answered(s))
      BY <2>1, <2>4 DEF Statuses
  <2> QED BY <2>3, <2>4, <2>5, <2>6, <2>7, Makes
<1>4. CASE Plans!SetEnterprise
  <2>1. /\ plan' = "enterprise" /\ enterprise' = TRUE
        /\ UNCHANGED <<status, number, sent, handled, current, webhook, aside, obeyedLate, met,
                       unaudited>>
      BY <1>4 DEF Plans!SetEnterprise, Plans!stripeVars
  <2>2. BillTypes' /\ NoticesInv' /\ (Excused => Excused')
      BY <1>1, <2>1 DEF BillTypes, Tiers, NoticesInv, Dead, Excused
  <2>3. \A h \in Webhooks : Fits(webhook[h])' /\ (StillHolds(webhook[h]) => StillHolds(webhook[h])')
      BY <1>1, <2>1 DEF Fits, Dead, StillHolds, Plans!Outdated, Plans!Live
  <2>4. RowFollows => RowFollows'
      BY <2>1 DEF RowFollows, Dead, Plans!Outdated
  <2> QED BY <1>1, <2>2, <2>3, <2>4 DEF BillInv
<1>5. CASE UNCHANGED Plans!billingVars
  <2>1. UNCHANGED <<status, number, sent, handled, plan, current, webhook, enterprise, aside,
                    obeyedLate, met, unaudited>>
      BY <1>5 DEF Plans!billingVars
  <2>2. BillTypes' /\ NoticesInv' /\ (Excused => Excused')
      BY <1>1, <2>1 DEF BillTypes, NoticesInv, Dead, Excused
  <2>3. \A h \in Webhooks : Fits(webhook[h])' /\ (StillHolds(webhook[h]) => StillHolds(webhook[h])')
      BY <1>1, <2>1 DEF Fits, Dead, StillHolds, Plans!Outdated, Plans!Live
  <2>4. RowFollows => RowFollows'
      BY <2>1 DEF RowFollows, Dead, Plans!Outdated
  <2> QED BY <1>1, <2>2, <2>3, <2>4 DEF BillInv
<1>6. ASSUME NEW h \in Webhooks,
             \/ \E e \in sent : Plans!Load(h, e)
             \/ Plans!AskStripe(h) \/ Plans!Adopt(h) \/ Plans!AdoptUnaudited(h)
             \/ Plans!Ignore(h) \/ Plans!Forget(h) \/ Plans!Fail(h)
             \/ \E ok \in BOOLEAN : Plans!Downgrade(h, ok)
      PROVE  BillInv'
    BY <1>6, LoadKept, AskKept, AdoptKept, AdoptUnauditedKept, IgnoreKept, ForgetKept, FailKept, DowngradeKept
<1> QED BY <1>2, <1>3, <1>4, <1>5, <1>6 DEF Plans!Next

\* What the invariant says of a row whose events were all answered.
LEMMA BillSettles == BillInv => Plans!PlanSettles
<1> SUFFICES ASSUME BillInv, Plans!Settled, ~Excused
             PROVE  /\ plan = "enterprise" <=> enterprise
                    /\ plan = "team" => current # Plans!NoSub /\ Plans!Live(current)
                    /\ current # Plans!NoSub => Plans!Live(current)
                    /\ \A s \in Plans!Subs : Plans!Live(s) => current # Plans!NoSub \/ s \in aside
    BY DEF Plans!PlanSettles, Excused
<1>1. RowFollows /\ NoticesInv /\ BillTypes /\ handled = sent
    BY DEF BillInv, Plans!Settled
<1>2. ASSUME NEW s \in Plans!Subs, number[s] # 0
      PROVE  \E e \in handled : e.sub = s /\ e.number = number[s] /\ (Dead(e) <=> status[s] # "active")
    BY <1>1, <1>2 DEF NoticesInv
<1>3. ASSUME current # Plans!NoSub PROVE Plans!Live(current)
  <2>1. current \in Plans!Subs /\ number[current] # 0
      BY <1>1, <1>3 DEF RowFollows, BillTypes
  <2>2. PICK e \in handled : /\ e.sub = current /\ e.number = number[current]
                             /\ Dead(e) <=> status[current] # "active"
      BY <1>2, <2>1
  <2>3. ~Plans!Outdated(e)
    <3>1. \A f \in handled : f \in Notices /\ f.number <= number[f.sub] /\ number[f.sub] \in Nat
        BY <1>1 DEF NoticesInv, BillTypes, Notices
    <3>2. ASSUME NEW f \in handled, f.sub = e.sub, f.number > e.number PROVE FALSE
        BY <2>2, <3>1, <3>2 DEF Notices
    <3> QED BY <3>2 DEF Plans!Outdated
  <2> QED BY <1>1, <2>2, <2>3 DEF RowFollows, Plans!Live
<1>4. ASSUME NEW s \in Plans!Subs, Plans!Live(s) PROVE current # Plans!NoSub \/ s \in aside
  <2>1. status[s] = "active" /\ number[s] # 0
      BY <1>1, <1>4 DEF NoticesInv, Plans!Live
  <2>2. PICK e \in handled : e.sub = s /\ e.number = number[s] /\ ~Dead(e)
      BY <1>2, <2>1
  <2>3. s # Plans!NoSub
      BY DEF Plans!Subs, Plans!NoSub
  <2> QED BY <1>1, <2>2, <2>3 DEF RowFollows
<1> QED BY <1>1, <1>3, <1>4 DEF RowFollows

-----------------------------------------------------------------------------
(* A grant: where each pair comes from, and what a revocation reaches.     *)

PairRows == [line : Codes \cup {NoCode}, ends : 0 .. MaxTime + RefreshTTL,
             accessEnds : 0 .. MaxTime + RefreshTTL,
             access : Grant!Gone .. MaxTime, refresh : Grant!Gone .. MaxTime]
GrantRequests == [at : Grant!Steps, code : Codes \cup {NoCode}, pair : 0 .. NPairs,
                  new : 0 .. NPairs, reach : SUBSET Grant!Pairs, whole : SUBSET Codes]

GrantTypes ==
    /\ clock \in 0 .. MaxTime
    /\ code \in [Codes -> [st : {"none", "live", "spent", "gone"}, ends : 0 .. MaxTime + CodeTTL]]
    /\ pairs \subseteq Grant!Pairs /\ pair \in [Grant!Pairs -> PairRows]
    /\ handler \in [Clients -> GrantRequests]
    /\ consented \in [Codes -> -1 .. MaxTime] /\ ended \subseteq Codes

\* The pairs of a line, committed or not.
PairsOf(c) == {p \in Grant!Pairs : pair[p].line = c}
MintersOf(p) == {h \in Clients : Grant!Minting(h) /\ handler[h].new = p}

\* A request works on a code or on a committed pair, and the pair it mints is of the same
\* line, is nobody else's, and is not committed.
RequestsFit ==
    \A h \in Clients :
        /\ handler[h].reach \subseteq pairs
        /\ handler[h].at \in {"loaded", "burnt", "spending"} => handler[h].code \in Codes
        /\ handler[h].at \in {"presented", "rotating"} => handler[h].pair \in pairs
        /\ Grant!Minting(h) =>
              /\ handler[h].new \in Grant!Pairs \ pairs
              /\ pair[handler[h].new].line = Grant!LineOf(h)
              /\ \A g \in Clients : Grant!Minting(g) /\ handler[g].new = handler[h].new => g = h

\* A pair that has a line is committed or being minted, and no pair of a code that can
\* still be spent is committed: those there are, an exchange is minting.
PairsHaveLines ==
    /\ \A p \in pairs : pair[p].line # NoCode
    /\ \A p \in Grant!Pairs \ pairs : pair[p].line # NoCode => MintersOf(p) # {}
    /\ \A c \in Codes : code[c].st \in {"none", "live"} =>
          \A p \in PairsOf(c) : \E h \in MintersOf(p) : handler[h].at = "spending"

\* A pair lasts as long as its line's consent, which an exchange dates at its commit.
WithinConsent ==
    /\ \A c \in Codes : consented[c] <= clock
    /\ \A p \in Grant!Pairs : pair[p].accessEnds <= pair[p].ends
    /\ \A p \in pairs : pair[p].ends <= consented[pair[p].line] + RefreshTTL
    /\ \A h \in Clients :
          /\ handler[h].at = "spending" => pair[handler[h].new].ends <= clock + RefreshTTL
          /\ handler[h].at = "rotating" => pair[handler[h].new].ends = pair[handler[h].pair].ends

\* A revocation that is whole for a line reaches every pair of it, and the pairs of a line
\* that ended are committed and dead.
EndsReach ==
    /\ \A h \in Clients : handler[h].at = "revoking" =>
          \A c \in handler[h].whole : PairsOf(c) # {} /\ PairsOf(c) \subseteq handler[h].reach
    /\ \A c \in ended :
          /\ PairsOf(c) # {} /\ PairsOf(c) \subseteq pairs
          /\ \A p \in PairsOf(c) : pair[p].access # Grant!Never /\ pair[p].refresh # Grant!Never

GrantInv == GrantTypes /\ RequestsFit /\ PairsHaveLines /\ Grant!NeverForks /\ WithinConsent
            /\ EndsReach

\* A request, and the row of a pair.
Asks(a, c, p, n, r, w) == [at |-> a, code |-> c, pair |-> p, new |-> n, reach |-> r, whole |-> w]
PairRow(c, e, a, x, y) == [line |-> c, ends |-> e, accessEnds |-> a, access |-> x, refresh |-> y]

\* The bounds, the times and the columns.
LEMMA GrantColumns ==
    /\ NoCode \notin Codes /\ NPairs \in Nat /\ MaxTime \in Nat /\ KeepRevoked \in Nat
    /\ CodeTTL \in Nat /\ AccessTTL \in Nat /\ RefreshTTL \in Nat
    /\ Grant!Never = -1 /\ Grant!Gone = -2 /\ Grant!Pairs = 1 .. NPairs
    /\ Grant!Pairs \subseteq 0 .. NPairs /\ 0 \notin Grant!Pairs
BY Assumptions DEF Grant!CodesAssumption, Grant!LifetimesAssumption, Grant!Never, Grant!Gone,
                   Grant!Pairs

\* The columns of a request.
LEMMA AsksAre ==
    ASSUME NEW a \in Grant!Steps, NEW c \in Codes \cup {NoCode}, NEW p \in 0 .. NPairs,
           NEW n \in 0 .. NPairs, NEW r \in SUBSET Grant!Pairs, NEW w \in SUBSET Codes
    PROVE  /\ Asks(a, c, p, n, r, w) \in GrantRequests
           /\ Asks(a, c, p, n, r, w).at = a /\ Asks(a, c, p, n, r, w).code = c
           /\ Asks(a, c, p, n, r, w).pair = p /\ Asks(a, c, p, n, r, w).new = n
           /\ Asks(a, c, p, n, r, w).reach = r /\ Asks(a, c, p, n, r, w).whole = w
BY DEF Asks, GrantRequests

\* A request that does nothing.
LEMMA IdleAsks ==
    /\ Grant!Idle = Asks("idle", NoCode, 0, 0, {}, {}) /\ Grant!Idle \in GrantRequests
    /\ Grant!Idle.at = "idle" /\ Grant!Idle.reach = {}
BY GrantColumns DEF Grant!Idle, Asks, GrantRequests, Grant!Steps

\* The request that a revocation is.
LEMMA RevokingIs ==
    ASSUME GrantTypes, PairsHaveLines
    PROVE  \E to \in GrantRequests :
               /\ to = Grant!Revoking /\ to.at = "revoking" /\ to.reach = pairs
               /\ to.whole = {pair[p].line : p \in pairs}
                                \ {Grant!LineOf(k) : k \in {i \in Clients : Grant!Minting(i)}}
<1>1. PICK w : w = {pair[p].line : p \in pairs}
                      \ {Grant!LineOf(k) : k \in {i \in Clients : Grant!Minting(i)}}
    OBVIOUS
<1>2. w \in SUBSET Codes /\ pairs \in SUBSET Grant!Pairs
  <2>1. ASSUME NEW p \in pairs PROVE pair[p].line \in Codes
      BY <2>1 DEF GrantTypes, PairsHaveLines, PairRows
  <2> QED BY <1>1, <2>1 DEF GrantTypes
<1>3. PICK r \in SUBSET Grant!Pairs : r = pairs
    BY <1>2
<1>4. PICK to \in GrantRequests :
          /\ to = Asks("revoking", NoCode, 0, 0, r, w)
          /\ to.at = "revoking" /\ to.reach = r /\ to.whole = w
    BY <1>2, AsksAre, GrantColumns DEF Grant!Steps
<1>5. Grant!Revoking = to
  <2> DEFINE a == [Grant!Idle EXCEPT !.at = "revoking"]
             b == [a EXCEPT !.reach = r]
  <2>1. a = Asks("revoking", NoCode, 0, 0, {}, {})
      BY DEF Grant!Idle, Asks
  <2> HIDE DEF a
  <2>2. b = Asks("revoking", NoCode, 0, 0, r, {})
      BY <2>1 DEF Asks
  <2> HIDE DEF b
  <2>3. [b EXCEPT !.whole = w] = to
      BY <1>4, <2>2 DEF Asks
  <2>4. Grant!Revoking = [b EXCEPT !.whole = w]
      BY <1>1, <1>3 DEF a, b, Grant!Revoking
  <2> QED BY <2>3, <2>4
<1> QED BY <1>1, <1>3, <1>4, <1>5

\* The number of the next pair is free.
LEMMA NextIsFree ==
    ASSUME Grant!Free # {}
    PROVE  Grant!NextPair \in Grant!Free /\ Grant!Free \subseteq Grant!Pairs
<1> DEFINE R == OpToRel(<, Nat)
<1>1. \A t, u \in Nat : <<u, t>> \in R <=> u < t
    BY DEF OpToRel
<1>0. IsWellFoundedOn(R, Nat)
    BY NatLessThanWellFounded
<1> HIDE DEF R
<1>2. Grant!Free \subseteq Grant!Pairs /\ Grant!Free \subseteq Nat
    BY GrantColumns DEF Grant!Free
<1>3. PICK p \in Grant!Free : \A q \in Grant!Free : ~(<<q, p>> \in R)
    BY <1>0, <1>2, WFMin
<1>4. ASSUME NEW q \in Grant!Free PROVE p <= q
  <2>1. p \in Nat /\ q \in Nat /\ ~(q < p)
      BY <1>1, <1>2, <1>3
  <2> QED BY <2>1
<1> QED BY <1>2, <1>3, <1>4 DEF Grant!NextPair

\* A request that mints nothing goes on to mint nothing; the pairs stay as they are.
LEMMA GrantMoves ==
    ASSUME GrantInv, NEW h \in Clients, NEW to \in GrantRequests,
           handler' = [handler EXCEPT ![h] = to],
           UNCHANGED <<clock, pairs, pair, consented, ended>>,
           ~Grant!Minting(h), to.at \notin {"spending", "rotating"}, to.reach \subseteq pairs,
           to.at \in {"loaded", "burnt"} => to.code \in Codes,
           to.at = "presented" => to.pair \in pairs,
           to.at = "revoking" =>
               \A c \in to.whole : PairsOf(c) # {} /\ PairsOf(c) \subseteq to.reach,
           code' \in [Codes -> [st : {"none", "live", "spent", "gone"},
                                ends : 0 .. MaxTime + CodeTTL]],
           \A c \in Codes : code'[c].st = code[c].st
    PROVE  GrantInv'
<1>1. GrantTypes /\ RequestsFit /\ PairsHaveLines /\ Grant!NeverForks /\ WithinConsent /\ EndsReach
    BY DEF GrantInv
<1>2. /\ handler' \in [Clients -> GrantRequests] /\ handler'[h] = to
      /\ \A k \in Clients : k # h => handler'[k] = handler[k]
    BY <1>1 DEF GrantTypes
<1>3. GrantTypes'
    BY <1>1, <1>2 DEF GrantTypes
<1>4. \A k \in Clients : /\ Grant!Minting(k)' <=> Grant!Minting(k)
                         /\ Grant!Minting(k) => handler'[k] = handler[k] /\ k # h
                         /\ handler'[k].at \in {"spending", "rotating"} => Grant!Minting(k)
    BY <1>2 DEF Grant!Minting
<1>5. /\ \A p : MintersOf(p)' = MintersOf(p)
      /\ \A c : PairsOf(c)' = PairsOf(c)
    BY <1>4 DEF MintersOf, PairsOf
<1>6. \A k \in Clients : Grant!Minting(k) => Grant!LineOf(k)' = Grant!LineOf(k)
    BY <1>4 DEF Grant!LineOf
<1>7. RequestsFit'
  <2>1. ASSUME NEW k \in Clients
        PROVE  /\ handler'[k].reach \subseteq pairs
               /\ handler'[k].at \in {"loaded", "burnt", "spending"} => handler'[k].code \in Codes
               /\ handler'[k].at \in {"presented", "rotating"} => handler'[k].pair \in pairs
    <3>1. CASE k = h
        BY <1>2, <3>1
    <3>2. CASE k # h
        BY <1>1, <1>2, <3>2 DEF RequestsFit
    <3> QED BY <3>1, <3>2
  <2>2. ASSUME NEW k \in Clients, Grant!Minting(k)
        PROVE  /\ handler'[k].new \in Grant!Pairs \ pairs
               /\ pair[handler'[k].new].line = Grant!LineOf(k)'
               /\ \A g \in Clients : Grant!Minting(g) /\ handler'[g].new = handler'[k].new => g = k
      BY <1>1, <1>4, <1>6, <2>2 DEF RequestsFit
  <2> QED BY <1>4, <2>1, <2>2 DEF RequestsFit, Grant!Pairs
<1>8. PairsHaveLines'
  <2>1. ASSUME NEW c \in Codes, code'[c].st \in {"none", "live"}, NEW p \in PairsOf(c)'
        PROVE  \E k \in MintersOf(p)' : handler'[k].at = "spending"
    <3>1. PICK k \in MintersOf(p) : handler[k].at = "spending"
        BY <1>1, <1>5, <2>1 DEF PairsHaveLines
    <3>2. k \in Clients /\ Grant!Minting(k)
        BY <3>1 DEF MintersOf
    <3> QED BY <1>4, <1>5, <3>1, <3>2
  <2> QED BY <1>1, <1>5, <2>1 DEF PairsHaveLines, Grant!Pairs
<1>9. Grant!NeverForks'
  <2> SUFFICES ASSUME NEW p \in Grant!Pairs, NEW q \in Grant!Pairs,
                      pair[p].line = pair[q].line, pair[p].line # NoCode,
                      pair[p].refresh = Grant!Never, pair[q].refresh = Grant!Never, p # q
               PROVE  \E k \in Clients : /\ handler'[k].at = "rotating"
                                         /\ {handler'[k].pair, handler'[k].new} = {p, q}
      BY DEF Grant!NeverForks, Grant!Pairs, Grant!Never
  <2>1. PICK k \in Clients : handler[k].at = "rotating" /\ {handler[k].pair, handler[k].new} = {p, q}
      BY <1>1 DEF Grant!NeverForks
  <2>2. handler'[k] = handler[k]
      BY <1>4, <2>1 DEF Grant!Minting
  <2> QED BY <2>1, <2>2
<1>10. WithinConsent'
    BY <1>1, <1>2, <1>4 DEF WithinConsent, Grant!Pairs, Grant!Minting
<1>11. EndsReach'
    BY <1>1, <1>2, <1>5 DEF EndsReach, Grant!Never
<1> QED BY <1>3, <1>7, <1>8, <1>9, <1>10, <1>11 DEF GrantInv

\* A mint's pair is not committed, and it is alone in making it.
LEMMA MintersFit ==
    ASSUME RequestsFit, NEW h \in Clients, Grant!Minting(h)
    PROVE  /\ handler[h].new \in Grant!Pairs \ pairs
           /\ pair[handler[h].new].line = Grant!LineOf(h)
           /\ \A g \in Clients : Grant!Minting(g) /\ g # h => handler[g].new # handler[h].new
BY DEF RequestsFit

\* What a request that mints is minting for, and from.
LEMMA MintLines ==
    ASSUME GrantInv, NEW k \in Clients, Grant!Minting(k)
    PROVE  /\ Grant!LineOf(k) \in Codes /\ Grant!LineOf(k) # NoCode
           /\ handler[k].at = "rotating" =>
                 /\ handler[k].pair \in pairs /\ handler[k].pair # handler[k].new
                 /\ Grant!LineOf(k) = pair[handler[k].pair].line
           /\ handler[k].at = "spending" =>
                 handler[k].code \in Codes /\ Grant!LineOf(k) = handler[k].code
<1>1. GrantTypes /\ RequestsFit /\ PairsHaveLines /\ NoCode \notin Codes
    BY GrantColumns DEF GrantInv
<1>2. CASE handler[k].at = "spending"
    BY <1>1, <1>2 DEF RequestsFit, Grant!LineOf
<1>3. CASE handler[k].at = "rotating"
  <2>1. handler[k].pair \in pairs /\ handler[k].new \notin pairs
      BY <1>1, <1>3 DEF RequestsFit
  <2>2. pair[handler[k].pair].line \in Codes
      BY <1>1, <2>1 DEF GrantTypes, PairRows, PairsHaveLines
  <2> QED BY <1>1, <1>3, <2>1, <2>2 DEF Grant!LineOf
<1> QED BY <1>2, <1>3 DEF Grant!Minting

\* A request mints a pair: an exchange for a code that has none, or a rotation from the
\* one pair of its line that could still be rotated.
LEMMA GrantMints ==
    ASSUME GrantInv, NEW h \in Clients, NEW to \in GrantRequests, NEW c \in Codes,
           NEW n \in Grant!Free, NEW e \in 0 .. MaxTime + RefreshTTL,
           NEW a \in 0 .. MaxTime + RefreshTTL, a <= e,
           UNCHANGED <<clock, code, pairs, consented, ended>>,
           handler' = [k \in Clients |-> IF k = h THEN to
                                         ELSE [handler[k] EXCEPT !.whole = @ \ {c}]],
           pair' = [pair EXCEPT ![n] = PairRow(c, e, a, Grant!Never, Grant!Never)],
           ~Grant!Minting(h), to.new = n, to.reach \subseteq pairs,
           \/ to.at = "spending" /\ to.code = c /\ PairsOf(c) = {} /\ e = clock + RefreshTTL
           \/ /\ to.at = "rotating" /\ to.pair \in pairs /\ pair[to.pair].line = c
              /\ pair[to.pair].refresh = Grant!Never /\ pair[to.pair].ends = e
              /\ \A k \in Clients : handler[k].at = "rotating" => handler[k].pair # to.pair
    PROVE  GrantInv'
<1>1. /\ GrantTypes /\ RequestsFit /\ PairsHaveLines /\ Grant!NeverForks /\ WithinConsent
      /\ EndsReach /\ NoCode \notin Codes
    BY GrantColumns DEF GrantInv
<1>2. n \in Grant!Pairs /\ pair[n].line = NoCode /\ n \notin pairs
    BY <1>1 DEF Grant!Free, PairsHaveLines
<1>3. ASSUME NEW k \in Clients, k # h
      PROVE  /\ handler'[k] \in GrantRequests /\ handler'[k].at = handler[k].at
             /\ handler'[k].code = handler[k].code /\ handler'[k].pair = handler[k].pair
             /\ handler'[k].new = handler[k].new /\ handler'[k].reach = handler[k].reach
             /\ handler'[k].whole = handler[k].whole \ {c}
  <2>1. PICK q \in GrantRequests : q = handler[k]
      BY <1>1 DEF GrantTypes
  <2>2. PICK w \in SUBSET Codes : w = q.whole \ {c}
      BY DEF GrantRequests
  <2>3. handler'[k] = [q EXCEPT !.whole = w]
      BY <1>3, <2>1, <2>2
  <2>4. /\ [q EXCEPT !.whole = w] \in GrantRequests /\ [q EXCEPT !.whole = w].at = q.at
        /\ [q EXCEPT !.whole = w].code = q.code /\ [q EXCEPT !.whole = w].pair = q.pair
        /\ [q EXCEPT !.whole = w].new = q.new /\ [q EXCEPT !.whole = w].reach = q.reach
        /\ [q EXCEPT !.whole = w].whole = w
      BY DEF GrantRequests
  <2> QED BY <2>1, <2>2, <2>3, <2>4
<1>4. handler'[h] = to /\ handler' \in [Clients -> GrantRequests]
  <2>1. handler'[h] = to /\ \A k \in Clients : handler'[k] \in GrantRequests
      BY <1>3
  <2>2. handler' = [k \in Clients |-> handler'[k]]
      OBVIOUS
  <2> QED BY <2>1, <2>2
<1>5. PICK new \in PairRows :
          /\ new = PairRow(c, e, a, Grant!Never, Grant!Never)
          /\ new.line = c /\ new.ends = e /\ new.accessEnds = a
          /\ new.access = Grant!Never /\ new.refresh = Grant!Never
  <2>1. Grant!Never \in Grant!Gone .. MaxTime
      BY GrantColumns
  <2>2. PICK new : new = PairRow(c, e, a, Grant!Never, Grant!Never)
      OBVIOUS
  <2>3. /\ new.line = c /\ new.ends = e /\ new.accessEnds = a
        /\ new.access = Grant!Never /\ new.refresh = Grant!Never
      BY <2>2 DEF PairRow
  <2>4. new \in PairRows
      BY <2>1, <2>2 DEF PairRow, PairRows
  <2> QED BY <2>2, <2>3, <2>4
<1>6. /\ pair' \in [Grant!Pairs -> PairRows] /\ pair'[n] = new
      /\ \A p \in Grant!Pairs : p # n => pair'[p] = pair[p]
    BY <1>1, <1>2, <1>5 DEF GrantTypes
<1>7. pairs \subseteq Grant!Pairs
    BY <1>1 DEF GrantTypes
<1>8. GrantTypes'
    BY <1>1, <1>4, <1>6 DEF GrantTypes, Grant!Pairs, PairRows, GrantRequests
<1>9. ASSUME NEW k \in Clients, Grant!Minting(k)
      PROVE  k # h /\ handler[k].new \in Grant!Pairs \ pairs /\ handler[k].new # n
    BY <1>1, <1>2, <1>9, MintLines, MintersFit
<1>10. /\ Grant!Minting(h)'
       /\ \A k \in Clients : k # h => (Grant!Minting(k)' <=> Grant!Minting(k))
    BY <1>3, <1>4 DEF Grant!Minting
<1>11. /\ Grant!LineOf(h)' = c
       /\ \A k \in Clients : Grant!Minting(k) => Grant!LineOf(k)' = Grant!LineOf(k)
  <2>1. Grant!LineOf(h)' = c
      BY <1>2, <1>4, <1>6, <1>7 DEF Grant!LineOf
  <2>2. ASSUME NEW k \in Clients, Grant!Minting(k) PROVE Grant!LineOf(k)' = Grant!LineOf(k)
    <3>1. k # h /\ (handler[k].at = "rotating" => handler[k].pair \in pairs)
        BY <1>9, <2>2, MintLines
    <3> QED BY <1>2, <1>3, <1>6, <1>7, <2>2, <3>1 DEF Grant!LineOf, Grant!Minting
  <2> QED BY <2>1, <2>2
<1>12. /\ PairsOf(c)' = PairsOf(c) \cup {n} /\ n \notin PairsOf(c)
       /\ \A d \in Codes : d # c => PairsOf(d)' = PairsOf(d)
    BY <1>1, <1>2, <1>5, <1>6 DEF PairsOf, Grant!Pairs
<1>13. RequestsFit'
  <2>1. ASSUME NEW k \in Clients
        PROVE  /\ handler'[k].reach \subseteq pairs
               /\ handler'[k].at \in {"loaded", "burnt", "spending"} => handler'[k].code \in Codes
               /\ handler'[k].at \in {"presented", "rotating"} => handler'[k].pair \in pairs
    <3>1. CASE k = h
        BY <1>4, <3>1
    <3>2. CASE k # h
        BY <1>1, <1>3, <3>2 DEF RequestsFit
    <3> QED BY <3>1, <3>2
  <2>2. ASSUME NEW k \in Clients, Grant!Minting(k)'
        PROVE  /\ handler'[k].new \in Grant!Pairs \ pairs
               /\ pair'[handler'[k].new].line = Grant!LineOf(k)'
               /\ \A g \in Clients : Grant!Minting(g)' /\ handler'[g].new = handler'[k].new => g = k
    <3>1. CASE k = h
        BY <1>2, <1>3, <1>4, <1>5, <1>6, <1>9, <1>10, <1>11, <3>1
    <3>2. CASE k # h
      <4>1. Grant!Minting(k) /\ handler'[k].new = handler[k].new
          BY <1>3, <1>10, <2>2, <3>2
      <4>2. /\ handler[k].new \in Grant!Pairs \ pairs /\ handler[k].new # n
            /\ pair[handler[k].new].line = Grant!LineOf(k)
            /\ \A g \in Clients : Grant!Minting(g) /\ handler[g].new = handler[k].new => g = k
          BY <1>1, <1>9, <4>1 DEF RequestsFit
      <4>3. ASSUME NEW g \in Clients, Grant!Minting(g)', handler'[g].new = handler'[k].new
            PROVE  g = k
        <5>1. g # h
            BY <1>4, <4>1, <4>2, <4>3
        <5> QED BY <1>3, <1>10, <4>1, <4>2, <4>3, <5>1
      <4> QED BY <1>6, <1>11, <4>1, <4>2, <4>3
    <3> QED BY <3>1, <3>2
  <2> QED BY <2>1, <2>2 DEF RequestsFit, Grant!Pairs
<1>14. \A p \in Grant!Pairs : \A k \in MintersOf(p) : k \in MintersOf(p)' /\ k # h
    BY <1>3, <1>9, <1>10 DEF MintersOf
<1>15. h \in MintersOf(n)'
    BY <1>4, <1>10 DEF MintersOf
<1>16. PairsHaveLines'
  <2>1. \A p \in pairs : pair'[p].line # NoCode
      BY <1>1, <1>2, <1>6, <1>7 DEF PairsHaveLines
  <2>2. ASSUME NEW p \in Grant!Pairs \ pairs, pair'[p].line # NoCode PROVE MintersOf(p)' # {}
    <3>1. CASE p = n
        BY <1>15, <3>1
    <3>2. CASE p # n
        BY <1>1, <1>6, <1>14, <2>2, <3>2 DEF PairsHaveLines
    <3> QED BY <3>1, <3>2
  <2>3. ASSUME NEW d \in Codes, code[d].st \in {"none", "live"}, NEW p \in PairsOf(d)'
        PROVE  \E k \in MintersOf(p)' : handler'[k].at = "spending"
    <3>0. \A q \in PairsOf(d) : \E k \in MintersOf(q) : handler[k].at = "spending"
        BY <1>1, <2>3 DEF PairsHaveLines
    <3>1. CASE p \in PairsOf(d)
      <4>1. PICK k \in MintersOf(p) : handler[k].at = "spending"
          BY <3>0, <3>1
      <4>2. p \in Grant!Pairs /\ k \in Clients
          BY <3>1, <4>1 DEF PairsOf, MintersOf
      <4>3. k \in MintersOf(p)' /\ k # h
          BY <1>14, <4>1, <4>2
      <4>4. handler'[k].at = "spending"
          BY <1>3, <4>1, <4>2, <4>3
      <4> QED BY <4>3, <4>4
    <3>2. CASE p \notin PairsOf(d)
      <4>1. d = c /\ p = n
          BY <1>12, <2>3, <3>2
      <4>2. to.at # "rotating"
        <5>1. ASSUME to.at = "rotating" PROVE FALSE
          <6>1. to.pair \in pairs /\ to.pair \in PairsOf(d)
              BY <1>7, <4>1, <5>1 DEF PairsOf
          <6>2. PICK k \in MintersOf(to.pair) : TRUE
              BY <3>0, <6>1
          <6> QED BY <1>9, <6>1, <6>2 DEF MintersOf
        <5> QED BY <5>1
      <4> QED BY <1>4, <1>15, <4>1, <4>2
    <3> QED BY <3>1, <3>2
  <2> QED BY <2>1, <2>2, <2>3 DEF PairsHaveLines, Grant!Pairs
<1>17. Grant!NeverForks'
  <2>1. ASSUME NEW p \in Grant!Pairs, NEW q \in Grant!Pairs, p # n, q # n,
               pair'[p].line = pair'[q].line, pair'[p].line # NoCode,
               pair'[p].refresh = Grant!Never, pair'[q].refresh = Grant!Never, p # q
        PROVE  \E k \in Clients : /\ handler'[k].at = "rotating"
                                  /\ {handler'[k].pair, handler'[k].new} = {p, q}
    <3>1. pair'[p] = pair[p] /\ pair'[q] = pair[q]
        BY <1>6, <2>1
    <3>2. PICK k \in Clients : handler[k].at = "rotating" /\ {handler[k].pair, handler[k].new} = {p, q}
        BY <1>1, <2>1, <3>1 DEF Grant!NeverForks
    <3>3. k # h
        BY <3>2 DEF Grant!Minting
    <3> QED BY <1>3, <3>2, <3>3
  <2>2. ASSUME NEW q \in Grant!Pairs, q # n, pair'[q].line = c, pair'[q].refresh = Grant!Never
        PROVE  handler'[h].at = "rotating" /\ handler'[h].pair = q /\ handler'[h].new = n
    <3>1. pair[q].line = c /\ pair[q].refresh = Grant!Never /\ q \in PairsOf(c)
        BY <1>6, <2>2 DEF PairsOf
    <3>2. /\ to.at = "rotating" /\ to.pair \in pairs /\ pair[to.pair].line = c
          /\ pair[to.pair].refresh = Grant!Never
          /\ \A k \in Clients : handler[k].at = "rotating" => handler[k].pair # to.pair
        BY <3>1
    <3>3. ASSUME q # to.pair PROVE FALSE
      <4>1. PICK k \in Clients :
                handler[k].at = "rotating" /\ {handler[k].pair, handler[k].new} = {q, to.pair}
        <5>1. to.pair \in Grant!Pairs /\ c # NoCode
            BY <1>1, <1>7, <3>2
        <5> QED BY <1>1, <3>1, <3>2, <3>3, <5>1 DEF Grant!NeverForks
      <4>2. handler[k].new = to.pair
          BY <3>2, <4>1
      <4>3. Grant!Minting(k)
          BY <4>1 DEF Grant!Minting
      <4> QED BY <1>9, <3>2, <4>2, <4>3
    <3> QED BY <1>4, <3>2, <3>3
  <2>3. ASSUME NEW p \in Grant!Pairs, NEW q \in Grant!Pairs,
               pair'[p].line = pair'[q].line, pair'[p].line # NoCode,
               pair'[p].refresh = Grant!Never, pair'[q].refresh = Grant!Never, p # q
        PROVE  \E k \in Clients : /\ handler'[k].at = "rotating"
                                  /\ {handler'[k].pair, handler'[k].new} = {p, q}
    <3>1. CASE p = n
      <4>1. handler'[h].at = "rotating" /\ handler'[h].pair = q /\ handler'[h].new = n
          BY <1>5, <1>6, <2>2, <2>3, <3>1
      <4> QED BY <3>1, <4>1
    <3>2. CASE q = n
      <4>1. handler'[h].at = "rotating" /\ handler'[h].pair = p /\ handler'[h].new = n
          BY <1>5, <1>6, <2>2, <2>3, <3>2
      <4> QED BY <3>2, <4>1
    <3>3. CASE p # n /\ q # n
        BY <2>1, <2>3, <3>3
    <3> QED BY <3>1, <3>2, <3>3
  <2> QED BY <2>3 DEF Grant!NeverForks, Grant!Pairs, Grant!Never
<1>18. WithinConsent'
  <2>1. \A p \in Grant!Pairs : pair'[p].accessEnds <= pair'[p].ends
      BY <1>1, <1>5, <1>6 DEF WithinConsent
  <2>2. \A p \in pairs : pair'[p].ends <= consented[pair'[p].line] + RefreshTTL
      BY <1>1, <1>2, <1>6, <1>7 DEF WithinConsent
  <2>3. ASSUME NEW k \in Clients
        PROVE  /\ handler'[k].at = "spending" => pair'[handler'[k].new].ends <= clock + RefreshTTL
               /\ handler'[k].at = "rotating" =>
                     pair'[handler'[k].new].ends = pair'[handler'[k].pair].ends
    <3>1. CASE k = h
      <4>1. to.at = "spending" => e <= clock + RefreshTTL
          BY <1>1, GrantColumns DEF GrantTypes
      <4>2. to.at = "rotating" => pair'[to.pair].ends = e
          BY <1>2, <1>6, <1>7
      <4> QED BY <1>4, <1>5, <1>6, <3>1, <4>1, <4>2
    <3>2. CASE k # h
      <4>1. CASE Grant!Minting(k)
        <5>1. pair'[handler[k].new] = pair[handler[k].new]
            BY <1>6, <1>9, <4>1
        <5>2. handler[k].at = "rotating" => pair'[handler[k].pair] = pair[handler[k].pair]
            BY <1>2, <1>6, <1>7, <4>1, MintLines
        <5>3. /\ handler[k].at = "spending" => pair[handler[k].new].ends <= clock + RefreshTTL
              /\ handler[k].at = "rotating" =>
                    pair[handler[k].new].ends = pair[handler[k].pair].ends
            BY <1>1 DEF WithinConsent
        <5>4. /\ handler'[k].at = handler[k].at /\ handler'[k].new = handler[k].new
              /\ handler'[k].pair = handler[k].pair
            BY <1>3, <3>2
        <5> QED BY <5>1, <5>2, <5>3, <5>4
      <4>2. CASE ~Grant!Minting(k)
          BY <1>3, <3>2, <4>2 DEF Grant!Minting
      <4> QED BY <4>1, <4>2
    <3> QED BY <3>1, <3>2
  <2> QED BY <1>1, <2>1, <2>2, <2>3 DEF WithinConsent, Grant!Pairs
<1>19. EndsReach'
  <2>1. ASSUME NEW k \in Clients, handler'[k].at = "revoking", NEW d \in handler'[k].whole
        PROVE  PairsOf(d)' # {} /\ PairsOf(d)' \subseteq handler'[k].reach
    <3>1. k # h
        BY <1>4, <2>1
    <3>0. /\ handler'[k].at = handler[k].at /\ handler'[k].reach = handler[k].reach
          /\ handler'[k].whole = handler[k].whole \ {c}
        BY <1>3, <3>1
    <3>2. handler[k].at = "revoking" /\ d \in handler[k].whole /\ d # c
        BY <2>1, <3>0
    <3>3. d \in Codes
      <4>1. PICK q \in GrantRequests : q = handler[k]
          BY <1>1 DEF GrantTypes
      <4> QED BY <3>2, <4>1 DEF GrantRequests
    <3>4. PairsOf(d) # {} /\ PairsOf(d) \subseteq handler[k].reach
        BY <1>1, <3>2 DEF EndsReach
    <3> QED BY <1>12, <3>0, <3>2, <3>3, <3>4
  <2>2. c \notin ended
    <3>1. ASSUME c \in ended PROVE FALSE
      <4>1. /\ PairsOf(c) # {}
            /\ \A p \in PairsOf(c) : pair[p].refresh # Grant!Never
          BY <1>1, <3>1 DEF EndsReach
      <4>2. to.pair \in PairsOf(c)
          BY <1>7, <4>1 DEF PairsOf
      <4> QED BY <4>1, <4>2
    <3> QED BY <3>1
  <2>3. ASSUME NEW d \in ended
        PROVE  /\ PairsOf(d)' # {} /\ PairsOf(d)' \subseteq pairs
               /\ \A p \in PairsOf(d)' : pair'[p].access # Grant!Never /\ pair'[p].refresh # Grant!Never
    <3>1. d \in Codes /\ d # c
        BY <1>1, <2>2, <2>3 DEF GrantTypes
    <3>2. PairsOf(d)' = PairsOf(d) /\ n \notin PairsOf(d) /\ PairsOf(d) \subseteq Grant!Pairs
        BY <1>1, <1>2, <1>12, <3>1 DEF PairsOf
    <3> QED BY <1>1, <1>6, <2>3, <3>2 DEF EndsReach
  <2> QED BY <2>1, <2>3 DEF EndsReach, Grant!Never
<1> QED BY <1>8, <1>13, <1>16, <1>17, <1>18, <1>19 DEF GrantInv

\* Two pairs of a line that can be rotated, as before: another request is rotating one.
LEMMA ForksKept ==
    ASSUME Grant!NeverForks, NEW h \in Clients,
           \A k \in Clients : k # h => handler'[k] = handler[k],
           \A p \in Grant!Pairs :
              /\ pair'[p].line = pair[p].line /\ pair'[p].ends = pair[p].ends
              /\ pair'[p].accessEnds = pair[p].accessEnds /\ pair'[p].access = pair[p].access
              /\ pair'[p].refresh # pair[p].refresh => pair'[p].refresh # Grant!Never,
           handler[h].at = "rotating" => pair'[handler[h].pair].refresh # Grant!Never
    PROVE  Grant!NeverForks'
<1>1. ASSUME NEW p \in Grant!Pairs, NEW q \in Grant!Pairs,
             pair'[p].line = pair'[q].line, pair'[p].line # NoCode,
             pair'[p].refresh = Grant!Never, pair'[q].refresh = Grant!Never, p # q
      PROVE  \E k \in Clients : /\ handler'[k].at = "rotating"
                                /\ {handler'[k].pair, handler'[k].new} = {p, q}
  <2>1. /\ pair[p].line = pair[q].line /\ pair[p].line # NoCode
        /\ pair[p].refresh = Grant!Never /\ pair[q].refresh = Grant!Never
      BY <1>1
  <2>2. PICK k \in Clients : handler[k].at = "rotating" /\ {handler[k].pair, handler[k].new} = {p, q}
      BY <1>1, <2>1 DEF Grant!NeverForks
  <2>3. k # h
      BY <1>1, <2>2
  <2> QED BY <2>2, <2>3
<1> QED BY <1>1 DEF Grant!NeverForks, Grant!Pairs, Grant!Never

\* A request commits the pair it minted.
LEMMA GrantCommits ==
    ASSUME GrantInv, NEW h \in Clients, Grant!Minting(h), UNCHANGED <<clock, ended>>,
           handler' = [handler EXCEPT ![h] = Grant!Idle],
           pairs' = pairs \cup {handler[h].new},
           pair' \in [Grant!Pairs -> PairRows],
           \A p \in Grant!Pairs :
              /\ pair'[p].line = pair[p].line /\ pair'[p].ends = pair[p].ends
              /\ pair'[p].accessEnds = pair[p].accessEnds /\ pair'[p].access = pair[p].access
              /\ pair'[p].refresh # pair[p].refresh => pair'[p].refresh # Grant!Never,
           code' \in [Codes -> [st : {"none", "live", "spent", "gone"},
                                ends : 0 .. MaxTime + CodeTTL]],
           \A c \in Codes : code'[c].st \in {code[c].st, "spent"},
           consented' \in [Codes -> -1 .. MaxTime],
           \A c \in Codes : consented'[c] \in {consented[c], clock},
           handler[h].at = "spending" => /\ code'[handler[h].code].st = "spent"
                                         /\ consented'[handler[h].code] = clock,
           handler[h].at = "rotating" => pair'[handler[h].pair].refresh # Grant!Never
    PROVE  GrantInv'
<1>1. /\ GrantTypes /\ RequestsFit /\ PairsHaveLines /\ Grant!NeverForks /\ WithinConsent
      /\ EndsReach
    BY DEF GrantInv
<1>2. /\ Grant!Idle \in GrantRequests /\ Grant!Idle.at = "idle" /\ Grant!Idle.reach = {}
    BY IdleAsks
<1>3. /\ handler' \in [Clients -> GrantRequests] /\ handler'[h] = Grant!Idle
      /\ \A k \in Clients : k # h => handler'[k] = handler[k]
    BY <1>1, <1>2 DEF GrantTypes
<1>4. PICK n \in Grant!Pairs \ pairs : n = handler[h].new
    BY <1>1, MintersFit
<1>5. pairs' = pairs \cup {n} /\ pairs \subseteq Grant!Pairs
    BY <1>1, <1>4 DEF GrantTypes
<1>6. GrantTypes'
    BY <1>1, <1>3, <1>5 DEF GrantTypes, Grant!Pairs, PairRows, GrantRequests
<1>7. \A k \in Clients : /\ Grant!Minting(k)' <=> Grant!Minting(k) /\ k # h
                         /\ Grant!Minting(k) /\ k # h => handler[k].new # n
    BY <1>1, <1>2, <1>3, <1>4, MintersFit DEF Grant!Minting
<1>8. \A c : PairsOf(c)' = PairsOf(c)
    BY DEF PairsOf, Grant!Pairs
<1>9. ASSUME NEW k \in Clients, Grant!Minting(k), k # h PROVE Grant!LineOf(k)' = Grant!LineOf(k)
  <2>1. handler'[k] = handler[k] /\ (handler[k].at = "rotating" => handler[k].pair \in Grant!Pairs)
      BY <1>3, <1>5, <1>9, MintLines
  <2> QED BY <1>9, <2>1 DEF Grant!LineOf, Grant!Minting
<1>10. RequestsFit'
  <2>1. ASSUME NEW k \in Clients
        PROVE  /\ handler'[k].reach \subseteq pairs'
               /\ handler'[k].at \in {"loaded", "burnt", "spending"} => handler'[k].code \in Codes
               /\ handler'[k].at \in {"presented", "rotating"} => handler'[k].pair \in pairs'
    <3>1. CASE k = h
        BY <1>2, <1>3, <3>1
    <3>2. CASE k # h
        BY <1>1, <1>3, <1>5, <3>2 DEF RequestsFit
    <3> QED BY <3>1, <3>2
  <2>2. ASSUME NEW k \in Clients, Grant!Minting(k), k # h
        PROVE  /\ handler'[k].new \in Grant!Pairs \ pairs'
               /\ pair'[handler'[k].new].line = Grant!LineOf(k)'
               /\ \A g \in Clients : Grant!Minting(g) /\ g # h /\ handler'[g].new = handler'[k].new
                                        => g = k
    <3>1. /\ handler[k].new \in Grant!Pairs \ pairs /\ handler[k].new # n
          /\ pair[handler[k].new].line = Grant!LineOf(k)
          /\ \A g \in Clients : Grant!Minting(g) /\ handler[g].new = handler[k].new => g = k
        BY <1>1, <1>7, <2>2 DEF RequestsFit
    <3>2. Grant!LineOf(k)' = Grant!LineOf(k) /\ handler'[k] = handler[k]
        BY <1>3, <1>9, <2>2
    <3> QED BY <1>3, <1>5, <3>1, <3>2
  <2> QED BY <1>7, <2>1, <2>2 DEF RequestsFit, Grant!Pairs
<1>11. \A p : \A k \in MintersOf(p) : p # n => k # h /\ k \in MintersOf(p)'
    BY <1>3, <1>4, <1>7 DEF MintersOf
<1>12. /\ pair[n].line \in Codes /\ pair[n].line # NoCode
       /\ handler[h].at = "spending" => handler[h].code = pair[n].line
       /\ handler[h].at = "rotating" => /\ handler[h].pair \in pairs
                                        /\ pair[handler[h].pair].line = pair[n].line
  <2>1. pair[n].line = Grant!LineOf(h)
      BY <1>1, <1>4, MintersFit
  <2> QED BY <2>1, MintLines
<1>13. PairsHaveLines'
  <2>1. \A p \in pairs' : pair'[p].line # NoCode
      BY <1>1, <1>5, <1>12 DEF PairsHaveLines
  <2>2. \A p \in Grant!Pairs \ pairs' : pair'[p].line # NoCode => MintersOf(p)' # {}
      BY <1>1, <1>5, <1>11 DEF PairsHaveLines
  <2>3. ASSUME NEW c \in Codes, code'[c].st \in {"none", "live"}, NEW p \in PairsOf(c)'
        PROVE  \E k \in MintersOf(p)' : handler'[k].at = "spending"
    <3>1. code[c].st \in {"none", "live"} /\ p \in PairsOf(c)
        BY <1>8, <2>3
    <3>2. PICK k \in MintersOf(p) : handler[k].at = "spending"
        BY <1>1, <3>1 DEF PairsHaveLines
    <3>3. k \in Clients
        BY <3>2 DEF MintersOf
    <3>4. p # n
      <4>1. ASSUME p = n PROVE FALSE
        <5>1. k = h
            BY <1>7, <3>2, <4>1 DEF MintersOf
        <5>2. handler[h].code = c
            BY <1>12, <3>1, <3>2, <4>1, <5>1 DEF PairsOf
        <5> QED BY <2>3, <3>2, <5>1, <5>2
      <4> QED BY <4>1
    <3>5. k # h /\ k \in MintersOf(p)'
        BY <1>11, <3>2, <3>4
    <3>6. handler'[k].at = "spending"
        BY <1>3, <3>2, <3>3, <3>5
    <3> QED BY <3>5, <3>6
  <2> QED BY <2>1, <2>2, <2>3 DEF PairsHaveLines, Grant!Pairs
<1>14. Grant!NeverForks'
  <2>1. \A k \in Clients : k # h => handler'[k] = handler[k]
      BY <1>3
  <2>2. Grant!NeverForks
      BY <1>1
  <2> QED BY <2>1, <2>2, ForksKept
<1>15. WithinConsent'
  <2>1. clock \in Nat /\ RefreshTTL \in Nat
        /\ \A c \in Codes : consented[c] \in Int /\ consented'[c] \in Int
      BY <1>1, GrantColumns DEF GrantTypes
  <2>2. \A c \in Codes : consented[c] <= consented'[c] /\ consented'[c] <= clock
      BY <1>1, <2>1 DEF WithinConsent
  <2>3. \A p \in Grant!Pairs : pair'[p].accessEnds <= pair'[p].ends
      BY <1>1 DEF WithinConsent
  <2>4. ASSUME NEW p \in pairs' PROVE pair'[p].ends <= consented'[pair'[p].line] + RefreshTTL
    <3>1. PICK c \in Codes : c = pair[p].line
      <4>1. CASE p \in pairs
          BY <1>1, <4>1 DEF GrantTypes, PairRows, PairsHaveLines
      <4>2. CASE p = n
          BY <1>12, <4>2
      <4> QED BY <1>5, <4>1, <4>2
    <3>2. p \in Grant!Pairs /\ pair[p].ends \in Nat
        BY <1>1, <1>4, <1>5 DEF GrantTypes, PairRows
    <3>3. CASE p \in pairs \/ handler[h].at = "rotating"
      <4>1. pair[p].ends <= consented[c] + RefreshTTL
        <5>1. CASE p \in pairs
            BY <1>1, <3>1, <5>1 DEF WithinConsent
        <5>2. CASE p = n /\ handler[h].at = "rotating"
          <6>1. handler[h].pair \in pairs /\ pair[handler[h].pair].line = c
              BY <1>12, <3>1, <5>2
          <6>2. pair[p].ends = pair[handler[h].pair].ends
              BY <1>1, <1>4, <5>2 DEF WithinConsent
          <6> QED BY <1>1, <6>1, <6>2 DEF WithinConsent
        <5> QED BY <1>5, <3>3, <5>1, <5>2
      <4>2. pair'[p].ends = pair[p].ends /\ pair'[p].line = c
          BY <3>1, <3>2
      <4>3. PICK u, v \in Int : u = consented[c] /\ v = consented'[c] /\ u <= v
          BY <2>1, <2>2
      <4> QED BY <2>1, <3>2, <4>1, <4>2, <4>3
    <3>4. CASE p = n /\ handler[h].at = "spending"
      <4>1. pair[n].ends <= clock + RefreshTTL
          BY <1>1, <1>4, <3>4 DEF WithinConsent
      <4>2. consented'[c] = clock
          BY <1>12, <3>1, <3>4
      <4> QED BY <3>1, <3>2, <3>4, <4>1, <4>2
    <3> QED BY <1>5, <3>3, <3>4 DEF Grant!Minting
  <2>5. ASSUME NEW k \in Clients
        PROVE  /\ handler'[k].at = "spending" => pair'[handler'[k].new].ends <= clock + RefreshTTL
               /\ handler'[k].at = "rotating" =>
                     pair'[handler'[k].new].ends = pair'[handler'[k].pair].ends
    <3>1. CASE k = h
        BY <1>2, <1>3, <3>1
    <3>2. CASE k # h /\ Grant!Minting(k)
      <4>1. /\ handler[k].at = "spending" => pair[handler[k].new].ends <= clock + RefreshTTL
            /\ handler[k].at = "rotating" => pair[handler[k].new].ends = pair[handler[k].pair].ends
          BY <1>1 DEF WithinConsent
      <4>2. handler[k].new \in Grant!Pairs
            /\ (handler[k].at = "rotating" => handler[k].pair \in Grant!Pairs)
          BY <1>1, <1>5, <3>2, MintersFit, MintLines
      <4>3. handler'[k] = handler[k]
          BY <1>3, <3>2
      <4> QED BY <4>1, <4>2, <4>3
    <3>3. CASE k # h /\ ~Grant!Minting(k)
        BY <1>3, <3>3 DEF Grant!Minting
    <3> QED BY <3>1, <3>2, <3>3
  <2> QED BY <2>2, <2>3, <2>4, <2>5 DEF WithinConsent, Grant!Pairs
<1>16. EndsReach'
  <2>1. ASSUME NEW k \in Clients, handler'[k].at = "revoking", NEW c \in handler'[k].whole
        PROVE  PairsOf(c)' # {} /\ PairsOf(c)' \subseteq handler'[k].reach
    <3>1. k # h /\ handler'[k] = handler[k]
        BY <1>2, <1>3, <2>1
    <3> QED BY <1>1, <1>8, <2>1, <3>1 DEF EndsReach
  <2>2. ASSUME NEW c \in ended
        PROVE  /\ PairsOf(c)' # {} /\ PairsOf(c)' \subseteq pairs'
               /\ \A p \in PairsOf(c)' : pair'[p].access # Grant!Never /\ pair'[p].refresh # Grant!Never
    <3>1. PairsOf(c) \subseteq Grant!Pairs
        BY DEF PairsOf
    <3> QED BY <1>1, <1>5, <1>8, <2>2, <3>1 DEF EndsReach
  <2> QED BY <2>1, <2>2 DEF EndsReach, Grant!Never
<1> QED BY <1>6, <1>10, <1>13, <1>14, <1>15, <1>16 DEF GrantInv

\* A request dies before its commit, and its pair was never there.
LEMMA AbandonKeeps ==
    ASSUME GrantInv, NEW h \in Clients, Grant!AbandonMint(h)
    PROVE  GrantInv'
<1>1. /\ GrantTypes /\ RequestsFit /\ PairsHaveLines /\ Grant!NeverForks /\ WithinConsent
      /\ EndsReach
    BY DEF GrantInv
<1>2. /\ Grant!Idle \in GrantRequests /\ Grant!Idle.at = "idle" /\ Grant!Idle.reach = {}
    BY IdleAsks
<1>3. /\ Grant!Minting(h) /\ handler' = [handler EXCEPT ![h] = Grant!Idle]
      /\ pair' = [pair EXCEPT ![handler[h].new] = Grant!NoPair]
      /\ UNCHANGED <<clock, code, pairs, consented, ended>>
    BY DEF Grant!AbandonMint, Grant!Moves
<1>4. PICK n \in Grant!Pairs \ pairs : n = handler[h].new
    BY <1>1, <1>3, MintersFit
<1>5. /\ Grant!NoPair \in PairRows /\ Grant!NoPair.line = NoCode
      /\ Grant!NoPair.ends = 0 /\ Grant!NoPair.accessEnds = 0
    BY GrantColumns DEF Grant!NoPair, PairRows
<1>6. /\ handler' \in [Clients -> GrantRequests] /\ handler'[h] = Grant!Idle
      /\ \A k \in Clients : k # h => handler'[k] = handler[k]
    BY <1>1, <1>2, <1>3 DEF GrantTypes
<1>7. /\ pair' \in [Grant!Pairs -> PairRows] /\ pair'[n] = Grant!NoPair
      /\ \A p \in Grant!Pairs : p # n => pair'[p] = pair[p]
    BY <1>1, <1>3, <1>4, <1>5 DEF GrantTypes
<1>8. pairs \subseteq Grant!Pairs /\ NoCode \notin Codes
    BY <1>1, GrantColumns DEF GrantTypes
<1>9. GrantTypes'
    BY <1>1, <1>3, <1>6, <1>7 DEF GrantTypes, Grant!Pairs, PairRows, GrantRequests
<1>10. \A k \in Clients : /\ Grant!Minting(k)' <=> Grant!Minting(k) /\ k # h
                          /\ Grant!Minting(k) /\ k # h => handler[k].new # n
    BY <1>1, <1>2, <1>3, <1>4, <1>6, MintersFit DEF Grant!Minting
<1>11. \A c \in Codes : PairsOf(c)' = PairsOf(c) \ {n}
    BY <1>5, <1>7, <1>8 DEF PairsOf, Grant!Pairs
<1>12. ASSUME NEW k \in Clients, Grant!Minting(k), k # h
       PROVE  Grant!LineOf(k)' = Grant!LineOf(k)
  <2>1. handler'[k] = handler[k] /\ (handler[k].at = "rotating" => handler[k].pair \in pairs)
      BY <1>6, <1>12, MintLines
  <2> QED BY <1>4, <1>7, <1>8, <1>12, <2>1 DEF Grant!LineOf, Grant!Minting
<1>13. RequestsFit'
  <2>1. ASSUME NEW k \in Clients
        PROVE  /\ handler'[k].reach \subseteq pairs
               /\ handler'[k].at \in {"loaded", "burnt", "spending"} => handler'[k].code \in Codes
               /\ handler'[k].at \in {"presented", "rotating"} => handler'[k].pair \in pairs
    <3>1. CASE k = h
        BY <1>2, <1>6, <3>1
    <3>2. CASE k # h
        BY <1>1, <1>6, <3>2 DEF RequestsFit
    <3> QED BY <3>1, <3>2
  <2>2. ASSUME NEW k \in Clients, Grant!Minting(k), k # h
        PROVE  /\ handler'[k].new \in Grant!Pairs \ pairs
               /\ pair'[handler'[k].new].line = Grant!LineOf(k)'
               /\ \A g \in Clients : Grant!Minting(g) /\ g # h /\ handler'[g].new = handler'[k].new
                                        => g = k
    <3>1. /\ handler[k].new \in Grant!Pairs \ pairs /\ handler[k].new # n
          /\ pair[handler[k].new].line = Grant!LineOf(k)
          /\ \A g \in Clients : Grant!Minting(g) /\ handler[g].new = handler[k].new => g = k
        BY <1>1, <1>10, <2>2 DEF RequestsFit
    <3>2. Grant!LineOf(k)' = Grant!LineOf(k) /\ handler'[k] = handler[k]
        BY <1>6, <1>12, <2>2
    <3> QED BY <1>6, <1>7, <3>1, <3>2
  <2> QED BY <1>3, <1>10, <2>1, <2>2 DEF RequestsFit, Grant!Pairs
<1>14. \A p : \A k \in MintersOf(p) : p # n => k # h /\ k \in MintersOf(p)'
    BY <1>4, <1>6, <1>10 DEF MintersOf
<1>15. PairsHaveLines'
  <2>1. \A p \in pairs : pair'[p].line # NoCode
      BY <1>1, <1>4, <1>7, <1>8 DEF PairsHaveLines
  <2>2. ASSUME NEW p \in Grant!Pairs \ pairs, pair'[p].line # NoCode PROVE MintersOf(p)' # {}
    <3>1. p # n
        BY <1>5, <1>7, <2>2
    <3>2. MintersOf(p) # {}
        BY <1>1, <1>7, <2>2, <3>1 DEF PairsHaveLines
    <3> QED BY <1>14, <3>1, <3>2
  <2>3. ASSUME NEW c \in Codes, code[c].st \in {"none", "live"}, NEW p \in PairsOf(c)'
        PROVE  \E k \in MintersOf(p)' : handler'[k].at = "spending"
    <3>1. p \in PairsOf(c) /\ p # n
        BY <1>11, <2>3
    <3>2. PICK k \in MintersOf(p) : handler[k].at = "spending"
        BY <1>1, <2>3, <3>1 DEF PairsHaveLines
    <3>3. k \in Clients
        BY <3>2 DEF MintersOf
    <3>4. k # h /\ k \in MintersOf(p)'
        BY <1>14, <3>1, <3>2
    <3> QED BY <1>6, <3>2, <3>3, <3>4
  <2> QED BY <1>3, <2>1, <2>2, <2>3 DEF PairsHaveLines, Grant!Pairs
<1>16. Grant!NeverForks'
  <2>1. ASSUME NEW p \in Grant!Pairs, NEW q \in Grant!Pairs,
               pair'[p].line = pair'[q].line, pair'[p].line # NoCode,
               pair'[p].refresh = Grant!Never, pair'[q].refresh = Grant!Never, p # q
        PROVE  \E k \in Clients : /\ handler'[k].at = "rotating"
                                  /\ {handler'[k].pair, handler'[k].new} = {p, q}
    <3>1. p # n /\ q # n
        BY <1>5, <1>7, <2>1
    <3>2. pair'[p] = pair[p] /\ pair'[q] = pair[q]
        BY <1>7, <2>1, <3>1
    <3>3. PICK k \in Clients : handler[k].at = "rotating" /\ {handler[k].pair, handler[k].new} = {p, q}
        BY <1>1, <2>1, <3>2 DEF Grant!NeverForks
    <3>4. k # h
        BY <1>4, <3>1, <3>3
    <3> QED BY <1>6, <3>3, <3>4
  <2> QED BY <2>1 DEF Grant!NeverForks, Grant!Pairs, Grant!Never
<1>17. WithinConsent'
  <2>1. \A p \in Grant!Pairs : pair'[p].accessEnds <= pair'[p].ends
      BY <1>1, <1>5, <1>7 DEF WithinConsent
  <2>2. \A p \in pairs : pair'[p].ends <= consented[pair'[p].line] + RefreshTTL
      BY <1>1, <1>4, <1>7, <1>8 DEF WithinConsent
  <2>3. ASSUME NEW k \in Clients
        PROVE  /\ handler'[k].at = "spending" => pair'[handler'[k].new].ends <= clock + RefreshTTL
               /\ handler'[k].at = "rotating" =>
                     pair'[handler'[k].new].ends = pair'[handler'[k].pair].ends
    <3>1. CASE k = h
        BY <1>2, <1>6, <3>1
    <3>2. CASE k # h /\ Grant!Minting(k)
      <4>1. /\ handler[k].at = "spending" => pair[handler[k].new].ends <= clock + RefreshTTL
            /\ handler[k].at = "rotating" => pair[handler[k].new].ends = pair[handler[k].pair].ends
          BY <1>1 DEF WithinConsent
      <4>2. /\ handler[k].new \in Grant!Pairs /\ handler[k].new # n
            /\ handler[k].at = "rotating" => handler[k].pair \in Grant!Pairs /\ handler[k].pair # n
          BY <1>1, <1>4, <1>8, <1>10, <3>2, MintersFit, MintLines
      <4>3. handler'[k] = handler[k]
          BY <1>6, <3>2
      <4> QED BY <1>7, <4>1, <4>2, <4>3
    <3>3. CASE k # h /\ ~Grant!Minting(k)
        BY <1>6, <3>3 DEF Grant!Minting
    <3> QED BY <3>1, <3>2, <3>3
  <2>4. \A c \in Codes : consented[c] <= clock
      BY <1>1 DEF WithinConsent
  <2> QED BY <1>3, <2>1, <2>2, <2>3, <2>4 DEF WithinConsent, Grant!Pairs
<1>18. EndsReach'
  <2>1. ASSUME NEW k \in Clients, handler'[k].at = "revoking", NEW c \in handler'[k].whole
        PROVE  PairsOf(c)' # {} /\ PairsOf(c)' \subseteq handler'[k].reach
    <3>1. k # h /\ handler'[k] = handler[k]
        BY <1>2, <1>6, <2>1
    <3>2. PairsOf(c) # {} /\ PairsOf(c) \subseteq handler[k].reach /\ handler[k].reach \subseteq pairs
        BY <1>1, <2>1, <3>1 DEF EndsReach, RequestsFit
    <3>3. c \in Codes
      <4>1. PICK q \in GrantRequests : q = handler[k]
          BY <1>1 DEF GrantTypes
      <4> QED BY <2>1, <3>1, <4>1 DEF GrantRequests
    <3> QED BY <1>4, <1>11, <3>1, <3>2, <3>3
  <2>2. ASSUME NEW c \in ended
        PROVE  /\ PairsOf(c)' # {} /\ PairsOf(c)' \subseteq pairs
               /\ \A p \in PairsOf(c)' : pair'[p].access # Grant!Never /\ pair'[p].refresh # Grant!Never
    <3>1. /\ PairsOf(c) # {} /\ PairsOf(c) \subseteq pairs
          /\ \A p \in PairsOf(c) : pair[p].access # Grant!Never /\ pair[p].refresh # Grant!Never
        BY <1>1, <2>2 DEF EndsReach
    <3>2. PairsOf(c)' = PairsOf(c) /\ n \notin PairsOf(c)
      <4>1. c \in Codes
          BY <1>1, <2>2 DEF GrantTypes
      <4>2. n \notin PairsOf(c)
          BY <1>4, <3>1
      <4>3. PairsOf(c)' = PairsOf(c) \ {n}
          BY <1>11, <4>1
      <4> QED BY <4>2, <4>3
    <3> QED BY <1>7, <1>8, <3>1, <3>2
  <2> QED BY <1>3, <2>1, <2>2 DEF EndsReach, Grant!Never
<1> QED BY <1>9, <1>13, <1>15, <1>16, <1>17, <1>18 DEF GrantInv

\* Time and the prune only end tokens, and a revocation that finishes does too: it ends
\* the lines that it was whole for.
LEMMA GrantAges ==
    ASSUME GrantInv, UNCHANGED <<pairs, consented>>, clock' \in 0 .. MaxTime, clock <= clock',
           pair' \in [Grant!Pairs -> PairRows],
           \A p \in Grant!Pairs :
              /\ pair'[p].line = pair[p].line /\ pair'[p].ends = pair[p].ends
              /\ pair'[p].accessEnds = pair[p].accessEnds
              /\ pair'[p].access = Grant!Never => pair[p].access = Grant!Never
              /\ pair'[p].refresh = Grant!Never => pair[p].refresh = Grant!Never,
           code' \in [Codes -> [st : {"none", "live", "spent", "gone"},
                                ends : 0 .. MaxTime + CodeTTL]],
           \A c \in Codes : code'[c].st \in {code[c].st, "gone"},
           handler' \in [Clients -> GrantRequests],
           \A k \in Clients :
              \/ handler'[k] = handler[k]
              \/ handler[k].at = "revoking" /\ handler'[k] = Grant!Idle,
           ended \subseteq ended', ended' \subseteq Codes,
           \A c \in ended' \ ended :
              /\ PairsOf(c) # {} /\ PairsOf(c) \subseteq pairs
              /\ \A p \in PairsOf(c) : pair'[p].access # Grant!Never
                                       /\ pair'[p].refresh # Grant!Never
    PROVE  GrantInv'
<1>1. /\ GrantTypes /\ RequestsFit /\ PairsHaveLines /\ Grant!NeverForks /\ WithinConsent
      /\ EndsReach
    BY DEF GrantInv
<1>2. /\ Grant!Idle.at = "idle" /\ Grant!Idle.reach = {}
    BY IdleAsks
<1>3. pairs \subseteq Grant!Pairs
    BY <1>1 DEF GrantTypes
<1>4. GrantTypes'
    BY <1>1 DEF GrantTypes, Grant!Pairs, PairRows, GrantRequests
<1>5. ASSUME NEW k \in Clients
      PROVE  \/ handler'[k] = handler[k]
             \/ ~Grant!Minting(k) /\ handler'[k].at = "idle" /\ handler'[k].reach = {}
    BY <1>2 DEF Grant!Minting
<1>6. /\ \A k \in Clients : /\ Grant!Minting(k)' <=> Grant!Minting(k)
                            /\ Grant!Minting(k) => handler'[k] = handler[k]
      /\ \A k \in Clients : handler'[k].at \in {"spending", "rotating"} => Grant!Minting(k)
    BY <1>5 DEF Grant!Minting
<1>7. /\ \A p : MintersOf(p)' = MintersOf(p)
      /\ \A c : PairsOf(c)' = PairsOf(c)
  <2>1. \A p : MintersOf(p)' = MintersOf(p)
      BY <1>6 DEF MintersOf
  <2>2. \A c : PairsOf(c)' = PairsOf(c)
      BY DEF PairsOf, Grant!Pairs
  <2> QED BY <2>1, <2>2
<1>8. ASSUME NEW k \in Clients, Grant!Minting(k) PROVE Grant!LineOf(k)' = Grant!LineOf(k)
  <2>1. handler'[k] = handler[k] /\ (handler[k].at = "rotating" => handler[k].pair \in Grant!Pairs)
      BY <1>3, <1>6, <1>8, MintLines
  <2> QED BY <1>8, <2>1 DEF Grant!LineOf, Grant!Minting
<1>9. RequestsFit'
  <2>1. ASSUME NEW k \in Clients
        PROVE  /\ handler'[k].reach \subseteq pairs
               /\ handler'[k].at \in {"loaded", "burnt", "spending"} => handler'[k].code \in Codes
               /\ handler'[k].at \in {"presented", "rotating"} => handler'[k].pair \in pairs
      BY <1>1, <1>5 DEF RequestsFit
  <2>2. ASSUME NEW k \in Clients, Grant!Minting(k)
        PROVE  /\ handler'[k].new \in Grant!Pairs \ pairs
               /\ pair'[handler'[k].new].line = Grant!LineOf(k)'
               /\ \A g \in Clients : Grant!Minting(g) /\ handler'[g].new = handler'[k].new => g = k
    <3>1. /\ handler[k].new \in Grant!Pairs \ pairs
          /\ pair[handler[k].new].line = Grant!LineOf(k)
          /\ \A g \in Clients : Grant!Minting(g) /\ handler[g].new = handler[k].new => g = k
        BY <1>1, <2>2 DEF RequestsFit
    <3>2. Grant!LineOf(k)' = Grant!LineOf(k) /\ handler'[k] = handler[k]
        BY <1>6, <1>8, <2>2
    <3> QED BY <1>6, <3>1, <3>2
  <2> QED BY <1>6, <2>1, <2>2 DEF RequestsFit, Grant!Pairs
<1>10. PairsHaveLines'
  <2>1. \A p \in pairs : pair'[p].line # NoCode
      BY <1>1, <1>3 DEF PairsHaveLines
  <2>2. \A p \in Grant!Pairs \ pairs : pair'[p].line # NoCode => MintersOf(p)' # {}
      BY <1>1, <1>7 DEF PairsHaveLines
  <2>3. ASSUME NEW c \in Codes, code'[c].st \in {"none", "live"}, NEW p \in PairsOf(c)'
        PROVE  \E k \in MintersOf(p)' : handler'[k].at = "spending"
    <3>1. code[c].st \in {"none", "live"} /\ p \in PairsOf(c)
        BY <1>7, <2>3
    <3>2. PICK k \in MintersOf(p) : handler[k].at = "spending"
        BY <1>1, <3>1 DEF PairsHaveLines
    <3>3. k \in Clients /\ Grant!Minting(k)
        BY <3>2 DEF MintersOf
    <3> QED BY <1>6, <1>7, <3>2, <3>3
  <2> QED BY <2>1, <2>2, <2>3 DEF PairsHaveLines, Grant!Pairs
<1>11. Grant!NeverForks'
  <2>1. ASSUME NEW p \in Grant!Pairs, NEW q \in Grant!Pairs,
               pair'[p].line = pair'[q].line, pair'[p].line # NoCode,
               pair'[p].refresh = Grant!Never, pair'[q].refresh = Grant!Never, p # q
        PROVE  \E k \in Clients : /\ handler'[k].at = "rotating"
                                  /\ {handler'[k].pair, handler'[k].new} = {p, q}
    <3>1. /\ pair[p].line = pair[q].line /\ pair[p].line # NoCode
          /\ pair[p].refresh = Grant!Never /\ pair[q].refresh = Grant!Never
        BY <2>1
    <3>2. PICK k \in Clients : handler[k].at = "rotating" /\ {handler[k].pair, handler[k].new} = {p, q}
        BY <1>1, <2>1, <3>1 DEF Grant!NeverForks
    <3>3. handler'[k] = handler[k]
        BY <1>6, <3>2 DEF Grant!Minting
    <3> QED BY <3>2, <3>3
  <2> QED BY <2>1 DEF Grant!NeverForks, Grant!Pairs, Grant!Never
<1>12. WithinConsent'
  <2>1. \A p \in Grant!Pairs : pair'[p].accessEnds <= pair'[p].ends
      BY <1>1 DEF WithinConsent
  <2>2. \A p \in pairs : pair'[p].ends <= consented[pair'[p].line] + RefreshTTL
      BY <1>1, <1>3 DEF WithinConsent
  <2>3. PICK t, u \in 0 .. MaxTime : t = clock /\ u = clock' /\ t <= u
      BY <1>1 DEF GrantTypes
  <2>4. RefreshTTL \in Nat /\ MaxTime \in Nat
      BY GrantColumns
  <2>5. ASSUME NEW k \in Clients
        PROVE  /\ handler'[k].at = "spending" => pair'[handler'[k].new].ends <= u + RefreshTTL
               /\ handler'[k].at = "rotating" =>
                     pair'[handler'[k].new].ends = pair'[handler'[k].pair].ends
    <3>1. CASE Grant!Minting(k)
      <4>1. /\ handler[k].at = "spending" => pair[handler[k].new].ends <= t + RefreshTTL
            /\ handler[k].at = "rotating" => pair[handler[k].new].ends = pair[handler[k].pair].ends
          BY <1>1, <2>3 DEF WithinConsent
      <4>2. handler[k].new \in Grant!Pairs
            /\ (handler[k].at = "rotating" => handler[k].pair \in Grant!Pairs)
          BY <1>1, <1>3, <3>1, MintersFit, MintLines
      <4>3. PICK v \in Nat : v = pair[handler[k].new].ends
        <5>1. pair[handler[k].new] \in PairRows
            BY <1>1, <4>2 DEF GrantTypes
        <5> QED BY <5>1, <2>4 DEF PairRows
      <4>4. v <= t + RefreshTTL => v <= u + RefreshTTL
          BY <2>3, <2>4, <4>3
      <4>5. handler'[k] = handler[k]
          BY <1>6, <3>1
      <4> QED BY <4>1, <4>2, <4>3, <4>4, <4>5
    <3>2. CASE ~Grant!Minting(k)
        BY <1>6, <3>2
    <3> QED BY <3>1, <3>2
  <2>6. \A c \in Codes : consented[c] <= u
    <3>1. \A c \in Codes : consented[c] <= t /\ consented[c] \in Int
        BY <1>1, <2>3 DEF WithinConsent, GrantTypes
    <3> QED BY <2>3, <2>4, <3>1
  <2> QED BY <2>1, <2>2, <2>3, <2>5, <2>6 DEF WithinConsent, Grant!Pairs
<1>13. EndsReach'
  <2>1. ASSUME NEW k \in Clients, handler'[k].at = "revoking", NEW c \in handler'[k].whole
        PROVE  PairsOf(c)' # {} /\ PairsOf(c)' \subseteq handler'[k].reach
    <3>1. handler'[k] = handler[k]
        BY <1>5, <2>1
    <3> QED BY <1>1, <1>7, <2>1, <3>1 DEF EndsReach
  <2>2. ASSUME NEW c \in ended'
        PROVE  /\ PairsOf(c)' # {} /\ PairsOf(c)' \subseteq pairs'
               /\ \A p \in PairsOf(c)' : pair'[p].access # Grant!Never /\ pair'[p].refresh # Grant!Never
    <3>1. PairsOf(c) \subseteq Grant!Pairs
        BY DEF PairsOf
    <3>2. CASE c \in ended
      <4>1. /\ PairsOf(c) # {} /\ PairsOf(c) \subseteq pairs
            /\ \A p \in PairsOf(c) : pair[p].access # Grant!Never /\ pair[p].refresh # Grant!Never
          BY <1>1, <3>2 DEF EndsReach
      <4> QED BY <1>7, <3>1, <4>1
    <3>3. CASE c \notin ended
        BY <1>7, <2>2, <3>3
    <3> QED BY <3>2, <3>3
  <2> QED BY <2>1, <2>2 DEF EndsReach, Grant!Never
<1> QED BY <1>4, <1>9, <1>10, <1>11, <1>12, <1>13 DEF GrantInv

\* A revocation that is whole for a line has its pairs, all of them committed.
LEMMA RevokingReaches ==
    ASSUME GrantInv
    PROVE  \E to \in GrantRequests :
               /\ to = Grant!Revoking /\ to.at = "revoking" /\ to.reach \subseteq pairs
               /\ \A c \in to.whole : PairsOf(c) # {} /\ PairsOf(c) \subseteq to.reach
<1>1. GrantTypes /\ RequestsFit /\ PairsHaveLines /\ NoCode \notin Codes
    BY GrantColumns DEF GrantInv
<1>2. PICK to \in GrantRequests :
          /\ to = Grant!Revoking /\ to.at = "revoking" /\ to.reach = pairs
          /\ to.whole = {pair[p].line : p \in pairs}
                           \ {Grant!LineOf(k) : k \in {i \in Clients : Grant!Minting(i)}}
    BY <1>1, RevokingIs
<1>3. ASSUME NEW c \in to.whole PROVE PairsOf(c) # {} /\ PairsOf(c) \subseteq to.reach
  <2>1. PICK p \in pairs : pair[p].line = c
      BY <1>2
  <2>2. p \in PairsOf(c) /\ c # NoCode
      BY <1>1, <2>1 DEF GrantTypes, PairsOf, PairsHaveLines
  <2>3. ASSUME NEW q \in PairsOf(c), q \notin pairs PROVE FALSE
    <3>1. q \in Grant!Pairs \ pairs /\ pair[q].line = c
        BY <2>3 DEF PairsOf
    <3>2. PICK k \in MintersOf(q) : TRUE
        BY <1>1, <2>2, <3>1 DEF PairsHaveLines
    <3>3. k \in Clients /\ Grant!Minting(k) /\ handler[k].new = q
        BY <3>2 DEF MintersOf
    <3>4. Grant!LineOf(k) = c
        BY <1>1, <3>1, <3>3, MintersFit
    <3> QED BY <1>2, <3>3, <3>4
  <2> QED BY <1>2, <2>2, <2>3
<1> QED BY <1>2, <1>3

\* A request revokes.
LEMMA RevokeKeeps ==
    ASSUME GrantInv, NEW h \in Clients, ~Grant!Minting(h), Grant!Moves(h, Grant!Revoking),
           UNCHANGED <<clock, code, pairs, pair, consented, ended>>
    PROVE  GrantInv'
<1>1. PICK to \in GrantRequests :
          /\ to = Grant!Revoking /\ to.at = "revoking" /\ to.reach \subseteq pairs
          /\ \A c \in to.whole : PairsOf(c) # {} /\ PairsOf(c) \subseteq to.reach
    BY RevokingReaches
<1>2. handler' = [handler EXCEPT ![h] = to]
    BY <1>1 DEF Grant!Moves
<1>3. code \in [Codes -> [st : {"none", "live", "spent", "gone"}, ends : 0 .. MaxTime + CodeTTL]]
    BY DEF GrantInv, GrantTypes
<1> QED BY <1>1, <1>2, <1>3, GrantMoves

\* A request gives up.
LEMMA IdleKeeps ==
    ASSUME GrantInv, NEW h \in Clients, ~Grant!Minting(h), Grant!Moves(h, Grant!Idle),
           UNCHANGED <<clock, code, pairs, pair, consented, ended>>
    PROVE  GrantInv'
<1>1. PICK to \in GrantRequests : to = Grant!Idle /\ to.at = "idle" /\ to.reach = {}
    BY IdleAsks
<1>2. handler' = [handler EXCEPT ![h] = to]
    BY <1>1 DEF Grant!Moves
<1>3. code \in [Codes -> [st : {"none", "live", "spent", "gone"}, ends : 0 .. MaxTime + CodeTTL]]
    BY DEF GrantInv, GrantTypes
<1> QED BY <1>1, <1>2, <1>3, GrantMoves

\* A person approves a client.
LEMMA ApproveKeeps ==
    ASSUME GrantInv, NEW c \in Codes, Grant!Approve(c)
    PROVE  GrantInv'
<1>1. /\ GrantTypes /\ RequestsFit /\ PairsHaveLines /\ Grant!NeverForks /\ WithinConsent
      /\ EndsReach
    BY DEF GrantInv
<1>2. /\ code[c].st = "none" /\ UNCHANGED <<clock, pairs, pair, handler, consented, ended>>
      /\ code' = [code EXCEPT ![c] = [st |-> "live", ends |-> clock + CodeTTL]]
    BY DEF Grant!Approve
<1>3. clock + CodeTTL \in 0 .. MaxTime + CodeTTL
    BY <1>1, GrantColumns DEF GrantTypes
<1>4. PICK new \in [st : {"none", "live", "spent", "gone"}, ends : 0 .. MaxTime + CodeTTL] :
          new = [st |-> "live", ends |-> clock + CodeTTL]
    BY <1>3
<1>5. /\ code' \in [Codes -> [st : {"none", "live", "spent", "gone"}, ends : 0 .. MaxTime + CodeTTL]]
      /\ \A d \in Codes : d # c => code'[d] = code[d]
    BY <1>1, <1>2, <1>4 DEF GrantTypes
<1>6. \A k \in Clients : Grant!Minting(k)' <=> Grant!Minting(k)
    BY <1>2 DEF Grant!Minting
<1>7. /\ \A p : MintersOf(p)' = MintersOf(p)
      /\ \A d : PairsOf(d)' = PairsOf(d)
    BY <1>2, <1>6 DEF MintersOf, PairsOf, Grant!Pairs
<1>8. GrantTypes'
    BY <1>1, <1>2, <1>5 DEF GrantTypes, Grant!Pairs, PairRows, GrantRequests
<1>9. RequestsFit'
    BY <1>1, <1>2 DEF RequestsFit, Grant!Minting, Grant!LineOf, Grant!Pairs
<1>10. PairsHaveLines'
  <2>1. \A p \in pairs : pair[p].line # NoCode
      BY <1>1 DEF PairsHaveLines
  <2>2. \A p \in Grant!Pairs \ pairs : pair[p].line # NoCode => MintersOf(p) # {}
      BY <1>1 DEF PairsHaveLines
  <2>3. ASSUME NEW d \in Codes, code'[d].st \in {"none", "live"}, NEW p \in PairsOf(d)
        PROVE  \E k \in MintersOf(p) : handler[k].at = "spending"
    <3>1. code[d].st \in {"none", "live"}
        BY <1>2, <1>5, <2>3
    <3> QED BY <1>1, <2>3, <3>1 DEF PairsHaveLines
  <2> QED BY <1>2, <1>7, <2>1, <2>2, <2>3 DEF PairsHaveLines, Grant!Pairs
<1>11. Grant!NeverForks'
    BY <1>1, <1>2 DEF Grant!NeverForks, Grant!Pairs, Grant!Never
<1>12. WithinConsent'
    BY <1>1, <1>2 DEF WithinConsent, Grant!Pairs
<1>13. EndsReach'
    BY <1>1, <1>2, <1>7 DEF EndsReach, Grant!Never
<1> QED BY <1>8, <1>9, <1>10, <1>11, <1>12, <1>13 DEF GrantInv

\* A code is loaded: a spent one revokes the grant.
LEMMA LoadCodeKeeps ==
    ASSUME GrantInv, NEW h \in Clients, NEW c \in Codes, Grant!LoadCode(h, c)
    PROVE  GrantInv'
<1>1. handler[h] = Grant!Idle /\ UNCHANGED <<clock, code, pairs, pair, consented, ended>>
    BY DEF Grant!LoadCode
<1>2. ~Grant!Minting(h)
    BY <1>1, IdleAsks DEF Grant!Minting
<1>3. CASE Grant!Moves(h, Grant!Revoking)
    BY <1>1, <1>2, <1>3, RevokeKeeps
<1>4. CASE Grant!Moves(h, [Grant!Idle EXCEPT !.at = "loaded", !.code = c])
  <2>1. PICK to \in GrantRequests : to = Asks("loaded", c, 0, 0, {}, {}) /\ to.at = "loaded"
                                    /\ to.code = c /\ to.reach = {}
      BY AsksAre, GrantColumns DEF Grant!Steps
  <2>2. [Grant!Idle EXCEPT !.at = "loaded", !.code = c] = to
    <3> DEFINE a == [Grant!Idle EXCEPT !.at = "loaded"]
    <3>1. a = Asks("loaded", NoCode, 0, 0, {}, {})
        BY DEF Grant!Idle, Asks
    <3> HIDE DEF a
    <3>2. [a EXCEPT !.code = c] = to
        BY <2>1, <3>1 DEF Asks
    <3>3. [Grant!Idle EXCEPT !.at = "loaded", !.code = c] = [a EXCEPT !.code = c]
        BY DEF a
    <3> QED BY <3>2, <3>3
  <2>3. handler' = [handler EXCEPT ![h] = to]
      BY <1>4, <2>2 DEF Grant!Moves
  <2>4. code \in [Codes -> [st : {"none", "live", "spent", "gone"}, ends : 0 .. MaxTime + CodeTTL]]
      BY DEF GrantInv, GrantTypes
  <2> QED BY <1>1, <1>2, <2>1, <2>3, <2>4, GrantMoves
<1> QED BY <1>3, <1>4 DEF Grant!LoadCode

\* A loaded code is burnt.
LEMMA BurnKeeps ==
    ASSUME GrantInv, NEW h \in Clients, Grant!BurnCode(h)
    PROVE  GrantInv'
<1>1. GrantTypes /\ RequestsFit
    BY DEF GrantInv
<1>2. PICK q \in GrantRequests : q = handler[h]
    BY <1>1 DEF GrantTypes
<1>3. /\ q.at = "loaded" /\ code' = [code EXCEPT ![q.code].ends = clock]
      /\ handler' = [handler EXCEPT ![h].at = "burnt"]
      /\ UNCHANGED <<clock, pairs, pair, consented, ended>>
    BY <1>2 DEF Grant!BurnCode
<1>4. q.code \in Codes /\ q.reach \subseteq pairs
    BY <1>1, <1>2, <1>3 DEF RequestsFit
<1>5. ~Grant!Minting(h)
    BY <1>2, <1>3 DEF Grant!Minting
<1>6. PICK to \in GrantRequests : /\ to = [q EXCEPT !.at = "burnt"] /\ to.at = "burnt"
                                  /\ to.code = q.code /\ to.reach = q.reach
  <2>1. /\ [q EXCEPT !.at = "burnt"] \in GrantRequests /\ [q EXCEPT !.at = "burnt"].at = "burnt"
        /\ [q EXCEPT !.at = "burnt"].code = q.code /\ [q EXCEPT !.at = "burnt"].reach = q.reach
      BY DEF GrantRequests, Grant!Steps
  <2> QED BY <2>1
<1>7. handler' = [handler EXCEPT ![h] = to]
    BY <1>2, <1>3, <1>6
<1>8. /\ code' \in [Codes -> [st : {"none", "live", "spent", "gone"}, ends : 0 .. MaxTime + CodeTTL]]
      /\ \A d \in Codes : code'[d].st = code[d].st
  <2>1. clock \in 0 .. MaxTime + CodeTTL
      BY <1>1, GrantColumns DEF GrantTypes
  <2>2. PICK row_ \in [st : {"none", "live", "spent", "gone"}, ends : 0 .. MaxTime + CodeTTL] :
            row_ = code[q.code]
      BY <1>1, <1>4 DEF GrantTypes
  <2>3. PICK new \in [st : {"none", "live", "spent", "gone"}, ends : 0 .. MaxTime + CodeTTL] :
            new = [row_ EXCEPT !.ends = clock] /\ new.st = row_.st
    <3>1. /\ [row_ EXCEPT !.ends = clock] \in
                 [st : {"none", "live", "spent", "gone"}, ends : 0 .. MaxTime + CodeTTL]
          /\ [row_ EXCEPT !.ends = clock].st = row_.st
        BY <2>1
    <3> QED BY <3>1
  <2>4. code' = [code EXCEPT ![q.code] = new]
      BY <1>3, <2>2, <2>3
  <2> QED BY <1>1, <1>4, <2>2, <2>3, <2>4 DEF GrantTypes
<1> QED BY <1>3, <1>4, <1>5, <1>6, <1>7, <1>8, GrantMoves

\* A refresh token is presented: a revoked one revokes the grant.
LEMMA PresentKeeps ==
    ASSUME GrantInv, NEW h \in Clients, NEW p \in Grant!Pairs, Grant!PresentRefresh(h, p)
    PROVE  GrantInv'
<1>1. /\ handler[h] = Grant!Idle /\ p \in pairs
      /\ UNCHANGED <<clock, code, pairs, pair, consented, ended>>
    BY DEF Grant!PresentRefresh
<1>2. ~Grant!Minting(h)
    BY <1>1, IdleAsks DEF Grant!Minting
<1>3. CASE Grant!Moves(h, Grant!Revoking)
    BY <1>1, <1>2, <1>3, RevokeKeeps
<1>4. CASE Grant!Moves(h, [Grant!Idle EXCEPT !.at = "presented", !.pair = p])
  <2>1. PICK to \in GrantRequests : to = Asks("presented", NoCode, p, 0, {}, {})
                                    /\ to.at = "presented" /\ to.pair = p /\ to.reach = {}
      BY AsksAre, GrantColumns DEF Grant!Steps
  <2>2. [Grant!Idle EXCEPT !.at = "presented", !.pair = p] = to
    <3> DEFINE a == [Grant!Idle EXCEPT !.at = "presented"]
    <3>1. a = Asks("presented", NoCode, 0, 0, {}, {})
        BY DEF Grant!Idle, Asks
    <3> HIDE DEF a
    <3>2. [a EXCEPT !.pair = p] = to
        BY <2>1, <3>1 DEF Asks
    <3>3. [Grant!Idle EXCEPT !.at = "presented", !.pair = p] = [a EXCEPT !.pair = p]
        BY DEF a
    <3> QED BY <3>2, <3>3
  <2>3. handler' = [handler EXCEPT ![h] = to]
      BY <1>4, <2>2 DEF Grant!Moves
  <2>4. code \in [Codes -> [st : {"none", "live", "spent", "gone"}, ends : 0 .. MaxTime + CodeTTL]]
      BY DEF GrantInv, GrantTypes
  <2> QED BY <1>1, <1>2, <2>1, <2>3, <2>4, GrantMoves
<1> QED BY <1>3, <1>4 DEF Grant!PresentRefresh

\* The time of a new pair, and how long its access token lasts.
LEMMA PairEnds ==
    ASSUME NEW t \in 0 .. MaxTime, NEW e \in 0 .. MaxTime + RefreshTTL
    PROVE  /\ t + RefreshTTL \in 0 .. MaxTime + RefreshTTL
           /\ Grant!Least(t + AccessTTL, e) \in 0 .. MaxTime + RefreshTTL
           /\ Grant!Least(t + AccessTTL, e) <= e
<1>1. MaxTime \in Nat /\ RefreshTTL \in Nat /\ AccessTTL \in Nat
    BY GrantColumns
<1> QED BY <1>1 DEF Grant!Least

\* The request that a mint goes on as.
MintAs(q, a, n) == [q EXCEPT !.at = a, !.new = n]

\* It is a request on the same code or pair.
LEMMA MintingIs ==
    ASSUME NEW q \in GrantRequests, NEW n \in Grant!Pairs, NEW a \in {"spending", "rotating"}
    PROVE  \E to \in GrantRequests :
               /\ to = MintAs(q, a, n)
               /\ to.at = a /\ to.new = n /\ to.code = q.code /\ to.pair = q.pair
               /\ to.reach = q.reach
<1>1. PICK s \in GrantRequests : /\ s = [q EXCEPT !.at = a] /\ s.at = a /\ s.code = q.code
                                 /\ s.pair = q.pair /\ s.reach = q.reach
  <2>1. /\ [q EXCEPT !.at = a] \in GrantRequests /\ [q EXCEPT !.at = a].at = a
        /\ [q EXCEPT !.at = a].code = q.code /\ [q EXCEPT !.at = a].pair = q.pair
        /\ [q EXCEPT !.at = a].reach = q.reach
      BY DEF GrantRequests, Grant!Steps
  <2> QED BY <2>1
<1>2. n \in 0 .. NPairs
    BY GrantColumns
<1>3. /\ [s EXCEPT !.new = n] \in GrantRequests /\ [s EXCEPT !.new = n].at = s.at
      /\ [s EXCEPT !.new = n].new = n
      /\ [s EXCEPT !.new = n].code = s.code /\ [s EXCEPT !.new = n].pair = s.pair
      /\ [s EXCEPT !.new = n].reach = s.reach
    BY <1>2 DEF GrantRequests
<1>4. [q EXCEPT !.at = a, !.new = n] = [s EXCEPT !.new = n]
    BY <1>1
<1> QED BY <1>1, <1>3, <1>4 DEF MintAs

\* A burnt code is spent, once: whoever is late revokes the grant.
LEMMA SpendKeeps ==
    ASSUME GrantInv, NEW h \in Clients, Grant!SpendCode(h)
    PROVE  GrantInv'
<1>1. GrantTypes /\ RequestsFit /\ PairsHaveLines
    BY DEF GrantInv
<1>2. PICK q \in GrantRequests : q = handler[h]
    BY <1>1 DEF GrantTypes
<1>3. /\ q.at = "burnt" /\ UNCHANGED <<clock, code, pairs, consented, ended>>
      /\ \A k \in Clients : handler[k].at = "spending" => handler[k].code # q.code
    BY <1>2 DEF Grant!SpendCode
<1>4. q.code \in Codes /\ q.reach \subseteq pairs /\ ~Grant!Minting(h)
    BY <1>1, <1>2, <1>3 DEF RequestsFit, Grant!Minting
<1>5. CASE code[q.code].st = "live"
  <2>1. /\ Grant!Free # {}
        /\ Grant!Mints(h, q.code, [q EXCEPT !.at = "spending", !.new = Grant!NextPair])
        /\ Grant!Issue(Grant!NextPair, q.code, clock + RefreshTTL)
      BY <1>2, <1>5 DEF Grant!SpendCode
  <2>2. PICK n \in Grant!Free : n = Grant!NextPair /\ n \in Grant!Pairs
      BY <2>1, NextIsFree
  <2>3. PICK to \in GrantRequests :
            /\ to = MintAs(q, "spending", n)
            /\ to.at = "spending" /\ to.new = n /\ to.code = q.code /\ to.reach = q.reach
      BY <2>2, MintingIs
  <2>4. PICK c \in Codes : c = q.code
      BY <1>4
  <2>5. PICK e \in 0 .. MaxTime + RefreshTTL : e = clock + RefreshTTL
      BY <1>1, GrantColumns DEF GrantTypes
  <2>6. PICK a \in 0 .. MaxTime + RefreshTTL : a = Grant!Least(clock + AccessTTL, e) /\ a <= e
      BY <1>1, PairEnds DEF GrantTypes
  <2>7. handler' = [k \in Clients |-> IF k = h THEN to
                                      ELSE [handler[k] EXCEPT !.whole = @ \ {c}]]
      BY <2>1, <2>2, <2>3, <2>4 DEF Grant!Mints, MintAs
  <2>8. pair' = [pair EXCEPT ![n] = PairRow(c, e, a, Grant!Never, Grant!Never)]
      BY <2>1, <2>2, <2>4, <2>5, <2>6 DEF Grant!Issue, PairRow
  <2>9. PairsOf(c) = {}
    <3>1. ASSUME NEW p \in PairsOf(c) PROVE FALSE
      <4>1. PICK k \in MintersOf(p) : handler[k].at = "spending"
          BY <1>1, <1>5, <2>4 DEF PairsHaveLines
      <4>2. k \in Clients /\ Grant!Minting(k) /\ handler[k].new = p
          BY <4>1 DEF MintersOf
      <4>3. pair[p].line = Grant!LineOf(k)
          BY <1>1, <4>2, MintersFit
      <4>4. handler[k].code = c
          BY <4>1, <4>3 DEF PairsOf, Grant!LineOf
      <4> QED BY <1>3, <2>4, <4>1, <4>2, <4>4
    <3> QED BY <3>1
  <2> QED BY <1>3, <1>4, <2>3, <2>4, <2>5, <2>6, <2>7, <2>8, <2>9, GrantMints
<1>6. CASE code[q.code].st # "live"
  <2>1. /\ UNCHANGED pair
        /\ Grant!Moves(h, IF code[q.code].st = "spent" THEN Grant!Revoking ELSE Grant!Idle)
      BY <1>2, <1>6 DEF Grant!SpendCode
  <2>2. CASE code[q.code].st = "spent"
      BY <1>3, <1>4, <2>1, <2>2, RevokeKeeps
  <2>3. CASE code[q.code].st # "spent"
      BY <1>3, <1>4, <2>1, <2>3, IdleKeeps
  <2> QED BY <2>2, <2>3
<1> QED BY <1>5, <1>6

\* A refresh token is rotated by whoever flips it.
LEMMA RotateKeeps ==
    ASSUME GrantInv, NEW h \in Clients, Grant!Rotate(h)
    PROVE  GrantInv'
<1>1. GrantTypes /\ RequestsFit /\ PairsHaveLines
    BY DEF GrantInv
<1>2. PICK q \in GrantRequests : q = handler[h]
    BY <1>1 DEF GrantTypes
<1>3. /\ q.at = "presented" /\ UNCHANGED <<clock, code, pairs, consented, ended>>
      /\ \A k \in Clients : handler[k].at = "rotating" => handler[k].pair # q.pair
    BY <1>2 DEF Grant!Rotate
<1>4. q.pair \in pairs /\ q.reach \subseteq pairs /\ ~Grant!Minting(h)
    BY <1>1, <1>2, <1>3 DEF RequestsFit, Grant!Minting
<1>5. CASE Grant!Valid(q.pair)
  <2>1. /\ Grant!Free # {}
        /\ Grant!Mints(h, pair[q.pair].line,
                       [q EXCEPT !.at = "rotating", !.new = Grant!NextPair])
        /\ Grant!Issue(Grant!NextPair, pair[q.pair].line, pair[q.pair].ends)
      BY <1>2, <1>5 DEF Grant!Rotate
  <2>2. PICK n \in Grant!Free : n = Grant!NextPair /\ n \in Grant!Pairs
      BY <2>1, NextIsFree
  <2>3. PICK to \in GrantRequests :
            /\ to = MintAs(q, "rotating", n)
            /\ to.at = "rotating" /\ to.new = n /\ to.pair = q.pair /\ to.reach = q.reach
      BY <2>2, MintingIs
  <2>4. PICK c \in Codes : c = pair[q.pair].line
      BY <1>1, <1>4 DEF GrantTypes, PairRows, PairsHaveLines
  <2>5. PICK e \in 0 .. MaxTime + RefreshTTL : e = pair[q.pair].ends
      BY <1>1, <1>4 DEF GrantTypes, PairRows
  <2>6. PICK a \in 0 .. MaxTime + RefreshTTL : a = Grant!Least(clock + AccessTTL, e) /\ a <= e
      BY <1>1, PairEnds DEF GrantTypes
  <2>7. handler' = [k \in Clients |-> IF k = h THEN to
                                      ELSE [handler[k] EXCEPT !.whole = @ \ {c}]]
      BY <2>1, <2>2, <2>3, <2>4 DEF Grant!Mints, MintAs
  <2>8. pair' = [pair EXCEPT ![n] = PairRow(c, e, a, Grant!Never, Grant!Never)]
      BY <2>1, <2>2, <2>4, <2>5, <2>6 DEF Grant!Issue, PairRow
  <2>9. pair[q.pair].refresh = Grant!Never
      BY <1>5 DEF Grant!Valid
  <2>10. \/ to.at = "spending" /\ to.code = c /\ PairsOf(c) = {} /\ e = clock + RefreshTTL
         \/ /\ to.at = "rotating" /\ to.pair \in pairs /\ pair[to.pair].line = c
            /\ pair[to.pair].refresh = Grant!Never /\ pair[to.pair].ends = e
            /\ \A k \in Clients : handler[k].at = "rotating" => handler[k].pair # to.pair
      BY <1>3, <1>4, <2>3, <2>4, <2>5, <2>9
  <2>11. to.reach \subseteq pairs
      BY <1>4, <2>3
  <2> QED BY <1>3, <1>4, <2>3, <2>6, <2>7, <2>8, <2>10, <2>11, GrantMints
<1>6. CASE ~Grant!Valid(q.pair)
  <2>1. Grant!Moves(h, Grant!Idle) /\ UNCHANGED pair
      BY <1>2, <1>6 DEF Grant!Rotate
  <2> QED BY <1>3, <1>4, <2>1, IdleKeeps
<1> QED BY <1>5, <1>6

\* An exchange commits: the code is spent, and the consent dated.
LEMMA ExchangeKeeps ==
    ASSUME GrantInv, NEW h \in Clients, Grant!CommitExchange(h)
    PROVE  GrantInv'
<1>1. GrantTypes /\ RequestsFit
    BY DEF GrantInv
<1>2. PICK q \in GrantRequests : q = handler[h]
    BY <1>1 DEF GrantTypes
<1>3. /\ q.at = "spending" /\ code' = [code EXCEPT ![q.code].st = "spent"]
      /\ consented' = [consented EXCEPT ![q.code] = clock]
      /\ pairs' = pairs \cup {q.new} /\ UNCHANGED <<clock, pair, ended>>
      /\ handler' = [handler EXCEPT ![h] = Grant!Idle]
    BY <1>2 DEF Grant!CommitExchange, Grant!Moves
<1>4. q.code \in Codes /\ Grant!Minting(h)
    BY <1>1, <1>2, <1>3 DEF RequestsFit, Grant!Minting
<1>5. /\ code' \in [Codes -> [st : {"none", "live", "spent", "gone"}, ends : 0 .. MaxTime + CodeTTL]]
      /\ code'[q.code].st = "spent" /\ \A c \in Codes : c # q.code => code'[c] = code[c]
  <2>1. PICK row_ \in [st : {"none", "live", "spent", "gone"}, ends : 0 .. MaxTime + CodeTTL] :
            row_ = code[q.code]
      BY <1>1, <1>4 DEF GrantTypes
  <2>2. PICK new \in [st : {"none", "live", "spent", "gone"}, ends : 0 .. MaxTime + CodeTTL] :
            new = [row_ EXCEPT !.st = "spent"] /\ new.st = "spent"
    <3>1. /\ [row_ EXCEPT !.st = "spent"] \in
                 [st : {"none", "live", "spent", "gone"}, ends : 0 .. MaxTime + CodeTTL]
          /\ [row_ EXCEPT !.st = "spent"].st = "spent"
        OBVIOUS
    <3> QED BY <3>1
  <2>3. code' = [code EXCEPT ![q.code] = new]
      BY <1>3, <2>1, <2>2
  <2> QED BY <1>1, <1>4, <2>2, <2>3 DEF GrantTypes
<1>6. /\ consented' \in [Codes -> -1 .. MaxTime] /\ consented'[q.code] = clock
      /\ \A c \in Codes : c # q.code => consented'[c] = consented[c]
  <2>1. clock \in -1 .. MaxTime
      BY <1>1, GrantColumns DEF GrantTypes
  <2> QED BY <1>1, <1>3, <1>4, <2>1 DEF GrantTypes
<1>7. /\ pair' \in [Grant!Pairs -> PairRows]
      /\ \A p \in Grant!Pairs : pair'[p] = pair[p]
    BY <1>1, <1>3 DEF GrantTypes
<1>8. /\ \A c \in Codes : code'[c].st \in {code[c].st, "spent"}
      /\ \A c \in Codes : consented'[c] \in {consented[c], clock}
    BY <1>5, <1>6
<1> QED BY <1>2, <1>3, <1>4, <1>5, <1>6, <1>7, <1>8, GrantCommits

\* A rotation commits: the token it rotated is dead.
LEMMA RotationKeeps ==
    ASSUME GrantInv, NEW h \in Clients, Grant!CommitRotation(h)
    PROVE  GrantInv'
<1>1. GrantTypes /\ RequestsFit
    BY DEF GrantInv
<1>2. PICK q \in GrantRequests : q = handler[h]
    BY <1>1 DEF GrantTypes
<1>3. /\ q.at = "rotating" /\ pair' = [pair EXCEPT ![q.pair].refresh = clock]
      /\ pairs' = pairs \cup {q.new} /\ UNCHANGED <<clock, code, consented, ended>>
      /\ handler' = [handler EXCEPT ![h] = Grant!Idle]
    BY <1>2 DEF Grant!CommitRotation, Grant!Moves
<1>4. q.pair \in Grant!Pairs /\ Grant!Minting(h)
    BY <1>1, <1>2, <1>3 DEF RequestsFit, GrantTypes, Grant!Minting
<1>5. PICK row_ \in PairRows : row_ = pair[q.pair]
    BY <1>1, <1>4 DEF GrantTypes
<1>6. clock \in Grant!Gone .. MaxTime /\ clock # Grant!Never
    BY <1>1, GrantColumns DEF GrantTypes
<1>7. PICK new \in PairRows :
          /\ new = [row_ EXCEPT !.refresh = clock] /\ new.refresh = clock
          /\ new.line = row_.line /\ new.ends = row_.ends
          /\ new.accessEnds = row_.accessEnds /\ new.access = row_.access
  <2>1. /\ [row_ EXCEPT !.refresh = clock] \in PairRows
        /\ [row_ EXCEPT !.refresh = clock].refresh = clock
        /\ [row_ EXCEPT !.refresh = clock].line = row_.line
        /\ [row_ EXCEPT !.refresh = clock].ends = row_.ends
        /\ [row_ EXCEPT !.refresh = clock].accessEnds = row_.accessEnds
        /\ [row_ EXCEPT !.refresh = clock].access = row_.access
      BY <1>6 DEF PairRows
  <2> QED BY <2>1
<1>8. pair' = [pair EXCEPT ![q.pair] = new]
    BY <1>3, <1>5, <1>7
<1>9. /\ pair' \in [Grant!Pairs -> PairRows] /\ pair'[q.pair] = new
      /\ \A p \in Grant!Pairs : p # q.pair => pair'[p] = pair[p]
    BY <1>1, <1>4, <1>8 DEF GrantTypes
<1>10. \A p \in Grant!Pairs :
           /\ pair'[p].line = pair[p].line /\ pair'[p].ends = pair[p].ends
           /\ pair'[p].accessEnds = pair[p].accessEnds /\ pair'[p].access = pair[p].access
           /\ pair'[p].refresh # pair[p].refresh => pair'[p].refresh # Grant!Never
    BY <1>5, <1>6, <1>7, <1>9
<1>11. /\ code' \in [Codes -> [st : {"none", "live", "spent", "gone"}, ends : 0 .. MaxTime + CodeTTL]]
       /\ consented' \in [Codes -> -1 .. MaxTime]
       /\ \A c \in Codes : code'[c].st \in {code[c].st, "spent"}
       /\ \A c \in Codes : consented'[c] \in {consented[c], clock}
    BY <1>1, <1>3 DEF GrantTypes
<1> QED BY <1>2, <1>3, <1>4, <1>6, <1>7, <1>9, <1>10, <1>11, GrantCommits

\* The clock moves.
LEMMA TickKeeps ==
    ASSUME GrantInv, Grant!Tick
    PROVE  GrantInv'
<1>1. GrantTypes
    BY DEF GrantInv
<1>2. /\ clock < MaxTime /\ clock' = clock + 1
      /\ UNCHANGED <<code, pairs, pair, handler, consented, ended>>
    BY DEF Grant!Tick
<1>3. clock' \in 0 .. MaxTime /\ clock <= clock'
    BY <1>1, <1>2, GrantColumns DEF GrantTypes
<1>4. /\ code' \in [Codes -> [st : {"none", "live", "spent", "gone"}, ends : 0 .. MaxTime + CodeTTL]]
      /\ pair' \in [Grant!Pairs -> PairRows] /\ handler' \in [Clients -> GrantRequests]
      /\ ended' \subseteq Codes
    BY <1>1, <1>2 DEF GrantTypes
<1> QED BY <1>2, <1>3, <1>4, GrantAges

\* The prune only forgets.
LEMMA PruneKeeps ==
    ASSUME GrantInv, Grant!Prune
    PROVE  GrantInv'
<1>1. GrantTypes
    BY DEF GrantInv
<1>2. UNCHANGED <<clock, pairs, handler, consented, ended>>
    BY DEF Grant!Prune
<1>3. clock' \in 0 .. MaxTime /\ clock <= clock'
    BY <1>1, <1>2, GrantColumns DEF GrantTypes
<1>4. /\ code' \in [Codes -> [st : {"none", "live", "spent", "gone"}, ends : 0 .. MaxTime + CodeTTL]]
      /\ \A c \in Codes : code'[c].st \in {code[c].st, "gone"}
  <2>1. ASSUME NEW c \in Codes
        PROVE  /\ code'[c] \in [st : {"none", "live", "spent", "gone"}, ends : 0 .. MaxTime + CodeTTL]
               /\ code'[c].st \in {code[c].st, "gone"}
    <3>1. PICK row_ \in [st : {"none", "live", "spent", "gone"}, ends : 0 .. MaxTime + CodeTTL] :
              row_ = code[c]
        BY <1>1 DEF GrantTypes
    <3>2. /\ [row_ EXCEPT !.st = "gone"] \in
                 [st : {"none", "live", "spent", "gone"}, ends : 0 .. MaxTime + CodeTTL]
          /\ [row_ EXCEPT !.st = "gone"].st = "gone"
        OBVIOUS
    <3>3. code'[c] = [row_ EXCEPT !.st = "gone"] \/ code'[c] = row_
        BY <3>1 DEF Grant!Prune
    <3> QED BY <3>1, <3>2, <3>3
  <2>2. code' = [c \in Codes |-> code'[c]]
      BY DEF Grant!Prune
  <2> QED BY <2>1, <2>2
<1>5. ASSUME NEW p \in Grant!Pairs
      PROVE  /\ pair'[p] \in PairRows
             /\ pair'[p].line = pair[p].line /\ pair'[p].ends = pair[p].ends
             /\ pair'[p].accessEnds = pair[p].accessEnds
             /\ pair'[p].access = Grant!Never => pair[p].access = Grant!Never
             /\ pair'[p].refresh = Grant!Never => pair[p].refresh = Grant!Never
  <2>1. PICK row_ \in PairRows : row_ = pair[p]
      BY <1>1 DEF GrantTypes
  <2>2. PICK x \in Grant!Gone .. MaxTime :
            /\ x = IF Grant!Old(row_.access) \/ Grant!Old(row_.accessEnds) THEN Grant!Gone
                   ELSE row_.access
            /\ x = Grant!Never => row_.access = Grant!Never
      BY <2>1, GrantColumns DEF PairRows
  <2>3. PICK y \in Grant!Gone .. MaxTime :
            /\ y = IF Grant!Old(row_.refresh) \/ Grant!Old(row_.ends) THEN Grant!Gone
                   ELSE row_.refresh
            /\ y = Grant!Never => row_.refresh = Grant!Never
      BY <2>1, GrantColumns DEF PairRows
  <2>4. CASE p \notin pairs
    <3>1. pair'[p] = pair[p]
        BY <2>4 DEF Grant!Prune
    <3> QED BY <2>1, <3>1
  <2>5. CASE p \in pairs
    <3> DEFINE a == [row_ EXCEPT !.access = x]
               b == [a EXCEPT !.refresh = y]
    <3>1. a \in PairRows /\ a.access = x /\ a.refresh = row_.refresh /\ a.line = row_.line
          /\ a.ends = row_.ends /\ a.accessEnds = row_.accessEnds
        BY DEF PairRows
    <3>2. pair'[p] = [pair[p] EXCEPT
                 !.access  = IF Grant!Old(@) \/ Grant!Old(pair[p].accessEnds) THEN Grant!Gone ELSE @,
                 !.refresh = IF Grant!Old(@) \/ Grant!Old(pair[p].ends) THEN Grant!Gone ELSE @]
        BY <2>5 DEF Grant!Prune
    <3>3. pair'[p] = [row_ EXCEPT !.access = x, !.refresh = y]
        BY <2>1, <2>2, <2>3, <3>2
    <3>4. pair'[p] = b
        BY <3>3
    <3> HIDE DEF a
    <3>5. b \in PairRows /\ b.access = x /\ b.refresh = y /\ b.line = row_.line
          /\ b.ends = row_.ends /\ b.accessEnds = row_.accessEnds
        BY <3>1 DEF PairRows
    <3> QED BY <2>1, <2>2, <2>3, <3>4, <3>5
  <2> QED BY <2>4, <2>5
<1>6. pair' \in [Grant!Pairs -> PairRows]
  <2>1. pair' = [p \in Grant!Pairs |-> pair'[p]]
      BY DEF Grant!Prune
  <2> QED BY <1>5, <2>1
<1>7. handler' \in [Clients -> GrantRequests] /\ ended' \subseteq Codes
    BY <1>1, <1>2 DEF GrantTypes
<1> QED BY <1>2, <1>3, <1>4, <1>5, <1>6, <1>7, GrantAges

\* A revocation finishes: what it reached is dead, and the lines it was whole for ended.
LEMMA FinishKeeps ==
    ASSUME GrantInv, NEW h \in Clients, Grant!FinishRevoke(h)
    PROVE  GrantInv'
<1>1. GrantTypes /\ RequestsFit /\ EndsReach
    BY DEF GrantInv
<1>2. PICK q \in GrantRequests : q = handler[h]
    BY <1>1 DEF GrantTypes
<1>3. /\ q.at = "revoking" /\ handler' = [handler EXCEPT ![h] = Grant!Idle]
      /\ ended' = ended \cup q.whole /\ UNCHANGED <<clock, code, pairs, consented>>
    BY <1>2 DEF Grant!FinishRevoke, Grant!Moves
<1>4. clock' \in 0 .. MaxTime /\ clock <= clock'
    BY <1>1, <1>3, GrantColumns DEF GrantTypes
<1>5. ASSUME NEW t \in Grant!Gone .. MaxTime
      PROVE  Grant!Dead(t) \in Grant!Gone .. MaxTime /\ Grant!Dead(t) # Grant!Never
    BY <1>1, GrantColumns DEF GrantTypes, Grant!Dead
<1>6. ASSUME NEW p \in Grant!Pairs
      PROVE  /\ pair'[p] \in PairRows
             /\ pair'[p].line = pair[p].line /\ pair'[p].ends = pair[p].ends
             /\ pair'[p].accessEnds = pair[p].accessEnds
             /\ pair'[p].access = Grant!Never => pair[p].access = Grant!Never
             /\ pair'[p].refresh = Grant!Never => pair[p].refresh = Grant!Never
             /\ p \in q.reach => pair'[p].access # Grant!Never /\ pair'[p].refresh # Grant!Never
  <2>1. PICK row_ \in PairRows : row_ = pair[p]
      BY <1>1 DEF GrantTypes
  <2>2. PICK x \in Grant!Gone .. MaxTime : x = Grant!Dead(row_.access) /\ x # Grant!Never
      BY <1>5 DEF PairRows
  <2>3. PICK y \in Grant!Gone .. MaxTime : y = Grant!Dead(row_.refresh) /\ y # Grant!Never
      BY <1>5 DEF PairRows
  <2>4. CASE p \notin q.reach
    <3>1. pair'[p] = pair[p]
        BY <1>2, <2>4 DEF Grant!FinishRevoke
    <3> QED BY <2>1, <2>4, <3>1
  <2>5. CASE p \in q.reach
    <3> DEFINE a == [row_ EXCEPT !.access = x]
               b == [a EXCEPT !.refresh = y]
    <3>1. a \in PairRows /\ a.access = x /\ a.refresh = row_.refresh /\ a.line = row_.line
          /\ a.ends = row_.ends /\ a.accessEnds = row_.accessEnds
        BY DEF PairRows
    <3>2. pair'[p] = [pair[p] EXCEPT !.access = Grant!Dead(@), !.refresh = Grant!Dead(@)]
        BY <1>2, <2>5 DEF Grant!FinishRevoke
    <3>3. pair'[p] = [row_ EXCEPT !.access = x, !.refresh = y]
        BY <2>1, <2>2, <2>3, <3>2
    <3>4. pair'[p] = b
        BY <3>3
    <3> HIDE DEF a
    <3>5. b \in PairRows /\ b.access = x /\ b.refresh = y /\ b.line = row_.line
          /\ b.ends = row_.ends /\ b.accessEnds = row_.accessEnds
        BY <3>1 DEF PairRows
    <3> QED BY <2>1, <2>2, <2>3, <3>4, <3>5
  <2> QED BY <2>4, <2>5
<1>7. pair' \in [Grant!Pairs -> PairRows]
  <2>1. pair' = [p \in Grant!Pairs |-> pair'[p]]
      BY DEF Grant!FinishRevoke
  <2> QED BY <1>6, <2>1
<1>8. /\ handler' \in [Clients -> GrantRequests]
      /\ \A k \in Clients : \/ handler'[k] = handler[k]
                            \/ handler[k].at = "revoking" /\ handler'[k] = Grant!Idle
  <2>1. Grant!Idle \in GrantRequests
      BY IdleAsks
  <2> QED BY <1>1, <1>2, <1>3, <2>1 DEF GrantTypes
<1>9. /\ code' \in [Codes -> [st : {"none", "live", "spent", "gone"}, ends : 0 .. MaxTime + CodeTTL]]
      /\ \A c \in Codes : code'[c].st \in {code[c].st, "gone"}
    BY <1>1, <1>3 DEF GrantTypes
<1>10. ended \subseteq ended' /\ ended' \subseteq Codes
    BY <1>1, <1>3 DEF GrantTypes, GrantRequests
<1>11. ASSUME NEW c \in ended' \ ended
       PROVE  /\ PairsOf(c) # {} /\ PairsOf(c) \subseteq pairs
              /\ \A p \in PairsOf(c) : pair'[p].access # Grant!Never /\ pair'[p].refresh # Grant!Never
  <2>1. c \in q.whole
      BY <1>3, <1>11
  <2>2. PairsOf(c) # {} /\ PairsOf(c) \subseteq q.reach /\ q.reach \subseteq pairs
      BY <1>1, <1>2, <1>3, <2>1 DEF EndsReach, RequestsFit
  <2>3. PairsOf(c) \subseteq Grant!Pairs
      BY DEF PairsOf
  <2> QED BY <1>6, <2>2, <2>3
<1> QED BY <1>3, <1>4, <1>6, <1>7, <1>8, <1>9, <1>10, <1>11, GrantAges

\* Every step keeps the invariant of a grant.
LEMMA GrantKept ==
    ASSUME GrantInv, [Grant!Next]_(Grant!oauthVars)
    PROVE  GrantInv'
<1>1. ASSUME NEW c \in Codes, Grant!Approve(c) PROVE GrantInv'
    BY <1>1, ApproveKeeps
<1>2. ASSUME NEW h \in Clients, NEW c \in Codes, Grant!LoadCode(h, c) PROVE GrantInv'
    BY <1>2, LoadCodeKeeps
<1>3. ASSUME NEW h \in Clients, Grant!BurnCode(h) PROVE GrantInv'
    BY <1>3, BurnKeeps
<1>4. ASSUME NEW h \in Clients, Grant!RefuseCode(h) PROVE GrantInv'
  <2>1. /\ ~Grant!Minting(h) /\ Grant!Moves(h, Grant!Idle)
        /\ UNCHANGED <<clock, code, pairs, pair, consented, ended>>
      BY <1>4 DEF Grant!RefuseCode, Grant!Minting
  <2> QED BY <2>1, IdleKeeps
<1>5. ASSUME NEW h \in Clients, Grant!SpendCode(h) PROVE GrantInv'
    BY <1>5, SpendKeeps
<1>6. ASSUME NEW h \in Clients, Grant!CommitExchange(h) PROVE GrantInv'
    BY <1>6, ExchangeKeeps
<1>7. ASSUME NEW h \in Clients, NEW p \in Grant!Pairs, Grant!PresentRefresh(h, p) PROVE GrantInv'
    BY <1>7, PresentKeeps
<1>8. ASSUME NEW h \in Clients, Grant!Rotate(h) PROVE GrantInv'
    BY <1>8, RotateKeeps
<1>9. ASSUME NEW h \in Clients, Grant!CommitRotation(h) PROVE GrantInv'
    BY <1>9, RotationKeeps
<1>10. ASSUME NEW h \in Clients, Grant!AbandonMint(h) PROVE GrantInv'
    BY <1>10, AbandonKeeps
<1>11. ASSUME NEW h \in Clients, Grant!Revoke(h) PROVE GrantInv'
  <2>1. /\ handler[h] = Grant!Idle /\ Grant!Moves(h, Grant!Revoking)
        /\ UNCHANGED <<clock, code, pairs, pair, consented, ended>>
      BY <1>11 DEF Grant!Revoke
  <2>2. ~Grant!Minting(h)
      BY <2>1, IdleAsks DEF Grant!Minting
  <2> QED BY <2>1, <2>2, RevokeKeeps
<1>12. ASSUME NEW h \in Clients, Grant!FinishRevoke(h) PROVE GrantInv'
    BY <1>12, FinishKeeps
<1>13. CASE Grant!Tick
    BY <1>13, TickKeeps
<1>14. CASE Grant!Prune
    BY <1>14, PruneKeeps
<1>15. CASE UNCHANGED Grant!oauthVars
  <2>1. UNCHANGED <<clock, code, pairs, pair, handler, consented, ended>>
      BY <1>15 DEF Grant!oauthVars
  <2>2. clock' \in 0 .. MaxTime /\ clock <= clock'
      BY <2>1, GrantColumns DEF GrantInv, GrantTypes
  <2>3. /\ code' \in [Codes -> [st : {"none", "live", "spent", "gone"}, ends : 0 .. MaxTime + CodeTTL]]
        /\ pair' \in [Grant!Pairs -> PairRows] /\ handler' \in [Clients -> GrantRequests]
        /\ ended' \subseteq Codes
      BY <2>1 DEF GrantInv, GrantTypes
  <2> QED BY <2>1, <2>2, <2>3, GrantAges
<1> QED BY <1>1, <1>2, <1>3, <1>4, <1>5, <1>6, <1>7, <1>8, <1>9, <1>10, <1>11, <1>12, <1>13,
           <1>14, <1>15 DEF Grant!Next

\* Nothing is approved at first.
LEMMA GrantInit == Grant!Init => GrantInv
<1> SUFFICES ASSUME Grant!Init PROVE GrantInv
    OBVIOUS
<1>1. /\ clock = 0 /\ code = [c \in Codes |-> [st |-> "none", ends |-> 0]]
      /\ pairs = {} /\ pair = [p \in Grant!Pairs |-> Grant!NoPair]
      /\ handler = [h \in Clients |-> Grant!Idle] /\ consented = [c \in Codes |-> -1]
      /\ ended = {}
    BY DEF Grant!Init
<1>2. /\ Grant!NoPair \in PairRows /\ Grant!NoPair.line = NoCode
      /\ Grant!NoPair.ends = 0 /\ Grant!NoPair.accessEnds = 0
    BY GrantColumns DEF Grant!NoPair, PairRows
<1>3. Grant!Idle \in GrantRequests /\ Grant!Idle.at = "idle" /\ Grant!Idle.reach = {}
    BY IdleAsks
<1>4. GrantTypes
  <2>1. 0 \in 0 .. MaxTime /\ -1 \in -1 .. MaxTime /\ 0 \in 0 .. MaxTime + CodeTTL
      BY GrantColumns
  <2>2. code \in [Codes -> [st : {"none", "live", "spent", "gone"}, ends : 0 .. MaxTime + CodeTTL]]
      BY <1>1, <2>1
  <2>3. consented \in [Codes -> -1 .. MaxTime]
      BY <1>1, <2>1
  <2>4. pair \in [Grant!Pairs -> PairRows]
      BY <1>1, <1>2
  <2>5. handler \in [Clients -> GrantRequests]
      BY <1>1, <1>3
  <2>6. clock \in 0 .. MaxTime /\ pairs \subseteq Grant!Pairs /\ ended \subseteq Codes
      BY <1>1, <2>1
  <2> QED BY <2>2, <2>3, <2>4, <2>5, <2>6 DEF GrantTypes
<1>5. /\ \A h \in Clients : handler[h].at = "idle" /\ handler[h].reach = {} /\ ~Grant!Minting(h)
      /\ \A p \in Grant!Pairs : /\ pair[p].line = NoCode
                                /\ pair[p].ends = 0 /\ pair[p].accessEnds = 0
      /\ \A c \in Codes : consented[c] = -1
    BY <1>1, <1>2, <1>3 DEF Grant!Minting
<1>6. RequestsFit
    BY <1>5 DEF RequestsFit
<1>7. PairsHaveLines
  <2>1. \A c \in Codes : PairsOf(c) = {}
      BY <1>5, GrantColumns DEF PairsOf
  <2> QED BY <1>1, <1>5, <2>1 DEF PairsHaveLines
<1>8. Grant!NeverForks
    BY <1>5 DEF Grant!NeverForks
<1>9. WithinConsent
    BY <1>1, <1>5 DEF WithinConsent
<1>10. EndsReach
    BY <1>1, <1>5 DEF EndsReach
<1> QED BY <1>4, <1>6, <1>7, <1>8, <1>9, <1>10 DEF GrantInv

\* What the invariant says of what was granted.
LEMMA GrantHolds ==
    GrantInv => Grant!NeverForks /\ Grant!ConsentLapses /\ Grant!EndedStaysEnded
<1> SUFFICES ASSUME GrantInv
             PROVE  Grant!NeverForks /\ Grant!ConsentLapses /\ Grant!EndedStaysEnded
    OBVIOUS
<1>1. /\ GrantTypes /\ PairsHaveLines /\ Grant!NeverForks /\ WithinConsent /\ EndsReach
    BY DEF GrantInv
<1>2. ASSUME NEW p \in pairs, Grant!Usable(p)
      PROVE  clock <= consented[pair[p].line] + RefreshTTL
  <2>1. PICK c \in Codes : c = pair[p].line
      BY <1>1 DEF GrantTypes, PairRows, PairsHaveLines
  <2>2. p \in Grant!Pairs /\ pair[p] \in PairRows
      BY <1>1 DEF GrantTypes
  <2>3. PICK t \in Int : t = clock
      BY <1>1 DEF GrantTypes
  <2>4. PICK e \in Int : e = pair[p].ends
      BY <2>2 DEF PairRows
  <2>5. PICK a \in Int : a = pair[p].accessEnds
      BY <2>2 DEF PairRows
  <2>6. PICK u \in Int : u = consented[c]
      BY <1>1 DEF GrantTypes
  <2>7. t <= a \/ t <= e
      BY <1>2, <2>3, <2>4, <2>5 DEF Grant!Usable, Grant!Valid
  <2>8. a <= e /\ e <= u + RefreshTTL
      BY <1>1, <2>1, <2>2, <2>4, <2>5, <2>6 DEF WithinConsent
  <2>9. RefreshTTL \in Int
      BY GrantColumns
  <2>10. t <= u + RefreshTTL
      BY <2>7, <2>8, <2>9
  <2> QED BY <2>1, <2>3, <2>6, <2>10
<1>3. ASSUME NEW p \in pairs, pair[p].line \in ended PROVE ~Grant!Usable(p)
  <2>1. p \in PairsOf(pair[p].line)
      BY <1>1 DEF GrantTypes, PairsOf
  <2> QED BY <1>1, <1>3, <2>1 DEF EndsReach, Grant!Usable, Grant!Valid
<1> QED BY <1>1, <1>2, <1>3 DEF Grant!ConsentLapses, Grant!EndedStaysEnded

-----------------------------------------------------------------------------
(* Turns of a conversation: what is read, let through, sent and answered.  *)

\* Texts that need not be read again: harmless, or excused.
Judged(t) == Verdict[t] = "clean" \/ t \in blind \/ t \in lenient

\* A turn has its columns.
TurnRow(x) == x = [at |-> x.at, stream |-> x.stream, stance |-> x.stance, carried |-> x.carried,
                   scanned |-> x.scanned, pending |-> x.pending, unread |-> x.unread,
                   cut |-> x.cut, reply |-> x.reply, live |-> x.live, lax |-> x.lax,
                   unruled |-> x.unruled]

\* The columns of a turn that the steps read have their types.
TurnFits(r) ==
    /\ TurnRow(turn[r])
    /\ turn[r].at \in {"idle", "read", "passed", "checked", "sent", "answered"}
    /\ turn[r].stream \in BOOLEAN /\ turn[r].stance \in BOOLEAN
    /\ turn[r].live \in BOOLEAN /\ turn[r].lax \in BOOLEAN /\ turn[r].unruled \in BOOLEAN
    /\ turn[r].carried \subseteq Gateway!Texts /\ turn[r].pending \subseteq Gateway!Texts

GatewayTypes ==
    /\ enforce \in BOOLEAN /\ role \in BOOLEAN
    /\ turn = [r \in Talks |-> turn[r]]
    /\ \A r \in Talks : TurnFits(r)

\* The conversation does not mark a text seen that nobody judged.
SeenAreJudged == \A t \in seen : Judged(t)

\* Of what a turn has read, what was neither scanned nor left out was judged before.
ReadIsJudged ==
    \A r \in Talks : turn[r].at = "read" =>
        /\ \A t \in turn[r].pending : t \in turn[r].scanned \/ t \in turn[r].cut \/ Judged(t)
        /\ \A t \in turn[r].carried : t \in turn[r].scanned \/ t \in turn[r].unread \/ Judged(t)

\* A turn under way knows whether a role or the stance was off since it began.
LaxFits(r) ==
    turn[r].at # "idle" =>
        /\ role \/ turn[r].unruled
        /\ enforce \/ turn[r].lax
        /\ turn[r].stance \/ turn[r].lax
        /\ turn[r].live => turn[r].unruled /\ turn[r].lax

LaxIsKnown == \A r \in Talks : LaxFits(r)

TurnsInv ==
    /\ GatewayTypes /\ SeenAreJudged /\ ReadIsJudged /\ LaxIsKnown
    /\ Gateway!RefusedStaysOut /\ Gateway!AnswersAreChecked

\* A turn that has just been read, as one record.
ReadRow(streamed, carried, scanned, over) ==
    [at |-> "read", stream |-> streamed, stance |-> enforce, carried |-> carried,
     scanned |-> scanned, pending |-> carried \ over, unread |-> (carried \ seen) \ scanned,
     cut |-> ((carried \ seen) \ scanned) \ over, reply |-> "plain",
     live |-> FALSE, lax |-> ~enforce, unruled |-> ~role]

\* A turn that has just been let through.
PassedRow(x, stance) ==
    [at |-> "passed", stream |-> x.stream, stance |-> stance, carried |-> x.carried,
     scanned |-> {}, pending |-> {}, unread |-> x.unread, cut |-> {}, reply |-> x.reply,
     live |-> x.live, lax |-> x.lax, unruled |-> x.unruled]

\* A turn on its way to the provider.
SentRow(x, passes) ==
    [at |-> "sent", stream |-> x.stream, stance |-> x.stance, carried |-> {},
     scanned |-> x.scanned, pending |-> x.pending, unread |-> {}, cut |-> x.cut,
     reply |-> x.reply, live |-> passes, lax |-> x.lax, unruled |-> x.unruled]

\* The fields of a turn that letting it through changes.
LEMMA RowPasses ==
    ASSUME NEW x, TurnRow(x), NEW stance, NEW to,
           to = [x EXCEPT !.at = "passed", !.stance = stance, !.scanned = {}, !.pending = {},
                          !.cut = {}]
    PROVE  to = PassedRow(x, stance)
<1>1. PICK a, b, c, d, e, f, g, h, i, j, k, l :
          x = [at |-> a, stream |-> b, stance |-> c, carried |-> d, scanned |-> e,
               pending |-> f, unread |-> g, cut |-> h, reply |-> i, live |-> j, lax |-> k,
               unruled |-> l]
    BY DEF TurnRow
<1>2. to \in [at : {"passed"}, stream : {x.stream}, stance : {stance}, carried : {x.carried},
              scanned : {{}}, pending : {{}}, unread : {x.unread}, cut : {{}},
              reply : {x.reply}, live : {x.live}, lax : {x.lax}, unruled : {x.unruled}]
    BY <1>1
<1> QED BY <1>2 DEF PassedRow

\* The fields of a turn that forwarding it changes.
LEMMA RowIsSent ==
    ASSUME NEW x, TurnRow(x), NEW passes, NEW to,
           to = [x EXCEPT !.at = "sent", !.live = passes, !.carried = {}, !.unread = {}]
    PROVE  to = SentRow(x, passes)
<1>1. PICK a, b, c, d, e, f, g, h, i, j, k, l :
          x = [at |-> a, stream |-> b, stance |-> c, carried |-> d, scanned |-> e,
               pending |-> f, unread |-> g, cut |-> h, reply |-> i, live |-> j, lax |-> k,
               unruled |-> l]
    BY DEF TurnRow
<1>2. to \in [at : {"sent"}, stream : {x.stream}, stance : {x.stance}, carried : {{}},
              scanned : {x.scanned}, pending : {x.pending}, unread : {{}}, cut : {x.cut},
              reply : {x.reply}, live : {passes}, lax : {x.lax}, unruled : {x.unruled}]
    BY <1>1
<1> QED BY <1>2 DEF SentRow

\* A turn whose answer was handed over.
AnsweredRow(x, said) ==
    [at |-> "answered", stream |-> x.stream, stance |-> x.stance, carried |-> x.carried,
     scanned |-> x.scanned, pending |-> x.pending, unread |-> x.unread, cut |-> x.cut,
     reply |-> said, live |-> x.live, lax |-> x.lax, unruled |-> x.unruled]

\* A turn, marked by a change of the stance or the role.
MarkedRow(x, lax, unruled) ==
    [at |-> x.at, stream |-> x.stream, stance |-> x.stance, carried |-> x.carried,
     scanned |-> x.scanned, pending |-> x.pending, unread |-> x.unread, cut |-> x.cut,
     reply |-> x.reply, live |-> x.live, lax |-> lax, unruled |-> unruled]

\* The fields of a turn that its answer changes.
LEMMA RowIsAnswered ==
    ASSUME NEW x, TurnRow(x), NEW said, NEW to,
           to = [x EXCEPT !.at = "answered", !.reply = said]
    PROVE  to = AnsweredRow(x, said)
<1>1. PICK a, b, c, d, e, f, g, h, i, j, k, l :
          x = [at |-> a, stream |-> b, stance |-> c, carried |-> d, scanned |-> e,
               pending |-> f, unread |-> g, cut |-> h, reply |-> i, live |-> j, lax |-> k,
               unruled |-> l]
    BY DEF TurnRow
<1>2. to \in [at : {"answered"}, stream : {x.stream}, stance : {x.stance}, carried : {x.carried},
              scanned : {x.scanned}, pending : {x.pending}, unread : {x.unread}, cut : {x.cut},
              reply : {said}, live : {x.live}, lax : {x.lax}, unruled : {x.unruled}]
    BY <1>1
<1> QED BY <1>2 DEF AnsweredRow

\* The one field of a turn that a change marks.
LEMMA RowIsMarked ==
    ASSUME NEW x, TurnRow(x), NEW mark
    PROVE  /\ [x EXCEPT !.lax = mark] = MarkedRow(x, mark, x.unruled)
           /\ [x EXCEPT !.unruled = mark] = MarkedRow(x, x.lax, mark)
    BY DEF TurnRow, MarkedRow

\* Every text has one of three verdicts, and a conversation carries texts.
LEMMA TextsAreJudged ==
    /\ \A t \in Gateway!Texts : Verdict[t] \in {"clean", "high", "secret"}
    /\ \A c \in Conversations :
          {c.latest} \cup Gateway!Elements(c.history) \cup c.attached \subseteq Gateway!Texts
<1>1. Conversations \subseteq
          [latest : Gateway!Texts, history : Seq(Gateway!Texts), attached : SUBSET Gateway!Texts]
    BY Assumptions DEF Gateway!ScanAssumption
<1>2. ASSUME NEW c \in Conversations
      PROVE  {c.latest} \cup Gateway!Elements(c.history) \cup c.attached \subseteq Gateway!Texts
    BY <1>1 DEF Gateway!Elements
<1>3. \A t \in Gateway!Texts : Verdict[t] \in {"clean", "high", "secret"}
    BY Assumptions DEF Gateway!ScanAssumption, Gateway!Texts
<1> QED BY <1>2, <1>3

\* Reading a turn: what a conversation carries is seen already, scanned, or said to be unread.
LEMMA TurnIsRead ==
    ASSUME NEW r \in Talks, NEW c \in Conversations, NEW streamed \in BOOLEAN,
           Gateway!ReadTurn(r, c, streamed)
    PROVE  \E carried, scanned, over :
              /\ carried \subseteq Gateway!Texts
              /\ turn' = [turn EXCEPT ![r] = ReadRow(streamed, carried, scanned, over)]
<1> DEFINE carried == {c.latest} \cup Gateway!Elements(c.history) \cup c.attached
           new     == SelectSeq(c.history, LAMBDA t : t \notin seen)
           room    == Gateway!Lesser(HistoryBudget, Len(new))
           taken   == SubSeq(new, Len(new) - room + 1, Len(new))
           said    == <<c.latest>> \o taken
           files   == (c.attached \ seen) \ Unreadable
           scanned == Gateway!Elements(SubSeq(said, 1, Gateway!Lesser(MaxContent, Len(said)))) \cup
                      (IF Len(said) + Cardinality(files) <= MaxContent THEN files ELSE {})
           over    == Gateway!Elements(new) \ Gateway!Elements(said)
           row_    == [Gateway!Idle EXCEPT !.at = "read", !.stream = streamed, !.stance = enforce,
                          !.carried = carried, !.scanned = scanned, !.pending = carried \ over,
                          !.unread = (carried \ seen) \ scanned,
                          !.cut = ((carried \ seen) \ scanned) \ over,
                          !.lax = ~enforce, !.unruled = ~role]
<1>1. carried \subseteq Gateway!Texts
    BY TextsAreJudged
<1>2. turn' = [turn EXCEPT ![r] = row_]
    BY Zenon DEF Gateway!ReadTurn, Gateway!Pending, Gateway!Cardinality, Cardinality
<1>3. row_ = ReadRow(streamed, carried, scanned, over)
  <2> HIDE DEF carried, scanned, over
  <2>1. PICK to : to = row_
      OBVIOUS
  <2>2. to \in [at : {"read"}, stream : {streamed}, stance : {enforce}, carried : {carried},
                scanned : {scanned}, pending : {carried \ over},
                unread : {(carried \ seen) \ scanned},
                cut : {((carried \ seen) \ scanned) \ over}, reply : {"plain"},
                live : {FALSE}, lax : {~enforce}, unruled : {~role}]
      BY <2>1 DEF Gateway!Idle
  <2>3. to = ReadRow(streamed, carried, scanned, over)
      BY <2>2 DEF ReadRow
  <2> QED BY <2>1, <2>3
<1> HIDE DEF carried, scanned, over, row_
<1> QED BY <1>1, <1>2, <1>3

\* Reading a turn keeps the invariant.
LEMMA ReadKeepsTurns ==
    ASSUME NEW r \in Talks, NEW c \in Conversations, NEW streamed \in BOOLEAN,
           Gateway!ReadTurn(r, c, streamed), TurnsInv
    PROVE  TurnsInv'
<1>0. GatewayTypes /\ SeenAreJudged /\ ReadIsJudged /\ LaxIsKnown
      /\ Gateway!RefusedStaysOut /\ Gateway!AnswersAreChecked
    BY DEF TurnsInv
<1>1. PICK carried, scanned, over :
              /\ carried \subseteq Gateway!Texts
              /\ turn' = [turn EXCEPT ![r] = ReadRow(streamed, carried, scanned, over)]
    BY TurnIsRead
<1>2. UNCHANGED <<enforce, role, seen, blind, lenient>>
    BY DEF Gateway!ReadTurn
<1>3. /\ turn'[r] = ReadRow(streamed, carried, scanned, over)
      /\ \A q \in Talks : q # r => turn'[q] = turn[q]
      /\ turn' = [q \in Talks |-> turn'[q]]
    BY <1>0, <1>1 DEF GatewayTypes
<1>4. GatewayTypes'
  <2>1. \A q \in Talks : q # r => TurnFits(q)'
      BY <1>0, <1>3 DEF GatewayTypes, TurnFits, TurnRow
  <2>2. TurnFits(r)'
      BY <1>0, <1>1, <1>3 DEF GatewayTypes, TurnFits, TurnRow, ReadRow
  <2> QED BY <1>0, <1>2, <1>3, <2>1, <2>2 DEF GatewayTypes
<1>5. SeenAreJudged'
    BY <1>0, <1>2 DEF SeenAreJudged, Judged
<1>6. ReadIsJudged'
    BY <1>0, <1>2, <1>3 DEF SeenAreJudged, ReadIsJudged, Judged, ReadRow
<1>7. LaxIsKnown'
  <2>1. \A q \in Talks : q # r => LaxFits(q)'
      BY <1>0, <1>2, <1>3 DEF LaxIsKnown, LaxFits
  <2>2. /\ turn'[r].lax = ~enforce
        /\ turn'[r].unruled = ~role
        /\ turn'[r].stance = enforce /\ turn'[r].live = FALSE
      BY <1>3 DEF ReadRow
  <2>3. LaxFits(r)'
      BY <1>2, <2>2 DEF LaxFits
  <2> QED BY <2>1, <2>3 DEF LaxIsKnown
<1>8. Gateway!RefusedStaysOut'
    BY <1>0, <1>2, <1>3 DEF Gateway!RefusedStaysOut, Gateway!Refuses, ReadRow
<1>9. Gateway!AnswersAreChecked'
  <2>1. turn'[r].at = "read"
      BY <1>3 DEF ReadRow
  <2> QED BY <1>0, <1>3, <2>1 DEF Gateway!AnswersAreChecked
<1> QED BY <1>4, <1>5, <1>6, <1>7, <1>8, <1>9 DEF TurnsInv

\* What is let through was scanned under a stance that does not refuse it, or is accounted for.
LEMMA LettingKeepsTurns ==
    ASSUME NEW r \in Talks, NEW stance \in {turn[r].stance, enforce},
           Gateway!LetThrough(r, stance), TurnsInv
    PROVE  TurnsInv'
<1>0. GatewayTypes /\ SeenAreJudged /\ ReadIsJudged /\ LaxIsKnown
      /\ Gateway!RefusedStaysOut /\ Gateway!AnswersAreChecked
    BY DEF TurnsInv
<1>1. /\ turn[r].at = "read" /\ \A t \in turn[r].scanned : ~Gateway!Refuses(stance, Verdict[t])
      /\ seen' \subseteq seen \cup turn[r].pending
      /\ blind' = blind \cup turn[r].cut
      /\ lenient' = lenient \cup {t \in turn[r].scanned : Verdict[t] = "high"}
      /\ UNCHANGED <<enforce, role>>
    BY DEF Gateway!LetThrough, Gateway!Remembered
<1>2. turn' = [turn EXCEPT ![r] = [turn[r] EXCEPT !.at = "passed", !.stance = stance,
                                   !.scanned = {}, !.pending = {}, !.cut = {}]]
    BY DEF Gateway!LetThrough
<1>3. turn'[r] = PassedRow(turn[r], stance)
  <2>1. turn'[r] = [turn[r] EXCEPT !.at = "passed", !.stance = stance,
                                   !.scanned = {}, !.pending = {}, !.cut = {}]
      BY <1>0, <1>2 DEF GatewayTypes
  <2>2. PICK to : to = turn'[r]
      OBVIOUS
  <2>3. to = [turn[r] EXCEPT !.at = "passed", !.stance = stance,
                             !.scanned = {}, !.pending = {}, !.cut = {}]
      BY <2>1, <2>2, Zenon
  <2>4. to = PassedRow(turn[r], stance)
      BY <1>0, <2>3, RowPasses DEF GatewayTypes, TurnFits
  <2> QED BY <2>2, <2>4
<1>4. /\ \A q \in Talks : q # r => turn'[q] = turn[q]
      /\ turn' = [q \in Talks |-> turn'[q]]
    BY <1>0, <1>2 DEF GatewayTypes
<1>5. stance \in BOOLEAN
    BY <1>0 DEF GatewayTypes, TurnFits
<1>6. GatewayTypes'
  <2>1. \A q \in Talks : q # r => TurnFits(q)'
      BY <1>0, <1>4 DEF GatewayTypes, TurnFits, TurnRow
  <2>2. TurnFits(r)'
      BY <1>0, <1>3, <1>5 DEF GatewayTypes, TurnFits, TurnRow, PassedRow
  <2> QED BY <1>0, <1>1, <1>4, <2>1, <2>2 DEF GatewayTypes
<1>7. SeenAreJudged'
  <2> SUFFICES ASSUME NEW t \in seen' PROVE Judged(t)'
      BY DEF SeenAreJudged
  <2>1. CASE t \in seen
      BY <1>0, <1>1, <2>1 DEF SeenAreJudged, Judged
  <2>2. CASE t \in turn[r].pending
    <3>1. t \in Gateway!Texts
        BY <1>0, <2>2 DEF GatewayTypes, TurnFits
    <3>2. t \in turn[r].scanned \/ t \in turn[r].cut \/ Judged(t)
        BY <1>0, <1>1, <2>2 DEF ReadIsJudged
    <3> QED BY <1>1, <3>1, <3>2, TextsAreJudged DEF Judged, Gateway!Refuses
  <2> QED BY <1>1, <2>1, <2>2
<1>8. ReadIsJudged'
    BY <1>0, <1>1, <1>3, <1>4 DEF ReadIsJudged, Judged, PassedRow
<1>9. LaxIsKnown'
  <2>1. \A q \in Talks : q # r => LaxFits(q)'
      BY <1>0, <1>1, <1>4 DEF LaxIsKnown, LaxFits
  <2>2. LaxFits(r)'
      BY <1>0, <1>1, <1>3 DEF LaxFits, PassedRow, LaxIsKnown
  <2> QED BY <2>1, <2>2 DEF LaxIsKnown
<1>10. Gateway!RefusedStaysOut'
  <2> SUFFICES ASSUME NEW q \in Talks, turn'[q].at \in {"passed", "checked"},
                      NEW t \in turn'[q].carried,
                      Gateway!Refuses(turn'[q].stance, Verdict[t])
               PROVE  t \in turn'[q].unread \/ t \in blind' \/ t \in lenient'
      BY DEF Gateway!RefusedStaysOut, Gateway!Refuses
  <2>1. CASE q # r
      BY <1>0, <1>1, <1>4, <2>1 DEF Gateway!RefusedStaysOut
  <2>2. CASE q = r
    <3>1. t \in turn[r].carried /\ Gateway!Refuses(stance, Verdict[t])
        BY <1>3, <2>2 DEF PassedRow
    <3>2. t \in turn[r].scanned \/ t \in turn[r].unread \/ Judged(t)
        BY <1>0, <1>1, <3>1 DEF ReadIsJudged
    <3>3. t \notin turn[r].scanned /\ Verdict[t] # "clean"
        BY <1>1, <3>1 DEF Gateway!Refuses
    <3> QED BY <1>1, <1>3, <2>2, <3>2, <3>3 DEF Judged, PassedRow
  <2> QED BY <2>1, <2>2
<1>11. Gateway!AnswersAreChecked'
  <2>1. turn'[r].at = "passed"
      BY <1>3 DEF PassedRow
  <2> QED BY <1>0, <1>4, <2>1 DEF Gateway!AnswersAreChecked
<1> QED BY <1>6, <1>7, <1>8, <1>9, <1>10, <1>11 DEF TurnsInv

\* A turn that ends, refused or withheld, leaves the others as they were.
LEMMA EndingKeepsTurns ==
    ASSUME NEW r \in Talks, turn' = [turn EXCEPT ![r] = Gateway!Idle],
           UNCHANGED <<enforce, role, seen, blind, lenient>>, TurnsInv
    PROVE  TurnsInv'
<1>0. GatewayTypes /\ SeenAreJudged /\ ReadIsJudged /\ LaxIsKnown
      /\ Gateway!RefusedStaysOut /\ Gateway!AnswersAreChecked
    BY DEF TurnsInv
<1>1. /\ turn'[r] = Gateway!Idle
      /\ \A q \in Talks : q # r => turn'[q] = turn[q]
      /\ turn' = [q \in Talks |-> turn'[q]]
    BY <1>0 DEF GatewayTypes
<1>2. GatewayTypes'
  <2>1. \A q \in Talks : q # r => TurnFits(q)'
      BY <1>0, <1>1 DEF GatewayTypes, TurnFits, TurnRow
  <2>2. TurnFits(r)'
      BY <1>1 DEF TurnFits, TurnRow, Gateway!Idle
  <2> QED BY <1>0, <1>1, <2>1, <2>2 DEF GatewayTypes
<1>3. SeenAreJudged' /\ ReadIsJudged' /\ LaxIsKnown'
    BY <1>0, <1>1 DEF SeenAreJudged, ReadIsJudged, LaxIsKnown, LaxFits, Judged, Gateway!Idle
<1>4. Gateway!RefusedStaysOut' /\ Gateway!AnswersAreChecked'
    BY <1>0, <1>1 DEF Gateway!RefusedStaysOut, Gateway!AnswersAreChecked, Gateway!Idle
<1> QED BY <1>2, <1>3, <1>4 DEF TurnsInv

\* What a request carries besides its texts is refused, or the turn goes on as it was.
LEMMA CheckKeepsTurns ==
    ASSUME NEW r \in Talks, NEW activity,
           Gateway!CheckInbound(r, activity), TurnsInv
    PROVE  TurnsInv'
<1>0. GatewayTypes /\ SeenAreJudged /\ ReadIsJudged /\ LaxIsKnown
      /\ Gateway!RefusedStaysOut /\ Gateway!AnswersAreChecked
    BY DEF TurnsInv
<1>1. UNCHANGED <<enforce, role, seen, blind, lenient>> /\ turn[r].at = "passed"
    BY DEF Gateway!CheckInbound
<1>2. CASE turn' = [turn EXCEPT ![r] = Gateway!Idle]
    BY <1>1, <1>2, EndingKeepsTurns
<1>3. CASE turn' = [turn EXCEPT ![r] = [turn[r] EXCEPT !.at = "checked"]]
  <2>1. turn'[r] = [turn[r] EXCEPT !.at = "checked"]
      BY <1>0, <1>3 DEF GatewayTypes
  <2>2. /\ \A q \in Talks : q # r => turn'[q] = turn[q]
        /\ turn' = [q \in Talks |-> turn'[q]]
      BY <1>0, <1>3 DEF GatewayTypes
  <2>3. turn'[r] = [at |-> "checked", stream |-> turn[r].stream, stance |-> turn[r].stance,
                    carried |-> turn[r].carried, scanned |-> turn[r].scanned,
                    pending |-> turn[r].pending, unread |-> turn[r].unread,
                    cut |-> turn[r].cut, reply |-> turn[r].reply, live |-> turn[r].live,
                    lax |-> turn[r].lax, unruled |-> turn[r].unruled]
      BY <1>0, <2>1 DEF GatewayTypes, TurnFits, TurnRow
  <2>4. GatewayTypes'
    <3>1. \A q \in Talks : q # r => TurnFits(q)'
        BY <1>0, <2>2 DEF GatewayTypes, TurnFits, TurnRow
    <3>2. TurnFits(r)'
        BY <1>0, <2>3 DEF GatewayTypes, TurnFits, TurnRow
    <3> QED BY <1>0, <1>1, <2>2, <3>1, <3>2 DEF GatewayTypes
  <2>5. SeenAreJudged' /\ ReadIsJudged'
      BY <1>0, <1>1, <2>2, <2>3 DEF SeenAreJudged, ReadIsJudged, Judged
  <2>6. LaxIsKnown'
    <3>1. \A q \in Talks : q # r => LaxFits(q)'
        BY <1>0, <1>1, <2>2 DEF LaxIsKnown, LaxFits
    <3>2. LaxFits(r)'
        BY <1>0, <1>1, <2>3 DEF LaxIsKnown, LaxFits
    <3> QED BY <3>1, <3>2 DEF LaxIsKnown
  <2>7. Gateway!RefusedStaysOut' /\ Gateway!AnswersAreChecked'
    <3>1. turn'[r].at = "checked" /\ turn'[r].carried = turn[r].carried
          /\ turn'[r].stance = turn[r].stance /\ turn'[r].unread = turn[r].unread
        BY <2>3
    <3>2. Gateway!AnswersAreChecked'
        BY <1>0, <2>2, <3>1 DEF Gateway!AnswersAreChecked
    <3>3. Gateway!RefusedStaysOut'
        BY <1>0, <1>1, <2>2, <3>1 DEF Gateway!RefusedStaysOut, Gateway!Refuses
    <3> QED BY <3>2, <3>3
  <2> QED BY <2>4, <2>5, <2>6, <2>7 DEF TurnsInv
<1> QED BY <1>2, <1>3, Zenon DEF Gateway!CheckInbound

\* A turn whose answer is streamed on left while neither the tenant nor the role enforced.
LEMMA ForwardKeepsTurns ==
    ASSUME NEW r \in Talks,
           Gateway!Forward(r), TurnsInv
    PROVE  TurnsInv'
<1>0. GatewayTypes /\ SeenAreJudged /\ ReadIsJudged /\ LaxIsKnown
      /\ Gateway!RefusedStaysOut /\ Gateway!AnswersAreChecked
    BY DEF TurnsInv
<1>1. UNCHANGED <<enforce, role, seen, blind, lenient>> /\ turn[r].at = "checked"
    BY DEF Gateway!Forward
<1>2. turn' = [turn EXCEPT ![r] = [turn[r] EXCEPT !.at = "sent", !.live = Gateway!PassesLive(r),
                                                  !.carried = {}, !.unread = {}]]
    BY DEF Gateway!Forward
<1>3. turn'[r] = SentRow(turn[r], Gateway!PassesLive(r))
  <2>1. turn'[r] = [turn[r] EXCEPT !.at = "sent", !.live = Gateway!PassesLive(r),
                                   !.carried = {}, !.unread = {}]
      BY <1>0, <1>2 DEF GatewayTypes
  <2>2. PICK to : to = turn'[r]
      OBVIOUS
  <2>3. PICK passes : passes = Gateway!PassesLive(r)
      OBVIOUS
  <2>4. to = [turn[r] EXCEPT !.at = "sent", !.live = passes, !.carried = {}, !.unread = {}]
      BY <2>1, <2>2, <2>3, Zenon
  <2>5. to = SentRow(turn[r], passes)
      BY <1>0, <2>4, RowIsSent DEF GatewayTypes, TurnFits
  <2> QED BY <2>2, <2>3, <2>5
<1>4. /\ \A q \in Talks : q # r => turn'[q] = turn[q]
      /\ turn' = [q \in Talks |-> turn'[q]]
    BY <1>0, <1>2 DEF GatewayTypes
<1>5. GatewayTypes'
  <2>1. \A q \in Talks : q # r => TurnFits(q)'
      BY <1>0, <1>4 DEF GatewayTypes, TurnFits, TurnRow
  <2>2. TurnFits(r)'
      BY <1>0, <1>3 DEF GatewayTypes, TurnFits, TurnRow, SentRow, Gateway!PassesLive
  <2> QED BY <1>0, <1>1, <1>4, <2>1, <2>2 DEF GatewayTypes
<1>6. SeenAreJudged' /\ ReadIsJudged'
    BY <1>0, <1>1, <1>3, <1>4 DEF SeenAreJudged, ReadIsJudged, Judged, SentRow
<1>7. LaxIsKnown'
  <2>1. \A q \in Talks : q # r => LaxFits(q)'
      BY <1>0, <1>1, <1>4 DEF LaxIsKnown, LaxFits
  <2>2. /\ turn'[r].live = Gateway!PassesLive(r)
        /\ turn'[r].lax = turn[r].lax /\ turn'[r].unruled = turn[r].unruled
        /\ turn'[r].stance = turn[r].stance
    <3>1. PICK passes : passes = Gateway!PassesLive(r)
        OBVIOUS
    <3>2. turn'[r] = SentRow(turn[r], passes)
        BY <1>3, <3>1, Zenon
    <3>3. /\ turn'[r].live = passes
          /\ turn'[r].lax = turn[r].lax /\ turn'[r].unruled = turn[r].unruled
          /\ turn'[r].stance = turn[r].stance
        BY <3>2 DEF SentRow
    <3> QED BY <3>1, <3>3
  <2>3. LaxFits(r)'
      BY <1>0, <1>1, <2>2 DEF LaxIsKnown, LaxFits, Gateway!PassesLive
  <2> QED BY <2>1, <2>3 DEF LaxIsKnown
<1>8. Gateway!RefusedStaysOut' /\ Gateway!AnswersAreChecked'
  <2>1. turn'[r].at = "sent"
      BY <1>3 DEF SentRow
  <2>2. Gateway!AnswersAreChecked'
      BY <1>0, <1>4, <2>1 DEF Gateway!AnswersAreChecked
  <2>3. Gateway!RefusedStaysOut'
      BY <1>0, <1>1, <1>4, <2>1 DEF Gateway!RefusedStaysOut, Gateway!Refuses
  <2> QED BY <2>2, <2>3
<1> QED BY <1>5, <1>6, <1>7, <1>8 DEF TurnsInv

\* An answer that is handed over although it would be withheld has an excuse.
LEMMA AnswerKeepsTurns ==
    ASSUME NEW r \in Talks, NEW reply,
           Gateway!Answer(r, reply), TurnsInv
    PROVE  TurnsInv'
<1>0. GatewayTypes /\ SeenAreJudged /\ ReadIsJudged /\ LaxIsKnown
      /\ Gateway!RefusedStaysOut /\ Gateway!AnswersAreChecked
    BY DEF TurnsInv
<1>1. UNCHANGED <<enforce, role, seen, blind, lenient>> /\ turn[r].at = "sent"
    BY DEF Gateway!Answer
<1>2. CASE turn' = [turn EXCEPT ![r] = Gateway!Idle]
    BY <1>1, <1>2, EndingKeepsTurns
<1>3. CASE /\ turn[r].live \/ ~Gateway!Withholds(r, reply)
           /\ turn' = [turn EXCEPT ![r] = [turn[r] EXCEPT !.at = "answered", !.reply = reply]]
  <2>1. PICK to : to = [turn[r] EXCEPT !.at = "answered", !.reply = reply]
      OBVIOUS
  <2>2. /\ \A q \in Talks : q # r => turn'[q] = turn[q]
        /\ turn' = [q \in Talks |-> turn'[q]] /\ turn'[r] = to
      BY <1>0, <1>3, <2>1 DEF GatewayTypes
  <2>3. to = AnsweredRow(turn[r], reply)
      BY <1>0, <2>1, RowIsAnswered DEF GatewayTypes, TurnFits
  <2>4. GatewayTypes'
    <3>1. \A q \in Talks : q # r => TurnFits(q)'
        BY <1>0, <2>2 DEF GatewayTypes, TurnFits, TurnRow
    <3>2. TurnFits(r)'
        BY <1>0, <2>2, <2>3 DEF GatewayTypes, TurnFits, TurnRow, AnsweredRow
    <3> QED BY <1>0, <1>1, <2>2, <3>1, <3>2 DEF GatewayTypes
  <2>5. SeenAreJudged' /\ ReadIsJudged'
      BY <1>0, <1>1, <2>2, <2>3 DEF SeenAreJudged, ReadIsJudged, Judged, AnsweredRow
  <2>6. LaxIsKnown'
    <3>1. \A q \in Talks : q # r => LaxFits(q)'
        BY <1>0, <1>1, <2>2 DEF LaxIsKnown, LaxFits
    <3>2. LaxFits(r)'
        BY <1>0, <1>1, <2>2, <2>3 DEF LaxIsKnown, LaxFits, AnsweredRow
    <3> QED BY <3>1, <3>2 DEF LaxIsKnown
  <2>7. Gateway!RefusedStaysOut'
      BY <1>0, <1>1, <2>2, <2>3 DEF Gateway!RefusedStaysOut, AnsweredRow
  <2>8. LaxFits(r) /\ turn[r].at # "idle"
      BY <1>0, <1>1 DEF LaxIsKnown
  <2>9. /\ reply = "denied call" => turn[r].unruled
        /\ reply \in {"dangerous call", "secret"} => turn[r].lax
      BY <1>3, <2>8 DEF LaxFits, Gateway!Withholds
  <2>10. Gateway!AnswersAreChecked'
    <3>1. turn'[r].reply = reply /\ turn'[r].lax = turn[r].lax /\ turn'[r].unruled = turn[r].unruled
        BY <2>2, <2>3 DEF AnsweredRow
    <3> QED BY <1>0, <2>2, <2>9, <3>1 DEF Gateway!AnswersAreChecked
  <2> QED BY <2>4, <2>5, <2>6, <2>7, <2>10 DEF TurnsInv
<1> QED BY <1>2, <1>3, Zenon DEF Gateway!Answer

\* What a change of the stance or the role leaves of a turn, and what it marks.
Marked(q) ==
    /\ turn'[q] = MarkedRow(turn[q], turn'[q].lax, turn'[q].unruled)
    /\ turn'[q].at = turn[q].at /\ turn'[q].stream = turn[q].stream
    /\ turn'[q].stance = turn[q].stance /\ turn'[q].carried = turn[q].carried
    /\ turn'[q].scanned = turn[q].scanned /\ turn'[q].pending = turn[q].pending
    /\ turn'[q].unread = turn[q].unread /\ turn'[q].cut = turn[q].cut
    /\ turn'[q].reply = turn[q].reply /\ turn'[q].live = turn[q].live
    /\ turn'[q].lax \in BOOLEAN /\ turn'[q].unruled \in BOOLEAN
    /\ turn[q].lax /\ turn[q].at # "idle" => turn'[q].lax
    /\ turn[q].unruled /\ turn[q].at # "idle" => turn'[q].unruled
    /\ turn[q].at # "idle" => enforce' = enforce \/ enforce' \/ turn'[q].lax
    /\ turn[q].at # "idle" => role' = role \/ role' \/ turn'[q].unruled

\* A stance or a role that changes marks the turns that are under way.
LEMMA ChangeKeepsTurns ==
    ASSUME Gateway!ChangeStance \/ Gateway!ChangeRole, TurnsInv
    PROVE  TurnsInv'
<1>0. GatewayTypes /\ SeenAreJudged /\ ReadIsJudged /\ LaxIsKnown
      /\ Gateway!RefusedStaysOut /\ Gateway!AnswersAreChecked
    BY DEF TurnsInv
<1>1. UNCHANGED <<seen, blind, lenient>> /\ enforce' \in BOOLEAN /\ role' \in BOOLEAN
    BY <1>0 DEF Gateway!ChangeStance, Gateway!ChangeRole, GatewayTypes
<1>2. /\ turn' = [q \in Talks |-> turn'[q]]
      /\ \A q \in Talks : Marked(q)
  <2>1. CASE Gateway!ChangeStance
    <3>1. turn' = [q \in Talks |-> [turn[q] EXCEPT !.lax = (turn[q].lax \/ ~enforce') /\ turn[q].at # "idle"]]
        BY <2>1 DEF Gateway!ChangeStance
    <3>2. role' = role
        BY <2>1 DEF Gateway!ChangeStance
    <3>3. ASSUME NEW q \in Talks
          PROVE  Marked(q)
      <4>1. PICK mark \in BOOLEAN : mark <=> (turn[q].lax \/ ~enforce') /\ turn[q].at # "idle"
          OBVIOUS
      <4>2. turn'[q] = [turn[q] EXCEPT !.lax = mark]
          BY <3>1, <4>1
      <4>3. turn'[q] = MarkedRow(turn[q], mark, turn[q].unruled)
          BY <1>0, <4>2, RowIsMarked DEF GatewayTypes, TurnFits
      <4>4. turn[q].unruled \in BOOLEAN /\ turn[q].lax \in BOOLEAN
          BY <1>0 DEF GatewayTypes, TurnFits
      <4>5. turn'[q].lax = mark /\ turn'[q].unruled = turn[q].unruled
          BY <4>3 DEF MarkedRow
      <4> QED BY <1>1, <3>2, <4>1, <4>3, <4>4, <4>5 DEF Marked, MarkedRow
    <3> QED BY <3>1, <3>3
  <2>2. CASE Gateway!ChangeRole
    <3>1. turn' = [q \in Talks |-> [turn[q] EXCEPT !.unruled = (turn[q].unruled \/ ~role') /\ turn[q].at # "idle"]]
        BY <2>2 DEF Gateway!ChangeRole
    <3>2. enforce' = enforce
        BY <2>2 DEF Gateway!ChangeRole
    <3>3. ASSUME NEW q \in Talks
          PROVE  Marked(q)
      <4>1. PICK mark \in BOOLEAN : mark <=> (turn[q].unruled \/ ~role') /\ turn[q].at # "idle"
          OBVIOUS
      <4>2. turn'[q] = [turn[q] EXCEPT !.unruled = mark]
          BY <3>1, <4>1
      <4>3. turn'[q] = MarkedRow(turn[q], turn[q].lax, mark)
          BY <1>0, <4>2, RowIsMarked DEF GatewayTypes, TurnFits
      <4>4. turn[q].unruled \in BOOLEAN /\ turn[q].lax \in BOOLEAN
          BY <1>0 DEF GatewayTypes, TurnFits
      <4>5. turn'[q].unruled = mark /\ turn'[q].lax = turn[q].lax
          BY <4>3 DEF MarkedRow
      <4> QED BY <1>1, <3>2, <4>1, <4>3, <4>4, <4>5 DEF Marked, MarkedRow
    <3> QED BY <3>1, <3>3
  <2> QED BY <2>1, <2>2
<1>3. GatewayTypes'
  <2> SUFFICES ASSUME NEW q \in Talks PROVE TurnFits(q)'
      BY <1>1, <1>2 DEF GatewayTypes
  <2>1. TurnFits(q) /\ Marked(q)
      BY <1>0, <1>2 DEF GatewayTypes
  <2>2. TurnRow(turn'[q])
      BY <2>1 DEF Marked, MarkedRow, TurnRow
  <2> QED BY <2>1, <2>2 DEF TurnFits, Marked
<1>4. SeenAreJudged' /\ ReadIsJudged'
    BY <1>0, <1>1, <1>2 DEF SeenAreJudged, ReadIsJudged, Judged, Marked
<1>5. LaxIsKnown'
  <2> SUFFICES ASSUME NEW q \in Talks PROVE LaxFits(q)'
      BY DEF LaxIsKnown
  <2>1. LaxFits(q) /\ Marked(q)
      BY <1>0, <1>2 DEF LaxIsKnown
  <2> QED BY <1>1, <2>1 DEF LaxFits, Marked
<1>6. Gateway!RefusedStaysOut'
    BY <1>0, <1>1, <1>2 DEF Gateway!RefusedStaysOut, Gateway!Refuses, Marked
<1>7. Gateway!AnswersAreChecked'
    BY <1>0, <1>2 DEF Gateway!AnswersAreChecked, Marked
<1> QED BY <1>3, <1>4, <1>5, <1>6, <1>7 DEF TurnsInv

\* Every step of a gateway keeps the invariant of its turns.
LEMMA TurnStepsKeep == TurnsInv /\ [Gateway!Next]_(Gateway!turnVars) => TurnsInv'
<1> SUFFICES ASSUME TurnsInv, [Gateway!Next]_(Gateway!turnVars) PROVE TurnsInv'
    OBVIOUS
<1>1. CASE UNCHANGED Gateway!turnVars
    BY <1>1 DEF TurnsInv, GatewayTypes, TurnFits, TurnRow, SeenAreJudged, ReadIsJudged, LaxIsKnown,
       LaxFits, Judged, Gateway!RefusedStaysOut, Gateway!AnswersAreChecked, Gateway!turnVars
<1>2. ASSUME NEW r \in Talks, NEW c \in Conversations, NEW streamed \in BOOLEAN,
             Gateway!ReadTurn(r, c, streamed)
      PROVE  TurnsInv'
    BY <1>2, ReadKeepsTurns
<1>3. ASSUME NEW r \in Talks, NEW stance \in {turn[r].stance, enforce}, Gateway!LetThrough(r, stance)
      PROVE  TurnsInv'
    BY <1>3, LettingKeepsTurns
<1>4. ASSUME NEW r \in Talks, NEW stance \in {turn[r].stance, enforce}, Gateway!RefuseTurn(r, stance)
      PROVE  TurnsInv'
    BY <1>4, EndingKeepsTurns DEF Gateway!RefuseTurn
<1>5. ASSUME NEW r \in Talks, NEW activity, Gateway!CheckInbound(r, activity)
      PROVE  TurnsInv'
    BY <1>5, CheckKeepsTurns
<1>6. ASSUME NEW r \in Talks, Gateway!Forward(r)
      PROVE  TurnsInv'
    BY <1>6, ForwardKeepsTurns
<1>7. ASSUME NEW r \in Talks, NEW reply, Gateway!Answer(r, reply)
      PROVE  TurnsInv'
    BY <1>7, AnswerKeepsTurns
<1>8. CASE Gateway!ChangeStance \/ Gateway!ChangeRole
    BY <1>8, ChangeKeepsTurns
<1> QED BY <1>1, <1>2, <1>3, <1>4, <1>5, <1>6, <1>7, <1>8 DEF Gateway!Next

\* Every gateway starts in it.
LEMMA TurnsStart == Gateway!Init => TurnsInv
<1> SUFFICES ASSUME Gateway!Init PROVE TurnsInv
    OBVIOUS
<1>1. /\ enforce \in BOOLEAN /\ role \in BOOLEAN /\ seen = {}
      /\ turn = [r \in Talks |-> Gateway!Idle]
    BY DEF Gateway!Init
<1>2. \A r \in Talks : TurnFits(r)
    BY <1>1 DEF TurnFits, TurnRow, Gateway!Idle
<1>3. GatewayTypes
    BY <1>1, <1>2 DEF GatewayTypes
<1>4. SeenAreJudged /\ ReadIsJudged /\ LaxIsKnown
    BY <1>1 DEF SeenAreJudged, ReadIsJudged, LaxIsKnown, LaxFits, Gateway!Idle
<1>5. Gateway!RefusedStaysOut /\ Gateway!AnswersAreChecked
    BY <1>1 DEF Gateway!RefusedStaysOut, Gateway!AnswersAreChecked, Gateway!Idle
<1> QED BY <1>3, <1>4, <1>5 DEF TurnsInv

-----------------------------------------------------------------------------
(* Prompts at the inference hook: what is recalled, and what was denied.   *)

\* The ids, and the one that an idle handler's row names when there are none.
PromptIds == Prompts!Ids \cup {CHOOSE i \in Prompts!Ids : TRUE}
Remembered == [verdict : {"none", "allow", "deny"}, at : Int]
PromptRows == [at : {"idle", "new", "score", "remember", "answer"}, id : PromptIds, cutoff : Int,
               stance : BOOLEAN, verdict : {"none", "allow", "deny"}, fresh : BOOLEAN,
               since : Int, had : SUBSET Prompts!Blocks]

PromptTypes ==
    /\ hour \in Nat /\ enforces \in BOOLEAN
    /\ recalled \in [Prompts!Ids -> Remembered] /\ given \in [Prompts!Ids -> Remembered]
    /\ denial \in [Prompts!Blocks -> Int] /\ denied \in [Prompts!Blocks -> Int]
    /\ \A b \in Prompts!Blocks : denied[b] <= hour
    /\ hook \in [Hooks -> PromptRows]
    /\ slippedBy \subseteq Prompts!Blocks /\ doubled \subseteq Prompts!Ids

\* What a handler of the hook has found out at its step.
HookFits(h) ==
    /\ hook[h].at # "idle" => hook[h].id \in Prompts!Ids
    /\ hook[h].at \in {"new", "score", "remember"} => hook[h].fresh
    /\ hook[h].at = "answer" => hook[h].verdict # "none"
    /\ hook[h].at = "remember" => hook[h].verdict = "deny"
    /\ hook[h].at \in {"score", "remember"} =>
          hook[h].had = {} /\ hook[h].cutoff = hour - DenialTTL
    /\ hook[h].at = "answer" /\ hook[h].verdict = "allow" => hook[h].had = {}

HooksFit == \A h \in Hooks : HookFits(h)

\* A denial is remembered while it lasts, unless one slipped by.
DenialsLast ==
    \A b \in Prompts!Blocks \ slippedBy :
        denied[b] # -1 => \/ denial[b] # -1 /\ denial[b] >= denied[b]
                          \/ denied[b] < hour - DenialTTL

\* Two handlers are at one id only if it is a doubled one.
AloneUnlessDoubled ==
    \A g, h \in Hooks : hook[g].at # "idle" /\ hook[h].at # "idle" /\ g # h
                            /\ hook[g].id = hook[h].id => hook[g].id \in doubled

\* The first answer to an id is the one that is recalled.
FirstIsRecalled ==
    \A i \in Prompts!Ids \ doubled :
        IF given[i].verdict = "none" THEN recalled[i].verdict = "none"
        ELSE recalled[i] = [verdict |-> given[i].verdict, at |-> given[i].at + RecallTTL]

\* A handler's finding that its id was new, or had an answer, was true when it came.
RecallFit(h) ==
    hook[h].at # "idle" /\ hook[h].id \notin doubled =>
        IF hook[h].fresh
        THEN recalled[hook[h].id].verdict = "none" \/ recalled[hook[h].id].at <= hook[h].since
        ELSE /\ recalled[hook[h].id].verdict = hook[h].verdict
             /\ recalled[hook[h].id].at > hook[h].since

RecallFits == \A h \in Hooks : RecallFit(h)

HooksInv == PromptTypes /\ HooksFit /\ DenialsLast /\ AloneUnlessDoubled /\ FirstIsRecalled
            /\ RecallFits

\* A block of a transcript is one of the blocks; the lifetimes are numbers.
LEMMA TranscriptsFit ==
    /\ RecallTTL \in Nat \ {0} /\ DenialTTL \in Nat
    /\ \A i \in Prompts!Ids : /\ Transcripts[i].prior \subseteq Prompts!Blocks
                              /\ Transcripts[i].latest \subseteq Prompts!Blocks
    BY Assumptions DEF Prompts!TTLAssumption, Prompts!Ids, Prompts!Blocks

\* What an idle handler's row is.
LEMMA IdlePrompt ==
    /\ Prompts!Idle \in PromptRows /\ Prompts!Idle.at = "idle"
    /\ Prompts!Idle.had = {} /\ Prompts!Idle.fresh = FALSE
  <1>1. (CHOOSE i \in Prompts!Ids : TRUE) \in PromptIds
      BY DEF PromptIds
  <1> QED BY <1>1 DEF Prompts!Idle, PromptRows

\* A request gets the answer that is remembered, or is new.
LEMMA PromptIsReceived ==
    ASSUME NEW h \in Hooks, NEW i \in Prompts!Ids, PromptTypes, Prompts!Receive(h, i)
    PROVE  \E to \in PromptRows :
              /\ hook' = [hook EXCEPT ![h] = to]
              /\ to.id = i /\ to.since = hour /\ to.had = {}
              /\ \/ Prompts!Recall(i) /\ to.at = "answer" /\ ~to.fresh
                    /\ to.verdict = recalled[i].verdict
                 \/ ~Prompts!Recall(i) /\ to.at = "new" /\ to.fresh
<1>1. i \in PromptIds /\ recalled[i].verdict \in {"none", "allow", "deny"} /\ hour \in Int
    BY DEF PromptIds, PromptTypes, Remembered
<1>2. PICK x \in PromptRows : x = Prompts!Idle /\ x.fresh = FALSE /\ x.had = {}
    BY IdlePrompt
<1>3. CASE Prompts!Recall(i)
  <2>1. PICK to : to = [x EXCEPT !.at = "answer", !.id = i, !.verdict = recalled[i].verdict, !.since = hour]
      OBVIOUS
  <2>2. hook' = [hook EXCEPT ![h] = to]
      BY <1>2, <1>3, <2>1, Zenon DEF Prompts!Receive, Prompts!Moves
  <2>3. to \in PromptRows /\ to.id = i /\ to.since = hour /\ to.had = {} /\ to.at = "answer"
        /\ to.fresh = FALSE /\ to.verdict = recalled[i].verdict
      BY <1>1, <1>2, <2>1 DEF PromptRows
  <2> QED BY <1>3, <2>2, <2>3
<1>4. CASE ~Prompts!Recall(i)
  <2>1. PICK to : to = [x EXCEPT !.at = "new", !.id = i, !.fresh = TRUE, !.since = hour]
      OBVIOUS
  <2>2. hook' = [hook EXCEPT ![h] = to]
      BY <1>2, <1>4, <2>1, Zenon DEF Prompts!Receive, Prompts!Moves
  <2>3. to \in PromptRows /\ to.id = i /\ to.since = hour /\ to.had = {} /\ to.at = "new"
        /\ to.fresh = TRUE
      BY <1>1, <1>2, <2>1 DEF PromptRows
  <2> QED BY <1>4, <2>2, <2>3
<1> QED BY <1>3, <1>4

\* A request that comes while another with its id is under way makes the id a doubled one.
LEMMA ReceiveKeepsHooks ==
    ASSUME NEW h \in Hooks, NEW i \in Prompts!Ids, Prompts!Receive(h, i), HooksInv
    PROVE  HooksInv'
<1>0. PromptTypes /\ HooksFit /\ DenialsLast /\ AloneUnlessDoubled /\ FirstIsRecalled /\ RecallFits
    BY DEF HooksInv
<1>1. PICK to \in PromptRows :
              /\ hook' = [hook EXCEPT ![h] = to]
              /\ to.id = i /\ to.since = hour /\ to.had = {}
              /\ \/ Prompts!Recall(i) /\ to.at = "answer" /\ ~to.fresh
                    /\ to.verdict = recalled[i].verdict
                 \/ ~Prompts!Recall(i) /\ to.at = "new" /\ to.fresh
    BY <1>0, PromptIsReceived
<1>2. /\ UNCHANGED <<hour, enforces, recalled, given, denial, denied, slippedBy>>
      /\ doubled' = IF \E g \in Hooks : hook[g].at # "idle" /\ hook[g].id = i
                    THEN doubled \cup {i} ELSE doubled
      /\ hook[h].at = "idle"
    BY DEF Prompts!Receive
<1>3. /\ hook' \in [Hooks -> PromptRows] /\ hook'[h] = to
      /\ \A g \in Hooks : g # h => hook'[g] = hook[g]
    BY <1>0, <1>1 DEF PromptTypes
<1>4. PromptTypes'
    BY <1>0, <1>2, <1>3 DEF PromptTypes
<1>5. HooksFit'
    BY <1>0, <1>1, <1>2, <1>3 DEF HooksFit, HookFits, Prompts!Recall
<1>6. DenialsLast'
    BY <1>0, <1>2 DEF DenialsLast
<1>7. AloneUnlessDoubled'
    BY <1>0, <1>1, <1>2, <1>3 DEF AloneUnlessDoubled
<1>8. FirstIsRecalled'
    BY <1>0, <1>2 DEF FirstIsRecalled
<1>9. RecallFits'
  <2> SUFFICES ASSUME NEW g \in Hooks PROVE RecallFit(g)'
      BY DEF RecallFits
  <2>1. CASE g # h
      BY <1>0, <1>2, <1>3, <2>1 DEF RecallFits, RecallFit
  <2>2. CASE g = h
    <3>1. recalled[i].at \in Int /\ hour \in Int
        BY <1>0 DEF PromptTypes, Remembered
    <3> QED BY <1>1, <1>2, <1>3, <2>2, <3>1 DEF RecallFit, Prompts!Recall
  <2> QED BY <2>1, <2>2
<1> QED BY <1>4, <1>5, <1>6, <1>7, <1>8, <1>9 DEF HooksInv

\* A handler that goes on with its request keeps what is remembered of the id.
LEMMA MoveKeepsHooks ==
    ASSUME NEW h \in Hooks, NEW to \in PromptRows, HooksInv, hook' = [hook EXCEPT ![h] = to],
           UNCHANGED <<hour, enforces, recalled, given, denied, doubled>>,
           denial' \in [Prompts!Blocks -> Int], slippedBy' \subseteq Prompts!Blocks,
           DenialsLast', hook[h].at # "idle", HookFits(h)',
           to.at # "idle" => to.id = hook[h].id /\ to.fresh /\ hook[h].fresh /\ to.since = hook[h].since
    PROVE  HooksInv'
<1>0. PromptTypes /\ HooksFit /\ DenialsLast /\ AloneUnlessDoubled /\ FirstIsRecalled /\ RecallFits
    BY DEF HooksInv
<1>1. /\ hook' \in [Hooks -> PromptRows] /\ hook'[h] = to
      /\ \A g \in Hooks : g # h => hook'[g] = hook[g]
    BY <1>0 DEF PromptTypes
<1>2. PromptTypes'
    BY <1>0, <1>1 DEF PromptTypes
<1>3. HooksFit'
    BY <1>0, <1>1 DEF HooksFit, HookFits
<1>4. AloneUnlessDoubled'
    BY <1>0, <1>1 DEF AloneUnlessDoubled
<1>5. FirstIsRecalled'
    BY <1>0 DEF FirstIsRecalled
<1>6. RecallFits'
    BY <1>0, <1>1 DEF RecallFits, RecallFit
<1> QED BY <1>2, <1>3, <1>4, <1>5, <1>6 DEF HooksInv

\* A handler that finds no denial in the earlier turns had none to find.
LEMMA LookBackKeepsHooks ==
    ASSUME NEW h \in Hooks, Prompts!LookBack(h), HooksInv
    PROVE  HooksInv'
<1>0. PromptTypes /\ HooksFit /\ DenialsLast
    BY DEF HooksInv
<1> DEFINE prior  == Transcripts[hook[h].id].prior
           cutoff == hour - DenialTTL
           hit    == \E b \in prior : denial[b] # Prompts!Never /\ denial[b] >= cutoff
           had    == {b \in prior \ slippedBy : denied[b] # Prompts!Never /\ denied[b] >= cutoff}
           at_    == IF hit THEN "answer" ELSE "score"
           says   == IF hit THEN "deny" ELSE "none"
<1>1. /\ hook[h].at = "new" /\ UNCHANGED <<hour, enforces, recalled, given, denied, doubled, denial, slippedBy>>
      /\ hook' = [hook EXCEPT ![h] = [hook[h] EXCEPT !.at = at_, !.verdict = says,
                     !.stance = enforces, !.cutoff = cutoff, !.had = had]]
    BY Zenon DEF Prompts!LookBack, Prompts!Moves
<1>2. hook[h] \in PromptRows /\ hook[h].id \in Prompts!Ids /\ hook[h].fresh
    BY <1>0, <1>1 DEF PromptTypes, HooksFit, HookFits
<1>3. prior \subseteq Prompts!Blocks /\ cutoff \in Int
    BY <1>0, <1>2, TranscriptsFit DEF PromptTypes
<1>4. ~hit => had = {}
  <2> SUFFICES ASSUME ~hit, NEW b \in had PROVE FALSE
      OBVIOUS
  <2>1. b \in Prompts!Blocks \ slippedBy /\ denied[b] # -1 /\ denied[b] >= cutoff /\ b \in prior
      BY <1>3 DEF Prompts!Never
  <2>2. denied[b] \in Int /\ denial[b] \in Int
      BY <1>0, <2>1 DEF PromptTypes
  <2>3. denial[b] # -1 /\ denial[b] >= denied[b]
      BY <1>0, <1>3, <2>1, <2>2 DEF DenialsLast
  <2> QED BY <1>3, <2>1, <2>2, <2>3 DEF Prompts!Never
<1>5. enforces \in BOOLEAN
    BY <1>0 DEF PromptTypes
<1> HIDE DEF hit, had, cutoff, prior
<1>6. PICK to : to = [hook[h] EXCEPT !.at = at_, !.verdict = says,
                     !.stance = enforces, !.cutoff = cutoff, !.had = had]
    OBVIOUS
<1>7. had \subseteq Prompts!Blocks
    BY <1>3 DEF had
<1>8. /\ to \in PromptRows /\ to.at = at_ /\ to.verdict = says /\ to.cutoff = cutoff /\ to.had = had
      /\ to.id = hook[h].id /\ to.fresh = hook[h].fresh /\ to.since = hook[h].since
    BY <1>2, <1>3, <1>5, <1>6, <1>7 DEF PromptRows
<1>9. hook' = [hook EXCEPT ![h] = to] /\ hook'[h] = to
    BY <1>0, <1>1, <1>6 DEF PromptTypes
<1>10. HookFits(h)'
    BY <1>1, <1>2, <1>4, <1>8, <1>9 DEF HookFits, cutoff
<1>11. DenialsLast'
    BY <1>0, <1>1 DEF DenialsLast
<1> QED BY <1>0, <1>1, <1>2, <1>8, <1>9, <1>10, <1>11, MoveKeepsHooks DEF PromptTypes

\* Scoring decides on the verdict, and on whether there is a denial to remember.
LEMMA ScoreKeepsHooks ==
    ASSUME NEW h \in Hooks, Prompts!Score(h), HooksInv
    PROVE  HooksInv'
<1>0. PromptTypes /\ HooksFit /\ DenialsLast
    BY DEF HooksInv
<1>1. /\ hook[h].at = "score"
      /\ UNCHANGED <<hour, enforces, recalled, given, denied, doubled, denial, slippedBy>>
      /\ \E at_ \in {"remember", "answer"}, says \in {"deny", "allow"} :
            /\ at_ = "remember" => says = "deny"
            /\ hook' = [hook EXCEPT ![h] = [hook[h] EXCEPT !.at = at_, !.verdict = says]]
  <2> DEFINE leaks   == \E b \in Transcripts[hook[h].id].results : Verdict[b] = "secret"
             barred == \E b \in Transcripts[hook[h].id].latest : Prompts!Refuses(hook[h].stance, b)
             at_     == IF ~leaks /\ barred THEN "remember" ELSE "answer"
             says    == IF leaks \/ barred THEN "deny" ELSE "allow"
  <2>1. hook' = [hook EXCEPT ![h] = [hook[h] EXCEPT !.at = at_, !.verdict = says]]
      BY Zenon DEF Prompts!Score, Prompts!Moves
  <2>2. at_ \in {"remember", "answer"} /\ says \in {"deny", "allow"}
        /\ (at_ = "remember" => says = "deny")
      OBVIOUS
  <2>3. hook[h].at = "score" /\ UNCHANGED <<hour, enforces, recalled, given, denied, doubled, denial, slippedBy>>
      BY DEF Prompts!Score
  <2> HIDE DEF at_, says
  <2> QED BY <2>1, <2>2, <2>3
<1>2. PICK at_ \in {"remember", "answer"}, says \in {"deny", "allow"} :
            /\ at_ = "remember" => says = "deny"
            /\ hook' = [hook EXCEPT ![h] = [hook[h] EXCEPT !.at = at_, !.verdict = says]]
    BY <1>1
<1>3. hook[h] \in PromptRows /\ HookFits(h)
    BY <1>0 DEF PromptTypes, HooksFit
<1>4. PICK to : to = [hook[h] EXCEPT !.at = at_, !.verdict = says]
    OBVIOUS
<1>5. /\ to \in PromptRows /\ to.at = at_ /\ to.verdict = says /\ to.cutoff = hook[h].cutoff
      /\ to.had = hook[h].had /\ to.id = hook[h].id /\ to.fresh = hook[h].fresh
      /\ to.since = hook[h].since
    BY <1>3, <1>4 DEF PromptRows
<1>6. hook' = [hook EXCEPT ![h] = to] /\ hook'[h] = to
    BY <1>0, <1>2, <1>4 DEF PromptTypes
<1>7. HookFits(h)'
    BY <1>1, <1>2, <1>3, <1>5, <1>6 DEF HookFits
<1>8. DenialsLast'
    BY <1>0, <1>1 DEF DenialsLast
<1> QED BY <1>0, <1>1, <1>3, <1>5, <1>6, <1>7, <1>8, MoveKeepsHooks DEF PromptTypes, HookFits

\* The sweep after a denial takes only what the lookups no longer see.
LEMMA RememberKeepsHooks ==
    ASSUME NEW h \in Hooks, NEW ok \in BOOLEAN, Prompts!RememberDenial(h, ok), HooksInv
    PROVE  HooksInv'
<1>0. PromptTypes /\ HooksFit /\ DenialsLast
    BY DEF HooksInv
<1> DEFINE new == {b \in Transcripts[hook[h].id].latest : denial[b] = Prompts!Never}
<1>1. /\ hook[h].at = "remember"
      /\ UNCHANGED <<hour, enforces, recalled, given, denied, doubled>>
      /\ hook' = [hook EXCEPT ![h] = [hook[h] EXCEPT !.at = "answer"]]
      /\ denial' = IF ok THEN [b \in Prompts!Blocks |->
                                  IF b \in new THEN hour
                                  ELSE IF b \in Prompts!Kept(h) THEN denial[b] ELSE Prompts!Never]
                   ELSE denial
      /\ slippedBy' = IF ok THEN slippedBy \ new ELSE slippedBy
    BY Zenon DEF Prompts!RememberDenial, Prompts!Moves
<1>2. hook[h] \in PromptRows /\ HookFits(h)
    BY <1>0 DEF PromptTypes, HooksFit
<1>3. PICK to : to = [hook[h] EXCEPT !.at = "answer"]
    OBVIOUS
<1>4. /\ to \in PromptRows /\ to.at = "answer" /\ to.verdict = hook[h].verdict
      /\ to.had = hook[h].had /\ to.id = hook[h].id /\ to.fresh = hook[h].fresh
      /\ to.since = hook[h].since
    BY <1>2, <1>3 DEF PromptRows
<1>5. hook' = [hook EXCEPT ![h] = to] /\ hook'[h] = to
    BY <1>0, <1>1, <1>3 DEF PromptTypes
<1>6. HookFits(h)'
    BY <1>1, <1>2, <1>4, <1>5 DEF HookFits
<1>7. denial' \in [Prompts!Blocks -> Int] /\ slippedBy' \subseteq Prompts!Blocks
    BY <1>0, <1>1 DEF PromptTypes, Prompts!Never
<1>8. DenialsLast'
  <2> SUFFICES ASSUME NEW b \in Prompts!Blocks, b \notin slippedBy', denied[b] # -1
               PROVE  \/ denial'[b] # -1 /\ denial'[b] >= denied[b]
                      \/ denied[b] < hour - DenialTTL
      BY <1>1 DEF DenialsLast
  <2>1. hour \in Nat /\ DenialTTL \in Nat /\ denied[b] \in Int /\ denial[b] \in Int /\ denied[b] <= hour
      BY <1>0, TranscriptsFit DEF PromptTypes
  <2>2. CASE ~ok
      BY <1>0, <1>1, <2>2 DEF DenialsLast
  <2>3. CASE ok /\ b \in new
      BY <1>1, <2>1, <2>3
  <2>4. CASE ok /\ b \notin new /\ b \in Prompts!Kept(h)
    <3>1. denial'[b] = denial[b] /\ b \notin slippedBy
        BY <1>1, <2>4
    <3> QED BY <1>0, <3>1 DEF DenialsLast
  <2>5. CASE ok /\ b \notin new /\ b \notin Prompts!Kept(h)
    <3>1. b \notin slippedBy
        BY <1>1, <2>5
    <3>2. hook[h].cutoff = hour - DenialTTL
        BY <1>1, <1>2 DEF HookFits
    <3>3. denial[b] = -1 \/ denial[b] < hour - DenialTTL
        BY <2>1, <2>5, <3>2 DEF Prompts!Kept, Prompts!Never
    <3> QED BY <1>0, <2>1, <3>1, <3>3 DEF DenialsLast
  <2> QED BY <2>2, <2>3, <2>4, <2>5
<1> QED BY <1>0, <1>1, <1>2, <1>4, <1>5, <1>6, <1>7, <1>8, MoveKeepsHooks DEF HookFits

\* An answer: the first one is kept for the repeats, and a denial has its row, or slipped.
LEMMA AnswerKeepsHooks ==
    ASSUME NEW h \in Hooks, Prompts!Answer(h), HooksInv
    PROVE  HooksInv'
<1>0. PromptTypes /\ HooksFit /\ DenialsLast /\ AloneUnlessDoubled /\ FirstIsRecalled /\ RecallFits
    BY DEF HooksInv
<1> DEFINE r == hook[h]
           barred == IF r.fresh /\ r.verdict = "deny"
                      THEN {b \in Transcripts[r.id].latest : Prompts!Refuses(r.stance, b)} ELSE {}
<1>1. /\ r.at = "answer" /\ UNCHANGED <<hour, enforces, denial, doubled>>
      /\ recalled' = IF r.fresh THEN [recalled EXCEPT ![r.id] = [verdict |-> r.verdict,
                                                                at |-> hour + RecallTTL]]
                     ELSE recalled
      /\ given' = IF given[r.id].verdict = "none" \/ given[r.id].at + RecallTTL <= r.since
                  THEN [given EXCEPT ![r.id] = [verdict |-> r.verdict, at |-> hour]]
                  ELSE given
      /\ denied' = [b \in Prompts!Blocks |-> IF b \in barred THEN hour ELSE denied[b]]
      /\ slippedBy' = slippedBy \cup {b \in barred : denial[b] # hour}
      /\ hook' = [hook EXCEPT ![h] = Prompts!Idle]
    BY Zenon DEF Prompts!Answer, Prompts!Moves
<1>2. r \in PromptRows /\ HookFits(h) /\ RecallFit(h) /\ r.id \in Prompts!Ids
    BY <1>0, <1>1 DEF PromptTypes, HooksFit, HookFits, RecallFits
<1>3. barred \subseteq Prompts!Blocks
    BY <1>2, TranscriptsFit
<1> HIDE DEF barred
<1>4. /\ hook' \in [Hooks -> PromptRows] /\ hook'[h].at = "idle"
      /\ \A g \in Hooks : g # h => hook'[g] = hook[g]
    BY <1>0, <1>1, IdlePrompt DEF PromptTypes
<1>5. hour \in Nat /\ RecallTTL \in Nat /\ DenialTTL \in Nat /\ RecallTTL > 0
    BY <1>0, TranscriptsFit DEF PromptTypes
<1>6. r.verdict \in {"allow", "deny"} /\ r.since \in Int /\ r.fresh \in BOOLEAN
    BY <1>1, <1>2 DEF PromptRows, HookFits
<1>7. PromptTypes'
  <2>1. [verdict |-> r.verdict, at |-> hour + RecallTTL] \in Remembered
        /\ [verdict |-> r.verdict, at |-> hour] \in Remembered
      BY <1>5, <1>6 DEF Remembered
  <2>2. recalled' \in [Prompts!Ids -> Remembered] /\ given' \in [Prompts!Ids -> Remembered]
      BY <1>0, <1>1, <2>1 DEF PromptTypes
  <2>3. denied' \in [Prompts!Blocks -> Int] /\ \A b \in Prompts!Blocks : denied'[b] <= hour
      BY <1>0, <1>1, <1>5 DEF PromptTypes
  <2> QED BY <1>0, <1>1, <1>3, <1>4, <2>2, <2>3 DEF PromptTypes
<1>8. HooksFit'
    BY <1>0, <1>1, <1>4 DEF HooksFit, HookFits
<1>9. DenialsLast'
    BY <1>0, <1>1, <1>3, <1>5 DEF DenialsLast, PromptTypes
<1>10. AloneUnlessDoubled'
    BY <1>0, <1>1, <1>4 DEF AloneUnlessDoubled
<1>11. \A i \in Prompts!Ids : i # r.id => recalled'[i] = recalled[i] /\ given'[i] = given[i]
    BY <1>0, <1>1 DEF PromptTypes
<1>12. FirstIsRecalled'
  <2> SUFFICES ASSUME NEW i \in Prompts!Ids \ doubled
               PROVE  IF given'[i].verdict = "none" THEN recalled'[i].verdict = "none"
                      ELSE recalled'[i] = [verdict |-> given'[i].verdict, at |-> given'[i].at + RecallTTL]
      BY <1>1 DEF FirstIsRecalled
  <2>1. CASE i # r.id
      BY <1>0, <1>11, <2>1 DEF FirstIsRecalled
  <2>2. CASE i = r.id /\ r.fresh
    <3>1. recalled'[i] = [verdict |-> r.verdict, at |-> hour + RecallTTL]
        BY <1>0, <1>1, <2>2 DEF PromptTypes
    <3>2. recalled[i].verdict = "none" \/ recalled[i].at <= r.since
        BY <1>1, <1>2, <2>2 DEF RecallFit
    <3>3. given[i].verdict = "none" \/ given[i].at + RecallTTL <= r.since
      <4>1. given[i].verdict # "none" => recalled[i] =
                [verdict |-> given[i].verdict, at |-> given[i].at + RecallTTL]
          BY <1>0 DEF FirstIsRecalled
      <4>2. given[i].verdict # "none" => /\ recalled[i].verdict = given[i].verdict
                                         /\ recalled[i].at = given[i].at + RecallTTL
          BY <4>1
      <4> QED BY <3>2, <4>2
    <3>4. given'[i] = [verdict |-> r.verdict, at |-> hour]
        BY <1>0, <1>1, <2>2, <3>3 DEF PromptTypes
    <3> QED BY <1>6, <3>1, <3>4
  <2>3. CASE i = r.id /\ ~r.fresh
    <3>1. recalled[i].verdict = r.verdict /\ recalled[i].at > r.since
        BY <1>1, <1>2, <2>3 DEF RecallFit
    <3>2. given[i].verdict # "none" /\ given[i].at + RecallTTL > r.since
      <4>1. IF given[i].verdict = "none" THEN recalled[i].verdict = "none"
            ELSE recalled[i] = [verdict |-> given[i].verdict, at |-> given[i].at + RecallTTL]
          BY <1>0, <2>3 DEF FirstIsRecalled
      <4>2. given[i].verdict # "none"
          BY <1>6, <3>1, <4>1
      <4>3. recalled[i].at = given[i].at + RecallTTL
          BY <4>1, <4>2
      <4> QED BY <3>1, <4>2, <4>3, <2>3
    <3>3. given[i].at \in Int
        BY <1>0 DEF PromptTypes, Remembered
    <3>4. given' = given /\ recalled' = recalled
        BY <1>1, <1>5, <1>6, <2>3, <3>2, <3>3
    <3> QED BY <1>0, <3>4 DEF FirstIsRecalled
  <2> QED BY <2>1, <2>2, <2>3
<1>13. RecallFits'
  <2> SUFFICES ASSUME NEW g \in Hooks, hook'[g].at # "idle", hook'[g].id \notin doubled
               PROVE  RecallFit(g)'
      BY <1>1 DEF RecallFits, RecallFit
  <2>1. g # h /\ hook'[g] = hook[g]
      BY <1>4
  <2>2. hook[g].id # r.id /\ hook[g].id \in Prompts!Ids
      BY <1>0, <1>1, <2>1 DEF AloneUnlessDoubled, HooksFit, HookFits
  <2> QED BY <1>0, <1>1, <1>11, <2>1, <2>2 DEF RecallFits, RecallFit
<1> QED BY <1>7, <1>8, <1>9, <1>10, <1>12, <1>13 DEF HooksInv

\* A failed request answers nothing; a process that starts again remembers nothing.
LEMMA FailureKeepsHooks ==
    ASSUME HooksInv, Prompts!Restart \/ \E h \in Hooks : Prompts!Fail(h)
    PROVE  HooksInv'
<1>0. PromptTypes /\ HooksFit /\ DenialsLast /\ AloneUnlessDoubled /\ FirstIsRecalled /\ RecallFits
    BY DEF HooksInv
<1>1. CASE Prompts!Restart
  <2>1. /\ UNCHANGED <<hour, enforces, denial, denied, slippedBy>> /\ doubled' = {}
        /\ recalled' = [i \in Prompts!Ids |-> Prompts!Nothing] /\ given' = recalled'
        /\ hook' = [h \in Hooks |-> Prompts!Idle]
      BY <1>1 DEF Prompts!Restart
  <2>2. Prompts!Nothing \in Remembered /\ Prompts!Nothing.verdict = "none"
      BY DEF Prompts!Nothing, Remembered
  <2>3. PromptTypes' /\ \A h \in Hooks : hook'[h].at = "idle"
      BY <1>0, <2>1, <2>2, IdlePrompt DEF PromptTypes
  <2>4. HooksFit' /\ AloneUnlessDoubled' /\ RecallFits'
      BY <2>3 DEF HooksFit, HookFits, AloneUnlessDoubled, RecallFits, RecallFit
  <2>5. FirstIsRecalled'
      BY <2>1, <2>2 DEF FirstIsRecalled
  <2>6. DenialsLast'
      BY <1>0, <2>1 DEF DenialsLast
  <2> QED BY <2>3, <2>4, <2>5, <2>6 DEF HooksInv
<1>2. ASSUME NEW h \in Hooks, Prompts!Fail(h)
      PROVE  HooksInv'
  <2>1. /\ hook[h].at # "idle"
        /\ UNCHANGED <<hour, enforces, recalled, given, denied, doubled, denial, slippedBy>>
        /\ hook' = [hook EXCEPT ![h] = Prompts!Idle]
      BY <1>2 DEF Prompts!Fail, Prompts!Moves
  <2>2. hook'[h] = Prompts!Idle
      BY <1>0, <2>1 DEF PromptTypes
  <2>3. HookFits(h)'
      BY <2>2, IdlePrompt DEF HookFits
  <2>4. DenialsLast'
      BY <1>0, <2>1 DEF DenialsLast
  <2> QED BY <1>0, <2>1, <2>2, <2>3, <2>4, IdlePrompt, MoveKeepsHooks DEF PromptTypes
<1> QED BY <1>1, <1>2

\* Every step of the inference hook keeps its invariant.
LEMMA HookStepsKeep == HooksInv /\ [Prompts!Next]_(Prompts!hookVars) => HooksInv'
<1> SUFFICES ASSUME HooksInv, [Prompts!Next]_(Prompts!hookVars) PROVE HooksInv'
    OBVIOUS
<1>0. PromptTypes /\ HooksFit /\ DenialsLast /\ AloneUnlessDoubled /\ FirstIsRecalled /\ RecallFits
    BY DEF HooksInv
<1>1. CASE UNCHANGED <<recalled, denial, hook, denied, slippedBy, given, doubled>>
           /\ hour' \in {hour, hour + 1} /\ (hour' # hour => \A h \in Hooks : hook[h].at = "idle")
           /\ enforces' \in BOOLEAN
  <2>1. hour \in Nat /\ DenialTTL \in Nat
      BY <1>0, TranscriptsFit DEF PromptTypes
  <2>2. PromptTypes'
      BY <1>0, <1>1, <2>1 DEF PromptTypes
  <2>3. HooksFit'
      BY <1>0, <1>1 DEF HooksFit, HookFits
  <2>4. DenialsLast'
      BY <1>0, <1>1, <2>1 DEF DenialsLast, PromptTypes
  <2>5. AloneUnlessDoubled' /\ FirstIsRecalled' /\ RecallFits'
      BY <1>0, <1>1 DEF AloneUnlessDoubled, FirstIsRecalled, RecallFits, RecallFit
  <2> QED BY <2>2, <2>3, <2>4, <2>5 DEF HooksInv
<1>2. CASE UNCHANGED Prompts!hookVars
    BY <1>0, <1>1, <1>2 DEF Prompts!hookVars, PromptTypes
<1>3. ASSUME NEW h \in Hooks, NEW i \in Prompts!Ids, Prompts!Receive(h, i)
      PROVE  HooksInv'
    BY <1>3, ReceiveKeepsHooks
<1>4. ASSUME NEW h \in Hooks, Prompts!LookBack(h)
      PROVE  HooksInv'
    BY <1>4, LookBackKeepsHooks
<1>5. ASSUME NEW h \in Hooks, Prompts!Score(h)
      PROVE  HooksInv'
    BY <1>5, ScoreKeepsHooks
<1>6. ASSUME NEW h \in Hooks, NEW ok \in BOOLEAN, Prompts!RememberDenial(h, ok)
      PROVE  HooksInv'
    BY <1>6, RememberKeepsHooks
<1>7. ASSUME NEW h \in Hooks, Prompts!Answer(h)
      PROVE  HooksInv'
    BY <1>7, AnswerKeepsHooks
<1>8. CASE Prompts!Restart \/ \E h \in Hooks : Prompts!Fail(h)
    BY <1>8, FailureKeepsHooks
<1>9. CASE Prompts!Tick
    BY <1>0, <1>1, <1>9 DEF Prompts!Tick, PromptTypes
<1>10. CASE Prompts!ChangeStance
    BY <1>0, <1>1, <1>10 DEF Prompts!ChangeStance, PromptTypes
<1> QED BY <1>2, <1>3, <1>4, <1>5, <1>6, <1>7, <1>8, <1>9, <1>10 DEF Prompts!Next

\* Every session's hook starts in it.
LEMMA HooksStart == Prompts!Init => HooksInv
<1> SUFFICES ASSUME Prompts!Init PROVE HooksInv
    OBVIOUS
<1>1. /\ hour = 0 /\ enforces \in BOOLEAN
      /\ recalled = [i \in Prompts!Ids |-> Prompts!Nothing]
      /\ given = [i \in Prompts!Ids |-> Prompts!Nothing]
      /\ denial = [b \in Prompts!Blocks |-> -1] /\ denied = [b \in Prompts!Blocks |-> -1]
      /\ hook = [h \in Hooks |-> Prompts!Idle] /\ slippedBy = {} /\ doubled = {}
    BY DEF Prompts!Init, Prompts!Never
<1>2. Prompts!Nothing \in Remembered /\ Prompts!Nothing.verdict = "none"
    BY DEF Prompts!Nothing, Remembered
<1>3. PromptTypes /\ \A h \in Hooks : hook[h].at = "idle"
    BY <1>1, <1>2, IdlePrompt DEF PromptTypes
<1>4. HooksFit /\ AloneUnlessDoubled /\ RecallFits
    BY <1>3 DEF HooksFit, HookFits, AloneUnlessDoubled, RecallFits, RecallFit
<1>5. FirstIsRecalled
    BY <1>1, <1>2 DEF FirstIsRecalled
<1>6. DenialsLast
    BY <1>1 DEF DenialsLast
<1> QED BY <1>3, <1>4, <1>5, <1>6 DEF HooksInv

\* It says that what was denied stays out and that repeats agree.
LEMMA HooksHold == HooksInv => Prompts!DeniedStaysOut /\ Prompts!RepeatsAgree
<1> SUFFICES ASSUME HooksInv PROVE Prompts!DeniedStaysOut /\ Prompts!RepeatsAgree
    OBVIOUS
<1>1. PromptTypes /\ HooksFit /\ FirstIsRecalled /\ RecallFits
    BY DEF HooksInv
<1>2. Prompts!DeniedStaysOut
    BY <1>1 DEF Prompts!DeniedStaysOut, HooksFit, HookFits
<1>3. ASSUME NEW h \in Hooks, hook[h].at = "answer", hook[h].id \notin doubled,
             given[hook[h].id].verdict # "none",
             hook[h].since < given[hook[h].id].at + RecallTTL
      PROVE  hook[h].verdict = given[hook[h].id].verdict
  <2>1. hook[h].id \in Prompts!Ids /\ hook[h].since \in Int /\ hook[h].fresh \in BOOLEAN
      BY <1>1, <1>3 DEF HooksFit, HookFits, PromptTypes, PromptRows
  <2>2. given[hook[h].id].at \in Int /\ RecallTTL \in Nat
      BY <1>1, <2>1, TranscriptsFit DEF PromptTypes, Remembered
  <2>3. recalled[hook[h].id] = [verdict |-> given[hook[h].id].verdict,
                                at |-> given[hook[h].id].at + RecallTTL]
      BY <1>1, <1>3, <2>1 DEF FirstIsRecalled
  <2>4. recalled[hook[h].id].at > hook[h].since /\ recalled[hook[h].id].verdict # "none"
      BY <1>3, <2>1, <2>2, <2>3
  <2>5. ~hook[h].fresh
      BY <1>1, <1>3, <2>1, <2>2, <2>3, <2>4 DEF RecallFits, RecallFit
  <2> QED BY <1>1, <1>3, <2>3, <2>5 DEF RecallFits, RecallFit
<1>4. Prompts!RepeatsAgree
    BY <1>3 DEF Prompts!RepeatsAgree
<1> QED BY <1>2, <1>4

-----------------------------------------------------------------------------
(* The rows of a run: each part keeps what it relies on.                   *)

RowsInv ==
    /\ part = "domain" => DomainInv
    /\ part = "keys" => KeysInv
    /\ part = "billing" => BillInv
    /\ part = "grant" => GrantInv

\* A step of a run is one of its part, and leaves the part it is of.
LEMMA RowSteps ==
    ASSUME [Next]_vars
    PROVE  /\ part' = part
           /\ part = "domain" => [Domain!Next]_(Domain!domainVars)
           /\ part = "keys" => [DataKey!Next]_(DataKey!keyVars)
           /\ part = "billing" => [Plans!Next]_(Plans!billingVars)
           /\ part = "grant" => [Grant!Next]_(Grant!oauthVars)
<1>1. CASE UNCHANGED vars
    BY <1>1 DEF vars, accessVars, tenantVars, domainVars, keyVars, billingVars, oauthVars,
                Domain!domainVars, DataKey!keyVars, Plans!billingVars, Grant!oauthVars
<1>2. CASE Next
    BY <1>2 DEF Next
<1> QED BY <1>1, <1>2

\* What each part relies on holds in every reachable state.
THEOREM RowsInvariant == Spec => []RowsInv
<1>1. Init => RowsInv
  <2> SUFFICES ASSUME Init PROVE RowsInv
      OBVIOUS
  <2>1. part = "domain" => Domain!Init
      BY DEF Init
  <2>2. part = "keys" => DataKey!Init
      BY DEF Init
  <2>3. part = "billing" => Plans!Init
      BY DEF Init
  <2>4. part = "grant" => Grant!Init
      BY DEF Init
  <2> QED BY <2>1, <2>2, <2>3, <2>4, DomainInit, KeysInit, BillInit, GrantInit DEF RowsInv
<1>2. RowsInv /\ [Next]_vars => RowsInv'
  <2> SUFFICES ASSUME RowsInv, [Next]_vars PROVE RowsInv'
      OBVIOUS
  <2>1. part' = part
      BY RowSteps
  <2>2. part = "domain" => DomainInv'
      BY RowSteps, DomainKept DEF RowsInv
  <2>3. part = "keys" => KeysInv'
      BY RowSteps, KeysKept DEF RowsInv
  <2>4. part = "billing" => BillInv'
      BY RowSteps, BillKept DEF RowsInv
  <2>5. part = "grant" => GrantInv'
      BY RowSteps, GrantKept DEF RowsInv
  <2> QED BY <2>1, <2>2, <2>3, <2>4, <2>5 DEF RowsInv
<1> QED BY <1>1, <1>2, PTL DEF Spec

(***************************************************************************)
(* For any organisations and tokens: a domain's claim is verified only by  *)
(* its own proof, and captures users only by its own choice.               *)
(***************************************************************************)
THEOREM ClaimsCorrect == Spec => []ClaimIsItsOwn
<1>1. RowsInv => ClaimIsItsOwn
    BY DEF RowsInv, ClaimIsItsOwn, DomainInv
<1> QED BY <1>1, RowsInvariant, PTL

(***************************************************************************)
(* For any requests: what was sealed after the first key's first minters   *)
(* were done can be opened, and minting does not release an event's lock.  *)
(***************************************************************************)
THEOREM KeysCorrect == Spec => []KeysHold
<1>1. RowsInv => KeysHold
    BY KeysAre DEF RowsInv, KeysHold
<1> QED BY <1>1, RowsInvariant, PTL

(***************************************************************************)
(* For any subscriptions, events and handlers: when every event was        *)
(* answered, the organisation has the plan that is paid for, but for what  *)
(* Billing excuses.                                                        *)
(***************************************************************************)
THEOREM PlansCorrect == Spec => []PlanSettles
<1>1. RowsInv => PlanSettles
    BY BillSettles DEF RowsInv, PlanSettles
<1> QED BY <1>1, RowsInvariant, PTL

=============================================================================
