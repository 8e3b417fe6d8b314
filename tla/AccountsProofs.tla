---------------------------- MODULE AccountsProofs ----------------------------
(***************************************************************************)
(* Proofs about the accounts of MCRequests, for all their constants: an    *)
(* organization keeps an active admin however removals overlap, a burst of *)
(* guesses at a sign-in stays within the limit, or near it, a code is used *)
(* once, and a second factor that is on is the one its owner confirmed.    *)
(* What was granted ends: sessions, capture keys, enrollment tokens and,   *)
(* by RequestsProofs, a client's grant.  A justification lets one send     *)
(* through; with the turns and prompts of RequestsProofs, what must not    *)
(* get in or out does not.                                                 *)
(***************************************************************************)
EXTENDS RequestsProofs, SequenceTheorems

(***************************************************************************)
(* The components are instances, each with its own copy of the library's   *)
(* definitions: they are the same.                                         *)
(***************************************************************************)
LEMMA SameSize ==
    \A S : /\ Throttle!Cardinality(S) = Cardinality(S)
           /\ Throttle!IsFiniteSet(S) <=> IsFiniteSet(S)
BY DEF Throttle!Cardinality, Cardinality, Throttle!IsFiniteSet, IsFiniteSet

\* A set with one element less.
LEMMA OneLess ==
    ASSUME NEW S, IsFiniteSet(S), NEW x, NEW T, T = S \ {x}
    PROVE  /\ IsFiniteSet(T)
           /\ Cardinality(T) = Cardinality(S) - (IF x \in S THEN 1 ELSE 0)
           /\ x \in S => Cardinality(S) >= 1
<1>1. /\ IsFiniteSet(S \ {x}) /\ Cardinality(S) \in Nat
      /\ Cardinality(S \ {x}) = IF x \in S THEN Cardinality(S) - 1 ELSE Cardinality(S)
    BY FS_RemoveElement, FS_CardinalityType
<1>2. x \in S => Cardinality(S) # 0
    BY FS_EmptySet
<1> QED BY <1>1, <1>2

-----------------------------------------------------------------------------
(* The last admin: what an open removal may rely on until its commit.      *)

Written(r) == removal[r].at = "written"

(***************************************************************************)
(* What the two databases keep apart: Postgres the holders of the lock and *)
(* the writers of one row, SQLite all who have written.                    *)
(***************************************************************************)
OneAtATime ==
    \A r, k \in Removals : r # k =>
        /\ database = "postgres" => ~(Admins!HoldsLock(r) /\ Admins!HoldsLock(k))
        /\ database = "sqlite" => ~(Written(r) /\ Written(k))
        /\ Written(r) /\ Written(k) => removal[r].of # removal[k].of

\* A written removal of an active admin loaded one.
KnownAsAdmin ==
    \A r \in Removals : Written(r) /\ removal[r].of \in Admins!ActiveAdmins
        => stale \/ (removal[r].admin /\ removal[r].active)

\* A written removal of an active admin leaves another one.
AnotherIsLeft ==
    \A r \in Removals : Written(r) /\ removal[r].of \in Admins!ActiveAdmins
        => stale \/ Admins!ActiveAdmins \ {removal[r].of} # {}

AdminInv == Admins!TypeOK /\ OneAtATime /\ KnownAsAdmin /\ AnotherIsLeft /\ Admins!AlwaysAnAdmin

-----------------------------------------------------------------------------
\* The people and requests of the initial state: nobody has written.
LEMMA AdminInit == ASSUME Admins!PeopleAssumption, Admins!Init PROVE AdminInv
<1> USE DEF Admins!Init
<1>1. Admins!NoRemoval \in [at : Admins!Steps, op : Admins!Ops, of : People,
                            admin : BOOLEAN, active : BOOLEAN]
  <2>1. (CHOOSE u \in People : TRUE) \in People
      BY DEF Admins!PeopleAssumption
  <2> QED BY <2>1 DEF Admins!NoRemoval, Admins!Steps, Admins!Ops
<1>2. Admins!TypeOK
    BY <1>1 DEF Admins!TypeOK
<1>3. \A r \in Removals : removal[r].at = "idle"
    BY DEF Admins!NoRemoval
<1>4. OneAtATime /\ KnownAsAdmin /\ AnotherIsLeft
    BY <1>3 DEF OneAtATime, KnownAsAdmin, AnotherIsLeft, Written, Admins!HoldsLock
<1>5. Admins!AlwaysAnAdmin
  <2>1. admin \in (SUBSET People) \ {{}}
      BY DEF Admins!Init
  <2>2. admin # {} /\ admin \cap People = admin
      BY <2>1, Zenon
  <2>3. active = People
      OBVIOUS
  <2> QED BY <2>2, <2>3 DEF Admins!AlwaysAnAdmin, Admins!ActiveAdmins
<1> QED BY <1>2, <1>4, <1>5 DEF AdminInv

\* Every action keeps the types.
LEMMA AdminTypes ==
    ASSUME Admins!PeopleAssumption, Admins!TypeOK, [Admins!Next]_(Admins!guardVars)
    PROVE  Admins!TypeOK'
<1> DEFINE Removal == [at : Admins!Steps, op : Admins!Ops, of : People,
                       admin : BOOLEAN, active : BOOLEAN]
<1>1. Admins!NoRemoval \in Removal
  <2>1. (CHOOSE u \in People : TRUE) \in People
      BY DEF Admins!PeopleAssumption
  <2> QED BY <2>1 DEF Admins!NoRemoval, Admins!Steps, Admins!Ops
<1>2. \A r \in Removals : removal[r] \in Removal
    BY DEF Admins!TypeOK
<1>3. ASSUME NEW r \in Removals, Admins!Ends(r) PROVE removal' \in [Removals -> Removal]
    BY <1>1, <1>3 DEF Admins!Ends, Admins!TypeOK
<1>4. ASSUME NEW r \in Removals, NEW to \in Admins!Steps, Admins!Moves(r, to)
      PROVE  removal' \in [Removals -> Removal]
    BY <1>4 DEF Admins!Moves, Admins!TypeOK
<1>5. ASSUME NEW r \in Removals, NEW op \in Admins!Ops, NEW u \in People,
             Admins!LoadTarget(r, op, u)
      PROVE  Admins!TypeOK'
  <2>1. [at |-> "loaded", op |-> op, of |-> u, admin |-> u \in admin, active |-> u \in active]
            \in Removal
      BY DEF Admins!Steps
  <2> QED BY <1>5, <2>1 DEF Admins!LoadTarget, Admins!TypeOK
<1>6. ASSUME NEW r \in Removals, Admins!LockAndCount(r) PROVE Admins!TypeOK'
  <2>1. removal' \in [Removals -> Removal]
      BY <1>3, <1>4, <1>6 DEF Admins!LockAndCount, Admins!Steps
  <2> QED BY <1>6, <2>1 DEF Admins!LockAndCount, Admins!TypeOK
<1>7. ASSUME NEW r \in Removals, Admins!WriteAndRecount(r) PROVE Admins!TypeOK'
  <2>1. removal' \in [Removals -> Removal]
      BY <1>3, <1>4, <1>7 DEF Admins!WriteAndRecount, Admins!Steps
  <2>2. stale' \in BOOLEAN
      BY <1>7 DEF Admins!WriteAndRecount, Admins!TypeOK
  <2> QED BY <1>7, <2>1, <2>2 DEF Admins!WriteAndRecount, Admins!TypeOK
<1>8. ASSUME NEW r \in Removals, Admins!Commit(r) PROVE Admins!TypeOK'
    BY <1>3, <1>8 DEF Admins!Commit, Admins!TypeOK
<1>9. ASSUME NEW u \in People, Admins!Promote(u) \/ Admins!Restore(u) PROVE Admins!TypeOK'
    BY <1>9 DEF Admins!Promote, Admins!Restore, Admins!TypeOK
<1>10. CASE UNCHANGED Admins!guardVars
    BY <1>10 DEF Admins!guardVars, Admins!TypeOK
<1> QED BY <1>5, <1>6, <1>7, <1>8, <1>9, <1>10 DEF Admins!Next

-----------------------------------------------------------------------------
(***************************************************************************)
(* A step of one request changes nothing of what another one holds or has  *)
(* written, and takes the lock or writes only if the databases let it.     *)
(***************************************************************************)
LEMMA RemovalsApart == ASSUME Admins!TypeOK, OneAtATime, NEW r \in Removals, NEW to,
                      removal' = [removal EXCEPT ![r] = to], database' = database,
                      Admins!HoldsLock(r)' => Admins!HoldsLock(r) \/ (database = "postgres"
                                                 => \A k \in Removals : ~Admins!HoldsLock(k)),
                      Written(r)' => Admins!Writable(to.of)
               PROVE  OneAtATime'
<1>1. removal'[r] = to /\ \A k \in Removals \ {r} : removal'[k] = removal[k]
    BY DEF Admins!TypeOK
<1>2. \A k \in Removals \ {r} : /\ Admins!HoldsLock(k)' <=> Admins!HoldsLock(k)
                              /\ Written(k)' <=> Written(k)
    BY <1>1 DEF Admins!HoldsLock, Admins!Locks, Admins!RemovesAdmin, Written
<1>3. ASSUME NEW k \in Removals, k # r
      PROVE  /\ database = "postgres" => ~(Admins!HoldsLock(r)' /\ Admins!HoldsLock(k)')
             /\ database = "sqlite" => ~(Written(r)' /\ Written(k)')
             /\ Written(r)' /\ Written(k)' => to.of # removal[k].of
  <2>1. database = "postgres" => ~(Admins!HoldsLock(r)' /\ Admins!HoldsLock(k)')
    <3>1. database = "postgres" => ~(Admins!HoldsLock(r) /\ Admins!HoldsLock(k))
        BY <1>3 DEF OneAtATime
    <3>2. Admins!HoldsLock(k)' <=> Admins!HoldsLock(k)
        BY <1>1, <1>3 DEF Admins!HoldsLock, Admins!Locks, Admins!RemovesAdmin
    <3> QED BY <3>1, <3>2
  <2>2. Written(r)' /\ Written(k)' => database = "postgres" /\ removal[k].of # to.of
      BY <1>2, <1>3 DEF Admins!Writable, Written
  <2> QED BY <2>1, <2>2
<1>4. ASSUME NEW k \in Removals, NEW l \in Removals, k # l, k # r, l # r
      PROVE  /\ database = "postgres" => ~(Admins!HoldsLock(k)' /\ Admins!HoldsLock(l)')
             /\ database = "sqlite" => ~(Written(k)' /\ Written(l)')
             /\ Written(k)' /\ Written(l)' => removal[k].of # removal[l].of
  <2>1. /\ database = "postgres" => ~(Admins!HoldsLock(k) /\ Admins!HoldsLock(l))
        /\ database = "sqlite" => ~(Written(k) /\ Written(l))
        /\ Written(k) /\ Written(l) => removal[k].of # removal[l].of
      BY <1>4 DEF OneAtATime
  <2>2. /\ Admins!HoldsLock(k)' <=> Admins!HoldsLock(k)
        /\ Admins!HoldsLock(l)' <=> Admins!HoldsLock(l)
        /\ Written(k)' <=> Written(k)
        /\ Written(l)' <=> Written(l)
      BY <1>1, <1>4 DEF Admins!HoldsLock, Admins!Locks, Admins!RemovesAdmin, Written
  <2> QED BY <2>1, <2>2
<1> QED BY <1>1, <1>3, <1>4 DEF OneAtATime

\* Every action keeps apart what the databases keep apart.
LEMMA OneAtATimeKept ==
    Admins!TypeOK /\ OneAtATime /\ [Admins!Next]_(Admins!guardVars) => OneAtATime'
<1> SUFFICES ASSUME Admins!TypeOK, OneAtATime, [Admins!Next]_(Admins!guardVars) PROVE OneAtATime'
    OBVIOUS
<1>1. ASSUME NEW r \in Removals, Admins!Ends(r), database' = database PROVE OneAtATime'
  <2>1. removal'[r] = Admins!NoRemoval
      BY <1>1 DEF Admins!Ends, Admins!TypeOK
  <2>2. ~Admins!HoldsLock(r)' /\ ~Written(r)'
      BY <2>1 DEF Admins!HoldsLock, Written, Admins!NoRemoval
  <2> QED BY <1>1, <2>2, RemovalsApart DEF Admins!Ends
<1>2. ASSUME NEW r \in Removals, NEW op \in Admins!Ops, NEW u \in People,
             Admins!LoadTarget(r, op, u)
      PROVE  OneAtATime'
  <2>1. removal'[r].at = "loaded"
      BY <1>2 DEF Admins!LoadTarget, Admins!TypeOK
  <2>2. ~Admins!HoldsLock(r)' /\ ~Written(r)'
      BY <2>1 DEF Admins!HoldsLock, Written
  <2> QED BY <1>2, <2>2, RemovalsApart DEF Admins!LoadTarget
<1>3. ASSUME NEW r \in Removals, Admins!LockAndCount(r) PROVE OneAtATime'
  <2>1. CASE Admins!Ends(r)
      BY <1>1, <1>3, <2>1 DEF Admins!LockAndCount
  <2>2. CASE Admins!Moves(r, "counted")
    <3>1. removal' = [removal EXCEPT ![r] = [removal[r] EXCEPT !.at = "counted"]]
        BY <2>2 DEF Admins!Moves
    <3>2. removal'[r].at = "counted"
        BY <3>1 DEF Admins!TypeOK
    <3>3. ~Written(r)'
        BY <3>2 DEF Written
    <3> QED BY <1>3, <3>1, <3>3, RemovalsApart DEF Admins!LockAndCount
  <2> QED BY <1>3, <2>1, <2>2 DEF Admins!LockAndCount
<1>4. ASSUME NEW r \in Removals, Admins!WriteAndRecount(r) PROVE OneAtATime'
  <2>1. CASE Admins!Ends(r)
      BY <1>1, <1>4, <2>1 DEF Admins!WriteAndRecount
  <2>2. CASE Admins!Moves(r, "written")
    <3>1. removal' = [removal EXCEPT ![r] = [removal[r] EXCEPT !.at = "written"]]
        BY <2>2 DEF Admins!Moves
    <3>2. [removal[r] EXCEPT !.at = "written"].of = removal[r].of
        BY DEF Admins!TypeOK
    <3>3. removal'[r] = [removal[r] EXCEPT !.at = "written"]
        BY <3>1 DEF Admins!TypeOK
    <3>4. Admins!HoldsLock(r)' => Admins!HoldsLock(r)
      <4>1. Admins!Locks(r)' <=> Admins!Locks(r)
          BY <3>3 DEF Admins!Locks, Admins!RemovesAdmin, Admins!TypeOK
      <4> QED BY <1>4, <4>1 DEF Admins!HoldsLock, Admins!WriteAndRecount
    <3> QED BY <1>4, <3>1, <3>2, <3>4, RemovalsApart DEF Admins!WriteAndRecount
  <2> QED BY <1>4, <2>1, <2>2 DEF Admins!WriteAndRecount
<1>5. ASSUME NEW r \in Removals, Admins!Commit(r) PROVE OneAtATime'
    BY <1>1, <1>5 DEF Admins!Commit
<1>6. ASSUME UNCHANGED <<database, removal>> PROVE OneAtATime'
    BY <1>6 DEF OneAtATime, Admins!HoldsLock, Admins!Locks, Admins!RemovesAdmin, Written
<1>7. ASSUME NEW u \in People, Admins!Promote(u) \/ Admins!Restore(u) PROVE OneAtATime'
    BY <1>6, <1>7 DEF Admins!Promote, Admins!Restore
<1>8. CASE UNCHANGED Admins!guardVars
    BY <1>6, <1>8 DEF Admins!guardVars
<1> QED BY <1>2, <1>3, <1>4, <1>5, <1>7, <1>8 DEF Admins!Next

-----------------------------------------------------------------------------
(***************************************************************************)
(* A written removal that takes an active admin away holds the lock, so    *)
(* two of them are never open together: what one leaves the other cannot   *)
(* take.                                                                   *)
(***************************************************************************)
LEMMA OnlyTaker == ASSUME Admins!TypeOK, OneAtATime, KnownAsAdmin, ~stale,
                          NEW r \in Removals, Written(r), removal[r].of \in Admins!ActiveAdmins,
                          NEW k \in Removals, Written(k), removal[k].of \in Admins!ActiveAdmins
                   PROVE  r = k
<1>1. ASSUME NEW j \in Removals, Written(j), removal[j].of \in Admins!ActiveAdmins
      PROVE  Admins!HoldsLock(j)
    BY <1>1 DEF KnownAsAdmin, Admins!HoldsLock, Admins!Locks, Admins!RemovesAdmin, Written
<1>2. database \in {"postgres", "sqlite"}
    BY DEF Admins!TypeOK, Admins!Engines
<1> QED BY <1>1, <1>2 DEF OneAtATime

\* What the requests may rely on, kept by every action.
LEMMA AdminsStay ==
    AdminInv /\ [Admins!Next]_(Admins!guardVars)
        => KnownAsAdmin' /\ AnotherIsLeft' /\ Admins!AlwaysAnAdmin'
<1> DEFINE Kept == KnownAsAdmin' /\ AnotherIsLeft' /\ Admins!AlwaysAnAdmin'
<1> SUFFICES ASSUME AdminInv, [Admins!Next]_(Admins!guardVars) PROVE Kept
    OBVIOUS
<1> USE DEF AdminInv
<1>1. ASSUME NEW r \in Removals, ~Written(r)', UNCHANGED <<admin, active, stale>>,
             \A k \in Removals \ {r} : removal'[k] = removal[k]
      PROVE  Kept
  <2>1. ASSUME NEW k \in Removals, Written(k)' PROVE k # r /\ removal'[k] = removal[k]
      BY <1>1, <2>1
  <2>2. ASSUME NEW k \in Removals, Written(k)' PROVE Written(k)
      BY <2>1, <2>2 DEF Written
  <2> QED BY <1>1, <2>1, <2>2 DEF KnownAsAdmin, AnotherIsLeft, Admins!AlwaysAnAdmin,
             Admins!ActiveAdmins
<1>2. ASSUME NEW r \in Removals, Admins!Ends(r), UNCHANGED <<admin, active, stale>> PROVE Kept
  <2>1. ~Written(r)' /\ \A k \in Removals \ {r} : removal'[k] = removal[k]
      BY <1>2 DEF Admins!Ends, Written, Admins!NoRemoval, Admins!TypeOK
  <2> QED BY <1>1, <1>2, <2>1
<1>3. ASSUME NEW r \in Removals, NEW op \in Admins!Ops, NEW u \in People,
             Admins!LoadTarget(r, op, u)
      PROVE  Kept
  <2>1. ~Written(r)' /\ \A k \in Removals \ {r} : removal'[k] = removal[k]
      BY <1>3 DEF Admins!LoadTarget, Written, Admins!TypeOK
  <2> QED BY <1>1, <1>3, <2>1 DEF Admins!LoadTarget
<1>4. ASSUME NEW r \in Removals, Admins!LockAndCount(r) PROVE Kept
  <2>1. CASE Admins!Ends(r)
      BY <1>2, <1>4, <2>1 DEF Admins!LockAndCount
  <2>2. CASE Admins!Moves(r, "counted")
    <3>1. ~Written(r)' /\ \A k \in Removals \ {r} : removal'[k] = removal[k]
        BY <2>2 DEF Admins!Moves, Written, Admins!TypeOK
    <3> QED BY <1>1, <1>4, <3>1 DEF Admins!LockAndCount
  <2> QED BY <1>4, <2>1, <2>2 DEF Admins!LockAndCount
<1>5. ASSUME NEW r \in Removals, Admins!WriteAndRecount(r) PROVE Kept
  <2>1. CASE Admins!Ends(r) /\ UNCHANGED stale
      BY <1>2, <1>5, <2>1 DEF Admins!WriteAndRecount
  <2>2. CASE ~(Admins!RemovesAdmin(r) /\ Admins!LeftBy(r) = {})
    <3>1. /\ Admins!Moves(r, "written") /\ UNCHANGED <<admin, active>>
          /\ stale' = (stale \/ (/\ removal[r].of \in Admins!ActiveAdmins
                                 /\ ~(removal[r].admin /\ removal[r].active)))
        BY <1>5, <2>2 DEF Admins!WriteAndRecount
    <3>2. /\ removal'[r] = [removal[r] EXCEPT !.at = "written"]
          /\ \A k \in Removals \ {r} : removal'[k] = removal[k]
        BY <3>1 DEF Admins!Moves, Admins!TypeOK
    <3>3. /\ removal'[r].of = removal[r].of /\ removal'[r].admin = removal[r].admin
          /\ removal'[r].active = removal[r].active
        BY <3>2 DEF Admins!TypeOK
    <3>4. Admins!ActiveAdmins' = Admins!ActiveAdmins /\ (stale => stale')
        BY <3>1 DEF Admins!ActiveAdmins
    <3>5. ASSUME removal[r].of \in Admins!ActiveAdmins, ~stale'
          PROVE  removal[r].admin /\ removal[r].active /\ Admins!ActiveAdmins \ {removal[r].of} # {}
      <4>1. removal[r].admin /\ removal[r].active
          BY <3>1, <3>5
      <4>2. Admins!RemovesAdmin(r) /\ Admins!LeftBy(r) = Admins!ActiveAdmins \ {removal[r].of}
          BY <4>1 DEF Admins!RemovesAdmin, Admins!LeftBy
      <4> QED BY <2>2, <4>1, <4>2
    <3>6. \A k \in Removals \ {r} : Written(k)' => Written(k)
        BY <3>2 DEF Written
    <3>7. KnownAsAdmin'
        BY <3>2, <3>3, <3>4, <3>5, <3>6 DEF KnownAsAdmin
    <3>8. AnotherIsLeft'
        BY <3>2, <3>3, <3>4, <3>5, <3>6 DEF AnotherIsLeft
    <3>9. Admins!AlwaysAnAdmin'
        BY <3>4 DEF Admins!AlwaysAnAdmin
    <3> QED BY <3>7, <3>8, <3>9
  <2> QED BY <1>5, <2>1, <2>2 DEF Admins!WriteAndRecount
<1>6. ASSUME NEW r \in Removals, Admins!Commit(r) PROVE Kept
  <2>1. stale' = stale
      BY <1>6 DEF Admins!Commit
  <2>2. CASE stale
      BY <2>1, <2>2 DEF KnownAsAdmin, AnotherIsLeft, Admins!AlwaysAnAdmin
  <2>3. CASE ~stale
    <3>1. /\ ~Written(r)' /\ \A k \in Removals \ {r} : removal'[k] = removal[k]
          /\ Written(r)
        BY <1>6 DEF Admins!Commit, Admins!Ends, Written, Admins!NoRemoval, Admins!TypeOK
    <3>2. /\ Admins!ActiveAdmins' \subseteq Admins!ActiveAdmins
          /\ Admins!ActiveAdmins \ {removal[r].of} \subseteq Admins!ActiveAdmins'
        BY <1>6 DEF Admins!Commit, Admins!ActiveAdmins
    <3>3. \A k \in Removals : Written(k)' => k # r /\ Written(k) /\ removal'[k] = removal[k]
        BY <3>1 DEF Written
    <3>4. KnownAsAdmin'
        BY <2>1, <2>3, <3>2, <3>3 DEF KnownAsAdmin
    <3>5. CASE removal[r].of \in Admins!ActiveAdmins
      <4>1. Admins!ActiveAdmins \ {removal[r].of} # {}
          BY <2>3, <3>1, <3>5 DEF AnotherIsLeft
      <4>2. Admins!AlwaysAnAdmin'
          BY <3>2, <4>1 DEF Admins!AlwaysAnAdmin
      <4>3. \A k \in Removals : ~(Written(k)' /\ removal'[k].of \in Admins!ActiveAdmins')
          BY <2>3, <3>1, <3>2, <3>3, <3>5, OnlyTaker
      <4> QED BY <3>4, <4>2, <4>3 DEF AnotherIsLeft
    <3>6. CASE removal[r].of \notin Admins!ActiveAdmins
      <4>1. Admins!ActiveAdmins' = Admins!ActiveAdmins
          BY <3>2, <3>6
      <4> QED BY <2>1, <3>3, <3>4, <4>1 DEF AnotherIsLeft, Admins!AlwaysAnAdmin
    <3> QED BY <3>5, <3>6
  <2> QED BY <2>2, <2>3
<1>7. ASSUME NEW u \in People, Admins!Promote(u) \/ Admins!Restore(u) PROVE Kept
  <2>1. /\ Admins!ActiveAdmins \subseteq Admins!ActiveAdmins'
        /\ Admins!ActiveAdmins' \subseteq Admins!ActiveAdmins \cup {u}
        /\ UNCHANGED <<removal, stale>> /\ Admins!Writable(u)
      BY <1>7 DEF Admins!Promote, Admins!Restore, Admins!ActiveAdmins
  <2>2. \A k \in Removals : Written(k)' => Written(k) /\ removal[k].of # u
                                           /\ removal'[k] = removal[k]
      BY <2>1 DEF Written, Admins!Writable
  <2>3. \A k \in Removals : Written(k)' /\ removal'[k].of \in Admins!ActiveAdmins'
                               => removal[k].of \in Admins!ActiveAdmins
      BY <2>1, <2>2
  <2>4. KnownAsAdmin'
      BY <2>1, <2>2, <2>3 DEF KnownAsAdmin
  <2>5. AnotherIsLeft'
      BY <2>1, <2>2, <2>3 DEF AnotherIsLeft
  <2>6. Admins!AlwaysAnAdmin'
      BY <2>1 DEF Admins!AlwaysAnAdmin
  <2> QED BY <2>4, <2>5, <2>6
<1>8. CASE UNCHANGED Admins!guardVars
    BY <1>8 DEF Admins!guardVars, KnownAsAdmin, AnotherIsLeft, Admins!AlwaysAnAdmin,
                Admins!ActiveAdmins, Written
<1> QED BY <1>3, <1>4, <1>5, <1>6, <1>7, <1>8 DEF Admins!Next

-----------------------------------------------------------------------------
\* Every step keeps the invariant.
LEMMA AdminKept ==
    ASSUME Admins!PeopleAssumption, AdminInv, [Admins!Next]_(Admins!guardVars)
    PROVE  AdminInv'
BY AdminTypes, OneAtATimeKept, AdminsStay DEF AdminInv

-----------------------------------------------------------------------------
(* Guesses at a sign-in: what is tested and what may still turn out wrong. *)

\* Requests whose password is being tested with its row on record, and those
\* that were let through to a second factor.
Testing  == {h \in own : step[h] = "password"}
AtFactor == {h \in Guessers : step[h] = "factor"}

(***************************************************************************)
(* What is being tested counts as wrong already: a password from its own   *)
(* row on, which was there when the rows were counted, a second factor     *)
(* only from its count on, of which all but one may be behind the limit.   *)
(***************************************************************************)
ThrottleInv ==
    /\ Throttle!TypeOK
    /\ \A h \in own : step[h] \in {"recorded", "password"}
    /\ Throttle!Rows <= MaxRows
    /\ wrongPasswords + Cardinality(Testing) <= MaxFails
    /\ wrongPasswords + wrongFactors + Cardinality(Testing) + Cardinality(AtFactor)
           <= MaxFails - 1 + Cardinality(Guessers)

\* The counts are numbers, and the sets that are counted are finite.
LEMMA ThrottleCounts ==
    ASSUME Throttle!TypeOK
    PROVE  /\ IsFiniteSet(Guessers) /\ IsFiniteSet(own) /\ IsFiniteSet(Testing)
           /\ IsFiniteSet(AtFactor)
           /\ Cardinality(Guessers) \in Nat /\ Cardinality(own) \in Nat
           /\ Cardinality(Testing) \in Nat /\ Cardinality(AtFactor) \in Nat
           /\ Cardinality(Testing) <= Cardinality(own)
           /\ Cardinality(AtFactor) <= Cardinality(Guessers)
           /\ MaxFails \in Nat /\ MaxFails >= 1 /\ MaxRows \in Nat
           /\ refused \in Nat /\ wrongPasswords \in Nat /\ wrongFactors \in Nat
<1>1. Throttle!FailsAssumption
    BY Assumptions
<1>2. IsFiniteSet(Guessers) /\ MaxFails \in Nat /\ MaxFails >= 1 /\ MaxRows \in Nat
    BY <1>1, SameSize DEF Throttle!FailsAssumption
<1>3. own \in SUBSET Guessers /\ Testing \in SUBSET own /\ AtFactor \in SUBSET Guessers
    BY DEF Throttle!TypeOK, Testing, AtFactor
<1>4. /\ IsFiniteSet(own) /\ IsFiniteSet(AtFactor)
      /\ Cardinality(AtFactor) <= Cardinality(Guessers)
    BY <1>2, <1>3, FS_Subset
<1>5. IsFiniteSet(Testing) /\ Cardinality(Testing) <= Cardinality(own)
    BY <1>3, <1>4, FS_Subset
<1>6. /\ Cardinality(Guessers) \in Nat /\ Cardinality(own) \in Nat
      /\ Cardinality(Testing) \in Nat /\ Cardinality(AtFactor) \in Nat
    BY <1>2, <1>4, <1>5, FS_CardinalityType
<1>7. refused \in Nat /\ wrongPasswords \in Nat /\ wrongFactors \in Nat
    BY <1>2 DEF Throttle!TypeOK
<1> QED BY <1>2, <1>4, <1>5, <1>6, <1>7

\* The rows on record, counted.
LEMMA RowsAre ==
    Throttle!Rows = Cardinality(own) + refused + wrongPasswords + wrongFactors
BY SameSize DEF Throttle!Rows

\* A request's own row is one of the rows, or none.
LEMMA RowIs == ASSUME NEW h PROVE Throttle!Row(h) = IF h \in own THEN 1 ELSE 0
<1>1. CASE h \in own
  <2>1. {h} \cap own = {h}
      BY <1>1
  <2> QED BY <1>1, <2>1, FS_Singleton, SameSize DEF Throttle!Row
<1>2. CASE h \notin own
  <2>1. {h} \cap own = {}
      BY <1>2
  <2> QED BY <1>2, <2>1, FS_EmptySet, SameSize DEF Throttle!Row
<1> QED BY <1>1, <1>2

\* What is left when h no longer tests, and its row is nobody's own.
Tests(h) ==
    /\ own' \subseteq Guessers /\ step' \in [Guessers -> Throttle!Steps]
    /\ \A g \in own' : step'[g] \in {"recorded", "password"}
    /\ Cardinality(own') = Cardinality(own) - (IF h \in own THEN 1 ELSE 0)
    /\ Cardinality(Testing') = Cardinality(Testing)
                               - (IF h \in own /\ step[h] = "password" THEN 1 ELSE 0)
    /\ Cardinality(AtFactor') = Cardinality(AtFactor) - (IF step[h] = "factor" THEN 1 ELSE 0)

(***************************************************************************)
(* A request that stops testing: what it gives up is taken from the tested *)
(* and from those at the factor.                                           *)
(***************************************************************************)
LEMMA StopsTesting ==
    ASSUME ThrottleInv, NEW h \in Guessers, NEW to \in Throttle!Steps \ {"password", "factor"},
           step' = [step EXCEPT ![h] = to], own' = own \ {h}
    PROVE  Tests(h)
<1>0. Throttle!TypeOK /\ \A g \in own : step[g] \in {"recorded", "password"}
    BY DEF ThrottleInv
<1>1. /\ own \subseteq Guessers /\ step \in [Guessers -> Throttle!Steps]
      /\ IsFiniteSet(own) /\ IsFiniteSet(Testing) /\ IsFiniteSet(AtFactor)
      /\ Cardinality(own) \in Nat /\ Cardinality(Testing) \in Nat /\ Cardinality(AtFactor) \in Nat
    BY <1>0, ThrottleCounts DEF Throttle!TypeOK
<1>2. Testing' = Testing \ {h} /\ (h \in Testing <=> h \in own /\ step[h] = "password")
    BY <1>1 DEF Testing
<1>3. AtFactor' = AtFactor \ {h} /\ (h \in AtFactor <=> step[h] = "factor")
    BY <1>1 DEF AtFactor
<1>4. Cardinality(own') = Cardinality(own) - (IF h \in own THEN 1 ELSE 0)
    BY <1>1, OneLess
<1>5. Cardinality(Testing') = Cardinality(Testing)
                              - (IF h \in own /\ step[h] = "password" THEN 1 ELSE 0)
    BY <1>1, <1>2, OneLess
<1>6. Cardinality(AtFactor') = Cardinality(AtFactor) - (IF step[h] = "factor" THEN 1 ELSE 0)
    BY <1>1, <1>3, OneLess
<1>7. /\ own' \subseteq Guessers /\ step' \in [Guessers -> Throttle!Steps]
      /\ \A g \in own' : step'[g] \in {"recorded", "password"}
    BY <1>0, <1>1
<1> QED BY <1>4, <1>5, <1>6, <1>7 DEF Tests

\* A guess that was tested, or turned away, leaves the request idle.
LEMMA IdleIsAStep == {"idle", "right"} \subseteq Throttle!Steps \ {"password", "factor"}
BY DEF Throttle!Steps

\* Every step keeps what is wrong, or being tested, within the limits.
LEMMA ThrottleKept ==
    ASSUME ThrottleInv, [Throttle!Next]_(Throttle!throttleVars) PROVE ThrottleInv'
<1>0. /\ Throttle!TypeOK /\ own \subseteq Guessers /\ step \in [Guessers -> Throttle!Steps]
      /\ \A g \in own : step[g] \in {"recorded", "password"}
    BY DEF ThrottleInv, Throttle!TypeOK
<1> DEFINE Own  == Cardinality(own)
           Try  == Cardinality(Testing)
           Fact == Cardinality(AtFactor)
           All  == Cardinality(Guessers)
<1>1. /\ Own \in Nat /\ Try \in Nat /\ Fact \in Nat /\ All \in Nat /\ Try <= Own /\ Fact <= All
      /\ MaxFails \in Nat /\ MaxFails >= 1 /\ MaxRows \in Nat
      /\ refused \in Nat /\ wrongPasswords \in Nat /\ wrongFactors \in Nat
      /\ Own + refused + wrongPasswords + wrongFactors <= MaxRows
      /\ wrongPasswords + Try <= MaxFails
      /\ wrongPasswords + wrongFactors + Try + Fact <= MaxFails - 1 + All
    BY <1>0, ThrottleCounts, RowsAre DEF ThrottleInv
\* The counts after a step, as numbers.
<1>2. ASSUME own' \subseteq Guessers, step' \in [Guessers -> Throttle!Steps],
             \A g \in own' : step'[g] \in {"recorded", "password"},
             Cardinality(own') \in Nat, Cardinality(Testing') \in Nat,
             Cardinality(AtFactor') \in Nat,
             refused' \in Nat, wrongPasswords' \in Nat, wrongFactors' \in Nat,
             Cardinality(own') + refused' + wrongPasswords' + wrongFactors' <= MaxRows,
             wrongPasswords' + Cardinality(Testing') <= MaxFails,
             wrongPasswords' + wrongFactors' + Cardinality(Testing') + Cardinality(AtFactor')
                 <= MaxFails - 1 + All
      PROVE  ThrottleInv'
  <2>1. /\ refused' \in 0 .. MaxRows /\ wrongPasswords' \in 0 .. MaxRows
        /\ wrongFactors' \in 0 .. MaxRows
    <3>1. ASSUME NEW a \in Nat, NEW b \in Nat, NEW c \in Nat, NEW d \in Nat,
                 a + b + c + d <= MaxRows
          PROVE  b \in 0 .. MaxRows /\ c \in 0 .. MaxRows /\ d \in 0 .. MaxRows
        BY <1>1, <3>1
    <3> QED BY <1>2, <3>1
  <2>2. Throttle!TypeOK'
      BY <1>2, <2>1 DEF Throttle!TypeOK
  <2>3. Throttle!Rows' = Cardinality(own') + refused' + wrongPasswords' + wrongFactors'
      BY SameSize DEF Throttle!Rows
  <2> QED BY <1>2, <2>2, <2>3 DEF ThrottleInv
<1> HIDE DEF Own, Try, Fact, All
<1>3. ASSUME NEW h \in Guessers, Throttle!RecordAttempt(h) PROVE ThrottleInv'
  <2>1. /\ step' = [step EXCEPT ![h] = "recorded"] /\ own' = own \cup {h} /\ step[h] = "idle"
        /\ UNCHANGED <<refused, wrongPasswords, wrongFactors>>
        /\ Own + refused + wrongPasswords + wrongFactors < MaxRows
      BY <1>3, RowsAre DEF Throttle!RecordAttempt, Throttle!Moves, Own
  <2>2. h \notin own
      BY <1>0, <2>1
  <2>3. Cardinality(own') = Own + 1
      BY <1>0, <2>1, <2>2, ThrottleCounts, FS_AddElement DEF Own
  <2>4. Testing' = Testing /\ AtFactor' = AtFactor
      BY <1>0, <2>1, <2>2 DEF Testing, AtFactor
  <2>5. Cardinality(Testing') = Try /\ Cardinality(AtFactor') = Fact
      BY <2>4 DEF Try, Fact
  <2>6. /\ own' \subseteq Guessers /\ step' \in [Guessers -> Throttle!Steps]
        /\ \A g \in own' : step'[g] \in {"recorded", "password"}
      BY <1>0, <2>1 DEF Throttle!Steps
  <2> QED BY <1>1, <1>2, <2>1, <2>3, <2>5, <2>6
<1>4. ASSUME NEW h \in Guessers, Throttle!CountAttempt(h) PROVE ThrottleInv'
  <2>1. step[h] = "recorded" /\ UNCHANGED <<wrongPasswords, wrongFactors>>
      BY <1>4 DEF Throttle!CountAttempt
  <2>2. CASE Throttle!Rows >= MaxFails + 1
    <3>1. /\ step' = [step EXCEPT ![h] = "idle"] /\ own' = own \ {h}
          /\ refused' = refused + IF h \in own THEN 1 ELSE 0
        BY <1>4, <2>2, RowIs DEF Throttle!CountAttempt, Throttle!Moves
    <3>2. /\ Cardinality(own') = Own - (IF h \in own THEN 1 ELSE 0)
          /\ Cardinality(Testing') = Try /\ Cardinality(AtFactor') = Fact
          /\ own' \subseteq Guessers /\ step' \in [Guessers -> Throttle!Steps]
          /\ \A g \in own' : step'[g] \in {"recorded", "password"}
      <4>1. "idle" \in Throttle!Steps \ {"password", "factor"}
          BY IdleIsAStep
      <4>2. Tests(h)
          BY <3>1, <4>1, StopsTesting
      <4> QED BY <1>1, <2>1, <4>2 DEF Tests, Own, Try, Fact
    <3>3. h \in own => Own >= 1
        BY <1>0, ThrottleCounts, FS_EmptySet DEF Own
    <3> QED BY <1>1, <1>2, <2>1, <3>1, <3>2, <3>3
  <2>3. CASE ~(Throttle!Rows >= MaxFails + 1)
    <3>1. step' = [step EXCEPT ![h] = "password"] /\ own' = own /\ refused' = refused
        BY <1>4, <2>3 DEF Throttle!CountAttempt, Throttle!Moves
    <3>2. Own + refused + wrongPasswords + wrongFactors <= MaxFails
        BY <1>1, <2>3, RowsAre DEF Own
    <3>3. Testing' \in SUBSET own /\ AtFactor' = AtFactor /\ AtFactor \in SUBSET (Guessers \ {h})
        BY <1>0, <2>1, <3>1 DEF Testing, AtFactor
    <3>4. Cardinality(Testing') \in Nat /\ Cardinality(Testing') <= Own
        BY <1>0, <3>3, ThrottleCounts, FS_Subset, FS_CardinalityType DEF Own
    <3>5. Cardinality(AtFactor') = Fact /\ Fact <= All - 1
      <4>1. IsFiniteSet(Guessers \ {h}) /\ Cardinality(Guessers \ {h}) = All - 1
          BY <1>0, ThrottleCounts, FS_RemoveElement DEF All
      <4> QED BY <3>3, <4>1, FS_Subset DEF Fact
    <3>6. /\ own' \subseteq Guessers /\ step' \in [Guessers -> Throttle!Steps]
          /\ \A g \in own' : step'[g] \in {"recorded", "password"}
        BY <1>0, <3>1 DEF Throttle!Steps
    <3>7. Cardinality(own') = Own
        BY <3>1 DEF Own
    <3> QED BY <1>1, <1>2, <2>1, <3>1, <3>2, <3>4, <3>5, <3>6, <3>7
  <2> QED BY <2>2, <2>3
<1>5. ASSUME NEW h \in Guessers, Throttle!WrongPassword(h) PROVE ThrottleInv'
  <2>1. /\ step' = [step EXCEPT ![h] = "idle"] /\ own' = own \ {h} /\ step[h] = "password"
        /\ wrongPasswords' = wrongPasswords + (IF h \in own THEN 1 ELSE 0)
        /\ UNCHANGED <<refused, wrongFactors>>
      BY <1>5, RowIs DEF Throttle!WrongPassword, Throttle!Moves
  <2>2. /\ Cardinality(own') = Own - (IF h \in own THEN 1 ELSE 0)
        /\ Cardinality(Testing') = Try - (IF h \in own THEN 1 ELSE 0)
        /\ Cardinality(AtFactor') = Fact
        /\ own' \subseteq Guessers /\ step' \in [Guessers -> Throttle!Steps]
        /\ \A g \in own' : step'[g] \in {"recorded", "password"}
    <3>1. "idle" \in Throttle!Steps \ {"password", "factor"}
        BY IdleIsAStep
    <3>2. Tests(h)
        BY <2>1, <3>1, StopsTesting
    <3> QED BY <1>1, <2>1, <3>2 DEF Tests, Own, Try, Fact
  <2>3. h \in own => Own >= 1 /\ Try >= 1
    <3>1. h \in own => h \in Testing
        BY <2>1 DEF Testing
    <3>2. h \in own => Own # 0 /\ Try # 0
        BY <1>0, <3>1, ThrottleCounts, FS_EmptySet DEF Own, Try
    <3> QED BY <1>1, <3>2
  <2> QED BY <1>1, <1>2, <2>1, <2>2, <2>3
<1>6. ASSUME NEW h \in Guessers, Throttle!RightPassword(h) PROVE ThrottleInv'
  <2>1. /\ own' = own \ {h} /\ step[h] = "password"
        /\ UNCHANGED <<refused, wrongPasswords, wrongFactors>>
      BY <1>6 DEF Throttle!RightPassword
  <2>2. PICK to \in {"right", "idle"} : step' = [step EXCEPT ![h] = to]
      BY <1>6 DEF Throttle!RightPassword
  <2>3. /\ Cardinality(own') = Own - (IF h \in own THEN 1 ELSE 0)
        /\ Cardinality(Testing') = Try - (IF h \in own THEN 1 ELSE 0)
        /\ Cardinality(AtFactor') = Fact
        /\ own' \subseteq Guessers /\ step' \in [Guessers -> Throttle!Steps]
        /\ \A g \in own' : step'[g] \in {"recorded", "password"}
    <3>1. to \in Throttle!Steps \ {"password", "factor"}
        BY IdleIsAStep
    <3>2. Tests(h)
        BY <2>1, <2>2, <3>1, StopsTesting
    <3> QED BY <1>1, <2>1, <3>2 DEF Tests, Own, Try, Fact
  <2>4. h \in own => Own >= 1 /\ Try >= 1
    <3>1. h \in own => h \in Testing
        BY <2>1 DEF Testing
    <3>2. h \in own => Own # 0 /\ Try # 0
        BY <1>0, <3>1, ThrottleCounts, FS_EmptySet DEF Own, Try
    <3> QED BY <1>1, <3>2
  <2> QED BY <1>1, <1>2, <2>1, <2>3, <2>4
<1>7. ASSUME NEW h \in Guessers, Throttle!CountFactor(h) PROVE ThrottleInv'
  <2>1. /\ step' = [step EXCEPT ![h] = "factor"] /\ step[h] = "idle"
        /\ UNCHANGED <<own, refused, wrongPasswords, wrongFactors>>
        /\ Own + refused + wrongPasswords + wrongFactors < MaxFails
      BY <1>7, RowsAre DEF Throttle!CountFactor, Throttle!Moves, Own
  <2>2. h \notin own
      BY <1>0, <2>1
  <2>3. Testing' = Testing /\ AtFactor' \in SUBSET Guessers
      BY <1>0, <2>1, <2>2 DEF Testing, AtFactor
  <2>4. Cardinality(AtFactor') \in Nat /\ Cardinality(AtFactor') <= All
      BY <1>0, <2>3, ThrottleCounts, FS_Subset, FS_CardinalityType DEF All
  <2>5. Cardinality(Testing') = Try /\ Cardinality(own') = Own
      BY <2>1, <2>3 DEF Try, Own
  <2>6. /\ own' \subseteq Guessers /\ step' \in [Guessers -> Throttle!Steps]
        /\ \A g \in own' : step'[g] \in {"recorded", "password"}
      BY <1>0, <2>1, <2>2 DEF Throttle!Steps
  <2> QED BY <1>1, <1>2, <2>1, <2>4, <2>5, <2>6
<1>8. ASSUME NEW h \in Guessers, Throttle!WrongFactor(h) PROVE ThrottleInv'
  <2>1. /\ step' = [step EXCEPT ![h] = "idle"] /\ step[h] = "factor"
        /\ UNCHANGED <<own, refused, wrongPasswords>> /\ wrongFactors' = wrongFactors + 1
        /\ Own + refused + wrongPasswords + wrongFactors < MaxRows
      BY <1>8, RowsAre DEF Throttle!WrongFactor, Throttle!Moves, Own
  <2>2. h \notin own /\ own' = own \ {h}
      BY <1>0, <2>1
  <2>3. /\ Cardinality(own') = Own /\ Cardinality(Testing') = Try
        /\ Cardinality(AtFactor') = Fact - 1
        /\ own' \subseteq Guessers /\ step' \in [Guessers -> Throttle!Steps]
        /\ \A g \in own' : step'[g] \in {"recorded", "password"}
    <3>1. "idle" \in Throttle!Steps \ {"password", "factor"}
        BY IdleIsAStep
    <3>2. Tests(h)
        BY <2>1, <2>2, <3>1, StopsTesting
    <3> QED BY <1>1, <2>1, <2>2, <3>2 DEF Tests, Own, Try, Fact
  <2>4. Fact >= 1
    <3>1. h \in AtFactor
        BY <2>1 DEF AtFactor
    <3>2. Fact # 0
        BY <1>0, <3>1, ThrottleCounts, FS_EmptySet DEF Fact
    <3> QED BY <1>1, <3>2
  <2> QED BY <1>1, <1>2, <2>1, <2>3, <2>4
<1>9. ASSUME NEW h \in Guessers, Throttle!Complete(h) PROVE ThrottleInv'
  <2>1. /\ step' = [step EXCEPT ![h] = "idle"] /\ own' = {}
        /\ refused' = 0 /\ wrongPasswords' = 0 /\ wrongFactors' = 0
      BY <1>9 DEF Throttle!Complete, Throttle!Moves
  <2>2. Testing' = {} /\ AtFactor' \in SUBSET Guessers
      BY <2>1 DEF Testing, AtFactor
  <2>3. Cardinality(own') = 0 /\ Cardinality(Testing') = 0
      BY <2>1, <2>2, FS_EmptySet
  <2>4. Cardinality(AtFactor') \in Nat /\ Cardinality(AtFactor') <= All
      BY <1>0, <2>2, ThrottleCounts, FS_Subset, FS_CardinalityType DEF All
  <2>5. /\ own' \subseteq Guessers /\ step' \in [Guessers -> Throttle!Steps]
        /\ \A g \in own' : step'[g] \in {"recorded", "password"}
      BY <1>0, <2>1 DEF Throttle!Steps
  <2> QED BY <1>1, <1>2, <2>1, <2>3, <2>4, <2>5
<1>10. ASSUME Throttle!Expire PROVE ThrottleInv'
  <2>1. step' = step
      BY <1>10 DEF Throttle!Expire
  <2>2. ASSUME NEW h \in own, own' = own \ {h},
               UNCHANGED <<refused, wrongPasswords, wrongFactors>>
        PROVE  ThrottleInv'
    <3>1. Testing' \in SUBSET Testing /\ AtFactor' = AtFactor
        BY <2>1, <2>2 DEF Testing, AtFactor
    <3>2. Cardinality(own') = Own - 1
        BY <1>0, <2>2, ThrottleCounts, FS_RemoveElement DEF Own
    <3>3. Own # 0
        BY <1>0, <2>2, ThrottleCounts, FS_EmptySet DEF Own
    <3>4. /\ Cardinality(Testing') \in Nat /\ Cardinality(Testing') <= Try
          /\ Cardinality(AtFactor') = Fact
        BY <1>0, <3>1, ThrottleCounts, FS_Subset, FS_CardinalityType DEF Try, Fact
    <3>5. /\ own' \subseteq Guessers /\ step' \in [Guessers -> Throttle!Steps]
          /\ \A g \in own' : step'[g] \in {"recorded", "password"}
        BY <1>0, <2>1, <2>2
    <3> QED BY <1>1, <1>2, <2>2, <3>2, <3>3, <3>4, <3>5
  <2>3. ASSUME own' = own, refused' \in Nat, wrongPasswords' \in Nat, wrongFactors' \in Nat,
               refused' <= refused, wrongPasswords' <= wrongPasswords,
               wrongFactors' <= wrongFactors
        PROVE  ThrottleInv'
    <3>1. /\ Cardinality(own') = Own /\ Cardinality(Testing') = Try
          /\ Cardinality(AtFactor') = Fact
        BY <2>1, <2>3 DEF Own, Try, Fact, Testing, AtFactor
    <3>2. /\ Own + refused' + wrongPasswords' + wrongFactors' <= MaxRows
          /\ wrongPasswords' + Try <= MaxFails
          /\ wrongPasswords' + wrongFactors' + Try + Fact <= MaxFails - 1 + All
      <4>1. ASSUME NEW a \in Nat, NEW b \in Nat, NEW c \in Nat,
                   a <= refused, b <= wrongPasswords, c <= wrongFactors
            PROVE  /\ Own + a + b + c <= MaxRows /\ b + Try <= MaxFails
                   /\ b + c + Try + Fact <= MaxFails - 1 + All
          BY <1>1, <4>1
      <4> QED BY <2>3, <4>1
    <3>3. /\ own' \subseteq Guessers /\ step' \in [Guessers -> Throttle!Steps]
          /\ \A g \in own' : step'[g] \in {"recorded", "password"}
        BY <1>0, <2>1, <2>3
    <3> QED BY <1>1, <1>2, <2>3, <3>1, <3>2, <3>3
  <2>4. CASE \E h \in own : own' = own \ {h}
                            /\ UNCHANGED <<refused, wrongPasswords, wrongFactors>>
      BY <2>2, <2>4
  <2>5. CASE refused > 0 /\ refused' = refused - 1 /\ UNCHANGED <<own, wrongPasswords, wrongFactors>>
      BY <1>1, <2>3, <2>5
  <2>6. CASE wrongPasswords > 0 /\ wrongPasswords' = wrongPasswords - 1
             /\ UNCHANGED <<own, refused, wrongFactors>>
      BY <1>1, <2>3, <2>6
  <2>7. CASE wrongFactors > 0 /\ wrongFactors' = wrongFactors - 1
             /\ UNCHANGED <<own, refused, wrongPasswords>>
      BY <1>1, <2>3, <2>7
  <2> QED BY <1>10, <2>4, <2>5, <2>6, <2>7 DEF Throttle!Expire
<1>11. CASE UNCHANGED Throttle!throttleVars
    BY <1>11 DEF Throttle!throttleVars, ThrottleInv, Throttle!TypeOK, Throttle!Rows, Testing,
                 AtFactor
<1> QED BY <1>3, <1>4, <1>5, <1>6, <1>7, <1>8, <1>9, <1>10, <1>11 DEF Throttle!Next

\* Nothing is recorded in the initial state.
LEMMA ThrottleInit == Throttle!Init => ThrottleInv
<1> SUFFICES ASSUME Throttle!Init PROVE ThrottleInv
    OBVIOUS
<1> USE DEF Throttle!Init
<1>1. Throttle!FailsAssumption
    BY Assumptions
<1>2. Throttle!TypeOK
    BY <1>1 DEF Throttle!TypeOK, Throttle!Steps, Throttle!FailsAssumption
<1>3. Testing = {} /\ AtFactor = {}
    BY DEF Testing, AtFactor
<1>4. Cardinality(own) = 0 /\ Cardinality(Testing) = 0 /\ Cardinality(AtFactor) = 0
    BY <1>3, FS_EmptySet
<1> QED BY <1>2, <1>4, ThrottleCounts, RowsAre DEF ThrottleInv

\* Tested and wrong is no more than tested or wrong.
LEMMA ThrottleBounds == ThrottleInv => Throttle!GuessesBounded
<1> SUFFICES ASSUME ThrottleInv PROVE Throttle!GuessesBounded
    OBVIOUS
<1>1. Throttle!TypeOK
    BY DEF ThrottleInv
<1> QED BY <1>1, ThrottleCounts, SameSize DEF ThrottleInv, Throttle!GuessesBounded

-----------------------------------------------------------------------------
(* The second factor: what is being committed, and what it was loaded with. *)

\* The codes that can have been made so far.
Made ==
    {Factor!None}
    \cup {Factor!Totp(s, n) : s \in 1 .. secrets, n \in 0 .. MaxStep + 1}
    \cup UNION {Factor!Recovery(b) : b \in 1 .. batches}

\* A factor that is on has a secret, one that is off no recovery codes.
RowSound(rec) == IF rec.enabled THEN rec.secret # 0 ELSE rec.recovery = {}

Asking(q) ==
    \/ /\ q.op = "none" /\ q = Factor!Idle
    \/ /\ q.op = "setup" /\ ~q.loaded.enabled /\ q.code = Factor!None
       /\ q.write.secret \notin {0, q.loaded.secret}
       /\ q.write = [q.loaded EXCEPT !.secret = q.write.secret]
    \/ /\ q.op = "confirm" /\ ~q.loaded.enabled /\ q.loaded.secret # 0
       /\ q.code = Factor!Totp(q.loaded.secret, q.write.step)
       /\ q.write = [q.loaded EXCEPT !.enabled = TRUE, !.recovery = q.write.recovery,
                                     !.step = q.write.step]
    \/ /\ q.op = "verify" /\ q.loaded.enabled
       /\ q.code = Factor!Totp(q.loaded.secret, q.write.step)
       /\ q.write.step > q.loaded.step
       /\ q.write = [q.loaded EXCEPT !.step = q.write.step]
    \/ /\ q.op = "verify" /\ q.loaded.enabled
       /\ q.code \in q.loaded.recovery
       /\ q.write = [q.loaded EXCEPT !.recovery = @ \ {q.code}]
    \/ /\ q.op = "disable" /\ q.loaded.enabled
       /\ q.write = [q.loaded EXCEPT !.enabled = FALSE, !.secret = 0, !.recovery = {}]

\* What was made was made by now.
MadeByNow ==
    /\ used \subseteq Made \ {Factor!None}
    /\ account.secret <= secrets /\ account.recovery \subseteq Made
    /\ \A r \in Factors : /\ attempt[r].code \in Made
                          /\ attempt[r].loaded.secret <= secrets
                          /\ attempt[r].loaded.recovery \subseteq Made
                          /\ attempt[r].write.secret <= secrets
                          /\ attempt[r].write.recovery \subseteq Made

\* A secret that is being set up is nobody else's.
NewSecrets ==
    \A r \in Factors : attempt[r].op = "setup" =>
        LET s == attempt[r].write.secret IN
        /\ account.secret # s
        /\ \A n \in 0 .. MaxStep + 1 : Factor!Totp(s, n) \notin used
        /\ \A k \in Factors \ {r} :
              /\ attempt[k].loaded.secret # s
              /\ attempt[k].op = "setup" => attempt[k].write.secret # s
              /\ \A n \in 0 .. MaxStep + 1 : attempt[k].code # Factor!Totp(s, n)

\* The recovery codes that a confirmation will hand out are nobody else's.
NewCodes ==
    \A r \in Factors : attempt[r].op = "confirm" =>
        LET new == attempt[r].write.recovery IN
        /\ new \cap account.recovery = {} /\ new \cap used = {}
        /\ \A k \in Factors \ {r} :
              /\ attempt[k].code \notin new
              /\ attempt[k].op = "confirm" => new \cap attempt[k].write.recovery = {}

\* A row with the secret that was loaded is the one that was loaded, or a later one.
SameSecret ==
    \A r \in Factors :
        LET was == attempt[r].loaded IN
        attempt[r].op # "none" /\ account.secret = was.secret /\ was.secret # 0 =>
            /\ was.enabled => account.enabled /\ account.recovery \subseteq was.recovery
            /\ ~was.enabled /\ ~account.enabled => account.step >= was.step

\* A code that was used is neither after the last step nor among the recovery codes.
UsedIsPast ==
    /\ account.recovery \cap used = {}
    /\ \A n \in 0 .. MaxStep + 1 : Factor!Totp(account.secret, n) \in used
          => account.enabled /\ n <= account.step

FactorInv ==
    /\ Factor!TypeOK
    /\ replayed => collided
    /\ ~collided =>
          /\ \A r \in Factors : Asking(attempt[r]) /\ RowSound(attempt[r].loaded)
          /\ RowSound(account) /\ MadeByNow /\ NewSecrets /\ NewCodes /\ SameSecret /\ UsedIsPast
          /\ told.codes \subseteq UNION {Factor!Recovery(b) : b \in 1 .. NBatches}
          /\ account.enabled => account.secret = told.secret /\ account.recovery = told.codes \ used

\* The codes of different kinds, secrets, time-steps and sets differ.
LEMMA CodesDiffer ==
    /\ \A s, n, t, m : Factor!Totp(s, n) = Factor!Totp(t, m) => s = t /\ n = m
    /\ \A s, n : Factor!Totp(s, n) # Factor!None /\ Factor!Totp(s, n)[3] = n
    /\ \A s, n, b : Factor!Totp(s, n) \notin Factor!Recovery(b)
    /\ \A b : Factor!None \notin Factor!Recovery(b)
    /\ \A b, d : b # d => Factor!Recovery(b) \cap Factor!Recovery(d) = {}
BY DEF Factor!Totp, Factor!None, Factor!Recovery

\* What has been made stays made, and what is made next was not.
LEMMA MadeGrows ==
    ASSUME secrets \in Nat, batches \in Nat, secrets' \in Nat, batches' \in Nat,
           secrets <= secrets', batches <= batches'
    PROVE  Made \subseteq Made'
<1>1. 1 .. secrets \subseteq 1 .. secrets' /\ 1 .. batches \subseteq 1 .. batches'
    OBVIOUS
<1> QED BY <1>1 DEF Made

\* The next secret's codes, and the next set of recovery codes, are not made yet.
LEMMA NextIsUnmade ==
    ASSUME secrets \in Nat, batches \in Nat
    PROVE  /\ \A n : Factor!Totp(secrets + 1, n) \notin Made
           /\ Factor!Recovery(batches + 1) \cap Made = {}
<1>1. ASSUME NEW n PROVE Factor!Totp(secrets + 1, n) \notin Made
  <2>1. \A s \in 1 .. secrets, m \in 0 .. MaxStep + 1 :
            Factor!Totp(secrets + 1, n) # Factor!Totp(s, m)
      BY CodesDiffer
  <2> QED BY <2>1, CodesDiffer DEF Made
<1>2. ASSUME NEW c \in Factor!Recovery(batches + 1) PROVE c \notin Made
  <2>1. \A b \in 1 .. batches : c \notin Factor!Recovery(b)
    <3> SUFFICES ASSUME NEW b \in 1 .. batches PROVE c \notin Factor!Recovery(b)
        OBVIOUS
    <3>1. b # batches + 1
        OBVIOUS
    <3>2. Factor!Recovery(b) \cap Factor!Recovery(batches + 1) = {}
        BY <3>1, CodesDiffer
    <3> QED BY <1>2, <3>2
  <2>2. \A s, m : c # Factor!Totp(s, m)
      BY <1>2, CodesDiffer
  <2>3. c # Factor!None
      BY <1>2, CodesDiffer
  <2> QED BY <2>1, <2>2, <2>3 DEF Made
<1> QED BY <1>1, <1>2

\* The bounds are numbers, and what has been made is a code.
LEMMA FactorTypes ==
    ASSUME Factor!TypeOK
    PROVE  /\ NSecrets \in Nat /\ NBatches \in Nat /\ MaxStep \in Nat /\ MaxStep >= 1
           /\ secrets \in Nat /\ batches \in Nat /\ secrets <= NSecrets /\ batches <= NBatches
           /\ Made \subseteq Factor!AnyCode
           /\ \A rec \in Factor!Accounts :
                 /\ rec.enabled \in BOOLEAN /\ rec.secret \in Nat /\ rec.step \in Nat
                 /\ rec.step \in 0 .. MaxStep + 1
<1>1. Factor!StepsAssumption
    BY Assumptions
<1>2. NSecrets \in Nat /\ NBatches \in Nat /\ MaxStep \in Nat /\ MaxStep >= 1
    BY <1>1 DEF Factor!StepsAssumption
<1>3. secrets \in Nat /\ batches \in Nat /\ secrets <= NSecrets /\ batches <= NBatches
    BY <1>2 DEF Factor!TypeOK
<1>4. 1 .. secrets \subseteq 1 .. NSecrets /\ 1 .. batches \subseteq 1 .. NBatches
    BY <1>2, <1>3
<1>5. Made \subseteq Factor!AnyCode
    BY <1>4 DEF Made, Factor!AnyCode
<1>6. \A rec \in Factor!Accounts :
          /\ rec.enabled \in BOOLEAN /\ rec.secret \in Nat /\ rec.step \in Nat
          /\ rec.step \in 0 .. MaxStep + 1
    BY <1>2 DEF Factor!Accounts
<1> QED BY <1>2, <1>3, <1>5, <1>6

\* Recovery codes are of no secret.
LEMMA RecoveryCodes ==
    \A c \in UNION {Factor!Recovery(b) : b \in 1 .. NBatches} :
        c # Factor!None /\ \A s, n : c # Factor!Totp(s, n)
BY CodesDiffer

\* A code that a request may present: none, one of the secret's, a recovery code that is left.
Presentable ==
    {Factor!None} \cup account.recovery
    \cup {c \in {Factor!Totp(account.secret, n) : n \in 0 .. MaxStep + 1} : account.secret # 0}

(***************************************************************************)
(* A request that begins: it takes a code that was not used, and what it   *)
(* makes, a secret or recovery codes, is new.                              *)
(***************************************************************************)
LEMMA BeginKept ==
    ASSUME FactorInv, ~collided, NEW r \in Factors,
           NEW op \in {"setup", "confirm", "verify", "disable"},
           NEW write \in Factor!Accounts, NEW c \in Presentable \ used,
           Factor!Begin(r, op, write, c),
           secrets' \in secrets .. NSecrets, batches' \in batches .. NBatches,
           Asking([op |-> op, loaded |-> account, write |-> write, code |-> c]),
           write.secret <= secrets', write.recovery \subseteq Made',
           op = "setup" => write.secret = secrets + 1,
           op = "confirm" => write.recovery = Factor!Recovery(batches + 1)
    PROVE  FactorInv'
<1> DEFINE q == [op |-> op, loaded |-> account, write |-> write, code |-> c]
           AllRecovery == UNION {Factor!Recovery(b) : b \in 1 .. NBatches}
<1>0. /\ Factor!TypeOK /\ ~replayed
      /\ \A k \in Factors : Asking(attempt[k]) /\ RowSound(attempt[k].loaded)
      /\ RowSound(account) /\ MadeByNow /\ NewSecrets /\ NewCodes /\ SameSecret /\ UsedIsPast
      /\ told.codes \subseteq AllRecovery
      /\ account.enabled => account.secret = told.secret /\ account.recovery = told.codes \ used
    BY DEF FactorInv
<1>1. /\ attempt' = [attempt EXCEPT ![r] = q] /\ attempt[r] = Factor!Idle
      /\ replayed' = (replayed \/ c \in used)
      /\ UNCHANGED <<account, timestep, used, told, collided>>
    BY DEF Factor!Begin
<1>2. attempt'[r] = q /\ \A k \in Factors \ {r} : attempt'[k] = attempt[k]
    BY <1>0, <1>1 DEF Factor!TypeOK
<1>3. ~replayed'
    BY <1>0, <1>1
<1>4. /\ NSecrets \in Nat /\ NBatches \in Nat /\ secrets \in Nat /\ batches \in Nat
      /\ secrets' \in Nat /\ batches' \in Nat /\ secrets <= secrets' /\ batches <= batches'
      /\ account.secret \in Nat /\ account \in Factor!Accounts /\ account.step \in Nat
      /\ Made \subseteq Factor!AnyCode
    BY <1>0, FactorTypes DEF Factor!TypeOK
<1>5. Made \subseteq Made'
    BY <1>4, MadeGrows
<1>6. c \in Made
  <2>1. CASE c \in account.recovery \cup {Factor!None}
      BY <1>0, <2>1 DEF MadeByNow, Made
  <2>2. CASE account.secret # 0 /\ \E n \in 0 .. MaxStep + 1 : c = Factor!Totp(account.secret, n)
    <3>1. account.secret \in 1 .. secrets
        BY <1>0, <1>4, <2>2 DEF MadeByNow
    <3> QED BY <2>2, <3>1 DEF Made
  <2> QED BY <2>1, <2>2 DEF Presentable
<1>7. \A k \in Factors : /\ attempt[k].write \in Factor!Accounts
                         /\ attempt[k].loaded \in Factor!Accounts
                         /\ attempt[k].write.secret \in Nat /\ attempt[k].loaded.secret \in Nat
                         /\ attempt[k].write.recovery \subseteq AllRecovery
  <2>1. \A k \in Factors : attempt[k].write \in Factor!Accounts
                           /\ attempt[k].loaded \in Factor!Accounts
      BY <1>0 DEF Factor!TypeOK
  <2> QED BY <1>0, <2>1, FactorTypes DEF Factor!Accounts
<1> HIDE DEF q, AllRecovery
<1>8. Factor!TypeOK'
  <2>1. q \in [op : {"none", "setup", "confirm", "verify", "disable"},
               loaded : Factor!Accounts, write : Factor!Accounts, code : Factor!AnyCode]
      BY <1>4, <1>6 DEF q
  <2> QED BY <1>0, <1>1, <1>3, <1>4, <2>1 DEF Factor!TypeOK
<1>9. \A k \in Factors : Asking(attempt'[k]) /\ RowSound(attempt'[k].loaded)
  <2>1. Asking(q) /\ RowSound(q.loaded)
      BY <1>0 DEF q
  <2> QED BY <1>0, <1>2, <2>1
<1>10. MadeByNow'
  <2>1. /\ q.code \in Made' /\ q.loaded.secret <= secrets' /\ q.loaded.recovery \subseteq Made'
        /\ q.write.secret <= secrets' /\ q.write.recovery \subseteq Made'
      BY <1>0, <1>4, <1>5, <1>6 DEF q, MadeByNow
  <2>2. \A k \in Factors \ {r} :
            /\ attempt[k].code \in Made' /\ attempt[k].loaded.secret <= secrets'
            /\ attempt[k].loaded.recovery \subseteq Made'
            /\ attempt[k].write.secret <= secrets' /\ attempt[k].write.recovery \subseteq Made'
      BY <1>0, <1>4, <1>5, <1>7 DEF MadeByNow
  <2>3. used' \subseteq Made' \ {Factor!None} /\ account'.secret <= secrets'
        /\ account'.recovery \subseteq Made'
      BY <1>0, <1>1, <1>4, <1>5 DEF MadeByNow
  <2> QED BY <1>2, <2>1, <2>2, <2>3 DEF MadeByNow
<1>11. account.recovery \subseteq AllRecovery
    BY <1>4 DEF Factor!Accounts, AllRecovery
<1>12. NewSecrets'
  <2>1. ASSUME NEW k \in Factors \ {r}, attempt[k].op = "setup"
        PROVE  /\ account.secret # attempt[k].write.secret
               /\ op = "setup" => write.secret # attempt[k].write.secret
               /\ \A n : c # Factor!Totp(attempt[k].write.secret, n)
    <3>1. account.secret # attempt[k].write.secret
        BY <1>0, <2>1 DEF NewSecrets
    <3>2. attempt[k].write.secret <= secrets
        BY <1>0, <2>1 DEF MadeByNow
    <3>3. \A n : c # Factor!Totp(attempt[k].write.secret, n)
        BY <1>11, <3>1, CodesDiffer, RecoveryCodes DEF Presentable, AllRecovery
    <3> QED BY <1>4, <1>7, <2>1, <3>1, <3>2, <3>3
  <2>2. ASSUME op = "setup"
        PROVE  /\ account.secret # write.secret
               /\ \A n \in 0 .. MaxStep + 1 : Factor!Totp(write.secret, n) \notin used
               /\ \A k \in Factors \ {r} :
                     /\ attempt[k].loaded.secret # write.secret
                     /\ attempt[k].op = "setup" => attempt[k].write.secret # write.secret
                     /\ \A n \in 0 .. MaxStep + 1 : attempt[k].code # Factor!Totp(write.secret, n)
    <3>1. write.secret = secrets + 1
        BY <2>2
    <3>2. \A n : Factor!Totp(write.secret, n) \notin Made
        BY <1>4, <3>1, NextIsUnmade
    <3>3. account.secret # write.secret
        BY <1>0, <1>4, <3>1 DEF MadeByNow
    <3>4. \A n : Factor!Totp(write.secret, n) \notin used
        BY <1>0, <3>2 DEF MadeByNow
    <3>5. ASSUME NEW k \in Factors \ {r}
          PROVE  /\ attempt[k].loaded.secret # write.secret
                 /\ attempt[k].write.secret # write.secret
                 /\ \A n : attempt[k].code # Factor!Totp(write.secret, n)
      <4>1. /\ attempt[k].loaded.secret <= secrets /\ attempt[k].write.secret <= secrets
            /\ attempt[k].code \in Made
          BY <1>0 DEF MadeByNow
      <4>2. attempt[k].loaded.secret # write.secret /\ attempt[k].write.secret # write.secret
          BY <1>4, <1>7, <3>1, <4>1
      <4> QED BY <3>2, <4>1, <4>2
    <3> QED BY <3>3, <3>4, <3>5
  <2>3. q.op = op /\ q.loaded = account /\ q.write = write /\ q.code = c
      BY DEF q
  <2>4. ASSUME NEW v \in Factors \ {r}, attempt[v].op = "setup"
        PROVE  /\ account.secret # attempt[v].write.secret
               /\ \A n \in 0 .. MaxStep + 1 : Factor!Totp(attempt[v].write.secret, n) \notin used
               /\ \A k \in Factors \ {v} :
                     /\ attempt'[k].loaded.secret # attempt[v].write.secret
                     /\ attempt'[k].op = "setup" => attempt'[k].write.secret # attempt[v].write.secret
                     /\ \A n \in 0 .. MaxStep + 1 :
                           attempt'[k].code # Factor!Totp(attempt[v].write.secret, n)
    <3>1. /\ account.secret # attempt[v].write.secret
          /\ \A n \in 0 .. MaxStep + 1 : Factor!Totp(attempt[v].write.secret, n) \notin used
        BY <1>0, <2>4 DEF NewSecrets
    <3>2. ASSUME NEW k \in Factors \ {v, r}
          PROVE  /\ attempt[k].loaded.secret # attempt[v].write.secret
                 /\ attempt[k].op = "setup" => attempt[k].write.secret # attempt[v].write.secret
                 /\ \A n \in 0 .. MaxStep + 1 :
                       attempt[k].code # Factor!Totp(attempt[v].write.secret, n)
        BY <1>0, <2>4 DEF NewSecrets
    <3>3. /\ q.loaded.secret # attempt[v].write.secret
          /\ q.op = "setup" => q.write.secret # attempt[v].write.secret
          /\ \A n \in 0 .. MaxStep + 1 : q.code # Factor!Totp(attempt[v].write.secret, n)
        BY <2>1, <2>3, <2>4, <3>1
    <3> QED BY <1>2, <3>1, <3>2, <3>3
  <2> QED BY <1>1, <1>2, <2>2, <2>3, <2>4 DEF NewSecrets
<1>13. NewCodes'
  <2>1. ASSUME NEW k \in Factors \ {r}, attempt[k].op = "confirm"
        PROVE  /\ c \notin attempt[k].write.recovery
               /\ op = "confirm" => write.recovery \cap attempt[k].write.recovery = {}
    <3>1. attempt[k].write.recovery \cap account.recovery = {}
        BY <1>0, <2>1 DEF NewCodes
    <3>2. attempt[k].write.recovery \subseteq Made
        BY <1>0 DEF MadeByNow
    <3>3. c \notin attempt[k].write.recovery
      <4>1. CASE c \in account.recovery
          BY <3>1, <4>1
      <4>2. CASE c = Factor!None \/ \E n : c = Factor!Totp(account.secret, n)
          BY <1>7, <4>2, RecoveryCodes DEF AllRecovery
      <4> QED BY <4>1, <4>2 DEF Presentable
    <3>4. op = "confirm" => write.recovery \cap attempt[k].write.recovery = {}
        BY <1>4, <3>2, NextIsUnmade
    <3> QED BY <3>3, <3>4
  <2>2. ASSUME op = "confirm"
        PROVE  /\ write.recovery \cap account.recovery = {} /\ write.recovery \cap used = {}
               /\ \A k \in Factors \ {r} :
                     /\ attempt[k].code \notin write.recovery
                     /\ attempt[k].op = "confirm"
                           => write.recovery \cap attempt[k].write.recovery = {}
    <3>1. write.recovery \cap Made = {}
        BY <1>4, <2>2, NextIsUnmade
    <3> QED BY <1>0, <3>1 DEF MadeByNow
  <2>3. q.op = op /\ q.loaded = account /\ q.write = write /\ q.code = c
      BY DEF q
  <2> QED BY <1>0, <1>1, <1>2, <2>1, <2>2, <2>3 DEF NewCodes
<1>14. SameSecret'
  <2>1. q.loaded = account
      BY DEF q
  <2> QED BY <1>0, <1>1, <1>2, <1>4, <2>1 DEF SameSecret
<1>15. UsedIsPast' /\ RowSound(account')
    BY <1>0, <1>1 DEF UsedIsPast
<1>16. /\ told'.codes \subseteq AllRecovery
       /\ account'.enabled => account'.secret = told'.secret
                              /\ account'.recovery = told'.codes \ used'
    BY <1>0, <1>1
<1> QED BY <1>3, <1>8, <1>9, <1>10, <1>12, <1>13, <1>14, <1>15, <1>16
        DEF FactorInv, AllRecovery

\* A code that matches is one of the secret's.
LEMMA MatchingIs ==
    ASSUME Factor!TypeOK, NEW c \in Factor!Matching(account.secret)
    PROVE  /\ account.secret # 0
           /\ c[3] \in 0 .. MaxStep + 1 /\ c = Factor!Totp(account.secret, c[3])
<1>1. account.secret # 0
    BY DEF Factor!Matching
<1>2. PICK n \in timestep - 1 .. timestep + 1 : c = Factor!Totp(account.secret, n)
    BY <1>1 DEF Factor!Matching
<1>3. MaxStep \in Nat /\ timestep \in 1 .. MaxStep
    BY FactorTypes DEF Factor!TypeOK
<1>4. n \in 0 .. MaxStep + 1
    BY <1>3
<1>5. c[3] = n
    BY <1>2, CodesDiffer
<1> QED BY <1>1, <1>2, <1>4, <1>5

\* A code that is acceptable was not used: its step is later, or it is left.
LEMMA AcceptableIs ==
    ASSUME FactorInv, ~collided, account.enabled, NEW c \in Factor!Acceptable(account)
    PROVE  /\ c \in Presentable \ used
           /\ \/ /\ c \notin account.recovery /\ c[3] \in 0 .. MaxStep + 1 /\ c[3] > account.step
                 /\ c = Factor!Totp(account.secret, c[3])
              \/ c \in account.recovery
<1>1. Factor!TypeOK /\ UsedIsPast
    BY DEF FactorInv
<1>2. account \in Factor!Accounts
    BY <1>1 DEF Factor!TypeOK
<1>3. CASE c \in account.recovery
    BY <1>1, <1>3 DEF UsedIsPast, Presentable
<1>4. CASE c \in Factor!Matching(account.secret) /\ c[3] > account.step /\ c \notin account.recovery
  <2>1. /\ account.secret # 0 /\ c[3] \in 0 .. MaxStep + 1
        /\ c = Factor!Totp(account.secret, c[3])
      BY <1>1, <1>4, MatchingIs
  <2>2. account.step \in Nat /\ c[3] \in Nat
      BY <1>1, <1>2, <2>1, FactorTypes
  <2>3. c \notin used
      BY <1>1, <1>4, <2>1, <2>2 DEF UsedIsPast
  <2>4. c \in Presentable
      BY <2>1 DEF Presentable
  <2> QED BY <1>4, <2>1, <2>3, <2>4
<1> QED BY <1>3, <1>4 DEF Factor!Acceptable

\* Every request that begins keeps the invariant.
LEMMA RequestsKept ==
    ASSUME FactorInv, ~collided, NEW r \in Factors,
           Factor!Setup(r) \/ Factor!Confirm(r) \/ Factor!Verify(r) \/ Factor!Disable(r)
    PROVE  FactorInv'
<1>1. /\ Factor!TypeOK /\ UsedIsPast /\ RowSound(account) /\ MadeByNow
    BY DEF FactorInv
<1>2. /\ NSecrets \in Nat /\ NBatches \in Nat /\ secrets \in Nat /\ batches \in Nat
      /\ account \in Factor!Accounts /\ account.secret \in Nat /\ account.step \in Nat
      /\ secrets <= NSecrets /\ batches <= NBatches /\ MaxStep \in Nat
      /\ account.recovery \subseteq Made /\ account.secret <= secrets
    BY <1>1, FactorTypes DEF Factor!TypeOK, MadeByNow
<1>3. /\ secrets' \in Nat /\ batches' \in Nat /\ secrets <= secrets' /\ batches <= batches'
         => account.recovery \subseteq Made'
    BY <1>2, MadeGrows
<1>4. CASE Factor!Setup(r)
  <2> DEFINE write == [account EXCEPT !.secret = secrets + 1]
  <2>1. /\ ~account.enabled /\ secrets < NSecrets /\ secrets' = secrets + 1 /\ batches' = batches
        /\ Factor!Begin(r, "setup", write, Factor!None)
      BY <1>4 DEF Factor!Setup
  <2>2. write \in Factor!Accounts
    <3>1. secrets + 1 \in 0 .. NSecrets
        BY <1>2, <2>1
    <3> QED BY <1>2, <3>1 DEF Factor!Accounts
  <2>3. write.secret = secrets + 1 /\ write.recovery = account.recovery
      BY <1>2 DEF Factor!Accounts
  <2>4. Factor!None \in Presentable \ used
      BY <1>1 DEF Presentable, MadeByNow
  <2>5. Asking([op |-> "setup", loaded |-> account, write |-> write, code |-> Factor!None])
    <3>1. write.secret \notin {0, account.secret}
        BY <1>2, <2>3
    <3>2. write = [account EXCEPT !.secret = write.secret]
        BY <2>3
    <3> HIDE DEF write
    <3> QED BY <2>1, <3>1, <3>2 DEF Asking
  <2>6. secrets' \in secrets .. NSecrets /\ batches' \in batches .. NBatches
      BY <1>2, <2>1
  <2>7. write.secret <= secrets' /\ write.recovery \subseteq Made'
      BY <1>2, <1>3, <2>1, <2>3
  <2> HIDE DEF write
  <2> QED BY <2>1, <2>2, <2>3, <2>4, <2>5, <2>6, <2>7, BeginKept
<1>5. CASE Factor!Confirm(r)
  <2>1. PICK c \in Factor!Matching(account.secret) :
            Factor!Begin(r, "confirm", Factor!Confirmed(account, c, Factor!Recovery(batches')), c)
      BY <1>5 DEF Factor!Confirm
  <2> DEFINE write == Factor!Confirmed(account, c, Factor!Recovery(batches + 1))
  <2>2. /\ ~account.enabled /\ batches < NBatches /\ secrets' = secrets /\ batches' = batches + 1
        /\ Factor!Begin(r, "confirm", write, c)
      BY <1>5, <2>1 DEF Factor!Confirm
  <2>3. /\ account.secret # 0 /\ c[3] \in 0 .. MaxStep + 1
        /\ c = Factor!Totp(account.secret, c[3])
      BY <1>1, MatchingIs
  <2>4. /\ write = [account EXCEPT !.enabled = TRUE, !.recovery = Factor!Recovery(batches + 1),
                                   !.step = c[3]]
        /\ write \in Factor!Accounts
        /\ write.secret = account.secret /\ write.recovery = Factor!Recovery(batches + 1)
        /\ write.step = c[3]
    <3>1. Factor!Recovery(batches + 1) \subseteq UNION {Factor!Recovery(b) : b \in 1 .. NBatches}
      <4>1. batches + 1 \in 1 .. NBatches
          BY <1>2, <2>2
      <4> QED BY <4>1
    <3> QED BY <1>2, <2>3, <3>1 DEF Factor!Confirmed, Factor!Accounts
  <2>5. c \in Presentable \ used
    <3>1. c \notin used
        BY <1>1, <2>2, <2>3 DEF UsedIsPast
    <3> QED BY <2>3, <3>1 DEF Presentable
  <2> HIDE DEF write
  <2>6. Asking([op |-> "confirm", loaded |-> account, write |-> write, code |-> c])
    <3>1. c = Factor!Totp(account.secret, write.step)
        BY <2>3, <2>4
    <3>2. write = [account EXCEPT !.enabled = TRUE, !.recovery = write.recovery,
                                  !.step = write.step]
        BY <2>4
    <3> QED BY <2>2, <2>3, <3>1, <3>2 DEF Asking
  <2>7. secrets' \in secrets .. NSecrets /\ batches' \in batches .. NBatches
      BY <1>2, <2>2
  <2>8. write.secret <= secrets' /\ write.recovery \subseteq Made'
    <3>1. batches' \in 1 .. batches'
        BY <1>2, <2>2
    <3>2. Factor!Recovery(batches + 1) \subseteq Made'
        BY <2>2, <3>1 DEF Made
    <3> QED BY <1>2, <2>2, <2>4, <3>2
  <2> QED BY <2>2, <2>4, <2>5, <2>6, <2>7, <2>8, BeginKept
<1>6. CASE Factor!Verify(r)
  <2>1. PICK c \in Factor!Acceptable(account) :
            Factor!Begin(r, "verify",
                IF c \in account.recovery THEN [account EXCEPT !.recovery = @ \ {c}]
                ELSE [account EXCEPT !.step = c[3]], c)
      BY <1>6 DEF Factor!Verify
  <2>2. /\ account.enabled /\ secrets' = secrets /\ batches' = batches
        /\ secrets' \in secrets .. NSecrets /\ batches' \in batches .. NBatches
      BY <1>2, <1>6 DEF Factor!Verify
  <2>3. /\ c \in Presentable \ used
        /\ \/ /\ c \notin account.recovery /\ c[3] \in 0 .. MaxStep + 1 /\ c[3] > account.step
              /\ c = Factor!Totp(account.secret, c[3])
           \/ c \in account.recovery
      BY <2>2, AcceptableIs
  <2>4. CASE c \in account.recovery
    <3> DEFINE write == [account EXCEPT !.recovery = @ \ {c}]
    <3>1. /\ write \in Factor!Accounts /\ write.secret = account.secret
          /\ write.recovery \subseteq account.recovery
        BY <1>2 DEF Factor!Accounts
    <3>2. Factor!Begin(r, "verify", write, c)
        BY <2>1, <2>4
    <3>3. Asking([op |-> "verify", loaded |-> account, write |-> write, code |-> c])
      <4>1. write = [account EXCEPT !.recovery = @ \ {c}]
          OBVIOUS
      <4> HIDE DEF write
      <4> QED BY <2>2, <2>4, <4>1 DEF Asking
    <3> HIDE DEF write
    <3>4. write.secret <= secrets' /\ write.recovery \subseteq Made'
        BY <1>2, <1>3, <2>2, <3>1
    <3> QED BY <2>2, <2>3, <3>1, <3>2, <3>3, <3>4, BeginKept
  <2>5. CASE c \notin account.recovery
    <3> DEFINE write == [account EXCEPT !.step = c[3]]
    <3>1. /\ write \in Factor!Accounts /\ write.secret = account.secret
          /\ write.recovery = account.recovery /\ write.step = c[3]
        BY <1>2, <2>3, <2>5 DEF Factor!Accounts
    <3>2. Factor!Begin(r, "verify", write, c)
        BY <2>1, <2>5
    <3>3. Asking([op |-> "verify", loaded |-> account, write |-> write, code |-> c])
      <4>1. write = [account EXCEPT !.step = write.step]
          BY <3>1
      <4>2. c = Factor!Totp(account.secret, write.step) /\ write.step > account.step
          BY <2>3, <2>5, <3>1
      <4> HIDE DEF write
      <4> QED BY <2>2, <4>1, <4>2 DEF Asking
    <3> HIDE DEF write
    <3>4. write.secret <= secrets' /\ write.recovery \subseteq Made'
        BY <1>2, <1>3, <2>2, <3>1
    <3> QED BY <2>2, <2>3, <3>1, <3>2, <3>3, <3>4, BeginKept
  <2> QED BY <2>4, <2>5
<1>7. CASE Factor!Disable(r)
  <2> DEFINE write == [account EXCEPT !.enabled = FALSE, !.secret = 0, !.recovery = {}]
  <2>1. PICK c \in Factor!Acceptable(account) : Factor!Begin(r, "disable", write, c)
      BY <1>7 DEF Factor!Disable
  <2>2. /\ account.enabled /\ secrets' = secrets /\ batches' = batches
        /\ secrets' \in secrets .. NSecrets /\ batches' \in batches .. NBatches
      BY <1>2, <1>7 DEF Factor!Disable
  <2>3. c \in Presentable \ used
      BY <2>2, AcceptableIs
  <2>4. write \in Factor!Accounts /\ write.secret = 0 /\ write.recovery = {}
    <3>1. 0 \in 0 .. NSecrets
        BY <1>2
    <3>2. write \in [enabled : BOOLEAN, secret : 0 .. NSecrets, step : 0 .. MaxStep + 1,
                     recovery : SUBSET UNION {Factor!Recovery(b) : b \in 1 .. NBatches}]
      <4>1. [account EXCEPT !.enabled = FALSE] \in Factor!Accounts
          BY <1>2 DEF Factor!Accounts
      <4>2. [account EXCEPT !.enabled = FALSE, !.secret = 0] \in Factor!Accounts
          BY <3>1, <4>1 DEF Factor!Accounts
      <4> QED BY <4>2 DEF Factor!Accounts
    <3> QED BY <1>2, <3>2 DEF Factor!Accounts
  <2>5. Asking([op |-> "disable", loaded |-> account, write |-> write, code |-> c])
    <3>1. write = [account EXCEPT !.enabled = FALSE, !.secret = 0, !.recovery = {}]
        OBVIOUS
    <3> HIDE DEF write
    <3> QED BY <2>2, <3>1 DEF Asking
  <2> HIDE DEF write
  <2>6. write.secret <= secrets' /\ write.recovery \subseteq Made'
      BY <1>2, <2>2, <2>4
  <2> QED BY <2>1, <2>2, <2>3, <2>4, <2>5, <2>6, BeginKept
<1> QED BY <1>4, <1>5, <1>6, <1>7

(***************************************************************************)
(* A commit, column by column: it writes those that the request changed,   *)
(* and does not cross if they, and what it relied on, are as it loaded     *)
(* them.                                                                   *)
(***************************************************************************)
LEMMA CommitColumns ==
    ASSUME Factor!TypeOK, ~collided, NEW r \in Factors, Factor!Commit(r)
    PROVE  LET q == attempt[r] IN
           /\ q.op # "none" /\ account' \in Factor!Accounts
           /\ account'.enabled  = (IF q.write.enabled # q.loaded.enabled
                                   THEN q.write.enabled ELSE account.enabled)
           /\ account'.secret   = (IF q.write.secret # q.loaded.secret
                                   THEN q.write.secret ELSE account.secret)
           /\ account'.step     = (IF q.write.step # q.loaded.step
                                   THEN q.write.step ELSE account.step)
           /\ account'.recovery = (IF q.write.recovery # q.loaded.recovery
                                   THEN q.write.recovery ELSE account.recovery)
           /\ ~collided' =>
                 /\ q.write.enabled # q.loaded.enabled => account.enabled = q.loaded.enabled
                 /\ q.write.secret # q.loaded.secret => account.secret = q.loaded.secret
                 /\ q.write.step # q.loaded.step => account.step = q.loaded.step
                 /\ q.write.recovery # q.loaded.recovery => account.recovery = q.loaded.recovery
                 /\ q.op = "setup" => ~account.enabled
                 /\ q.op = "confirm" => account.secret = q.loaded.secret
<1> DEFINE q == attempt[r]
           Col(f) == IF q.write[f] # q.loaded[f] THEN q.write[f] ELSE account[f]
<1>1. account \in Factor!Accounts /\ q.loaded \in Factor!Accounts /\ q.write \in Factor!Accounts
    BY DEF Factor!TypeOK
<1>2. DOMAIN account = {"enabled", "secret", "step", "recovery"}
    BY <1>1 DEF Factor!Accounts
<1>3. /\ q.op # "none"
      /\ account' = [c \in DOMAIN account |->
                        IF c \in Factor!Written(q) THEN q.write[c] ELSE account[c]]
      /\ collided' = (collided \/ Factor!Crosses(q))
    BY DEF Factor!Commit
<1>4. account' = [enabled |-> Col("enabled"), secret |-> Col("secret"),
                  step |-> Col("step"), recovery |-> Col("recovery")]
    BY <1>2, <1>3 DEF Factor!Written
<1>5. /\ Col("enabled") \in BOOLEAN /\ Col("secret") \in 0 .. NSecrets
      /\ Col("step") \in 0 .. MaxStep + 1
      /\ Col("recovery") \in SUBSET UNION {Factor!Recovery(b) : b \in 1 .. NBatches}
    BY <1>1 DEF Factor!Accounts
<1>6. account' \in Factor!Accounts
    BY <1>4, <1>5 DEF Factor!Accounts
<1>7. ASSUME ~collided'
      PROVE  /\ \A f \in {"enabled", "secret", "step", "recovery"} :
                    q.write[f] # q.loaded[f] => account[f] = q.loaded[f]
             /\ q.op = "setup" => ~account.enabled
             /\ q.op = "confirm" => account.secret = q.loaded.secret
    BY <1>2, <1>3, <1>7 DEF Factor!Crosses, Factor!Written
<1> QED BY <1>3, <1>4, <1>6, <1>7

\* No code is of secret 0.
LEMMA ZeroIsNoSecret == ASSUME secrets \in Nat PROVE \A n : Factor!Totp(0, n) \notin Made
<1> SUFFICES ASSUME NEW n PROVE Factor!Totp(0, n) \notin Made
    OBVIOUS
<1>1. \A s \in 1 .. secrets, m \in 0 .. MaxStep + 1 : Factor!Totp(0, n) # Factor!Totp(s, m)
    BY CodesDiffer
<1> QED BY <1>1, CodesDiffer DEF Made

\* What a commit of request r has to leave for the others.
Leaves(r) ==
    /\ RowSound(account') /\ account'.secret <= secrets /\ account'.recovery \subseteq Made
    /\ \A k \in Factors \ {r} :
          /\ attempt[k].op = "setup" => account'.secret # attempt[k].write.secret
          /\ attempt[k].op = "confirm" => attempt[k].write.recovery \cap account'.recovery = {}
          /\ /\ attempt[k].op # "none" /\ account'.secret = attempt[k].loaded.secret
             /\ attempt[k].loaded.secret # 0
             => /\ attempt[k].loaded.enabled
                      => account'.enabled /\ account'.recovery \subseteq attempt[k].loaded.recovery
                /\ ~attempt[k].loaded.enabled /\ ~account'.enabled
                      => account'.step >= attempt[k].loaded.step
    /\ account'.recovery \cap used' = {}
    /\ \A n \in 0 .. MaxStep + 1 : Factor!Totp(account'.secret, n) \in used'
          => account'.enabled /\ n <= account'.step
    /\ told'.codes \subseteq UNION {Factor!Recovery(b) : b \in 1 .. NBatches}
    /\ account'.enabled => account'.secret = told'.secret
                           /\ account'.recovery = told'.codes \ used'

\* A commit that does not cross leaves it: one case for each kind of request.
LEMMA CommitLeaves ==
    ASSUME FactorInv, ~collided, NEW r \in Factors, Factor!Commit(r), ~collided'
    PROVE  Leaves(r)
<1> DEFINE q == attempt[r]
           AllRecovery == UNION {Factor!Recovery(b) : b \in 1 .. NBatches}
<1>1. /\ Factor!TypeOK /\ ~replayed
      /\ \A k \in Factors : Asking(attempt[k]) /\ RowSound(attempt[k].loaded)
      /\ RowSound(account) /\ MadeByNow /\ NewSecrets /\ NewCodes /\ SameSecret /\ UsedIsPast
      /\ told.codes \subseteq AllRecovery
      /\ account.enabled => account.secret = told.secret /\ account.recovery = told.codes \ used
    BY DEF FactorInv
<1>2. /\ secrets \in Nat /\ MaxStep \in Nat
      /\ account \in Factor!Accounts /\ account.secret \in Nat /\ account.step \in Nat
      /\ account.enabled \in BOOLEAN /\ account.recovery \subseteq AllRecovery
      /\ account.secret <= secrets /\ account.recovery \subseteq Made
      /\ used \subseteq Made \ {Factor!None}
    BY <1>1, FactorTypes DEF Factor!TypeOK, MadeByNow, Factor!Accounts
<1>3. \A k \in Factors :
          /\ attempt[k].loaded \in Factor!Accounts /\ attempt[k].write \in Factor!Accounts
          /\ attempt[k].loaded.secret \in Nat /\ attempt[k].write.secret \in Nat
          /\ attempt[k].loaded.step \in Nat /\ attempt[k].write.step \in Nat
          /\ attempt[k].loaded.enabled \in BOOLEAN
          /\ attempt[k].loaded.recovery \subseteq AllRecovery
          /\ attempt[k].write.recovery \subseteq AllRecovery
          /\ attempt[k].write.secret <= secrets /\ attempt[k].write.recovery \subseteq Made
          /\ attempt[k].code \in Made
  <2>1. \A k \in Factors :
            attempt[k].loaded \in Factor!Accounts /\ attempt[k].write \in Factor!Accounts
      BY <1>1 DEF Factor!TypeOK
  <2> QED BY <1>1, <2>1, FactorTypes DEF MadeByNow, Factor!Accounts
<1>4. /\ q.op # "none"
      /\ account'.enabled  = (IF q.write.enabled # q.loaded.enabled
                              THEN q.write.enabled ELSE account.enabled)
      /\ account'.secret   = (IF q.write.secret # q.loaded.secret
                              THEN q.write.secret ELSE account.secret)
      /\ account'.step     = (IF q.write.step # q.loaded.step
                              THEN q.write.step ELSE account.step)
      /\ account'.recovery = (IF q.write.recovery # q.loaded.recovery
                              THEN q.write.recovery ELSE account.recovery)
      /\ q.write.enabled # q.loaded.enabled => account.enabled = q.loaded.enabled
      /\ q.write.secret # q.loaded.secret => account.secret = q.loaded.secret
      /\ q.write.step # q.loaded.step => account.step = q.loaded.step
      /\ q.write.recovery # q.loaded.recovery => account.recovery = q.loaded.recovery
      /\ q.op = "setup" => ~account.enabled
      /\ q.op = "confirm" => account.secret = q.loaded.secret
    BY <1>1, CommitColumns
<1>5. /\ used' = used \cup ({q.code} \ {Factor!None})
      /\ told' = IF q.op = "confirm"
                 THEN [secret |-> q.loaded.secret, codes |-> q.write.recovery] ELSE told
    BY DEF Factor!Commit
<1>6. Asking(q) /\ RowSound(q.loaded)
    BY <1>1
<1>7. \A k \in Factors :
          /\ attempt[k].op = "setup" => /\ account.secret # attempt[k].write.secret
                                        /\ attempt[k].write.secret # 0
          /\ attempt[k].op = "confirm" => attempt[k].write.recovery \cap account.recovery = {}
    BY <1>1 DEF Asking, NewSecrets, NewCodes
<1>8. \A k \in Factors :
          attempt[k].op # "none" /\ account.secret = attempt[k].loaded.secret
          /\ attempt[k].loaded.secret # 0
             => /\ attempt[k].loaded.enabled
                      => account.enabled /\ account.recovery \subseteq attempt[k].loaded.recovery
                /\ ~attempt[k].loaded.enabled /\ ~account.enabled
                      => account.step >= attempt[k].loaded.step
    BY <1>1 DEF SameSecret
<1>9. /\ account.recovery \cap used = {}
      /\ \A n \in 0 .. MaxStep + 1 : Factor!Totp(account.secret, n) \in used
            => account.enabled /\ n <= account.step
    BY <1>1 DEF UsedIsPast
<1>10. \A c \in AllRecovery : c # Factor!None /\ \A s, n : c # Factor!Totp(s, n)
    BY RecoveryCodes
<1> HIDE DEF q, AllRecovery
<1>11. CASE q.op = "setup"
  <2>1. /\ ~q.loaded.enabled /\ q.code = Factor!None
        /\ q.write.secret \notin {0, q.loaded.secret}
        /\ q.write.enabled = q.loaded.enabled /\ q.write.step = q.loaded.step
        /\ q.write.recovery = q.loaded.recovery
    <3>1. q.write = [q.loaded EXCEPT !.secret = q.write.secret]
        BY <1>6, <1>11 DEF Asking
    <3>2. q.loaded \in Factor!Accounts
        BY <1>3 DEF q
    <3>3. q.write.enabled = q.loaded.enabled /\ q.write.step = q.loaded.step
          /\ q.write.recovery = q.loaded.recovery
        BY <3>1, <3>2 DEF Factor!Accounts
    <3> QED BY <1>6, <1>11, <3>3 DEF Asking
  <2>2. /\ ~account.enabled /\ account'.enabled = account.enabled /\ account'.step = account.step
        /\ account'.recovery = account.recovery /\ account'.secret = q.write.secret
        /\ used' = used /\ told' = told
      BY <1>4, <1>5, <1>11, <2>1
  <2>3. /\ \A n \in 0 .. MaxStep + 1 : Factor!Totp(q.write.secret, n) \notin used
        /\ \A k \in Factors \ {r} :
              /\ attempt[k].loaded.secret # q.write.secret
              /\ attempt[k].op = "setup" => attempt[k].write.secret # q.write.secret
      BY <1>1, <1>11 DEF NewSecrets, q
  <2>4. RowSound(account')
      BY <1>1, <2>2 DEF RowSound
  <2>5. q.write.secret <= secrets
      BY <1>3 DEF q
  <2> QED BY <1>1, <1>2, <1>7, <1>9, <2>2, <2>3, <2>4, <2>5 DEF Leaves, AllRecovery
<1>12. CASE q.op = "confirm"
  <2>1. /\ ~q.loaded.enabled /\ q.loaded.secret # 0 /\ q.write.enabled
        /\ q.code = Factor!Totp(q.loaded.secret, q.write.step)
        /\ q.write.secret = q.loaded.secret
    <3>1. q.write = [q.loaded EXCEPT !.enabled = TRUE, !.recovery = q.write.recovery,
                                     !.step = q.write.step]
        BY <1>6, <1>12 DEF Asking
    <3>2. q.loaded \in Factor!Accounts
        BY <1>3 DEF q
    <3>3. q.write.enabled /\ q.write.secret = q.loaded.secret
        BY <3>1, <3>2 DEF Factor!Accounts
    <3> QED BY <1>6, <1>12, <3>3 DEF Asking
  <2>2. /\ ~account.enabled /\ account'.enabled /\ account'.secret = account.secret
        /\ account.secret = q.loaded.secret
      BY <1>4, <1>12, <2>1
  <2>3. account'.recovery = q.write.recovery
    <3>1. account.recovery = {} /\ q.loaded.recovery = {}
        BY <1>1, <1>6, <2>1, <2>2 DEF RowSound
    <3> QED BY <1>4, <3>1
  <2>4. account'.step >= q.write.step
    <3>1. account.step >= q.loaded.step
        BY <1>8, <1>12, <2>1, <2>2 DEF q
    <3>2. q.write.step \in Nat /\ q.loaded.step \in Nat
        BY <1>3 DEF q
    <3> QED BY <1>2, <1>4, <3>1, <3>2
  <2>5. /\ q.write.recovery \cap used = {} /\ q.write.recovery \subseteq Made
        /\ q.write.recovery \subseteq AllRecovery
        /\ \A k \in Factors \ {r} : attempt[k].op = "confirm"
              => q.write.recovery \cap attempt[k].write.recovery = {}
      BY <1>1, <1>3, <1>12 DEF NewCodes, q
  <2>6. q.write.recovery \cap used' = {}
      BY <1>5, <1>10, <2>1, <2>5
  <2>7. \A n \in 0 .. MaxStep + 1 : Factor!Totp(account'.secret, n) \in used'
            => account'.enabled /\ n <= account'.step
    <3> SUFFICES ASSUME NEW n \in 0 .. MaxStep + 1, Factor!Totp(account.secret, n) \in used'
                 PROVE  n <= account'.step
        BY <2>2
    <3>1. Factor!Totp(account.secret, n) \notin used
        BY <1>9, <2>2
    <3>2. Factor!Totp(account.secret, n) = Factor!Totp(q.loaded.secret, q.write.step)
        BY <1>5, <2>1, <3>1
    <3>3. n = q.write.step
        BY <3>2, CodesDiffer
    <3> QED BY <2>4, <3>3
  <2>8. told' = [secret |-> q.loaded.secret, codes |-> q.write.recovery]
      BY <1>5, <1>12
  <2>9. \A k \in Factors \ {r} :
            attempt[k].op # "none" /\ account'.secret = attempt[k].loaded.secret
            /\ attempt[k].loaded.secret # 0 => ~attempt[k].loaded.enabled
      BY <1>8, <2>2
  <2>10. RowSound(account')
      BY <2>1, <2>2 DEF RowSound
  <2> QED BY <1>2, <1>7, <2>2, <2>3, <2>5, <2>6, <2>7, <2>8, <2>9, <2>10 DEF Leaves, AllRecovery
<1>13. CASE /\ q.op = "verify" /\ q.loaded.enabled
            /\ q.code = Factor!Totp(q.loaded.secret, q.write.step)
            /\ q.write.step > q.loaded.step
            /\ q.write = [q.loaded EXCEPT !.step = q.write.step]
  <2>1. /\ q.write.enabled = q.loaded.enabled /\ q.write.secret = q.loaded.secret
        /\ q.write.recovery = q.loaded.recovery
        /\ q.write.step \in Nat /\ q.loaded.step \in Nat /\ q.loaded \in Factor!Accounts
    <3>1. q.loaded \in Factor!Accounts /\ q.write.step \in Nat /\ q.loaded.step \in Nat
        BY <1>3 DEF q
    <3> QED BY <1>13, <3>1 DEF Factor!Accounts
  <2>2. /\ account'.enabled = account.enabled /\ account'.secret = account.secret
        /\ account'.recovery = account.recovery /\ account'.step = q.write.step
        /\ account.step = q.loaded.step /\ account'.step > account.step /\ account'.step \in Nat
        /\ told' = told
      BY <1>4, <1>5, <1>13, <2>1
  <2>3. q.loaded.secret # 0
      BY <1>6, <1>13 DEF RowSound
  <2>4. account.secret = q.loaded.secret => account.enabled
      BY <1>8, <1>13, <2>3 DEF q
  <2>5. account'.recovery \cap used' = {} /\ told'.codes \ used' = told.codes \ used
      BY <1>1, <1>2, <1>5, <1>9, <1>10, <1>13, <2>2
  <2>6. \A n \in 0 .. MaxStep + 1 : Factor!Totp(account'.secret, n) \in used'
            => account'.enabled /\ n <= account'.step
    <3> SUFFICES ASSUME NEW n \in 0 .. MaxStep + 1, Factor!Totp(account.secret, n) \in used'
                 PROVE  account.enabled /\ n <= account'.step
        BY <2>2
    <3>1. CASE Factor!Totp(account.secret, n) \in used
      <4>1. account.enabled /\ n <= account.step
          BY <1>9, <3>1
      <4> QED BY <1>2, <2>2, <4>1
    <3>2. CASE Factor!Totp(account.secret, n) = Factor!Totp(q.loaded.secret, q.write.step)
      <4>1. account.secret = q.loaded.secret /\ n = q.write.step
          BY <3>2, CodesDiffer
      <4> QED BY <2>2, <2>4, <4>1
    <3> QED BY <1>5, <1>13, <3>1, <3>2
  <2>7. \A k \in Factors \ {r} :
            attempt[k].op # "none" /\ account'.secret = attempt[k].loaded.secret
            /\ attempt[k].loaded.secret # 0
               => /\ attempt[k].loaded.enabled
                        => account'.enabled /\ account'.recovery \subseteq attempt[k].loaded.recovery
                  /\ ~attempt[k].loaded.enabled /\ ~account'.enabled
                        => account'.step >= attempt[k].loaded.step
      BY <1>2, <1>3, <1>8, <2>2
  <2>8. RowSound(account')
      BY <1>1, <2>2 DEF RowSound
  <2> QED BY <1>1, <1>2, <1>7, <2>2, <2>5, <2>6, <2>7, <2>8 DEF Leaves, AllRecovery
<1>14. CASE /\ q.op = "verify" /\ q.loaded.enabled /\ q.code \in q.loaded.recovery
            /\ q.write = [q.loaded EXCEPT !.recovery = @ \ {q.code}]
  <2>1. /\ q.write.enabled = q.loaded.enabled /\ q.write.secret = q.loaded.secret
        /\ q.write.step = q.loaded.step /\ q.write.recovery = q.loaded.recovery \ {q.code}
    <3>1. q.loaded \in Factor!Accounts
        BY <1>3 DEF q
    <3> QED BY <1>14, <3>1 DEF Factor!Accounts
  <2>2. q.write.recovery # q.loaded.recovery
      BY <1>14, <2>1
  <2>3. /\ account'.enabled = account.enabled /\ account'.secret = account.secret
        /\ account'.step = account.step /\ account.recovery = q.loaded.recovery
        /\ account'.recovery = account.recovery \ {q.code} /\ told' = told
      BY <1>4, <1>5, <1>14, <2>1, <2>2
  <2>4. q.code \in AllRecovery /\ used' = used \cup {q.code}
      BY <1>2, <1>5, <1>10, <1>14, <2>3
  <2>5. account.enabled
      BY <1>1, <1>2, <1>14, <2>3 DEF RowSound
  <2>6. RowSound(account')
      BY <1>1, <2>3, <2>5 DEF RowSound
  <2>7. \A n : Factor!Totp(account.secret, n) \in used' => Factor!Totp(account.secret, n) \in used
      BY <1>10, <2>4
  <2>8. /\ account'.recovery \cap used' = {}
        /\ account'.enabled => account'.recovery = told'.codes \ used'
      BY <1>1, <1>9, <2>3, <2>4
  <2>9. \A k \in Factors \ {r} :
            attempt[k].op = "confirm" => attempt[k].write.recovery \cap account'.recovery = {}
      BY <1>7, <2>3
  <2>10. \A n \in 0 .. MaxStep + 1 : Factor!Totp(account'.secret, n) \in used'
             => account'.enabled /\ n <= account'.step
      BY <1>9, <2>3, <2>7
  <2>11. \A k \in Factors \ {r} :
            attempt[k].op # "none" /\ account'.secret = attempt[k].loaded.secret
            /\ attempt[k].loaded.secret # 0
               => /\ attempt[k].loaded.enabled
                        => account'.enabled /\ account'.recovery \subseteq attempt[k].loaded.recovery
                  /\ ~attempt[k].loaded.enabled /\ ~account'.enabled
                        => account'.step >= attempt[k].loaded.step
      BY <1>8, <2>3
  <2> QED BY <1>1, <1>2, <1>7, <2>3, <2>6, <2>8, <2>9, <2>10, <2>11 DEF Leaves, AllRecovery
<1>15. CASE q.op = "disable"
  <2>1. /\ q.loaded.enabled /\ ~q.write.enabled /\ q.write.secret = 0 /\ q.write.recovery = {}
        /\ q.loaded.secret # 0 /\ q.write.step = q.loaded.step
    <3>1. q.loaded.enabled
          /\ q.write = [q.loaded EXCEPT !.enabled = FALSE, !.secret = 0, !.recovery = {}]
        BY <1>6, <1>15 DEF Asking
    <3>2. q.loaded \in Factor!Accounts
        BY <1>3 DEF q
    <3>3. /\ ~q.write.enabled /\ q.write.secret = 0 /\ q.write.recovery = {}
          /\ q.write.step = q.loaded.step
        BY <3>1, <3>2 DEF Factor!Accounts
    <3> QED BY <1>6, <3>1, <3>3 DEF RowSound
  <2>2. /\ account.enabled /\ ~account'.enabled /\ account'.secret = 0
        /\ account.secret = q.loaded.secret /\ told' = told
      BY <1>4, <1>5, <1>15, <2>1
  <2>3. account'.recovery = {}
    <3>1. account.recovery \subseteq q.loaded.recovery
        BY <1>4, <1>8, <2>1, <2>2 DEF q
    <3> QED BY <1>4, <2>1, <3>1
  <2>4. \A n : Factor!Totp(0, n) \notin used'
    <3>1. q.code \in Made
        BY <1>3 DEF q
    <3>2. used' \subseteq Made
        BY <1>2, <1>5, <3>1
    <3> QED BY <1>2, <3>2, ZeroIsNoSecret
  <2>5. RowSound(account')
      BY <2>2, <2>3 DEF RowSound
  <2> QED BY <1>1, <1>2, <1>7, <2>2, <2>3, <2>4, <2>5 DEF Leaves, AllRecovery
<1> QED BY <1>4, <1>6, <1>11, <1>12, <1>13, <1>14, <1>15 DEF Asking

\* What is idle asks for nothing, and was loaded with nothing.
LEMMA IdleAsksNothing ==
    /\ Asking(Factor!Idle) /\ RowSound(Factor!Idle.loaded)
    /\ Factor!Idle.op = "none" /\ Factor!Idle.code = Factor!None
    /\ Factor!Idle.loaded = Factor!Empty /\ Factor!Idle.write = Factor!Empty
    /\ Factor!Empty.secret = 0 /\ Factor!Empty.recovery = {}
BY DEF Asking, RowSound, Factor!Idle, Factor!Empty

\* An idle request is one of the requests of the type.
LEMMA IdleIsTyped ==
    ASSUME Factor!StepsAssumption
    PROVE  /\ Factor!Empty \in Factor!Accounts
           /\ Factor!Idle \in [op : {"none", "setup", "confirm", "verify", "disable"},
                               loaded : Factor!Accounts, write : Factor!Accounts,
                               code : Factor!AnyCode]
<1>1. Factor!Empty \in Factor!Accounts
    BY DEF Factor!Empty, Factor!Accounts, Factor!StepsAssumption
<1> QED BY <1>1 DEF Factor!Idle, Factor!AnyCode

(***************************************************************************)
(* A commit keeps the types, whether or not it crosses, and everything     *)
(* else if it does not.                                                    *)
(***************************************************************************)
LEMMA CommitKept ==
    ASSUME FactorInv, ~collided, NEW r \in Factors, Factor!Commit(r)
    PROVE  FactorInv'
<1> DEFINE q == attempt[r]
           AllRecovery == UNION {Factor!Recovery(b) : b \in 1 .. NBatches}
<1>1. /\ Factor!TypeOK /\ ~replayed
      /\ \A k \in Factors : Asking(attempt[k]) /\ RowSound(attempt[k].loaded)
      /\ MadeByNow /\ NewSecrets /\ NewCodes
    BY DEF FactorInv
<1>2. /\ used' = used \cup ({q.code} \ {Factor!None})
      /\ told' = IF q.op = "confirm"
                 THEN [secret |-> q.loaded.secret, codes |-> q.write.recovery] ELSE told
      /\ attempt' = [attempt EXCEPT ![r] = Factor!Idle]
      /\ collided' = (collided \/ Factor!Crosses(q))
      /\ UNCHANGED <<timestep, secrets, batches, replayed>>
    BY DEF Factor!Commit
<1>3. attempt'[r] = Factor!Idle /\ \A k \in Factors \ {r} : attempt'[k] = attempt[k]
    BY <1>1, <1>2 DEF Factor!TypeOK
<1>4. Made' = Made
    BY <1>2 DEF Made
<1>5. Factor!StepsAssumption
    BY Assumptions
<1>6. \A k \in Factors :
          /\ attempt[k].loaded \in Factor!Accounts /\ attempt[k].write \in Factor!Accounts
          /\ attempt[k].code \in Factor!AnyCode
    BY <1>1 DEF Factor!TypeOK
<1>7. /\ secrets \in Nat /\ Factor!None \in Made
      /\ q.code \in Made /\ used \subseteq Made \ {Factor!None}
    BY <1>1, FactorTypes DEF MadeByNow, Made
<1>8. Factor!TypeOK'
  <2>1. account' \in Factor!Accounts
      BY <1>1, CommitColumns
  <2>2. attempt' \in [Factors -> [op : {"none", "setup", "confirm", "verify", "disable"},
                                  loaded : Factor!Accounts, write : Factor!Accounts,
                                  code : Factor!AnyCode]]
      BY <1>1, <1>2, <1>5, IdleIsTyped DEF Factor!TypeOK
  <2>3. used' \subseteq Factor!AnyCode
      BY <1>1, <1>2, <1>6 DEF Factor!TypeOK
  <2>4. told'.secret \in 0 .. NSecrets /\ told'.codes \subseteq Factor!AnyCode
    <3>1. CASE q.op = "confirm"
        BY <1>2, <1>6, <3>1 DEF Factor!Accounts, Factor!AnyCode
    <3>2. CASE q.op # "confirm"
        BY <1>1, <1>2, <3>2 DEF Factor!TypeOK
    <3> QED BY <3>1, <3>2
  <2>5. {replayed', collided'} \subseteq BOOLEAN
      BY <1>1, <1>2 DEF Factor!TypeOK, Factor!Crosses
  <2> QED BY <1>1, <1>2, <2>1, <2>2, <2>3, <2>4, <2>5 DEF Factor!TypeOK
<1>9. ~replayed'
    BY <1>1, <1>2
<1> HIDE DEF q
<1>10. ASSUME ~collided'
       PROVE  /\ \A k \in Factors : Asking(attempt'[k]) /\ RowSound(attempt'[k].loaded)
              /\ RowSound(account') /\ MadeByNow' /\ NewSecrets' /\ NewCodes' /\ SameSecret'
              /\ UsedIsPast' /\ told'.codes \subseteq AllRecovery
              /\ account'.enabled => account'.secret = told'.secret
                                     /\ account'.recovery = told'.codes \ used'
  <2>1. Leaves(r)
      BY <1>10, CommitLeaves
  <2>2. MadeByNow'
    <3>1. used' \subseteq Made' \ {Factor!None}
        BY <1>2, <1>4, <1>7
    <3>2. /\ Factor!Idle.code \in Made' /\ Factor!Idle.loaded.secret <= secrets'
          /\ Factor!Idle.loaded.recovery \subseteq Made'
          /\ Factor!Idle.write.secret <= secrets' /\ Factor!Idle.write.recovery \subseteq Made'
        BY <1>2, <1>4, <1>7, IdleAsksNothing
    <3>3. account'.secret <= secrets' /\ account'.recovery \subseteq Made'
        BY <1>2, <1>4, <2>1 DEF Leaves
    <3>4. \A k \in Factors \ {r} :
              /\ attempt[k].code \in Made' /\ attempt[k].loaded.secret <= secrets'
              /\ attempt[k].loaded.recovery \subseteq Made'
              /\ attempt[k].write.secret <= secrets' /\ attempt[k].write.recovery \subseteq Made'
        BY <1>1, <1>2, <1>4 DEF MadeByNow
    <3> QED BY <1>3, <3>1, <3>2, <3>3, <3>4 DEF MadeByNow
  <2>3. NewSecrets'
    <3>1. ASSUME NEW k \in Factors \ {r}, attempt[k].op = "setup"
          PROVE  /\ account'.secret # attempt[k].write.secret
                 /\ \A n \in 0 .. MaxStep + 1 :
                       Factor!Totp(attempt[k].write.secret, n) \notin used'
                 /\ \A j \in Factors \ {k} :
                       /\ attempt'[j].loaded.secret # attempt[k].write.secret
                       /\ attempt'[j].op = "setup"
                             => attempt'[j].write.secret # attempt[k].write.secret
                       /\ \A n \in 0 .. MaxStep + 1 :
                             attempt'[j].code # Factor!Totp(attempt[k].write.secret, n)
      <4>1. attempt[k].write.secret # 0
          BY <1>1, <3>1 DEF Asking
      <4>2. account'.secret # attempt[k].write.secret
          BY <2>1, <3>1 DEF Leaves
      <4>3. \A n \in 0 .. MaxStep + 1 : Factor!Totp(attempt[k].write.secret, n) \notin used'
          BY <1>1, <1>2, <3>1 DEF NewSecrets, q
      <4>4. /\ Factor!Idle.loaded.secret # attempt[k].write.secret
            /\ Factor!Idle.op # "setup"
            /\ \A n : Factor!Idle.code # Factor!Totp(attempt[k].write.secret, n)
          BY <4>1, CodesDiffer, IdleAsksNothing
      <4>5. \A j \in Factors \ {k, r} :
                /\ attempt[j].loaded.secret # attempt[k].write.secret
                /\ attempt[j].op = "setup" => attempt[j].write.secret # attempt[k].write.secret
                /\ \A n \in 0 .. MaxStep + 1 :
                      attempt[j].code # Factor!Totp(attempt[k].write.secret, n)
          BY <1>1, <3>1 DEF NewSecrets
      <4> QED BY <1>3, <4>2, <4>3, <4>4, <4>5
    <3> QED BY <1>3, <3>1, IdleAsksNothing DEF NewSecrets
  <2>4. NewCodes'
    <3>1. ASSUME NEW k \in Factors \ {r}, attempt[k].op = "confirm"
          PROVE  /\ attempt[k].write.recovery \cap account'.recovery = {}
                 /\ attempt[k].write.recovery \cap used' = {}
                 /\ \A j \in Factors \ {k} :
                       /\ attempt'[j].code \notin attempt[k].write.recovery
                       /\ attempt'[j].op = "confirm"
                             => attempt[k].write.recovery \cap attempt'[j].write.recovery = {}
      <4>1. attempt[k].write.recovery \cap account'.recovery = {}
          BY <2>1, <3>1 DEF Leaves
      <4>2. attempt[k].write.recovery \cap used' = {}
          BY <1>1, <1>2, <3>1 DEF NewCodes, q
      <4>3. Factor!None \notin attempt[k].write.recovery
          BY <1>6, RecoveryCodes DEF Factor!Accounts
      <4>4. \A j \in Factors \ {k, r} :
                /\ attempt[j].code \notin attempt[k].write.recovery
                /\ attempt[j].op = "confirm"
                      => attempt[k].write.recovery \cap attempt[j].write.recovery = {}
          BY <1>1, <3>1 DEF NewCodes
      <4> QED BY <1>3, <4>1, <4>2, <4>3, <4>4, IdleAsksNothing
    <3> QED BY <1>3, <3>1, IdleAsksNothing DEF NewCodes
  <2>5. SameSecret'
    <3>1. \A k \in Factors \ {r} :
              attempt[k].op # "none" /\ account'.secret = attempt[k].loaded.secret
              /\ attempt[k].loaded.secret # 0
                 => /\ attempt[k].loaded.enabled
                          => account'.enabled
                             /\ account'.recovery \subseteq attempt[k].loaded.recovery
                    /\ ~attempt[k].loaded.enabled /\ ~account'.enabled
                          => account'.step >= attempt[k].loaded.step
        BY <2>1 DEF Leaves
    <3> QED BY <1>3, <3>1, IdleAsksNothing DEF SameSecret
  <2>6. UsedIsPast'
      BY <2>1 DEF Leaves, UsedIsPast
  <2>7. \A k \in Factors : Asking(attempt'[k]) /\ RowSound(attempt'[k].loaded)
      BY <1>1, <1>3, IdleAsksNothing
  <2>8. /\ RowSound(account') /\ told'.codes \subseteq AllRecovery
        /\ account'.enabled => account'.secret = told'.secret
                               /\ account'.recovery = told'.codes \ used'
      BY <2>1 DEF Leaves
  <2> QED BY <2>2, <2>3, <2>4, <2>5, <2>6, <2>7, <2>8
<1> QED BY <1>8, <1>9, <1>10 DEF FactorInv

\* Every step of the requests for one account keeps the invariant.
LEMMA FactorKept == ASSUME FactorInv, [Factor!Next]_(Factor!factorVars) PROVE FactorInv'
<1>1. CASE Factor!Tick /\ ~collided
  <2>1. /\ timestep < MaxStep /\ timestep' = timestep + 1
        /\ UNCHANGED <<account, attempt, secrets, batches, used, told, replayed, collided>>
      BY <1>1 DEF Factor!Tick
  <2>2. Factor!TypeOK /\ MaxStep \in Nat
      BY FactorTypes DEF FactorInv
  <2>3. timestep' \in 1 .. MaxStep
      BY <2>1, <2>2 DEF Factor!TypeOK
  <2>4. Factor!TypeOK'
      BY <2>1, <2>2, <2>3 DEF Factor!TypeOK
  <2> QED BY <2>1, <2>4 DEF FactorInv, MadeByNow, Made, NewSecrets, NewCodes, SameSecret,
                            UsedIsPast
<1>2. CASE UNCHANGED Factor!factorVars
    BY <1>2 DEF Factor!factorVars, FactorInv, Factor!TypeOK, MadeByNow, Made, NewSecrets,
                NewCodes, SameSecret, UsedIsPast
<1>3. CASE Factor!Next
    BY <1>1, <1>3, RequestsKept, CommitKept DEF Factor!Next
<1> QED BY <1>2, <1>3

\* Nothing has been made, and nobody asks, in the initial state.
LEMMA FactorInit == Factor!Init => FactorInv
<1> SUFFICES ASSUME Factor!Init PROVE FactorInv
    OBVIOUS
<1>1. Factor!StepsAssumption
    BY Assumptions
<1>2. /\ account = Factor!Empty /\ attempt = [r \in Factors |-> Factor!Idle]
      /\ timestep = 1 /\ secrets = 0 /\ batches = 0
      /\ used = {} /\ told = [secret |-> 0, codes |-> {}]
      /\ replayed = FALSE /\ collided = FALSE
    BY DEF Factor!Init
<1>3. Factor!TypeOK
  <2>1. told.secret = 0 /\ told.codes = {}
      BY <1>2
  <2>2. /\ 1 \in 1 .. MaxStep /\ 0 \in 0 .. NSecrets /\ 0 \in 0 .. NBatches
      BY <1>1 DEF Factor!StepsAssumption
  <2>3. account \in Factor!Accounts
      BY <1>1, <1>2, IdleIsTyped
  <2>4. attempt \in [Factors -> [op : {"none", "setup", "confirm", "verify", "disable"},
                                 loaded : Factor!Accounts, write : Factor!Accounts,
                                 code : Factor!AnyCode]]
      BY <1>1, <1>2, IdleIsTyped
  <2> QED BY <1>2, <2>1, <2>2, <2>3, <2>4 DEF Factor!TypeOK
<1>4. Factor!None \in Made
    BY DEF Made
<1>5. account.enabled = FALSE /\ account.secret = 0 /\ account.recovery = {}
    BY <1>2 DEF Factor!Empty
<1>6. RowSound(account)
    BY <1>5 DEF RowSound
<1>7. MadeByNow
    BY <1>2, <1>4, <1>5, IdleAsksNothing DEF MadeByNow
<1> QED BY <1>2, <1>3, <1>5, <1>6, <1>7, IdleAsksNothing
        DEF FactorInv, NewSecrets, NewCodes, SameSecret, UsedIsPast

\* What the invariant says of the codes and of the factor that is on.
LEMMA FactorHolds == FactorInv => Factor!TypeOK /\ Factor!UsedOnce /\ Factor!FactorIsHers
BY DEF FactorInv, Factor!UsedOnce, Factor!FactorIsHers

-----------------------------------------------------------------------------
(* An account's sessions: the versions they and the challenges carry.      *)

\* A version in the account, in a session, in a challenge or in a request is at
\* most the number of endings that are finished.
VersionsCounted ==
    LET most == Cardinality(Account!Ended) IN
    /\ version <= most
    /\ \A e \in Endings : ending[e].at = "loaded" => ending[e].version <= most

(***************************************************************************)
(* Unless two endings were in progress at once: the one that is in         *)
(* progress writes the version after the present one, so what carries the  *)
(* present version was made after every finished ending had begun, and     *)
(* nothing carries a later one.                                            *)
(***************************************************************************)
PresentIsLast ==
    /\ \A e, k \in Endings : ending[e].at = "loaded" /\ ending[k].at = "loaded" => e = k
    /\ \A e \in Endings : ending[e].at = "loaded" => ending[e].version = version
    /\ \A t \in sessions :
          /\ t.version <= version
          /\ t.version = version => Account!Ended \subseteq t.since /\ ~t.late
    /\ \A s \in SignIns :
          /\ signin[s].version <= version /\ ~signin[s].late
          /\ signin[s].at = "challenged" /\ signin[s].version = version
                => Account!Ended \subseteq signin[s].asked

SessionInv ==
    /\ Account!TypeOK /\ VersionsCounted
    /\ ~raced => PresentIsLast

\* The endings are finitely many, and those that are finished are counted.
LEMMA EndedCounts ==
    ASSUME Account!TypeOK
    PROVE  /\ IsFiniteSet(Endings) /\ IsFiniteSet(Account!Ended)
           /\ Cardinality(Endings) \in Nat /\ Cardinality(Account!Ended) \in Nat
           /\ Cardinality(Account!Ended) <= Cardinality(Endings)
           /\ Account!Versions = 0 .. Cardinality(Endings)
<1>1. IsFiniteSet(Endings)
    BY Assumptions DEF Account!EndingsAssumption, Account!IsFiniteSet, IsFiniteSet
<1>2. Account!Ended \subseteq Endings
    BY DEF Account!Ended
<1>3. Account!Cardinality(Endings) = Cardinality(Endings)
    BY DEF Account!Cardinality, Cardinality
<1>4. /\ IsFiniteSet(Account!Ended) /\ Cardinality(Account!Ended) \in Nat
      /\ Cardinality(Endings) \in Nat
      /\ Cardinality(Account!Ended) <= Cardinality(Endings)
    BY <1>1, <1>2, FS_Subset, FS_CardinalityType
<1> QED BY <1>1, <1>3, <1>4 DEF Account!Versions

\* One ending more is finished.
LEMMA OneMoreEnded ==
    ASSUME IsFiniteSet(Endings), NEW S, S \subseteq Endings, NEW e \in Endings, e \notin S,
           NEW T, T = S \cup {e}
    PROVE  Cardinality(T) = Cardinality(S) + 1 /\ Cardinality(S) \in Nat
                /\ Cardinality(T) <= Cardinality(Endings)
<1>1. IsFiniteSet(S) /\ Cardinality(S) \in Nat
    BY FS_Subset, FS_CardinalityType
<1>2. Cardinality(T) = Cardinality(S) + 1
    BY <1>1, FS_AddElement
<1>3. T \subseteq Endings
    OBVIOUS
<1> QED BY <1>1, <1>2, <1>3, FS_Subset

\* Every step of the requests for one account keeps it.
LEMMA SessionKept ==
    ASSUME SessionInv, [Account!Next]_(Account!sessionVars)
    PROVE  SessionInv'
<1> DEFINE Sessions == [version : Account!Versions, since : SUBSET Endings, late : BOOLEAN]
           SignIn == [at : {"idle", "checked", "challenged", "answered"},
                      version : Account!Versions, asked : SUBSET Endings, late : BOOLEAN]
           Ending == [at : {"new", "loaded", "done"}, kind : Account!Kinds,
                      version : Account!Versions]
<1>1. /\ version \in Account!Versions /\ enabled \in BOOLEAN /\ raced \in BOOLEAN
      /\ sessions \subseteq Sessions /\ signin \in [SignIns -> SignIn]
      /\ ending \in [Endings -> Ending]
    BY DEF SessionInv, Account!TypeOK
<1>2. PICK n \in Nat : n = Cardinality(Endings) /\ Account!Versions = 0 .. n
    BY EndedCounts DEF SessionInv
<1>3. IsFiniteSet(Endings) /\ Cardinality(Account!Ended) \in Nat
    BY EndedCounts DEF SessionInv
<1>4. Account!Ended \subseteq Account!Begun /\ Account!Begun \in SUBSET Endings
    BY DEF Account!Ended, Account!Begun
<1>5. /\ Account!NoSignIn \in SignIn /\ Account!NoSignIn.at = "idle"
      /\ Account!NoSignIn.version = 0 /\ Account!NoSignIn.late = FALSE
      /\ Account!NoSignIn.asked = {}
    BY <1>2 DEF Account!NoSignIn
<1>6. ASSUME UNCHANGED ending PROVE UNCHANGED <<Account!Ended, Account!Begun>>
    BY <1>6 DEF Account!Ended, Account!Begun
<1>7. ASSUME NEW s \in SignIns, NEW to \in SignIn, signin' = [signin EXCEPT ![s] = to],
             UNCHANGED <<version, enabled, ending, raced>>, sessions' \subseteq Sessions,
             ~raced /\ PresentIsLast =>
                 /\ to.version <= version /\ ~to.late
                 /\ to.at = "challenged" /\ to.version = version => Account!Ended \subseteq to.asked
                 /\ \A t \in sessions' :
                       /\ t.version <= version
                       /\ t.version = version => Account!Ended \subseteq t.since /\ ~t.late
      PROVE  SessionInv'
  <2>1. signin' \in [SignIns -> SignIn] /\ signin'[s] = to
        /\ \A k \in SignIns : k # s => signin'[k] = signin[k]
      BY <1>1, <1>7
  <2>2. Account!TypeOK'
      BY <1>1, <1>7, <2>1 DEF Account!TypeOK, Account!Versions
  <2>3. VersionsCounted'
      BY <1>6, <1>7 DEF SessionInv, VersionsCounted
  <2>4. ASSUME ~raced' PROVE PresentIsLast'
      BY <1>6, <1>7, <2>1, <2>4 DEF SessionInv, PresentIsLast
  <2> QED BY <2>2, <2>3, <2>4 DEF SessionInv
<1>8. ASSUME NEW s \in SignIns, Account!CheckPassword(s) PROVE SessionInv'
  <2>1. /\ signin' = [signin EXCEPT ![s] = [signin[s] EXCEPT !.at = "checked"]]
        /\ UNCHANGED <<version, enabled, sessions, ending, raced>>
      BY <1>1, <1>8 DEF Account!CheckPassword
  <2>2. PICK to : to = [signin[s] EXCEPT !.at = "checked"]
      OBVIOUS
  <2>3. to \in SignIn /\ to.at = "checked" /\ to.version = signin[s].version
        /\ to.late = signin[s].late
      BY <1>1, <2>2
  <2> QED BY <1>1, <1>7, <2>1, <2>2, <2>3 DEF PresentIsLast
<1>9. ASSUME NEW s \in SignIns, Account!Challenge(s) PROVE SessionInv'
  <2>1. PICK to : to = [at |-> "challenged", version |-> version, asked |-> Account!Begun,
                        late |-> FALSE]
      OBVIOUS
  <2>2. /\ signin' = [signin EXCEPT ![s] = to]
        /\ UNCHANGED <<version, enabled, sessions, ending, raced>>
      BY <1>9, <2>1 DEF Account!Challenge
  <2>3. to \in SignIn /\ to.version = version /\ ~to.late /\ to.asked = Account!Begun
      BY <1>1, <1>4, <2>1
  <2>4. to.version <= version
      BY <1>1, <1>2, <2>3
  <2> QED BY <1>1, <1>4, <1>7, <2>2, <2>3, <2>4 DEF PresentIsLast
<1>10. ASSUME NEW s \in SignIns, Account!AnswerChallenge(s) PROVE SessionInv'
  <2>1. /\ signin[s].at = "challenged"
        /\ signin' = [signin EXCEPT ![s] =
               IF enabled /\ signin[s].version = version
               THEN [Account!NoSignIn EXCEPT !.at = "answered",
                                             !.late = ~(Account!Ended \subseteq signin[s].asked)]
               ELSE Account!NoSignIn]
        /\ UNCHANGED <<version, enabled, sessions, ending, raced>>
      BY <1>10 DEF Account!AnswerChallenge
  <2>2. 0 <= version /\ 0 \in Account!Versions
      BY <1>1, <1>2
  <2>3. CASE enabled /\ signin[s].version = version
    <3>1. PICK l \in BOOLEAN : l = ~(Account!Ended \subseteq signin[s].asked)
        OBVIOUS
    <3>2. PICK to : to = [at |-> "answered", version |-> 0, asked |-> {}, late |-> l]
        OBVIOUS
    <3>3. signin' = [signin EXCEPT ![s] = to]
      <4>1. [Account!NoSignIn EXCEPT !.at = "answered", !.late = l] = to
        <5>1. PICK u \in SignIn : u = Account!NoSignIn /\ u.version = 0 /\ u.asked = {}
            BY <1>5
        <5> DEFINE w == [u EXCEPT !.at = "answered"]
        <5>2. w = [at |-> "answered", version |-> 0, asked |-> {}, late |-> u.late]
            BY <5>1
        <5> HIDE DEF w
        <5>3. [w EXCEPT !.late = l] = to
            BY <3>2, <5>2
        <5> QED BY <5>1, <5>3 DEF w
      <4> QED BY <2>1, <2>3, <3>1, <4>1, Zenon
    <3>4. to \in SignIn /\ to.version = 0 /\ to.at = "answered" /\ to.late = l
        BY <2>2, <3>2
    <3>5. ~raced /\ PresentIsLast => ~l
        BY <2>1, <2>3, <3>1 DEF PresentIsLast
    <3> QED BY <1>1, <1>7, <2>1, <2>2, <3>3, <3>4, <3>5 DEF PresentIsLast
  <2>4. CASE ~(enabled /\ signin[s].version = version)
    <3>1. signin' = [signin EXCEPT ![s] = Account!NoSignIn]
        BY <2>1, <2>4
    <3> QED BY <1>1, <1>5, <1>7, <2>1, <2>2, <3>1 DEF PresentIsLast
  <2> QED BY <2>3, <2>4
<1>11. ASSUME NEW s \in SignIns, Account!MintSession(s) PROVE SessionInv'
  <2>1. PICK t : t = [version |-> version, since |-> Account!Begun, late |-> signin[s].late]
      OBVIOUS
  <2>2. /\ sessions' = sessions \cup {t} /\ signin' = [signin EXCEPT ![s] = Account!NoSignIn]
        /\ UNCHANGED <<version, enabled, ending, raced>>
      BY <1>11, <2>1 DEF Account!MintSession
  <2>3. t \in Sessions /\ t.version = version /\ t.since = Account!Begun
        /\ t.late = signin[s].late
      BY <1>1, <1>4, <2>1
  <2>4. 0 <= version /\ version <= version
      BY <1>1, <1>2
  <2>5. sessions' \subseteq Sessions
      BY <1>1, <2>2, <2>3
  <2>6. ~raced /\ PresentIsLast =>
            \A x \in sessions' :
               /\ x.version <= version
               /\ x.version = version => Account!Ended \subseteq x.since /\ ~x.late
      BY <1>4, <2>2, <2>3, <2>4 DEF PresentIsLast
  <2> QED BY <1>5, <1>7, <2>2, <2>4, <2>5, <2>6
<1>12. ASSUME NEW e \in Endings, NEW kind \in Account!Kinds, Account!LoadAccount(e, kind)
       PROVE  SessionInv'
  <2>1. PICK to : to = [at |-> "loaded", kind |-> kind, version |-> version]
      OBVIOUS
  <2>2. /\ ending[e].at = "new" /\ ending' = [ending EXCEPT ![e] = to]
        /\ raced' = (raced \/ \E k \in Endings : ending[k].at = "loaded")
        /\ UNCHANGED <<version, enabled, sessions, signin>>
      BY <1>12, <2>1 DEF Account!LoadAccount
  <2>3. to \in Ending /\ to.at = "loaded" /\ to.version = version
      BY <1>1, <2>1
  <2>4. /\ ending' \in [Endings -> Ending] /\ ending'[e] = to
        /\ \A k \in Endings : k # e => ending'[k] = ending[k]
      BY <1>1, <2>2, <2>3
  <2>5. Account!Ended' = Account!Ended
      BY <2>2, <2>3, <2>4 DEF Account!Ended
  <2>6. raced' \in BOOLEAN
      BY <2>2
  <2>7. Account!TypeOK'
      BY <1>1, <2>2, <2>4, <2>6 DEF Account!TypeOK, Account!Versions
  <2>8. VersionsCounted'
      BY <2>2, <2>3, <2>4, <2>5 DEF SessionInv, VersionsCounted
  <2>9. ASSUME ~raced' PROVE PresentIsLast'
    <3>1. ~raced /\ \A k \in Endings : ending[k].at # "loaded"
        BY <2>2, <2>9
    <3>2. \A k \in Endings : ending'[k].at = "loaded" => k = e
        BY <2>4, <3>1
    <3> QED BY <2>2, <2>3, <2>4, <2>5, <3>1, <3>2 DEF SessionInv, PresentIsLast
  <2> QED BY <2>7, <2>8, <2>9 DEF SessionInv
<1>13. ASSUME NEW e \in Endings, Account!EndSessions(e) PROVE SessionInv'
  <2>1. PICK to : to = [at |-> "done", kind |-> "logout", version |-> 0]
      OBVIOUS
  <2>2. PICK t : t = [version |-> version', since |-> Account!Begun, late |-> FALSE]
      OBVIOUS
  <2>3. /\ ending[e].at = "loaded" /\ ending' = [ending EXCEPT ![e] = to]
        /\ version' = ending[e].version + 1
        /\ enabled' = (enabled /\ ending[e].kind # "deactivate")
        /\ sessions' = IF ending[e].kind = "mfa off" THEN sessions \cup {t} ELSE sessions
        /\ UNCHANGED <<signin, raced>>
      BY <1>13, <2>1, <2>2 DEF Account!EndSessions
  <2>4. ending[e] \in Ending
      BY <1>1
  <2>5. PICK v : v = ending[e].version
      OBVIOUS
  <2>6. v \in 0 .. n
      BY <1>2, <2>4, <2>5
  <2>7. /\ Account!Ended \subseteq Endings /\ e \notin Account!Ended
      BY <2>3 DEF Account!Ended
  <2>8. to \in Ending /\ to.at = "done" /\ to.version = 0
      BY <1>2, <2>1 DEF Account!Kinds
  <2>9. /\ ending' \in [Endings -> Ending] /\ ending'[e] = to
        /\ \A k \in Endings : k # e => ending'[k] = ending[k]
      BY <1>1, <2>3, <2>8
  <2>10. Account!Ended' = Account!Ended \cup {e}
      BY <2>8, <2>9 DEF Account!Ended
  <2>11. PICK a, b \in Nat : a = Cardinality(Account!Ended) /\ b = Cardinality(Account!Ended')
                             /\ b = a + 1 /\ b <= n
    <3>1. Account!Ended' \subseteq Endings
        BY <2>7, <2>10
    <3>2. /\ Cardinality(Account!Ended') = Cardinality(Account!Ended) + 1
          /\ Cardinality(Account!Ended') <= Cardinality(Endings)
        BY <1>3, <2>7, <2>10, OneMoreEnded
    <3> QED BY <1>2, <1>3, <3>2
  <2>12. v <= a
      BY <2>3, <2>5, <2>11 DEF SessionInv, VersionsCounted
  <2>13. version' = v + 1 /\ version' \in 0 .. n /\ version' <= b /\ version' <= version'
    <3>1. v + 1 \in 0 .. n /\ v + 1 <= b /\ v + 1 <= v + 1
        BY <2>6, <2>11, <2>12
    <3> QED BY <2>3, <2>5, <3>1
  <2>14. t \in Sessions /\ t.version = version' /\ t.since = Account!Begun /\ ~t.late
      BY <1>2, <1>4, <2>2, <2>13
  <2>15. Account!TypeOK'
    <3>1. sessions' \subseteq Sessions /\ version' \in Account!Versions /\ enabled' \in BOOLEAN
        BY <1>1, <1>2, <2>3, <2>13, <2>14
    <3> QED BY <1>1, <2>3, <2>9, <3>1 DEF Account!TypeOK, Account!Versions
  <2>16. VersionsCounted'
    <3>1. ASSUME NEW k \in Endings, ending'[k].at = "loaded" PROVE ending'[k].version <= b
      <4>1. k # e /\ ending'[k] = ending[k]
          BY <2>8, <2>9, <3>1
      <4>2. ending[k] \in Ending /\ ending[k].version <= a
          BY <1>1, <2>11, <3>1, <4>1 DEF SessionInv, VersionsCounted
      <4>3. ending[k].version \in 0 .. n
          BY <1>2, <4>2
      <4> QED BY <2>11, <4>1, <4>2, <4>3
    <3> QED BY <2>11, <2>13, <3>1 DEF VersionsCounted
  <2>17. ASSUME ~raced' PROVE PresentIsLast'
    <3>1. ~raced /\ PresentIsLast
        BY <2>3, <2>17 DEF SessionInv
    <3>2. v = version /\ \A k \in Endings : ending[k].at = "loaded" => k = e
        BY <2>3, <2>5, <3>1 DEF PresentIsLast
    <3>3. \A k \in Endings : ending'[k].at # "loaded"
        BY <2>8, <2>9, <3>2
    <3>4. Account!Ended' \subseteq Account!Begun
        BY <1>4, <2>3, <2>10 DEF Account!Begun
    <3>5. ASSUME NEW x \in sessions
          PROVE  x.version <= version' /\ x.version # version'
      <4>1. x.version \in 0 .. n /\ x.version <= version
          BY <1>1, <1>2, <3>1 DEF PresentIsLast
      <4> QED BY <2>6, <2>13, <3>2, <4>1
    <3>6. \A x \in sessions' :
             /\ x.version <= version'
             /\ x.version = version' => Account!Ended' \subseteq x.since /\ ~x.late
        BY <2>3, <2>13, <2>14, <3>4, <3>5
    <3>7. ASSUME NEW s \in SignIns
          PROVE  signin'[s].version <= version' /\ ~signin'[s].late /\ signin'[s].version # version'
      <4>1. PICK u : u = signin[s].version
          OBVIOUS
      <4>2. u \in 0 .. n /\ u <= v /\ ~signin[s].late
          BY <1>1, <1>2, <3>1, <3>2, <4>1 DEF PresentIsLast
      <4>3. u <= v + 1 /\ u # v + 1
          BY <2>6, <4>2
      <4> QED BY <2>3, <2>13, <4>1, <4>2, <4>3
    <3> QED BY <3>3, <3>6, <3>7 DEF PresentIsLast
  <2> QED BY <2>15, <2>16, <2>17 DEF SessionInv
<1>14. CASE Account!Reactivate \/ UNCHANGED Account!sessionVars
  <2>1. /\ enabled' \in BOOLEAN /\ UNCHANGED <<version, sessions, signin, ending, raced>>
      BY <1>1, <1>14 DEF Account!Reactivate, Account!sessionVars
  <2>2. Account!TypeOK'
      BY <1>1, <2>1 DEF Account!TypeOK, Account!Versions
  <2> QED BY <1>6, <2>1, <2>2 DEF SessionInv, VersionsCounted, PresentIsLast
<1> QED BY <1>8, <1>9, <1>10, <1>11, <1>12, <1>13, <1>14 DEF Account!Next

\* No session has been made, and nothing ends one, in the initial state.
LEMMA SessionInit == Account!Init => SessionInv
<1> SUFFICES ASSUME Account!Init PROVE SessionInv
    OBVIOUS
<1>1. /\ version = 0 /\ enabled = TRUE /\ sessions = {}
      /\ signin = [s \in SignIns |-> [at |-> "idle", version |-> 0, asked |-> {}, late |-> FALSE]]
      /\ ending = [e \in Endings |-> [at |-> "new", kind |-> "logout", version |-> 0]]
      /\ raced = FALSE
    BY DEF Account!Init, Account!NoSignIn
<1>2. Account!Ended = {}
    BY <1>1 DEF Account!Ended
<1>3. 0 \in Account!Versions
  <2>1. IsFiniteSet(Endings) /\ Account!Cardinality(Endings) = Cardinality(Endings)
      BY Assumptions DEF Account!EndingsAssumption, Account!IsFiniteSet, IsFiniteSet,
                         Account!Cardinality, Cardinality
  <2>2. Cardinality(Endings) \in Nat
      BY <2>1, FS_CardinalityType
  <2> QED BY <2>1, <2>2 DEF Account!Versions
<1>4. Account!TypeOK
    BY <1>1, <1>3 DEF Account!TypeOK, Account!Kinds
<1>5. Cardinality(Account!Ended) = 0
    BY <1>2, FS_EmptySet
<1>6. VersionsCounted
    BY <1>1, <1>5 DEF VersionsCounted
<1>7. PresentIsLast
    BY <1>1, <1>2 DEF PresentIsLast
<1> QED BY <1>4, <1>6, <1>7 DEF SessionInv

\* What carries the present version was made after every finished ending had begun.
LEMMA SessionHolds == SessionInv => Account!SessionsEnd
BY DEF SessionInv, PresentIsLast, Account!SessionsEnd, Account!Works, Account!TypeOK

-----------------------------------------------------------------------------
(* A person's capture keys: what the requests in flight have found.        *)

KeyRows == [actor : Capture!Addresses, active : BOOLEAN, token : 1 .. MaxRequests]
Connecting == [at : {"idle", "loaded", "found"}, kind : Capture!Kinds, email : 0 .. NAddresses,
               found : SUBSET (1 .. MaxKeys), to : 0 .. NAddresses, number : 0 .. MaxRequests,
               late : BOOLEAN]

\* The active keys, and the requests of some kinds that are in flight.
ActiveKeys == {k \in DOMAIN captured : captured[k].active}
InFlight(kinds) == {h \in Connects : device[h].at # "idle" /\ device[h].kind \in kinds}

CaptureTypes ==
    /\ captured \in Seq(KeyRows) /\ device \in [Connects -> Connecting]
    /\ \A h \in Connects :
          device[h].at # "idle" => /\ device[h].email # 0 /\ device[h].number # 0
                                   /\ device[h].kind = "rename" => device[h].to # 0

\* A connect stores what it found, which is active unless a deactivation came between,
\* so the token handed out last is an active key's.
LastIsActive ==
    /\ \A h \in InFlight({"connect"}) :
          device[h].at = "found" /\ ~device[h].late => device[h].found \subseteq ActiveKeys
    /\ handed # 0 /\ ~spoilt => \E k \in ActiveKeys : captured[k].token = handed

\* Unless a rename overlapped, the active keys are at the account's address, which is the
\* one that a connect or a rename loaded, and a rename is alone and found them all.
KeysAtAddress ==
    /\ \A k \in ActiveKeys : captured[k].actor = address
    /\ \A h \in InFlight({"connect", "rename"}) : device[h].email = address
    /\ \A h \in InFlight({"rename"}), g \in InFlight({"connect", "rename"}) : g = h
    /\ \A h \in InFlight({"rename"}) :
          device[h].at = "found" => ActiveKeys \subseteq device[h].found

\* Unless two connects overlapped either, there is one active key at most, and none when
\* the connect in flight found none.
OneActive ==
    /\ \A k, i \in ActiveKeys : k = i
    /\ \A h \in InFlight({"connect"}) :
          device[h].at = "found" /\ device[h].found = {} => ActiveKeys = {}

CaptureInv ==
    /\ Capture!TypeOK /\ CaptureTypes /\ LastIsActive
    /\ ~astray => KeysAtAddress
    /\ ~twice => \A h, g \in InFlight({"connect"}) : g = h
    /\ ~twice /\ ~astray => OneActive

\* The rows, the columns of the requests and the bounds.
LEMMA CaptureColumns ==
    ASSUME CaptureInv
    PROVE  /\ address \in Capture!Addresses /\ live \in BOOLEAN
           /\ handed \in 0 .. MaxRequests /\ connects \in 0 .. MaxRequests
           /\ spoilt \in BOOLEAN /\ twice \in BOOLEAN /\ astray \in BOOLEAN
           /\ NAddresses \in Nat /\ MaxKeys \in Nat /\ MaxRequests \in Nat
           /\ IsFiniteSet(Connects)
           /\ Len(captured) \in 0 .. MaxKeys /\ DOMAIN captured = 1 .. Len(captured)
           /\ \A k \in DOMAIN captured : captured[k] \in KeyRows /\ k \in 1 .. MaxKeys
           /\ 0 \in 0 .. MaxRequests /\ 0 \in 0 .. NAddresses
<1>1. Capture!TypeOK /\ captured \in Seq(KeyRows)
    BY DEF CaptureInv, CaptureTypes
<1>2. NAddresses \in Nat /\ MaxKeys \in Nat /\ MaxRequests \in Nat /\ IsFiniteSet(Connects)
    BY Assumptions DEF Capture!KeysAssumption, Capture!IsFiniteSet, IsFiniteSet
<1>3. Len(captured) \in Nat /\ DOMAIN captured = 1 .. Len(captured)
    BY <1>1
<1>4. Len(captured) <= MaxKeys
    BY <1>1 DEF Capture!TypeOK
<1>5. ASSUME NEW k \in DOMAIN captured PROVE captured[k] \in KeyRows /\ k \in 1 .. MaxKeys
    BY <1>1, <1>2, <1>3, <1>4, <1>5
<1> QED BY <1>1, <1>2, <1>3, <1>4, <1>5 DEF Capture!TypeOK

\* An idle request.
LEMMA IdleConnect ==
    ASSUME NAddresses \in Nat, MaxRequests \in Nat
    PROVE  Capture!Idle \in Connecting /\ Capture!Idle.at = "idle"
BY DEF Capture!Idle, Connecting, Capture!Kinds

\* The rows keep their number, and each its activity: what stays true of the requests.
LEMMA SameActive ==
    ASSUME DOMAIN captured' = DOMAIN captured,
           \A k \in DOMAIN captured : captured'[k].active = captured[k].active
    PROVE  ActiveKeys' = ActiveKeys
BY DEF ActiveKeys

\* Loading the account.
LEMMA LoadKeeps ==
    ASSUME CaptureInv, NEW h \in Connects, NEW kind \in Capture!Kinds, Capture!Load(h, kind)
    PROVE  CaptureInv'
<1>1. /\ address \in Capture!Addresses /\ live \in BOOLEAN
      /\ handed \in 0 .. MaxRequests /\ connects \in 0 .. MaxRequests
      /\ spoilt \in BOOLEAN /\ twice \in BOOLEAN /\ astray \in BOOLEAN
      /\ NAddresses \in Nat /\ MaxKeys \in Nat /\ MaxRequests \in Nat /\ IsFiniteSet(Connects)
      /\ Len(captured) <= MaxKeys
    BY CaptureColumns
<1>2. PICK r \in Nat : r = Capture!Cardinality(Capture!Under("rename"))
  <2>1. IsFiniteSet(Capture!Under("rename"))
      BY <1>1, FS_Subset DEF Capture!Under
  <2>2. Cardinality(Capture!Under("rename")) \in Nat
      BY <2>1, FS_CardinalityType
  <2>3. Capture!Cardinality(Capture!Under("rename")) = Cardinality(Capture!Under("rename"))
      BY DEF Capture!Cardinality, Cardinality
  <2> QED BY <2>2, <2>3
<1>3. PICK d : d = IF kind = "rename" THEN address + r + 1 ELSE 0
    OBVIOUS
<1>4. PICK to : to = [at |-> "loaded", kind |-> kind, email |-> address, found |-> {}, to |-> d,
                      number |-> connects + 1, late |-> FALSE]
    OBVIOUS
<1>5. /\ device[h].at = "idle" /\ connects < MaxRequests
      /\ kind = "rename" => address + r < NAddresses
      /\ connects' = connects + 1 /\ device' = [device EXCEPT ![h] = to]
      /\ twice' = (twice \/ (kind = "connect" /\ Capture!Under("connect") # {}))
      /\ astray' = (astray \/ (kind = "connect" /\ Capture!Under("rename") # {})
                           \/ (kind = "rename" /\ Capture!Under("rename")
                                                      \cup Capture!Under("connect") # {}))
      /\ UNCHANGED <<address, live, captured, handed, spoilt>>
    BY <1>2, <1>3, <1>4 DEF Capture!Load
<1>6. address \in Nat /\ address # 0 /\ address \in 0 .. NAddresses
    BY <1>1 DEF Capture!Addresses
<1>7. d \in 0 .. NAddresses /\ (kind = "rename" => d # 0)
    BY <1>1, <1>2, <1>3, <1>5, <1>6
<1>8. connects' \in 0 .. MaxRequests /\ connects' # 0
    BY <1>1, <1>5
<1>9. /\ to \in Connecting /\ to.at = "loaded" /\ to.kind = kind /\ to.email = address
      /\ to.number # 0 /\ to.to = d
  <2>1. PICK n \in 0 .. MaxRequests : n = connects + 1 /\ n # 0
      BY <1>5, <1>8
  <2> QED BY <1>4, <1>6, <1>7, <2>1 DEF Connecting
<1>10. /\ device' \in [Connects -> Connecting] /\ device'[h] = to
       /\ \A g \in Connects : g # h => device'[g] = device[g]
    BY <1>5, <1>9 DEF CaptureInv, CaptureTypes
<1>11. CaptureTypes'
  <2>1. \A g \in Connects : device'[g].at # "idle" =>
            /\ device'[g].email # 0 /\ device'[g].number # 0
            /\ device'[g].kind = "rename" => device'[g].to # 0
      BY <1>6, <1>7, <1>9, <1>10 DEF CaptureInv, CaptureTypes
  <2> QED BY <1>5, <1>10, <2>1 DEF CaptureInv, CaptureTypes
<1>12. twice' \in BOOLEAN /\ astray' \in BOOLEAN
    BY <1>5
<1>13. Capture!TypeOK'
  <2>1. /\ address' \in Capture!Addresses /\ live' \in BOOLEAN /\ Len(captured') <= MaxKeys
        /\ handed' \in 0 .. MaxRequests /\ spoilt' \in BOOLEAN
      BY <1>1, <1>5
  <2>2. \A k \in DOMAIN captured' : captured'[k] \in KeyRows
      BY <1>11 DEF CaptureTypes
  <2> QED BY <1>8, <1>10, <1>12, <2>1, <2>2 DEF Capture!TypeOK, KeyRows, Connecting
<1>14. ActiveKeys' = ActiveKeys
    BY <1>5 DEF ActiveKeys
<1>15. \A K : \A g \in Connects : g \in InFlight(K)' <=>
                  IF g = h THEN kind \in K ELSE g \in InFlight(K)
    BY <1>9, <1>10 DEF InFlight
<1>16. \A K : InFlight(K) \subseteq Connects /\ InFlight(K)' \subseteq Connects /\ h \notin InFlight(K)
    BY <1>5 DEF InFlight
<1>17. /\ Capture!Under("rename") = InFlight({"rename"})
       /\ Capture!Under("connect") = InFlight({"connect"})
       /\ InFlight({"connect", "rename"}) = InFlight({"connect"}) \cup InFlight({"rename"})
    BY DEF Capture!Under, InFlight
<1>18. LastIsActive'
    BY <1>5, <1>9, <1>10, <1>14, <1>15, <1>16 DEF CaptureInv, LastIsActive
<1>19. ASSUME ~astray' PROVE KeysAtAddress'
  <2>1. ~astray /\ KeysAtAddress
      BY <1>5, <1>19 DEF CaptureInv
  <2>2. /\ kind = "connect" => InFlight({"rename"}) = {}
        /\ kind = "rename" => InFlight({"connect", "rename"}) = {}
      BY <1>5, <1>17, <1>19
  <2>3. \A k \in ActiveKeys' : captured'[k].actor = address'
      BY <1>5, <1>14, <2>1 DEF KeysAtAddress
  <2>4. \A g \in InFlight({"connect", "rename"})' : device'[g].email = address'
      BY <1>5, <1>9, <1>10, <1>15, <1>16, <2>1 DEF KeysAtAddress
  <2>5. ASSUME NEW g \in InFlight({"rename"})', NEW i \in InFlight({"connect", "rename"})'
        PROVE  i = g
    <3>1. g \in Connects /\ i \in Connects
        BY <1>16, <2>5
    <3>2. CASE g = h
      <4>1. kind = "rename"
          BY <1>15, <2>5, <3>1, <3>2
      <4> QED BY <1>15, <2>2, <2>5, <3>1, <3>2, <4>1
    <3>3. CASE g # h
      <4>1. g \in InFlight({"rename"}) /\ g \in InFlight({"connect", "rename"})
          BY <1>15, <1>17, <2>5, <3>1, <3>3
      <4>2. kind \notin {"connect", "rename"}
          BY <2>2, <4>1
      <4>3. i \in InFlight({"connect", "rename"})
          BY <1>15, <2>5, <3>1, <4>2
      <4> QED BY <2>1, <4>1, <4>3 DEF KeysAtAddress
    <3> QED BY <3>2, <3>3
  <2>6. \A g \in InFlight({"rename"})' : device'[g].at = "found" => ActiveKeys' \subseteq device'[g].found
      BY <1>9, <1>10, <1>14, <1>15, <1>16, <2>1 DEF KeysAtAddress
  <2> QED BY <2>3, <2>4, <2>5, <2>6 DEF KeysAtAddress
<1>20. ASSUME ~twice' PROVE \A i, g \in InFlight({"connect"})' : g = i
  <2>1. ~twice /\ (kind = "connect" => InFlight({"connect"}) = {})
      BY <1>5, <1>17, <1>20
  <2> QED BY <1>15, <1>16, <2>1 DEF CaptureInv
<1>21. ASSUME ~twice', ~astray' PROVE OneActive'
  <2>1. OneActive
      BY <1>5, <1>21 DEF CaptureInv
  <2> QED BY <1>9, <1>10, <1>14, <1>15, <1>16, <2>1 DEF OneActive
<1> QED BY <1>11, <1>13, <1>18, <1>19, <1>20, <1>21 DEF CaptureInv

\* The statement that reads the keys.
LEMMA FindKeeps == ASSUME CaptureInv, NEW h \in Connects, Capture!Find(h) PROVE CaptureInv'
<1>1. PICK c \in Connecting : c = device[h]
    BY DEF CaptureInv, CaptureTypes
<1>2. PICK ks : ks = Capture!Wanted(c.kind, c.email)
    OBVIOUS
<1>3. PICK to : to = [at |-> "found", kind |-> c.kind, email |-> c.email, found |-> ks,
                      to |-> c.to, number |-> c.number, late |-> c.late]
    OBVIOUS
<1>4. [[c EXCEPT !.at = "found"] EXCEPT !.found = ks] = to
  <2> DEFINE d == [c EXCEPT !.at = "found"]
  <2>1. d = [at |-> "found", kind |-> c.kind, email |-> c.email, found |-> c.found,
             to |-> c.to, number |-> c.number, late |-> c.late]
      BY <1>1 DEF Connecting
  <2> HIDE DEF d
  <2>2. [d EXCEPT !.found = ks] = to
      BY <1>3, <2>1
  <2> QED BY <2>2 DEF d
<1>5. /\ device[h].at = "loaded" /\ device' = [device EXCEPT ![h] = to]
      /\ UNCHANGED <<address, live, captured, handed, spoilt, twice, astray, connects>>
  <2>1. /\ device[h].at = "loaded"
        /\ device' = [device EXCEPT ![h] = [[device[h] EXCEPT !.at = "found"] EXCEPT !.found = ks]]
        /\ UNCHANGED <<address, live, captured, handed, spoilt, twice, astray, connects>>
      BY <1>1, <1>2 DEF Capture!Find, CaptureInv, CaptureTypes
  <2> QED BY <1>1, <1>4, <2>1
<1>6. ks \subseteq Capture!At(c.email) /\ Capture!At(c.email) \subseteq ActiveKeys
    BY <1>2 DEF Capture!Wanted, Capture!Newest, Capture!At, ActiveKeys
<1>7. ActiveKeys \subseteq 1 .. MaxKeys /\ ActiveKeys \subseteq Nat
    BY CaptureColumns DEF ActiveKeys
<1>8. to \in Connecting /\ to.at = "found" /\ to.kind = c.kind /\ to.email = c.email /\ to.found = ks
      /\ to.number = c.number /\ to.to = c.to /\ to.late = c.late
    BY <1>1, <1>3, <1>6, <1>7 DEF Connecting
<1>9. /\ device' \in [Connects -> Connecting] /\ device'[h] = to
      /\ \A g \in Connects : g # h => device'[g] = device[g]
    BY <1>5, <1>8 DEF CaptureInv, CaptureTypes
<1>10. CaptureTypes'
    BY <1>1, <1>5, <1>8, <1>9 DEF CaptureInv, CaptureTypes
<1>11. Capture!TypeOK'
  <2>1. /\ address' \in Capture!Addresses /\ live' \in BOOLEAN /\ Len(captured') <= MaxKeys
        /\ handed' \in 0 .. MaxRequests /\ connects' \in 0 .. MaxRequests
        /\ spoilt' \in BOOLEAN /\ twice' \in BOOLEAN /\ astray' \in BOOLEAN
      BY <1>5, CaptureColumns
  <2>2. \A k \in DOMAIN captured' : captured'[k] \in KeyRows
      BY <1>10 DEF CaptureTypes
  <2> QED BY <1>9, <2>1, <2>2 DEF Capture!TypeOK, KeyRows, Connecting
<1>12. ActiveKeys' = ActiveKeys
    BY <1>5 DEF ActiveKeys
<1>13. \A K : InFlight(K)' = InFlight(K)
    BY <1>1, <1>5, <1>8, <1>9 DEF InFlight
<1>14. \A K : InFlight(K) \subseteq Connects
    BY DEF InFlight
<1>15. LastIsActive'
    BY <1>5, <1>6, <1>8, <1>9, <1>12, <1>13, <1>14 DEF CaptureInv, LastIsActive
<1>16. ASSUME ~astray' PROVE KeysAtAddress'
  <2>1. KeysAtAddress
      BY <1>5, <1>16 DEF CaptureInv
  <2>2. \A g \in InFlight({"connect", "rename"}) : device'[g].email = address'
      BY <1>1, <1>5, <1>8, <1>9, <1>14, <2>1 DEF KeysAtAddress
  <2>3. ASSUME h \in InFlight({"rename"}) PROVE ActiveKeys \subseteq ks
    <3>1. c.kind = "rename" /\ c.email = address
      <4>1. h \in InFlight({"connect", "rename"})
          BY <2>3 DEF InFlight
      <4> QED BY <1>1, <2>1, <2>3, <4>1 DEF InFlight, KeysAtAddress
    <3>2. ks = Capture!At(address)
        BY <1>2, <3>1 DEF Capture!Wanted
    <3> QED BY <2>1, <3>2 DEF KeysAtAddress, ActiveKeys, Capture!At
  <2>4. \A g \in InFlight({"rename"}) : device'[g].at = "found" => ActiveKeys \subseteq device'[g].found
      BY <1>8, <1>9, <1>14, <2>1, <2>3 DEF KeysAtAddress
  <2> QED BY <1>5, <1>12, <1>13, <2>1, <2>2, <2>4 DEF KeysAtAddress
<1>17. ASSUME ~twice', ~astray' PROVE OneActive'
  <2>1. OneActive /\ KeysAtAddress
      BY <1>5, <1>17 DEF CaptureInv
  <2>2. ASSUME h \in InFlight({"connect"}), ks = {} PROVE ActiveKeys = {}
    <3>1. c.kind = "connect" /\ c.email = address
      <4>1. h \in InFlight({"connect", "rename"})
          BY <2>2 DEF InFlight
      <4> QED BY <1>1, <2>1, <2>2, <4>1 DEF InFlight, KeysAtAddress
    <3>2. ks = Capture!Newest(Capture!At(address))
        BY <1>2, <3>1 DEF Capture!Wanted
    <3>3. Capture!At(address) = ActiveKeys
        BY <2>1 DEF KeysAtAddress, ActiveKeys, Capture!At
    <3>4. ASSUME NEW k \in ActiveKeys PROVE FALSE
      <4>1. \A i \in ActiveKeys : i <= k
          BY <1>7, <2>1, <3>4 DEF OneActive
      <4> QED BY <2>2, <3>2, <3>3, <3>4, <4>1 DEF Capture!Newest
    <3> QED BY <3>4
  <2>3. \A g \in InFlight({"connect"}) : device'[g].at = "found" /\ device'[g].found = {} => ActiveKeys = {}
      BY <1>8, <1>9, <1>14, <2>1, <2>2 DEF OneActive
  <2> QED BY <1>12, <1>13, <2>1, <2>3 DEF OneActive
<1> QED BY <1>5, <1>10, <1>11, <1>13, <1>15, <1>16, <1>17 DEF CaptureInv

\* A request that ends leaves the others as they were.
LEMMA RequestEnds ==
    ASSUME CaptureInv, NEW h \in Connects, device' = [device EXCEPT ![h] = Capture!Idle]
    PROVE  /\ device' \in [Connects -> Connecting] /\ device'[h].at = "idle"
           /\ \A g \in Connects : g # h => device'[g] = device[g]
           /\ \A K : InFlight(K)' = InFlight(K) \ {h}
           /\ \A g \in Connects : device'[g].at # "idle" =>
                  /\ device'[g].email # 0 /\ device'[g].number # 0
                  /\ device'[g].kind = "rename" => device'[g].to # 0
<1>1. Capture!Idle \in Connecting /\ Capture!Idle.at = "idle"
    BY IdleConnect, CaptureColumns
<1>2. /\ device' \in [Connects -> Connecting] /\ device'[h] = Capture!Idle
      /\ \A g \in Connects : g # h => device'[g] = device[g]
    BY <1>1 DEF CaptureInv, CaptureTypes
<1>3. \A K : InFlight(K)' = InFlight(K) \ {h}
    BY <1>1, <1>2 DEF InFlight
<1> QED BY <1>1, <1>2, <1>3 DEF CaptureInv, CaptureTypes

\* A connect stores its key.
LEMMA StoreKeeps == ASSUME CaptureInv, NEW h \in Connects, Capture!Store(h) PROVE CaptureInv'
<1>1. PICK c \in Connecting : c = device[h]
    BY DEF CaptureInv, CaptureTypes
<1>2. /\ c.at = "found" /\ c.kind = "connect"
      /\ handed' = c.number /\ spoilt' = c.late
      /\ device' = [device EXCEPT ![h] = Capture!Idle]
      /\ UNCHANGED <<address, live, twice, astray, connects>>
    BY <1>1 DEF Capture!Store
<1>3. PICK n \in 1 .. MaxRequests : n = c.number
  <2>1. c.number # 0
      BY <1>1, <1>2 DEF CaptureInv, CaptureTypes
  <2>2. c.number \in 0 .. MaxRequests
      BY DEF Connecting
  <2>3. c.number \in 1 .. MaxRequests
      BY <2>1, <2>2, CaptureColumns
  <2> QED BY <2>3
<1>4. /\ device' \in [Connects -> Connecting] /\ device'[h].at = "idle"
      /\ \A g \in Connects : g # h => device'[g] = device[g]
      /\ \A K : InFlight(K)' = InFlight(K) \ {h}
      /\ \A g \in Connects : device'[g].at # "idle" =>
             /\ device'[g].email # 0 /\ device'[g].number # 0
             /\ device'[g].kind = "rename" => device'[g].to # 0
    BY <1>2, RequestEnds
<1>5. h \in InFlight({"connect"}) /\ h \in InFlight({"connect", "rename"})
    BY <1>1, <1>2 DEF InFlight
<1>6. \A K : InFlight(K) \subseteq Connects
    BY DEF InFlight
<1>7. DOMAIN captured = 1 .. Len(captured) /\ captured \in Seq(KeyRows) /\ Len(captured) \in Nat
    BY CaptureColumns DEF CaptureInv, CaptureTypes
<1>8. ASSUME captured' \in Seq(KeyRows), Len(captured') <= MaxKeys,
             DOMAIN captured \subseteq DOMAIN captured', ActiveKeys \subseteq ActiveKeys',
             \A k \in ActiveKeys : captured'[k].actor = captured[k].actor,
             ~spoilt' => \E k \in ActiveKeys' : captured'[k].token = n,
             ~astray => \A k \in ActiveKeys' : captured'[k].actor = address,
             ~twice /\ ~astray => \A k, i \in ActiveKeys' : k = i
      PROVE  CaptureInv'
  <2>1. CaptureTypes'
      BY <1>4, <1>8 DEF CaptureTypes
  <2>2. Capture!TypeOK'
    <3>1. /\ address' \in Capture!Addresses /\ live' \in BOOLEAN
          /\ handed' \in 0 .. MaxRequests /\ connects' \in 0 .. MaxRequests
          /\ spoilt' \in BOOLEAN /\ twice' \in BOOLEAN /\ astray' \in BOOLEAN
      <4>1. handed' \in 0 .. MaxRequests
          BY <1>2, <1>3, CaptureColumns
      <4>2. spoilt' \in BOOLEAN
          BY <1>1, <1>2 DEF Connecting
      <4> QED BY <1>2, <4>1, <4>2, CaptureColumns
    <3>2. \A k \in DOMAIN captured' : captured'[k] \in KeyRows
        BY <1>8
    <3> QED BY <1>4, <1>8, <3>1, <3>2 DEF Capture!TypeOK, KeyRows, Connecting
  <2>3. LastIsActive'
    <3>1. \A g \in InFlight({"connect"})' :
             device'[g].at = "found" /\ ~device'[g].late => device'[g].found \subseteq ActiveKeys'
        BY <1>4, <1>6, <1>8 DEF CaptureInv, LastIsActive
    <3> QED BY <1>2, <1>3, <1>8, <3>1 DEF LastIsActive
  <2>4. ASSUME ~astray' PROVE KeysAtAddress'
    <3>1. ~astray /\ KeysAtAddress
        BY <1>2, <2>4 DEF CaptureInv
    <3>2. InFlight({"rename"}) = {}
      <4>1. h \notin InFlight({"rename"})
          BY <1>1, <1>2 DEF InFlight
      <4> QED BY <1>5, <3>1, <4>1 DEF KeysAtAddress
    <3>3. InFlight({"rename"})' = {} /\ InFlight({"connect", "rename"})' \subseteq InFlight({"connect", "rename"})
        BY <1>4, <3>2
    <3>4. \A g \in InFlight({"connect", "rename"})' : device'[g].email = address'
        BY <1>2, <1>4, <1>6, <3>1 DEF KeysAtAddress
    <3> QED BY <1>2, <1>8, <3>1, <3>3, <3>4 DEF KeysAtAddress
  <2>5. ASSUME ~twice' PROVE \A i, g \in InFlight({"connect"})' : g = i
      BY <1>2, <1>4, <2>5 DEF CaptureInv
  <2>6. ASSUME ~twice', ~astray' PROVE OneActive'
    <3>1. InFlight({"connect"})' = {}
        BY <1>2, <1>4, <1>5, <2>6 DEF CaptureInv
    <3> QED BY <1>2, <1>8, <2>6, <3>1 DEF OneActive
  <2> QED BY <2>1, <2>2, <2>3, <2>4, <2>5, <2>6 DEF CaptureInv
<1>9. CASE c.found # {} /\ captured' = [k \in DOMAIN captured |->
               IF k \in c.found THEN [captured[k] EXCEPT !.token = c.number] ELSE captured[k]]
  <2>1. ASSUME NEW k \in DOMAIN captured
        PROVE  /\ captured'[k] \in KeyRows /\ captured'[k].actor = captured[k].actor
               /\ captured'[k].active = captured[k].active
               /\ k \in c.found => captured'[k].token = n
    <3>1. PICK row_ \in KeyRows : row_ = captured[k]
        BY CaptureColumns
    <3>2. /\ [row_ EXCEPT !.token = n] \in KeyRows
          /\ [row_ EXCEPT !.token = n].actor = row_.actor
          /\ [row_ EXCEPT !.token = n].active = row_.active
          /\ [row_ EXCEPT !.token = n].token = n
        BY DEF KeyRows
    <3>3. captured'[k] = IF k \in c.found THEN [row_ EXCEPT !.token = n] ELSE row_
        BY <1>3, <1>9, <3>1
    <3> QED BY <3>1, <3>2, <3>3
  <2>2. DOMAIN captured' = DOMAIN captured
      BY <1>9
  <2>3. captured' \in Seq(KeyRows) /\ Len(captured') = Len(captured)
      BY <1>7, <1>9, <2>1, <2>2
  <2>4. ActiveKeys' = ActiveKeys
      BY <2>1, <2>2 DEF ActiveKeys
  <2>5. ActiveKeys \subseteq DOMAIN captured
      BY DEF ActiveKeys
  <2>6. ~spoilt' => \E k \in ActiveKeys' : captured'[k].token = n
    <3>1. ASSUME ~c.late PROVE c.found \subseteq ActiveKeys
        BY <1>1, <1>2, <1>5, <3>1 DEF CaptureInv, LastIsActive
    <3> QED BY <1>2, <1>9, <2>1, <2>4, <2>5, <3>1
  <2>7. ~astray => \A k \in ActiveKeys' : captured'[k].actor = address
      BY <2>1, <2>4, <2>5 DEF CaptureInv, KeysAtAddress
  <2>8. ~twice /\ ~astray => \A k, i \in ActiveKeys' : k = i
      BY <2>4 DEF CaptureInv, OneActive
  <2>9. Len(captured') <= MaxKeys
      BY <2>3, CaptureColumns
  <2> QED BY <1>8, <2>1, <2>2, <2>3, <2>4, <2>5, <2>6, <2>7, <2>8, <2>9
<1>10. CASE /\ c.found = {} /\ Len(captured) < MaxKeys
            /\ captured' = Append(captured, [actor |-> c.email, active |-> TRUE, token |-> c.number])
  <2>1. PICK e \in Capture!Addresses : e = c.email
    <3>1. c.email \in 0 .. NAddresses /\ c.email # 0
        BY <1>1, <1>2 DEF CaptureInv, CaptureTypes, Connecting
    <3> QED BY <3>1, CaptureColumns DEF Capture!Addresses
  <2>2. PICK row_ \in KeyRows : row_ = [actor |-> e, active |-> TRUE, token |-> n]
      BY DEF KeyRows
  <2>3. row_.actor = e /\ row_.active = TRUE /\ row_.token = n
      BY <2>2
  <2>4. PICK l \in Nat : l = Len(captured) /\ DOMAIN captured = 1 .. l /\ l < MaxKeys
      BY <1>7, <1>10
  <2>5. captured' = Append(captured, row_)
      BY <1>3, <1>10, <2>1, <2>2
  <2>6. /\ captured' \in Seq(KeyRows) /\ Len(captured') = l + 1 /\ DOMAIN captured' = 1 .. l + 1
        /\ captured'[l + 1] = row_ /\ \A k \in 1 .. l : captured'[k] = captured[k]
      BY <1>7, <2>4, <2>5, AppendProperties
  <2>7. ActiveKeys' = ActiveKeys \cup {l + 1} /\ ActiveKeys \subseteq 1 .. l
      BY <2>3, <2>4, <2>6 DEF ActiveKeys
  <2>8. ~astray => \A k \in ActiveKeys' : captured'[k].actor = address
    <3> SUFFICES ASSUME ~astray, NEW k \in ActiveKeys' PROVE captured'[k].actor = address
        OBVIOUS
    <3>1. KeysAtAddress
        BY DEF CaptureInv
    <3>2. e = address
        BY <1>1, <1>5, <2>1, <3>1 DEF KeysAtAddress
    <3> QED BY <2>3, <2>6, <2>7, <3>1, <3>2 DEF KeysAtAddress
  <2>9. ~twice /\ ~astray => \A k, i \in ActiveKeys' : k = i
    <3>1. ASSUME ~twice, ~astray PROVE ActiveKeys = {}
        BY <1>1, <1>2, <1>5, <1>10, <3>1 DEF CaptureInv, OneActive
    <3> QED BY <2>7, <3>1
  <2>10. Len(captured') <= MaxKeys /\ l + 1 \in ActiveKeys'
      BY <2>4, <2>6, <2>7, CaptureColumns
  <2>11. DOMAIN captured \subseteq DOMAIN captured'
      BY <2>4, <2>6
  <2>12. \A k \in ActiveKeys : captured'[k].actor = captured[k].actor
      BY <2>6, <2>7
  <2> QED BY <1>8, <2>3, <2>6, <2>7, <2>8, <2>9, <2>10, <2>11, <2>12
<1> QED BY <1>1, <1>9, <1>10 DEF Capture!Store

\* A rename moves the keys that it found.
LEMMA RenameKeeps == ASSUME CaptureInv, NEW h \in Connects, Capture!Rename(h) PROVE CaptureInv'
<1>1. PICK c \in Connecting : c = device[h]
    BY DEF CaptureInv, CaptureTypes
<1>2. /\ c.at = "found" /\ c.kind = "rename" /\ address' = c.to
      /\ captured' = [k \in DOMAIN captured |->
             IF k \in c.found /\ captured[k].active /\ captured[k].actor = c.email
             THEN [captured[k] EXCEPT !.actor = c.to] ELSE captured[k]]
      /\ device' = [device EXCEPT ![h] = Capture!Idle]
      /\ UNCHANGED <<live, handed, spoilt, twice, astray, connects>>
    BY <1>1 DEF Capture!Rename, Capture!Moved
<1>3. PICK a \in Capture!Addresses : a = c.to
  <2>1. c.to \in 0 .. NAddresses /\ c.to # 0
      BY <1>1, <1>2 DEF CaptureInv, CaptureTypes, Connecting
  <2> QED BY <2>1, CaptureColumns DEF Capture!Addresses
<1>4. /\ device' \in [Connects -> Connecting] /\ device'[h].at = "idle"
      /\ \A g \in Connects : g # h => device'[g] = device[g]
      /\ \A K : InFlight(K)' = InFlight(K) \ {h}
      /\ \A g \in Connects : device'[g].at # "idle" =>
             /\ device'[g].email # 0 /\ device'[g].number # 0
             /\ device'[g].kind = "rename" => device'[g].to # 0
    BY <1>2, RequestEnds
<1>5. h \in InFlight({"rename"}) /\ h \in InFlight({"connect", "rename"})
    BY <1>1, <1>2 DEF InFlight
<1>6. \A K : InFlight(K) \subseteq Connects
    BY DEF InFlight
<1>7. DOMAIN captured = 1 .. Len(captured) /\ captured \in Seq(KeyRows) /\ Len(captured) \in Nat
    BY CaptureColumns DEF CaptureInv, CaptureTypes
<1>8. ASSUME NEW k \in DOMAIN captured
      PROVE  /\ captured'[k] \in KeyRows /\ captured'[k].token = captured[k].token
             /\ captured'[k].active = captured[k].active
             /\ captured'[k].actor = IF k \in c.found /\ captured[k].active /\ captured[k].actor = c.email
                                     THEN a ELSE captured[k].actor
  <2>1. PICK row_ \in KeyRows : row_ = captured[k]
      BY CaptureColumns
  <2>2. /\ [row_ EXCEPT !.actor = a] \in KeyRows
        /\ [row_ EXCEPT !.actor = a].actor = a
        /\ [row_ EXCEPT !.actor = a].active = row_.active
        /\ [row_ EXCEPT !.actor = a].token = row_.token
      BY DEF KeyRows
  <2>3. captured'[k] = IF k \in c.found /\ row_.active /\ row_.actor = c.email
                       THEN [row_ EXCEPT !.actor = a] ELSE row_
      BY <1>2, <1>3, <2>1
  <2> QED BY <2>1, <2>2, <2>3
<1>9. DOMAIN captured' = DOMAIN captured
    BY <1>2
<1>10. captured' \in Seq(KeyRows) /\ Len(captured') = Len(captured)
    BY <1>2, <1>7, <1>8, <1>9
<1>11. ActiveKeys' = ActiveKeys /\ ActiveKeys \subseteq DOMAIN captured
    BY <1>8, <1>9 DEF ActiveKeys
<1>12. CaptureTypes'
    BY <1>4, <1>10 DEF CaptureTypes
<1>13. Capture!TypeOK'
  <2>1. /\ address' \in Capture!Addresses /\ live' \in BOOLEAN /\ Len(captured') <= MaxKeys
        /\ handed' \in 0 .. MaxRequests /\ connects' \in 0 .. MaxRequests
        /\ spoilt' \in BOOLEAN /\ twice' \in BOOLEAN /\ astray' \in BOOLEAN
      BY <1>2, <1>3, <1>10, CaptureColumns
  <2>2. \A k \in DOMAIN captured' : captured'[k] \in KeyRows
      BY <1>8, <1>9
  <2> QED BY <1>4, <2>1, <2>2 DEF Capture!TypeOK, KeyRows, Connecting
<1>14. LastIsActive'
  <2>1. \A g \in InFlight({"connect"})' :
           device'[g].at = "found" /\ ~device'[g].late => device'[g].found \subseteq ActiveKeys'
      BY <1>4, <1>6, <1>11 DEF CaptureInv, LastIsActive
  <2>2. \A k \in ActiveKeys : captured'[k].token = captured[k].token
      BY <1>8, <1>11
  <2> QED BY <1>2, <1>11, <2>1, <2>2 DEF CaptureInv, LastIsActive
<1>15. ASSUME ~astray' PROVE KeysAtAddress'
  <2>1. KeysAtAddress
      BY <1>2, <1>15 DEF CaptureInv
  <2>2. ActiveKeys \subseteq c.found /\ c.email = address
      BY <1>1, <1>2, <1>5, <2>1 DEF KeysAtAddress
  <2>3. InFlight({"connect", "rename"})' = {} /\ InFlight({"rename"})' = {}
    <3>1. InFlight({"rename"}) \subseteq InFlight({"connect", "rename"})
        BY DEF InFlight
    <3> QED BY <1>4, <1>5, <2>1, <3>1 DEF KeysAtAddress
  <2>4. ASSUME NEW k \in ActiveKeys PROVE captured'[k].actor = a
    <3>1. k \in DOMAIN captured /\ captured[k].active /\ captured[k].actor = address
        BY <2>1, <2>4 DEF KeysAtAddress, ActiveKeys
    <3> QED BY <1>8, <2>2, <2>4, <3>1
  <2> QED BY <1>2, <1>3, <1>11, <2>3, <2>4 DEF KeysAtAddress
<1>16. ASSUME ~twice' PROVE \A i, g \in InFlight({"connect"})' : g = i
    BY <1>2, <1>4, <1>16 DEF CaptureInv
<1>17. ASSUME ~twice', ~astray' PROVE OneActive'
  <2>1. OneActive
      BY <1>2, <1>17 DEF CaptureInv
  <2> QED BY <1>4, <1>6, <1>11, <2>1 DEF OneActive
<1> QED BY <1>12, <1>13, <1>14, <1>15, <1>16, <1>17 DEF CaptureInv

\* A deactivation revokes the keys that it found, and spoils the requests in flight.
LEMMA DeactivateKeeps ==
    ASSUME CaptureInv, NEW h \in Connects, Capture!Deactivate(h)
    PROVE  CaptureInv'
<1>1. PICK c \in Connecting : c = device[h]
    BY DEF CaptureInv, CaptureTypes
<1>2. /\ c.at = "found" /\ c.kind = "deactivate" /\ live' = FALSE /\ spoilt' = TRUE
      /\ captured' = [k \in DOMAIN captured |->
             IF k \in c.found THEN [captured[k] EXCEPT !.active = FALSE] ELSE captured[k]]
      /\ device' = [g \in Connects |->
             IF g = h THEN Capture!Idle
             ELSE [device[g] EXCEPT !.late = device[g].at # "idle"]]
      /\ UNCHANGED <<address, handed, twice, astray, connects>>
    BY <1>1 DEF Capture!Deactivate
<1>3. ASSUME NEW g \in Connects, g # h
      PROVE  /\ device'[g] \in Connecting
             /\ device'[g].at = device[g].at /\ device'[g].kind = device[g].kind
             /\ device'[g].email = device[g].email /\ device'[g].found = device[g].found
             /\ device'[g].to = device[g].to /\ device'[g].number = device[g].number
             /\ device[g].at # "idle" => device'[g].late
  <2>1. PICK q \in Connecting : q = device[g]
      BY DEF CaptureInv, CaptureTypes
  <2>2. PICK l \in BOOLEAN : l = (q.at # "idle")
      OBVIOUS
  <2>3. device'[g] = [q EXCEPT !.late = l]
      BY <1>2, <1>3, <2>1, <2>2
  <2>4. [q EXCEPT !.late = l] = [at |-> q.at, kind |-> q.kind, email |-> q.email,
                                 found |-> q.found, to |-> q.to, number |-> q.number, late |-> l]
      BY DEF Connecting
  <2>5. PICK r : r = [at |-> q.at, kind |-> q.kind, email |-> q.email,
                      found |-> q.found, to |-> q.to, number |-> q.number, late |-> l]
      OBVIOUS
  <2>6. /\ r \in Connecting /\ r.at = q.at /\ r.kind = q.kind /\ r.email = q.email
        /\ r.found = q.found /\ r.to = q.to /\ r.number = q.number /\ r.late = l
      BY <2>1, <2>5 DEF Connecting
  <2> QED BY <2>1, <2>2, <2>3, <2>4, <2>5, <2>6
<1>4. Capture!Idle \in Connecting /\ Capture!Idle.at = "idle" /\ device'[h] = Capture!Idle
    BY <1>2, IdleConnect, CaptureColumns
<1>5. device' \in [Connects -> Connecting]
  <2>1. \A g \in Connects : device'[g] \in Connecting
      BY <1>3, <1>4
  <2>2. device' = [g \in Connects |-> device'[g]]
      BY <1>2
  <2> QED BY <2>1, <2>2
<1>6. \A K : InFlight(K)' = InFlight(K) \ {h}
    BY <1>3, <1>4 DEF InFlight
<1>7. \A K : InFlight(K) \subseteq Connects
    BY DEF InFlight
<1>8. ASSUME NEW k \in DOMAIN captured
      PROVE  /\ captured'[k] \in KeyRows /\ captured'[k].actor = captured[k].actor
             /\ captured'[k].active => captured[k].active
  <2>1. PICK row_ \in KeyRows : row_ = captured[k]
      BY CaptureColumns
  <2>2. /\ [row_ EXCEPT !.active = FALSE] \in KeyRows
        /\ [row_ EXCEPT !.active = FALSE].actor = row_.actor
        /\ ~[row_ EXCEPT !.active = FALSE].active
      BY DEF KeyRows
  <2>3. captured'[k] = IF k \in c.found THEN [row_ EXCEPT !.active = FALSE] ELSE row_
      BY <1>2, <2>1
  <2> QED BY <2>1, <2>2, <2>3
<1>9. DOMAIN captured' = DOMAIN captured
    BY <1>2
<1>10. captured' \in Seq(KeyRows) /\ Len(captured') = Len(captured)
  <2>1. DOMAIN captured = 1 .. Len(captured) /\ captured \in Seq(KeyRows) /\ Len(captured) \in Nat
      BY CaptureColumns DEF CaptureInv, CaptureTypes
  <2> QED BY <1>2, <1>8, <1>9, <2>1
<1>11. ActiveKeys' \subseteq ActiveKeys /\ ActiveKeys \subseteq DOMAIN captured
    BY <1>8, <1>9 DEF ActiveKeys
<1>12. CaptureTypes'
  <2>1. \A g \in Connects : device'[g].at # "idle" =>
            /\ device'[g].email # 0 /\ device'[g].number # 0
            /\ device'[g].kind = "rename" => device'[g].to # 0
      BY <1>3, <1>4 DEF CaptureInv, CaptureTypes
  <2> QED BY <1>5, <1>10, <2>1 DEF CaptureTypes
<1>13. Capture!TypeOK'
  <2>1. /\ address' \in Capture!Addresses /\ live' \in BOOLEAN /\ Len(captured') <= MaxKeys
        /\ handed' \in 0 .. MaxRequests /\ connects' \in 0 .. MaxRequests
        /\ spoilt' \in BOOLEAN /\ twice' \in BOOLEAN /\ astray' \in BOOLEAN
    <3>1. live' \in BOOLEAN /\ spoilt' \in BOOLEAN
        BY <1>2
    <3>2. Len(captured') <= MaxKeys
        BY <1>10, CaptureColumns
    <3> QED BY <1>2, <3>1, <3>2, CaptureColumns
  <2>2. \A k \in DOMAIN captured' : captured'[k] \in KeyRows
      BY <1>8, <1>9
  <2> QED BY <1>5, <2>1, <2>2 DEF Capture!TypeOK, KeyRows, Connecting
<1>14. LastIsActive'
  <2>1. ASSUME NEW g \in InFlight({"connect"})' PROVE device'[g].late
    <3>1. g \in Connects /\ g # h /\ device[g].at # "idle"
        BY <1>6, <1>7, <2>1 DEF InFlight
    <3> QED BY <1>3, <3>1
  <2> QED BY <1>2, <2>1 DEF LastIsActive
<1>15. ASSUME ~astray' PROVE KeysAtAddress'
  <2>1. KeysAtAddress
      BY <1>2, <1>15 DEF CaptureInv
  <2>2. \A k \in ActiveKeys' : captured'[k].actor = address'
      BY <1>2, <1>8, <1>11, <2>1 DEF KeysAtAddress
  <2>3. \A g \in InFlight({"connect", "rename"})' : device'[g].email = address'
      BY <1>2, <1>3, <1>6, <1>7, <2>1 DEF KeysAtAddress
  <2>4. \A g \in InFlight({"rename"})' :
           device'[g].at = "found" => ActiveKeys' \subseteq device'[g].found
      BY <1>3, <1>6, <1>7, <1>11, <2>1 DEF KeysAtAddress
  <2> QED BY <1>6, <2>1, <2>2, <2>3, <2>4 DEF KeysAtAddress
<1>16. ASSUME ~twice' PROVE \A i, g \in InFlight({"connect"})' : g = i
    BY <1>2, <1>6, <1>16 DEF CaptureInv
<1>17. ASSUME ~twice', ~astray' PROVE OneActive'
  <2>1. OneActive
      BY <1>2, <1>17 DEF CaptureInv
  <2> QED BY <1>3, <1>6, <1>7, <1>11, <2>1 DEF OneActive
<1> QED BY <1>12, <1>13, <1>14, <1>15, <1>16, <1>17 DEF CaptureInv

\* Every step of the requests of one person keeps the invariant.
LEMMA CaptureKept ==
    ASSUME CaptureInv, [Capture!Next]_(Capture!captureVars)
    PROVE  CaptureInv'
<1>1. CASE Capture!Reactivate \/ UNCHANGED Capture!captureVars
  <2>1. /\ live' \in BOOLEAN /\ connects' \in 0 .. MaxRequests
        /\ UNCHANGED <<address, captured, device, handed, spoilt, twice, astray>>
    <3>1. live \in BOOLEAN /\ connects \in 0 .. MaxRequests /\ MaxRequests \in Nat
        BY CaptureColumns
    <3>2. CASE Capture!Reactivate
      <4>1. /\ connects < MaxRequests /\ connects' = connects + 1 /\ live' = TRUE
            /\ UNCHANGED <<address, captured, device, handed, spoilt, twice, astray>>
          BY <3>2 DEF Capture!Reactivate
      <4> QED BY <3>1, <4>1
    <3>3. CASE UNCHANGED Capture!captureVars
        BY <3>1, <3>3 DEF Capture!captureVars
    <3> QED BY <1>1, <3>2, <3>3
  <2>2. Capture!TypeOK'
      BY <2>1 DEF CaptureInv, Capture!TypeOK
  <2>3. ActiveKeys' = ActiveKeys /\ \A K : InFlight(K)' = InFlight(K)
      BY <2>1 DEF ActiveKeys, InFlight
  <2> QED BY <2>1, <2>2, <2>3 DEF CaptureInv, CaptureTypes, LastIsActive, KeysAtAddress, OneActive
<1> QED BY <1>1, LoadKeeps, FindKeeps, StoreKeeps, RenameKeeps, DeactivateKeeps DEF Capture!Next

\* Nobody has connected in the initial state.
LEMMA CaptureInit == Capture!Init => CaptureInv
<1> SUFFICES ASSUME Capture!Init PROVE CaptureInv
    OBVIOUS
<1>1. Capture!KeysAssumption
    BY Assumptions
<1>2. /\ address = 1 /\ live = TRUE /\ captured = <<>>
      /\ device = [h \in Connects |-> Capture!Idle]
      /\ handed = 0 /\ spoilt = FALSE /\ twice = FALSE /\ astray = FALSE /\ connects = 0
    BY DEF Capture!Init
<1>3. /\ NAddresses \in Nat /\ MaxKeys \in Nat /\ MaxRequests \in Nat
      /\ 1 \in 1 .. NAddresses /\ 0 \in 0 .. MaxRequests /\ 0 <= MaxKeys
    BY <1>1 DEF Capture!KeysAssumption
<1>4. Capture!Idle \in Connecting /\ Capture!Idle.at = "idle"
    BY <1>3, IdleConnect
<1>5. captured \in Seq(KeyRows) /\ DOMAIN captured = {} /\ Len(captured) = 0
    BY <1>2
<1>6. device \in [Connects -> Connecting] /\ \A h \in Connects : device[h].at = "idle"
    BY <1>2, <1>4
<1>7. ActiveKeys = {} /\ \A K : InFlight(K) = {}
    BY <1>5, <1>6 DEF ActiveKeys, InFlight
<1>8. Capture!TypeOK
    BY <1>2, <1>3, <1>5, <1>6 DEF Capture!TypeOK, Capture!Addresses, Connecting
<1> QED BY <1>2, <1>5, <1>6, <1>7, <1>8
        DEF CaptureInv, CaptureTypes, LastIsActive, KeysAtAddress, OneActive

\* What the invariant says of the keys that work.
LEMMA CaptureHolds ==
    CaptureInv => Capture!LeaverIsOut /\ Capture!LastHandedWorks /\ Capture!OneKeyPerDevice
<1> SUFFICES ASSUME CaptureInv
             PROVE  Capture!LeaverIsOut /\ Capture!LastHandedWorks /\ Capture!OneKeyPerDevice
    OBVIOUS
<1>1. Capture!LeaverIsOut
    BY DEF CaptureInv, KeysAtAddress, ActiveKeys, Capture!LeaverIsOut, Capture!Works
<1>2. Capture!LastHandedWorks
    BY DEF CaptureInv, LastIsActive, ActiveKeys, Capture!LastHandedWorks, Capture!Works
<1>3. ASSUME ~twice, ~astray PROVE Capture!Cardinality({k \in DOMAIN captured : Capture!Works(k)}) <= 1
  <2> DEFINE W == {k \in DOMAIN captured : Capture!Works(k)}
  <2>1. \A k, i \in W : k = i
      BY <1>3 DEF CaptureInv, OneActive, ActiveKeys, Capture!Works
  <2>2. Cardinality(W) <= 1
    <3>1. CASE W = {}
        BY <3>1, FS_EmptySet
    <3>2. ASSUME NEW k \in W PROVE Cardinality(W) = 1
      <4>1. W = {k}
          BY <2>1, <3>2
      <4> QED BY <4>1, FS_Singleton
    <3> QED BY <3>1, <3>2
  <2>3. Capture!Cardinality(W) = Cardinality(W)
      BY DEF Capture!Cardinality, Cardinality
  <2> QED BY <2>2, <2>3
<1>4. Capture!OneKeyPerDevice
    BY <1>3 DEF Capture!OneKeyPerDevice
<1> QED BY <1>1, <1>2, <1>4

-----------------------------------------------------------------------------
(* Devices that enrol: who holds the token's row, and who counted the keys. *)

(***************************************************************************)
(* Whoever holds the token's row found it claimable, and is the only one,  *)
(* so the use is still there at the commit.  As long as no two requests    *)
(* counted before either had inserted, at most one has counted and not     *)
(* inserted yet, and there is still room for its key.                      *)
(***************************************************************************)
EnrolInv ==
    /\ Enrolling!TypeOK /\ Enrolling!MintsAreBounded
    /\ uses = enrolled /\ enrolled <= mints /\ keys <= mints
    /\ \A h, g \in Enrolling!Holders : h = g
    /\ Enrolling!Holders # {} => valid /\ uses < MaxUses
    /\ Quota # 0 /\ ~together =>
           \A h \in Enrollers : enroller[h].at = "counted" =>
               /\ keys < Quota
               /\ \A g \in Enrollers : enroller[g].at = "counted" => g = h

\* Every step of the requests for one token keeps it.
LEMMA EnrolKept ==
    ASSUME EnrolInv, [Enrolling!Next]_(Enrolling!enrolVars)
    PROVE  EnrolInv'
<1> USE DEF Enrolling!tokenVars, Enrolling!keyVars, Enrolling!historyVars
<1>1. /\ MaxUses \in Nat /\ Quota \in Nat /\ MaxMints \in Nat
    BY Assumptions DEF Enrolling!UsesAssumption
<1>2. /\ valid \in BOOLEAN /\ expired \in BOOLEAN /\ uses \in Nat /\ keys \in 0 .. MaxMints
      /\ enrolled \in 0 .. MaxMints /\ mints \in 0 .. MaxMints
      /\ enroller \in [Enrollers -> [at : {"idle", "loaded", "claimed", "counted"},
                                     token : BOOLEAN]]
      /\ together \in BOOLEAN /\ closed \in 0 .. MaxMints
    BY DEF EnrolInv, Enrolling!TypeOK
<1>3. Enrolling!Idle = [at |-> "idle", token |-> FALSE]
    BY DEF Enrolling!Idle
<1>4. ASSUME NEW h \in Enrollers, UNCHANGED <<valid, expired, uses, keys, enrolled, mints, closed>>,
             NEW to \in [at : {"idle", "loaded", "claimed", "counted"}, token : BOOLEAN],
             enroller' = [enroller EXCEPT ![h] = to],
             to.token /\ to.at \in {"claimed", "counted"} =>
                 \/ enroller[h].token /\ enroller[h].at \in {"claimed", "counted"}
                 \/ Enrolling!Holders = {} /\ valid /\ uses < MaxUses,
             \/ UNCHANGED together /\ to.at # "counted"
             \/ /\ to.at = "counted" /\ Enrolling!Room
                /\ together' = (together \/ \E g \in Enrollers : enroller[g].at = "counted")
      PROVE  EnrolInv'
  <2>1. /\ enroller' \in [Enrollers -> [at : {"idle", "loaded", "claimed", "counted"},
                                        token : BOOLEAN]]
        /\ enroller'[h] = to
        /\ \A g \in Enrollers : g # h => enroller'[g] = enroller[g]
      BY <1>2, <1>4
  <2>2. together' \in BOOLEAN
      BY <1>2, <1>4
  <2>3. Enrolling!TypeOK'
      BY <1>2, <1>4, <2>1, <2>2 DEF Enrolling!TypeOK
  <2>4. \A g \in Enrollers : g \in Enrolling!Holders' <=>
            IF g = h THEN to.token /\ to.at \in {"claimed", "counted"} ELSE g \in Enrolling!Holders
      BY <2>1 DEF Enrolling!Holders
  <2>5. Enrolling!Holders' \subseteq Enrollers
      BY DEF Enrolling!Holders
  <2>6. /\ \A k, g \in Enrolling!Holders' : k = g
        /\ Enrolling!Holders' # {} => valid' /\ uses' < MaxUses
    <3>1. h \in Enrolling!Holders <=> enroller[h].token /\ enroller[h].at \in {"claimed", "counted"}
        BY <1>4 DEF Enrolling!Holders
    <3> QED BY <1>4, <2>4, <2>5, <3>1 DEF EnrolInv
  <2>7. ASSUME Quota # 0, ~together', NEW k \in Enrollers, enroller'[k].at = "counted"
        PROVE  /\ keys' < Quota
               /\ \A g \in Enrollers : enroller'[g].at = "counted" => g = k
    <3>1. CASE to.at = "counted"
      <4>1. keys < Quota /\ keys' = keys
          BY <1>4, <2>7, <3>1 DEF Enrolling!Room
      <4>2. \A g \in Enrollers : enroller[g].at # "counted"
          BY <1>4, <2>7, <3>1
      <4> QED BY <2>1, <2>7, <4>1, <4>2
    <3>2. CASE to.at # "counted"
      <4>1. /\ ~together /\ keys' = keys /\ enroller[k].at = "counted" /\ k # h
            /\ \A g \in Enrollers : enroller'[g].at = "counted" => enroller[g].at = "counted"
          BY <1>4, <2>1, <2>7, <3>2
      <4> QED BY <2>7, <4>1 DEF EnrolInv
    <3> QED BY <3>1, <3>2
  <2>8. Enrolling!MintsAreBounded'
      BY <1>2, <1>4 DEF EnrolInv, Enrolling!MintsAreBounded
  <2> QED BY <1>4, <2>3, <2>6, <2>7, <2>8 DEF EnrolInv
<1>5. ASSUME NEW h \in Enrollers, Enrolling!Present(h) PROVE EnrolInv'
    BY <1>4, <1>5 DEF Enrolling!Present
<1>6. ASSUME NEW h \in Enrollers, Enrolling!Claim(h) PROVE EnrolInv'
  <2>1. enroller[h].token \in BOOLEAN
      BY <1>2
  <2>2. CASE Enrolling!Claimable
    <3>1. /\ enroller' = [enroller EXCEPT ![h] = [enroller[h] EXCEPT !.at = "claimed"]]
          /\ Enrolling!Holders = {} /\ UNCHANGED <<valid, expired, uses, keys, enrolled, mints, closed>>
          /\ UNCHANGED together
        BY <1>6, <2>2 DEF Enrolling!Claim
    <3>2. [enroller[h] EXCEPT !.at = "claimed"] = [at |-> "claimed", token |-> enroller[h].token]
        BY <1>2
    <3> QED BY <1>4, <2>1, <2>2, <3>1, <3>2 DEF Enrolling!Claimable
  <2>3. CASE ~Enrolling!Claimable
      BY <1>3, <1>4, <1>6, <2>3 DEF Enrolling!Claim
  <2> QED BY <2>2, <2>3
<1>7. ASSUME NEW h \in Enrollers, Enrolling!Ask(h) PROVE EnrolInv'
    BY <1>4, <1>7 DEF Enrolling!Ask
<1>8. ASSUME NEW h \in Enrollers, Enrolling!CountKeys(h) PROVE EnrolInv'
  <2>1. enroller[h].token \in BOOLEAN /\ enroller[h].at = "claimed"
      BY <1>2, <1>8 DEF Enrolling!CountKeys
  <2>2. CASE Enrolling!Room
    <3>1. /\ enroller' = [enroller EXCEPT ![h] = [enroller[h] EXCEPT !.at = "counted"]]
          /\ UNCHANGED <<valid, expired, uses, keys, enrolled, mints, closed>>
          /\ together' = (together \/ \E g \in Enrollers : enroller[g].at = "counted")
        BY <1>2, <1>8, <2>2 DEF Enrolling!CountKeys
    <3>2. [enroller[h] EXCEPT !.at = "counted"] = [at |-> "counted", token |-> enroller[h].token]
        BY <1>2
    <3> QED BY <1>4, <2>1, <2>2, <3>1, <3>2
  <2>3. CASE ~Enrolling!Room
      BY <1>3, <1>4, <1>8, <2>3 DEF Enrolling!CountKeys
  <2> QED BY <2>2, <2>3
<1>9. ASSUME NEW h \in Enrollers, Enrolling!Mint(h) PROVE EnrolInv'
  <2> DEFINE use == IF enroller[h].token THEN 1 ELSE 0
  <2>1. /\ enroller[h].at = "counted" /\ mints < MaxMints
        /\ keys' = keys + 1 /\ mints' = mints + 1
        /\ enrolled' = enrolled + use /\ uses' = uses + use
        /\ enroller' = [enroller EXCEPT ![h] = Enrolling!Idle]
        /\ UNCHANGED <<valid, expired, together, closed>>
      BY <1>9 DEF Enrolling!Mint
  <2>2. /\ enroller' \in [Enrollers -> [at : {"idle", "loaded", "claimed", "counted"},
                                        token : BOOLEAN]]
        /\ enroller'[h].at = "idle"
        /\ \A g \in Enrollers : g # h => enroller'[g] = enroller[g]
      BY <1>2, <1>3, <2>1
  <2>3. use \in {0, 1} /\ (use = 1 => h \in Enrolling!Holders)
      BY <2>1 DEF Enrolling!Holders
  <2>4. Enrolling!Holders' \subseteq Enrolling!Holders \ {h}
      BY <2>2 DEF Enrolling!Holders
  <2>5. use = 1 => valid /\ uses < MaxUses /\ Enrolling!Holders' = {}
      BY <2>3, <2>4 DEF EnrolInv
  <2>6. /\ uses' \in Nat /\ keys' \in 0 .. MaxMints /\ mints' \in 0 .. MaxMints
        /\ enrolled' \in 0 .. MaxMints /\ uses' = enrolled' /\ enrolled' <= mints'
        /\ keys' <= mints'
    <3> HIDE DEF use
    <3> QED BY <1>1, <1>2, <2>1, <2>3 DEF EnrolInv
  <2>7. Enrolling!TypeOK'
      BY <1>2, <2>1, <2>2, <2>6 DEF Enrolling!TypeOK
  <2>8. /\ enrolled' <= MaxUses /\ (~valid' => enrolled' = closed')
        /\ (Enrolling!Holders' # {} => valid' /\ uses' < MaxUses)
    <3> HIDE DEF use
    <3> QED BY <1>1, <1>2, <2>1, <2>3, <2>4, <2>5 DEF EnrolInv, Enrolling!MintsAreBounded
  <2>9. Quota # 0 /\ ~together' =>
            /\ keys' <= Quota
            /\ \A k \in Enrollers : enroller'[k].at # "counted"
      BY <1>1, <1>2, <2>1, <2>2 DEF EnrolInv
  <2> QED BY <2>1, <2>4, <2>6, <2>7, <2>8, <2>9 DEF EnrolInv, Enrolling!MintsAreBounded
<1>10. ASSUME NEW h \in Enrollers, Enrolling!Die(h) PROVE EnrolInv'
    BY <1>3, <1>4, <1>10 DEF Enrolling!Die
<1>11. CASE Enrolling!Revoke
  <2>1. /\ Enrolling!Holders = {} /\ valid' = FALSE /\ closed' = enrolled
        /\ UNCHANGED <<expired, uses, keys, enrolled, mints, enroller, together>>
      BY <1>11 DEF Enrolling!Revoke
  <2>2. Enrolling!Holders' = {}
      BY <2>1 DEF Enrolling!Holders
  <2> QED BY <1>2, <2>1, <2>2 DEF EnrolInv, Enrolling!TypeOK, Enrolling!MintsAreBounded
<1>12. CASE Enrolling!Expire \/ UNCHANGED Enrolling!enrolVars
  <2>1. /\ expired' \in BOOLEAN
        /\ UNCHANGED <<valid, uses, keys, enrolled, mints, enroller, together, closed>>
      BY <1>2, <1>12 DEF Enrolling!Expire, Enrolling!enrolVars
  <2>2. Enrolling!Holders' = Enrolling!Holders
      BY <2>1 DEF Enrolling!Holders
  <2> QED BY <1>2, <2>1, <2>2 DEF EnrolInv, Enrolling!TypeOK, Enrolling!MintsAreBounded
<1>13. CASE Enrolling!RevokeKey
  <2>1. /\ keys > 0 /\ keys' = keys - 1
        /\ UNCHANGED <<valid, expired, uses, enrolled, mints, enroller, together, closed>>
      BY <1>13 DEF Enrolling!RevokeKey
  <2>2. Enrolling!Holders' = Enrolling!Holders
      BY <2>1 DEF Enrolling!Holders
  <2>3. keys' \in 0 .. MaxMints /\ keys' <= mints' /\ keys' <= keys
      BY <1>1, <1>2, <2>1 DEF EnrolInv
  <2> QED BY <1>1, <1>2, <2>1, <2>2, <2>3
          DEF EnrolInv, Enrolling!TypeOK, Enrolling!MintsAreBounded
<1> QED BY <1>5, <1>6, <1>7, <1>8, <1>9, <1>10, <1>11, <1>12, <1>13 DEF Enrolling!Next

\* Nobody has presented the token in the initial state.
LEMMA EnrolInit == Enrolling!Init => EnrolInv
<1> SUFFICES ASSUME Enrolling!Init PROVE EnrolInv
    OBVIOUS
<1>1. /\ MaxUses \in Nat /\ Quota \in Nat /\ MaxMints \in Nat
    BY Assumptions DEF Enrolling!UsesAssumption
<1>2. /\ valid = TRUE /\ expired = FALSE /\ uses = 0 /\ keys = 0 /\ enrolled = 0 /\ mints = 0
      /\ enroller = [h \in Enrollers |-> [at |-> "idle", token |-> FALSE]]
      /\ together = FALSE /\ closed = 0
    BY DEF Enrolling!Init, Enrolling!Idle
<1>3. Enrolling!Holders = {}
    BY <1>2 DEF Enrolling!Holders
<1>4. /\ 0 \in 0 .. MaxMints /\ 0 <= MaxUses /\ 0 <= Quota /\ 0 <= 0
    BY <1>1
<1>5. Enrolling!TypeOK
    BY <1>2, <1>4 DEF Enrolling!TypeOK
<1>6. Enrolling!MintsAreBounded
    BY <1>2, <1>4 DEF Enrolling!MintsAreBounded
<1>7. \A h \in Enrollers : enroller[h].at # "counted"
    BY <1>2
<1> QED BY <1>2, <1>3, <1>4, <1>5, <1>6, <1>7 DEF EnrolInv

-----------------------------------------------------------------------------
(* The accounts of a run: each part keeps what it relies on.               *)

AccountsInv ==
    /\ part = "admins" => AdminInv
    /\ part = "throttle" => ThrottleInv
    /\ part = "factor" => FactorInv
    /\ part = "sessions" => SessionInv
    /\ part = "capture" => CaptureInv
    /\ part = "enrolment" => EnrolInv

\* A step of a run is one of its part, and leaves the part it is of.
LEMMA AccountSteps ==
    ASSUME [Next]_vars
    PROVE  /\ part' = part
           /\ part = "admins" => [Admins!Next]_(Admins!guardVars)
           /\ part = "throttle" => [Throttle!Next]_(Throttle!throttleVars)
           /\ part = "factor" => [Factor!Next]_(Factor!factorVars)
           /\ part = "sessions" => [Account!Next]_(Account!sessionVars)
           /\ part = "capture" => [Capture!Next]_(Capture!captureVars)
           /\ part = "enrolment" => [Enrolling!Next]_(Enrolling!enrolVars)
<1>1. CASE UNCHANGED vars
    BY <1>1 DEF vars, accessVars, otherVars, mintVars, guardVars, throttleVars, factorVars,
                sessionVars, captureVars, enrolVars, Admins!guardVars, Throttle!throttleVars,
                Factor!factorVars, Account!sessionVars, Capture!captureVars, Enrolling!enrolVars
<1>2. CASE Next
    BY <1>2 DEF Next
<1> QED BY <1>1, <1>2

\* The people of the admin guard are as it assumes.
LEMMA PeopleAre == Admins!PeopleAssumption
BY Assumptions

\* What each part relies on holds in every reachable state.
THEOREM AccountsInvariant == Spec => []AccountsInv
<1>1. Init => AccountsInv
  <2> SUFFICES ASSUME Init PROVE AccountsInv
      OBVIOUS
  <2>1. part = "admins" => Admins!Init
      BY DEF Init
  <2>2. part = "throttle" => Throttle!Init
      BY DEF Init
  <2>3. part = "factor" => Factor!Init
      BY DEF Init
  <2>4. Admins!Init => AdminInv
      BY PeopleAre, AdminInit
  <2>5. part = "sessions" => Account!Init
      BY DEF Init
  <2>6. part = "capture" => Capture!Init
      BY DEF Init
  <2>7. part = "enrolment" => Enrolling!Init
      BY DEF Init
  <2> QED BY <2>1, <2>2, <2>3, <2>4, <2>5, <2>6, <2>7, ThrottleInit, FactorInit,
             SessionInit, CaptureInit, EnrolInit DEF AccountsInv
<1>2. AccountsInv /\ [Next]_vars => AccountsInv'
  <2> SUFFICES ASSUME AccountsInv, [Next]_vars PROVE AccountsInv'
      OBVIOUS
  <2>1. part' = part
      BY AccountSteps
  <2>2. CASE part = "admins"
    <3>1. AdminInv /\ [Admins!Next]_(Admins!guardVars)
        BY <2>2, AccountSteps DEF AccountsInv
    <3>2. AdminInv'
        BY <3>1, PeopleAre, AdminKept
    <3> QED BY <2>1, <2>2, <3>2 DEF AccountsInv
  <2>3. CASE part = "throttle"
    <3>1. ThrottleInv /\ [Throttle!Next]_(Throttle!throttleVars)
        BY <2>3, AccountSteps DEF AccountsInv
    <3>2. ThrottleInv'
        BY <3>1, ThrottleKept
    <3> QED BY <2>1, <2>3, <3>2 DEF AccountsInv
  <2>4. CASE part = "factor"
    <3>1. FactorInv /\ [Factor!Next]_(Factor!factorVars)
        BY <2>4, AccountSteps DEF AccountsInv
    <3>2. FactorInv'
        BY <3>1, FactorKept
    <3> QED BY <2>1, <2>4, <3>2 DEF AccountsInv
  <2>5. CASE part = "sessions"
    <3>1. SessionInv /\ [Account!Next]_(Account!sessionVars)
        BY <2>5, AccountSteps DEF AccountsInv
    <3>2. SessionInv'
        BY <3>1, SessionKept
    <3> QED BY <2>1, <2>5, <3>2 DEF AccountsInv
  <2>6. CASE part = "capture"
    <3>1. CaptureInv /\ [Capture!Next]_(Capture!captureVars)
        BY <2>6, AccountSteps DEF AccountsInv
    <3>2. CaptureInv'
        BY <3>1, CaptureKept
    <3> QED BY <2>1, <2>6, <3>2 DEF AccountsInv
  <2>7. CASE part = "enrolment"
    <3>1. EnrolInv /\ [Enrolling!Next]_(Enrolling!enrolVars)
        BY <2>7, AccountSteps DEF AccountsInv
    <3>2. EnrolInv'
        BY <3>1, EnrolKept
    <3> QED BY <2>1, <2>7, <3>2 DEF AccountsInv
  <2> QED BY <2>1, <2>2, <2>3, <2>4, <2>5, <2>6, <2>7 DEF AccountsInv
<1> QED BY <1>1, <1>2, PTL DEF Spec

(***************************************************************************)
(* For any people, requests and limits: overlapping removals leave an      *)
(* active admin, a burst of guesses tests no more than the limit and one   *)
(* for every other guess at a factor, a code is used once, and a factor    *)
(* that is on is the one its owner confirmed.                              *)
(***************************************************************************)
THEOREM AccountsCorrect == Spec => []AccountsHold
<1>1. AccountsInv => AccountsHold
  <2> SUFFICES ASSUME AccountsInv PROVE AccountsHold
      OBVIOUS
  <2>1. part = "admins" => Admins!AlwaysAnAdmin
      BY DEF AccountsInv, AdminInv
  <2> QED BY <2>1, ThrottleBounds, FactorHolds DEF AccountsInv, AccountsHold
<1>2. Spec => []AccountsInv
    BY AccountsInvariant
<1> QED BY <1>1, <1>2, PTL

(***************************************************************************)
(* For any codes, sign-ins, keys and tokens: a grant never forks, lapses   *)
(* with its consent and stays ended; a session or a challenge from before  *)
(* an ending never works after it; a leaver's capture keys are out, and    *)
(* everybody else's last one works; an enrollment token mints no more than *)
(* it may.                                                                 *)
(***************************************************************************)
THEOREM AccessCorrect == Spec => []AccessEnds
<1>1. RowsInv /\ AccountsInv => AccessEnds
  <2> SUFFICES ASSUME RowsInv, AccountsInv PROVE AccessEnds
      OBVIOUS
  <2>1. part = "enrolment" => Enrolling!MintsAreBounded
      BY DEF AccountsInv, EnrolInv
  <2> QED BY <2>1, GrantHolds, SessionHolds, CaptureHolds DEF RowsInv, AccountsInv, AccessEnds
<1>2. Spec => []RowsInv
    BY RowsInvariant
<1>3. Spec => []AccountsInv
    BY AccountsInvariant
<1> QED BY <1>1, <1>2, <1>3, PTL

-----------------------------------------------------------------------------
(* Sends from a page: what a justification lets through.                   *)

\* The messages, and the one that a row never sent names when there are none.
MessagesOrNone == Browser!Messages \cup {CHOOSE m \in Browser!Messages : TRUE}
SendRows == [at : {"idle", "asked", "sent", "scored", "returned", "stopped"},
             msg : MessagesOrNone, repeat : BOOLEAN, grant : 0 .. MaxReasons,
             verdict : {"none", "block", "warn", "skipped"}, by : 0 .. MaxReasons,
             late : BOOLEAN, offered : SUBSET Browser!Reasons]
ReasonRows == [at : {"none", "minted", "stored"}, meant : SUBSET Browser!Messages,
               hash : SUBSET Browser!Messages]

BrowserTypes ==
    /\ send \in [Calls -> SendRows]
    /\ \A s \in Calls : send[s].at # "idle" => send[s].msg \in Browser!Messages
    /\ lapsed \subseteq Browser!Reasons /\ misled \subseteq Browser!Reasons
    /\ recent \in [Browser!Messages -> {"none", "quiet", "rescan"}]
    /\ dialog \subseteq Browser!Messages
    /\ blocked \in [Browser!Findings -> SUBSET Browser!Messages]
    /\ grant \in 0 .. MaxReasons
    /\ reason \in [Browser!Reasons -> ReasonRows]
    /\ through \in [Browser!Reasons -> Seq(Browser!Messages)]
    /\ after \in [Browser!Messages -> SUBSET Browser!Messages]
    /\ replaced \subseteq Browser!Reasons /\ shown \subseteq Browser!Messages

\* Justifications that no longer wait for a send.
Gone == Browser!Spent \cup lapsed \cup replaced

\* The worker holds this message's hash, or another of its finding was blocked after it.
LastIsKnown(m) == Browser!Justifiable(m) => blocked[Finding[m]] = {m} \/ after[m] # {}

\* The dialog is of one message, the last of its finding unless the histories say otherwise.
DialogFits ==
    /\ \A m, x \in dialog : m = x
    /\ \A m \in dialog : LastIsKnown(m)
    /\ \A s \in Calls : send[s].at = "returned" /\ send[s].verdict = "block"
          => LastIsKnown(send[s].msg)

\* A justification carries the hash of the message it was given for, unless misled.
ReasonFits(j) ==
    IF reason[j].at = "none" THEN reason[j].meant = {} /\ reason[j].hash = {}
    ELSE /\ \A m \in reason[j].meant : Browser!Justifiable(m)
         /\ j \notin misled => reason[j].hash = reason[j].meant

\* It let through nothing yet, or one message, the one it was given for unless misled.
PassFits(j) ==
    \/ through[j] = <<>>
    \/ /\ reason[j].at # "none"
       /\ \E m \in Browser!Messages : /\ through[j] = <<m>> /\ Browser!Justifiable(m)
                                      /\ j \notin misled => reason[j].meant = {m}

ReasonsFit == \A j \in Browser!Reasons : ReasonFits(j) /\ PassFits(j)

\* The worker's grant was stored, and what was stored and is not gone is that grant.
GrantIsStored ==
    /\ grant # 0 => reason[grant].at = "stored"
    /\ \A j \in Browser!Reasons \ (Browser!Spent \cup replaced) :
          reason[j].at = "stored" => grant = j

\* What was waiting for a send when it was pressed goes with it, or is gone; once the
\* server has scored the send it is gone.
OfferFits(s) ==
    /\ \A j \in send[s].offered : /\ reason[j].at = "stored" /\ j \notin misled
                                  /\ reason[j].meant = {send[s].msg}
    /\ send[s].at = "sent" => send[s].offered \subseteq Gone \cup {send[s].grant}
    /\ send[s].at = "scored" => send[s].verdict # "skipped" /\ send[s].by \in Browser!Spent \cup {0}
    /\ send[s].at \in {"scored", "stopped"} => send[s].offered \subseteq Gone
    /\ send[s].at = "returned" /\ send[s].verdict # "skipped" => send[s].offered \subseteq Gone

OffersFit == \A s \in Calls : OfferFits(s)

\* The page remembers blocks it has shown, and answers at once for confirmed leaks only.
RecentFits ==
    \A m \in Browser!Messages : /\ recent[m] # "none" => m \in shown
                                /\ recent[m] = "quiet" => ~Browser!Justifiable(m)

\* A repeat, or what was stopped, was shown.
ShownFits(s) ==
    /\ send[s].at # "idle" /\ send[s].repeat => send[s].msg \in shown
    /\ send[s].at = "stopped" => send[s].msg \in shown

StopsFit == \A s \in Calls : ShownFits(s)

BrowserInv == BrowserTypes /\ DialogFits /\ ReasonsFit /\ GrantIsStored /\ OffersFit /\ RecentFits
              /\ StopsFit

\* A row that was never sent.
LEMMA UnsentSend ==
    /\ Browser!Unsent \in SendRows /\ Browser!Unsent.at = "idle" /\ Browser!Unsent.offered = {}
    /\ Browser!Unsent.repeat = FALSE
<1>1. (CHOOSE m \in Browser!Messages : TRUE) \in MessagesOrNone /\ 0 \in 0 .. MaxReasons
    BY Assumptions DEF MessagesOrNone, Browser!FindingsAssumption
<1> QED BY <1>1 DEF Browser!Unsent, SendRows

\* A justification is a number from 1.
LEMMA ReasonsAre ==
    /\ MaxReasons \in Nat
    /\ \A j \in Browser!Reasons : j \in Int /\ j # 0 /\ j \in 0 .. MaxReasons
    /\ \A j \in 0 .. MaxReasons : j # 0 => j \in Browser!Reasons
    BY Assumptions DEF Browser!FindingsAssumption, Browser!Reasons

\* What a send is held to.
SendFits(s) ==
    /\ OfferFits(s) /\ ShownFits(s)
    /\ send[s].at # "idle" => send[s].msg \in Browser!Messages
    /\ send[s].at = "returned" /\ send[s].verdict = "block" => LastIsKnown(send[s].msg)

\* One send moves: the others fit as before, when only what excuses them has grown.
LEMMA MoveKeepsSends ==
    ASSUME BrowserInv, NEW s \in Calls, NEW to \in SendRows,
           send' = [send EXCEPT ![s] = to], SendFits(s)',
           Gone \subseteq Gone', Browser!Spent \subseteq Browser!Spent', shown \subseteq shown',
           misled' \cap {j \in Browser!Reasons : reason[j].at = "stored"} \subseteq misled,
           \A j \in Browser!Reasons : reason[j].at = "stored" => reason'[j] = reason[j],
           \A m \in Browser!Messages : LastIsKnown(m) => LastIsKnown(m)'
    PROVE  /\ send' \in [Calls -> SendRows] /\ OffersFit' /\ StopsFit'
           /\ \A x \in Calls : send'[x].at # "idle" => send'[x].msg \in Browser!Messages
           /\ \A x \in Calls : send'[x].at = "returned" /\ send'[x].verdict = "block"
                                  => LastIsKnown(send[x].msg)'
<1>0. BrowserTypes /\ DialogFits /\ OffersFit /\ StopsFit
    BY DEF BrowserInv
<1>1. send \in [Calls -> SendRows] /\ send' \in [Calls -> SendRows]
    BY <1>0 DEF BrowserTypes
<1>2. ASSUME NEW x \in Calls
      PROVE  SendFits(x)'
  <2>1. CASE x = s
      BY <2>1
  <2>2. CASE x # s
    <3>1. send'[x] = send[x] /\ send[x] \in SendRows
        BY <1>1, <2>2
    <3>2. PICK r \in SendRows : r = send[x] /\ r = send'[x]
        BY <3>1
    <3>3. OfferFits(x) /\ ShownFits(x)
        BY <1>0, <1>2 DEF OffersFit, StopsFit
    <3>4. r.offered \subseteq Browser!Reasons /\ r.by \in 0 .. MaxReasons
        BY <3>2 DEF SendRows
    <3>5. \A j \in r.offered : /\ reason'[j].at = "stored" /\ j \notin misled'
                               /\ reason'[j].meant = {r.msg}
        BY <3>2, <3>3, <3>4 DEF OfferFits
    <3>6. OfferFits(x)'
        BY <3>2, <3>3, <3>5 DEF OfferFits
    <3>7. ShownFits(x)'
        BY <3>2, <3>3 DEF ShownFits
    <3>8. r.at # "idle" => r.msg \in Browser!Messages
        BY <1>0, <3>2 DEF BrowserTypes
    <3>9. r.at = "returned" /\ r.verdict = "block" => LastIsKnown(r.msg)
        BY <1>0, <3>2 DEF DialogFits
    <3>10. r.at = "returned" /\ r.verdict = "block" => LastIsKnown(r.msg)'
        BY <3>8, <3>9
    <3>11. LastIsKnown(send[x].msg)' <=> LastIsKnown(r.msg)'
        BY <3>2 DEF LastIsKnown
    <3> QED BY <3>2, <3>6, <3>7, <3>8, <3>10, <3>11 DEF SendFits
  <2> QED BY <2>1, <2>2
<1> QED BY <1>1, <1>2 DEF SendFits, OffersFit, StopsFit

\* A step of the page or the worker alone leaves the justifications as they are.
LEMMA ReasonsStay ==
    ASSUME BrowserInv, UNCHANGED <<lapsed, misled, through, reason>>
    PROVE  /\ ReasonsFit' /\ Browser!Spent' = Browser!Spent
           /\ replaced \subseteq replaced' => Gone \subseteq Gone'
           /\ UNCHANGED <<blocked, after>> =>
                  \A m \in Browser!Messages : LastIsKnown(m) => LastIsKnown(m)'
<1>1. ReasonsFit'
    BY DEF BrowserInv, ReasonsFit, ReasonFits, PassFits
<1>2. Browser!Spent' = Browser!Spent
    BY DEF Browser!Spent
<1> QED BY <1>1, <1>2 DEF Gone, LastIsKnown

\* What is sent is offered the justifications that wait for it, of which the page's answer
\* to a message of a confirmed leak has none.
LEMMA PressKeeps ==
    ASSUME BrowserInv, NEW s \in Calls, NEW m \in Browser!Messages, Browser!Press(s, m)
    PROVE  BrowserInv'
<1>0. BrowserTypes /\ DialogFits /\ ReasonsFit /\ GrantIsStored /\ OffersFit /\ RecentFits
      /\ StopsFit
    BY DEF BrowserInv
<1>1. PICK w : w = Browser!Waiting(m)
    OBVIOUS
<1>2. PICK repeated \in BOOLEAN : repeated = (recent[m] # "none")
    OBVIOUS
<1>3. PICK state : state = IF recent[m] = "quiet" THEN "stopped" ELSE "asked"
    OBVIOUS
<1>4. PICK x \in SendRows : x = Browser!Unsent
    BY UnsentSend
<1>5. PICK r : r = [x EXCEPT !.msg = m, !.repeat = repeated, !.offered = w]
    OBVIOUS
<1>6. PICK to : to = [r EXCEPT !.at = state]
    OBVIOUS
<1>7. send' = [send EXCEPT ![s] = to]
    BY <1>1, <1>2, <1>3, <1>4, <1>5, <1>6, Zenon DEF Browser!Press, Browser!Moves
<1>8. w \subseteq Browser!Reasons \ misled
      /\ \A j \in w : reason[j].at = "stored" /\ reason[j].meant = {m}
    BY <1>1 DEF Browser!Waiting
<1>9. r \in SendRows /\ r.msg = m /\ r.repeat = repeated /\ r.offered = w
    BY <1>4, <1>5, <1>8 DEF SendRows, MessagesOrNone
<1>10. /\ to \in SendRows /\ to.msg = m /\ to.repeat = repeated /\ to.offered = w
       /\ to.at = state
    BY <1>3, <1>6, <1>9 DEF SendRows
<1>11. UNCHANGED <<recent, dialog, shown, blocked, grant, replaced, after, reason, lapsed,
                   misled, through>>
    BY DEF Browser!Press, Browser!pageVars, Browser!workerVars, Browser!reasonVars
<1>12. send \in [Calls -> SendRows] /\ send'[s] = to
    BY <1>0, <1>7 DEF BrowserTypes
<1>13. state = "stopped" => w = {}
  <2> SUFFICES ASSUME state = "stopped", NEW j \in w PROVE FALSE
      OBVIOUS
  <2>1. ~Browser!Justifiable(m)
      BY <1>0, <1>3 DEF RecentFits
  <2>2. ReasonFits(j)
      BY <1>0, <1>8 DEF ReasonsFit
  <2>3. \A b \in reason[j].meant : Browser!Justifiable(b)
      BY <1>8, <2>2 DEF ReasonFits
  <2> QED BY <1>8, <2>1, <2>3
<1>14. OfferFits(s)'
  <2>1. \A j \in to.offered : /\ reason'[j].at = "stored" /\ j \notin misled'
                              /\ reason'[j].meant = {to.msg}
      BY <1>8, <1>10, <1>11
  <2>2. to.at \in {"asked", "stopped"} /\ (to.at = "stopped" => to.offered = {})
      BY <1>3, <1>10, <1>13
  <2> QED BY <1>12, <2>1, <2>2 DEF OfferFits
<1>15. ShownFits(s)'
  <2>1. repeated => m \in shown
      BY <1>0, <1>2 DEF RecentFits
  <2>2. state = "stopped" => repeated
      BY <1>2, <1>3
  <2> QED BY <1>10, <1>11, <1>12, <2>1, <2>2 DEF ShownFits
<1>16. SendFits(s)'
    BY <1>3, <1>10, <1>12, <1>14, <1>15 DEF SendFits
<1>17. /\ send' \in [Calls -> SendRows] /\ OffersFit' /\ StopsFit'
       /\ \A y \in Calls : send'[y].at # "idle" => send'[y].msg \in Browser!Messages
       /\ \A y \in Calls : send'[y].at = "returned" /\ send'[y].verdict = "block"
                              => LastIsKnown(send[y].msg)'
    BY <1>7, <1>10, <1>11, <1>16, MoveKeepsSends, ReasonsStay
<1>18. ReasonsFit' /\ GrantIsStored' /\ RecentFits'
    BY <1>0, <1>11, ReasonsStay DEF GrantIsStored, RecentFits
<1>19. DialogFits'
    BY <1>0, <1>11, <1>17, ReasonsStay DEF DialogFits, BrowserTypes
<1>20. BrowserTypes'
    BY <1>0, <1>11, <1>17 DEF BrowserTypes
<1> QED BY <1>17, <1>18, <1>19, <1>20 DEF BrowserInv

\* The grant that waits goes along: what was offered is gone by then, or it is that one.
LEMMA AttachKeeps ==
    ASSUME BrowserInv, NEW s \in Calls, Browser!Attach(s)
    PROVE  BrowserInv'
<1>0. BrowserTypes /\ DialogFits /\ ReasonsFit /\ GrantIsStored /\ OffersFit /\ RecentFits
      /\ StopsFit
    BY DEF BrowserInv
<1>1. PICK x \in SendRows : x = send[s]
    BY <1>0 DEF BrowserTypes
<1>2. PICK g \in 0 .. MaxReasons : g = IF grant \in lapsed THEN 0 ELSE grant
    BY <1>0, ReasonsAre DEF BrowserTypes
<1>3. PICK to : to = [x EXCEPT !.at = "sent", !.grant = g]
    OBVIOUS
<1>4. send' = [send EXCEPT ![s] = to] /\ x.at = "asked"
    BY <1>1, <1>2, <1>3, Zenon DEF Browser!Attach, Browser!Moves
<1>5. /\ to \in SendRows /\ to.msg = x.msg /\ to.repeat = x.repeat /\ to.offered = x.offered
      /\ to.at = "sent" /\ to.grant = g
    BY <1>2, <1>3 DEF SendRows
<1>6. UNCHANGED <<recent, dialog, shown, blocked, grant, replaced, after, reason, lapsed,
                  misled, through>>
    BY DEF Browser!Attach, Browser!pageVars, Browser!workerVars, Browser!reasonVars
<1>7. send'[s] = to /\ x.offered \subseteq Browser!Reasons /\ x.msg \in Browser!Messages
    BY <1>0, <1>1, <1>4 DEF BrowserTypes, SendRows
<1>8. OfferFits(s) /\ ShownFits(s)
    BY <1>0 DEF OffersFit, StopsFit
<1>9. OfferFits(s)'
  <2>1. \A j \in to.offered : /\ reason'[j].at = "stored" /\ j \notin misled'
                              /\ reason'[j].meant = {to.msg}
      BY <1>1, <1>5, <1>6, <1>8 DEF OfferFits
  <2>2. ASSUME NEW j \in x.offered, j \notin Gone PROVE j = g
    <3>1. grant = j
        BY <1>0, <1>1, <1>7, <1>8, <2>2 DEF GrantIsStored, OfferFits, Gone
    <3> QED BY <1>2, <2>2, <3>1 DEF Gone
  <2>3. Gone' = Gone
      BY <1>6 DEF Gone, Browser!Spent
  <2> QED BY <1>5, <1>7, <2>1, <2>2, <2>3 DEF OfferFits
<1>10. ShownFits(s)'
    BY <1>1, <1>4, <1>5, <1>6, <1>7, <1>8 DEF ShownFits
<1>11. SendFits(s)'
    BY <1>5, <1>7, <1>9, <1>10 DEF SendFits
<1>12. /\ send' \in [Calls -> SendRows] /\ OffersFit' /\ StopsFit'
       /\ \A y \in Calls : send'[y].at # "idle" => send'[y].msg \in Browser!Messages
       /\ \A y \in Calls : send'[y].at = "returned" /\ send'[y].verdict = "block"
                              => LastIsKnown(send[y].msg)'
    BY <1>4, <1>5, <1>6, <1>11, MoveKeepsSends, ReasonsStay
<1>13. ReasonsFit' /\ GrantIsStored' /\ RecentFits'
    BY <1>0, <1>6, ReasonsStay DEF GrantIsStored, RecentFits
<1>14. DialogFits'
    BY <1>0, <1>6, <1>12, ReasonsStay DEF DialogFits, BrowserTypes
<1>15. BrowserTypes'
    BY <1>0, <1>6, <1>12 DEF BrowserTypes
<1> QED BY <1>12, <1>13, <1>14, <1>15 DEF BrowserInv

\* A justification that waited is honoured for the message it was given for, and is spent;
\* one that is honoured without being misled was given for that message.
LEMMA ScoreKeeps ==
    ASSUME BrowserInv, NEW s \in Calls, Browser!Score(s)
    PROVE  BrowserInv'
<1>0. BrowserTypes /\ DialogFits /\ ReasonsFit /\ GrantIsStored /\ OffersFit /\ RecentFits
      /\ StopsFit
    BY DEF BrowserInv
<1>1. PICK x \in SendRows : x = send[s]
    BY <1>0 DEF BrowserTypes
<1>2. x.at = "sent" /\ x.offered \subseteq Browser!Reasons /\ x.msg \in Browser!Messages
      /\ x.grant \in 0 .. MaxReasons
    BY <1>0, <1>1 DEF Browser!Score, BrowserTypes, SendRows
<1>3. PICK honoured \in BOOLEAN : honoured <=> Browser!Honours(x.grant, x.msg)
    OBVIOUS
<1>4. PICK ruling \in {"warn", "block"} : ruling = IF honoured THEN "warn" ELSE "block"
    OBVIOUS
<1>5. PICK by \in 0 .. MaxReasons : by = IF honoured THEN x.grant ELSE 0
    BY <1>2, ReasonsAre
<1>6. PICK to : to = [x EXCEPT !.at = "scored", !.grant = 0, !.verdict = ruling, !.by = by]
    OBVIOUS
<1>7. send' = [send EXCEPT ![s] = to]
  <2>1. honoured <=> Browser!Honours(send[s].grant, send[s].msg)
      BY <1>1, <1>3
  <2>2. send' = [send EXCEPT ![s] = [send[s] EXCEPT !.at = "scored", !.grant = 0,
                    !.verdict = IF Browser!Honours(send[s].grant, send[s].msg)
                                THEN "warn" ELSE "block",
                    !.by = IF Browser!Honours(send[s].grant, send[s].msg)
                           THEN send[s].grant ELSE 0]]
      BY Zenon DEF Browser!Score, Browser!Moves
  <2>3. ruling = IF Browser!Honours(send[s].grant, send[s].msg) THEN "warn" ELSE "block"
      BY <1>4, <2>1
  <2>4. by = IF Browser!Honours(send[s].grant, send[s].msg) THEN send[s].grant ELSE 0
      BY <1>1, <1>5, <2>1
  <2> QED BY <1>1, <1>6, <2>2, <2>3, <2>4, Zenon
<1>8. /\ to \in SendRows /\ to.msg = x.msg /\ to.repeat = x.repeat /\ to.offered = x.offered
      /\ to.at = "scored" /\ to.verdict = ruling /\ to.by = by
  <2>1. 0 \in 0 .. MaxReasons
      BY ReasonsAre
  <2>2. to \in SendRows
      BY <1>4, <1>5, <1>6, <2>1 DEF SendRows
  <2>3. x = [at |-> x.at, msg |-> x.msg, repeat |-> x.repeat, grant |-> x.grant,
             verdict |-> x.verdict, by |-> x.by, late |-> x.late, offered |-> x.offered]
      BY DEF SendRows
  <2>4. /\ to.msg = x.msg /\ to.repeat = x.repeat /\ to.offered = x.offered
        /\ to.at = "scored" /\ to.verdict = ruling /\ to.by = by
      BY <1>6, <2>3
  <2> QED BY <2>2, <2>4
<1>9. UNCHANGED <<recent, dialog, shown, blocked, grant, replaced, after, reason, lapsed,
                  misled>>
    BY DEF Browser!Score, Browser!pageVars, Browser!workerVars, Browser!reasonVars
<1>10. through' = IF honoured THEN [through EXCEPT ![x.grant] = Append(@, x.msg)] ELSE through
    BY <1>1, <1>3, Zenon DEF Browser!Score
<1>11. send'[s] = to /\ send \in [Calls -> SendRows]
       /\ through \in [Browser!Reasons -> Seq(Browser!Messages)]
    BY <1>0, <1>1, <1>7 DEF BrowserTypes
<1>12. OfferFits(s) /\ ShownFits(s)
    BY <1>0 DEF OffersFit, StopsFit
<1>13. honoured => /\ x.grant \in Browser!Reasons /\ x.grant \notin Browser!Spent
                   /\ through[x.grant] = <<>>
                   /\ Browser!Justifiable(x.msg) /\ reason[x.grant].hash = {x.msg}
    BY <1>2, <1>3, ReasonsAre DEF Browser!Honours, Browser!Spent
<1>14. honoured => /\ through'[x.grant] = <<x.msg>>
                   /\ \A j \in Browser!Reasons : j # x.grant => through'[j] = through[j]
  <2> SUFFICES ASSUME honoured PROVE
          /\ through'[x.grant] = <<x.msg>>
          /\ \A j \in Browser!Reasons : j # x.grant => through'[j] = through[j]
      OBVIOUS
  <2>1. through' = [through EXCEPT ![x.grant] = Append(through[x.grant], x.msg)]
      BY <1>10
  <2>2. Append(<<>>, x.msg) = <<x.msg>>
      OBVIOUS
  <2>3. through'[x.grant] = Append(through[x.grant], x.msg)
      BY <1>11, <1>13, <2>1
  <2>4. through'[x.grant] = <<x.msg>>
      BY <1>13, <2>2, <2>3
  <2> QED BY <1>11, <2>1, <2>4
<1>15. /\ through' \in [Browser!Reasons -> Seq(Browser!Messages)]
       /\ Browser!Spent \subseteq Browser!Spent'
       /\ honoured => x.grant \in Browser!Spent'
  <2>1. CASE honoured
    <3>1. <<x.msg>> # <<>>
        OBVIOUS
    <3>2. Append(through[x.grant], x.msg) \in Seq(Browser!Messages)
        BY <1>2, <1>11, <1>13, <2>1
    <3>3. through' \in [Browser!Reasons -> Seq(Browser!Messages)]
        BY <1>10, <1>11, <2>1, <3>2
    <3> QED BY <1>13, <1>14, <2>1, <3>1, <3>3 DEF Browser!Spent
  <2>2. CASE ~honoured
      BY <1>10, <1>11, <2>2 DEF Browser!Spent
  <2> QED BY <2>1, <2>2
<1>16. Gone \subseteq Gone'
    BY <1>9, <1>15 DEF Gone
<1>17. ReasonsFit'
  <2> SUFFICES ASSUME NEW j \in Browser!Reasons PROVE (ReasonFits(j) /\ PassFits(j))'
      BY DEF ReasonsFit
  <2>1. ReasonFits(j) /\ PassFits(j)
      BY <1>0 DEF ReasonsFit
  <2>2. ReasonFits(j)'
      BY <1>9, <2>1 DEF ReasonFits
  <2>3. CASE honoured /\ j = x.grant
    <3>1. reason[j].at # "none" /\ (j \notin misled => reason[j].meant = {x.msg})
        BY <1>13, <2>1, <2>3 DEF ReasonFits
    <3> QED BY <1>2, <1>9, <1>13, <1>14, <2>2, <2>3, <3>1 DEF PassFits
  <2>4. CASE ~(honoured /\ j = x.grant)
    <3>1. through'[j] = through[j]
        BY <1>10, <1>14, <2>4
    <3>2. PassFits(j)'
        BY <1>9, <2>1, <3>1 DEF PassFits
    <3> QED BY <2>2, <3>2
  <2> QED BY <2>3, <2>4
<1>18. OfferFits(s)'
  <2>1. \A j \in to.offered : /\ reason'[j].at = "stored" /\ j \notin misled'
                              /\ reason'[j].meant = {to.msg}
      BY <1>1, <1>8, <1>9, <1>12 DEF OfferFits
  <2>2. ASSUME NEW j \in x.offered PROVE j \in Gone'
    <3>1. CASE j \in Gone
        BY <1>16, <3>1
    <3>2. CASE j \notin Gone
      <4>1. j = x.grant /\ reason[j].at = "stored" /\ j \notin misled
            /\ reason[j].meant = {x.msg}
          BY <1>1, <1>2, <1>12, <3>2 DEF OfferFits
      <4>2. ReasonFits(j)
          BY <1>0, <1>2 DEF ReasonsFit
      <4>3. Browser!Justifiable(x.msg) /\ reason[j].hash = {x.msg}
          BY <4>1, <4>2 DEF ReasonFits
      <4>4. j # 0 /\ j \notin Browser!Spent \cup lapsed
          BY <1>2, <3>2, ReasonsAre DEF Gone
      <4>5. honoured
          BY <1>3, <4>1, <4>3, <4>4 DEF Browser!Honours
      <4> QED BY <1>15, <4>1, <4>5 DEF Gone
    <3> QED BY <3>1, <3>2
  <2>3. by \in Browser!Spent' \cup {0}
      BY <1>5, <1>15
  <2> QED BY <1>4, <1>8, <1>11, <2>1, <2>2, <2>3 DEF OfferFits
<1>19. ShownFits(s)'
    BY <1>1, <1>2, <1>8, <1>9, <1>11, <1>12 DEF ShownFits
<1>20. SendFits(s)'
    BY <1>2, <1>8, <1>11, <1>18, <1>19 DEF SendFits
<1>21. \A m \in Browser!Messages : LastIsKnown(m) => LastIsKnown(m)'
    BY <1>9 DEF LastIsKnown
<1>22. /\ send' \in [Calls -> SendRows] /\ OffersFit' /\ StopsFit'
       /\ \A y \in Calls : send'[y].at # "idle" => send'[y].msg \in Browser!Messages
       /\ \A y \in Calls : send'[y].at = "returned" /\ send'[y].verdict = "block"
                              => LastIsKnown(send[y].msg)'
    BY <1>7, <1>8, <1>9, <1>15, <1>16, <1>20, <1>21, MoveKeepsSends
<1>23. GrantIsStored' /\ RecentFits'
    BY <1>0, <1>9, <1>15 DEF GrantIsStored, RecentFits
<1>24. DialogFits'
    BY <1>0, <1>9, <1>21, <1>22 DEF DialogFits, BrowserTypes
<1>25. BrowserTypes'
    BY <1>0, <1>9, <1>15, <1>22 DEF BrowserTypes
<1> QED BY <1>17, <1>22, <1>23, <1>24, <1>25 DEF BrowserInv

\* A block becomes its finding's last, and what had been that has one after it; what an
\* override takes out of the storage is gone.
LEMMA ReturnKeeps ==
    ASSUME BrowserInv, NEW s \in Calls, Browser!Return(s)
    PROVE  BrowserInv'
<1>0. BrowserTypes /\ DialogFits /\ ReasonsFit /\ GrantIsStored /\ OffersFit /\ RecentFits
      /\ StopsFit
    BY DEF BrowserInv
<1>1. PICK x \in SendRows : x = send[s]
    BY <1>0 DEF BrowserTypes
<1>2. x.at = "scored" /\ x.offered \subseteq Browser!Reasons /\ x.msg \in Browser!Messages
      /\ x.by \in 0 .. MaxReasons
    BY <1>0, <1>1 DEF Browser!Return, BrowserTypes, SendRows
<1>3. PICK held \in BOOLEAN :
          held <=> x.verdict = "block" /\ (holds \/ ~Browser!Justifiable(x.msg))
    OBVIOUS
<1>4. PICK last \in BOOLEAN : last <=> held /\ Browser!Justifiable(x.msg)
    OBVIOUS
<1>5. PICK ruling \in {"warn", "block"} : ruling = IF held THEN "block" ELSE "warn"
    OBVIOUS
<1>6. PICK to : to = [x EXCEPT !.at = "returned", !.verdict = ruling]
    OBVIOUS
<1>7. send' = [send EXCEPT ![s] = to]
  <2>1. send' = [send EXCEPT ![s] = [send[s] EXCEPT !.at = "returned",
                    !.verdict = IF send[s].verdict = "block"
                                      /\ (holds \/ ~Browser!Justifiable(send[s].msg))
                                THEN "block" ELSE "warn"]]
      BY Zenon DEF Browser!Return, Browser!Moves
  <2>2. held <=> send[s].verdict = "block"
                    /\ (holds \/ ~Browser!Justifiable(send[s].msg))
      BY <1>1, <1>3
  <2>3. ruling = IF send[s].verdict = "block"
                       /\ (holds \/ ~Browser!Justifiable(send[s].msg))
                 THEN "block" ELSE "warn"
      BY <1>5, <2>2
  <2> QED BY <1>1, <1>6, <2>1, <2>3, Zenon
<1>8. /\ to \in SendRows /\ to.msg = x.msg /\ to.repeat = x.repeat /\ to.offered = x.offered
      /\ to.at = "returned" /\ to.verdict = ruling
    BY <1>5, <1>6 DEF SendRows
<1>9. UNCHANGED <<recent, dialog, shown, reason, lapsed, misled, through>>
    BY DEF Browser!Return, Browser!pageVars, Browser!reasonVars
<1>10. /\ grant' = IF x.by # 0 THEN 0 ELSE grant
       /\ replaced' = IF x.by # 0 THEN replaced \cup ({grant} \ {0, x.by}) ELSE replaced
    BY <1>1, Zenon DEF Browser!Return
<1>11. /\ blocked' = IF last THEN [blocked EXCEPT ![Finding[x.msg]] = {x.msg}] ELSE blocked
       /\ after' = [y \in Browser!Messages |->
                       IF ~last \/ Finding[y] # Finding[x.msg] THEN after[y]
                       ELSE IF y = x.msg THEN {} ELSE after[y] \cup {x.msg}]
  <2>1. last <=> (send[s].verdict = "block" /\ (holds \/ ~Browser!Justifiable(send[s].msg)))
                    /\ Browser!Justifiable(send[s].msg)
      BY <1>1, <1>3, <1>4
  <2> QED BY <1>1, <2>1 DEF Browser!Return
<1>12. Finding[x.msg] \in Browser!Findings
    BY <1>2 DEF Browser!Findings
<1>13. /\ blocked' \in [Browser!Findings -> SUBSET Browser!Messages]
       /\ after' \in [Browser!Messages -> SUBSET Browser!Messages]
    BY <1>0, <1>2, <1>11, <1>12 DEF BrowserTypes
<1>14. ASSUME NEW m \in Browser!Messages, Browser!Justifiable(m),
              LastIsKnown(m) \/ (last /\ m = x.msg)
       PROVE  LastIsKnown(m)'
  <2>1. Finding[m] \in Browser!Findings
      BY DEF Browser!Findings
  <2>2. CASE last /\ m = x.msg
    <3>1. blocked'[Finding[m]] = {m}
        BY <1>0, <1>11, <1>12, <2>2 DEF BrowserTypes
    <3> QED BY <3>1 DEF LastIsKnown
  <2>3. CASE last /\ m # x.msg /\ Finding[m] = Finding[x.msg]
    <3>1. after'[m] = after[m] \cup {x.msg}
        BY <1>11, <2>3
    <3> QED BY <3>1 DEF LastIsKnown
  <2>4. CASE ~last \/ Finding[m] # Finding[x.msg]
    <3>1. after'[m] = after[m]
        BY <1>11, <2>4
    <3>2. blocked'[Finding[m]] = blocked[Finding[m]]
        BY <1>0, <1>11, <2>1, <2>4 DEF BrowserTypes
    <3>3. LastIsKnown(m)
        BY <1>14, <2>4
    <3> QED BY <1>14, <3>1, <3>2, <3>3 DEF LastIsKnown
  <2> QED BY <1>14, <2>2, <2>3, <2>4
<1>15. \A m \in Browser!Messages : LastIsKnown(m) => LastIsKnown(m)'
  <2> SUFFICES ASSUME NEW m \in Browser!Messages, LastIsKnown(m) PROVE LastIsKnown(m)'
      OBVIOUS
  <2>1. CASE Browser!Justifiable(m)
      BY <1>14, <2>1
  <2>2. CASE ~Browser!Justifiable(m)
      BY <2>2 DEF LastIsKnown
  <2> QED BY <2>1, <2>2
<1>16. ruling = "block" => LastIsKnown(x.msg)'
  <2>1. CASE Browser!Justifiable(x.msg)
      BY <1>2, <1>4, <1>5, <1>14, <2>1
  <2>2. CASE ~Browser!Justifiable(x.msg)
      BY <2>2 DEF LastIsKnown
  <2> QED BY <2>1, <2>2
<1>17. send'[s] = to
    BY <1>0, <1>7 DEF BrowserTypes
<1>18. OfferFits(s) /\ ShownFits(s)
    BY <1>0 DEF OffersFit, StopsFit
<1>19. /\ grant' \in 0 .. MaxReasons /\ replaced \subseteq replaced'
       /\ replaced' \subseteq Browser!Reasons
    BY <1>0, <1>2, <1>10, ReasonsAre DEF BrowserTypes
<1>20. Gone \subseteq Gone' /\ Browser!Spent' = Browser!Spent /\ ReasonsFit'
    BY <1>9, <1>19, ReasonsStay
<1>21. OfferFits(s)'
  <2>1. \A j \in to.offered : /\ reason'[j].at = "stored" /\ j \notin misled'
                              /\ reason'[j].meant = {to.msg}
      BY <1>1, <1>8, <1>9, <1>18 DEF OfferFits
  <2>2. to.offered \subseteq Gone'
      BY <1>1, <1>2, <1>8, <1>18, <1>20 DEF OfferFits
  <2> QED BY <1>8, <1>17, <2>1, <2>2 DEF OfferFits
<1>22. ShownFits(s)'
    BY <1>1, <1>2, <1>8, <1>9, <1>17, <1>18 DEF ShownFits
<1>23. SendFits(s)'
  <2>1. LastIsKnown(send[s].msg)' <=> LastIsKnown(x.msg)'
      BY <1>8, <1>17 DEF LastIsKnown
  <2> QED BY <1>2, <1>8, <1>16, <1>17, <1>21, <1>22, <2>1 DEF SendFits
<1>24. /\ send' \in [Calls -> SendRows] /\ OffersFit' /\ StopsFit'
       /\ \A y \in Calls : send'[y].at # "idle" => send'[y].msg \in Browser!Messages
       /\ \A y \in Calls : send'[y].at = "returned" /\ send'[y].verdict = "block"
                              => LastIsKnown(send[y].msg)'
    BY <1>7, <1>8, <1>9, <1>15, <1>20, <1>23, MoveKeepsSends
<1>25. GrantIsStored'
  <2>1. grant' # 0 => reason'[grant'].at = "stored"
      BY <1>0, <1>9, <1>10 DEF GrantIsStored
  <2>2. ASSUME NEW j \in Browser!Reasons \ (Browser!Spent \cup replaced'),
               reason[j].at = "stored"
        PROVE  grant' = j
    <3>1. grant = j /\ j # 0
        BY <1>0, <1>19, <2>2, ReasonsAre DEF GrantIsStored
    <3>2. x.by \in Browser!Spent \cup {0}
        BY <1>1, <1>2, <1>18 DEF OfferFits
    <3> QED BY <1>10, <2>2, <3>1, <3>2
  <2> QED BY <1>9, <1>20, <2>1, <2>2 DEF GrantIsStored
<1>26. RecentFits'
    BY <1>0, <1>9 DEF RecentFits
<1>27. DialogFits'
    BY <1>0, <1>9, <1>15, <1>24 DEF DialogFits, BrowserTypes
<1>28. BrowserTypes'
    BY <1>0, <1>9, <1>13, <1>19, <1>24 DEF BrowserTypes
<1> QED BY <1>20, <1>24, <1>25, <1>26, <1>27, <1>28 DEF BrowserInv

\* A send that was not checked owes its justifications nothing.
LEMMA SkipKeeps ==
    ASSUME BrowserInv, NEW s \in Calls, Browser!Skip(s)
    PROVE  BrowserInv'
<1>0. BrowserTypes /\ DialogFits /\ ReasonsFit /\ GrantIsStored /\ OffersFit /\ RecentFits
      /\ StopsFit
    BY DEF BrowserInv
<1>1. PICK x \in SendRows : x = send[s]
    BY <1>0 DEF BrowserTypes
<1>2. x.at \in {"asked", "sent", "scored"} /\ x.msg \in Browser!Messages
    BY <1>0, <1>1 DEF Browser!Skip, BrowserTypes
<1>3. PICK to : to = [x EXCEPT !.at = "returned", !.grant = 0, !.by = 0, !.verdict = "skipped"]
    OBVIOUS
<1>4. send' = [send EXCEPT ![s] = to]
    BY <1>1, <1>3, Zenon DEF Browser!Skip, Browser!Moves
<1>5. /\ to \in SendRows /\ to.msg = x.msg /\ to.repeat = x.repeat /\ to.offered = x.offered
      /\ to.at = "returned" /\ to.verdict = "skipped"
  <2>1. 0 \in 0 .. MaxReasons
      BY ReasonsAre
  <2> QED BY <1>3, <2>1 DEF SendRows
<1>6. UNCHANGED <<recent, dialog, shown, blocked, grant, replaced, after, reason, lapsed,
                  misled, through>>
    BY DEF Browser!Skip, Browser!pageVars, Browser!workerVars, Browser!reasonVars
<1>7. send'[s] = to
    BY <1>0, <1>4 DEF BrowserTypes
<1>8. OfferFits(s) /\ ShownFits(s)
    BY <1>0 DEF OffersFit, StopsFit
<1>9. OfferFits(s)'
  <2>1. \A j \in to.offered : /\ reason'[j].at = "stored" /\ j \notin misled'
                              /\ reason'[j].meant = {to.msg}
      BY <1>1, <1>5, <1>6, <1>8 DEF OfferFits
  <2> QED BY <1>5, <1>7, <2>1 DEF OfferFits
<1>10. ShownFits(s)'
    BY <1>1, <1>2, <1>5, <1>6, <1>7, <1>8 DEF ShownFits
<1>11. SendFits(s)'
    BY <1>2, <1>5, <1>7, <1>9, <1>10 DEF SendFits
<1>12. /\ send' \in [Calls -> SendRows] /\ OffersFit' /\ StopsFit'
       /\ \A y \in Calls : send'[y].at # "idle" => send'[y].msg \in Browser!Messages
       /\ \A y \in Calls : send'[y].at = "returned" /\ send'[y].verdict = "block"
                              => LastIsKnown(send[y].msg)'
    BY <1>4, <1>5, <1>6, <1>11, MoveKeepsSends, ReasonsStay
<1>13. ReasonsFit' /\ GrantIsStored' /\ RecentFits'
    BY <1>0, <1>6, ReasonsStay DEF GrantIsStored, RecentFits
<1>14. DialogFits'
    BY <1>0, <1>6, <1>12, ReasonsStay DEF DialogFits, BrowserTypes
<1>15. BrowserTypes'
    BY <1>0, <1>6, <1>12 DEF BrowserTypes
<1> QED BY <1>12, <1>13, <1>14, <1>15 DEF BrowserInv

\* What the page stops it shows, or has shown; the message of its dialog is the last block
\* of its finding, or another came after it.
LEMMA AnswerIsReceived ==
    ASSUME BrowserInv, NEW s \in Calls, Browser!Receive(s)
    PROVE  BrowserInv'
<1>0. BrowserTypes /\ DialogFits /\ ReasonsFit /\ GrantIsStored /\ OffersFit /\ RecentFits
      /\ StopsFit
    BY DEF BrowserInv
<1>1. PICK x \in SendRows : x = send[s]
    BY <1>0 DEF BrowserTypes
<1>2. x.at = "returned" /\ x.msg \in Browser!Messages /\ x.late \in BOOLEAN
      /\ x.repeat \in BOOLEAN
    BY <1>0, <1>1 DEF Browser!Receive, BrowserTypes, SendRows
<1>3. PICK stops \in BOOLEAN : stops <=> x.verdict = "block" /\ ~x.late
    OBVIOUS
<1>4. PICK to : to = IF stops THEN [x EXCEPT !.at = "stopped"] ELSE Browser!Unsent
    OBVIOUS
<1>5. stops <=> send[s].verdict = "block" /\ ~send[s].late
    BY <1>1, <1>3
<1>6. send' = [send EXCEPT ![s] = to]
  <2>1. send' = [send EXCEPT ![s] = IF send[s].verdict = "block" /\ ~send[s].late
                                    THEN [send[s] EXCEPT !.at = "stopped"] ELSE Browser!Unsent]
      BY Zenon DEF Browser!Receive, Browser!Moves
  <2>2. to = IF send[s].verdict = "block" /\ ~send[s].late
             THEN [send[s] EXCEPT !.at = "stopped"] ELSE Browser!Unsent
    <3>1. CASE stops
        BY <1>1, <1>4, <1>5, <3>1
    <3>2. CASE ~stops
        BY <1>1, <1>4, <1>5, <3>2
    <3> QED BY <3>1, <3>2
  <2> QED BY <2>1, <2>2, Zenon
<1>7. /\ to \in SendRows
      /\ stops => /\ to.at = "stopped" /\ to.msg = x.msg /\ to.repeat = x.repeat
                  /\ to.offered = x.offered /\ to.verdict = x.verdict
      /\ ~stops => to.at = "idle" /\ to.offered = {}
  <2>1. CASE stops
      BY <1>4, <2>1 DEF SendRows
  <2>2. CASE ~stops
      BY <1>4, <2>2, UnsentSend
  <2> QED BY <2>1, <2>2
<1>8. UNCHANGED <<blocked, grant, replaced, after, reason, lapsed, misled, through>>
    BY DEF Browser!Receive, Browser!workerVars, Browser!reasonVars
<1>9. /\ dialog' = IF stops /\ ~x.repeat THEN {x.msg} ELSE dialog
      /\ shown' = IF stops /\ ~x.repeat THEN shown \cup {x.msg} ELSE shown
    BY <1>1, <1>5 DEF Browser!Receive
<1>10. recent' = recent \/ \E a \in {"none", Browser!Answer(x.msg)} :
                              /\ recent' = [recent EXCEPT ![x.msg] = a]
                              /\ a # "none" => stops
  <2>1. CASE x.late
      BY <1>1, <2>1 DEF Browser!Receive
  <2>2. CASE ~x.late /\ stops
    <3>1. recent' = [recent EXCEPT ![x.msg] = Browser!Answer(x.msg)]
        BY <1>1, <1>5, <2>2 DEF Browser!Receive
    <3> QED BY <2>2, <3>1
  <2>3. CASE ~x.late /\ ~stops
    <3>1. recent' = [recent EXCEPT ![x.msg] = "none"]
        BY <1>1, <1>5, <2>3 DEF Browser!Receive
    <3> QED BY <3>1
  <2> QED BY <2>1, <2>2, <2>3
<1>11. send'[s] = to
    BY <1>0, <1>6 DEF BrowserTypes
<1>12. OfferFits(s) /\ ShownFits(s)
    BY <1>0 DEF OffersFit, StopsFit
<1>13. shown \subseteq shown' /\ shown' \subseteq Browser!Messages
       /\ (stops => x.msg \in shown')
    BY <1>0, <1>1, <1>2, <1>9, <1>12 DEF BrowserTypes, ShownFits
<1>14. Gone' = Gone /\ Browser!Spent' = Browser!Spent
    BY <1>8 DEF Gone, Browser!Spent
<1>15. OfferFits(s)'
  <2>1. CASE stops
    <3>1. \A j \in to.offered : /\ reason'[j].at = "stored" /\ j \notin misled'
                                /\ reason'[j].meant = {to.msg}
        BY <1>1, <1>7, <1>8, <1>12, <2>1 DEF OfferFits
    <3>2. to.offered \subseteq Gone'
        BY <1>1, <1>2, <1>3, <1>7, <1>12, <1>14, <2>1 DEF OfferFits
    <3> QED BY <1>7, <1>11, <2>1, <3>1, <3>2 DEF OfferFits
  <2>2. CASE ~stops
      BY <1>7, <1>11, <2>2 DEF OfferFits
  <2> QED BY <2>1, <2>2
<1>16. ShownFits(s)'
    BY <1>7, <1>11, <1>13 DEF ShownFits
<1>17. SendFits(s)'
    BY <1>2, <1>7, <1>11, <1>15, <1>16 DEF SendFits
<1>18. /\ send' \in [Calls -> SendRows] /\ OffersFit' /\ StopsFit'
       /\ \A y \in Calls : send'[y].at # "idle" => send'[y].msg \in Browser!Messages
       /\ \A y \in Calls : send'[y].at = "returned" /\ send'[y].verdict = "block"
                              => LastIsKnown(send[y].msg)'
    BY <1>6, <1>7, <1>8, <1>13, <1>14, <1>17, MoveKeepsSends, ReasonsStay
<1>19. ReasonsFit' /\ GrantIsStored'
    BY <1>0, <1>8, ReasonsStay DEF GrantIsStored
<1>20. recent' \in [Browser!Messages -> {"none", "quiet", "rescan"}] /\ RecentFits'
  <2>1. recent \in [Browser!Messages -> {"none", "quiet", "rescan"}]
      BY <1>0 DEF BrowserTypes
  <2>2. CASE recent' = recent
      BY <1>0, <1>13, <2>1, <2>2 DEF RecentFits
  <2>3. ASSUME NEW a \in {"none", Browser!Answer(x.msg)},
               recent' = [recent EXCEPT ![x.msg] = a], a # "none" => stops
        PROVE  recent' \in [Browser!Messages -> {"none", "quiet", "rescan"}] /\ RecentFits'
    <3>1. a \in {"none", "quiet", "rescan"} /\ (a = "quiet" => ~Browser!Justifiable(x.msg))
        BY <2>3 DEF Browser!Answer
    <3>2. ASSUME NEW m \in Browser!Messages
          PROVE  /\ recent'[m] # "none" => m \in shown'
                 /\ recent'[m] = "quiet" => ~Browser!Justifiable(m)
      <4>1. CASE m = x.msg
          BY <1>13, <2>1, <2>3, <3>1, <4>1
      <4>2. CASE m # x.msg
          BY <1>0, <1>13, <2>1, <2>3, <4>2 DEF RecentFits
      <4> QED BY <4>1, <4>2
    <3>3. recent' \in [Browser!Messages -> {"none", "quiet", "rescan"}]
        BY <2>1, <2>3, <3>1
    <3> QED BY <3>2, <3>3 DEF RecentFits
  <2> QED BY <1>10, <2>2, <2>3
<1>21. DialogFits'
  <2>1. \A m \in Browser!Messages : LastIsKnown(m) => LastIsKnown(m)'
      BY <1>8, ReasonsStay
  <2>2. stops => LastIsKnown(x.msg)
      BY <1>0, <1>1, <1>2, <1>3 DEF DialogFits
  <2>3. /\ \A m, y \in dialog' : m = y
        /\ \A m \in dialog' : LastIsKnown(m)'
      BY <1>0, <1>2, <1>9, <2>1, <2>2 DEF DialogFits, BrowserTypes
  <2> QED BY <1>18, <2>3 DEF DialogFits
<1>22. dialog' \subseteq Browser!Messages
    BY <1>0, <1>2, <1>9 DEF BrowserTypes
<1>23. BrowserTypes'
    BY <1>0, <1>8, <1>13, <1>18, <1>20, <1>22 DEF BrowserTypes
<1> QED BY <1>18, <1>19, <1>20, <1>21, <1>23 DEF BrowserInv

\* No send moves: all fit as before, when only what excuses them has grown.
LEMMA StillSendsFit ==
    ASSUME BrowserInv, send' = send,
           Gone \subseteq Gone', Browser!Spent \subseteq Browser!Spent', shown' = shown,
           misled' \cap {j \in Browser!Reasons : reason[j].at = "stored"} \subseteq misled,
           \A j \in Browser!Reasons : reason[j].at = "stored" => reason'[j] = reason[j]
    PROVE  OffersFit' /\ StopsFit'
<1>0. BrowserTypes /\ OffersFit /\ StopsFit
    BY DEF BrowserInv
<1>1. ASSUME NEW s \in Calls PROVE OfferFits(s)'
  <2>1. PICK r \in SendRows : r = send[s] /\ r = send'[s]
      BY <1>0 DEF BrowserTypes
  <2>2. OfferFits(s)
      BY <1>0 DEF OffersFit
  <2>3. r.offered \subseteq Browser!Reasons /\ r.by \in 0 .. MaxReasons
      BY <2>1 DEF SendRows
  <2>4. \A j \in r.offered : /\ reason'[j].at = "stored" /\ j \notin misled'
                             /\ reason'[j].meant = {r.msg}
      BY <2>1, <2>2, <2>3 DEF OfferFits
  <2> QED BY <2>1, <2>2, <2>4 DEF OfferFits
<1>2. StopsFit'
    BY <1>0 DEF StopsFit, ShownFits
<1> QED BY <1>1, <1>2 DEF OffersFit

\* What the page gives up on, or forgets, has no answer waiting for it.
LEMMA PageKeeps ==
    ASSUME BrowserInv,
           (\E s \in Calls : Browser!GiveUp(s)) \/ \E m \in Browser!Messages : Browser!Forget(m)
    PROVE  BrowserInv'
<1>0. BrowserTypes /\ DialogFits /\ ReasonsFit /\ GrantIsStored /\ OffersFit /\ RecentFits
      /\ StopsFit
    BY DEF BrowserInv
<1>1. UNCHANGED <<dialog, shown, blocked, grant, replaced, after, reason, lapsed, misled, through>>
    BY DEF Browser!GiveUp, Browser!Forget, Browser!workerVars, Browser!reasonVars
<1>2. PICK m : recent' = [recent EXCEPT ![m] = "none"]
    BY DEF Browser!GiveUp, Browser!Forget
<1>3. recent' \in [Browser!Messages -> {"none", "quiet", "rescan"}] /\ RecentFits'
    BY <1>0, <1>1, <1>2 DEF RecentFits, BrowserTypes
<1>4. ASSUME NEW s \in Calls, Browser!GiveUp(s)
      PROVE  BrowserInv'
  <2>1. PICK x \in SendRows : x = send[s]
      BY <1>0 DEF BrowserTypes
  <2>2. PICK to : to = [x EXCEPT !.late = TRUE]
      OBVIOUS
  <2>3. send' = [send EXCEPT ![s] = to]
      BY <1>4, <2>1, <2>2, Zenon DEF Browser!GiveUp, Browser!Moves
  <2>4. /\ to \in SendRows /\ to.msg = x.msg /\ to.repeat = x.repeat /\ to.offered = x.offered
        /\ to.at = x.at /\ to.verdict = x.verdict /\ to.by = x.by /\ to.grant = x.grant
      BY <2>2 DEF SendRows
  <2>5. send'[s] = to
      BY <1>0, <2>3 DEF BrowserTypes
  <2>6. OfferFits(s) /\ ShownFits(s)
      BY <1>0 DEF OffersFit, StopsFit
  <2>7. OfferFits(s)'
    <3>1. \A j \in to.offered : /\ reason'[j].at = "stored" /\ j \notin misled'
                                /\ reason'[j].meant = {to.msg}
        BY <1>1, <2>1, <2>4, <2>6 DEF OfferFits
    <3>2. Gone' = Gone /\ Browser!Spent' = Browser!Spent
        BY <1>1 DEF Gone, Browser!Spent
    <3> QED BY <2>1, <2>4, <2>5, <2>6, <3>1, <3>2 DEF OfferFits
  <2>8. ShownFits(s)'
      BY <1>1, <2>1, <2>4, <2>5, <2>6 DEF ShownFits
  <2>9. SendFits(s)'
    <3>1. x.at # "idle" => x.msg \in Browser!Messages
        BY <1>0, <2>1 DEF BrowserTypes
    <3>2. x.at = "returned" /\ x.verdict = "block" => LastIsKnown(send[s].msg)'
        BY <1>0, <1>1, <2>1, <2>4, <2>5 DEF DialogFits, LastIsKnown
    <3> QED BY <2>4, <2>5, <2>7, <2>8, <3>1, <3>2 DEF SendFits
  <2>10. /\ send' \in [Calls -> SendRows] /\ OffersFit' /\ StopsFit'
         /\ \A y \in Calls : send'[y].at # "idle" => send'[y].msg \in Browser!Messages
         /\ \A y \in Calls : send'[y].at = "returned" /\ send'[y].verdict = "block"
                                => LastIsKnown(send[y].msg)'
      BY <1>1, <2>3, <2>4, <2>9, MoveKeepsSends, ReasonsStay
  <2>11. ReasonsFit' /\ GrantIsStored'
      BY <1>0, <1>1, ReasonsStay DEF GrantIsStored
  <2>12. DialogFits'
      BY <1>0, <1>1, <2>10, ReasonsStay DEF DialogFits, BrowserTypes
  <2>13. BrowserTypes'
      BY <1>0, <1>1, <1>3, <2>10 DEF BrowserTypes
  <2> QED BY <1>3, <2>10, <2>11, <2>12, <2>13 DEF BrowserInv
<1>5. ASSUME NEW b \in Browser!Messages, Browser!Forget(b)
      PROVE  BrowserInv'
  <2>1. send' = send
      BY <1>5 DEF Browser!Forget
  <2>2. OffersFit' /\ StopsFit'
      BY <1>1, <2>1, StillSendsFit, ReasonsStay
  <2>3. ReasonsFit' /\ GrantIsStored'
      BY <1>0, <1>1, ReasonsStay DEF GrantIsStored
  <2>4. DialogFits'
      BY <1>0, <1>1, <2>1 DEF DialogFits, LastIsKnown
  <2>5. BrowserTypes'
      BY <1>0, <1>1, <1>3, <2>1 DEF BrowserTypes
  <2> QED BY <1>3, <2>2, <2>3, <2>4, <2>5 DEF BrowserInv
<1> QED BY <1>4, <1>5

\* The hash that is sent is that of the dialog's message, unless another was blocked after.
LEMMA JustifyKeeps ==
    ASSUME BrowserInv, NEW j \in Browser!Reasons, Browser!Justify(j)
    PROVE  BrowserInv'
<1>0. BrowserTypes /\ DialogFits /\ ReasonsFit /\ GrantIsStored /\ OffersFit /\ RecentFits
      /\ StopsFit
    BY DEF BrowserInv
<1>1. /\ reason[j].at = "none" /\ dialog' = {}
      /\ UNCHANGED <<send, recent, shown, lapsed, through>>
    BY DEF Browser!Justify
<1>2. UNCHANGED <<blocked, grant, replaced, after>>
    BY DEF Browser!Justify, Browser!workerVars
<1>3. PICK m \in dialog :
          /\ Browser!Justifiable(m)
          /\ reason' = [reason EXCEPT ![j] = [at |-> "minted", meant |-> dialog,
                                             hash |-> blocked[Finding[m]]]]
          /\ misled' = IF after[m] # {} THEN misled \cup {j} ELSE misled
    BY DEF Browser!Justify, Browser!LastBlocked
<1>4. dialog = {m} /\ m \in Browser!Messages /\ LastIsKnown(m)
    BY <1>0 DEF DialogFits, BrowserTypes
<1>5. Finding[m] \in Browser!Findings
    BY <1>4 DEF Browser!Findings
<1>6. PICK row_ \in ReasonRows :
          /\ reason' = [reason EXCEPT ![j] = row_]
          /\ row_.at = "minted" /\ row_.meant = {m} /\ row_.hash = blocked[Finding[m]]
  <2>1. [at |-> "minted", meant |-> dialog, hash |-> blocked[Finding[m]]] \in ReasonRows
      BY <1>0, <1>4, <1>5 DEF BrowserTypes, ReasonRows
  <2> QED BY <1>3, <1>4, <2>1
<1>7. /\ reason' \in [Browser!Reasons -> ReasonRows] /\ reason'[j] = row_
      /\ \A i \in Browser!Reasons : i # j => reason'[i] = reason[i]
      /\ misled \subseteq misled' /\ misled' \subseteq misled \cup {j}
      /\ after[m] # {} => j \in misled'
    BY <1>0, <1>3, <1>6 DEF BrowserTypes
<1>8. ReasonsFit'
  <2> SUFFICES ASSUME NEW i \in Browser!Reasons PROVE (ReasonFits(i) /\ PassFits(i))'
      BY DEF ReasonsFit
  <2>1. ReasonFits(i) /\ PassFits(i)
      BY <1>0 DEF ReasonsFit
  <2>2. CASE i = j
    <3>1. j \notin misled' => row_.hash = row_.meant
        BY <1>3, <1>4, <1>6, <1>7 DEF LastIsKnown
    <3>2. ReasonFits(j)'
        BY <1>3, <1>6, <1>7, <3>1 DEF ReasonFits
    <3>3. through'[j] = <<>>
        BY <1>1, <2>1, <2>2 DEF PassFits
    <3> QED BY <2>2, <3>2, <3>3 DEF PassFits
  <2>3. CASE i # j
      BY <1>1, <1>7, <2>1, <2>3 DEF ReasonFits, PassFits
  <2> QED BY <2>2, <2>3
<1>9. Browser!Spent' = Browser!Spent /\ Gone' = Gone
    BY <1>1, <1>2 DEF Browser!Spent, Gone
<1>10. OffersFit' /\ StopsFit'
    BY <1>1, <1>7, <1>9, StillSendsFit
<1>11. GrantIsStored'
  <2>1. grant # 0 => grant \in Browser!Reasons /\ reason'[grant].at = "stored"
      BY <1>0, <1>1, <1>7, ReasonsAre DEF GrantIsStored, BrowserTypes
  <2>2. \A i \in Browser!Reasons : reason'[i].at = "stored" => reason[i].at = "stored"
      BY <1>6, <1>7
  <2> QED BY <1>0, <1>2, <1>9, <2>1, <2>2 DEF GrantIsStored
<1>12. DialogFits' /\ RecentFits'
    BY <1>0, <1>1, <1>2 DEF DialogFits, RecentFits, LastIsKnown
<1>13. BrowserTypes'
    BY <1>0, <1>1, <1>2, <1>7 DEF BrowserTypes
<1> QED BY <1>8, <1>10, <1>11, <1>12, <1>13 DEF BrowserInv

\* The grant that another takes the place of is gone; so is one whose time is over.
LEMMA StorageKeeps ==
    ASSUME BrowserInv, NEW j \in Browser!Reasons, Browser!Store(j) \/ Browser!Expire(j)
    PROVE  BrowserInv'
<1>0. BrowserTypes /\ DialogFits /\ ReasonsFit /\ GrantIsStored /\ OffersFit /\ RecentFits
      /\ StopsFit
    BY DEF BrowserInv
<1>1. CASE Browser!Store(j)
  <2>1. /\ reason[j].at = "minted" /\ grant' = j /\ replaced' = replaced \cup ({grant} \ {0})
        /\ reason' = [reason EXCEPT ![j].at = "stored"]
        /\ UNCHANGED <<send, recent, dialog, shown, blocked, after, lapsed, misled, through>>
      BY <1>1 DEF Browser!Store, Browser!pageVars
  <2>2. /\ reason'[j].at = "stored" /\ reason'[j].meant = reason[j].meant
        /\ reason'[j].hash = reason[j].hash
        /\ reason' \in [Browser!Reasons -> ReasonRows]
        /\ \A i \in Browser!Reasons : i # j => reason'[i] = reason[i]
      BY <1>0, <2>1 DEF BrowserTypes, ReasonRows
  <2>3. ReasonsFit'
    <3> SUFFICES ASSUME NEW i \in Browser!Reasons PROVE (ReasonFits(i) /\ PassFits(i))'
        BY DEF ReasonsFit
    <3>1. ReasonFits(i) /\ PassFits(i)
        BY <1>0 DEF ReasonsFit
    <3>2. CASE i = j
        BY <2>1, <2>2, <3>1, <3>2 DEF ReasonFits, PassFits
    <3>3. CASE i # j
        BY <2>1, <2>2, <3>1, <3>3 DEF ReasonFits, PassFits
    <3> QED BY <3>2, <3>3
  <2>4. Browser!Spent' = Browser!Spent /\ Gone \subseteq Gone'
      BY <2>1 DEF Browser!Spent, Gone
  <2>5. OffersFit' /\ StopsFit'
      BY <2>1, <2>2, <2>4, StillSendsFit
  <2>6. GrantIsStored'
    <3>1. ASSUME NEW i \in Browser!Reasons \ (Browser!Spent \cup replaced'),
                 reason'[i].at = "stored", i # j
          PROVE  FALSE
      <4>1. grant = i /\ i # 0
          BY <1>0, <2>1, <2>2, <3>1, ReasonsAre DEF GrantIsStored
      <4> QED BY <2>1, <3>1, <4>1
    <3> QED BY <2>1, <2>2, <2>4, <3>1 DEF GrantIsStored
  <2>7. DialogFits' /\ RecentFits'
      BY <1>0, <2>1 DEF DialogFits, RecentFits, LastIsKnown
  <2>8. replaced' \subseteq Browser!Reasons /\ grant' \in 0 .. MaxReasons
      BY <1>0, <2>1, ReasonsAre DEF BrowserTypes
  <2>9. BrowserTypes'
      BY <1>0, <2>1, <2>2, <2>8 DEF BrowserTypes
  <2> QED BY <2>3, <2>5, <2>6, <2>7, <2>9 DEF BrowserInv
<1>2. CASE Browser!Expire(j)
  <2>1. /\ lapsed' = lapsed \cup {j}
        /\ UNCHANGED <<send, recent, dialog, shown, blocked, grant, replaced, after, reason,
                      misled, through>>
      BY <1>2 DEF Browser!Expire, Browser!pageVars, Browser!workerVars
  <2>2. Browser!Spent' = Browser!Spent /\ Gone \subseteq Gone'
      BY <2>1 DEF Browser!Spent, Gone
  <2>3. OffersFit' /\ StopsFit'
      BY <2>1, <2>2, StillSendsFit
  <2>4. ReasonsFit' /\ GrantIsStored'
      BY <1>0, <2>1, <2>2 DEF ReasonsFit, ReasonFits, PassFits, GrantIsStored
  <2>5. DialogFits' /\ RecentFits'
      BY <1>0, <2>1 DEF DialogFits, RecentFits, LastIsKnown
  <2>6. BrowserTypes'
      BY <1>0, <2>1 DEF BrowserTypes
  <2> QED BY <2>3, <2>4, <2>5, <2>6 DEF BrowserInv
<1> QED BY <1>1, <1>2

\* Every step of the browser keeps its invariant.
LEMMA BrowserStepsKeep == BrowserInv /\ [Browser!Next]_(Browser!sendVars) => BrowserInv'
<1> SUFFICES ASSUME BrowserInv, [Browser!Next]_(Browser!sendVars) PROVE BrowserInv'
    OBVIOUS
<1>0. BrowserTypes /\ DialogFits /\ ReasonsFit /\ GrantIsStored /\ OffersFit /\ RecentFits
      /\ StopsFit
    BY DEF BrowserInv
<1>1. CASE UNCHANGED Browser!sendVars
  <2>1. UNCHANGED <<send, recent, dialog, shown, blocked, grant, replaced, after, reason,
                    lapsed, misled, through>>
      BY <1>1 DEF Browser!sendVars, Browser!pageVars, Browser!workerVars, Browser!reasonVars
  <2>2. OffersFit' /\ StopsFit' /\ ReasonsFit'
      BY <2>1, StillSendsFit, ReasonsStay
  <2>3. GrantIsStored' /\ DialogFits' /\ RecentFits'
      BY <1>0, <2>1 DEF GrantIsStored, DialogFits, RecentFits, LastIsKnown, Browser!Spent
  <2>4. BrowserTypes'
      BY <1>0, <2>1 DEF BrowserTypes
  <2> QED BY <2>2, <2>3, <2>4 DEF BrowserInv
<1>2. ASSUME NEW s \in Calls,
             \/ \E m \in Browser!Messages : Browser!Press(s, m)
             \/ Browser!Attach(s) \/ Browser!Score(s) \/ Browser!Return(s)
             \/ Browser!Skip(s) \/ Browser!Receive(s) \/ Browser!GiveUp(s)
      PROVE  BrowserInv'
    BY <1>2, PressKeeps, AttachKeeps, ScoreKeeps, ReturnKeeps, SkipKeeps, AnswerIsReceived,
       PageKeeps
<1>3. ASSUME NEW m \in Browser!Messages, Browser!Forget(m)
      PROVE  BrowserInv'
    BY <1>3, PageKeeps
<1>4. ASSUME NEW j \in Browser!Reasons,
             Browser!Justify(j) \/ Browser!Store(j) \/ Browser!Expire(j)
      PROVE  BrowserInv'
    BY <1>4, JustifyKeeps, StorageKeeps
<1> QED BY <1>1, <1>2, <1>3, <1>4 DEF Browser!Next

\* Every page starts in it.
LEMMA BrowserStarts == Browser!Init => BrowserInv
<1> SUFFICES ASSUME Browser!Init PROVE BrowserInv
    OBVIOUS
<1>1. /\ send = [s \in Calls |-> Browser!Unsent]
      /\ recent = [m \in Browser!Messages |-> "none"] /\ dialog = {}
      /\ blocked = [f \in Browser!Findings |-> {}] /\ grant = 0
      /\ reason = [j \in Browser!Reasons |-> Browser!Unasked]
      /\ through = [j \in Browser!Reasons |-> <<>>]
      /\ lapsed = {} /\ replaced = {} /\ misled = {} /\ shown = {}
      /\ after = [m \in Browser!Messages |-> {}]
    BY DEF Browser!Init
<1>2. /\ Browser!Unasked \in ReasonRows /\ Browser!Unasked.at = "none"
      /\ Browser!Unasked.meant = {} /\ Browser!Unasked.hash = {}
    BY DEF Browser!Unasked, ReasonRows
<1>3. \A s \in Calls : send[s] = Browser!Unsent
    BY <1>1
<1>4. send \in [Calls -> SendRows] /\ \A s \in Calls : send[s].at = "idle"
    BY <1>1, UnsentSend
<1>5. 0 \in 0 .. MaxReasons /\ <<>> \in Seq(Browser!Messages)
    BY ReasonsAre
<1>6. BrowserTypes
    BY <1>1, <1>2, <1>4, <1>5 DEF BrowserTypes
<1>7. DialogFits /\ RecentFits
    BY <1>1, <1>4 DEF DialogFits, RecentFits
<1>8. ReasonsFit /\ GrantIsStored
    BY <1>1, <1>2 DEF ReasonsFit, ReasonFits, PassFits, GrantIsStored
<1>9. OffersFit /\ StopsFit
    BY <1>3, UnsentSend DEF OffersFit, OfferFits, StopsFit, ShownFits
<1> QED BY <1>6, <1>7, <1>8, <1>9 DEF BrowserInv

\* It says that a justification lets one message through, its own, and that what is stopped
\* had no justification left and was shown.
LEMMA BrowserHolds ==
    BrowserInv => Browser!JustifiedOnce /\ Browser!JustifiedGoesThrough /\ Browser!StopsAreShown
<1> SUFFICES ASSUME BrowserInv
    PROVE  Browser!JustifiedOnce /\ Browser!JustifiedGoesThrough /\ Browser!StopsAreShown
    OBVIOUS
<1>1. ASSUME NEW j \in Browser!Reasons
      PROVE  /\ Len(through[j]) <= 1
             /\ \A i \in DOMAIN through[j] :
                   /\ Browser!Justifiable(through[j][i])
                   /\ j \notin misled => reason[j].meant = {through[j][i]}
  <2>1. PassFits(j)
      BY DEF BrowserInv, ReasonsFit
  <2>2. CASE through[j] = <<>>
      BY <2>2
  <2>3. ASSUME NEW m \in Browser!Messages, through[j] = <<m>>, Browser!Justifiable(m),
               j \notin misled => reason[j].meant = {m}
        PROVE  /\ Len(through[j]) <= 1
               /\ \A i \in DOMAIN through[j] :
                     /\ Browser!Justifiable(through[j][i])
                     /\ j \notin misled => reason[j].meant = {through[j][i]}
      BY <2>3
  <2> QED BY <2>1, <2>2, <2>3 DEF PassFits
<1>2. Browser!JustifiedGoesThrough /\ Browser!StopsAreShown
    BY DEF BrowserInv, OffersFit, OfferFits, StopsFit, ShownFits, Gone,
           Browser!JustifiedGoesThrough, Browser!StopsAreShown
<1> QED BY <1>1, <1>2 DEF Browser!JustifiedOnce

-----------------------------------------------------------------------------
(* Turns together.                                                         *)

\* What a conversation, the hook and the browser rely on, by the part of the behaviour.
ContentInv ==
    /\ part = "turns" => TurnsInv
    /\ part = "hooks" => HooksInv
    /\ part = "browser" => BrowserInv

\* A step is of the part that its behaviour is of, or changes nothing.
LEMMA ContentSteps ==
    ASSUME [Next]_vars
    PROVE  /\ part' = part
           /\ part = "turns" => [Gateway!Next]_(Gateway!turnVars)
           /\ part = "hooks" => [Prompts!Next]_(Prompts!hookVars)
           /\ part = "browser" => [Browser!Next]_(Browser!sendVars)
<1>1. CASE UNCHANGED vars
    BY <1>1 DEF vars, contentVars, tenantVars, turnVars, hookVars, browserVars,
                Gateway!turnVars, Prompts!hookVars, Browser!sendVars, Browser!pageVars,
                Browser!workerVars, Browser!reasonVars
<1>2. CASE Next
    BY <1>2 DEF Next
<1> QED BY <1>1, <1>2

\* What each relies on holds in every reachable state.
THEOREM ContentInvariant == Spec => []ContentInv
<1>1. Init => ContentInv
  <2> SUFFICES ASSUME Init PROVE ContentInv
      OBVIOUS
  <2>1. part = "turns" => Gateway!Init
      BY DEF Init
  <2>2. part = "hooks" => Prompts!Init
      BY DEF Init
  <2>3. part = "browser" => Browser!Init
      BY DEF Init
  <2> QED BY <2>1, <2>2, <2>3, TurnsStart, HooksStart, BrowserStarts DEF ContentInv
<1>2. ContentInv /\ [Next]_vars => ContentInv'
  <2> SUFFICES ASSUME ContentInv, [Next]_vars PROVE ContentInv'
      OBVIOUS
  <2>1. part' = part
      BY ContentSteps
  <2>2. part = "turns" => TurnsInv'
      BY ContentSteps, TurnStepsKeep DEF ContentInv
  <2>3. part = "hooks" => HooksInv'
      BY ContentSteps, HookStepsKeep DEF ContentInv
  <2>4. part = "browser" => BrowserInv'
      BY ContentSteps, BrowserStepsKeep DEF ContentInv
  <2> QED BY <2>1, <2>2, <2>3, <2>4 DEF ContentInv
<1> QED BY <1>1, <1>2, PTL DEF Spec

(***************************************************************************)
(* For any texts, conversations, requests, transcripts, sends and reasons: *)
(* what must be refused stays out, a completion that is handed over was    *)
(* checked, a denied prompt stays out while its denial lasts and a repeat  *)
(* gets the first answer, and a justification lets one message through,    *)
(* the one it was given for, which it does unless it is gone; but for what *)
(* the histories excuse.                                                   *)
(***************************************************************************)
THEOREM TurnsCorrect == Spec => []TurnsAreHeld
<1>1. ContentInv => TurnsAreHeld
  <2>1. TurnsInv => Gateway!RefusedStaysOut /\ Gateway!AnswersAreChecked
      BY DEF TurnsInv
  <2> QED BY <2>1, HooksHold, BrowserHolds DEF ContentInv, TurnsAreHeld
<1>2. Spec => []ContentInv
    BY ContentInvariant
<1> QED BY <1>1, <1>2, PTL

===============================================================================
