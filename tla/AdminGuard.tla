----------------------------- MODULE AdminGuard -----------------------------
(***************************************************************************)
(* The rule that an organization never loses its last active admin, which  *)
(* three endpoints keep while requests overlap: PATCH /users/{id} (demote, *)
(* deactivate), POST /users/{id}/offboard and the SCIM deactivation.       *)
(*                                                                         *)
(* A request loads the person it removes, decides from that copy whether   *)
(* an admin is being removed, and only then locks the organization's row,  *)
(* counts, writes and counts again.  Postgres honours the lock; SQLite     *)
(* ignores it and has one writer at a time instead.                        *)
(***************************************************************************)
EXTENDS Naturals, FiniteSets

CONSTANTS
    People,    \* the organization's users
    Removals   \* the requests that remove someone, in flight at once

PeopleAssumption == IsFiniteSet(People) /\ People # {}

Ops     == {"demote", "deactivate", "offboard", "scim"}
Engines == {"postgres", "sqlite"}

VARIABLES
    engine,    \* the database in use
    admin,     \* the people whose committed role is admin
    active,    \* the people whose committed login is active
    removal,   \* removal[r]: what request r is doing
    stale      \* history: a removal wrote over a person promoted or restored
               \* after the removal had loaded them

guardVars == <<engine, admin, active, removal, stale>>

Steps == {"idle", "loaded", "counted", "written"}

NoRemoval == [at |-> "idle", op |-> "demote", of |-> CHOOSE u \in People : TRUE,
              admin |-> FALSE, active |-> FALSE]

TypeOK ==
    /\ engine \in Engines
    /\ admin \subseteq People /\ active \subseteq People
    /\ removal \in [Removals -> [at : Steps, op : Ops, of : People,
                                 admin : BOOLEAN, active : BOOLEAN]]
    /\ stale \in BOOLEAN

Init ==
    /\ engine \in Engines
    /\ admin \in (SUBSET People) \ {{}}
    /\ active = People
    /\ removal = [r \in Removals |-> NoRemoval]
    /\ stale = FALSE

ActiveAdmins == admin \cap active

\* The request decided, from what it had loaded, that an admin is being removed.
RemovesAdmin(r) ==
    /\ removal[r].admin
    /\ removal[r].op # "offboard" => removal[r].active

\* SCIM takes the lock whatever the role it loaded.
Locks(r) == RemovesAdmin(r) \/ removal[r].op = "scim"

HoldsLock(r) == Locks(r) /\ removal[r].at \in {"counted", "written"}

Moves(r, step) == removal' = [removal EXCEPT ![r].at = step]

Ends(r) == removal' = [removal EXCEPT ![r] = NoRemoval]

\* Another transaction may write the row of u: no open transaction has written
\* it, and under SQLite none has written anything.
Writable(u) ==
    \A r \in Removals : removal[r].at = "written"
        => engine = "postgres" /\ removal[r].of # u

(***************************************************************************)
(* A console request needs an active admin who is not the person removed,  *)
(* a SCIM one only the provisioning token.  A request that would change    *)
(* nothing goes no further.                                                *)
(***************************************************************************)
LoadTarget(r, op, u) ==
    /\ removal[r].at = "idle"
    /\ op # "scim" => ActiveAdmins \ {u} # {}
    /\ CASE op = "demote" -> u \in admin
         [] op \in {"deactivate", "scim"} -> u \in active
         [] op = "offboard" -> TRUE
    /\ removal' = [removal EXCEPT ![r] =
           [at |-> "loaded", op |-> op, of |-> u,
            admin |-> u \in admin, active |-> u \in active]]
    /\ UNCHANGED <<engine, admin, active, stale>>

\* The lock and the first count; the last active admin is refused.
LockAndCount(r) ==
    /\ removal[r].at = "loaded" /\ Locks(r)
    /\ engine = "postgres" => \A k \in Removals : ~HoldsLock(k)
    /\ IF RemovesAdmin(r) /\ Cardinality(ActiveAdmins) <= 1
       THEN Ends(r) ELSE Moves(r, "counted")
    /\ UNCHANGED <<engine, admin, active, stale>>

\* What the transaction of r sees of the active admins after its own write.
LeftBy(r) ==
    IF removal[r].op = "demote" \/ removal[r].active
    THEN ActiveAdmins \ {removal[r].of} ELSE ActiveAdmins

\* Mutant of WriteAndRecount: the admins are not counted again.
WriteOnly(r) ==
    LET u == removal[r].of IN
    /\ removal[r].at = IF Locks(r) THEN "counted" ELSE "loaded"
    /\ Writable(u)
    /\ Moves(r, "written")
    /\ stale' = (stale \/ (/\ u \in ActiveAdmins
                           /\ ~(removal[r].admin /\ removal[r].active)))
    /\ UNCHANGED <<engine, admin, active>>

\* The write, flushed but not committed, and the second count.
WriteAndRecount(r) ==
    LET u == removal[r].of IN
    /\ removal[r].at = IF Locks(r) THEN "counted" ELSE "loaded"
    /\ Writable(u)
    /\ IF RemovesAdmin(r) /\ LeftBy(r) = {}
       THEN Ends(r) /\ UNCHANGED stale
       ELSE /\ Moves(r, "written")
            /\ stale' = (stale \/ (/\ u \in ActiveAdmins
                                   /\ ~(removal[r].admin /\ removal[r].active)))
    /\ UNCHANGED <<engine, admin, active>>

\* Only the columns that differ from what was loaded are in the UPDATE.
Commit(r) ==
    LET u == removal[r].of IN
    /\ removal[r].at = "written"
    /\ admin'  = IF removal[r].op = "demote" THEN admin \ {u} ELSE admin
    /\ active' = IF removal[r].op # "demote" /\ removal[r].active
                 THEN active \ {u} ELSE active
    /\ Ends(r)
    /\ UNCHANGED <<engine, stale>>

\* An admin promotes someone in the console.
Promote(u) ==
    /\ ActiveAdmins # {} /\ Writable(u) /\ u \notin admin
    /\ admin' = admin \cup {u}
    /\ UNCHANGED <<engine, active, removal, stale>>

\* An admin restores a login in the console, or the directory a non-admin's.
Restore(u) ==
    /\ ActiveAdmins # {} \/ u \notin admin
    /\ Writable(u) /\ u \notin active
    /\ active' = active \cup {u}
    /\ UNCHANGED <<engine, admin, removal, stale>>

Next ==
    \/ \E r \in Removals :
          \/ \E op \in Ops, u \in People : LoadTarget(r, op, u)
          \/ LockAndCount(r)
          \/ WriteAndRecount(r)
          \/ Commit(r)
    \/ \E u \in People : Promote(u) \/ Restore(u)

Spec == Init /\ [][Next]_guardVars

-----------------------------------------------------------------------------
(***************************************************************************)
(* However removals overlap, the organization keeps an active admin, on    *)
(* either database, as long as no removal wrote over a person who was      *)
(* promoted or restored after it had loaded them: the one case in which    *)
(* the endpoints decide from a stale copy that nobody is being removed     *)
(* (auth.py update_user, offboard_user; scim.py _apply_active).            *)
(***************************************************************************)
AlwaysAnAdmin == ActiveAdmins # {} \/ stale

=============================================================================
