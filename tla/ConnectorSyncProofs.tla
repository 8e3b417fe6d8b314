------------------------ MODULE ConnectorSyncProofs ------------------------
(***************************************************************************)
(* Proofs about ConnectorSync, for every set of connectors, schedulers and *)
(* requests and every value of the times and bounds.                       *)
(***************************************************************************)
EXTENDS ConnectorSync, FiniteSetTheorems, TLAPS

(***************************************************************************)
(* Operators                                                               *)
(***************************************************************************)

\* A tick's listing is a sequence of connectors.
LEMMA ListingsType ==
    \A S \in SUBSET Connectors : Listings(S) \subseteq Seq(Connectors)
<1> SUFFICES ASSUME NEW S \in SUBSET Connectors, NEW q \in Listings(S)
             PROVE  q \in Seq(Connectors)
    OBVIOUS
<1>1. IsFiniteSet(S)
    BY FS_Subset, ConnectorsAssumption
<1>2. Cardinality(S) \in Nat
    BY <1>1, FS_CardinalityType
<1>3. q \in [1 .. Cardinality(S) -> Connectors]
    BY DEF Listings
<1> QED
    BY <1>2, <1>3

\* A stamp is a time, no later than the finish and no earlier than what makes
\* the connector due again CATCH_UP_SECS after it.
LEMMA StampBounds ==
    ASSUME clock \in Nat, NEW resume \in Int
    PROVE  /\ Stamp(resume) \in Int
           /\ Stamp(resume) <= clock
           /\ Stamp(resume) >= clock + CatchUp - Interval
BY TimesAssumption DEF Stamp

\* However a scan ends, it ends in one conditional write: of a time that makes
\* the connector due no sooner than CATCH_UP_SECS from now, and of a position
\* not before the one it started from, or the one the row has already.
LEMMA FinishShape ==
    ASSUME TypeOK, WorkersHaveJobs, NEW a \in Actors, Finish(a)
    PROVE  \E stamp \in Int, position \in Items :
               /\ pc[a] = "scan" /\ job[a] \in Connectors
               /\ FinishSync(a, stamp, position)
               /\ stamp >= clock + CatchUp - Interval
               /\ position >= base[a] \/ position = cursor[job[a]]
<1> USE DEF TypeOK, WorkersHaveJobs
<1>1. pc[a] = "scan" /\ job[a] \in Connectors
    BY DEF Finish, ScanDone, ScanError, ScanCrash
<1>2. clock \in Int /\ clock >= clock + CatchUp - Interval
    BY TimesAssumption
<1>3. \A position \in base[a] .. LastItem :
          position \in Items /\ position >= base[a]
    BY TimesAssumption DEF Items
<1>4. CASE ScanDone(a)
    <2>1. \A resume \in clock .. clock + Interval + 1 :
              Stamp(resume) \in Int /\ Stamp(resume) >= clock + CatchUp - Interval
        BY StampBounds
    <2> QED
        BY <1>1, <1>2, <1>3, <1>4, <2>1 DEF ScanDone
<1>5. CASE ScanError(a)
    BY <1>1, <1>2, <1>3, <1>5 DEF ScanError
<1>6. CASE ScanCrash(a)
    BY <1>1, <1>2, <1>6 DEF ScanCrash
<1> QED
    BY <1>4, <1>5, <1>6 DEF Finish

(***************************************************************************)
(* The initial states                                                      *)
(***************************************************************************)

\* The invariant holds when no process has begun and no connector is claimed.
LEMMA InitIInv == Init => IInv
<1> SUFFICES ASSUME Init PROVE IInv
    OBVIOUS
<1>1. TypeOK
    BY TimesAssumption DEF Init, TypeOK, Items
<1>2. WorkersHaveJobs /\ StampsArePast /\ LostClaimsAreStale
      /\ ScansEndInTime /\ FinishesAreStamped /\ HolderIsCurrent
    BY DEF Init, WorkersHaveJobs, StampsArePast, LostClaimsAreStale, Working,
           ScansEndInTime, FinishesAreStamped, HolderIsCurrent, Scanning
<1> QED
    BY <1>1, <1>2 DEF IInv

(***************************************************************************)
(* Type correctness                                                        *)
(***************************************************************************)

\* A step keeps the types, and a job behind every worker that scans.
LEMMA TypeStep ==
    TypeOK /\ WorkersHaveJobs /\ [Next]_vars => TypeOK' /\ WorkersHaveJobs'
<1> SUFFICES ASSUME TypeOK, WorkersHaveJobs, [Next]_vars
             PROVE  TypeOK' /\ WorkersHaveJobs'
    OBVIOUS
<1> USE DEF TypeOK, WorkersHaveJobs, rowVars, tickVars, scanVars
<1>1. CASE Tick
    BY <1>1 DEF Tick
<1>2. ASSUME NEW i \in Schedulers, TickStart(i)
      PROVE  TypeOK' /\ WorkersHaveJobs'
    <2>1. {c \in Scheduled : exists[c]} \in SUBSET Connectors
        BY ConnectorsAssumption
    <2>2. queue' \in [Schedulers -> Seq(Connectors)]
        BY <1>2, <2>1, ListingsType DEF TickStart
    <2> QED
        BY <1>2, <2>2 DEF TickStart, Actors
<1>3. ASSUME NEW i \in Schedulers, SkipRow(i)
      PROVE  TypeOK' /\ WorkersHaveJobs'
    BY <1>3 DEF SkipRow, AtRow
<1>4. ASSUME NEW i \in Schedulers, ClaimRow(i)
      PROVE  TypeOK' /\ WorkersHaveJobs'
    <2>1. Head(queue[i]) \in Connectors /\ Tail(queue[i]) \in Seq(Connectors)
        BY <1>4 DEF ClaimRow, AtRow
    <2>2. i \in Actors
        BY DEF Actors
    <2> QED
        BY <1>4, <2>1, <2>2 DEF ClaimRow, ClaimSync, Claims
<1>5. ASSUME NEW i \in Schedulers, TickEnd(i)
      PROVE  TypeOK' /\ WorkersHaveJobs'
    <2>1. clock + LoopSleep \in Nat
        BY TimesAssumption
    <2>2. /\ queue' \in [Schedulers -> Seq(Connectors)]
          /\ ran' \in [Schedulers -> Nat]
          /\ wake' \in [Schedulers -> Nat]
        BY <1>5, <2>1 DEF TickEnd
    <2>3. /\ pc' \in [Actors -> {"idle", "tick", "claimed", "scan"}]
          /\ now' \in [Actors -> Nat]
        BY <1>5 DEF TickEnd
    <2>4. WorkersHaveJobs'
        BY <1>5 DEF TickEnd
    <2> QED
        BY <1>5, <2>2, <2>3, <2>4 DEF TickEnd
<1>6. ASSUME NEW r \in Requesters, NEW c \in Connectors, RequestScan(r, c)
      PROVE  TypeOK' /\ WorkersHaveJobs'
    BY <1>6 DEF RequestScan, ClaimSync, Claims, Actors
<1>7. ASSUME NEW a \in Actors, ReadRow(a)
      PROVE  TypeOK' /\ WorkersHaveJobs'
    BY <1>7 DEF ReadRow
<1>8. ASSUME NEW a \in Actors, ReadGone(a)
      PROVE  TypeOK' /\ WorkersHaveJobs'
    BY <1>8, TimesAssumption DEF ReadGone, JobOver, Items
<1>9. ASSUME NEW a \in Actors, Finish(a)
      PROVE  TypeOK' /\ WorkersHaveJobs'
    <2>1. PICK stamp \in Int, position \in Items :
              pc[a] = "scan" /\ FinishSync(a, stamp, position)
        BY <1>9, FinishShape
    <2>2. job[a] \in Connectors
        BY <2>1
    <2>3. JobOver(a)
        BY <2>1 DEF FinishSync
    <2>4. UNCHANGED <<clock, exists, queue, ran, wake, deaths>>
        BY <2>1 DEF FinishSync
    <2>5. /\ last' \in [Connectors -> Int \cup {Never}]
          /\ claim' \in [Connectors -> Claims \cup {NoClaim}]
          /\ cursor' \in [Connectors -> Items]
          /\ finished' \in [Connectors -> Nat \cup {Never}]
        BY <2>1, <2>2 DEF FinishSync
    <2>6. 0 \in Items
        BY TimesAssumption DEF Items
    <2> QED
        BY <2>3, <2>4, <2>5, <2>6 DEF JobOver
<1>10. ASSUME NEW a \in Actors, Die(a)
       PROVE  TypeOK' /\ WorkersHaveJobs'
    BY <1>10, TimesAssumption DEF Die, Items
<1>11. ASSUME NEW c \in Connectors, DeleteConnector(c)
       PROVE  TypeOK' /\ WorkersHaveJobs'
    BY <1>11 DEF DeleteConnector
<1>12. CASE UNCHANGED vars
    BY <1>12 DEF vars
<1> QED
    BY <1>1, <1>2, <1>3, <1>4, <1>5, <1>6, <1>7, <1>8, <1>9, <1>10, <1>11,
       <1>12 DEF Next, Loop, Scan

(***************************************************************************)
(* Time                                                                    *)
(***************************************************************************)

\* No actor works with a clock reading from the future.
LEMMA PastStep ==
    TypeOK /\ StampsArePast /\ [Next]_vars => StampsArePast'
<1> SUFFICES ASSUME TypeOK, StampsArePast, [Next]_vars
             PROVE  StampsArePast'
    OBVIOUS
<1> USE DEF TypeOK, StampsArePast, rowVars, tickVars, scanVars
<1>1. CASE Tick
    BY <1>1 DEF Tick
<1>2. ASSUME NEW i \in Schedulers, Loop(i)
      PROVE  StampsArePast'
    <2>1. CASE TickStart(i)
        BY <2>1 DEF TickStart
    <2>2. CASE SkipRow(i)
        BY <2>2 DEF SkipRow
    <2>3. CASE ClaimRow(i)
        BY <2>3 DEF ClaimRow, ClaimSync
    <2>4. CASE TickEnd(i)
        BY <2>4 DEF TickEnd
    <2> QED
        BY <1>2, <2>1, <2>2, <2>3, <2>4 DEF Loop
<1>3. ASSUME NEW r \in Requesters, NEW c \in Connectors, RequestScan(r, c)
      PROVE  StampsArePast'
    BY <1>3 DEF RequestScan, ClaimSync
<1>4. ASSUME NEW a \in Actors, ReadRow(a) \/ ReadGone(a)
      PROVE  StampsArePast'
    <2>1. CASE ReadRow(a)
        BY <2>1 DEF ReadRow
    <2>2. CASE ReadGone(a)
        BY <2>2 DEF ReadGone, JobOver
    <2> QED
        BY <1>4, <2>1, <2>2
<1>5. ASSUME NEW a \in Actors, Finish(a)
      PROVE  StampsArePast'
    <2>1. JobOver(a) /\ UNCHANGED clock
        BY <1>5 DEF Finish, ScanDone, ScanError, ScanCrash, FinishSync
    <2> QED
        BY <2>1 DEF JobOver
<1>6. ASSUME NEW a \in Actors, Die(a)
      PROVE  StampsArePast'
    BY <1>6 DEF Die
<1>7. ASSUME NEW c \in Connectors, DeleteConnector(c)
      PROVE  StampsArePast'
    BY <1>7 DEF DeleteConnector
<1>8. CASE UNCHANGED vars
    BY <1>8 DEF vars
<1> QED
    BY <1>1, <1>2, <1>3, <1>4, <1>5, <1>6, <1>7, <1>8 DEF Next, Scan

\* The scan of a scheduled platform does not outlive its budget: the clock
\* waits for it, and nothing else moves the time it started.
LEMMA BudgetStep ==
    TypeOK /\ ScansEndInTime /\ [Next]_vars => ScansEndInTime'
<1> SUFFICES ASSUME TypeOK, ScansEndInTime, [Next]_vars
             PROVE  ScansEndInTime'
    OBVIOUS
<1> USE TimesAssumption
    DEF TypeOK, ScansEndInTime, rowVars, tickVars, scanVars
<1>1. CASE Tick
    BY <1>1 DEF Tick, OutOfTime
<1>2. ASSUME NEW i \in Schedulers, Loop(i)
      PROVE  ScansEndInTime'
    <2>1. CASE TickStart(i)
        BY <2>1 DEF TickStart
    <2>2. CASE SkipRow(i)
        BY <2>2 DEF SkipRow
    <2>3. CASE ClaimRow(i)
        BY <2>3 DEF ClaimRow, ClaimSync
    <2>4. CASE TickEnd(i)
        BY <2>4 DEF TickEnd
    <2> QED
        BY <1>2, <2>1, <2>2, <2>3, <2>4 DEF Loop
<1>3. ASSUME NEW r \in Requesters, NEW c \in Connectors, RequestScan(r, c)
      PROVE  ScansEndInTime'
    BY <1>3 DEF RequestScan, ClaimSync
<1>4. ASSUME NEW a \in Actors, ReadRow(a) \/ ReadGone(a)
      PROVE  ScansEndInTime'
    <2>1. CASE ReadRow(a)
        BY <2>1 DEF ReadRow
    <2>2. CASE ReadGone(a)
        BY <2>2 DEF ReadGone, JobOver
    <2> QED
        BY <1>4, <2>1, <2>2
<1>5. ASSUME NEW a \in Actors, Finish(a)
      PROVE  ScansEndInTime'
    <2>1. JobOver(a) /\ UNCHANGED clock
        BY <1>5 DEF Finish, ScanDone, ScanError, ScanCrash, FinishSync
    <2> QED
        BY <2>1 DEF JobOver
<1>6. ASSUME NEW a \in Actors, Die(a)
      PROVE  ScansEndInTime'
    BY <1>6 DEF Die
<1>7. ASSUME NEW c \in Connectors, DeleteConnector(c)
      PROVE  ScansEndInTime'
    BY <1>7 DEF DeleteConnector
<1>8. CASE UNCHANGED vars
    BY <1>8 DEF vars
<1> QED
    BY <1>1, <1>2, <1>3, <1>4, <1>5, <1>6, <1>7, <1>8 DEF Next, Scan

(***************************************************************************)
(* Claims                                                                  *)
(***************************************************************************)

\* A claim is taken from a scan that holds it only when it is stale, and given
\* back only by its holder.
LEMMA LostStep ==
    IInv /\ [Next]_vars => LostClaimsAreStale'
<1> SUFFICES ASSUME IInv, [Next]_vars,
                    NEW b \in Actors, NEW d \in Connectors,
                    Working(b, d)', claim'[d] # Token(b)'
             PROVE  clock' >= now'[b] + ClaimSecs
    BY DEF LostClaimsAreStale
<1> USE TimesAssumption
    DEF IInv, TypeOK, LostClaimsAreStale, Working, Token, rowVars, tickVars,
        scanVars
<1>1. CASE Tick
    BY <1>1 DEF Tick
<1>2. ASSUME NEW i \in Schedulers, TickStart(i)
      PROVE  clock' >= now'[b] + ClaimSecs
    BY <1>2 DEF TickStart
<1>3. ASSUME NEW i \in Schedulers, SkipRow(i) \/ TickEnd(i)
      PROVE  clock' >= now'[b] + ClaimSecs
    <2>1. CASE SkipRow(i)
        BY <2>1 DEF SkipRow
    <2>2. CASE TickEnd(i)
        BY <2>2 DEF TickEnd
    <2> QED
        BY <1>3, <2>1, <2>2
<1>4. ASSUME NEW a \in Actors, NEW c \in Connectors, NEW t \in Nat,
             ClaimSync(a, c, t), t <= clock, now' = [now EXCEPT ![a] = t],
             pc[a] \in {"idle", "tick"}
      PROVE  clock' >= now'[b] + ClaimSecs
    <2>1. CASE b = a
        BY <1>4, <2>1 DEF ClaimSync
    <2>2. CASE b # a /\ c = d
        <3>1. Working(b, d) /\ now'[b] = now[b] /\ clock' = clock
            BY <1>4, <2>2 DEF ClaimSync
        <3>2. CASE claim[d] = Token(b)
            <4>1. claim[d] # NoClaim
                BY <3>2, NullsAssumption
            <4>2. now[b] <= t - ClaimSecs
                BY <1>4, <2>2, <3>2, <4>1 DEF ClaimSync, Claimable
            <4> QED
                BY <1>4, <3>1, <4>2
        <3>3. CASE claim[d] # Token(b)
            BY <3>1, <3>3
        <3> QED
            BY <3>2, <3>3
    <2>3. CASE b # a /\ c # d
        BY <1>4, <2>3 DEF ClaimSync
    <2> QED
        BY <2>1, <2>2, <2>3
<1>5. ASSUME NEW i \in Schedulers, ClaimRow(i)
      PROVE  clock' >= now'[b] + ClaimSecs
    <2>1. i \in Actors /\ Head(queue[i]) \in Connectors /\ pc[i] = "tick"
        BY <1>5 DEF ClaimRow, AtRow, Actors
    <2>2. now[i] <= clock /\ now' = [now EXCEPT ![i] = now[i]]
        BY <1>5, <2>1 DEF ClaimRow, StampsArePast
    <2> QED
        BY <1>4, <1>5, <2>1, <2>2 DEF ClaimRow
<1>6. ASSUME NEW r \in Requesters, NEW c \in Connectors, RequestScan(r, c)
      PROVE  clock' >= now'[b] + ClaimSecs
    <2>1. r \in Actors /\ clock <= clock
        BY DEF Actors
    <2>2. pc[r] = "idle" /\ now' = [now EXCEPT ![r] = clock]
        BY <1>6 DEF RequestScan
    <2>3. ClaimSync(r, c, clock)
        BY <1>6 DEF RequestScan
    <2> QED
        BY <1>4, <2>1, <2>2, <2>3
<1>7. ASSUME NEW a \in Actors, ReadRow(a) \/ ReadGone(a)
      PROVE  clock' >= now'[b] + ClaimSecs
    <2>1. CASE ReadRow(a)
        BY <2>1 DEF ReadRow
    <2>2. CASE ReadGone(a)
        BY <2>2 DEF ReadGone, JobOver
    <2> QED
        BY <1>7, <2>1, <2>2
<1>8. ASSUME NEW a \in Actors, Finish(a)
      PROVE  clock' >= now'[b] + ClaimSecs
    <2>1. PICK stamp \in Int, position \in Items :
              job[a] \in Connectors /\ FinishSync(a, stamp, position)
        BY <1>8, FinishShape
    <2>2. b # a
        BY <2>1 DEF FinishSync, JobOver
    <2>3. /\ Working(b, d) /\ now'[b] = now[b] /\ clock' = clock
          /\ claim[d] = Token(b) => claim'[d] = claim[d]
        BY <2>1, <2>2 DEF FinishSync, JobOver, Holds
    <2> QED
        BY <2>3
<1>9. ASSUME NEW a \in Actors, Die(a)
      PROVE  clock' >= now'[b] + ClaimSecs
    BY <1>9 DEF Die
<1>10. ASSUME NEW c \in Connectors, DeleteConnector(c)
       PROVE  clock' >= now'[b] + ClaimSecs
    BY <1>10 DEF DeleteConnector
<1>11. CASE UNCHANGED vars
    BY <1>11 DEF vars
<1> QED
    BY <1>1, <1>2, <1>3, <1>5, <1>6, <1>7, <1>8, <1>9, <1>10, <1>11
    DEF Next, Loop, Scan

\* A recorded finish is stamped so that the connector is not due again before
\* CATCH_UP_SECS have passed.
LEMMA StampStep ==
    IInv /\ [Next]_vars => FinishesAreStamped'
<1> SUFFICES ASSUME IInv, [Next]_vars
             PROVE  FinishesAreStamped'
    OBVIOUS
<1> USE DEF IInv, TypeOK, FinishesAreStamped, rowVars
<1>1. ASSUME UNCHANGED <<last, finished>>
      PROVE  FinishesAreStamped'
    BY <1>1
<1>2. ASSUME NEW a \in Actors, Finish(a)
      PROVE  FinishesAreStamped'
    <2>1. PICK stamp \in Int, position \in Items :
              /\ job[a] \in Connectors
              /\ FinishSync(a, stamp, position)
              /\ stamp >= clock + CatchUp - Interval
        BY <1>2, FinishShape
    <2>2. stamp # Never
        BY NullsAssumption
    <2> QED
        BY <2>1, <2>2 DEF FinishSync
<1>3. ASSUME NEW i \in Schedulers, Loop(i)
      PROVE  UNCHANGED <<last, finished>>
    BY <1>3 DEF Loop, TickStart, SkipRow, ClaimRow, ClaimSync, TickEnd
<1>4. ASSUME NEW a \in Actors, ReadRow(a) \/ ReadGone(a) \/ Die(a)
      PROVE  UNCHANGED <<last, finished>>
    BY <1>4 DEF ReadRow, ReadGone, Die
<1> QED
    BY <1>1, <1>2, <1>3, <1>4
    DEF Next, Scan, Tick, RequestScan, ClaimSync, DeleteConnector, vars

\* A scan that holds its claim started from the cursor the row has: taking the
\* claim makes every other scan stop holding it, and only the holder writes.
LEMMA CurrentStep ==
    IInv /\ [Next]_vars => HolderIsCurrent'
<1> SUFFICES ASSUME IInv, [Next]_vars,
                    NEW b \in Actors, NEW d \in Connectors,
                    Scanning(b, d)', Holds(b, d)'
             PROVE  base'[b] = cursor'[d]
    BY DEF HolderIsCurrent
<1> USE DEF IInv, TypeOK, HolderIsCurrent, Scanning, Holds, Token, rowVars,
            tickVars, scanVars
<1>1. CASE Tick
    BY <1>1 DEF Tick
<1>2. ASSUME NEW i \in Schedulers, TickStart(i)
      PROVE  base'[b] = cursor'[d]
    BY <1>2 DEF TickStart
<1>3. ASSUME NEW i \in Schedulers, SkipRow(i) \/ TickEnd(i)
      PROVE  base'[b] = cursor'[d]
    <2>1. CASE SkipRow(i)
        BY <2>1 DEF SkipRow
    <2>2. CASE TickEnd(i)
        BY <2>2 DEF TickEnd
    <2> QED
        BY <1>3, <2>1, <2>2
<1>4. ASSUME NEW a \in Actors, NEW c \in Connectors, NEW t \in Nat,
             ClaimSync(a, c, t), now' = [now EXCEPT ![a] = t]
      PROVE  base'[b] = cursor'[d]
    <2>1. b # a
        BY <1>4 DEF ClaimSync
    <2>2. c # d
        BY <1>4, <2>1 DEF ClaimSync
    <2> QED
        BY <1>4, <2>1, <2>2 DEF ClaimSync
<1>5. ASSUME NEW i \in Schedulers, ClaimRow(i)
      PROVE  base'[b] = cursor'[d]
    <2>1. i \in Actors /\ Head(queue[i]) \in Connectors
        BY <1>5 DEF ClaimRow, AtRow, Actors
    <2>2. now[i] \in Nat /\ now' = [now EXCEPT ![i] = now[i]]
        BY <1>5, <2>1 DEF ClaimRow
    <2> QED
        BY <1>4, <1>5, <2>1, <2>2 DEF ClaimRow
<1>6. ASSUME NEW r \in Requesters, NEW c \in Connectors, RequestScan(r, c)
      PROVE  base'[b] = cursor'[d]
    <2>1. r \in Actors
        BY DEF Actors
    <2>2. ClaimSync(r, c, clock) /\ now' = [now EXCEPT ![r] = clock]
        BY <1>6 DEF RequestScan
    <2> QED
        BY <1>4, <2>1, <2>2
<1>7. ASSUME NEW a \in Actors, ReadRow(a) \/ ReadGone(a)
      PROVE  base'[b] = cursor'[d]
    <2>1. CASE ReadRow(a)
        BY <2>1 DEF ReadRow
    <2>2. CASE ReadGone(a)
        BY <2>2 DEF ReadGone, JobOver
    <2> QED
        BY <1>7, <2>1, <2>2
<1>8. ASSUME NEW a \in Actors, Finish(a)
      PROVE  base'[b] = cursor'[d]
    <2>1. PICK stamp \in Int, position \in Items :
              job[a] \in Connectors /\ FinishSync(a, stamp, position)
        BY <1>8, FinishShape
    <2>2. b # a
        BY <2>1 DEF FinishSync, JobOver
    <2>3. pc[b] = "scan" /\ job[b] = d /\ base'[b] = base[b] /\ now'[b] = now[b]
        BY <2>1, <2>2 DEF FinishSync, JobOver
    <2>4. claim[d] = Token(b) /\ cursor'[d] = cursor[d]
        <3>1. CASE Holds(a, job[a])
            <4>1. claim' = [claim EXCEPT ![job[a]] = NoClaim]
                BY <2>1, <3>1 DEF FinishSync
            <4>2. Token(b)' \in [by : Actors, at : Nat]
                BY <2>3
            <4>3. d # job[a]
                BY <2>1, <4>1, <4>2, NullsAssumption
            <4> QED
                BY <2>1, <2>3, <3>1, <4>1, <4>3 DEF FinishSync
        <3>2. CASE ~Holds(a, job[a])
            BY <2>1, <2>3, <3>2 DEF FinishSync
        <3> QED
            BY <3>1, <3>2
    <2>5. exists[d]
        BY <2>1 DEF FinishSync
    <2> QED
        BY <2>3, <2>4, <2>5
<1>9. ASSUME NEW a \in Actors, Die(a)
      PROVE  base'[b] = cursor'[d]
    BY <1>9 DEF Die
<1>10. ASSUME NEW c \in Connectors, DeleteConnector(c)
       PROVE  base'[b] = cursor'[d]
    BY <1>10 DEF DeleteConnector
<1>11. CASE UNCHANGED vars
    BY <1>11 DEF vars
<1> QED
    BY <1>1, <1>2, <1>3, <1>5, <1>6, <1>7, <1>8, <1>9, <1>10, <1>11
    DEF Next, Loop, Scan

(***************************************************************************)
(* The theorems                                                            *)
(***************************************************************************)

\* The steps above, put together: any step keeps the invariant.
LEMMA StepIInv == IInv /\ [Next]_vars => IInv'
<1> SUFFICES ASSUME IInv, [Next]_vars PROVE IInv'
    OBVIOUS
<1>1. TypeOK' /\ WorkersHaveJobs'
    BY TypeStep DEF IInv
<1>2. StampsArePast'
    BY PastStep DEF IInv
<1>3. LostClaimsAreStale'
    BY LostStep
<1>4. ScansEndInTime'
    BY BudgetStep DEF IInv
<1>5. FinishesAreStamped'
    BY StampStep
<1>6. HolderIsCurrent'
    BY CurrentStep
<1> QED
    BY <1>1, <1>2, <1>3, <1>4, <1>5, <1>6 DEF IInv

\* Every reachable state satisfies the inductive invariant: claims pass on only
\* by going stale, budgets are kept, finishes are stamped.
THEOREM InductiveInvariant == Spec => []IInv
<1>1. Init => IInv
    BY InitIInv
<1>2. IInv /\ [Next]_vars => IInv'
    BY StepIInv
<1> QED
    BY <1>1, <1>2, PTL DEF Spec

\* The rows, the actors' locals and the history keep their types.
THEOREM TypeCorrect == Spec => []TypeOK
<1>1. IInv => TypeOK
    BY DEF IInv
<1> QED
    BY <1>1, InductiveInvariant, PTL

\* A scan that still holds its claim started from the cursor the row has now
\* (claim_sync, the read after it, and _finish_sync together).
THEOREM HolderCorrect == Spec => []HolderIsCurrent
<1>1. IInv => HolderIsCurrent
    BY DEF IInv
<1> QED
    BY <1>1, InductiveInvariant, PTL

\* Two scans of a scheduled connector overlap only when one of them began long
\* after the time its claim is stamped with: the scan that lost its claim lost
\* it to age, and is still inside its budget.
THEOREM OverlapCorrect == Spec => []OverlapNeedsAnOldStamp
<1>1. IInv => OverlapNeedsAnOldStamp
    <2> SUFFICES ASSUME IInv, NEW a \in Actors, NEW b \in Actors,
                        NEW c \in Scheduled,
                        a # b, Scanning(a, c), Scanning(b, c)
                 PROVE  \E x \in {a, b} :
                            started[x] - now[x] >= ClaimSecs - ScanMax
        BY DEF OverlapNeedsAnOldStamp
    <2> USE DEF IInv, TypeOK, Scanning
    <2>1. PICK x \in {a, b} : claim[c] # Token(x)
        BY DEF Token
    <2>2. c \in Connectors
        BY ConnectorsAssumption
    <2>3. clock >= now[x] + ClaimSecs
        BY <2>1, <2>2 DEF LostClaimsAreStale, Working
    <2>4. clock <= started[x] + ScanMax
        BY <2>1 DEF ScansEndInTime
    <2>5. started[x] - now[x] >= ClaimSecs - ScanMax
        BY <2>3, <2>4, TimesAssumption
    <2> QED
        BY <2>5
<1> QED
    BY <1>1, InductiveInvariant, PTL

\* The cursor of a connector never moves back (_finish_sync).
THEOREM CursorMonotone == Spec => CursorNeverRegresses
<1>1. IInv /\ [Next]_vars
          => [\A c \in Connectors : cursor'[c] >= cursor[c]]_cursor
    <2> SUFFICES ASSUME IInv, [Next]_vars, NEW c \in Connectors
                 PROVE  cursor' = cursor \/ cursor'[c] >= cursor[c]
        BY DEF IInv, TypeOK, Items
    <2>1. ASSUME NEW a \in Actors, Finish(a)
          PROVE  cursor'[c] >= cursor[c]
        <3> USE DEF IInv, TypeOK, Items
        <3>1. PICK stamp \in Int, position \in Items :
                  /\ pc[a] = "scan" /\ job[a] \in Connectors
                  /\ FinishSync(a, stamp, position)
                  /\ position >= base[a] \/ position = cursor[job[a]]
            BY <2>1, FinishShape
        <3>2. Holds(a, job[a]) => base[a] = cursor[job[a]]
            BY <3>1 DEF HolderIsCurrent, Scanning
        <3>3. CASE Holds(a, job[a]) /\ c = job[a]
            BY <3>1, <3>2, <3>3, TimesAssumption DEF FinishSync
        <3>4. CASE ~(Holds(a, job[a]) /\ c = job[a])
            BY <3>1, <3>4, TimesAssumption DEF FinishSync
        <3> QED
            BY <3>3, <3>4
    <2>2. ASSUME NEW i \in Schedulers, Loop(i)
          PROVE  cursor' = cursor
        BY <2>2 DEF Loop, TickStart, SkipRow, ClaimRow, ClaimSync, TickEnd,
                    rowVars
    <2>3. ASSUME NEW a \in Actors, ReadRow(a) \/ ReadGone(a) \/ Die(a)
          PROVE  cursor' = cursor
        BY <2>3 DEF ReadRow, ReadGone, Die, rowVars
    <2> QED
        BY <2>1, <2>2, <2>3
        DEF Next, Scan, Tick, RequestScan, ClaimSync, DeleteConnector, vars,
            rowVars
<1> QED
    BY <1>1, InductiveInvariant, PTL DEF Spec, CursorNeverRegresses

\* No scheduler claims a connector sooner than CATCH_UP_SECS after the last
\* recorded scan of it finished (_stamp_for, claim_sync's due_before).
THEOREM ScansAreSpaced == Spec => NoHammering
<1>1. IInv /\ [Next]_vars
          => [\A c \in Connectors :
                 claim'[c] # claim[c] /\ claim'[c] # NoClaim
                     /\ claim'[c].by \in Schedulers /\ finished[c] # Never
                 => clock >= finished[c] + CatchUp]_claim
    <2> SUFFICES ASSUME IInv, [Next]_vars, NEW c \in Connectors,
                        claim'[c] # claim[c], claim'[c] # NoClaim,
                        claim'[c].by \in Schedulers, finished[c] # Never
                 PROVE  clock >= finished[c] + CatchUp
        OBVIOUS
    <2> USE DEF IInv, TypeOK
    <2>1. ASSUME NEW i \in Schedulers, ClaimRow(i)
          PROVE  clock >= finished[c] + CatchUp
        <3>1. c = Head(queue[i])
            BY <2>1 DEF ClaimRow, ClaimSync
        <3>2. last[c] # Never /\ last[c] >= finished[c] + CatchUp - Interval
            BY DEF FinishesAreStamped
        <3>3. last[c] <= now[i] - Interval
            BY <2>1, <3>1, <3>2 DEF ClaimRow, Due
        <3>4. now[i] <= clock /\ now[i] \in Nat
            BY DEF StampsArePast, Actors
        <3>5. last[c] \in Int /\ finished[c] \in Nat
            BY <3>2
        <3> QED
            BY <3>2, <3>3, <3>4, <3>5, TimesAssumption
    <2>2. ASSUME NEW r \in Requesters, NEW d \in Connectors, RequestScan(r, d)
          PROVE  FALSE
        <3>1. claim'[c].by = r
            BY <2>2 DEF RequestScan, ClaimSync
        <3> QED
            BY <3>1, ActorsAssumption
    <2>3. ASSUME NEW a \in Actors, Finish(a)
          PROVE  FALSE
        <3>1. PICK stamp \in Int, position \in Items :
                  job[a] \in Connectors /\ FinishSync(a, stamp, position)
            BY <2>3, FinishShape
        <3> QED
            BY <3>1 DEF FinishSync
    <2>4. ASSUME NEW i \in Schedulers, TickStart(i) \/ SkipRow(i) \/ TickEnd(i)
          PROVE  claim' = claim
        BY <2>4 DEF TickStart, SkipRow, TickEnd, rowVars
    <2>5. ASSUME NEW a \in Actors, ReadRow(a) \/ ReadGone(a) \/ Die(a)
          PROVE  claim' = claim
        BY <2>5 DEF ReadRow, ReadGone, Die, rowVars
    <2> QED
        BY <2>1, <2>2, <2>3, <2>4, <2>5
        DEF Next, Loop, Scan, Tick, DeleteConnector, vars, rowVars
<1> QED
    BY <1>1, InductiveInvariant, PTL DEF Spec, NoHammering
============================================================================
