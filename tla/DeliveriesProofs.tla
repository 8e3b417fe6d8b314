--------------------------- MODULE DeliveriesProofs ---------------------------
(***************************************************************************)
(* Proofs about what MCRequests delivers and counts, for all its           *)
(* constants: GitHub's pushes are read, Graph's subscriptions last, a      *)
(* weekly report's mails are sent once and owed to nobody unlisted, every  *)
(* archived event is in one place and every failed scan is counted once.   *)
(***************************************************************************)
EXTENDS MCRequests, FiniteSetTheorems, SequenceTheorems, FunctionTheorems,
        WellFoundedInduction, TLAPS

-----------------------------------------------------------------------------
(* GitHub's deliveries: one that is ignored is pending or was read.        *)

\* The instance has its own copy of the library's definitions: they are the same.
LEMMA SamePushes == ASSUME NEW S PROVE Pushes!Cardinality(S) = Cardinality(S)
BY DEF Pushes!Cardinality, Cardinality

PushTypes ==
    /\ now \in Nat
    /\ ignored \in [Deliveries -> Nat] /\ readUntil \in [Deliveries -> Nat]
    /\ queue \in Seq(Deliveries)
    /\ scan \in [Pool -> SUBSET Deliveries]
    /\ \A w \in Pool : \A d, e \in scan[w] : d = e

(***************************************************************************)
(* Once nothing of a delivery is pending, what its last scan wrote is in   *)
(* the map: an hour if it was read, nothing if not.  While its hold never  *)
(* ran out under a scan, it is pending at most once, and no longer when it *)
(* is remembered as read.                                                  *)
(***************************************************************************)
PushInv ==
    /\ PushTypes
    /\ \A d \in Deliveries :
          /\ Pushes!Ignores(d) => Pushes!Pending(d) > 0 \/ readUntil[d] >= ignored[d]
          /\ Pushes!Pending(d) <= 1 \/ d \in outlived
          /\ d \in again => d \in outlived
          /\ d \notin outlived /\ readUntil[d] > now =>
                 Pushes!Pending(d) = 0 /\ ignored[d] >= readUntil[d]

\* What waits and what is scanned can be counted.
LEMMA PendingCounts ==
    ASSUME PushTypes, NEW d \in Deliveries
    PROVE  /\ IsFiniteSet(Pushes!Waiting(d)) /\ IsFiniteSet(Pushes!Scanning(d))
           /\ Cardinality(Pushes!Waiting(d)) \in Nat /\ Cardinality(Pushes!Scanning(d)) \in Nat
           /\ Pushes!Pending(d) = Cardinality(Pushes!Waiting(d)) + Cardinality(Pushes!Scanning(d))
           /\ Pushes!Pending(d) \in Nat
<1>1. Len(queue) \in Nat
    BY DEF PushTypes
<1>2. IsFiniteSet(1 .. Len(queue))
    BY <1>1, FS_Interval
<1>3. IsFiniteSet(Pool)
    BY Assumptions DEF Pushes!TTLAssumption, Pushes!IsFiniteSet, IsFiniteSet
<1>4. IsFiniteSet(Pushes!Waiting(d)) /\ IsFiniteSet(Pushes!Scanning(d))
    BY <1>2, <1>3, FS_Subset DEF Pushes!Waiting, Pushes!Scanning
<1>5. PICK a, b \in Nat : a = Cardinality(Pushes!Waiting(d)) /\ b = Cardinality(Pushes!Scanning(d))
    BY <1>4, FS_CardinalityType
<1>6. Pushes!Pending(d) = a + b
    BY <1>5, SamePushes DEF Pushes!Pending
<1> QED BY <1>4, <1>5, <1>6

\* The times and bounds are numbers.
LEMMA PushTimes ==
    /\ InflightTTL \in Nat \ {0} /\ SeenTTL \in Nat /\ SeenTTL >= InflightTTL
BY Assumptions DEF Pushes!TTLAssumption

\* An accepted delivery waits once more.
LEMMA AcceptCounts ==
    ASSUME PushTypes, NEW d \in Deliveries, Pushes!Accept(d)
    PROVE  /\ PushTypes'
           /\ Pushes!Pending(d)' = Pushes!Pending(d) + 1
           /\ \A e \in Deliveries : e # d => Pushes!Pending(e)' = Pushes!Pending(e)
<1>1. /\ queue' = Append(queue, d) /\ ignored' = [ignored EXCEPT ![d] = now + InflightTTL]
      /\ UNCHANGED <<now, scan, readUntil>>
    BY DEF Pushes!Accept
<1>2. /\ queue' \in Seq(Deliveries) /\ Len(queue') = Len(queue) + 1 /\ Len(queue) \in Nat
      /\ queue'[Len(queue) + 1] = d
      /\ \A k \in 1 .. Len(queue) : queue'[k] = queue[k]
    BY <1>1 DEF PushTypes
<1>3. PushTypes'
    BY <1>1, <1>2, PushTimes DEF PushTypes
<1>4. PICK n \in Nat : n = Len(queue)
    BY <1>2
<1>5. /\ Pushes!Waiting(d)' = Pushes!Waiting(d) \cup {n + 1} /\ n + 1 \notin Pushes!Waiting(d)
      /\ \A e \in Deliveries : e # d => Pushes!Waiting(e)' = Pushes!Waiting(e)
      /\ \A e : Pushes!Scanning(e)' = Pushes!Scanning(e)
    BY <1>1, <1>2, <1>4 DEF Pushes!Waiting, Pushes!Scanning
<1>6. Cardinality(Pushes!Waiting(d)') = Cardinality(Pushes!Waiting(d)) + 1
    BY <1>5, PendingCounts, FS_AddElement
<1>7. \A e \in Deliveries : Pushes!Pending(e)' = Cardinality(Pushes!Waiting(e)') + Cardinality(Pushes!Scanning(e)')
    BY SamePushes DEF Pushes!Pending
<1>8. PICK a, b \in Nat : a = Cardinality(Pushes!Waiting(d)) /\ b = Cardinality(Pushes!Scanning(d))
    BY PendingCounts
<1>9. Pushes!Pending(d)' = Pushes!Pending(d) + 1
  <2>1. Pushes!Pending(d)' = (a + 1) + b
      BY <1>5, <1>6, <1>7, <1>8
  <2>2. Pushes!Pending(d) = a + b
      BY <1>8, PendingCounts
  <2> QED BY <2>1, <2>2
<1>10. \A e \in Deliveries : e # d => Pushes!Pending(e)' = Pushes!Pending(e)
    BY <1>5, <1>7, PendingCounts
<1> QED BY <1>3, <1>9, <1>10

\* A delivery that a worker takes is scanned instead of waiting.
LEMMA BeginCounts ==
    ASSUME PushTypes, NEW w \in Pool, Pushes!BeginScan(w)
    PROVE  PushTypes' /\ \A e \in Deliveries : Pushes!Pending(e)' = Pushes!Pending(e)
<1>1. /\ scan[w] = {} /\ queue # <<>> /\ scan' = [scan EXCEPT ![w] = {Head(queue)}]
      /\ queue' = Tail(queue) /\ UNCHANGED <<now, ignored, readUntil>>
    BY DEF Pushes!BeginScan
<1>2. PICK n \in Nat : n + 1 = Len(queue)
  <2>1. Len(queue) \in Nat /\ Len(queue) # 0
      BY <1>1 DEF PushTypes
  <2>2. Len(queue) - 1 \in Nat /\ (Len(queue) - 1) + 1 = Len(queue)
      BY <2>1
  <2> QED BY <2>2
<1>3. /\ Head(queue) = queue[1] /\ queue[1] \in Deliveries
      /\ queue' \in Seq(Deliveries) /\ Len(queue') = n
      /\ \A k \in 1 .. n : queue'[k] = queue[k + 1]
    BY <1>1, <1>2 DEF PushTypes
<1>4. /\ scan' \in [Pool -> SUBSET Deliveries] /\ scan'[w] = {queue[1]}
      /\ \A v \in Pool : v # w => scan'[v] = scan[v]
    BY <1>1, <1>3 DEF PushTypes
<1>5. PushTypes'
  <2>1. ASSUME NEW v \in Pool, NEW d \in scan'[v], NEW e \in scan'[v] PROVE d = e
    <3>1. CASE v = w
        BY <1>4, <3>1
    <3>2. CASE v # w
      <4>1. d \in scan[v] /\ e \in scan[v]
          BY <1>4, <3>2
      <4> QED BY <4>1 DEF PushTypes
    <3> QED BY <3>1, <3>2
  <2> QED BY <1>1, <1>3, <1>4, <2>1 DEF PushTypes
<1>6. ASSUME NEW e \in Deliveries PROVE Pushes!Pending(e)' = Pushes!Pending(e)
  <2> DEFINE rest == Pushes!Waiting(e) \ {1}
             W == Pushes!Waiting(e)'
  <2>1. IsFiniteSet(rest) /\ Cardinality(rest) \in Nat
      BY PendingCounts, FS_Subset, FS_CardinalityType
  <2>2. rest = {k \in 2 .. n + 1 : queue[k] = e} /\ W = {k \in 1 .. n : queue[k + 1] = e}
      BY <1>2, <1>3 DEF Pushes!Waiting
  <2>3. Cardinality(W) = Cardinality(rest) /\ IsFiniteSet(W)
    <3>1. [k \in W |-> k + 1] \in Bijection(W, rest)
      <4> DEFINE f == [k \in W |-> k + 1]
      <4>1. f \in [W -> rest]
          BY <2>2
      <4>2. \A k, j \in W : f[k] = f[j] => k = j
          BY <2>2
      <4>3. \A j \in rest : \E k \in W : f[k] = j
        <5>1. ASSUME NEW j \in rest PROVE j - 1 \in W /\ (j - 1) + 1 = j
            BY <2>2
        <5> QED BY <5>1
      <4> QED BY <4>1, <4>2, <4>3, Fun_IsBij
    <3>2. ExistsBijection(W, rest)
        BY <3>1 DEF ExistsBijection
    <3>3. IsFiniteSet(W)
      <4>1. IsFiniteSet(1 .. n) /\ W \subseteq 1 .. n
          BY <1>2, <2>2, FS_Interval
      <4> QED BY <4>1, FS_Subset
    <3> QED BY <2>1, <3>2, <3>3, FS_Bijection
  <2>4. Pushes!Pending(e)' = Cardinality(W) + Cardinality(Pushes!Scanning(e)')
      BY SamePushes DEF Pushes!Pending
  <2> HIDE DEF W
  <2>5. CASE queue[1] = e
    <3>1. Pushes!Waiting(e) = rest \cup {1} /\ 1 \notin rest
        BY <1>2, <2>5 DEF Pushes!Waiting
    <3>2. Pushes!Scanning(e)' = Pushes!Scanning(e) \cup {w} /\ w \notin Pushes!Scanning(e)
        BY <1>1, <1>4, <2>5 DEF Pushes!Scanning
    <3> HIDE DEF rest
    <3>3. Cardinality(Pushes!Waiting(e)) = Cardinality(rest) + 1
        BY <2>1, <3>1, FS_AddElement
    <3>4. Cardinality(Pushes!Scanning(e)') = Cardinality(Pushes!Scanning(e)) + 1
        BY <3>2, PendingCounts, FS_AddElement
    <3>5. PICK a, b \in Nat : a = Cardinality(rest) /\ b = Cardinality(Pushes!Scanning(e))
        BY <2>1, PendingCounts
    <3> QED BY <2>3, <2>4, <3>3, <3>4, <3>5, PendingCounts
  <2>6. CASE queue[1] # e
    <3>1. Pushes!Waiting(e) = rest
        BY <1>2, <2>6 DEF Pushes!Waiting
    <3>2. Pushes!Scanning(e)' = Pushes!Scanning(e)
        BY <1>1, <1>4, <2>6 DEF Pushes!Scanning
    <3> QED BY <2>3, <2>4, <3>1, <3>2, PendingCounts
  <2> QED BY <2>5, <2>6
<1> QED BY <1>5, <1>6

\* A scan that ends is no longer pending, and what came of it is written.
LEMMA EndCounts ==
    ASSUME PushTypes, NEW w \in Pool, NEW ok \in BOOLEAN, Pushes!EndScan(w, ok)
    PROVE  /\ PushTypes'
           /\ \E d \in Deliveries :
                 /\ Pushes!Settle(d, ok)
                 /\ Pushes!Pending(d) = Pushes!Pending(d)' + 1
                 /\ Pushes!Pending(d)' \in Nat
                 /\ \A e \in Deliveries : e # d => Pushes!Pending(e)' = Pushes!Pending(e)
<1>1. /\ scan[w] # {} /\ (\A d \in scan[w] : Pushes!Settle(d, ok))
      /\ scan' = [scan EXCEPT ![w] = {}] /\ UNCHANGED <<now, queue>>
    BY DEF Pushes!EndScan
<1>2. PICK d \in Deliveries : scan[w] = {d} /\ Pushes!Settle(d, ok)
    BY <1>1 DEF PushTypes
<1>3. /\ scan' \in [Pool -> SUBSET Deliveries] /\ scan'[w] = {}
      /\ \A v \in Pool : v # w => scan'[v] = scan[v]
    BY <1>1 DEF PushTypes
<1>4. ignored' \in [Deliveries -> Nat] /\ readUntil' \in [Deliveries -> Nat]
    BY <1>2, PushTimes DEF PushTypes, Pushes!Settle
<1>5. PushTypes'
  <2>1. \A v \in Pool : \A i, j \in scan'[v] : i = j
      BY <1>3 DEF PushTypes
  <2> QED BY <1>1, <1>3, <1>4, <2>1 DEF PushTypes
<1>6. /\ \A e : Pushes!Waiting(e)' = Pushes!Waiting(e)
      /\ Pushes!Scanning(d)' = Pushes!Scanning(d) \ {w} /\ w \in Pushes!Scanning(d)
      /\ \A e \in Deliveries : e # d => Pushes!Scanning(e)' = Pushes!Scanning(e)
    BY <1>1, <1>2, <1>3 DEF Pushes!Waiting, Pushes!Scanning
<1>7. \A e \in Deliveries : Pushes!Pending(e)' = Cardinality(Pushes!Waiting(e)') + Cardinality(Pushes!Scanning(e)')
    BY SamePushes DEF Pushes!Pending
<1>8. PICK a, b \in Nat : a = Cardinality(Pushes!Waiting(d)) /\ b = Cardinality(Pushes!Scanning(d))
    BY PendingCounts
<1>9. Cardinality(Pushes!Scanning(d)') = b - 1 /\ b - 1 \in Nat
  <2>1. Cardinality(Pushes!Scanning(d)') = b - 1
    <3>1. IsFiniteSet(Pushes!Scanning(d)) /\ w \in Pushes!Scanning(d)
        BY <1>6, PendingCounts
    <3>2. Cardinality(Pushes!Scanning(d) \ {w}) = Cardinality(Pushes!Scanning(d)) - 1
        BY <3>1, FS_RemoveElement
    <3> QED BY <1>6, <1>8, <3>2
  <2>2. IsFiniteSet(Pushes!Scanning(d)')
      BY <1>6, PendingCounts, FS_Subset
  <2> QED BY <2>1, <2>2, FS_CardinalityType
<1>10. Pushes!Pending(d)' = a + (b - 1) /\ Pushes!Pending(d) = a + b
    BY <1>6, <1>7, <1>8, <1>9, PendingCounts
<1>11. \A e \in Deliveries : e # d => Pushes!Pending(e)' = Pushes!Pending(e)
    BY <1>6, <1>7, PendingCounts
<1>12. Pushes!Pending(d) = Pushes!Pending(d)' + 1 /\ Pushes!Pending(d)' \in Nat
    BY <1>8, <1>9, <1>10
<1> QED BY <1>2, <1>5, <1>11, <1>12

\* Every step of the deliveries keeps it.
LEMMA PushKept ==
    ASSUME PushInv, [Pushes!Next]_(Pushes!pushVars)
    PROVE  PushInv'
<1> USE PushTimes
<1>1. PushTypes
    BY DEF PushInv
<1>2. \A e \in Deliveries : Pushes!Pending(e) \in Nat
    BY <1>1, PendingCounts
<1>3. now \in Nat /\ ignored \in [Deliveries -> Nat] /\ readUntil \in [Deliveries -> Nat]
    BY <1>1 DEF PushTypes
<1>4. ASSUME NEW d \in Deliveries, Pushes!Accept(d) PROVE PushInv'
  <2>1. /\ ~Pushes!Ignores(d) /\ ignored' = [ignored EXCEPT ![d] = now + InflightTTL]
        /\ outlived' = (IF Pushes!Pending(d) > 0 THEN outlived \cup {d} ELSE outlived)
        /\ again' = (IF readUntil[d] > now THEN again \cup {d} ELSE again)
        /\ UNCHANGED <<now, readUntil>>
      BY <1>4 DEF Pushes!Accept
  <2>2. /\ PushTypes' /\ Pushes!Pending(d)' = Pushes!Pending(d) + 1
        /\ \A e \in Deliveries : e # d => Pushes!Pending(e)' = Pushes!Pending(e)
      BY <1>1, <1>4, AcceptCounts
  <2>3. readUntil[d] > now => d \in outlived
      BY <1>3, <2>1 DEF PushInv, Pushes!Ignores
  <2>4. ASSUME NEW e \in Deliveries
        PROVE  /\ Pushes!Ignores(e)' => Pushes!Pending(e)' > 0 \/ readUntil'[e] >= ignored'[e]
               /\ Pushes!Pending(e)' <= 1 \/ e \in outlived'
               /\ e \in again' => e \in outlived'
               /\ e \notin outlived' /\ readUntil'[e] > now' =>
                      Pushes!Pending(e)' = 0 /\ ignored'[e] >= readUntil'[e]
    <3>1. CASE e = d
      <4>1. PICK p \in Nat : p = Pushes!Pending(d) /\ Pushes!Pending(e)' = p + 1
          BY <1>2, <2>2, <3>1
      <4>2. p = 0 \/ d \in outlived'
          BY <2>1, <4>1
      <4>3. d \in again' => d \in outlived'
          BY <2>1, <2>3 DEF PushInv
      <4>4. readUntil'[d] > now' => d \in outlived'
          BY <2>1, <2>3
      <4> QED BY <3>1, <4>1, <4>2, <4>3, <4>4
    <3>2. CASE e # d
      <4>1. /\ Pushes!Pending(e)' = Pushes!Pending(e) /\ ignored'[e] = ignored[e]
            /\ readUntil'[e] = readUntil[e] /\ now' = now
            /\ (e \in outlived' <=> e \in outlived) /\ (e \in again' <=> e \in again)
          BY <1>3, <2>1, <2>2, <3>2
      <4> QED BY <4>1 DEF PushInv, Pushes!Ignores
    <3> QED BY <3>1, <3>2
  <2> QED BY <2>2, <2>4 DEF PushInv
<1>5. ASSUME NEW w \in Pool, Pushes!BeginScan(w) PROVE PushInv'
  <2>1. UNCHANGED <<now, ignored, readUntil, outlived, again>>
      BY <1>5 DEF Pushes!BeginScan
  <2>2. PushTypes' /\ \A e \in Deliveries : Pushes!Pending(e)' = Pushes!Pending(e)
      BY <1>1, <1>5, BeginCounts
  <2> QED BY <2>1, <2>2 DEF PushInv, Pushes!Ignores
<1>6. ASSUME NEW w \in Pool, NEW ok \in BOOLEAN, Pushes!EndScan(w, ok) PROVE PushInv'
  <2>1. UNCHANGED <<now, outlived, again>>
      BY <1>6 DEF Pushes!EndScan
  <2>2. PICK d \in Deliveries :
            /\ Pushes!Settle(d, ok) /\ Pushes!Pending(d) = Pushes!Pending(d)' + 1
            /\ Pushes!Pending(d)' \in Nat
            /\ \A e \in Deliveries : e # d => Pushes!Pending(e)' = Pushes!Pending(e)
      BY <1>1, <1>6, EndCounts
  <2>3. PushTypes'
      BY <1>1, <1>6, EndCounts
  <2>4. /\ ignored'[d] = (IF ok THEN now + SeenTTL ELSE 0)
        /\ readUntil'[d] = (IF ok THEN now + SeenTTL ELSE readUntil[d])
        /\ \A e \in Deliveries : e # d => ignored'[e] = ignored[e] /\ readUntil'[e] = readUntil[e]
      BY <1>3, <2>2 DEF Pushes!Settle
  <2>5. ASSUME NEW e \in Deliveries
        PROVE  /\ Pushes!Ignores(e)' => Pushes!Pending(e)' > 0 \/ readUntil'[e] >= ignored'[e]
               /\ Pushes!Pending(e)' <= 1 \/ e \in outlived'
               /\ e \in again' => e \in outlived'
               /\ e \notin outlived' /\ readUntil'[e] > now' =>
                      Pushes!Pending(e)' = 0 /\ ignored'[e] >= readUntil'[e]
    <3>1. CASE e = d
      <4>1. PICK p \in Nat : p = Pushes!Pending(e)' /\ Pushes!Pending(d) = p + 1
          BY <2>2, <3>1
      <4>2. p = 0 \/ d \in outlived
          BY <4>1 DEF PushInv
      <4>3. d \in outlived \/ ~(readUntil[d] > now)
          BY <4>1 DEF PushInv
      <4>4. readUntil[d] \in Nat /\ readUntil[d] >= 0
          BY <1>3
      <4>5. Pushes!Ignores(e)' => readUntil'[e] >= ignored'[e]
          BY <1>3, <2>1, <2>4, <3>1, <4>4 DEF Pushes!Ignores
      <4>6. d \in again => d \in outlived
          BY DEF PushInv
      <4>7. d \notin outlived /\ readUntil'[d] > now' => ok
          BY <2>1, <2>4, <4>3
      <4> QED BY <1>3, <2>1, <2>4, <3>1, <4>1, <4>2, <4>5, <4>6, <4>7
    <3>2. CASE e # d
        BY <2>1, <2>2, <2>4, <3>2 DEF PushInv, Pushes!Ignores
    <3> QED BY <3>1, <3>2
  <2> QED BY <2>3, <2>5 DEF PushInv
<1>7. CASE Pushes!Tick
  <2>1. now' = now + 1 /\ UNCHANGED <<ignored, queue, scan, readUntil, outlived, again>>
      BY <1>7 DEF Pushes!Tick
  <2>2. PushTypes'
      BY <1>1, <2>1 DEF PushTypes
  <2>3. \A e : Pushes!Pending(e)' = Pushes!Pending(e)
      BY <2>1 DEF Pushes!Pending, Pushes!Waiting, Pushes!Scanning
  <2>4. \A e \in Deliveries : /\ ignored[e] > now' => ignored[e] > now
                              /\ readUntil[e] > now' => readUntil[e] > now
      BY <1>3, <2>1
  <2> QED BY <2>1, <2>2, <2>3, <2>4 DEF PushInv, Pushes!Ignores
<1>8. CASE Pushes!Die
  <2>1. /\ ignored' = [d \in Deliveries |-> 0] /\ readUntil' = [d \in Deliveries |-> 0]
        /\ queue' = <<>> /\ scan' = [w \in Pool |-> {}] /\ UNCHANGED <<now, outlived, again>>
      BY <1>8 DEF Pushes!Die
  <2>2. PushTypes'
      BY <1>3, <2>1 DEF PushTypes
  <2>3. \A e \in Deliveries : Pushes!Waiting(e)' = {} /\ Pushes!Scanning(e)' = {}
      BY <2>1 DEF Pushes!Waiting, Pushes!Scanning
  <2>4. \A e \in Deliveries : Pushes!Pending(e)' = 0
      BY <2>3, SamePushes, FS_EmptySet DEF Pushes!Pending
  <2>5. \A e \in Deliveries : ~(ignored'[e] > now') /\ ~(readUntil'[e] > now')
      BY <1>3, <2>1
  <2> QED BY <2>1, <2>2, <2>4, <2>5 DEF PushInv, Pushes!Ignores
<1>9. CASE UNCHANGED Pushes!pushVars
    BY <1>9 DEF Pushes!pushVars, PushInv, PushTypes, Pushes!Ignores, Pushes!Pending,
                Pushes!Waiting, Pushes!Scanning
<1> QED BY <1>4, <1>5, <1>6, <1>7, <1>8, <1>9 DEF Pushes!Next

\* No delivery has come in the initial state.
LEMMA PushInit == Pushes!Init => PushInv
<1> SUFFICES ASSUME Pushes!Init PROVE PushInv
    OBVIOUS
<1>1. /\ now = 0 /\ ignored = [d \in Deliveries |-> 0] /\ readUntil = [d \in Deliveries |-> 0]
      /\ queue = <<>> /\ scan = [w \in Pool |-> {}] /\ outlived = {} /\ again = {}
    BY DEF Pushes!Init
<1>2. PushTypes
    BY <1>1 DEF PushTypes
<1>3. \A e \in Deliveries : Pushes!Waiting(e) = {} /\ Pushes!Scanning(e) = {}
    BY <1>1 DEF Pushes!Waiting, Pushes!Scanning
<1>4. \A e \in Deliveries : Pushes!Pending(e) = 0
    BY <1>3, SamePushes, FS_EmptySet DEF Pushes!Pending
<1> QED BY <1>1, <1>2, <1>4 DEF PushInv, Pushes!Ignores

\* What the invariant says of a delivery that is ignored.
LEMMA PushHolds == PushInv => Pushes!PushesSettled
<1> SUFFICES ASSUME PushInv, NEW d \in Deliveries, Pushes!Ignores(d),
                    ~(Pushes!Pending(d) > 0)
             PROVE  readUntil[d] > now
    BY DEF PushInv, Pushes!PushesSettled
<1>1. /\ now \in Nat /\ ignored[d] \in Nat /\ readUntil[d] \in Nat
      /\ ignored[d] > now /\ readUntil[d] >= ignored[d]
    BY DEF PushInv, PushTypes, Pushes!Ignores
<1> QED BY <1>1

-----------------------------------------------------------------------------
(* Graph's subscriptions: no state promises more than Graph granted.       *)

Ends == [Subscriptions!Subs -> Nat]
ScanRows == [at : {"idle", "begun", "called"}, loaded : Ends, has : Ends, good : BOOLEAN, since : Nat]

\* What a state has of each subscription is no later than its end at Graph.
Granted(k) == \A s \in Subscriptions!Subs : k[s] <= expires[s]

SubscriptionTypes ==
    /\ time \in Nat /\ expires \in Ends /\ known \in Ends
    /\ sync \in ScanRows /\ notified \in ScanRows
    /\ forgotten \in BOOLEAN /\ checked \subseteq Nat

(***************************************************************************)
(* Nor does any copy that a scan will write over the state promise more.   *)
(* A sync whose call went well holds an end that is far enough away, and   *)
(* no clock ticks before it is saved; and since it was, unless one was     *)
(* forgotten, the state has a subscription that was granted long enough.   *)
(***************************************************************************)
SubscriptionInv ==
    /\ SubscriptionTypes
    /\ Granted(known) /\ Granted(sync.loaded) /\ Granted(sync.has) /\ Granted(notified.loaded)
    /\ \A s \in Subscriptions!Subs : expires[s] <= time + Life
    /\ sync.good => /\ sync.at = "called" /\ sync.since = time
                    /\ \E s \in Subscriptions!Subs : sync.has[s] > time + RenewAhead
    /\ ~forgotten => \A t \in checked : \E s \in Subscriptions!Subs :
                        known[s] # 0 /\ expires[s] > t + RenewAhead

\* The bounds are numbers, and nobody knows of a subscription at first.
LEMMA EndsAre ==
    /\ Life \in Nat /\ RenewAhead \in Nat /\ MaxSubs \in Nat /\ RenewAhead < Life
    /\ Subscriptions!NoneKnown \in Ends /\ \A s \in Subscriptions!Subs : Subscriptions!NoneKnown[s] = 0
    /\ Subscriptions!Resting = [at |-> "idle", loaded |-> Subscriptions!NoneKnown,
                                has |-> Subscriptions!NoneKnown, good |-> FALSE, since |-> 0]
    /\ Subscriptions!Resting \in ScanRows
<1>1. /\ Life \in Nat /\ RenewAhead \in Nat /\ MaxSubs \in Nat /\ RenewAhead < Life
    BY Assumptions DEF Subscriptions!LifeAssumption
<1>2. /\ Subscriptions!NoneKnown \in Ends
      /\ \A s \in Subscriptions!Subs : Subscriptions!NoneKnown[s] = 0
    BY DEF Ends, Subscriptions!NoneKnown, Subscriptions!Unknown
<1>3. Subscriptions!Resting = [at |-> "idle", loaded |-> Subscriptions!NoneKnown,
                               has |-> Subscriptions!NoneKnown, good |-> FALSE, since |-> 0]
    BY DEF Subscriptions!Resting
<1>4. Subscriptions!Resting \in ScanRows
    BY <1>2, <1>3 DEF ScanRows
<1> QED BY <1>1, <1>2, <1>3, <1>4

(***************************************************************************)
(* A call of the sync that leaves the state alone: Graph's ends move only  *)
(* to the full life, and the sync's copy is no later.                      *)
(***************************************************************************)
LEMMA CallKeeps ==
    ASSUME SubscriptionInv, NEW good_ \in BOOLEAN, NEW has_ \in Ends,
           sync.at = "begun", expires' \in Ends,
           \A s \in Subscriptions!Subs :
               expires'[s] = expires[s] \/ expires'[s] = time + Life,
           \A s \in Subscriptions!Subs : has_[s] <= expires'[s],
           good_ => \E s \in Subscriptions!Subs : has_[s] > time + RenewAhead,
           sync' = [at |-> "called", loaded |-> sync.loaded, has |-> has_, good |-> good_,
                    since |-> time],
           UNCHANGED <<time, known, notified, checked, forgotten>>
    PROVE  SubscriptionInv'
<1>1. /\ time \in Nat /\ expires \in Ends /\ known \in Ends /\ sync.loaded \in Ends
      /\ notified.loaded \in Ends /\ checked \subseteq Nat
    BY DEF SubscriptionInv, SubscriptionTypes, ScanRows
<1>2. /\ sync' \in ScanRows /\ sync'.loaded = sync.loaded /\ sync'.has = has_
      /\ sync'.good = good_ /\ sync'.at = "called" /\ sync'.since = time
    BY <1>1 DEF ScanRows
<1>3. SubscriptionTypes'
    BY <1>2 DEF SubscriptionInv, SubscriptionTypes
<1>4. ASSUME NEW s \in Subscriptions!Subs PROVE expires[s] <= expires'[s] /\ expires'[s] <= time + Life
    BY <1>1, EndsAre DEF Ends, SubscriptionInv
<1>5. ASSUME NEW k \in Ends, Granted(k) PROVE \A s \in Subscriptions!Subs : k[s] <= expires'[s]
  <2>1. ASSUME NEW s \in Subscriptions!Subs PROVE k[s] <= expires'[s]
    <3>1. k[s] \in Nat /\ expires[s] \in Nat /\ expires'[s] \in Nat /\ k[s] <= expires[s]
        BY <1>1, <1>5 DEF Ends, Granted
    <3> QED BY <1>4, <3>1
  <2> QED BY <2>1
<1>6. /\ Granted(known)' /\ Granted(sync.loaded)' /\ Granted(sync.has)'
      /\ Granted(notified.loaded)'
    BY <1>1, <1>2, <1>5 DEF SubscriptionInv, Granted
<1>7. ASSUME ~forgotten', NEW t \in checked'
      PROVE  \E s \in Subscriptions!Subs : known'[s] # 0 /\ expires'[s] > t + RenewAhead
  <2>1. PICK s \in Subscriptions!Subs : known[s] # 0 /\ expires[s] > t + RenewAhead
      BY <1>7 DEF SubscriptionInv
  <2>2. t \in Nat /\ expires[s] \in Nat /\ expires'[s] \in Nat
      BY <1>1, <1>7 DEF Ends
  <2>3. expires'[s] > t + RenewAhead
      BY <1>4, <2>1, <2>2, EndsAre
  <2> QED BY <2>1, <2>3
<1> QED BY <1>2, <1>3, <1>4, <1>6, <1>7 DEF SubscriptionInv

(***************************************************************************)
(* Another state is written: it promises no more than Graph granted, and   *)
(* a subscription it leaves out is forgotten unless this is a good sync.   *)
(***************************************************************************)
LEMMA WriteKeeps ==
    ASSUME SubscriptionInv, NEW k \in Ends, Granted(k), known' = k,
           UNCHANGED <<time, expires>>, forgotten' \in BOOLEAN, checked' \subseteq Nat,
           \/ /\ UNCHANGED checked
              /\ forgotten' = (forgotten \/ Subscriptions!Has(known) \ Subscriptions!Has(k) # {})
           \/ \A t \in checked' : \E s \in Subscriptions!Subs :
                  k[s] # 0 /\ expires[s] > t + RenewAhead,
           sync' = sync \/ sync' = Subscriptions!Resting,
           notified' = notified \/ notified' = Subscriptions!Resting
    PROVE  SubscriptionInv'
<1>1. Granted(Subscriptions!NoneKnown)
    BY EndsAre DEF SubscriptionInv, SubscriptionTypes, Granted, Ends
<1>2. /\ sync' \in ScanRows /\ Granted(sync'.loaded) /\ Granted(sync'.has)
      /\ sync'.good => sync' = sync
  <2>1. CASE sync' = sync
      BY <2>1 DEF SubscriptionInv, SubscriptionTypes
  <2>2. CASE sync' = Subscriptions!Resting
    <3>1. /\ sync'.loaded = Subscriptions!NoneKnown /\ sync'.has = Subscriptions!NoneKnown
          /\ ~sync'.good /\ sync' \in ScanRows
        BY <2>2, EndsAre
    <3> QED BY <1>1, <3>1
  <2> QED BY <2>1, <2>2
<1>3. notified' \in ScanRows /\ Granted(notified'.loaded)
  <2>1. CASE notified' = notified
      BY <2>1 DEF SubscriptionInv, SubscriptionTypes
  <2>2. CASE notified' = Subscriptions!Resting
    <3>1. notified'.loaded = Subscriptions!NoneKnown /\ notified' \in ScanRows
        BY <2>2, EndsAre
    <3> QED BY <1>1, <3>1
  <2> QED BY <2>1, <2>2
<1>4. SubscriptionTypes'
    BY <1>2, <1>3 DEF SubscriptionInv, SubscriptionTypes
<1>5. /\ Granted(known)' /\ Granted(sync.loaded)' /\ Granted(sync.has)'
      /\ Granted(notified.loaded)'
    BY <1>2, <1>3 DEF Granted
<1>6. \A s \in Subscriptions!Subs : expires'[s] <= time' + Life
    BY DEF SubscriptionInv
<1>7. sync'.good => /\ sync'.at = "called" /\ sync'.since = time'
                    /\ \E s \in Subscriptions!Subs : sync'.has[s] > time' + RenewAhead
    BY <1>2 DEF SubscriptionInv
<1>8. ASSUME ~forgotten', NEW t \in checked'
      PROVE  \E s \in Subscriptions!Subs : known'[s] # 0 /\ expires'[s] > t + RenewAhead
  <2>1. CASE /\ UNCHANGED checked
             /\ forgotten' = (forgotten \/ Subscriptions!Has(known) \ Subscriptions!Has(k) # {})
    <3>1. PICK s \in Subscriptions!Subs : known[s] # 0 /\ expires[s] > t + RenewAhead
        BY <1>8, <2>1 DEF SubscriptionInv
    <3>2. s \in Subscriptions!Has(known)
        BY <3>1 DEF Subscriptions!Has, Subscriptions!Unknown
    <3>3. s \in Subscriptions!Has(k)
        BY <1>8, <2>1, <3>2
    <3> QED BY <3>1, <3>3 DEF Subscriptions!Has, Subscriptions!Unknown
  <2>2. CASE \A t_ \in checked' : \E s \in Subscriptions!Subs :
                 k[s] # 0 /\ expires[s] > t_ + RenewAhead
      BY <1>8, <2>2
  <2> QED BY <2>1, <2>2
<1> QED BY <1>4, <1>5, <1>6, <1>7, <1>8 DEF SubscriptionInv

\* Every step of the subscriptions keeps it.
LEMMA SubscriptionKept ==
    ASSUME SubscriptionInv, [Subscriptions!Next]_(Subscriptions!subscriptionVars)
    PROVE  SubscriptionInv'
<1>1. /\ time \in Nat /\ expires \in Ends /\ known \in Ends /\ sync \in ScanRows
      /\ notified \in ScanRows /\ forgotten \in BOOLEAN /\ checked \subseteq Nat
    BY DEF SubscriptionInv, SubscriptionTypes
<1>2. PICK row_ \in ScanRows : row_ = sync
    BY <1>1
<1>3. /\ row_.loaded \in Ends /\ row_.has \in Ends /\ row_.good \in BOOLEAN /\ row_.since \in Nat
      /\ Granted(row_.loaded) /\ Granted(row_.has)
    BY <1>2 DEF ScanRows, SubscriptionInv
<1>4. /\ Subscriptions!Subs = 1 .. MaxSubs /\ time + Life \in Nat /\ time + Life # 0
      /\ \A s \in Subscriptions!Subs : expires[s] \in Nat /\ expires[s] <= time + Life
      /\ \A s \in Subscriptions!Subs : row_.loaded[s] \in Nat /\ row_.loaded[s] <= expires[s]
  <2>1. \A s \in Subscriptions!Subs : expires[s] \in Nat /\ row_.loaded[s] \in Nat
      BY <1>1, <1>3 DEF Ends
  <2>2. \A s \in Subscriptions!Subs : row_.loaded[s] <= expires[s]
      BY <1>3 DEF Granted
  <2>3. \A s \in Subscriptions!Subs : expires[s] <= time + Life
      BY DEF SubscriptionInv
  <2>4. Subscriptions!Subs = 1 .. MaxSubs /\ time + Life \in Nat /\ time + Life # 0
      BY <1>1, EndsAre DEF Subscriptions!Subs
  <2> QED BY <2>1, <2>2, <2>3, <2>4
<1>5. CASE Subscriptions!BeginSync \/ Subscriptions!CommitFinding
  <2>1. UNCHANGED <<time, expires, known, notified, checked, forgotten>>
      BY <1>5 DEF Subscriptions!BeginSync, Subscriptions!CommitFinding
  <2>2. /\ sync' \in ScanRows /\ sync'.loaded = known /\ ~sync'.good /\ Granted(sync'.has)
    <3>1. CASE Subscriptions!BeginSync
      <4>1. sync' = [at |-> "begun", loaded |-> known, has |-> Subscriptions!NoneKnown,
                     good |-> FALSE, since |-> 0]
          BY <3>1, EndsAre DEF Subscriptions!BeginSync
      <4>2. Granted(Subscriptions!NoneKnown)
          BY <1>4, EndsAre DEF Granted
      <4> QED BY <1>1, <4>1, <4>2, EndsAre DEF ScanRows
    <3>2. CASE Subscriptions!CommitFinding
      <4>1. row_.at = "begun" /\ sync' = [row_ EXCEPT !.loaded = known]
          BY <1>2, <3>2 DEF Subscriptions!CommitFinding
      <4>2. ~row_.good
          BY <1>2, <4>1 DEF SubscriptionInv
      <4>3. /\ [row_ EXCEPT !.loaded = known] \in ScanRows
            /\ [row_ EXCEPT !.loaded = known].loaded = known
            /\ [row_ EXCEPT !.loaded = known].has = row_.has
            /\ [row_ EXCEPT !.loaded = known].good = row_.good
          BY <1>1 DEF ScanRows
      <4> QED BY <1>3, <4>1, <4>2, <4>3
    <3> QED BY <1>5, <3>1, <3>2
  <2>3. /\ Granted(known)' /\ Granted(sync.loaded)' /\ Granted(sync.has)'
        /\ Granted(notified.loaded)'
      BY <2>1, <2>2 DEF SubscriptionInv, Granted
  <2>4. SubscriptionTypes'
      BY <1>1, <2>1, <2>2 DEF SubscriptionTypes
  <2> QED BY <2>1, <2>2, <2>3, <2>4 DEF SubscriptionInv
<1>6. ASSUME NEW s \in Subscriptions!Subs, Subscriptions!LeaveAlone(s) PROVE SubscriptionInv'
  <2>1. /\ row_.at = "begun" /\ row_.loaded[s] > time + RenewAhead
        /\ sync' = [row_ EXCEPT !.at = "called", !.since = time, !.has = row_.loaded, !.good = TRUE]
        /\ UNCHANGED <<time, expires, known, notified, checked, forgotten>>
      BY <1>2, <1>6 DEF Subscriptions!LeaveAlone
  <2>2. sync' = [at |-> "called", loaded |-> row_.loaded, has |-> row_.loaded, good |-> TRUE,
                 since |-> time]
      BY <2>1 DEF ScanRows
  <2>3. expires' \in Ends /\ \A i \in Subscriptions!Subs : expires'[i] = expires[i]
      BY <1>1, <2>1
  <2>4. \A i \in Subscriptions!Subs : row_.loaded[i] <= expires'[i]
      BY <1>4, <2>3
  <2>5. UNCHANGED <<time, known, notified, checked, forgotten>>
      BY <2>1
  <2> QED BY <1>2, <1>3, <2>1, <2>2, <2>3, <2>4, <2>5, CallKeeps
<1>7. ASSUME NEW s \in Subscriptions!Subs, NEW ok \in BOOLEAN, Subscriptions!Renew(s, ok)
      PROVE  SubscriptionInv'
  <2> DEFINE has_ == Subscriptions!Renewed(s, ok)
  <2>1. /\ row_.at = "begun"
        /\ expires' = (IF ok THEN [expires EXCEPT ![s] = time + Life] ELSE expires)
        /\ sync' = [row_ EXCEPT !.at = "called", !.since = time, !.has = has_, !.good = ok]
        /\ UNCHANGED <<time, known, notified, checked, forgotten>>
      BY <1>2, <1>7 DEF Subscriptions!Renew
  <2>2. has_ = IF ok THEN [row_.loaded EXCEPT ![s] = time + Life] ELSE row_.loaded
      BY <1>2 DEF Subscriptions!Renewed
  <2>3. /\ has_ \in Ends
        /\ \A i \in Subscriptions!Subs :
               has_[i] = IF ok /\ i = s THEN time + Life ELSE row_.loaded[i]
      BY <1>3, <1>4, <2>2 DEF Ends
  <2>4. /\ expires' \in Ends
        /\ \A i \in Subscriptions!Subs :
               expires'[i] = IF ok /\ i = s THEN time + Life ELSE expires[i]
      BY <1>1, <1>4, <2>1 DEF Ends
  <2> HIDE DEF has_
  <2>5. sync' = [at |-> "called", loaded |-> row_.loaded, has |-> has_, good |-> ok,
                 since |-> time]
      BY <2>1 DEF ScanRows
  <2>6. \A i \in Subscriptions!Subs : has_[i] <= expires'[i]
      BY <1>4, <2>3, <2>4
  <2>7. ok => \E i \in Subscriptions!Subs : has_[i] > time + RenewAhead
      BY <1>1, <2>3, EndsAre
  <2>8. \A i \in Subscriptions!Subs : expires'[i] = expires[i] \/ expires'[i] = time + Life
      BY <2>4
  <2> QED BY <1>2, <2>1, <2>3, <2>4, <2>5, <2>6, <2>7, <2>8, CallKeeps
<1>8. ASSUME NEW ok \in BOOLEAN, Subscriptions!Create(ok) PROVE SubscriptionInv'
  <2>1. row_.at = "begun" /\ UNCHANGED <<time, known, notified, checked, forgotten>> /\ ~row_.good
      BY <1>2, <1>8 DEF Subscriptions!Create, SubscriptionInv
  <2>2. CASE ok
    <3>1. PICK s \in Subscriptions!Subs :
              /\ expires' = [expires EXCEPT ![s] = time + Life]
              /\ sync' = [row_ EXCEPT !.at = "called", !.since = time, !.good = TRUE,
                                      !.has = [row_.loaded EXCEPT ![s] = time + Life]]
        BY <1>2, <1>8, <2>2 DEF Subscriptions!Create
    <3> DEFINE has_ == [row_.loaded EXCEPT ![s] = time + Life]
    <3>2. /\ has_ \in Ends
          /\ \A i \in Subscriptions!Subs : has_[i] = IF i = s THEN time + Life ELSE row_.loaded[i]
        BY <1>3, <1>4 DEF Ends
    <3>3. /\ expires' \in Ends
          /\ \A i \in Subscriptions!Subs : expires'[i] = IF i = s THEN time + Life ELSE expires[i]
        BY <1>1, <1>4, <3>1 DEF Ends
    <3>4. sync' = [row_ EXCEPT !.at = "called", !.since = time, !.good = TRUE, !.has = has_]
        BY <3>1
    <3> HIDE DEF has_
    <3>5. sync' = [at |-> "called", loaded |-> row_.loaded, has |-> has_, good |-> TRUE,
                   since |-> time]
        BY <3>4 DEF ScanRows
    <3>6. \A i \in Subscriptions!Subs : has_[i] <= expires'[i]
        BY <1>4, <3>2, <3>3
    <3>7. \E i \in Subscriptions!Subs : has_[i] > time + RenewAhead
        BY <1>1, <3>2, EndsAre
    <3>8. \A i \in Subscriptions!Subs : expires'[i] = expires[i] \/ expires'[i] = time + Life
        BY <3>3
    <3> QED BY <1>2, <2>1, <3>2, <3>3, <3>5, <3>6, <3>7, <3>8, CallKeeps
  <2>3. CASE ~ok
    <3>1. /\ sync' = [row_ EXCEPT !.at = "called", !.since = time, !.has = row_.loaded]
          /\ UNCHANGED expires
        BY <1>2, <1>8, <2>3 DEF Subscriptions!Create
    <3>2. sync' = [at |-> "called", loaded |-> row_.loaded, has |-> row_.loaded, good |-> FALSE,
                   since |-> time]
        BY <2>1, <3>1 DEF ScanRows
    <3>3. expires' \in Ends /\ \A i \in Subscriptions!Subs : expires'[i] = expires[i]
        BY <1>1, <3>1
    <3>4. \A i \in Subscriptions!Subs : row_.loaded[i] <= expires'[i]
        BY <1>4, <3>3
    <3> QED BY <1>2, <1>3, <2>1, <3>2, <3>3, <3>4, CallKeeps
  <2> QED BY <2>2, <2>3
<1>9. CASE Subscriptions!SaveSync
  <2>1. /\ sync.at = "called" /\ known' = row_.has /\ sync' = Subscriptions!Resting
        /\ checked' = (IF row_.good THEN {row_.since} ELSE checked)
        /\ forgotten' = (IF row_.good THEN FALSE
                         ELSE forgotten \/ Subscriptions!Has(known) \ Subscriptions!Has(row_.has) # {})
        /\ UNCHANGED <<time, expires, notified>>
      BY <1>2, <1>9 DEF Subscriptions!SaveSync
  <2>2. forgotten' \in BOOLEAN /\ checked' \subseteq Nat
      BY <1>1, <1>3, <2>1
  <2>3. CASE row_.good
    <3>1. PICK s \in Subscriptions!Subs : row_.has[s] > time + RenewAhead
        BY <1>2, <2>3 DEF SubscriptionInv
    <3>2. row_.since = time /\ checked' = {time}
        BY <1>2, <2>1, <2>3 DEF SubscriptionInv
    <3>3. row_.has[s] \in Nat /\ row_.has[s] <= expires[s]
        BY <1>3 DEF Ends, Granted
    <3>4. row_.has[s] # 0 /\ expires[s] > time + RenewAhead
        BY <1>1, <1>4, <3>1, <3>3, EndsAre
    <3>5. \A t \in checked' : \E i \in Subscriptions!Subs :
              row_.has[i] # 0 /\ expires[i] > t + RenewAhead
        BY <3>2, <3>4
    <3> QED BY <1>3, <2>1, <2>2, <3>5, WriteKeeps
  <2>4. CASE ~row_.good
      BY <1>3, <2>1, <2>2, <2>4, WriteKeeps
  <2> QED BY <2>3, <2>4
<1>10. ASSUME NEW saves \in BOOLEAN, Subscriptions!FailSync(saves) PROVE SubscriptionInv'
  <2>1. sync' = Subscriptions!Resting /\ UNCHANGED <<time, expires, notified, checked>>
      BY <1>10 DEF Subscriptions!FailSync
  <2>2. CASE saves
    <3>1. /\ known' = row_.loaded
          /\ forgotten' = (forgotten \/ Subscriptions!Has(known) \ Subscriptions!Has(row_.loaded) # {})
        BY <1>2, <1>10, <2>2 DEF Subscriptions!FailSync
    <3>2. forgotten' \in BOOLEAN /\ checked' \subseteq Nat
        BY <1>1, <2>1, <3>1
    <3> QED BY <1>3, <2>1, <3>1, <3>2, WriteKeeps
  <2>3. CASE ~saves
    <3>1. known' = known /\ forgotten' = forgotten
        BY <1>10, <2>3 DEF Subscriptions!FailSync
    <3>2. /\ forgotten' = (forgotten \/ Subscriptions!Has(known) \ Subscriptions!Has(known) # {})
          /\ Granted(known) /\ forgotten' \in BOOLEAN /\ checked' \subseteq Nat
        BY <1>1, <2>1, <3>1 DEF SubscriptionInv
    <3> QED BY <1>1, <2>1, <3>1, <3>2, WriteKeeps
  <2> QED BY <2>2, <2>3
<1>11. CASE Subscriptions!BeginNotified
  <2>1. /\ notified' = [at |-> "begun", loaded |-> known, has |-> Subscriptions!NoneKnown,
                        good |-> FALSE, since |-> 0]
        /\ UNCHANGED <<time, expires, known, sync, checked, forgotten>>
      BY <1>11, EndsAre DEF Subscriptions!BeginNotified
  <2>2. notified' \in ScanRows /\ notified'.loaded = known
      BY <1>1, <2>1, EndsAre DEF ScanRows
  <2>3. /\ Granted(known)' /\ Granted(sync.loaded)' /\ Granted(sync.has)'
        /\ Granted(notified.loaded)'
      BY <2>1, <2>2 DEF SubscriptionInv, Granted
  <2>4. SubscriptionTypes'
      BY <1>1, <2>1, <2>2 DEF SubscriptionTypes
  <2> QED BY <2>1, <2>3, <2>4 DEF SubscriptionInv
<1>12. ASSUME NEW writes \in BOOLEAN, Subscriptions!EndNotified(writes) PROVE SubscriptionInv'
  <2>1. notified' = Subscriptions!Resting /\ UNCHANGED <<time, expires, sync, checked>>
      BY <1>12 DEF Subscriptions!EndNotified
  <2>2. notified.loaded \in Ends /\ Granted(notified.loaded) /\ Granted(known)
      BY <1>1 DEF ScanRows, SubscriptionInv
  <2>3. CASE writes
    <3>1. /\ known' = notified.loaded
          /\ forgotten' = (forgotten \/
                           Subscriptions!Has(known) \ Subscriptions!Has(notified.loaded) # {})
        BY <1>12, <2>3 DEF Subscriptions!EndNotified
    <3>2. forgotten' \in BOOLEAN /\ checked' \subseteq Nat
        BY <1>1, <2>1, <3>1
    <3> QED BY <2>1, <2>2, <3>1, <3>2, WriteKeeps
  <2>4. CASE ~writes
    <3>1. known' = known /\ forgotten' = forgotten
        BY <1>12, <2>4 DEF Subscriptions!EndNotified
    <3>2. /\ forgotten' = (forgotten \/ Subscriptions!Has(known) \ Subscriptions!Has(known) # {})
          /\ forgotten' \in BOOLEAN /\ checked' \subseteq Nat
        BY <1>1, <2>1, <3>1
    <3> QED BY <1>1, <2>1, <2>2, <3>1, <3>2, WriteKeeps
  <2> QED BY <2>3, <2>4
<1>13. CASE Subscriptions!Tick
  <2>1. /\ sync.at # "called" /\ time' = time + 1
        /\ UNCHANGED <<expires, known, sync, notified, checked, forgotten>>
      BY <1>13 DEF Subscriptions!Tick
  <2>2. ~sync.good
      BY <2>1 DEF SubscriptionInv
  <2>3. /\ Granted(known)' /\ Granted(sync.loaded)' /\ Granted(sync.has)'
        /\ Granted(notified.loaded)'
      BY <2>1 DEF SubscriptionInv, Granted
  <2>4. SubscriptionTypes'
      BY <1>1, <2>1 DEF SubscriptionTypes
  <2>5. \A s \in Subscriptions!Subs : expires'[s] <= time' + Life
      BY <1>1, <1>4, <2>1, EndsAre
  <2> QED BY <2>1, <2>2, <2>3, <2>4, <2>5 DEF SubscriptionInv
<1>14. CASE UNCHANGED Subscriptions!subscriptionVars
    BY <1>14 DEF Subscriptions!subscriptionVars, SubscriptionInv, SubscriptionTypes, Granted
<1> QED BY <1>5, <1>6, <1>7, <1>8, <1>9, <1>10, <1>11, <1>12, <1>13, <1>14
        DEF Subscriptions!Next

\* There is no subscription in the initial state.
LEMMA SubscriptionInit == Subscriptions!Init => SubscriptionInv
<1> SUFFICES ASSUME Subscriptions!Init PROVE SubscriptionInv
    OBVIOUS
<1>1. /\ time = 0 /\ expires = Subscriptions!NoneKnown /\ known = Subscriptions!NoneKnown
      /\ sync = Subscriptions!Resting /\ notified = Subscriptions!Resting
      /\ checked = {} /\ forgotten = FALSE
    BY DEF Subscriptions!Init
<1>2. SubscriptionTypes
    BY <1>1, EndsAre DEF SubscriptionTypes
<1>3. \A s \in Subscriptions!Subs : expires[s] = 0 /\ expires[s] <= time + Life
    BY <1>1, EndsAre
<1>4. /\ Granted(known) /\ Granted(sync.loaded) /\ Granted(sync.has) /\ Granted(notified.loaded)
      /\ ~sync.good
    BY <1>1, EndsAre DEF Granted
<1> QED BY <1>1, <1>2, <1>3, <1>4 DEF SubscriptionInv

\* What the invariant says of a drive that was subscribed.
LEMMA SubscriptionHolds == SubscriptionInv => Subscriptions!SubscriptionsLast
<1> SUFFICES ASSUME SubscriptionInv PROVE Subscriptions!SubscriptionsLast
    OBVIOUS
<1>1. ASSUME NEW t \in checked, time <= t + RenewAhead, ~forgotten
      PROVE  \E s \in Subscriptions!Has(known) : Subscriptions!Alive(s)
  <2>1. PICK s \in Subscriptions!Subs : known[s] # 0 /\ expires[s] > t + RenewAhead
      BY <1>1 DEF SubscriptionInv
  <2>2. time \in Nat /\ t \in Nat /\ expires[s] \in Nat
      BY DEF SubscriptionInv, SubscriptionTypes, Ends
  <2>3. expires[s] > time
      BY <1>1, <2>1, <2>2, EndsAre
  <2> QED BY <2>1, <2>3 DEF Subscriptions!Has, Subscriptions!Unknown, Subscriptions!Alive
<1> QED BY <1>1 DEF Subscriptions!SubscriptionsLast, SubscriptionInv, Granted

-----------------------------------------------------------------------------
(* Weekly reports: who was mailed, who is on the list, who is owed a mail. *)

Lists == [report : Nat, to : SUBSET People, tries : Nat]
Mailing == [at : {"idle", "retry", "save", "claim", "mail", "settle"}, now : Int, last : Int,
            report : Nat, loaded : Lists, still : SUBSET People]

WeeklyTypes ==
    /\ weekday \in Int /\ reported \in Int /\ missed \in Lists
    /\ mailer \in [Mailers -> Mailing]
    /\ reports \in 0 .. MaxReports /\ mailed \subseteq 1 .. reports
    /\ got \in [Weekly!Reports -> [People -> Nat]]
    /\ tried \in [Weekly!Reports -> [People -> Nat]]

Sending(v)  == mailer[v].at \in {"mail", "settle"}
Retrying(v) == mailer[v].at \in {"retry", "save"}
Unsent(n)   == n > reports \/ \E v \in Mailers : mailer[v].at = "mail" /\ mailer[v].report = n

\* A claimed week is one worker's until a mail of it is on record.
FreshWeeks ==
    /\ \A v \in Mailers : Sending(v) => /\ mailer[v].report \in 1 .. reports
                                        /\ mailer[v].report \notin mailed
    /\ \A v, u \in Mailers : Sending(v) /\ Sending(u) /\ mailer[v].report = mailer[u].report => v = u
    /\ \A n \in Weekly!Reports : Unsent(n) => \A a \in People : got[n][a] = 0
    /\ \A v \in Mailers : mailer[v].at = "settle" =>
           \A a \in People : got[mailer[v].report][a] = IF a \in mailer[v].still THEN 0 ELSE 1

\* A list is of a delivered report, and whoever is on it was tried in each of its runs.
OnList(l, runs) ==
    l.to # {} => /\ l.report \in mailed /\ l.tries < Retries
                 /\ \A a \in l.to : tried[l.report][a] >= l.tries + runs

ListOf(v) ==
    /\ Retrying(v) => mailer[v].loaded.to # {}
    /\ mailer[v].at = "retry" => OnList(mailer[v].loaded, 1)
    /\ mailer[v].at = "save" =>
           /\ OnList(mailer[v].loaded, 2) /\ mailer[v].still \subseteq mailer[v].loaded.to
           /\ \A a \in mailer[v].loaded.to \ mailer[v].still : got[mailer[v].loaded.report][a] > 0
    /\ mailer[v].at = "settle" =>
           OnList(mailer[v].loaded, 1) /\ \A a \in People : tried[mailer[v].report][a] >= 1

ListsStand == OnList(missed, 1) /\ \A v \in Mailers : ListOf(v)

\* Who neither has a delivered report nor was given up is on the list, and on that of
\* every worker that sends it again.
Owed(n, a) ==
    n \in mailed /\ got[n][a] = 0 /\ tried[n][a] <= Retries /\ <<n, a>> \notin dropouts

OwedAreListed ==
    /\ \A n \in Weekly!Reports, a \in People : Owed(n, a) => missed.report = n /\ a \in missed.to
    /\ \A v \in Mailers, a \in People :
           Retrying(v) /\ Owed(mailer[v].loaded.report, a) => a \in mailer[v].loaded.to

\* A report that is not shared is sent again by one worker, to admins who do not have it.
SentOnce(n) ==
    /\ \A a \in People : got[n][a] <= 1
    /\ \A v, u \in Mailers :
           (/\ Retrying(v) /\ mailer[v].loaded.report = n
            /\ Retrying(u) /\ mailer[u].loaded.report = n) => v = u
    /\ \A v \in Mailers : mailer[v].loaded.report = n =>
           /\ mailer[v].at = "retry" => \A a \in mailer[v].loaded.to : got[n][a] = 0
           /\ mailer[v].at = "save" => \A a \in mailer[v].still : got[n][a] = 0
    /\ missed.report = n /\ (\A v \in Mailers : Retrying(v) => mailer[v].loaded.report # n) =>
           \A a \in missed.to : got[n][a] = 0

RetriedOnce == \A n \in Weekly!Reports : n \notin shared => SentOnce(n)

WeeklyInv == WeeklyTypes /\ FreshWeeks /\ ListsStand /\ OwedAreListed /\ RetriedOnce

\* The bounds are numbers.
LEMMA WeeksAre ==
    /\ Week \in Nat /\ Retries \in Nat \ {0} /\ MaxReports \in Nat
    /\ Weekly!Reports = 1 .. MaxReports
    /\ Weekly!NoMissed = [report |-> 0, to |-> {}, tries |-> 0] /\ Weekly!NoMissed \in Lists
    /\ Weekly!Idle \in Mailing /\ Weekly!Idle.at = "idle"
<1>1. Week \in Nat /\ Retries \in Nat \ {0} /\ MaxReports \in Nat
    BY Assumptions DEF Weekly!WeeksAssumption
<1>2. Weekly!NoMissed = [report |-> 0, to |-> {}, tries |-> 0] /\ Weekly!NoMissed \in Lists
    BY DEF Weekly!NoMissed, Lists
<1>3. -Week \in Int
    BY <1>1
<1>4. Weekly!Idle \in Mailing /\ Weekly!Idle.at = "idle"
    BY <1>2, <1>3 DEF Weekly!Idle, Weekly!Never, Mailing
<1> QED BY <1>1, <1>2, <1>4 DEF Weekly!Reports

\* The columns of what a worker holds.
LEMMA MailerColumns ==
    ASSUME WeeklyTypes, NEW v \in Mailers
    PROVE  /\ mailer[v] \in Mailing /\ mailer[v].report \in Nat /\ mailer[v].loaded \in Lists
           /\ mailer[v].still \subseteq People
           /\ mailer[v].loaded.to \subseteq People /\ mailer[v].loaded.report \in Nat
           /\ mailer[v].loaded.tries \in Nat
           /\ missed.to \subseteq People /\ missed.report \in Nat /\ missed.tries \in Nat
BY DEF WeeklyTypes, Mailing, Lists

\* Only claimed weeks are mailed, and only weeks within the bound are claimed.
LEMMA MailedAre == WeeklyTypes => mailed \subseteq Weekly!Reports /\ 1 .. reports \subseteq Weekly!Reports
BY WeeksAre DEF WeeklyTypes

\* One worker moves, and the others stay.
LEMMA MailerMoves ==
    ASSUME WeeklyTypes, NEW w \in Mailers, NEW to_ \in Mailing,
           mailer' = [mailer EXCEPT ![w] = to_]
    PROVE  /\ mailer' \in [Mailers -> Mailing] /\ mailer'[w] = to_
           /\ \A v \in Mailers : v # w => mailer'[v] = mailer[v]
BY DEF WeeklyTypes

\* What counts of mails that go out do.
LEMMA MailsCount ==
    ASSUME WeeklyTypes, NEW n \in Weekly!Reports, NEW to, NEW failed, Weekly!Mails(n, to, failed)
    PROVE  /\ got' \in [Weekly!Reports -> [People -> Nat]]
           /\ tried' \in [Weekly!Reports -> [People -> Nat]]
           /\ \A m \in Weekly!Reports : m # n => got'[m] = got[m] /\ tried'[m] = tried[m]
           /\ \A a \in People :
                 /\ got'[n][a] = IF a \in to \ failed /\ got[n][a] < 2
                                 THEN got[n][a] + 1 ELSE got[n][a]
                 /\ tried'[n][a] = IF a \in to /\ tried[n][a] <= Retries
                                   THEN tried[n][a] + 1 ELSE tried[n][a]
<1> DEFINE g == [a \in People |-> IF a \in to \ failed /\ got[n][a] < 2
                                  THEN got[n][a] + 1 ELSE got[n][a]]
           t == [a \in People |-> IF a \in to /\ tried[n][a] <= Retries
                                  THEN tried[n][a] + 1 ELSE tried[n][a]]
<1>1. got[n] \in [People -> Nat] /\ tried[n] \in [People -> Nat]
    BY DEF WeeklyTypes
<1>2. g \in [People -> Nat] /\ t \in [People -> Nat]
    BY <1>1
<1>3. got' = [got EXCEPT ![n] = g] /\ tried' = [tried EXCEPT ![n] = t]
    BY DEF Weekly!Mails, WeeklyTypes
<1>4. got'[n] = g /\ tried'[n] = t
    BY <1>3 DEF WeeklyTypes
<1>5. \A a \in People : g[a] = (IF a \in to \ failed /\ got[n][a] < 2 THEN got[n][a] + 1 ELSE got[n][a])
                     /\ t[a] = (IF a \in to /\ tried[n][a] <= Retries
                                THEN tried[n][a] + 1 ELSE tried[n][a])
    OBVIOUS
<1> HIDE DEF g, t
<1>6. /\ got' \in [Weekly!Reports -> [People -> Nat]]
      /\ tried' \in [Weekly!Reports -> [People -> Nat]]
      /\ \A m \in Weekly!Reports : m # n => got'[m] = got[m] /\ tried'[m] = tried[m]
    BY <1>2, <1>3 DEF WeeklyTypes
<1> QED BY <1>4, <1>5, <1>6

\* Nobody has fewer mails, or was tried less often, afterwards.
Grows ==
    \A n \in Weekly!Reports, a \in People : got'[n][a] >= got[n][a] /\ tried'[n][a] >= tried[n][a]

\* Mails only add.
LEMMA MailsGrow ==
    ASSUME WeeklyTypes, \/ UNCHANGED <<got, tried>>
                        \/ \E n \in Weekly!Reports, to, failed \in SUBSET People :
                               Weekly!Mails(n, to, failed)
    PROVE  Grows
<1> SUFFICES ASSUME NEW n \in Weekly!Reports, NEW a \in People
             PROVE  got'[n][a] >= got[n][a] /\ tried'[n][a] >= tried[n][a]
    BY DEF Grows
<1>1. got[n][a] \in Nat /\ tried[n][a] \in Nat
    BY DEF WeeklyTypes
<1>2. CASE UNCHANGED <<got, tried>>
    BY <1>1, <1>2
<1>3. ASSUME NEW m \in Weekly!Reports, NEW to \in SUBSET People, NEW failed \in SUBSET People,
             Weekly!Mails(m, to, failed)
      PROVE  got'[n][a] >= got[n][a] /\ tried'[n][a] >= tried[n][a]
  <2>1. CASE n = m
      BY <1>1, <1>3, <2>1, MailsCount
  <2>2. CASE n # m
      BY <1>1, <1>3, <2>2, MailsCount
  <2> QED BY <2>1, <2>2
<1> QED BY <1>2, <1>3

\* A list stays one of a delivered report.
LEMMA ListStays ==
    ASSUME WeeklyTypes, Grows, mailed \subseteq mailed', tried' \in [Weekly!Reports -> [People -> Nat]],
           NEW l \in Lists, NEW runs \in Nat, OnList(l, runs)
    PROVE  OnList(l, runs)'
<1> SUFFICES ASSUME l.to # {}
             PROVE  /\ l.report \in mailed' /\ l.tries < Retries
                    /\ \A a \in l.to : tried'[l.report][a] >= l.tries + runs
    BY DEF OnList
<1>1. /\ l.report \in mailed /\ l.tries < Retries
      /\ \A a \in l.to : tried[l.report][a] >= l.tries + runs
    BY DEF OnList
<1>2. l.report \in Weekly!Reports /\ l.tries \in Nat /\ l.to \subseteq People
  <2>1. l.tries \in Nat /\ l.to \subseteq People
      BY DEF Lists
  <2>2. mailed \subseteq 1 .. reports /\ reports \in 0 .. MaxReports
      BY DEF WeeklyTypes
  <2>3. l.report \in 1 .. MaxReports
    <3>1. l.report \in 1 .. reports
        BY <1>1, <2>2
    <3>2. reports \in Nat /\ reports <= MaxReports /\ MaxReports \in Nat
        BY <2>2, WeeksAre
    <3> QED BY <3>1, <3>2
  <2> QED BY <2>1, <2>3, WeeksAre
<1>3. ASSUME NEW a \in l.to PROVE tried'[l.report][a] >= l.tries + runs
  <2>1. tried[l.report][a] \in Nat /\ tried'[l.report][a] \in Nat
      BY <1>2 DEF WeeklyTypes
  <2>2. tried'[l.report][a] >= tried[l.report][a] /\ tried[l.report][a] >= l.tries + runs
      BY <1>1, <1>2 DEF Grows
  <2> QED BY <1>2, <2>1, <2>2
<1> QED BY <1>1, <1>3

(***************************************************************************)
(* A step that mails nobody but admins of a delivered report: the claimed  *)
(* weeks stay as they are.                                                 *)
(***************************************************************************)
LEMMA FreshStays ==
    ASSUME WeeklyTypes, FreshWeeks, UNCHANGED <<mailed, reports>>,
           \A v \in Mailers : Sending(v)' => mailer'[v] = mailer[v],
           \A n \in Weekly!Reports : n \notin mailed => got'[n] = got[n]
    PROVE  FreshWeeks'
<1>1. \A v \in Mailers : Sending(v)' => Sending(v) /\ mailer'[v] = mailer[v]
    BY DEF Sending
<1>2. ASSUME NEW v \in Mailers, Sending(v)'
      PROVE  mailer[v].report \in Weekly!Reports /\ mailer[v].report \notin mailed
    BY <1>1, <1>2, WeeksAre DEF FreshWeeks, WeeklyTypes
<1>3. /\ \A v \in Mailers : Sending(v)' => /\ mailer'[v].report \in 1 .. reports'
                                           /\ mailer'[v].report \notin mailed'
      /\ \A v, u \in Mailers :
             Sending(v)' /\ Sending(u)' /\ mailer'[v].report = mailer'[u].report => v = u
    BY <1>1 DEF FreshWeeks
<1>4. ASSUME NEW n \in Weekly!Reports, Unsent(n)', NEW a \in People PROVE got'[n][a] = 0
  <2>1. Unsent(n)
      BY <1>1, <1>4 DEF Unsent, Sending
  <2>2. n \notin mailed
    <3>1. CASE n > reports
        BY <3>1, WeeksAre DEF WeeklyTypes
    <3>2. ASSUME NEW v \in Mailers, mailer[v].at = "mail", mailer[v].report = n PROVE n \notin mailed
        BY <3>2 DEF FreshWeeks, Sending
    <3> QED BY <2>1, <3>1, <3>2 DEF Unsent
  <2> QED BY <2>1, <2>2 DEF FreshWeeks
<1>5. ASSUME NEW v \in Mailers, mailer'[v].at = "settle", NEW a \in People
      PROVE  got'[mailer'[v].report][a] = IF a \in mailer'[v].still THEN 0 ELSE 1
  <2>1. Sending(v)'
      BY <1>5 DEF Sending
  <2>2. mailer'[v] = mailer[v] /\ got'[mailer[v].report] = got[mailer[v].report]
      BY <1>1, <1>2, <2>1
  <2> QED BY <1>5, <2>2 DEF FreshWeeks
<1> QED BY <1>3, <1>4, <1>5 DEF FreshWeeks

\* What a worker that does not move relies on.
LEMMA ListOfStays ==
    ASSUME WeeklyTypes, FreshWeeks, WeeklyTypes', Grows, mailed \subseteq mailed',
           NEW v \in Mailers, ListOf(v), mailer'[v] = mailer[v]
    PROVE  ListOf(v)'
<1>0. PICK m : m = mailer[v] /\ m = mailer'[v]
    OBVIOUS
<1>1. /\ m.loaded \in Lists /\ m.still \subseteq People /\ m.report \in Nat
      /\ 1 \in Nat /\ 2 \in Nat /\ tried' \in [Weekly!Reports -> [People -> Nat]]
    BY <1>0, MailerColumns DEF WeeklyTypes
<1>2. Retrying(v)' => m.loaded.to # {}
    BY <1>0 DEF ListOf, Retrying
<1>3. m.at = "retry" => OnList(m.loaded, 1)'
    BY <1>0, <1>1, ListStays DEF ListOf
<1>4. ASSUME m.at = "save"
      PROVE  /\ OnList(m.loaded, 2)' /\ m.still \subseteq m.loaded.to
             /\ \A a \in m.loaded.to \ m.still : got'[m.loaded.report][a] > 0
  <2>1. OnList(m.loaded, 2) /\ m.still \subseteq m.loaded.to
      BY <1>0, <1>4 DEF ListOf
  <2>2. OnList(m.loaded, 2)'
      BY <1>1, <2>1, ListStays
  <2>3. ASSUME NEW a \in m.loaded.to \ m.still PROVE got'[m.loaded.report][a] > 0
    <3>1. m.loaded.report \in Weekly!Reports
        BY <2>1, <2>3, MailedAre DEF OnList
    <3>2. a \in People
        BY <1>1, <2>3 DEF Lists
    <3>3. got[m.loaded.report][a] \in Nat /\ got'[m.loaded.report][a] \in Nat
        BY <3>1, <3>2 DEF WeeklyTypes
    <3>4. got'[m.loaded.report][a] >= got[m.loaded.report][a] /\ got[m.loaded.report][a] > 0
        BY <1>0, <1>4, <2>3, <3>1, <3>2 DEF Grows, ListOf
    <3> QED BY <3>3, <3>4
  <2> QED BY <2>1, <2>2, <2>3
<1>5. ASSUME m.at = "settle"
      PROVE  OnList(m.loaded, 1)' /\ \A a \in People : tried'[m.report][a] >= 1
  <2>1. OnList(m.loaded, 1) /\ Sending(v)
      BY <1>0, <1>5 DEF ListOf, Sending
  <2>2. OnList(m.loaded, 1)'
      BY <1>1, <2>1, ListStays
  <2>3. ASSUME NEW a \in People PROVE tried'[m.report][a] >= 1
    <3>1. m.report \in Weekly!Reports
        BY <1>0, <2>1, MailedAre DEF FreshWeeks
    <3>2. tried[m.report][a] \in Nat /\ tried'[m.report][a] \in Nat
        BY <3>1 DEF WeeklyTypes
    <3>3. tried'[m.report][a] >= tried[m.report][a] /\ tried[m.report][a] >= 1
        BY <1>0, <1>5, <3>1 DEF Grows, ListOf
    <3> QED BY <3>2, <3>3
  <2> QED BY <2>2, <2>3
<1>6. \A runs : OnList(mailer[v].loaded, runs)' <=> OnList(m.loaded, runs)'
    BY <1>0 DEF OnList
<1> QED BY <1>0, <1>2, <1>3, <1>4, <1>5, <1>6 DEF ListOf

\* Nobody comes to be owed a mail of a report that was delivered before.
LEMMA OwedLess ==
    ASSUME WeeklyTypes, WeeklyTypes', Grows, dropouts \subseteq dropouts',
           NEW n \in Weekly!Reports, NEW a \in People, n \in mailed, Owed(n, a)'
    PROVE  Owed(n, a)
<1>1. /\ got[n][a] \in Nat /\ got'[n][a] \in Nat /\ got'[n][a] >= got[n][a]
      /\ tried[n][a] \in Nat /\ tried'[n][a] \in Nat /\ tried'[n][a] >= tried[n][a]
    BY DEF WeeklyTypes, Grows
<1> QED BY <1>1, WeeksAre DEF Owed

-----------------------------------------------------------------------------
(***************************************************************************)
(* A worker that is done with its mails, or never began, mails nobody and  *)
(* writes no list; if it was sending a report again, that is noted.        *)
(***************************************************************************)
LEMMA LeaveKeeps ==
    ASSUME WeeklyInv, NEW w \in Mailers, NEW to_ \in Mailing, mailer' = [mailer EXCEPT ![w] = to_],
           to_.at \in {"idle", "claim"}, weekday' \in Int, reported' \in Int,
           UNCHANGED <<missed, reports, mailed, got, tried, dropouts>>, shared \subseteq shared',
           Retrying(w) => mailer[w].loaded.report \in shared'
    PROVE  WeeklyInv'
<1>1. /\ mailer' \in [Mailers -> Mailing] /\ mailer'[w].at \in {"idle", "claim"}
      /\ \A v \in Mailers : v # w => mailer'[v] = mailer[v]
    BY MailerMoves DEF WeeklyInv
<1>2. WeeklyTypes'
    BY <1>1 DEF WeeklyInv, WeeklyTypes
<1>3. Grows
    BY MailsGrow DEF WeeklyInv
<1>4. \A v \in Mailers : (Sending(v)' \/ Retrying(v)') => v # w /\ mailer'[v] = mailer[v]
    BY <1>1 DEF Sending, Retrying
<1>5. FreshWeeks'
    BY <1>4, FreshStays DEF WeeklyInv
<1>6. ListsStand'
  <2>1. OnList(missed, 1)'
      BY DEF WeeklyInv, ListsStand, OnList
  <2>2. ASSUME NEW v \in Mailers PROVE ListOf(v)'
    <3>1. CASE v = w
        BY <1>1, <3>1 DEF ListOf, Retrying
    <3>2. CASE v # w
        BY <1>1, <1>2, <1>3, <3>2, ListOfStays DEF WeeklyInv, ListsStand
    <3> QED BY <3>1, <3>2
  <2> QED BY <2>1, <2>2 DEF ListsStand
<1>7. OwedAreListed'
  <2>1. \A n, a : Owed(n, a)' <=> Owed(n, a)
      BY DEF Owed
  <2>2. \A v \in Mailers : Retrying(v)' => Retrying(v) /\ mailer'[v] = mailer[v]
      BY <1>4 DEF Retrying
  <2> QED BY <2>1, <2>2 DEF WeeklyInv, OwedAreListed
<1>8. RetriedOnce'
  <2> SUFFICES ASSUME NEW n \in Weekly!Reports, n \notin shared'
               PROVE  SentOnce(n)'
      BY DEF RetriedOnce
  <2>1. n \notin shared /\ (Retrying(w) => mailer[w].loaded.report # n)
      OBVIOUS
  <2>2. \A v \in Mailers : Retrying(v)' => Retrying(v) /\ mailer'[v] = mailer[v]
      BY <1>4 DEF Retrying
  <2>3. (\A v \in Mailers : Retrying(v)' => mailer'[v].loaded.report # n) =>
            \A v \in Mailers : Retrying(v) => mailer[v].loaded.report # n
      BY <1>1, <2>1 DEF Retrying
  <2>4. \A v \in Mailers : mailer'[v].at \in {"retry", "save"} => mailer'[v] = mailer[v]
      BY <1>4 DEF Retrying
  <2> QED BY <2>1, <2>2, <2>3, <2>4 DEF WeeklyInv, RetriedOnce, SentOnce
<1> QED BY <1>2, <1>5, <1>6, <1>7, <1>8 DEF WeeklyInv

\* A worker reads the list and will send the report again.
LEMMA BeginKeeps ==
    ASSUME WeeklyInv, NEW w \in Mailers, Weekly!Begin(w)
    PROVE  WeeklyInv'
<1> DEFINE other == \E v \in Mailers : Retrying(v) /\ mailer[v].loaded.report = missed.report
<1>1. /\ mailer[w].at = "idle"
      /\ mailer' = [mailer EXCEPT ![w] =
             [mailer[w] EXCEPT !.at = IF missed.to = {} THEN "claim" ELSE "retry",
                               !.now = weekday, !.last = reported, !.loaded = missed]]
      /\ shared' = (IF other THEN shared \cup {missed.report} ELSE shared)
      /\ UNCHANGED <<weekday, reported, missed, reports, mailed, got, tried, dropouts>>
  <2>1. mailer \in [Mailers -> Mailing]
      BY DEF WeeklyInv, WeeklyTypes
  <2> QED BY <2>1 DEF Weekly!Begin, Retrying
<1>2. PICK me_ \in Mailing : me_ = mailer[w]
    BY MailerColumns DEF WeeklyInv
<1>3. PICK at_ \in {"claim", "retry"} : at_ = IF missed.to = {} THEN "claim" ELSE "retry"
    OBVIOUS
<1>5. PICK to_ \in Mailing : /\ mailer' = [mailer EXCEPT ![w] = to_]
                             /\ to_.at = at_ /\ to_.loaded = missed
  <2>1. PICK n \in Int : n = weekday
      BY DEF WeeklyInv, WeeklyTypes
  <2>2. PICK l \in Int : l = reported
      BY DEF WeeklyInv, WeeklyTypes
  <2>3. PICK m \in Lists : m = missed
      BY DEF WeeklyInv, WeeklyTypes
  <2>4. mailer' = [mailer EXCEPT ![w] =
                       [me_ EXCEPT !.at = at_, !.now = n, !.last = l, !.loaded = m]]
      BY <1>1, <1>2, <1>3, <2>1, <2>2, <2>3
  <2>5. PICK e \in Mailing : e = [me_ EXCEPT !.at = at_, !.now = n] /\ e.at = at_
    <3>1. /\ [me_ EXCEPT !.at = at_, !.now = n] \in Mailing
          /\ [me_ EXCEPT !.at = at_, !.now = n].at = at_
        BY DEF Mailing
    <3> QED BY <3>1
  <2>6. PICK f \in Mailing : f = [e EXCEPT !.last = l, !.loaded = m] /\ f.at = at_ /\ f.loaded = m
    <3>1. /\ [e EXCEPT !.last = l, !.loaded = m] \in Mailing
          /\ [e EXCEPT !.last = l, !.loaded = m].at = at_
          /\ [e EXCEPT !.last = l, !.loaded = m].loaded = m
        BY <2>5 DEF Mailing
    <3> QED BY <3>1
  <2>7. [me_ EXCEPT !.at = at_, !.now = n, !.last = l, !.loaded = m]
            = [[me_ EXCEPT !.at = at_, !.now = n] EXCEPT !.last = l, !.loaded = m]
      OBVIOUS
  <2> QED BY <2>3, <2>4, <2>5, <2>6, <2>7
<1>6. CASE at_ = "claim"
  <2>1. shared \subseteq shared' /\ ~Retrying(w) /\ weekday' \in Int /\ reported' \in Int
      BY <1>1 DEF Retrying, WeeklyInv, WeeklyTypes
  <2>2. UNCHANGED <<missed, reports, mailed, got, tried, dropouts>>
      BY <1>1
  <2> QED BY <1>5, <1>6, <2>1, <2>2, LeaveKeeps
<1>7. CASE at_ = "retry"
  <2>1. /\ mailer' \in [Mailers -> Mailing] /\ mailer'[w].at = "retry"
        /\ mailer'[w].loaded = missed /\ missed.to # {}
        /\ \A v \in Mailers : v # w => mailer'[v] = mailer[v]
      BY <1>3, <1>5, <1>7, MailerMoves DEF WeeklyInv
  <2>2. WeeklyTypes'
      BY <1>1, <2>1 DEF WeeklyInv, WeeklyTypes
  <2>3. Grows
      BY <1>1, MailsGrow DEF WeeklyInv
  <2>4. FreshWeeks'
    <3>1. \A v \in Mailers : Sending(v)' => mailer'[v] = mailer[v]
        BY <2>1 DEF Sending
    <3> QED BY <1>1, <3>1, FreshStays DEF WeeklyInv
  <2>5. ListsStand'
    <3>1. OnList(missed, 1)'
        BY <1>1 DEF WeeklyInv, ListsStand, OnList
    <3>2. ASSUME NEW v \in Mailers PROVE ListOf(v)'
      <4>1. CASE v = w
          BY <1>1, <2>1, <3>1, <4>1 DEF ListOf, Retrying, OnList
      <4>2. CASE v # w
          BY <1>1, <2>1, <2>2, <2>3, <4>2, ListOfStays DEF WeeklyInv, ListsStand
      <4> QED BY <4>1, <4>2
    <3> QED BY <3>1, <3>2 DEF ListsStand
  <2>6. OwedAreListed'
    <3>1. \A n, a : Owed(n, a)' <=> Owed(n, a)
        BY <1>1 DEF Owed
    <3>2. \A v \in Mailers : Retrying(v)' => \/ Retrying(v) /\ mailer'[v] = mailer[v]
                                             \/ mailer'[v].loaded = missed
        BY <2>1 DEF Retrying
    <3>3. \A n, a : Owed(n, a) => n \in Weekly!Reports
        BY WeeksAre DEF Owed, WeeklyInv, WeeklyTypes
    <3> QED BY <1>1, <3>1, <3>2, <3>3 DEF WeeklyInv, OwedAreListed
  <2>7. ASSUME NEW n \in Weekly!Reports, n \notin shared', n = missed.report
        PROVE  \A v \in Mailers : ~(Retrying(v) /\ mailer[v].loaded.report = n)
      BY <1>1, <2>7
  <2>8. RetriedOnce'
    <3> SUFFICES ASSUME NEW n \in Weekly!Reports, n \notin shared'
                 PROVE  SentOnce(n)'
        BY DEF RetriedOnce
    <3>1. n \notin shared /\ missed' = missed /\ got' = got
        BY <1>1
    <3>2. \A v \in Mailers : v # w => (Retrying(v)' <=> Retrying(v)) /\ mailer'[v] = mailer[v]
        BY <2>1 DEF Retrying
    <3>3. Retrying(w)' /\ mailer'[w].at # "save"
        BY <2>1 DEF Retrying
    <3>4. CASE n = missed.report
      <4>1. \A v \in Mailers : v # w => ~(Retrying(v)' /\ mailer'[v].loaded.report = n)
          BY <2>7, <3>2, <3>4
      <4>2. \A a \in missed.to : got[n][a] = 0
          BY <2>7, <3>1, <3>4 DEF WeeklyInv, RetriedOnce, SentOnce
      <4>3. \A v \in Mailers : v # w /\ mailer'[v].loaded.report = n =>
                mailer'[v].at \notin {"retry", "save"}
          BY <4>1 DEF Retrying
      <4> QED BY <2>1, <3>1, <3>3, <3>4, <4>1, <4>2, <4>3 DEF WeeklyInv, RetriedOnce, SentOnce
    <3>5. CASE n # missed.report
      <4>1. \A v \in Mailers : mailer'[v].loaded.report = n => v # w /\ mailer'[v] = mailer[v]
          BY <2>1, <3>5
      <4>2. \A v, u \in Mailers : (/\ Retrying(v)' /\ mailer'[v].loaded.report = n
                                   /\ Retrying(u)' /\ mailer'[u].loaded.report = n) => v = u
        <5>1. \A v, u \in Mailers : (/\ Retrying(v) /\ mailer[v].loaded.report = n
                                     /\ Retrying(u) /\ mailer[u].loaded.report = n) => v = u
            BY <3>1 DEF WeeklyInv, RetriedOnce, SentOnce
        <5>2. ASSUME NEW v \in Mailers, NEW u \in Mailers,
                     Retrying(v)', mailer'[v].loaded.report = n,
                     Retrying(u)', mailer'[u].loaded.report = n
              PROVE  v = u
          <6>1. v # w /\ mailer'[v] = mailer[v] /\ u # w /\ mailer'[u] = mailer[u]
              BY <4>1, <5>2
          <6>2. Retrying(v) /\ Retrying(u)
              BY <5>2, <6>1 DEF Retrying
          <6> QED BY <5>1, <5>2, <6>1, <6>2
        <5> QED BY <5>2 DEF Retrying
      <4> QED BY <3>1, <3>5, <4>1, <4>2 DEF WeeklyInv, RetriedOnce, SentOnce
    <3> QED BY <3>4, <3>5
  <2> QED BY <2>2, <2>4, <2>5, <2>6, <2>8 DEF WeeklyInv
<1> QED BY <1>6, <1>7

\* Whoever sends a report again has a list of a delivered one.
LEMMA RetriesAreMailed ==
    ASSUME WeeklyInv, NEW v \in Mailers, Retrying(v)
    PROVE  mailer[v].loaded.report \in mailed /\ mailer[v].loaded.tries < Retries
BY DEF WeeklyInv, ListsStand, ListOf, Retrying, OnList

\* Whoever goes on sending a report again goes on having all who are owed it.
LEMMA OwedStays ==
    ASSUME WeeklyInv, WeeklyTypes', Grows, dropouts \subseteq dropouts',
           \A v \in Mailers : Retrying(v)' => Retrying(v) /\ mailer'[v].loaded = mailer[v].loaded
    PROVE  \A v \in Mailers, a \in People :
               Retrying(v)' /\ Owed(mailer[v].loaded.report, a)' => a \in mailer'[v].loaded.to
<1> SUFFICES ASSUME NEW v \in Mailers, NEW a \in People, Retrying(v)',
                    Owed(mailer[v].loaded.report, a)'
             PROVE  a \in mailer'[v].loaded.to
    OBVIOUS
<1>1. Retrying(v) /\ mailer'[v].loaded = mailer[v].loaded
    OBVIOUS
<1>2. PICK n \in Weekly!Reports : n = mailer[v].loaded.report /\ n = mailer'[v].loaded.report
    BY <1>1, RetriesAreMailed, MailedAre DEF WeeklyInv
<1>3. Owed(n, a)' /\ n \in mailed
    BY <1>1, <1>2, RetriesAreMailed DEF Owed
<1>4. Owed(mailer[v].loaded.report, a)
    BY <1>2, <1>3, OwedLess DEF WeeklyInv
<1> QED BY <1>1, <1>4 DEF WeeklyInv, OwedAreListed

\* A report of which nobody gets a mail, and that no other worker begins to send again.
LEMMA SentOnceStays ==
    ASSUME WeeklyTypes, WeeklyTypes', NEW n \in Weekly!Reports, SentOnce(n),
           \A a \in People : got'[n][a] = got[n][a],
           \A v \in Mailers : Retrying(v)' => \/ Retrying(v) /\ mailer'[v] = mailer[v]
                                              \/ mailer'[v].loaded.report # n,
           \/ /\ missed' = missed
              /\ \A v \in Mailers : Retrying(v) => \/ Retrying(v)' /\ mailer'[v] = mailer[v]
                                                   \/ mailer[v].loaded.report # n
           \/ missed'.report # n
           \/ \A a \in missed'.to : got'[n][a] = 0
    PROVE  SentOnce(n)'
<1>1. \A a \in People : got'[n][a] <= 1
    BY DEF SentOnce
<1>2. ASSUME NEW v \in Mailers, Retrying(v)', mailer'[v].loaded.report = n
      PROVE  Retrying(v) /\ mailer'[v] = mailer[v]
    BY <1>2
<1>3. ASSUME NEW v \in Mailers, NEW u \in Mailers, Retrying(v)', mailer'[v].loaded.report = n,
             Retrying(u)', mailer'[u].loaded.report = n
      PROVE  v = u
  <2>1. /\ Retrying(v) /\ mailer[v].loaded.report = n
        /\ Retrying(u) /\ mailer[u].loaded.report = n
      BY <1>2, <1>3
  <2> QED BY <2>1 DEF SentOnce
<1>4. ASSUME NEW v \in Mailers, mailer'[v].loaded.report = n
      PROVE  /\ mailer'[v].at = "retry" => \A a \in mailer'[v].loaded.to : got'[n][a] = 0
             /\ mailer'[v].at = "save" => \A a \in mailer'[v].still : got'[n][a] = 0
  <2>1. CASE ~(mailer'[v].at \in {"retry", "save"})
      BY <2>1
  <2>2. CASE mailer'[v].at \in {"retry", "save"}
    <3>1. Retrying(v)'
        BY <2>2 DEF Retrying
    <3>2. mailer'[v] = mailer[v] /\ mailer[v].loaded.report = n
        BY <1>2, <1>4, <3>1
    <3>3. mailer[v].loaded.to \subseteq People /\ mailer[v].still \subseteq People
        BY MailerColumns
    <3> QED BY <3>2, <3>3 DEF SentOnce
  <2> QED BY <2>1, <2>2
<1>5. ASSUME missed'.report = n,
             \A v \in Mailers : Retrying(v)' => mailer'[v].loaded.report # n,
             NEW a \in missed'.to
      PROVE  got'[n][a] = 0
  <2>1. CASE /\ missed' = missed
             /\ \A v \in Mailers : Retrying(v) => \/ Retrying(v)' /\ mailer'[v] = mailer[v]
                                                  \/ mailer[v].loaded.report # n
    <3>1. \A v \in Mailers : Retrying(v) => mailer[v].loaded.report # n
        BY <1>5, <2>1
    <3>2. a \in People /\ missed.report = n /\ a \in missed.to
        BY <1>5, <2>1 DEF WeeklyTypes, Lists
    <3> QED BY <3>1, <3>2 DEF SentOnce
  <2>2. CASE \A b \in missed'.to : got'[n][b] = 0
      BY <1>5, <2>2
  <2> QED BY <1>5, <2>1, <2>2
<1> QED BY <1>1, <1>3, <1>4, <1>5 DEF SentOnce

\* A worker sends a report again to those it missed.
LEMMA ResendKeeps ==
    ASSUME WeeklyInv, NEW w \in Mailers, Weekly!Resend(w)
    PROVE  WeeklyInv'
<1>1. PICK old \in Lists : old = mailer[w].loaded
    BY MailerColumns DEF WeeklyInv
<1>2. PICK failed \in SUBSET old.to :
          /\ Weekly!Mails(old.report, old.to, failed)
          /\ mailer' = [mailer EXCEPT ![w].at = "save", ![w].still = failed]
    BY <1>1 DEF Weekly!Resend
<1>3. /\ mailer[w].at = "retry" /\ Retrying(w)
      /\ UNCHANGED <<weekday, reported, missed, reports, mailed, dropouts, shared>>
    BY DEF Weekly!Resend, Retrying
<1>4. PICK to_ \in Mailing : /\ mailer' = [mailer EXCEPT ![w] = to_]
                             /\ to_.at = "save" /\ to_.still = failed /\ to_.loaded = old
  <2>1. PICK me_ \in Mailing : me_ = mailer[w]
      BY MailerColumns DEF WeeklyInv
  <2>2. failed \in SUBSET People
      BY <1>1, <1>2 DEF Lists
  <2>3. /\ [me_ EXCEPT !.at = "save", !.still = failed] \in Mailing
        /\ [me_ EXCEPT !.at = "save", !.still = failed].at = "save"
        /\ [me_ EXCEPT !.at = "save", !.still = failed].still = failed
        /\ [me_ EXCEPT !.at = "save", !.still = failed].loaded = me_.loaded
      BY <2>2 DEF Mailing
  <2>4. mailer' = [mailer EXCEPT ![w] = [me_ EXCEPT !.at = "save", !.still = failed]]
      BY <1>2, <2>1 DEF WeeklyInv, WeeklyTypes
  <2> QED BY <1>1, <2>1, <2>3, <2>4
<1>5. /\ mailer' \in [Mailers -> Mailing] /\ mailer'[w].at = "save" /\ mailer'[w].still = failed
      /\ mailer'[w].loaded = old /\ \A v \in Mailers : v # w => mailer'[v] = mailer[v]
    BY <1>4, MailerMoves DEF WeeklyInv
<1>6. /\ old.report \in mailed /\ old.report \in Weekly!Reports /\ old.to \subseteq People
      /\ old.to # {} /\ old.tries \in Nat /\ old.tries < Retries
      /\ \A a \in old.to : tried[old.report][a] >= old.tries + 1
  <2>1. OnList(old, 1) /\ old.to # {}
      BY <1>1, <1>3 DEF WeeklyInv, ListsStand, ListOf
  <2> QED BY <2>1, MailedAre DEF OnList, WeeklyInv, Lists
<1>7. /\ got' \in [Weekly!Reports -> [People -> Nat]]
      /\ tried' \in [Weekly!Reports -> [People -> Nat]]
      /\ \A m \in Weekly!Reports : m # old.report => got'[m] = got[m] /\ tried'[m] = tried[m]
      /\ \A a \in People :
            /\ got'[old.report][a] = IF a \in old.to \ failed /\ got[old.report][a] < 2
                                     THEN got[old.report][a] + 1 ELSE got[old.report][a]
            /\ tried'[old.report][a] = IF a \in old.to /\ tried[old.report][a] <= Retries
                                       THEN tried[old.report][a] + 1 ELSE tried[old.report][a]
    BY <1>2, <1>6, MailsCount DEF WeeklyInv
<1>8. WeeklyTypes'
    BY <1>3, <1>5, <1>7 DEF WeeklyInv, WeeklyTypes
<1>9. Grows
  <2>1. old.to \in SUBSET People /\ failed \in SUBSET People
      BY <1>2, <1>6
  <2> QED BY <1>2, <1>6, <2>1, MailsGrow DEF WeeklyInv
<1>10. FreshWeeks'
  <2>1. \A v \in Mailers : Sending(v)' => mailer'[v] = mailer[v]
      BY <1>5 DEF Sending
  <2>2. \A n \in Weekly!Reports : n \notin mailed => got'[n] = got[n]
      BY <1>6, <1>7
  <2> QED BY <1>3, <2>1, <2>2, FreshStays DEF WeeklyInv
<1>11. ListsStand'
  <2>1. OnList(missed, 1)'
    <3>1. PICK l \in Lists : l = missed
        BY DEF WeeklyInv, WeeklyTypes
    <3>2. OnList(l, 1)'
        BY <1>3, <1>7, <1>9, <3>1, ListStays DEF WeeklyInv, ListsStand
    <3> QED BY <1>3, <3>1, <3>2 DEF OnList
  <2>2. OnList(old, 2)'
    <3>1. ASSUME NEW a \in old.to PROVE tried'[old.report][a] >= old.tries + 2
      <4>1. /\ tried[old.report][a] \in Nat /\ tried[old.report][a] >= old.tries + 1
            /\ tried'[old.report][a] = IF tried[old.report][a] <= Retries
                                       THEN tried[old.report][a] + 1 ELSE tried[old.report][a]
          BY <1>6, <1>7 DEF WeeklyInv, WeeklyTypes
      <4> QED BY <1>6, <4>1, WeeksAre
    <3> QED BY <1>3, <1>6, <3>1 DEF OnList
  <2>3. \A a \in old.to \ failed : got'[old.report][a] > 0
    <3>1. ASSUME NEW a \in old.to \ failed PROVE got'[old.report][a] > 0
      <4>1. /\ got[old.report][a] \in Nat
            /\ got'[old.report][a] = IF got[old.report][a] < 2
                                     THEN got[old.report][a] + 1 ELSE got[old.report][a]
          BY <1>6, <1>7 DEF WeeklyInv, WeeklyTypes
      <4> QED BY <4>1
    <3> QED BY <3>1
  <2>4. ListOf(w)'
      BY <1>2, <1>5, <1>6, <2>2, <2>3 DEF ListOf, OnList
  <2>5. ASSUME NEW v \in Mailers, v # w PROVE ListOf(v)'
      BY <1>3, <1>5, <1>8, <1>9, <2>5, ListOfStays DEF WeeklyInv, ListsStand
  <2> QED BY <2>1, <2>4, <2>5 DEF ListsStand
<1>12. OwedAreListed'
  <2>1. ASSUME NEW n \in Weekly!Reports, NEW a \in People, Owed(n, a)' PROVE Owed(n, a)
    <3>1. n \in mailed /\ dropouts \subseteq dropouts'
        BY <1>3, <2>1 DEF Owed
    <3> QED BY <1>8, <1>9, <2>1, <3>1, OwedLess DEF WeeklyInv
  <2>2. \A v \in Mailers, a \in People :
            Retrying(v)' /\ Owed(mailer[v].loaded.report, a)' => a \in mailer'[v].loaded.to
    <3>1. \A v \in Mailers : Retrying(v)' => Retrying(v) /\ mailer'[v].loaded = mailer[v].loaded
        BY <1>1, <1>3, <1>5 DEF Retrying
    <3>2. dropouts \subseteq dropouts'
        BY <1>3
    <3> QED BY <1>8, <1>9, <3>1, <3>2, OwedStays
  <2> QED BY <1>3, <2>1, <2>2 DEF WeeklyInv, OwedAreListed
<1>13. RetriedOnce'
  <2> SUFFICES ASSUME NEW n \in Weekly!Reports, n \notin shared' PROVE SentOnce(n)'
      BY DEF RetriedOnce
  <2>1. SentOnce(n)
      BY <1>3 DEF WeeklyInv, RetriedOnce
  <2>2. \A v \in Mailers : /\ Retrying(v)' <=> Retrying(v)
                           /\ mailer'[v].loaded = mailer[v].loaded
      BY <1>1, <1>3, <1>5 DEF Retrying
  <2>3. CASE n = old.report
    <3>1. \A a \in old.to : got[n][a] = 0
        BY <1>1, <1>3, <2>1, <2>3 DEF SentOnce
    <3>2. \A a \in People : got'[n][a] <= 1
      <4>1. ASSUME NEW a \in People PROVE got'[n][a] <= 1
        <5>1. got[n][a] \in Nat /\ got[n][a] <= 1
            BY <2>1 DEF SentOnce, WeeklyInv, WeeklyTypes
        <5>2. got'[n][a] = IF a \in old.to \ failed /\ got[n][a] < 2
                           THEN got[n][a] + 1 ELSE got[n][a]
            BY <1>7, <2>3
        <5> QED BY <3>1, <5>1, <5>2
      <4> QED BY <4>1
    <3>3. \A v \in Mailers : Retrying(v)' /\ mailer'[v].loaded.report = n => v = w
        BY <1>1, <1>3, <2>1, <2>2, <2>3 DEF SentOnce
    <3>4. \A a \in failed : got'[n][a] = 0
        BY <1>6, <1>7, <2>3, <3>1
    <3>5. Retrying(w)' /\ mailer'[w].loaded.report = n
        BY <1>5, <2>3 DEF Retrying
    <3>6. \A v \in Mailers : mailer'[v].loaded.report = n =>
              /\ mailer'[v].at # "retry"
              /\ mailer'[v].at = "save" => \A a \in mailer'[v].still : got'[n][a] = 0
        BY <1>5, <3>3, <3>4 DEF Retrying
    <3> QED BY <3>2, <3>3, <3>5, <3>6 DEF SentOnce
  <2>4. CASE n # old.report
    <3>1. \A v \in Mailers : Retrying(v)' => \/ Retrying(v) /\ mailer'[v] = mailer[v]
                                             \/ mailer'[v].loaded.report # n
        BY <1>5, <2>2, <2>4
    <3>2. \A v \in Mailers : Retrying(v) => \/ Retrying(v)' /\ mailer'[v] = mailer[v]
                                            \/ mailer[v].loaded.report # n
        BY <1>1, <1>5, <2>2, <2>4
    <3>3. \A a \in People : got'[n][a] = got[n][a]
        BY <1>7, <2>4
    <3> QED BY <1>3, <1>8, <2>1, <3>1, <3>2, <3>3, SentOnceStays DEF WeeklyInv
  <2> QED BY <2>3, <2>4
<1> QED BY <1>8, <1>10, <1>11, <1>12, <1>13 DEF WeeklyInv

\* A worker writes whom it still missed over the list.
LEMMA SaveKeeps ==
    ASSUME WeeklyInv, NEW w \in Mailers, Weekly!SaveRetry(w)
    PROVE  WeeklyInv'
<1>1. PICK me_ \in Mailing : me_ = mailer[w]
    BY MailerColumns DEF WeeklyInv
<1>2. PICK old \in Lists : old = me_.loaded
    BY DEF Mailing
<1>3. PICK still \in SUBSET People : still = me_.still
    BY DEF Mailing
<1>4. /\ mailer[w].at = "save" /\ Retrying(w) /\ missed' = Weekly!StillMissed(old, still)
      /\ dropouts' = (IF missed.report # old.report
                      THEN dropouts \cup ({missed.report} \X missed.to) ELSE dropouts)
      /\ mailer' = [mailer EXCEPT ![w].at = "claim", ![w].last = reported, ![w].still = {}]
      /\ UNCHANGED <<weekday, reported, reports, mailed, got, tried, shared>>
    BY <1>1, <1>2, <1>3 DEF Weekly!SaveRetry, Retrying
<1>5. PICK to_ \in Mailing : mailer' = [mailer EXCEPT ![w] = to_] /\ to_.at = "claim"
  <2>1. PICK l \in Int : l = reported
      BY DEF WeeklyInv, WeeklyTypes
  <2>2. mailer' = [mailer EXCEPT ![w] = [me_ EXCEPT !.at = "claim", !.last = l, !.still = {}]]
      BY <1>1, <1>4, <2>1 DEF WeeklyInv, WeeklyTypes
  <2>3. PICK e \in Mailing : e = [me_ EXCEPT !.at = "claim", !.last = l] /\ e.at = "claim"
    <3>1. /\ [me_ EXCEPT !.at = "claim", !.last = l] \in Mailing
          /\ [me_ EXCEPT !.at = "claim", !.last = l].at = "claim"
        BY DEF Mailing
    <3> QED BY <3>1
  <2>4. PICK f \in Mailing : f = [e EXCEPT !.still = {}] /\ f.at = "claim"
    <3>1. [e EXCEPT !.still = {}] \in Mailing /\ [e EXCEPT !.still = {}].at = "claim"
        BY <2>3 DEF Mailing
    <3> QED BY <3>1
  <2>5. [me_ EXCEPT !.at = "claim", !.last = l, !.still = {}]
            = [[me_ EXCEPT !.at = "claim", !.last = l] EXCEPT !.still = {}]
      OBVIOUS
  <2> QED BY <2>2, <2>3, <2>4, <2>5
<1>6. /\ mailer' \in [Mailers -> Mailing] /\ mailer'[w].at = "claim"
      /\ \A v \in Mailers : v # w => mailer'[v] = mailer[v]
    BY <1>5, MailerMoves DEF WeeklyInv
<1>7. /\ old.report \in mailed /\ old.report \in Weekly!Reports /\ old.to \subseteq People
      /\ old.tries \in Nat /\ old.tries < Retries /\ still \subseteq old.to
      /\ \A a \in old.to : tried[old.report][a] >= old.tries + 2
      /\ \A a \in old.to \ still : got[old.report][a] > 0
  <2>1. OnList(old, 2) /\ old.to # {} /\ still \subseteq old.to
      BY <1>1, <1>2, <1>3, <1>4 DEF WeeklyInv, ListsStand, ListOf
  <2>2. \A a \in old.to \ still : got[old.report][a] > 0
      BY <1>1, <1>2, <1>3, <1>4 DEF WeeklyInv, ListsStand, ListOf
  <2> QED BY <2>1, <2>2, MailedAre DEF OnList, WeeklyInv, Lists
<1>8. /\ missed' \in Lists
      /\ \/ missed'.to = {} /\ missed'.report = 0 /\ (still = {} \/ old.tries + 1 >= Retries)
         \/ /\ missed'.to = still /\ missed'.report = old.report /\ missed'.tries = old.tries + 1
            /\ still # {} /\ old.tries + 1 < Retries
  <2>1. CASE still # {} /\ old.tries + 1 < Retries
    <3>1. PICK t \in Nat : t = old.tries + 1
        BY <1>7
    <3>2. missed' = [old EXCEPT !.to = still, !.tries = t]
        BY <1>4, <2>1, <3>1 DEF Weekly!StillMissed
    <3>3. /\ [old EXCEPT !.to = still, !.tries = t] \in Lists
          /\ [old EXCEPT !.to = still, !.tries = t].to = still
          /\ [old EXCEPT !.to = still, !.tries = t].tries = t
          /\ [old EXCEPT !.to = still, !.tries = t].report = old.report
        BY DEF Lists
    <3> QED BY <2>1, <3>1, <3>2, <3>3
  <2>2. CASE ~(still # {} /\ old.tries + 1 < Retries)
    <3>1. missed' = [report |-> 0, to |-> {}, tries |-> 0] /\ missed' \in Lists
        BY <1>4, <2>2, WeeksAre DEF Weekly!StillMissed
    <3>2. still = {} \/ old.tries + 1 >= Retries
        BY <1>7, <2>2, WeeksAre
    <3> QED BY <3>1, <3>2
  <2> QED BY <2>1, <2>2
<1>9. WeeklyTypes'
    BY <1>4, <1>6, <1>8 DEF WeeklyInv, WeeklyTypes
<1>10. Grows /\ dropouts \subseteq dropouts'
  <2>1. Grows
      BY <1>4, MailsGrow DEF WeeklyInv
  <2> QED BY <1>4, <2>1
<1>11. FreshWeeks'
  <2>1. \A v \in Mailers : Sending(v)' => mailer'[v] = mailer[v]
      BY <1>6 DEF Sending
  <2> QED BY <1>4, <2>1, FreshStays DEF WeeklyInv
<1>12. ListsStand'
  <2>1. OnList(missed, 1)'
    <3>1. CASE missed'.to = {}
        BY <3>1 DEF OnList
    <3>2. CASE /\ missed'.to = still /\ missed'.report = old.report
               /\ missed'.tries = old.tries + 1 /\ old.tries + 1 < Retries
      <4>1. ASSUME NEW a \in still PROVE tried[old.report][a] >= (old.tries + 1) + 1
        <5>1. tried[old.report][a] \in Nat /\ tried[old.report][a] >= old.tries + 2
            BY <1>7 DEF WeeklyInv, WeeklyTypes
        <5> QED BY <1>7, <5>1
      <4> QED BY <1>4, <1>7, <3>2, <4>1 DEF OnList
    <3> QED BY <1>8, <3>1, <3>2
  <2>2. ListOf(w)'
      BY <1>6 DEF ListOf, Retrying
  <2>3. ASSUME NEW v \in Mailers, v # w PROVE ListOf(v)'
      BY <1>4, <1>6, <1>9, <1>10, <2>3, ListOfStays DEF WeeklyInv, ListsStand
  <2> QED BY <2>1, <2>2, <2>3 DEF ListsStand
<1>13. OwedAreListed'
  <2>1. ASSUME NEW n \in Weekly!Reports, NEW a \in People, Owed(n, a)'
        PROVE  missed'.report = n /\ a \in missed'.to
    <3>1. n \in mailed
        BY <1>4, <2>1 DEF Owed
    <3>2. Owed(n, a)
        BY <1>9, <1>10, <2>1, <3>1, OwedLess DEF WeeklyInv
    <3>3. missed.report = n /\ a \in missed.to
        BY <3>2 DEF WeeklyInv, OwedAreListed
    <3>4. n = old.report
        BY <1>4, <2>1, <3>3 DEF Owed
    <3>5. a \in old.to
        BY <1>1, <1>2, <1>4, <3>2, <3>4 DEF WeeklyInv, OwedAreListed
    <3>6. a \in still
        BY <1>7, <3>2, <3>4, <3>5 DEF Owed
    <3>7. old.tries + 1 < Retries
      <4>1. /\ tried[n][a] \in Nat /\ tried[n][a] <= Retries /\ tried[n][a] >= old.tries + 2
          BY <1>7, <3>2, <3>4, <3>5 DEF Owed, WeeklyInv, WeeklyTypes
      <4> QED BY <1>7, <4>1, WeeksAre
    <3>8. ~(old.tries + 1 >= Retries)
        BY <1>7, <3>7, WeeksAre
    <3> QED BY <1>8, <3>4, <3>6, <3>8
  <2>2. \A v \in Mailers, a \in People :
            Retrying(v)' /\ Owed(mailer[v].loaded.report, a)' => a \in mailer'[v].loaded.to
    <3>1. \A v \in Mailers : Retrying(v)' => Retrying(v) /\ mailer'[v].loaded = mailer[v].loaded
        BY <1>6 DEF Retrying
    <3> QED BY <1>9, <1>10, <3>1, OwedStays
  <2> QED BY <2>1, <2>2 DEF OwedAreListed
<1>14. RetriedOnce'
  <2> SUFFICES ASSUME NEW n \in Weekly!Reports, n \notin shared' PROVE SentOnce(n)'
      BY DEF RetriedOnce
  <2>1. SentOnce(n)
      BY <1>4 DEF WeeklyInv, RetriedOnce
  <2>2. \A v \in Mailers : Retrying(v)' => Retrying(v) /\ mailer'[v] = mailer[v]
      BY <1>6 DEF Retrying
  <2>3. missed'.report # n \/ \A a \in missed'.to : got'[n][a] = 0
    <3>1. CASE missed'.to = {}
        BY <3>1
    <3>2. CASE missed'.to = still /\ missed'.report = old.report
        BY <1>1, <1>2, <1>3, <1>4, <2>1, <3>2 DEF SentOnce
    <3> QED BY <1>8, <3>1, <3>2
  <2> QED BY <1>4, <1>9, <2>1, <2>2, <2>3, SentOnceStays DEF WeeklyInv
<1> QED BY <1>9, <1>11, <1>12, <1>13, <1>14 DEF WeeklyInv

\* A worker claims the next week, or finds that it is not due.
LEMMA ClaimKeeps ==
    ASSUME WeeklyInv, NEW w \in Mailers, Weekly!Claim(w)
    PROVE  WeeklyInv'
<1>1. /\ mailer[w].at = "claim" /\ ~Retrying(w) /\ ~Sending(w)
      /\ UNCHANGED <<weekday, missed, mailed, got, tried, dropouts, shared>>
    BY DEF Weekly!Claim, Retrying, Sending
<1>2. CASE ~(mailer[w].now - mailer[w].last >= Week /\ reported = mailer[w].last)
  <2>1. /\ mailer' = [mailer EXCEPT ![w] = Weekly!Idle] /\ UNCHANGED <<reports, reported>>
      BY <1>2 DEF Weekly!Claim
  <2>2. weekday' \in Int /\ reported' \in Int /\ shared \subseteq shared'
      BY <1>1, <2>1 DEF WeeklyInv, WeeklyTypes
  <2>3. UNCHANGED <<missed, reports, mailed, got, tried, dropouts>>
      BY <1>1, <2>1
  <2> QED BY <1>1, <2>1, <2>2, <2>3, WeeksAre, LeaveKeeps
<1>3. CASE mailer[w].now - mailer[w].last >= Week /\ reported = mailer[w].last
  <2>1. PICK p \in Nat : p = reports + 1
      BY WeeksAre DEF WeeklyInv, WeeklyTypes
  <2>2. PICK me_ \in Mailing : me_ = mailer[w]
      BY MailerColumns DEF WeeklyInv
  <2>3. /\ reports < MaxReports /\ reports' = p /\ reported' = me_.now
        /\ mailer' = [mailer EXCEPT ![w].at = "mail", ![w].report = p]
      BY <1>3, <2>1, <2>2 DEF Weekly!Claim
  <2>4. PICK to_ \in Mailing : /\ mailer' = [mailer EXCEPT ![w] = to_]
                               /\ to_.at = "mail" /\ to_.report = p
    <3>1. /\ [me_ EXCEPT !.at = "mail", !.report = p] \in Mailing
          /\ [me_ EXCEPT !.at = "mail", !.report = p].at = "mail"
          /\ [me_ EXCEPT !.at = "mail", !.report = p].report = p
        BY DEF Mailing
    <3>2. mailer' = [mailer EXCEPT ![w] = [me_ EXCEPT !.at = "mail", !.report = p]]
        BY <2>2, <2>3 DEF WeeklyInv, WeeklyTypes
    <3> QED BY <3>1, <3>2
  <2>5. /\ mailer' \in [Mailers -> Mailing] /\ mailer'[w].at = "mail" /\ mailer'[w].report = p
        /\ \A v \in Mailers : v # w => mailer'[v] = mailer[v]
      BY <2>4, MailerMoves DEF WeeklyInv
  <2>6. /\ reports \in Nat /\ p \in 1 .. p /\ p \in Weekly!Reports /\ p > reports
        /\ 1 .. reports \subseteq 1 .. p /\ p \in 0 .. MaxReports /\ p \notin 1 .. reports
      BY <2>1, <2>3, WeeksAre DEF WeeklyInv, WeeklyTypes
  <2>7. WeeklyTypes'
    <3>1. reported' \in Int
        BY <2>3 DEF Mailing
    <3>2. mailed' \subseteq 1 .. reports'
        BY <1>1, <2>3, <2>6 DEF WeeklyInv, WeeklyTypes
    <3> QED BY <1>1, <2>3, <2>5, <2>6, <3>1, <3>2 DEF WeeklyInv, WeeklyTypes
  <2>8. Grows
      BY <1>1, MailsGrow DEF WeeklyInv
  <2>9. FreshWeeks'
    <3>1. \A v \in Mailers : v # w => (Sending(v)' <=> Sending(v)) /\ mailer'[v] = mailer[v]
        BY <2>5 DEF Sending
    <3>2. \A v \in Mailers : v # w /\ Sending(v)' =>
              mailer'[v].report \in 1 .. reports /\ mailer'[v].report \notin mailed
        BY <3>1 DEF WeeklyInv, FreshWeeks
    <3>3. p \notin mailed
        BY <2>6 DEF WeeklyInv, WeeklyTypes
    <3>4. \A v \in Mailers : Sending(v)' => /\ mailer'[v].report \in 1 .. reports'
                                            /\ mailer'[v].report \notin mailed'
        BY <1>1, <2>3, <2>5, <2>6, <3>2, <3>3
    <3>5. ASSUME NEW v \in Mailers, NEW u \in Mailers, Sending(v)', Sending(u)',
                 mailer'[v].report = mailer'[u].report
          PROVE  v = u
      <4>1. CASE v = w
          BY <2>5, <2>6, <3>2, <3>5, <4>1
      <4>2. CASE u = w
          BY <2>5, <2>6, <3>2, <3>5, <4>2
      <4>3. CASE v # w /\ u # w
          BY <3>1, <3>5, <4>3 DEF WeeklyInv, FreshWeeks
      <4> QED BY <4>1, <4>2, <4>3
    <3>6. ASSUME NEW n \in Weekly!Reports, Unsent(n)', NEW a \in People PROVE got'[n][a] = 0
      <4>1. Unsent(n)
        <5>1. CASE n > p
          <6>1. n > reports
              BY <2>1, <2>6, <5>1, WeeksAre
          <6> QED BY <6>1 DEF Unsent
        <5>2. ASSUME NEW v \in Mailers, mailer'[v].at = "mail", mailer'[v].report = n
              PROVE  Unsent(n)
            BY <2>5, <2>6, <5>2 DEF Unsent
        <5> QED BY <2>3, <3>6, <5>1, <5>2 DEF Unsent
      <4> QED BY <1>1, <4>1 DEF WeeklyInv, FreshWeeks
    <3>7. ASSUME NEW v \in Mailers, mailer'[v].at = "settle", NEW a \in People
          PROVE  got'[mailer'[v].report][a] = IF a \in mailer'[v].still THEN 0 ELSE 1
      <4>1. v # w /\ mailer'[v] = mailer[v] /\ got' = got
          BY <1>1, <2>5, <3>7
      <4> QED BY <3>7, <4>1 DEF WeeklyInv, FreshWeeks
    <3> QED BY <3>4, <3>5, <3>6, <3>7 DEF FreshWeeks
  <2>10. ListsStand'
    <3>1. OnList(missed, 1)'
        BY <1>1 DEF WeeklyInv, ListsStand, OnList
    <3>2. ListOf(w)'
        BY <2>5 DEF ListOf, Retrying
    <3>3. ASSUME NEW v \in Mailers, v # w PROVE ListOf(v)'
        BY <1>1, <2>5, <2>7, <2>8, <3>3, ListOfStays DEF WeeklyInv, ListsStand
    <3> QED BY <3>1, <3>2, <3>3 DEF ListsStand
  <2>11. \A v \in Mailers : /\ Retrying(v)' => Retrying(v) /\ mailer'[v] = mailer[v]
                            /\ Retrying(v) => Retrying(v)' /\ mailer'[v] = mailer[v]
      BY <1>1, <2>5 DEF Retrying
  <2>12. OwedAreListed'
    <3>1. \A n, a : Owed(n, a)' <=> Owed(n, a)
        BY <1>1 DEF Owed
    <3>2. dropouts \subseteq dropouts'
        BY <1>1
    <3>3. \A v \in Mailers : Retrying(v)' => Retrying(v) /\ mailer'[v].loaded = mailer[v].loaded
        BY <2>11
    <3>4. \A v \in Mailers, a \in People :
              Retrying(v)' /\ Owed(mailer[v].loaded.report, a)' => a \in mailer'[v].loaded.to
        BY <2>7, <2>8, <3>2, <3>3, OwedStays
    <3> QED BY <1>1, <3>1, <3>4 DEF WeeklyInv, OwedAreListed
  <2>13. RetriedOnce'
    <3>1. ASSUME NEW n \in Weekly!Reports, n \notin shared' PROVE SentOnce(n)'
      <4>1. SentOnce(n)
          BY <1>1, <3>1 DEF WeeklyInv, RetriedOnce
      <4>2. \A a \in People : got'[n][a] = got[n][a]
          BY <1>1
      <4> QED BY <1>1, <2>7, <2>11, <4>1, <4>2, SentOnceStays DEF WeeklyInv
    <3> QED BY <3>1 DEF RetriedOnce
  <2> QED BY <2>7, <2>9, <2>10, <2>12, <2>13 DEF WeeklyInv
<1> QED BY <1>2, <1>3

\* A worker mails every admin of its week.
LEMMA MailAllKeeps ==
    ASSUME WeeklyInv, NEW w \in Mailers, Weekly!MailAll(w)
    PROVE  WeeklyInv'
<1>1. PICK me_ \in Mailing : me_ = mailer[w]
    BY MailerColumns DEF WeeklyInv
<1>2. PICK n \in Nat : n = me_.report
    BY DEF Mailing
<1>3. PICK failed \in SUBSET People :
          /\ Weekly!Mails(n, People, failed)
          /\ mailer' = [mailer EXCEPT
                 ![w].at = "settle", ![w].loaded = missed, ![w].still = failed]
    BY <1>1, <1>2 DEF Weekly!MailAll
<1>4. /\ mailer[w].at = "mail" /\ Sending(w) /\ ~Retrying(w)
      /\ UNCHANGED <<weekday, reported, missed, reports, mailed, dropouts, shared>>
    BY DEF Weekly!MailAll, Sending, Retrying
<1>5. /\ n \in 1 .. reports /\ n \notin mailed /\ n \in Weekly!Reports
      /\ \A a \in People : got[n][a] = 0
  <2>1. n \in 1 .. reports /\ n \notin mailed
      BY <1>1, <1>2, <1>4 DEF WeeklyInv, FreshWeeks
  <2>2. n \in Weekly!Reports
      BY <2>1, MailedAre DEF WeeklyInv
  <2>3. Unsent(n)
      BY <1>1, <1>2, <1>4 DEF Unsent
  <2> QED BY <2>1, <2>2, <2>3 DEF WeeklyInv, FreshWeeks
<1>6. PICK to_ \in Mailing : /\ mailer' = [mailer EXCEPT ![w] = to_] /\ to_.at = "settle"
                             /\ to_.loaded = missed /\ to_.still = failed /\ to_.report = n
  <2>1. PICK m \in Lists : m = missed
      BY DEF WeeklyInv, WeeklyTypes
  <2>2. mailer' = [mailer EXCEPT ![w] =
                       [me_ EXCEPT !.at = "settle", !.loaded = m, !.still = failed]]
      BY <1>1, <1>3, <2>1 DEF WeeklyInv, WeeklyTypes
  <2>3. PICK e \in Mailing : /\ e = [me_ EXCEPT !.at = "settle", !.loaded = m]
                             /\ e.at = "settle" /\ e.loaded = m /\ e.report = n
    <3>1. /\ [me_ EXCEPT !.at = "settle", !.loaded = m] \in Mailing
          /\ [me_ EXCEPT !.at = "settle", !.loaded = m].at = "settle"
          /\ [me_ EXCEPT !.at = "settle", !.loaded = m].loaded = m
          /\ [me_ EXCEPT !.at = "settle", !.loaded = m].report = me_.report
        BY DEF Mailing
    <3> QED BY <1>2, <3>1
  <2>4. PICK f \in Mailing : /\ f = [e EXCEPT !.still = failed] /\ f.at = "settle"
                             /\ f.loaded = m /\ f.still = failed /\ f.report = n
    <3>1. /\ [e EXCEPT !.still = failed] \in Mailing
          /\ [e EXCEPT !.still = failed].at = e.at
          /\ [e EXCEPT !.still = failed].loaded = e.loaded
          /\ [e EXCEPT !.still = failed].report = e.report
          /\ [e EXCEPT !.still = failed].still = failed
        BY DEF Mailing
    <3> QED BY <2>3, <3>1
  <2>5. [me_ EXCEPT !.at = "settle", !.loaded = m, !.still = failed]
            = [[me_ EXCEPT !.at = "settle", !.loaded = m] EXCEPT !.still = failed]
      OBVIOUS
  <2> QED BY <2>1, <2>2, <2>3, <2>4, <2>5
<1>7. /\ mailer' \in [Mailers -> Mailing] /\ mailer'[w].at = "settle"
      /\ mailer'[w].loaded = missed /\ mailer'[w].still = failed /\ mailer'[w].report = n
      /\ \A v \in Mailers : v # w => mailer'[v] = mailer[v]
    BY <1>6, MailerMoves DEF WeeklyInv
<1>8. /\ got' \in [Weekly!Reports -> [People -> Nat]]
      /\ tried' \in [Weekly!Reports -> [People -> Nat]]
      /\ \A m \in Weekly!Reports : m # n => got'[m] = got[m] /\ tried'[m] = tried[m]
      /\ \A a \in People :
            /\ got'[n][a] = IF a \in People \ failed /\ got[n][a] < 2
                            THEN got[n][a] + 1 ELSE got[n][a]
            /\ tried'[n][a] = IF a \in People /\ tried[n][a] <= Retries
                              THEN tried[n][a] + 1 ELSE tried[n][a]
    BY <1>3, <1>5, MailsCount DEF WeeklyInv
<1>9. /\ \A a \in People : got'[n][a] = IF a \in failed THEN 0 ELSE 1
      /\ \A a \in People : tried'[n][a] >= 1
  <2>1. ASSUME NEW a \in People
        PROVE  got'[n][a] = (IF a \in failed THEN 0 ELSE 1) /\ tried'[n][a] >= 1
    <3>1. /\ got[n][a] = 0 /\ tried[n][a] \in Nat
          /\ got'[n][a] = (IF a \in People \ failed /\ got[n][a] < 2
                           THEN got[n][a] + 1 ELSE got[n][a])
          /\ tried'[n][a] = (IF tried[n][a] <= Retries THEN tried[n][a] + 1 ELSE tried[n][a])
        BY <1>5, <1>8 DEF WeeklyInv, WeeklyTypes
    <3> QED BY <3>1, WeeksAre
  <2> QED BY <2>1
<1>10. WeeklyTypes'
    BY <1>4, <1>7, <1>8 DEF WeeklyInv, WeeklyTypes
<1>11. Grows /\ dropouts \subseteq dropouts'
  <2>1. People \in SUBSET People
      OBVIOUS
  <2>2. Grows
      BY <1>3, <1>5, <2>1, MailsGrow DEF WeeklyInv
  <2> QED BY <1>4, <2>2
<1>12. FreshWeeks'
  <2>1. \A v \in Mailers : Sending(v)' => Sending(v) /\ mailer'[v].report = mailer[v].report
      BY <1>1, <1>2, <1>4, <1>7 DEF Sending
  <2>2. \A v \in Mailers : Sending(v)' => /\ mailer'[v].report \in 1 .. reports'
                                          /\ mailer'[v].report \notin mailed'
      BY <1>4, <2>1 DEF WeeklyInv, FreshWeeks
  <2>3. \A v, u \in Mailers :
            Sending(v)' /\ Sending(u)' /\ mailer'[v].report = mailer'[u].report => v = u
      BY <2>1 DEF WeeklyInv, FreshWeeks
  <2>4. ASSUME NEW m \in Weekly!Reports, Unsent(m)', NEW a \in People PROVE got'[m][a] = 0
    <3>1. Unsent(m) /\ m # n
      <4>1. CASE m > reports
        <5>1. m # n
            BY <1>5, <4>1, WeeksAre DEF WeeklyInv, WeeklyTypes
        <5> QED BY <4>1, <5>1 DEF Unsent
      <4>2. ASSUME NEW v \in Mailers, mailer'[v].at = "mail", mailer'[v].report = m
            PROVE  Unsent(m) /\ m # n
        <5>1. v # w /\ mailer[v].at = "mail" /\ mailer[v].report = m
            BY <1>7, <4>2
        <5>2. m # n
            BY <1>1, <1>2, <1>4, <5>1 DEF WeeklyInv, FreshWeeks, Sending
        <5> QED BY <5>1, <5>2 DEF Unsent
      <4> QED BY <1>4, <2>4, <4>1, <4>2 DEF Unsent
    <3>2. got[m][a] = 0 /\ got'[m] = got[m]
        BY <1>8, <3>1 DEF WeeklyInv, FreshWeeks
    <3> QED BY <3>2
  <2>5. ASSUME NEW v \in Mailers, mailer'[v].at = "settle", NEW a \in People
        PROVE  got'[mailer'[v].report][a] = IF a \in mailer'[v].still THEN 0 ELSE 1
    <3>1. CASE v = w
        BY <1>7, <1>9, <3>1
    <3>2. CASE v # w
      <4>1. mailer'[v] = mailer[v] /\ Sending(v)
          BY <1>7, <2>5, <3>2 DEF Sending
      <4>2. mailer[v].report # n /\ mailer[v].report \in Weekly!Reports
          BY <1>1, <1>2, <1>4, <3>2, <4>1, MailedAre DEF WeeklyInv, FreshWeeks
      <4>3. got'[mailer[v].report] = got[mailer[v].report]
          BY <1>8, <4>2
      <4> QED BY <2>5, <4>1, <4>3 DEF WeeklyInv, FreshWeeks
    <3> QED BY <3>1, <3>2
  <2> QED BY <2>2, <2>3, <2>4, <2>5 DEF FreshWeeks
<1>13. ListsStand'
  <2>1. OnList(missed, 1)'
    <3>1. PICK l \in Lists : l = missed
        BY DEF WeeklyInv, WeeklyTypes
    <3>2. OnList(l, 1)'
        BY <1>4, <1>8, <1>11, <3>1, ListStays DEF WeeklyInv, ListsStand
    <3> QED BY <1>4, <3>1, <3>2 DEF OnList
  <2>2. ListOf(w)'
      BY <1>4, <1>7, <1>9, <2>1 DEF ListOf, Retrying, OnList
  <2>3. ASSUME NEW v \in Mailers, v # w PROVE ListOf(v)'
      BY <1>4, <1>7, <1>10, <1>11, <2>3, ListOfStays DEF WeeklyInv, ListsStand
  <2> QED BY <2>1, <2>2, <2>3 DEF ListsStand
<1>14. \A v \in Mailers : /\ Retrying(v)' => Retrying(v) /\ mailer'[v] = mailer[v]
                          /\ Retrying(v) => Retrying(v)' /\ mailer'[v] = mailer[v]
    BY <1>4, <1>7 DEF Retrying
<1>15. OwedAreListed'
  <2>1. ASSUME NEW m \in Weekly!Reports, NEW a \in People, Owed(m, a)' PROVE Owed(m, a)
    <3>1. m \in mailed
        BY <1>4, <2>1 DEF Owed
    <3> QED BY <1>10, <1>11, <2>1, <3>1, OwedLess DEF WeeklyInv
  <2>2. \A v \in Mailers : Retrying(v)' => Retrying(v) /\ mailer'[v].loaded = mailer[v].loaded
      BY <1>14
  <2>3. \A v \in Mailers, a \in People :
            Retrying(v)' /\ Owed(mailer[v].loaded.report, a)' => a \in mailer'[v].loaded.to
      BY <1>10, <1>11, <2>2, OwedStays
  <2> QED BY <1>4, <2>1, <2>3 DEF WeeklyInv, OwedAreListed
<1>16. RetriedOnce'
  <2> SUFFICES ASSUME NEW m \in Weekly!Reports, m \notin shared' PROVE SentOnce(m)'
      BY DEF RetriedOnce
  <2>1. SentOnce(m)
      BY <1>4 DEF WeeklyInv, RetriedOnce
  <2>2. CASE m # n
    <3>1. \A a \in People : got'[m][a] = got[m][a]
        BY <1>8, <2>2
    <3> QED BY <1>4, <1>10, <1>14, <2>1, <3>1, SentOnceStays DEF WeeklyInv
  <2>3. CASE m = n
    <3>1. \A a \in People : got'[m][a] <= 1
        BY <1>9, <2>3
    <3>2. ASSUME NEW v \in Mailers, Retrying(v)' PROVE mailer'[v].loaded.report # m
      <4>1. Retrying(v) /\ mailer'[v] = mailer[v]
          BY <1>14, <3>2
      <4> QED BY <1>5, <2>3, <4>1, RetriesAreMailed
    <3>3. missed'.report = m => missed'.to = {}
        BY <1>4, <1>5, <2>3 DEF WeeklyInv, ListsStand, OnList
    <3>4. \A v \in Mailers : mailer'[v].loaded.report = m => mailer'[v].at \notin {"retry", "save"}
        BY <3>2 DEF Retrying
    <3> QED BY <3>1, <3>2, <3>3, <3>4 DEF SentOnce
  <2> QED BY <2>2, <2>3
<1> QED BY <1>10, <1>12, <1>13, <1>15, <1>16 DEF WeeklyInv

\* A worker that mailed somebody puts the others on the list.
LEMMA SettleKeeps ==
    ASSUME WeeklyInv, NEW w \in Mailers, Weekly!Settle(w)
    PROVE  WeeklyInv'
<1>1. PICK me_ \in Mailing : me_ = mailer[w]
    BY MailerColumns DEF WeeklyInv
<1>2. PICK n \in Nat, still \in SUBSET People : n = me_.report /\ still = me_.still
    BY DEF Mailing
<1> DEFINE new == IF still = {} THEN Weekly!NoMissed ELSE [report |-> n, to |-> still, tries |-> 0]
<1>3. /\ mailer[w].at = "settle" /\ Sending(w) /\ ~Retrying(w)
      /\ missed' = (IF new = me_.loaded THEN missed ELSE new)
      /\ dropouts' = (IF missed' # missed THEN dropouts \cup ({missed.report} \X missed.to)
                      ELSE dropouts)
      /\ mailed' = mailed \cup {n} /\ mailer' = [mailer EXCEPT ![w] = Weekly!Idle]
      /\ UNCHANGED <<weekday, reported, reports, got, tried, shared>>
    BY <1>1, <1>2 DEF Weekly!Settle, Sending, Retrying
<1>4. /\ n \in 1 .. reports /\ n \notin mailed /\ n \in Weekly!Reports
      /\ \A a \in People : got[n][a] = (IF a \in still THEN 0 ELSE 1) /\ tried[n][a] >= 1
      /\ OnList(me_.loaded, 1)
  <2>1. n \in 1 .. reports /\ n \notin mailed
      BY <1>1, <1>2, <1>3 DEF WeeklyInv, FreshWeeks
  <2>2. n \in Weekly!Reports
      BY <2>1, MailedAre DEF WeeklyInv
  <2>3. \A a \in People : got[n][a] = IF a \in still THEN 0 ELSE 1
      BY <1>1, <1>2, <1>3 DEF WeeklyInv, FreshWeeks
  <2>4. OnList(me_.loaded, 1) /\ \A a \in People : tried[n][a] >= 1
      BY <1>1, <1>2, <1>3 DEF WeeklyInv, ListsStand, ListOf
  <2> QED BY <2>1, <2>2, <2>3, <2>4
<1>5. still # {} => missed'.report = n /\ missed'.to = still /\ missed'.tries = 0
  <2>1. ASSUME still # {} PROVE new # me_.loaded /\ new.report = n /\ new.to = still /\ new.tries = 0
    <3>1. new = [report |-> n, to |-> still, tries |-> 0]
        BY <2>1
    <3>2. new.report = n /\ new.to = still /\ new.tries = 0
        BY <3>1
    <3>3. new = me_.loaded => n \in mailed
        BY <1>4, <2>1, <3>2 DEF OnList
    <3> QED BY <1>4, <3>2, <3>3
  <2> QED BY <1>3, <2>1
<1>6. missed' \in Lists /\ (\/ missed' = missed
                            \/ missed'.to = {} /\ missed'.report = 0
                            \/ missed'.report = n /\ missed'.to = still /\ missed'.tries = 0)
  <2>1. CASE missed' = missed
      BY <2>1 DEF WeeklyInv, WeeklyTypes
  <2>2. CASE missed' # missed /\ still = {}
      BY <1>3, <2>2, WeeksAre
  <2>3. CASE missed' # missed /\ still # {}
    <3>1. missed' = [report |-> n, to |-> still, tries |-> 0]
        BY <1>3, <2>3
    <3>2. [report |-> n, to |-> still, tries |-> 0] \in Lists
        BY DEF Lists
    <3> QED BY <1>5, <2>3, <3>1, <3>2
  <2> QED BY <2>1, <2>2, <2>3
<1> HIDE DEF new
<1>7. /\ mailer' \in [Mailers -> Mailing] /\ mailer'[w].at = "idle"
      /\ \A v \in Mailers : v # w => mailer'[v] = mailer[v]
    BY <1>3, MailerMoves, WeeksAre DEF WeeklyInv
<1>8. WeeklyTypes'
  <2>1. mailed' \subseteq 1 .. reports'
      BY <1>3, <1>4 DEF WeeklyInv, WeeklyTypes
  <2> QED BY <1>3, <1>6, <1>7, <2>1 DEF WeeklyInv, WeeklyTypes
<1>9. Grows /\ dropouts \subseteq dropouts' /\ mailed \subseteq mailed'
  <2>1. Grows
      BY <1>3, MailsGrow DEF WeeklyInv
  <2> QED BY <1>3, <2>1
<1>10. FreshWeeks'
  <2>1. \A v \in Mailers : Sending(v)' => v # w /\ Sending(v) /\ mailer'[v] = mailer[v]
      BY <1>7 DEF Sending
  <2>2. ASSUME NEW v \in Mailers, Sending(v)'
        PROVE  mailer'[v].report \in 1 .. reports' /\ mailer'[v].report \notin mailed'
    <3>1. mailer[v].report \in 1 .. reports /\ mailer[v].report \notin mailed /\ mailer[v].report # n
        BY <1>1, <1>2, <1>3, <2>1, <2>2 DEF WeeklyInv, FreshWeeks
    <3> QED BY <1>3, <2>1, <2>2, <3>1
  <2>3. \A v, u \in Mailers :
            Sending(v)' /\ Sending(u)' /\ mailer'[v].report = mailer'[u].report => v = u
      BY <2>1 DEF WeeklyInv, FreshWeeks
  <2>4. \A m \in Weekly!Reports : Unsent(m)' => Unsent(m)
      BY <1>3, <1>7 DEF Unsent
  <2>5. \A m \in Weekly!Reports : Unsent(m)' => \A a \in People : got'[m][a] = 0
      BY <1>3, <2>4 DEF WeeklyInv, FreshWeeks
  <2>6. \A v \in Mailers : mailer'[v].at = "settle" => v # w /\ mailer'[v] = mailer[v]
      BY <1>7
  <2>7. \A v \in Mailers : mailer'[v].at = "settle" =>
            \A a \in People : got'[mailer'[v].report][a] = IF a \in mailer'[v].still THEN 0 ELSE 1
      BY <1>3, <2>6 DEF WeeklyInv, FreshWeeks
  <2> QED BY <2>2, <2>3, <2>5, <2>7 DEF FreshWeeks
<1>11. ListsStand'
  <2>1. OnList(missed, 1)'
    <3>1. CASE missed' = missed
      <4>1. PICK l \in Lists : l = missed
          BY DEF WeeklyInv, WeeklyTypes
      <4>2. OnList(l, 1)'
          BY <1>8, <1>9, <4>1, ListStays DEF WeeklyInv, WeeklyTypes, ListsStand
      <4> QED BY <3>1, <4>1, <4>2 DEF OnList
    <3>2. CASE missed'.to = {}
        BY <3>2 DEF OnList
    <3>3. CASE missed'.report = n /\ missed'.to = still /\ missed'.tries = 0
      <4>1. \A a \in still : tried'[n][a] >= 0 + 1
          BY <1>3, <1>4
      <4> QED BY <1>3, <3>3, <4>1, WeeksAre DEF OnList
    <3> QED BY <1>6, <3>1, <3>2, <3>3
  <2>2. ListOf(w)'
      BY <1>7 DEF ListOf, Retrying
  <2>3. ASSUME NEW v \in Mailers, v # w PROVE ListOf(v)'
      BY <1>7, <1>8, <1>9, <2>3, ListOfStays DEF WeeklyInv, ListsStand
  <2> QED BY <2>1, <2>2, <2>3 DEF ListsStand
<1>12. \A v \in Mailers : /\ Retrying(v)' => Retrying(v) /\ mailer'[v] = mailer[v]
                          /\ Retrying(v) => Retrying(v)' /\ mailer'[v] = mailer[v]
    BY <1>3, <1>7 DEF Retrying
<1>13. OwedAreListed'
  <2>1. ASSUME NEW m \in Weekly!Reports, NEW a \in People, Owed(m, a)'
        PROVE  missed'.report = m /\ a \in missed'.to
    <3>1. CASE m = n
      <4>1. a \in still
          BY <1>3, <1>4, <2>1, <3>1 DEF Owed
      <4> QED BY <1>5, <3>1, <4>1
    <3>2. CASE m # n
      <4>1. m \in mailed
          BY <1>3, <2>1, <3>2 DEF Owed
      <4>2. Owed(m, a)
          BY <1>8, <1>9, <2>1, <4>1, OwedLess DEF WeeklyInv
      <4>3. missed.report = m /\ a \in missed.to
          BY <4>2 DEF WeeklyInv, OwedAreListed
      <4>4. missed' = missed
          BY <1>3, <2>1, <4>3 DEF Owed
      <4> QED BY <4>3, <4>4
    <3> QED BY <3>1, <3>2
  <2>2. \A v \in Mailers : Retrying(v)' => Retrying(v) /\ mailer'[v].loaded = mailer[v].loaded
      BY <1>12
  <2>3. \A v \in Mailers, a \in People :
            Retrying(v)' /\ Owed(mailer[v].loaded.report, a)' => a \in mailer'[v].loaded.to
      BY <1>8, <1>9, <2>2, OwedStays
  <2> QED BY <2>1, <2>3 DEF OwedAreListed
<1>14. RetriedOnce'
  <2> SUFFICES ASSUME NEW m \in Weekly!Reports, m \notin shared' PROVE SentOnce(m)'
      BY DEF RetriedOnce
  <2>1. SentOnce(m) /\ \A a \in People : got'[m][a] = got[m][a]
      BY <1>3 DEF WeeklyInv, RetriedOnce
  <2>2. \/ missed' = missed
        \/ missed'.report # m
        \/ \A a \in missed'.to : got'[m][a] = 0
      BY <1>3, <1>4, <1>6
  <2> QED BY <1>8, <1>12, <2>1, <2>2, SentOnceStays DEF WeeklyInv
<1> QED BY <1>8, <1>10, <1>11, <1>13, <1>14 DEF WeeklyInv

\* Every step of the workers keeps it.
LEMMA WeeklyKept ==
    ASSUME WeeklyInv, [Weekly!Next]_(Weekly!weeklyVars)
    PROVE  WeeklyInv'
<1>1. weekday \in Int /\ reported \in Int
    BY DEF WeeklyInv, WeeklyTypes
<1>2. ASSUME NEW w \in Mailers, Weekly!GiveBack(w) PROVE WeeklyInv'
  <2>1. /\ mailer[w].at = "settle" /\ mailer' = [mailer EXCEPT ![w] = Weekly!Idle]
        /\ reported' = (IF reported = mailer[w].now THEN mailer[w].last ELSE reported)
        /\ UNCHANGED <<weekday, missed, reports, mailed, got, tried, dropouts, shared>>
      BY <1>2 DEF Weekly!GiveBack
  <2>2. mailer[w].last \in Int
      BY DEF WeeklyInv, WeeklyTypes, Mailing
  <2>3. weekday' \in Int /\ reported' \in Int /\ ~Retrying(w) /\ shared \subseteq shared'
      BY <1>1, <2>1, <2>2 DEF Retrying
  <2>4. UNCHANGED <<missed, reports, mailed, got, tried, dropouts>>
      BY <2>1
  <2> QED BY <2>1, <2>3, <2>4, WeeksAre, LeaveKeeps
<1>3. ASSUME NEW w \in Mailers, Weekly!Die(w) PROVE WeeklyInv'
  <2>1. /\ mailer' = [mailer EXCEPT ![w] = Weekly!Idle]
        /\ shared' = (IF mailer[w].at \in {"retry", "save"}
                      THEN shared \cup {mailer[w].loaded.report} ELSE shared)
        /\ UNCHANGED <<weekday, reported, missed, reports, mailed, got, tried, dropouts>>
      BY <1>3 DEF Weekly!Die
  <2>2. /\ weekday' \in Int /\ reported' \in Int /\ shared \subseteq shared'
        /\ Retrying(w) => mailer[w].loaded.report \in shared'
      BY <1>1, <2>1 DEF Retrying
  <2>3. UNCHANGED <<missed, reports, mailed, got, tried, dropouts>>
      BY <2>1
  <2> QED BY <2>1, <2>2, <2>3, WeeksAre, LeaveKeeps
<1>4. CASE Weekly!Tick \/ UNCHANGED Weekly!weeklyVars
  <2>1. /\ weekday' \in Int
        /\ UNCHANGED <<reported, missed, mailer, reports, mailed, got, tried, dropouts, shared>>
      BY <1>1, <1>4 DEF Weekly!Tick, Weekly!weeklyVars
  <2>2. \A n, a : Owed(n, a)' <=> Owed(n, a)
      BY <2>1 DEF Owed
  <2>3. \A l, k : OnList(l, k)' <=> OnList(l, k)
      BY <2>1 DEF OnList
  <2>4. \A v : (Sending(v)' <=> Sending(v)) /\ (Retrying(v)' <=> Retrying(v))
      BY <2>1 DEF Sending, Retrying
  <2>5. WeeklyTypes' /\ FreshWeeks'
      BY <2>1, <2>4 DEF WeeklyInv, WeeklyTypes, FreshWeeks, Unsent, Sending
  <2>6. ListsStand'
      BY <2>1 DEF WeeklyInv, ListsStand, ListOf, OnList, Retrying
  <2>7. OwedAreListed'
      BY <2>1 DEF WeeklyInv, OwedAreListed, Owed, Retrying
  <2>8. RetriedOnce'
      BY <2>1 DEF WeeklyInv, RetriedOnce, SentOnce, Retrying
  <2> QED BY <2>5, <2>6, <2>7, <2>8 DEF WeeklyInv
<1> QED BY <1>2, <1>3, <1>4, BeginKeeps, ResendKeeps, SaveKeeps, ClaimKeeps, MailAllKeeps,
           SettleKeeps DEF Weekly!Next

\* No week was claimed in the initial state.
LEMMA WeeklyInit == Weekly!Init => WeeklyInv
<1> SUFFICES ASSUME Weekly!Init PROVE WeeklyInv
    OBVIOUS
<1>1. /\ weekday = 0 /\ reported = -Week /\ missed = Weekly!NoMissed
      /\ mailer = [w \in Mailers |-> Weekly!Idle]
      /\ reports = 0 /\ mailed = {} /\ dropouts = {} /\ shared = {}
      /\ got = [n \in Weekly!Reports |-> [a \in People |-> 0]]
      /\ tried = [n \in Weekly!Reports |-> [a \in People |-> 0]]
    BY DEF Weekly!Init, Weekly!Never
<1>2. \A v \in Mailers : mailer[v] \in Mailing /\ mailer[v].at = "idle"
    BY <1>1, WeeksAre
<1>3. missed \in Lists /\ missed.to = {}
    BY <1>1, WeeksAre
<1>4. WeeklyTypes
  <2>1. -Week \in Int /\ 0 \in 0 .. MaxReports
      BY WeeksAre
  <2> QED BY <1>1, <1>2, <1>3, <2>1 DEF WeeklyTypes
<1>5. \A n \in Weekly!Reports, a \in People : got[n][a] = 0
    BY <1>1
<1>6. FreshWeeks
    BY <1>2, <1>5 DEF FreshWeeks, Sending
<1>7. ListsStand
    BY <1>2, <1>3 DEF ListsStand, ListOf, OnList, Retrying
<1>8. OwedAreListed
    BY <1>1, <1>2 DEF OwedAreListed, Owed, Retrying
<1>9. RetriedOnce
    BY <1>2, <1>3, <1>5 DEF RetriedOnce, SentOnce, Retrying
<1> QED BY <1>4, <1>6, <1>7, <1>8, <1>9 DEF WeeklyInv

\* What the invariant says of whoever a delivered report missed.
LEMMA WeeklyHolds == WeeklyInv => Weekly!MissedAreRetried /\ Weekly!MailedOnce
<1> SUFFICES ASSUME WeeklyInv PROVE Weekly!MissedAreRetried /\ Weekly!MailedOnce
    OBVIOUS
<1>1. ASSUME NEW n \in mailed, NEW a \in People
      PROVE  \/ got[n][a] > 0
             \/ missed.report = n /\ a \in missed.to
             \/ tried[n][a] > Retries
             \/ <<n, a>> \in dropouts
  <2>1. n \in Weekly!Reports
      BY MailedAre DEF WeeklyInv
  <2>2. got[n][a] \in Nat /\ tried[n][a] \in Nat
      BY <2>1 DEF WeeklyInv, WeeklyTypes
  <2>3. CASE Owed(n, a)
      BY <2>1, <2>3 DEF WeeklyInv, OwedAreListed
  <2>4. CASE ~Owed(n, a)
      BY <2>2, <2>4, WeeksAre DEF Owed
  <2> QED BY <2>3, <2>4
<1>2. Weekly!MissedAreRetried
    BY <1>1 DEF Weekly!MissedAreRetried
<1>3. Weekly!MailedOnce
    BY DEF WeeklyInv, RetriedOnce, SentOnce, Weekly!MailedOnce
<1> QED BY <1>2, <1>3

-----------------------------------------------------------------------------
(* Notifications together.                                                 *)

\* What the notifications rely on, by the part that a behaviour is of.
NotifyInv ==
    /\ part = "pushes" => PushInv
    /\ part = "subscriptions" => SubscriptionInv
    /\ part = "weekly" => WeeklyInv

\* A step is of the part that its behaviour is of, or changes nothing.
LEMMA NotifySteps ==
    ASSUME [Next]_vars
    PROVE  /\ part' = part
           /\ part = "pushes" => [Pushes!Next]_(Pushes!pushVars)
           /\ part = "subscriptions" => [Subscriptions!Next]_(Subscriptions!subscriptionVars)
           /\ part = "weekly" => [Weekly!Next]_(Weekly!weeklyVars)
<1>1. CASE UNCHANGED vars
    BY <1>1 DEF vars, deliveryVars, tenantVars, otherVars, pushVars, graphVars, weeklyVars,
                Pushes!pushVars, Subscriptions!subscriptionVars, Weekly!weeklyVars
<1>2. CASE Next
    BY <1>2 DEF Next
<1> QED BY <1>1, <1>2

\* What each notification relies on holds in every reachable state.
THEOREM NotifyInvariant == Spec => []NotifyInv
<1>1. Init => NotifyInv
  <2> SUFFICES ASSUME Init PROVE NotifyInv
      OBVIOUS
  <2>1. part = "pushes" => Pushes!Init
      BY DEF Init
  <2>2. part = "subscriptions" => Subscriptions!Init
      BY DEF Init
  <2>3. part = "weekly" => Weekly!Init
      BY DEF Init
  <2> QED BY <2>1, <2>2, <2>3, PushInit, SubscriptionInit, WeeklyInit DEF NotifyInv
<1>2. NotifyInv /\ [Next]_vars => NotifyInv'
  <2> SUFFICES ASSUME NotifyInv, [Next]_vars PROVE NotifyInv'
      OBVIOUS
  <2>1. part' = part
      BY NotifySteps
  <2>2. CASE part = "pushes"
    <3>1. PushInv /\ [Pushes!Next]_(Pushes!pushVars)
        BY <2>2, NotifySteps DEF NotifyInv
    <3>2. PushInv'
        BY <3>1, PushKept
    <3> QED BY <2>1, <2>2, <3>2 DEF NotifyInv
  <2>3. CASE part = "subscriptions"
    <3>1. SubscriptionInv /\ [Subscriptions!Next]_(Subscriptions!subscriptionVars)
        BY <2>3, NotifySteps DEF NotifyInv
    <3>2. SubscriptionInv'
        BY <3>1, SubscriptionKept
    <3> QED BY <2>1, <2>3, <3>2 DEF NotifyInv
  <2>4. CASE part = "weekly"
    <3>1. WeeklyInv /\ [Weekly!Next]_(Weekly!weeklyVars)
        BY <2>4, NotifySteps DEF NotifyInv
    <3>2. WeeklyInv'
        BY <3>1, WeeklyKept
    <3> QED BY <2>1, <2>4, <3>2 DEF NotifyInv
  <2> QED BY <2>1, <2>2, <2>3, <2>4 DEF NotifyInv
<1> QED BY <1>1, <1>2, PTL DEF Spec

(***************************************************************************)
(* For any deliveries, workers, subscriptions, people and lifetimes: a     *)
(* push that is ignored was read, and redelivering repairs; a drive that   *)
(* was subscribed goes on being notified unless a state write forgot it;   *)
(* and whom a weekly report missed stays on the list, mailed at most once. *)
(***************************************************************************)
THEOREM NotificationsCorrect == Spec => []NotificationsHold
<1>1. NotifyInv => NotificationsHold
    BY PushHolds, SubscriptionHolds, WeeklyHolds DEF NotifyInv, NotificationsHold
<1>2. Spec => []NotifyInv
    BY NotifyInvariant
<1> QED BY <1>1, <1>2, PTL

-----------------------------------------------------------------------------
(* The archive: every event has one place, and every slot one job.         *)

ArchiveTypes ==
    /\ day \in Archive!Days
    /\ thread \in [Items -> {"none", "dated", "counted", "over"}]
    /\ today \in [Items -> Archive!Days]
    /\ spent \in [Archive!Orgs -> [Archive!Days -> Nat]]
    /\ admitted \in [Archive!Orgs -> [Archive!Days -> Nat]]
    /\ buffer \in [Archive!Orgs -> SUBSET Items]
    /\ \A o \in Archive!Orgs : \A x \in buffer[o] : OrgOf[x] = o
    /\ detached \subseteq (SUBSET Items) \ {{}} /\ jobs \subseteq (SUBSET Items) \ {{}}
    /\ free \in Nat /\ others \in Nat
    /\ stored \subseteq Items /\ capped \subseteq Items /\ dropped \subseteq Items
    /\ lost \subseteq Items /\ late \subseteq Items
    /\ phase \in {"serving", "flushed", "stopped"} /\ killed \in BOOLEAN /\ straggled \in BOOLEAN

\* What archive() is done with is in one place.
Places ==
    /\ \A x \in Items : thread[x] = "over" <=>
           \/ x \in Archive!Buffered \/ x \in UNION detached \/ x \in UNION jobs
           \/ x \in stored \/ x \in capped \/ x \in dropped \/ x \in lost
    /\ \A x \in Items :
          /\ x \in Archive!Buffered => /\ x \notin UNION detached /\ x \notin UNION jobs
                                       /\ x \notin stored \cup capped \cup dropped \cup lost
          /\ x \in UNION detached => /\ x \notin UNION jobs
                                     /\ x \notin stored \cup capped \cup dropped \cup lost
          /\ x \in UNION jobs => x \notin stored \cup capped \cup dropped \cup lost
          /\ x \in stored => x \notin capped \cup dropped \cup lost
          /\ x \in capped => x \notin dropped \cup lost
          /\ x \in dropped => x \notin lost

Slotted == phase # "stopped" => free + Cardinality(jobs) + others = Slots

BatchesApart == \A b, c \in detached \cup jobs : b # c => b \cap c = {}

\* flush_all has not seen what is buffered or on its way after it; nothing is lost while it runs.
AfterFlush ==
    /\ phase = "flushed" => \A x \in Items : x \in Archive!Buffered \/ x \in UNION detached => x \in late
    /\ phase # "stopped" => lost = {}
    /\ lost # {} => killed \/ lost \subseteq late

(***************************************************************************)
(* Unless a thread of an older day came late, a counter is what was let    *)
(* through, or its day is over: a later one has let something through.     *)
(***************************************************************************)
DaysCounted ==
    ~straggled => \A o \in Archive!Orgs, d \in Archive!Days :
        /\ spent[o][d] <= admitted[o][d] /\ admitted[o][d] <= DailyCap
        /\ \/ spent[o][d] = admitted[o][d]
           \/ \E p \in Archive!Orgs, c \in Archive!Days : c > d /\ admitted[p][c] > 0

ArchiveInv ==
    ArchiveTypes /\ Places /\ BatchesApart /\ Slotted /\ AfterFlush /\ DaysCounted

\* The constants of the archive.
LEMMA BudgetIs ==
    /\ IsFiniteSet(Items) /\ DailyCap \in Nat /\ Slots \in Nat /\ MaxDay \in Nat
    /\ Archive!Days = 0 .. MaxDay
    /\ \A e \in Items : OrgOf[e] \in Archive!Orgs
<1>1. Archive!BudgetAssumption
    BY Assumptions
<1>2. \A e \in Items : OrgOf[e] \in Archive!Orgs
    BY DEF Archive!Orgs
<1> QED BY <1>1, <1>2 DEF Archive!BudgetAssumption, Archive!Days, Archive!IsFiniteSet, IsFiniteSet

\* What is in a buffer.
LEMMA BufferedIs ==
    /\ \A x : x \in Archive!Buffered <=> \E o \in Archive!Orgs : x \in buffer[o]
    /\ \A x : x \in Archive!Buffered' <=> \E o \in Archive!Orgs : x \in buffer'[o]
BY DEF Archive!Buffered, Archive!Orgs

\* One buffer changes.
LEMMA BufferSet ==
    ASSUME ArchiveTypes, NEW o \in Archive!Orgs, NEW v \in SUBSET Items,
           \A x \in v : OrgOf[x] = o, buffer' = [buffer EXCEPT ![o] = v]
    PROVE  /\ buffer' \in [Archive!Orgs -> SUBSET Items]
           /\ \A p \in Archive!Orgs : \A x \in buffer'[p] : OrgOf[x] = p
           /\ \A x : x \in Archive!Buffered' <=> x \in v \/ (x \in Archive!Buffered /\ x \notin buffer[o])
<1>1. /\ buffer \in [Archive!Orgs -> SUBSET Items]
      /\ \A p \in Archive!Orgs : \A x \in buffer[p] : OrgOf[x] = p
    BY DEF ArchiveTypes
<1>2. buffer'[o] = v /\ \A p \in Archive!Orgs : p # o => buffer'[p] = buffer[p]
    BY <1>1
<1>3. buffer' \in [Archive!Orgs -> SUBSET Items]
    BY <1>1
<1>4. \A p \in Archive!Orgs : \A x \in buffer'[p] : OrgOf[x] = p
    BY <1>1, <1>2
<1>5. \A x : x \in Archive!Buffered' <=> x \in v \/ (x \in Archive!Buffered /\ x \notin buffer[o])
  <2>1. \A p \in Archive!Orgs : p # o => \A x \in buffer[p] : x \notin buffer[o]
      BY <1>1
  <2> QED BY <1>2, <2>1, BufferedIs
<1> QED BY <1>3, <1>4, <1>5

\* The buffers are emptied.
LEMMA BuffersGo ==
    ASSUME buffer' = [o \in Archive!Orgs |-> {}]
    PROVE  /\ buffer' \in [Archive!Orgs -> SUBSET Items]
           /\ \A p \in Archive!Orgs : \A x \in buffer'[p] : OrgOf[x] = p
           /\ \A x : x \notin Archive!Buffered'
<1>1. \A p \in Archive!Orgs : buffer'[p] = {}
    OBVIOUS
<1>2. \A x : x \notin Archive!Buffered'
    BY <1>1, BufferedIs
<1> QED BY <1>1, <1>2

\* The jobs are finitely many.
LEMMA JobsFinite == ASSUME ArchiveTypes PROVE IsFiniteSet(jobs)
<1>1. IsFiniteSet(SUBSET Items)
    BY BudgetIs, FS_SUBSET
<1>2. jobs \subseteq SUBSET Items
    BY DEF ArchiveTypes
<1> QED BY <1>1, <1>2, FS_Subset

\* The events of a batch that leaves are its own.
LEMMA BatchLeaves ==
    ASSUME BatchesApart, NEW b
    PROVE  /\ b \in detached => \A x : x \in UNION (detached \ {b}) <=> x \in UNION detached /\ x \notin b
           /\ b \in jobs => \A x : x \in UNION (jobs \ {b}) <=> x \in UNION jobs /\ x \notin b
BY DEF BatchesApart

\* What the invariant says of the places.
LEMMA PlacesAre == ASSUME ArchiveTypes, Places, BatchesApart PROVE Archive!InOnePlace
<1> DEFINE places == <<Archive!Buffered, UNION detached, UNION jobs, stored, capped, dropped, lost>>
<1>1. /\ places[1] = Archive!Buffered /\ places[2] = UNION detached /\ places[3] = UNION jobs
      /\ places[4] = stored /\ places[5] = capped /\ places[6] = dropped /\ places[7] = lost
    OBVIOUS
<1>2. \A x \in Archive!Buffered : x \in Items
    BY BufferedIs DEF ArchiveTypes
<1>3. /\ \A x \in UNION detached : x \in Items
      /\ \A x \in UNION jobs : x \in Items
      /\ \A x \in stored \cup capped \cup dropped \cup lost : x \in Items
  <2>1. /\ \A b \in detached : b \subseteq Items
        /\ \A b \in jobs : b \subseteq Items
      BY DEF ArchiveTypes
  <2>2. stored \cup capped \cup dropped \cup lost \subseteq Items
      BY DEF ArchiveTypes
  <2> QED BY <2>1, <2>2
<1> HIDE DEF places
<1>4. \A k \in 1 .. 7 : k = 1 \/ k = 2 \/ k = 3 \/ k = 4 \/ k = 5 \/ k = 6 \/ k = 7
    OBVIOUS
<1>5. Archive!Taken = UNION {places[k] : k \in 1 .. 7}
  <2>1. \A x : x \in UNION {places[k] : k \in 1 .. 7} <=>
            \/ x \in places[1] \/ x \in places[2] \/ x \in places[3] \/ x \in places[4]
            \/ x \in places[5] \/ x \in places[6] \/ x \in places[7]
      BY <1>4
  <2>2. \A x : x \in Archive!Taken <=> x \in Items /\ thread[x] = "over"
      BY DEF Archive!Taken
  <2>3. \A x \in Items : thread[x] = "over" <=>
            \/ x \in places[1] \/ x \in places[2] \/ x \in places[3] \/ x \in places[4]
            \/ x \in places[5] \/ x \in places[6] \/ x \in places[7]
      BY <1>1, Zenon DEF Places
  <2>4. /\ \A x \in places[1] : x \in Items
        /\ \A x \in places[2] : x \in Items
        /\ \A x \in places[3] : x \in Items
        /\ \A x \in places[4] \cup places[5] \cup places[6] \cup places[7] : x \in Items
      BY <1>1, <1>2, <1>3
  <2> QED BY <2>1, <2>2, <2>3, <2>4
<1>6. \A j, k \in 1 .. 7 : j # k => places[j] \cap places[k] = {}
  <2>1. \A j, k \in 1 .. 7 : j < k => places[j] \cap places[k] = {}
    <3> SUFFICES ASSUME NEW j \in 1 .. 7, NEW k \in 1 .. 7, j < k, NEW x \in places[j], x \in places[k]
                 PROVE FALSE
        OBVIOUS
    <3>1. x \in Items
        BY <1>1, <1>2, <1>3, <1>4
    <3> QED BY <1>1, <1>4, <3>1 DEF Places
  <2> QED BY <2>1
<1> QED BY <1>5, <1>6 DEF Archive!InOnePlace, BatchesApart, places

\* The state but for the budget, which only a count changes.
LEMMA BudgetKept ==
    ASSUME DaysCounted, UNCHANGED <<spent, admitted, straggled>>
    PROVE  DaysCounted'
BY DEF DaysCounted, Archive!Orgs, Archive!Days

\* The orgs and the days are constants.
LEMMA OrgsStay == Archive!Orgs' = Archive!Orgs /\ Archive!Days' = Archive!Days
BY DEF Archive!Orgs, Archive!Days

\* A thread reads the date, or midnight comes.
LEMMA DatesKeep ==
    ASSUME ArchiveInv, (\E e \in Items : Archive!ReadDate(e)) \/ Archive!Midnight
    PROVE  ArchiveInv'
<1>1. /\ UNCHANGED <<spent, admitted, straggled, buffer, detached, jobs, others, free,
                    stored, capped, dropped, lost, phase, late, killed>>
      /\ day' \in Archive!Days
      /\ thread' \in [Items -> {"none", "dated", "counted", "over"}]
      /\ today' \in [Items -> Archive!Days]
      /\ \A x \in Items : thread'[x] = "over" <=> thread[x] = "over"
  <2>1. /\ thread \in [Items -> {"none", "dated", "counted", "over"}]
        /\ today \in [Items -> Archive!Days] /\ day \in Archive!Days
      BY DEF ArchiveInv, ArchiveTypes
  <2>2. CASE \E e \in Items : Archive!ReadDate(e)
    <3>1. PICK e \in Items : Archive!ReadDate(e)
        BY <2>2
    <3> QED BY <2>1, <3>1 DEF Archive!ReadDate, Archive!budget, Archive!outcomes, Archive!histories
  <2>3. CASE Archive!Midnight
      BY <2>1, <2>3, BudgetIs DEF Archive!Midnight, Archive!budget, Archive!outcomes, Archive!histories
  <2> QED BY <2>2, <2>3
<1>2. \A x : x \in Archive!Buffered' <=> x \in Archive!Buffered
    BY <1>1, BufferedIs
<1>3. ArchiveTypes'
    BY <1>1, OrgsStay DEF ArchiveInv, ArchiveTypes
<1>4. Places'
    BY <1>1, <1>2 DEF ArchiveInv, Places
<1>5. BatchesApart' /\ Slotted'
    BY <1>1 DEF ArchiveInv, BatchesApart, Slotted
<1>6. AfterFlush'
    BY <1>1, <1>2 DEF ArchiveInv, AfterFlush
<1>7. DaysCounted'
    BY <1>1, BudgetKept DEF ArchiveInv
<1> QED BY <1>3, <1>4, <1>5, <1>6, <1>7 DEF ArchiveInv

\* One of two days is the later.
LEMMA Ordered == \A i, j \in Nat : i = j \/ i > j \/ i < j
OBVIOUS

\* The counters after a count of the day d_: what else has been let through is of days that are over.
LEMMA DaysFollow ==
    ASSUME ArchiveTypes, DaysCounted, ~straggled,
           NEW o \in Archive!Orgs, NEW d_ \in Archive!Days,
           \A p \in Archive!Orgs, c \in Archive!Days : c > d_ => admitted[p][c] = 0,
           NEW kept \in [Archive!Orgs -> [Archive!Days -> Nat]],
           \A p \in Archive!Orgs, c \in Archive!Days : kept[p][c] = IF c = d_ THEN spent[p][c] ELSE 0,
           \/ kept[o][d_] >= DailyCap /\ spent' = kept /\ admitted' = admitted
           \/ /\ kept[o][d_] < DailyCap
              /\ spent' = [kept EXCEPT ![o][d_] = @ + 1]
              /\ admitted' = [admitted EXCEPT ![o][d_] = @ + 1]
    PROVE  DaysCounted'
<1>1. /\ \A p \in Archive!Orgs, c \in Archive!Days : spent[p][c] \in Nat /\ admitted[p][c] \in Nat
      /\ \A c \in Archive!Days : c \in Nat
  <2>1. \A c \in Archive!Days : c \in Nat
      BY BudgetIs
  <2>2. /\ spent \in [Archive!Orgs -> [Archive!Days -> Nat]]
        /\ admitted \in [Archive!Orgs -> [Archive!Days -> Nat]]
      BY DEF ArchiveTypes
  <2> QED BY <2>1, <2>2
<1>2. \A p \in Archive!Orgs : spent[p][d_] = admitted[p][d_]
  <2> SUFFICES ASSUME NEW p \in Archive!Orgs PROVE spent[p][d_] = admitted[p][d_]
      OBVIOUS
  <2>1. \/ spent[p][d_] = admitted[p][d_]
        \/ \E q \in Archive!Orgs, c \in Archive!Days : c > d_ /\ admitted[q][c] > 0
      BY DEF DaysCounted
  <2> QED BY <2>1
<1>3. \A p \in Archive!Orgs, c \in Archive!Days : admitted[p][c] <= DailyCap
    BY DEF DaysCounted
<1>4. DailyCap \in Nat
    BY BudgetIs
<1>5. CASE kept[o][d_] >= DailyCap /\ spent' = kept /\ admitted' = admitted
  <2> SUFFICES ASSUME NEW p \in Archive!Orgs, NEW c \in Archive!Days
               PROVE /\ spent'[p][c] <= admitted'[p][c] /\ admitted'[p][c] <= DailyCap
                     /\ \/ spent'[p][c] = admitted'[p][c]
                        \/ \E q \in Archive!Orgs, y \in Archive!Days : y > c /\ admitted'[q][y] > 0
      BY OrgsStay DEF DaysCounted
  <2>1. CASE c = d_
      BY <1>1, <1>2, <1>3, <1>5, <2>1
  <2>2. CASE c > d_
      BY <1>1, <1>4, <1>5, <2>2
  <2>3. CASE c < d_ /\ DailyCap = 0
      BY <1>1, <1>3, <1>5, <2>3
  <2>4. CASE c < d_ /\ DailyCap # 0
    <3>1. admitted'[o][d_] > 0
        BY <1>1, <1>2, <1>4, <1>5, <2>4
    <3>2. spent'[p][c] = 0 /\ admitted'[p][c] = admitted[p][c]
        BY <1>1, <1>5, <2>4
    <3> QED BY <1>1, <1>3, <2>4, <3>1, <3>2
  <2>5. c \in Nat /\ d_ \in Nat
      BY <1>1
  <2>6. c = d_ \/ c > d_ \/ c < d_
      BY <2>5, Ordered, Zenon
  <2> QED BY <2>1, <2>2, <2>3, <2>4, <2>6
<1>6. CASE /\ kept[o][d_] < DailyCap
           /\ spent' = [kept EXCEPT ![o][d_] = @ + 1]
           /\ admitted' = [admitted EXCEPT ![o][d_] = @ + 1]
  <2>0. admitted \in [Archive!Orgs -> [Archive!Days -> Nat]]
      BY DEF ArchiveTypes
  <2>1. /\ spent'[o][d_] = kept[o][d_] + 1 /\ admitted'[o][d_] = admitted[o][d_] + 1
        /\ \A p \in Archive!Orgs, c \in Archive!Days : p # o \/ c # d_ =>
               spent'[p][c] = kept[p][c] /\ admitted'[p][c] = admitted[p][c]
      BY <1>6, <2>0
  <2>2. kept[o][d_] = admitted[o][d_] /\ admitted'[o][d_] > 0
      BY <1>1, <1>2, <2>1
  <2> SUFFICES ASSUME NEW p \in Archive!Orgs, NEW c \in Archive!Days
               PROVE /\ spent'[p][c] <= admitted'[p][c] /\ admitted'[p][c] <= DailyCap
                     /\ \/ spent'[p][c] = admitted'[p][c]
                        \/ \E q \in Archive!Orgs, y \in Archive!Days : y > c /\ admitted'[q][y] > 0
      BY OrgsStay DEF DaysCounted
  <2>3. CASE p = o /\ c = d_
      BY <1>1, <1>4, <1>6, <2>1, <2>2, <2>3
  <2>4. CASE p # o /\ c = d_
      BY <1>1, <1>2, <1>3, <2>1, <2>4
  <2>5. CASE c > d_
      BY <1>1, <1>4, <2>1, <2>5
  <2>6. CASE c < d_
    <3>1. spent'[p][c] = 0 /\ admitted'[p][c] = admitted[p][c]
        BY <1>1, <2>1, <2>6
    <3> QED BY <1>1, <1>3, <2>2, <2>6, <3>1
  <2>7. c \in Nat /\ d_ \in Nat
      BY <1>1
  <2>8. c = d_ \/ c > d_ \/ c < d_
      BY <2>7, Ordered, Zenon
  <2> QED BY <2>3, <2>4, <2>5, <2>6, <2>8
<1> QED BY <1>5, <1>6

\* An event is counted, or it is over the budget.
LEMMA CountKeeps ==
    ASSUME ArchiveInv, NEW e \in Items, Archive!CountEvent(e)
    PROVE  ArchiveInv'
<1>1. ArchiveTypes /\ OrgOf[e] \in Archive!Orgs /\ today[e] \in Archive!Days
    BY BudgetIs DEF ArchiveInv, ArchiveTypes
<1>2. PICK o \in Archive!Orgs, d_ \in Archive!Orgs \cup Archive!Days : o = OrgOf[e] /\ d_ = today[e]
    BY <1>1
<1>3. PICK kept : kept = [p \in Archive!Orgs |-> [c \in Archive!Days |-> IF c = d_ THEN spent[p][c] ELSE 0]]
    OBVIOUS
<1>4. /\ thread[e] = "dated"
      /\ straggled' = (straggled \/ \E p \in Archive!Orgs, c \in Archive!Days : c > d_ /\ admitted[p][c] > 0)
      /\ \/ /\ kept[o][d_] >= DailyCap /\ spent' = kept /\ admitted' = admitted
            /\ thread' = [thread EXCEPT ![e] = "over"] /\ capped' = capped \cup {e}
         \/ /\ ~(kept[o][d_] >= DailyCap) /\ spent' = [kept EXCEPT ![o][d_] = @ + 1]
            /\ admitted' = [admitted EXCEPT ![o][d_] = @ + 1]
            /\ thread' = [thread EXCEPT ![e] = "counted"] /\ capped' = capped
      /\ UNCHANGED <<day, today, buffer, detached, jobs, others, free, stored, dropped, lost,
                     phase, late, killed>>
  <2>1. Archive!CountEvent(e)
      OBVIOUS
  <2>2. o = OrgOf[e] /\ d_ = today[e]
      BY <1>2
  <2>3. UNCHANGED <<day, today, buffer, detached, jobs, others, free, stored, dropped, lost,
                    phase, late, killed>>
      BY <2>1 DEF Archive!CountEvent, Archive!histories
  <2>4. /\ thread[e] = "dated"
        /\ straggled' = (straggled \/ \E p \in Archive!Orgs, c \in Archive!Days : c > d_ /\ admitted[p][c] > 0)
      BY <2>1, <2>2 DEF Archive!CountEvent
  <2>5. IF kept[o][d_] >= DailyCap
        THEN /\ spent' = kept /\ thread' = [thread EXCEPT ![e] = "over"]
             /\ capped' = capped \cup {e} /\ UNCHANGED admitted
        ELSE /\ spent' = [kept EXCEPT ![o][d_] = @ + 1]
             /\ thread' = [thread EXCEPT ![e] = "counted"]
             /\ admitted' = [admitted EXCEPT ![o][d_] = @ + 1] /\ UNCHANGED capped
    <3>1. kept = [p \in Archive!Orgs |-> [c \in Archive!Days |->
                     IF c = today[e] THEN spent[p][c] ELSE 0]]
        BY <1>3, <2>2, Zenon
    <3>2. IF kept[OrgOf[e]][today[e]] >= DailyCap
          THEN /\ spent' = kept /\ thread' = [thread EXCEPT ![e] = "over"]
               /\ capped' = capped \cup {e} /\ UNCHANGED admitted
          ELSE /\ spent' = [kept EXCEPT ![OrgOf[e]][today[e]] = @ + 1]
               /\ thread' = [thread EXCEPT ![e] = "counted"]
               /\ admitted' = [admitted EXCEPT ![OrgOf[e]][today[e]] = @ + 1] /\ UNCHANGED capped
        BY <2>1, <3>1 DEF Archive!CountEvent
    <3> QED BY <2>2, <3>2
  <2> QED BY <2>3, <2>4, <2>5, Zenon
<1>5. d_ \in Archive!Days
    BY <1>1, <1>2
<1>6. kept \in [Archive!Orgs -> [Archive!Days -> Nat]]
    BY <1>1, <1>3 DEF ArchiveTypes
<1>7. \A p \in Archive!Orgs, c \in Archive!Days : kept[p][c] = IF c = d_ THEN spent[p][c] ELSE 0
    BY <1>3
<1>8. DailyCap \in Nat /\ kept[o][d_] \in Nat
    BY <1>5, <1>6, BudgetIs
<1>9. /\ spent' \in [Archive!Orgs -> [Archive!Days -> Nat]]
      /\ admitted' \in [Archive!Orgs -> [Archive!Days -> Nat]]
  <2>1. admitted \in [Archive!Orgs -> [Archive!Days -> Nat]]
      BY <1>1 DEF ArchiveTypes
  <2>2. [kept EXCEPT ![o][d_] = @ + 1] \in [Archive!Orgs -> [Archive!Days -> Nat]]
      BY <1>5, <1>6
  <2>3. [admitted EXCEPT ![o][d_] = @ + 1] \in [Archive!Orgs -> [Archive!Days -> Nat]]
      BY <1>5, <2>1
  <2> QED BY <1>4, <1>6, <2>1, <2>2, <2>3
<1>10. DaysCounted'
  <2>1. CASE straggled'
      BY <2>1 DEF DaysCounted
  <2>2. CASE ~straggled'
    <3>1. /\ ~straggled
          /\ \A p \in Archive!Orgs, c \in Archive!Days : ~(c > d_ /\ admitted[p][c] > 0)
        BY <1>4, <2>2
    <3>2. \A p \in Archive!Orgs, c \in Archive!Days : admitted[p][c] \in Nat
        BY <1>1 DEF ArchiveTypes
    <3>3. \A p \in Archive!Orgs, c \in Archive!Days : c > d_ => admitted[p][c] = 0
        BY <3>1, <3>2
    <3>4. DaysCounted
        BY DEF ArchiveInv
    <3>5. \/ kept[o][d_] >= DailyCap /\ spent' = kept /\ admitted' = admitted
          \/ /\ kept[o][d_] < DailyCap
             /\ spent' = [kept EXCEPT ![o][d_] = @ + 1]
             /\ admitted' = [admitted EXCEPT ![o][d_] = @ + 1]
        BY <1>4, <1>8
    <3> QED BY <1>1, <1>5, <1>6, <1>7, <3>1, <3>3, <3>4, <3>5, DaysFollow
  <2> QED BY <2>1, <2>2
<1>11. /\ thread' \in [Items -> {"none", "dated", "counted", "over"}] /\ capped' \subseteq Items
       /\ straggled' \in BOOLEAN
       /\ \A x \in Items : thread'[x] = "over" <=> thread[x] = "over" \/ (x = e /\ x \in capped')
       /\ \A x \in Items : x \in capped' <=> x \in capped \/ (x = e /\ thread'[x] = "over")
       /\ thread[e] # "over"
  <2>1. thread \in [Items -> {"none", "dated", "counted", "over"}] /\ capped \subseteq Items /\ straggled \in BOOLEAN
      BY <1>1 DEF ArchiveTypes
  <2>2. e \notin capped
      BY <1>4 DEF ArchiveInv, Places
  <2>3. straggled' \in BOOLEAN
      BY <1>4, <2>1
  <2> QED BY <1>4, <2>1, <2>2, <2>3
<1>12. \A x : x \in Archive!Buffered' <=> x \in Archive!Buffered
    BY <1>4, BufferedIs
<1>13. ArchiveTypes'
    BY <1>1, <1>4, <1>9, <1>11, OrgsStay DEF ArchiveTypes
<1>14. Places'
  <2>1. Places
      BY DEF ArchiveInv
  <2> QED BY <1>4, <1>11, <1>12, <2>1 DEF Places
<1>15. BatchesApart' /\ Slotted' /\ AfterFlush'
    BY <1>4, <1>12 DEF ArchiveInv, BatchesApart, Slotted, AfterFlush
<1> QED BY <1>10, <1>13, <1>14, <1>15 DEF ArchiveInv

\* A buffered event waits for more, or its buffer is full and goes.
LEMMA BufferKeeps ==
    ASSUME ArchiveInv, NEW e \in Items, Archive!BufferEvent(e)
    PROVE  ArchiveInv'
<1>1. PICK o \in Archive!Orgs : o = OrgOf[e]
    BY BudgetIs
<1>2. PICK b : b = buffer[o] \cup {e}
    OBVIOUS
<1>3. /\ phase # "stopped" /\ thread[e] = "counted" /\ thread' = [thread EXCEPT ![e] = "over"]
      /\ \/ buffer' = [buffer EXCEPT ![o] = {}] /\ detached' = detached \cup {b}
         \/ buffer' = [buffer EXCEPT ![o] = b] /\ detached' = detached
      /\ late' = IF phase = "flushed" THEN late \cup {e} ELSE late
      /\ UNCHANGED <<day, today, spent, admitted, straggled, jobs, others, free,
                     stored, capped, dropped, lost, phase, killed>>
    BY <1>1, <1>2 DEF Archive!BufferEvent, Archive!Running, Archive!budget, Archive!outcomes
<1>4. ArchiveTypes /\ Places /\ BatchesApart /\ Slotted /\ AfterFlush
    BY DEF ArchiveInv
<1>5. /\ b \in SUBSET Items /\ e \in b /\ \A x \in b : OrgOf[x] = o
      /\ \A x : x \in b <=> x = e \/ x \in buffer[o]
      /\ \A x \in buffer[o] : x \in Archive!Buffered
    BY <1>1, <1>2, <1>4, BufferedIs DEF ArchiveTypes
<1>6. /\ buffer' \in [Archive!Orgs -> SUBSET Items]
      /\ \A p \in Archive!Orgs : \A x \in buffer'[p] : OrgOf[x] = p
      /\ \/ /\ detached' = detached \cup {b}
            /\ \A x : x \in Archive!Buffered' <=> x \in Archive!Buffered /\ x \notin buffer[o]
         \/ /\ detached' = detached
            /\ \A x : x \in Archive!Buffered' <=> x \in Archive!Buffered \/ x = e
  <2>1. CASE buffer' = [buffer EXCEPT ![o] = {}] /\ detached' = detached \cup {b}
    <3>1. PICK v \in SUBSET Items : v = {}
        OBVIOUS
    <3>2. buffer' = [buffer EXCEPT ![o] = v] /\ \A x \in v : OrgOf[x] = o
        BY <2>1, <3>1
    <3>3. /\ buffer' \in [Archive!Orgs -> SUBSET Items]
          /\ \A p \in Archive!Orgs : \A x \in buffer'[p] : OrgOf[x] = p
          /\ \A x : x \in Archive!Buffered' <=> x \in v \/ (x \in Archive!Buffered /\ x \notin buffer[o])
        BY <1>4, <3>2, BufferSet
    <3> QED BY <2>1, <3>1, <3>3
  <2>2. CASE buffer' = [buffer EXCEPT ![o] = b] /\ detached' = detached
    <3>1. buffer' = [buffer EXCEPT ![o] = b] /\ b \in SUBSET Items /\ \A x \in b : OrgOf[x] = o
        BY <1>5, <2>2
    <3>2. /\ buffer' \in [Archive!Orgs -> SUBSET Items]
          /\ \A p \in Archive!Orgs : \A x \in buffer'[p] : OrgOf[x] = p
          /\ \A x : x \in Archive!Buffered' <=> x \in b \/ (x \in Archive!Buffered /\ x \notin buffer[o])
        BY <1>4, <3>1, BufferSet
    <3> QED BY <1>5, <2>2, <3>2
  <2> QED BY <1>3, <2>1, <2>2
<1>7. /\ thread' \in [Items -> {"none", "dated", "counted", "over"}]
      /\ \A x \in Items : thread'[x] = "over" <=> thread[x] = "over" \/ x = e
      /\ thread[e] # "over" /\ late' \subseteq Items
    BY <1>3, <1>4 DEF ArchiveTypes
<1>8. ArchiveTypes'
  <2>1. detached' \subseteq (SUBSET Items) \ {{}}
      BY <1>4, <1>5, <1>6 DEF ArchiveTypes
  <2> QED BY <1>3, <1>4, <1>6, <1>7, <2>1, OrgsStay DEF ArchiveTypes
<1>9. \A x : x \in UNION detached' <=> x \in UNION detached \/ (detached' # detached /\ x \in b)
  <2>1. CASE detached' = detached
      BY <2>1
  <2>2. CASE detached' # detached
    <3>1. detached' = detached \cup {b}
        BY <1>6, <2>2
    <3> QED BY <2>2, <3>1
  <2> QED BY <2>1, <2>2
<1>10. e \notin Archive!Buffered /\ e \notin UNION detached /\ e \notin UNION jobs
       /\ e \notin stored \cup capped \cup dropped \cup lost
    BY <1>4, <1>7 DEF Places
<1>11. Places'
  <2>1. CASE detached' = detached /\ \A x : x \in Archive!Buffered' <=> x \in Archive!Buffered \/ x = e
      BY <1>3, <1>4, <1>7, <1>10, <2>1 DEF Places
  <2>2. CASE /\ detached' # detached
             /\ \A x : x \in Archive!Buffered' <=> x \in Archive!Buffered /\ x \notin buffer[o]
    <3>1. \A x : x \in UNION detached' <=> x \in UNION detached \/ x = e \/ x \in buffer[o]
        BY <1>5, <1>9, <2>2
    <3> QED BY <1>3, <1>4, <1>5, <1>7, <1>10, <2>2, <3>1 DEF Places
  <2>3. detached' = detached =>
            \A x : x \in Archive!Buffered' <=> x \in Archive!Buffered \/ x = e
    <3> SUFFICES ASSUME detached' = detached \cup {b}, detached' = detached PROVE FALSE
        BY <1>6
    <3> QED BY <1>5, <1>10
  <2>4. detached' # detached =>
            \A x : x \in Archive!Buffered' <=> x \in Archive!Buffered /\ x \notin buffer[o]
      BY <1>6
  <2> QED BY <2>1, <2>2, <2>3, <2>4
<1>12. BatchesApart'
  <2>1. \A x \in b : x \notin UNION detached /\ x \notin UNION jobs
    <3>1. \A x \in buffer[o] : x \in Items
        BY <1>4 DEF ArchiveTypes
    <3> QED BY <1>4, <1>5, <1>10, <3>1 DEF Places
  <2>2. \A c \in detached \cup jobs : b \cap c = {}
      BY <2>1
  <2>3. \A c \in detached' \cup jobs' : c = b \/ c \in detached \cup jobs
      BY <1>3, <1>6
  <2> QED BY <1>4, <2>2, <2>3 DEF BatchesApart
<1>13. Slotted'
    BY <1>3, <1>4 DEF Slotted
<1>14. AfterFlush'
  <2>1. \A x : x \in Archive!Buffered' \/ x \in UNION detached' =>
            x = e \/ x \in Archive!Buffered \/ x \in UNION detached
      BY <1>5, <1>6, <1>9
  <2> QED BY <1>3, <1>4, <2>1 DEF AfterFlush
<1>15. DaysCounted'
    BY <1>3, BudgetKept DEF ArchiveInv
<1> QED BY <1>8, <1>11, <1>12, <1>13, <1>14, <1>15 DEF ArchiveInv

\* The flusher detaches a buffer.
LEMMA FlushKeeps ==
    ASSUME ArchiveInv, NEW o \in Archive!Orgs, Archive!FlushOld(o)
    PROVE  ArchiveInv'
<1>1. /\ phase # "stopped" /\ buffer[o] # {} /\ detached' = detached \cup {buffer[o]}
      /\ buffer' = [buffer EXCEPT ![o] = {}]
      /\ UNCHANGED <<day, thread, today, spent, admitted, straggled, jobs, others, free,
                     stored, capped, dropped, lost, phase, late, killed>>
    BY DEF Archive!FlushOld, Archive!Running, Archive!budget, Archive!outcomes, Archive!histories
<1>2. ArchiveTypes /\ Places /\ BatchesApart /\ Slotted /\ AfterFlush
    BY DEF ArchiveInv
<1>3. /\ buffer' \in [Archive!Orgs -> SUBSET Items]
      /\ \A p \in Archive!Orgs : \A x \in buffer'[p] : OrgOf[x] = p
      /\ \A x : x \in Archive!Buffered' <=> x \in Archive!Buffered /\ x \notin buffer[o]
  <2>1. PICK v \in SUBSET Items : v = {}
      OBVIOUS
  <2>2. buffer' = [buffer EXCEPT ![o] = v] /\ \A x \in v : OrgOf[x] = o
      BY <1>1, <2>1
  <2>3. /\ buffer' \in [Archive!Orgs -> SUBSET Items]
        /\ \A p \in Archive!Orgs : \A x \in buffer'[p] : OrgOf[x] = p
        /\ \A x : x \in Archive!Buffered' <=> x \in v \/ (x \in Archive!Buffered /\ x \notin buffer[o])
      BY <1>2, <2>2, BufferSet
  <2> QED BY <2>1, <2>3
<1>4. /\ \A x \in buffer[o] : x \in Archive!Buffered /\ x \in Items
      /\ buffer[o] \in SUBSET Items
    BY <1>2, BufferedIs DEF ArchiveTypes
<1>5. \A x : x \in UNION detached' <=> x \in UNION detached \/ x \in buffer[o]
    BY <1>1
<1>6. ArchiveTypes'
  <2>1. detached' \subseteq (SUBSET Items) \ {{}}
      BY <1>1, <1>2, <1>4 DEF ArchiveTypes
  <2> QED BY <1>1, <1>2, <1>3, <2>1, OrgsStay DEF ArchiveTypes
<1>7. Places'
    BY <1>1, <1>2, <1>3, <1>4, <1>5 DEF Places
<1>8. BatchesApart'
  <2>1. \A x \in buffer[o] : x \notin UNION detached /\ x \notin UNION jobs
      BY <1>2, <1>4 DEF Places
  <2>2. \A c \in detached \cup jobs : buffer[o] \cap c = {}
      BY <2>1
  <2>3. \A c \in detached' \cup jobs' : c = buffer[o] \/ c \in detached \cup jobs
      BY <1>1
  <2> QED BY <1>2, <2>2, <2>3 DEF BatchesApart
<1>9. Slotted' /\ AfterFlush'
    BY <1>1, <1>2, <1>3, <1>4, <1>5 DEF Slotted, AfterFlush
<1>10. DaysCounted'
    BY <1>1, BudgetKept DEF ArchiveInv
<1> QED BY <1>6, <1>7, <1>8, <1>9, <1>10 DEF ArchiveInv

\* A batch takes a slot, or there is none for it.
LEMMA SubmitKeeps ==
    ASSUME ArchiveInv, NEW b \in detached, Archive!Submit(b)
    PROVE  ArchiveInv'
<1>1. /\ phase # "stopped" /\ detached' = detached \ {b}
      /\ \/ free > 0 /\ free' = free - 1 /\ jobs' = jobs \cup {b} /\ dropped' = dropped
         \/ dropped' = dropped \cup b /\ free' = free /\ jobs' = jobs
      /\ UNCHANGED <<day, thread, today, spent, admitted, straggled, buffer, others,
                     stored, capped, lost, phase, late, killed>>
    BY DEF Archive!Submit, Archive!Running, Archive!budget, Archive!histories
<1>2. ArchiveTypes /\ Places /\ BatchesApart /\ Slotted /\ AfterFlush
    BY DEF ArchiveInv
<1>3. b \subseteq Items /\ b # {} /\ \A x \in b : x \in UNION detached
    BY <1>2 DEF ArchiveTypes
<1>4. /\ \A x : x \in UNION detached' <=> x \in UNION detached /\ x \notin b
      /\ \A x : x \in Archive!Buffered' <=> x \in Archive!Buffered
    BY <1>1, <1>2, BatchLeaves, BufferedIs
<1>5. b \notin jobs
    BY <1>2, <1>3 DEF Places
<1>6. ArchiveTypes'
    BY <1>1, <1>2, <1>3, OrgsStay DEF ArchiveTypes
<1>7. Places'
  <2>1. CASE jobs' = jobs \cup {b} /\ dropped' = dropped
    <3>1. \A x : x \in UNION jobs' <=> x \in UNION jobs \/ x \in b
        BY <2>1
    <3> QED BY <1>1, <1>2, <1>3, <1>4, <2>1, <3>1 DEF Places
  <2>2. CASE dropped' = dropped \cup b /\ jobs' = jobs
      BY <1>1, <1>2, <1>3, <1>4, <2>2 DEF Places
  <2> QED BY <1>1, <2>1, <2>2
<1>8. BatchesApart'
    BY <1>1, <1>2 DEF BatchesApart
<1>9. Slotted'
  <2>1. IsFiniteSet(jobs) /\ Cardinality(jobs) \in Nat
      BY <1>2, JobsFinite, FS_CardinalityType
  <2>2. Cardinality(jobs \cup {b}) = Cardinality(jobs) + 1
      BY <1>5, <2>1, FS_AddElement
  <2>3. free \in Nat /\ others \in Nat /\ Slots \in Nat
      BY <1>2, BudgetIs DEF ArchiveTypes
  <2>4. free + Cardinality(jobs) + others = Slots
      BY <1>1, <1>2 DEF Slotted
  <2>5. CASE free' = free - 1 /\ jobs' = jobs \cup {b}
    <3>1. Cardinality(jobs') = Cardinality(jobs) + 1
        BY <2>2, <2>5
    <3> QED BY <1>1, <2>1, <2>3, <2>4, <2>5, <3>1 DEF Slotted
  <2>6. CASE free' = free /\ jobs' = jobs
      BY <1>1, <1>2, <2>6 DEF Slotted
  <2> QED BY <1>1, <2>5, <2>6
<1>10. AfterFlush'
    BY <1>1, <1>2, <1>4 DEF AfterFlush
<1>11. DaysCounted'
    BY <1>1, BudgetKept DEF ArchiveInv
<1> QED BY <1>6, <1>7, <1>8, <1>9, <1>10, <1>11 DEF ArchiveInv

\* A put ends, well or not, and gives its slot back.
LEMMA PutKeeps ==
    ASSUME ArchiveInv, NEW b \in jobs, Archive!PutBatch(b)
    PROVE  ArchiveInv'
<1>1. /\ phase # "stopped" /\ jobs' = jobs \ {b} /\ free' = free + 1
      /\ \/ stored' = stored \cup b /\ dropped' = dropped
         \/ dropped' = dropped \cup b /\ stored' = stored
      /\ UNCHANGED <<day, thread, today, spent, admitted, straggled, buffer, detached, others,
                     capped, lost, phase, late, killed>>
    BY DEF Archive!PutBatch, Archive!Running, Archive!budget, Archive!histories
<1>2. ArchiveTypes /\ Places /\ BatchesApart /\ Slotted /\ AfterFlush
    BY DEF ArchiveInv
<1>3. b \subseteq Items /\ \A x \in b : x \in UNION jobs
    BY <1>2 DEF ArchiveTypes
<1>4. /\ \A x : x \in UNION jobs' <=> x \in UNION jobs /\ x \notin b
      /\ \A x : x \in Archive!Buffered' <=> x \in Archive!Buffered
    BY <1>1, <1>2, BatchLeaves, BufferedIs
<1>5. ArchiveTypes'
    BY <1>1, <1>2, <1>3, OrgsStay DEF ArchiveTypes
<1>6. Places'
    BY <1>1, <1>2, <1>3, <1>4 DEF Places
<1>7. BatchesApart'
    BY <1>1, <1>2 DEF BatchesApart
<1>8. Slotted'
  <2>1. IsFiniteSet(jobs) /\ Cardinality(jobs) \in Nat
      BY <1>2, JobsFinite, FS_CardinalityType
  <2>2. Cardinality(jobs') = Cardinality(jobs) - 1
      BY <1>1, <2>1, FS_RemoveElement
  <2>3. free \in Nat /\ others \in Nat /\ Slots \in Nat
      BY <1>2, BudgetIs DEF ArchiveTypes
  <2>4. free + Cardinality(jobs) + others = Slots
      BY <1>1, <1>2 DEF Slotted
  <2> QED BY <1>1, <2>1, <2>2, <2>3, <2>4 DEF Slotted
<1>9. AfterFlush'
    BY <1>1, <1>2, <1>4 DEF AfterFlush
<1>10. DaysCounted'
    BY <1>1, BudgetKept DEF ArchiveInv
<1> QED BY <1>5, <1>6, <1>7, <1>8, <1>9, <1>10 DEF ArchiveInv

\* Another job takes a slot, or gives it back.
LEMMA OthersKeep ==
    ASSUME ArchiveInv, Archive!SubmitOther \/ Archive!OtherDone
    PROVE  ArchiveInv'
<1>1. /\ \/ free > 0 /\ free' = free - 1 /\ others' = others + 1
         \/ others > 0 /\ others' = others - 1 /\ free' = free + 1
      /\ UNCHANGED <<day, thread, today, spent, admitted, straggled, buffer, detached, jobs,
                     stored, capped, dropped, lost, phase, late, killed>>
  <2>1. CASE Archive!SubmitOther
      BY <2>1 DEF Archive!SubmitOther, Archive!budget, Archive!outcomes, Archive!histories
  <2>2. CASE Archive!OtherDone
      BY <2>2 DEF Archive!OtherDone, Archive!budget, Archive!outcomes, Archive!histories
  <2> QED BY <2>1, <2>2
<1>2. ArchiveTypes /\ Places /\ BatchesApart /\ Slotted /\ AfterFlush
    BY DEF ArchiveInv
<1>3. free \in Nat /\ others \in Nat
    BY <1>2 DEF ArchiveTypes
<1>4. \A x : x \in Archive!Buffered' <=> x \in Archive!Buffered
    BY <1>1, BufferedIs
<1>5. ArchiveTypes'
  <2>1. free' \in Nat /\ others' \in Nat
      BY <1>1, <1>3
  <2> QED BY <1>1, <1>2, <2>1, OrgsStay DEF ArchiveTypes
<1>6. Places' /\ BatchesApart' /\ AfterFlush'
    BY <1>1, <1>2, <1>4 DEF Places, BatchesApart, AfterFlush
<1>7. Slotted'
  <2>1. Cardinality(jobs) \in Nat
      BY <1>2, JobsFinite, FS_CardinalityType
  <2> QED BY <1>1, <1>2, <1>3, <2>1 DEF Slotted
<1>8. DaysCounted'
    BY <1>1, BudgetKept DEF ArchiveInv
<1> QED BY <1>5, <1>6, <1>7, <1>8 DEF ArchiveInv

\* The lifespan's end puts what is buffered.
LEMMA FlushAllKeeps ==
    ASSUME ArchiveInv, Archive!FlushAll
    PROVE  ArchiveInv'
<1>1. PICK failed \in SUBSET {buffer[o] : o \in Archive!Orgs} :
          /\ stored' = stored \cup (Archive!Buffered \ UNION failed)
          /\ dropped' = dropped \cup UNION failed
    BY DEF Archive!FlushAll
<1>2. /\ phase = "serving" /\ phase' = "flushed" /\ buffer' = [o \in Archive!Orgs |-> {}]
      /\ late' = late \cup UNION detached
      /\ UNCHANGED <<day, thread, today, spent, admitted, straggled, detached, jobs, others, free,
                     capped, lost, killed>>
    BY DEF Archive!FlushAll, Archive!budget
<1>3. ArchiveTypes /\ Places /\ BatchesApart /\ Slotted /\ AfterFlush
    BY DEF ArchiveInv
<1>4. \A x \in UNION failed : x \in Archive!Buffered
    BY BufferedIs
<1>5. \A x \in Archive!Buffered : x \in Items
    BY <1>3, BufferedIs DEF ArchiveTypes
<1>6. /\ buffer' \in [Archive!Orgs -> SUBSET Items]
      /\ \A p \in Archive!Orgs : \A x \in buffer'[p] : OrgOf[x] = p
      /\ \A x : x \notin Archive!Buffered'
    BY <1>2, BuffersGo
<1>7. /\ \A x : x \in stored' <=> x \in stored \/ (x \in Archive!Buffered /\ x \notin UNION failed)
      /\ \A x : x \in dropped' <=> x \in dropped \/ x \in UNION failed
    BY <1>1
<1>8. ArchiveTypes'
  <2>1. \A x \in UNION detached : x \in Items
    <3>1. \A b \in detached : b \subseteq Items
        BY <1>3 DEF ArchiveTypes
    <3> QED BY <3>1
  <2>2. stored' \subseteq Items /\ dropped' \subseteq Items /\ late' \subseteq Items
      BY <1>2, <1>3, <1>4, <1>5, <1>7, <2>1 DEF ArchiveTypes
  <2> QED BY <1>2, <1>3, <1>6, <2>2, OrgsStay DEF ArchiveTypes
<1>9. Places'
    BY <1>2, <1>3, <1>4, <1>6, <1>7 DEF Places
<1>10. BatchesApart' /\ Slotted' /\ AfterFlush'
    BY <1>2, <1>3, <1>6 DEF BatchesApart, Slotted, AfterFlush
<1>11. DaysCounted'
    BY <1>2, BudgetKept DEF ArchiveInv
<1> QED BY <1>8, <1>9, <1>10, <1>11 DEF ArchiveInv

\* The process ends, by itself or not.
LEMMA EndKeeps ==
    ASSUME ArchiveInv, Archive!Exit \/ Archive!Kill
    PROVE  ArchiveInv'
<1>1. /\ phase' = "stopped" /\ buffer' = [o \in Archive!Orgs |-> {}] /\ detached' = {} /\ jobs' = {}
      /\ \A x : x \in lost' <=> \/ x \in lost \/ x \in Archive!Buffered
                                \/ x \in UNION detached \/ x \in UNION jobs
      /\ killed' \/ (phase = "flushed" /\ jobs = {})
      /\ killed' \in BOOLEAN /\ (killed => killed') /\ phase # "stopped"
      /\ UNCHANGED <<day, thread, today, spent, admitted, straggled, others, free,
                     stored, capped, dropped, late>>
  <2>1. killed \in BOOLEAN
      BY DEF ArchiveInv, ArchiveTypes
  <2>2. CASE Archive!Exit
      BY <2>1, <2>2 DEF Archive!Exit, Archive!budget, Archive!histories
  <2>3. CASE Archive!Kill
      BY <2>1, <2>3 DEF Archive!Kill, Archive!Running, Archive!budget
  <2> QED BY <2>2, <2>3
<1>2. ArchiveTypes /\ Places /\ BatchesApart /\ Slotted /\ AfterFlush
    BY DEF ArchiveInv
<1>3. \A x : x \in Archive!Buffered \/ x \in UNION detached \/ x \in UNION jobs => x \in Items
  <2>1. /\ \A b \in detached : b \subseteq Items
        /\ \A b \in jobs : b \subseteq Items
      BY <1>2 DEF ArchiveTypes
  <2>2. \A x : x \in Archive!Buffered => x \in Items
      BY <1>2, BufferedIs DEF ArchiveTypes
  <2> QED BY <2>1, <2>2
<1>4. /\ buffer' \in [Archive!Orgs -> SUBSET Items]
      /\ \A p \in Archive!Orgs : \A x \in buffer'[p] : OrgOf[x] = p
      /\ \A x : x \notin Archive!Buffered'
    BY <1>1, BuffersGo
<1>5. /\ \A x : x \notin UNION detached'
      /\ \A x : x \notin UNION jobs'
    BY <1>1
<1>6. ArchiveTypes'
  <2>1. lost' \subseteq Items
      BY <1>1, <1>2, <1>3 DEF ArchiveTypes
  <2> QED BY <1>1, <1>2, <1>4, <2>1, OrgsStay DEF ArchiveTypes
<1>7. Places'
    BY <1>1, <1>2, <1>4, <1>5 DEF Places
<1>8. BatchesApart' /\ Slotted'
    BY <1>1 DEF BatchesApart, Slotted
<1>9. AfterFlush'
    BY <1>1, <1>2, <1>3 DEF AfterFlush
<1>10. DaysCounted'
    BY <1>1, BudgetKept DEF ArchiveInv
<1> QED BY <1>6, <1>7, <1>8, <1>9, <1>10 DEF ArchiveInv

\* The archive starts empty.
LEMMA ArchiveInit == ASSUME Archive!Init PROVE ArchiveInv
<1>1. /\ day = 0 /\ thread = [e \in Items |-> "none"] /\ today = [e \in Items |-> 0]
      /\ spent = [o \in Archive!Orgs |-> [d \in Archive!Days |-> 0]]
      /\ admitted = [o \in Archive!Orgs |-> [d \in Archive!Days |-> 0]]
      /\ buffer = [o \in Archive!Orgs |-> {}]
      /\ detached = {} /\ jobs = {} /\ others = 0 /\ free = Slots
      /\ stored = {} /\ capped = {} /\ dropped = {} /\ lost = {} /\ late = {}
      /\ phase = "serving" /\ killed = FALSE /\ straggled = FALSE
    BY DEF Archive!Init
<1>2. 0 \in Archive!Days /\ Slots \in Nat /\ DailyCap \in Nat
    BY BudgetIs
<1>3. \A x : x \notin Archive!Buffered
    BY <1>1, BufferedIs
<1>4. ArchiveTypes
    BY <1>1, <1>2 DEF ArchiveTypes
<1>5. Places
    BY <1>1, <1>3 DEF Places
<1>6. BatchesApart /\ AfterFlush
    BY <1>1 DEF BatchesApart, AfterFlush
<1>7. Slotted
    BY <1>1, <1>2, FS_EmptySet DEF Slotted
<1>8. DaysCounted
    BY <1>1, <1>2 DEF DaysCounted
<1> QED BY <1>4, <1>5, <1>6, <1>7, <1>8 DEF ArchiveInv

\* Every step of the archive keeps what is true of it.
LEMMA ArchiveKept == ASSUME ArchiveInv, Archive!Next PROVE ArchiveInv'
<1>1. CASE \E e \in Items : Archive!ReadDate(e) \/ Archive!CountEvent(e) \/ Archive!BufferEvent(e)
    BY <1>1, DatesKeep, CountKeeps, BufferKeeps
<1>2. CASE \E o \in Archive!Orgs : Archive!FlushOld(o)
    BY <1>2, FlushKeeps
<1>3. CASE \E b \in detached : Archive!Submit(b)
    BY <1>3, SubmitKeeps
<1>4. CASE \E b \in jobs : Archive!PutBatch(b)
    BY <1>4, PutKeeps
<1>5. CASE Archive!SubmitOther \/ Archive!OtherDone
    BY <1>5, OthersKeep
<1>6. CASE Archive!Midnight
    BY <1>6, DatesKeep
<1>7. CASE Archive!FlushAll
    BY <1>7, FlushAllKeeps
<1>8. CASE Archive!Exit \/ Archive!Kill
    BY <1>8, EndKeeps
<1> QED BY <1>1, <1>2, <1>3, <1>4, <1>5, <1>6, <1>7, <1>8 DEF Archive!Next

\* A step that touches none of it keeps it.
LEMMA ArchiveStays == ASSUME ArchiveInv, UNCHANGED Archive!archiveVars PROVE ArchiveInv'
<1>1. UNCHANGED <<day, thread, today, spent, buffer, detached, jobs, others, free,
                  stored, capped, dropped, lost, phase, late, killed, admitted, straggled>>
    BY DEF Archive!archiveVars
<1>2. \A x : x \in Archive!Buffered' <=> x \in Archive!Buffered
    BY <1>1, BufferedIs
<1>3. ArchiveTypes'
    BY <1>1, OrgsStay DEF ArchiveInv, ArchiveTypes
<1>4. Places' /\ AfterFlush'
    BY <1>1, <1>2 DEF ArchiveInv, Places, AfterFlush
<1>5. BatchesApart' /\ Slotted'
    BY <1>1 DEF ArchiveInv, BatchesApart, Slotted
<1>6. DaysCounted'
    BY <1>1, BudgetKept DEF ArchiveInv
<1> QED BY <1>3, <1>4, <1>5, <1>6 DEF ArchiveInv

\* What is true of the archive tells that its events are accounted for.
LEMMA ArchiveHolds == ASSUME ArchiveInv PROVE Archive!EventsAccounted
<1>1. Archive!InOnePlace
    BY PlacesAre DEF ArchiveInv
<1>2. Archive!SlotsConserved
    BY DEF ArchiveInv, Slotted, Archive!SlotsConserved, Archive!Running,
           Archive!Cardinality, Cardinality
<1>3. Archive!TailShipped
    BY DEF ArchiveInv, AfterFlush, Archive!TailShipped
<1>4. Archive!CapHolds
    BY DEF ArchiveInv, DaysCounted, Archive!CapHolds
<1> QED BY <1>1, <1>2, <1>3, <1>4 DEF Archive!EventsAccounted

-----------------------------------------------------------------------------
(* Sums: what a count of files adds up to.                                 *)

\* Some number of a set is its least.
LEMMA LeastNumber ==
    ASSUME NEW T, T \subseteq Nat, T # {}
    PROVE  \E n \in T : \A m \in T : n <= m
<1> DEFINE R == OpToRel(<, Nat)
<1>1. \A t, u \in Nat : <<u, t>> \in R <=> u < t
    BY DEF OpToRel
<1>2. IsWellFoundedOn(R, Nat)
    BY NatLessThanWellFounded
<1> HIDE DEF R
<1>3. PICK n \in T : \A m \in T : ~(<<m, n>> \in R)
    BY <1>2, WFMin
<1>4. ASSUME NEW m \in T PROVE n <= m
  <2>1. n \in Nat /\ m \in Nat /\ ~(m < n)
      BY <1>1, <1>3
  <2> QED BY <2>1
<1> QED BY <1>4

\* What holds of a set when it holds of all that have one element less, holds of the finite ones.
LEMMA ByElements ==
    ASSUME NEW S, IsFiniteSet(S), NEW Good \in SUBSET (SUBSET S),
           \A T \in SUBSET S : (\A x \in T : T \ {x} \in Good) => T \in Good
    PROVE  \A T \in SUBSET S : T \in Good
<1> DEFINE Bad == {n \in Nat : \E T \in SUBSET S : T \notin Good /\ Cardinality(T) = n}
<1>1. SUFFICES ASSUME NEW T \in SUBSET S, T \notin Good PROVE FALSE
    OBVIOUS
<1>2. \A U \in SUBSET S : IsFiniteSet(U) /\ Cardinality(U) \in Nat
    BY FS_Subset, FS_CardinalityType
<1>3. Bad # {} /\ Bad \subseteq Nat
    BY <1>1, <1>2
<1> HIDE DEF Bad
<1>5. PICK n \in Bad : \A m \in Bad : n <= m
    BY <1>3, LeastNumber
<1>6. PICK U \in SUBSET S : U \notin Good /\ Cardinality(U) = n
    BY DEF Bad
<1>7. ASSUME NEW x \in U PROVE U \ {x} \in Good
  <2>1. Cardinality(U \ {x}) = Cardinality(U) - 1
      BY <1>2, FS_RemoveElement
  <2>2. Cardinality(U \ {x}) \in Nat /\ Cardinality(U \ {x}) < n
      BY <1>2, <1>6, <2>1
  <2>3. Cardinality(U \ {x}) \notin Bad
      BY <1>3, <1>5, <2>2
  <2> QED BY <2>2, <2>3 DEF Bad
<1> QED BY <1>6, <1>7

\* The element a sum over a set begins with, and a table of the sums over all
\* subsets of S, each of which follows from that of one element less.
Pick(s) == CHOOSE x \in s : TRUE
Adds(g, f, S) == g = [s \in SUBSET S |-> IF s = {} THEN 0 ELSE f[Pick(s)] + g[s \ {Pick(s)}]]

\* That element is one of the set.
LEMMA PickIs == ASSUME NEW s, s # {} PROVE Pick(s) \in s
BY DEF Pick

\* An entry of the table.
LEMMA AddsAt ==
    ASSUME NEW f, NEW S, NEW g, Adds(g, f, S), NEW T \in SUBSET S
    PROVE  g[T] = IF T = {} THEN 0 ELSE f[Pick(T)] + g[T \ {Pick(T)}]
BY DEF Adds

\* Two tables of one function agree wherever both have an entry.
LEMMA AddsOnce ==
    ASSUME NEW f, NEW S, NEW V, IsFiniteSet(S), S \subseteq V, NEW g, NEW h, Adds(g, f, S), Adds(h, f, V)
    PROVE  \A T \in SUBSET S : g[T] = h[T]
<1> DEFINE Good == {T \in SUBSET S : g[T] = h[T]}
<1>1. ASSUME NEW T \in SUBSET S, \A x \in T : T \ {x} \in Good PROVE T \in Good
  <2>1. T \in SUBSET V
      OBVIOUS
  <2>2. CASE T = {}
    <3>1. g[T] = 0 /\ h[T] = 0
        BY <2>1, <2>2, AddsAt
    <3> QED BY <3>1
  <2>3. CASE T # {}
    <3>1. g[T] = f[Pick(T)] + g[T \ {Pick(T)}]
        BY <2>3, AddsAt
    <3>2. h[T] = f[Pick(T)] + h[T \ {Pick(T)}]
        BY <2>1, <2>3, AddsAt
    <3>3. g[T \ {Pick(T)}] = h[T \ {Pick(T)}]
        BY <1>1, <2>3, PickIs
    <3> QED BY <3>1, <3>2, <3>3
  <2> QED BY <2>2, <2>3
<1>2. \A T \in SUBSET S : T \in Good
  <2> HIDE DEF Good
  <2>1. Good \in SUBSET (SUBSET S)
      BY DEF Good
  <2> QED BY <1>1, <2>1, ByElements
<1> QED BY <1>2

\* There is a table for every finite set.
LEMMA AddsIs == ASSUME NEW f, NEW S, IsFiniteSet(S) PROVE \E g : Adds(g, f, S)
<1> DEFINE Good == {T \in SUBSET S : \E g : Adds(g, f, T)}
<1>1. ASSUME NEW T \in SUBSET S, \A x \in T : T \ {x} \in Good PROVE T \in Good
  <2> DEFINE G(x) == CHOOSE h : Adds(h, f, T \ {x})
             g == [s \in SUBSET T |->
                      IF s = {} THEN 0 ELSE f[Pick(s)] + G(Pick(s))[s \ {Pick(s)}]]
  <2>1. \A x \in T : Adds(G(x), f, T \ {x})
      BY <1>1
  <2>2. \A U \in SUBSET T : IsFiniteSet(U)
      BY FS_Subset
  <2> HIDE DEF G
  <2>3. ASSUME NEW s \in SUBSET T, s # {} PROVE g[s \ {Pick(s)}] = G(Pick(s))[s \ {Pick(s)}]
    <3> DEFINE p == Pick(s)
               U == s \ {p}
               q == Pick(U)
    <3>1. p \in T /\ U \in SUBSET T /\ U \in SUBSET (T \ {p})
        BY <2>3, PickIs
    <3>2. CASE U = {}
      <4>1. g[U] = 0
          BY <3>1, <3>2
      <4> HIDE DEF p, U, g
      <4>2. Adds(G(p), f, T \ {p})
          BY <2>1, <3>1
      <4>3. G(p)[U] = 0
          BY <3>1, <3>2, <4>2, AddsAt
      <4> QED BY <4>1, <4>3 DEF p, U
    <3>3. CASE U # {}
      <4>1. q \in U
          BY <3>3, PickIs
      <4>2. g[U] = f[q] + G(q)[U \ {q}]
          BY <3>1, <3>3
      <4> HIDE DEF p, q, U, g
      <4>3. G(p)[U] = f[q] + G(p)[U \ {q}]
        <5>1. Adds(G(p), f, T \ {p})
            BY <2>1, <3>1
        <5> QED BY <3>1, <3>3, <5>1, AddsAt DEF q
      <4>4. G(q)[U \ {q}] = G(p)[U \ {q}]
        <5>1. /\ U \ {q} \subseteq T \ {q} /\ U \ {q} \subseteq T \ {p} /\ q \in T
            BY <3>1, <4>1
        <5>2. Adds(G(p), f, T \ {p}) /\ Adds(G(q), f, T \ {q})
            BY <2>1, <3>1, <5>1
        <5>3. PICK gp : gp = G(p)
            OBVIOUS
        <5>4. PICK gq : gq = G(q)
            OBVIOUS
        <5> DEFINE W == (T \ {p}) \cap (T \ {q})
        <5>5. IsFiniteSet(W)
            BY <2>2
        <5>6. PICK w : Adds(w, f, W)
          <6> DEFINE H == [s_ \in SUBSET W |-> gp[s_]]
          <6>1. ASSUME NEW s_ \in SUBSET W
                PROVE  H[s_] = IF s_ = {} THEN 0 ELSE f[Pick(s_)] + H[s_ \ {Pick(s_)}]
            <7>1. s_ \in SUBSET (T \ {p}) /\ s_ \ {Pick(s_)} \in SUBSET W
                OBVIOUS
            <7>2. gp[s_] = IF s_ = {} THEN 0 ELSE f[Pick(s_)] + gp[s_ \ {Pick(s_)}]
                BY <5>2, <5>3, <7>1, AddsAt
            <7> QED BY <7>1, <7>2
          <6>2. H = [s_ \in SUBSET W |-> H[s_]]
              OBVIOUS
          <6>3. Adds(H, f, W)
              BY <6>1 DEF Adds
          <6> QED BY <6>3
        <5>7. w[U \ {q}] = gp[U \ {q}]
          <6>1. W \subseteq T \ {p}
              OBVIOUS
          <6> HIDE DEF W
          <6> QED BY <5>1, <5>2, <5>3, <5>5, <5>6, <6>1, AddsOnce DEF W
        <5>8. w[U \ {q}] = gq[U \ {q}]
          <6>1. W \subseteq T \ {q}
              OBVIOUS
          <6> HIDE DEF W
          <6> QED BY <5>1, <5>2, <5>4, <5>5, <5>6, <6>1, AddsOnce DEF W
        <5> QED BY <5>3, <5>4, <5>7, <5>8
      <4> QED BY <4>2, <4>3, <4>4 DEF p, U
    <3> QED BY <3>2, <3>3
  <2>4. Adds(g, f, T)
      BY <2>3 DEF Adds
  <2> QED BY <2>4
<1>2. \A T \in SUBSET S : T \in Good
  <2> HIDE DEF Good
  <2>1. Good \in SUBSET (SUBSET S)
      BY DEF Good
  <2> QED BY <1>1, <2>1, ByElements
<1> QED BY <1>2

-----------------------------------------------------------------------------
\* The sum of f over S.
Total(f, S) == (CHOOSE g : Adds(g, f, S))[S]

\* One table gives the sums over all subsets.
LEMMA TotalIs ==
    ASSUME NEW f, NEW S, IsFiniteSet(S)
    PROVE  \A T \in SUBSET S : Total(f, T) = (CHOOSE g : Adds(g, f, S))[T]
<1> DEFINE g == CHOOSE h : Adds(h, f, S)
<1>1. Adds(g, f, S)
    BY AddsIs
<1> HIDE DEF g
<1> SUFFICES ASSUME NEW T \in SUBSET S PROVE Total(f, T) = g[T]
    BY DEF g
<1>2. PICK h : h = CHOOSE k : Adds(k, f, T)
    OBVIOUS
<1>3. IsFiniteSet(T)
    BY FS_Subset
<1>4. Adds(h, f, T)
    BY <1>2, <1>3, AddsIs
<1>5. h[T] = g[T]
    BY <1>1, <1>3, <1>4, AddsOnce
<1> QED BY <1>2, <1>5 DEF Total

\* A sum is one element and the sum over the others.
LEMMA TotalPicks ==
    ASSUME NEW f, NEW S, IsFiniteSet(S)
    PROVE  Total(f, S) = IF S = {} THEN 0 ELSE f[Pick(S)] + Total(f, S \ {Pick(S)})
<1>1. PICK g : g = CHOOSE h : Adds(h, f, S)
    OBVIOUS
<1>2. Adds(g, f, S)
    BY <1>1, AddsIs
<1>3. g[S] = IF S = {} THEN 0 ELSE f[Pick(S)] + g[S \ {Pick(S)}]
    BY <1>2, AddsAt
<1>4. Total(f, S) = g[S] /\ Total(f, S \ {Pick(S)}) = g[S \ {Pick(S)}]
    BY <1>1, TotalIs
<1> QED BY <1>3, <1>4

\* The sum of naturals is a natural.
LEMMA TotalNat ==
    ASSUME NEW S, IsFiniteSet(S), NEW f, \A x \in S : f[x] \in Nat
    PROVE  Total(f, S) \in Nat
<1> DEFINE Good == {T \in SUBSET S : Total(f, T) \in Nat}
<1>1. ASSUME NEW T \in SUBSET S, \A x \in T : T \ {x} \in Good PROVE T \in Good
  <2>1. Total(f, T) = IF T = {} THEN 0 ELSE f[Pick(T)] + Total(f, T \ {Pick(T)})
      BY FS_Subset, TotalPicks
  <2>2. T # {} => Pick(T) \in T /\ f[Pick(T)] \in Nat
      BY PickIs
  <2>3. T # {} => Total(f, T \ {Pick(T)}) \in Nat
      BY <1>1, <2>2
  <2>4. Total(f, T) \in Nat
      BY <2>1, <2>2, <2>3
  <2> QED BY <2>4
<1>2. \A T \in SUBSET S : T \in Good
  <2> HIDE DEF Good
  <2>1. Good \in SUBSET (SUBSET S)
      BY DEF Good
  <2> QED BY <1>1, <2>1, ByElements
<1> QED BY <1>2

\* Functions that agree on the set have one sum.
LEMMA TotalSame ==
    ASSUME NEW S, IsFiniteSet(S), NEW f, NEW g, \A x \in S : f[x] = g[x]
    PROVE  Total(f, S) = Total(g, S)
<1> DEFINE Good == {T \in SUBSET S : Total(f, T) = Total(g, T)}
<1>1. ASSUME NEW T \in SUBSET S, \A x \in T : T \ {x} \in Good PROVE T \in Good
  <2>1. /\ Total(f, T) = IF T = {} THEN 0 ELSE f[Pick(T)] + Total(f, T \ {Pick(T)})
        /\ Total(g, T) = IF T = {} THEN 0 ELSE g[Pick(T)] + Total(g, T \ {Pick(T)})
      BY FS_Subset, TotalPicks
  <2>2. T # {} => Pick(T) \in T /\ f[Pick(T)] = g[Pick(T)]
      BY PickIs
  <2>3. T # {} => Total(f, T \ {Pick(T)}) = Total(g, T \ {Pick(T)})
      BY <1>1, <2>2
  <2>4. Total(f, T) = Total(g, T)
      BY <2>1, <2>2, <2>3
  <2> QED BY <2>4
<1>2. \A T \in SUBSET S : T \in Good
  <2> HIDE DEF Good
  <2>1. Good \in SUBSET (SUBSET S)
      BY DEF Good
  <2> QED BY <1>1, <2>1, ByElements
<1> QED BY <1>2

\* Whichever element is taken out, not only the one picked, the rest adds up.
LEMMA TotalSplits ==
    ASSUME NEW S, IsFiniteSet(S), NEW f, \A x \in S : f[x] \in Nat
    PROVE  \A x \in S : Total(f, S) = f[x] + Total(f, S \ {x})
<1> DEFINE Good == {T \in SUBSET S : \A x \in T : Total(f, T) = f[x] + Total(f, T \ {x})}
<1>1. ASSUME NEW T \in SUBSET S, \A x \in T : T \ {x} \in Good PROVE T \in Good
  <2> SUFFICES ASSUME NEW x \in T PROVE Total(f, T) = f[x] + Total(f, T \ {x})
      OBVIOUS
  <2>1. PICK p \in T : p = Pick(T)
      BY PickIs
  <2>2. Total(f, T) = f[p] + Total(f, T \ {p})
      BY <2>1, FS_Subset, TotalPicks
  <2>3. CASE x = p
      BY <2>2, <2>3
  <2>4. CASE x # p
    <3>1. Total(f, T \ {p}) = f[x] + Total(f, (T \ {p}) \ {x})
        BY <1>1, <2>4
    <3>2. Total(f, T \ {x}) = f[p] + Total(f, (T \ {x}) \ {p})
        BY <1>1, <2>4
    <3>3. (T \ {p}) \ {x} = (T \ {x}) \ {p}
        OBVIOUS
    <3>4. PICK U \in SUBSET S : U = (T \ {p}) \ {x}
        OBVIOUS
    <3>5. Total(f, U) \in Nat
        BY FS_Subset, TotalNat
    <3>6. f[x] \in Nat /\ f[p] \in Nat
        OBVIOUS
    <3>7. Total(f, T \ {p}) = f[x] + Total(f, U) /\ Total(f, T \ {x}) = f[p] + Total(f, U)
        BY <3>1, <3>2, <3>3, <3>4
    <3> QED BY <2>2, <3>5, <3>6, <3>7
  <2> QED BY <2>3, <2>4
<1>2. \A T \in SUBSET S : T \in Good
  <2> HIDE DEF Good
  <2>1. Good \in SUBSET (SUBSET S)
      BY DEF Good
  <2> QED BY <1>1, <2>1, ByElements
<1> QED BY <1>2

\* The sums over two sets that do not meet add up to that over both.
LEMMA TotalJoins ==
    ASSUME NEW S, IsFiniteSet(S), NEW V, IsFiniteSet(V), S \cap V = {}, NEW f,
           \A x \in S \cup V : f[x] \in Nat
    PROVE  Total(f, S \cup V) = Total(f, S) + Total(f, V)
<1> DEFINE Good == {T \in SUBSET S : Total(f, T \cup V) = Total(f, T) + Total(f, V)}
<1>1. ASSUME NEW T \in SUBSET S, \A x \in T : T \ {x} \in Good PROVE T \in Good
  <2>1. IsFiniteSet(T) /\ IsFiniteSet(T \cup V)
      BY FS_Subset, FS_Union
  <2>2. Total(f, V) \in Nat
      BY TotalNat
  <2>3. CASE T = {}
    <3>1. Total(f, T) = 0 /\ T \cup V = V
        BY <2>1, <2>3, TotalPicks
    <3>2. Total(f, T \cup V) = Total(f, V)
        BY <3>1, Zenon
    <3>3. Total(f, T \cup V) = Total(f, T) + Total(f, V)
        BY <2>2, <3>1, <3>2
    <3> QED BY <3>3
  <2>4. CASE T # {}
    <3>1. PICK x \in T : TRUE
        BY <2>4
    <3>2. Total(f, T) = f[x] + Total(f, T \ {x})
        BY <2>1, TotalSplits
    <3>3. Total(f, T \cup V) = f[x] + Total(f, (T \cup V) \ {x})
        BY <2>1, TotalSplits
    <3>4. Total(f, (T \cup V) \ {x}) = Total(f, (T \ {x}) \cup V)
      <4>1. (T \cup V) \ {x} = (T \ {x}) \cup V
          OBVIOUS
      <4> QED BY <4>1, Zenon
    <3>5. Total(f, (T \ {x}) \cup V) = Total(f, T \ {x}) + Total(f, V)
        BY <1>1
    <3>6. Total(f, T \ {x}) \in Nat /\ f[x] \in Nat
      <4>1. IsFiniteSet(T \ {x})
          BY <2>1, FS_Subset
      <4> QED BY <4>1, TotalNat
    <3>7. Total(f, T \cup V) = Total(f, T) + Total(f, V)
        BY <2>2, <3>2, <3>3, <3>4, <3>5, <3>6
    <3> QED BY <3>7
  <2> QED BY <2>3, <2>4
<1>2. \A T \in SUBSET S : T \in Good
  <2> HIDE DEF Good
  <2>1. Good \in SUBSET (SUBSET S)
      BY DEF Good
  <2> QED BY <1>1, <2>1, ByElements
<1> QED BY <1>2

\* Zeros add up to zero.
LEMMA TotalZero ==
    ASSUME NEW S, IsFiniteSet(S), NEW f, \A x \in S : f[x] = 0
    PROVE  Total(f, S) = 0
<1> DEFINE Good == {T \in SUBSET S : Total(f, T) = 0}
<1>1. ASSUME NEW T \in SUBSET S, \A x \in T : T \ {x} \in Good PROVE T \in Good
  <2>1. Total(f, T) = IF T = {} THEN 0 ELSE f[Pick(T)] + Total(f, T \ {Pick(T)})
      BY FS_Subset, TotalPicks
  <2>2. T # {} => Pick(T) \in T /\ f[Pick(T)] = 0
      BY PickIs
  <2>3. T # {} => Total(f, T \ {Pick(T)}) = 0
      BY <1>1, <2>2
  <2>4. Total(f, T) = 0
      BY <2>1, <2>2, <2>3
  <2> QED BY <2>4
<1>2. \A T \in SUBSET S : T \in Good
  <2> HIDE DEF Good
  <2>1. Good \in SUBSET (SUBSET S)
      BY DEF Good
  <2> QED BY <1>1, <2>1, ByElements
<1> QED BY <1>2

-----------------------------------------------------------------------------
(* A sensor's failures: each is in the row, the file or a claim, once.     *)

\* The fold of the instance is a total.
LEMMA FoldIs == ASSUME NEW f, NEW S PROVE Sensor!FoldFunctionOnSet(+, 0, f, S) = Total(f, S)
BY DEF Total, Adds, Pick, Sensor!FoldFunctionOnSet, Sensor!MapThenFoldSet

FlowRows == [at : {"idle", "sent", "loaded", "answered", "failed", "counted", "written"},
             claim : 0 .. MaxClaims, read : Nat, back : SUBSET Sensor!Claims]

SensorTypes ==
    /\ threads \in BOOLEAN /\ slipped \in BOOLEAN
    /\ pending \in Nat /\ row \in Nat /\ failures \in Nat
    /\ claims \in [Sensor!Claims -> Nat] /\ orphaned \subseteq Sensor!Claims
    /\ flow \in [Flows -> FlowRows]

\* A claim is held from a request to its failure, claims are folded back by a count.
FlowsFit ==
    /\ \A f \in Flows :
          /\ flow[f].claim # 0 => flow[f].at \in {"sent", "loaded", "answered", "failed"}
          /\ flow[f].back # {} => flow[f].at \in {"counted", "written"}
    /\ threads => \A f, g \in Sensor!Counting : f = g

(***************************************************************************)
(* No claim is of two flows, and none that a flow has is gone; an orphan   *)
(* is nobody's.  Two that count may have found the same orphans, but once  *)
(* one has written, nobody else has them.                                  *)
(***************************************************************************)
ClaimsApart ==
    /\ \A f \in Flows : flow[f].claim # 0 => claims[flow[f].claim] > 0
    /\ \A f, g \in Flows : f # g /\ flow[f].claim # 0 => flow[f].claim # flow[g].claim
    /\ \A f, g \in Flows : flow[f].claim # 0 => flow[f].claim \notin flow[g].back
    /\ \A f \in Flows : \A c \in flow[f].back : claims[c] > 0
    /\ \A c \in orphaned : claims[c] > 0 /\ \A f \in Flows : flow[f].claim # c
    /\ \A f, g \in Flows :
           f # g /\ flow[g].at = "written" => flow[f].back \cap flow[g].back = {}

\* A count that was read is that of the file and the claims it folds back.
CountsCarried ==
    \A f \in Flows :
        flow[f].at = "counted" => flow[f].read = pending + 1 + Total(claims, flow[f].back)

\* The claims whose count is nowhere else.
Live == Sensor!Claims \ Sensor!Settled

Tallied == row + pending + Total(claims, Live) = failures

SensorInv ==
    /\ SensorTypes /\ FlowsFit
    /\ ~slipped => ClaimsApart /\ CountsCarried /\ Tallied

\* The claims are finitely many.
LEMMA ClaimsAre ==
    /\ MaxClaims \in Nat /\ Sensor!Claims = 1 .. MaxClaims /\ IsFiniteSet(Sensor!Claims)
    /\ Sensor!Claims \subseteq 0 .. MaxClaims /\ 0 \notin Sensor!Claims
    /\ \A c \in 0 .. MaxClaims : c # 0 => c \in Sensor!Claims
    /\ Sensor!Resting = [at |-> "idle", claim |-> 0, read |-> 0, back |-> {}]
    /\ Sensor!Resting \in FlowRows
<1>1. MaxClaims \in Nat /\ Sensor!Claims = 1 .. MaxClaims
    BY Assumptions DEF Sensor!FlowsAssumption, Sensor!Claims
<1>2. IsFiniteSet(Sensor!Claims)
    BY <1>1, FS_Interval
<1>3. Sensor!Resting = [at |-> "idle", claim |-> 0, read |-> 0, back |-> {}]
    BY DEF Sensor!Resting
<1>4. Sensor!Resting \in FlowRows
    BY <1>1, <1>3 DEF FlowRows
<1> QED BY <1>1, <1>2, <1>3, <1>4

\* The columns of a flow.
LEMMA FlowIs ==
    ASSUME SensorTypes, NEW f \in Flows
    PROVE  /\ flow[f] \in FlowRows
           /\ flow[f].at \in {"idle", "sent", "loaded", "answered", "failed", "counted", "written"}
           /\ flow[f].claim \in 0 .. MaxClaims /\ flow[f].read \in Nat
           /\ flow[f].back \subseteq Sensor!Claims
BY DEF SensorTypes, FlowRows

\* One flow moves on.
LEMMA FlowMoves ==
    ASSUME SensorTypes, NEW f \in Flows, NEW to \in FlowRows, flow' = [flow EXCEPT ![f] = to]
    PROVE  /\ flow' \in [Flows -> FlowRows] /\ flow'[f] = to
           /\ \A g \in Flows : g # f => flow'[g] = flow[g]
BY DEF SensorTypes

\* Which claims are settled.
LEMMA SettledAre ==
    \A c : c \in Sensor!Settled <=>
              \/ \E g \in Flows : flow[g].at = "answered" /\ flow[g].claim = c
              \/ \E g \in Flows : flow[g].at = "written" /\ c \in flow[g].back
BY DEF Sensor!Settled, Sensor!At

\* The same after a step.
LEMMA SettledWillBe ==
    \A c : c \in Sensor!Settled' <=>
              \/ \E g \in Flows : flow'[g].at = "answered" /\ flow'[g].claim = c
              \/ \E g \in Flows : flow'[g].at = "written" /\ c \in flow'[g].back
BY DEF Sensor!Settled, Sensor!At

(***************************************************************************)
(* A request that goes on with the claim it has, or none, leaves the       *)
(* counts alone.                                                           *)
(***************************************************************************)
LEMMA RequestMoves ==
    ASSUME SensorTypes, FlowsFit, NEW f \in Flows, NEW to \in FlowRows,
           flow' = [flow EXCEPT ![f] = to], UNCHANGED <<threads, pending, claims, orphaned>>,
           flow[f].at \notin {"counted", "written"}, to.at \in {"sent", "loaded", "answered", "failed"},
           to.claim = flow[f].claim, to.back = {}
    PROVE  /\ FlowsFit'
           /\ ClaimsApart => ClaimsApart'
           /\ CountsCarried => CountsCarried'
<1>1. /\ flow'[f] = to /\ \A g \in Flows : g # f => flow'[g] = flow[g]
    BY FlowMoves
<1>2. flow[f].back = {}
    BY DEF FlowsFit
<1>3. FlowsFit'
  <2>1. \A g \in Sensor!Counting' : g \in Sensor!Counting
      BY <1>1 DEF Sensor!Counting, Sensor!At
  <2>2. threads' => \A g, h \in Sensor!Counting' : g = h
      BY <2>1 DEF FlowsFit
  <2>3. \A g \in Flows :
          /\ flow'[g].claim # 0 => flow'[g].at \in {"sent", "loaded", "answered", "failed"}
          /\ flow'[g].back # {} => flow'[g].at \in {"counted", "written"}
      BY <1>1 DEF FlowsFit
  <2> QED BY <2>2, <2>3 DEF FlowsFit
<1>4. \A g \in Flows : flow'[g].claim = flow[g].claim /\ flow'[g].back = flow[g].back
    BY <1>1, <1>2
<1>5. \A g \in Flows : flow'[g].at = "written" => flow[g].at = "written"
    BY <1>1
<1>6. ASSUME ClaimsApart PROVE ClaimsApart'
    BY <1>4, <1>5, <1>6 DEF ClaimsApart
<1>7. ASSUME CountsCarried PROVE CountsCarried'
  <2>1. \A g \in Flows : flow'[g].at = "counted" => flow'[g] = flow[g]
      BY <1>1
  <2> QED BY <1>7, <2>1 DEF CountsCarried
<1> QED BY <1>3, <1>6, <1>7

\* Steps that settle no other claims keep the tally.
LEMMA LiveStays ==
    ASSUME \A c \in Sensor!Claims : c \in Sensor!Settled' <=> c \in Sensor!Settled,
           UNCHANGED <<claims, row, pending, failures>>, Tallied
    PROVE  Tallied'
<1>1. Live' = Live
    BY DEF Live, Sensor!Claims
<1>2. Total(claims', Live') = Total(claims, Live)
    BY <1>1, Zenon
<1> QED BY <1>2 DEF Tallied

\* A request without a claim goes out, is answered, or fails; one with a claim may be lost before it is answered.
LEMMA MovesKeep ==
    ASSUME SensorInv, NEW f \in Flows, NEW to \in FlowRows,
           flow' = [flow EXCEPT ![f] = to],
           UNCHANGED <<threads, pending, claims, orphaned, row, failures>>,
           flow[f].at \notin {"counted", "written"}, to.at \in {"sent", "loaded", "answered", "failed"},
           to.claim = flow[f].claim, to.back = {}, slipped' \in BOOLEAN, slipped => slipped',
           ~slipped' => flow[f].claim = 0 \/ (flow[f].at # "answered" /\ to.at # "answered")
    PROVE  SensorInv'
<1>5. /\ FlowsFit'
      /\ ClaimsApart => ClaimsApart'
      /\ CountsCarried => CountsCarried'
    BY RequestMoves DEF SensorInv
<1>6. /\ flow' \in [Flows -> FlowRows] /\ flow'[f] = to
      /\ \A g \in Flows : g # f => flow'[g] = flow[g]
    BY FlowMoves DEF SensorInv
<1>7. SensorTypes'
    BY <1>6 DEF SensorInv, SensorTypes
<1>8. ASSUME ~slipped' PROVE Tallied'
  <2>1. \A c \in Sensor!Claims : c \in Sensor!Settled' <=> c \in Sensor!Settled
      BY <1>6, <1>8, SettledAre, SettledWillBe, ClaimsAre
  <2>2. Tallied
      BY <1>8 DEF SensorInv
  <2> QED BY <2>1, <2>2, LiveStays
<1> QED BY <1>5, <1>7, <1>8 DEF SensorInv

\* The steps that neither take a claim nor record or count anything.
LEMMA RequestsKeep ==
    ASSUME SensorInv, NEW f \in Flows,
           \/ Sensor!SkipScan(f) \/ Sensor!AnswerOverBudget(f)
           \/ Sensor!LoadHeartbeat(f) \/ Sensor!RequestFails(f)
           \/ Sensor!ClaimScanFailures(f) /\ pending = 0
    PROVE  SensorInv'
<1>1. flow[f] \in FlowRows /\ SensorTypes /\ FlowsFit
    BY FlowIs DEF SensorInv
<1>2. CASE Sensor!SkipScan(f)
  <2>1. PICK to : to = [flow[f] EXCEPT !.at = "failed"]
      OBVIOUS
  <2>2. to \in FlowRows /\ to.at = "failed" /\ to.claim = flow[f].claim /\ to.back = flow[f].back
      BY <1>1, <2>1 DEF FlowRows
  <2>3. /\ flow[f].at = "idle" /\ flow' = [flow EXCEPT ![f] = to]
        /\ UNCHANGED <<threads, pending, claims, orphaned, row, failures, slipped>>
      BY <1>2, <2>1 DEF Sensor!SkipScan
  <2>4. flow[f].claim = 0 /\ to.back = {} /\ slipped \in BOOLEAN
      BY <1>1, <2>2, <2>3 DEF FlowsFit, SensorTypes
  <2> QED BY <2>2, <2>3, <2>4, MovesKeep
<1>3. CASE Sensor!AnswerOverBudget(f)
  <2>1. PICK to : to = [flow[f] EXCEPT !.at = "answered"]
      OBVIOUS
  <2>2. to \in FlowRows /\ to.at = "answered" /\ to.claim = flow[f].claim /\ to.back = flow[f].back
      BY <1>1, <2>1 DEF FlowRows
  <2>3. /\ flow[f].at = "sent" /\ flow' = [flow EXCEPT ![f] = to]
        /\ UNCHANGED <<threads, pending, claims, orphaned, row, failures>>
        /\ slipped' = (slipped \/ flow[f].claim # 0)
      BY <1>3, <2>1 DEF Sensor!AnswerOverBudget, Sensor!Carries
  <2>4. to.back = {} /\ slipped \in BOOLEAN
      BY <1>1, <2>2, <2>3 DEF FlowsFit, SensorTypes
  <2>5. slipped' \in BOOLEAN /\ (slipped => slipped') /\ (~slipped' => flow[f].claim = 0)
      BY <2>3, <2>4
  <2> QED BY <2>2, <2>3, <2>4, <2>5, MovesKeep
<1>4. CASE Sensor!LoadHeartbeat(f)
  <2>1. PICK to : to = [flow[f] EXCEPT !.at = "loaded", !.read = row]
      OBVIOUS
  <2>2. to \in FlowRows /\ to.at = "loaded" /\ to.claim = flow[f].claim /\ to.back = flow[f].back
      BY <1>1, <2>1 DEF FlowRows, SensorTypes
  <2>3. /\ flow[f].at = "sent" /\ flow' = [flow EXCEPT ![f] = to]
        /\ UNCHANGED <<threads, pending, claims, orphaned, row, failures, slipped>>
      BY <1>4, <2>1 DEF Sensor!LoadHeartbeat
  <2>4. to.back = {} /\ slipped \in BOOLEAN
      BY <1>1, <2>2, <2>3 DEF FlowsFit, SensorTypes
  <2> QED BY <2>2, <2>3, <2>4, MovesKeep
<1>5. CASE Sensor!RequestFails(f)
  <2>1. PICK to : to = [flow[f] EXCEPT !.at = "failed"]
      OBVIOUS
  <2>2. to \in FlowRows /\ to.at = "failed" /\ to.claim = flow[f].claim /\ to.back = flow[f].back
      BY <1>1, <2>1 DEF FlowRows
  <2>3. /\ flow[f].at \in {"sent", "answered"} /\ flow' = [flow EXCEPT ![f] = to]
        /\ UNCHANGED <<threads, pending, claims, orphaned, row, failures>>
        /\ slipped' = (slipped \/ (flow[f].at = "answered" /\ flow[f].claim # 0))
      BY <1>5, <2>1 DEF Sensor!RequestFails, Sensor!Carries
  <2>4. to.back = {} /\ slipped \in BOOLEAN
      BY <1>1, <2>2, <2>3 DEF FlowsFit, SensorTypes
  <2>5. slipped' \in BOOLEAN /\ (slipped => slipped')
        /\ (~slipped' => flow[f].claim = 0 \/ flow[f].at # "answered")
      BY <2>3, <2>4
  <2> QED BY <2>2, <2>3, <2>4, <2>5, MovesKeep
<1>6. CASE Sensor!ClaimScanFailures(f) /\ pending = 0
  <2>1. PICK to : to = [flow[f] EXCEPT !.at = "sent"]
      OBVIOUS
  <2>2. to \in FlowRows /\ to.at = "sent" /\ to.claim = flow[f].claim /\ to.back = flow[f].back
      BY <1>1, <2>1 DEF FlowRows
  <2>3. /\ flow[f].at = "idle" /\ flow' = [flow EXCEPT ![f] = to]
        /\ UNCHANGED <<threads, pending, claims, orphaned, row, failures, slipped>>
      BY <1>6, <2>1 DEF Sensor!ClaimScanFailures
  <2>4. flow[f].claim = 0 /\ to.back = {} /\ slipped \in BOOLEAN
      BY <1>1, <2>2, <2>3 DEF FlowsFit, SensorTypes
  <2> QED BY <2>2, <2>3, <2>4, MovesKeep
<1> QED BY <1>2, <1>3, <1>4, <1>5, <1>6

(***************************************************************************)
(* The totals move with one claim: a claim that is live before and after   *)
(* counts what it holds; one that settles, or is new, is the difference.   *)
(***************************************************************************)
LEMMA ClaimCounts ==
    ASSUME claims \in [Sensor!Claims -> Nat], NEW S \in SUBSET Sensor!Claims, NEW c \in S
    PROVE  Total(claims, S) = claims[c] + Total(claims, S \ {c}) /\ Total(claims, S \ {c}) \in Nat
<1>1. IsFiniteSet(S) /\ IsFiniteSet(S \ {c})
    BY ClaimsAre, FS_Subset
<1>2. \A x \in S : claims[x] \in Nat
    BY SMT
<1>3. \A x \in S \ {c} : claims[x] \in Nat
    BY <1>2
<1> QED BY <1>1, <1>2, <1>3, TotalSplits, TotalNat

\* A flow takes the file for its claim.
LEMMA TakeKeeps ==
    ASSUME SensorInv, NEW f \in Flows, Sensor!ClaimScanFailures(f), pending # 0
    PROVE  SensorInv'
<1>1. flow[f] \in FlowRows /\ SensorTypes /\ FlowsFit /\ flow[f].at = "idle"
    BY FlowIs DEF SensorInv, Sensor!ClaimScanFailures
<1>2. PICK c \in Sensor!Claims :
          /\ claims[c] = 0 /\ claims' = [claims EXCEPT ![c] = pending] /\ pending' = 0
          /\ flow' = [flow EXCEPT ![f].at = "sent", ![f].claim = c]
          /\ slipped' = (slipped \/ Sensor!At("counted") # {})
          /\ UNCHANGED <<threads, orphaned, row, failures>>
    BY DEF Sensor!ClaimScanFailures
<1>3. PICK to : to = [flow[f] EXCEPT !.at = "sent", !.claim = c]
    OBVIOUS
<1>4. to \in FlowRows /\ to.at = "sent" /\ to.claim = c /\ to.back = flow[f].back
    BY <1>1, <1>3, ClaimsAre DEF FlowRows
<1>5. flow' = [flow EXCEPT ![f] = to]
    BY <1>1, <1>2, <1>3
<1>6. /\ flow' \in [Flows -> FlowRows] /\ flow'[f] = to
      /\ \A g \in Flows : g # f => flow'[g] = flow[g]
    BY <1>1, <1>4, <1>5, FlowMoves
<1>7. flow[f].claim = 0 /\ flow[f].back = {} /\ to.back = {} /\ pending \in Nat
    BY <1>1, <1>4 DEF FlowsFit, SensorTypes
<1>8. SensorTypes'
    BY <1>1, <1>2, <1>6, <1>7 DEF SensorTypes
<1>9. FlowsFit'
  <2>1. \A g \in Sensor!Counting' : g \in Sensor!Counting
      BY <1>4, <1>6 DEF Sensor!Counting, Sensor!At
  <2>2. threads' => \A g, h \in Sensor!Counting' : g = h
      BY <1>1, <1>2, <2>1 DEF FlowsFit
  <2>3. \A g \in Flows :
          /\ flow'[g].claim # 0 => flow'[g].at \in {"sent", "loaded", "answered", "failed"}
          /\ flow'[g].back # {} => flow'[g].at \in {"counted", "written"}
      BY <1>1, <1>4, <1>6, <1>7 DEF FlowsFit
  <2> QED BY <2>2, <2>3 DEF FlowsFit
<1>10. ASSUME ~slipped' PROVE ClaimsApart' /\ CountsCarried' /\ Tallied'
  <2>1. /\ ~slipped /\ ClaimsApart /\ CountsCarried /\ Tallied
        /\ \A g \in Flows : flow[g].at # "counted"
      BY <1>2, <1>10 DEF SensorInv, Sensor!At
  <2>2. /\ claims'[c] = pending /\ \A x \in Sensor!Claims : x # c => claims'[x] = claims[x]
        /\ c # 0
      BY <1>1, <1>2, ClaimsAre DEF SensorTypes
  <2>3. /\ \A g \in Flows : flow[g].claim # c /\ c \notin flow[g].back
        /\ c \notin orphaned
      BY <1>2, <2>1, <2>2 DEF ClaimsApart
  <2>4. ClaimsApart'
    <3>1. \A g \in Flows : flow'[g].claim # 0 => claims'[flow'[g].claim] > 0
      <4> SUFFICES ASSUME NEW g \in Flows, flow'[g].claim # 0 PROVE claims'[flow'[g].claim] > 0
          OBVIOUS
      <4>1. CASE g = f
          BY <1>4, <1>6, <1>7, <2>2, <4>1
      <4>2. CASE g # f
        <5>1. flow'[g].claim = flow[g].claim /\ flow[g].claim \in Sensor!Claims /\ flow[g].claim # c
            BY <1>1, <1>6, <2>3, <4>2, FlowIs, ClaimsAre
        <5>2. claims[flow[g].claim] > 0
            BY <2>1, <4>2, <1>6 DEF ClaimsApart
        <5> QED BY <2>2, <5>1, <5>2
      <4> QED BY <4>1, <4>2
    <3>2. \A g, h \in Flows : g # h /\ flow'[g].claim # 0 => flow'[g].claim # flow'[h].claim
        BY <1>4, <1>6, <2>1, <2>3 DEF ClaimsApart
    <3>3. \A g, h \in Flows : flow'[g].claim # 0 => flow'[g].claim \notin flow'[h].back
        BY <1>4, <1>6, <1>7, <2>1, <2>3 DEF ClaimsApart
    <3>4. \A g \in Flows : \A x \in flow'[g].back : claims'[x] > 0
      <4> SUFFICES ASSUME NEW g \in Flows, NEW x \in flow'[g].back PROVE claims'[x] > 0
          OBVIOUS
      <4>1. g # f /\ x \in flow[g].back
          BY <1>4, <1>6, <1>7
      <4>2. x \in Sensor!Claims /\ x # c /\ claims[x] > 0
          BY <1>1, <2>1, <2>3, <4>1, FlowIs DEF ClaimsApart
      <4> QED BY <2>2, <4>2
    <3>5. \A x \in orphaned' : claims'[x] > 0 /\ \A g \in Flows : flow'[g].claim # x
      <4> SUFFICES ASSUME NEW x \in orphaned
                   PROVE claims'[x] > 0 /\ \A g \in Flows : flow'[g].claim # x
          BY <1>2
      <4>1. x \in Sensor!Claims /\ x # c /\ claims[x] > 0 /\ \A g \in Flows : flow[g].claim # x
          BY <1>1, <2>1, <2>3 DEF ClaimsApart, SensorTypes
      <4> QED BY <1>4, <1>6, <2>2, <4>1
    <3>6. \A g, h \in Flows :
              g # h /\ flow'[h].at = "written" => flow'[g].back \cap flow'[h].back = {}
        BY <1>4, <1>6, <1>7, <2>1 DEF ClaimsApart
    <3> QED BY <3>1, <3>2, <3>3, <3>4, <3>5, <3>6 DEF ClaimsApart
  <2>5. CountsCarried'
      BY <1>4, <1>6, <2>1 DEF CountsCarried
  <2>6. \A x \in Sensor!Claims : x \in Sensor!Settled' <=> x \in Sensor!Settled
      BY <1>1, <1>4, <1>6, <1>7, SettledAre, SettledWillBe
  <2>7. Live' = Live /\ c \in Live /\ Live \subseteq Sensor!Claims
    <3>1. Live' = Live
        BY <2>6 DEF Live, Sensor!Claims
    <3>2. c \notin Sensor!Settled
        BY <2>3, SettledAre
    <3> QED BY <3>1, <3>2 DEF Live
  <2>8. claims \in [Sensor!Claims -> Nat] /\ claims' \in [Sensor!Claims -> Nat]
      BY <1>1, <1>8 DEF SensorTypes, Sensor!Claims
  <2>9. Total(claims, Live) = 0 + Total(claims, Live \ {c}) /\ Total(claims, Live \ {c}) \in Nat
      BY <1>2, <2>7, <2>8, ClaimCounts
  <2>10. Total(claims', Live) = pending + Total(claims', Live \ {c})
    <3>1. IsFiniteSet(Live)
        BY <2>7, ClaimsAre, FS_Subset
    <3>2. \A x \in Live : claims'[x] \in Nat
        BY <2>7, <2>8
    <3> QED BY <2>2, <2>7, <3>1, <3>2, TotalSplits
  <2>11. Total(claims', Live \ {c}) = Total(claims, Live \ {c})
    <3>1. IsFiniteSet(Live \ {c})
        BY <2>7, ClaimsAre, FS_Subset
    <3>2. \A x \in Live \ {c} : claims'[x] = claims[x]
        BY <2>2, <2>7
    <3> QED BY <3>1, <3>2, TotalSame
  <2>12. Total(claims', Live') = Total(claims', Live)
      BY <2>7, Zenon
  <2>13. Tallied'
      BY <1>1, <1>2, <2>1, <2>9, <2>10, <2>11, <2>12 DEF Tallied, SensorTypes
  <2> QED BY <2>4, <2>5, <2>13
<1> QED BY <1>8, <1>9, <1>10 DEF SensorInv

\* The row gets the count of the claim, and the claim is settled.
LEMMA RecordKeeps ==
    ASSUME SensorInv, NEW f \in Flows, NEW ok \in BOOLEAN, Sensor!RecordHeartbeat(f, ok)
    PROVE  SensorInv'
<1>1. flow[f] \in FlowRows /\ SensorTypes /\ FlowsFit /\ flow[f].at = "loaded"
    BY FlowIs DEF SensorInv, Sensor!RecordHeartbeat
<1>2. PICK to : to = [flow[f] EXCEPT !.at = "answered", !.read = 0]
    OBVIOUS
<1>3. to \in FlowRows /\ to.at = "answered" /\ to.claim = flow[f].claim /\ to.back = flow[f].back
    BY <1>1, <1>2 DEF FlowRows
<1>4. /\ flow' = [flow EXCEPT ![f] = to]
      /\ UNCHANGED <<threads, pending, claims, orphaned, failures>>
      /\ row' = IF ok /\ flow[f].claim # 0 THEN flow[f].read + claims[flow[f].claim] ELSE row
      /\ slipped' = (slipped \/ (flow[f].claim # 0 /\ (~ok \/ row # flow[f].read)))
    BY <1>1, <1>2 DEF Sensor!RecordHeartbeat, Sensor!Carries
<1>5. to.back = {} /\ slipped \in BOOLEAN
    BY <1>1, <1>3 DEF FlowsFit, SensorTypes
<1>6. /\ FlowsFit'
      /\ ClaimsApart => ClaimsApart'
      /\ CountsCarried => CountsCarried'
    BY <1>1, <1>3, <1>4, <1>5, RequestMoves
<1>7. /\ flow' \in [Flows -> FlowRows] /\ flow'[f] = to
      /\ \A g \in Flows : g # f => flow'[g] = flow[g]
    BY <1>1, <1>3, <1>4, FlowMoves
<1>8. /\ claims \in [Sensor!Claims -> Nat] /\ row \in Nat /\ flow[f].read \in Nat
      /\ flow[f].claim \in 0 .. MaxClaims
    BY <1>1, FlowIs DEF SensorTypes
<1>9. row' \in Nat
  <2>1. flow[f].claim # 0 => claims[flow[f].claim] \in Nat
      BY <1>8, ClaimsAre
  <2> QED BY <1>4, <1>8, <2>1
<1>10. SensorTypes'
    BY <1>1, <1>4, <1>5, <1>7, <1>9 DEF SensorTypes
<1>11. ASSUME ~slipped' PROVE Tallied'
  <2>1. ~slipped /\ ClaimsApart /\ Tallied
      BY <1>4, <1>11 DEF SensorInv
  <2>2. CASE flow[f].claim = 0
    <3>1. \A c \in Sensor!Claims : c \in Sensor!Settled' <=> c \in Sensor!Settled
        BY <1>1, <1>3, <1>7, <2>2, SettledAre, SettledWillBe, ClaimsAre
    <3>2. row' = row
        BY <1>4, <2>2
    <3> QED BY <1>4, <2>1, <3>1, <3>2, LiveStays
  <2>3. CASE flow[f].claim # 0
    <3>1. PICK c \in Sensor!Claims : c = flow[f].claim
        BY <1>8, <2>3, ClaimsAre
    <3>2. row' = row + claims[c]
        BY <1>4, <1>11, <2>3, <3>1
    <3>3. c \notin Sensor!Settled
      <4>1. \A g \in Flows : flow[g].at = "answered" => flow[g].claim # c
          BY <1>1, <2>1, <2>3, <3>1 DEF ClaimsApart
      <4>2. \A g \in Flows : c \notin flow[g].back
          BY <2>1, <2>3, <3>1 DEF ClaimsApart
      <4> QED BY <4>1, <4>2, SettledAre
    <3>4. \A x \in Sensor!Claims : x \in Sensor!Settled' <=> x \in Sensor!Settled \/ x = c
        BY <1>1, <1>3, <1>5, <1>7, <3>1, SettledAre, SettledWillBe
    <3>5. Live' = Live \ {c} /\ c \in Live /\ Live \in SUBSET Sensor!Claims
        BY <3>3, <3>4 DEF Live, Sensor!Claims
    <3>6. Total(claims, Live) = claims[c] + Total(claims, Live \ {c}) /\ Total(claims, Live \ {c}) \in Nat
        BY <1>8, <3>5, ClaimCounts
    <3>7. Total(claims', Live') = Total(claims, Live \ {c})
        BY <1>4, <3>5, Zenon
    <3>8. claims[c] \in Nat /\ pending \in Nat /\ failures \in Nat
        BY <1>1, <1>8 DEF SensorTypes
    <3> QED BY <1>4, <1>8, <2>1, <3>2, <3>6, <3>7, <3>8 DEF Tallied
  <2> QED BY <2>2, <2>3
<1> QED BY <1>4, <1>6, <1>10, <1>11 DEF SensorInv

\* Claims that are deleted were settled: what remains is the total of the live.
LEMMA SettledGo ==
    ASSUME claims \in [Sensor!Claims -> Nat], claims' \in [Sensor!Claims -> Nat],
           NEW gone \in SUBSET Sensor!Claims, gone \cap Live = {},
           \A x \in Sensor!Claims : claims'[x] = IF x \in gone THEN 0 ELSE claims[x],
           \A x \in Sensor!Claims : x \in Live' <=> x \in Live \/ x \in gone,
           UNCHANGED <<row, pending, failures>>, Tallied
    PROVE  Tallied'
<1>1. Live \subseteq Sensor!Claims /\ Live' = Live \cup gone
    BY DEF Live, Sensor!Claims
<1>2. IsFiniteSet(Live) /\ IsFiniteSet(gone)
    BY <1>1, ClaimsAre, FS_Subset
<1>3. Total(claims', Live \cup gone) = Total(claims', Live) + Total(claims', gone)
  <2>1. \A x \in Live \cup gone : claims'[x] \in Nat
      BY <1>1
  <2>2. Live \cap gone = {}
      OBVIOUS
  <2> QED BY <1>2, <2>1, <2>2, TotalJoins
<1>4. Total(claims', gone) = 0
    BY <1>2, TotalZero
<1>5. Total(claims', Live) = Total(claims, Live)
  <2>1. \A x \in Live : claims'[x] = claims[x]
      BY <1>1
  <2> QED BY <1>2, <2>1, TotalSame
<1>6. Total(claims', Live') = Total(claims', Live \cup gone)
    BY <1>1, Zenon
<1>7. Total(claims, Live) \in Nat
  <2>1. \A x \in Live : claims[x] \in Nat
      BY <1>1
  <2> QED BY <1>2, <2>1, TotalNat
<1> QED BY <1>3, <1>4, <1>5, <1>6, <1>7 DEF Tallied

\* An answer that arrives deletes the claim, whose count is in the row.
LEMMA DeliveredKeeps ==
    ASSUME SensorInv, NEW f \in Flows, NEW readable \in BOOLEAN, Sensor!Delivered(f, readable)
    PROVE  SensorInv'
<1>1. flow[f] \in FlowRows /\ SensorTypes /\ FlowsFit /\ flow[f].at = "answered"
    BY FlowIs DEF SensorInv, Sensor!Delivered
<1>2. PICK to : to = IF readable THEN Sensor!Resting ELSE [Sensor!Resting EXCEPT !.at = "failed"]
    OBVIOUS
<1>3. to \in FlowRows /\ to.at \in {"idle", "failed"} /\ to.claim = 0 /\ to.back = {}
    BY <1>2, ClaimsAre DEF FlowRows
<1>4. /\ flow' = [flow EXCEPT ![f] = to]
      /\ claims' = [c \in Sensor!Claims |-> IF c = flow[f].claim THEN 0 ELSE claims[c]]
      /\ orphaned' = orphaned \ {flow[f].claim}
      /\ UNCHANGED <<threads, pending, row, failures, slipped>>
    BY <1>2 DEF Sensor!Delivered
<1>5. /\ flow' \in [Flows -> FlowRows] /\ flow'[f] = to
      /\ \A g \in Flows : g # f => flow'[g] = flow[g]
    BY <1>1, <1>3, <1>4, FlowMoves
<1>6. claims \in [Sensor!Claims -> Nat] /\ claims' \in [Sensor!Claims -> Nat] /\ flow[f].back = {}
    BY <1>1, <1>4 DEF SensorTypes, FlowsFit
<1>7. SensorTypes'
    BY <1>1, <1>4, <1>5, <1>6 DEF SensorTypes, Sensor!Claims
<1>8. FlowsFit'
  <2>1. \A g \in Sensor!Counting' : g \in Sensor!Counting
      BY <1>3, <1>5 DEF Sensor!Counting, Sensor!At
  <2>2. threads' => \A g, h \in Sensor!Counting' : g = h
      BY <1>1, <1>4, <2>1 DEF FlowsFit
  <2>3. \A g \in Flows :
          /\ flow'[g].claim # 0 => flow'[g].at \in {"sent", "loaded", "answered", "failed"}
          /\ flow'[g].back # {} => flow'[g].at \in {"counted", "written"}
      BY <1>1, <1>3, <1>5 DEF FlowsFit
  <2> QED BY <2>2, <2>3 DEF FlowsFit
<1>9. ASSUME ~slipped' PROVE ClaimsApart' /\ CountsCarried' /\ Tallied'
  <2>1. ~slipped /\ ClaimsApart /\ CountsCarried /\ Tallied
      BY <1>4, <1>9 DEF SensorInv
  <2>2. \A x \in Sensor!Claims : x # flow[f].claim => claims'[x] = claims[x]
      BY <1>4
  <2>3. \A g \in Flows : flow[f].claim \notin flow[g].back
    <3> SUFFICES ASSUME NEW g \in Flows PROVE flow[f].claim \notin flow[g].back
        OBVIOUS
    <3>1. flow[f].claim # 0 => flow[f].claim \notin flow[g].back
        BY <2>1 DEF ClaimsApart
    <3>2. 0 \notin flow[g].back
        BY <1>1, FlowIs, ClaimsAre
    <3> QED BY <3>1, <3>2
  <2>4. ClaimsApart'
    <3>1. \A g \in Flows : flow'[g].claim # 0 => claims'[flow'[g].claim] > 0
      <4> SUFFICES ASSUME NEW g \in Flows, flow'[g].claim # 0 PROVE claims'[flow'[g].claim] > 0
          OBVIOUS
      <4>1. g # f /\ flow'[g].claim = flow[g].claim
          BY <1>3, <1>5
      <4>2. flow[g].claim \in Sensor!Claims /\ claims[flow[g].claim] > 0 /\ flow[g].claim # flow[f].claim
          BY <1>1, <2>1, <4>1, FlowIs, ClaimsAre DEF ClaimsApart
      <4> QED BY <2>2, <4>1, <4>2
    <3>2. \A g, h \in Flows : g # h /\ flow'[g].claim # 0 => flow'[g].claim # flow'[h].claim
        BY <1>3, <1>5, <2>1 DEF ClaimsApart
    <3>3. \A g, h \in Flows : flow'[g].claim # 0 => flow'[g].claim \notin flow'[h].back
        BY <1>3, <1>5, <2>1 DEF ClaimsApart
    <3>4. \A g \in Flows : \A x \in flow'[g].back : claims'[x] > 0
      <4> SUFFICES ASSUME NEW g \in Flows, NEW x \in flow'[g].back PROVE claims'[x] > 0
          OBVIOUS
      <4>1. x \in flow[g].back
          BY <1>3, <1>5
      <4>2. x \in Sensor!Claims /\ x # flow[f].claim /\ claims[x] > 0
          BY <1>1, <2>1, <2>3, <4>1, FlowIs DEF ClaimsApart
      <4> QED BY <2>2, <4>2
    <3>5. \A x \in orphaned' : claims'[x] > 0 /\ \A g \in Flows : flow'[g].claim # x
      <4> SUFFICES ASSUME NEW x \in orphaned'
                   PROVE claims'[x] > 0 /\ \A g \in Flows : flow'[g].claim # x
          OBVIOUS
      <4>1. x \in orphaned /\ x # flow[f].claim
          BY <1>4
      <4>2. x \in Sensor!Claims /\ x # 0 /\ claims[x] > 0 /\ \A g \in Flows : flow[g].claim # x
          BY <1>1, <2>1, <4>1, ClaimsAre DEF ClaimsApart, SensorTypes
      <4> QED BY <1>3, <1>5, <2>2, <4>1, <4>2
    <3>6. \A g, h \in Flows :
              g # h /\ flow'[h].at = "written" => flow'[g].back \cap flow'[h].back = {}
        BY <1>3, <1>5, <1>6, <2>1 DEF ClaimsApart
    <3> QED BY <3>1, <3>2, <3>3, <3>4, <3>5, <3>6 DEF ClaimsApart
  <2>5. CountsCarried'
    <3> SUFFICES ASSUME NEW g \in Flows, flow'[g].at = "counted"
                 PROVE flow'[g].read = pending + 1 + Total(claims', flow'[g].back)
        BY <1>4 DEF CountsCarried
    <3>1. g # f /\ flow'[g] = flow[g] /\ flow[g].read = pending + 1 + Total(claims, flow[g].back)
        BY <1>3, <1>5, <2>1 DEF CountsCarried
    <3>2. flow[g].back \subseteq Sensor!Claims /\ IsFiniteSet(flow[g].back)
        BY <1>1, FlowIs, ClaimsAre, FS_Subset
    <3>3. \A x \in flow[g].back : claims'[x] = claims[x]
        BY <2>2, <2>3, <3>2
    <3>4. Total(claims', flow[g].back) = Total(claims, flow[g].back)
        BY <3>2, <3>3, TotalSame
    <3>5. Total(claims', flow'[g].back) = Total(claims', flow[g].back)
        BY <3>1, Zenon
    <3> QED BY <3>1, <3>4, <3>5
  <2>6. PICK gone \in SUBSET Sensor!Claims : gone = {flow[f].claim} \cap Sensor!Claims
      OBVIOUS
  <2>7. \A x \in Sensor!Claims :
            x \in Sensor!Settled' <=> x \in Sensor!Settled /\ x \notin gone
    <3>1. \A x \in Sensor!Claims : x \in Sensor!Settled' => x \in Sensor!Settled /\ x # flow[f].claim
      <4> SUFFICES ASSUME NEW x \in Sensor!Claims, x \in Sensor!Settled'
                   PROVE x \in Sensor!Settled /\ x # flow[f].claim
          OBVIOUS
      <4>1. PICK g \in Flows : \/ flow'[g].at = "answered" /\ flow'[g].claim = x
                               \/ flow'[g].at = "written" /\ x \in flow'[g].back
          BY SettledWillBe
      <4>2. g # f /\ flow'[g] = flow[g] /\ x # 0
          BY <1>3, <1>5, <4>1, ClaimsAre
      <4>3. x # flow[f].claim
          BY <2>1, <2>3, <4>1, <4>2 DEF ClaimsApart
      <4> QED BY <4>1, <4>2, <4>3, SettledAre
    <3>2. \A x \in Sensor!Claims : x \in Sensor!Settled /\ x # flow[f].claim => x \in Sensor!Settled'
        BY <1>1, <1>5, SettledAre, SettledWillBe
    <3> QED BY <2>6, <3>1, <3>2
  <2>8. \A x \in gone : x \in Sensor!Settled
      BY <1>1, <2>6, SettledAre
  <2>9. /\ gone \cap Live = {}
        /\ \A x \in Sensor!Claims : x \in Live' <=> x \in Live \/ x \in gone
      BY <2>6, <2>7, <2>8 DEF Live, Sensor!Claims
  <2>10. \A x \in Sensor!Claims : claims'[x] = IF x \in gone THEN 0 ELSE claims[x]
      BY <1>4, <2>6
  <2>11. Tallied'
      BY <1>4, <1>6, <2>1, <2>9, <2>10, SettledGo
  <2> QED BY <2>4, <2>5, <2>11
<1> QED BY <1>7, <1>8, <1>9 DEF SensorInv

\* The orphans and the flow's own claim are read with the file.
LEMMA ReadKeeps ==
    ASSUME SensorInv, NEW f \in Flows, Sensor!ReadTally(f)
    PROVE  SensorInv'
<1>1. flow[f] \in FlowRows /\ SensorTypes /\ FlowsFit /\ flow[f].at = "failed"
    BY FlowIs DEF SensorInv, Sensor!ReadTally
<1>2. PICK back : back = Sensor!Orphans(f) \cup ({flow[f].claim} \ {0})
    OBVIOUS
<1>3. \A c : c \in back <=> \/ c \in orphaned /\ claims[c] > 0 /\ c # flow[f].claim
                            \/ c = flow[f].claim /\ c # 0
    BY <1>2 DEF Sensor!Orphans
<1>4. PICK to : to = [at |-> "counted", claim |-> 0, back |-> back,
                      read |-> pending + 1 + Total(claims, back)]
    OBVIOUS
<1>5. /\ flow' = [flow EXCEPT ![f] = to] /\ (threads => Sensor!Counting = {})
      /\ UNCHANGED <<threads, pending, claims, orphaned, row, failures>>
      /\ slipped' = (slipped \/ \E g \in Sensor!At("written") : flow[g].back \cap back # {})
    BY <1>2, <1>4, FoldIs DEF Sensor!ReadTally
<1>6. claims \in [Sensor!Claims -> Nat] /\ back \subseteq Sensor!Claims /\ pending \in Nat
  <2>1. flow[f].claim # 0 => flow[f].claim \in Sensor!Claims
      BY <1>1, FlowIs, ClaimsAre
  <2>2. orphaned \subseteq Sensor!Claims
      BY <1>1 DEF SensorTypes
  <2> QED BY <1>1, <1>3, <2>1, <2>2 DEF SensorTypes
<1>7. Total(claims, back) \in Nat
  <2>1. IsFiniteSet(back)
      BY <1>6, ClaimsAre, FS_Subset
  <2>2. \A x \in back : claims[x] \in Nat
      BY <1>6
  <2> QED BY <2>1, <2>2, TotalNat
<1>8. /\ to \in FlowRows /\ to.at = "counted" /\ to.claim = 0 /\ to.back = back
      /\ to.read = pending + 1 + Total(claims, back)
    BY <1>4, <1>6, <1>7, ClaimsAre DEF FlowRows
<1>9. /\ flow' \in [Flows -> FlowRows] /\ flow'[f] = to
      /\ \A g \in Flows : g # f => flow'[g] = flow[g]
    BY <1>1, <1>5, <1>8, FlowMoves
<1>10. SensorTypes'
    BY <1>1, <1>5, <1>9 DEF SensorTypes
<1>11. FlowsFit'
  <2>1. \A g \in Flows :
          /\ flow'[g].claim # 0 => flow'[g].at \in {"sent", "loaded", "answered", "failed"}
          /\ flow'[g].back # {} => flow'[g].at \in {"counted", "written"}
      BY <1>1, <1>8, <1>9 DEF FlowsFit
  <2>2. threads' => \A g \in Sensor!Counting' : g = f
      BY <1>5, <1>9 DEF Sensor!Counting, Sensor!At
  <2> QED BY <2>1, <2>2 DEF FlowsFit
<1>12. ASSUME ~slipped' PROVE ClaimsApart' /\ CountsCarried' /\ Tallied'
  <2>1. /\ ~slipped /\ ClaimsApart /\ CountsCarried /\ Tallied
        /\ \A g \in Flows : flow[g].at = "written" => flow[g].back \cap back = {}
      BY <1>5, <1>12 DEF SensorInv, Sensor!At
  <2>2. ClaimsApart'
    <3>1. \A g \in Flows : flow'[g].claim # 0 => claims'[flow'[g].claim] > 0
        BY <1>5, <1>8, <1>9, <2>1 DEF ClaimsApart
    <3>2. \A g, h \in Flows : g # h /\ flow'[g].claim # 0 => flow'[g].claim # flow'[h].claim
        BY <1>8, <1>9, <2>1 DEF ClaimsApart
    <3>3. \A g, h \in Flows : flow'[g].claim # 0 => flow'[g].claim \notin flow'[h].back
      <4> SUFFICES ASSUME NEW g \in Flows, NEW h \in Flows, flow'[g].claim # 0
                   PROVE flow'[g].claim \notin flow'[h].back
          OBVIOUS
      <4>1. g # f /\ flow'[g] = flow[g]
          BY <1>8, <1>9
      <4>2. CASE h = f
        <5>1. flow[g].claim \notin orphaned /\ flow[g].claim # flow[f].claim
            BY <2>1, <4>1 DEF ClaimsApart
        <5> QED BY <1>3, <1>8, <1>9, <4>1, <4>2, <5>1
      <4>3. CASE h # f
          BY <1>9, <2>1, <4>1, <4>3 DEF ClaimsApart
      <4> QED BY <4>2, <4>3
    <3>4. \A g \in Flows : \A x \in flow'[g].back : claims'[x] > 0
      <4>1. \A x \in back : claims[x] > 0
          BY <1>3, <2>1 DEF ClaimsApart
      <4> QED BY <1>5, <1>8, <1>9, <2>1, <4>1 DEF ClaimsApart
    <3>5. \A x \in orphaned' : claims'[x] > 0 /\ \A g \in Flows : flow'[g].claim # x
      <4>1. 0 \notin orphaned
          BY <1>1, ClaimsAre DEF SensorTypes
      <4> QED BY <1>5, <1>8, <1>9, <2>1, <4>1 DEF ClaimsApart
    <3>6. \A g, h \in Flows :
              g # h /\ flow'[h].at = "written" => flow'[g].back \cap flow'[h].back = {}
        BY <1>8, <1>9, <2>1 DEF ClaimsApart
    <3> QED BY <3>1, <3>2, <3>3, <3>4, <3>5, <3>6 DEF ClaimsApart
  <2>3. CountsCarried'
    <3> SUFFICES ASSUME NEW g \in Flows, flow'[g].at = "counted"
                 PROVE flow'[g].read = pending + 1 + Total(claims, flow'[g].back)
        BY <1>5 DEF CountsCarried
    <3>1. CASE g = f
      <4>1. flow'[g] = to
          BY <1>9, <3>1
      <4>2. Total(claims, flow'[g].back) = Total(claims, back)
          BY <1>8, <4>1, Zenon
      <4> QED BY <1>8, <4>1, <4>2
    <3>2. CASE g # f
      <4>1. flow'[g] = flow[g]
          BY <1>9, <3>2
      <4> QED BY <2>1, <4>1 DEF CountsCarried
    <3> QED BY <3>1, <3>2
  <2>4. \A x \in Sensor!Claims : x \in Sensor!Settled' <=> x \in Sensor!Settled
      BY <1>1, <1>8, <1>9, SettledAre, SettledWillBe
  <2>5. Tallied'
      BY <1>5, <2>1, <2>4, LiveStays
  <2> QED BY <2>2, <2>3, <2>5
<1> QED BY <1>10, <1>11, <1>12 DEF SensorInv

\* The sum is in the file: the claims that were folded back are settled.
LEMMA TallyKeeps ==
    ASSUME SensorInv, NEW f \in Flows, Sensor!WriteTally(f)
    PROVE  SensorInv'
<1>1. flow[f] \in FlowRows /\ SensorTypes /\ FlowsFit /\ flow[f].at = "counted"
    BY FlowIs DEF SensorInv, Sensor!WriteTally
<1>2. PICK to : to = [flow[f] EXCEPT !.at = "written", !.read = 0]
    OBVIOUS
<1>3. to \in FlowRows /\ to.at = "written" /\ to.claim = flow[f].claim /\ to.back = flow[f].back
    BY <1>1, <1>2 DEF FlowRows
<1>4. /\ flow' = [flow EXCEPT ![f] = to] /\ pending' = flow[f].read /\ failures' = failures + 1
      /\ UNCHANGED <<threads, claims, orphaned, row>>
      /\ slipped' = (slipped \/ (~threads /\ Sensor!At("counted") # {f}))
    BY <1>1, <1>2 DEF Sensor!WriteTally
<1>5. /\ flow' \in [Flows -> FlowRows] /\ flow'[f] = to
      /\ \A g \in Flows : g # f => flow'[g] = flow[g]
    BY <1>1, <1>3, <1>4, FlowMoves
<1>6. /\ claims \in [Sensor!Claims -> Nat] /\ pending \in Nat /\ row \in Nat /\ failures \in Nat
      /\ flow[f].read \in Nat /\ slipped \in BOOLEAN /\ threads \in BOOLEAN
      /\ flow[f].claim = 0 /\ flow[f].back \subseteq Sensor!Claims
    BY <1>1, FlowIs DEF SensorTypes, FlowsFit
<1>7. SensorTypes'
    BY <1>1, <1>4, <1>5, <1>6 DEF SensorTypes
<1>8. FlowsFit'
  <2>1. \A g \in Sensor!Counting' : g \in Sensor!Counting
      BY <1>1, <1>5 DEF Sensor!Counting, Sensor!At
  <2>2. threads' => \A g, h \in Sensor!Counting' : g = h
      BY <1>1, <1>4, <2>1 DEF FlowsFit
  <2>3. \A g \in Flows :
          /\ flow'[g].claim # 0 => flow'[g].at \in {"sent", "loaded", "answered", "failed"}
          /\ flow'[g].back # {} => flow'[g].at \in {"counted", "written"}
      BY <1>1, <1>3, <1>5, <1>6 DEF FlowsFit
  <2> QED BY <2>2, <2>3 DEF FlowsFit
<1>9. ASSUME ~slipped' PROVE ClaimsApart' /\ CountsCarried' /\ Tallied'
  <2>1. ~slipped /\ ClaimsApart /\ CountsCarried /\ Tallied
      BY <1>4, <1>9 DEF SensorInv
  <2>2. \A g \in Flows : g # f => flow[g].at # "counted"
    <3>1. CASE threads
        BY <1>1, <3>1 DEF FlowsFit, Sensor!Counting, Sensor!At
    <3>2. CASE ~threads
      <4>1. Sensor!At("counted") = {f}
          BY <1>4, <1>9, <3>2
      <4> QED BY <4>1 DEF Sensor!At
    <3> QED BY <1>6, <3>1, <3>2
  <2>3. \A g \in Flows : g # f => flow[g].back \cap flow[f].back = {}
    <3> SUFFICES ASSUME NEW g \in Flows, g # f, flow[g].back # {}
                 PROVE flow[g].back \cap flow[f].back = {}
        OBVIOUS
    <3>1. flow[g].at = "written"
        BY <1>1, <2>2 DEF FlowsFit
    <3>2. flow[f].back \cap flow[g].back = {}
        BY <2>1, <3>1 DEF ClaimsApart
    <3> QED BY <3>2
  <2>4. ClaimsApart'
    <3>1. \A g \in Flows : flow'[g].claim = flow[g].claim /\ flow'[g].back = flow[g].back
        BY <1>3, <1>5
    <3>2. \A g, h \in Flows :
              g # h /\ flow'[h].at = "written" => flow'[g].back \cap flow'[h].back = {}
      <4> SUFFICES ASSUME NEW g \in Flows, NEW h \in Flows, g # h, flow'[h].at = "written"
                   PROVE flow[g].back \cap flow[h].back = {}
          BY <3>1
      <4>1. CASE h = f
          BY <2>3, <4>1
      <4>2. CASE h # f
        <5>1. flow[h].at = "written"
            BY <1>5, <4>2
        <5> QED BY <2>1, <5>1 DEF ClaimsApart
      <4> QED BY <4>1, <4>2
    <3> QED BY <1>4, <2>1, <3>1, <3>2 DEF ClaimsApart
  <2>5. CountsCarried'
      BY <1>3, <1>5, <2>2 DEF CountsCarried
  <2>6. \A x \in flow[f].back : x \notin Sensor!Settled
      BY <1>1, <1>6, <2>1, <2>3, ClaimsAre, SettledAre DEF ClaimsApart
  <2>7. \A x \in Sensor!Claims :
            x \in Sensor!Settled' <=> x \in Sensor!Settled \/ x \in flow[f].back
      BY <1>1, <1>3, <1>5, SettledAre, SettledWillBe
  <2>8. Live' = Live \ flow[f].back /\ flow[f].back \subseteq Live /\ Live \subseteq Sensor!Claims
      BY <1>6, <2>6, <2>7 DEF Live, Sensor!Claims
  <2>9. PICK left : left = Live \ flow[f].back
      OBVIOUS
  <2>10. /\ IsFiniteSet(left) /\ IsFiniteSet(flow[f].back) /\ left \cap flow[f].back = {}
         /\ \A x \in left \cup flow[f].back : claims[x] \in Nat
    <3>1. left \subseteq Sensor!Claims
        BY <2>8, <2>9
    <3>2. \A x \in left \cup flow[f].back : claims[x] \in Nat
        BY <1>6, <3>1
    <3> QED BY <1>6, <2>9, <3>1, <3>2, ClaimsAre, FS_Subset
  <2>11. Total(claims, left \cup flow[f].back) = Total(claims, left) + Total(claims, flow[f].back)
      BY <2>10, TotalJoins
  <2>12. Total(claims, Live) = Total(claims, left \cup flow[f].back)
    <3>1. Live = left \cup flow[f].back
        BY <2>8, <2>9
    <3> QED BY <3>1, Zenon
  <2>13. Total(claims', Live') = Total(claims, left)
      BY <1>4, <2>8, <2>9, Zenon
  <2>14. Total(claims, left) \in Nat /\ Total(claims, flow[f].back) \in Nat
      BY <2>10, TotalNat
  <2>15. flow[f].read = pending + 1 + Total(claims, flow[f].back)
      BY <1>1, <2>1 DEF CountsCarried
  <2>16. Tallied'
      BY <1>4, <1>6, <2>1, <2>11, <2>12, <2>13, <2>14, <2>15 DEF Tallied
  <2> QED BY <2>4, <2>5, <2>16
<1> QED BY <1>7, <1>8, <1>9 DEF SensorInv

\* The claims that were folded back are deleted.
LEMMA UnlinkKeeps ==
    ASSUME SensorInv, NEW f \in Flows, Sensor!UnlinkClaims(f)
    PROVE  SensorInv'
<1>1. flow[f] \in FlowRows /\ SensorTypes /\ FlowsFit /\ flow[f].at = "written"
    BY FlowIs DEF SensorInv, Sensor!UnlinkClaims
<1>2. PICK gone \in SUBSET Sensor!Claims : gone = flow[f].back
    BY <1>1, FlowIs
<1>3. PICK to \in FlowRows : to = Sensor!Resting /\ to.at = "idle" /\ to.claim = 0 /\ to.back = {}
    BY ClaimsAre
<1>4. /\ flow' = [flow EXCEPT ![f] = to]
      /\ claims' = [c \in Sensor!Claims |-> IF c \in gone THEN 0 ELSE claims[c]]
      /\ orphaned' = orphaned \ gone
      /\ UNCHANGED <<threads, pending, row, failures, slipped>>
    BY <1>2, <1>3 DEF Sensor!UnlinkClaims
<1>5. /\ flow' \in [Flows -> FlowRows] /\ flow'[f] = to
      /\ \A g \in Flows : g # f => flow'[g] = flow[g]
    BY <1>1, <1>4, FlowMoves
<1>6. claims \in [Sensor!Claims -> Nat] /\ claims' \in [Sensor!Claims -> Nat]
    BY <1>1, <1>4 DEF SensorTypes
<1>7. SensorTypes'
    BY <1>1, <1>4, <1>5, <1>6 DEF SensorTypes, Sensor!Claims
<1>8. FlowsFit'
  <2>1. \A g \in Sensor!Counting' : g \in Sensor!Counting
      BY <1>3, <1>5 DEF Sensor!Counting, Sensor!At
  <2>2. threads' => \A g, h \in Sensor!Counting' : g = h
      BY <1>1, <1>4, <2>1 DEF FlowsFit
  <2>3. \A g \in Flows :
          /\ flow'[g].claim # 0 => flow'[g].at \in {"sent", "loaded", "answered", "failed"}
          /\ flow'[g].back # {} => flow'[g].at \in {"counted", "written"}
      BY <1>1, <1>3, <1>5 DEF FlowsFit
  <2> QED BY <2>2, <2>3 DEF FlowsFit
<1>9. ASSUME ~slipped' PROVE ClaimsApart' /\ CountsCarried' /\ Tallied'
  <2>1. ~slipped /\ ClaimsApart /\ CountsCarried /\ Tallied
      BY <1>4, <1>9 DEF SensorInv
  <2>2. \A x \in Sensor!Claims : claims'[x] = IF x \in gone THEN 0 ELSE claims[x]
      BY <1>4
  <2>3. \A g \in Flows : g # f => flow[g].back \cap gone = {} /\ (flow[g].claim # 0 => flow[g].claim \notin gone)
    <3> SUFFICES ASSUME NEW g \in Flows, g # f
                 PROVE flow[g].back \cap gone = {} /\ (flow[g].claim # 0 => flow[g].claim \notin gone)
        OBVIOUS
    <3>1. flow[g].back \cap flow[f].back = {}
        BY <1>1, <2>1 DEF ClaimsApart
    <3>2. flow[g].claim # 0 => flow[g].claim \notin flow[f].back
        BY <2>1 DEF ClaimsApart
    <3> QED BY <1>2, <3>1, <3>2
  <2>4. ClaimsApart'
    <3>1. \A g \in Flows : flow'[g].claim # 0 => claims'[flow'[g].claim] > 0
      <4> SUFFICES ASSUME NEW g \in Flows, flow'[g].claim # 0 PROVE claims'[flow'[g].claim] > 0
          OBVIOUS
      <4>1. g # f /\ flow'[g].claim = flow[g].claim
          BY <1>3, <1>5
      <4>2. flow[g].claim \in Sensor!Claims /\ claims[flow[g].claim] > 0 /\ flow[g].claim \notin gone
          BY <1>1, <2>1, <2>3, <4>1, FlowIs, ClaimsAre DEF ClaimsApart
      <4> QED BY <2>2, <4>1, <4>2
    <3>2. \A g, h \in Flows : g # h /\ flow'[g].claim # 0 => flow'[g].claim # flow'[h].claim
        BY <1>3, <1>5, <2>1 DEF ClaimsApart
    <3>3. \A g, h \in Flows : flow'[g].claim # 0 => flow'[g].claim \notin flow'[h].back
        BY <1>3, <1>5, <2>1 DEF ClaimsApart
    <3>4. \A g \in Flows : \A x \in flow'[g].back : claims'[x] > 0
      <4> SUFFICES ASSUME NEW g \in Flows, NEW x \in flow'[g].back PROVE claims'[x] > 0
          OBVIOUS
      <4>1. g # f /\ x \in flow[g].back
          BY <1>3, <1>5
      <4>2. x \in Sensor!Claims /\ x \notin gone /\ claims[x] > 0
          BY <1>1, <2>1, <2>3, <4>1, FlowIs DEF ClaimsApart
      <4> QED BY <2>2, <4>2
    <3>5. \A x \in orphaned' : claims'[x] > 0 /\ \A g \in Flows : flow'[g].claim # x
      <4> SUFFICES ASSUME NEW x \in orphaned'
                   PROVE claims'[x] > 0 /\ \A g \in Flows : flow'[g].claim # x
          OBVIOUS
      <4>1. x \in orphaned /\ x \notin gone
          BY <1>4
      <4>2. x \in Sensor!Claims /\ x # 0 /\ claims[x] > 0 /\ \A g \in Flows : flow[g].claim # x
          BY <1>1, <2>1, <4>1, ClaimsAre DEF ClaimsApart, SensorTypes
      <4> QED BY <1>3, <1>5, <2>2, <4>1, <4>2
    <3>6. \A g, h \in Flows :
              g # h /\ flow'[h].at = "written" => flow'[g].back \cap flow'[h].back = {}
        BY <1>3, <1>5, <2>1 DEF ClaimsApart
    <3> QED BY <3>1, <3>2, <3>3, <3>4, <3>5, <3>6 DEF ClaimsApart
  <2>5. CountsCarried'
    <3> SUFFICES ASSUME NEW g \in Flows, flow'[g].at = "counted"
                 PROVE flow'[g].read = pending + 1 + Total(claims', flow'[g].back)
        BY <1>4 DEF CountsCarried
    <3>1. g # f /\ flow'[g] = flow[g] /\ flow[g].read = pending + 1 + Total(claims, flow[g].back)
        BY <1>3, <1>5, <2>1 DEF CountsCarried
    <3>2. flow[g].back \subseteq Sensor!Claims /\ IsFiniteSet(flow[g].back)
        BY <1>1, FlowIs, ClaimsAre, FS_Subset
    <3>3. \A x \in flow[g].back : claims'[x] = claims[x]
        BY <2>2, <2>3, <3>1, <3>2
    <3>4. Total(claims', flow[g].back) = Total(claims, flow[g].back)
        BY <3>2, <3>3, TotalSame
    <3>5. Total(claims', flow'[g].back) = Total(claims', flow[g].back)
        BY <3>1, Zenon
    <3> QED BY <3>1, <3>4, <3>5
  <2>6. \A x \in Sensor!Claims :
            x \in Sensor!Settled' <=> x \in Sensor!Settled /\ x \notin gone
    <3>1. \A x \in Sensor!Claims : x \in Sensor!Settled' => x \in Sensor!Settled /\ x \notin gone
      <4> SUFFICES ASSUME NEW x \in Sensor!Claims, x \in Sensor!Settled'
                   PROVE x \in Sensor!Settled /\ x \notin gone
          OBVIOUS
      <4>1. PICK g \in Flows : \/ flow'[g].at = "answered" /\ flow'[g].claim = x
                               \/ flow'[g].at = "written" /\ x \in flow'[g].back
          BY SettledWillBe
      <4>2. g # f /\ flow'[g] = flow[g] /\ x # 0
          BY <1>3, <1>5, <4>1, ClaimsAre
      <4>3. x \notin gone
          BY <2>3, <4>1, <4>2
      <4> QED BY <4>1, <4>2, <4>3, SettledAre
    <3>2. \A x \in Sensor!Claims : x \in Sensor!Settled /\ x \notin gone => x \in Sensor!Settled'
        BY <1>1, <1>2, <1>5, SettledAre, SettledWillBe
    <3> QED BY <3>1, <3>2
  <2>7. \A x \in gone : x \in Sensor!Settled
      BY <1>1, <1>2, SettledAre
  <2>8. /\ gone \cap Live = {}
        /\ \A x \in Sensor!Claims : x \in Live' <=> x \in Live \/ x \in gone
      BY <2>6, <2>7 DEF Live, Sensor!Claims
  <2>9. Tallied'
      BY <1>4, <1>6, <2>1, <2>2, <2>8, SettledGo
  <2> QED BY <2>4, <2>5, <2>9
<1> QED BY <1>7, <1>8, <1>9 DEF SensorInv

\* A claim that nobody holds comes of age.
LEMMA StaleKeeps ==
    ASSUME SensorInv, NEW c \in Sensor!Claims, Sensor!GrowStale(c)
    PROVE  SensorInv'
<1>1. /\ claims[c] > 0 /\ orphaned' = orphaned \cup {c}
      /\ \A f \in Flows : flow[f].claim # c
      /\ UNCHANGED <<threads, pending, claims, flow, row, failures, slipped>>
    BY DEF Sensor!GrowStale
<1>2. SensorTypes'
    BY <1>1 DEF SensorInv, SensorTypes, Sensor!Claims
<1>3. FlowsFit'
    BY <1>1 DEF SensorInv, FlowsFit, Sensor!Counting, Sensor!At
<1>4. ASSUME ~slipped' PROVE ClaimsApart' /\ CountsCarried' /\ Tallied'
  <2>1. ClaimsApart /\ CountsCarried /\ Tallied
      BY <1>1, <1>4 DEF SensorInv
  <2>2. ClaimsApart' /\ CountsCarried'
      BY <1>1, <2>1 DEF ClaimsApart, CountsCarried
  <2>3. \A x \in Sensor!Claims : x \in Sensor!Settled' <=> x \in Sensor!Settled
      BY <1>1, SettledAre, SettledWillBe
  <2>4. Tallied'
      BY <1>1, <2>1, <2>3, LiveStays
  <2> QED BY <2>2, <2>4
<1> QED BY <1>2, <1>3, <1>4 DEF SensorInv

\* A killed process leaves its claims behind.
LEMMA DieKeeps ==
    ASSUME SensorInv, NEW f \in Flows, Sensor!Die(f)
    PROVE  SensorInv'
<1>1. PICK dying \in SUBSET Flows :
          /\ flow' = [g \in Flows |-> IF g \in dying THEN Sensor!Resting ELSE flow[g]]
          /\ slipped' = (slipped \/ (\E g \in dying \cap Sensor!At("answered") : Sensor!Carries(g))
                                 \/ (\E g \in dying \cap Sensor!At("written") : flow[g].back # {}))
          /\ UNCHANGED <<threads, pending, claims, orphaned, row, failures>>
    BY DEF Sensor!Die
<1>2. SensorTypes /\ FlowsFit
    BY DEF SensorInv
<1>3. PICK to \in FlowRows : to = Sensor!Resting /\ to.at = "idle" /\ to.claim = 0 /\ to.back = {}
    BY ClaimsAre
<1>4. /\ \A g \in dying : flow'[g] = to
      /\ \A g \in Flows : g \notin dying => flow'[g] = flow[g]
      /\ flow' \in [Flows -> FlowRows]
    BY <1>1, <1>2, <1>3 DEF SensorTypes
<1>5. SensorTypes'
    BY <1>1, <1>2, <1>4 DEF SensorTypes
<1>6. FlowsFit'
  <2>1. \A g \in Sensor!Counting' : g \in Sensor!Counting
      BY <1>3, <1>4 DEF Sensor!Counting, Sensor!At
  <2>2. threads' => \A g, h \in Sensor!Counting' : g = h
      BY <1>1, <1>2, <2>1 DEF FlowsFit
  <2>3. \A g \in Flows :
          /\ flow'[g].claim # 0 => flow'[g].at \in {"sent", "loaded", "answered", "failed"}
          /\ flow'[g].back # {} => flow'[g].at \in {"counted", "written"}
      BY <1>2, <1>3, <1>4 DEF FlowsFit
  <2> QED BY <2>2, <2>3 DEF FlowsFit
<1>7. ASSUME ~slipped' PROVE ClaimsApart' /\ CountsCarried' /\ Tallied'
  <2>1. /\ ~slipped /\ ClaimsApart /\ CountsCarried /\ Tallied
        /\ \A g \in dying : flow[g].at = "answered" => flow[g].claim = 0
        /\ \A g \in dying : flow[g].at = "written" => flow[g].back = {}
      BY <1>1, <1>7 DEF SensorInv, Sensor!At, Sensor!Carries
  <2>2. ClaimsApart'
    <3>1. \A g \in Flows : /\ flow'[g].claim # 0 => flow'[g].claim = flow[g].claim
                           /\ \A x \in flow'[g].back : x \in flow[g].back
                           /\ flow'[g].at = "written" => flow[g].at = "written"
        BY <1>3, <1>4
    <3>2. 0 \notin orphaned
        BY <1>2, ClaimsAre DEF SensorTypes
    <3>3. \A g, h \in Flows : g # h /\ flow'[g].claim # 0 => flow'[g].claim # flow'[h].claim
        BY <2>1, <3>1 DEF ClaimsApart
    <3>4. \A x \in orphaned' : claims'[x] > 0 /\ \A g \in Flows : flow'[g].claim # x
        BY <1>1, <2>1, <3>1, <3>2 DEF ClaimsApart
    <3>5. \A g, h \in Flows :
              g # h /\ flow'[h].at = "written" => flow'[g].back \cap flow'[h].back = {}
        BY <2>1, <3>1 DEF ClaimsApart
    <3> QED BY <1>1, <2>1, <3>1, <3>3, <3>4, <3>5 DEF ClaimsApart
  <2>3. CountsCarried'
    <3>1. \A g \in Flows : flow'[g].at = "counted" => flow'[g] = flow[g]
        BY <1>3, <1>4
    <3> QED BY <1>1, <2>1, <3>1 DEF CountsCarried
  <2>4. \A x \in Sensor!Claims : x \in Sensor!Settled' <=> x \in Sensor!Settled
    <3> SUFFICES ASSUME NEW x \in Sensor!Claims
                 PROVE x \in Sensor!Settled' <=> x \in Sensor!Settled
        OBVIOUS
    <3>1. x # 0
        BY ClaimsAre
    <3> QED BY <1>3, <1>4, <2>1, <3>1, SettledAre, SettledWillBe
  <2>5. Tallied'
      BY <1>1, <2>1, <2>4, LiveStays
  <2> QED BY <2>2, <2>3, <2>5
<1> QED BY <1>5, <1>6, <1>7 DEF SensorInv

\* Nothing was counted at first, and the row is empty.
LEMMA SensorInit == ASSUME Sensor!Init PROVE SensorInv
<1>1. /\ threads \in BOOLEAN /\ pending = 0 /\ claims = [c \in Sensor!Claims |-> 0] /\ orphaned = {}
      /\ flow = [f \in Flows |-> Sensor!Resting] /\ row = 0 /\ failures = 0 /\ slipped = FALSE
    BY DEF Sensor!Init
<1>2. \A f \in Flows : /\ flow[f] \in FlowRows /\ flow[f].at = "idle"
                       /\ flow[f].claim = 0 /\ flow[f].back = {}
    BY <1>1, ClaimsAre
<1>3. SensorTypes
    BY <1>1, ClaimsAre DEF SensorTypes
<1>4. FlowsFit
    BY <1>2 DEF FlowsFit, Sensor!Counting, Sensor!At
<1>5. ClaimsApart /\ CountsCarried
    BY <1>1, <1>2 DEF ClaimsApart, CountsCarried
<1>6. Tallied
  <2>1. Live \subseteq Sensor!Claims /\ IsFiniteSet(Live)
      BY ClaimsAre, FS_Subset DEF Live
  <2>2. \A x \in Live : claims[x] = 0
      BY <1>1, <2>1
  <2>3. Total(claims, Live) = 0
      BY <2>1, <2>2, TotalZero
  <2> QED BY <1>1, <2>3 DEF Tallied
<1> QED BY <1>3, <1>4, <1>5, <1>6 DEF SensorInv

\* Every step of the sensor keeps what is true of its counts.
LEMMA SensorKept == ASSUME SensorInv, Sensor!Next PROVE SensorInv'
<1>1. CASE \E f \in Flows :
          \/ Sensor!SkipScan(f) \/ Sensor!ClaimScanFailures(f)
          \/ Sensor!AnswerOverBudget(f) \/ Sensor!LoadHeartbeat(f)
          \/ \E ok \in BOOLEAN : Sensor!RecordHeartbeat(f, ok)
          \/ \E readable \in BOOLEAN : Sensor!Delivered(f, readable)
          \/ Sensor!RequestFails(f) \/ Sensor!ReadTally(f) \/ Sensor!WriteTally(f)
          \/ Sensor!UnlinkClaims(f) \/ Sensor!Die(f)
  <2>1. PICK f \in Flows :
          \/ Sensor!SkipScan(f) \/ Sensor!ClaimScanFailures(f)
          \/ Sensor!AnswerOverBudget(f) \/ Sensor!LoadHeartbeat(f)
          \/ \E ok \in BOOLEAN : Sensor!RecordHeartbeat(f, ok)
          \/ \E readable \in BOOLEAN : Sensor!Delivered(f, readable)
          \/ Sensor!RequestFails(f) \/ Sensor!ReadTally(f) \/ Sensor!WriteTally(f)
          \/ Sensor!UnlinkClaims(f) \/ Sensor!Die(f)
      BY <1>1
  <2>2. CASE \/ Sensor!SkipScan(f) \/ Sensor!AnswerOverBudget(f)
             \/ Sensor!LoadHeartbeat(f) \/ Sensor!RequestFails(f)
      BY <2>2, RequestsKeep
  <2>3. CASE Sensor!ClaimScanFailures(f)
      BY <2>3, RequestsKeep, TakeKeeps
  <2>4. CASE \E ok \in BOOLEAN : Sensor!RecordHeartbeat(f, ok)
      BY <2>4, RecordKeeps
  <2>5. CASE \E readable \in BOOLEAN : Sensor!Delivered(f, readable)
      BY <2>5, DeliveredKeeps
  <2>6. CASE Sensor!ReadTally(f) \/ Sensor!WriteTally(f)
      BY <2>6, ReadKeeps, TallyKeeps
  <2>7. CASE Sensor!UnlinkClaims(f) \/ Sensor!Die(f)
      BY <2>7, UnlinkKeeps, DieKeeps
  <2> QED BY <2>1, <2>2, <2>3, <2>4, <2>5, <2>6, <2>7
<1>2. CASE \E c \in Sensor!Claims : Sensor!GrowStale(c)
    BY <1>2, StaleKeeps
<1> QED BY <1>1, <1>2 DEF Sensor!Next

\* A step that touches none of it keeps it.
LEMMA SensorStays == ASSUME SensorInv, UNCHANGED Sensor!failureVars PROVE SensorInv'
<1>1. UNCHANGED <<threads, pending, claims, orphaned, flow, row, failures, slipped>>
    BY DEF Sensor!failureVars
<1>2. SensorTypes' /\ FlowsFit'
    BY <1>1 DEF SensorInv, SensorTypes, FlowsFit, Sensor!Counting, Sensor!At, Sensor!Claims
<1>3. ASSUME ~slipped' PROVE ClaimsApart' /\ CountsCarried' /\ Tallied'
  <2>1. ClaimsApart /\ CountsCarried /\ Tallied
      BY <1>1, <1>3 DEF SensorInv
  <2>2. ClaimsApart' /\ CountsCarried'
      BY <1>1, <2>1 DEF ClaimsApart, CountsCarried
  <2>3. \A x \in Sensor!Claims : x \in Sensor!Settled' <=> x \in Sensor!Settled
      BY <1>1, SettledAre, SettledWillBe
  <2>4. Tallied'
      BY <1>1, <2>1, <2>3, LiveStays
  <2> QED BY <2>2, <2>4
<1> QED BY <1>2, <1>3 DEF SensorInv

\* What is true of the counts tells that the failures are tallied.
LEMMA SensorHolds == ASSUME SensorInv PROVE Sensor!FailuresTallied
<1>1. Sensor!FoldFunctionOnSet(+, 0, claims, Live) = Total(claims, Live)
    BY FoldIs
<1>2. ~slipped => row + pending + Sensor!FoldFunctionOnSet(+, 0, claims, Live) = failures
    BY <1>1 DEF SensorInv, Tallied
<1> QED BY <1>2 DEF Sensor!FailuresTallied, Live

-----------------------------------------------------------------------------
(* Counts together.                                                        *)

\* What the counts rely on, by the part that a behaviour is of.
CountsInv ==
    /\ part = "archive" => ArchiveInv
    /\ part = "failures" => SensorInv

\* A step is of the part that its behaviour is of, or changes nothing.
LEMMA CountSteps ==
    ASSUME [Next]_vars
    PROVE  /\ part' = part
           /\ part = "archive" => [Archive!Next]_(Archive!archiveVars)
           /\ part = "failures" => [Sensor!Next]_(Sensor!failureVars)
<1>1. CASE UNCHANGED vars
    BY <1>1 DEF vars, deliveryVars, contentVars, archiveVars, failureVars,
                Archive!archiveVars, Sensor!failureVars
<1>2. CASE Next
    BY <1>2 DEF Next
<1> QED BY <1>1, <1>2

\* What each count relies on holds in every reachable state.
THEOREM CountsInvariant == Spec => []CountsInv
<1>1. Init => CountsInv
  <2> SUFFICES ASSUME Init PROVE CountsInv
      OBVIOUS
  <2>1. part = "archive" => Archive!Init
      BY DEF Init
  <2>2. part = "failures" => Sensor!Init
      BY DEF Init
  <2> QED BY <2>1, <2>2, ArchiveInit, SensorInit DEF CountsInv
<1>2. CountsInv /\ [Next]_vars => CountsInv'
  <2> SUFFICES ASSUME CountsInv, [Next]_vars PROVE CountsInv'
      OBVIOUS
  <2>1. part' = part
      BY CountSteps
  <2>2. CASE part = "archive"
    <3>1. ArchiveInv /\ [Archive!Next]_(Archive!archiveVars)
        BY <2>2, CountSteps DEF CountsInv
    <3>2. ArchiveInv'
        BY <3>1, ArchiveKept, ArchiveStays
    <3> QED BY <2>1, <2>2, <3>2 DEF CountsInv
  <2>3. CASE part = "failures"
    <3>1. SensorInv /\ [Sensor!Next]_(Sensor!failureVars)
        BY <2>3, CountSteps DEF CountsInv
    <3>2. SensorInv'
        BY <3>1, SensorKept, SensorStays
    <3> QED BY <2>1, <2>3, <3>2 DEF CountsInv
  <2> QED BY <2>1, <2>2, <2>3 DEF CountsInv
<1> QED BY <1>1, <1>2, PTL DEF Spec

(***************************************************************************)
(* For any events, organizations, budgets, slots, flows, claims and        *)
(* failures: an event that archive() is done with is in one place, every   *)
(* slot of the pool is free or taken by one job, a shutdown loses nothing  *)
(* but what came around flush_all, the day's budget holds, and every       *)
(* failed scan is counted once; but for what the histories excuse.         *)
(***************************************************************************)
THEOREM CountsCorrect == Spec => []CountsAddUp
<1>1. CountsInv => CountsAddUp
    BY ArchiveHolds, SensorHolds DEF CountsInv, CountsAddUp
<1>2. Spec => []CountsInv
    BY CountsInvariant
<1> QED BY <1>1, <1>2, PTL

===============================================================================
