-------------------------- MODULE BackgroundProofs --------------------------
(***************************************************************************)
(* Proofs about what background work tells or passes: the windows of the   *)
(* digest and the pages about silent sensors; the watermarks and marks of  *)
(* the scheduled scans and of a SIEM; and the chains that correlation puts *)
(* on record; at the end, the types of all these parts.  The theorems hold *)
(* for any instance of each part that its assumption admits, of any size.  *)
(***************************************************************************)
EXTENDS MCBackground, FiniteSetTheorems, SequenceTheorems, WellFoundedInduction, TLAPS

-----------------------------------------------------------------------------
(* Digests: whose window is claimed.                                       *)

\* Workers and events, with clocks that nothing bounds.
Telling == [at : {"idle", "begun", "loaded", "claimed", "sending"}, now : Nat,
            last : Nat \cup {Digests!Never}, found : SUBSET Findings]
Seen == [at : {"none", "flushed", "stored"}, stamp : Nat]

DigestTypes ==
    /\ clock \in Nat /\ last \in Nat \cup {Digests!Never}
    /\ event \in [Findings -> Seen] /\ worker \in [Workers -> Telling]

\* The worker has moved the window, and has not told of it yet.
HasWindow(w) == worker[w].at \in {"claimed", "sending"}

\* A stored event is of the worker's window.
OfWindow(e, w) ==
    event[e].at = "stored" /\ event[e].stamp > Digests!Since(w) /\ event[e].stamp <= worker[w].now

(***************************************************************************)
(* The windows that are claimed or delivered end no later than the last    *)
(* digest, and no two of them meet.                                        *)
(***************************************************************************)
WindowsApart ==
    /\ \A w \in Workers :
          worker[w].at \in {"loaded", "claimed", "sending"} => worker[w].last < worker[w].now
    /\ \A w \in Workers : HasWindow(w) => worker[w].now <= last
    /\ \A d \in delivered : d.now \in Nat /\ d.since \in Int /\ d.since < d.now /\ d.now <= last
    /\ \A v, w \in Workers : v # w /\ HasWindow(v) /\ HasWindow(w) =>
          worker[v].now <= worker[w].last \/ worker[w].now <= worker[v].last
    /\ \A d \in delivered, w \in Workers : HasWindow(w) =>
          d.now <= worker[w].last \/ worker[w].now <= d.since
    /\ \A c, d \in delivered : c # d => c.now <= d.since \/ d.now <= c.since

(***************************************************************************)
(* An event of a window that counts as sent was told, is excused, or is    *)
(* of a window that a worker has; one who sends has found all those of it  *)
(* that are not excused.                                                   *)
(***************************************************************************)
NothingEaten ==
    /\ \A e \in Findings : event[e].at = "stored" /\ event[e].stamp <= last
          => e \in told \cup excused \/ \E w \in Workers : HasWindow(w) /\ OfWindow(e, w)
    /\ \A w \in Workers, e \in Findings :
          worker[w].at = "sending" /\ OfWindow(e, w) => e \in worker[w].found \cup excused

DigestInv == DigestTypes /\ WindowsApart /\ NothingEaten

\* The start of a window is a number.
LEMMA SinceIs ==
    ASSUME DigestInv, NEW w \in Workers
    PROVE  /\ worker[w] \in Telling /\ worker[w].now \in Nat /\ Digests!Since(w) \in Int
           /\ worker[w].last \in Nat \cup {-1} /\ last \in Nat \cup {-1} /\ clock \in Nat
           /\ worker[w].last # -1 => Digests!Since(w) = worker[w].last
           /\ worker[w].last = -1 => Digests!Since(w) = worker[w].now - Interval
           /\ worker[w] = [at |-> worker[w].at, now |-> worker[w].now,
                           last |-> worker[w].last, found |-> worker[w].found]
<1>1. worker[w] \in Telling /\ last \in Nat \cup {-1} /\ clock \in Nat
    BY DEF DigestInv, DigestTypes, Digests!Never
<1>2. Interval \in Nat
    BY Assumptions DEF Digests!WindowsAssumption
<1> QED BY <1>1, <1>2 DEF Telling, Digests!Since, Digests!Never

\* A step of w that leaves the rest of the workers and the windows delivered.
LEMMA WorkerStep ==
    ASSUME DigestInv, NEW w \in Workers, NEW q \in Telling,
           worker' = [worker EXCEPT ![w] = q], UNCHANGED <<clock, event, told>>,
           delivered' = delivered, excused \subseteq excused', last' = last,
           q.at \in {"loaded", "claimed", "sending"} => q.last < q.now,
           q.at \in {"claimed", "sending"} => HasWindow(w) /\ q.now = worker[w].now
                                              /\ q.last = worker[w].last,
           q.at \notin {"claimed", "sending"} /\ HasWindow(w) =>
               \A e \in Findings : OfWindow(e, w) => e \in excused',
           q.at = "sending" => \A e \in Findings : OfWindow(e, w) => e \in q.found
    PROVE  DigestInv'
<1>1. DigestTypes /\ WindowsApart /\ NothingEaten
    BY DEF DigestInv
<1>2. /\ worker \in [Workers -> Telling] /\ worker' \in [Workers -> Telling] /\ worker'[w] = q
      /\ \A v \in Workers \ {w} : worker'[v] = worker[v]
    BY <1>1 DEF DigestTypes
<1>3. DigestTypes'
    BY <1>1, <1>2 DEF DigestTypes
<1>4. /\ \A v \in Workers : HasWindow(v)' =>
            HasWindow(v) /\ worker'[v].now = worker[v].now /\ worker'[v].last = worker[v].last
    BY <1>2 DEF HasWindow
<1>5. WindowsApart'
  <2>1. \A v \in Workers : worker'[v].at \in {"loaded", "claimed", "sending"} =>
            worker'[v].last < worker'[v].now
      BY <1>1, <1>2 DEF WindowsApart
  <2>2. \A v \in Workers : HasWindow(v)' => worker'[v].now <= last'
      BY <1>1, <1>4 DEF WindowsApart
  <2>3. \A u, v \in Workers : u # v /\ HasWindow(u)' /\ HasWindow(v)' =>
            worker'[u].now <= worker'[v].last \/ worker'[v].now <= worker'[u].last
      BY <1>1, <1>4 DEF WindowsApart
  <2>4. \A d \in delivered, v \in Workers : HasWindow(v)' =>
            d.now <= worker'[v].last \/ worker'[v].now <= d.since
      BY <1>1, <1>4 DEF WindowsApart
  <2> QED BY <1>1, <2>1, <2>2, <2>3, <2>4 DEF WindowsApart
<1>6. \A v \in Workers, e \in Findings : HasWindow(v)' => (OfWindow(e, v)' <=> OfWindow(e, v))
    BY <1>4 DEF OfWindow, Digests!Since
<1>7. \A v \in Workers \ {w} : HasWindow(v)' <=> HasWindow(v)
    BY <1>2 DEF HasWindow
<1>8. HasWindow(w)' <=> q.at \in {"claimed", "sending"}
    BY <1>2 DEF HasWindow
<1>9. ASSUME NEW e \in Findings, event'[e].at = "stored", event'[e].stamp <= last'
      PROVE  e \in told' \cup excused' \/ \E v \in Workers : HasWindow(v)' /\ OfWindow(e, v)'
  <2>1. e \in told \cup excused \/ \E v \in Workers : HasWindow(v) /\ OfWindow(e, v)
      BY <1>1, <1>9 DEF NothingEaten
  <2>2. CASE e \in told \cup excused
      BY <2>2
  <2>3. ASSUME NEW v \in Workers, HasWindow(v), OfWindow(e, v)
        PROVE  e \in told' \cup excused' \/ \E u \in Workers : HasWindow(u)' /\ OfWindow(e, u)'
    <3>1. CASE v # w
        BY <1>6, <1>7, <2>3, <3>1
    <3>2. CASE v = w
        BY <1>6, <1>8, <2>3, <3>2
    <3> QED BY <3>1, <3>2
  <2> QED BY <2>1, <2>2, <2>3
<1>10. ASSUME NEW v \in Workers, NEW e \in Findings, worker'[v].at = "sending", OfWindow(e, v)'
       PROVE  e \in worker'[v].found \cup excused'
  <2>1. HasWindow(v)' /\ OfWindow(e, v)
      BY <1>6, <1>10 DEF HasWindow
  <2>2. CASE v # w
      BY <1>1, <1>2, <1>10, <2>1, <2>2 DEF NothingEaten
  <2>3. CASE v = w
      BY <1>2, <1>10, <2>1, <2>3
  <2> QED BY <2>2, <2>3
<1>11. NothingEaten'
    BY <1>9, <1>10 DEF NothingEaten
<1> QED BY <1>3, <1>5, <1>11 DEF DigestInv

\* Time passes, a finding is seen, or is committed.
LEMMA EventStep ==
    ASSUME DigestInv, UNCHANGED <<last, worker, told, delivered>>, clock' \in Nat,
           event' \in [Findings -> Seen], excused \subseteq excused',
           \A e \in Findings : event'[e].at = "stored" =>
               \/ event'[e] = event[e]
               \/ event'[e].stamp <= last => e \in excused'
    PROVE  DigestInv'
<1>1. DigestTypes /\ WindowsApart /\ NothingEaten
    BY DEF DigestInv
<1>2. DigestTypes'
    BY <1>1 DEF DigestTypes
<1>3. WindowsApart'
    BY <1>1 DEF WindowsApart, HasWindow
<1>4. \A w \in Workers : (HasWindow(w)' <=> HasWindow(w)) /\ Digests!Since(w)' = Digests!Since(w)
    BY DEF HasWindow, Digests!Since
<1>5. ASSUME NEW e \in Findings, event'[e].at = "stored", event'[e].stamp <= last'
      PROVE  e \in told' \cup excused' \/ \E w \in Workers : HasWindow(w)' /\ OfWindow(e, w)'
  <2>1. CASE event'[e] = event[e]
    <3>1. e \in told \cup excused \/ \E w \in Workers : HasWindow(w) /\ OfWindow(e, w)
        BY <1>1, <1>5, <2>1 DEF NothingEaten
    <3> QED BY <1>4, <2>1, <3>1 DEF OfWindow
  <2>2. CASE event'[e] # event[e]
      BY <1>5, <2>2
  <2> QED BY <2>1, <2>2
<1>6. ASSUME NEW w \in Workers, NEW e \in Findings, worker'[w].at = "sending", OfWindow(e, w)'
      PROVE  e \in worker'[w].found \cup excused'
  <2>1. CASE event'[e] = event[e]
    <3>1. worker[w].at = "sending" /\ OfWindow(e, w)
        BY <1>4, <1>6, <2>1 DEF OfWindow
    <3> QED BY <1>1, <3>1 DEF NothingEaten
  <2>2. CASE event'[e] # event[e]
    <3>1. event'[e].at = "stored" /\ event'[e].stamp <= worker[w].now
        BY <1>6 DEF OfWindow
    <3>2. worker[w].now <= last
        BY <1>1, <1>6 DEF WindowsApart, HasWindow
    <3>3. event'[e].stamp \in Nat /\ worker[w].now \in Nat /\ last \in Nat \cup {-1}
        BY <1>6, SinceIs DEF Seen
    <3>4. event'[e].stamp <= last
        BY <3>1, <3>2, <3>3
    <3> QED BY <2>2, <3>1, <3>4
  <2> QED BY <2>1, <2>2
<1>7. NothingEaten'
    BY <1>5, <1>6 DEF NothingEaten
<1> QED BY <1>2, <1>3, <1>7 DEF DigestInv

\* The claim: the window that w takes begins where the last one ended.
LEMMA ClaimKept == ASSUME DigestInv, NEW w \in Workers, Digests!Claim(w) PROVE DigestInv'
<1>1. DigestTypes /\ WindowsApart /\ NothingEaten
    BY DEF DigestInv
<1>2. worker[w].at = "loaded" /\ UNCHANGED <<clock, event, told, delivered>>
    BY DEF Digests!Claim
<1>3. CASE last # worker[w].last
  <2>1. worker' = [worker EXCEPT ![w] = Digests!Idle] /\ UNCHANGED <<last, excused>>
      BY <1>3 DEF Digests!Claim
  <2>2. Digests!Idle \in Telling /\ Digests!Idle.at = "idle" /\ ~HasWindow(w)
      BY <1>2 DEF Telling, Digests!Idle, Digests!Never, HasWindow
  <2> QED BY <1>2, <2>1, <2>2, WorkerStep
<1>4. CASE last = worker[w].last
  <2>1. /\ last' = worker[w].now /\ worker' = [worker EXCEPT ![w].at = "claimed"]
        /\ excused' = IF last # Digests!Never THEN excused ELSE excused \cup
               {e \in Findings : event[e].at # "none" /\ event[e].stamp <= Digests!Since(w)}
      BY <1>4 DEF Digests!Claim
  <2>2. /\ worker \in [Workers -> Telling] /\ worker' \in [Workers -> Telling]
        /\ worker'[w].at = "claimed" /\ worker'[w].now = worker[w].now
        /\ worker'[w].last = worker[w].last
        /\ \A v \in Workers \ {w} : worker'[v] = worker[v]
      BY <1>1, <2>1 DEF DigestTypes, Telling
  <2>3. \A v \in Workers : /\ worker'[v].now = worker[v].now /\ worker'[v].last = worker[v].last
                           /\ Digests!Since(v)' = Digests!Since(v)
                           /\ worker[v].now \in Nat /\ worker[v].last \in Nat \cup {-1}
      BY <2>2, SinceIs DEF Digests!Since
  <2>4. \A v \in Workers : HasWindow(v)' <=> HasWindow(v) \/ v = w
      BY <2>2 DEF HasWindow
  <2>5. last < last' /\ last \in Nat \cup {-1} /\ last' \in Nat
      BY <1>1, <1>2, <1>4, <2>1, SinceIs DEF WindowsApart
  <2>6. DigestTypes'
      BY <1>1, <1>2, <2>1, <2>2, <2>5 DEF DigestTypes
  <2>7. WindowsApart'
    <3>1. \A v \in Workers : worker'[v].at \in {"loaded", "claimed", "sending"} =>
              worker'[v].last < worker'[v].now
        BY <1>1, <1>2, <2>2 DEF WindowsApart
    <3>2. \A v \in Workers : HasWindow(v) => worker[v].now <= last
        BY <1>1 DEF WindowsApart
    <3>3. \A v \in Workers : HasWindow(v)' => worker'[v].now <= last'
      <4> SUFFICES ASSUME NEW v \in Workers, HasWindow(v)' PROVE worker'[v].now <= last'
          OBVIOUS
      <4>1. CASE v = w
          BY <2>1, <2>3, <2>5, <4>1
      <4>2. CASE v # w
        <5>1. worker[v].now <= last
            BY <2>4, <3>2, <4>2
        <5> QED BY <2>3, <2>5, <5>1
      <4> QED BY <4>1, <4>2
    <3>4. \A d \in delivered : /\ d.now \in Nat /\ d.since \in Int /\ d.since < d.now
                               /\ d.now <= last'
      <4> SUFFICES ASSUME NEW d \in delivered
                   PROVE  /\ d.now \in Nat /\ d.since \in Int /\ d.since < d.now
                          /\ d.now <= last'
          OBVIOUS
      <4>1. d.now \in Nat /\ d.since \in Int /\ d.since < d.now /\ d.now <= last
          BY <1>1 DEF WindowsApart
      <4> QED BY <2>5, <4>1
    <3>5. \A u, v \in Workers : u # v /\ HasWindow(u)' /\ HasWindow(v)' =>
              worker'[u].now <= worker'[v].last \/ worker'[v].now <= worker'[u].last
        BY <1>1, <1>4, <2>3, <2>4, <3>2 DEF WindowsApart
    <3>6. \A d \in delivered, v \in Workers : HasWindow(v)' =>
              d.now <= worker'[v].last \/ worker'[v].now <= d.since
        BY <1>1, <1>4, <2>3, <2>4 DEF WindowsApart
    <3> QED BY <1>1, <1>2, <3>1, <3>3, <3>4, <3>5, <3>6 DEF WindowsApart
  <2>8. \A v \in Workers, e \in Findings : OfWindow(e, v)' <=> OfWindow(e, v)
      BY <1>2, <2>3 DEF OfWindow
  <2>9. ASSUME NEW e \in Findings, event[e].at = "stored", event[e].stamp <= last'
        PROVE  e \in told' \cup excused' \/ \E v \in Workers : HasWindow(v)' /\ OfWindow(e, v)'
    <3>1. event[e].stamp \in Nat
        BY <1>1 DEF DigestTypes, Seen
    <3>2. CASE event[e].stamp <= last
      <4>1. e \in told \cup excused \/ \E v \in Workers : HasWindow(v) /\ OfWindow(e, v)
          BY <1>1, <2>9, <3>2 DEF NothingEaten
      <4> QED BY <1>2, <2>1, <2>4, <2>8, <4>1
    <3>3. CASE event[e].stamp > last /\ event[e].stamp > Digests!Since(w)
      <4>1. OfWindow(e, w)
          BY <2>1, <2>9, <3>3 DEF OfWindow
      <4> QED BY <2>4, <2>8, <4>1
    <3>4. CASE event[e].stamp > last /\ ~(event[e].stamp > Digests!Since(w))
      <4>1. Digests!Since(w) \in Int /\ (worker[w].last # -1 => Digests!Since(w) = last)
          BY <1>4, SinceIs
      <4>2. worker[w].last = -1
          BY <3>4, <4>1
      <4>3. event[e].stamp <= Digests!Since(w) /\ last = Digests!Never
          BY <1>4, <3>1, <3>4, <4>1, <4>2 DEF Digests!Never
      <4> QED BY <2>1, <2>9, <4>3
    <3> QED BY <2>5, <3>1, <3>2, <3>3, <3>4
  <2>10. ASSUME NEW v \in Workers, NEW e \in Findings, worker'[v].at = "sending", OfWindow(e, v)'
         PROVE  e \in worker'[v].found \cup excused'
    <3>1. v # w /\ worker[v].at = "sending" /\ worker'[v] = worker[v] /\ OfWindow(e, v)
        BY <2>2, <2>8, <2>10
    <3> QED BY <1>1, <2>1, <3>1 DEF NothingEaten
  <2>11. NothingEaten'
      BY <1>2, <2>9, <2>10 DEF NothingEaten
  <2> QED BY <2>6, <2>7, <2>11 DEF DigestInv
<1> QED BY <1>3, <1>4

\* The steps before a claim, and the search for the findings of a window.
LEMMA BeginKept == ASSUME DigestInv, NEW w \in Workers, Digests!Begin(w) PROVE DigestInv'
<1>1. /\ worker[w].at = "idle" /\ worker' = [worker EXCEPT ![w].at = "begun", ![w].now = clock]
      /\ UNCHANGED <<clock, last, event, told, delivered, excused>>
    BY DEF Digests!Begin
<1>2. /\ worker \in [Workers -> Telling] /\ worker[w] \in Telling /\ clock \in Nat
    BY SinceIs DEF DigestInv, DigestTypes
<1>3. PICK q \in Telling : q = [[worker[w] EXCEPT !.at = "begun"] EXCEPT !.now = clock]
    BY <1>2 DEF Telling
<1>4. worker' = [worker EXCEPT ![w] = q] /\ q.at = "begun"
    BY <1>1, <1>2, <1>3 DEF Telling
<1> QED BY <1>1, <1>4, WorkerStep DEF HasWindow

\* A worker whose window is due goes on.
LEMMA LoadKept == ASSUME DigestInv, NEW w \in Workers, Digests!Load(w) PROVE DigestInv'
<1>1. /\ worker[w].at = "begun" /\ UNCHANGED <<clock, last, event, told, delivered, excused>>
      /\ ~HasWindow(w)
    BY DEF Digests!Load, HasWindow
<1>2. /\ worker \in [Workers -> Telling] /\ worker[w] \in Telling
      /\ worker[w].now \in Nat /\ last \in Nat \cup {-1}
    BY SinceIs DEF DigestInv, DigestTypes
<1>3. CASE Digests!Due(w)
  <2>1. worker' = [worker EXCEPT ![w] = [[worker[w] EXCEPT !.at = "loaded"] EXCEPT !.last = last]]
      BY <1>2, <1>3 DEF Digests!Load
  <2>2. PICK q \in Telling : q = [[worker[w] EXCEPT !.at = "loaded"] EXCEPT !.last = last]
      BY <1>2 DEF Telling, Digests!Never
  <2>3. q.at = "loaded" /\ q.last = last /\ q.now = worker[w].now
      BY <1>2, <2>2 DEF Telling
  <2>4. Interval \in Nat \ {0}
      BY Assumptions DEF Digests!WindowsAssumption
  <2>5. q.last < q.now
      BY <1>2, <1>3, <2>3, <2>4 DEF Digests!Due, Digests!Never
  <2> QED BY <1>1, <2>1, <2>2, <2>3, <2>5, WorkerStep
<1>4. CASE ~Digests!Due(w)
  <2>1. worker' = [worker EXCEPT ![w] = Digests!Idle]
      BY <1>4 DEF Digests!Load
  <2>2. Digests!Idle \in Telling /\ Digests!Idle.at = "idle"
      BY DEF Telling, Digests!Idle, Digests!Never
  <2> QED BY <1>1, <2>1, <2>2, WorkerStep
<1> QED BY <1>3, <1>4

\* A worker that finds nothing keeps the window: there is nothing in it.
LEMMA QueryKept == ASSUME DigestInv, NEW w \in Workers, Digests!Query(w) PROVE DigestInv'
<1> DEFINE found == {e \in Findings : event[e].at = "stored" /\ event[e].stamp > Digests!Since(w)}
<1>1. /\ worker[w].at = "claimed" /\ UNCHANGED <<clock, last, event, told, delivered, excused>>
      /\ HasWindow(w)
    BY DEF Digests!Query, HasWindow
<1>2. /\ worker \in [Workers -> Telling] /\ worker[w] \in Telling
    BY SinceIs DEF DigestInv, DigestTypes
<1>3. \A e \in Findings : OfWindow(e, w) => e \in found
    BY DEF OfWindow
<1>4. CASE found = {}
  <2>1. worker' = [worker EXCEPT ![w] = Digests!Idle]
      BY <1>4 DEF Digests!Query
  <2>2. Digests!Idle \in Telling /\ Digests!Idle.at = "idle"
      BY DEF Telling, Digests!Idle, Digests!Never
  <2> QED BY <1>1, <1>3, <1>4, <2>1, <2>2, WorkerStep
<1>5. CASE found # {}
  <2>1. PICK f \in SUBSET Findings : f = found
      OBVIOUS
  <2>2. worker' = [worker EXCEPT ![w] = [[worker[w] EXCEPT !.at = "sending"] EXCEPT !.found = f]]
      BY <1>2, <1>5, <2>1 DEF Digests!Query
  <2>3. PICK q \in Telling : q = [[worker[w] EXCEPT !.at = "sending"] EXCEPT !.found = f]
      BY <1>2 DEF Telling
  <2>4. q.at = "sending" /\ q.found = f /\ q.now = worker[w].now /\ q.last = worker[w].last
      BY <1>2, <2>3 DEF Telling
  <2>5. q.last < q.now
      BY <1>1, <2>4 DEF DigestInv, WindowsApart
  <2> HIDE DEF found
  <2> QED BY <1>1, <1>3, <2>1, <2>2, <2>3, <2>4, <2>5, WorkerStep
<1> QED BY <1>4, <1>5

\* The digest arrives: its window meets no other one.
LEMMA SendOkKept == ASSUME DigestInv, NEW w \in Workers, Digests!SendOk(w) PROVE DigestInv'
<1>1. DigestTypes /\ WindowsApart /\ NothingEaten
    BY DEF DigestInv
<1>2. /\ worker[w].at = "sending" /\ HasWindow(w)
      /\ told' = told \cup worker[w].found
      /\ delivered' = delivered \cup
             {[by |-> w, since |-> Digests!Since(w), now |-> worker[w].now]}
      /\ worker' = [worker EXCEPT ![w] = Digests!Idle]
      /\ UNCHANGED <<clock, last, event, excused>>
    BY DEF Digests!SendOk, HasWindow
<1>3. /\ Digests!Idle \in Telling /\ Digests!Idle.at = "idle"
    BY DEF Telling, Digests!Idle, Digests!Never
<1>4. /\ worker \in [Workers -> Telling] /\ worker' \in [Workers -> Telling]
      /\ worker'[w].at = "idle" /\ \A v \in Workers \ {w} : worker'[v] = worker[v]
    BY <1>1, <1>2, <1>3 DEF DigestTypes
<1>5. DigestTypes'
    BY <1>1, <1>2, <1>4 DEF DigestTypes
<1>6. PICK s \in Int : s = Digests!Since(w)
    BY SinceIs
<1>7. PICK n \in Nat : n = worker[w].now
    BY SinceIs
<1>8. PICK u : u = [by |-> w, since |-> s, now |-> n]
    OBVIOUS
<1>9. u.since = s /\ u.now = n /\ delivered' = delivered \cup {u}
    BY <1>2, <1>6, <1>7, <1>8
<1>10. \A v \in Workers : HasWindow(v)' => HasWindow(v) /\ v # w /\ worker'[v] = worker[v]
    BY <1>4 DEF HasWindow
<1>11. Interval \in Nat \ {0}
    BY Assumptions DEF Digests!WindowsAssumption
<1>12. worker[w].last < worker[w].now
    BY <1>1, <1>2 DEF WindowsApart
<1>13. s < n /\ n <= last
  <2>1. n <= last
      BY <1>1, <1>2, <1>7 DEF WindowsApart
  <2>2. /\ worker[w].last \in Nat \cup {-1}
        /\ worker[w].last # -1 => s = worker[w].last
        /\ worker[w].last = -1 => s = n - Interval
      BY <1>6, <1>7, SinceIs
  <2>3. CASE worker[w].last = -1
      BY <1>11, <2>1, <2>2, <2>3
  <2>4. CASE worker[w].last # -1
      BY <1>7, <1>12, <2>1, <2>2, <2>4
  <2> QED BY <2>3, <2>4
<1>14. WindowsApart'
  <2>1. \A v \in Workers : worker'[v].at \in {"loaded", "claimed", "sending"} =>
            worker'[v].last < worker'[v].now
      BY <1>1, <1>4 DEF WindowsApart
  <2>2. \A v \in Workers : HasWindow(v)' => worker'[v].now <= last'
      BY <1>1, <1>2, <1>10 DEF WindowsApart
  <2>3. \A d \in delivered' : d.now \in Nat /\ d.since \in Int /\ d.since < d.now /\ d.now <= last'
      BY <1>1, <1>2, <1>9, <1>13 DEF WindowsApart
  <2>4. \A x, v \in Workers : x # v /\ HasWindow(x)' /\ HasWindow(v)' =>
            worker'[x].now <= worker'[v].last \/ worker'[v].now <= worker'[x].last
      BY <1>1, <1>10 DEF WindowsApart
  <2>5. ASSUME NEW d \in delivered', NEW v \in Workers, HasWindow(v)'
        PROVE  d.now <= worker'[v].last \/ worker'[v].now <= d.since
    <3>1. HasWindow(v) /\ v # w /\ worker'[v] = worker[v]
        BY <1>10, <2>5
    <3>2. CASE d \in delivered
        BY <1>1, <3>1, <3>2 DEF WindowsApart
    <3>3. CASE d = u
      <4>1. n <= worker[v].last \/ worker[v].now <= worker[w].last
          BY <1>1, <1>2, <1>7, <3>1 DEF WindowsApart
      <4>2. ASSUME worker[v].now <= worker[w].last PROVE worker[v].now <= s
        <5>1. worker[v].now \in Nat /\ worker[w].last \in Nat \cup {-1}
            BY SinceIs
        <5>2. worker[w].last # -1
            BY <4>2, <5>1
        <5> QED BY <1>6, <4>2, <5>2, SinceIs
      <4> QED BY <1>9, <3>1, <3>3, <4>1, <4>2
    <3> QED BY <1>9, <2>5, <3>2, <3>3
  <2>6. ASSUME NEW d \in delivered PROVE d.now <= u.since \/ u.now <= d.since
    <3>1. d.now <= worker[w].last \/ n <= d.since
        BY <1>1, <1>2, <1>7 DEF WindowsApart
    <3>2. ASSUME d.now <= worker[w].last PROVE d.now <= s
      <4>1. d.now \in Nat /\ worker[w].last \in Nat \cup {-1}
          BY <1>1, SinceIs DEF WindowsApart
      <4>2. worker[w].last # -1
          BY <3>2, <4>1
      <4> QED BY <1>6, <3>2, <4>2, SinceIs
    <3> QED BY <1>9, <3>1, <3>2
  <2>7. \A c, d \in delivered' : c # d => c.now <= d.since \/ d.now <= c.since
    <3>1. \A c, d \in delivered : c # d => c.now <= d.since \/ d.now <= c.since
        BY <1>1 DEF WindowsApart
    <3> QED BY <1>9, <2>6, <3>1
  <2> QED BY <2>1, <2>2, <2>3, <2>4, <2>5, <2>7 DEF WindowsApart
<1>15. \A v \in Workers, e \in Findings : HasWindow(v)' => (OfWindow(e, v)' <=> OfWindow(e, v))
    BY <1>2, <1>10 DEF OfWindow, Digests!Since
<1>16. ASSUME NEW e \in Findings, event'[e].at = "stored", event'[e].stamp <= last'
       PROVE  e \in told' \cup excused' \/ \E v \in Workers : HasWindow(v)' /\ OfWindow(e, v)'
  <2>1. e \in told \cup excused \/ \E v \in Workers : HasWindow(v) /\ OfWindow(e, v)
      BY <1>1, <1>2, <1>16 DEF NothingEaten
  <2>2. CASE e \in told \cup excused
      BY <1>2, <2>2
  <2>3. ASSUME NEW v \in Workers, HasWindow(v), OfWindow(e, v)
        PROVE  e \in told' \cup excused' \/ \E x \in Workers : HasWindow(x)' /\ OfWindow(e, x)'
    <3>1. CASE v = w
        BY <1>1, <1>2, <2>3, <3>1 DEF NothingEaten
    <3>2. CASE v # w
      <4>1. HasWindow(v)'
          BY <1>4, <2>3, <3>2 DEF HasWindow
      <4> QED BY <1>15, <2>3, <4>1
    <3> QED BY <3>1, <3>2
  <2> QED BY <2>1, <2>2, <2>3
<1>17. ASSUME NEW v \in Workers, NEW e \in Findings, worker'[v].at = "sending", OfWindow(e, v)'
       PROVE  e \in worker'[v].found \cup excused'
  <2>1. HasWindow(v)'
      BY <1>17 DEF HasWindow
  <2>2. v # w /\ worker'[v] = worker[v] /\ OfWindow(e, v)
      BY <1>10, <1>15, <1>17, <2>1
  <2> QED BY <1>1, <1>2, <1>17, <2>2 DEF NothingEaten
<1>18. NothingEaten'
    BY <1>16, <1>17 DEF NothingEaten
<1> QED BY <1>5, <1>14, <1>18 DEF DigestInv

(***************************************************************************)
(* The digest fails.  The window goes back if it is still the last one:    *)
(* the others in flight and those delivered ended before it began.         *)
(***************************************************************************)
LEMMA SendFailsKept == ASSUME DigestInv, NEW w \in Workers, Digests!SendFails(w) PROVE DigestInv'
<1>1. DigestTypes /\ WindowsApart /\ NothingEaten
    BY DEF DigestInv
<1>2. /\ worker[w].at = "sending" /\ HasWindow(w) /\ Digests!Release(w)
      /\ worker' = [worker EXCEPT ![w] = Digests!Idle]
      /\ UNCHANGED <<clock, event, told, delivered>>
    BY DEF Digests!SendFails, HasWindow
<1>3. /\ Digests!Idle \in Telling /\ Digests!Idle.at = "idle"
    BY DEF Telling, Digests!Idle, Digests!Never
<1>4. CASE last # worker[w].now
  <2>1. excused' = excused \cup Digests!Eaten(w) /\ last' = last
      BY <1>2, <1>4 DEF Digests!Release
  <2>2. \A e \in Findings : OfWindow(e, w) => e \in excused'
      BY <2>1 DEF OfWindow, Digests!Eaten
  <2> QED BY <1>2, <1>3, <2>1, <2>2, WorkerStep
<1>5. CASE last = worker[w].now
  <2>1. last' = worker[w].last /\ excused' = excused
      BY <1>2, <1>5 DEF Digests!Release
  <2>2. /\ worker \in [Workers -> Telling] /\ worker' \in [Workers -> Telling]
        /\ worker'[w].at = "idle" /\ \A v \in Workers \ {w} : worker'[v] = worker[v]
      BY <1>1, <1>2, <1>3 DEF DigestTypes
  <2>3. /\ last' \in Nat \cup {-1} /\ last \in Nat /\ last' < last
        /\ last' # -1 => Digests!Since(w) = last'
    <3>1. worker[w].last < worker[w].now
        BY <1>1, <1>2 DEF WindowsApart
    <3> QED BY <1>5, <2>1, <3>1, SinceIs
  <2>4. DigestTypes'
      BY <1>1, <1>2, <2>2, <2>3 DEF DigestTypes, Digests!Never
  <2>5. \A v \in Workers : HasWindow(v)' =>
            /\ HasWindow(v) /\ v # w /\ worker'[v] = worker[v]
            /\ worker[v].now \in Nat /\ worker[v].last \in Nat \cup {-1}
      BY <2>2, SinceIs DEF HasWindow
  <2>6. ASSUME NEW v \in Workers, HasWindow(v)' PROVE worker'[v].now <= last'
    <3>1. HasWindow(v) /\ v # w /\ worker'[v] = worker[v] /\ worker[v].now \in Nat
          /\ worker[v].last \in Nat \cup {-1}
        BY <2>5, <2>6
    <3>2. /\ worker[v].now <= last /\ worker[v].last < worker[v].now
          /\ worker[v].now <= worker[w].last \/ worker[w].now <= worker[v].last
        BY <1>1, <1>2, <3>1 DEF WindowsApart, HasWindow
    <3>3. worker[v].now <= worker[w].last
        BY <1>5, <2>3, <3>1, <3>2
    <3> QED BY <2>1, <3>1, <3>3
  <2>7. ASSUME NEW d \in delivered
        PROVE  d.now \in Nat /\ d.since \in Int /\ d.since < d.now /\ d.now <= last'
    <3>1. /\ d.now \in Nat /\ d.since \in Int /\ d.since < d.now /\ d.now <= last
          /\ d.now <= worker[w].last \/ worker[w].now <= d.since
        BY <1>1, <1>2 DEF WindowsApart
    <3> QED BY <1>5, <2>1, <2>3, <3>1
  <2>8. WindowsApart'
    <3>1. \A v \in Workers : worker'[v].at \in {"loaded", "claimed", "sending"} =>
              worker'[v].last < worker'[v].now
        BY <1>1, <2>2 DEF WindowsApart
    <3>2. \A u, v \in Workers : u # v /\ HasWindow(u)' /\ HasWindow(v)' =>
              worker'[u].now <= worker'[v].last \/ worker'[v].now <= worker'[u].last
        BY <1>1, <2>5 DEF WindowsApart
    <3>3. \A d \in delivered, v \in Workers : HasWindow(v)' =>
              d.now <= worker'[v].last \/ worker'[v].now <= d.since
        BY <1>1, <2>5 DEF WindowsApart
    <3> QED BY <1>1, <1>2, <2>6, <2>7, <3>1, <3>2, <3>3 DEF WindowsApart
  <2>9. \A v \in Workers, e \in Findings : HasWindow(v)' => (OfWindow(e, v)' <=> OfWindow(e, v))
      BY <1>2, <2>5 DEF OfWindow, Digests!Since
  <2>10. ASSUME NEW e \in Findings, event'[e].at = "stored", event'[e].stamp <= last'
         PROVE  e \in told' \cup excused' \/ \E v \in Workers : HasWindow(v)' /\ OfWindow(e, v)'
    <3>1. event[e].stamp \in Nat /\ event[e].at = "stored" /\ event[e].stamp <= last'
        BY <1>1, <1>2, <2>10 DEF DigestTypes, Seen
    <3>2. event[e].stamp <= last /\ last' # -1
        BY <2>3, <3>1
    <3>3. ~OfWindow(e, w)
        BY <2>3, <3>1, <3>2 DEF OfWindow
    <3>4. e \in told \cup excused \/ \E v \in Workers : HasWindow(v) /\ OfWindow(e, v)
        BY <1>1, <3>1, <3>2 DEF NothingEaten
    <3>5. ASSUME NEW v \in Workers, HasWindow(v), OfWindow(e, v)
          PROVE  HasWindow(v)' /\ OfWindow(e, v)'
      <4>1. v # w
          BY <3>3, <3>5
      <4>2. HasWindow(v)'
          BY <2>2, <3>5, <4>1 DEF HasWindow
      <4> QED BY <2>9, <3>5, <4>2
    <3> QED BY <1>2, <2>1, <3>4, <3>5
  <2>11. ASSUME NEW v \in Workers, NEW e \in Findings, worker'[v].at = "sending", OfWindow(e, v)'
         PROVE  e \in worker'[v].found \cup excused'
    <3>1. HasWindow(v)'
        BY <2>11 DEF HasWindow
    <3>2. worker'[v] = worker[v] /\ OfWindow(e, v)
        BY <2>5, <2>9, <2>11, <3>1
    <3> QED BY <1>1, <2>1, <2>11, <3>2 DEF NothingEaten
  <2>12. NothingEaten'
      BY <2>10, <2>11 DEF NothingEaten
  <2> QED BY <2>4, <2>8, <2>12 DEF DigestInv
<1> QED BY <1>4, <1>5

\* A worker that dies takes its window with it; its events are excused.
LEMMA DieKept == ASSUME DigestInv, NEW w \in Workers, Digests!Die(w) PROVE DigestInv'
<1>1. /\ excused' = IF HasWindow(w) THEN excused \cup Digests!Eaten(w) ELSE excused
      /\ worker' = [worker EXCEPT ![w] = Digests!Idle]
      /\ UNCHANGED <<clock, last, event, told, delivered>>
    BY DEF Digests!Die, HasWindow
<1>2. /\ Digests!Idle \in Telling /\ Digests!Idle.at = "idle"
    BY DEF Telling, Digests!Idle, Digests!Never
<1>3. HasWindow(w) => \A e \in Findings : OfWindow(e, w) => e \in excused'
    BY <1>1 DEF OfWindow, Digests!Eaten
<1> QED BY <1>1, <1>2, <1>3, WorkerStep

\* Every step of the workers, of the clock and of the findings they tell of.
LEMMA DigestKept ==
    ASSUME DigestInv,
           Digests!Next \/ UNCHANGED <<clock, last, event, worker, told, delivered, excused>>
    PROVE  DigestInv'
<1>1. event \in [Findings -> Seen] /\ clock \in Nat /\ last \in Nat \cup {-1}
    BY DEF DigestInv, DigestTypes, Digests!Never
<1>2. CASE Digests!Tick
  <2>1. clock' = clock + 1 /\ UNCHANGED <<last, event, worker, told, delivered, excused>>
      BY <1>2 DEF Digests!Tick
  <2> QED BY <1>1, <2>1, EventStep
<1>3. ASSUME NEW e \in Findings, Digests!Happen(e) PROVE DigestInv'
  <2>1. /\ event' = [event EXCEPT ![e] = [at |-> "flushed", stamp |-> clock]]
        /\ UNCHANGED <<clock, last, worker, told, delivered, excused>>
      BY <1>3 DEF Digests!Happen
  <2>2. event' \in [Findings -> Seen]
      BY <1>1, <2>1 DEF Seen
  <2>3. \A f \in Findings : event'[f].at = "stored" => event'[f] = event[f]
      BY <1>1, <2>1
  <2> QED BY <1>1, <2>1, <2>2, <2>3, EventStep
<1>4. ASSUME NEW e \in Findings, Digests!Record(e) PROVE DigestInv'
  <2>1. /\ event' = [event EXCEPT ![e].at = "stored"]
        /\ excused' = IF event[e].stamp <= last THEN excused \cup {e} ELSE excused
        /\ UNCHANGED <<clock, last, worker, told, delivered>>
      BY <1>4 DEF Digests!Record
  <2>2. event' \in [Findings -> Seen] /\ event'[e].stamp = event[e].stamp
        /\ \A f \in Findings \ {e} : event'[f] = event[f]
      BY <1>1, <2>1 DEF Seen
  <2>3. \A f \in Findings : event'[f].at = "stored" =>
            event'[f] = event[f] \/ (event'[f].stamp <= last => f \in excused')
      BY <2>1, <2>2
  <2>4. excused \subseteq excused'
      BY <2>1
  <2> QED BY <1>1, <2>1, <2>2, <2>3, <2>4, EventStep
<1>5. ASSUME NEW w \in Workers,
             \/ Digests!Begin(w) \/ Digests!Load(w) \/ Digests!Claim(w) \/ Digests!Query(w)
             \/ Digests!SendOk(w) \/ Digests!SendFails(w) \/ Digests!Die(w)
      PROVE  DigestInv'
    BY <1>5, BeginKept, LoadKept, ClaimKept, QueryKept, SendOkKept, SendFailsKept, DieKept
<1>6. CASE UNCHANGED <<clock, last, event, worker, told, delivered, excused>>
    BY <1>1, <1>6, EventStep
<1> QED BY <1>2, <1>3, <1>4, <1>5, <1>6 DEF Digests!Next

\* No digest has been sent in the initial state.
LEMMA DigestInit == Digests!Init => DigestInv
<1> SUFFICES ASSUME Digests!Init PROVE DigestInv
    OBVIOUS
<1>1. /\ clock = 0 /\ last = -1 /\ event = [e \in Findings |-> [at |-> "none", stamp |-> 0]]
      /\ worker = [w \in Workers |-> Digests!Idle] /\ delivered = {}
    BY DEF Digests!Init, Digests!Never
<1>2. /\ Digests!Idle \in Telling /\ Digests!Idle.at = "idle"
    BY DEF Telling, Digests!Idle, Digests!Never
<1>3. DigestTypes
    BY <1>1, <1>2 DEF DigestTypes, Seen, Digests!Never
<1>4. WindowsApart /\ NothingEaten
    BY <1>1, <1>2 DEF WindowsApart, NothingEaten, HasWindow
<1> QED BY <1>3, <1>4 DEF DigestInv

\* What the invariant says of the digests.
LEMMA DigestsAre == DigestInv => Digests!DigestsArrive
BY DEF DigestInv, NothingEaten, WindowsApart, HasWindow, OfWindow, Digests!DigestsArrive,
       Digests!Underway

-----------------------------------------------------------------------------
(* The page about a sensor that has gone dark.                             *)

\* A sweep is about to page for the k-th silence.
Pages(w, k) == sweep[w].at = "sending" /\ sweep[w].claimed = k

(***************************************************************************)
(* The silences to come have no page, and nor has the present one before   *)
(* it is marked; a page sent, or about to be, is the only one of its       *)
(* silence; a mark on a sensor that is back is one that was raced.         *)
(***************************************************************************)
FleetInv ==
    /\ {silent, marked, raced} \subseteq BOOLEAN
    /\ silence \in 0 .. MaxSilences
    /\ pages \in [0 .. MaxSilences -> Nat]
    /\ sweep \in [Workers -> [at : {"idle", "loaded", "sending"}, claimed : 0 .. MaxSilences]]
    /\ \A k \in Fleet!Silences :
          /\ k > silence \/ (k = silence /\ silent /\ ~marked) =>
                pages[k] = 0 /\ \A w \in Workers : ~Pages(w, k)
          /\ pages[k] <= 1
          /\ \A w \in Workers : Pages(w, k) => pages[k] = 0
          /\ \A v, w \in Workers : Pages(v, k) /\ Pages(w, k) => v = w
    /\ ~silent /\ marked => raced
    /\ silent => silence # 0
    /\ silent /\ marked /\ ~raced =>
          pages[silence] = 1 \/ silence \in failed \/ \E w \in Workers : Pages(w, silence)

\* Every step of the sensor, its heartbeats and the sweeps.
LEMMA FleetKept ==
    ASSUME FleetInv, Fleet!Next \/ UNCHANGED Fleet!fleetVars PROVE FleetInv'
<1>1. /\ {silent, marked, raced} \subseteq BOOLEAN
      /\ silence \in 0 .. MaxSilences /\ silence \in Nat /\ MaxSilences \in Nat
      /\ pages \in [0 .. MaxSilences -> Nat]
      /\ sweep \in [Workers -> [at : {"idle", "loaded", "sending"}, claimed : 0 .. MaxSilences]]
    BY Assumptions DEF FleetInv, Fleet!SilencesAssumption
<1>2. CASE Fleet!GoDark
  <2>1. /\ ~silent /\ silence < MaxSilences /\ silent' = TRUE /\ silence' = silence + 1
        /\ UNCHANGED <<marked, pages, failed, raced, sweep>>
      BY <1>2 DEF Fleet!GoDark
  <2>2. silence' \in 0 .. MaxSilences /\ silence' # 0
      BY <1>1, <2>1
  <2>3. \A k \in Fleet!Silences : k > silence' \/ k = silence' => k > silence
      BY <1>1, <2>1 DEF Fleet!Silences
  <2> QED BY <2>1, <2>2, <2>3 DEF FleetInv, Pages
<1>3. ASSUME NEW b \in Beats, Fleet!LoadBeat(b) PROVE FleetInv'
    BY <1>3 DEF Fleet!LoadBeat, FleetInv, Pages
<1>4. ASSUME NEW b \in Beats, Fleet!CommitBeat(b) PROVE FleetInv'
  <2>1. /\ silent' = FALSE /\ marked' \in BOOLEAN /\ raced' = marked'
        /\ UNCHANGED <<silence, pages, failed, sweep>>
      BY <1>4 DEF Fleet!CommitBeat
  <2> QED BY <1>1, <2>1 DEF FleetInv, Pages
<1>5. ASSUME NEW w \in Workers, Fleet!LoadSweep(w) PROVE FleetInv'
  <2>1. /\ sweep[w].at = "idle" /\ sweep' = [sweep EXCEPT ![w].at = "loaded"]
        /\ UNCHANGED <<silent, marked, silence, pages, failed, raced>>
      BY <1>5 DEF Fleet!LoadSweep
  <2>2. sweep' \in [Workers -> [at : {"idle", "loaded", "sending"}, claimed : 0 .. MaxSilences]]
      BY <1>1, <2>1
  <2>3. \A v \in Workers, k \in 0 .. MaxSilences : Pages(v, k)' <=> Pages(v, k)
      BY <1>1, <2>1 DEF Pages
  <2> QED BY <1>1, <2>1, <2>2, <2>3 DEF FleetInv, Fleet!Silences
<1>6. ASSUME NEW w \in Workers, Fleet!Claim(w) PROVE FleetInv'
  <2>1. sweep[w].at = "loaded" /\ Fleet!Mark(w) /\ UNCHANGED <<silent, silence, pages, failed>>
      BY <1>6 DEF Fleet!Claim
  <2>2. CASE marked
    <3>1. /\ sweep' = [sweep EXCEPT ![w] = Fleet!NotSweeping] /\ UNCHANGED <<marked, raced>>
        BY <2>1, <2>2 DEF Fleet!Mark
    <3>2. sweep' \in [Workers -> [at : {"idle", "loaded", "sending"}, claimed : 0 .. MaxSilences]]
        BY <1>1, <3>1 DEF Fleet!NotSweeping
    <3>3. \A v \in Workers, k \in 0 .. MaxSilences : Pages(v, k)' <=> Pages(v, k)
        BY <1>1, <2>1, <3>1 DEF Pages, Fleet!NotSweeping
    <3>4. UNCHANGED <<silent, marked, silence, pages, failed, raced>>
        BY <2>1, <3>1
    <3>5. \A k \in Fleet!Silences :
             /\ k > silence \/ (k = silence /\ silent /\ ~marked) =>
                   pages[k] = 0 /\ \A v \in Workers : ~Pages(v, k)'
             /\ \A v \in Workers : Pages(v, k)' => pages[k] = 0
             /\ \A v, u \in Workers : Pages(v, k)' /\ Pages(u, k)' => v = u
        BY <3>3 DEF FleetInv, Fleet!Silences
    <3>6. silent /\ marked /\ ~raced =>
             pages[silence] = 1 \/ silence \in failed \/ \E v \in Workers : Pages(v, silence)'
        BY <1>1, <3>3, <3>4 DEF FleetInv
    <3> QED BY <3>2, <3>4, <3>5, <3>6 DEF FleetInv, Pages
  <2>3. CASE ~marked
    <3> DEFINE k == IF silent THEN silence ELSE 0
    <3>1. /\ marked' = TRUE /\ raced' = ~silent
          /\ sweep' = [sweep EXCEPT ![w] = [at |-> "sending", claimed |-> k]]
        BY <2>1, <2>3 DEF Fleet!Mark
    <3>2. k \in 0 .. MaxSilences /\ k # 0 => silent /\ k = silence
        BY <1>1
    <3>3. sweep' \in [Workers -> [at : {"idle", "loaded", "sending"}, claimed : 0 .. MaxSilences]]
        BY <1>1, <3>1
    <3>4. \A v \in Workers, j \in 0 .. MaxSilences :
              Pages(v, j)' <=> IF v = w THEN j = k ELSE Pages(v, j)
        BY <1>1, <3>1 DEF Pages
    <3>5. ASSUME NEW j \in Fleet!Silences
          PROVE  /\ j > silence => pages[j] = 0 /\ \A v \in Workers : ~Pages(v, j)'
                 /\ pages[j] <= 1
                 /\ \A v \in Workers : Pages(v, j)' => pages[j] = 0
                 /\ \A u, v \in Workers : Pages(u, j)' /\ Pages(v, j)' => u = v
      <4>1. j \in 0 .. MaxSilences /\ j # 0
          BY <1>1 DEF Fleet!Silences
      <4>2. j = k => j = silence /\ silent /\ ~marked
          BY <2>3, <4>1
      <4> QED BY <1>1, <3>4, <4>1, <4>2 DEF FleetInv
    <3>6. silent => Pages(w, silence)'
      <4>1. silent => k = silence
          OBVIOUS
      <4>2. UNCHANGED silence
          BY <2>1
      <4>3. sweep'[w].at = "sending" /\ sweep'[w].claimed = k
          BY <1>1, <3>1
      <4> HIDE DEF k
      <4> QED BY <4>1, <4>2, <4>3 DEF Pages
    <3> HIDE DEF k
    <3> QED BY <1>1, <2>1, <3>1, <3>3, <3>5, <3>6 DEF FleetInv, Fleet!Silences
  <2> QED BY <2>2, <2>3, <1>1
<1>7. ASSUME NEW w \in Workers, NEW ok \in BOOLEAN, Fleet!Send(w, ok) PROVE FleetInv'
  <2> DEFINE c == sweep[w].claimed
  <2>1. /\ sweep[w].at = "sending"
        /\ pages' = IF ok THEN [pages EXCEPT ![c] = @ + 1] ELSE pages
        /\ failed' = IF ok THEN failed ELSE failed \cup {c}
        /\ sweep' = [sweep EXCEPT ![w] = Fleet!NotSweeping]
        /\ UNCHANGED <<silent, marked, silence, raced>>
      BY <1>7 DEF Fleet!Send
  <2>2. c \in 0 .. MaxSilences /\ Pages(w, c)
      BY <1>1, <2>1 DEF Pages
  <2>3. sweep' \in [Workers -> [at : {"idle", "loaded", "sending"}, claimed : 0 .. MaxSilences]]
      BY <1>1, <2>1 DEF Fleet!NotSweeping
  <2>4. \A v \in Workers, k \in 0 .. MaxSilences : Pages(v, k)' <=> (v # w /\ Pages(v, k))
      BY <1>1, <2>1 DEF Pages, Fleet!NotSweeping
  <2>5. /\ pages' \in [0 .. MaxSilences -> Nat]
        /\ \A k \in 0 .. MaxSilences :
              pages'[k] = IF ok /\ k = c THEN pages[k] + 1 ELSE pages[k]
      BY <1>1, <2>1, <2>2
  <2>6. ASSUME NEW k \in Fleet!Silences
        PROVE  /\ k > silence \/ (k = silence /\ silent /\ ~marked) =>
                     pages'[k] = 0 /\ \A v \in Workers : ~Pages(v, k)'
               /\ pages'[k] <= 1
               /\ \A v \in Workers : Pages(v, k)' => pages'[k] = 0
               /\ \A u, v \in Workers : Pages(u, k)' /\ Pages(v, k)' => u = v
    <3>1. k \in 0 .. MaxSilences
        BY <1>1 DEF Fleet!Silences
    <3>2. CASE k = c
      <4>1. pages[k] = 0 /\ \A v \in Workers : Pages(v, k) => v = w
          BY <2>2, <3>2 DEF FleetInv
      <4>2. ~(k > silence \/ (k = silence /\ silent /\ ~marked))
          BY <2>2, <3>2 DEF FleetInv
      <4> QED BY <2>4, <2>5, <3>1, <4>1, <4>2
    <3>3. CASE k # c
      <4>1. pages'[k] = pages[k]
          BY <2>5, <3>1, <3>3
      <4> QED BY <2>4, <3>1, <4>1 DEF FleetInv
    <3> QED BY <3>2, <3>3
  <2>7. ASSUME silent, marked, ~raced
        PROVE  pages'[silence] = 1 \/ silence \in failed' \/ \E v \in Workers : Pages(v, silence)'
    <3>1. silence \in Fleet!Silences
        BY <1>1, <2>7 DEF FleetInv, Fleet!Silences
    <3>2. CASE c = silence
      <4>1. pages[silence] = 0
          BY <2>2, <3>1, <3>2 DEF FleetInv
      <4> QED BY <1>1, <2>1, <2>5, <3>2, <4>1
    <3>3. CASE c # silence
      <4>1. pages[silence] = 1 \/ silence \in failed \/ \E v \in Workers : Pages(v, silence)
          BY <2>7 DEF FleetInv
      <4>2. \A v \in Workers : Pages(v, silence) => v # w
          BY <3>3 DEF Pages
      <4> QED BY <1>1, <2>1, <2>4, <2>5, <3>3, <4>1, <4>2
    <3> QED BY <3>2, <3>3
  <2> HIDE DEF c
  <2> QED BY <1>1, <2>1, <2>3, <2>5, <2>6, <2>7 DEF FleetInv, Fleet!Silences
<1>8. CASE UNCHANGED Fleet!fleetVars
    BY <1>8 DEF Fleet!fleetVars, FleetInv, Pages
<1> QED BY <1>2, <1>3, <1>4, <1>5, <1>6, <1>7, <1>8 DEF Fleet!Next

\* The sensor reports in the initial state.
LEMMA FleetInit == Fleet!Init => FleetInv
<1> SUFFICES ASSUME Fleet!Init PROVE FleetInv
    OBVIOUS
<1>1. MaxSilences \in Nat
    BY Assumptions DEF Fleet!SilencesAssumption
<1>2. /\ silent = FALSE /\ marked = FALSE /\ raced = FALSE /\ silence = 0 /\ failed = {}
      /\ pages \in [0 .. MaxSilences -> Nat]
      /\ \A k \in 0 .. MaxSilences : pages[k] = 0
    BY <1>1 DEF Fleet!Init
<1>3. /\ sweep \in [Workers -> [at : {"idle", "loaded", "sending"}, claimed : 0 .. MaxSilences]]
      /\ \A w \in Workers : sweep[w].at = "idle"
    BY <1>1 DEF Fleet!Init, Fleet!NotSweeping
<1>4. \A w \in Workers, k \in 0 .. MaxSilences : ~Pages(w, k)
    BY <1>3 DEF Pages
<1>5. \A k \in Fleet!Silences : k \in 0 .. MaxSilences
    BY <1>1 DEF Fleet!Silences
<1>6. silence \in 0 .. MaxSilences
    BY <1>1, <1>2
<1>7. \A k \in Fleet!Silences :
          pages[k] = 0 /\ pages[k] <= 1 /\ \A w \in Workers : ~Pages(w, k)
    BY <1>2, <1>4, <1>5
<1>8. {silent, marked, raced} \subseteq BOOLEAN
    BY <1>2
<1> QED BY <1>2, <1>3, <1>6, <1>7, <1>8 DEF FleetInv

\* What the invariant says of the pages.
LEMMA PagesAre == FleetInv => Fleet!PagedOnce
BY DEF FleetInv, Fleet!PagedOnce, Fleet!Silences, Pages

-----------------------------------------------------------------------------
(* The parts together.                                                     *)

AlertsInv == DigestInv /\ FleetInv

\* A step of the system is one of the digests' or leaves their variables alone; so with the pages.
LEMMA AlertSteps ==
    ASSUME [Next]_vars
    PROVE  /\ Digests!Next \/ UNCHANGED <<clock, last, event, worker, told, delivered, excused>>
           /\ Fleet!Next \/ UNCHANGED Fleet!fleetVars
<1> USE DEF digestVars, fleetVars, Fleet!fleetVars
<1>1. CASE UNCHANGED vars
    BY <1>1 DEF vars
<1>2. CASE Next
    BY <1>2 DEF Next
<1> QED BY <1>1, <1>2

\* What the alerts rely on holds in every reachable state.
THEOREM AlertsInvariant == Spec => []AlertsInv
<1>1. Init => AlertsInv
    BY DigestInit, FleetInit DEF Init, AlertsInv
<1>2. AlertsInv /\ [Next]_vars => AlertsInv'
  <2> SUFFICES ASSUME AlertsInv, [Next]_vars PROVE AlertsInv'
      OBVIOUS
  <2>1. DigestInv'
      BY AlertSteps, DigestKept DEF AlertsInv
  <2>2. FleetInv'
      BY AlertSteps, FleetKept DEF AlertsInv
  <2> QED BY <2>1, <2>2 DEF AlertsInv
<1> QED BY <1>1, <1>2, PTL DEF Spec

(***************************************************************************)
(* For any workers and findings: an event of a digest window that counts   *)
(* as sent was told, no two windows meet, and a silence is paged at most   *)
(* once.                                                                   *)
(***************************************************************************)
THEOREM AlertsCorrect == Spec => []AlertsArrive
<1>1. AlertsInv => AlertsArrive
    BY DigestsAre, PagesAre DEF AlertsInv, AlertsArrive
<1> QED BY <1>1, AlertsInvariant, PTL

-----------------------------------------------------------------------------
(* A SIEM that pulls: the watermark and what was got.                      *)

ExportInv ==
    /\ latest \in [Exports!Ids -> Nat] /\ stamp \in [Exports!Ids -> Nat]
    /\ hour \in Nat /\ mark \in Nat
    /\ Exports!NothingSkipped

\* An answer has all that is due and older than the newest of it.
LEMMA PollKept ==
    ASSUME ExportInv, Exports!Poll
    PROVE  ExportInv'
<1>1. PICK page \in Exports!Pages :
          /\ pulled' = pulled \cup {<<f, latest[f]>> : f \in page}
          /\ mark' \in {latest[f] : f \in page}
          /\ UNCHANGED <<export, hour, latest, stamp, behind, arrivals>>
    BY DEF Exports!Poll
<1>2. PICK g \in page : mark' = latest[g]
    BY <1>1
<1>3. /\ page \subseteq Exports!Ids
      /\ \A f \in Exports!Ids \ page : Exports!Since(f) => ~(latest[f] < latest[g])
    BY <1>2 DEF Exports!Pages, Exports!Since, Exports!Before
<1>4. mark' \in Nat
    BY <1>2, <1>3 DEF ExportInv
<1>5. ASSUME NEW f \in Exports!Ids, latest'[f] # 0, latest'[f] < mark'
      PROVE  Exports!Pulled(f)'
  <2>1. latest[f] \in Nat /\ mark \in Nat /\ latest' = latest
      BY <1>1 DEF ExportInv
  <2>2. CASE latest[f] < mark
      BY <1>1, <1>5, <2>1, <2>2 DEF ExportInv, Exports!NothingSkipped, Exports!Pulled
  <2>3. CASE f \in page
      BY <1>1, <2>1, <2>3 DEF Exports!Pulled
  <2>4. CASE ~(latest[f] < mark) /\ f \notin page
      BY <1>2, <1>3, <1>5, <2>1, <2>4 DEF Exports!Since
  <2> QED BY <2>2, <2>3, <2>4
<1> QED BY <1>1, <1>4, <1>5 DEF ExportInv, Exports!NothingSkipped

\* A finding that is committed behind the watermark is on the list of those.
LEMMA CommitKept ==
    ASSUME ExportInv, NEW f \in Exports!Ids, Exports!Commit(f)
    PROVE  ExportInv'
<1>1. /\ latest' = [latest EXCEPT ![f] = stamp[f]] /\ stamp' = [stamp EXCEPT ![f] = 0]
      /\ UNCHANGED <<export, hour, mark, pulled, arrivals>> /\ behind \subseteq behind'
      /\ stamp[f] < mark => <<f, stamp[f]>> \in behind'
    BY DEF Exports!Commit
<1>2. latest' \in [Exports!Ids -> Nat] /\ stamp' \in [Exports!Ids -> Nat]
    BY <1>1 DEF ExportInv
<1>3. ASSUME NEW g \in Exports!Ids, latest'[g] # 0, latest'[g] < mark'
      PROVE  Exports!Pulled(g)'
  <2>1. CASE g = f
      BY <1>1, <1>3, <2>1 DEF ExportInv, Exports!Pulled
  <2>2. CASE g # f
      BY <1>1, <1>3, <2>2 DEF ExportInv, Exports!NothingSkipped, Exports!Pulled
  <2> QED BY <2>1, <2>2
<1> QED BY <1>1, <1>2, <1>3 DEF ExportInv, Exports!NothingSkipped

\* Every step of the exports keeps what a pull passed.
LEMMA ExportKept ==
    ASSUME ExportInv, Exports!Next \/ UNCHANGED Exports!pollVars
    PROVE  ExportInv'
<1>1. CASE UNCHANGED Exports!pollVars
    BY <1>1 DEF Exports!pollVars, ExportInv, Exports!NothingSkipped, Exports!Pulled
<1>2. ASSUME NEW f \in Exports!Ids, Exports!Stamp(f)
      PROVE  ExportInv'
    BY <1>2 DEF Exports!Stamp, ExportInv, Exports!NothingSkipped, Exports!Pulled
<1>3. CASE Exports!Tick
    BY <1>3 DEF Exports!Tick, ExportInv, Exports!NothingSkipped, Exports!Pulled
<1> QED BY <1>1, <1>2, <1>3, PollKept, CommitKept DEF Exports!Next

\* At first nothing was pulled.
LEMMA ExportInit ==
    ASSUME Exports!Init
    PROVE  ExportInv
BY DEF Exports!Init, ExportInv, Exports!NothingSkipped

-----------------------------------------------------------------------------
(* The files of a branch: what the saved index stands for.                 *)

\* The modules take their Cardinality from one library module.
LEMMA OneSize ==
    \A S : /\ Files!Cardinality(S) = Cardinality(S)
           /\ Marks!Cardinality(S) = Cardinality(S)
           /\ Chains!Cardinality(S) = Cardinality(S)
BY DEF Files!Cardinality, Marks!Cardinality, Chains!Cardinality, Cardinality

\* The files not read yet that are in the first n places of a list.
Unread == old \ seen
Within(files, list, n) == {q \in files : Files!Place(q, list) <= n}

\* A set of files is finite, and a place in one is a number up to its size.
LEMMA PlaceIs ==
    ASSUME NEW list \in SUBSET Files!Paths
    PROVE  /\ IsFiniteSet(list) /\ Cardinality(list) \in Nat
           /\ \A q : Files!Place(q, list) = Cardinality({r \in list : r <= q})
           /\ \A q : Files!Place(q, list) \in Nat /\ Files!Place(q, list) <= Cardinality(list)
<1>1. NPaths \in Nat
    BY Assumptions DEF Files!TreeAssumption
<1>2. IsFiniteSet(list) /\ Cardinality(list) \in Nat
  <2>1. IsFiniteSet(Files!Paths)
      BY <1>1, FS_Interval, 1 \in Int, NPaths \in Int DEF Files!Paths
  <2> QED BY <2>1, FS_Subset, FS_CardinalityType
<1>3. \A q : Files!Place(q, list) = Cardinality({r \in list : r <= q})
    BY OneSize DEF Files!Place
<1>4. ASSUME NEW q
      PROVE  Files!Place(q, list) \in Nat /\ Files!Place(q, list) <= Cardinality(list)
  <2> DEFINE below == {r \in list : r <= q}
  <2>1. below \in SUBSET list /\ Files!Place(q, list) = Cardinality(below)
      BY <1>3
  <2> HIDE DEF below
  <2>2. /\ IsFiniteSet(below) /\ Cardinality(below) <= Cardinality(list)
        /\ Cardinality(below) \in Nat
      BY <1>2, <2>1, FS_Subset, FS_CardinalityType
  <2> QED BY <2>1, <2>2
<1> QED BY <1>2, <1>3, <1>4

\* Two files of a list have different places.
LEMMA PlacesDiffer ==
    ASSUME NEW list \in SUBSET Files!Paths, NEW p \in list, NEW q \in list, p < q
    PROVE  Files!Place(p, list) < Files!Place(q, list)
<1> DEFINE A == {r \in list : r <= p}
           B == {r \in list : r <= q}
<1>1. /\ A \in SUBSET B /\ q \in B /\ q \notin A
  <2>1. list \subseteq Nat
      BY Assumptions DEF Files!Paths, Files!TreeAssumption
  <2>2. (\A r \in list : r <= p => r <= q) /\ q <= q /\ ~(q <= p)
      BY <2>1
  <2> QED BY <2>2
<1>2. IsFiniteSet(B)
    BY PlaceIs, FS_Subset
<1>3. Cardinality(A) <= Cardinality(B) /\ Cardinality(A) # Cardinality(B)
    BY <1>1, <1>2, FS_Subset
<1>4. /\ Files!Place(p, list) = Cardinality(A) /\ Files!Place(q, list) = Cardinality(B)
      /\ Files!Place(p, list) \in Nat /\ Files!Place(q, list) \in Nat
    BY PlaceIs
<1> HIDE DEF A, B
<1> QED BY <1>3, <1>4

\* No more than k files of a list have their places among k in a row.
LEMMA PlacesInARow ==
    ASSUME NEW list \in SUBSET Files!Paths, NEW n \in Nat, NEW k \in Nat
    PROVE  LET some == {q \in list : n < Files!Place(q, list) /\ Files!Place(q, list) <= n + k}
           IN  IsFiniteSet(some) /\ Cardinality(some) <= k
<1> DEFINE some == {q \in list : n < Files!Place(q, list) /\ Files!Place(q, list) <= n + k}
           f == [q \in some |-> Files!Place(q, list)]
<1>1. \A q \in some : f[q] \in n + 1 .. n + k
    BY PlaceIs
<1>2. ASSUME NEW p \in some, NEW q \in some, f[p] = f[q]
      PROVE  p = q
  <2>1. p \in Nat /\ q \in Nat
      BY Assumptions DEF Files!Paths, Files!TreeAssumption
  <2> QED BY <1>2, <2>1, PlacesDiffer, PlaceIs
<1>3. f \in Injection(some, n + 1 .. n + k)
    BY <1>1, <1>2 DEF Injection, IsInjective
<1>4. IsFiniteSet(n + 1 .. n + k) /\ Cardinality(n + 1 .. n + k) = k
    BY FS_Interval
<1> HIDE DEF f, some
<1>5. IsFiniteSet(some) /\ Cardinality(some) <= k
    BY <1>3, <1>4, FS_Injection
<1> QED BY <1>5 DEF some

(***************************************************************************)
(* The index into one list, used for a later one: it takes in at most as   *)
(* many more of the files as the list has lost.                            *)
(***************************************************************************)
LEMMA IndexMoves ==
    ASSUME NEW list \in SUBSET Files!Paths, NEW after \in SUBSET Files!Paths,
           NEW files \in SUBSET list, NEW n \in Nat
    PROVE  /\ Cardinality(Within(files, list, n)) \in Nat
           /\ Cardinality(Within(files, after, n)) \in Nat
           /\ Cardinality(list \ after) \in Nat
           /\ Cardinality(Within(files, after, n))
                 <= Cardinality(Within(files, list, n)) + Cardinality(list \ after)
<1> DEFINE k    == Cardinality(list \ after)
           some == {q \in list : n < Files!Place(q, list) /\ Files!Place(q, list) <= n + k}
           A    == Within(files, list, n)
           B    == Within(files, after, n)
<1>1. /\ IsFiniteSet(list) /\ IsFiniteSet(list \ after) /\ k \in Nat
      /\ IsFiniteSet(A) /\ IsFiniteSet(B) /\ Cardinality(A) \in Nat /\ Cardinality(B) \in Nat
  <2>1. IsFiniteSet(list)
      BY PlaceIs
  <2>2. A \in SUBSET list /\ B \in SUBSET list /\ list \ after \in SUBSET list
      BY DEF Within
  <2> HIDE DEF A, B
  <2> QED BY <2>1, <2>2, FS_Subset, FS_CardinalityType
<1>2. IsFiniteSet(some) /\ Cardinality(some) <= k /\ Cardinality(some) \in Nat
    BY <1>1, PlacesInARow, FS_CardinalityType
<1>3. ASSUME NEW q \in list
      PROVE  Files!Place(q, list) <= Files!Place(q, after) + k
  <2> DEFINE L == {r \in list : r <= q}
             T == {r \in after : r <= q}
  <2>1. L \in SUBSET (T \cup (list \ after))
      OBVIOUS
  <2>2. /\ IsFiniteSet(T) /\ Cardinality(T) = Files!Place(q, after) /\ Cardinality(T) \in Nat
        /\ Cardinality(L) = Files!Place(q, list) /\ Cardinality(L) \in Nat
    <3>1. T \in SUBSET after
        OBVIOUS
    <3> QED BY <3>1, PlaceIs, FS_Subset
  <2> HIDE DEF L, T
  <2>3. /\ IsFiniteSet(T \cup (list \ after))
        /\ Cardinality(T \cup (list \ after)) <= Cardinality(T) + k
    <3>1. Cardinality(T \cap (list \ after)) \in Nat
        BY <2>2, FS_Intersection, FS_CardinalityType
    <3>2. /\ IsFiniteSet(T \cup (list \ after))
          /\ Cardinality(T \cup (list \ after)) =
                Cardinality(T) + Cardinality(list \ after) - Cardinality(T \cap (list \ after))
        BY <1>1, <2>2, FS_Union
    <3> QED BY <1>1, <2>2, <3>1, <3>2
  <2>4. Cardinality(L) <= Cardinality(T \cup (list \ after))
      BY <2>1, <2>3, FS_Subset
  <2>5. Cardinality(T \cup (list \ after)) \in Nat
      BY <2>3, FS_CardinalityType
  <2> HIDE DEF k
  <2> QED BY <1>1, <2>2, <2>3, <2>4, <2>5
<1>4. B \in SUBSET (A \cup some)
  <2> SUFFICES ASSUME NEW q \in B PROVE q \in A \cup some
      OBVIOUS
  <2>1. q \in files /\ q \in list /\ Files!Place(q, after) <= n
      BY DEF Within
  <2>2. Files!Place(q, list) \in Nat /\ Files!Place(q, after) \in Nat
      BY PlaceIs
  <2>3. Files!Place(q, list) <= n + k
      BY <1>1, <1>3, <2>1, <2>2
  <2> HIDE DEF k
  <2> QED BY <2>1, <2>2, <2>3 DEF Within
<1> HIDE DEF A, B, some, k
<1>5. IsFiniteSet(A \cup some) /\ Cardinality(A \cup some) <= Cardinality(A) + Cardinality(some)
  <2>1. Cardinality(A \cap some) \in Nat
      BY <1>1, FS_Intersection, FS_CardinalityType
  <2>2. /\ IsFiniteSet(A \cup some)
        /\ Cardinality(A \cup some) =
              Cardinality(A) + Cardinality(some) - Cardinality(A \cap some)
      BY <1>1, <1>2, FS_Union
  <2> QED BY <1>1, <1>2, <2>1, <2>2
<1>6. Cardinality(B) <= Cardinality(A \cup some) /\ Cardinality(A \cup some) \in Nat
    BY <1>4, <1>5, FS_Subset, FS_CardinalityType
<1>7. Cardinality(B) <= Cardinality(A) + k
    BY <1>1, <1>2, <1>5, <1>6
<1> QED BY <1>1, <1>7 DEF A, B, k

(***************************************************************************)
(* Of the files that were there from the first listing on, those unread    *)
(* in front of the index are no more than were removed; in a sync, no more *)
(* than were removed before it listed them.                                *)
(***************************************************************************)
FilesInv ==
    /\ tree \subseteq Files!Paths /\ old \subseteq tree
    /\ removed \in Nat /\ treeCursor \in Nat /\ done \in BOOLEAN
    /\ pass \in [on : BOOLEAN, list : SUBSET Files!Paths, i : Nat, left : Nat]
    /\ pass.on => ~done
    /\ ~done => Cardinality(Within(Unread, tree, treeCursor)) <= removed
    /\ done => Cardinality(Unread) <= removed
    /\ pass.on =>
          /\ old \subseteq pass.list
          /\ Cardinality(Within(Unread, pass.list, pass.i)) + Cardinality(pass.list \ tree)
                <= removed

\* What there is fewer of, there is no more of.
LEMMA Fewer ==
    ASSUME NEW list \in SUBSET Files!Paths, NEW S \in SUBSET list, NEW T \in SUBSET S
    PROVE  /\ IsFiniteSet(S) /\ IsFiniteSet(T)
           /\ Cardinality(T) <= Cardinality(S)
           /\ Cardinality(S) \in Nat /\ Cardinality(T) \in Nat
BY PlaceIs, FS_Subset, FS_CardinalityType

\* Reading more of the files, or removing some, leaves no more of them unread.
LEMMA FewerUnread ==
    ASSUME NEW list \in SUBSET Files!Paths, NEW n \in Nat,
           NEW S \in SUBSET list, NEW T \in SUBSET S
    PROVE  /\ Cardinality(Within(T, list, n)) <= Cardinality(Within(S, list, n))
           /\ Cardinality(Within(T, list, n)) \in Nat /\ Cardinality(Within(S, list, n)) \in Nat
<1>1. Within(S, list, n) \in SUBSET list /\ Within(T, list, n) \in SUBSET Within(S, list, n)
    BY DEF Within
<1> QED BY <1>1, Fewer

\* Edits of the branch, whether or not a sync is in progress.
LEMMA EditKept ==
    ASSUME FilesInv, NEW p \in Files!Paths, Files!AddFile(p) \/ Files!RemoveFile(p)
    PROVE  FilesInv'
<1>1. /\ UNCHANGED <<done, treeCursor, pass, seen>> /\ removed \in Nat /\ removed' \in Nat
      /\ tree \in SUBSET Files!Paths /\ tree' \in SUBSET Files!Paths
      /\ old \subseteq tree /\ old' \subseteq tree' /\ old' \subseteq old
      /\ Unread \in SUBSET tree /\ Unread' \in SUBSET Unread /\ Unread' \in SUBSET tree'
    BY DEF FilesInv, Files!AddFile, Files!RemoveFile, Unread
<1>2. /\ removed' = removed + Cardinality(tree \ tree')
      /\ Cardinality(tree \ tree') \in Nat
  <2>1. CASE Files!AddFile(p)
    <3>1. tree \ tree' = {} /\ removed' = removed
        BY <2>1 DEF Files!AddFile
    <3> QED BY <1>1, <3>1, FS_EmptySet
  <2>2. CASE Files!RemoveFile(p)
    <3>1. tree \ tree' = {p} /\ removed' = removed + 1
        BY <2>2 DEF Files!RemoveFile
    <3>2. Cardinality({p}) = 1
        BY FS_Singleton
    <3>3. Cardinality(tree \ tree') = 1
        BY <3>1, <3>2, Zenon
    <3> QED BY <1>1, <3>1, <3>3
  <2> QED BY <2>1, <2>2
<1>3. ASSUME ~done
      PROVE  Cardinality(Within(Unread', tree', treeCursor)) <= removed'
  <2>1. treeCursor \in Nat /\ Cardinality(Within(Unread, tree, treeCursor)) <= removed
      BY <1>3 DEF FilesInv
  <2>2. /\ Cardinality(Within(Unread', tree', treeCursor))
              <= Cardinality(Within(Unread', tree, treeCursor)) + Cardinality(tree \ tree')
        /\ Cardinality(Within(Unread', tree, treeCursor)) \in Nat
        /\ Cardinality(Within(Unread', tree', treeCursor)) \in Nat
      BY <1>1, <2>1, IndexMoves
  <2>3. /\ Cardinality(Within(Unread', tree, treeCursor))
              <= Cardinality(Within(Unread, tree, treeCursor))
        /\ Cardinality(Within(Unread, tree, treeCursor)) \in Nat
      BY <1>1, <2>1, FewerUnread
  <2> QED BY <1>1, <1>2, <2>1, <2>2, <2>3
<1>4. ASSUME done
      PROVE  Cardinality(Unread') <= removed'
  <2>1. Cardinality(Unread) <= removed
      BY <1>4 DEF FilesInv
  <2>2. /\ Cardinality(Unread') <= Cardinality(Unread)
        /\ Cardinality(Unread) \in Nat /\ Cardinality(Unread') \in Nat
      BY <1>1, Fewer
  <2> QED BY <1>1, <1>2, <2>1, <2>2
<1>5. ASSUME pass.on
      PROVE  /\ old' \subseteq pass.list
             /\ Cardinality(Within(Unread', pass.list, pass.i)) + Cardinality(pass.list \ tree')
                   <= removed'
  <2>1. /\ pass.list \in SUBSET Files!Paths /\ pass.i \in Nat /\ old \subseteq pass.list
        /\ Cardinality(Within(Unread, pass.list, pass.i)) + Cardinality(pass.list \ tree)
              <= removed
      BY <1>5 DEF FilesInv
  <2>2. Unread \in SUBSET pass.list
      BY <2>1 DEF Unread
  <2>3. /\ Cardinality(Within(Unread', pass.list, pass.i))
              <= Cardinality(Within(Unread, pass.list, pass.i))
        /\ Cardinality(Within(Unread, pass.list, pass.i)) \in Nat
        /\ Cardinality(Within(Unread', pass.list, pass.i)) \in Nat
      BY <1>1, <2>1, <2>2, FewerUnread
  <2>4. /\ Cardinality(pass.list \ tree') <= Cardinality(pass.list \ tree)
                                              + Cardinality(tree \ tree')
        /\ Cardinality(pass.list \ tree') \in Nat /\ Cardinality(pass.list \ tree) \in Nat
    <3> DEFINE gone == pass.list \ tree
               lost == tree \ tree'
    <3>1. IsFiniteSet(gone) /\ IsFiniteSet(lost) /\ IsFiniteSet(pass.list \ tree')
        BY <1>1, <2>1, PlaceIs, FS_Difference
    <3>2. (pass.list \ tree') \in SUBSET (gone \cup lost)
        OBVIOUS
    <3> HIDE DEF gone, lost
    <3>3. /\ IsFiniteSet(gone \cup lost)
          /\ Cardinality(gone \cup lost)
                = Cardinality(gone) + Cardinality(lost) - Cardinality(gone \cap lost)
          /\ Cardinality(gone \cap lost) \in Nat
          /\ Cardinality(gone) \in Nat /\ Cardinality(lost) \in Nat
        BY <3>1, FS_Union, FS_Intersection, FS_CardinalityType
    <3>4. Cardinality(pass.list \ tree') <= Cardinality(gone \cup lost)
        BY <3>2, <3>3, FS_Subset
    <3>5. Cardinality(pass.list \ tree') \in Nat /\ Cardinality(gone \cup lost) \in Nat
        BY <3>1, <3>3, FS_CardinalityType
    <3>6. Cardinality(pass.list \ tree') <= Cardinality(gone) + Cardinality(lost)
        BY <3>3, <3>4, <3>5
    <3> QED BY <3>3, <3>5, <3>6 DEF gone, lost
  <2> QED BY <1>1, <1>2, <2>1, <2>3, <2>4
<1> QED BY <1>1, <1>3, <1>4, <1>5 DEF FilesInv

\* The files of the next places, and where a batch ends.
LEMMA BatchIs ==
    ASSUME FilesInv, pass.on
    PROVE  /\ pass.list \in SUBSET Files!Paths /\ pass.i \in Nat /\ pass.left \in Nat
           /\ ~done /\ old \subseteq pass.list
           /\ Files!BatchEnd \in Nat /\ Files!BatchEnd <= pass.i + pass.left
<1>1. /\ pass.list \in SUBSET Files!Paths /\ pass.i \in Nat /\ pass.left \in Nat
      /\ ~done /\ old \subseteq pass.list
    BY DEF FilesInv
<1>2. Batch \in Nat /\ Cardinality(pass.list) \in Nat
    BY <1>1, PlaceIs, Assumptions DEF Files!TreeAssumption
<1>3. Files!BatchEnd = Files!Least(Files!Least(pass.i + Batch, pass.i + pass.left),
                                   Cardinality(pass.list))
    BY OneSize DEF Files!BatchEnd
<1> QED BY <1>1, <1>2, <1>3 DEF Files!Least

\* Fetching up to place n leaves no more unread before it than before.
LEMMA FetchedUpTo ==
    ASSUME FilesInv, pass.on, NEW n \in Nat, n >= pass.i,
           seen' = seen \cup Files!Fetched(n), old' = old
    PROVE  /\ Cardinality(Within(Unread', pass.list, n)) + Cardinality(pass.list \ tree)
                 <= removed
           /\ Unread' \in SUBSET Unread
           /\ Cardinality(Within(Unread', pass.list, n)) \in Nat
           /\ Cardinality(pass.list \ tree) \in Nat
<1>1. /\ pass.list \in SUBSET Files!Paths /\ pass.i \in Nat /\ old \subseteq pass.list
      /\ tree \in SUBSET Files!Paths /\ removed \in Nat
      /\ Cardinality(Within(Unread, pass.list, pass.i)) + Cardinality(pass.list \ tree)
            <= removed
    BY DEF FilesInv
<1>2. Unread' \in SUBSET Unread /\ Unread \in SUBSET pass.list
    BY <1>1 DEF Unread
<1>3. Within(Unread', pass.list, n) \in SUBSET Within(Unread, pass.list, pass.i)
  <2> SUFFICES ASSUME NEW q \in Within(Unread', pass.list, n)
               PROVE  q \in Within(Unread, pass.list, pass.i)
      OBVIOUS
  <2>1. /\ q \in Unread /\ q \in pass.list /\ q \notin Files!Fetched(n)
        /\ Files!Place(q, pass.list) <= n /\ Files!Place(q, pass.list) \in Nat
      BY <1>1, <1>2, PlaceIs DEF Within, Unread
  <2> QED BY <1>1, <2>1 DEF Within, Files!Fetched
<1>4. Within(Unread, pass.list, pass.i) \in SUBSET pass.list
    BY <1>2 DEF Within
<1>5. /\ Cardinality(Within(Unread', pass.list, n)) <= Cardinality(Within(Unread, pass.list, pass.i))
      /\ Cardinality(Within(Unread, pass.list, pass.i)) \in Nat
      /\ Cardinality(Within(Unread', pass.list, n)) \in Nat
    BY <1>1, <1>3, <1>4, Fewer
<1>6. Cardinality(pass.list \ tree) \in Nat
    BY <1>1, PlaceIs, FS_Difference, FS_CardinalityType
<1> QED BY <1>1, <1>2, <1>5, <1>6

\* A sync that stops at place n and saves it: the next list may be a shorter one.
LEMMA StopKept ==
    ASSUME FilesInv, pass.on, NEW n \in Nat, n >= pass.i,
           seen' = seen \cup Files!Fetched(n), treeCursor' = n, pass' = Files!Idle,
           UNCHANGED <<tree, done, old, removed, edits, faults>>
    PROVE  FilesInv'
<1>1. /\ Cardinality(Within(Unread', pass.list, n)) + Cardinality(pass.list \ tree) <= removed
      /\ Unread' \in SUBSET Unread
      /\ Cardinality(Within(Unread', pass.list, n)) \in Nat
      /\ Cardinality(pass.list \ tree) \in Nat
    BY FetchedUpTo
<1>2. /\ pass.list \in SUBSET Files!Paths /\ ~done /\ tree \in SUBSET Files!Paths
      /\ removed \in Nat /\ Unread' \in SUBSET pass.list
    BY <1>1 DEF FilesInv, Unread
<1>3. /\ Cardinality(Within(Unread', tree, n))
           <= Cardinality(Within(Unread', pass.list, n)) + Cardinality(pass.list \ tree)
      /\ Cardinality(Within(Unread', tree, n)) \in Nat
    BY <1>2, IndexMoves
<1>4. Cardinality(Within(Unread', tree, n)) <= removed
    BY <1>1, <1>2, <1>3
<1> QED BY <1>2, <1>4 DEF FilesInv, Files!Idle

\* A batch reads the files it passes, or stops before them.
LEMMA FetchKept ==
    ASSUME FilesInv, Files!FetchBatch
    PROVE  FilesInv'
<1> SUFFICES ASSUME NEW n, n = Files!BatchEnd PROVE FilesInv'
    OBVIOUS
<1>1. /\ pass.on /\ n > pass.i /\ seen' = seen \cup Files!Fetched(n)
      /\ pass' = [pass EXCEPT !.i = n, !.left = @ - (n - pass.i)]
      /\ UNCHANGED <<tree, done, treeCursor, old, removed, edits, faults>>
    BY DEF Files!FetchBatch
<1>2. /\ n \in Nat /\ n <= pass.i + pass.left /\ pass.i \in Nat /\ pass.left \in Nat
      /\ pass.list \in SUBSET Files!Paths /\ ~done
    BY <1>1, BatchIs
<1>3. /\ Cardinality(Within(Unread', pass.list, n)) + Cardinality(pass.list \ tree) <= removed
      /\ Unread' \in SUBSET Unread
    BY <1>1, <1>2, FetchedUpTo
<1>4. /\ tree \in SUBSET Files!Paths /\ Unread \in SUBSET tree /\ treeCursor \in Nat
      /\ removed \in Nat /\ Cardinality(Within(Unread, tree, treeCursor)) <= removed
    BY <1>2 DEF FilesInv, Unread
<1>5. Cardinality(Within(Unread', tree, treeCursor)) <= removed
  <2>1. /\ Cardinality(Within(Unread', tree, treeCursor))
             <= Cardinality(Within(Unread, tree, treeCursor))
        /\ Cardinality(Within(Unread', tree, treeCursor)) \in Nat
        /\ Cardinality(Within(Unread, tree, treeCursor)) \in Nat
      BY <1>3, <1>4, FewerUnread
  <2> QED BY <1>4, <2>1
<1>6. /\ pass' \in [on : BOOLEAN, list : SUBSET Files!Paths, i : Nat, left : Nat]
      /\ pass'.list = pass.list /\ pass'.i = n
  <2>1. /\ pass \in [on : BOOLEAN, list : SUBSET Files!Paths, i : Nat, left : Nat]
        /\ pass' = [pass EXCEPT !.i = n, !.left = pass.left - (n - pass.i)]
      BY <1>1 DEF FilesInv
  <2>2. pass' = [on |-> pass.on, list |-> pass.list, i |-> n, left |-> pass.left - (n - pass.i)]
      BY <2>1
  <2>3. pass.left - (n - pass.i) \in Nat
      BY <1>2
  <2> QED BY <2>1, <2>2, <2>3, <1>2
<1> QED BY <1>1, <1>2, <1>3, <1>4, <1>5, <1>6 DEF FilesInv

\* A pass over a tree starts at its cursor.
LEMMA StartPassKept ==
    ASSUME FilesInv, Files!StartPass
    PROVE  FilesInv'
<1>1. /\ ~done /\ pass' = [on |-> TRUE, list |-> tree, i |-> treeCursor, left |-> FileBudget]
      /\ UNCHANGED <<tree, done, treeCursor, old, removed, seen, edits, faults>>
    BY DEF Files!StartPass
<1>2. FileBudget \in Nat
    BY Assumptions DEF Files!TreeAssumption
<1>3. /\ tree \in SUBSET Files!Paths /\ old \subseteq tree /\ treeCursor \in Nat /\ removed \in Nat
      /\ Cardinality(Within(Unread, tree, treeCursor)) <= removed
    BY <1>1 DEF FilesInv
<1>4. Unread' = Unread /\ Within(Unread, tree, treeCursor) \in SUBSET tree
    BY <1>1, <1>3 DEF Unread, Within
<1>5. Cardinality(tree \ tree) = 0 /\ Cardinality(Within(Unread, tree, treeCursor)) \in Nat
  <2>1. tree \ tree = {}
      OBVIOUS
  <2>2. Cardinality(tree \ tree) = 0
      BY <2>1, FS_EmptySet, Zenon
  <2> QED BY <1>3, <1>4, <2>2, Fewer
<1>6. Cardinality(Within(Unread, tree, treeCursor)) + Cardinality(tree \ tree) <= removed
    BY <1>3, <1>5
<1>7. /\ pass'.list = tree /\ pass'.i = treeCursor
      /\ pass' \in [on : BOOLEAN, list : SUBSET Files!Paths, i : Nat, left : Nat]
    BY <1>1, <1>2, <1>3
<1>8. Cardinality(Within(Unread', pass'.list, pass'.i)) + Cardinality(pass'.list \ tree)
         <= removed
    BY <1>4, <1>6, <1>7
<1> QED BY <1>1, <1>3, <1>4, <1>7, <1>8 DEF FilesInv

\* At the end of the list, what is before the index is everything.
LEMMA CompleteKept ==
    ASSUME FilesInv, Files!CompletePass
    PROVE  FilesInv'
<1>1. /\ pass.on /\ pass.i >= Cardinality(pass.list) /\ done' /\ treeCursor' = 0
      /\ pass' = Files!Idle /\ UNCHANGED <<tree, old, removed, seen, edits, faults>>
    BY OneSize DEF Files!CompletePass
<1>2. /\ pass.list \in SUBSET Files!Paths /\ old \subseteq pass.list /\ pass.i \in Nat
      /\ tree \subseteq Files!Paths /\ old \subseteq tree /\ removed \in Nat
      /\ Cardinality(Within(Unread, pass.list, pass.i)) + Cardinality(pass.list \ tree)
            <= removed
    BY <1>1 DEF FilesInv
<1>3. Unread \in SUBSET pass.list /\ Unread' = Unread
    BY <1>1, <1>2 DEF Unread
<1>4. Within(Unread, pass.list, pass.i) = Unread
  <2> SUFFICES ASSUME NEW q \in Unread PROVE Files!Place(q, pass.list) <= pass.i
      BY DEF Within
  <2> QED BY <1>1, <1>2, PlaceIs
<1>5. Cardinality(Unread) \in Nat /\ Cardinality(pass.list \ tree) \in Nat
    BY <1>2, <1>3, Fewer, PlaceIs, FS_Difference, FS_CardinalityType
<1>6. Cardinality(Unread) <= removed
    BY <1>2, <1>4, <1>5
<1> QED BY <1>1, <1>2, <1>3, <1>6 DEF FilesInv, Files!Idle

\* Every step of the file scan keeps what the cursor passed.
LEMMA FilesKept ==
    ASSUME FilesInv, Files!Next \/ UNCHANGED treeVars
    PROVE  FilesInv'
<1>1. CASE UNCHANGED treeVars
    BY <1>1 DEF treeVars, FilesInv, Unread, Within
<1>2. CASE Files!CutPass
  <2>1. /\ pass.on /\ treeCursor' = pass.i /\ pass' = Files!Idle /\ seen' = seen
        /\ UNCHANGED <<tree, done, old, removed, edits, faults>>
      BY <1>2 DEF Files!CutPass
  <2>2. PICK n \in Nat : n = pass.i
      BY <2>1, BatchIs
  <2>3. \A p : Files!Place(p, pass.list) \in Nat
      BY <2>1, BatchIs, PlaceIs
  <2>4. Files!Fetched(n) = {}
      BY <2>2, <2>3 DEF Files!Fetched
  <2> QED BY <2>1, <2>2, <2>4, StopKept
<1>3. ASSUME NEW n \in 0 .. NPaths, Files!RateLimit(n)
      PROVE  FilesInv'
  <2>1. n \in Nat /\ pass.on /\ n >= pass.i
      BY <1>3, BatchIs DEF Files!RateLimit
  <2> QED BY <1>3, <2>1, StopKept DEF Files!RateLimit
<1>4. CASE Files!LosePass
    BY <1>4 DEF Files!LosePass, Files!Idle, FilesInv, Unread, Within
<1> QED BY <1>1, <1>2, <1>3, <1>4, EditKept, StartPassKept, FetchKept, CompleteKept
        DEF Files!Next

\* At first no tree is done.
LEMMA FilesInit ==
    ASSUME Files!Init
    PROVE  FilesInv
<1>1. /\ tree \subseteq Files!Paths /\ old = tree /\ removed = 0 /\ treeCursor = 0 /\ ~done
      /\ pass = Files!Idle /\ done \in BOOLEAN
  <2>1. PICK n \in Files!Paths : tree = 1 .. n
      BY DEF Files!Init
  <2>2. tree \subseteq Files!Paths
      BY <2>1, Assumptions DEF Files!Paths, Files!TreeAssumption
  <2> QED BY <2>2 DEF Files!Init
<1>2. Within(Unread, tree, treeCursor) = {}
  <2> SUFFICES ASSUME NEW q \in tree PROVE ~(Files!Place(q, tree) <= 0)
      BY <1>1 DEF Within, Unread
  <2>1. {r \in tree : r <= q} \in SUBSET tree /\ q \in {r \in tree : r <= q}
      BY <1>1, Assumptions DEF Files!Paths, Files!TreeAssumption
  <2>2. Cardinality({r \in tree : r <= q}) # 0
    <3> DEFINE below == {r \in tree : r <= q}
    <3>1. IsFiniteSet(below) /\ below # {}
        BY <1>1, <2>1, Fewer
    <3> HIDE DEF below
    <3>2. Cardinality(below) # 0
        BY <3>1, FS_EmptySet
    <3> QED BY <3>2 DEF below
  <2> QED BY <1>1, <2>2, PlaceIs
<1>3. Cardinality(Within(Unread, tree, treeCursor)) = 0
    BY <1>2, FS_EmptySet, Zenon
<1> QED BY <1>1, <1>3 DEF FilesInv, Files!Idle

\* A tree that counts as done is read, but for what the removals cost.
LEMMA FilesAre ==
    ASSUME FilesInv
    PROVE  Files!FilesScanned
BY OneSize DEF FilesInv, Files!FilesScanned, Unread

-----------------------------------------------------------------------------
(* The commits of a branch: what the watermark stands for.                 *)

Counts == [Commits!Commits -> 0 .. Tries - 1]

CommitTypes ==
    /\ landed \subseteq Commits!Commits /\ read \subseteq landed /\ missed \subseteq landed
    /\ commitCursor \in [since : Commits!Dates, last : 0 .. NCommits, fails : Counts,
                         pushed : SUBSET landed]
    /\ commitSync \in [at : {"idle", "list", "read"}, pushed : SUBSET landed,
                       list : SUBSET landed, tried : SUBSET landed, got : SUBSET landed,
                       fails : Counts, cut : BOOLEAN]
    /\ commitSync.tried \subseteq commitSync.list /\ commitSync.got \subseteq commitSync.tried
    /\ commitSync.at # "read" => commitSync.list = {}

\* A commit that no sync has to come to any more.
Settled(c) == c \in read \cup missed

(***************************************************************************)
(* What the cursor has passed is settled, and so is the push it has seen.  *)
(***************************************************************************)
BehindIsSettled ==
    /\ \A c \in landed : CommitDate[c] < commitCursor.since => Settled(c)
    /\ \A c \in commitCursor.pushed : Settled(c)
    /\ commitCursor.last # 0 => Settled(commitCursor.last)

(***************************************************************************)
(* A sync that reads has before it, or has settled, every commit from the  *)
(* watermark on, but for those that came after its listing and are later   *)
(* than all of it; those it tried it got, or owes.                         *)
(***************************************************************************)
ListIsWhole ==
    /\ \A c \in commitSync.got : Settled(c)
    /\ commitSync.at = "read" => \A c \in landed :
          CommitDate[c] >= commitCursor.since
              => \/ c \in commitSync.list \/ Settled(c)
                 \/ (/\ c \notin commitSync.pushed
                     /\ \A d \in commitSync.list : CommitDate[d] <= CommitDate[c])
    /\ \A c \in commitSync.tried \ commitSync.got : commitSync.fails[c] > 0

CommitsInv == CommitTypes /\ BehindIsSettled /\ ListIsWhole

\* The dates and the counts are numbers.
LEMMA DatesAre ==
    /\ NCommits \in Nat /\ Commits!Commits = 1 .. NCommits /\ Tries \in Nat \ {0}
    /\ CommitDate \in [Commits!Commits -> Nat \ {0}]
    /\ \A c \in Commits!Commits : CommitDate[c] \in Nat /\ CommitDate[c] \in Commits!Dates
    /\ Commits!Dates \subseteq Nat
BY Assumptions DEF Commits!DateAssumption, Commits!Commits, Commits!Dates

\* At first no commit was landed.
LEMMA CommitsInit ==
    ASSUME Commits!Init
    PROVE  CommitsInv
<1>1. [c \in Commits!Commits |-> 0] \in Counts
    BY DatesAre DEF Counts
<1>2. CommitTypes
    BY <1>1, DatesAre DEF CommitTypes, Commits!Init, Commits!Idle, Commits!Dates
<1> QED BY <1>2 DEF CommitsInv, BehindIsSettled, ListIsWhole, Commits!Init, Commits!Idle

\* Nothing that is settled becomes unsettled.
LEMMA LandKept ==
    ASSUME CommitsInv, NEW new \in SUBSET Commits!Commits, Commits!Land(new)
    PROVE  CommitsInv'
<1>1. /\ landed' = landed \cup new /\ new \cap landed = {} /\ UNCHANGED <<commitCursor, commitSync, read>>
      /\ missed' = missed \cup
             {c \in new : \/ CommitDate[c] < commitCursor.since
                          \/ \E d \in commitSync.list : CommitDate[c] < CommitDate[d]}
    BY DEF Commits!Land
<1>2. CommitTypes'
    BY <1>1 DEF CommitsInv, CommitTypes
<1>3. \A c : Settled(c) => Settled(c)'
    BY <1>1 DEF Settled
<1>4. BehindIsSettled'
    BY <1>1, <1>3 DEF CommitsInv, BehindIsSettled, Settled
<1>5. ListIsWhole'
  <2>1. ASSUME NEW c \in landed', commitSync.at = "read", CommitDate[c] >= commitCursor.since,
               c \notin commitSync.list, ~Settled(c)'
        PROVE  /\ c \notin commitSync.pushed
               /\ \A d \in commitSync.list : CommitDate[d] <= CommitDate[c]
    <3>1. CASE c \in landed
        BY <1>3, <2>1, <3>1 DEF CommitsInv, ListIsWhole
    <3>2. CASE c \in new
      <4>1. c \notin commitSync.pushed
          BY <1>1, <3>2 DEF CommitsInv, CommitTypes
      <4>2. ASSUME NEW d \in commitSync.list
            PROVE  CommitDate[d] <= CommitDate[c]
        <5>1. ~(CommitDate[c] < CommitDate[d])
            BY <1>1, <2>1, <3>2 DEF Settled
        <5>2. CommitDate[c] \in Nat /\ CommitDate[d] \in Nat
            BY <3>2, DatesAre DEF CommitsInv, CommitTypes
        <5> QED BY <5>1, <5>2
      <4> QED BY <4>1, <4>2
    <3> QED BY <1>1, <3>1, <3>2
  <2> QED BY <1>1, <1>3, <2>1 DEF CommitsInv, ListIsWhole
<1> QED BY <1>2, <1>4, <1>5 DEF CommitsInv

\* A sync that is begun, or lost, has nothing before it.
LEMMA StartCommitsKept ==
    ASSUME CommitsInv, Commits!StartSync \/ Commits!Lose
    PROVE  CommitsInv'
<1>1. UNCHANGED <<landed, commitCursor, read, missed>>
    BY DEF Commits!StartSync, Commits!Lose
<1>2. PICK at \in {"idle", "list"}, pushed \in SUBSET landed, fails \in Counts :
          commitSync' = [at |-> at, pushed |-> pushed, list |-> {}, tried |-> {}, got |-> {},
                         fails |-> fails, cut |-> FALSE]
  <2>1. CASE Commits!StartSync
    <3>1. commitSync' = [Commits!Idle EXCEPT !.at = "list", !.pushed = landed,
                                             !.fails = commitCursor.fails]
        BY <2>1 DEF Commits!StartSync
    <3>2. commitSync' = [at |-> "list", pushed |-> landed, list |-> {}, tried |-> {},
                         got |-> {}, fails |-> commitCursor.fails, cut |-> FALSE]
        BY <3>1 DEF Commits!Idle
    <3>3. commitCursor.fails \in Counts
        BY DEF CommitsInv, CommitTypes
    <3> QED BY <3>2, <3>3
  <2>2. CASE Commits!Lose
    <3>1. [c \in Commits!Commits |-> 0] \in Counts
        BY DatesAre DEF Counts
    <3> QED BY <2>2, <3>1 DEF Commits!Lose, Commits!Idle
  <2> QED BY <2>1, <2>2
<1>3. CommitTypes'
    BY <1>1, <1>2 DEF CommitsInv, CommitTypes
<1> QED BY <1>1, <1>2, <1>3 DEF CommitsInv, BehindIsSettled, ListIsWhole, Settled

\* A list is of the newest commits after the cursor.
LEMMA ListKept ==
    ASSUME CommitsInv, Commits!List
    PROVE  CommitsInv'
<1> DEFINE since == {c \in landed : CommitDate[c] >= commitCursor.since}
           shown == {c \in since : Commits!Cardinality({d \in since : d > c}) < ListMax}
<1>1. PICK s, t : s = since /\ t = shown
    OBVIOUS
<1>2. /\ commitSync.at = "list" /\ t \subseteq s
      /\ commitSync' = [commitSync EXCEPT !.at = "read", !.list = t \ {commitCursor.last}]
      /\ missed' = missed \cup (s \ t)
      /\ UNCHANGED <<landed, commitCursor, read, faults>>
    BY <1>1 DEF Commits!List
<1>3. s = {c \in landed : CommitDate[c] >= commitCursor.since}
    BY <1>1
<1> HIDE DEF since, shown
<1>4. commitSync.list = {} /\ commitSync.tried = {} /\ commitSync.got = {}
    BY <1>2 DEF CommitsInv, CommitTypes
<1>5. /\ commitSync'.at = "read" /\ commitSync'.list = t \ {commitCursor.last}
      /\ commitSync'.tried = {} /\ commitSync'.got = {}
      /\ commitSync' \in [at : {"idle", "list", "read"}, pushed : SUBSET landed,
                          list : SUBSET landed, tried : SUBSET landed, got : SUBSET landed,
                          fails : Counts, cut : BOOLEAN]
    BY <1>2, <1>3, <1>4 DEF CommitsInv, CommitTypes
<1>6. CommitTypes'
    BY <1>2, <1>3, <1>5 DEF CommitsInv, CommitTypes
<1>7. BehindIsSettled'
    BY <1>2 DEF CommitsInv, BehindIsSettled, Settled
<1>8. ASSUME NEW c \in landed, CommitDate[c] >= commitCursor.since
      PROVE  c \in commitSync'.list \/ Settled(c)'
  <2>1. c \in s
      BY <1>3, <1>8
  <2>2. CASE c \notin t
      BY <1>2, <2>1, <2>2 DEF Settled
  <2>3. CASE c = commitCursor.last
    <3>1. commitCursor.last # 0
        BY <2>3, DatesAre DEF CommitsInv, CommitTypes
    <3> QED BY <1>2, <2>3, <3>1 DEF CommitsInv, BehindIsSettled, Settled
  <2> QED BY <1>5, <2>2, <2>3
<1>9. ListIsWhole'
    BY <1>2, <1>5, <1>8 DEF ListIsWhole
<1> QED BY <1>6, <1>7, <1>9 DEF CommitsInv

\* A commit that was tried is settled, or owed.
LEMMA TriedKept ==
    ASSUME CommitsInv, NEW c \in commitSync.list, NEW got, NEW fails \in Counts,
           commitSync' = [at |-> commitSync.at, pushed |-> commitSync.pushed,
                          list |-> commitSync.list, tried |-> commitSync.tried \cup {c},
                          got |-> got, fails |-> fails, cut |-> commitSync.cut],
           UNCHANGED <<landed, commitCursor, missed>>,
           \A d \in Commits!Commits \ {c} : fails[d] = commitSync.fails[d],
           \/ got = commitSync.got \cup {c} /\ read' = read \cup {c}
           \/ got = commitSync.got /\ read' = read /\ fails[c] > 0
    PROVE  CommitsInv'
<1>1. CommitTypes /\ commitSync.at = "read"
    BY DEF CommitsInv, CommitTypes
<1>2. \A d : Settled(d) => Settled(d)'
    BY DEF Settled
<1>3. CommitTypes'
    BY <1>1 DEF CommitTypes
<1>4. BehindIsSettled'
    BY <1>2 DEF CommitsInv, BehindIsSettled, Settled
<1>5. \A d \in got : Settled(d)'
    BY <1>2 DEF CommitsInv, ListIsWhole, Settled
<1>6. \A d \in (commitSync.tried \cup {c}) \ got : fails[d] > 0
    BY <1>1 DEF CommitsInv, ListIsWhole, CommitTypes
<1>7. ListIsWhole'
    BY <1>1, <1>2, <1>5, <1>6 DEF CommitsInv, ListIsWhole
<1> QED BY <1>3, <1>4, <1>7 DEF CommitsInv

\* A commit that was fetched is read.
LEMMA GotKept ==
    ASSUME CommitsInv, NEW c \in Commits!Commits, Commits!Due(c), Commits!Got(c),
           UNCHANGED <<landed, commitCursor, missed>>
    PROVE  CommitsInv'
<1>1. /\ c \in commitSync.list /\ read' = read \cup {c}
      /\ commitSync' = [commitSync EXCEPT !.tried = @ \cup {c}, !.got = @ \cup {c}, !.fails[c] = 0]
    BY DEF Commits!Due, Commits!Got
<1>2. CommitTypes
    BY DEF CommitsInv
<1>3. PICK fails : fails = [commitSync.fails EXCEPT ![c] = 0]
    OBVIOUS
<1>4. /\ fails \in Counts /\ \A d \in Commits!Commits \ {c} : fails[d] = commitSync.fails[d]
    BY <1>2, <1>3, DatesAre DEF CommitTypes, Counts
<1>5. commitSync' = [at |-> commitSync.at, pushed |-> commitSync.pushed,
                     list |-> commitSync.list, tried |-> commitSync.tried \cup {c},
                     got |-> commitSync.got \cup {c}, fails |-> fails, cut |-> commitSync.cut]
    BY <1>1, <1>2, <1>3 DEF CommitTypes
<1> QED BY <1>1, <1>4, <1>5, TriedKept

\* A commit that fails is tried again, until its tries are spent.
LEMMA FailCommitKept ==
    ASSUME CommitsInv, NEW c \in Commits!Commits, Commits!FailCommit(c)
    PROVE  CommitsInv'
<1>1. CASE ~(commitSync.fails[c] + 1 < Tries)
    BY <1>1, GotKept DEF Commits!FailCommit
<1>2. CASE commitSync.fails[c] + 1 < Tries
  <2>1. /\ c \in commitSync.list /\ read' = read /\ UNCHANGED <<landed, commitCursor, missed>>
        /\ commitSync' = [commitSync EXCEPT !.tried = @ \cup {c}, !.fails[c] = @ + 1]
      BY <1>2 DEF Commits!FailCommit, Commits!Due
  <2>2. CommitTypes
      BY DEF CommitsInv
  <2>3. PICK fails : fails = [commitSync.fails EXCEPT ![c] = @ + 1]
      OBVIOUS
  <2>4. /\ fails \in Counts /\ \A d \in Commits!Commits \ {c} : fails[d] = commitSync.fails[d]
        /\ fails[c] > 0
    <3>1. commitSync.fails \in Counts
        BY <2>2 DEF CommitTypes
    <3>2. commitSync.fails[c] \in Nat /\ commitSync.fails[c] + 1 \in 0 .. Tries - 1
      <4>1. commitSync.fails[c] \in 0 .. Tries - 1 /\ Tries \in Nat
          BY <3>1, DatesAre DEF Counts
      <4> QED BY <1>2, <4>1
    <3>3. fails[c] = commitSync.fails[c] + 1 /\ fails \in Counts
        BY <2>3, <3>1, <3>2 DEF Counts
    <3> QED BY <2>3, <3>1, <3>2, <3>3 DEF Counts
  <2>5. commitSync' = [at |-> commitSync.at, pushed |-> commitSync.pushed,
                       list |-> commitSync.list, tried |-> commitSync.tried \cup {c},
                       got |-> commitSync.got, fails |-> fails, cut |-> commitSync.cut]
      BY <2>1, <2>2, <2>3 DEF CommitTypes
  <2> QED BY <2>1, <2>4, <2>5, TriedKept
<1> QED BY <1>1, <1>2

\* A sync that is cut short keeps its list and its settled commits.
LEMMA CutKept ==
    ASSUME CommitsInv, Commits!OutOfBudget \/ Commits!Stop
    PROVE  CommitsInv'
<1>1. /\ commitSync' = [commitSync EXCEPT !.cut = TRUE]
      /\ UNCHANGED <<landed, commitCursor, read, missed>>
    BY DEF Commits!OutOfBudget, Commits!Stop
<1>2. CommitTypes'
    BY <1>1 DEF CommitsInv, CommitTypes
<1>3. BehindIsSettled'
    BY <1>1 DEF CommitsInv, BehindIsSettled, Settled
<1>4. /\ commitSync'.at = commitSync.at /\ commitSync'.list = commitSync.list
      /\ commitSync'.tried = commitSync.tried /\ commitSync'.got = commitSync.got
      /\ commitSync'.fails = commitSync.fails /\ commitSync'.pushed = commitSync.pushed
    BY <1>1 DEF CommitsInv, CommitTypes
<1>5. ListIsWhole'
    BY <1>1, <1>4 DEF CommitsInv, ListIsWhole, Settled
<1> QED BY <1>2, <1>3, <1>5 DEF CommitsInv

(***************************************************************************)
(* The watermark is that of a commit that was read, and whatever is before *)
(* it was read with it, or is settled; a push counts as seen when nothing  *)
(* of it is left or owed.                                                  *)
(***************************************************************************)
LEMMA FinishKept ==
    ASSUME CommitsInv, Commits!Finish
    PROVE  CommitsInv'
<1>1. PICK date \in Commits!Dates, sha \in 0 .. NCommits :
          /\ Commits!Passed(date, sha)
          /\ commitCursor' = [since |-> date, last |-> sha, fails |-> Commits!Owed,
                pushed |-> IF ~commitSync.cut /\ \A c \in Commits!Commits : Commits!Owed[c] = 0
                           THEN commitSync.pushed ELSE commitCursor.pushed]
    BY DEF Commits!Finish
<1>2. /\ commitSync.at = "read" /\ ~Commits!More /\ commitSync' = Commits!Idle
      /\ UNCHANGED <<landed, read, missed>>
    BY DEF Commits!Finish
<1>3. CommitTypes /\ BehindIsSettled /\ ListIsWhole
    BY DEF CommitsInv
<1>4. \A c : Settled(c)' <=> Settled(c)
    BY <1>2 DEF Settled
<1>5. CommitTypes'
  <2>1. Commits!Owed \in Counts
      BY <1>3, DatesAre DEF Commits!Owed, CommitTypes, Counts
  <2>2. [c \in Commits!Commits |-> 0] \in Counts
      BY DatesAre DEF Counts
  <2> QED BY <1>1, <1>2, <1>3, <2>1, <2>2 DEF CommitTypes, Commits!Idle
<1>6. ASSUME NEW c \in landed, CommitDate[c] < date
      PROVE  Settled(c)
  <2>1. CASE CommitDate[c] < commitCursor.since
      BY <1>3, <2>1 DEF BehindIsSettled
  <2>2. CASE ~(CommitDate[c] < commitCursor.since)
    <3>1. CommitDate[c] \in Nat /\ date \in Nat /\ commitCursor.since \in Nat
        BY <1>3, DatesAre DEF CommitTypes
    <3>2. sha \in Commits!InARow /\ date = CommitDate[sha]
        BY <1>1, <1>6, <2>2 DEF Commits!Passed
    <3>3. /\ sha \in commitSync.list
          /\ \A d \in commitSync.list : Commits!Before(d, sha) => d \in commitSync.got
        BY <3>2 DEF Commits!InARow
    <3>4. CASE c \in commitSync.list
        BY <1>3, <1>6, <3>2, <3>3, <3>4 DEF Commits!Before, ListIsWhole
    <3>5. CASE c \notin commitSync.list
      <4>1. Settled(c) \/ CommitDate[sha] <= CommitDate[c]
          BY <1>2, <1>3, <2>2, <3>1, <3>3, <3>5 DEF ListIsWhole
      <4> QED BY <1>6, <3>1, <3>2, <4>1
    <3> QED BY <3>4, <3>5
  <2> QED BY <2>1, <2>2
<1>7. sha # 0 => Settled(sha)
  <2>1. CASE sha = commitCursor.last
      BY <1>3, <2>1 DEF BehindIsSettled
  <2>2. CASE sha \in Commits!InARow
      BY <1>3, <2>2 DEF Commits!InARow, ListIsWhole
  <2> QED BY <1>1, <2>1, <2>2 DEF Commits!Passed
<1>8. ASSUME ~commitSync.cut, \A c \in Commits!Commits : Commits!Owed[c] = 0,
             NEW c \in commitSync.pushed
      PROVE  Settled(c)
  <2>1. c \in landed /\ c \in Commits!Commits
      BY <1>3 DEF CommitTypes
  <2>2. commitSync.tried = commitSync.list
      BY <1>2, <1>8 DEF Commits!More
  <2>3. CASE c \in commitSync.list
    <3>1. commitSync.fails[c] = 0
        BY <1>8, <2>1, <2>3 DEF Commits!Owed
    <3>2. c \in commitSync.got
        BY <1>3, <2>2, <2>3, <3>1 DEF ListIsWhole
    <3> QED BY <1>3, <3>2 DEF ListIsWhole
  <2>4. CASE c \notin commitSync.list
    <3>1. CASE CommitDate[c] < commitCursor.since
        BY <1>3, <2>1, <3>1 DEF BehindIsSettled
    <3>2. CASE ~(CommitDate[c] < commitCursor.since)
      <4>1. CommitDate[c] >= commitCursor.since
        <5>1. CommitDate[c] \in Nat /\ commitCursor.since \in Nat
            BY <1>3, <2>1, DatesAre DEF CommitTypes
        <5> QED BY <3>2, <5>1
      <4> QED BY <1>2, <1>3, <1>8, <2>1, <2>4, <4>1 DEF ListIsWhole
    <3> QED BY <3>1, <3>2
  <2> QED BY <2>3, <2>4
<1>9. \A c \in commitCursor'.pushed : Settled(c)
    BY <1>1, <1>3, <1>8 DEF BehindIsSettled
<1>10. commitCursor'.since = date /\ commitCursor'.last = sha
    BY <1>1
<1>11. BehindIsSettled'
    BY <1>2, <1>4, <1>6, <1>7, <1>9, <1>10 DEF BehindIsSettled
<1>12. ListIsWhole'
    BY <1>2 DEF ListIsWhole, Commits!Idle
<1> QED BY <1>5, <1>11, <1>12 DEF CommitsInv

\* Every step of the commit scan keeps what is behind the cursor settled.
LEMMA CommitsKept ==
    ASSUME CommitsInv, Commits!Next \/ UNCHANGED commitVars
    PROVE  CommitsInv'
<1>1. CASE UNCHANGED commitVars
    BY <1>1 DEF commitVars, CommitsInv, CommitTypes, BehindIsSettled, ListIsWhole, Settled
<1>2. ASSUME NEW c \in Commits!Commits, Commits!ReadCommit(c)
      PROVE  CommitsInv'
    BY <1>2, GotKept DEF Commits!ReadCommit
<1> QED BY <1>1, <1>2, LandKept, StartCommitsKept, ListKept, FailCommitKept, CutKept, FinishKept
        DEF Commits!Next, Commits!SyncStep

\* The watermark passes only commits that are read, or that it cannot see.
LEMMA CommitsAre ==
    ASSUME CommitsInv
    PROVE  Commits!CommitsRead
BY DEF CommitsInv, BehindIsSettled, Settled, Commits!CommitsRead

-----------------------------------------------------------------------------
(* The sources that keep a mark per stream.                                *)

\* A set of numbers that is not empty has a least one.
LEMMA LeastIs ==
    ASSUME NEW T \in SUBSET Nat, T # {}
    PROVE  \E t \in T : \A u \in T : t <= u
<1> DEFINE R == OpToRel(<, Nat)
<1>1. IsWellFoundedOn(R, Nat) /\ \A t, u \in Nat : <<u, t>> \in R <=> u < t
    BY NatLessThanWellFounded DEF OpToRel
<1> HIDE DEF R
<1>2. IsWellFoundedOn(R, Nat)
    BY <1>1
<1>3. PICK t \in T : \A u \in T : ~(<<u, t>> \in R)
    BY <1>2, WFMin
<1>4. ASSUME NEW u \in T
      PROVE  t <= u
  <2>1. t \in Nat /\ u \in Nat /\ ~(u < t)
      BY <1>1, <1>3
  <2> QED BY <2>1
<1> QED BY <1>4

\* A set of numbers that has one, and none above some bound, has a greatest.
LEMMA GreatestIs ==
    ASSUME NEW S \in SUBSET Nat, S # {}, NEW bound \in Nat, \A x \in S : x <= bound
    PROVE  \E x \in S : \A y \in S : y <= x
<1> DEFINE T == {bound - x : x \in S}
<1>1. T \in SUBSET Nat /\ T # {}
  <2>1. \A x \in S : bound - x \in Nat
      OBVIOUS
  <2> QED BY <2>1
<1>2. PICK t \in T : \A u \in T : t <= u
  <2> HIDE DEF T
  <2> QED BY <1>1, LeastIs
<1>3. PICK x \in S : t = bound - x
    OBVIOUS
<1>4. ASSUME NEW y \in S
      PROVE  y <= x
  <2>1. bound - y \in T /\ x \in Nat /\ y \in Nat
      OBVIOUS
  <2> HIDE DEF T
  <2> QED BY <1>2, <1>3, <2>1
<1> QED BY <1>4

NewMarks == [Marks!Streams -> Nat \cup {-1}]

MarkTypes ==
    /\ source \in Marks!Sources /\ count \in [Marks!Streams -> 0 .. MaxItems]
    /\ horizon \in Nat /\ marks \in NewMarks
    /\ sync \in [at : Nat, spent : Nat, from : Nat, marks : NewMarks]
    /\ handled \subseteq Marks!Streams \X Marks!Items

\* Item n of stream s needs no scan: it had one, grew old, is a reply that no fetch gave, or
\* has the date of one that had.
Past(s, n) ==
    \/ <<s, n>> \in handled \cup aged \cup unpulled
    \/ source # "teams"
       /\ \E k \in Marks!Items : <<s, k>> \in handled /\ k # n /\ ItemDate[k] = ItemDate[n]

(***************************************************************************)
(* A mark that stream s may have: what it passes needs no scan, and an     *)
(* item that appears is beyond it, or has the date of the one it is of.    *)
(***************************************************************************)
GoodMark(s, mk) ==
    mk # -1 =>
        /\ \A n \in 1 .. count[s] : Marks!At(n) <= mk => Past(s, n)
        /\ source = "teams" => mk <= count[s]
        /\ source # "teams" =>
              mk <= horizon \/ \E k \in 1 .. count[s] : <<s, k>> \in handled /\ ItemDate[k] = mk

\* The first scan of a stream begins where what it leaves out has grown old.
FirstScans ==
    \A s \in Marks!Streams : \A n \in 1 .. count[s] :
        marks[s] = -1 /\ ItemDate[n] <= horizon => <<s, n>> \in handled \cup aged

MarksInv ==
    /\ MarkTypes /\ FirstScans
    /\ \A s \in Marks!Streams : GoodMark(s, marks[s]) /\ GoodMark(s, sync.marks[s])
    /\ sync.from <= horizon
    /\ sync.at # 0 => \A s \in Marks!Streams :
          /\ s >= sync.at => sync.marks[s] = marks[s]
          /\ sync.marks[s] = -1 => marks[s] = -1

\* Streams and items are numbers, and the dates are in order.
LEMMA ItemsAre ==
    /\ MaxItems \in Nat /\ Marks!Items = 1 .. MaxItems /\ Marks!Streams \subseteq Nat
    /\ 0 \notin Marks!Streams
    /\ ItemDate \in [Marks!Items -> Nat] /\ \A n \in Marks!Items : ItemDate[n] \in Nat
    /\ \A m, n \in Marks!Items : m < n => ItemDate[m] <= ItemDate[n]
    /\ Marks!NoMark = -1 /\ Marks!Used \subseteq Marks!Streams
BY Assumptions DEF Marks!MarksAssumption, Marks!Items, Marks!Streams, Marks!NoMark, Marks!Used

\* At first there is no mark.
LEMMA MarksInit ==
    ASSUME Marks!Init
    PROVE  MarksInv
<1>1. /\ count = [s \in Marks!Streams |-> 0] /\ horizon = 0 /\ handled = {}
      /\ marks = [s \in Marks!Streams |-> -1] /\ source \in Marks!Sources
      /\ sync = [at |-> 0, spent |-> 0, from |-> 0, marks |-> [s \in Marks!Streams |-> -1]]
    BY ItemsAre DEF Marks!Init, Marks!Idle
<1>2. marks \in NewMarks /\ sync.marks = marks /\ count \in [Marks!Streams -> 0 .. MaxItems]
    BY <1>1, ItemsAre DEF NewMarks
<1>3. MarkTypes
    BY <1>1, <1>2 DEF MarkTypes
<1> QED BY <1>1, <1>2, <1>3 DEF MarksInv, FirstScans, GoodMark

\* A mark stays good when items appear or are handled and time passes.
LEMMA StaysGood ==
    ASSUME MarksInv, NEW s \in Marks!Streams, NEW mk \in Nat \cup {-1}, GoodMark(s, mk),
           source' = source, horizon' \in Nat, horizon <= horizon',
           handled \subseteq handled', aged \subseteq aged', unpulled \subseteq unpulled',
           count'[s] \in 0 .. MaxItems,
           \/ count'[s] = count[s]
           \/ count'[s] = count[s] + 1 /\ ItemDate[count[s] + 1] > horizon
    PROVE  GoodMark(s, mk)'
<1>1. /\ count[s] \in 0 .. MaxItems /\ horizon \in Nat /\ MaxItems \in Nat
    BY ItemsAre DEF MarksInv, MarkTypes
<1>2. \A n : Past(s, n) => Past(s, n)'
    BY DEF Past
<1>3. SUFFICES ASSUME mk # -1 PROVE GoodMark(s, mk)'
    BY DEF GoodMark
<1>4. /\ \A n \in 1 .. count[s] : Marks!At(n) <= mk => Past(s, n)
      /\ source = "teams" => mk <= count[s]
      /\ source # "teams" =>
            mk <= horizon \/ \E k \in 1 .. count[s] : <<s, k>> \in handled /\ ItemDate[k] = mk
    BY <1>3 DEF GoodMark
<1>5. ASSUME NEW n \in 1 .. count'[s], Marks!At(n)' <= mk
      PROVE  Past(s, n)'
  <2>1. Marks!At(n)' = Marks!At(n)
      BY DEF Marks!At
  <2>2. CASE n \in 1 .. count[s]
      BY <1>2, <1>4, <1>5, <2>1, <2>2
  <2>3. CASE n = count[s] + 1 /\ ItemDate[n] > horizon
    <3>1. n \in Marks!Items /\ ItemDate[n] \in Nat /\ source # "teams"
        BY <1>1, <1>3, <1>4, <1>5, <2>1, <2>3, ItemsAre DEF Marks!At
    <3>2. ItemDate[n] <= mk
        BY <1>5, <2>1, <3>1 DEF Marks!At
    <3>3. PICK k \in 1 .. count[s] : <<s, k>> \in handled /\ ItemDate[k] = mk
        BY <1>1, <1>3, <1>4, <2>3, <3>1, <3>2
    <3>4. k \in Marks!Items /\ k < n
        BY <1>1, <2>3, ItemsAre
    <3>5. ItemDate[k] <= ItemDate[n]
        BY <3>1, <3>4, ItemsAre
    <3>6. ItemDate[k] = ItemDate[n]
        BY <3>1, <3>2, <3>3, <3>4, <3>5, ItemsAre
    <3> QED BY <3>1, <3>3, <3>4, <3>6 DEF Past
  <2> QED BY <1>1, <1>5, <2>2, <2>3
<1>6. mk \in Nat /\ (source = "teams" => mk <= count'[s])
    BY <1>1, <1>3, <1>4
<1>7. source # "teams" =>
         mk <= horizon' \/ \E k \in 1 .. count'[s] : <<s, k>> \in handled' /\ ItemDate[k] = mk
  <2>1. 1 .. count[s] \subseteq 1 .. count'[s]
      BY <1>1
  <2> QED BY <1>1, <1>4, <1>6, <2>1
<1> QED BY <1>5, <1>6, <1>7 DEF GoodMark

\* The newest of some items is one of them, and none has a later place.
LEMMA NewestIs ==
    ASSUME MarksInv, NEW s \in Marks!Streams, NEW set \in SUBSET (1 .. count[s]), set # {}
    PROVE  \E n \in set : /\ Marks!Newest(set) = Marks!At(n) /\ Marks!At(n) \in Nat
                          /\ \A m \in set : m <= n \/ Marks!At(m) = Marks!At(n)
<1>1. set \in SUBSET Nat /\ MaxItems \in Nat /\ \A m \in set : m \in Marks!Items /\ m <= MaxItems
    BY ItemsAre DEF MarksInv, MarkTypes
<1>2. PICK g \in set : \A m \in set : m <= g
    BY <1>1, GreatestIs
<1> DEFINE T == {Marks!At(m) : m \in set}
<1>3. \A m \in set : Marks!At(m) \in Nat /\ Marks!At(m) <= Marks!At(g)
    BY <1>1, <1>2, ItemsAre DEF Marks!At
<1>4. Marks!At(g) \in T /\ \A y \in T : Marks!At(g) >= y
    BY <1>3
<1>5. Marks!Newest(set) \in T /\ \A y \in T : Marks!Newest(set) >= y
  <2>1. Marks!Newest(set) = CHOOSE x \in T : \A y \in T : x >= y
      BY DEF Marks!Newest, Marks!Max
  <2> HIDE DEF T
  <2> QED BY <1>4, <2>1
<1>6. Marks!Newest(set) = Marks!At(g)
    BY <1>3, <1>4, <1>5
<1> QED BY <1>2, <1>3, <1>6

\* Only Teams has replies, and they are items that there are.
LEMMA RepliesAre ==
    ASSUME NEW s, NEW posts
    PROVE  /\ Marks!Replies(s, posts) \subseteq 1 .. count[s]
           /\ source # "teams" => Marks!Replies(s, posts) = {}
           /\ posts \subseteq Marks!Items =>
                 Marks!Replies(s, posts) \subseteq Marks!Replies(s, Marks!Items)
BY DEF Marks!Replies

\* What a stream does not list needs no scan, unless it is a reply.
LEMMA UnlistedIs ==
    ASSUME MarksInv, NEW s \in Marks!Streams, s = sync.at,
           NEW n \in 1 .. count[s], n \notin Marks!Listed(s),
           n \notin Marks!Replies(s, Marks!Items)
    PROVE  Past(s, n)
<1>1. n \in Marks!Items /\ ItemDate[n] \in Nat /\ Marks!At(n) \in Nat
    BY ItemsAre DEF MarksInv, MarkTypes, Marks!At
<1>2. sync.marks[s] \in Nat \cup {-1} /\ sync.from \in Nat /\ horizon \in Nat
    BY DEF MarksInv, MarkTypes, NewMarks
<1>3. CASE sync.marks[s] = -1
  <2>1. ~(ItemDate[n] > sync.from)
      BY <1>3, ItemsAre DEF Marks!Listed
  <2>2. ItemDate[n] <= horizon
      BY <1>1, <1>2, <2>1 DEF MarksInv
  <2>3. s # 0 /\ s >= sync.at
      BY ItemsAre
  <2>4. marks[s] = -1
      BY <1>3, <2>3 DEF MarksInv
  <2> QED BY <2>2, <2>4 DEF MarksInv, FirstScans, Past
<1>4. CASE sync.marks[s] # -1
  <2>1. Marks!At(n) <= sync.marks[s]
      BY <1>1, <1>2, <1>4, ItemsAre DEF Marks!Listed
  <2> QED BY <1>4, <2>1 DEF MarksInv, GoodMark
<1> QED BY <1>3, <1>4

\* The mark of a stream that was read to its end.
LEMMA WholeIsGood ==
    ASSUME MarksInv, NEW s \in Marks!Streams, s = sync.at,
           NEW came \in SUBSET (1 .. count[s]), Marks!Listed(s) \subseteq came,
           handled' = handled \cup {<<s, n>> : n \in came},
           unpulled \subseteq unpulled',
           \A n \in Marks!Replies(s, Marks!Items) \ came : <<s, n>> \in unpulled',
           UNCHANGED <<source, count, horizon, aged>>,
           NEW mk \in Nat,
           \/ source = "teams" /\ mk = count[s]
           \/ source # "teams" /\ \E n \in came : mk = ItemDate[n]
    PROVE  GoodMark(s, mk)'
<1>1. \A n : Past(s, n) => Past(s, n)'
    BY DEF Past
<1>2. \A n \in came : <<s, n>> \in handled' /\ n \in 1 .. count[s]
    OBVIOUS
<1>3. \A n \in 1 .. count[s] : Past(s, n)'
  <2> SUFFICES ASSUME NEW n \in 1 .. count[s] PROVE Past(s, n)'
      OBVIOUS
  <2>1. CASE n \in came
      BY <1>2, <2>1 DEF Past
  <2>2. CASE n \in Marks!Replies(s, Marks!Items) \ came
      BY <2>2 DEF Past
  <2>3. CASE n \notin came /\ n \notin Marks!Replies(s, Marks!Items)
      BY <1>1, <2>3, UnlistedIs
  <2> QED BY <2>1, <2>2, <2>3
<1>4. count[s] \in Nat
    BY DEF MarksInv, MarkTypes
<1>5. \A n \in 1 .. count'[s] : Marks!At(n)' <= mk => Past(s, n)'
    BY <1>3
<1>6. source' = "teams" => mk <= count'[s]
    BY <1>4
<1>7. source' # "teams" => \E n \in 1 .. count'[s] : <<s, n>> \in handled' /\ ItemDate[n] = mk
    BY <1>2
<1> QED BY <1>5, <1>6, <1>7 DEF GoodMark

\* The mark of a stream read oldest first, wherever the budget ended.
LEMMA OldestFirstIsGood ==
    ASSUME MarksInv, NEW s \in Marks!Streams, s = sync.at, source # "teams",
           NEW came \in SUBSET Marks!Listed(s), came # {},
           \A m \in Marks!Listed(s), n \in came : m < n => m \in came,
           handled' = handled \cup {<<s, n>> : n \in came},
           unpulled \subseteq unpulled',
           UNCHANGED <<source, count, horizon, aged>>
    PROVE  GoodMark(s, Marks!Newest(came))' /\ Marks!Newest(came) \in Nat
<1>1. came \in SUBSET (1 .. count[s]) /\ \A n \in came : <<s, n>> \in handled'
    BY DEF Marks!Listed
<1>2. PICK g \in came : /\ Marks!Newest(came) = Marks!At(g) /\ Marks!At(g) \in Nat
                        /\ \A m \in came : m <= g \/ Marks!At(m) = Marks!At(g)
    BY <1>1, NewestIs
<1>3. /\ count[s] \in 0 .. MaxItems /\ MaxItems \in Nat /\ g \in 1 .. count[s]
      /\ Marks!Newest(came) = ItemDate[g]
    BY <1>1, <1>2, ItemsAre DEF MarksInv, MarkTypes, Marks!At
<1>4. ASSUME NEW n \in 1 .. count[s], ItemDate[n] <= ItemDate[g]
      PROVE  Past(s, n)'
  <2>1. n \in Marks!Items /\ g \in Marks!Items /\ n \in Nat /\ g \in Nat
      BY <1>3, ItemsAre
  <2>2. CASE n \notin Marks!Listed(s)
      BY <2>2, UnlistedIs, RepliesAre DEF Past
  <2>3. CASE n \in came
      BY <1>1, <2>3 DEF Past
  <2>4. CASE n \in Marks!Listed(s) /\ n \notin came
    <3>1. g < n
        BY <2>1, <2>4
    <3>2. ItemDate[g] = ItemDate[n]
        BY <1>4, <2>1, <3>1, ItemsAre
    <3> QED BY <1>1, <2>1, <3>1, <3>2 DEF Past
  <2> QED BY <2>2, <2>3, <2>4
<1>5. \A n \in 1 .. count'[s] : Marks!At(n)' <= ItemDate[g] => Past(s, n)'
    BY <1>4 DEF Marks!At
<1>6. GoodMark(s, ItemDate[g])'
    BY <1>1, <1>3, <1>5 DEF GoodMark
<1>7. PICK mk : mk = Marks!Newest(came)
    OBVIOUS
<1>8. mk = ItemDate[g] /\ Marks!Newest(came)' = mk
    BY <1>3, <1>7 DEF Marks!Newest, Marks!At
<1> QED BY <1>2, <1>3, <1>6, <1>8

\* A page has what is listed, and replies; what is come to is of the page, and with an item
\* of Drive or Salesforce all those before it.
LEMMA ComeToIs ==
    ASSUME MarksInv, NEW s \in Marks!Streams, NEW skipped,
           NEW page \in Marks!Pages(s, skipped), NEW came \in Marks!ComeTo(s, page, skipped)
    PROVE  /\ page \subseteq 1 .. count[s] /\ came \subseteq page
           /\ source # "teams" => page \subseteq Marks!Listed(s)
           /\ source = "teams" => Marks!Listed(s) \subseteq page
           /\ source \in {"drive", "salesforce"} =>
                 /\ page = Marks!Listed(s)
                 /\ \A m \in page, n \in came : m < n => m \in came
<1>1. source \in Marks!Sources
    BY DEF MarksInv, MarkTypes
<1>a. /\ Marks!Paged(s) \subseteq Marks!Listed(s)
      /\ source \in {"drive", "salesforce", "teams"} => Marks!Paged(s) = Marks!Listed(s)
  <2>1. CASE source = "outlook"
      BY <2>1 DEF Marks!Paged
  <2>2. CASE source = "gmail"
      BY <2>2 DEF Marks!Paged
  <2>3. CASE source \in {"drive", "salesforce", "teams"}
      BY <2>3 DEF Marks!Paged
  <2> QED BY <1>1, <2>1, <2>2, <2>3 DEF Marks!Sources
<1>b. PICK given : /\ page = Marks!Paged(s) \cup given
                   /\ given \subseteq Marks!Replies(s, Marks!Paged(s) \ skipped)
    BY DEF Marks!Pages
<1>2. /\ source # "teams" => page = Marks!Paged(s)
      /\ page \subseteq 1 .. count[s]
    BY <1>a, <1>b, RepliesAre DEF Marks!Listed
<1>c. source # "teams" =>
         came = {n \in page : Marks!Cardinality({m \in page \ skipped : Marks!Earlier(m, n)})
                                 < ItemBudget - sync.spent}
    BY DEF Marks!ComeTo
<1>3. came \subseteq page
    BY <1>c DEF Marks!ComeTo
<1>4. ASSUME source \in {"drive", "salesforce"}
      PROVE  page = Marks!Listed(s)
    BY <1>2, <1>4, <1>a
<1>5. ASSUME source \in {"drive", "salesforce"}, NEW m \in page, NEW n \in came, m < n
      PROVE  m \in came
  <2>1. page \subseteq 1 .. count[s] /\ count[s] \in Nat /\ n \in page
      BY <1>2, <1>3 DEF MarksInv, MarkTypes
  <2>2. PICK P : P = page
      OBVIOUS
  <2>3. came = {j \in P : Cardinality({k \in P \ skipped : k < j}) < ItemBudget - sync.spent}
      BY <1>5, <1>c, <2>2, OneSize DEF Marks!Earlier
  <2> DEFINE before(j) == {k \in P \ skipped : k < j}
  <2>4. /\ IsFiniteSet(before(n)) /\ before(m) \in SUBSET before(n)
    <3>1. IsFiniteSet(P)
      <4>1. IsFiniteSet(1 .. count[s])
          BY <2>1, FS_Interval
      <4> QED BY <2>1, <2>2, <4>1, FS_Subset
    <3>2. before(n) \in SUBSET P
        OBVIOUS
    <3>3. \A k \in P : k < m => k < n
        BY <1>5, <2>1, <2>2
    <3>4. before(m) \in SUBSET before(n)
        BY <3>3
    <3> HIDE DEF before
    <3> QED BY <3>1, <3>2, <3>4, FS_Subset
  <2>5. /\ Cardinality(before(m)) <= Cardinality(before(n))
        /\ Cardinality(before(m)) \in Nat /\ Cardinality(before(n)) \in Nat
    <3> HIDE DEF before
    <3> QED BY <2>4, FS_Subset, FS_CardinalityType
  <2>6. ItemBudget - sync.spent \in Int
      BY Assumptions DEF Marks!MarksAssumption, MarksInv, MarkTypes
  <2>7. Cardinality(before(n)) < ItemBudget - sync.spent
      BY <2>3
  <2>8. Cardinality(before(m)) < ItemBudget - sync.spent
    <3> HIDE DEF before
    <3> QED BY <2>5, <2>6, <2>7
  <2> QED BY <2>2, <2>3, <2>8
<1> QED BY <1>1, <1>2, <1>3, <1>4, <1>5, <1>a, <1>b

\* When nothing is left of a stream, what was come to is all that it lists, and more only of
\* Teams.
LEMMA NotOverIs ==
    ASSUME MarksInv, NEW s \in Marks!Streams, NEW skipped,
           NEW page \in Marks!Pages(s, skipped), NEW came \in Marks!ComeTo(s, page, skipped),
           ~Marks!Over(s, page, came)
    PROVE  came = page /\ Marks!Listed(s) \subseteq came
BY ComeToIs DEF Marks!Over

\* A stream that was read has a good mark, and only one without a mark may have none.
LEMMA ReadMarkIsGood ==
    ASSUME MarksInv, NEW s \in Marks!Streams, s = sync.at, NEW skipped,
           NEW page \in Marks!Pages(s, skipped), NEW came \in Marks!ComeTo(s, page, skipped),
           NEW mk, mk = Marks!MarkAfter(s, page, came, came \ skipped),
           handled' = handled \cup {<<s, n>> : n \in came},
           unpulled' = unpulled \cup {<<s, n>> : n \in Marks!LeftBehind(s, page, came)},
           UNCHANGED <<source, count, horizon, aged>>
    PROVE  /\ mk \in Nat \cup {-1} /\ GoodMark(s, mk)'
           /\ mk = -1 => sync.marks[s] = -1
           /\ came \subseteq 1 .. count[s]
<1>1. /\ source \in Marks!Sources /\ sync.marks[s] \in Nat \cup {-1} /\ sync.from \in Nat
      /\ horizon \in Nat /\ count \in [Marks!Streams -> 0 .. MaxItems] /\ MaxItems \in Nat
      /\ GoodMark(s, sync.marks[s])
    BY ItemsAre DEF MarksInv, MarkTypes, NewMarks
<1>2. /\ came \subseteq 1 .. count[s] /\ came \subseteq page /\ unpulled \subseteq unpulled'
      /\ source \in {"drive", "salesforce"} =>
            /\ page = Marks!Listed(s)
            /\ \A m \in Marks!Listed(s), n \in came : m < n => m \in came
    BY ComeToIs
<1>a. ASSUME ~Marks!Over(s, page, came)
      PROVE  /\ Marks!Listed(s) \subseteq came
             /\ \A n \in Marks!Replies(s, Marks!Items) \ came : <<s, n>> \in unpulled'
  <2>1. came = page /\ Marks!Listed(s) \subseteq came
      BY <1>a, NotOverIs
  <2>2. Marks!LeftBehind(s, page, came) = Marks!Replies(s, Marks!Items) \ page
      BY <1>a DEF Marks!LeftBehind
  <2> QED BY <2>1, <2>2
<1>3. CASE mk = sync.marks[s]
  <2>1. mk \in Nat \cup {-1} /\ GoodMark(s, mk)
      BY <1>1, <1>3
  <2>2. /\ count'[s] \in 0 .. MaxItems /\ count'[s] = count[s]
        /\ horizon' \in Nat /\ horizon <= horizon' /\ handled \subseteq handled'
      BY <1>1
  <2>3. GoodMark(s, mk)'
      BY <2>1, <2>2, StaysGood
  <2> QED BY <1>2, <1>3, <2>1, <2>3
<1>4. CASE source \in {"drive", "salesforce"} /\ came = {} /\ sync.marks[s] = -1
  <2>1. mk = sync.from
      BY <1>4, ItemsAre DEF Marks!MarkAfter, Marks!After
  <2>2. ASSUME NEW n \in 1 .. count[s], ItemDate[n] <= sync.from
        PROVE  Past(s, n)
    <3>1. n \in Marks!Items /\ ItemDate[n] \in Nat
        BY <1>1, ItemsAre
    <3>2. n \notin Marks!Listed(s)
        BY <1>1, <1>4, <2>2, <3>1, ItemsAre DEF Marks!Listed
    <3> QED BY <1>4, <3>2, UnlistedIs, RepliesAre
  <2>3. GoodMark(s, mk)
      BY <1>1, <1>4, <2>1, <2>2 DEF GoodMark, MarksInv, Marks!At
  <2> QED BY <1>1, <1>2, <2>1, <2>3, StaysGood
<1>5. CASE source \in {"drive", "salesforce"} /\ came # {}
  <2>1. mk = Marks!Newest(came)
      BY <1>5 DEF Marks!MarkAfter
  <2>2. came \in SUBSET Marks!Listed(s) /\ source # "teams"
      BY <1>2, <1>5
  <2>3. GoodMark(s, Marks!Newest(came))' /\ Marks!Newest(came) \in Nat
      BY <1>2, <1>5, <2>2, OldestFirstIsGood
  <2>4. Marks!Newest(came)' = Marks!Newest(came)
      BY DEF Marks!Newest, Marks!At
  <2>5. GoodMark(s, mk)'
      BY <2>1, <2>3, <2>4
  <2> QED BY <1>2, <2>1, <2>3, <2>5
<1>6. CASE source = "teams" /\ mk = count[s] /\ ~Marks!Over(s, page, came)
  <2>1. mk \in Nat
      BY <1>1, <1>6
  <2>2. GoodMark(s, mk)'
      BY <1>2, <1>6, <1>a, <2>1, WholeIsGood
  <2> QED BY <1>2, <2>1, <2>2
<1>7. ASSUME source \in {"outlook", "gmail"}, ~Marks!Over(s, page, came), came \ skipped # {},
             mk = Marks!Newest(came \ skipped)
      PROVE  mk \in Nat /\ GoodMark(s, mk)'
  <2>1. came \ skipped \in SUBSET (1 .. count[s]) /\ source # "teams"
      BY <1>2, <1>7
  <2>2. PICK n \in came \ skipped : mk = Marks!At(n) /\ Marks!At(n) \in Nat
      BY <1>7, <2>1, NewestIs
  <2>3. mk = ItemDate[n] /\ mk \in Nat
      BY <2>1, <2>2 DEF Marks!At
  <2> QED BY <1>2, <1>7, <1>a, <2>1, <2>2, <2>3, WholeIsGood
<1>8. \/ mk = sync.marks[s]
      \/ source \in {"drive", "salesforce"} /\ came = {} /\ sync.marks[s] = -1
      \/ source \in {"drive", "salesforce"} /\ came # {}
      \/ source = "teams" /\ mk = count[s] /\ ~Marks!Over(s, page, came)
      \/ /\ source \in {"outlook", "gmail"} /\ ~Marks!Over(s, page, came) /\ came \ skipped # {}
         /\ mk = Marks!Newest(came \ skipped)
  <2>1. CASE source \in {"drive", "salesforce"}
      BY <2>1, ItemsAre DEF Marks!MarkAfter, Marks!After
  <2>2. CASE source = "teams"
      BY <2>2 DEF Marks!MarkAfter
  <2>3. CASE source \in {"outlook", "gmail"}
      BY <2>3 DEF Marks!MarkAfter
  <2> QED BY <1>1, <2>1, <2>2, <2>3 DEF Marks!Sources
<1> QED BY <1>1, <1>2, <1>3, <1>4, <1>5, <1>6, <1>7, <1>8

\* A stream moves its mark over items it has read.
LEMMA ReadStreamKept ==
    ASSUME MarksInv, Marks!ReadStream
    PROVE  MarksInv'
<1>1. /\ sync.at \in Marks!Streams /\ sync.at \in Nat /\ sync.at # 0
      /\ UNCHANGED <<source, count, horizon, marks, aged, faults>>
    BY ItemsAre DEF Marks!ReadStream, Marks!InLoop, MarksInv, MarkTypes
<1>2. PICK s \in Marks!Streams : s = sync.at
    BY <1>1
<1>a. PICK skipped : \E page \in Marks!Pages(sync.at, skipped) :
                     \E came \in Marks!ComeTo(sync.at, page, skipped) :
         LET scanned == came \ skipped
         IN  /\ handled' = handled \cup {<<sync.at, n>> : n \in came}
             /\ unpulled' = unpulled \cup
                               {<<sync.at, n>> : n \in Marks!LeftBehind(sync.at, page, came)}
             /\ sync' = [sync EXCEPT
                    !.at = @ + 1, !.spent = @ + Marks!Cardinality(scanned),
                    !.marks[sync.at] = Marks!MarkAfter(sync.at, page, came, scanned)]
    BY Zenon DEF Marks!ReadStream
<1>b. PICK page \in Marks!Pages(sync.at, skipped) : \E came \in Marks!ComeTo(sync.at, page, skipped) :
         /\ handled' = handled \cup {<<sync.at, n>> : n \in came}
         /\ unpulled' = unpulled \cup
                           {<<sync.at, n>> : n \in Marks!LeftBehind(sync.at, page, came)}
         /\ sync' = [sync EXCEPT
                !.at = @ + 1, !.spent = @ + Marks!Cardinality(came \ skipped),
                !.marks[sync.at] = Marks!MarkAfter(sync.at, page, came, came \ skipped)]
    BY <1>a, Zenon
<1>3. PICK came \in Marks!ComeTo(sync.at, page, skipped) :
         /\ handled' = handled \cup {<<sync.at, n>> : n \in came}
         /\ unpulled' = unpulled \cup
                           {<<sync.at, n>> : n \in Marks!LeftBehind(sync.at, page, came)}
         /\ sync' = [sync EXCEPT
                !.at = @ + 1, !.spent = @ + Marks!Cardinality(came \ skipped),
                !.marks[sync.at] = Marks!MarkAfter(sync.at, page, came, came \ skipped)]
    BY <1>b, Zenon
<1>4. /\ page \in Marks!Pages(s, skipped) /\ came \in Marks!ComeTo(s, page, skipped)
      /\ handled' = handled \cup {<<s, n>> : n \in came}
      /\ unpulled' = unpulled \cup {<<s, n>> : n \in Marks!LeftBehind(s, page, came)}
      /\ sync' = [sync EXCEPT
             !.at = @ + 1, !.spent = @ + Marks!Cardinality(came \ skipped),
             !.marks[s] = Marks!MarkAfter(s, page, came, came \ skipped)]
    BY <1>2, <1>3
<1>5. PICK mk, n :
         /\ mk = Marks!MarkAfter(s, page, came, came \ skipped)
         /\ n = Cardinality(came \ skipped)
    OBVIOUS
<1>6. /\ handled' = handled \cup {<<s, i>> : i \in came}
      /\ sync' = [sync EXCEPT !.at = @ + 1, !.spent = @ + n, !.marks[s] = mk]
      /\ unpulled \subseteq unpulled'
    BY <1>4, <1>5, OneSize
<1>7. /\ mk \in Nat \cup {-1} /\ GoodMark(s, mk)' /\ (mk = -1 => sync.marks[s] = -1)
      /\ came \subseteq 1 .. count[s]
    BY <1>1, <1>2, <1>4, <1>5, <1>6, ReadMarkIsGood
<1>8. /\ sync \in [at : Nat, spent : Nat, from : Nat, marks : NewMarks]
      /\ count \in [Marks!Streams -> 0 .. MaxItems] /\ horizon \in Nat
    BY DEF MarksInv, MarkTypes
<1>9. n \in Nat
  <2>1. IsFiniteSet(1 .. count[s])
      BY <1>8, FS_Interval
  <2>2. (came \ skipped) \in SUBSET (1 .. count[s])
      BY <1>7
  <2> QED BY <1>5, <2>1, <2>2, FS_Subset, FS_CardinalityType
<1>10. PICK after : after = [sync.marks EXCEPT ![s] = mk]
    OBVIOUS
<1>11. /\ after \in NewMarks /\ after[s] = mk
       /\ \A t \in Marks!Streams \ {s} : after[t] = sync.marks[t]
    BY <1>7, <1>8, <1>10 DEF NewMarks
<1>12. sync' = [at |-> sync.at + 1, spent |-> sync.spent + n, from |-> sync.from, marks |-> after]
    BY <1>6, <1>8, <1>10
<1>13. MarkTypes'
  <2>1. came \subseteq Marks!Items
      BY <1>7, <1>8, ItemsAre
  <2> QED BY <1>1, <1>6, <1>8, <1>9, <1>11, <1>12, <2>1 DEF MarksInv, MarkTypes
<1>14. FirstScans'
    BY <1>1, <1>6 DEF MarksInv, FirstScans
<1>15. ASSUME NEW t \in Marks!Streams
       PROVE  GoodMark(t, marks[t])' /\ GoodMark(t, sync.marks[t])'
  <2>1. PICK mt, st : mt = marks[t] /\ st = sync.marks[t]
      OBVIOUS
  <2>2. /\ mt \in Nat \cup {-1} /\ st \in Nat \cup {-1} /\ GoodMark(t, mt) /\ GoodMark(t, st)
        /\ count[t] \in 0 .. MaxItems
      BY <1>8, <2>1 DEF MarksInv, MarkTypes, NewMarks
  <2>3. GoodMark(t, mt)' /\ GoodMark(t, st)'
      BY <1>1, <1>6, <1>8, <2>2, StaysGood
  <2>4. marks'[t] = mt /\ (sync'.marks[t] = st \/ (t = s /\ sync'.marks[t] = mk))
      BY <1>1, <1>11, <1>12, <2>1
  <2> QED BY <1>7, <2>3, <2>4
<1>16. /\ sync'.from = sync.from /\ sync'.at = sync.at + 1 /\ sync'.marks = after
    BY <1>12
<1>17. ASSUME NEW t \in Marks!Streams
       PROVE  /\ t >= sync'.at => sync'.marks[t] = marks'[t]
              /\ sync'.marks[t] = -1 => marks'[t] = -1
  <2>1. t \in Nat /\ s \in Nat
      BY ItemsAre
  <2> QED BY <1>1, <1>2, <1>7, <1>11, <1>16, <2>1 DEF MarksInv
<1> QED BY <1>1, <1>13, <1>14, <1>15, <1>16, <1>17 DEF MarksInv

\* A new item is later than the horizon, and what the horizon passes has grown old.
LEMMA WorldKept ==
    ASSUME MarksInv, (\E s \in Marks!Streams : Marks!Appear(s)) \/ Marks!Age
    PROVE  MarksInv'
<1>1. /\ UNCHANGED <<source, marks, sync, handled, unpulled>> /\ aged \subseteq aged'
      /\ horizon \in Nat /\ horizon' \in Nat /\ horizon <= horizon'
    BY DEF Marks!Appear, Marks!Age, MarksInv, MarkTypes
<1>2. /\ count \in [Marks!Streams -> 0 .. MaxItems] /\ count' \in [Marks!Streams -> 0 .. MaxItems]
      /\ \A t \in Marks!Streams :
            \/ count'[t] = count[t]
            \/ /\ count'[t] = count[t] + 1 /\ ItemDate[count[t] + 1] > horizon
               /\ horizon' = horizon
  <2>1. count \in [Marks!Streams -> 0 .. MaxItems] /\ MaxItems \in Nat
      BY ItemsAre DEF MarksInv, MarkTypes
  <2>2. ASSUME NEW s \in Marks!Streams, Marks!Appear(s)
        PROVE  /\ count' = [count EXCEPT ![s] = @ + 1] /\ count[s] + 1 \in 0 .. MaxItems
               /\ ItemDate[count[s] + 1] > horizon /\ horizon' = horizon
      BY <2>1, <2>2 DEF Marks!Appear
  <2>3. CASE Marks!Age
      BY <2>1, <2>3 DEF Marks!Age
  <2>4. ASSUME NEW s \in Marks!Streams, Marks!Appear(s)
        PROVE  count' \in [Marks!Streams -> 0 .. MaxItems]
      BY <2>1, <2>2, <2>4
  <2>5. ASSUME NEW s \in Marks!Streams, Marks!Appear(s), NEW t \in Marks!Streams
        PROVE  \/ count'[t] = count[t]
               \/ /\ count'[t] = count[t] + 1 /\ ItemDate[count[t] + 1] > horizon
                  /\ horizon' = horizon
    <3>1. CASE t = s
        BY <2>1, <2>2, <2>5, <3>1
    <3>2. CASE t # s
        BY <2>1, <2>2, <2>5, <3>2
    <3> QED BY <3>1, <3>2
  <2> QED BY <2>1, <2>3, <2>4, <2>5
<1>3. MarkTypes'
    BY <1>1, <1>2 DEF MarksInv, MarkTypes
<1>4. ASSUME NEW t \in Marks!Streams
      PROVE  GoodMark(t, marks[t])' /\ GoodMark(t, sync.marks[t])'
  <2>1. PICK mt, st : mt = marks[t] /\ st = sync.marks[t]
      OBVIOUS
  <2>2. mt \in Nat \cup {-1} /\ st \in Nat \cup {-1} /\ GoodMark(t, mt) /\ GoodMark(t, st)
      BY <2>1 DEF MarksInv, MarkTypes, NewMarks
  <2>3. GoodMark(t, mt)' /\ GoodMark(t, st)'
      BY <1>1, <1>2, <2>2, StaysGood
  <2> QED BY <1>1, <2>1, <2>3
<1>5. FirstScans'
  <2> SUFFICES ASSUME NEW t \in Marks!Streams, NEW n \in 1 .. count'[t], marks[t] = -1,
                      ItemDate[n] <= horizon'
               PROVE  <<t, n>> \in handled \cup aged'
      BY <1>1 DEF FirstScans
  <2>1. n \in Marks!Items /\ ItemDate[n] \in Nat /\ count[t] \in Nat /\ n \in Nat
      BY <1>2, ItemsAre
  <2>2. CASE Marks!Age
    <3>1. /\ n <= count[t]
          /\ aged' = aged \cup {x \in Marks!Streams \X Marks!Items :
                 /\ marks[x[1]] = -1
                 /\ x[2] <= count[x[1]] /\ ItemDate[x[2]] <= horizon' /\ x \notin handled}
        BY <2>2, ItemsAre DEF Marks!Age
    <3>2. <<t, n>> \in Marks!Streams \X Marks!Items
        BY <2>1
    <3> QED BY <3>1, <3>2
  <2>3. ASSUME NEW s \in Marks!Streams, Marks!Appear(s)
        PROVE  <<t, n>> \in handled \cup aged'
    <3>1. horizon' = horizon
        BY <2>3 DEF Marks!Appear
    <3>2. n \in 1 .. count[t]
        BY <1>1, <1>2, <2>1, <3>1
    <3> QED BY <1>1, <3>1, <3>2 DEF MarksInv, FirstScans
  <2> QED BY <2>2, <2>3
<1>6. sync'.from <= horizon'
    BY <1>1 DEF MarksInv, MarkTypes
<1> QED BY <1>1, <1>3, <1>4, <1>5, <1>6 DEF MarksInv

\* What a sync saves are good marks; one that is lost leaves those there were.
LEMMA SyncEndsKept ==
    ASSUME MarksInv, Marks!StartSync \/ Marks!SkipStream \/ Marks!SaveSync \/ Marks!LoseSync
    PROVE  MarksInv'
<1>1. /\ sync \in [at : Nat, spent : Nat, from : Nat, marks : NewMarks] /\ marks \in NewMarks
      /\ horizon \in Nat /\ Marks!Idle = [at |-> 0, spent |-> 0, from |-> 0,
                                          marks |-> [s \in Marks!Streams |-> -1]]
      /\ [s \in Marks!Streams |-> -1] \in NewMarks
    BY ItemsAre DEF MarksInv, MarkTypes, Marks!Idle, NewMarks
<1>2. UNCHANGED <<source, count, horizon, handled, aged, unpulled>>
    BY DEF Marks!StartSync, Marks!SkipStream, Marks!SaveSync, Marks!LoseSync
<1>3. /\ marks' \in NewMarks
      /\ sync' \in [at : Nat, spent : Nat, from : Nat, marks : NewMarks]
      /\ sync'.from <= horizon
      /\ \A s \in Marks!Streams : /\ marks'[s] \in {marks[s], sync.marks[s]}
                                  /\ sync'.marks[s] \in {-1, marks[s], sync.marks[s]}
                                  /\ marks'[s] = -1 => marks[s] = -1
      /\ sync'.at # 0 => \A s \in Marks!Streams :
            /\ s >= sync'.at => sync'.marks[s] = marks'[s]
            /\ sync'.marks[s] = -1 => marks'[s] = -1
  <2>1. CASE Marks!StartSync
    <3>1. /\ marks' = marks
          /\ sync' = [at |-> 1, spent |-> 0, from |-> horizon, marks |-> marks]
        BY <2>1 DEF Marks!StartSync
    <3> QED BY <1>1, <3>1
  <2>2. CASE Marks!SkipStream
    <3>1. /\ marks' = marks /\ sync' = [sync EXCEPT !.at = @ + 1] /\ sync.at \in Marks!Streams
        BY <2>2, ItemsAre DEF Marks!SkipStream, Marks!InLoop
    <3>2. /\ sync'.at = sync.at + 1 /\ sync'.marks = sync.marks /\ sync'.from = sync.from
          /\ sync' \in [at : Nat, spent : Nat, from : Nat, marks : NewMarks]
        BY <1>1, <3>1
    <3>3. sync.at \in Nat /\ sync.at # 0
        BY <3>1, ItemsAre
    <3>4. \A s \in Marks!Streams : s >= sync.at + 1 => s >= sync.at
        BY <3>3, ItemsAre
    <3> QED BY <1>1, <3>1, <3>2, <3>3, <3>4 DEF MarksInv
  <2>3. CASE Marks!SaveSync
    <3>1. marks' = sync.marks /\ sync' = Marks!Idle /\ sync.at # 0
        BY <2>3 DEF Marks!SaveSync
    <3>2. \A s \in Marks!Streams : marks'[s] = -1 => marks[s] = -1
        BY <3>1 DEF MarksInv
    <3> QED BY <1>1, <3>1, <3>2
  <2>4. CASE Marks!LoseSync
    <3>1. marks' = marks /\ sync' = Marks!Idle
        BY <2>4 DEF Marks!LoseSync
    <3> QED BY <1>1, <3>1
  <2> QED BY <2>1, <2>2, <2>3, <2>4
<1>4. MarkTypes'
    BY <1>2, <1>3 DEF MarksInv, MarkTypes
<1>5. FirstScans'
    BY <1>2, <1>3 DEF MarksInv, FirstScans
<1>6. ASSUME NEW s \in Marks!Streams
      PROVE  GoodMark(s, marks[s])' /\ GoodMark(s, sync.marks[s])'
  <2>1. PICK mt, st : mt = marks'[s] /\ st = sync'.marks[s]
      OBVIOUS
  <2>2. GoodMark(s, mt) /\ GoodMark(s, st)
    <3>1. GoodMark(s, -1)
        BY DEF GoodMark
    <3>2. GoodMark(s, marks[s]) /\ GoodMark(s, sync.marks[s])
        BY DEF MarksInv
    <3> QED BY <1>3, <2>1, <3>1, <3>2
  <2>3. GoodMark(s, mt)' /\ GoodMark(s, st)'
      BY <1>2, <2>2 DEF GoodMark, Past, Marks!At
  <2> QED BY <2>1, <2>3
<1> QED BY <1>2, <1>3, <1>4, <1>5, <1>6 DEF MarksInv

\* Every step of a scan with marks keeps the marks good.
LEMMA MarksKept ==
    ASSUME MarksInv, Marks!Next \/ UNCHANGED markVars
    PROVE  MarksInv'
<1>1. CASE UNCHANGED markVars
  <2>1. \A s, mk : GoodMark(s, mk)' <=> GoodMark(s, mk)
      BY <1>1 DEF markVars, GoodMark, Past, Marks!At
  <2>2. MarkTypes' /\ FirstScans'
      BY <1>1 DEF markVars, MarksInv, MarkTypes, FirstScans
  <2>3. marks' = marks /\ sync' = sync /\ horizon' = horizon
      BY <1>1 DEF markVars
  <2>4. ASSUME NEW s \in Marks!Streams
        PROVE  GoodMark(s, marks[s])' /\ GoodMark(s, sync.marks[s])'
    <3>1. PICK mt, st : mt = marks[s] /\ st = sync.marks[s]
        OBVIOUS
    <3>2. GoodMark(s, mt)' /\ GoodMark(s, st)'
        BY <2>1, <3>1 DEF MarksInv
    <3> QED BY <2>3, <3>1, <3>2
  <2> QED BY <2>2, <2>3, <2>4 DEF MarksInv
<1> QED BY <1>1, ReadStreamKept, WorldKept, SyncEndsKept DEF Marks!Next, Marks!SyncStep

\* No mark is past an item that was not read.
LEMMA MarksAre ==
    ASSUME MarksInv
    PROVE  Marks!NothingPassed
<1> SUFFICES ASSUME NEW x \in Marks!Streams \X Marks!Items, Marks!Present(x),
                    marks[x[1]] # Marks!NoMark, Marks!At(x[2]) <= marks[x[1]],
                    x \notin handled \cup aged \cup unpulled
             PROVE  Marks!Tied(x)
    BY DEF Marks!NothingPassed
<1>1. PICK s \in Marks!Streams, n \in Marks!Items : x = <<s, n>>
    OBVIOUS
<1>2. n \in 1 .. count[s]
    BY <1>1, ItemsAre DEF Marks!Present
<1>3. Past(s, n)
    BY <1>1, <1>2, ItemsAre DEF MarksInv, GoodMark
<1>4. PICK k \in Marks!Items :
         source # "teams" /\ <<s, k>> \in handled /\ k # n /\ ItemDate[k] = ItemDate[n]
    BY <1>1, <1>3 DEF Past
<1> QED BY <1>1, <1>4 DEF Marks!Tied

-----------------------------------------------------------------------------
(* Chains: what a lookup saw is on record, or about to be.                 *)

Rows == [stages : SUBSET Chains!Stages, state : Chains!RowStates]

ChainTypes ==
    /\ window \in Seq(Chains!Events)
    /\ \A i \in DOMAIN window :
          window[i] \in stored /\ \A j \in DOMAIN window : window[j] = window[i] => j = i
    /\ request \in [Chains!Events -> [at : {"none", "look", "fold", "write", "done", "failed"},
                                      stages : SUBSET Chains!Stages, row : Nat]]
    /\ rows \in Seq(Rows)

\* Seen in the window by an analysis that looked.
InWindow(e) == \E i \in DOMAIN window : window[i] = e
Looked ==
    {e \in Chains!Events : /\ InWindow(e) /\ e \notin dismissed \cup revived
                           /\ request[e].at \in {"fold", "write", "done"}}

\* A row has the stages, or an analysis of one of the findings is going to see to it.
OnRecord(S) ==
    \/ \E i \in DOMAIN rows : Chains!Union(S) \subseteq rows[i].stages
    \/ \E z \in S : z \in Chains!Busy /\ Chains!Union(S) \subseteq request[z].stages

(***************************************************************************)
(* Every chain of findings that were looked at is on record.               *)
(***************************************************************************)
LookedIsOnRecord == ~crowded => \A S \in SUBSET Looked : Chains!Chain(S) => OnRecord(S)

\* The row that an analysis found has its stages; where it found none, there is none.
RowFound ==
    \A e \in Chains!Events : request[e].at = "write" =>
        /\ request[e].row # 0 =>
              request[e].row \in DOMAIN rows /\ rows[request[e].row].stages = request[e].stages
        /\ ~overlapped /\ request[e].row = 0 =>
              \A i \in DOMAIN rows : rows[i].stages = request[e].stages => rows[i].state # "open"

OneOpenRow ==
    ~overlapped =>
        /\ \A y, z \in Chains!Busy : y = z
        /\ \A i, j \in DOMAIN rows :
              i < j /\ rows[i].stages = rows[j].stages => rows[i].state # "open"

ChainInv == ChainTypes /\ LookedIsOnRecord /\ RowFound /\ OneOpenRow

\* Findings have stages, of which there are five.
LEMMA StagesAre ==
    /\ \A e \in Chains!Events : StagesOf[e] \subseteq Chains!Stages
    /\ IsFiniteSet(Chains!Stages) /\ Limit \in Nat
    /\ \A S \in SUBSET Chains!Events : Chains!Union(S) \subseteq Chains!Stages
    /\ \A S, T : S \subseteq T => Chains!Union(S) \subseteq Chains!Union(T)
<1>1. Limit \in Nat /\ \A e \in Chains!Events : StagesOf[e] \subseteq Chains!Stages
    BY Assumptions DEF Chains!ChainAssumption
<1>2. IsFiniteSet(Chains!Stages)
  <2>1. IsFiniteSet({"recon"})
      BY FS_Singleton
  <2>2. IsFiniteSet({"recon"} \cup {"manipulation"})
      BY <2>1, FS_AddElement
  <2>3. IsFiniteSet({"recon"} \cup {"manipulation"} \cup {"collection"})
      BY <2>2, FS_AddElement
  <2>4. IsFiniteSet({"recon"} \cup {"manipulation"} \cup {"collection"} \cup {"execution"})
      BY <2>3, FS_AddElement
  <2>5. IsFiniteSet({"recon"} \cup {"manipulation"} \cup {"collection"} \cup {"execution"}
                       \cup {"exfiltration"})
      BY <2>4, FS_AddElement
  <2>6. Chains!Stages = {"recon"} \cup {"manipulation"} \cup {"collection"} \cup {"execution"}
                           \cup {"exfiltration"}
      BY DEF Chains!Stages
  <2> QED BY <2>5, <2>6
<1>3. \A S \in SUBSET Chains!Events : Chains!Union(S) \subseteq Chains!Stages
    BY <1>1 DEF Chains!Union
<1>4. \A S, T : S \subseteq T => Chains!Union(S) \subseteq Chains!Union(T)
    BY DEF Chains!Union
<1> QED BY <1>1, <1>2, <1>3, <1>4

\* What makes a chain makes one together with more.
LEMMA ChainGrows ==
    ASSUME NEW T \in SUBSET Chains!Events, IsFiniteSet(T), NEW S \in SUBSET T, Chains!Chain(S)
    PROVE  Chains!Chain(T)
<1>1. PICK u, v : u = Chains!Union(S) /\ v = Chains!Union(T)
    OBVIOUS
<1>2. /\ Cardinality(S) >= 2 /\ Cardinality(u) >= 2
      /\ u \cap Chains!Late # {} \/ Cardinality(u) >= 3
    BY <1>1, OneSize DEF Chains!Chain
<1>3. u \subseteq v /\ v \subseteq Chains!Stages
    BY <1>1, StagesAre
<1>4. IsFiniteSet(v)
    BY <1>3, StagesAre, FS_Subset
<1>5. /\ Cardinality(S) <= Cardinality(T) /\ Cardinality(u) <= Cardinality(v)
      /\ Cardinality(S) \in Nat /\ Cardinality(T) \in Nat
      /\ Cardinality(u) \in Nat /\ Cardinality(v) \in Nat
    BY <1>3, <1>4, FS_Subset, FS_CardinalityType
<1>6. /\ Cardinality(T) >= 2 /\ Cardinality(v) >= 2
      /\ v \cap Chains!Late # {} \/ Cardinality(v) >= 3
    BY <1>2, <1>3, <1>5
<1> QED BY <1>1, <1>6, OneSize DEF Chains!Chain

\* Where the limit does not come in, a lookup shows all that nobody dismissed.
LEMMA ShownIs ==
    ASSUME ChainTypes, NEW e \in Chains!Events
    PROVE  /\ Chains!Shown(e) \in SUBSET Chains!Events /\ IsFiniteSet(Chains!Shown(e))
           /\ Cardinality(Chains!Open) <= Limit =>
                 \A d : InWindow(d) /\ d \notin dismissed => d \in Chains!Shown(e)
<1> DEFINE within == {j \in Chains!Open : Chains!Cardinality({k \in Chains!Open : k >= j}) <= Limit}
           f == [i \in within |-> window[i]]
<1>1. /\ IsFiniteSet(DOMAIN window) /\ DOMAIN window \subseteq Nat
      /\ \A i \in DOMAIN window : window[i] \in Chains!Events
  <2>1. window \in Seq(Chains!Events)
      BY DEF ChainTypes
  <2>2. DOMAIN window = 1 .. Len(window) /\ Len(window) \in Nat
      BY <2>1
  <2>3. \A n \in Nat : IsFiniteSet(1 .. n)
      BY FS_Interval, 1 \in Int
  <2> QED BY <2>1, <2>2, <2>3
<1>2. Chains!Shown(e) = {window[i] : i \in within}
    BY DEF Chains!Shown
<1>3. within \in SUBSET DOMAIN window /\ Chains!Open \in SUBSET DOMAIN window
    BY DEF Chains!Open
<1>4. IsFiniteSet(Chains!Shown(e))
  <2>1. IsFiniteSet(within)
      BY <1>1, <1>3, FS_Subset
  <2>2. f \in Surjection(within, Chains!Shown(e))
      BY <1>2 DEF Surjection
  <2> HIDE DEF f
  <2> QED BY <2>1, <2>2, FS_Surjection
<1>5. ASSUME Cardinality(Chains!Open) <= Limit, NEW d, InWindow(d), d \notin dismissed
      PROVE  d \in Chains!Shown(e)
  <2>1. PICK i \in DOMAIN window : window[i] = d
      BY <1>5 DEF InWindow
  <2>2. i \in Chains!Open
      BY <1>5, <2>1 DEF Chains!Open
  <2> DEFINE later == {k \in Chains!Open : k >= i}
  <2>3. IsFiniteSet(Chains!Open) /\ later \in SUBSET Chains!Open
      BY <1>1, <1>3, FS_Subset
  <2>4. Cardinality(later) <= Limit
    <3> HIDE DEF later
    <3> QED BY <1>5, <2>3, FS_Subset, FS_CardinalityType, StagesAre
  <2>5. i \in within
      BY <2>2, <2>4, OneSize
  <2> QED BY <1>2, <2>1, <2>5
<1> QED BY <1>1, <1>2, <1>3, <1>4, <1>5

\* The row that a lookup finds has the stages, or no open row has.
LEMMA PriorIs ==
    ASSUME ChainTypes, NEW stages
    PROVE  /\ Chains!Prior(stages) \in Nat
           /\ Chains!Prior(stages) # 0 =>
                 /\ Chains!Prior(stages) \in DOMAIN rows
                 /\ rows[Chains!Prior(stages)].stages = stages
           /\ Chains!Prior(stages) = 0 =>
                 \A i \in DOMAIN rows : rows[i].stages = stages => rows[i].state # "open"
<1> DEFINE I == {i \in DOMAIN rows : rows[i].stages = stages /\ Chains!IsOpen(i)}
           T == {0} \cup I
<1>1. DOMAIN rows = 1 .. Len(rows) /\ Len(rows) \in Nat
    BY DEF ChainTypes
<1>2. T \in SUBSET Nat /\ T # {} /\ \A x \in T : x <= Len(rows)
    BY <1>1
<1>3. Chains!Prior(stages) = CHOOSE x \in T : \A y \in T : x >= y
    BY DEF Chains!Prior, Chains!Max
<1>4. Chains!Prior(stages) \in T /\ \A y \in T : Chains!Prior(stages) >= y
  <2> HIDE DEF T
  <2>1. PICK x \in T : \A y \in T : y <= x
      BY <1>1, <1>2, GreatestIs
  <2>2. \E z \in T : \A y \in T : z >= y
      BY <1>2, <2>1
  <2> QED BY <1>3, <2>2
<1>5. Chains!Prior(stages) = 0 => I = {}
    BY <1>1, <1>4
<1>6. \A i \in DOMAIN rows : rows[i].stages = stages /\ rows[i].state = "open" => i \in I
    BY DEF Chains!IsOpen
<1> QED BY <1>1, <1>4, <1>5, <1>6

\* Steps that leave the rows alone and no finding newly looked at.
LEMMA LessLookedKept ==
    ASSUME ChainInv, ChainTypes', rows' = rows, crowded' = crowded, overlapped' = overlapped,
           Looked' \subseteq Looked,
           \A e \in Chains!Events :
               request'[e] = request[e] \/ request'[e].at \in {"look", "failed"}
    PROVE  ChainInv'
<1>1. \A z \in Chains!Busy' : z \in Chains!Busy /\ request'[z] = request[z]
    BY DEF Chains!Busy
<1>2. LookedIsOnRecord'
  <2> SUFFICES ASSUME ~crowded, NEW S \in SUBSET Looked', Chains!Chain(S)' PROVE OnRecord(S)'
      BY DEF LookedIsOnRecord
  <2>1. Chains!Chain(S) /\ Chains!Union(S)' = Chains!Union(S)
      BY DEF Chains!Chain, Chains!Union
  <2>2. OnRecord(S)
      BY <2>1 DEF ChainInv, LookedIsOnRecord
  <2>3. \A z \in S : z \in Chains!Busy => z \in Chains!Busy' /\ request'[z] = request[z]
    <3> SUFFICES ASSUME NEW z \in S, z \in Chains!Busy
                 PROVE  z \in Chains!Busy' /\ request'[z] = request[z]
        OBVIOUS
    <3>1. z \in Chains!Events /\ request'[z].at \in {"fold", "write", "done"} /\ InWindow(z)'
        BY DEF Looked
    <3>2. request'[z] = request[z]
        BY <3>1
    <3> QED BY <3>1, <3>2 DEF Chains!Busy
  <2> QED BY <2>1, <2>2, <2>3 DEF OnRecord
<1>3. RowFound'
  <2>1. \A e \in Chains!Events : request'[e].at = "write" => request'[e] = request[e]
      OBVIOUS
  <2> QED BY <2>1 DEF ChainInv, RowFound
<1>4. OneOpenRow'
    BY <1>1 DEF ChainInv, OneOpenRow
<1> QED BY <1>2, <1>3, <1>4 DEF ChainInv

\* At first no finding is stored.
LEMMA ChainInit ==
    ASSUME Chains!Init
    PROVE  ChainInv
<1>1. /\ window = <<>> /\ rows = <<>> /\ ~overlapped
      /\ request = [e \in Chains!Events |-> [at |-> "none", stages |-> {}, row |-> 0]]
    BY DEF Chains!Init, Chains!Ended
<1>2. ChainTypes /\ DOMAIN rows = {} /\ DOMAIN window = {}
    BY <1>1 DEF ChainTypes
<1>3. Looked = {} /\ Chains!Busy = {}
    BY <1>1 DEF Looked, Chains!Busy
<1>4. ~Chains!Chain({})
  <2>1. Cardinality({}) = 0
      BY FS_EmptySet
  <2> QED BY <2>1, OneSize DEF Chains!Chain
<1>5. LookedIsOnRecord
    BY <1>3, <1>4 DEF LookedIsOnRecord
<1> QED BY <1>1, <1>2, <1>3, <1>5 DEF ChainInv, RowFound, OneOpenRow

\* The window without one of its places: the others, in their order.
LEMMA RestIs ==
    ASSUME ChainTypes, NEW i \in DOMAIN window
    PROVE  /\ Chains!RemoveAt(window, i) \in Seq(Chains!Events)
           /\ \A k \in DOMAIN Chains!RemoveAt(window, i) :
                 LET j == IF k < i THEN k ELSE k + 1
                 IN  j \in DOMAIN window /\ Chains!RemoveAt(window, i)[k] = window[j]
<1>0. PICK s, S, n : s = window /\ S = Chains!Events /\ n = Len(window)
    OBVIOUS
<1>s. s \in Seq(S) /\ n \in Nat /\ n = Len(s) /\ i \in 1 .. n /\ DOMAIN s = 1 .. n
    BY <1>0 DEF ChainTypes
<1>1. PICK before, after : before = SubSeq(s, 1, i - 1) /\ after = SubSeq(s, i + 1, n)
    OBVIOUS
<1>2. n \in Nat /\ i \in 1 .. n /\ i \in Nat /\ i <= n /\ i >= 1 /\ i - 1 \in Int /\ i + 1 \in Int
    BY <1>s
<1>3. (\A k \in 1 .. i - 1 : s[k] \in S) /\ (\A k \in i + 1 .. n : s[k] \in S)
    BY <1>s, <1>2
<1>4. /\ before \in Seq(S) /\ Len(before) = i - 1
      /\ \A k \in 1 .. i - 1 : before[k] = s[k]
  <2>1. /\ before \in Seq(S) /\ Len(before) = IF 1 <= i - 1 THEN (i - 1) - 1 + 1 ELSE 0
        /\ \A k \in 1 .. (i - 1) - 1 + 1 : before[k] = s[1 + k - 1]
    <3>1. PICK m : m = i - 1
        OBVIOUS
    <3>2. 1 \in Int /\ m \in Int /\ \A k \in 1 .. m : s[k] \in S
        BY <1>2, <1>3, <3>1
    <3>3. /\ SubSeq(s, 1, m) \in Seq(S)
          /\ Len(SubSeq(s, 1, m)) = IF 1 <= m THEN m - 1 + 1 ELSE 0
          /\ \A k \in 1 .. m - 1 + 1 : SubSeq(s, 1, m)[k] = s[1 + k - 1]
        BY <3>2, SubSeqProperties
    <3> QED BY <1>1, <3>1, <3>3
  <2> QED BY <1>2, <2>1
<1>5. /\ after \in Seq(S) /\ Len(after) = n - i
      /\ \A k \in 1 .. n - i : after[k] = s[i + k] /\ i + k \in 1 .. n
  <2>1. /\ after \in Seq(S) /\ Len(after) = IF i + 1 <= n THEN n - (i + 1) + 1 ELSE 0
        /\ \A k \in 1 .. n - (i + 1) + 1 : after[k] = s[(i + 1) + k - 1]
    <3>1. PICK m : m = i + 1
        OBVIOUS
    <3>2. n \in Int /\ m \in Int /\ \A k \in m .. n : s[k] \in S
        BY <1>2, <1>3, <3>1
    <3>3. /\ SubSeq(s, m, n) \in Seq(S)
          /\ Len(SubSeq(s, m, n)) = IF m <= n THEN n - m + 1 ELSE 0
          /\ \A k \in 1 .. n - m + 1 : SubSeq(s, m, n)[k] = s[m + k - 1]
        BY <3>2, SubSeqProperties
    <3> QED BY <1>1, <3>1, <3>3
  <2>2. Len(after) = n - i
      BY <1>2, <2>1
  <2>3. ASSUME NEW k \in 1 .. n - i
        PROVE  after[k] = s[i + k] /\ i + k \in 1 .. n
    <3>1. k \in 1 .. n - (i + 1) + 1 /\ (i + 1) + k - 1 = i + k /\ i + k \in 1 .. n
        BY <1>2
    <3> QED BY <2>1, <3>1
  <2> QED BY <2>1, <2>2, <2>3
<1>6. PICK rest : rest = before \o after
    OBVIOUS
<1>7. /\ rest \in Seq(S) /\ Len(rest) = n - 1
      /\ \A k \in 1 .. n - 1 : rest[k] = IF k <= i - 1 THEN before[k] ELSE after[k - (i - 1)]
  <2>1. /\ rest \in Seq(S) /\ Len(rest) = Len(before) + Len(after)
        /\ \A k \in 1 .. Len(before) + Len(after) :
              rest[k] = IF k <= Len(before) THEN before[k] ELSE after[k - Len(before)]
      BY <1>4, <1>5, <1>6, ConcatProperties
  <2>2. PICK p, q : p = Len(before) /\ q = Len(after)
      OBVIOUS
  <2>3. p = i - 1 /\ q = n - i
      BY <1>4, <1>5, <2>2, Zenon
  <2>4. p + q = n - 1
      BY <1>2, <2>3
  <2>5. Len(before) + Len(after) = n - 1
      BY <2>2, <2>4, Zenon
  <2> QED BY <1>4, <2>1, <2>5
<1>8. ASSUME NEW k \in 1 .. n - 1
      PROVE  LET j == IF k < i THEN k ELSE k + 1 IN j \in 1 .. n /\ rest[k] = s[j]
  <2>1. CASE k <= i - 1
    <3>1. k \in 1 .. i - 1 /\ k \in 1 .. n /\ k < i
        BY <1>2, <2>1
    <3>2. rest[k] = s[k]
        BY <1>4, <1>7, <2>1, <3>1
    <3> QED BY <3>1, <3>2
  <2>2. CASE ~(k <= i - 1)
    <3>1. /\ k - (i - 1) \in 1 .. n - i /\ i + (k - (i - 1)) = k + 1
          /\ ~(k < i) /\ k + 1 \in 1 .. n
        BY <1>2, <2>2
    <3>2. rest[k] = after[k - (i - 1)]
        BY <1>7, <2>2
    <3>3. rest[k] = s[k + 1]
        BY <1>5, <3>1, <3>2
    <3> QED BY <3>1, <3>3
  <2> QED BY <2>1, <2>2
<1>9. DOMAIN rest = 1 .. n - 1
    BY <1>7, LenProperties
<1>10. Chains!RemoveAt(window, i) = rest
    BY <1>0, <1>1, <1>6 DEF Chains!RemoveAt
<1>11. /\ rest \in Seq(S)
       /\ \A k \in DOMAIN rest :
             LET j == IF k < i THEN k ELSE k + 1 IN j \in DOMAIN s /\ rest[k] = s[j]
    BY <1>s, <1>7, <1>8, <1>9
<1> QED BY <1>0, <1>10, <1>11, Zenon

\* The window without one of the findings: the others, each once.
LEMMA WithoutIs ==
    ASSUME ChainTypes, NEW e
    PROVE  /\ Chains!Without(e) \in Seq(Chains!Events)
           /\ \A k \in DOMAIN Chains!Without(e) :
                 /\ Chains!Without(e)[k] # e
                 /\ \E j \in DOMAIN window : Chains!Without(e)[k] = window[j]
                 /\ \A l \in DOMAIN Chains!Without(e) :
                       Chains!Without(e)[l] = Chains!Without(e)[k] => l = k
<1>1. /\ window \in Seq(Chains!Events)
      /\ \A i, j \in DOMAIN window : window[j] = window[i] => j = i
    BY DEF ChainTypes
<1>2. CASE e \notin Chains!ToSet(window)
  <2>1. Chains!Without(e) = window /\ \A i \in DOMAIN window : window[i] # e
      BY <1>2 DEF Chains!Without, Chains!ToSet
  <2> QED BY <1>1, <2>1
<1>3. CASE e \in Chains!ToSet(window)
  <2>1. PICK i \in DOMAIN window : i = CHOOSE j \in DOMAIN window : window[j] = e
      BY <1>3 DEF Chains!ToSet
  <2>2. window[i] = e
      BY <1>3, <2>1 DEF Chains!ToSet
  <2>3. PICK rest : rest = Chains!Without(e)
      OBVIOUS
  <2>4. rest = Chains!RemoveAt(window, i)
      BY <1>3, <2>1, <2>3 DEF Chains!Without
  <2>5. /\ rest \in Seq(Chains!Events)
        /\ \A k \in DOMAIN rest :
              LET j == IF k < i THEN k ELSE k + 1 IN j \in DOMAIN window /\ rest[k] = window[j]
      BY <2>4, RestIs
  <2>6. DOMAIN rest \subseteq Nat /\ i \in Nat
      BY <1>1, <2>5
  <2>7. ASSUME NEW k \in DOMAIN rest, NEW l \in DOMAIN rest
        PROVE  /\ rest[k] # e /\ \E j \in DOMAIN window : rest[k] = window[j]
               /\ rest[l] = rest[k] => l = k
    <3>1. PICK j \in DOMAIN window : j = (IF k < i THEN k ELSE k + 1) /\ rest[k] = window[j]
        BY <2>5
    <3>2. PICK m \in DOMAIN window : m = (IF l < i THEN l ELSE l + 1) /\ rest[l] = window[m]
        BY <2>5
    <3>3. j # i /\ (m = j => l = k)
        BY <2>6, <3>1, <3>2
    <3> QED BY <1>1, <2>2, <3>1, <3>2, <3>3
  <2> QED BY <2>3, <2>5, <2>7
<1> QED BY <1>2, <1>3

\* A new finding, one that comes again, or one that is reviewed, deleted or grows old.
LEMMA WindowKept ==
    ASSUME ChainInv, NEW e \in Chains!Events,
           \/ Chains!Store(e) \/ Chains!Dismiss(e) \/ Chains!Reopen(e) \/ Chains!Delete(e)
           \/ Chains!AgeOut
           \/ \E reopened \in BOOLEAN : Chains!Repeat(e, reopened)
    PROVE  ChainInv'
<1>1. /\ window \in Seq(Chains!Events) /\ \A i \in DOMAIN window : window[i] \in stored
      /\ \A i, j \in DOMAIN window : window[j] = window[i] => j = i
      /\ request \in [Chains!Events -> [at : {"none", "look", "fold", "write", "done", "failed"},
                                        stages : SUBSET Chains!Stages, row : Nat]]
      /\ DOMAIN window = 1 .. Len(window) /\ Len(window) \in Nat
    BY DEF ChainInv, ChainTypes
<1>2. CASE Chains!Store(e)
  <2>1. /\ e \notin stored /\ stored' = stored \cup {e} /\ window' = Append(window, e)
        /\ request' = [request EXCEPT ![e].at = "look"]
        /\ UNCHANGED <<dismissed, rows, revived, crowded, overlapped>>
      BY <1>2 DEF Chains!Store
  <2>2. /\ window' \in Seq(Chains!Events) /\ DOMAIN window' = 1 .. Len(window) + 1
        /\ \A i \in 1 .. Len(window) : window'[i] = window[i]
        /\ window'[Len(window) + 1] = e
      BY <1>1, <2>1
  <2>3. \A d : InWindow(d)' => InWindow(d) \/ d = e
      BY <1>1, <2>2 DEF InWindow
  <2>4. /\ request'[e].at = "look" /\ \A d \in Chains!Events \ {e} : request'[d] = request[d]
        /\ request' \in [Chains!Events -> [at : {"none", "look", "fold", "write", "done", "failed"},
                                          stages : SUBSET Chains!Stages, row : Nat]]
    <3>1. request' = [request EXCEPT ![e].at = "look"]
        BY <2>1
    <3>2. request \in [Chains!Events -> [at : {"none", "look", "fold", "write", "done", "failed"},
                                        stages : SUBSET Chains!Stages, row : Nat]]
        BY <1>1
    <3> QED BY <3>1, <3>2
  <2>5. ChainTypes'
    <3>1. \A i \in DOMAIN window' :
              window'[i] \in stored' /\ \A j \in DOMAIN window' : window'[j] = window'[i] => j = i
        BY <1>1, <2>1, <2>2
    <3> QED BY <2>1, <2>2, <2>4, <3>1 DEF ChainInv, ChainTypes
  <2>6. Looked' \subseteq Looked
      BY <2>1, <2>3, <2>4 DEF Looked
  <2> QED BY <2>1, <2>4, <2>5, <2>6, LessLookedKept
<1>3. CASE Chains!Dismiss(e)
  <2>1. /\ dismissed' = dismissed \cup {e}
        /\ UNCHANGED <<window, stored, request, rows, revived, crowded, overlapped>>
      BY <1>3 DEF Chains!Dismiss
  <2>2. ChainTypes' /\ Looked' \subseteq Looked
      BY <2>1 DEF ChainInv, ChainTypes, Looked, InWindow
  <2> QED BY <2>1, <2>2, LessLookedKept
<1>4. CASE Chains!AgeOut
  <2>1. /\ window # <<>> /\ window' = Tail(window)
        /\ UNCHANGED <<stored, dismissed, request, rows, revived, crowded, overlapped>>
      BY <1>4 DEF Chains!AgeOut
  <2>2. /\ window' \in Seq(Chains!Events) /\ DOMAIN window' = 1 .. Len(window) - 1
        /\ \A i \in 1 .. Len(window) - 1 : window'[i] = window[i + 1] /\ i + 1 \in DOMAIN window
      BY <1>1, <2>1
  <2>3. ChainTypes' /\ \A d : InWindow(d)' => InWindow(d)
      BY <1>1, <2>1, <2>2 DEF ChainInv, ChainTypes, InWindow
  <2>4. Looked' \subseteq Looked
      BY <2>1, <2>3 DEF Looked
  <2> QED BY <2>1, <2>3, <2>4, LessLookedKept
<1>5. ASSUME NEW reopened \in BOOLEAN, Chains!Repeat(e, reopened)
      PROVE  ChainInv'
  <2>1. /\ e \in stored /\ dismissed \subseteq dismissed' \cup {e} /\ revived' = revived \cup {e}
        /\ UNCHANGED <<stored, request, rows, crowded, overlapped>>
        /\ window' = Append(Chains!Without(e), e)
      BY <1>5 DEF Chains!Repeat
  <2>2. /\ window' \in Seq(Chains!Events)
        /\ \A i \in DOMAIN window' :
              /\ window'[i] = e \/ \E j \in DOMAIN window : window'[i] = window[j]
              /\ \A j \in DOMAIN window' : window'[j] = window'[i] => j = i
    <3>1. PICK rest : rest = Chains!Without(e)
        OBVIOUS
    <3>2. /\ rest \in Seq(Chains!Events)
          /\ \A k \in DOMAIN rest :
                /\ rest[k] # e /\ \E j \in DOMAIN window : rest[k] = window[j]
                /\ \A l \in DOMAIN rest : rest[l] = rest[k] => l = k
        BY <3>1, WithoutIs DEF ChainInv
    <3>3. /\ window' \in Seq(Chains!Events) /\ DOMAIN window' = 1 .. Len(rest) + 1
          /\ DOMAIN rest = 1 .. Len(rest) /\ Len(rest) \in Nat
          /\ \A k \in 1 .. Len(rest) : window'[k] = rest[k]
          /\ window'[Len(rest) + 1] = e
        BY <2>1, <3>1, <3>2
    <3> QED BY <3>2, <3>3
  <2>3. ChainTypes' /\ \A d : InWindow(d)' => InWindow(d) \/ d = e
      BY <1>1, <2>1, <2>2 DEF ChainInv, ChainTypes, InWindow
  <2>4. Looked' \subseteq Looked
      BY <2>1, <2>3 DEF Looked
  <2> QED BY <2>1, <2>3, <2>4, LessLookedKept
<1>6. CASE Chains!Reopen(e)
  <2>1. /\ dismissed' = dismissed \ {e} /\ revived' = revived \cup {e}
        /\ UNCHANGED <<window, stored, request, rows, crowded, overlapped>>
      BY <1>6 DEF Chains!Reopen
  <2>2. ChainTypes' /\ Looked' \subseteq Looked
      BY <2>1 DEF ChainInv, ChainTypes, Looked, InWindow
  <2> QED BY <2>1, <2>2, LessLookedKept
<1>7. CASE Chains!Delete(e)
  <2>1. /\ stored' = stored \ {e} /\ dismissed' = dismissed \ {e} /\ revived' = revived \ {e}
        /\ window' = Chains!Without(e) /\ UNCHANGED <<request, rows, crowded, overlapped>>
      BY <1>7 DEF Chains!Delete
  <2>2. /\ window' \in Seq(Chains!Events)
        /\ \A i \in DOMAIN window' :
              /\ window'[i] # e /\ \E j \in DOMAIN window : window'[i] = window[j]
              /\ \A j \in DOMAIN window' : window'[j] = window'[i] => j = i
      BY <2>1, WithoutIs DEF ChainInv
  <2>3. ChainTypes' /\ \A d : InWindow(d)' => InWindow(d) /\ d # e
      BY <1>1, <2>1, <2>2 DEF ChainInv, ChainTypes, InWindow
  <2>4. Looked' \subseteq Looked
      BY <2>1, <2>3 DEF Looked
  <2> QED BY <2>1, <2>3, <2>4, LessLookedKept
<1> QED BY <1>2, <1>3, <1>4, <1>5, <1>6, <1>7

(***************************************************************************)
(* A lookup sees every finding that was looked at before it, so that what  *)
(* is on its way covers each chain that its own finding makes.             *)
(***************************************************************************)
LEMMA LookKept ==
    ASSUME ChainInv, NEW e \in Chains!Events, Chains!Look(e)
    PROVE  ChainInv'
<1>1. PICK shown : shown = Chains!Shown(e)
    OBVIOUS
<1>2. PICK q : q = IF Chains!Chain(shown)
                   THEN [at |-> "fold", stages |-> Chains!Union(shown), row |-> request[e].row]
                   ELSE [at |-> "done", stages |-> {}, row |-> 0]
    OBVIOUS
<1>3. /\ request[e].at = "look"
      /\ crowded' = (crowded \/ Cardinality(Chains!Open) > Limit)
      /\ overlapped' = (overlapped \/ Chains!Busy # {})
      /\ UNCHANGED <<window, stored, dismissed, rows, revived, acts>>
    BY OneSize DEF Chains!Look
<1>4. /\ request \in [Chains!Events -> [at : {"none", "look", "fold", "write", "done", "failed"},
                                        stages : SUBSET Chains!Stages, row : Nat]]
      /\ shown \in SUBSET Chains!Events /\ IsFiniteSet(shown)
      /\ Chains!Union(shown) \in SUBSET Chains!Stages
    BY <1>1, ShownIs, StagesAre DEF ChainInv, ChainTypes
<1>5. request' = [request EXCEPT ![e] = q]
  <2>1. request' = [request EXCEPT ![e] =
                       IF Chains!Chain(shown)
                       THEN [request[e] EXCEPT !.at = "fold", !.stages = Chains!Union(shown)]
                       ELSE [at |-> "done", stages |-> {}, row |-> 0]]
      BY <1>1 DEF Chains!Look, Chains!Ended
  <2>2. [request[e] EXCEPT !.at = "fold", !.stages = Chains!Union(shown)]
           = [at |-> "fold", stages |-> Chains!Union(shown), row |-> request[e].row]
    <3>1. request[e] \in [at : {"none", "look", "fold", "write", "done", "failed"},
                           stages : SUBSET Chains!Stages, row : Nat]
        BY <1>4
    <3>2. PICK r, x : r = request[e] /\ x = Chains!Union(shown)
        OBVIOUS
    <3>3. r = [at |-> r.at, stages |-> r.stages, row |-> r.row]
        BY <3>1, <3>2
    <3>4. PICK p : p = [r EXCEPT !.at = "fold"]
        OBVIOUS
    <3>5. p = [at |-> "fold", stages |-> r.stages, row |-> r.row]
        BY <3>3, <3>4
    <3>6. [p EXCEPT !.stages = x] = [at |-> "fold", stages |-> x, row |-> r.row]
        BY <3>5
    <3> QED BY <3>2, <3>4, <3>6, Zenon
  <2> QED BY <1>2, <2>1, <2>2
<1>6. /\ q \in [at : {"none", "look", "fold", "write", "done", "failed"},
                stages : SUBSET Chains!Stages, row : Nat]
      /\ q.at \in {"fold", "done"}
      /\ Chains!Chain(shown) => q.at = "fold" /\ q.stages = Chains!Union(shown)
    BY <1>2, <1>4
<1>7. /\ request'[e] = q /\ \A d \in Chains!Events \ {e} : request'[d] = request[d]
      /\ request' \in [Chains!Events -> [at : {"none", "look", "fold", "write", "done", "failed"},
                                         stages : SUBSET Chains!Stages, row : Nat]]
    BY <1>4, <1>5, <1>6
<1>8. ChainTypes'
    BY <1>3, <1>7 DEF ChainInv, ChainTypes
<1>9. e \notin Chains!Busy /\ Chains!Busy' \subseteq Chains!Busy \cup {e}
    BY <1>3, <1>7 DEF Chains!Busy
<1>10. \A z \in Chains!Busy : z \in Chains!Busy' /\ request'[z] = request[z]
    BY <1>7, <1>9 DEF Chains!Busy
<1>11. ASSUME ~crowded', NEW S \in SUBSET Looked', Chains!Chain(S)
       PROVE  OnRecord(S)'
  <2>1. \A d \in S : InWindow(d) /\ d \notin dismissed
      BY <1>3 DEF Looked, InWindow
  <2>2. CASE e \in S
    <3>1. ~(Cardinality(Chains!Open) > Limit)
        BY <1>3, <1>11
    <3>2. Cardinality(Chains!Open) <= Limit
      <4>1. /\ IsFiniteSet(DOMAIN window) /\ Chains!Open \in SUBSET DOMAIN window
        <5>1. DOMAIN window = 1 .. Len(window) /\ Len(window) \in Nat
            BY DEF ChainInv, ChainTypes
        <5> QED BY <5>1, FS_Interval DEF Chains!Open
      <4>2. Cardinality(Chains!Open) \in Nat
          BY <4>1, FS_Subset, FS_CardinalityType
      <4> QED BY <3>1, <4>2, StagesAre
    <3>3. S \in SUBSET shown
        BY <1>1, <2>1, <3>2, ShownIs DEF ChainInv
    <3>4. Chains!Chain(shown)
        BY <1>4, <1>11, <3>3, ChainGrows
    <3>5. Chains!Union(S) \subseteq q.stages /\ q.at = "fold"
        BY <1>6, <3>3, <3>4, StagesAre
    <3>6. e \in Chains!Busy' /\ Chains!Union(S)' \subseteq request'[e].stages
        BY <1>7, <3>5 DEF Chains!Busy, Chains!Union
    <3> QED BY <2>2, <3>6 DEF OnRecord
  <2>3. CASE e \notin S
    <3>1. S \in SUBSET Looked /\ ~crowded
      <4>1. ~crowded
          BY <1>3, <1>11
      <4>2. \A d \in S : d \in Chains!Events \ {e} /\ d \notin revived
          BY <1>3, <2>3 DEF Looked
      <4>3. \A d \in S : request[d].at \in {"fold", "write", "done"}
          BY <1>7, <4>2 DEF Looked
      <4> QED BY <2>1, <4>1, <4>2, <4>3 DEF Looked
    <3>2. OnRecord(S)
        BY <1>11, <3>1 DEF ChainInv, LookedIsOnRecord
    <3> QED BY <1>3, <1>10, <3>2 DEF OnRecord, Chains!Union
  <2> QED BY <2>2, <2>3
<1>12. LookedIsOnRecord'
    BY <1>11 DEF LookedIsOnRecord, Chains!Chain, Chains!Union
<1>13. RowFound'
  <2>1. \A d \in Chains!Events : request'[d].at = "write" => request'[d] = request[d]
      BY <1>6, <1>7
  <2>2. overlapped => overlapped'
      BY <1>3
  <2>3. RowFound /\ UNCHANGED rows
      BY <1>3 DEF ChainInv
  <2> QED BY <2>1, <2>2, <2>3 DEF RowFound
<1>14. OneOpenRow'
    BY <1>3, <1>9 DEF ChainInv, OneOpenRow
<1> QED BY <1>8, <1>12, <1>13, <1>14 DEF ChainInv

\* The row that a lookup finds is the one its analysis goes on with.
LEMMA FindPriorKept ==
    ASSUME ChainInv, NEW e \in Chains!Events, Chains!FindPrior(e)
    PROVE  ChainInv'
<1>1. PICK r : r = Chains!Prior(request[e].stages)
    OBVIOUS
<1>2. /\ r \in Nat
      /\ r # 0 => r \in DOMAIN rows /\ rows[r].stages = request[e].stages
      /\ r = 0 => \A i \in DOMAIN rows :
                      rows[i].stages = request[e].stages => rows[i].state # "open"
    BY <1>1, PriorIs DEF ChainInv
<1>3. /\ request[e].at = "fold"
      /\ request' = [request EXCEPT ![e].at = "write", ![e].row = r]
      /\ UNCHANGED <<window, stored, dismissed, rows, revived, crowded, overlapped, acts>>
    BY <1>1 DEF Chains!FindPrior
<1>4. request \in [Chains!Events -> [at : {"none", "look", "fold", "write", "done", "failed"},
                                     stages : SUBSET Chains!Stages, row : Nat]]
    BY DEF ChainInv, ChainTypes
<1>5. /\ request'[e] = [at |-> "write", stages |-> request[e].stages, row |-> r]
      /\ \A d \in Chains!Events \ {e} : request'[d] = request[d]
      /\ request' \in [Chains!Events -> [at : {"none", "look", "fold", "write", "done", "failed"},
                                         stages : SUBSET Chains!Stages, row : Nat]]
  <2>1. PICK q : q = [at |-> "write", stages |-> request[e].stages, row |-> r]
      OBVIOUS
  <2>2. request' = [request EXCEPT ![e] = q]
    <3>1. PICK f : f = [request EXCEPT ![e].at = "write"]
        OBVIOUS
    <3>2. request' = [f EXCEPT ![e].row = r]
        BY <1>3, <3>1, Zenon
    <3>3. f[e] = [at |-> "write", stages |-> request[e].stages, row |-> request[e].row]
        BY <1>4, <3>1
    <3>4. f = [request EXCEPT ![e] = f[e]]
        BY <1>4, <3>1
    <3>5. request' = [f EXCEPT ![e] = q]
      <4>1. q = [f[e] EXCEPT !.row = r]
          BY <2>1, <3>3
      <4>2. request' = [f EXCEPT ![e] = [f[e] EXCEPT !.row = r]]
          BY <3>2
      <4> QED BY <4>1, <4>2, Zenon
    <3> QED BY <1>4, <3>1, <3>5
  <2>3. q \in [at : {"none", "look", "fold", "write", "done", "failed"},
               stages : SUBSET Chains!Stages, row : Nat]
      BY <1>2, <1>4, <2>1
  <2> QED BY <1>4, <2>1, <2>2, <2>3
<1>6. ChainTypes'
    BY <1>3, <1>5 DEF ChainInv, ChainTypes
<1>7. /\ Chains!Busy' = Chains!Busy
      /\ \A d \in Chains!Events : request'[d].stages = request[d].stages
    BY <1>3, <1>5 DEF Chains!Busy
<1>8. Looked' = Looked
    BY <1>3, <1>5 DEF Looked, InWindow
<1>9. LookedIsOnRecord'
  <2>1. ASSUME ~crowded, NEW S \in SUBSET Looked, Chains!Chain(S)
        PROVE  OnRecord(S)'
    <3>1. OnRecord(S) /\ \A z \in S : z \in Chains!Events
        BY <2>1 DEF ChainInv, LookedIsOnRecord, Looked
    <3> QED BY <1>3, <1>7, <3>1 DEF OnRecord, Chains!Union
  <2> QED BY <1>3, <1>8, <2>1 DEF LookedIsOnRecord, Chains!Chain, Chains!Union
<1>10. RowFound'
  <2> SUFFICES ASSUME NEW d \in Chains!Events, request'[d].at = "write"
               PROVE  /\ request'[d].row # 0 =>
                            /\ request'[d].row \in DOMAIN rows
                            /\ rows[request'[d].row].stages = request'[d].stages
                      /\ ~overlapped /\ request'[d].row = 0 =>
                            \A i \in DOMAIN rows :
                               rows[i].stages = request'[d].stages => rows[i].state # "open"
      BY <1>3 DEF RowFound
  <2>1. CASE d = e
      BY <1>2, <1>5, <2>1
  <2>2. CASE d # e
      BY <1>5, <2>2 DEF ChainInv, RowFound
  <2> QED BY <2>1, <2>2
<1>11. OneOpenRow'
    BY <1>3, <1>7 DEF ChainInv, OneOpenRow
<1> QED BY <1>6, <1>9, <1>10, <1>11 DEF ChainInv

\* The row that an analysis found, or the one it writes, has its stages.
LEMMA WriteKept ==
    ASSUME ChainInv, NEW e \in Chains!Events, Chains!Write(e)
    PROVE  ChainInv'
<1>1. PICK r, st, n, how : /\ r = request[e].row /\ st = request[e].stages /\ n = Len(rows)
                           /\ how = IF r # 0 /\ rows[r].state = "deleted" THEN "failed" ELSE "done"
    OBVIOUS
<1>2. /\ request[e].at = "write" /\ how \in {"failed", "done"}
      /\ rows' = IF r # 0 THEN rows ELSE Append(rows, [stages |-> st, state |-> "open"])
      /\ request' = [request EXCEPT ![e] = [at |-> how, stages |-> {}, row |-> 0]]
      /\ UNCHANGED <<window, stored, dismissed, revived, crowded, overlapped>>
    BY <1>1 DEF Chains!Write, Chains!Ended
<1>3. /\ request \in [Chains!Events -> [at : {"none", "look", "fold", "write", "done", "failed"},
                                        stages : SUBSET Chains!Stages, row : Nat]]
      /\ rows \in Seq(Rows) /\ DOMAIN rows = 1 .. n /\ n \in Nat
      /\ \A i \in DOMAIN rows : rows[i] \in Rows
      /\ st \in SUBSET Chains!Stages
    BY <1>1 DEF ChainInv, ChainTypes
<1>4. /\ request'[e] = [at |-> how, stages |-> {}, row |-> 0]
      /\ \A d \in Chains!Events \ {e} : request'[d] = request[d]
      /\ request' \in [Chains!Events -> [at : {"none", "look", "fold", "write", "done", "failed"},
                                         stages : SUBSET Chains!Stages, row : Nat]]
    BY <1>2, <1>3
<1>5. r # 0 => r \in DOMAIN rows /\ rows[r].stages = st
    BY <1>1, <1>2 DEF ChainInv, RowFound
<1>6. ~overlapped /\ r = 0 => \A i \in DOMAIN rows : rows[i].stages = st => rows[i].state # "open"
    BY <1>1, <1>2 DEF ChainInv, RowFound
<1>7. /\ rows' \in Seq(Rows) /\ \A i \in DOMAIN rows : i \in DOMAIN rows' /\ rows'[i] = rows[i]
      /\ r = 0 => /\ \A i \in DOMAIN rows' : i \in DOMAIN rows \/ i = n + 1
                  /\ n + 1 \in DOMAIN rows'
                  /\ rows'[n + 1] = [stages |-> st, state |-> "open"]
  <2>1. CASE r # 0
      BY <1>2, <1>3, <2>1
  <2>2. CASE r = 0
    <3>1. PICK new : new = [stages |-> st, state |-> "open"]
        OBVIOUS
    <3>2. new \in Rows
        BY <1>3, <3>1 DEF Rows, Chains!RowStates
    <3>3. rows' = Append(rows, new) /\ n = Len(rows)
        BY <1>1, <1>2, <2>2, <3>1
    <3>4. /\ rows' \in Seq(Rows) /\ Len(rows') = n + 1
          /\ \A i \in 1 .. n : rows'[i] = rows[i]
          /\ rows'[n + 1] = new
        BY <1>3, <3>2, <3>3, AppendProperties
    <3>5. DOMAIN rows' = 1 .. n + 1
        BY <3>4, LenProperties
    <3> QED BY <1>3, <2>2, <3>1, <3>4, <3>5
  <2> QED BY <2>1, <2>2
<1>8. PICK at : at \in DOMAIN rows' /\ rows'[at].stages = st
  <2>1. CASE r # 0
      BY <1>5, <1>7, <2>1
  <2>2. CASE r = 0
      BY <1>7, <2>2
  <2> QED BY <2>1, <2>2
<1>9. ChainTypes'
    BY <1>2, <1>4, <1>7 DEF ChainInv, ChainTypes
<1>10. Looked' \subseteq Looked
    BY <1>2, <1>4 DEF Looked, InWindow
<1>11. /\ e \in Chains!Busy /\ Chains!Busy' = Chains!Busy \ {e}
    BY <1>2, <1>4 DEF Chains!Busy
<1>12. LookedIsOnRecord'
  <2>1. ASSUME ~crowded, NEW S \in SUBSET Looked, Chains!Chain(S)
        PROVE  OnRecord(S)'
    <3>1. PICK u : u = Chains!Union(S) /\ u = Chains!Union(S)'
        BY DEF Chains!Union
    <3>2. OnRecord(S)
        BY <2>1 DEF ChainInv, LookedIsOnRecord
    <3>3. CASE \E i \in DOMAIN rows : Chains!Union(S) \subseteq rows[i].stages
        BY <1>7, <3>1, <3>3 DEF OnRecord
    <3>4. ASSUME NEW z \in S, z \in Chains!Busy, Chains!Union(S) \subseteq request[z].stages
          PROVE  OnRecord(S)'
      <4>1. CASE z = e
          BY <1>1, <1>8, <3>1, <3>4, <4>1 DEF OnRecord
      <4>2. CASE z # e
        <5>1. z \in Chains!Busy' /\ request'[z] = request[z]
            BY <1>4, <1>11, <3>4, <4>2 DEF Chains!Busy
        <5> QED BY <3>1, <3>4, <5>1 DEF OnRecord
      <4> QED BY <4>1, <4>2
    <3> QED BY <3>2, <3>3, <3>4 DEF OnRecord
  <2> QED BY <1>2, <1>10, <2>1 DEF LookedIsOnRecord, Chains!Chain, Chains!Union
<1>13. RowFound'
  <2> SUFFICES ASSUME NEW d \in Chains!Events, request'[d].at = "write"
               PROVE  /\ request'[d].row # 0 =>
                            /\ request'[d].row \in DOMAIN rows'
                            /\ rows'[request'[d].row].stages = request'[d].stages
                      /\ ~overlapped' /\ request'[d].row = 0 =>
                            \A i \in DOMAIN rows' :
                               rows'[i].stages = request'[d].stages => rows'[i].state # "open"
      BY DEF RowFound
  <2>1. d # e /\ request'[d] = request[d]
    <3>1. request'[e].at = how /\ how # "write"
        BY <1>2, <1>4
    <3> QED BY <1>4, <3>1
  <2>2. overlapped \/ ~(d \in Chains!Busy)
      BY <1>11, <2>1 DEF ChainInv, OneOpenRow
  <2>3. overlapped'
      BY <1>2, <2>1, <2>2 DEF Chains!Busy
  <2>4. request[d].row # 0 =>
            request[d].row \in DOMAIN rows /\ rows[request[d].row].stages = request[d].stages
      BY <2>1 DEF ChainInv, RowFound
  <2> QED BY <1>7, <2>1, <2>3, <2>4
<1>14. OneOpenRow'
  <2> SUFFICES ASSUME ~overlapped
               PROVE  /\ \A y, z \in Chains!Busy' : y = z
                      /\ \A i, j \in DOMAIN rows' :
                            i < j /\ rows'[i].stages = rows'[j].stages =>
                               rows'[i].state # "open"
      BY <1>2 DEF OneOpenRow
  <2>1. \A y, z \in Chains!Busy' : y = z
      BY <1>11 DEF ChainInv, OneOpenRow
  <2>2. \A i, j \in DOMAIN rows :
            i < j /\ rows[i].stages = rows[j].stages => rows[i].state # "open"
      BY DEF ChainInv, OneOpenRow
  <2>3. CASE r # 0
      BY <1>2, <2>1, <2>2, <2>3
  <2>4. CASE r = 0
    <3>1. \A i \in DOMAIN rows : rows'[i].stages = st => rows'[i].state # "open"
        BY <1>6, <1>7, <2>4
    <3>2. rows'[n + 1].stages = st
        BY <1>7, <2>4
    <3>3. \A i \in DOMAIN rows' : \A j \in DOMAIN rows' :
             i < j => i \in DOMAIN rows /\ (j \in DOMAIN rows \/ j = n + 1)
        BY <1>3, <1>7, <2>4
    <3> QED BY <1>7, <2>1, <2>2, <3>1, <3>2, <3>3
  <2> QED BY <2>3, <2>4
<1> QED BY <1>9, <1>12, <1>13, <1>14 DEF ChainInv

\* What fails is not counted as looked at.
LEMMA FailChainKept ==
    ASSUME ChainInv, NEW e \in Chains!Events, Chains!Fail(e)
    PROVE  ChainInv'
<1>1. /\ request' = [request EXCEPT ![e] = [at |-> "failed", stages |-> {}, row |-> 0]]
      /\ UNCHANGED <<window, stored, dismissed, rows, revived, crowded, overlapped>>
    BY DEF Chains!Fail, Chains!Ended
<1>2. request \in [Chains!Events -> [at : {"none", "look", "fold", "write", "done", "failed"},
                                     stages : SUBSET Chains!Stages, row : Nat]]
    BY DEF ChainInv, ChainTypes
<1>3. /\ request'[e].at = "failed" /\ \A d \in Chains!Events \ {e} : request'[d] = request[d]
      /\ request' \in [Chains!Events -> [at : {"none", "look", "fold", "write", "done", "failed"},
                                        stages : SUBSET Chains!Stages, row : Nat]]
    BY <1>1, <1>2
<1>4. ChainTypes'
    BY <1>1, <1>3 DEF ChainInv, ChainTypes
<1>5. Looked' \subseteq Looked
    BY <1>1, <1>3 DEF Looked, InWindow
<1> QED BY <1>1, <1>3, <1>4, <1>5, LessLookedKept

\* A row whose state changes keeps its stages; it is not open as before when there is, or may
\* soon be, a younger one.
LEMMA ReviewRowKept ==
    ASSUME ChainInv, NEW i, Chains!DismissRow(i) \/ Chains!ReopenRow(i) \/ Chains!DeleteRow(i)
    PROVE  ChainInv'
<1>1. PICK new \in Chains!RowStates :
         /\ i \in DOMAIN rows /\ rows' = [rows EXCEPT ![i].state = new]
         /\ Chains!Replaced(i) => new # "open"
         /\ UNCHANGED <<window, stored, dismissed, request, revived, crowded, overlapped>>
  <2>1. CASE Chains!DismissRow(i)
      BY <2>1 DEF Chains!DismissRow, Chains!RowStates
  <2>2. CASE Chains!ReopenRow(i)
      BY <2>2 DEF Chains!ReopenRow, Chains!RowStates
  <2>3. CASE Chains!DeleteRow(i)
      BY <2>3 DEF Chains!DeleteRow, Chains!RowStates
  <2> QED BY <2>1, <2>2, <2>3
<1>2. /\ rows \in Seq(Rows) /\ DOMAIN rows = 1 .. Len(rows) /\ Len(rows) \in Nat
      /\ \A j \in DOMAIN rows : rows[j] \in Rows
    BY DEF ChainInv, ChainTypes
<1>3. /\ rows' \in Seq(Rows) /\ DOMAIN rows' = DOMAIN rows
      /\ \A j \in DOMAIN rows : /\ rows'[j].stages = rows[j].stages
                                /\ rows'[j].state = IF j = i THEN new ELSE rows[j].state
  <2>1. ASSUME NEW j \in DOMAIN rows
        PROVE  /\ rows'[j] \in Rows /\ rows'[j].stages = rows[j].stages
               /\ rows'[j].state = IF j = i THEN new ELSE rows[j].state
    <3>1. CASE j = i
      <4>1. rows'[i] = [rows[i] EXCEPT !.state = new]
          BY <1>1, <1>2
      <4> QED BY <1>1, <1>2, <3>1, <4>1 DEF Rows
    <3>2. CASE j # i
        BY <1>1, <1>2, <3>2
    <3> QED BY <3>1, <3>2
  <2>2. rows' = [j \in 1 .. Len(rows) |-> rows'[j]] /\ DOMAIN rows' = DOMAIN rows
      BY <1>1, <1>2
  <2>3. rows' \in Seq(Rows)
      BY <1>2, <2>1, <2>2
  <2> QED BY <2>1, <2>2, <2>3
<1>4. ChainTypes'
    BY <1>1, <1>3 DEF ChainInv, ChainTypes
<1>5. Looked' = Looked /\ Chains!Busy' = Chains!Busy
    BY <1>1 DEF Looked, InWindow, Chains!Busy
<1>6. LookedIsOnRecord'
  <2>1. ASSUME ~crowded, NEW S \in SUBSET Looked, Chains!Chain(S)
        PROVE  OnRecord(S)'
    <3>1. OnRecord(S)
        BY <2>1 DEF ChainInv, LookedIsOnRecord
    <3> QED BY <1>1, <1>3, <1>5, <3>1 DEF OnRecord, Chains!Union
  <2> QED BY <1>1, <1>5, <2>1 DEF LookedIsOnRecord, Chains!Chain, Chains!Union
<1>7. RowFound'
  <2> SUFFICES ASSUME NEW d \in Chains!Events, request[d].at = "write"
               PROVE  /\ request[d].row # 0 =>
                            /\ request[d].row \in DOMAIN rows'
                            /\ rows'[request[d].row].stages = request[d].stages
                      /\ ~overlapped /\ request[d].row = 0 =>
                            \A j \in DOMAIN rows' :
                               rows'[j].stages = request[d].stages => rows'[j].state # "open"
      BY <1>1 DEF RowFound
  <2>1. /\ request[d].row # 0 =>
              request[d].row \in DOMAIN rows /\ rows[request[d].row].stages = request[d].stages
        /\ ~overlapped /\ request[d].row = 0 =>
              \A j \in DOMAIN rows : rows[j].stages = request[d].stages => rows[j].state # "open"
      BY DEF ChainInv, RowFound
  <2>2. rows[i].stages = request[d].stages => Chains!Replaced(i)
      BY DEF Chains!Replaced, Chains!Busy
  <2> QED BY <1>1, <1>3, <2>1, <2>2
<1>8. OneOpenRow'
  <2> SUFFICES ASSUME ~overlapped, NEW j \in DOMAIN rows, NEW k \in DOMAIN rows,
                      j < k, rows[j].stages = rows[k].stages
               PROVE  rows'[j].state # "open"
      BY <1>1, <1>3, <1>5 DEF ChainInv, OneOpenRow
  <2>1. CASE j = i
    <3>1. k > i
        BY <1>2, <2>1
    <3>2. Chains!Replaced(i)
        BY <2>1, <3>1 DEF Chains!Replaced
    <3> QED BY <1>1, <1>3, <2>1, <3>2
  <2>2. CASE j # i
      BY <1>3, <2>2 DEF ChainInv, OneOpenRow
  <2> QED BY <2>1, <2>2
<1> QED BY <1>4, <1>6, <1>7, <1>8 DEF ChainInv

\* Every step of the correlation keeps the chains on record.
LEMMA ChainKept ==
    ASSUME ChainInv, Chains!Next \/ UNCHANGED Chains!chainVars
    PROVE  ChainInv'
<1>1. CASE UNCHANGED Chains!chainVars
  <2>1. /\ ChainTypes' = ChainTypes /\ RowFound' = RowFound /\ OneOpenRow' = OneOpenRow
        /\ Looked' = Looked /\ Chains!Busy' = Chains!Busy
        /\ UNCHANGED <<request, rows, crowded>>
      BY <1>1 DEF Chains!chainVars, ChainTypes, RowFound, OneOpenRow, Looked, InWindow, Chains!Busy
  <2>2. \A S : Chains!Union(S)' = Chains!Union(S) /\ Chains!Chain(S)' = Chains!Chain(S)
      BY DEF Chains!Chain, Chains!Union
  <2>3. \A S : OnRecord(S) => OnRecord(S)'
      BY <2>1, <2>2 DEF OnRecord
  <2>4. LookedIsOnRecord'
      BY <2>1, <2>2, <2>3 DEF ChainInv, LookedIsOnRecord
  <2> QED BY <2>1, <2>4 DEF ChainInv
<1>2. CASE Chains!Next
  <2>1. CASE Chains!AgeOut
    <3>1. \E e : e \in Chains!Events
      <4>1. window \in Seq(Chains!Events) /\ window # <<>>
          BY <2>1 DEF Chains!AgeOut, ChainInv, ChainTypes
      <4>2. window[1] \in Chains!Events
          BY <4>1
      <4> QED BY <4>2
    <3> QED BY <2>1, <3>1, WindowKept
  <2>2. ASSUME NEW e \in Chains!Events,
               \/ Chains!Store(e) \/ Chains!Dismiss(e) \/ Chains!Reopen(e) \/ Chains!Delete(e)
               \/ \E reopened \in BOOLEAN : Chains!Repeat(e, reopened)
        PROVE  ChainInv'
      BY <2>2, WindowKept
  <2>3. ASSUME NEW e \in Chains!Events,
               Chains!Look(e) \/ Chains!FindPrior(e) \/ Chains!Write(e) \/ Chains!Fail(e)
        PROVE  ChainInv'
      BY <2>3, LookKept, FindPriorKept, WriteKept, FailChainKept
  <2>4. ASSUME NEW i \in 1 .. MaxRows,
               Chains!DismissRow(i) \/ Chains!ReopenRow(i) \/ Chains!DeleteRow(i)
        PROVE  ChainInv'
      BY <2>4, ReviewRowKept
  <2> QED BY <1>2, <2>1, <2>2, <2>3, <2>4 DEF Chains!Next
<1> QED BY <1>1, <1>2

\* What the analyses of the findings in the window had to put together is on record.
LEMMA ChainsAre == ASSUME ChainInv PROVE Chains!ChainRecorded
<1>1. ASSUME Chains!Busy = {}, Chains!Chain(Chains!Told), ~crowded
      PROVE  \E i \in DOMAIN rows : Chains!Union(Chains!Told) \subseteq rows[i].stages
  <2>1. Chains!Told \in SUBSET Looked
      BY DEF ChainInv, ChainTypes, Chains!Told, Chains!ToSet, Looked, InWindow
  <2>2. OnRecord(Chains!Told)
      BY <1>1, <2>1 DEF ChainInv, LookedIsOnRecord
  <2> QED BY <1>1, <2>2 DEF OnRecord
<1> QED BY <1>1 DEF ChainInv, OneOpenRow, Chains!ChainRecorded

-----------------------------------------------------------------------------
(* What is passed, and the chains, in the system.                          *)

PassedInv == CommitsInv /\ FilesInv /\ MarksInv /\ ExportInv

\* A step of the system is one of each part's or leaves its variables alone.
LEMMA PassedSteps ==
    ASSUME [Next]_vars
    PROVE  /\ Commits!Next \/ UNCHANGED commitVars
           /\ Files!Next \/ UNCHANGED treeVars
           /\ Marks!Next \/ UNCHANGED markVars
           /\ Exports!Next \/ UNCHANGED Exports!pollVars
           /\ Chains!Next \/ UNCHANGED Chains!chainVars
<1>1. Exports!pollVars = pollVars /\ Chains!chainVars = chainVars
    BY DEF Exports!pollVars, pollVars, Chains!chainVars, chainVars
<1>2. (Exports!pollVars)' = pollVars' /\ (Chains!chainVars)' = chainVars'
    BY DEF Exports!pollVars, pollVars, Chains!chainVars, chainVars
<1>3. CASE UNCHANGED vars
    BY <1>1, <1>2, <1>3, Zenon DEF vars
<1>4. CASE Next
    BY <1>1, <1>2, <1>4, Zenon DEF Next
<1> QED BY <1>3, <1>4

\* What the cursors rely on holds in every reachable state.
THEOREM PassedInvariant == Spec => []PassedInv
<1>1. Init => PassedInv
    BY CommitsInit, FilesInit, MarksInit, ExportInit DEF Init, PassedInv
<1>2. PassedInv /\ [Next]_vars => PassedInv'
    BY PassedSteps, CommitsKept, FilesKept, MarksKept, ExportKept DEF PassedInv
<1> QED BY <1>1, <1>2, PTL DEF Spec

(***************************************************************************)
(* For any commits, trees, streams of items and findings, of any dates,    *)
(* sizes and budgets: what is before the watermark of a branch was read or *)
(* given up, a tree that counts as done was scanned but for what removals  *)
(* cost, no mark of a source passes an item that was not read, and no mark *)
(* of a SIEM passes a finding it did not get.                              *)
(***************************************************************************)
THEOREM PassedCorrect == Spec => []OnlyReadIsPassed
<1>1. PassedInv => OnlyReadIsPassed
    BY CommitsAre, FilesAre, MarksAre DEF PassedInv, ExportInv, OnlyReadIsPassed
<1> QED BY <1>1, PassedInvariant, PTL

\* Every chain that was looked at is on record, in every reachable state.
THEOREM ChainsInvariant == Spec => []ChainInv
<1>1. Init => ChainInv
    BY ChainInit DEF Init
<1>2. ChainInv /\ [Next]_vars => ChainInv'
    BY PassedSteps, ChainKept
<1> QED BY <1>1, <1>2, PTL DEF Spec

(***************************************************************************)
(* For any findings, stages and limit of a lookup: a chain in the window   *)
(* is on record whole, and it has one open row unless two correlations ran *)
(* at once.                                                                *)
(***************************************************************************)
THEOREM ChainsCorrect == Spec => []ChainRecorded
<1>1. ChainInv => ChainRecorded
    BY ChainsAre DEF ChainRecorded
<1> QED BY <1>1, ChainsInvariant, PTL

-----------------------------------------------------------------------------
(* The types of every part.                                                *)

\* A removal is an edit, and there are no more rows than the bound.
RemovalsAreEdits == removed <= edits
RowsAreBounded   == Len(rows) <= MaxRows

TypesInv == TypeOK /\ RemovalsAreEdits /\ RowsAreBounded

\* Faults are counted below their bound.
LEMMA FaultsKept ==
    ASSUME [Next]_vars, faults \in 0 .. MaxFaults
    PROVE  faults' \in 0 .. MaxFaults
<1>1. MaxFaults \in Nat
    BY Assumptions DEF Files!TreeAssumption
<1>2. SUFFICES faults' = faults \/ (faults < MaxFaults /\ faults' = faults + 1)
    BY <1>1
<1>3. CASE UNCHANGED vars
    BY <1>3 DEF vars
<1>4. CASE Commits!Next
  <2>1. ASSUME NEW new \in SUBSET Commits!Commits, Commits!Land(new) PROVE faults' = faults
      BY <2>1 DEF Commits!Land
  <2>2. ASSUME NEW c \in Commits!Commits, Commits!ReadCommit(c) \/ Commits!FailCommit(c)
        PROVE  faults' = faults
      BY <2>2 DEF Commits!ReadCommit, Commits!FailCommit
  <2>3. CASE Commits!StartSync \/ Commits!List \/ Commits!OutOfBudget \/ Commits!Finish
      BY <2>3 DEF Commits!StartSync, Commits!List, Commits!OutOfBudget, Commits!Finish
  <2>4. CASE Commits!Stop \/ Commits!Lose
      BY <2>4 DEF Commits!Stop, Commits!Lose
  <2> QED BY <1>4, <2>1, <2>2, <2>3, <2>4 DEF Commits!Next, Commits!SyncStep
<1>5. CASE Files!Next
    BY <1>5 DEF Files!Next, Files!AddFile, Files!RemoveFile, Files!StartPass, Files!FetchBatch,
        Files!CutPass, Files!CompletePass, Files!LosePass, Files!RateLimit
<1>6. CASE Marks!Next
    BY <1>6 DEF Marks!Next, Marks!SyncStep, Marks!Appear, Marks!Age, Marks!StartSync,
        Marks!ReadStream, Marks!SkipStream, Marks!SaveSync, Marks!LoseSync
<1>7. CASE Digests!Next
    BY <1>7 DEF Digests!Next, Digests!Tick, Digests!Happen, Digests!Record, Digests!Begin,
        Digests!Load, Digests!Claim, Digests!Query, Digests!SendOk, Digests!SendFails, Digests!Die
<1> QED BY <1>3, <1>4, <1>5, <1>6, <1>7 DEF Next

\* The sensor's heartbeats, and the silences whose page failed.
LEMMA FleetTypesKept ==
    ASSUME FleetInv, FleetInv', Fleet!TypeOK, Fleet!Next \/ UNCHANGED Fleet!fleetVars
    PROVE  Fleet!TypeOK'
<1>1. failed \subseteq 0 .. MaxSilences /\ beat \in [Beats -> {"idle", "saw mark", "saw none"}]
    BY DEF Fleet!TypeOK
<1>2. sweep \in [Workers -> [at : {"idle", "loaded", "sending"}, claimed : 0 .. MaxSilences]]
    BY DEF FleetInv
<1>3. failed' \subseteq 0 .. MaxSilences
  <2>1. ASSUME NEW w \in Workers, NEW ok \in BOOLEAN, Fleet!Send(w, ok)
        PROVE  failed' \subseteq 0 .. MaxSilences
    <3>1. sweep[w].claimed \in 0 .. MaxSilences /\ failed' \subseteq failed \cup {sweep[w].claimed}
        BY <1>2, <2>1 DEF Fleet!Send
    <3> QED BY <1>1, <3>1
  <2>2. ASSUME NEW w \in Workers, Fleet!LoadSweep(w) \/ Fleet!Claim(w) PROVE failed' = failed
      BY <2>2 DEF Fleet!LoadSweep, Fleet!Claim
  <2>3. ASSUME NEW b \in Beats, Fleet!LoadBeat(b) \/ Fleet!CommitBeat(b) PROVE failed' = failed
      BY <2>3 DEF Fleet!LoadBeat, Fleet!CommitBeat
  <2>4. CASE Fleet!GoDark \/ UNCHANGED Fleet!fleetVars
      BY <1>1, <2>4 DEF Fleet!GoDark, Fleet!fleetVars
  <2> QED BY <1>1, <2>1, <2>2, <2>3, <2>4 DEF Fleet!Next
<1>4. beat' \in [Beats -> {"idle", "saw mark", "saw none"}]
    BY <1>1 DEF Fleet!Next, Fleet!fleetVars, Fleet!GoDark, Fleet!LoadBeat, Fleet!CommitBeat,
        Fleet!LoadSweep, Fleet!Claim, Fleet!Send
<1> QED BY <1>3, <1>4 DEF FleetInv, Fleet!TypeOK

\* The times that a SIEM gets are times.
LEMMA ExportTypesKept ==
    ASSUME Exports!TypeOK, Exports!Next \/ UNCHANGED Exports!pollVars
    PROVE  Exports!TypeOK'
<1>1. MaxHours \in Nat \ {0} /\ MaxSeen \in Nat
    BY Assumptions DEF Exports!PageAssumption
<1>2. /\ export \in {"findings", "audit"} /\ hour \in 1 .. MaxHours /\ mark \in 0 .. MaxHours
      /\ arrivals \in 0 .. MaxSeen
      /\ latest \in [Exports!Ids -> 0 .. MaxHours] /\ stamp \in [Exports!Ids -> 0 .. MaxHours]
      /\ pulled \subseteq Exports!Ids \X (1 .. MaxHours)
      /\ behind \subseteq Exports!Ids \X (1 .. MaxHours)
    BY DEF Exports!TypeOK
<1>3. ASSUME NEW f \in Exports!Ids, Exports!Stamp(f) PROVE Exports!TypeOK'
  <2>1. /\ arrivals < MaxSeen /\ arrivals' = arrivals + 1 /\ stamp' = [stamp EXCEPT ![f] = hour]
        /\ UNCHANGED <<export, hour, latest, mark, pulled, behind>>
      BY <1>3 DEF Exports!Stamp
  <2>2. arrivals' \in 0 .. MaxSeen /\ hour \in 0 .. MaxHours
      BY <1>1, <1>2, <2>1
  <2>3. stamp' \in [Exports!Ids -> 0 .. MaxHours]
      BY <1>2, <2>1, <2>2
  <2> QED BY <1>2, <2>1, <2>2, <2>3 DEF Exports!TypeOK
<1>4. ASSUME NEW f \in Exports!Ids, Exports!Commit(f) PROVE Exports!TypeOK'
  <2>1. /\ stamp[f] # 0 /\ latest' = [latest EXCEPT ![f] = stamp[f]]
        /\ behind' \subseteq behind \cup {<<f, stamp[f]>>} /\ stamp' = [stamp EXCEPT ![f] = 0]
        /\ UNCHANGED <<export, hour, mark, pulled, arrivals>>
      BY <1>4 DEF Exports!Commit
  <2>2. stamp[f] \in 1 .. MaxHours /\ 0 \in 0 .. MaxHours
      BY <1>1, <1>2, <2>1
  <2>3. behind' \subseteq Exports!Ids \X (1 .. MaxHours)
      BY <1>2, <2>1, <2>2
  <2>4. stamp' \in [Exports!Ids -> 0 .. MaxHours] /\ latest' \in [Exports!Ids -> 0 .. MaxHours]
      BY <1>2, <2>1, <2>2
  <2> QED BY <1>2, <2>1, <2>3, <2>4 DEF Exports!TypeOK
<1>5. CASE Exports!Tick
  <2>1. /\ hour' = hour + 1 /\ hour < MaxHours
        /\ UNCHANGED <<export, latest, stamp, mark, pulled, behind, arrivals>>
      BY <1>5 DEF Exports!Tick
  <2>2. hour' \in 1 .. MaxHours
      BY <1>1, <1>2, <2>1
  <2> QED BY <1>2, <2>1, <2>2 DEF Exports!TypeOK
<1>6. CASE Exports!Poll
  <2>1. PICK page \in Exports!Pages :
            /\ pulled' = pulled \cup {<<f, latest[f]>> : f \in page}
            /\ mark' \in {latest[f] : f \in page}
            /\ UNCHANGED <<export, hour, latest, stamp, behind, arrivals>>
      BY <1>6 DEF Exports!Poll
  <2>2. \A f \in page : f \in Exports!Ids /\ latest[f] \in 1 .. MaxHours
    <3>1. \A f \in page : f \in Exports!Ids /\ latest[f] # 0
        BY DEF Exports!Pages, Exports!Since
    <3> QED BY <1>1, <1>2, <3>1
  <2>3. mark' \in 0 .. MaxHours /\ pulled' \subseteq Exports!Ids \X (1 .. MaxHours)
      BY <1>2, <2>1, <2>2
  <2> QED BY <1>2, <2>1, <2>3 DEF Exports!TypeOK
<1>7. CASE UNCHANGED Exports!pollVars
    BY <1>2, <1>7 DEF Exports!pollVars, Exports!TypeOK
<1> QED BY <1>3, <1>4, <1>5, <1>6, <1>7 DEF Exports!Next

\* What the workers do at times of the clock, and the windows they deliver.
LEMMA DigestTypesKept ==
    ASSUME Digests!TypeOK, faults' \in 0 .. MaxFaults,
           Digests!Next \/ UNCHANGED <<clock, last, event, worker, told, delivered, excused>>
    PROVE  Digests!TypeOK'
<1> DEFINE Times == 0 .. MaxClock
           Worker == [at : {"idle", "begun", "loaded", "claimed", "sending"}, now : Times,
                      last : Digests!Never .. MaxClock, found : SUBSET Findings]
           Event == [at : {"none", "flushed", "stored"}, stamp : Times]
           Window == [by : Workers, since : -Interval .. MaxClock, now : Times]
<1>1. MaxClock \in Nat /\ Interval \in Nat /\ Digests!Never = -1
    BY Assumptions DEF Digests!WindowsAssumption, Digests!Never
<1>2. /\ clock \in Times /\ last \in -1 .. MaxClock
      /\ event \in [Findings -> Event] /\ worker \in [Workers -> Worker]
      /\ told \subseteq Findings /\ excused \subseteq Findings /\ delivered \subseteq Window
    BY <1>1 DEF Digests!TypeOK
<1>3. SUFFICES /\ clock' \in Times /\ last' \in -1 .. MaxClock
               /\ event' \in [Findings -> Event] /\ worker' \in [Workers -> Worker]
               /\ told' \subseteq Findings /\ excused' \subseteq Findings
               /\ delivered' \subseteq Window
    BY <1>1 DEF Digests!TypeOK
<1>4. Digests!Idle \in Worker
    BY <1>1 DEF Digests!Idle
<1>5. ASSUME NEW w \in Workers
      PROVE  /\ worker[w] \in Worker /\ worker[w].now \in Times /\ worker[w].last \in -1 .. MaxClock
             /\ worker[w].found \subseteq Findings
             /\ worker[w].at \in {"idle", "begun", "loaded", "claimed", "sending"}
             /\ Digests!Since(w) \in -Interval .. MaxClock
             /\ worker[w] = [at |-> worker[w].at, now |-> worker[w].now,
                             last |-> worker[w].last, found |-> worker[w].found]
  <2>1. worker[w] \in Worker
      BY <1>2
  <2>2. worker[w].now \in Times /\ worker[w].last \in -1 .. MaxClock
        /\ worker[w].found \subseteq Findings
        /\ worker[w].at \in {"idle", "begun", "loaded", "claimed", "sending"}
      BY <1>1, <2>1
  <2>3. Digests!Since(w) \in -Interval .. MaxClock
      BY <1>1, <2>2 DEF Digests!Since
  <2> QED BY <2>1, <2>2, <2>3
<1>6. CASE Digests!Tick
  <2>1. clock' \in Times
      BY <1>1, <1>2, <1>6 DEF Digests!Tick
  <2> QED BY <1>2, <1>6, <2>1 DEF Digests!Tick
<1>7. ASSUME NEW e \in Findings, Digests!Happen(e) \/ Digests!Record(e)
      PROVE  /\ event' \in [Findings -> Event] /\ excused' \subseteq Findings
             /\ UNCHANGED <<clock, last, worker, told, delivered>>
  <2>1. CASE Digests!Happen(e)
      BY <1>2, <2>1 DEF Digests!Happen
  <2>2. CASE Digests!Record(e)
      BY <1>2, <2>2 DEF Digests!Record
  <2> QED BY <1>7, <2>1, <2>2
<1>8. ASSUME NEW w \in Workers,
             \/ Digests!Begin(w) \/ Digests!Load(w) \/ Digests!Claim(w) \/ Digests!Query(w)
             \/ Digests!SendOk(w) \/ Digests!SendFails(w) \/ Digests!Die(w)
      PROVE  /\ worker' \in [Workers -> Worker] /\ last' \in -1 .. MaxClock
             /\ told' \subseteq Findings /\ excused' \subseteq Findings /\ delivered' \subseteq Window
             /\ UNCHANGED <<clock, event>>
  <2>1. SUFFICES /\ \E q \in Worker : worker' = [worker EXCEPT ![w] = q]
                 /\ last' \in -1 .. MaxClock /\ told' \subseteq Findings
                 /\ excused' \subseteq Findings /\ delivered' \subseteq Window
                 /\ UNCHANGED <<clock, event>>
    <3> HIDE DEF Worker, Window
    <3> QED BY <1>2
  <2>a. PICK at, now, lst, found :
            at = worker[w].at /\ now = worker[w].now /\ lst = worker[w].last /\ found = worker[w].found
      OBVIOUS
  <2>2. /\ worker[w] = [at |-> at, now |-> now, last |-> lst, found |-> found]
        /\ at \in {"idle", "begun", "loaded", "claimed", "sending"}
        /\ now \in Times /\ lst \in -1 .. MaxClock /\ found \subseteq Findings
      BY <1>5, <2>a
  <2>3. CASE Digests!Begin(w)
    <3>1. PICK q \in Worker : q = [[worker[w] EXCEPT !.at = "begun"] EXCEPT !.now = clock]
        BY <1>1, <1>2, <2>2
    <3>2. worker' = [worker EXCEPT ![w] = q]
        BY <1>2, <2>3, <3>1 DEF Digests!Begin
    <3> QED BY <1>2, <2>3, <3>2 DEF Digests!Begin
  <2>4. CASE Digests!Load(w)
    <3>1. CASE Digests!Due(w)
      <4>1. PICK q \in Worker : q = [[worker[w] EXCEPT !.at = "loaded"] EXCEPT !.last = last]
          BY <1>1, <1>2, <2>2
      <4>2. worker' = [worker EXCEPT ![w] = q]
          BY <1>2, <2>4, <3>1, <4>1 DEF Digests!Load
      <4> QED BY <1>2, <2>4, <4>2 DEF Digests!Load
    <3>2. CASE ~Digests!Due(w)
      <4>1. worker' = [worker EXCEPT ![w] = Digests!Idle]
          BY <2>4, <3>2 DEF Digests!Load
      <4> QED BY <1>2, <1>4, <2>4, <4>1 DEF Digests!Load
    <3> QED BY <3>1, <3>2
  <2>5. CASE Digests!Claim(w)
    <3>1. CASE last = worker[w].last
      <4>1. PICK q \in Worker : q = [worker[w] EXCEPT !.at = "claimed"]
        <5>1. worker[w] \in Worker
            BY <1>5
        <5> QED BY <1>1, <5>1
      <4>2. worker' = [worker EXCEPT ![w] = q] /\ last' = worker[w].now
          BY <1>2, <2>5, <3>1, <4>1 DEF Digests!Claim
      <4>3. last' \in -1 .. MaxClock
          BY <1>1, <2>2, <4>2
      <4>4. excused' \subseteq Findings /\ UNCHANGED <<clock, event, told, delivered>>
          BY <1>2, <2>5, <3>1 DEF Digests!Claim
      <4> QED BY <1>2, <4>2, <4>3, <4>4
    <3>2. CASE last # worker[w].last
      <4>1. worker' = [worker EXCEPT ![w] = Digests!Idle]
            /\ UNCHANGED <<last, excused, clock, event, told, delivered>>
          BY <2>5, <3>2 DEF Digests!Claim
      <4> QED BY <1>2, <1>4, <4>1
    <3> QED BY <3>1, <3>2
  <2>6. CASE Digests!Query(w)
    <3>1. PICK some \in SUBSET Findings :
              worker' = [worker EXCEPT ![w] = IF some = {} THEN Digests!Idle
                         ELSE [[worker[w] EXCEPT !.at = "sending"] EXCEPT !.found = some]]
      <4>1. PICK some : some = {e \in Findings : event[e].at = "stored" /\ event[e].stamp > Digests!Since(w)}
          OBVIOUS
      <4>2. some \in SUBSET Findings
          BY <4>1
      <4>3. worker' = [worker EXCEPT ![w] = IF some = {} THEN Digests!Idle
                         ELSE [@ EXCEPT !.at = "sending", !.found = some]]
          BY <2>6, <4>1 DEF Digests!Query
      <4> QED BY <1>2, <4>2, <4>3
    <3>2. [[worker[w] EXCEPT !.at = "sending"] EXCEPT !.found = some] \in Worker
      <4>1. worker[w] \in Worker
          BY <1>5
      <4> QED BY <1>1, <4>1
    <3> QED BY <1>2, <1>4, <2>6, <3>1, <3>2 DEF Digests!Query
  <2>7. CASE Digests!SendOk(w)
    <3>1. delivered' = delivered \cup {[by |-> w, since |-> Digests!Since(w), now |-> worker[w].now]}
          /\ told' = told \cup worker[w].found /\ worker' = [worker EXCEPT ![w] = Digests!Idle]
          /\ UNCHANGED <<clock, last, event, excused>>
        BY <2>7 DEF Digests!SendOk
    <3>2. delivered' \subseteq Window
        BY <1>2, <1>5, <3>1
    <3> QED BY <1>2, <1>4, <1>5, <3>1, <3>2
  <2>8. CASE Digests!SendFails(w)
    <3>1. /\ worker' = [worker EXCEPT ![w] = Digests!Idle] /\ UNCHANGED <<clock, event, told, delivered>>
          /\ last' \in {last, worker[w].last} /\ excused' \subseteq excused \cup Digests!Eaten(w)
        BY <2>8 DEF Digests!SendFails, Digests!Release
    <3>2. Digests!Eaten(w) \subseteq Findings
        BY DEF Digests!Eaten
    <3> QED BY <1>2, <1>4, <1>5, <3>1, <3>2
  <2>9. CASE Digests!Die(w)
    <3>1. /\ worker' = [worker EXCEPT ![w] = Digests!Idle]
          /\ UNCHANGED <<clock, last, event, told, delivered>>
          /\ excused' \subseteq excused \cup Digests!Eaten(w)
        BY <2>9 DEF Digests!Die
    <3>2. Digests!Eaten(w) \subseteq Findings
        BY DEF Digests!Eaten
    <3> QED BY <1>2, <1>4, <3>1, <3>2
  <2> QED BY <1>8, <2>3, <2>4, <2>5, <2>6, <2>7, <2>8, <2>9
<1> HIDE DEF Times, Worker, Event, Window
<1>9. CASE UNCHANGED <<clock, last, event, worker, told, delivered, excused>>
    BY <1>2, <1>9
<1> QED BY <1>2, <1>6, <1>7, <1>8, <1>9 DEF Digests!Next

\* The index of a pass stays within the list, and its budget is not overspent.
LEMMA FileTypesKept ==
    ASSUME FilesInv, FilesInv', Files!TypeOK, RemovalsAreEdits, faults' \in 0 .. MaxFaults,
           Files!Next \/ UNCHANGED treeVars
    PROVE  Files!TypeOK' /\ RemovalsAreEdits'
<1>1. NPaths \in Nat /\ MaxEdits \in Nat /\ FileBudget \in Nat
    BY Assumptions DEF Files!TreeAssumption
<1>2. /\ tree \subseteq Files!Paths /\ old \subseteq Files!Paths /\ seen \subseteq Files!Paths
      /\ done \in BOOLEAN /\ treeCursor \in 0 .. NPaths
      /\ pass \in [on : BOOLEAN, list : SUBSET Files!Paths, i : 0 .. NPaths, left : 0 .. FileBudget]
      /\ removed \in Nat /\ edits \in 0 .. MaxEdits /\ removed <= edits
    BY DEF Files!TypeOK, RemovalsAreEdits
<1>3. /\ tree' \subseteq Files!Paths /\ old' \subseteq Files!Paths /\ done' \in BOOLEAN
    BY DEF FilesInv
<1>4. SUFFICES /\ seen' \subseteq Files!Paths /\ treeCursor' \in 0 .. NPaths
               /\ pass' \in [on : BOOLEAN, list : SUBSET Files!Paths, i : 0 .. NPaths,
                             left : 0 .. FileBudget]
               /\ removed' \in Nat /\ edits' \in 0 .. MaxEdits /\ removed' <= edits'
  <2>1. ASSUME removed' \in Nat, edits' \in 0 .. MaxEdits, removed' <= edits'
        PROVE  removed' \in 0 .. MaxEdits
      BY <1>1, <2>1
  <2> QED BY <1>3, <2>1 DEF Files!TypeOK, RemovalsAreEdits
<1>5. Files!Idle \in [on : BOOLEAN, list : SUBSET Files!Paths, i : 0 .. NPaths,
                      left : 0 .. FileBudget]
    BY <1>1 DEF Files!Idle
<1>6. ASSUME NEW n PROVE Files!Fetched(n) \subseteq Files!Paths
    BY <1>2 DEF Files!Fetched
<1>7. ASSUME NEW p \in Files!Paths, Files!AddFile(p)
      PROVE  /\ edits' \in 0 .. MaxEdits /\ removed' = removed /\ removed <= edits'
             /\ UNCHANGED <<treeCursor, pass, seen>>
    BY <1>1, <1>2, <1>7 DEF Files!AddFile
<1>8. ASSUME NEW p \in Files!Paths, Files!RemoveFile(p)
      PROVE  /\ edits' \in 0 .. MaxEdits /\ removed' = removed + 1 /\ removed + 1 <= edits'
             /\ UNCHANGED <<treeCursor, pass, seen>>
    BY <1>1, <1>2, <1>8 DEF Files!RemoveFile
<1>9. CASE Files!StartPass
  <2>1. pass' = [on |-> TRUE, list |-> tree, i |-> treeCursor, left |-> FileBudget]
        /\ UNCHANGED <<treeCursor, seen, removed, edits>>
      BY <1>9 DEF Files!StartPass
  <2>2. pass' \in [on : BOOLEAN, list : SUBSET Files!Paths, i : 0 .. NPaths, left : 0 .. FileBudget]
      BY <1>1, <1>2, <2>1
  <2> QED BY <1>2, <2>1, <2>2
<1>10. CASE Files!FetchBatch
  <2>1. PICK stop, i, lft : stop = Files!BatchEnd /\ i = pass.i /\ lft = pass.left
      OBVIOUS
  <2>2. /\ stop > i /\ seen' = seen \cup Files!Fetched(stop)
        /\ pass' = [[pass EXCEPT !.i = stop] EXCEPT !.left = lft - (stop - i)]
        /\ pass.on /\ UNCHANGED <<treeCursor, removed, edits>>
      BY <1>2, <1>10, <2>1 DEF Files!FetchBatch
  <2>3. stop \in Nat /\ stop <= i + lft /\ i \in 0 .. NPaths /\ lft \in 0 .. FileBudget
      BY <1>2, <2>1, <2>2, BatchIs
  <2>4. stop <= NPaths
    <3>1. IsFiniteSet(Files!Paths) /\ Cardinality(Files!Paths) = NPaths
      <4>1. /\ IsFiniteSet(1 .. NPaths)
            /\ Cardinality(1 .. NPaths) = IF 1 > NPaths THEN 0 ELSE NPaths - 1 + 1
          BY <1>1, FS_Interval, 1 \in Int, NPaths \in Int
      <4> QED BY <1>1, <4>1 DEF Files!Paths
    <3>2. Cardinality(pass.list) \in Nat /\ Cardinality(pass.list) <= NPaths
      <4>1. pass.list \in SUBSET Files!Paths
          BY <1>2
      <4> QED BY <3>1, <4>1, FS_Subset, FS_CardinalityType
    <3>3. stop <= Cardinality(pass.list)
      <4>1. stop = Files!Least(Files!Least(i + Batch, i + lft), Cardinality(pass.list))
          BY <2>1, OneSize DEF Files!BatchEnd
      <4>2. Batch \in Nat
          BY Assumptions DEF Files!TreeAssumption
      <4> QED BY <2>3, <3>2, <4>1, <4>2 DEF Files!Least
    <3> QED BY <1>1, <2>3, <3>2, <3>3
  <2>5. stop \in 0 .. NPaths /\ lft - (stop - i) \in 0 .. FileBudget
      BY <1>1, <2>2, <2>3, <2>4
  <2>6. pass' \in [on : BOOLEAN, list : SUBSET Files!Paths, i : 0 .. NPaths, left : 0 .. FileBudget]
      BY <1>2, <2>2, <2>5
  <2> QED BY <1>2, <1>6, <2>2, <2>6
<1>11. ASSUME NEW n \in 0 .. NPaths, Files!RateLimit(n)
       PROVE  /\ seen' \subseteq Files!Paths /\ treeCursor' \in 0 .. NPaths
              /\ pass' = Files!Idle /\ UNCHANGED <<removed, edits>>
    BY <1>2, <1>6, <1>11 DEF Files!RateLimit
<1>12. CASE Files!CutPass \/ Files!CompletePass \/ Files!LosePass
  <2>1. /\ treeCursor' \in {treeCursor, pass.i, 0} /\ pass' = Files!Idle
        /\ UNCHANGED <<seen, removed, edits>>
      BY <1>12 DEF Files!CutPass, Files!CompletePass, Files!LosePass
  <2>2. treeCursor' \in 0 .. NPaths
      BY <1>1, <1>2, <2>1
  <2> QED BY <1>2, <1>5, <2>1, <2>2
<1>13. CASE UNCHANGED treeVars
    BY <1>2, <1>13 DEF treeVars
<1>14. CASE \E p \in Files!Paths : Files!AddFile(p) \/ Files!RemoveFile(p)
    BY <1>2, <1>7, <1>8, <1>14
<1> QED BY <1>2, <1>5, <1>9, <1>10, <1>11, <1>12, <1>13, <1>14 DEF Files!Next

\* The row that an analysis found is one of those there are.
LEMMA ChainBoundsKept ==
    ASSUME ChainInv, ChainInv', Chains!TypeOK, RowsAreBounded,
           Chains!Next \/ UNCHANGED Chains!chainVars
    PROVE  Chains!TypeOK' /\ RowsAreBounded'
<1> DEFINE At == {"none", "look", "fold", "write", "done", "failed"}
           Request == [at : At, stages : SUBSET Chains!Stages, row : 0 .. MaxRows]
<1>1. MaxRows \in Nat /\ MaxActs \in Nat
    BY Assumptions DEF Chains!ChainAssumption
<1>2. /\ stored \subseteq Chains!Events /\ dismissed \subseteq stored /\ revived \subseteq stored
      /\ {crowded, overlapped} \subseteq BOOLEAN /\ acts \in 0 .. MaxActs
      /\ request \in [Chains!Events -> Request] /\ rows \in Seq(Rows) /\ Len(rows) \in Nat
    BY DEF Chains!TypeOK, ChainInv, ChainTypes
<1>3. /\ request' \in [Chains!Events -> [at : At, stages : SUBSET Chains!Stages, row : Nat]]
      /\ rows' \in Seq(Rows) /\ \A i \in DOMAIN window' : window'[i] \in stored'
    BY DEF ChainInv, ChainTypes
<1>4. SUFFICES /\ stored' \subseteq Chains!Events /\ dismissed' \subseteq stored'
               /\ revived' \subseteq stored' /\ {crowded', overlapped'} \subseteq BOOLEAN
               /\ acts' \in 0 .. MaxActs /\ Len(rows') <= MaxRows
               /\ \A e \in Chains!Events : request'[e].row \in 0 .. MaxRows
  <2>1. \A i \in DOMAIN rows' : rows'[i].stages \subseteq Chains!Stages /\ rows'[i].state \in Chains!RowStates
    <3>1. \A i \in DOMAIN rows' : rows'[i] \in Rows
        BY <1>3
    <3> QED BY <3>1 DEF Rows
  <2>2. Chains!ToSet(window)' \subseteq stored'
      BY <1>3 DEF Chains!ToSet
  <2>3. ASSUME \A e \in Chains!Events : request'[e].row \in 0 .. MaxRows
        PROVE  request' \in [Chains!Events -> Request]
      BY <1>3, <2>3
  <2> QED BY <2>1, <2>2, <2>3 DEF Chains!TypeOK, RowsAreBounded
<1>5. \A e \in Chains!Events : request[e].row \in 0 .. MaxRows
    BY <1>2
<1>6. \A x \in 0 .. MaxActs : x < MaxActs => x + 1 \in 0 .. MaxActs
    BY <1>1
<1>7. 0 \in 0 .. MaxRows
    BY <1>1
<1>8. ASSUME NEW e \in Chains!Events, Chains!Store(e)
      PROVE  /\ stored' = stored \cup {e}
             /\ UNCHANGED <<dismissed, rows, revived, crowded, overlapped, acts>>
             /\ \A d \in Chains!Events : request'[d].row = request[d].row
  <2>1. request' = [request EXCEPT ![e].at = "look"]
      BY <1>8 DEF Chains!Store
  <2>2. \A d \in Chains!Events : request'[d].row = request[d].row
      BY <1>2, <2>1
  <2> QED BY <1>8, <2>2 DEF Chains!Store
<1>9. ASSUME NEW e \in Chains!Events, Chains!Look(e) \/ Chains!FindPrior(e) \/ Chains!Fail(e)
      PROVE  /\ UNCHANGED <<stored, dismissed, rows, revived>>
             /\ {crowded', overlapped'} \subseteq BOOLEAN /\ acts' \in 0 .. MaxActs
             /\ \A d \in Chains!Events : request'[d].row \in 0 .. MaxRows
  <2>1. CASE Chains!Look(e)
    <3>1. \A d \in Chains!Events : request'[d].row \in 0 .. MaxRows
      <4>1. PICK shown : shown = Chains!Shown(e)
          OBVIOUS
      <4>2. request' = [request EXCEPT ![e] =
                IF Chains!Chain(shown)
                THEN [[@ EXCEPT !.at = "fold"] EXCEPT !.stages = Chains!Union(shown)]
                ELSE [at |-> "done", stages |-> {}, row |-> 0]]
          BY <2>1, <4>1 DEF Chains!Look, Chains!Ended
      <4>3. request'[e].row \in {request[e].row, 0}
          BY <1>2, <4>2
      <4> QED BY <1>2, <1>5, <1>7, <4>2, <4>3
    <3>2. /\ crowded' \in BOOLEAN /\ overlapped' \in BOOLEAN
          /\ UNCHANGED <<stored, dismissed, rows, revived, acts>>
        BY <2>1 DEF Chains!Look
    <3> QED BY <1>2, <3>1, <3>2
  <2>2. CASE Chains!FindPrior(e)
    <3>1. PICK r : r = Chains!Prior(request[e].stages)
        OBVIOUS
    <3>2. /\ request' = [request EXCEPT ![e] = [[@ EXCEPT !.at = "write"] EXCEPT !.row = r]]
          /\ UNCHANGED <<stored, dismissed, rows, revived, crowded, overlapped, acts>>
        BY <1>2, <2>2, <3>1 DEF Chains!FindPrior
    <3>3. r \in 0 .. MaxRows
      <4>1. r \in Nat /\ (r # 0 => r \in DOMAIN rows)
          BY <3>1, PriorIs DEF ChainInv
      <4> QED BY <1>1, <1>2, <4>1 DEF RowsAreBounded
    <3>4. request'[e].row = r
        BY <1>2, <3>2
    <3> QED BY <1>2, <1>5, <3>2, <3>3, <3>4
  <2>3. CASE Chains!Fail(e)
    <3>1. /\ request' = [request EXCEPT ![e] = [at |-> "failed", stages |-> {}, row |-> 0]]
          /\ acts < MaxActs /\ acts' = acts + 1
          /\ UNCHANGED <<stored, dismissed, rows, revived, crowded, overlapped>>
        BY <2>3 DEF Chains!Fail, Chains!Ended
    <3> QED BY <1>2, <1>5, <1>6, <1>7, <3>1
  <2> QED BY <1>9, <2>1, <2>2, <2>3
<1>10. ASSUME NEW e \in Chains!Events, Chains!Write(e)
       PROVE  /\ UNCHANGED <<stored, dismissed, revived, crowded, overlapped, acts>>
              /\ Len(rows') <= MaxRows /\ \A d \in Chains!Events : request'[d].row \in 0 .. MaxRows
  <2>1. PICK r, new : r = request[e].row /\ new = [stages |-> request[e].stages, state |-> "open"]
      OBVIOUS
  <2>2. /\ \E how : request' = [request EXCEPT ![e] = [at |-> how, stages |-> {}, row |-> 0]]
        /\ r = 0 => Len(rows) < MaxRows
        /\ rows' = IF r # 0 THEN rows ELSE Append(rows, new)
        /\ UNCHANGED <<stored, dismissed, revived, crowded, overlapped, acts>>
      BY <1>10, <2>1 DEF Chains!Write, Chains!Ended
  <2>3. Len(rows') <= MaxRows
    <3>1. Len(Append(rows, new)) = Len(rows) + 1
      <4>1. new \in Rows
          BY <1>2, <2>1 DEF Rows, Chains!RowStates
      <4> QED BY <1>2, <4>1, AppendProperties
    <3> QED BY <1>1, <1>2, <2>2, <3>1 DEF RowsAreBounded
  <2> QED BY <1>2, <1>5, <1>7, <2>2, <2>3
<1>11. ASSUME NEW e \in Chains!Events, NEW reopened \in BOOLEAN, Chains!Repeat(e, reopened)
       PROVE  /\ UNCHANGED <<stored, request, rows, crowded, overlapped>> /\ acts' \in 0 .. MaxActs
              /\ dismissed' \subseteq stored /\ revived' \subseteq stored
    BY <1>2, <1>6, <1>11 DEF Chains!Repeat
<1>12. CASE Chains!AgeOut
    BY <1>2, <1>5, <1>6, <1>12 DEF Chains!AgeOut, RowsAreBounded
<1>13. ASSUME NEW e \in Chains!Events, Chains!Dismiss(e) \/ Chains!Reopen(e) \/ Chains!Delete(e)
       PROVE  /\ UNCHANGED <<request, rows, crowded, overlapped>> /\ acts' \in 0 .. MaxActs
              /\ stored' \subseteq stored /\ dismissed' \subseteq stored' /\ revived' \subseteq stored'
    BY <1>2, <1>6, <1>13 DEF Chains!Dismiss, Chains!Reopen, Chains!Delete
<1>14. ASSUME NEW i \in 1 .. MaxRows,
              Chains!DismissRow(i) \/ Chains!ReopenRow(i) \/ Chains!DeleteRow(i)
       PROVE  /\ UNCHANGED <<stored, dismissed, request, revived, crowded, overlapped>>
              /\ acts' \in 0 .. MaxActs /\ Len(rows') = Len(rows)
    BY <1>2, <1>6, <1>14 DEF Chains!DismissRow, Chains!ReopenRow, Chains!DeleteRow
<1>15. CASE UNCHANGED Chains!chainVars
    BY <1>2, <1>5, <1>15 DEF Chains!chainVars, RowsAreBounded
<1> HIDE DEF At, Request
<1>16. ASSUME NEW e \in Chains!Events,
              \/ Chains!Store(e) \/ Chains!Look(e) \/ Chains!FindPrior(e) \/ Chains!Write(e)
              \/ Chains!Fail(e) \/ Chains!Dismiss(e) \/ Chains!Reopen(e) \/ Chains!Delete(e)
              \/ \E reopened \in BOOLEAN : Chains!Repeat(e, reopened)
       PROVE  /\ stored' \subseteq Chains!Events /\ dismissed' \subseteq stored'
              /\ revived' \subseteq stored' /\ {crowded', overlapped'} \subseteq BOOLEAN
              /\ acts' \in 0 .. MaxActs /\ Len(rows') <= MaxRows
              /\ \A d \in Chains!Events : request'[d].row \in 0 .. MaxRows
  <2>1. Len(rows) <= MaxRows
      BY DEF RowsAreBounded
  <2>2. CASE Chains!Store(e)
      BY <1>2, <1>5, <1>8, <2>1, <2>2
  <2>3. CASE Chains!Look(e) \/ Chains!FindPrior(e) \/ Chains!Fail(e)
      BY <1>2, <1>9, <2>1, <2>3
  <2>4. CASE Chains!Write(e)
      BY <1>2, <1>10, <2>4
  <2>5. CASE Chains!Dismiss(e) \/ Chains!Reopen(e) \/ Chains!Delete(e)
      BY <1>2, <1>5, <1>13, <2>1, <2>5
  <2>6. CASE \E reopened \in BOOLEAN : Chains!Repeat(e, reopened)
      BY <1>2, <1>5, <1>11, <2>1, <2>6
  <2> QED BY <1>16, <2>2, <2>3, <2>4, <2>5, <2>6
<1>17. CASE \E i \in 1 .. MaxRows :
          Chains!DismissRow(i) \/ Chains!ReopenRow(i) \/ Chains!DeleteRow(i)
    BY <1>2, <1>5, <1>14, <1>17 DEF RowsAreBounded
<1> QED BY <1>12, <1>15, <1>16, <1>17 DEF Chains!Next

(***************************************************************************)
(* At most k of a set have fewer than k before them, when any two of them  *)
(* have different ones before them.                                        *)
(***************************************************************************)
LEMMA FirstFew ==
    ASSUME NEW U, IsFiniteSet(U), NEW k \in Nat, NEW before \in [U -> SUBSET U],
           \A m, n \in U : m # n =>
               \/ before[m] \subseteq before[n] /\ m \in before[n] /\ m \notin before[m]
               \/ before[n] \subseteq before[m] /\ n \in before[m] /\ n \notin before[n]
    PROVE  LET few == {n \in U : Cardinality(before[n]) < k}
           IN  IsFiniteSet(few) /\ Cardinality(few) <= k
<1> DEFINE few == {n \in U : Cardinality(before[n]) < k}
           f == [n \in few |-> Cardinality(before[n])]
<1>1. \A n \in U : IsFiniteSet(before[n]) /\ Cardinality(before[n]) \in Nat
    BY FS_Subset, FS_CardinalityType
<1>2. \A n \in few : f[n] \in 0 .. k - 1
    BY <1>1
<1>3. ASSUME NEW m \in U, NEW n \in U, before[m] \subseteq before[n], m \in before[n],
             m \notin before[m]
      PROVE  Cardinality(before[m]) # Cardinality(before[n])
  <2>1. PICK A, B : A = before[m] /\ B = before[n]
      OBVIOUS
  <2>2. IsFiniteSet(B) /\ A \in SUBSET B /\ A # B
      BY <1>1, <1>3, <2>1
  <2>3. Cardinality(A) # Cardinality(B)
      BY <2>2, FS_Subset
  <2> QED BY <2>1, <2>3
<1>4. \A m, n \in few : f[m] = f[n] => m = n
    BY <1>3
<1>5. f \in Injection(few, 0 .. k - 1)
    BY <1>2, <1>4 DEF Injection, IsInjective
<1>6. IsFiniteSet(0 .. k - 1) /\ Cardinality(0 .. k - 1) = k
  <2>1. 0 \in Int /\ k - 1 \in Int
      OBVIOUS
  <2>2. /\ IsFiniteSet(0 .. k - 1)
        /\ Cardinality(0 .. k - 1) = IF 0 > k - 1 THEN 0 ELSE (k - 1) - 0 + 1
      BY <2>1, FS_Interval
  <2> QED BY <2>2
<1> HIDE DEF f, few
<1>7. IsFiniteSet(few) /\ Cardinality(few) <= k
    BY <1>5, <1>6, FS_Injection
<1> QED BY <1>7 DEF few

\* The last date is no earlier than any date, and no less than what else a mark may be.
LEMMA LastDateIs ==
    /\ Marks!LastDate \in Nat /\ MaxAge \in Nat
    /\ MaxAge <= Marks!LastDate /\ MaxItems <= Marks!LastDate
    /\ \A n \in Marks!Items : ItemDate[n] <= Marks!LastDate
<1> DEFINE T == {ItemDate[n] : n \in Marks!Items} \cup {MaxAge, MaxItems}
<1>1. MaxAge \in Nat /\ MaxItems \in Nat
    BY Assumptions DEF Marks!MarksAssumption
<1>2. T \in SUBSET Nat /\ T # {}
    BY <1>1, ItemsAre
<1>3. PICK bound \in Nat : \A t \in T : t <= bound
  <2>1. CASE MaxItems = 0
    <3>1. Marks!Items = {}
        BY <2>1, ItemsAre
    <3> QED BY <1>1, <2>1, <3>1
  <2>2. CASE MaxItems # 0
    <3>1. MaxItems \in Marks!Items /\ ItemDate[MaxItems] \in Nat
        BY <1>1, <2>2, ItemsAre
    <3>2. \A n \in Marks!Items : ItemDate[n] <= ItemDate[MaxItems]
      <4> SUFFICES ASSUME NEW n \in Marks!Items PROVE ItemDate[n] <= ItemDate[MaxItems]
          OBVIOUS
      <4>1. n = MaxItems \/ n < MaxItems
          BY <1>1, ItemsAre
      <4> QED BY <3>1, <4>1, ItemsAre
    <3>3. PICK b \in Nat : b = ItemDate[MaxItems] + MaxAge + MaxItems
        BY <1>1, <3>1
    <3>4. \A n \in Marks!Items : ItemDate[n] <= b
      <4> SUFFICES ASSUME NEW n \in Marks!Items PROVE ItemDate[n] <= b
          OBVIOUS
      <4>1. ItemDate[n] \in Nat
          BY ItemsAre
      <4> QED BY <1>1, <3>1, <3>2, <3>3, <4>1
    <3>5. MaxAge <= b /\ MaxItems <= b
        BY <1>1, <3>1, <3>3
    <3> QED BY <3>4, <3>5
  <2> QED BY <2>1, <2>2
<1>4. Marks!LastDate = CHOOSE x \in T : \A y \in T : x >= y
    BY DEF Marks!LastDate, Marks!Max
<1>5. Marks!LastDate \in T /\ \A y \in T : Marks!LastDate >= y
  <2> HIDE DEF T
  <2>1. PICK x \in T : \A y \in T : y <= x
      BY <1>2, <1>3, GreatestIs
  <2>2. \E z \in T : \A y \in T : z >= y
      BY <1>2, <2>1
  <2> QED BY <1>4, <2>2
<1>6. Marks!LastDate \in Nat
    BY <1>2, <1>5
<1>7. /\ MaxAge <= Marks!LastDate /\ MaxItems <= Marks!LastDate
    BY <1>1, <1>5, <1>6
<1>8. ASSUME NEW n \in Marks!Items PROVE ItemDate[n] <= Marks!LastDate
  <2>1. ItemDate[n] \in T /\ ItemDate[n] \in Nat
      BY ItemsAre
  <2> HIDE DEF T
  <2> QED BY <1>5, <1>6, <2>1
<1> QED BY <1>1, <1>6, <1>7, <1>8

\* A mark that a sync reads to is none later than the last date.
LEMMA ReadMarkIsBounded ==
    ASSUME MarksInv, Marks!TypeOK, NEW s \in Marks!Streams, s = sync.at, NEW skipped,
           NEW page \in Marks!Pages(s, skipped), NEW came \in Marks!ComeTo(s, page, skipped),
           NEW mk, mk = Marks!MarkAfter(s, page, came, came \ skipped)
    PROVE  mk \in Marks!NoMark .. Marks!LastDate
<1>1. /\ source \in Marks!Sources /\ sync.marks[s] \in Marks!NoMark .. Marks!LastDate
      /\ sync.from \in 0 .. MaxAge /\ count[s] \in 0 .. MaxItems
    BY DEF Marks!TypeOK, Marks!Marks
<1>2. came \subseteq 1 .. count[s]
    BY ComeToIs
<1>3. MaxItems \in Nat /\ Marks!NoMark = -1
    BY ItemsAre
<1>4. ASSUME NEW set \in SUBSET (1 .. count[s]), set # {}
      PROVE  Marks!Newest(set) \in Marks!NoMark .. Marks!LastDate
  <2>1. PICK n \in set : Marks!Newest(set) = Marks!At(n) /\ Marks!At(n) \in Nat
      BY <1>4, NewestIs
  <2>2. n \in Marks!Items /\ n <= MaxItems /\ n \in Nat
      BY <1>1, <1>3, ItemsAre
  <2>3. ItemDate[n] \in Nat
      BY <2>2, ItemsAre
  <2>4. Marks!At(n) <= Marks!LastDate
      BY <1>3, <2>2, <2>3, LastDateIs DEF Marks!At
  <2> QED BY <1>3, <2>1, <2>4, LastDateIs
<1>5. Marks!After(s) \in Marks!NoMark .. Marks!LastDate
    BY <1>1, <1>3, LastDateIs DEF Marks!After
<1>6. count[s] \in Marks!NoMark .. Marks!LastDate
    BY <1>1, <1>3, LastDateIs
<1>7. CASE source \in {"drive", "salesforce"}
  <2>1. mk = IF came = {} THEN Marks!After(s) ELSE Marks!Newest(came)
      BY <1>7 DEF Marks!MarkAfter
  <2> QED BY <1>2, <1>4, <1>5, <2>1
<1>8. CASE source = "teams"
  <2>1. mk = IF Marks!Over(s, page, came) THEN sync.marks[s] ELSE count[s]
      BY <1>8 DEF Marks!MarkAfter
  <2> QED BY <1>1, <1>6, <2>1
<1>9. CASE source \in {"outlook", "gmail"}
  <2>1. mk = IF Marks!Over(s, page, came) \/ came \ skipped = {} THEN sync.marks[s]
             ELSE Marks!Newest(came \ skipped)
      BY <1>9 DEF Marks!MarkAfter
  <2>2. (came \ skipped) \in SUBSET (1 .. count[s])
      BY <1>2
  <2> QED BY <1>1, <1>4, <2>1, <2>2
<1> QED BY <1>1, <1>7, <1>8, <1>9 DEF Marks!Sources

\* What a sync scans of a stream is within what is left of its budget.
LEMMA ScannedIsWithin ==
    ASSUME MarksInv, NEW s \in Marks!Streams, NEW skipped,
           NEW page \in Marks!Pages(s, skipped), NEW came \in Marks!ComeTo(s, page, skipped),
           ItemBudget - sync.spent \in Nat
    PROVE  /\ Cardinality(came \ skipped) \in Nat
           /\ Cardinality(came \ skipped) <= ItemBudget - sync.spent
<1>a. /\ page \subseteq 1 .. count[s] /\ came \subseteq page /\ count[s] \in Nat
      /\ IsFiniteSet(1 .. count[s])
  <2>1. count[s] \in Nat
      BY ItemsAre DEF MarksInv, MarkTypes
  <2>2. IsFiniteSet(1 .. count[s])
      BY <2>1, FS_Interval, 1 \in Int
  <2>3. page \subseteq 1 .. count[s] /\ came \subseteq page
      BY ComeToIs
  <2> QED BY <2>1, <2>2, <2>3
<1>b. CASE source = "teams"
  <2>1. Cardinality(came \ skipped) <= ItemBudget - sync.spent
      BY <1>b, OneSize DEF Marks!ComeTo
  <2>2. (came \ skipped) \in SUBSET (1 .. count[s])
      BY <1>a
  <2> QED BY <1>a, <2>1, <2>2, FS_Subset, FS_CardinalityType
<1>c. SUFFICES ASSUME source # "teams"
               PROVE  /\ Cardinality(came \ skipped) \in Nat
                      /\ Cardinality(came \ skipped) <= ItemBudget - sync.spent
    BY <1>b
<1>1. PICK U, k : U = page \ skipped /\ k = ItemBudget - sync.spent
    OBVIOUS
<1>2. U \subseteq 1 .. count[s] /\ IsFiniteSet(U) /\ count[s] \in Nat
    BY <1>1, <1>a, FS_Subset
<1> DEFINE before == [n \in U |-> {m \in U : Marks!Earlier(m, n)}]
<1>3. before \in [U -> SUBSET U]
    OBVIOUS
<1>4. ASSUME NEW m \in U, NEW n \in U, m # n
      PROVE  \/ before[m] \subseteq before[n] /\ m \in before[n] /\ m \notin before[m]
             \/ before[n] \subseteq before[m] /\ n \in before[m] /\ n \notin before[n]
  <2>1. m \in Nat /\ n \in Nat /\ \A i \in U : i \in Nat
      BY <1>2
  <2>2. m < n \/ n < m
      BY <1>4, <2>1
  <2>a. \A j \in U : \A i : i \in before[j] <=> i \in U /\ Marks!Earlier(i, j)
      OBVIOUS
  <2> HIDE DEF before
  <2>3. CASE source = "gmail"
    <3>1. \A j \in U : \A i : i \in before[j] <=> i \in U /\ i > j
        BY <2>3, <2>a DEF Marks!Earlier
    <3>2. CASE m < n
      <4>1. n \in before[m] /\ n \notin before[n]
          BY <2>1, <3>1, <3>2
      <4>2. ASSUME NEW i \in before[n] PROVE i \in before[m]
        <5>1. i \in U /\ i > n /\ i \in Nat
            BY <2>1, <3>1, <4>2
        <5>2. i > m
            BY <2>1, <3>2, <5>1
        <5> QED BY <3>1, <5>1, <5>2
      <4> QED BY <4>1, <4>2
    <3>3. CASE n < m
      <4>1. m \in before[n] /\ m \notin before[m]
          BY <2>1, <3>1, <3>3
      <4>2. ASSUME NEW i \in before[m] PROVE i \in before[n]
        <5>1. i \in U /\ i > m /\ i \in Nat
            BY <2>1, <3>1, <4>2
        <5>2. i > n
            BY <2>1, <3>3, <5>1
        <5> QED BY <3>1, <5>1, <5>2
      <4> QED BY <4>1, <4>2
    <3> QED BY <2>2, <3>2, <3>3
  <2>4. CASE source # "gmail"
    <3>1. \A j \in U : \A i : i \in before[j] <=> i \in U /\ i < j
        BY <2>4, <2>a DEF Marks!Earlier
    <3>2. CASE m < n
      <4>1. m \in before[n] /\ m \notin before[m]
          BY <2>1, <3>1, <3>2
      <4>2. ASSUME NEW i \in before[m] PROVE i \in before[n]
        <5>1. i \in U /\ i < m /\ i \in Nat
            BY <2>1, <3>1, <4>2
        <5>2. i < n
            BY <2>1, <3>2, <5>1
        <5> QED BY <3>1, <5>1, <5>2
      <4> QED BY <4>1, <4>2
    <3>3. CASE n < m
      <4>1. n \in before[m] /\ n \notin before[n]
          BY <2>1, <3>1, <3>3
      <4>2. ASSUME NEW i \in before[n] PROVE i \in before[m]
        <5>1. i \in U /\ i < n /\ i \in Nat
            BY <2>1, <3>1, <4>2
        <5>2. i < m
            BY <2>1, <3>3, <5>1
        <5> QED BY <3>1, <5>1, <5>2
      <4> QED BY <4>1, <4>2
    <3> QED BY <2>2, <3>2, <3>3
  <2> QED BY <2>3, <2>4
<1>5. PICK few : few = {n \in U : Cardinality(before[n]) < k}
    OBVIOUS
<1>6. came \ skipped = few
  <2>1. came \ skipped = {n \in U : Cardinality({m \in U : Marks!Earlier(m, n)}) < k}
      BY <1>1, <1>c, OneSize DEF Marks!ComeTo
  <2> QED BY <1>5, <2>1
<1> HIDE DEF before
<1>7. IsFiniteSet(few) /\ Cardinality(few) <= k
    BY <1>1, <1>2, <1>3, <1>4, <1>5, FirstFew
<1> QED BY <1>1, <1>6, <1>7, FS_CardinalityType

\* A sync stays within the streams and its budget, and its marks within the dates.
LEMMA MarkTypesKept ==
    ASSUME MarksInv, MarksInv', Marks!TypeOK, faults' \in 0 .. MaxFaults,
           Marks!Next \/ UNCHANGED markVars
    PROVE  Marks!TypeOK'
<1> DEFINE Dates == Marks!NoMark .. Marks!LastDate
           Sync == [at : 0 .. NStreams + 1, spent : 0 .. ItemBudget, from : 0 .. MaxAge,
                    marks : Marks!Marks]
<1>1. /\ NStreams \in Nat \ {0} /\ MaxAge \in Nat /\ ItemBudget \in Nat
      /\ Marks!Streams = 1 .. NStreams /\ Marks!NoMark = -1 /\ Marks!LastDate \in Nat
    BY Assumptions, LastDateIs DEF Marks!MarksAssumption, Marks!Streams, Marks!NoMark
<1>2. /\ horizon \in 0 .. MaxAge /\ marks \in Marks!Marks /\ sync \in Sync
      /\ \A known \in {aged, unpulled} : known \subseteq Marks!Streams \X Marks!Items
    BY DEF Marks!TypeOK
<1>3. /\ source' \in Marks!Sources /\ count' \in [Marks!Streams -> 0 .. MaxItems]
      /\ handled' \subseteq Marks!Streams \X Marks!Items
    BY DEF MarksInv, MarkTypes
<1>4. SUFFICES /\ horizon' \in 0 .. MaxAge /\ marks' \in Marks!Marks /\ sync' \in Sync
               /\ \A known \in {aged', unpulled'} : known \subseteq Marks!Streams \X Marks!Items
  <2>1. /\ Marks!Marks' = Marks!Marks
      BY DEF Marks!Marks
  <2> QED BY <1>3 DEF Marks!TypeOK
<1>5. [s \in Marks!Streams |-> Marks!NoMark] \in Marks!Marks
    BY <1>1 DEF Marks!Marks
<1>6. Marks!Idle \in Sync
    BY <1>1, <1>5 DEF Marks!Idle
<1>7. ASSUME NEW s \in Marks!Streams, Marks!Appear(s)
      PROVE  UNCHANGED <<horizon, marks, sync, aged, unpulled>>
    BY <1>7 DEF Marks!Appear
<1>8. CASE Marks!Age
  <2>1. /\ horizon < MaxAge /\ horizon' = horizon + 1 /\ UNCHANGED <<marks, sync, unpulled>>
        /\ aged' \subseteq aged \cup (Marks!Streams \X Marks!Items)
      BY <1>8 DEF Marks!Age
  <2>2. horizon' \in 0 .. MaxAge
      BY <1>1, <1>2, <2>1
  <2>3. aged' \subseteq Marks!Streams \X Marks!Items
      BY <1>2, <2>1
  <2> HIDE DEF Sync
  <2> QED BY <1>2, <2>1, <2>2, <2>3
<1>9. CASE Marks!StartSync
  <2>1. /\ sync' = [at |-> 1, spent |-> 0, from |-> horizon, marks |-> marks]
        /\ UNCHANGED <<horizon, marks, aged, unpulled>>
      BY <1>9 DEF Marks!StartSync
  <2>2. 1 \in 0 .. NStreams + 1 /\ 0 \in 0 .. ItemBudget
      BY <1>1
  <2>3. sync' \in Sync
      BY <1>2, <2>1, <2>2
  <2> HIDE DEF Sync
  <2> QED BY <1>2, <2>1, <2>3
<1>10. CASE Marks!ReadStream
  <2>1. /\ sync.at \in Marks!Used /\ sync.spent < ItemBudget
        /\ UNCHANGED <<horizon, marks, aged>>
      BY <1>10 DEF Marks!ReadStream, Marks!InLoop
  <2>2. PICK s \in Marks!Streams : s = sync.at
      BY <2>1, ItemsAre
  <2>c. PICK skipped : \E page \in Marks!Pages(sync.at, skipped) :
                       \E came \in Marks!ComeTo(sync.at, page, skipped) :
           LET scanned == came \ skipped
           IN  /\ unpulled' = unpulled \cup
                                 {<<sync.at, n>> : n \in Marks!LeftBehind(sync.at, page, came)}
               /\ sync' = [sync EXCEPT
                      !.at = @ + 1, !.spent = @ + Marks!Cardinality(scanned),
                      !.marks[sync.at] = Marks!MarkAfter(sync.at, page, came, scanned)]
      BY <1>10, Zenon DEF Marks!ReadStream
  <2>d. PICK page \in Marks!Pages(sync.at, skipped) :
                       \E came \in Marks!ComeTo(sync.at, page, skipped) :
           /\ unpulled' = unpulled \cup
                             {<<sync.at, n>> : n \in Marks!LeftBehind(sync.at, page, came)}
           /\ sync' = [sync EXCEPT
                  !.at = @ + 1, !.spent = @ + Marks!Cardinality(came \ skipped),
                  !.marks[sync.at] = Marks!MarkAfter(sync.at, page, came, came \ skipped)]
      BY <2>c, Zenon
  <2>3. PICK came \in Marks!ComeTo(sync.at, page, skipped) :
           /\ unpulled' = unpulled \cup
                             {<<sync.at, n>> : n \in Marks!LeftBehind(sync.at, page, came)}
           /\ sync' = [sync EXCEPT
                  !.at = @ + 1, !.spent = @ + Marks!Cardinality(came \ skipped),
                  !.marks[sync.at] = Marks!MarkAfter(sync.at, page, came, came \ skipped)]
      BY <2>d, Zenon
  <2>a. page \in Marks!Pages(s, skipped) /\ came \in Marks!ComeTo(s, page, skipped)
      BY <2>2, <2>3
  <2>4. PICK mk, n :
           /\ mk = Marks!MarkAfter(s, page, came, came \ skipped)
           /\ n = Cardinality(came \ skipped)
           /\ sync' = [sync EXCEPT !.at = @ + 1, !.spent = @ + n, !.marks[s] = mk]
      BY <2>2, <2>3, OneSize
  <2>b. unpulled' \subseteq Marks!Streams \X Marks!Items
    <3>1. Marks!LeftBehind(s, page, came) \subseteq 1 .. count[s]
        BY RepliesAre DEF Marks!LeftBehind
    <3>2. count[s] \in 0 .. MaxItems
        BY DEF MarksInv, MarkTypes
    <3>3. Marks!LeftBehind(s, page, came) \subseteq Marks!Items
        BY <3>1, <3>2, ItemsAre
    <3> HIDE DEF Sync, Dates
    <3> QED BY <1>2, <2>2, <2>3, <3>3
  <2>5. mk \in Dates
      BY <2>2, <2>4, <2>a, ReadMarkIsBounded
  <2>6. PICK p, at, from, mks : /\ p = sync.spent /\ at = sync.at /\ from = sync.from
                                /\ mks = sync.marks
      OBVIOUS
  <2>7. /\ p \in 0 .. ItemBudget /\ at \in Marks!Streams /\ from \in 0 .. MaxAge
        /\ mks \in [Marks!Streams -> Dates]
      BY <1>2, <2>2, <2>6 DEF Marks!Marks
  <2>8. n \in Nat /\ p + n \in 0 .. ItemBudget
    <3>1. ItemBudget - sync.spent \in Nat
        BY <1>1, <2>6, <2>7
    <3>2. n \in Nat /\ n <= ItemBudget - sync.spent
        BY <2>4, <2>a, <3>1, ScannedIsWithin
    <3>3. n <= ItemBudget - p
        BY <2>6, <3>2
    <3> HIDE DEF Sync, Dates
    <3> QED BY <1>1, <2>7, <3>2, <3>3
  <2>9. at + 1 \in 0 .. NStreams + 1
      BY <1>1, <2>7
  <2>10. PICK q : q = [mks EXCEPT ![s] = mk]
      OBVIOUS
  <2>11. q \in Marks!Marks
    <3> HIDE DEF Dates
    <3>1. q \in [Marks!Streams -> Dates]
        BY <2>5, <2>7, <2>10
    <3> QED BY <3>1 DEF Dates, Marks!Marks
  <2>12. sync' = [at |-> at + 1, spent |-> p + n, from |-> from, marks |-> q]
      BY <1>2, <2>4, <2>6, <2>10
  <2>13. sync' \in Sync
      BY <2>7, <2>8, <2>9, <2>11, <2>12
  <2> HIDE DEF Sync
  <2> QED BY <1>2, <2>1, <2>13, <2>b
<1>11. CASE Marks!SkipStream
  <2>1. /\ sync.at \in Marks!Streams /\ sync' = [sync EXCEPT !.at = @ + 1]
        /\ UNCHANGED <<horizon, marks, aged, unpulled>>
      BY <1>11, ItemsAre DEF Marks!SkipStream, Marks!InLoop
  <2>2. sync.at + 1 \in 0 .. NStreams + 1
      BY <1>1, <2>1
  <2>3. sync' \in Sync
      BY <1>2, <2>1, <2>2
  <2> HIDE DEF Sync
  <2> QED BY <1>2, <2>1, <2>3
<1>12. CASE Marks!SaveSync \/ Marks!LoseSync
  <2>1. /\ sync' = Marks!Idle /\ marks' \in {marks, sync.marks} /\ UNCHANGED <<horizon, aged, unpulled>>
      BY <1>12 DEF Marks!SaveSync, Marks!LoseSync
  <2>2. sync.marks \in Marks!Marks
      BY <1>2
  <2> HIDE DEF Sync
  <2> QED BY <1>2, <1>6, <2>1, <2>2
<1>13. CASE UNCHANGED markVars
    BY <1>2, <1>13 DEF markVars
<1> HIDE DEF Sync
<1> QED BY <1>2, <1>7, <1>8, <1>9, <1>10, <1>11, <1>12, <1>13 DEF Marks!Next, Marks!SyncStep

\* The types of the commit scan are in its invariant.
LEMMA CommitTypesAre ==
    ASSUME CommitsInv, faults \in 0 .. MaxFaults
    PROVE  Commits!TypeOK
BY DEF CommitsInv, CommitTypes, Counts, Commits!TypeOK

\* At first every part has its types.
LEMMA TypesInit ==
    ASSUME Init
    PROVE  TypesInv
<1>1. /\ Commits!Init /\ Files!Init /\ Marks!Init /\ Digests!Init /\ Fleet!Init /\ Chains!Init
      /\ Exports!Init
    BY DEF Init
<1>2. faults = 0 /\ faults \in 0 .. MaxFaults
    BY <1>1, Assumptions DEF Files!Init, Files!TreeAssumption
<1>3. Commits!TypeOK
    BY <1>1, <1>2, CommitsInit, CommitTypesAre
<1>4. Files!TypeOK /\ RemovalsAreEdits
  <2>1. FilesInv
      BY <1>1, FilesInit
  <2>2. /\ treeCursor = 0 /\ pass = Files!Idle /\ seen = {} /\ edits = 0 /\ removed = 0
        /\ NPaths \in Nat /\ MaxEdits \in Nat /\ FileBudget \in Nat
      BY <1>1, Assumptions DEF Files!Init, Files!TreeAssumption
  <2>3. 0 \in 0 .. NPaths /\ 0 \in 0 .. MaxEdits /\ 0 \in 0 .. FileBudget /\ 0 <= 0
      BY <2>2
  <2>4. pass \in [on : BOOLEAN, list : SUBSET Files!Paths, i : 0 .. NPaths, left : 0 .. FileBudget]
      BY <2>2, <2>3 DEF Files!Idle
  <2>5. tree \subseteq Files!Paths /\ old \subseteq Files!Paths /\ done \in BOOLEAN
      BY <2>1 DEF FilesInv
  <2> QED BY <1>2, <2>2, <2>3, <2>4, <2>5 DEF Files!TypeOK, RemovalsAreEdits
<1>5. Marks!TypeOK
  <2>1. /\ NStreams \in Nat \ {0} /\ MaxItems \in Nat /\ MaxAge \in Nat /\ ItemBudget \in Nat
        /\ Marks!NoMark = -1 /\ Marks!LastDate \in Nat
      BY Assumptions, LastDateIs DEF Marks!MarksAssumption, Marks!NoMark
  <2>2. [s \in Marks!Streams |-> Marks!NoMark] \in Marks!Marks
      BY <2>1 DEF Marks!Marks
  <2>3. 0 \in 0 .. NStreams + 1 /\ 0 \in 0 .. ItemBudget /\ 0 \in 0 .. MaxAge /\ 0 \in 0 .. MaxItems
      BY <2>1
  <2> QED BY <1>1, <1>2, <2>2, <2>3 DEF Marks!Init, Marks!TypeOK, Marks!Idle
<1>6. Digests!TypeOK
  <2>1. 0 \in 0 .. MaxClock /\ Digests!Never \in Digests!Never .. MaxClock
      BY Assumptions DEF Digests!WindowsAssumption, Digests!Never
  <2> QED BY <1>1, <1>2, <2>1 DEF Digests!Init, Digests!TypeOK, Digests!Idle
<1>7. Fleet!TypeOK
  <2>1. FleetInv
      BY <1>1, FleetInit
  <2> QED BY <1>1, <2>1 DEF FleetInv, Fleet!Init, Fleet!TypeOK
<1>8. Chains!TypeOK /\ RowsAreBounded
  <2>1. 0 \in 0 .. MaxRows /\ 0 \in 0 .. MaxActs /\ 0 <= MaxRows
      BY Assumptions DEF Chains!ChainAssumption
  <2>2. Len(rows) = 0 /\ DOMAIN rows = {} /\ Chains!ToSet(window) = {}
    <3>1. rows = <<>> /\ window = <<>>
        BY <1>1 DEF Chains!Init
    <3> QED BY <3>1 DEF Chains!ToSet
  <2>3. request \in [Chains!Events -> [at : {"none", "look", "fold", "write", "done", "failed"},
                                       stages : SUBSET Chains!Stages, row : 0 .. MaxRows]]
      BY <1>1, <2>1 DEF Chains!Init, Chains!Ended
  <2> QED BY <1>1, <2>1, <2>2, <2>3 DEF Chains!Init, Chains!TypeOK, RowsAreBounded
<1>9. Exports!TypeOK
  <2>1. 1 \in 1 .. MaxHours /\ 0 \in 0 .. MaxHours /\ 0 \in 0 .. MaxSeen
      BY Assumptions DEF Exports!PageAssumption
  <2> QED BY <1>1, <2>1 DEF Exports!Init, Exports!TypeOK
<1> QED BY <1>3, <1>4, <1>5, <1>6, <1>7, <1>8, <1>9 DEF TypesInv, TypeOK

(***************************************************************************)
(* For any instance of each part: every variable keeps its type, and with  *)
(* it its bound.  A pass over files is never past its list nor a sync past *)
(* its budget, a retry count is below the number of tries, and a mark is a *)
(* date or a place that there is.                                          *)
(***************************************************************************)
THEOREM TypesCorrect == Spec => []TypeOK
<1>1. Init => TypesInv
    BY TypesInit
<1>2. ASSUME AlertsInv, AlertsInv', PassedInv, PassedInv', ChainInv, ChainInv', TypesInv,
             [Next]_vars
      PROVE  TypesInv'
  <2>1. /\ Commits!TypeOK /\ Files!TypeOK /\ Marks!TypeOK /\ Digests!TypeOK /\ Fleet!TypeOK
        /\ Chains!TypeOK /\ Exports!TypeOK /\ RemovalsAreEdits /\ RowsAreBounded
      BY <1>2 DEF TypesInv, TypeOK
  <2>2. faults' \in 0 .. MaxFaults
    <3>1. faults \in 0 .. MaxFaults
        BY <2>1 DEF Files!TypeOK
    <3> QED BY <1>2, <3>1, FaultsKept
  <2>3. /\ CommitsInv' /\ FilesInv /\ FilesInv' /\ MarksInv /\ MarksInv' /\ FleetInv /\ FleetInv'
      BY <1>2 DEF AlertsInv, PassedInv
  <2>4. Commits!TypeOK'
      BY <2>2, <2>3 DEF CommitsInv, CommitTypes, Counts, Commits!TypeOK
  <2>5. Files!TypeOK' /\ RemovalsAreEdits'
      BY <1>2, <2>1, <2>2, <2>3, PassedSteps, FileTypesKept
  <2>6. Marks!TypeOK'
      BY <1>2, <2>1, <2>2, <2>3, PassedSteps, MarkTypesKept
  <2>7. Digests!TypeOK'
      BY <1>2, <2>1, <2>2, AlertSteps, DigestTypesKept
  <2>8. Fleet!TypeOK'
      BY <1>2, <2>1, <2>3, AlertSteps, FleetTypesKept
  <2>9. Chains!TypeOK' /\ RowsAreBounded'
      BY <1>2, <2>1, PassedSteps, ChainBoundsKept
  <2>10. Exports!TypeOK'
      BY <1>2, <2>1, PassedSteps, ExportTypesKept
  <2> QED BY <2>4, <2>5, <2>6, <2>7, <2>8, <2>9, <2>10 DEF TypesInv, TypeOK
<1>3. TypesInv => TypeOK
    BY DEF TypesInv
<1> QED BY <1>1, <1>2, <1>3, AlertsInvariant, PassedInvariant, ChainsInvariant, PTL DEF Spec

=============================================================================
