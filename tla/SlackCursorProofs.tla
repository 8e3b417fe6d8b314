--------------------------- MODULE SlackCursorProofs ------------------------
(***************************************************************************)
(* SlackCursor for any conversations, page size, budget and bounds: the    *)
(* cursor implements ScanCoverage, its gaps stay in order and every        *)
(* conversation has its turn.                                              *)
(***************************************************************************)
EXTENDS SlackCursor, FiniteSetTheorems, SequenceTheorems, WellFoundedInduction, TLAPS

----------------------------------------------------------------------------
(* Finite sets of numbers                                                  *)

\* A set of numbers that is not empty has a smallest one.
LEMMA HasSmallest ==
    ASSUME NEW S \in SUBSET Nat, S # {}
    PROVE  \E m \in S : \A k \in S : m <= k
<1> DEFINE R == OpToRel(<, Nat)
<1>1. IsWellFoundedOn(R, Nat)
    BY NatLessThanWellFounded
<1>2. \A x, y \in Nat : <<y, x>> \in R <=> y < x
    BY DEF OpToRel
<1> HIDE DEF R
<1>3. PICK m \in S : \A k \in S : ~(<<k, m>> \in R)
    BY <1>1, WFMin
<1>4. \A k \in S : m <= k
    <2> SUFFICES ASSUME NEW k \in S
                 PROVE  m <= k
        OBVIOUS
    <2>1. m \in Nat /\ k \in Nat /\ ~(k < m)
        BY <1>2, <1>3
    <2> QED
        BY <2>1
<1> QED
    BY <1>4

\* So does a set with an upper bound have a largest one.
LEMMA HasLargest ==
    ASSUME NEW N \in Nat, NEW S \in SUBSET (1 .. N), S # {}
    PROVE  \E m \in S : \A k \in S : m >= k
<1> DEFINE T == {N - m : m \in S}
<1>1. \A m \in S : m \in 1 .. N /\ N - m \in Nat
    OBVIOUS
<1>2. T \in SUBSET Nat /\ T # {}
    BY <1>1
<1>3. PICK t \in T : \A k \in T : t <= k
    BY <1>2, HasSmallest
<1>4. PICK m \in S : t = N - m
    OBVIOUS
<1>5. \A k \in S : N - m <= N - k
    BY <1>3, <1>4
<1>6. \A k \in S : m >= k
    BY <1>1, <1>5
<1> QED
    BY <1>6

\* What min() of the positions returns (_slack_window).
LEMMA SmallestIs ==
    ASSUME NEW S \in SUBSET Nat, S # {}
    PROVE  Smallest(S) \in S /\ \A k \in S : Smallest(S) <= k
BY HasSmallest DEF Smallest

\* What max() of the positions returns.
LEMMA LargestIs ==
    ASSUME NEW N \in Nat, NEW S \in SUBSET (1 .. N), S # {}
    PROVE  Largest(S) \in S /\ \A k \in S : Largest(S) >= k
BY HasLargest DEF Largest

\* The newest n of some positions: no more than n, every one above one of
\* them, and none only where there is nothing to take.
LEMMA NewestIs ==
    ASSUME NEW N \in Nat, NEW S \in SUBSET (1 .. N), NEW n \in Nat
    PROVE  /\ Newest(n, S) \subseteq S
           /\ Cardinality(Newest(n, S)) \in 0 .. n
           /\ \A a \in S, b \in Newest(n, S) : a >= b => a \in Newest(n, S)
           /\ n > 0 /\ S # {} => Newest(n, S) # {}
<1> DEFINE Above(m) == {k \in S : k > m}
           R == Newest(n, S)
           f == [m \in R |-> Cardinality(Above(m)) + 1]
<1>0. S \subseteq Nat
    OBVIOUS
<1>1. IsFiniteSet(S)
    <2>1. IsFiniteSet(1 .. N)
        BY FS_Interval
    <2> QED
        BY <2>1, FS_Subset
<1>2. R \subseteq S /\ R = {m \in S : Cardinality(Above(m)) < n}
    BY DEF Newest
<1>3. IsFiniteSet(R) /\ Cardinality(R) \in Nat
    BY <1>1, <1>2, FS_Subset, FS_CardinalityType
<1>a. \A m : Above(m) \in SUBSET S
    OBVIOUS
<1>b. \A m, k \in S : k \in Above(m) <=> k > m
    OBVIOUS
<1>c. \A m : m \in R <=> m \in S /\ Cardinality(Above(m)) < n
    BY <1>2
<1> HIDE DEF Above, R
<1>4. \A m \in S : IsFiniteSet(Above(m)) /\ Cardinality(Above(m)) \in Nat
    BY <1>1, <1>a, FS_Subset, FS_CardinalityType
<1>5. ASSUME NEW a \in S, NEW b \in S, a < b
      PROVE  Cardinality(Above(b)) < Cardinality(Above(a))
    <2>1. Above(b) \subseteq Above(a)
        <3> SUFFICES ASSUME NEW k \in Above(b)
                     PROVE  k \in Above(a)
            OBVIOUS
        <3>1. k \in S /\ k > b
            BY <1>a, <1>b
        <3>2. k \in Nat /\ a \in Nat /\ b \in Nat
            BY <1>0, <3>1
        <3>3. k > a
            BY <1>5, <3>1, <3>2
        <3> QED
            BY <1>b, <3>1, <3>3
    <2>2. b \in Nat /\ a \in Nat
        BY <1>0
    <2>3. b \in Above(a) /\ b \notin Above(b)
        BY <1>b, <1>5, <2>2
    <2> QED
        BY <1>4, <2>1, <2>3, FS_Subset
<1>6. ASSUME NEW a \in S, NEW b \in R, a >= b
      PROVE  a \in R
    <2>1. b \in S /\ Cardinality(Above(b)) < n /\ a \in Nat /\ b \in Nat
        BY <1>0, <1>c
    <2>2. CASE a = b
        BY <2>2
    <2>3. CASE b < a
        <3>1. Cardinality(Above(a)) < Cardinality(Above(b))
            BY <1>5, <2>1, <2>3
        <3>2. Cardinality(Above(a)) < n
            BY <1>4, <2>1, <3>1
        <3> QED
            BY <1>c, <3>2
    <2> QED
        BY <1>6, <2>1, <2>2, <2>3
<1>7. ASSUME n > 0, S # {}
      PROVE  R # {}
    <2>1. PICK m \in S : \A k \in S : m >= k
        BY <1>7, HasLargest
    <2>2. \A k \in S : ~(k > m)
        BY <1>0, <2>1
    <2>3. Above(m) = {}
        BY <1>a, <1>b, <2>2
    <2>4. Cardinality(Above(m)) = 0
        BY <2>3, FS_EmptySet
    <2> QED
        BY <1>c, <1>7, <2>4
<1>8. Cardinality(R) \in 0 .. n
    <2>1. f \in [R -> 1 .. n]
        <3>1. ASSUME NEW m \in R
              PROVE  Cardinality(Above(m)) + 1 \in 1 .. n
            <4>1. m \in S /\ Cardinality(Above(m)) < n
                BY <1>c
            <4> QED
                BY <4>1, <1>4
        <3> QED
            BY <3>1
    <2>2. \A a, b \in R : a # b => f[a] # f[b]
        <3> SUFFICES ASSUME NEW a \in R, NEW b \in R, a # b
                     PROVE  f[a] # f[b]
            OBVIOUS
        <3>1. f[a] = Cardinality(Above(a)) + 1 /\ f[b] = Cardinality(Above(b)) + 1
            OBVIOUS
        <3>2. a \in S /\ b \in S /\ a \in Nat /\ b \in Nat
            BY <1>0, <1>c
        <3>3. CASE a < b
            <4>1. Cardinality(Above(b)) < Cardinality(Above(a))
                BY <1>5, <3>2, <3>3
            <4> QED
                BY <1>4, <3>1, <3>2, <4>1
        <3>4. CASE b < a
            <4>1. Cardinality(Above(a)) < Cardinality(Above(b))
                BY <1>5, <3>2, <3>4
            <4> QED
                BY <1>4, <3>1, <3>2, <4>1
        <3> QED
            BY <3>2, <3>3, <3>4
    <2>3. IsFiniteSet(1 .. n) /\ Cardinality(1 .. n) = n
        BY FS_Interval
    <2> SUFFICES ASSUME n < Cardinality(R)
                 PROVE  FALSE
        BY <1>3
    <2> HIDE DEF f
    <2> QED
        BY <1>3, <2>1, <2>2, <2>3, FS_PigeonHole
<1>9. R \subseteq S
    BY <1>c
<1> QED
    BY <1>6, <1>7, <1>8, <1>9 DEF R

----------------------------------------------------------------------------
(* A window of history                                                     *)

Histories == [Conversations -> Seq(Kinds)]

\* The human messages of a conversation are positions of its history.
LEMMA HumanIs ==
    ASSUME posted \in Histories, NEW c \in Conversations
    PROVE  Len(posted[c]) \in Nat /\ Human(c) \in SUBSET (1 .. Len(posted[c]))
BY LenProperties DEF Human, Histories

\* What a window returns lies in it and fits the budget, its cut is inside it,
\* and a human message that it leaves behind lies below the cut.
LEMMA WindowIs ==
    ASSUME posted \in Histories, NEW c \in Conversations,
           NEW lo \in Nat, NEW hi \in Nat, NEW n \in Nat, n > 0
    PROVE  LET W   == Window(c, lo, hi, n)
               cut == Cut(c, lo, hi, n)
           IN  /\ W \subseteq Human(c)
               /\ \A m \in W : lo < m /\ m < hi
               /\ Cardinality(W) \in 0 .. n
               /\ W # {} => Largest(W) \in W /\ \A m \in W : Largest(W) >= m
               /\ cut \in Nat
               /\ cut # 0 => lo < cut /\ cut < hi
               /\ \A m \in Human(c) : lo < m /\ m < hi => m \in W \/ (cut # 0 /\ m < cut)
               /\ ~Discovery /\ cut # 0 => W # {} /\ \A m \in W : cut <= m
<1> DEFINE B == Between(c, lo, hi)
           P == Page(c, lo, hi)
           X == P \cap Human(c)
           W == Window(c, lo, hi, n)
           cut == Cut(c, lo, hi, n)
           N == Len(posted[c])
<1>1. N \in Nat /\ Human(c) \in SUBSET (1 .. N)
    BY HumanIs
<1>2. B \in SUBSET (1 .. N) /\ (\A m \in B : lo < m /\ m < hi)
      /\ \A m \in Human(c) : lo < m /\ m < hi => m \in B
    BY <1>1 DEF Between
<1>3. PageSize \in Nat /\ PageSize > 0
    BY BoundsAssumption
<1>4. P = IF Discovery THEN Newest(PageSize, B) ELSE B
    BY DEF Page
<1>5. W = Newest(n, X)
    BY DEF Window
<1>6. cut = IF W # X THEN Smallest(W) ELSE IF P # B THEN Smallest(P) ELSE 0
    BY DEF Cut
<1> HIDE DEF B, P, W, cut, N
<1>7. /\ P \subseteq B
      /\ \A a \in B, b \in P : a >= b => a \in P
      /\ B # {} => P # {}
    <2>1. CASE Discovery
        BY <1>1, <1>2, <1>3, <1>4, <2>1, NewestIs
    <2>2. CASE ~Discovery
        BY <1>4, <2>2
    <2> QED
        BY <2>1, <2>2
<1>8. X \in SUBSET (1 .. N)
    BY <1>1
<1>9. /\ W \subseteq X
      /\ Cardinality(W) \in 0 .. n
      /\ \A a \in X, b \in W : a >= b => a \in W
      /\ X # {} => W # {}
    BY <1>1, <1>5, <1>8, NewestIs
<1>10. W # X => W # {}
    BY <1>9
<1>11. P # B => P # {}
    BY <1>7
<1>12. W # {} => Largest(W) \in W /\ \A m \in W : Largest(W) >= m
    BY <1>1, <1>8, <1>9, LargestIs
<1>12a. W \subseteq Nat
    BY <1>8, <1>9
<1>13. W # X => cut \in W /\ \A m \in W : cut <= m
    <2>1. W \subseteq Nat
        BY <1>8, <1>9
    <2> QED
        BY <1>6, <1>10, <2>1, SmallestIs
<1>14. W = X /\ P # B => cut \in P /\ \A m \in P : cut <= m
    <2>1. P \subseteq Nat
        BY <1>2, <1>7
    <2> QED
        BY <1>6, <1>11, <2>1, SmallestIs
<1>15. W = X /\ P = B => cut = 0
    BY <1>6
<1>16. cut # 0 => cut \in B
    BY <1>7, <1>9, <1>13, <1>14, <1>15
<1>17. cut \in Nat /\ (cut # 0 => lo < cut /\ cut < hi)
    <2>1. cut # 0 => cut \in 1 .. N
        BY <1>2, <1>16
    <2>2. \A k : k \in 1 .. N => k \in Nat
        OBVIOUS
    <2>3. cut \in Nat
        BY <2>1, <2>2
    <2>4. cut # 0 => lo < cut /\ cut < hi
        BY <1>2, <1>16
    <2> QED
        BY <2>3, <2>4
<1>18. ASSUME NEW m \in Human(c), lo < m, m < hi, m \notin W
       PROVE  cut # 0 /\ m < cut
    <2>1. m \in B /\ m \in Nat
        BY <1>1, <1>2, <1>18
    <2>2. CASE W # X
        <3>1. cut \in W /\ cut \in X /\ cut \in P /\ cut \in B /\ cut \in 1 .. N
            BY <1>7, <1>8, <1>9, <1>13, <2>2
        <3>2. ~(m >= cut)
            BY <1>7, <1>9, <1>18, <2>1, <3>1
        <3> QED
            BY <2>1, <3>1, <3>2
    <2>3. CASE W = X /\ P # B
        <3>1. cut \in P /\ cut \in 1 .. N
            BY <1>2, <1>7, <1>14, <2>3
        <3>2. m \notin P
            BY <1>18, <2>3
        <3>3. ~(m >= cut)
            BY <1>7, <2>1, <3>1, <3>2
        <3> QED
            BY <2>1, <3>1, <3>3
    <2>4. CASE W = X /\ P = B
        BY <1>18, <2>1, <2>4
    <2> QED
        BY <2>2, <2>3, <2>4
<1>19. ASSUME ~Discovery, cut # 0
       PROVE  W # {} /\ \A m \in W : cut <= m
    <2>1. P = B
        BY <1>4, <1>19
    <2>2. W # X
        BY <1>15, <1>19, <2>1
    <2> QED
        BY <1>10, <1>13, <2>2
<1>20. \A m \in W : m \in Human(c) /\ lo < m /\ m < hi
    BY <1>2, <1>7, <1>9
<1> QED
    BY <1>9, <1>12, <1>17, <1>18, <1>19, <1>20 DEF W, cut

----------------------------------------------------------------------------
(* What the reads and the rotation do                                      *)

\* What ReadNew does to c, whose watermark stands at lo: it scans the human
\* messages W above it, moves the watermark to top, the newest of them, and
\* leaves the others to one new gap below cut.
NewRead(c, lo, cut, top, W) ==
    /\ c = Head(todo) /\ lo = Oldest(c, newMark)
    /\ W \subseteq Human(c)
    /\ Cardinality(W) \in 0 .. Budget - spent
    /\ scanned' = scanned \cup {<<c, m>> : m \in W}
    /\ spent' = spent + Cardinality(W)
    /\ newMark' = [newMark EXCEPT ![c] = top]
    /\ newGaps' = [newGaps EXCEPT
                      ![c] = IF cut = 0 THEN @ ELSE Append(@, <<lo, cut>>)]
    /\ \A m \in W : lo < m /\ m <= top
    /\ W = {} => top = newMark[c]
    /\ W # {} => top \in W
    /\ cut # 0 => lo < cut /\ cut <= Len(posted[c])
    /\ \A m \in Human(c) : lo < m => m \in W \/ (cut # 0 /\ m < cut)
    /\ ~Discovery /\ cut # 0 => W # {} /\ \A m \in W : cut <= m

\* What ReadGap does to c, whose k-th and newest gap is <<lo, hi>>: it scans
\* the human messages W in it, and its upper end comes down to cut, or the gap
\* goes when nothing is left in it.
GapRead(c, lo, hi, cut, k, W, g) ==
    /\ c = Head(todo)
    /\ k > 0 /\ k = Len(newGaps[c]) /\ newGaps[c][k] = <<lo, hi>>
    /\ W \subseteq Human(c)
    /\ Cardinality(W) \in 0 .. Budget - spent
    /\ scanned' = scanned \cup {<<c, m>> : m \in W}
    /\ spent' = spent + Cardinality(W)
    /\ newGaps' = [newGaps EXCEPT ![c] = g]
    /\ Len(g) = IF cut = 0 THEN k - 1 ELSE k
    /\ \A j \in 1 .. k - 1 : g[j] = newGaps[c][j]
    /\ cut # 0 => g[k] = <<lo, cut>> /\ lo < cut /\ cut < hi
    /\ \A m \in W : lo < m /\ m < hi
    /\ \A m \in Human(c) : lo < m /\ m < hi => m \in W \/ (cut # 0 /\ m < cut)

\* ReadNew is such a read.
LEMMA ReadNewIs ==
    ASSUME TypeOK, ReadNew
    PROVE  \E c \in Conversations, lo \in Nat, cut \in Nat, top \in Marks, W \in SUBSET Nat :
              NewRead(c, lo, cut, top, W)
<1> DEFINE c   == Head(todo)
           lo  == Oldest(c, newMark)
           hi  == Len(posted[c]) + 1
           n   == Budget - spent
           W   == Window(c, lo, hi, n)
           cut == Cut(c, lo, hi, n)
           top == IF W = {} THEN newMark[c] ELSE Largest(W)
<1>1. posted \in Histories
    BY DEF TypeOK, Histories
<1>2. c \in Conversations
    BY HeadTailProperties DEF TypeOK, ReadNew, AtConversation
<1> HIDE DEF c
<1>3. lo \in Nat
    BY <1>2 DEF TypeOK, Oldest, Marks
<1>4. Len(posted[c]) \in Nat /\ Human(c) \in SUBSET (1 .. Len(posted[c]))
    BY <1>1, <1>2, HumanIs
<1>5. hi \in Nat
    BY <1>4
<1>6. n \in Nat /\ n > 0
    BY BoundsAssumption DEF TypeOK, ReadNew, AtConversation
<1>7. /\ scanned' = scanned \cup {<<c, m>> : m \in W}
      /\ spent' = spent + Cardinality(W)
      /\ newMark' = [newMark EXCEPT ![c] = top]
      /\ newGaps' = [newGaps EXCEPT
                        ![c] = IF cut = 0 THEN @ ELSE Append(@, <<lo, cut>>)]
    BY DEF ReadNew, Scan, c
<1> HIDE DEF lo, hi, n
<1>8. /\ W \subseteq Human(c)
      /\ \A m \in W : lo < m /\ m < hi
      /\ Cardinality(W) \in 0 .. n
      /\ W # {} => Largest(W) \in W /\ \A m \in W : Largest(W) >= m
      /\ cut \in Nat
      /\ cut # 0 => lo < cut /\ cut < hi
      /\ \A m \in Human(c) : lo < m /\ m < hi => m \in W \/ (cut # 0 /\ m < cut)
      /\ ~Discovery /\ cut # 0 => W # {} /\ \A m \in W : cut <= m
    BY <1>1, <1>2, <1>3, <1>5, <1>6, WindowIs
<1> HIDE DEF W, cut
<1>9. \A m \in Human(c) : m \in Nat /\ m < hi
    BY <1>4 DEF hi
<1>11. top \in Marks /\ (W = {} => top = newMark[c]) /\ (W # {} => top \in W)
    BY <1>2, <1>8, <1>9 DEF TypeOK, Marks
<1>12. \A m \in W : lo < m /\ m <= top
    BY <1>8, <1>9
<1> HIDE DEF top
<1>13. cut # 0 => lo < cut /\ cut <= Len(posted[c])
    BY <1>4, <1>8 DEF hi
<1>14. \A m \in Human(c) : lo < m => m \in W \/ (cut # 0 /\ m < cut)
    BY <1>8, <1>9
<1>15. Cardinality(W) \in 0 .. Budget - spent
    BY <1>8 DEF n
<1>16. c = Head(todo) /\ lo = Oldest(c, newMark) /\ W \in SUBSET Nat
    BY <1>8, <1>9 DEF c, lo
<1>17. NewRead(c, lo, cut, top, W)
    BY <1>7, <1>8, <1>11, <1>12, <1>13, <1>14, <1>15, <1>16 DEF NewRead
<1> QED
    BY <1>2, <1>3, <1>8, <1>11, <1>16, <1>17

\* ReadGap is such a read.
LEMMA ReadGapIs ==
    ASSUME TypeOK, ReadGap, todo # <<>>
    PROVE  \E c \in Conversations, lo \in Nat, hi \in Nat, cut \in Nat, k \in Nat,
              W \in SUBSET Nat, g \in Seq(Gaps) : GapRead(c, lo, hi, cut, k, W, g)
<1> DEFINE c   == Head(todo)
           old == newGaps[c]
           k   == Len(old)
           lo  == old[k][1]
           hi  == old[k][2]
           n   == Budget - spent
           W   == Window(c, lo, hi, n)
           cut == Cut(c, lo, hi, n)
           g   == IF cut # 0 /\ cut < hi THEN [old EXCEPT ![k] = <<lo, cut>>]
                  ELSE SubSeq(old, 1, k - 1)
<1>1. posted \in Histories
    BY DEF TypeOK, Histories
<1>2. c \in Conversations
    BY HeadTailProperties DEF TypeOK
<1>3. /\ scanned' = scanned \cup {<<c, m>> : m \in W}
      /\ spent' = spent + Cardinality(W)
      /\ newGaps' = [newGaps EXCEPT ![c] = g]
    BY DEF ReadGap, Scan
<1>4. old # <<>> /\ spent < Budget
    BY DEF ReadGap
<1> HIDE DEF c
<1>5. old \in Seq(Gaps)
    BY <1>2 DEF TypeOK
<1> HIDE DEF old
<1>6. k \in Nat /\ k > 0 /\ k \in 1 .. Len(old)
    BY <1>4, <1>5, EmptySeq
<1>7. old[k] \in Gaps /\ \A j \in 1 .. k : old[j] \in Gaps
    BY <1>5, <1>6, ElementOfSeq
<1>8. lo \in Nat /\ hi \in Nat /\ old[k] = <<lo, hi>>
    BY <1>7 DEF Gaps
<1>9. n \in Nat /\ n > 0
    BY <1>4, BoundsAssumption DEF TypeOK
<1> HIDE DEF lo, hi, n
<1>10. /\ W \subseteq Human(c)
       /\ \A m \in W : lo < m /\ m < hi
       /\ Cardinality(W) \in 0 .. n
       /\ cut \in Nat
       /\ cut # 0 => lo < cut /\ cut < hi
       /\ \A m \in Human(c) : lo < m /\ m < hi => m \in W \/ (cut # 0 /\ m < cut)
    BY <1>1, <1>2, <1>8, <1>9, WindowIs
<1> HIDE DEF W, cut
<1>11. CASE cut = 0
    <2>1. g = SubSeq(old, 1, k - 1)
        BY <1>11
    <2> HIDE DEF g, k
    <2>2. \A i \in 1 .. k - 1 : old[i] \in Gaps
        BY <1>6, <1>7
    <2>3. /\ g \in Seq(Gaps) /\ Len(g) = k - 1
          /\ \A j \in 1 .. k - 1 : g[j] = old[j]
        BY <1>6, <2>1, <2>2, SubSeqProperties
    <2>4. W \in SUBSET Nat /\ Cardinality(W) \in 0 .. Budget - spent
        BY <1>10 DEF n, Human
    <2>5. GapRead(c, lo, hi, cut, k, W, g)
        BY <1>3, <1>6, <1>8, <1>10, <1>11, <2>3, <2>4 DEF GapRead, c, old, k
    <2> QED
        BY <1>2, <1>6, <1>8, <1>10, <2>3, <2>4, <2>5
<1>12. CASE cut # 0
    <2>1. g = [old EXCEPT ![k] = <<lo, cut>>]
        BY <1>10, <1>12
    <2>2. <<lo, cut>> \in Gaps
        BY <1>8, <1>10 DEF Gaps
    <2> HIDE DEF g
    <2>3. /\ g \in Seq(Gaps) /\ Len(g) = k
          /\ \A j \in 1 .. k : g[j] = IF j = k THEN <<lo, cut>> ELSE old[j]
        BY <1>5, <1>6, <2>1, <2>2, ExceptSeq
    <2>4. g[k] = <<lo, cut>> /\ \A j \in 1 .. k - 1 : g[j] = old[j]
        <3> HIDE DEF k
        <3> QED
            BY <1>6, <2>3
    <2>5. W \in SUBSET Nat /\ Cardinality(W) \in 0 .. Budget - spent
        BY <1>10 DEF n, Human
    <2>6. Len(g) = k /\ lo < cut /\ cut < hi
        BY <1>10, <1>12, <2>3
    <2> HIDE DEF k
    <2>7. GapRead(c, lo, hi, cut, k, W, g)
        BY <1>3, <1>6, <1>8, <1>10, <1>12, <2>3, <2>4, <2>5, <2>6 DEF GapRead, c, old, k
    <2> QED
        BY <1>2, <1>6, <1>8, <1>10, <2>3, <2>5, <2>7
<1> QED
    BY <1>11, <1>12

\* The listing is a sequence of the conversations, each of them once.
LEMMA OrderIs ==
    /\ Order \in Seq(Conversations)
    /\ Len(Order) \in Nat
    /\ \A j \in 1 .. Len(Order) : Order[j] \in Conversations
    /\ \A c \in Conversations : \E j \in 1 .. Len(Order) : Order[j] = c
    /\ \A j, k \in 1 .. Len(Order) : Order[j] = Order[k] => j = k
<1>1. Order \in Seq(Conversations)
    BY OrderAssumption
<1>2. Len(Order) \in Nat
    BY <1>1, LenProperties
<1> QED
    BY <1>1, <1>2, OrderAssumption DEF Conversations

\* The i-th conversation of a round that begins with the k-th.
Ring(k, i) ==
    Order[IF k + i - 1 > Len(Order) THEN k + i - 1 - Len(Order) ELSE k + i - 1]

\* _rotate, for any conversation to resume with.
Round(resumed) ==
    IF resumed = Nowhere THEN Order
    ELSE LET k == CHOOSE j \in 1 .. Len(Order) : Order[j] = resumed
         IN  SubSeq(Order, k, Len(Order)) \o SubSeq(Order, 1, k - 1)

\* _rotate starts the round with resume_at.
LEMMA RotatedIsRound == Rotated = Round(resume) /\ Rotated' = Round(resume')
BY DEF Rotated, Round

\* _rotate: the next round begins with resumed and goes once around.
LEMMA RoundIs ==
    ASSUME NEW resumed \in Conversations \cup {Nowhere}
    PROVE  /\ Round(resumed) \in Seq(Conversations)
           /\ Len(Round(resumed)) = Len(Order)
           /\ \E k \in 1 .. Len(Order) + 1 :
                 /\ \A i \in 1 .. Len(Order) : Round(resumed)[i] = Ring(k, i)
                 /\ resumed # Nowhere => k \in 1 .. Len(Order) /\ Order[k] = resumed
<1>1. CASE resumed = Nowhere
    <2>1. Round(resumed) = Order
        BY <1>1 DEF Round
    <2>2. ASSUME NEW i \in 1 .. Len(Order) PROVE Order[i] = Ring(1, i)
        <3>1. ~(1 + i - 1 > Len(Order)) /\ 1 + i - 1 = i
            BY OrderIs
        <3> QED
            BY <3>1 DEF Ring
    <2>3. 1 \in 1 .. Len(Order) + 1
        BY OrderIs
    <2> QED
        BY <1>1, <2>1, <2>2, <2>3, OrderIs
<1>2. CASE resumed # Nowhere
    <2> DEFINE k == CHOOSE j \in 1 .. Len(Order) : Order[j] = resumed
               n == Len(Order)
               s == SubSeq(Order, k, n)
               t == SubSeq(Order, 1, k - 1)
    <2>1. k \in 1 .. n /\ Order[k] = resumed
        BY <1>2, OrderIs
    <2>2. Round(resumed) = s \o t
        BY <1>2 DEF Round
    <2> HIDE DEF k
    <2>3. n \in Nat /\ k \in Nat /\ k >= 1 /\ k <= n
        BY <2>1, OrderIs
    <2>4. \A i \in k .. n : Order[i] \in Conversations
        BY <2>3, OrderIs
    <2>5. \A i \in 1 .. k - 1 : Order[i] \in Conversations
        BY <2>3, OrderIs
    <2> HIDE DEF n
    <2>6. /\ s \in Seq(Conversations) /\ Len(s) = n - k + 1
          /\ \A i \in 1 .. n - k + 1 : s[i] = Order[k + i - 1]
        BY <2>3, <2>4, SubSeqProperties
    <2>7. /\ t \in Seq(Conversations) /\ Len(t) = k - 1
          /\ \A i \in 1 .. k - 1 : t[i] = Order[i]
        <3>1. /\ t \in Seq(Conversations)
              /\ Len(t) = IF 1 <= k - 1 THEN (k - 1) - 1 + 1 ELSE 0
              /\ \A i \in 1 .. (k - 1) - 1 + 1 : t[i] = Order[1 + i - 1]
            BY <2>3, <2>5, SubSeqProperties
        <3> HIDE DEF t
        <3>2. \A i \in 1 .. k - 1 : i \in 1 .. (k - 1) - 1 + 1 /\ 1 + i - 1 = i
            BY <2>3
        <3> QED
            BY <2>3, <3>1, <3>2
    <2> HIDE DEF s, t
    <2>8. /\ s \o t \in Seq(Conversations) /\ Len(s \o t) = n
          /\ \A i \in 1 .. n : (s \o t)[i] = IF i <= n - k + 1 THEN s[i] ELSE t[i - (n - k + 1)]
        <3>1. /\ s \o t \in Seq(Conversations)
              /\ Len(s \o t) = Len(s) + Len(t)
              /\ \A i \in 1 .. Len(s) + Len(t) :
                    (s \o t)[i] = IF i <= Len(s) THEN s[i] ELSE t[i - Len(s)]
            BY <2>6, <2>7, ConcatProperties
        <3>2. Len(s) + Len(t) = n
            BY <2>3, <2>6, <2>7
        <3> QED
            BY <2>6, <3>1, <3>2
    <2>9. ASSUME NEW i \in 1 .. n
          PROVE  Round(resumed)[i] = Ring(k, i)
        <3>1. CASE i <= n - k + 1
            <4>1. i \in 1 .. n - k + 1 /\ ~(k + i - 1 > n)
                BY <2>3, <3>1
            <4> QED
                BY <2>2, <2>6, <2>8, <3>1, <4>1 DEF Ring, n
        <3>2. CASE ~(i <= n - k + 1)
            <4>1. i - (n - k + 1) \in 1 .. k - 1 /\ k + i - 1 > n
                  /\ i - (n - k + 1) = k + i - 1 - n
                BY <2>3, <3>2
            <4> QED
                BY <2>2, <2>7, <2>8, <3>2, <4>1 DEF Ring, n
        <3> QED
            BY <3>1, <3>2
    <2>10. k \in 1 .. n + 1
        BY <2>3
    <2> QED
        BY <2>1, <2>2, <2>8, <2>9, <2>10 DEF n
<1> QED
    BY <1>1, <1>2

\* A round meets no conversation twice.
LEMMA RingIs ==
    ASSUME NEW k \in 1 .. Len(Order) + 1
    PROVE  /\ \A i \in 1 .. Len(Order) : Ring(k, i) \in Conversations
           /\ \A i, j \in 1 .. Len(Order) : Ring(k, i) = Ring(k, j) => i = j
<1> DEFINE n == Len(Order)
           at(i) == IF k + i - 1 > n THEN k + i - 1 - n ELSE k + i - 1
<1>1. n \in Nat
    BY OrderIs
<1>2. \A i \in 1 .. n : at(i) \in 1 .. n
    BY <1>1
<1>3. \A i, j \in 1 .. n : at(i) = at(j) => i = j
    BY <1>1
<1>4. \A i : Ring(k, i) = Order[at(i)]
    BY DEF Ring
<1> HIDE DEF at
<1>5. \A i \in 1 .. n : Ring(k, i) \in Conversations
    <2> SUFFICES ASSUME NEW i \in 1 .. n
                 PROVE  Ring(k, i) \in Conversations
        OBVIOUS
    <2>1. at(i) \in 1 .. Len(Order)
        BY <1>2
    <2>2. Order[at(i)] \in Conversations
        BY <2>1, OrderIs
    <2> QED
        BY <1>4, <2>2
<1>6. ASSUME NEW i \in 1 .. n, NEW j \in 1 .. n, Ring(k, i) = Ring(k, j)
      PROVE  i = j
    <2>1. Order[at(i)] = Order[at(j)] /\ at(i) \in 1 .. n /\ at(j) \in 1 .. n
        BY <1>2, <1>4, <1>6
    <2>2. at(i) = at(j)
        BY <2>1, OrderIs
    <2> QED
        BY <1>3, <2>2
<1> QED
    BY <1>5, <1>6

\* The rounds that begin with the same conversation are the same.
LEMMA RingFrom ==
    ASSUME NEW k \in 1 .. Len(Order) + 1, NEW j \in 1 .. Len(Order),
           Order[j] = Ring(k, 1)
    PROVE  \A i \in 1 .. Len(Order) : Ring(j, i) = Ring(k, i)
<1> DEFINE n == Len(Order)
<1>1. n \in Nat /\ n >= 1
    BY OrderIs
<1>2. CASE k <= n
    <2>1. Ring(k, 1) = Order[k] /\ k \in 1 .. n
        BY <1>1, <1>2 DEF Ring
    <2>2. j = k
        BY <2>1, OrderIs
    <2> QED
        BY <2>2
<1>3. CASE k = n + 1
    <2>1. Ring(k, 1) = Order[1] /\ 1 \in 1 .. n
        BY <1>1, <1>3 DEF Ring
    <2>2. j = 1
        BY <2>1, OrderIs
    <2>3. \A i \in 1 .. n : Ring(1, i) = Order[i] /\ Ring(n + 1, i) = Order[i]
        BY <1>1 DEF Ring
    <2> QED
        BY <1>3, <2>2, <2>3
<1> QED
    BY <1>1, <1>2, <1>3

\* A round meets every conversation.
LEMMA RingMeets ==
    ASSUME NEW k \in 1 .. Len(Order) + 1, NEW j \in 1 .. Len(Order)
    PROVE  \E i \in 1 .. Len(Order) : Ring(k, i) = Order[j]
<1> DEFINE n == Len(Order)
<1>1. n \in Nat
    BY OrderIs
<1>2. CASE j >= k
    <2>1. j - k + 1 \in 1 .. n /\ k + (j - k + 1) - 1 = j /\ ~(j > n)
        BY <1>1, <1>2
    <2>2. Ring(k, j - k + 1) = Order[j]
        BY <2>1 DEF Ring
    <2> QED
        BY <2>1, <2>2
<1>3. CASE j < k
    <2>1. n - k + 1 + j \in 1 .. n /\ k + (n - k + 1 + j) - 1 = n + j
          /\ n + j > n /\ n + j - n = j
        BY <1>1, <1>3
    <2>2. Ring(k, n - k + 1 + j) = Order[j]
        BY <2>1 DEF Ring
    <2> QED
        BY <2>1, <2>2
<1> QED
    BY <1>1, <1>2, <1>3

\* What is left of a round when its first conversation was visited.
LEMMA RingStep ==
    ASSUME NEW k \in 1 .. Len(Order) + 1, Len(Order) >= 1
    PROVE  \E j \in 1 .. Len(Order) + 1 :
              \A i \in 1 .. Len(Order) - 1 : Ring(j, i) = Ring(k, i + 1)
<1> DEFINE n == Len(Order)
<1>1. n \in Nat /\ n >= 1
    BY OrderIs
<1>2. CASE k <= n
    <2>1. k + 1 \in 1 .. n + 1
        BY <1>1, <1>2
    <2>2. \A i \in 1 .. n - 1 : (k + 1) + i - 1 = k + (i + 1) - 1
        BY <1>1
    <2>3. \A i \in 1 .. n - 1 : Ring(k + 1, i) = Ring(k, i + 1)
        BY <2>2 DEF Ring
    <2> QED
        BY <2>1, <2>3
<1>3. CASE k = n + 1
    <2>1. 2 \in 1 .. n + 1
        BY <1>1
    <2>2. \A i \in 1 .. n - 1 : Ring(2, i) = Order[i + 1] /\ Ring(n + 1, i + 1) = Order[i + 1]
        BY <1>1 DEF Ring
    <2> QED
        BY <1>3, <2>1, <2>2
<1> QED
    BY <1>1, <1>2, <1>3

----------------------------------------------------------------------------
(* The inductive invariant                                                 *)

\* A message lies in one of a list of gaps.
Within(g, m) == \E k \in 1 .. Len(g) : g[k][1] < m /\ m < g[k][2]

\* The cursor <<marks, windows>> has not moved past message m of c.
Owes(c, m, marks, windows) == m > Oldest(c, marks) \/ Within(windows[c], m)

\* Two cursors owe the same messages, up to what has been scanned.
Agree(marks1, windows1, marks2, windows2) ==
    \A c \in Conversations : \A m \in Human(c) :
        \/ <<c, m>> \in scanned
        \/ Owes(c, m, marks1, windows1) <=> Owes(c, m, marks2, windows2)

\* No watermark of a cursor lies ahead of the history.
Reached(marks) ==
    \A c \in Conversations : marks[c] # NoMark => marks[c] <= Len(posted[c])

\* The gaps of a cursor are ascending, disjoint and behind its watermarks.
InOrder(marks, windows) ==
    \A c \in Conversations :
        /\ \A k \in 1 .. Len(windows[c]) :
              /\ windows[c][k][1] < windows[c][k][2]
              /\ marks[c] # NoMark /\ windows[c][k][2] <= marks[c]
        /\ \A k \in 1 .. Len(windows[c]) - 1 : windows[c][k][2] <= windows[c][k + 1][1]

Running == pc # "idle"

\* What is scanned was posted, and no cursor is ahead of the history.
WithinHistory ==
    /\ \A c \in Conversations : horizon[c] <= Len(posted[c])
    /\ scanned \subseteq Messages(LAMBDA c, m : TRUE)
    /\ Reached(mark)
    /\ Running => Reached(newMark)
    /\ \A a \in asking : Reached(a.mark)

\* The Discovery scan has no bot's token for the events endpoint to ask with.
DiscoveryAlone == Discovery => asking = {} /\ ~known /\ ~newKnown

\* While the workspace is unknown, nothing but the running sync's save has
\* replaced the cursor it copied, and its watermarks only advance.
MarksKept ==
    Running /\ ~known =>
        \A c \in Conversations :
            mark[c] # NoMark => newMark[c] # NoMark /\ newMark[c] >= mark[c]

\* The cursor a worker has read has no mark that the later ones miss.
AskedIsOld ==
    \A a \in asking, c \in Conversations :
        a.mark[c] # NoMark => mark[c] # NoMark /\ (Running => newMark[c] # NoMark)

\* Through the bot's token every copy of the cursor is in order.
CopiesInOrder ==
    ~Discovery =>
        /\ InOrder(mark, gaps)
        /\ Running => InOrder(newMark, newGaps)
        /\ \A a \in asking : InOrder(a.mark, a.gaps)

\* Every copy of the cursor owes what the saved one owes, up to what has been
\* scanned, and the copy of a Discovery scan nothing more.
DebtsAgree ==
    /\ Running => Agree(mark, gaps, newMark, newGaps)
    /\ \A a \in asking : Agree(mark, gaps, a.mark, a.gaps)
    /\ Running /\ Discovery =>
          \A c \in Conversations : \A m \in Human(c) :
              Owes(c, m, newMark, newGaps) => Owes(c, m, mark, gaps)

\* What a sync has left of its round, and how long that may still take.
LeftOfRound(left, since) ==
    /\ Len(left) <= Len(Order)
    /\ \E k \in 1 .. Len(Order) + 1 :
          \A i \in 1 .. Len(left) : left[i] = Ring(k, i)
    /\ \A i \in 1 .. Len(left) :
          since[left[i]] + i < IF Len(left) = Len(Order) THEN Len(Order) + 1
                               ELSE Len(Order)

\* The longer a conversation has waited, the nearer it stands to the head of
\* the next round, and of what is left of the running one.
TurnsKept ==
    /\ \A i \in 1 .. Len(Order) : waited[Rotated[i]] + i - 1 < Len(Order)
    /\ ~Running => spent = 0
    /\ Running =>
          /\ pc = "backfill" => todo # <<>>
          /\ pc = "next" /\ Len(todo) = Len(Order) => spent = 0
          /\ LeftOfRound(todo, waited)

IInv ==
    /\ TypeOK
    /\ WithinHistory
    /\ DiscoveryAlone
    /\ MarksKept
    /\ AskedIsOld
    /\ CopiesInOrder
    /\ DebtsAgree
    /\ TurnsKept

\* The ways a visit to a conversation ends all go on to the next one.
LEMMA FinishedVisit ==
    ASSUME TypeOK, TurnsKept, ConversationDone \/ GapFails \/ SkipConversation
    PROVE  NextConversation /\ Running /\ todo # <<>> /\ fails' \in Nat
<1>1. fails \in Nat /\ fails + 1 \in Nat
    BY DEF TypeOK
<1>2. CASE ConversationDone
    BY <1>1, <1>2 DEF TurnsKept, Running, ConversationDone
<1>3. CASE GapFails
    BY <1>1, <1>3 DEF TurnsKept, Running, GapFails
<1>4. CASE SkipConversation
    BY <1>1, <1>4 DEF Running, SkipConversation, AtConversation
<1> QED
    BY <1>2, <1>3, <1>4

\* Every action keeps the types.
LEMMA StepTypeOK ==
    ASSUME TypeOK, TurnsKept, [Next]_vars
    PROVE  TypeOK'
<1>1. CASE StartSync
    <2>1. Rotated \in Seq(Conversations)
        BY RotatedIsRound, RoundIs DEF TypeOK
    <2> QED
        BY <1>1, <2>1 DEF TypeOK, StartSync, cursorVars, teamVars
<1>2. CASE ReadNew
    <2>1. PICK c \in Conversations, lo \in Nat, cut \in Nat, top \in Marks, W \in SUBSET Nat :
              NewRead(c, lo, cut, top, W)
        BY <1>2, ReadNewIs
    <2>3. scanned' \subseteq Conversations \X Nat
        <3>1. scanned' = scanned \cup {<<c, m>> : m \in W}
            BY <2>1 DEF NewRead
        <3> QED
            BY <3>1 DEF TypeOK
    <2>4. spent' \in 0 .. Budget
        BY <2>1, BoundsAssumption DEF TypeOK, NewRead
    <2>5. newMark' \in [Conversations -> Marks]
        BY <2>1 DEF TypeOK, NewRead
    <2>6. newGaps' \in [Conversations -> Seq(Gaps)]
        <3>1. <<lo, cut>> \in Gaps
            BY DEF Gaps
        <3>2. Append(newGaps[c], <<lo, cut>>) \in Seq(Gaps)
            BY <3>1, AppendProperties DEF TypeOK
        <3> QED
            BY <2>1, <3>2 DEF TypeOK, NewRead
    <2> QED
        BY <1>2, <2>3, <2>4, <2>5, <2>6 DEF TypeOK, ReadNew, cursorVars, teamVars
<1>3. CASE ReadGap
    <2>1. todo # <<>>
        BY <1>3 DEF TurnsKept, ReadGap, Running
    <2>3. PICK c \in Conversations, lo \in Nat, hi \in Nat, cut \in Nat, k \in Nat,
               W \in SUBSET Nat, g \in Seq(Gaps) : GapRead(c, lo, hi, cut, k, W, g)
        BY <1>3, <2>1, ReadGapIs
    <2>4. scanned' \subseteq Conversations \X Nat
        <3>1. scanned' = scanned \cup {<<c, m>> : m \in W}
            BY <2>3 DEF GapRead
        <3> QED
            BY <3>1 DEF TypeOK
    <2>5. spent' \in 0 .. Budget
        <3>1. Budget \in Nat /\ spent \in 0 .. Budget
            BY BoundsAssumption DEF TypeOK
        <3> QED
            BY <2>3, <3>1 DEF GapRead
    <2>6. newGaps' \in [Conversations -> Seq(Gaps)]
        BY <2>3 DEF TypeOK, GapRead
    <2> QED
        BY <1>3, <2>4, <2>5, <2>6 DEF TypeOK, ReadGap, cursorVars, teamVars
<1>4. CASE ConversationDone \/ GapFails \/ SkipConversation
    <2>1. NextConversation /\ todo # <<>> /\ fails' \in Nat
        BY <1>4, FinishedVisit
    <2>2. Tail(todo) \in Seq(Conversations)
        BY <2>1, HeadTailProperties DEF TypeOK
    <2> QED
        BY <2>1, <2>2 DEF TypeOK, NextConversation, cursorVars, teamVars
<1>5. CASE Save
    <2>1. resume' \in Conversations \cup {Nowhere}
        BY <1>5, HeadTailProperties DEF TypeOK, Save
    <2>2. waited' \in [Conversations -> Nat]
        <3> DEFINE Left(c) == \E k \in 1 .. Len(todo) : todo[k] = c
        <3>1. waited' = [c \in Conversations |-> IF Left(c) THEN waited[c] + 1 ELSE 0]
            BY <1>5 DEF Save
        <3> HIDE DEF Left
        <3> QED
            BY <3>1 DEF TypeOK
    <2>3. <<>> \in Seq(Conversations) /\ <<>> \in Seq(Gaps)
        BY EmptySeq
    <2>4. 0 \in 0 .. Budget
        BY BoundsAssumption
    <2> QED
        BY <1>5, <2>1, <2>2, <2>3, <2>4 DEF TypeOK, Save, SyncOver, Marks
<1>6. CASE SyncLost
    <2>1. <<>> \in Seq(Conversations) /\ <<>> \in Seq(Gaps)
        BY EmptySeq
    <2>2. 0 \in 0 .. Budget
        BY BoundsAssumption
    <2>3. /\ newMark' \in [Conversations -> Marks]
          /\ newGaps' \in [Conversations -> Seq(Gaps)]
          /\ pc' \in {"idle", "next", "backfill"} /\ todo' \in Seq(Conversations)
          /\ spent' \in 0 .. Budget /\ newKnown' = FALSE
        BY <1>6, <2>1, <2>2 DEF SyncLost, SyncOver, Marks
    <2>5. fails' \in Nat
        BY <1>6 DEF TypeOK, SyncLost
    <2>4. UNCHANGED <<posted, horizon, scanned, mark, gaps, resume, known, asking, waited>>
        BY <1>6 DEF SyncLost, SyncOver, cursorVars
    <2> QED
        BY <2>3, <2>4, <2>5 DEF TypeOK
<1>7. CASE AskWorkspace
    <2> DEFINE a == [mark |-> mark, gaps |-> gaps, resume |-> resume]
    <2>1. a \in Cursors
        BY DEF TypeOK, Cursors
    <2>2. asking' = {a}
        BY <1>7 DEF AskWorkspace
    <2> HIDE DEF a
    <2>3. Cardinality(asking') = 1
        BY <2>2, FS_Singleton
    <2> QED
        BY <1>7, <2>1, <2>2, <2>3 DEF TypeOK, AskWorkspace, cursorVars, syncVars
<1>8. CASE WorkspaceUnknown
    <2>1. Cardinality({}) = 0
        BY FS_EmptySet
    <2>2. asking' = {} /\ asking' \subseteq Cursors /\ Cardinality(asking') <= 1
        BY <1>8, <2>1 DEF WorkspaceUnknown
    <2>3. UNCHANGED <<posted, horizon, scanned, cursorVars, syncVars, known, waited, fails>>
        BY <1>8 DEF WorkspaceUnknown
    <2> QED
        BY <2>2, <2>3 DEF TypeOK, cursorVars, syncVars
<1>9. CASE LearnWorkspace
    <2>1. Cardinality({}) = 0
        BY FS_EmptySet
    <2>2. PICK old \in asking :
              /\ mark' = old.mark /\ gaps' = old.gaps /\ resume' = old.resume
              /\ waited' = waited \/ waited' = [c \in Conversations |-> 0]
        BY <1>9 DEF LearnWorkspace
    <2>3. /\ mark' \in [Conversations -> Marks] /\ gaps' \in [Conversations -> Seq(Gaps)]
          /\ resume' \in Conversations \cup {Nowhere}
        BY <2>2 DEF TypeOK, Cursors
    <2>4. waited' \in [Conversations -> Nat]
        <3>1. waited \in [Conversations -> Nat]
            BY DEF TypeOK
        <3>2. [c \in Conversations |-> 0] \in [Conversations -> Nat]
            OBVIOUS
        <3> QED
            BY <2>2, <3>1, <3>2
    <2>5. known' = TRUE /\ asking' = {}
          /\ UNCHANGED <<posted, horizon, scanned, syncVars, fails>>
        BY <1>9 DEF LearnWorkspace
    <2>6. Cardinality(asking') <= 1 /\ asking' \subseteq Cursors /\ {known'} \subseteq BOOLEAN
        BY <2>1, <2>5
    <2> QED
        BY <2>3, <2>4, <2>5, <2>6 DEF TypeOK, syncVars
<1>10. ASSUME NEW c \in Conversations, NEW kind \in Kinds, Post(c, kind)
       PROVE  TypeOK'
    <2>1. Append(posted[c], kind) \in Seq(Kinds)
        BY AppendProperties DEF TypeOK
    <2>2. posted' \in [Conversations -> Seq(Kinds)]
        BY <1>10, <2>1 DEF TypeOK, Post
    <2>3. UNCHANGED <<horizon, scanned, cursorVars, syncVars, teamVars, waited, fails>>
        BY <1>10 DEF Post
    <2> QED
        BY <2>2, <2>3 DEF TypeOK, cursorVars, syncVars, teamVars
<1>11. ASSUME NEW c \in Conversations, AgeOut(c)
       PROVE  TypeOK'
    <2>1. horizon' \in [Conversations -> Nat]
        BY <1>11 DEF TypeOK, AgeOut
    <2>2. UNCHANGED <<posted, scanned, cursorVars, syncVars, teamVars, waited, fails>>
        BY <1>11 DEF AgeOut
    <2> QED
        BY <2>1, <2>2 DEF TypeOK, cursorVars, syncVars, teamVars
<1>12. CASE UNCHANGED vars
    BY <1>12 DEF TypeOK, vars, cursorVars, syncVars, teamVars
<1> QED
    BY <1>1, <1>2, <1>3, <1>4, <1>5, <1>6, <1>7, <1>8, <1>9, <1>10, <1>11, <1>12
       DEF Next, Sync

\* Every conversation keeps its place in the rounds to come.
LEMMA StepTurns ==
    ASSUME TypeOK, TurnsKept, DiscoveryAlone, [Next]_vars, TypeOK'
    PROVE  TurnsKept'
<1> DEFINE n == Len(Order)
<1>0. n \in Nat /\ Budget \in Nat /\ Budget > 0 /\ spent \in Nat
    BY OrderIs, BoundsAssumption DEF TypeOK
<1>1. CASE StartSync
    <2>1. todo' = Rotated /\ pc' = "next" /\ spent' = 0 /\ waited' = waited /\ Rotated' = Rotated
        BY <1>1 DEF StartSync, cursorVars, TurnsKept, Running, Rotated
    <2>2. PICK k \in 1 .. n + 1 : \A i \in 1 .. n : Rotated[i] = Ring(k, i)
        BY RotatedIsRound, RoundIs DEF TypeOK
    <2>3. Len(Rotated) = n
        BY RotatedIsRound, RoundIs DEF TypeOK
    <2>4. \A i \in 1 .. n : Rotated[i] \in Conversations
        BY <2>2, RingIs
    <2>5. \A i \in 1 .. n : waited[Rotated[i]] + i < n + 1
        <3> SUFFICES ASSUME NEW i \in 1 .. n
                     PROVE  waited[Rotated[i]] + i < n + 1
            OBVIOUS
        <3>1. waited[Rotated[i]] \in Nat /\ waited[Rotated[i]] + i - 1 < n
            BY <2>4 DEF TypeOK, TurnsKept
        <3> QED
            BY <1>0, <3>1
    <2>6. LeftOfRound(Rotated, waited)
        BY <1>0, <2>2, <2>3, <2>5 DEF LeftOfRound
    <2> QED
        BY <2>1, <2>6 DEF TurnsKept, Running
<1>2. CASE ReadNew \/ ReadGap
    <2>1. pc' = "backfill" /\ Running /\ UNCHANGED <<todo, waited, resume>>
        BY <1>2 DEF ReadNew, ReadGap, AtConversation, Running, cursorVars
    <2>2. todo # <<>>
        BY <1>2 DEF ReadNew, ReadGap, AtConversation, TurnsKept, Running
    <2> QED
        BY <2>1, <2>2 DEF TurnsKept, Running, Rotated
<1>3. CASE ConversationDone \/ GapFails \/ SkipConversation
    <2>1. NextConversation /\ Running /\ todo # <<>>
        BY <1>3, FinishedVisit
    <2>2. pc' = "next" /\ todo' = Tail(todo) /\ UNCHANGED <<waited, resume, spent>>
        BY <2>1 DEF NextConversation, cursorVars
    <2> DEFINE len == Len(todo)
    <2>3. /\ len \in Nat /\ len >= 1 /\ len <= n /\ Len(todo') = len - 1
          /\ \A i \in 1 .. len - 1 : todo'[i] = todo[i + 1]
          /\ \A i \in 1 .. len : todo[i] \in Conversations
        <3>1. len \in Nat /\ len >= 1
            BY <2>1, EmptySeq DEF TypeOK
        <3>2. Len(todo') = len - 1 /\ \A i \in 1 .. Len(todo') : todo'[i] = todo[i + 1]
            BY <2>1, <2>2, HeadTailProperties DEF TypeOK
        <3>3. \A i \in 1 .. len : todo[i] \in Conversations
            BY ElementOfSeq DEF TypeOK
        <3>4. len <= n
            BY <2>1 DEF TurnsKept, LeftOfRound
        <3> QED
            BY <3>1, <3>2, <3>3, <3>4
    <2>4. PICK k \in 1 .. n + 1 : \A i \in 1 .. len : todo[i] = Ring(k, i)
        BY <2>1 DEF TurnsKept, LeftOfRound
    <2>5. PICK j \in 1 .. n + 1 : \A i \in 1 .. n - 1 : Ring(j, i) = Ring(k, i + 1)
        BY <1>0, <2>3, RingStep
    <2>6. \A i \in 1 .. len - 1 : todo'[i] = Ring(j, i)
        <3> SUFFICES ASSUME NEW i \in 1 .. len - 1
                     PROVE  todo'[i] = Ring(j, i)
            OBVIOUS
        <3>1. i + 1 \in 1 .. len /\ i \in 1 .. n - 1
            BY <1>0, <2>3
        <3> QED
            BY <2>3, <2>4, <2>5, <3>1
    <2>7. \A i \in 1 .. len - 1 : waited[todo'[i]] + i < n
        <3> SUFFICES ASSUME NEW i \in 1 .. len - 1
                     PROVE  waited[todo'[i]] + i < n
            OBVIOUS
        <3>1. i + 1 \in 1 .. len
            BY <1>0, <2>3
        <3>2. waited[todo[i + 1]] + (i + 1) < IF len = n THEN n + 1 ELSE n
            BY <2>1, <3>1 DEF TurnsKept, LeftOfRound
        <3>3. waited[todo[i + 1]] \in Nat
            BY <2>3, <3>1 DEF TypeOK
        <3> QED
            BY <1>0, <2>3, <3>2, <3>3
    <2>8. Len(todo') # n /\ Len(todo') <= n
        BY <1>0, <2>3
    <2>9. LeftOfRound(todo', waited)
        BY <2>3, <2>6, <2>7, <2>8 DEF LeftOfRound
    <2> QED
        BY <2>1, <2>2, <2>8, <2>9 DEF TurnsKept, Running, Rotated
<1>4. CASE Save
    <2>1. /\ resume' = IF todo = <<>> THEN Nowhere ELSE Head(todo)
          /\ pc' = "idle" /\ spent' = 0 /\ Running
          /\ waited' = [c \in Conversations |->
                           IF \E k \in 1 .. Len(todo) : todo[k] = c
                           THEN waited[c] + 1 ELSE 0]
        BY <1>4 DEF Save, SyncOver, Running
    <2>2. Round(resume') \in Seq(Conversations) /\ Len(Round(resume')) = n
        BY RoundIs DEF TypeOK
    <2>3. \A i \in 1 .. n : waited'[Round(resume')[i]] + i - 1 < n
        <3> SUFFICES ASSUME NEW i \in 1 .. n
                     PROVE  waited'[Round(resume')[i]] + i - 1 < n
            OBVIOUS
        <3> DEFINE c == Round(resume')[i]
        <3>1. c \in Conversations
            BY <2>2, ElementOfSeq
        <3>2. CASE ~ \E k \in 1 .. Len(todo) : todo[k] = c
            <4>1. waited'[c] = 0
                BY <2>1, <3>1, <3>2
            <4> QED
                BY <1>0, <4>1
        <3>3. CASE \E k \in 1 .. Len(todo) : todo[k] = c
            <4>1. PICK a \in 1 .. Len(todo) : todo[a] = c
                BY <3>3
            <4>2. todo # <<>> /\ resume' = todo[1] /\ Len(todo) \in Nat /\ 1 \in 1 .. Len(todo)
                <5>1. Len(todo) \in Nat
                    BY LenProperties DEF TypeOK
                <5>2. Len(todo) # 0
                    BY <4>1, <5>1
                <5>3. todo # <<>>
                    BY <5>2, EmptySeq
                <5> QED
                    BY <2>1, <5>1, <5>2, <5>3
            <4>3. spent >= Budget /\ pc = "next"
                BY <1>4, <4>2 DEF Save
            <4>4. Len(todo) # n /\ Len(todo) <= n
                BY <1>0, <2>1, <4>3 DEF TurnsKept, LeftOfRound
            <4>5. PICK k \in 1 .. n + 1 : \A x \in 1 .. Len(todo) : todo[x] = Ring(k, x)
                BY <2>1 DEF TurnsKept, LeftOfRound
            <4>6. resume' = Ring(k, 1) /\ resume' \in Conversations
                BY <4>2, <4>5, ElementOfSeq DEF TypeOK
            <4>7. resume' # Nowhere
                BY <4>6, BoundsAssumption
            <4>8. PICK j \in 1 .. n : Order[j] = resume'
                                      /\ \A x \in 1 .. n : Round(resume')[x] = Ring(j, x)
                BY <4>6, <4>7, RoundIs
            <4>9. \A x \in 1 .. n : Round(resume')[x] = Ring(k, x)
                BY <4>6, <4>8, RingFrom
            <4>10. a \in 1 .. n /\ Ring(k, a) = Ring(k, i)
                BY <1>0, <4>1, <4>2, <4>4, <4>5, <4>9
            <4>11. a = i
                BY <4>10, RingIs
            <4>12. waited[c] + i < n
                BY <2>1, <4>1, <4>4, <4>11 DEF TurnsKept, LeftOfRound
            <4>13. waited'[c] = waited[c] + 1 /\ waited[c] \in Nat
                BY <2>1, <3>1, <3>3 DEF TypeOK
            <4> HIDE DEF c
            <4>14. waited'[c] + i - 1 < n
                BY <1>0, <4>12, <4>13
            <4> QED
                BY <4>14 DEF c
        <3> QED
            BY <3>2, <3>3
    <2> QED
        BY <2>1, <2>3, RotatedIsRound DEF TurnsKept, Running
<1>5. CASE SyncLost
    <2>1. pc' = "idle" /\ spent' = 0 /\ UNCHANGED <<resume, waited>>
        BY <1>5 DEF SyncLost, SyncOver, cursorVars
    <2> QED
        BY <2>1 DEF TurnsKept, Running, Rotated
<1>6. CASE LearnWorkspace
    <2>1. UNCHANGED <<pc, todo, spent>>
        BY <1>6 DEF LearnWorkspace, syncVars
    <2>2. CASE waited' = waited /\ resume' = resume
        BY <2>1, <2>2 DEF TurnsKept, Running, Rotated
    <2>3. CASE waited' = [c \in Conversations |-> 0]
        <3>1. \A i \in 1 .. n : Rotated'[i] \in Conversations
            BY RotatedIsRound, RoundIs, ElementOfSeq DEF TypeOK
        <3>2. \A i \in 1 .. n : waited'[Rotated'[i]] = 0
            BY <2>3, <3>1
        <3>3. \A i \in 1 .. n : waited'[Rotated'[i]] + i - 1 < n
            BY <1>0, <3>2
        <3>4. ASSUME Running
              PROVE  LeftOfRound(todo, waited')
            <4>1. LeftOfRound(todo, waited) /\ Len(todo) \in Nat
                BY <3>4, LenProperties DEF TurnsKept, TypeOK
            <4>2. \A i \in 1 .. Len(todo) : todo[i] \in Conversations
                BY ElementOfSeq DEF TypeOK
            <4>3. ASSUME NEW i \in 1 .. Len(todo)
                  PROVE  waited'[todo[i]] + i < IF Len(todo) = n THEN n + 1 ELSE n
                <5>1. waited'[todo[i]] = 0 /\ waited[todo[i]] \in Nat
                    BY <2>3, <4>2 DEF TypeOK
                <5>2. waited[todo[i]] + i < IF Len(todo) = n THEN n + 1 ELSE n
                    BY <4>1 DEF LeftOfRound
                <5> QED
                    BY <1>0, <4>1, <5>1, <5>2
            <4> QED
                BY <4>1, <4>3 DEF LeftOfRound
        <3> QED
            BY <2>1, <3>3, <3>4 DEF TurnsKept, Running
    <2>4. \/ waited' = waited /\ resume' = resume
          \/ waited' = [c \in Conversations |-> 0]
        BY <1>6 DEF LearnWorkspace
    <2> QED
        BY <2>2, <2>3, <2>4
<1>7. CASE UNCHANGED <<resume, waited, pc, todo, spent>>
    BY <1>7 DEF TurnsKept, Running, Rotated
<1>8. AskWorkspace \/ WorkspaceUnknown \/ (\E c \in Conversations, kind \in Kinds : Post(c, kind))
          \/ (\E c \in Conversations : AgeOut(c)) \/ UNCHANGED vars
      => UNCHANGED <<resume, waited, pc, todo, spent>>
    BY DEF AskWorkspace, WorkspaceUnknown, Post, AgeOut, vars, cursorVars, syncVars
<1> QED
    BY <1>1, <1>2, <1>3, <1>4, <1>5, <1>6, <1>7, <1>8 DEF Next, Sync

\* A message that was posted stays posted.
LEMMA MessagesGrow ==
    ASSUME \A c \in Conversations : Human(c) \subseteq Human(c)'
    PROVE  Messages(LAMBDA c, m : TRUE) \subseteq Messages(LAMBDA c, m : TRUE)'
BY DEF Messages

\* A post appends one message to one history, and a human one to Human.
LEMMA PostGrows ==
    ASSUME TypeOK, NEW c \in Conversations, NEW kind \in Kinds, Post(c, kind)
    PROVE  /\ Len(posted'[c]) = Len(posted[c]) + 1
           /\ \A d \in Conversations : d # c => posted'[d] = posted[d]
           /\ \A d \in Conversations : /\ Len(posted[d]) \in Nat /\ Len(posted'[d]) \in Nat
                                        /\ Len(posted[d]) <= Len(posted'[d])
           /\ \A d \in Conversations : Human(d) \subseteq Human(d)'
           /\ \A d \in Conversations : \A m \in Human(d)' :
                 m \in Human(d) \/ (d = c /\ kind = "human" /\ m = Len(posted[c]) + 1)
           /\ kind = "human" => Len(posted[c]) + 1 \in Human(c)'
<1> DEFINE len == Len(posted[c])
<1>1. \A d \in Conversations : posted[d] \in Seq(Kinds) /\ Len(posted[d]) \in Nat
    BY LenProperties DEF TypeOK
<1>2. posted'[c] = Append(posted[c], kind) /\ \A d \in Conversations : d # c => posted'[d] = posted[d]
    BY DEF Post, TypeOK
<1>3. /\ Len(posted'[c]) = len + 1 /\ posted'[c][len + 1] = kind
      /\ \A m \in 1 .. len : posted'[c][m] = posted[c][m]
    BY <1>1, <1>2, AppendProperties
<1>4. \A d \in Conversations : /\ Len(posted[d]) \in Nat /\ Len(posted'[d]) \in Nat
                               /\ Len(posted[d]) <= Len(posted'[d])
    <2> SUFFICES ASSUME NEW d \in Conversations
                 PROVE  /\ Len(posted[d]) \in Nat /\ Len(posted'[d]) \in Nat
                        /\ Len(posted[d]) <= Len(posted'[d])
        OBVIOUS
    <2>1. /\ Len(posted[d]) \in Nat
          /\ \/ Len(posted'[d]) = Len(posted[d])
             \/ Len(posted'[d]) = Len(posted[d]) + 1
        BY <1>1, <1>2, <1>3
    <2> QED
        BY <2>1
<1>5. ASSUME NEW d \in Conversations
      PROVE  Human(d) \subseteq Human(d)'
    <2>1. CASE d = c
        BY <1>1, <1>3, <2>1 DEF Human
    <2>2. CASE d # c
        BY <1>2, <2>2 DEF Human
    <2> QED
        BY <2>1, <2>2
<1>6. ASSUME NEW d \in Conversations, NEW m \in Human(d)'
      PROVE  m \in Human(d) \/ (d = c /\ kind = "human" /\ m = len + 1)
    <2>1. CASE d = c
        <3>1. m \in 1 .. len + 1 /\ posted'[c][m] = "human"
            BY <1>3, <2>1 DEF Human
        <3>2. CASE m = len + 1
            BY <1>3, <2>1, <3>1, <3>2
        <3>3. CASE m # len + 1
            <4>1. m \in 1 .. len
                BY <1>1, <3>1, <3>3
            <4> QED
                BY <1>3, <2>1, <3>1, <4>1 DEF Human
        <3> QED
            BY <3>2, <3>3
    <2>2. CASE d # c
        BY <1>2, <2>2 DEF Human
    <2> QED
        BY <2>1, <2>2
<1>7. kind = "human" => len + 1 \in Human(c)'
    <2>1. len + 1 \in 1 .. Len(posted'[c])
        BY <1>1, <1>3
    <2> QED
        BY <1>3, <2>1 DEF Human
<1> QED
    BY <1>2, <1>3, <1>4, <1>5, <1>6, <1>7

\* No cursor gets ahead of the history, and what is scanned was posted.
LEMMA StepHistory ==
    ASSUME TypeOK, TurnsKept, WithinHistory, [Next]_vars
    PROVE  WithinHistory'
<1> USE DEF Running
<1>1. CASE StartSync
    BY <1>1 DEF WithinHistory, Reached, Messages, Human, StartSync, cursorVars, teamVars
<1>2. CASE ReadNew
    <2>1. PICK c \in Conversations, lo \in Nat, cut \in Nat, top \in Marks, W \in SUBSET Nat :
              NewRead(c, lo, cut, top, W)
        BY <1>2, ReadNewIs
    <2>2. /\ W \subseteq Human(c)
          /\ scanned' = scanned \cup {<<c, m>> : m \in W}
          /\ newMark' = [newMark EXCEPT ![c] = top]
          /\ W = {} => top = newMark[c]
          /\ W # {} => top \in W
        BY <2>1 DEF NewRead
    <2>3. UNCHANGED <<posted, horizon, mark, asking>> /\ pc # "idle"
        BY <1>2 DEF ReadNew, AtConversation, cursorVars, teamVars
    <2>4. scanned' \subseteq Messages(LAMBDA x, m : TRUE)
        BY <2>2 DEF WithinHistory, Messages
    <2>5. top # NoMark => top <= Len(posted[c])
        <3>1. CASE W = {}
            BY <2>2, <2>3, <3>1 DEF WithinHistory, Reached
        <3>2. CASE W # {}
            <4>1. top \in 1 .. Len(posted[c])
                BY <2>2, <3>2 DEF Human
            <4>2. Len(posted[c]) \in Nat
                BY LenProperties DEF TypeOK
            <4> QED
                BY <4>1, <4>2
        <3> QED
            BY <3>1, <3>2
    <2>6. newMark'[c] = top /\ \A d \in Conversations : d # c => newMark'[d] = newMark[d]
        BY <2>2 DEF TypeOK
    <2>7. Reached(newMark)'
        BY <2>3, <2>5, <2>6 DEF WithinHistory, Reached
    <2>8. Messages(LAMBDA x, m : TRUE)' = Messages(LAMBDA x, m : TRUE)
        BY <2>3 DEF Messages, Human
    <2> QED
        BY <2>3, <2>4, <2>7, <2>8 DEF WithinHistory, Reached
<1>3. CASE ReadGap
    <2>0. todo # <<>>
        BY <1>3 DEF TurnsKept, ReadGap
    <2>1. PICK c \in Conversations, lo \in Nat, hi \in Nat, cut \in Nat, k \in Nat,
               W \in SUBSET Nat, g \in Seq(Gaps) : GapRead(c, lo, hi, cut, k, W, g)
        BY <1>3, <2>0, ReadGapIs
    <2>2. UNCHANGED <<posted, horizon, mark, newMark, asking>> /\ pc # "idle"
        BY <1>3 DEF ReadGap, cursorVars, teamVars
    <2>3. scanned' \subseteq Messages(LAMBDA x, m : TRUE)
        BY <2>1 DEF WithinHistory, Messages, GapRead
    <2>4. Messages(LAMBDA x, m : TRUE)' = Messages(LAMBDA x, m : TRUE)
        BY <2>2 DEF Messages, Human
    <2> QED
        BY <2>2, <2>3, <2>4 DEF WithinHistory, Reached
<1>4. CASE ConversationDone \/ GapFails \/ SkipConversation
    <2>1. Running /\ UNCHANGED <<posted, horizon, scanned, mark, newMark, asking>>
        BY <1>4, FinishedVisit DEF NextConversation, cursorVars, teamVars
    <2> QED
        BY <2>1 DEF WithinHistory, Reached, Messages, Human
<1>5. CASE Save
    BY <1>5 DEF WithinHistory, Reached, Messages, Human, Save, SyncOver
<1>6. CASE SyncLost
    BY <1>6 DEF WithinHistory, Reached, Messages, Human, SyncLost, SyncOver, cursorVars
<1>7. CASE AskWorkspace
    BY <1>7 DEF WithinHistory, Reached, Messages, Human, AskWorkspace, cursorVars, syncVars
<1>8. CASE WorkspaceUnknown
    BY <1>8 DEF WithinHistory, Reached, Messages, Human, WorkspaceUnknown, cursorVars, syncVars
<1>9. CASE LearnWorkspace
    BY <1>9 DEF WithinHistory, Reached, Messages, Human, LearnWorkspace, syncVars
<1>10. ASSUME NEW c \in Conversations, NEW kind \in Kinds, Post(c, kind)
       PROVE  WithinHistory'
    <2>1. UNCHANGED <<horizon, scanned, mark, newMark, asking, pc>>
        BY <1>10 DEF Post, cursorVars, syncVars, teamVars
    <2>2. \A d \in Conversations : Len(posted[d]) \in Nat /\ Len(posted'[d]) \in Nat
                                   /\ Len(posted[d]) <= Len(posted'[d])
        BY <1>10, PostGrows
    <2>3. \A d \in Conversations : Human(d) \subseteq Human(d)'
        BY <1>10, PostGrows
    <2>4. scanned' \subseteq Messages(LAMBDA x, m : TRUE)'
        BY <2>1, <2>3, MessagesGrow DEF WithinHistory
    <2>5. \A d \in Conversations : horizon'[d] <= Len(posted'[d])
        <3> SUFFICES ASSUME NEW d \in Conversations
                     PROVE  horizon'[d] <= Len(posted'[d])
            OBVIOUS
        <3>1. horizon[d] \in Nat /\ horizon[d] <= Len(posted[d])
            BY DEF WithinHistory, TypeOK
        <3> QED
            BY <2>1, <2>2, <3>1
    <2>6. ASSUME NEW marks \in [Conversations -> Marks], Reached(marks)
          PROVE  \A d \in Conversations : marks[d] # NoMark => marks[d] <= Len(posted'[d])
        BY <2>2, <2>6 DEF Reached, Marks
    <2>7. \A a \in asking : a.mark \in [Conversations -> Marks]
        BY DEF TypeOK, Cursors
    <2>8. \A a \in asking : \A d \in Conversations :
              a.mark[d] # NoMark => a.mark[d] <= Len(posted'[d])
        BY <2>6, <2>7 DEF WithinHistory
    <2>9. \A d \in Conversations : mark[d] # NoMark => mark[d] <= Len(posted'[d])
        BY <2>6 DEF WithinHistory, TypeOK
    <2>10. Running => \A d \in Conversations : newMark[d] # NoMark => newMark[d] <= Len(posted'[d])
        BY <2>6 DEF WithinHistory, TypeOK
    <2> QED
        BY <2>1, <2>4, <2>5, <2>8, <2>9, <2>10 DEF WithinHistory, Reached
<1>11. ASSUME NEW c \in Conversations, AgeOut(c)
       PROVE  WithinHistory'
    <2>1. UNCHANGED <<posted, scanned, mark, newMark, asking, pc>>
        BY <1>11 DEF AgeOut, cursorVars, syncVars, teamVars
    <2>2. \A d \in Conversations : horizon'[d] <= Len(posted[d])
        <3> SUFFICES ASSUME NEW d \in Conversations
                     PROVE  horizon'[d] <= Len(posted[d])
            OBVIOUS
        <3>1. horizon[d] \in Nat /\ Len(posted[d]) \in Nat /\ horizon[d] <= Len(posted[d])
            BY LenProperties DEF WithinHistory, TypeOK
        <3>2. horizon'[d] = IF d = c THEN horizon[d] + 1 ELSE horizon[d]
            BY <1>11 DEF AgeOut, TypeOK
        <3>3. horizon[c] < Len(posted[c])
            BY <1>11 DEF AgeOut
        <3> QED
            BY <3>1, <3>2, <3>3
    <2> QED
        BY <2>1, <2>2 DEF WithinHistory, Reached, Messages, Human
<1>12. CASE UNCHANGED vars
    BY <1>12 DEF WithinHistory, Reached, Messages, Human, vars, cursorVars, syncVars, teamVars
<1> QED
    BY <1>1, <1>2, <1>3, <1>4, <1>5, <1>6, <1>7, <1>8, <1>9, <1>10, <1>11, <1>12
       DEF Next, Sync

\* The Discovery scan stays alone with its cursor.
LEMMA StepAlone ==
    ASSUME DiscoveryAlone, [Next]_vars
    PROVE  DiscoveryAlone'
BY DEF DiscoveryAlone, Next, Sync, StartSync, ReadNew, ReadGap, ConversationDone, Save,
       GapFails, SkipConversation, SyncLost, NextConversation, SyncOver, AskWorkspace,
       WorkspaceUnknown, LearnWorkspace, Post, AgeOut, vars, teamVars, syncVars

\* The watermark a running sync works with only advances (ReadNew).
LEMMA ReadNewAdvances ==
    ASSUME TypeOK, ReadNew, NEW d \in Conversations, newMark[d] # NoMark
    PROVE  newMark'[d] \in Nat /\ newMark'[d] # NoMark /\ newMark'[d] >= newMark[d]
<1>1. PICK c \in Conversations, lo \in Nat, cut \in Nat, top \in Marks, W \in SUBSET Nat :
          NewRead(c, lo, cut, top, W)
    BY ReadNewIs
<1>2. /\ lo = Oldest(c, newMark) /\ W \subseteq Human(c)
      /\ newMark' = [newMark EXCEPT ![c] = top]
      /\ W = {} => top = newMark[c]
      /\ W # {} => top \in W
      /\ \A m \in W : lo < m /\ m <= top
    BY <1>1 DEF NewRead
<1>3. newMark[d] \in Nat /\ newMark'[d] = (IF d = c THEN top ELSE newMark[d])
    BY <1>2 DEF TypeOK, Marks
<1>4. CASE d = c /\ W # {}
    <2>1. top \in Nat /\ lo < top
        <3>1. top \in W /\ top \in Human(c)
            BY <1>2, <1>4
        <3>2. top \in Nat
            BY <3>1 DEF Human
        <3> QED
            BY <1>2, <3>1, <3>2
    <2>2. lo = newMark[d]
        BY <1>2, <1>4 DEF Oldest
    <2> QED
        BY <1>3, <1>4, <2>1, <2>2, BoundsAssumption
<1>5. CASE ~(d = c /\ W # {})
    BY <1>2, <1>3, <1>5, BoundsAssumption
<1> QED
    BY <1>4, <1>5

\* The copies of the watermarks keep their order.
LEMMA StepMarks ==
    ASSUME TypeOK, MarksKept, AskedIsOld, [Next]_vars
    PROVE  MarksKept' /\ AskedIsOld'
<1> USE DEF Running
<1>0. \A d \in Conversations : (mark[d] # NoMark => mark[d] \in Nat)
                               /\ (newMark[d] # NoMark => newMark[d] \in Nat)
    BY DEF TypeOK, Marks
<1>1. CASE StartSync
    <2>1. newMark' = mark /\ UNCHANGED <<mark, known, asking>> /\ pc = "idle"
        BY <1>1 DEF StartSync, cursorVars, teamVars
    <2> QED
        BY <1>0, <2>1 DEF MarksKept, AskedIsOld
<1>2. CASE ReadNew
    <2>1. pc # "idle" /\ pc' # "idle" /\ UNCHANGED <<mark, known, asking>>
        BY <1>2 DEF ReadNew, AtConversation, cursorVars, teamVars
    <2>2. \A d \in Conversations : newMark[d] # NoMark =>
              newMark'[d] \in Nat /\ newMark'[d] # NoMark /\ newMark'[d] >= newMark[d]
        BY <1>2, ReadNewAdvances
    <2>3. MarksKept'
        <3> SUFFICES ASSUME ~known, NEW d \in Conversations, mark[d] # NoMark
                     PROVE  newMark'[d] # NoMark /\ newMark'[d] >= mark[d]
            BY <2>1 DEF MarksKept
        <3>1. newMark[d] # NoMark /\ newMark[d] >= mark[d]
            BY <2>1 DEF MarksKept
        <3> QED
            BY <1>0, <2>2, <3>1
    <2>4. AskedIsOld'
        BY <2>1, <2>2 DEF AskedIsOld
    <2> QED
        BY <2>3, <2>4
<1>3. CASE pc' = pc /\ UNCHANGED <<mark, newMark, known, asking>>
    BY <1>3 DEF MarksKept, AskedIsOld
<1>4. CASE ReadGap \/ ConversationDone \/ GapFails \/ SkipConversation
    <2>1. pc # "idle" /\ UNCHANGED <<mark, newMark, known, asking>>
        BY <1>4 DEF ReadGap, ConversationDone, GapFails, SkipConversation, AtConversation,
                    NextConversation, cursorVars, teamVars
    <2> QED
        BY <2>1 DEF MarksKept, AskedIsOld
<1>5. CASE Save
    <2>1. pc # "idle" /\ pc' = "idle" /\ mark' = newMark /\ asking' = asking
        BY <1>5 DEF Save, SyncOver
    <2> QED
        BY <2>1 DEF MarksKept, AskedIsOld
<1>6. CASE SyncLost
    <2>1. pc' = "idle" /\ mark' = mark /\ asking' = asking
        BY <1>6 DEF SyncLost, SyncOver, cursorVars
    <2> QED
        BY <2>1 DEF MarksKept, AskedIsOld
<1>7. CASE AskWorkspace
    <2>1. /\ \A a \in asking' : a.mark = mark
          /\ ~known /\ UNCHANGED <<mark, newMark, known, pc>>
        BY <1>7 DEF AskWorkspace, cursorVars, syncVars
    <2> QED
        BY <2>1 DEF MarksKept, AskedIsOld
<1>8. CASE WorkspaceUnknown
    <2>1. asking' = {} /\ UNCHANGED <<mark, newMark, known, pc>>
        BY <1>8 DEF WorkspaceUnknown, cursorVars, syncVars
    <2> QED
        BY <2>1 DEF MarksKept, AskedIsOld
<1>9. CASE LearnWorkspace
    <2>1. asking' = {} /\ known' = TRUE
        BY <1>9 DEF LearnWorkspace
    <2> QED
        BY <2>1 DEF MarksKept, AskedIsOld
<1>10. (\E c \in Conversations, kind \in Kinds : Post(c, kind))
           \/ (\E c \in Conversations : AgeOut(c)) \/ UNCHANGED vars
       => pc' = pc /\ UNCHANGED <<mark, newMark, known, asking>>
    BY DEF Post, AgeOut, vars, cursorVars, syncVars, teamVars
<1> QED
    BY <1>1, <1>2, <1>3, <1>4, <1>5, <1>6, <1>7, <1>8, <1>9, <1>10 DEF Next, Sync

\* What is appended to the newest end of a list of gaps in order, and what is
\* taken from it, leaves it in order.
LEMMA AppendInOrder ==
    ASSUME NEW g \in Seq(Gaps), NEW lo \in Nat, NEW cut \in Nat, lo < cut,
           Len(g) > 0 => g[Len(g)][2] <= lo,
           \A k \in 1 .. Len(g) - 1 : g[k][2] <= g[k + 1][1]
    PROVE  LET h == Append(g, <<lo, cut>>)
           IN  \A k \in 1 .. Len(h) - 1 : h[k][2] <= h[k + 1][1]
<1> DEFINE h == Append(g, <<lo, cut>>)
<1>1. Len(g) \in Nat
    BY LenProperties
<1>2. <<lo, cut>> \in Gaps
    BY DEF Gaps
<1>3. /\ Len(h) = Len(g) + 1 /\ h[Len(g) + 1] = <<lo, cut>>
      /\ \A k \in 1 .. Len(g) : h[k] = g[k]
    BY <1>2, AppendProperties
<1> HIDE DEF h
<1> SUFFICES ASSUME NEW k \in 1 .. Len(h) - 1
             PROVE  h[k][2] <= h[k + 1][1]
    BY DEF h
<1>4. k \in 1 .. Len(g)
    BY <1>1, <1>3
<1>5. CASE k = Len(g)
    BY <1>1, <1>3, <1>4, <1>5
<1>6. CASE k # Len(g)
    <2>1. k \in 1 .. Len(g) - 1 /\ k + 1 \in 1 .. Len(g)
        BY <1>1, <1>4, <1>6
    <2> QED
        BY <1>3, <1>4, <2>1
<1> QED
    BY <1>5, <1>6

\* A read of new messages leaves the list of gaps behind the watermark.
LEMMA ReadNewInOrder ==
    ASSUME TypeOK, ~Discovery, ReadNew, InOrder(newMark, newGaps)
    PROVE  InOrder(newMark', newGaps')
<1>0. PICK c \in Conversations, lo \in Nat, cut \in Nat, top \in Marks, W \in SUBSET Nat :
          NewRead(c, lo, cut, top, W)
    BY ReadNewIs
<1>1. /\ c = Head(todo) /\ lo = Oldest(c, newMark)
      /\ newMark' = [newMark EXCEPT ![c] = top]
      /\ newGaps' = [newGaps EXCEPT
                        ![c] = IF cut = 0 THEN @ ELSE Append(@, <<lo, cut>>)]
      /\ cut # 0 => lo < cut
    BY <1>0 DEF NewRead
<1>2. /\ W \subseteq Human(c)
      /\ \A m \in W : lo < m /\ m <= top
      /\ W = {} => top = newMark[c]
      /\ W # {} => top \in W
      /\ cut # 0 => W # {} /\ \A m \in W : cut <= m
    BY <1>0 DEF NewRead
<1> DEFINE g == newGaps[c]
           h == newGaps'[c]
<1>3. g \in Seq(Gaps) /\ Len(g) \in Nat
    BY LenProperties DEF TypeOK
<1>4. \A k \in 1 .. Len(g) : g[k][1] \in Nat /\ g[k][2] \in Nat
    BY <1>3, ElementOfSeq DEF Gaps
<1>5. /\ \A k \in 1 .. Len(g) :
            g[k][1] < g[k][2] /\ newMark[c] # NoMark /\ g[k][2] <= newMark[c]
      /\ \A k \in 1 .. Len(g) - 1 : g[k][2] <= g[k + 1][1]
    BY DEF InOrder
<1>6. h = IF cut = 0 THEN g ELSE Append(g, <<lo, cut>>)
    BY <1>1 DEF TypeOK
<1>7. newMark'[c] = top /\ \A d \in Conversations :
          d # c => newMark'[d] = newMark[d] /\ newGaps'[d] = newGaps[d]
    BY <1>1 DEF TypeOK
<1>8. newMark[c] # NoMark => newMark[c] \in Nat /\ lo = newMark[c]
    BY <1>1 DEF TypeOK, Marks, Oldest
<1>9. W # {} => top \in Nat /\ top # NoMark /\ lo < top
    <2>1. \A m \in W : m \in Nat
        BY DEF Human
    <2> QED
        BY <1>2, <2>1, BoundsAssumption
<1>10. newMark[c] # NoMark => top \in Nat /\ top # NoMark /\ newMark[c] <= top
    BY <1>2, <1>8, <1>9, BoundsAssumption
<1>11. \A k \in 1 .. Len(g) : top # NoMark /\ g[k][2] <= top
    <2> SUFFICES ASSUME NEW k \in 1 .. Len(g)
                 PROVE  top # NoMark /\ g[k][2] <= top
        OBVIOUS
    <2>1. newMark[c] # NoMark /\ g[k][2] <= newMark[c] /\ g[k][2] \in Nat
        BY <1>4, <1>5
    <2> QED
        BY <1>8, <1>10, <2>1
<1>12. CASE cut = 0
    <2>1. h = g
        BY <1>6, <1>12
    <2> QED
        BY <1>5, <1>7, <1>11, <2>1 DEF InOrder
<1>13. CASE cut # 0
    <2>1. W # {} /\ \A m \in W : cut <= m
        BY <1>2, <1>13
    <2>2. top # NoMark /\ lo < cut /\ cut <= top
        BY <1>1, <1>2, <1>9, <1>13, <2>1
    <2>3. <<lo, cut>> \in Gaps /\ h = Append(g, <<lo, cut>>)
        BY <1>6, <1>13 DEF Gaps
    <2> HIDE DEF g, h
    <2>4. /\ Len(h) = Len(g) + 1 /\ h[Len(g) + 1] = <<lo, cut>>
          /\ \A k \in 1 .. Len(g) : h[k] = g[k]
        BY <1>3, <2>3, AppendProperties
    <2>5. Len(g) > 0 => g[Len(g)][2] <= lo
        <3> SUFFICES ASSUME Len(g) > 0
                     PROVE  g[Len(g)][2] <= lo
            OBVIOUS
        <3>1. Len(g) \in 1 .. Len(g)
            BY <1>3
        <3> QED
            BY <1>5, <1>8, <3>1
    <2>6. \A k \in 1 .. Len(h) - 1 : h[k][2] <= h[k + 1][1]
        BY <1>3, <1>5, <2>2, <2>3, <2>5, AppendInOrder
    <2>7. \A k \in 1 .. Len(h) : h[k][1] < h[k][2] /\ top # NoMark /\ h[k][2] <= top
        <3> SUFFICES ASSUME NEW k \in 1 .. Len(h)
                     PROVE  h[k][1] < h[k][2] /\ top # NoMark /\ h[k][2] <= top
            OBVIOUS
        <3>1. CASE k = Len(g) + 1
            BY <2>2, <2>4, <3>1
        <3>2. CASE k # Len(g) + 1
            <4>1. k \in 1 .. Len(g)
                BY <1>3, <2>4, <3>2
            <4> QED
                BY <1>5, <1>11, <2>4, <4>1
        <3> QED
            BY <3>1, <3>2
    <2> QED
        BY <1>7, <2>6, <2>7 DEF InOrder, g, h
<1> QED
    BY <1>12, <1>13

\* Reading a gap shortens the list at its newest end.
LEMMA ReadGapInOrder ==
    ASSUME TypeOK, ReadGap, todo # <<>>, InOrder(newMark, newGaps)
    PROVE  InOrder(newMark, newGaps')
<1>0. PICK c \in Conversations, lo \in Nat, hi \in Nat, cut \in Nat, k \in Nat,
     W \in SUBSET Nat, g \in Seq(Gaps) : GapRead(c, lo, hi, cut, k, W, g)
    BY ReadGapIs
<1>1. k > 0 /\ k = Len(newGaps[c]) /\ newGaps[c][k] = <<lo, hi>>
    BY <1>0 DEF GapRead
<1>2. /\ newGaps' = [newGaps EXCEPT ![c] = g]
      /\ Len(g) = IF cut = 0 THEN k - 1 ELSE k
      /\ \A j \in 1 .. k - 1 : g[j] = newGaps[c][j]
      /\ cut # 0 => g[k] = <<lo, cut>> /\ lo < cut /\ cut < hi
    BY <1>0 DEF GapRead
<1> DEFINE old == newGaps[c]
<1>3. newGaps'[c] = g /\ \A d \in Conversations : d # c => newGaps'[d] = newGaps[d]
    BY <1>2 DEF TypeOK
<1>4. /\ \A j \in 1 .. k :
            old[j][1] < old[j][2] /\ newMark[c] # NoMark /\ old[j][2] <= newMark[c]
      /\ \A j \in 1 .. k - 1 : old[j][2] <= old[j + 1][1]
    BY <1>1 DEF InOrder
<1>5. newMark[c] # NoMark => newMark[c] \in Nat
    BY DEF TypeOK, Marks
<1>6. old[k] = <<lo, hi>>
    BY <1>1
<1> HIDE DEF old
<1>7. \A j \in 1 .. Len(g) : g[j][1] < g[j][2] /\ newMark[c] # NoMark /\ g[j][2] <= newMark[c]
    <2> SUFFICES ASSUME NEW j \in 1 .. Len(g)
                 PROVE  g[j][1] < g[j][2] /\ newMark[c] # NoMark /\ g[j][2] <= newMark[c]
        OBVIOUS
    <2>1. CASE j = k
        <3>1. cut # 0
            BY <1>2, <2>1
        <3>2. newMark[c] # NoMark /\ hi <= newMark[c]
            BY <1>1, <1>4, <1>6
        <3> QED
            BY <1>2, <1>5, <2>1, <3>1, <3>2
    <2>2. CASE j # k
        <3>1. j \in 1 .. k - 1 /\ j \in 1 .. k
            BY <1>2, <2>2
        <3> QED
            BY <1>2, <1>4, <3>1 DEF old
    <2> QED
        BY <2>1, <2>2
<1>8. \A j \in 1 .. Len(g) - 1 : g[j][2] <= g[j + 1][1]
    <2> SUFFICES ASSUME NEW j \in 1 .. Len(g) - 1
                 PROVE  g[j][2] <= g[j + 1][1]
        OBVIOUS
    <2>1. j \in 1 .. k - 1 /\ g[j] = old[j] /\ old[j][2] <= old[j + 1][1]
        BY <1>2, <1>4 DEF old
    <2>2. CASE j + 1 = k
        <3>1. cut # 0
            BY <1>2, <2>2
        <3> QED
            BY <1>2, <1>6, <2>1, <2>2, <3>1
    <2>3. CASE j + 1 # k
        <3>1. j + 1 \in 1 .. k - 1
            BY <2>1, <2>3
        <3> QED
            BY <1>2, <2>1, <3>1 DEF old
    <2> QED
        BY <2>2, <2>3
<1> QED
    BY <1>3, <1>7, <1>8 DEF InOrder

\* Every action keeps the copies of the cursor in order.
LEMMA StepOrder ==
    ASSUME TypeOK, TurnsKept, CopiesInOrder, [Next]_vars
    PROVE  CopiesInOrder'
<1> SUFFICES ASSUME ~Discovery
             PROVE  /\ InOrder(mark', gaps')
                    /\ Running' => InOrder(newMark', newGaps')
                    /\ \A a \in asking' : InOrder(a.mark, a.gaps)
    BY DEF CopiesInOrder
<1> USE DEF Running
<1>0. /\ InOrder(mark, gaps)
      /\ Running => InOrder(newMark, newGaps)
      /\ \A a \in asking : InOrder(a.mark, a.gaps)
    BY DEF CopiesInOrder
<1>1. CASE StartSync
    BY <1>0, <1>1 DEF StartSync, cursorVars, teamVars
<1>2. CASE ReadNew
    <2>1. pc # "idle" /\ UNCHANGED <<mark, gaps, asking>>
        BY <1>2 DEF ReadNew, AtConversation, cursorVars, teamVars
    <2> QED
        BY <1>0, <1>2, <2>1, ReadNewInOrder
<1>3. CASE ReadGap
    <2>1. pc # "idle" /\ todo # <<>> /\ UNCHANGED <<mark, gaps, asking, newMark>>
        BY <1>3 DEF ReadGap, TurnsKept, cursorVars, teamVars
    <2> QED
        BY <1>0, <1>3, <2>1, ReadGapInOrder
<1>4. CASE ConversationDone \/ GapFails \/ SkipConversation
    <2>1. pc # "idle" /\ UNCHANGED <<mark, gaps, asking, newMark, newGaps>>
        BY <1>4 DEF ConversationDone, GapFails, SkipConversation, AtConversation,
                    NextConversation, cursorVars, teamVars
    <2> QED
        BY <1>0, <2>1
<1>5. CASE Save
    BY <1>0, <1>5 DEF Save, SyncOver
<1>6. CASE SyncLost
    BY <1>0, <1>6 DEF SyncLost, SyncOver, cursorVars
<1>7. CASE AskWorkspace
    BY <1>0, <1>7 DEF AskWorkspace, cursorVars, syncVars
<1>8. CASE WorkspaceUnknown
    BY <1>0, <1>8 DEF WorkspaceUnknown, cursorVars, syncVars
<1>9. CASE LearnWorkspace
    BY <1>0, <1>9 DEF LearnWorkspace, syncVars
<1>10. CASE UNCHANGED <<pc, mark, gaps, newMark, newGaps, asking>>
    BY <1>0, <1>10
<1>11. (\E c \in Conversations, kind \in Kinds : Post(c, kind))
           \/ (\E c \in Conversations : AgeOut(c)) \/ UNCHANGED vars
       => UNCHANGED <<pc, mark, gaps, newMark, newGaps, asking>>
    BY DEF Post, AgeOut, vars, cursorVars, syncVars, teamVars
<1> QED
    BY <1>1, <1>2, <1>3, <1>4, <1>5, <1>6, <1>7, <1>8, <1>9, <1>10, <1>11 DEF Next, Sync

\* A message lies in a longer list of gaps when it lies in the old one or the
\* new gap.
LEMMA AppendWithin ==
    ASSUME NEW g \in Seq(Gaps), NEW lo \in Nat, NEW cut \in Nat, NEW m \in Nat
    PROVE  Within(Append(g, <<lo, cut>>), m) <=> Within(g, m) \/ (lo < m /\ m < cut)
<1> DEFINE h == Append(g, <<lo, cut>>)
<1>1. Len(g) \in Nat
    BY LenProperties
<1>2. <<lo, cut>> \in Gaps
    BY DEF Gaps
<1>3. /\ Len(h) = Len(g) + 1 /\ h[Len(g) + 1] = <<lo, cut>>
      /\ \A k \in 1 .. Len(g) : h[k] = g[k]
    BY <1>2, AppendProperties
<1> HIDE DEF h
<1>4. ASSUME Within(h, m)
      PROVE  Within(g, m) \/ (lo < m /\ m < cut)
    <2>1. PICK k \in 1 .. Len(h) : h[k][1] < m /\ m < h[k][2]
        BY <1>4 DEF Within
    <2>2. k = Len(g) + 1 \/ k \in 1 .. Len(g)
        BY <1>1, <1>3
    <2> QED
        BY <1>3, <2>1, <2>2 DEF Within
<1>5. Within(g, m) => Within(h, m)
    <2>1. \A k \in 1 .. Len(g) : k \in 1 .. Len(h)
        BY <1>1, <1>3
    <2> QED
        BY <1>3, <2>1 DEF Within
<1>6. lo < m /\ m < cut => Within(h, m)
    <2>1. Len(g) + 1 \in 1 .. Len(h)
        BY <1>1, <1>3
    <2> QED
        BY <1>3, <2>1 DEF Within
<1> QED
    BY <1>4, <1>5, <1>6 DEF h

\* A read takes nothing from the debt of the sync's copy that it has not
\* scanned, and adds nothing to it.
LEMMA ReadNewOwes ==
    ASSUME TypeOK, ReadNew, NEW d \in Conversations, NEW m \in Human(d)
    PROVE  /\ Owes(d, m, newMark', newGaps') => Owes(d, m, newMark, newGaps)
           /\ \/ Owes(d, m, newMark, newGaps) => Owes(d, m, newMark', newGaps')
              \/ <<d, m>> \in scanned'
<1>0. PICK c \in Conversations, lo \in Nat, cut \in Nat, top \in Marks, W \in SUBSET Nat :
          NewRead(c, lo, cut, top, W)
    BY ReadNewIs
<1>1. newMark'[c] = top /\ \A e \in Conversations :
          e # c => newMark'[e] = newMark[e] /\ newGaps'[e] = newGaps[e]
    BY <1>0 DEF NewRead, TypeOK
<1>2. CASE d # c
    BY <1>1, <1>2 DEF Owes, Oldest
<1>3. CASE d = c
    <2> DEFINE g == newGaps[c]
               h == newGaps'[c]
    <2>1. h = IF cut = 0 THEN g ELSE Append(g, <<lo, cut>>)
        BY <1>0 DEF NewRead, TypeOK
    <2>2. g \in Seq(Gaps) /\ m \in Nat
        BY <1>3 DEF TypeOK, Human
    <2>3. Within(h, m) <=> Within(g, m) \/ (cut # 0 /\ lo < m /\ m < cut)
        BY <2>1, <2>2, AppendWithin
    <2>4. Owes(d, m, newMark, newGaps) <=> m > lo \/ Within(g, m)
        BY <1>0, <1>3 DEF NewRead, Owes
    <2>5. Owes(d, m, newMark', newGaps') <=> m > Oldest(c, newMark') \/ Within(h, m)
        BY <1>3 DEF Owes
    <2> HIDE DEF g, h
    <2>6. Oldest(c, newMark') = IF W = {} THEN lo ELSE top
        <3>1. CASE W = {}
            BY <1>0, <1>1, <3>1 DEF NewRead, Oldest
        <3>2. CASE W # {}
            <4>1. top \in Nat
                BY <1>0, <3>2 DEF NewRead
            <4> QED
                BY <1>1, <3>2, <4>1, BoundsAssumption DEF Oldest
        <3> QED
            BY <3>1, <3>2
    <2>7. W # {} => top \in Nat /\ lo < top
        BY <1>0 DEF NewRead
    <2>8. lo < m => m \in W \/ (cut # 0 /\ m < cut)
        BY <1>0, <1>3 DEF NewRead
    <2>9. m \in W => <<d, m>> \in scanned'
        BY <1>0, <1>3 DEF NewRead
    <2>10. Owes(d, m, newMark', newGaps') => Owes(d, m, newMark, newGaps)
        BY <2>2, <2>3, <2>4, <2>5, <2>6, <2>7
    <2>11. Owes(d, m, newMark, newGaps) /\ m \notin W => Owes(d, m, newMark', newGaps')
        BY <2>2, <2>3, <2>4, <2>5, <2>8
    <2> QED
        BY <2>9, <2>10, <2>11
<1> QED
    BY <1>2, <1>3

\* So does a read of a gap.
LEMMA ReadGapOwes ==
    ASSUME TypeOK, ReadGap, todo # <<>>, NEW d \in Conversations, NEW m \in Human(d)
    PROVE  /\ Owes(d, m, newMark, newGaps') => Owes(d, m, newMark, newGaps)
           /\ \/ Owes(d, m, newMark, newGaps) => Owes(d, m, newMark, newGaps')
              \/ <<d, m>> \in scanned'
<1>0. PICK c \in Conversations, lo \in Nat, hi \in Nat, cut \in Nat, k \in Nat,
           W \in SUBSET Nat, g \in Seq(Gaps) : GapRead(c, lo, hi, cut, k, W, g)
    BY ReadGapIs
<1>1. newGaps'[c] = g /\ \A e \in Conversations : e # c => newGaps'[e] = newGaps[e]
    BY <1>0 DEF GapRead, TypeOK
<1>2. CASE d # c
    BY <1>1, <1>2 DEF Owes
<1>3. CASE d = c
    <2> DEFINE old == newGaps[c]
               Older == \E j \in 1 .. k - 1 : old[j][1] < m /\ m < old[j][2]
    <2>1. m \in Nat /\ k > 0 /\ k = Len(old) /\ old[k] = <<lo, hi>>
        BY <1>0 DEF GapRead, Human
    <2>2. Within(old, m) <=> Older \/ (lo < m /\ m < hi)
        <3>1. \A j : j \in 1 .. Len(old) <=> j \in 1 .. k - 1 \/ j = k
            BY <2>1
        <3>2. old[k][1] = lo /\ old[k][2] = hi
            BY <2>1
        <3> QED
            BY <3>1, <3>2 DEF Within
    <2>3. Within(g, m) <=> Older \/ (cut # 0 /\ lo < m /\ m < cut)
        <3>1. \A j : j \in 1 .. Len(g) <=> j \in 1 .. k - 1 \/ (cut # 0 /\ j = k)
            <4>1. Len(g) = IF cut = 0 THEN k - 1 ELSE k
                BY <1>0 DEF GapRead
            <4> QED
                BY <2>1, <4>1
        <3>2. \A j \in 1 .. k - 1 : g[j] = old[j]
            BY <1>0 DEF GapRead
        <3>3. cut # 0 => g[k] = <<lo, cut>>
            BY <1>0 DEF GapRead
        <3> HIDE DEF old
        <3>4. Within(g, m) <=> (\E j \in 1 .. k - 1 : g[j][1] < m /\ m < g[j][2])
                               \/ (cut # 0 /\ g[k][1] < m /\ m < g[k][2])
            BY <3>1 DEF Within
        <3> QED
            BY <3>2, <3>3, <3>4
    <2>4. lo < m /\ m < hi => m \in W \/ (cut # 0 /\ m < cut)
        BY <1>0, <1>3 DEF GapRead
    <2>5. cut # 0 => cut < hi
        BY <1>0 DEF GapRead
    <2>6. m \in W => <<d, m>> \in scanned'
        BY <1>0, <1>3 DEF GapRead
    <2>7. Owes(d, m, newMark, newGaps) <=> m > Oldest(d, newMark) \/ Within(old, m)
        BY <1>3 DEF Owes
    <2>8. Owes(d, m, newMark, newGaps') <=> m > Oldest(d, newMark) \/ Within(g, m)
        BY <1>1, <1>3 DEF Owes
    <2> HIDE DEF old, Older
    <2>9. Within(g, m) => Within(old, m)
        BY <2>1, <2>2, <2>3, <2>5
    <2>10. Within(old, m) /\ m \notin W => Within(g, m)
        BY <2>2, <2>3, <2>4
    <2> QED
        BY <2>6, <2>7, <2>8, <2>9, <2>10
<1> QED
    BY <1>2, <1>3

\* Agreement survives whatever leaves the history and the two cursors alone.
LEMMA AgreeKept ==
    ASSUME UNCHANGED <<posted, horizon>>, scanned \subseteq scanned',
           NEW m1, NEW g1, NEW m2, NEW g2, Agree(m1, g1, m2, g2)
    PROVE  Agree(m1, g1, m2, g2)'
BY DEF Agree, Human, Owes, Oldest

\* A new message is owed by every cursor.
LEMMA AgreeAfterPost ==
    ASSUME TypeOK, WithinHistory, NEW c \in Conversations, NEW kind \in Kinds, Post(c, kind),
           NEW m1 \in [Conversations -> Marks], NEW g1, NEW m2 \in [Conversations -> Marks], NEW g2,
           Reached(m1), Reached(m2), Agree(m1, g1, m2, g2)
    PROVE  Agree(m1, g1, m2, g2)'
<1>1. UNCHANGED <<horizon, scanned>>
    BY DEF Post
<1>2. \A d \in Conversations : \A m \in Human(d)' :
          m \in Human(d) \/ (d = c /\ m = Len(posted[c]) + 1)
    BY PostGrows
<1>3. ASSUME NEW marks \in [Conversations -> Marks], Reached(marks), NEW windows
      PROVE  Owes(c, Len(posted[c]) + 1, marks, windows)
    <2>1. Len(posted[c]) \in Nat /\ horizon[c] \in Nat /\ horizon[c] <= Len(posted[c])
        BY LenProperties DEF TypeOK, WithinHistory
    <2>2. marks[c] # NoMark => marks[c] \in Nat /\ marks[c] <= Len(posted[c])
        BY <1>3 DEF Reached, Marks
    <2>3. Oldest(c, marks) \in Nat /\ Oldest(c, marks) <= Len(posted[c])
        BY <2>1, <2>2 DEF Oldest
    <2> QED
        BY <2>1, <2>3 DEF Owes
<1>4. \A d, m, marks, windows : Owes(d, m, marks, windows)' <=> Owes(d, m, marks, windows)
    BY <1>1 DEF Owes, Oldest
<1> SUFFICES ASSUME NEW d \in Conversations, NEW m \in Human(d)'
             PROVE  \/ <<d, m>> \in scanned
                    \/ Owes(d, m, m1, g1)' <=> Owes(d, m, m2, g2)'
    BY <1>1 DEF Agree
<1>5. CASE m \in Human(d)
    BY <1>4, <1>5 DEF Agree
<1>6. CASE d = c /\ m = Len(posted[c]) + 1
    <2>1. Owes(d, m, m1, g1) /\ Owes(d, m, m2, g2)
        BY <1>3, <1>6
    <2> QED
        BY <1>4, <2>1
<1> QED
    BY <1>2, <1>5, <1>6

\* Cursors that agree with one cursor agree with each other.
LEMMA AgreeTrans ==
    ASSUME NEW m1, NEW g1, NEW m2, NEW g2, NEW m3, NEW g3,
           Agree(m1, g1, m2, g2), Agree(m1, g1, m3, g3)
    PROVE  Agree(m2, g2, m3, g3)
BY DEF Agree

\* A cursor agrees with itself.
LEMMA AgreeRefl ==
    ASSUME NEW m1, NEW g1
    PROVE  Agree(m1, g1, m1, g1) /\ Agree(m1, g1, m1, g1)'
BY DEF Agree

\* A read of the running sync keeps its copy in agreement with the saved cursor.
LEMMA AgreeAfterRead ==
    ASSUME UNCHANGED <<posted, horizon, mark, gaps>>, scanned \subseteq scanned',
           Agree(mark, gaps, newMark, newGaps),
           \A d \in Conversations : \A m \in Human(d) :
              /\ Owes(d, m, newMark', newGaps') => Owes(d, m, newMark, newGaps)
              /\ \/ Owes(d, m, newMark, newGaps) => Owes(d, m, newMark', newGaps')
                 \/ <<d, m>> \in scanned'
    PROVE  Agree(mark, gaps, newMark, newGaps)'
<1>1. \A d, m, marks, windows : Owes(d, m, marks, windows)' <=> Owes(d, m, marks, windows)
    BY DEF Owes, Oldest
<1>2. \A d : Human(d)' = Human(d)
    BY DEF Human
<1> SUFFICES ASSUME NEW d \in Conversations, NEW m \in Human(d), <<d, m>> \notin scanned'
             PROVE  Owes(d, m, mark, gaps) <=> Owes(d, m, newMark', newGaps')
    BY <1>1, <1>2 DEF Agree
<1>3. Owes(d, m, mark, gaps) <=> Owes(d, m, newMark, newGaps)
    BY DEF Agree
<1> QED
    BY <1>3

\* Every copy of the cursor goes on owing what the saved one owes.
LEMMA StepDebts ==
    ASSUME TypeOK, TurnsKept, WithinHistory, DiscoveryAlone, AskedIsOld, CopiesInOrder,
           DebtsAgree, [Next]_vars
    PROVE  DebtsAgree'
<1> DEFINE Kept == UNCHANGED <<posted, horizon>> /\ scanned \subseteq scanned'
           Saved == \A a \in asking' : Agree(mark, gaps, a.mark, a.gaps)'
           Copied == Running' => Agree(mark, gaps, newMark, newGaps)'
           Less == Running' /\ Discovery =>
                       \A c \in Conversations : \A m \in Human(c)' :
                           Owes(c, m, newMark, newGaps)' => Owes(c, m, mark, gaps)'
<1> USE DEF Running
<1>a. /\ Running => Agree(mark, gaps, newMark, newGaps)
      /\ \A a \in asking : Agree(mark, gaps, a.mark, a.gaps)
      /\ Running /\ Discovery =>
            \A c \in Conversations : \A m \in Human(c) :
                Owes(c, m, newMark, newGaps) => Owes(c, m, mark, gaps)
    BY DEF DebtsAgree
<1>b. Kept => \A d, m, marks, windows : /\ Owes(d, m, marks, windows)' <=> Owes(d, m, marks, windows)
                                        /\ Human(d)' = Human(d)
    BY DEF Owes, Oldest, Human
<1>c. Discovery => asking = {}
    BY DEF DiscoveryAlone
<1> SUFFICES Saved /\ Copied /\ Less
    BY DEF DebtsAgree
<1>1. CASE StartSync
    <2>1. Kept /\ UNCHANGED <<mark, gaps, asking>> /\ newMark' = mark /\ newGaps' = gaps
        BY <1>1 DEF StartSync, cursorVars, teamVars
    <2>2. Saved
        BY <1>a, <2>1, AgreeKept
    <2>3. Copied
        BY <2>1, AgreeRefl
    <2>4. Less
        BY <2>1
    <2> QED
        BY <2>2, <2>3, <2>4
<1>2. CASE ReadNew \/ ReadGap
    <2>1. pc # "idle" /\ UNCHANGED <<posted, horizon, mark, gaps, asking>> /\ todo # <<>>
          /\ (ReadGap => newMark' = newMark)
        BY <1>2 DEF ReadNew, ReadGap, AtConversation, TurnsKept, cursorVars, teamVars
    <2>2. scanned \subseteq scanned'
        BY <1>2 DEF ReadNew, ReadGap, Scan
    <2>3. \A d \in Conversations : \A m \in Human(d) :
              /\ Owes(d, m, newMark', newGaps') => Owes(d, m, newMark, newGaps)
              /\ \/ Owes(d, m, newMark, newGaps) => Owes(d, m, newMark', newGaps')
                 \/ <<d, m>> \in scanned'
        <3>1. CASE ReadNew
            BY <3>1, ReadNewOwes
        <3>2. CASE ReadGap
            BY <2>1, <3>2, ReadGapOwes
        <3> QED
            BY <1>2, <3>1, <3>2
    <2>4. Saved
        BY <1>a, <2>1, <2>2, AgreeKept
    <2>5. Copied
        BY <1>a, <2>1, <2>2, <2>3, AgreeAfterRead
    <2>6. Less
        BY <1>a, <1>b, <2>1, <2>2, <2>3
    <2> QED
        BY <2>4, <2>5, <2>6
<1>3. CASE ConversationDone \/ GapFails \/ SkipConversation
    <2>1. Running /\ Kept /\ UNCHANGED <<mark, gaps, newMark, newGaps, asking>>
        BY <1>3, FinishedVisit DEF NextConversation, cursorVars, teamVars
    <2>2. Saved /\ Copied
        BY <1>a, <2>1, AgreeKept
    <2>3. Less
        BY <1>a, <1>b, <2>1
    <2> QED
        BY <2>2, <2>3
<1>4. CASE Save
    <2>1. /\ Running /\ Kept /\ pc' = "idle" /\ asking' = asking
          /\ mark' = newMark /\ gaps' = newGaps
        BY <1>4 DEF Save, SyncOver
    <2>2. \A a \in asking : Agree(newMark, newGaps, a.mark, a.gaps)
        BY <1>a, <2>1, AgreeTrans
    <2>3. Saved
        BY <2>1, <2>2, AgreeKept
    <2> QED
        BY <2>1, <2>3
<1>5. CASE SyncLost
    <2>1. Kept /\ pc' = "idle" /\ UNCHANGED <<mark, gaps, asking>>
        BY <1>5 DEF SyncLost, SyncOver, cursorVars
    <2>2. Saved
        BY <1>a, <2>1, AgreeKept
    <2> QED
        BY <2>1, <2>2
<1>6. CASE AskWorkspace
    <2>1. /\ Kept /\ ~Discovery /\ UNCHANGED <<pc, mark, gaps, newMark, newGaps>>
          /\ \A a \in asking' : a.mark = mark /\ a.gaps = gaps
        BY <1>6 DEF AskWorkspace, cursorVars, syncVars
    <2>2. Saved
        BY <2>1, AgreeRefl
    <2>3. Copied
        BY <1>a, <2>1, AgreeKept
    <2> QED
        BY <2>1, <2>2, <2>3
<1>7. CASE WorkspaceUnknown
    <2>1. /\ Kept /\ UNCHANGED <<pc, mark, gaps, newMark, newGaps>> /\ asking' = {}
        BY <1>7 DEF WorkspaceUnknown, cursorVars, syncVars
    <2>2. Copied
        BY <1>a, <2>1, AgreeKept
    <2>3. Less
        BY <1>a, <1>b, <2>1
    <2> QED
        BY <2>1, <2>2, <2>3
<1>8. CASE LearnWorkspace
    <2>1. PICK old \in asking : mark' = old.mark /\ gaps' = old.gaps
        BY <1>8 DEF LearnWorkspace
    <2>2. Kept /\ asking' = {} /\ UNCHANGED <<pc, newMark, newGaps>> /\ ~Discovery
        BY <1>8, <1>c DEF LearnWorkspace, syncVars
    <2>3. Running => Agree(old.mark, old.gaps, newMark, newGaps)
        BY <1>a, AgreeTrans
    <2>4. Copied
        BY <2>1, <2>2, <2>3, AgreeKept
    <2> QED
        BY <2>2, <2>4
<1>9. ASSUME NEW c \in Conversations, NEW kind \in Kinds, Post(c, kind)
      PROVE  Saved /\ Copied /\ Less
    <2>1. UNCHANGED <<horizon, scanned, pc, mark, gaps, newMark, newGaps, asking>>
        BY <1>9 DEF Post, cursorVars, syncVars, teamVars
    <2>2. /\ mark \in [Conversations -> Marks] /\ newMark \in [Conversations -> Marks]
          /\ \A a \in asking : a.mark \in [Conversations -> Marks]
        BY DEF TypeOK, Cursors
    <2>3. Reached(mark) /\ (Running => Reached(newMark)) /\ \A a \in asking : Reached(a.mark)
        BY DEF WithinHistory
    <2>4. Saved
        BY <1>a, <1>9, <2>1, <2>2, <2>3, AgreeAfterPost
    <2>5. Copied
        BY <1>a, <1>9, <2>1, <2>2, <2>3, AgreeAfterPost
    <2>6. Less
        <3> SUFFICES ASSUME Running, Discovery, NEW d \in Conversations, NEW m \in Human(d)',
                            Owes(d, m, newMark, newGaps)'
                     PROVE  Owes(d, m, mark, gaps)'
            BY <2>1
        <3>1. \A e, x, marks, windows : Owes(e, x, marks, windows)' <=> Owes(e, x, marks, windows)
            BY <2>1 DEF Owes, Oldest
        <3>2. CASE m \in Human(d)
            BY <1>a, <2>1, <3>1, <3>2
        <3>3. CASE d = c /\ m = Len(posted[c]) + 1
            <4>1. Len(posted[c]) \in Nat /\ horizon[c] \in Nat /\ horizon[c] <= Len(posted[c])
                BY LenProperties DEF TypeOK, WithinHistory
            <4>2. mark[c] # NoMark => mark[c] \in Nat /\ mark[c] <= Len(posted[c])
                BY <2>2, <2>3 DEF Reached, Marks
            <4>3. Oldest(c, mark) \in Nat /\ Oldest(c, mark) <= Len(posted[c])
                BY <4>1, <4>2 DEF Oldest
            <4>4. Owes(d, m, mark, gaps)
                BY <3>3, <4>1, <4>3 DEF Owes
            <4> QED
                BY <2>1, <3>1, <4>4
        <3> QED
            BY <1>9, <3>2, <3>3, PostGrows
    <2> QED
        BY <2>4, <2>5, <2>6
<1>10. ASSUME NEW c \in Conversations, AgeOut(c)
       PROVE  Saved /\ Copied /\ Less
    <2>1. /\ UNCHANGED <<posted, scanned, pc, mark, gaps, asking>>
          /\ pc = "idle" /\ mark[c] = NoMark
          /\ \A d \in Conversations : d # c => horizon'[d] = horizon[d]
        BY <1>10 DEF AgeOut, cursorVars, syncVars, teamVars, TypeOK
    <2>2. Saved
        <3> SUFFICES ASSUME NEW a \in asking, NEW d \in Conversations, NEW m \in Human(d),
                            <<d, m>> \notin scanned
                     PROVE  Owes(d, m, mark, gaps)' <=> Owes(d, m, a.mark, a.gaps)'
            BY <2>1 DEF Agree, Human
        <3>1. Owes(d, m, mark, gaps) <=> Owes(d, m, a.mark, a.gaps)
            BY <1>a DEF Agree
        <3>2. CASE d # c
            BY <2>1, <3>1, <3>2 DEF Owes, Oldest
        <3>3. CASE d = c
            <4>1. ~Discovery
                BY <1>c
            <4>2. mark[c] = NoMark /\ a.mark[c] = NoMark
                BY <2>1 DEF AskedIsOld
            <4>3. ~Within(gaps[c], m) /\ ~Within(a.gaps[c], m)
                BY <4>1, <4>2 DEF CopiesInOrder, InOrder, Within
            <4> QED
                BY <2>1, <3>3, <4>2, <4>3 DEF Owes, Oldest
        <3> QED
            BY <3>2, <3>3
    <2> QED
        BY <2>1, <2>2
<1>11. CASE UNCHANGED vars
    <2>1. Kept /\ UNCHANGED <<pc, mark, gaps, newMark, newGaps, asking>>
        BY <1>11 DEF vars, cursorVars, syncVars, teamVars
    <2>2. Saved /\ Copied
        BY <1>a, <2>1, AgreeKept
    <2>3. Less
        BY <1>a, <1>b, <2>1
    <2> QED
        BY <2>2, <2>3
<1> QED
    BY <1>1, <1>2, <1>3, <1>4, <1>5, <1>6, <1>7, <1>8, <1>9, <1>10, <1>11 DEF Next, Sync

\* The inductive invariant holds at the start.
LEMMA InitIInv == Init => IInv
<1> SUFFICES ASSUME Init
             PROVE  IInv
    OBVIOUS
<1> USE DEF Running
<1>1. Cardinality({}) = 0 /\ <<>> \in Seq(Kinds) /\ <<>> \in Seq(Gaps)
      /\ <<>> \in Seq(Conversations) /\ 0 \in 0 .. Budget
    BY FS_EmptySet, EmptySeq, BoundsAssumption
<1>2. TypeOK
    <2>1. /\ posted \in [Conversations -> Seq(Kinds)] /\ horizon \in [Conversations -> Nat]
          /\ scanned \subseteq Conversations \X Nat
          /\ mark \in [Conversations -> Marks] /\ gaps \in [Conversations -> Seq(Gaps)]
          /\ resume \in Conversations \cup {Nowhere}
        BY <1>1 DEF Init, Marks
    <2>2. /\ pc \in {"idle", "next", "backfill"} /\ todo \in Seq(Conversations)
          /\ spent \in 0 .. Budget
          /\ newMark \in [Conversations -> Marks] /\ newGaps \in [Conversations -> Seq(Gaps)]
        BY <1>1 DEF Init, Marks
    <2>3. /\ {known, newKnown} \subseteq BOOLEAN
          /\ Cardinality(asking) <= 1 /\ asking \subseteq Cursors
        <3>1. asking = {} /\ known = FALSE /\ newKnown = FALSE
            BY DEF Init
        <3>2. Cardinality(asking) = 0
            BY <1>1, <3>1
        <3>3. {known, newKnown} \subseteq BOOLEAN
            BY <3>1
        <3> QED
            BY <3>1, <3>2, <3>3
    <2>4. waited \in [Conversations -> Nat] /\ fails \in Nat
        BY DEF Init
    <2> QED
        BY <2>1, <2>2, <2>3, <2>4 DEF TypeOK
<1>3. WithinHistory
    BY DEF Init, WithinHistory, Reached
<1>4. DiscoveryAlone /\ MarksKept /\ AskedIsOld
    BY DEF Init, DiscoveryAlone, MarksKept, AskedIsOld
<1>5. CopiesInOrder
    <2>1. \A c \in Conversations : gaps[c] = <<>>
        BY DEF Init
    <2>2. InOrder(mark, gaps)
        BY <2>1 DEF InOrder
    <2> QED
        BY <2>2 DEF Init, CopiesInOrder
<1>6. DebtsAgree
    BY DEF Init, DebtsAgree
<1>7. TurnsKept
    <2>1. Rotated = Order
        BY DEF Init, Rotated
    <2>2. \A i \in 1 .. Len(Order) : waited[Order[i]] + i - 1 < Len(Order)
        BY OrderIs DEF Init
    <2> QED
        BY <2>1, <2>2 DEF Init, TurnsKept
<1> QED
    BY <1>2, <1>3, <1>4, <1>5, <1>6, <1>7 DEF IInv

\* Every step preserves it.
LEMMA StepIInv == IInv /\ [Next]_vars => IInv'
<1> SUFFICES ASSUME IInv, [Next]_vars
             PROVE  IInv'
    OBVIOUS
<1>1. /\ TypeOK /\ WithinHistory /\ DiscoveryAlone /\ MarksKept /\ AskedIsOld
      /\ CopiesInOrder /\ DebtsAgree /\ TurnsKept
    BY DEF IInv
<1>2. TypeOK'
    BY <1>1, StepTypeOK
<1>3. WithinHistory' /\ DiscoveryAlone' /\ MarksKept' /\ AskedIsOld'
    BY <1>1, StepHistory, StepAlone, StepMarks
<1>4. CopiesInOrder' /\ DebtsAgree'
    BY <1>1, StepOrder, StepDebts
<1>5. TurnsKept'
    BY <1>1, <1>2, StepTurns
<1> QED
    BY <1>2, <1>3, <1>4, <1>5 DEF IInv

----------------------------------------------------------------------------
(* What the inductive invariant gives                                      *)

\* In every reachable state every copy of the cursor, the saved one, the one a
\* sync works on and the one an events worker has read, owes the same unscanned
\* messages, and every conversation has its place in the rounds.
THEOREM InductiveInvariant == Spec => []IInv
<1>1. Init => IInv
    BY InitIInv
<1>2. IInv /\ [Next]_vars => IInv'
    BY StepIInv
<1> QED
    BY <1>1, <1>2, PTL DEF Spec

\* The variables keep their types; a sync never scans more messages than
\* _MAX_MESSAGES_PER_SYNC.
THEOREM TypeCorrect == Spec => []TypeOK
<1>1. IInv => TypeOK
    BY DEF IInv
<1> QED
    BY <1>1, InductiveInvariant, PTL

\* Through the bot's token the gaps of a conversation stay disjoint, ascending
\* and behind its watermark (_slack_scan_conversation).
THEOREM GapsCorrect ==
    ASSUME ~Discovery
    PROVE  Spec => []GapsInOrder
<1>1. IInv => GapsInOrder
    BY DEF IInv, CopiesInOrder, InOrder, GapsInOrder
<1> QED
    BY <1>1, InductiveInvariant, PTL

\* A conversation waits for fewer syncs than there are conversations, whatever
\* budget the others use up (_rotate and resume_at).
THEOREM TurnsCorrect == Spec => []FairTurns
<1>1. IInv => FairTurns
    <2> SUFFICES ASSUME IInv, NEW c \in Conversations
                 PROVE  waited[c] < Len(Order)
        BY DEF FairTurns
    <2>1. PICK j \in 1 .. Len(Order) : Order[j] = c
        BY OrderIs
    <2>2. PICK i \in 1 .. Len(Order) : Rotated[i] = c
        <3>1. PICK k \in 1 .. Len(Order) + 1 : \A x \in 1 .. Len(Order) : Rotated[x] = Ring(k, x)
            BY RotatedIsRound, RoundIs DEF IInv, TypeOK
        <3>2. \E x \in 1 .. Len(Order) : Ring(k, x) = Order[j]
            BY RingMeets
        <3> QED
            BY <2>1, <3>1, <3>2
    <2>3. waited[c] + i - 1 < Len(Order) /\ waited[c] \in Nat
        BY <2>2 DEF IInv, TurnsKept, TypeOK
    <2>4. Len(Order) \in Nat
        BY OrderIs
    <2> QED
        BY <2>3, <2>4
<1> QED
    BY <1>1, InductiveInvariant, PTL

\* A saved watermark of the Discovery scan never moves back and is never
\* forgotten: only the sync that copied it replaces it.
THEOREM MarksCorrect ==
    ASSUME Discovery
    PROVE  Spec => MarksAdvance
<1> DEFINE Advances == \A c \in Conversations :
                           mark[c] # NoMark => mark'[c] # NoMark /\ mark'[c] >= mark[c]
<1>1. IInv /\ [Next]_vars => [Advances]_mark
    <2> SUFFICES ASSUME IInv, [Next]_vars, mark' # mark
                 PROVE  Advances
        OBVIOUS
    <2>1. ~LearnWorkspace
        BY DEF IInv, DiscoveryAlone, LearnWorkspace
    <2>2. Save
        BY <2>1 DEF Next, Sync, StartSync, ReadNew, ReadGap, ConversationDone, GapFails,
                    SkipConversation, NextConversation, SyncLost, AskWorkspace,
                    WorkspaceUnknown, Post, AgeOut, vars, cursorVars
    <2>3. mark' = newMark /\ Running /\ ~known
        BY <2>2 DEF Save, Running, IInv, DiscoveryAlone
    <2> QED
        BY <2>3 DEF IInv, MarksKept
<1> QED
    BY <1>1, InductiveInvariant, PTL DEF Spec, MarksAdvance

----------------------------------------------------------------------------
(* Refinement                                                              *)

AllPosted == Messages(LAMBDA c, m : TRUE)
Debt      == Messages(Owed)
Tracked   == {c \in Conversations : mark[c] # NoMark}

\* The members of the history, before and after a step.
LEMMA MessagesAre ==
    /\ \A x : x \in AllPosted <=> \E c \in Conversations : \E m \in Human(c) : x = <<c, m>>
    /\ \A x : x \in AllPosted' <=> \E c \in Conversations : \E m \in Human(c)' : x = <<c, m>>
BY DEF AllPosted, Messages

\* The members of the debt, before and after a step.
LEMMA DebtIs ==
    /\ \A x : x \in Debt <=> \E c \in Conversations : \E m \in Human(c) :
                                 x = <<c, m>> /\ Owes(c, m, mark, gaps)
    /\ \A x : x \in Debt' <=> \E c \in Conversations : \E m \in Human(c)' :
                                 x = <<c, m>> /\ Owes(c, m, mark, gaps)'
<1>1. \A c, m : Owed(c, m) <=> Owes(c, m, mark, gaps)
    BY DEF Owed, InGap, Owes, Within
<1>2. \A c, m : Owed(c, m)' <=> Owes(c, m, mark, gaps)'
    BY DEF Owed, InGap, Owes, Within
<1>3. \A x : x \in Debt <=> \E c \in Conversations : \E m \in Human(c) :
                                 x = <<c, m>> /\ Owed(c, m)
    BY DEF Debt, Messages
<1>4. \A x : x \in Debt' <=> \E c \in Conversations : \E m \in Human(c)' :
                                 x = <<c, m>> /\ Owed(c, m)'
    BY DEF Debt, Messages
<1> QED
    BY <1>1, <1>2, <1>3, <1>4

\* The abstract actions in terms of the abbreviations.
LEMMA CoverageIs ==
    /\ Coverage!Init <=> AllPosted = {} /\ scanned = {} /\ Debt = {} /\ Tracked = {}
    /\ Coverage!vars = <<AllPosted, scanned, Debt, Tracked>>
    /\ UNCHANGED Coverage!vars <=> UNCHANGED <<AllPosted, scanned, Debt, Tracked>>
BY DEF Coverage!Init, Coverage!vars, AllPosted, Debt, Tracked

\* Nothing is posted or owed at the start.
LEMMA InitCovers == Init => Coverage!Init
<1> SUFFICES ASSUME Init
             PROVE  AllPosted = {} /\ scanned = {} /\ Debt = {} /\ Tracked = {}
    BY CoverageIs
<1>1. \A c \in Conversations : Human(c) = {}
    BY DEF Init, Human
<1> QED
    BY <1>1, MessagesAre, DebtIs DEF Init, Tracked

\* Posts counts every conversation, so none holds more messages than the bound.
LEMMA PostsBound ==
    ASSUME TypeOK, NEW c \in Conversations
    PROVE  Posts \in Nat /\ Len(posted[c]) <= Posts
<1> DEFINE Of(d) == {d} \X (1 .. Len(posted[d]))
           All == UNION {Of(d) : d \in Conversations}
<1>1. \A d \in Conversations : Len(posted[d]) \in Nat
    BY LenProperties DEF TypeOK
<1>2. IsFiniteSet(Conversations)
    <2>1. IsFiniteSet(1 .. Len(Order))
        BY OrderIs, FS_Interval
    <2> DEFINE f == [j \in 1 .. Len(Order) |-> Order[j]]
    <2>2. f \in Surjection(1 .. Len(Order), Conversations)
        BY OrderIs DEF Surjection
    <2> QED
        BY <2>1, <2>2, FS_Surjection
<1>3. \A d \in Conversations : IsFiniteSet(Of(d)) /\ Cardinality(Of(d)) = Len(posted[d])
    <2> SUFFICES ASSUME NEW d \in Conversations
                 PROVE  IsFiniteSet(Of(d)) /\ Cardinality(Of(d)) = Len(posted[d])
        OBVIOUS
    <2>1. IsFiniteSet(1 .. Len(posted[d])) /\ Cardinality(1 .. Len(posted[d])) = Len(posted[d])
        BY <1>1, FS_Interval
    <2>2. IsFiniteSet({d}) /\ Cardinality({d}) = 1
        BY FS_Singleton
    <2>3. IsFiniteSet(Of(d)) /\ Cardinality(Of(d)) = Cardinality({d}) * Cardinality(1 .. Len(posted[d]))
        BY <2>1, <2>2, FS_Product
    <2> QED
        BY <1>1, <2>1, <2>2, <2>3
<1> HIDE DEF Of
<1>4. IsFiniteSet(All)
    <2>1. IsFiniteSet({Of(d) : d \in Conversations})
        <3> DEFINE T == {Of(d) : d \in Conversations}
                   g == [d \in Conversations |-> Of(d)]
        <3>1. g \in Surjection(Conversations, T)
            BY DEF Surjection
        <3> HIDE DEF T, g
        <3>2. IsFiniteSet(T)
            BY <1>2, <3>1, FS_Surjection
        <3> QED
            BY <3>2 DEF T
    <2> QED
        BY <1>3, <2>1, FS_UNION
<1>5. Of(c) \in SUBSET All
    OBVIOUS
<1>6. Cardinality(Of(c)) <= Cardinality(All) /\ Cardinality(All) \in Nat
    BY <1>4, <1>5, FS_Subset, FS_CardinalityType
<1> QED
    BY <1>3, <1>6 DEF Posts, Of

\* A person's message appears in the history and in the cursor's debt.
LEMMA PostCovers ==
    ASSUME TypeOK, WithinHistory, NEW c \in Conversations, Post(c, "human")
    PROVE  \E x \in Coverage!Items : Coverage!Post(x)
<1> DEFINE x == <<c, Len(posted[c]) + 1>>
<1>1. UNCHANGED <<horizon, scanned, mark, gaps>>
    BY DEF Post, cursorVars
<1>2. "human" \in Kinds
    BY BoundsAssumption
<1>3. Len(posted[c]) \in Nat
    BY LenProperties DEF TypeOK
<1>4. x \in Coverage!Items
    <2>1. Len(posted[c]) + 1 \in 1 .. MaxPosts
        BY <1>3, PostsBound, BoundsAssumption DEF Post
    <2> QED
        BY <2>1 DEF Coverage!Items
<1>5. \A d \in Conversations : Human(d) \subseteq Human(d)'
    BY <1>2, PostGrows
<1>6. \A d \in Conversations : \A m \in Human(d)' : m \in Human(d) \/ <<d, m>> = x
    BY <1>2, PostGrows
<1>7. Len(posted[c]) + 1 \in Human(c)'
    BY <1>2, PostGrows
<1>8. x \notin AllPosted
    <2>1. Len(posted[c]) + 1 \notin Human(c)
        BY <1>3 DEF Human
    <2> QED
        BY <2>1, MessagesAre
<1>9. AllPosted' = AllPosted \cup {x}
    <2>1. x \in AllPosted'
        BY <1>7, MessagesAre
    <2>2. \A y \in AllPosted : y \in AllPosted'
        BY <1>5, MessagesAre
    <2>3. \A y \in AllPosted' : y \in AllPosted \/ y = x
        BY <1>6, MessagesAre
    <2> QED
        BY <2>1, <2>2, <2>3
<1>10. \A d, m : Owes(d, m, mark, gaps)' <=> Owes(d, m, mark, gaps)
    BY <1>1 DEF Owes, Oldest
<1>11. Owes(c, Len(posted[c]) + 1, mark, gaps)
    <2>1. horizon[c] \in Nat /\ horizon[c] <= Len(posted[c])
        BY DEF TypeOK, WithinHistory
    <2>2. mark[c] # NoMark => mark[c] \in Nat /\ mark[c] <= Len(posted[c])
        BY DEF TypeOK, WithinHistory, Reached, Marks
    <2>3. Oldest(c, mark) \in Nat /\ Oldest(c, mark) <= Len(posted[c])
        BY <2>1, <2>2 DEF Oldest
    <2> QED
        BY <1>3, <2>3 DEF Owes
<1>12. Debt' = Debt \cup {x}
    <2>1. x \in Debt'
        BY <1>7, <1>10, <1>11, DebtIs
    <2>2. \A y \in Debt : y \in Debt'
        BY <1>5, <1>10, DebtIs
    <2>3. \A y \in Debt' : y \in Debt \/ y = x
        BY <1>6, <1>10, DebtIs
    <2> QED
        BY <2>1, <2>2, <2>3
<1>13. Tracked' = Tracked
    BY <1>1 DEF Tracked
<1>14. Coverage!Post(x)
    BY <1>1, <1>8, <1>9, <1>12, <1>13 DEF Coverage!Post, AllPosted, Debt, Tracked
<1> QED
    BY <1>4, <1>14

\* Two cursors that agree differ in their debt by scanned messages only.
LEMMA AgreeCovers ==
    ASSUME UNCHANGED <<posted, horizon, scanned>>, Agree(mark, gaps, mark', gaps')
    PROVE  /\ AllPosted' = AllPosted
           /\ Debt \ Debt' \subseteq scanned /\ Debt' \ Debt \subseteq scanned
<1>1. \A d : Human(d)' = Human(d)
    BY DEF Human
<1>2. AllPosted' = AllPosted
    BY <1>1, MessagesAre
<1>3. \A d, m : Owes(d, m, mark, gaps)' <=> Owes(d, m, mark', gaps')
    BY DEF Owes, Oldest
<1>4. \A d \in Conversations : \A m \in Human(d) :
          \/ <<d, m>> \in scanned
          \/ Owes(d, m, mark, gaps) <=> Owes(d, m, mark, gaps)'
    BY <1>3 DEF Agree
<1>5. \A x \in Debt : x \in Debt' \/ x \in scanned
    BY <1>1, <1>4, DebtIs
<1>6. \A x \in Debt' : x \in Debt \/ x \in scanned
    BY <1>1, <1>4, DebtIs
<1> QED
    BY <1>2, <1>5, <1>6

\* A read scans what was posted and leaves the saved cursor alone.
LEMMA ReadCovers ==
    ASSUME WithinHistory', UNCHANGED <<posted, horizon, mark, gaps>>, scanned \subseteq scanned'
    PROVE  Coverage!Read
<1>1. AllPosted' = AllPosted /\ Tracked' = Tracked
    BY DEF AllPosted, Messages, Human, Tracked
<1>2. \A c, m : Owes(c, m, mark, gaps)' <=> Owes(c, m, mark, gaps)
    BY DEF Owes, Oldest
<1>3. \A d : Human(d)' = Human(d)
    BY DEF Human
<1>4. Debt' = Debt
    BY <1>2, <1>3, DebtIs
<1>5. scanned' \subseteq AllPosted
    BY <1>1 DEF WithinHistory, AllPosted
<1> QED
    BY <1>1, <1>4, <1>5 DEF Coverage!Read, AllPosted, Debt, Tracked

\* The Discovery scan saves a cursor that owes less by scanned messages only
\* and has every mark of the old one.
LEMMA SaveSettles ==
    ASSUME IInv, Save, Discovery
    PROVE  Coverage!Settle
<1>1. /\ Running /\ mark' = newMark /\ gaps' = newGaps
      /\ UNCHANGED <<posted, horizon, scanned>>
    BY DEF Save, SyncOver, Running
<1>2. Agree(mark, gaps, mark', gaps')
    BY <1>1 DEF IInv, DebtsAgree
<1>3. AllPosted' = AllPosted /\ Debt \ Debt' \subseteq scanned
    BY <1>1, <1>2, AgreeCovers
<1>4. Debt' \subseteq Debt
    <2>1. \A d, m : Owes(d, m, mark, gaps)' <=> Owes(d, m, newMark, newGaps)
        BY <1>1 DEF Owes, Oldest
    <2>2. \A d : Human(d)' = Human(d)
        BY <1>1 DEF Human
    <2>3. \A d \in Conversations : \A m \in Human(d) :
              Owes(d, m, newMark, newGaps) => Owes(d, m, mark, gaps)
        BY <1>1 DEF IInv, DebtsAgree
    <2> QED
        BY <2>1, <2>2, <2>3, DebtIs
<1>5. Tracked \subseteq Tracked' /\ Tracked' \subseteq Conversations
    BY <1>1 DEF Tracked, IInv, MarksKept, DiscoveryAlone
<1> QED
    BY <1>1, <1>3, <1>4, <1>5 DEF Coverage!Settle, AllPosted, Debt, Tracked

\* Through the bot's token a cursor is saved that owes, up to scanned
\* messages, what the old one owes.
LEMMA SaveRewinds ==
    ASSUME IInv, (Save /\ ~Discovery) \/ LearnWorkspace
    PROVE  Coverage!Rewind
<1>1. ~Discovery /\ UNCHANGED <<posted, horizon, scanned>>
    BY DEF IInv, DiscoveryAlone, Save, SyncOver, LearnWorkspace
<1>2. Agree(mark, gaps, mark', gaps')
    <2>1. CASE Save
        BY <2>1 DEF Save, Running, IInv, DebtsAgree
    <2>2. CASE LearnWorkspace
        BY <2>2 DEF LearnWorkspace, IInv, DebtsAgree
    <2> QED
        BY <2>1, <2>2
<1>3. /\ AllPosted' = AllPosted
      /\ Debt \ Debt' \subseteq scanned /\ Debt' \ Debt \subseteq scanned
    BY <1>1, <1>2, AgreeCovers
<1>4. Tracked' \subseteq Conversations
    BY DEF Tracked
<1> QED
    BY <1>1, <1>3, <1>4 DEF Coverage!Rewind, AllPosted, Debt, Tracked

\* Only messages of a conversation without a mark grow too old.
LEMMA AgeOutExpires ==
    ASSUME IInv, NEW c \in Conversations, AgeOut(c)
    PROVE  Coverage!Expire
<1>1. /\ UNCHANGED <<posted, scanned, mark, gaps>> /\ mark[c] = NoMark
      /\ horizon'[c] = horizon[c] + 1 /\ horizon[c] \in Nat
      /\ \A d \in Conversations : d # c => horizon'[d] = horizon[d]
    BY DEF AgeOut, cursorVars, IInv, TypeOK
<1>2. \A d : Human(d)' = Human(d)
    BY <1>1 DEF Human
<1>3. AllPosted' = AllPosted /\ Tracked' = Tracked
    BY <1>1, <1>2, MessagesAre DEF Tracked
<1>4. \A d \in Conversations : \A m \in Human(d) :
          d # c => (Owes(d, m, mark, gaps)' <=> Owes(d, m, mark, gaps))
    BY <1>1 DEF Owes, Oldest
<1>5. \A m \in Human(c) : Owes(c, m, mark, gaps)' => Owes(c, m, mark, gaps)
    <2> SUFFICES ASSUME NEW m \in Human(c), Owes(c, m, mark, gaps)'
                 PROVE  Owes(c, m, mark, gaps)
        OBVIOUS
    <2>1. m \in Nat
        BY DEF Human
    <2>2. m > horizon'[c] \/ Within(gaps[c], m)
        BY <1>1 DEF Owes, Oldest
    <2>3. m > horizon[c] \/ Within(gaps[c], m)
        BY <1>1, <2>1, <2>2
    <2> QED
        BY <1>1, <2>3 DEF Owes, Oldest
<1>6. Debt' \subseteq Debt
    BY <1>2, <1>4, <1>5, DebtIs
<1>7. \A x \in Debt \ Debt' : x[1] \notin Tracked
    <2> SUFFICES ASSUME NEW x \in Debt, x \notin Debt'
                 PROVE  x[1] \notin Tracked
        OBVIOUS
    <2>1. PICK d \in Conversations : \E m \in Human(d) : x = <<d, m>> /\ Owes(d, m, mark, gaps)
        BY DebtIs
    <2>2. d = c
        BY <1>2, <1>4, <2>1, DebtIs
    <2> QED
        BY <1>1, <2>1, <2>2 DEF Tracked
<1> QED
    BY <1>1, <1>3, <1>6, <1>7 DEF Coverage!Expire, AllPosted, Debt, Tracked

\* Every step is one of ScanCoverage's or leaves its variables alone.
LEMMA StepCovers == IInv /\ IInv' /\ [Next]_vars => [Coverage!Next]_(Coverage!vars)
<1> SUFFICES ASSUME IInv, IInv', [Next]_vars
             PROVE  [Coverage!Next]_(Coverage!vars)
    OBVIOUS
<1>0. TypeOK /\ WithinHistory /\ WithinHistory'
    BY DEF IInv
<1>1. ASSUME ReadNew \/ ReadGap PROVE Coverage!Next
    <2>1. UNCHANGED <<posted, horizon, mark, gaps>> /\ scanned \subseteq scanned'
        BY <1>1 DEF ReadNew, ReadGap, Scan, cursorVars
    <2> QED
        BY <1>0, <2>1, ReadCovers DEF Coverage!Next
<1>2. ASSUME Save \/ LearnWorkspace PROVE Coverage!Next
    BY <1>2, SaveSettles, SaveRewinds DEF Coverage!Next
<1>3. ASSUME NEW c \in Conversations, AgeOut(c) PROVE Coverage!Next
    BY <1>3, AgeOutExpires DEF Coverage!Next
<1>4. ASSUME NEW c \in Conversations, Post(c, "human") PROVE Coverage!Next
    BY <1>0, <1>4, PostCovers DEF Coverage!Next
<1>5. ASSUME NEW c \in Conversations, NEW kind \in Kinds, kind # "human", Post(c, kind)
      PROVE  UNCHANGED Coverage!vars
    <2>1. UNCHANGED <<horizon, scanned, mark, gaps>>
        BY <1>5 DEF Post, cursorVars
    <2>2. \A d \in Conversations : Human(d)' = Human(d)
        BY <1>0, <1>5, PostGrows
    <2>3. \A d, m : Owes(d, m, mark, gaps)' <=> Owes(d, m, mark, gaps)
        BY <2>1 DEF Owes, Oldest
    <2>4. AllPosted' = AllPosted
        BY <2>2, MessagesAre
    <2>5. Debt' = Debt
        BY <2>2, <2>3, DebtIs
    <2> QED
        BY <2>1, <2>4, <2>5, CoverageIs DEF Tracked
<1>6. ASSUME \/ StartSync \/ ConversationDone \/ GapFails \/ SkipConversation \/ SyncLost
             \/ AskWorkspace \/ WorkspaceUnknown \/ UNCHANGED vars
      PROVE  UNCHANGED Coverage!vars
    <2>1. UNCHANGED <<posted, horizon, scanned, mark, gaps>>
        BY <1>6 DEF StartSync, ConversationDone, GapFails, SkipConversation, NextConversation,
                    SyncLost, SyncOver, AskWorkspace, WorkspaceUnknown, vars, cursorVars
    <2>2. \A d : Human(d)' = Human(d)
        BY <2>1 DEF Human
    <2>3. \A d, m : Owes(d, m, mark, gaps)' <=> Owes(d, m, mark, gaps)
        BY <2>1 DEF Owes, Oldest
    <2>4. AllPosted' = AllPosted
        BY <2>2, MessagesAre
    <2>5. Debt' = Debt
        BY <2>2, <2>3, DebtIs
    <2> QED
        BY <2>1, <2>4, <2>5, CoverageIs DEF Tracked
<1> QED
    BY <1>1, <1>2, <1>3, <1>4, <1>5, <1>6 DEF Next, Sync

\* A human message leaves the cursor's debt only once it was scanned, through
\* cuts, backfill, failed fetches, lost syncs and syncs that an event's answer
\* undoes, for any conversations, page size and budget.
THEOREM CoverageCorrect == Spec => CoverageSpec
<1>1. Init => Coverage!Init
    BY InitCovers
<1>2. IInv /\ IInv' /\ [Next]_vars => [Coverage!Next]_(Coverage!vars)
    BY StepCovers
<1> QED
    BY <1>1, <1>2, InductiveInvariant, PTL DEF Spec, CoverageSpec, Coverage!Spec
=============================================================================
