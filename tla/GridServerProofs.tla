-------------------------- MODULE GridServerProofs --------------------------
(***************************************************************************)
(* Theorems of GridServer, for every number of nodes and connections       *)
(* (several of one node included), every window and every inference.       *)
(***************************************************************************)
EXTENDS GridServer, WellFoundedInduction, FiniteSetTheorems, TLAPS

(* A session that has not ended was only lowered by full windows, and one  *)
(* that has judged a reading holds it. *)
SessionsOK ==
  \A s \in Sessions :
    /\ pc[s] # "ended" => trust[s] \in {0, 40, 80}
    /\ pc[s] = "judged" => reading[s] # None

(* What the store has of a node was written by a connection of that node. *)
AuthorsOK ==
  \A n \in Nodes : latest[n] # None =>
    Owner[latest[n].by] = n /\ pc[latest[n].by] # "none"

IInv ==
  /\ TypeOK
  /\ SessionsOK
  /\ AuthorsOK
  /\ StoreTracksTrust
  /\ UntrustedOut

LEMMA InitIInv == Init => IInv
  BY GridAssumption DEF Init, IInv, TypeOK, SessionsOK, AuthorsOK, StoreTracksTrust,
     UntrustedOut, NoReadings

LEMMA ReadingsOK ==
  ASSUME NEW n \in Nodes, NEW r \in Readings[n]
  PROVE  r \in [v : Values, p : Values]
  BY GridAssumption

(* What _update_trust leaves of a session that has not ended. *)
LEMMA UpdateTrustKeeps ==
  ASSUME IInv, NEW s \in Sessions, pc[s] # "ended",
         NEW r \in [v : Values, p : Values], UpdateTrust(s, r)
  PROVE  /\ anomalies' \in [Sessions -> 0 .. Window - 1]
         /\ trust' \in [Sessions -> {0, 10, 40, 50, 80}]
         /\ trust'[s] \in {0, 40, 80}
         /\ \A t \in Sessions \ {s} : trust'[t] = trust[t]
<1>1. trust[s] \in {0, 40, 80} /\ anomalies[s] \in 0 .. Window - 1
  BY DEF IInv, TypeOK, SessionsOK
<1>2. CASE Anomalous(Owner[s], r)
  <2>1. /\ anomalies' = [anomalies EXCEPT ![s] =
                           IF anomalies[s] + 1 >= Window THEN 0 ELSE anomalies[s] + 1]
        /\ trust' = [trust EXCEPT ![s] = IF anomalies[s] + 1 >= Window
                                         THEN Lowered(trust[s], 40) ELSE trust[s]]
    BY <1>2 DEF UpdateTrust
  <2>2. Lowered(trust[s], 40) \in {0, 40}
    BY <1>1 DEF Lowered
  <2> QED
    BY <1>1, <2>1, <2>2, GridAssumption DEF IInv, TypeOK
<1>3. CASE ~Anomalous(Owner[s], r)
  <2>1. /\ \E x \in {0, anomalies[s]} : anomalies' = [anomalies EXCEPT ![s] = x]
        /\ trust' = trust
    BY <1>3 DEF UpdateTrust
  <2> QED
    BY <1>1, <2>1, GridAssumption DEF IInv, TypeOK
<1> QED
  BY <1>2, <1>3

(* One step of a session: who else is not concerned. *)
LEMMA SessionStepKeeps ==
  ASSUME IInv, NEW s \in Sessions, SessionStep(s)
  PROVE  IInv'
<1> USE GridAssumption DEF IInv, TypeOK, SessionsOK, AuthorsOK, StoreTracksTrust, UntrustedOut
<1>1. CASE Connect(s)
  BY <1>1 DEF Connect, store, emsVars
<1>2. CASE Judge(s)
  <2>1. PICK r \in Readings[Owner[s]] :
          reading' = [reading EXCEPT ![s] = r] /\ UpdateTrust(s, r)
    BY <1>2 DEF Judge
  <2>2. r \in [v : Values, p : Values] /\ r # None
    <3>1. Owner[s] \in Nodes
      OBVIOUS
    <3>2. Readings[Owner[s]] \subseteq [v : Values, p : Values]
      BY <3>1, ReadingsOK
    <3>3. r \in [v : Values, p : Values]
      BY <2>1, <3>2
    <3> QED
      BY <3>3
  <2>3. /\ anomalies' \in [Sessions -> 0 .. Window - 1]
        /\ trust' \in [Sessions -> {0, 10, 40, 50, 80}]
        /\ trust'[s] \in {0, 40, 80}
        /\ \A t \in Sessions \ {s} : trust'[t] = trust[t]
    BY <1>2, <2>1, <2>2, UpdateTrustKeeps DEF Judge
  <2>4. /\ pc[s] = "idle" /\ pc' = [pc EXCEPT ![s] = "judged"]
        /\ UNCHANGED <<latest, count, ems, snap, setpoint>>
    BY <1>2 DEF Judge, store, emsVars
  <2> QED
    BY <2>1, <2>2, <2>3, <2>4
<1>3. CASE JudgeUnreadable(s)
  BY <1>3 DEF JudgeUnreadable, store, emsVars
<1>4. CASE Record(s)
  <2>1. Entry(s) \in Stored /\ Entry(s) # None
    BY <1>4 DEF Record, Entry, Stored
  <2>2. Entry(s).by = s /\ Entry(s).trust = trust[s]
    BY DEF Entry
  <2> QED
    BY <1>4, <2>1, <2>2 DEF Record, emsVars
<1>5. CASE Answer(s)
  BY <1>5 DEF Answer, store, emsVars
<1>6. CASE SecurityError(s)
  BY <1>6 DEF SecurityError, store, emsVars, Lowered
<1>7. CASE End(s)
  BY <1>7 DEF End, store, emsVars
<1> QED
  BY <1>1, <1>2, <1>3, <1>4, <1>5, <1>6, <1>7 DEF SessionStep

(* The EMS loop writes its own variables only. *)
LEMMA EmsStepKeeps ==
  ASSUME IInv, EmsStep
  PROVE  IInv'
<1> USE DEF IInv, TypeOK, SessionsOK, AuthorsOK, StoreTracksTrust, UntrustedOut
<1>1. CASE Snapshot
  BY <1>1 DEF Snapshot, sessions, store
<1>2. CASE Apply
  BY <1>2 DEF Apply, sessions, store, NoReadings
<1>3. CASE ApplyFails
  BY <1>3 DEF ApplyFails, sessions, store, NoReadings
<1> QED
  BY <1>1, <1>2, <1>3 DEF EmsStep

LEMMA NextKeeps == IInv /\ [Next]_vars => IInv'
<1> SUFFICES ASSUME IInv, [Next]_vars
             PROVE  IInv'
  OBVIOUS
<1>1. CASE \E s \in Sessions : SessionStep(s)
  BY <1>1, SessionStepKeeps
<1>2. CASE EmsStep
  BY <1>2, EmsStepKeeps
<1>3. CASE UNCHANGED vars
  BY <1>3 DEF vars, IInv, TypeOK, SessionsOK, AuthorsOK, StoreTracksTrust, UntrustedOut
<1> QED
  BY <1>1, <1>2, <1>3 DEF Next

(* The inductive invariant of the server's threads. *)
THEOREM Inductive == Spec => []IInv
  BY InitIInv, NextKeeps, PTL DEF Spec

(* Every variable keeps its type; a trust score takes five values.         *)
THEOREM TypeCorrect == Spec => []TypeOK
<1>1. IInv => TypeOK
  BY DEF IInv
<1> QED
  BY <1>1, Inductive, PTL

(* The trust the EMS reads in the store is the one the session's thread    *)
(* has, whenever that thread is between two messages.                      *)
THEOREM StoreTracks == Spec => []StoreTracksTrust
<1>1. IInv => StoreTracksTrust
  BY DEF IInv
<1> QED
  BY <1>1, Inductive, PTL

(* No session takes a message below the threshold of trust.                *)
THEOREM UntrustedGoes == Spec => []UntrustedOut
<1>1. IInv => UntrustedOut
  BY DEF IInv
<1> QED
  BY <1>1, Inductive, PTL

-----------------------------------------------------------------------------
(***************************************************************************)
(* The median: why a reading that is far from it is far from half of the   *)
(* values it is the median of.                                             *)
(***************************************************************************)
(* A set of naturals has a least element. *)
LEMMA LeastOf ==
  ASSUME NEW T, T \subseteq Nat, T # {}
  PROVE  \E x \in T : \A y \in T : x <= y
<1> DEFINE R == {ss \in Nat \X Nat : ss[1] < ss[2]}
<1>1. IsWellFoundedOn(R, Nat)
  BY NatLessThanWellFounded DEF OpToRel
<1>2. \E x \in T : \A y \in T : <<y, x>> \notin R
  <2> HIDE DEF R
  <2> QED
    BY <1>1, WFMin
<1>3. \A x, y \in T : <<y, x>> \notin R => x <= y
  <2> SUFFICES ASSUME NEW x \in T, NEW y \in T, y < x
               PROVE  <<y, x>> \in R
    OBVIOUS
  <2>1. <<y, x>> \in Nat \X Nat /\ <<y, x>>[1] < <<y, x>>[2]
    OBVIOUS
  <2> QED
    BY <2>1
<1> HIDE DEF R
<1> QED
  BY <1>2, <1>3

(* A proper part of a finite set is smaller. *)
LEMMA SmallerPart ==
  ASSUME NEW S, IsFiniteSet(S), NEW T, T \subseteq S
  PROVE  /\ IsFiniteSet(T)
         /\ Cardinality(T) \in Nat /\ Cardinality(S) \in Nat
         /\ Cardinality(T) <= Cardinality(S)
         /\ T # S => Cardinality(T) < Cardinality(S)
  BY FS_Subset, FS_CardinalityType

(* A finite set has an element of the greatest value. *)
LEMMA GreatestOf ==
  ASSUME NEW S, IsFiniteSet(S), S # {}, NEW f \in [S -> Int]
  PROVE  \E k \in S : \A j \in S : f[j] <= f[k]
<1> DEFINE Above(k) == {j \in S : f[j] > f[k]}
           up == [k \in S |-> Cardinality(Above(k))]
           T == {up[k] : k \in S}
<1>1. \A k \in S : up[k] = Cardinality(Above(k)) /\ up[k] \in Nat
  <2> SUFFICES ASSUME NEW k \in S
               PROVE  Cardinality(Above(k)) \in Nat
    OBVIOUS
  <2> QED
    BY SmallerPart
<1>2. PICK k \in S : \A j \in S : up[k] <= up[j]
  <2>1. T \subseteq Nat /\ T # {}
    BY <1>1
  <2>2. \E x \in T : \A y \in T : x <= y
    <3> HIDE DEF T
    <3> QED
      BY <2>1, LeastOf
  <2> HIDE DEF up
  <2> QED
    BY <2>2
<1>3. SUFFICES ASSUME NEW j \in S, f[j] > f[k]
               PROVE  FALSE
  OBVIOUS
<1>4. Above(j) \subseteq Above(k) /\ Above(j) # Above(k)
  <2>1. j \in Above(k) /\ j \notin Above(j)
    BY <1>3
  <2>2. Above(j) \subseteq Above(k)
    BY <1>3
  <2> QED
    BY <2>1, <2>2
<1>5. IsFiniteSet(Above(k))
  BY SmallerPart
<1>6. up[j] < up[k]
  <2>1. Cardinality(Above(j)) < Cardinality(Above(k))
    <3> HIDE DEF Above
    <3> QED
      BY <1>4, <1>5, SmallerPart
  <2> QED
    BY <1>1, <2>1
<1> QED
  BY <1>1, <1>2, <1>6

Under(K, f, x) == {j \in K : f[j] < x}
UpTo(K, f, x) == {j \in K : f[j] <= x}

(* Every rank of a finite set is the rank of one of its elements. *)
LEMMA RankExists ==
  ASSUME NEW K, IsFiniteSet(K), NEW f \in [K -> Int], NEW i \in Nat, i < Cardinality(K)
  PROVE  \E k \in K :
           /\ Cardinality(Under(K, f, f[k])) <= i
           /\ i < Cardinality(UpTo(K, f, f[k]))
<1> USE DEF Under, UpTo
<1> DEFINE below(k) == Under(K, f, f[k])
           upto(k) == UpTo(K, f, f[k])
           Enough == {k \in K : i < Cardinality(upto(k))}
           g == [k \in Enough |-> -f[k]]
<1>1. Enough # {}
  <2>1. K # {}
    BY FS_EmptySet
  <2>2. PICK k \in K : \A j \in K : f[j] <= f[k]
    BY <2>1, GreatestOf
  <2>3. upto(k) = K
    BY <2>2
  <2> QED
    BY <2>3
<1>2. IsFiniteSet(Enough) /\ Enough \subseteq K /\ g \in [Enough -> Int]
  <2>1. Enough \subseteq K
    OBVIOUS
  <2>2. IsFiniteSet(Enough)
    <3> HIDE DEF Enough
    <3> QED
      BY <2>1, SmallerPart
  <2>3. \A k \in Enough : -f[k] \in Int
    BY <2>1
  <2>4. g \in [Enough -> Int]
    <3> HIDE DEF Enough
    <3> QED
      BY <2>3
  <2> QED
    BY <2>1, <2>2, <2>4
<1>3. PICK k \in Enough : \A j \in Enough : f[k] <= f[j]
  <2>1. \E k \in Enough : \A j \in Enough : g[j] <= g[k]
    <3> HIDE DEF Enough, g
    <3> QED
      BY <1>1, <1>2, GreatestOf
  <2>2. PICK k \in Enough : \A j \in Enough : g[j] <= g[k]
    BY <2>1
  <2>3. \A j \in Enough : f[k] <= f[j]
    BY <2>2, <1>2
  <2> QED
    BY <2>3
<1>4. SUFFICES ASSUME ~(Cardinality(below(k)) <= i)
               PROVE  FALSE
  OBVIOUS
<1>5. IsFiniteSet(below(k)) /\ Cardinality(below(k)) \in Nat
  BY SmallerPart
<1>6. below(k) # {}
  BY <1>4, FS_EmptySet
<1>7. PICK m \in below(k) : \A j \in below(k) : f[j] <= f[m]
  <2> DEFINE h == [j \in below(k) |-> f[j]]
  <2>1. h \in [below(k) -> Int]
    OBVIOUS
  <2>2. \E m \in below(k) : \A j \in below(k) : h[j] <= h[m]
    <3> HIDE DEF h, below
    <3> QED
      BY <1>5, <1>6, <2>1, GreatestOf
  <2> QED
    BY <2>2
<1>8. m \in K /\ f[m] < f[k] /\ below(k) \subseteq upto(m)
  BY <1>7
<1>9. IsFiniteSet(upto(m)) /\ Cardinality(upto(m)) \in Nat
  BY SmallerPart
<1>10. i < Cardinality(upto(m))
  <2>1. Cardinality(below(k)) <= Cardinality(upto(m))
    <3> HIDE DEF below, upto
    <3> QED
      BY <1>8, <1>9, SmallerPart
  <2> QED
    BY <1>4, <1>5, <1>9, <2>1
<1>11. m \in Enough
  BY <1>8, <1>10
<1>12. f[k] <= f[m] /\ f[m] < f[k] /\ f[m] \in Int /\ f[k] \in Int
  <2> HIDE DEF Enough
  <2> QED
    BY <1>2, <1>3, <1>8, <1>11
<1> QED
  BY <1>12

(* What the server's i-th smallest voltage is. *)
LEMMA SortedMeans ==
  ASSUME NEW K \in SUBSET Nodes, \A k \in K : latest[k].v \in Int,
         NEW i \in Nat, i < Cardinality(K)
  PROVE  /\ Sorted(K, i) \in Int
         /\ Cardinality({k \in K : latest[k].v < Sorted(K, i)}) <= i
         /\ i < Cardinality({k \in K : latest[k].v <= Sorted(K, i)})
<1> DEFINE Middle(x) == /\ Cardinality({k \in K : latest[k].v < x}) <= i
                        /\ i < Cardinality({k \in K : latest[k].v <= x})
<1>1. IsFiniteSet(K)
  BY GridAssumption, SmallerPart
<1>2. \A k \in K : latest[k].v \in Int
  OBVIOUS
<1>3. PICK f \in [K -> Int] : \A k \in K : f[k] = latest[k].v
  <2>1. [k \in K |-> latest[k].v] \in [K -> Int]
    BY <1>2
  <2> QED
    BY <2>1
<1>4. PICK m \in K : /\ Cardinality(Under(K, f, f[m])) <= i
                     /\ i < Cardinality(UpTo(K, f, f[m]))
  BY <1>1, RankExists
<1>5. Middle(latest[m].v)
  <2>1. /\ Under(K, f, f[m]) = {k \in K : latest[k].v < latest[m].v}
        /\ UpTo(K, f, f[m]) = {k \in K : latest[k].v <= latest[m].v}
    BY <1>3 DEF Under, UpTo
  <2> QED
    BY <1>4, <2>1
<1>6. Sorted(K, i) = CHOOSE x \in {latest[k].v : k \in K} : Middle(x)
  BY DEF Sorted
<1>7. Sorted(K, i) \in {latest[k].v : k \in K} /\ Middle(Sorted(K, i))
  <2> DEFINE V == {latest[k].v : k \in K}
  <2>1. \E x \in V : Middle(x)
    BY <1>5
  <2>2. Sorted(K, i) = CHOOSE x \in V : Middle(x)
    BY <1>6
  <2> HIDE DEF V, Middle
  <2>3. Sorted(K, i) \in V /\ Middle(Sorted(K, i))
    BY <2>1, <2>2
  <2> QED
    BY <2>3 DEF V
<1> QED
  BY <1>2, <1>7

(* A reading more than 0.8 V above the i-th smallest voltage is that far   *)
(* from i + 1 of them, and one that far below it from all but i.           *)
LEMMA FarFromSorted ==
  ASSUME NEW K \in SUBSET Nodes, \A k \in K : latest[k].v \in Int,
         NEW i \in Nat, i < Cardinality(K), NEW r, r.v \in Int
  PROVE  LET far == Cardinality({k \in K : Disagrees(r, k)})
         IN  /\ far \in Nat
             /\ r.v > Sorted(K, i) + 8 => far >= i + 1
             /\ r.v < Sorted(K, i) - 8 => far >= Cardinality(K) - i
<1> DEFINE x == Sorted(K, i)
           D == {k \in K : Disagrees(r, k)}
           Lower == {k \in K : latest[k].v < x}
           NotOver == {k \in K : latest[k].v <= x}
<1>1. IsFiniteSet(K)
  BY GridAssumption, SmallerPart
<1>2. x \in Int /\ Cardinality(Lower) <= i /\ i < Cardinality(NotOver)
  BY SortedMeans
<1>3. r.v \in Int /\ \A k \in K : latest[k].v \in Int
  OBVIOUS
<1>4. D \subseteq K /\ NotOver \subseteq K /\ Lower \subseteq K
  OBVIOUS
<1>5. /\ IsFiniteSet(D) /\ Cardinality(D) \in Nat /\ Cardinality(K) \in Nat
      /\ Cardinality(Lower) \in Nat /\ Cardinality(NotOver) \in Nat
  <2> HIDE DEF D, Lower, NotOver
  <2> QED
    BY <1>1, <1>4, SmallerPart
<1>6. ASSUME r.v > x + 8
      PROVE  Cardinality(D) >= i + 1
  <2>1. NotOver \subseteq D
    <3> HIDE DEF x
    <3> QED
      BY <1>2, <1>3, <1>6 DEF Disagrees, Abs
  <2>2. Cardinality(NotOver) <= Cardinality(D)
    <3> HIDE DEF D, NotOver
    <3> QED
      BY <1>5, <2>1, SmallerPart
  <2> HIDE DEF D, NotOver
  <2> QED
    BY <1>2, <1>5, <2>2
<1>7. ASSUME r.v < x - 8
      PROVE  Cardinality(D) >= Cardinality(K) - i
  <2>1. K \ Lower \subseteq D
    <3> HIDE DEF x
    <3> QED
      BY <1>2, <1>3, <1>7 DEF Disagrees, Abs
  <2> HIDE DEF D, Lower, NotOver
  <2>2. Cardinality(K \ Lower) = Cardinality(K) - Cardinality(Lower)
    <3>1. K \cap Lower = Lower
      BY <1>4
    <3>2. Cardinality(K \ Lower) = Cardinality(K) - Cardinality(K \cap Lower)
      BY <1>1, FS_Difference
    <3> QED
      BY <3>1, <3>2
  <2>3. Cardinality(K \ Lower) <= Cardinality(D)
    BY <1>5, <2>1, SmallerPart
  <2> QED
    BY <1>2, <1>5, <2>2, <2>3
<1> HIDE DEF D, x
<1> QED
  BY <1>5, <1>6, <1>7 DEF D, x

LEMMA AbsOver ==
  ASSUME NEW x \in Int, Abs(x) > 16
  PROVE  x > 16 \/ x < -16
  BY DEF Abs

(* What an anomalous reading says of the other nodes: the median of an odd *)
(* number of them has as many on either side of it, and the mean of the    *)
(* two middle ones is between those two.                                   *)
LEMMA AnomalousMeans ==
  ASSUME NEW n \in Nodes, NEW r, Comparable(n, r), Anomalous(n, r)
  PROVE  /\ Others(n) = {k \in Reported(latest) \ {n} : latest[k].v \in Int}
         /\ Cardinality(Others(n)) >= 2
         /\ 2 * Cardinality({k \in Others(n) : Disagrees(r, k)}) >= Cardinality(Others(n))
<1> DEFINE K == Others(n)
           N == Cardinality(K)
           far == Cardinality({k \in K : Disagrees(r, k)})
<1>1. K \in SUBSET Nodes /\ IsFiniteSet(K)
  <2>1. K \in SUBSET Nodes
    BY DEF Others, Reported
  <2> QED
    BY <2>1, GridAssumption, SmallerPart
<1>2. N \in Nat /\ N >= 2 /\ Abs(2 * r.v - TwiceMedian(K)) > 16 /\ r.v \in Int
      /\ \A k \in K : latest[k].v \in Int
  BY <1>1, FS_CardinalityType DEF Anomalous, Comparable
<1>3. K = {k \in Reported(latest) \ {n} : latest[k].v \in Int}
  <2>1. Absent \notin Int /\ Null \notin Int
    BY GridAssumption
  <2> QED
    BY <1>2, <2>1 DEF Others
<1>4. ASSUME NEW i \in Nat, i < N
      PROVE  /\ Sorted(K, i) \in Int /\ far \in Nat
             /\ r.v > Sorted(K, i) + 8 => far >= i + 1
             /\ r.v < Sorted(K, i) - 8 => far >= N - i
  <2> HIDE DEF K
  <2> QED
    BY <1>1, <1>2, <1>4, SortedMeans, FarFromSorted
<1> HIDE DEF K, N, far
<1>5. ASSUME N % 2 = 0 PROVE 2 * far >= N
  <2>1. PICK h \in Nat : N = 2 * h /\ N \div 2 = h /\ h >= 1
    BY <1>2, <1>5
  <2>2. TwiceMedian(K) = Sorted(K, h - 1) + Sorted(K, h)
    BY <1>5, <2>1 DEF TwiceMedian, N
  <2>3. h - 1 \in Nat /\ h - 1 < N /\ h < N
    BY <2>1
  <2>4. /\ Sorted(K, h - 1) \in Int /\ Sorted(K, h) \in Int /\ far \in Nat
        /\ r.v > Sorted(K, h) + 8 => far >= h + 1
        /\ r.v < Sorted(K, h - 1) - 8 => far >= N - (h - 1)
        /\ r.v > Sorted(K, h - 1) + 8 => far >= h
        /\ r.v < Sorted(K, h) - 8 => far >= N - h
    <3>1. (h - 1) + 1 = h
      BY <2>1
    <3> QED
      BY <1>4, <2>3, <3>1
  <2>5. \/ 2 * r.v - (Sorted(K, h - 1) + Sorted(K, h)) > 16
        \/ 2 * r.v - (Sorted(K, h - 1) + Sorted(K, h)) < -16
    <3>1. 2 * r.v - (Sorted(K, h - 1) + Sorted(K, h)) \in Int
      BY <1>2, <2>4
    <3> QED
      BY <1>2, <2>2, <3>1, AbsOver
  <2>6. CASE 2 * r.v - (Sorted(K, h - 1) + Sorted(K, h)) > 16
    <3>1. r.v > Sorted(K, h - 1) + 8 \/ r.v > Sorted(K, h) + 8
      BY <1>2, <2>4, <2>6
    <3>2. far >= h
      BY <2>1, <2>4, <3>1
    <3> QED
      BY <2>1, <2>4, <3>2
  <2>7. CASE 2 * r.v - (Sorted(K, h - 1) + Sorted(K, h)) < -16
    <3>1. r.v < Sorted(K, h - 1) - 8 \/ r.v < Sorted(K, h) - 8
      BY <1>2, <2>4, <2>7
    <3>2. far >= h
      BY <2>1, <2>4, <3>1
    <3> QED
      BY <2>1, <2>4, <3>2
  <2> QED
    BY <2>5, <2>6, <2>7
<1>6. ASSUME N % 2 # 0 PROVE 2 * far >= N
  <2>1. PICK h \in Nat : N = 2 * h + 1 /\ N \div 2 = h
    BY <1>2, <1>6
  <2>2. TwiceMedian(K) = 2 * Sorted(K, h)
    BY <1>6, <2>1 DEF TwiceMedian, N
  <2>3. h < N
    BY <2>1
  <2>4. /\ Sorted(K, h) \in Int /\ far \in Nat
        /\ r.v > Sorted(K, h) + 8 => far >= h + 1
        /\ r.v < Sorted(K, h) - 8 => far >= N - h
    BY <1>4, <2>3
  <2>5. 2 * r.v - 2 * Sorted(K, h) > 16 \/ 2 * r.v - 2 * Sorted(K, h) < -16
    <3>1. 2 * r.v - 2 * Sorted(K, h) \in Int
      BY <1>2, <2>4
    <3> QED
      BY <1>2, <2>2, <3>1, AbsOver
  <2> QED
    BY <1>2, <2>1, <2>4, <2>5
<1>7. 2 * far >= N
  BY <1>5, <1>6
<1> QED
  BY <1>2, <1>3, <1>7 DEF K, N, far

JudgedByHalf(s) ==
  anomalies'[s] > anomalies[s] \/ (pc[s] = "idle" /\ trust'[s] = trust[s] - 40) =>
    LET K == {k \in Reported(latest) \ {Owner[s]} : latest[k].v \in Int}
    IN  /\ Cardinality(K) >= 2
        /\ 2 * Cardinality({k \in K : Disagrees(reading'[s], k)}) >= Cardinality(K)

(* Of the seven steps of a connection only an anomalous reading counts     *)
(* against it: a security error costs 0.3, which is never a loss of 0.4,   *)
(* and no thread writes the score of another one.                          *)
LEMMA StepNeedsHalf ==
  ASSUME IInv, [Next]_vars, NEW s \in Sessions
  PROVE  JudgedByHalf(s)
<1>1. /\ TypeOK
      /\ trust[s] \in {0, 10, 40, 50, 80} /\ (pc[s] = "idle" => trust[s] \in {0, 40, 80})
      /\ anomalies[s] \in Int
      /\ Owner[s] \in Nodes
  BY GridAssumption DEF IInv, TypeOK, SessionsOK
<1>2. CASE anomalies'[s] = anomalies[s] /\ trust'[s] = trust[s]
  BY <1>1, <1>2 DEF JudgedByHalf
<1>3. CASE Judge(s)
  <2>1. PICK r \in Readings[Owner[s]] :
          /\ Comparable(Owner[s], r)
          /\ reading' = [reading EXCEPT ![s] = r] /\ UpdateTrust(s, r)
    BY <1>3 DEF Judge
  <2>2. reading'[s] = r
    BY <1>1, <2>1 DEF TypeOK
  <2>3. CASE Anomalous(Owner[s], r)
    <3> DEFINE K == {k \in Reported(latest) \ {Owner[s]} : latest[k].v \in Int}
    <3>1. /\ Cardinality(K) >= 2
          /\ 2 * Cardinality({k \in K : Disagrees(r, k)}) >= Cardinality(K)
      <4>1. Others(Owner[s]) = K
        BY <1>1, <2>1, <2>3, AnomalousMeans
      <4> HIDE DEF K
      <4> QED
        BY <1>1, <2>1, <2>3, <4>1, AnomalousMeans
    <3> QED
      BY <2>2, <3>1 DEF JudgedByHalf
  <2>4. CASE ~Anomalous(Owner[s], r)
    <3>1. anomalies'[s] \in {0, anomalies[s]} /\ trust' = trust
      BY <1>1, <2>1, <2>4 DEF UpdateTrust, TypeOK
    <3>2. anomalies[s] \in Nat
      BY GridAssumption DEF IInv, TypeOK
    <3> QED
      BY <1>1, <3>1, <3>2 DEF JudgedByHalf
  <2> QED
    BY <2>3, <2>4
<1>4. CASE SecurityError(s)
  BY <1>1, <1>4 DEF SecurityError, Lowered, TypeOK, JudgedByHalf
<1>5. CASE Connect(s)
  BY <1>1, <1>5 DEF Connect, TypeOK, JudgedByHalf
<1>6. ASSUME NEW t \in Sessions, t # s, SessionStep(t)
      PROVE  anomalies'[s] = anomalies[s] /\ trust'[s] = trust[s]
  BY <1>6, GridAssumption DEF SessionStep, Connect, Judge, JudgeUnreadable, Record, Answer,
     SecurityError, End, UpdateTrust, IInv, TypeOK
<1>7. ASSUME JudgeUnreadable(s) \/ Record(s) \/ Answer(s) \/ End(s)
      PROVE  anomalies' = anomalies /\ trust' = trust
  BY <1>7 DEF JudgeUnreadable, Record, Answer, End
<1>8. ASSUME EmsStep \/ UNCHANGED vars
      PROVE  anomalies' = anomalies /\ trust' = trust
  BY <1>8 DEF EmsStep, Snapshot, Apply, ApplyFails, vars, sessions
<1> QED
  BY <1>2, <1>3, <1>4, <1>5, <1>6, <1>7, <1>8 DEF Next, SessionStep

(* A reading counts against its connection, or costs it 0.4 of its trust,  *)
(* only when half of the other nodes with a voltage, at least two of them, *)
(* disagree with it.                                                       *)
THEOREM HalfMustDisagree == Spec => AnomalyNeedsHalf
<1>1. IInv /\ [Next]_vars => \A s \in Sessions : JudgedByHalf(s)
  BY StepNeedsHalf
<1>2. (\A s \in Sessions : JudgedByHalf(s)) <=>
        \A s \in Sessions :
          anomalies'[s] > anomalies[s] \/ (pc[s] = "idle" /\ trust'[s] = trust[s] - 40) =>
            LET K == {k \in Reported(latest) \ {Owner[s]} : latest[k].v \in Int}
            IN  /\ Cardinality(K) >= 2
                /\ 2 * Cardinality({k \in K : Disagrees(reading'[s], k)}) >= Cardinality(K)
  BY DEF JudgedByHalf
<1> QED
  BY <1>1, <1>2, Inductive, PTL DEF Spec, AnomalyNeedsHalf
=============================================================================
