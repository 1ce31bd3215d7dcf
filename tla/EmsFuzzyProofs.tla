--------------------------- MODULE EmsFuzzyProofs ---------------------------
(***************************************************************************)
(* Theorems of EmsFuzzy for every integer voltage error and demand and     *)
(* every trust score, where TLC has a grid of them.                        *)
(***************************************************************************)
EXTENDS MCEmsFuzzy, WellFoundedInduction, TLAPS

-----------------------------------------------------------------------------
(***************************************************************************)
(* Least and greatest elements, and induction over the naturals.           *)
(***************************************************************************)
(* A set of naturals has a least element. *)
LEMMA LeastOf ==
  ASSUME NEW T, T \subseteq Nat, T # {}
  PROVE  \E x \in T : \A y \in T : x <= y
<1> DEFINE R == {ss \in Nat \X Nat : ss[1] < ss[2]}
<1>1. IsWellFoundedOn(R, Nat)
  BY NatLessThanWellFounded DEF OpToRel
<1>2. \E x \in T : \A y \in T : <<y, x>> \notin R
  <2> HIDE DEF R
  <2> QED
    BY <1>1, WFMin
<1>3. \A x, y \in T : <<y, x>> \notin R => x <= y
  <2> SUFFICES ASSUME NEW x \in T, NEW y \in T, y < x
               PROVE  <<y, x>> \in R
    OBVIOUS
  <2>1. <<y, x>> \in Nat \X Nat /\ <<y, x>>[1] < <<y, x>>[2]
    OBVIOUS
  <2> QED
    BY <2>1
<1> HIDE DEF R
<1> QED
  BY <1>2, <1>3

(* A set with 0 and the successors of its members has every natural. *)
LEMMA SetInduction ==
  ASSUME NEW S, 0 \in S, \A n \in Nat : n \in S => n + 1 \in S
  PROVE  Nat \subseteq S
<1> DEFINE T == Nat \ S
<1>1. SUFFICES ASSUME T # {}
               PROVE  FALSE
  OBVIOUS
<1>2. PICK x \in T : \A y \in T : x <= y
  BY <1>1, LeastOf
<1>3. x # 0 /\ x - 1 \in Nat /\ x - 1 \in S
  BY <1>2
<1> QED
  BY <1>2, <1>3

Degrees == 0 .. Scale

(* Min and Max of a set of membership degrees are what they say. *)
LEMMA MinMeans ==
  ASSUME NEW S, S \subseteq Degrees, S # {}
  PROVE  Min(S) \in S /\ \A x \in S : Min(S) <= x
<1>1. S \subseteq Nat
  BY DEF Degrees, Scale
<1>2. \E x \in S : \A y \in S : x <= y
  BY <1>1, LeastOf
<1> QED
  BY <1>2 DEF Min

LEMMA MaxMeans ==
  ASSUME NEW S, S \subseteq Degrees, S # {}
  PROVE  Max(S) \in S /\ \A x \in S : x <= Max(S)
<1> DEFINE T == {Scale - x : x \in S}
<1>1. T \subseteq Nat /\ T # {}
  <2>1. \A x \in S : Scale - x \in Nat
    BY DEF Degrees, Scale
  <2> QED
    BY <2>1
<1>2. PICK t \in T : \A u \in T : t <= u
  <2> HIDE DEF T
  <2> QED
    BY <1>1, LeastOf
<1>3. PICK x \in S : t = Scale - x
  BY <1>2
<1>4. \A y \in S : x >= y
  <2> SUFFICES ASSUME NEW y \in S
               PROVE  x >= y
    OBVIOUS
  <2>1. Scale - x <= Scale - y
    BY <1>2, <1>3
  <2> QED
    BY <2>1 DEF Degrees, Scale
<1>5. Max(S) \in S /\ \A y \in S : Max(S) >= y
  BY <1>4 DEF Max
<1> QED
  BY <1>5 DEF Degrees, Scale

-----------------------------------------------------------------------------
(***************************************************************************)
(* sum().                                                                  *)
(***************************************************************************)
(* The recursion of the partial sums has a solution. *)
LEMMA SumsExists ==
  ASSUME NEW f \in [Universe -> Int]
  PROVE  \E s \in [-1 .. 200 -> Int] :
           s = [y \in -1 .. 200 |-> IF y < 0 THEN 0 ELSE s[y - 1] + f[y]]
<1> DEFINE Part(s, n) == /\ s \in [-1 .. n -> Int]
                         /\ s = [y \in -1 .. n |-> IF y < 0 THEN 0 ELSE s[y - 1] + f[y]]
           S == {n \in Nat : n <= 201 => \E s : Part(s, n - 1)}
<1>1. 0 \in S
  <2>1. Part([y \in -1 .. -1 |-> 0], -1)
    OBVIOUS
  <2> HIDE DEF Part
  <2> QED
    BY <2>1
<1>2. ASSUME NEW n \in Nat, n \in S
      PROVE  n + 1 \in S
  <2> SUFFICES ASSUME n + 1 <= 201
               PROVE  \E r : Part(r, n)
    OBVIOUS
  <2>1. PICK s : Part(s, n - 1)
    <3> HIDE DEF Part
    <3> QED
      BY <1>2
  <2>2. \A y \in -1 .. n - 1 : s[y] = IF y < 0 THEN 0 ELSE s[y - 1] + f[y]
    BY <2>1
  <2>3. \A y \in -1 .. n - 1 : s[y] \in Int
    BY <2>1
  <2>4. n \in Universe
    BY DEF Universe
  <2>5. f[n] \in Int /\ s[n - 1] \in Int
    BY <2>3, <2>4
  <2> DEFINE r == [y \in -1 .. n |-> IF y = n THEN s[n - 1] + f[n] ELSE s[y]]
  <2>6. r \in [-1 .. n -> Int]
    BY <2>3, <2>5
  <2>7. \A y \in -1 .. n : r[y] = IF y < 0 THEN 0 ELSE r[y - 1] + f[y]
    <3> SUFFICES ASSUME NEW y \in -1 .. n
                 PROVE  r[y] = IF y < 0 THEN 0 ELSE r[y - 1] + f[y]
      OBVIOUS
    <3>1. CASE y = n
      BY <3>1, <2>5
    <3>2. CASE y # n
      BY <3>2, <2>2
    <3> QED
      BY <3>1, <3>2
  <2>8. Part(r, n)
    <3> HIDE DEF r
    <3> QED
      BY <2>6, <2>7
  <2> HIDE DEF r, Part
  <2> QED
    BY <2>8
<1>3. 201 \in S
  <2> HIDE DEF S
  <2> QED
    BY <1>1, <1>2, SetInduction
<1>4. PICK s : Part(s, 200)
  <2> HIDE DEF Part
  <2>1. \E s : Part(s, 201 - 1)
    BY <1>3
  <2>2. 201 - 1 = 200
    OBVIOUS
  <2> QED
    BY <2>1, <2>2
<1> QED
  BY <1>4

(* What the partial sums are. *)
LEMMA SumsMeans ==
  ASSUME NEW f \in [Universe -> Int]
  PROVE  /\ Sums(f) \in [-1 .. 200 -> Int]
         /\ Sums(f)[-1] = 0
         /\ \A y \in Universe : Sums(f)[y] = Sums(f)[y - 1] + f[y]
<1> DEFINE Solves(s) == s = [y \in -1 .. 200 |-> IF y < 0 THEN 0 ELSE s[y - 1] + f[y]]
<1>1. PICK s \in [-1 .. 200 -> Int] : Solves(s)
  BY SumsExists
<1>2. Sums(f) = CHOOSE r : Solves(r)
  BY DEF Sums
<1>3. Solves(Sums(f))
  <2> HIDE DEF Solves
  <2> QED
    BY <1>1, <1>2
<1>4. \A y \in -1 .. 200 : Sums(f)[y] = IF y < 0 THEN 0 ELSE Sums(f)[y - 1] + f[y]
  BY <1>3
<1>5. \A y \in Universe : Sums(f)[y] = Sums(f)[y - 1] + f[y] /\ f[y] \in Int
  <2> SUFFICES ASSUME NEW y \in Universe
               PROVE  Sums(f)[y] = Sums(f)[y - 1] + f[y] /\ f[y] \in Int
    OBVIOUS
  <2>1. y \in -1 .. 200 /\ ~(y < 0)
    BY DEF Universe
  <2> QED
    BY <1>4, <2>1
<1>9. Sums(f)[-1] = 0
  <2>1. ASSUME NEW y \in -1 .. 200, y < 0
        PROVE  Sums(f)[y] = 0
    BY <1>4, <2>1
  <2> QED
    BY <2>1
<1>6. DOMAIN Sums(f) = -1 .. 200 /\ Sums(f) = [y \in -1 .. 200 |-> Sums(f)[y]]
  BY <1>3
<1>7. \A y \in -1 .. 200 : Sums(f)[y] \in Int
  <2> DEFINE S == {n \in Nat : n <= 201 => Sums(f)[n - 1] \in Int}
  <2>1. 0 \in S
    <3>1. Sums(f)[0 - 1] \in Int
      BY <1>9
    <3> QED
      BY <3>1
  <2>2. ASSUME NEW n \in Nat, n \in S
        PROVE  n + 1 \in S
    <3> SUFFICES ASSUME n + 1 <= 201
                 PROVE  Sums(f)[n] \in Int
      OBVIOUS
    <3>1. Sums(f)[n - 1] \in Int
      BY <2>2
    <3>2. n \in Universe
      BY DEF Universe
    <3> QED
      BY <1>5, <3>1, <3>2
  <2>3. Nat \subseteq S
    <3> HIDE DEF S
    <3> QED
      BY <2>1, <2>2, SetInduction
  <2>4. ASSUME NEW y \in -1 .. 200
        PROVE  Sums(f)[y] \in Int
    <3>1. y + 1 \in Nat /\ y + 1 <= 201 /\ (y + 1) - 1 = y
      OBVIOUS
    <3>2. y + 1 \in S
      <4> HIDE DEF S
      <4> QED
        BY <2>3, <3>1
    <3>3. Sums(f)[(y + 1) - 1] \in Int
      BY <3>1, <3>2
    <3> QED
      BY <3>1, <3>3
  <2> QED
    BY <2>4
<1>8. Sums(f) \in [-1 .. 200 -> Int]
  BY <1>6, <1>7
<1> QED
  BY <1>5, <1>8, <1>9

-----------------------------------------------------------------------------
(***************************************************************************)
(* The memberships.                                                        *)
(***************************************************************************)
(* The quotient of two naturals. *)
LEMMA Quotient ==
  ASSUME NEW u \in Nat, NEW w \in Nat \ {0}
  PROVE  /\ u \div w \in Nat
         /\ w * (u \div w) <= u
         /\ u < w * (u \div w + 1)
  OBVIOUS

(* On a slope a membership is strictly between none and full. *)
LEMMA Slope ==
  ASSUME NEW u \in Nat, NEW w \in Nat, 0 < u, u < w, w <= Scale
  PROVE  (u * Scale) \div w \in 1 .. Scale
<1> DEFINE q == (u * Scale) \div w
<1>1. q \in Nat /\ w * q <= u * Scale /\ u * Scale < w * (q + 1)
  BY Quotient DEF Scale
<1> HIDE DEF q
<1>2. q # 0
  <2>1. CASE q = 0
    <3>1. w * (q + 1) = w
      BY <2>1
    <3> QED
      BY <1>1, <3>1 DEF Scale
  <2> QED
    BY <2>1
<1>3. q <= Scale
  <2>1. CASE q >= Scale + 1
    <3>1. w * q >= w * (Scale + 1)
      BY <1>1, <2>1 DEF Scale
    <3> QED
      BY <1>1, <3>1 DEF Scale
  <2> QED
    BY <1>1, <2>1 DEF Scale
<1>4. q \in 1 .. Scale
  BY <1>1, <1>2, <1>3 DEF Scale
<1> QED
  BY <1>4 DEF q

(* A shape whose slopes are at most Scale wide is a degree, and not zero   *)
(* exactly between its outer corners.                                      *)
LEMMA MembershipMeans ==
  ASSUME NEW x \in Int, NEW a \in Int, NEW b \in Int, NEW c \in Int, NEW d \in Int,
         a <= b, b <= c, c <= d, b - a <= Scale, d - c <= Scale
  PROVE  /\ Membership(x, a, b, c, d) \in Degrees
         /\ Membership(x, a, b, c, d) > 0 <=> a < x /\ x < d
<1>1. CASE x <= a \/ x >= d
  BY <1>1 DEF Membership, Degrees, Scale
<1>2. CASE a < x /\ x < d /\ x >= b /\ x <= c
  <2>1. ~(x <= a \/ x >= d) /\ ~(x < b)
    BY <1>2
  <2>2. Membership(x, a, b, c, d) = Scale
    BY <1>2, <2>1 DEF Membership
  <2> QED
    BY <1>2, <2>2 DEF Degrees, Scale
<1>3. CASE a < x /\ x < d /\ x < b
  <2>1. Membership(x, a, b, c, d) = ((x - a) * Scale) \div (b - a)
    BY <1>3 DEF Membership
  <2>2. ((x - a) * Scale) \div (b - a) \in 1 .. Scale
    BY <1>3, Slope
  <2> QED
    BY <1>3, <2>1, <2>2 DEF Degrees, Scale
<1>4. CASE a < x /\ x < d /\ x > c
  <2>1. Membership(x, a, b, c, d) = ((d - x) * Scale) \div (d - c)
    BY <1>4 DEF Membership
  <2>2. ((d - x) * Scale) \div (d - c) \in 1 .. Scale
    BY <1>4, Slope
  <2> QED
    BY <1>4, <2>1, <2>2 DEF Degrees, Scale
<1> QED
  BY <1>1, <1>2, <1>3, <1>4

(* Where each input set reaches. *)
LEMMA VbeMeans ==
  ASSUME NEW x \in Int
  PROVE  /\ \A j \in 1 .. 3 : Vbe(x)[j] \in Degrees
         /\ Vbe(x)[1] > 0 <=> -30 < x /\ x < -2
         /\ Vbe(x)[2] > 0 <=> -8 < x /\ x < 8
         /\ Vbe(x)[3] > 0 <=> 2 < x /\ x < 30
<1>1. /\ Vbe(x)[1] \in Degrees /\ (Vbe(x)[1] > 0 <=> -30 < x /\ x < -2)
      /\ Vbe(x)[2] \in Degrees /\ (Vbe(x)[2] > 0 <=> -8 < x /\ x < 8)
      /\ Vbe(x)[3] \in Degrees /\ (Vbe(x)[3] > 0 <=> 2 < x /\ x < 30)
  <2>1. Vbe(x)[1] \in Degrees /\ (Vbe(x)[1] > 0 <=> -30 < x /\ x < -2)
    BY MembershipMeans DEF Vbe, Scale
  <2>2. Vbe(x)[2] \in Degrees /\ (Vbe(x)[2] > 0 <=> -8 < x /\ x < 8)
    BY MembershipMeans DEF Vbe, Scale
  <2>3. Vbe(x)[3] \in Degrees /\ (Vbe(x)[3] > 0 <=> 2 < x /\ x < 30)
    BY MembershipMeans DEF Vbe, Scale
  <2> QED
    BY <2>1, <2>2, <2>3
<1>2. 1 .. 3 = {1, 2, 3}
  OBVIOUS
<1> QED
  BY <1>1, <1>2

LEMMA PdMeans ==
  ASSUME NEW x \in Int
  PROVE  /\ \A k \in 1 .. 3 : Pd(x)[k] \in Degrees
         /\ Pd(x)[1] > 0 <=> -10 < x /\ x < 40
         /\ Pd(x)[2] > 0 <=> 20 < x /\ x < 80
         /\ Pd(x)[3] > 0 <=> 60 < x /\ x < 150
<1>1. /\ Pd(x)[1] \in Degrees /\ (Pd(x)[1] > 0 <=> -10 < x /\ x < 40)
      /\ Pd(x)[2] \in Degrees /\ (Pd(x)[2] > 0 <=> 20 < x /\ x < 80)
      /\ Pd(x)[3] \in Degrees /\ (Pd(x)[3] > 0 <=> 60 < x /\ x < 150)
  <2>1. Pd(x)[1] \in Degrees /\ (Pd(x)[1] > 0 <=> -10 < x /\ x < 40)
    BY MembershipMeans DEF Pd, Scale
  <2>2. Pd(x)[2] \in Degrees /\ (Pd(x)[2] > 0 <=> 20 < x /\ x < 80)
    BY MembershipMeans DEF Pd, Scale
  <2>3. Pd(x)[3] \in Degrees /\ (Pd(x)[3] > 0 <=> 60 < x /\ x < 150)
    BY MembershipMeans DEF Pd, Scale
  <2> QED
    BY <2>1, <2>2, <2>3
<1>2. 1 .. 3 = {1, 2, 3}
  OBVIOUS
<1> QED
  BY <1>1, <1>2

LEMMA TrustMeans ==
  ASSUME NEW x \in 0 .. 100
  PROVE  /\ \A i \in 1 .. 3 : Trust(x)[i] \in Degrees
         /\ Trust(x)[1] > 0 <=> x < 30
         /\ Trust(x)[2] > 0 <=> 20 < x /\ x < 75
         /\ Trust(x)[3] > 0 <=> 65 < x
<1>0. x \in Int
  OBVIOUS
<1>1. /\ Trust(x)[1] \in Degrees /\ (Trust(x)[1] > 0 <=> -10 < x /\ x < 30)
      /\ Trust(x)[2] \in Degrees /\ (Trust(x)[2] > 0 <=> 20 < x /\ x < 75)
      /\ Trust(x)[3] \in Degrees /\ (Trust(x)[3] > 0 <=> 65 < x /\ x < 110)
  <2>1. Trust(x)[1] \in Degrees /\ (Trust(x)[1] > 0 <=> -10 < x /\ x < 30)
    BY <1>0, MembershipMeans DEF Trust, Scale
  <2>2. Trust(x)[2] \in Degrees /\ (Trust(x)[2] > 0 <=> 20 < x /\ x < 75)
    BY <1>0, MembershipMeans DEF Trust, Scale
  <2>3. Trust(x)[3] \in Degrees /\ (Trust(x)[3] > 0 <=> 65 < x /\ x < 110)
    BY <1>0, MembershipMeans DEF Trust, Scale
  <2> QED
    BY <2>1, <2>2, <2>3
<1>2. 1 .. 3 = {1, 2, 3}
  OBVIOUS
<1> QED
  BY <1>1, <1>2

-----------------------------------------------------------------------------
(***************************************************************************)
(* The rules.                                                              *)
(***************************************************************************)
Labels == {"ZERO", "LOW", "MED", "HIGH", "MAX"}
Antecedents == (1 .. 3) \X (1 .. 3) \X (1 .. 3)

LEMMA RuleLabels ==
  /\ \A i, j, k \in 1 .. 3 : Rules[i][j][k] \in Labels
  /\ \A j, k \in 1 .. 3 : Rules[1][j][k] = "ZERO"
<1>1. 1 .. 3 = {1, 2, 3}
  OBVIOUS
<1>2. \A i, j, k \in {1, 2, 3} : Rules[i][j][k] \in Labels
  BY DEF Rules, Labels
<1>3. \A j, k \in {1, 2, 3} : Rules[1][j][k] = "ZERO"
  BY DEF Rules
<1> QED
  BY <1>1, <1>2, <1>3

LEMMA OutLabels == DOMAIN Out = Labels
  BY DEF Out, Labels

(* Rule (i, j, k) concludes l, and each of its antecedents is met. *)
RuleFires(x, w, t, l, i, j, k) ==
  /\ Rules[i][j][k] = l
  /\ Trust(t)[i] > 0 /\ Vbe(x)[j] > 0 /\ Pd(w)[k] > 0

(* The least of three degrees is positive exactly if all three are. *)
LEMMA LeastPositive ==
  ASSUME NEW a \in Int, NEW b \in Int, NEW c \in Int, NEW m \in Int,
         m <= a, m <= b, m <= c, m = a \/ m = b \/ m = c
  PROVE  m > 0 <=> a > 0 /\ b > 0 /\ c > 0
  OBVIOUS

(* A label gets strength exactly if one of its rules fires. *)
LEMMA StrengthMeans ==
  ASSUME NEW x \in Int, NEW w \in Int, NEW t \in 0 .. 100, NEW l \in Labels
  PROVE  /\ Strength(x, w, t, l) \in Degrees
         /\ Strength(x, w, t, l) > 0 <=>
              \E i, j, k \in 1 .. 3 : RuleFires(x, w, t, l, i, j, k)
<1> USE DEF RuleFires
<1> DEFINE R == {r \in Antecedents : Rules[r[1]][r[2]][r[3]] = l}
           F(r) == {Trust(t)[r[1]], Vbe(x)[r[2]], Pd(w)[r[3]]}
           D == {Min(F(r)) : r \in R}
<1>1. Strength(x, w, t, l) = Max({0} \cup D)
  BY DEF Strength, Antecedents
<1>2. ASSUME NEW r \in Antecedents
      PROVE  /\ r[1] \in 1 .. 3 /\ r[2] \in 1 .. 3 /\ r[3] \in 1 .. 3
             /\ F(r) \subseteq Degrees /\ F(r) # {}
             /\ Min(F(r)) \in Degrees
             /\ Min(F(r)) > 0 <=>
                  Trust(t)[r[1]] > 0 /\ Vbe(x)[r[2]] > 0 /\ Pd(w)[r[3]] > 0
  <2>1. r[1] \in 1 .. 3 /\ r[2] \in 1 .. 3 /\ r[3] \in 1 .. 3
    BY DEF Antecedents
  <2>2. Trust(t)[r[1]] \in Degrees /\ Vbe(x)[r[2]] \in Degrees /\ Pd(w)[r[3]] \in Degrees
    BY <2>1, TrustMeans, VbeMeans, PdMeans
  <2>3. F(r) \subseteq Degrees /\ F(r) # {}
    BY <2>2
  <2>4. Min(F(r)) \in F(r) /\ \A y \in F(r) : Min(F(r)) <= y
    <3> HIDE DEF F
    <3> QED
      BY <2>3, MinMeans
  <2>5. /\ Min(F(r)) <= Trust(t)[r[1]] /\ Min(F(r)) <= Vbe(x)[r[2]]
        /\ Min(F(r)) <= Pd(w)[r[3]]
        /\ \/ Min(F(r)) = Trust(t)[r[1]] \/ Min(F(r)) = Vbe(x)[r[2]]
           \/ Min(F(r)) = Pd(w)[r[3]]
    BY <2>4
  <2>6. Min(F(r)) \in Degrees
    <3> HIDE DEF F
    <3> QED
      BY <2>3, <2>4
  <2>7. Degrees \subseteq Int
    BY DEF Degrees, Scale
  <2>8. Min(F(r)) > 0 <=>
          Trust(t)[r[1]] > 0 /\ Vbe(x)[r[2]] > 0 /\ Pd(w)[r[3]] > 0
    <3>1. /\ Trust(t)[r[1]] \in Int /\ Vbe(x)[r[2]] \in Int
          /\ Pd(w)[r[3]] \in Int /\ Min(F(r)) \in Int
      BY <2>2, <2>6, <2>7
    <3> HIDE DEF F
    <3> QED
      BY <2>5, <3>1, LeastPositive
  <2> QED
    BY <2>1, <2>3, <2>6, <2>8
<1>3. {0} \cup D \subseteq Degrees /\ {0} \cup D # {}
  <2>1. D \subseteq Degrees
    <3> HIDE DEF F
    <3> QED
      BY <1>2
  <2>2. 0 \in Degrees
    BY DEF Degrees, Scale
  <2> HIDE DEF D
  <2> QED
    BY <2>1, <2>2
<1>4. /\ Strength(x, w, t, l) \in {0} \cup D
      /\ \A y \in {0} \cup D : y <= Strength(x, w, t, l)
  <2> HIDE DEF D
  <2> QED
    BY <1>1, <1>3, MaxMeans
<1>5. ASSUME Strength(x, w, t, l) > 0
      PROVE  \E i, j, k \in 1 .. 3 : RuleFires(x, w, t, l, i, j, k)
  <2>1. Strength(x, w, t, l) \in D
    <3> HIDE DEF D
    <3> QED
      BY <1>4, <1>5
  <2>2. PICK r \in R : Min(F(r)) > 0
    BY <1>5, <2>1
  <2> HIDE DEF F
  <2> QED
    BY <1>2, <2>2
<1>6. ASSUME NEW i \in 1 .. 3, NEW j \in 1 .. 3, NEW k \in 1 .. 3,
             RuleFires(x, w, t, l, i, j, k)
      PROVE  Strength(x, w, t, l) > 0
  <2>1. <<i, j, k>> \in Antecedents /\ <<i, j, k>> \in R
    BY <1>6 DEF Antecedents
  <2>2. Min(F(<<i, j, k>>)) > 0 /\ Min(F(<<i, j, k>>)) \in Degrees
    BY <1>2, <1>6, <2>1
  <2>3. Min(F(<<i, j, k>>)) \in D
    <3> HIDE DEF F
    <3> QED
      BY <2>1
  <2> HIDE DEF D, F
  <2> QED
    BY <1>3, <1>4, <2>2, <2>3 DEF Degrees, Scale
<1>7. Strength(x, w, t, l) \in Degrees
  <2> HIDE DEF D
  <2> QED
    BY <1>3, <1>4
<1> HIDE DEF RuleFires
<1> QED
  BY <1>5, <1>6, <1>7

(* Between them the rules cover the reach of the input sets: some label    *)
(* has a rule that fires exactly if the bus is within it.                  *)
LEMMA SomeRuleFires ==
  ASSUME NEW x \in Int, NEW w \in Int, NEW t \in 0 .. 100
  PROVE  (\E l \in Labels : Strength(x, w, t, l) > 0)
           <=> x \in -29 .. 29 /\ w \in -9 .. 149
<1>1. (\E j \in 1 .. 3 : Vbe(x)[j] > 0) <=> x \in -29 .. 29
  <2>1. (\E j \in {1, 2, 3} : Vbe(x)[j] > 0) <=> x \in -29 .. 29
    BY VbeMeans
  <2>2. 1 .. 3 = {1, 2, 3}
    OBVIOUS
  <2> QED
    BY <2>1, <2>2
<1>2. (\E k \in 1 .. 3 : Pd(w)[k] > 0) <=> w \in -9 .. 149
  <2>1. (\E k \in {1, 2, 3} : Pd(w)[k] > 0) <=> w \in -9 .. 149
    BY PdMeans
  <2>2. 1 .. 3 = {1, 2, 3}
    OBVIOUS
  <2> QED
    BY <2>1, <2>2
<1>3. \E i \in 1 .. 3 : Trust(t)[i] > 0
  <2>1. t \in Int /\ (t < 30 \/ (20 < t /\ t < 75) \/ 65 < t)
    OBVIOUS
  <2>2. Trust(t)[1] > 0 \/ Trust(t)[2] > 0 \/ Trust(t)[3] > 0
    BY <2>1, TrustMeans
  <2> QED
    BY <2>2
<1>4. ASSUME x \in -29 .. 29, w \in -9 .. 149
      PROVE  \E l \in Labels : Strength(x, w, t, l) > 0
  <2>1. PICK i \in 1 .. 3, j \in 1 .. 3, k \in 1 .. 3 :
          Trust(t)[i] > 0 /\ Vbe(x)[j] > 0 /\ Pd(w)[k] > 0
    BY <1>1, <1>2, <1>3, <1>4
  <2>2. Rules[i][j][k] \in Labels
    BY RuleLabels
  <2>3. Strength(x, w, t, Rules[i][j][k]) > 0
    BY <2>1, <2>2, StrengthMeans DEF RuleFires
  <2> QED
    BY <2>2, <2>3
<1>5. ASSUME NEW l \in Labels, Strength(x, w, t, l) > 0
      PROVE  x \in -29 .. 29 /\ w \in -9 .. 149
  <2>1. PICK i \in 1 .. 3, j \in 1 .. 3, k \in 1 .. 3 : RuleFires(x, w, t, l, i, j, k)
    <3> HIDE DEF RuleFires
    <3> QED
      BY <1>5, StrengthMeans
  <2>2. Vbe(x)[j] > 0 /\ Pd(w)[k] > 0
    BY <2>1 DEF RuleFires
  <2> QED
    BY <1>1, <1>2, <2>2
<1> QED
  BY <1>4, <1>5

-----------------------------------------------------------------------------
(***************************************************************************)
(* The united output sets.                                                 *)
(***************************************************************************)
LEMMA OutMeans ==
  /\ \A y \in Universe, l \in Labels : OutMembership(y, l) \in Degrees
  /\ \A l \in Labels :
       Out[l][2] \in Universe /\ OutMembership(Out[l][2], l) = Scale
  /\ \A l \in Labels \ {"ZERO"} : OutMembership(0, l) = 0
  /\ \A y \in Universe : OutMembership(y, "ZERO") = IF y < 20 THEN 6 * (20 - y) ELSE 0
<1>1. ASSUME NEW y \in Universe, NEW l \in Labels
      PROVE  /\ OutMembership(y, l) \in Degrees
             /\ OutMembership(y, l) > 0 <=> Out[l][1] < y /\ y < Out[l][3]
  <2>1. /\ Out[l][1] \in Int /\ Out[l][2] \in Int /\ Out[l][3] \in Int
        /\ Out[l][1] <= Out[l][2] /\ Out[l][2] <= Out[l][3]
        /\ Out[l][2] - Out[l][1] <= Scale /\ Out[l][3] - Out[l][2] <= Scale
    BY DEF Out, Labels, Scale
  <2>2. y \in Int
    BY DEF Universe
  <2>3. LET m == Membership(y, Out[l][1], Out[l][2], Out[l][2], Out[l][3])
        IN  m \in Degrees /\ (m > 0 <=> Out[l][1] < y /\ y < Out[l][3])
    <3> DEFINE a == Out[l][1]
               b == Out[l][2]
               c == Out[l][3]
    <3>1. /\ a \in Int /\ b \in Int /\ c \in Int
          /\ a <= b /\ b <= c /\ b - a <= Scale /\ c - b <= Scale
      BY <2>1
    <3> HIDE DEF a, b, c
    <3>2. b <= b
      BY <3>1
    <3>3. LET m == Membership(y, a, b, b, c)
          IN  m \in Degrees /\ (m > 0 <=> a < y /\ y < c)
      BY <2>2, <3>1, <3>2, MembershipMeans
    <3> QED
      BY <3>3 DEF a, b, c
  <2> QED
    BY <2>3 DEF OutMembership
<1>2. ASSUME NEW l \in Labels
      PROVE  Out[l][2] \in Universe /\ OutMembership(Out[l][2], l) = Scale
  <2>1. /\ Out[l][2] \in Universe
        /\ Out[l][1] < Out[l][2] /\ Out[l][2] < Out[l][3]
        /\ Out[l][1] \in Int /\ Out[l][3] \in Int
    BY DEF Out, Labels, Universe
  <2>2. Out[l][2] <= Out[l][2] /\ ~(Out[l][2] < Out[l][2])
    BY <2>1 DEF Universe
  <2>3. ~(Out[l][2] <= Out[l][1] \/ Out[l][2] >= Out[l][3])
    BY <2>1 DEF Universe
  <2> QED
    BY <2>1, <2>2, <2>3 DEF OutMembership, Membership
<1>3. ASSUME NEW l \in Labels \ {"ZERO"}
      PROVE  OutMembership(0, l) = 0
  BY DEF OutMembership, Membership, Out, Labels
<1>4. ASSUME NEW y \in Universe
      PROVE  OutMembership(y, "ZERO") = IF y < 20 THEN 6 * (20 - y) ELSE 0
  <2>1. OutMembership(y, "ZERO") = Membership(y, -10, 0, 0, 20)
    BY DEF OutMembership, Out
  <2> QED
    BY <2>1 DEF Membership, Universe, Scale
<1> QED
  BY <1>1, <1>2, <1>3, <1>4

Fires(x, w, t, l) == Strength(x, w, t, l) > 0
Clipped(x, w, t, l, y) == Min({Strength(x, w, t, l), OutMembership(y, l)})

LEMMA ClippedMeans ==
  ASSUME NEW x \in Int, NEW w \in Int, NEW t \in 0 .. 100, NEW l \in Labels,
         NEW y \in Universe
  PROVE  /\ Clipped(x, w, t, l, y) \in Degrees
         /\ Clipped(x, w, t, l, y) = IF Strength(x, w, t, l) <= OutMembership(y, l)
                                     THEN Strength(x, w, t, l) ELSE OutMembership(y, l)
<1> DEFINE S == {Strength(x, w, t, l), OutMembership(y, l)}
<1>1. Strength(x, w, t, l) \in Degrees /\ OutMembership(y, l) \in Degrees
  BY StrengthMeans, OutMeans
<1>2. Min(S) \in S /\ \A u \in S : Min(S) <= u
  BY <1>1, MinMeans
<1> QED
  BY <1>1, <1>2 DEF Clipped, Degrees, Scale

(* At each point the union is the highest of the clipped sets, or zero. *)
LEMMA AggregatedMeans ==
  ASSUME NEW x \in Int, NEW w \in Int, NEW t \in 0 .. 100
  PROVE  LET agg == Aggregated(x, w, t)
         IN  /\ agg \in [Universe -> Degrees]
             /\ \A y \in Universe, l \in Labels :
                  Fires(x, w, t, l) => Clipped(x, w, t, l, y) <= agg[y]
             /\ \A y \in Universe :
                  \/ agg[y] = 0
                  \/ \E l \in Labels : Fires(x, w, t, l) /\ agg[y] = Clipped(x, w, t, l, y)
<1> DEFINE agg == Aggregated(x, w, t)
           fired == {l \in Labels : Fires(x, w, t, l)}
           D(y) == {Clipped(x, w, t, l, y) : l \in fired}
<1>1. agg = [y \in Universe |-> Max({0} \cup D(y))]
  <2> DEFINE st == [l \in Labels |-> Strength(x, w, t, l)]
             on == {l \in Labels : st[l] > 0}
             E(y) == {Min({st[l], OutMembership(y, l)}) : l \in on}
  <2>1. agg = [y \in Universe |-> Max({0} \cup E(y))]
    BY OutLabels DEF Aggregated
  <2>2. on = fired
    BY DEF Fires
  <2>3. \A y \in Universe : E(y) = D(y)
    BY <2>2 DEF Clipped
  <2> HIDE DEF D, E
  <2> QED
    BY <2>1, <2>3
<1>2. ASSUME NEW y \in Universe
      PROVE  /\ agg[y] \in Degrees
             /\ agg[y] \in {0} \cup D(y)
             /\ \A u \in D(y) : u <= agg[y]
  <2>1. {0} \cup D(y) \subseteq Degrees
    <3>1. D(y) \subseteq Degrees
      <4>1. \A l \in Labels : Clipped(x, w, t, l, y) \in Degrees
        BY ClippedMeans
      <4> QED
        BY <4>1
    <3>2. 0 \in Degrees
      BY DEF Degrees, Scale
    <3> HIDE DEF D
    <3> QED
      BY <3>1, <3>2
  <2>2. agg[y] = Max({0} \cup D(y))
    <3> HIDE DEF D
    <3> QED
      BY <1>1
  <2> HIDE DEF D, agg
  <2> QED
    BY <2>1, <2>2, MaxMeans
<1>3. agg \in [Universe -> Degrees]
  <2> HIDE DEF D
  <2> QED
    BY <1>1, <1>2
<1>4. ASSUME NEW y \in Universe, NEW l \in Labels, Fires(x, w, t, l)
      PROVE  Clipped(x, w, t, l, y) <= agg[y]
  <2>1. Clipped(x, w, t, l, y) \in D(y)
    BY <1>4
  <2> HIDE DEF D, agg
  <2> QED
    BY <1>2, <2>1
<1>5. ASSUME NEW y \in Universe, agg[y] # 0
      PROVE  \E l \in Labels : Fires(x, w, t, l) /\ agg[y] = Clipped(x, w, t, l, y)
  <2>1. agg[y] \in D(y)
    <3> HIDE DEF D, agg
    <3> QED
      BY <1>2, <1>5
  <2> HIDE DEF agg
  <2> QED
    BY <2>1
<1> QED
  BY <1>3, <1>4, <1>5

-----------------------------------------------------------------------------
(***************************************************************************)
(* Bounds on sums over the universe.                                       *)
(***************************************************************************)
(* A set with -1 and, point by point, the universe. *)
LEMMA UniverseInduction ==
  ASSUME NEW S, -1 \in S, \A y \in Universe : y - 1 \in S => y \in S
  PROVE  200 \in S
<1> DEFINE T == {n \in Nat : n <= 201 => n - 1 \in S}
<1>1. 0 \in T
  OBVIOUS
<1>2. ASSUME NEW n \in Nat, n \in T
      PROVE  n + 1 \in T
  <2> SUFFICES ASSUME n + 1 <= 201
               PROVE  n \in S
    OBVIOUS
  <2>1. n - 1 \in S /\ n \in Universe
    BY <1>2 DEF Universe
  <2> QED
    BY <2>1
<1>3. 201 \in T
  <2> HIDE DEF T
  <2> QED
    BY <1>1, <1>2, SetInduction
<1> QED
  BY <1>3

(* A sum of naturals is at least any two of its terms. *)
LEMMA TotalAtLeast ==
  ASSUME NEW f \in [Universe -> Nat]
  PROVE  /\ Total(f) \in Nat
         /\ \A y \in Universe : f[y] <= Total(f)
         /\ \A y \in Universe \ {0} : f[0] + f[y] <= Total(f)
<1> DEFINE s == Sums(f)
           S == {n \in -1 .. 200 :
                   /\ s[n] \in Nat
                   /\ \A y \in Universe : y <= n => f[y] <= s[n]
                   /\ \A y \in Universe \ {0} : y <= n => f[0] + f[y] <= s[n]}
<1>1. /\ s[-1] = 0
      /\ \A n \in Universe : s[n] = s[n - 1] + f[n] /\ f[n] \in Nat
  <2>1. f \in [Universe -> Int]
    OBVIOUS
  <2> QED
    BY <2>1, SumsMeans
<1> HIDE DEF s
<1>2. -1 \in S
  <2>1. \A y \in Universe : ~(y <= -1)
    BY DEF Universe
  <2> QED
    BY <1>1, <2>1
<1>3. ASSUME NEW n \in Universe, n - 1 \in S
      PROVE  n \in S
  <2>1. /\ n \in -1 .. 200 /\ 0 \in Universe
        /\ s[n] = s[n - 1] + f[n] /\ f[n] \in Nat /\ s[n - 1] \in Nat
    <3>1. s[n - 1] \in Nat
      BY <1>3
    <3>2. n \in -1 .. 200 /\ 0 \in Universe
      BY DEF Universe
    <3> QED
      BY <1>1, <3>1, <3>2
  <2>2. ASSUME NEW y \in Universe, y <= n
        PROVE  f[y] <= s[n]
    <3>1. CASE y = n
      BY <2>1, <3>1
    <3>2. CASE y # n
      <4>1. y <= n - 1 /\ f[y] \in Nat
        BY <2>2, <3>2 DEF Universe
      <4>2. f[y] <= s[n - 1]
        BY <1>3, <4>1
      <4> QED
        BY <2>1, <4>1, <4>2
    <3> QED
      BY <3>1, <3>2
  <2>3. ASSUME NEW y \in Universe \ {0}, y <= n
        PROVE  f[0] + f[y] <= s[n]
    <3>1. f[0] \in Nat /\ f[y] \in Nat
      BY <2>1
    <3>2. CASE y = n
      <4>1. 0 <= n - 1
        BY <3>2 DEF Universe
      <4>2. f[0] <= s[n - 1]
        BY <1>3, <2>1, <4>1
      <4> QED
        BY <2>1, <3>1, <3>2, <4>2
    <3>3. CASE y # n
      <4>1. y <= n - 1
        BY <2>3, <3>3 DEF Universe
      <4>2. f[0] + f[y] <= s[n - 1]
        BY <1>3, <4>1
      <4> QED
        BY <2>1, <3>1, <4>2
    <3> QED
      BY <3>2, <3>3
  <2>4. s[n] \in Nat
    BY <2>1
  <2> QED
    BY <2>1, <2>2, <2>3, <2>4
<1>4. 200 \in S
  <2> HIDE DEF S
  <2> QED
    BY <1>2, <1>3, UniverseInduction
<1>5. /\ s[200] \in Nat
      /\ \A y \in Universe : f[y] <= s[200]
      /\ \A y \in Universe \ {0} : f[0] + f[y] <= s[200]
  <2>1. \A y \in Universe : y <= 200
    BY DEF Universe
  <2> QED
    BY <1>4, <2>1
<1> QED
  BY <1>5 DEF Total, s

(* A point of the universe and the one before it have partial sums. *)
LEMMA UniverseBounds ==
  ASSUME NEW n \in Universe
  PROVE  n \in -1 .. 200 /\ n - 1 \in -1 .. 200
  BY DEF Universe

(* A sum of terms of at most a times those of another. *)
LEMMA TotalAtMost ==
  ASSUME NEW f \in [Universe -> Int], NEW g \in [Universe -> Int], NEW a \in Int,
         \A y \in Universe : f[y] <= a * g[y]
  PROVE  Total(f) <= a * Total(g)
<1> DEFINE S == {n \in -1 .. 200 : Sums(f)[n] <= a * Sums(g)[n]}
<1>1. -1 \in S
  <2>1. Sums(f)[-1] = 0 /\ Sums(g)[-1] = 0 /\ a * 0 = 0
    BY SumsMeans
  <2> QED
    BY <2>1
<1>2. ASSUME NEW n \in Universe, n - 1 \in S
      PROVE  n \in S
  <2>1. /\ n \in -1 .. 200 /\ n - 1 \in -1 .. 200
        /\ f[n] \in Int /\ g[n] \in Int /\ f[n] <= a * g[n]
    <3>1. n \in -1 .. 200 /\ n - 1 \in -1 .. 200
      BY UniverseBounds
    <3>2. f[n] \in Int /\ g[n] \in Int
      OBVIOUS
    <3>3. f[n] <= a * g[n]
      OBVIOUS
    <3> QED
      BY <3>1, <3>2, <3>3
  <2>2. /\ Sums(f)[n] = Sums(f)[n - 1] + f[n] /\ Sums(f)[n - 1] \in Int
        /\ Sums(g)[n] = Sums(g)[n - 1] + g[n] /\ Sums(g)[n - 1] \in Int
    <3>1. Sums(f)[n] = Sums(f)[n - 1] + f[n] /\ Sums(f)[n - 1] \in Int
      BY <2>1, SumsMeans
    <3>2. Sums(g)[n] = Sums(g)[n - 1] + g[n] /\ Sums(g)[n - 1] \in Int
      BY <2>1, SumsMeans
    <3> QED
      BY <3>1, <3>2
  <2>3. Sums(f)[n - 1] <= a * Sums(g)[n - 1]
    BY <1>2
  <2>4. a * (Sums(g)[n - 1] + g[n]) = a * Sums(g)[n - 1] + a * g[n]
    BY <2>1, <2>2
  <2> QED
    BY <2>1, <2>2, <2>3, <2>4
<1>3. 200 \in S
  <2> HIDE DEF S
  <2> QED
    BY <1>1, <1>2, UniverseInduction
<1> QED
  BY <1>3 DEF Total

-----------------------------------------------------------------------------
(***************************************************************************)
(* The centroid.                                                           *)
(***************************************************************************)
Weighted(agg) == [y \in Universe |-> 5 * y * agg[y]]

(* What _fuzzy_infer divides. *)
LEMMA InferMeans ==
  ASSUME NEW x \in Int, NEW w \in Int, NEW t \in 0 .. 100
  PROVE  LET agg == Aggregated(x, w, t)
             num == Total(Weighted(agg))
             den == Total(agg)
         IN  /\ agg \in [Universe -> Nat] /\ Weighted(agg) \in [Universe -> Nat]
             /\ num \in Nat /\ den \in Nat
             /\ Infer(x, w, t) = IF den = 0 THEN 0
                                 ELSE (2 * num + den) \div (2 * den)
<1> DEFINE agg == Aggregated(x, w, t)
<1>1. agg \in [Universe -> Degrees]
  BY AggregatedMeans
<1>2. \A y \in Universe : agg[y] \in Nat /\ y \in Nat
  <2>1. Degrees \subseteq Nat /\ Universe \subseteq Nat
    BY DEF Degrees, Scale, Universe
  <2> HIDE DEF agg
  <2> QED
    BY <1>1, <2>1
<1>3. agg \in [Universe -> Nat]
  BY <1>1, <1>2
<1>4. Weighted(agg) \in [Universe -> Nat]
  <2>1. \A y \in Universe : 5 * y * agg[y] \in Nat
    BY <1>2
  <2> HIDE DEF agg
  <2> QED
    BY <2>1 DEF Weighted
<1>5. Total(agg) \in Nat /\ Total(Weighted(agg)) \in Nat
  <2> HIDE DEF agg
  <2> QED
    BY <1>3, <1>4, TotalAtLeast
<1>6. Infer(x, w, t) = IF Total(agg) = 0 THEN 0
                       ELSE (2 * Total(Weighted(agg)) + Total(agg)) \div (2 * Total(agg))
  BY DEF Infer, Weighted
<1> HIDE DEF agg
<1> QED
  BY <1>3, <1>4, <1>5, <1>6 DEF agg

(* No set point is above the 100 W of the universe. *)
THEOREM SetPointInRange ==
  \A x, w \in Int, t \in 0 .. 100 : Infer(x, w, t) \in 0 .. 1000
<1> SUFFICES ASSUME NEW x \in Int, NEW w \in Int, NEW t \in 0 .. 100
             PROVE  Infer(x, w, t) \in 0 .. 1000
  OBVIOUS
<1> DEFINE agg == Aggregated(x, w, t)
           num == Total(Weighted(agg))
           den == Total(agg)
           q == (2 * num + den) \div (2 * den)
<1>1. /\ agg \in [Universe -> Nat] /\ Weighted(agg) \in [Universe -> Nat]
      /\ num \in Nat /\ den \in Nat
      /\ Infer(x, w, t) = IF den = 0 THEN 0 ELSE q
  BY InferMeans
<1> HIDE DEF agg
<1>2. num <= 1000 * den
  <2>1. ASSUME NEW y \in Universe
        PROVE  Weighted(agg)[y] <= 1000 * agg[y]
    <3>1. agg[y] \in Nat /\ y \in Nat /\ y <= 200
      BY <1>1 DEF Universe
    <3>2. 5 * y * agg[y] <= 1000 * agg[y]
      BY <3>1
    <3> QED
      BY <3>2 DEF Weighted
  <2> QED
    BY <1>1, <2>1, TotalAtMost
<1> HIDE DEF num, den
<1>3. CASE den # 0
  <2>1. 2 * num + den \in Nat /\ 2 * den \in Nat \ {0}
    BY <1>1, <1>3
  <2>2. q \in Nat /\ (2 * den) * q <= 2 * num + den
    BY <2>1, Quotient
  <2> HIDE DEF q
  <2>3. CASE q >= 1001
    <3>1. (2 * den) * q >= (2 * den) * 1001
      BY <1>1, <2>2, <2>3
    <3> QED
      BY <1>1, <1>2, <1>3, <2>2, <3>1
  <2> QED
    BY <1>1, <1>3, <2>2, <2>3
<1>4. CASE den = 0
  BY <1>1, <1>4
<1> QED
  BY <1>3, <1>4

(* Half a watt weighs at most what the first point of ZERO does: so little *)
(* that a set point is zero only if nothing fired.                         *)
LEMMA InferPositive ==
  ASSUME NEW x \in Int, NEW w \in Int, NEW t \in 0 .. 100,
         NEW l \in Labels, Fires(x, w, t, l)
  PROVE  Infer(x, w, t) > 0
<1> DEFINE agg == Aggregated(x, w, t)
           num == Total(Weighted(agg))
           den == Total(agg)
           q == (2 * num + den) \div (2 * den)
<1>1. /\ agg \in [Universe -> Nat] /\ Weighted(agg) \in [Universe -> Nat]
      /\ num \in Nat /\ den \in Nat
      /\ Infer(x, w, t) = IF den = 0 THEN 0 ELSE q
  BY InferMeans
<1>2. /\ \A y \in Universe, m \in Labels :
           Fires(x, w, t, m) => Clipped(x, w, t, m, y) <= agg[y]
      /\ \A y \in Universe :
           \/ agg[y] = 0
           \/ \E m \in Labels : Fires(x, w, t, m) /\ agg[y] = Clipped(x, w, t, m, y)
  BY AggregatedMeans
<1> HIDE DEF agg
<1>3. 0 \in Universe /\ 1 \in Universe /\ agg[0] \in Nat /\ agg[1] \in Nat
  BY <1>1 DEF Universe
<1>4. agg[0] <= 9 * agg[1]
  <2>1. CASE agg[0] = 0
    BY <1>3, <2>1
  <2>2. CASE agg[0] # 0
    <3>1. PICK m \in Labels : Fires(x, w, t, m) /\ agg[0] = Clipped(x, w, t, m, 0)
      BY <1>2, <1>3, <2>2
    <3>2. m = "ZERO"
      <4>1. SUFFICES ASSUME m # "ZERO"
                     PROVE  FALSE
        OBVIOUS
      <4>2. OutMembership(0, m) = 0 /\ Strength(x, w, t, m) \in Degrees
        BY <4>1, OutMeans, StrengthMeans
      <4>3. Clipped(x, w, t, m, 0) = 0
        <5>1. \A y \in Universe :
                Clipped(x, w, t, m, y) = IF Strength(x, w, t, m) <= OutMembership(y, m)
                                         THEN Strength(x, w, t, m) ELSE OutMembership(y, m)
          BY ClippedMeans
        <5>2. Clipped(x, w, t, m, 0) = IF Strength(x, w, t, m) <= OutMembership(0, m)
                                       THEN Strength(x, w, t, m) ELSE OutMembership(0, m)
          BY <1>3, <5>1
        <5> QED
          BY <4>2, <5>2 DEF Degrees, Scale
      <4> QED
        BY <2>2, <3>1, <4>3
    <3>3. Clipped(x, w, t, m, 1) <= agg[1]
      BY <1>2, <1>3, <3>1
    <3>4. OutMembership(0, "ZERO") = 120 /\ OutMembership(1, "ZERO") = 114
      BY <1>3, OutMeans
    <3>5. OutMembership(0, m) = 120 /\ OutMembership(1, m) = 114
      BY <3>2, <3>4
    <3>6. /\ Clipped(x, w, t, m, 0) = IF Strength(x, w, t, m) <= OutMembership(0, m)
                                      THEN Strength(x, w, t, m) ELSE OutMembership(0, m)
          /\ Clipped(x, w, t, m, 1) = IF Strength(x, w, t, m) <= OutMembership(1, m)
                                      THEN Strength(x, w, t, m) ELSE OutMembership(1, m)
      <4>1. \A y \in Universe :
              Clipped(x, w, t, m, y) = IF Strength(x, w, t, m) <= OutMembership(y, m)
                                       THEN Strength(x, w, t, m) ELSE OutMembership(y, m)
        BY ClippedMeans
      <4> QED
        BY <1>3, <4>1
    <3>7. Strength(x, w, t, m) \in 0 .. 120
      BY StrengthMeans DEF Degrees, Scale
    <3> QED
      BY <1>3, <3>1, <3>3, <3>5, <3>6, <3>7
  <2> QED
    BY <2>1, <2>2
<1>5. PICK y0 \in Universe \ {0} : agg[y0] >= 1 /\ agg[0] <= 9 * agg[y0]
  <2>1. Strength(x, w, t, l) \in Degrees /\ Strength(x, w, t, l) > 0
    BY StrengthMeans DEF Fires
  <2>2. Out[l][2] \in Universe /\ OutMembership(Out[l][2], l) = Scale
    BY OutMeans
  <2>3. agg[Out[l][2]] >= 1
    <3>1. Clipped(x, w, t, l, Out[l][2]) = Strength(x, w, t, l)
      <4>1. Strength(x, w, t, l) <= OutMembership(Out[l][2], l)
        BY <2>1, <2>2 DEF Degrees
      <4> QED
        BY <2>2, <4>1, ClippedMeans
    <3>2. Clipped(x, w, t, l, Out[l][2]) <= agg[Out[l][2]]
      BY <1>2, <2>2
    <3> QED
      BY <1>1, <2>1, <2>2, <3>1, <3>2 DEF Degrees, Scale
  <2>4. CASE agg[1] >= 1
    BY <1>3, <1>4, <2>4
  <2>5. CASE agg[1] = 0
    <3>1. agg[0] = 0
      BY <1>3, <1>4, <2>5
    <3>2. Out[l][2] # 0
      BY <2>3, <3>1
    <3> QED
      BY <1>1, <2>2, <2>3, <3>1, <3>2
  <2> QED
    BY <1>3, <2>4, <2>5
<1>6. agg[0] + agg[y0] <= den /\ agg[y0] \in Nat
  BY <1>1, TotalAtLeast
<1>7. 5 * (den - agg[0]) <= num
  <2> DEFINE S == {n \in -1 .. 200 :
                     5 * (Sums(agg)[n] - agg[0]) <= Sums(Weighted(agg))[n]}
  <2>1. agg \in [Universe -> Int] /\ Weighted(agg) \in [Universe -> Int]
    BY <1>1
  <2>2. -1 \in S
    <3>1. Sums(agg)[-1] = 0 /\ Sums(Weighted(agg))[-1] = 0
      BY <2>1, SumsMeans
    <3> QED
      BY <1>3, <3>1
  <2>3. ASSUME NEW n \in Universe, n - 1 \in S
        PROVE  n \in S
    <3>1. /\ n \in -1 .. 200 /\ n - 1 \in -1 .. 200 /\ n \in Nat
          /\ agg[n] \in Nat /\ Weighted(agg)[n] = 5 * n * agg[n]
      <4> HIDE DEF S
      <4>1. n \in -1 .. 200 /\ n - 1 \in -1 .. 200 /\ n \in Nat
        BY DEF Universe
      <4>2. agg[n] \in Nat
        BY <1>1
      <4>3. Weighted(agg)[n] = 5 * n * agg[n]
        BY DEF Weighted
      <4> QED
        BY <4>1, <4>2, <4>3
    <3>2. /\ Sums(agg)[n] = Sums(agg)[n - 1] + agg[n]
          /\ Sums(Weighted(agg))[n] = Sums(Weighted(agg))[n - 1] + 5 * n * agg[n]
          /\ Sums(agg)[n - 1] \in Int /\ Sums(Weighted(agg))[n - 1] \in Int
      BY <2>1, <3>1, SumsMeans
    <3>3. CASE n = 0
      <4>1. Sums(agg)[n - 1] = 0 /\ Sums(Weighted(agg))[n - 1] = 0
        BY <2>1, <3>3, SumsMeans
      <4> QED
        BY <1>3, <3>1, <3>2, <3>3, <4>1
    <3>4. CASE n # 0
      <4>1. 5 * agg[n] <= 5 * n * agg[n] /\ 5 * n * agg[n] \in Nat
        BY <3>1, <3>4
      <4>2. 5 * (Sums(agg)[n - 1] - agg[0]) <= Sums(Weighted(agg))[n - 1]
        BY <2>3
      <4> QED
        BY <1>3, <3>1, <3>2, <4>1, <4>2
    <3> QED
      BY <3>3, <3>4
  <2>4. 200 \in S
    <3> HIDE DEF S
    <3> QED
      BY <2>2, <2>3, UniverseInduction
  <2> QED
    BY <2>4 DEF Total
<1> HIDE DEF num, den
<1>8. den # 0 /\ 2 * num >= den
  BY <1>1, <1>3, <1>5, <1>6, <1>7
<1>9. q \in Nat /\ 2 * num + den < (2 * den) * (q + 1)
  <2>1. 2 * num + den \in Nat /\ 2 * den \in Nat \ {0}
    BY <1>1, <1>8
  <2> QED
    BY <2>1, Quotient
<1> HIDE DEF q
<1>10. q # 0
  BY <1>1, <1>8, <1>9
<1> QED
  BY <1>1, <1>8, <1>9, <1>10

(* Out of reach of the input sets nothing fires and nothing is summed.     *)
LEMMA InferNothing ==
  ASSUME NEW x \in Int, NEW w \in Int, NEW t \in 0 .. 100,
         \A l \in Labels : ~Fires(x, w, t, l)
  PROVE  Infer(x, w, t) = 0
<1> DEFINE agg == Aggregated(x, w, t)
           none == [y \in Universe |-> 0]
<1>1. agg \in [Universe -> Nat] /\ Total(agg) \in Nat
  BY InferMeans
<1>2. \A y \in Universe : agg[y] = 0
  BY AggregatedMeans
<1>3. Infer(x, w, t) = IF Total(agg) = 0 THEN 0
                       ELSE (2 * Total(Weighted(agg)) + Total(agg)) \div (2 * Total(agg))
  BY InferMeans
<1> HIDE DEF agg
<1>4. Total(agg) <= 0 * Total(none)
  <2>1. agg \in [Universe -> Int] /\ none \in [Universe -> Int]
    BY <1>1
  <2>2. \A y \in Universe : agg[y] <= 0 * none[y]
    BY <1>2
  <2> HIDE DEF none
  <2> QED
    BY <2>1, <2>2, TotalAtMost
<1>5. Total(none) \in Nat
  <2>1. none \in [Universe -> Nat]
    OBVIOUS
  <2> HIDE DEF none
  <2> QED
    BY <2>1, TotalAtLeast
<1>6. Total(agg) = 0
  <2> HIDE DEF none
  <2> QED
    BY <1>1, <1>4, <1>5
<1> QED
  BY <1>3, <1>6

(* Up to a trust of 0.2 only ZERO can fire, whose clipped triangle falls   *)
(* from 0 to 10 W. *)
LEMMA UntrustedFalls ==
  ASSUME NEW x \in Int, NEW w \in Int, NEW t \in 0 .. 100, t <= 20
  PROVE  LET agg == Aggregated(x, w, t)
         IN  /\ \A y \in Universe : y >= 20 => agg[y] = 0
             /\ \A y, z \in Universe : y <= z => agg[z] <= agg[y]
<1> DEFINE agg == Aggregated(x, w, t)
           s == Strength(x, w, t, "ZERO")
           Clip(y) == IF s <= OutMembership(y, "ZERO") THEN s ELSE OutMembership(y, "ZERO")
<1>1. "ZERO" \in Labels
  BY DEF Labels
<1>2. ASSUME NEW l \in Labels, Fires(x, w, t, l)
      PROVE  l = "ZERO"
  <2>1. PICK i \in 1 .. 3, j \in 1 .. 3, k \in 1 .. 3 :
          RuleFires(x, w, t, l, i, j, k)
    BY <1>2, StrengthMeans DEF Fires
  <2>2. ~(Trust(t)[2] > 0) /\ ~(Trust(t)[3] > 0)
    BY <1>1, TrustMeans
  <2>3. i = 1
    BY <2>1, <2>2 DEF RuleFires
  <2> QED
    BY <2>1, <2>3, RuleLabels DEF RuleFires
<1>3. s \in 0 .. 120
  BY <1>1, StrengthMeans DEF Degrees, Scale
<1>4. \A y \in Universe : Clipped(x, w, t, "ZERO", y) = Clip(y)
  <2> DEFINE l == "ZERO"
  <2>1. l \in Labels
    BY <1>1
  <2>2. \A y \in Universe :
          Clipped(x, w, t, l, y) = IF Strength(x, w, t, l) <= OutMembership(y, l)
                                   THEN Strength(x, w, t, l) ELSE OutMembership(y, l)
    <3> TAKE y \in Universe
    <3> HIDE DEF l
    <3> QED
      BY <2>1, ClippedMeans
  <2> QED
    BY <2>2
<1>5. \A y \in Universe : OutMembership(y, "ZERO") = IF y < 20 THEN 6 * (20 - y) ELSE 0
  BY OutMeans
<1>6. agg \in [Universe -> Nat]
  BY <1>1, InferMeans
<1>7. \A y \in Universe : agg[y] = IF s > 0 THEN Clip(y) ELSE 0
  <2> SUFFICES ASSUME NEW y \in Universe
               PROVE  agg[y] = IF s > 0 THEN Clip(y) ELSE 0
    OBVIOUS
  <2>1. agg[y] = 0 \/ (s > 0 /\ agg[y] = Clip(y))
    <3>1. \/ agg[y] = 0
          \/ \E l \in Labels : Fires(x, w, t, l) /\ agg[y] = Clipped(x, w, t, l, y)
      BY <1>1, AggregatedMeans
    <3> HIDE DEF agg, Clip
    <3> QED
      BY <1>2, <1>4, <3>1 DEF Fires
  <2>2. s > 0 => Clip(y) <= agg[y]
    <3>1. \A l \in Labels : Fires(x, w, t, l) => Clipped(x, w, t, l, y) <= agg[y]
      BY <1>1, AggregatedMeans
    <3> HIDE DEF agg, Clip
    <3> QED
      BY <1>1, <1>4, <3>1 DEF Fires
  <2>3. Clip(y) \in Nat
    <3> HIDE DEF s
    <3> QED
      BY <1>3, <1>5 DEF Universe
  <2> HIDE DEF agg, s, Clip
  <2> QED
    BY <1>3, <1>6, <2>1, <2>2, <2>3
<1>8. Universe \subseteq Nat
  BY DEF Universe
<1> HIDE DEF agg, s
<1> QED
  BY <1>3, <1>5, <1>7, <1>8 DEF agg

(* A node of a trust up to 0.2 is asked for 5 W at most, whatever the bus  *)
(* and the other nodes do: the centroid of a falling set over 0 to 10 W is *)
(* in the lower half. *)
THEOREM UntrustedIsolated ==
  \A x, w \in Int, t \in 0 .. 20 : Infer(x, w, t) <= 50
<1> SUFFICES ASSUME NEW x \in Int, NEW w \in Int, NEW t \in 0 .. 100, t <= 20
             PROVE  Infer(x, w, t) <= 50
  OBVIOUS
<1> DEFINE agg == Aggregated(x, w, t)
           num == Total(Weighted(agg))
           den == Total(agg)
           q == (2 * num + den) \div (2 * den)
<1>1. /\ agg \in [Universe -> Nat] /\ Weighted(agg) \in [Universe -> Nat]
      /\ num \in Nat /\ den \in Nat
      /\ Infer(x, w, t) = IF den = 0 THEN 0 ELSE q
  BY InferMeans
<1>2. /\ \A y \in Universe : y >= 20 => agg[y] = 0
      /\ \A y, z \in Universe : y <= z => agg[z] <= agg[y]
  BY UntrustedFalls
<1> HIDE DEF agg
<1>3. num <= 50 * den
  <2> DEFINE A == agg[10]
             N(n) == Sums(Weighted(agg))[n]
             D(n) == Sums(agg)[n]
             S == {n \in -1 .. 200 :
                     /\ n <= 20 => 2 * (N(n) - 50 * D(n)) <= 5 * A * ((n + 1) * (n - 20))
                     /\ n > 20 => N(n) - 50 * D(n) <= 0}
  <2>1. agg \in [Universe -> Int] /\ Weighted(agg) \in [Universe -> Int]
    BY <1>1
  <2>2. 10 \in Universe /\ A \in Nat
    BY <1>1 DEF Universe
  <2>3. -1 \in S
    <3>1. N(-1) = 0 /\ D(-1) = 0
      BY <2>1, SumsMeans
    <3>2. 5 * A * ((-1 + 1) * (-1 - 20)) = 0
      BY <2>2
    <3> HIDE DEF A, N, D
    <3> QED
      BY <3>1, <3>2
  <2>4. ASSUME NEW n \in Universe, n - 1 \in S
        PROVE  n \in S
    <3>1. /\ n \in -1 .. 200 /\ n - 1 \in -1 .. 200 /\ n \in Nat
          /\ agg[n] \in Nat /\ Weighted(agg)[n] = 5 * n * agg[n]
      <4> HIDE DEF S
      <4>1. n \in -1 .. 200 /\ n - 1 \in -1 .. 200 /\ n \in Nat
        BY DEF Universe
      <4>2. agg[n] \in Nat
        BY <1>1
      <4>3. Weighted(agg)[n] = 5 * n * agg[n]
        BY DEF Weighted
      <4> QED
        BY <4>1, <4>2, <4>3
    <3>2. /\ D(n) = D(n - 1) + agg[n] /\ D(n - 1) \in Int
          /\ N(n) = N(n - 1) + 5 * n * agg[n] /\ N(n - 1) \in Int
      BY <2>1, <3>1, SumsMeans
    <3>3. CASE n <= 20
      <4>1. 2 * (N(n - 1) - 50 * D(n - 1)) <= 5 * A * (n * (n - 21))
        <5>1. n - 1 + 1 = n /\ n - 1 - 20 = n - 21 /\ n - 1 <= 20
          BY <3>1, <3>3
        <5>2. 2 * (N(n - 1) - 50 * D(n - 1)) <= 5 * A * ((n - 1 + 1) * (n - 1 - 20))
          BY <2>4, <5>1
        <5> HIDE DEF A, N, D
        <5> QED
          BY <5>1, <5>2
      <4>2. (n - 10) * agg[n] <= (n - 10) * A
        <5>1. CASE n <= 10
          <6>1. agg[n] >= A
            BY <1>2, <2>2, <5>1
          <6> HIDE DEF A
          <6> QED
            BY <2>2, <3>1, <5>1, <6>1
        <5>2. CASE n > 10
          <6>1. agg[n] <= A
            BY <1>2, <2>2, <3>1, <5>2
          <6> HIDE DEF A
          <6> QED
            BY <2>2, <3>1, <5>2, <6>1
        <5> QED
          BY <3>1, <5>1, <5>2
      <4> HIDE DEF A, N, D
      <4>3. 5 * n * agg[n] - 50 * agg[n] = 5 * ((n - 10) * agg[n])
        BY <3>1
      <4>4. 5 * A * (n * (n - 21)) + 10 * ((n - 10) * A) = 5 * A * ((n + 1) * (n - 20))
        BY <2>2, <3>1
      <4>5. /\ (n - 10) * agg[n] \in Int /\ (n - 10) * A \in Int
            /\ 5 * A * (n * (n - 21)) \in Int /\ 5 * A * ((n + 1) * (n - 20)) \in Int
            /\ 5 * n * agg[n] \in Int
        BY <2>2, <3>1
      <4>6. 2 * (N(n) - 50 * D(n)) <= 5 * A * ((n + 1) * (n - 20))
        BY <3>1, <3>2, <4>1, <4>2, <4>3, <4>4, <4>5
      <4> QED
        BY <3>1, <3>3, <4>6
    <3>4. CASE n > 20
      <4>1. agg[n] = 0
        BY <1>2, <3>1, <3>4
      <4>2. N(n) = N(n - 1) /\ D(n) = D(n - 1)
        BY <3>1, <3>2, <4>1
      <4>3. N(n - 1) - 50 * D(n - 1) <= 0
        <5>1. CASE n - 1 > 20
          BY <2>4, <5>1
        <5>2. CASE n = 21
          <6>1. 2 * (N(20) - 50 * D(20)) <= 5 * A * ((20 + 1) * (20 - 20))
            BY <2>4, <5>2
          <6>2. 5 * A * ((20 + 1) * (20 - 20)) = 0
            BY <2>2
          <6>3. N(20) \in Int /\ D(20) \in Int
            BY <3>2, <5>2
          <6>4. N(20) - 50 * D(20) <= 0
            <7> HIDE DEF A, N, D
            <7> QED
              BY <6>1, <6>2, <6>3
          <6> QED
            BY <5>2, <6>4
        <5> QED
          BY <3>1, <3>4, <5>1, <5>2
      <4> HIDE DEF A, N, D
      <4> QED
        BY <3>1, <3>4, <4>2, <4>3
    <3> QED
      BY <3>1, <3>3, <3>4
  <2>5. 200 \in S
    <3> HIDE DEF S
    <3> QED
      BY <2>3, <2>4, UniverseInduction
  <2>6. N(200) - 50 * D(200) <= 0
    BY <2>5
  <2> QED
    BY <1>1, <2>6 DEF Total
<1> HIDE DEF num, den
<1>4. CASE den # 0
  <2>1. 2 * num + den \in Nat /\ 2 * den \in Nat \ {0}
    BY <1>1, <1>4
  <2>2. q \in Nat /\ (2 * den) * q <= 2 * num + den
    BY <2>1, Quotient
  <2> HIDE DEF q
  <2>3. CASE q >= 51
    <3>1. (2 * den) * q >= (2 * den) * 51
      BY <1>1, <2>2, <2>3
    <3> QED
      BY <1>1, <1>3, <1>4, <2>2, <3>1
  <2> QED
    BY <1>1, <1>4, <2>2, <2>3
<1> QED
  BY <1>1, <1>4

-----------------------------------------------------------------------------
(* Every state is an inference at integer inputs. *)
Inferred == vbe \in Int /\ pd \in Int /\ sp = At(vbe, pd)

LEMMA AlwaysInferred == Spec => []Inferred
<1>1. Init => Inferred
  BY GridAssumption DEF Init, Inferred
<1>2. Inferred /\ [Next]_vars => Inferred'
  BY GridAssumption DEF Inferred, Next, VoltageRises, DemandRises, NextPoint, At, vars
<1> QED
  BY <1>1, <1>2, PTL DEF Spec

(* For every grid of integer inputs and every trust score the fallback of  *)
(* 0 W is taken exactly outside the reach of the input sets.               *)
THEOREM RulesCover == Spec => []ZeroOnlyOutside
<1>1. Inferred => ZeroOnlyOutside
  <2> SUFFICES ASSUME Inferred, NEW t \in TrustGrid
               PROVE  sp[t] = 0 <=> ~Covered
    BY DEF ZeroOnlyOutside
  <2>1. sp[t] = Infer(vbe, pd, t) /\ vbe \in Int /\ pd \in Int /\ t \in 0 .. 100
    BY GridAssumption DEF Inferred, At
  <2>2. (\E l \in Labels : Fires(vbe, pd, t, l)) <=> Covered
    BY <2>1, SomeRuleFires DEF Fires, Covered
  <2>3. CASE Covered
    <3>1. PICK l \in Labels : Fires(vbe, pd, t, l)
      BY <2>2, <2>3
    <3>2. Infer(vbe, pd, t) > 0
      BY <2>1, <3>1, InferPositive
    <3> QED
      BY <2>1, <2>3, <3>2
  <2>4. CASE ~Covered
    BY <2>1, <2>2, <2>4, InferNothing
  <2> QED
    BY <2>3, <2>4
<1> QED
  BY <1>1, AlwaysInferred, PTL
=============================================================================
