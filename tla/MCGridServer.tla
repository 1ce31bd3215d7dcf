---------------------------- MODULE MCGridServer ----------------------------
(***************************************************************************)
(* Four connected nodes.  The first may report two readings, which with a  *)
(* window of one is enough to lose all of its trust, and its connection    *)
(* may end in every way; the others report one reading each, so that the   *)
(* first is judged against none, two and three others.  The fourth may     *)
(* leave its voltage out, or send null for its power or a text for its     *)
(* voltage.                                                                *)
(***************************************************************************)
EXTENDS GridServer, TLC

CONSTANTS n1, n2, n3, n4, s1, s2, s3, s4

Fuzzy == INSTANCE EmsFuzzy

FourNodes == {n1, n2, n3, n4}
FourSessions == {s1, s2, s3, s4}
OneEach == (s1 :> n1) @@ (s2 :> n2) @@ (s3 :> n3) @@ (s4 :> n4)
OfNodeOne == {s1}

(* Two voltages 1.2 V apart: no deviation is exactly the threshold of 0.8. *)
Low == [v |-> 120, p |-> 30]
High == [v |-> 132, p |-> 60]
NoVoltage == [v |-> Absent, p |-> 60]
NullPower == [v |-> 132, p |-> Null]
TextVoltage == [v |-> Text, p |-> 60]
TwoReadings == (n1 :> {Low, High}) @@ (n2 :> {Low}) @@ (n3 :> {High})
                 @@ (n4 :> {High, NoVoltage, NullPower, TextVoltage})
FewRecords == [n \in FourNodes |-> IF n = n1 THEN 2 ELSE 1]

(* The set points for every mean and every sum the readings can make, in   *)
(* the two bands the properties tell apart: up to 5 W, and more. *)
Points == (0 .. 12) \X {30 * i : i \in 1 .. 8} \X {0, 40, 80}
Band(sp) == IF sp <= 50 THEN 50 ELSE 1000
Table == FoldSet(LAMBDA x, f : (x :> Band(Fuzzy!Infer(x[1], x[2], x[3]))) @@ f,
                 <<>>, Points)
TableInfer(vbe, pd, score) == Table[<<vbe, pd, score>>]
=============================================================================
