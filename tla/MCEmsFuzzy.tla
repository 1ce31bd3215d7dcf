----------------------------- MODULE MCEmsFuzzy -----------------------------
(***************************************************************************)
(* The inference over a grid of its inputs: a state is a voltage error and *)
(* a total demand with the set point of every trust score, and a step      *)
(* moves one of the two inputs to the next point of its grid.              *)
(***************************************************************************)
EXTENDS EmsFuzzy

CONSTANTS VbeGrid, PdGrid, TrustGrid

ASSUME GridAssumption ==
  VbeGrid \subseteq Int /\ PdGrid \subseteq Int /\ TrustGrid \subseteq 0 .. 100

VARIABLES vbe, pd, sp
vars == <<vbe, pd, sp>>

(* Corners of the input sets, their neighbours and the far ends. *)
VbePoints == {-32, -30, -29, -12, -8, -5, -2, 0, 1, 4, 8, 29, 30}
PdPoints == {-10, -5, 0, 20, 30, 40, 50, 60, 70, 80, 120, 149, 150}
(* The scores a session can store (0, 0.4, 0.8) or the code defaults to,   *)
(* with the borders of the sets between them. *)
TrustPoints == {0, 20, 30, 40, 65, 80, 100}
Stored == {0, 40, 80}

At(v, p) == [t \in TrustGrid |-> Infer(v, p, t)]

Init == vbe \in VbeGrid /\ pd \in PdGrid /\ sp = At(vbe, pd)

NextPoint(x, grid) == {y \in grid : y > x /\ \A z \in grid : z > x => y <= z}

VoltageRises ==
  \E v \in NextPoint(vbe, VbeGrid) : vbe' = v /\ pd' = pd /\ sp' = At(v, pd)

DemandRises ==
  \E p \in NextPoint(pd, PdGrid) : vbe' = vbe /\ pd' = p /\ sp' = At(vbe, p)

Next == VoltageRises \/ DemandRises
Spec == Init /\ [][Next]_vars

(* A clipped centroid wobbles by less than a watt where the strength of a  *)
(* rule changes and its label does not. *)
Tolerance == 10

(* Where the input sets reach: within 3 V of the nominal voltage and below *)
(* 150 W of total demand. *)
Covered == vbe \in -29 .. 29 /\ pd \in -9 .. 149

(* The rule table has no hole: _fuzzy_infer falls back to 0 W exactly when *)
(* the bus is outside the reach of the input sets, for every trust score.  *)
ZeroOnlyOutside == \A t \in TrustGrid : sp[t] = 0 <=> ~Covered

(* A node that lost all its trust is isolated, up to the centroid of ZERO, *)
(* and a stored trust score that is lower never earns a higher set point.  *)
LessTrustLess ==
  /\ sp[0] <= 50
  /\ \A t, u \in Stored : t < u => sp[t] <= sp[u] + Tolerance

(* The energy rules: a bus that is higher asks less of every node, and     *)
(* more demand asks more, as long as the input sets reach. *)
SetPointFollowsBus ==
  [][Covered /\ Covered' =>
       \A t \in TrustGrid :
         /\ vbe' > vbe => sp'[t] <= sp[t] + Tolerance
         /\ pd' > pd => sp'[t] + Tolerance >= sp[t]]_vars
=============================================================================
