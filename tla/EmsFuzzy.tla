------------------------------ MODULE EmsFuzzy ------------------------------
(***************************************************************************)
(* The fuzzy inference of ems_coordinator.py in exact integers.  A voltage *)
(* error is in 0.1 V, a power in watts, a trust score in hundredths; a set *)
(* point is in 0.1 W.  Memberships are scaled by 120, which makes every    *)
(* slope of the code an integer on multiples of 5 hundredths of trust.     *)
(***************************************************************************)
EXTENDS Integers, FiniteSetsExt

Scale == 120

(* A shape is its four corners; the code's triangles have b = c. *)
Membership(x, a, b, c, d) ==
  IF x <= a \/ x >= d THEN 0
  ELSE CASE b <= x /\ x <= c -> Scale
         [] x < b -> ((x - a) * Scale) \div (b - a)
         [] x > c -> ((d - x) * Scale) \div (d - c)

Vbe(x) == << Membership(x, -30, -30, -8, -2),
             Membership(x, -8, 0, 0, 8),
             Membership(x, 2, 8, 30, 30) >>

Pd(x) == << Membership(x, -10, 0, 20, 40),
            Membership(x, 20, 50, 50, 80),
            Membership(x, 60, 80, 150, 150) >>

\* Mutant: DEGRADED ends where TRUSTED begins.
MutTrust(x) == << Membership(x, -10, 0, 20, 30),
                  Membership(x, 20, 50, 50, 65),
                  Membership(x, 65, 80, 100, 110) >>
Trust(x) == << Membership(x, -10, 0, 20, 30),
               Membership(x, 20, 50, 50, 75),
               Membership(x, 65, 80, 100, 110) >>

(* The output sets over the universe 0 .. 200 of half watts. *)
Universe == 0 .. 200
Out == [ZERO |-> <<-10, 0, 20>>,   LOW |-> <<10, 30, 60>>,
        MED  |-> <<50, 80, 120>>,  HIGH |-> <<100, 140, 180>>,
        MAX  |-> <<160, 190, 210>>]
OutMembership(y, label) ==
  Membership(y, Out[label][1], Out[label][2], Out[label][2], Out[label][3])

(* _RULES by trust, then voltage error, then demand. *)
\* Mutants: a row of the table moved up a tier; two rows swapped.
MutRulesTier ==
  << << <<"ZERO", "ZERO", "MED">>, <<"ZERO", "ZERO", "ZERO">>, <<"ZERO", "ZERO", "ZERO">> >>,
     << <<"LOW", "MED", "MED">>,    <<"ZERO", "LOW", "MED">>,   <<"ZERO", "ZERO", "LOW">> >>,
     << <<"MED", "HIGH", "MAX">>,   <<"LOW", "MED", "HIGH">>,   <<"ZERO", "LOW", "MED">> >> >>
MutRulesSwapped ==
  << << <<"ZERO", "ZERO", "ZERO">>, <<"ZERO", "ZERO", "ZERO">>, <<"ZERO", "ZERO", "ZERO">> >>,
     << <<"LOW", "MED", "MED">>,    <<"ZERO", "LOW", "MED">>,   <<"ZERO", "ZERO", "LOW">> >>,
     << <<"LOW", "MED", "HIGH">>,   <<"MED", "HIGH", "MAX">>,   <<"ZERO", "LOW", "MED">> >> >>
Rules ==
  << << <<"ZERO", "ZERO", "ZERO">>, <<"ZERO", "ZERO", "ZERO">>, <<"ZERO", "ZERO", "ZERO">> >>,
     << <<"LOW", "MED", "MED">>,    <<"ZERO", "LOW", "MED">>,   <<"ZERO", "ZERO", "LOW">> >>,
     << <<"MED", "HIGH", "MAX">>,   <<"LOW", "MED", "HIGH">>,   <<"ZERO", "LOW", "MED">> >> >>

(* How strongly the rules that conclude label fire together. *)
Strength(vbe, pd, trust, label) ==
  LET v == Vbe(vbe)  p == Pd(pd)  t == Trust(trust)
  IN  Max({0} \cup {Min({t[r[1]], v[r[2]], p[r[3]]}) :
                      r \in {r \in (1 .. 3) \X (1 .. 3) \X (1 .. 3) :
                               Rules[r[1]][r[2]][r[3]] = label}})

(* The clipped output sets of the rules that fired, united. *)
Aggregated(vbe, pd, trust) ==
  LET strength == [l \in DOMAIN Out |-> Strength(vbe, pd, trust, l)]
      fired == {l \in DOMAIN Out : strength[l] > 0}
  IN  [y \in Universe |->
         Max({0} \cup {Min({strength[l], OutMembership(y, l)}) : l \in fired})]

(* sum() over the universe, and its partial sums. *)
Sums(f) == LET s[y \in -1 .. 200] == IF y < 0 THEN 0 ELSE s[y - 1] + f[y] IN s
Total(f) == Sums(f)[200]

(* The centroid; with no rule fired the denominator is zero and so is the  *)
(* set point.  Rounded to 0.1 W.                                           *)
Infer(vbe, pd, trust) ==
  LET agg == Aggregated(vbe, pd, trust)
      num == Total([y \in Universe |-> 5 * y * agg[y]])
      den == Total(agg)
  IN  IF den = 0 THEN 0 ELSE (2 * num + den) \div (2 * den)
=============================================================================
