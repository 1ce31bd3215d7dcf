--------------------------- MODULE MCRotHandshake ---------------------------
(***************************************************************************)
(* Instances of RotHandshake for TLC. Node n1 can reconstruct its enrolled *)
(* key or, from a noisy measurement, a wrong one; n2 reconstructs only its *)
(* enrolled key. i1 and i2 are the identifiers, v1 and v2 the verifiers.   *)
(***************************************************************************)
EXTENDS RotHandshake

CONSTANTS n1, n2, i1, i2, v1, v2, b1, b2, k1, k1x, k2

OneNode == [d \in {n1} |-> {k1, k1x}]
OneNodeExact == [d \in {n1} |-> {k1}]
TwoNodes == [d \in {n1, n2} |-> IF d = n1 THEN {k1} ELSE {k2}]

Ref(i, b, v) == [id_a |-> i, pinned |-> TRUE, id_b |-> b, shs_b |-> v]
Unpinned(i) == [id_a |-> i, pinned |-> FALSE, id_b |-> b1, shs_b |-> v1]
Entry(k, v) == [pk |-> k, shs_b |-> v]

\* One node: pinned to this server, to another server, or not pinned.
OneNodeNvs == {[d \in {n1} |-> r] : r \in {Ref(i1, b1, v1), Ref(i1, b2, v1),
                                           Unpinned(i1)}}
PinnedNvs == {[d \in {n1} |-> Ref(i1, b1, v1)]}

\* Two nodes with identifiers of their own or both with the firmware's
\* placeholder; the second pinned to its own V_B or to the first one's.
TwoNodesNvs == {[d \in {n1, n2} |-> IF d = n1 THEN Ref(i1, b1, v1)
                                             ELSE Ref(i, b1, v)]
                 : i \in {i1, i2}, v \in {v1, v2}}

OneNodeRegistry == {[i \in {i1} |-> e] : e \in {Entry(k1, v1), Entry(k1, v2),
                                                Entry(Malformed, v1), NoEntry}}
GoodRegistry == {[i \in {i1} |-> Entry(k1, v1)]}
TwoNodesRegistry == {[i \in {i1, i2} |-> IF i = i1 THEN Entry(k1, v1)
                                                  ELSE Entry(k2, v2)]}
=============================================================================
