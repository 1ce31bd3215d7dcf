----------------------------- MODULE MCEccCode -----------------------------
(***************************************************************************)
(* EccCode with words of four bits, so that a word can have a correctable  *)
(* error, a tie and an uncorrectable error, in a memory of 18 bits, room   *)
(* for one block of 16 stable bits and two unstable ones; with three       *)
(* unstable bits a mask holds no whole block.                              *)
(***************************************************************************)
EXTENDS EccCode, FiniteSetsExt

\* Counters of a memory with the given ones, whose unstable bits were one in
\* n of the measurements.
Counters(ones, unstable, n) ==
    [i \in Cells |-> IF i \in unstable THEN n
                     ELSE IF i \in ones THEN Measurements ELSE 0]

Mixed == {3, 4, 7, 9, 11, 12, 13, 15, 16, 17}
MostlyOnes == Cells \ {0, 5, 10, 15}

SomeCounters == {Counters(Mixed, {}, 0), Counters(Mixed, {0, 1}, 1),
                 Counters(MostlyOnes, {5, 15}, 10), Counters(Mixed, {3}, 19),
                 Counters(MostlyOnes, {2, 7, 12}, 10)}
OtherCounters == {Counters(MostlyOnes, {17}, 10), Counters(Mixed, {4, 9}, 19),
                  Counters(MostlyOnes, {}, 0), Counters(Mixed, {4, 9, 13}, 10)}

\* The tables of the source, checked over all bytes beside the states.
Tables == INSTANCE EccTables

\* The tables of ecc.c do what EccCode takes a byte's correction to be, for
\* every reference byte and every set of flipped bits (ecc.c:30-66, 101-127):
\* all of the helper data that is about to be made can be decoded with them.
TablesDecode ==
    helper = NoValue => Tables!DecodesByte /\ Tables!CountsErrors

\* Up to three bits anywhere read differently.
UpToThree == UNION {kSubset(k, Cells) : k \in 0 .. 3}
=============================================================================
