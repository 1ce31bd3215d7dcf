----------------------------- MODULE EccTables -----------------------------
(***************************************************************************)
(* The byte arithmetic of ecc.c: the two 256-entry tables as they stand in *)
(* the source, the ECC data of one byte and its correction, with the       *)
(* operators of C on uint8_t.  EccCode works with what a table entry is    *)
(* meant to be; this module is about the entries themselves.               *)
(***************************************************************************)
EXTENDS Integers, Sequences, FiniteSets, Bitwise

Bytes == 0 .. 255

\* GET_BIT, HIGHEST_BIT and ~ of a uint8_t.
GET_BIT(val, bit) == (val \div 2^bit) % 2
HIGHEST_BIT(val) == GET_BIT(val, 7)
Complement(val) == 255 - val

\* What the tables are meant to hold.
OneBits(val) == {i \in 0 .. 7 : GET_BIT(val, i) = 1}
Weight(val) == Cardinality(OneBits(val))

\* Mutant: ties are one.
MutTieIsOne == [i \in 1 .. 256 |-> IF Weight(i - 1) >= 4 THEN 1 ELSE 0]

majority_table ==
   <<
     0, 0, 0, 0, 0, 0, 0, 0, 0, 0, 0, 0, 0, 0, 0, 0,
     0, 0, 0, 0, 0, 0, 0, 0, 0, 0, 0, 0, 0, 0, 0, 1,
     0, 0, 0, 0, 0, 0, 0, 0, 0, 0, 0, 0, 0, 0, 0, 1,
     0, 0, 0, 0, 0, 0, 0, 1, 0, 0, 0, 1, 0, 1, 1, 1,
     0, 0, 0, 0, 0, 0, 0, 0, 0, 0, 0, 0, 0, 0, 0, 1,
     0, 0, 0, 0, 0, 0, 0, 1, 0, 0, 0, 1, 0, 1, 1, 1,
     0, 0, 0, 0, 0, 0, 0, 1, 0, 0, 0, 1, 0, 1, 1, 1,
     0, 0, 0, 1, 0, 1, 1, 1, 0, 1, 1, 1, 1, 1, 1, 1,
     0, 0, 0, 0, 0, 0, 0, 0, 0, 0, 0, 0, 0, 0, 0, 1,
     0, 0, 0, 0, 0, 0, 0, 1, 0, 0, 0, 1, 0, 1, 1, 1,
     0, 0, 0, 0, 0, 0, 0, 1, 0, 0, 0, 1, 0, 1, 1, 1,
     0, 0, 0, 1, 0, 1, 1, 1, 0, 1, 1, 1, 1, 1, 1, 1,
     0, 0, 0, 0, 0, 0, 0, 1, 0, 0, 0, 1, 0, 1, 1, 1,
     0, 0, 0, 1, 0, 1, 1, 1, 0, 1, 1, 1, 1, 1, 1, 1,
     0, 0, 0, 1, 0, 1, 1, 1, 0, 1, 1, 1, 1, 1, 1, 1,
     0, 1, 1, 1, 1, 1, 1, 1, 1, 1, 1, 1, 1, 1, 1, 1
   >>

hw_table ==
   <<
     0, 1, 1, 2, 1, 2, 2, 3, 1, 2, 2, 3, 2, 3, 3, 4,
     1, 2, 2, 3, 2, 3, 3, 4, 2, 3, 3, 4, 3, 4, 4, 5,
     1, 2, 2, 3, 2, 3, 3, 4, 2, 3, 3, 4, 3, 4, 4, 5,
     2, 3, 3, 4, 3, 4, 4, 5, 3, 4, 4, 5, 4, 5, 5, 6,
     1, 2, 2, 3, 2, 3, 3, 4, 2, 3, 3, 4, 3, 4, 4, 5,
     2, 3, 3, 4, 3, 4, 4, 5, 3, 4, 4, 5, 4, 5, 5, 6,
     2, 3, 3, 4, 3, 4, 4, 5, 3, 4, 4, 5, 4, 5, 5, 6,
     3, 4, 4, 5, 4, 5, 5, 6, 4, 5, 5, 6, 5, 6, 6, 7,
     1, 2, 2, 3, 2, 3, 3, 4, 2, 3, 3, 4, 3, 4, 4, 5,
     2, 3, 3, 4, 3, 4, 4, 5, 3, 4, 4, 5, 4, 5, 5, 6,
     2, 3, 3, 4, 3, 4, 4, 5, 3, 4, 4, 5, 4, 5, 5, 6,
     3, 4, 4, 5, 4, 5, 5, 6, 4, 5, 5, 6, 5, 6, 6, 7,
     2, 3, 3, 4, 3, 4, 4, 5, 3, 4, 4, 5, 4, 5, 5, 6,
     3, 4, 4, 5, 4, 5, 5, 6, 4, 5, 5, 6, 5, 6, 6, 7,
     3, 4, 4, 5, 4, 5, 5, 6, 4, 5, 5, 6, 5, 6, 6, 7,
     4, 5, 5, 6, 5, 6, 6, 7, 5, 6, 6, 7, 6, 7, 7, 8
   >>

-----------------------------------------------------------------------------
\* The ECC byte of a masked reference byte; of the byte of the masked
\* deep-sleep reference beside it only the highest bit is used.
generate_ecc_data_template(reference, template) ==
    IF HIGHEST_BIT(template) = 1 THEN Complement(reference) ELSE reference

\* One round of the loop of correct_data(): the bit appended to the response
\* and what is added to the count of errors.
correct_data(masked, ecc_data) ==
    LET code_word == masked ^^ ecc_data
        majority == majority_table[code_word + 1]
    IN  [bit |-> majority,
         errors |-> hw_table[(IF majority = 1 THEN Complement(code_word)
                              ELSE code_word) + 1]]

\* A byte measured with the given bits different from its reference.
Corrected(reference, template, flips) ==
    correct_data(reference ^^ flips, generate_ecc_data_template(reference, template))

-----------------------------------------------------------------------------
Templates == {127, 128}

\* For every reference byte, template and flipped bits: up to three flipped
\* bits are corrected to the template's highest bit, five or more give its
\* complement, and four, a tie, always give zero (ecc.c:30-47, 101-127).
DecodesByte ==
    \A reference \in Bytes, template \in Templates, flips \in Bytes :
       Corrected(reference, template, flips).bit =
          IF Weight(flips) = 4 THEN 0
          ELSE IF Weight(flips) < 4 THEN HIGHEST_BIT(template)
          ELSE 1 - HIGHEST_BIT(template)

\* The errors counted are the flipped bits while they are at most half, and
\* the bits that are not flipped after that (ecc.c:49-66, 123-126).
CountsErrors ==
    \A reference \in Bytes, template \in Templates, flips \in Bytes :
       Corrected(reference, template, flips).errors =
          IF Weight(flips) <= 4 THEN Weight(flips) ELSE 8 - Weight(flips)
=============================================================================
