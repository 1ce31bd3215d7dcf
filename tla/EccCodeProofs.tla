--------------------------- MODULE EccCodeProofs ---------------------------
(***************************************************************************)
(* Proofs about EccCode for every word length, memory size and set of      *)
(* counters: the repetition code corrects up to half a word, both paths    *)
(* give one response, and the masks are long enough.                       *)
(***************************************************************************)
EXTENDS EccCode, FiniteSetTheorems, TLAPS

-----------------------------------------------------------------------------
(***************************************************************************)
(* Words.                                                                  *)
(***************************************************************************)

\* A set of bits of a word, and its complement, are finite and share the
\* bits of the word between them (the complement ~ of a uint8_t, ecc.c:85).
LEMMA WordSize ==
    ASSUME NEW w \in SUBSET Bits
    PROVE  /\ IsFiniteSet(w) /\ Cardinality(w) \in Nat
           /\ Cardinality(Bits \ w) = WordBits - Cardinality(w)
<1>1. IsFiniteSet(Bits) /\ Cardinality(Bits) = WordBits
  BY FS_Interval, ParamsAssumption DEF Bits
<1>2. IsFiniteSet(w) /\ Cardinality(w) \in Nat
  BY <1>1, FS_Subset, FS_CardinalityType
<1>3. Bits \cap w = w
  OBVIOUS
<1>4. Cardinality(Bits \ w) = Cardinality(Bits) - Cardinality(Bits \cap w)
  BY <1>1, FS_Difference
<1> QED
  BY <1>1, <1>2, <1>3, <1>4

\* Decoding a word (ecc.c:120-126): if fewer than half of its bits differ
\* from the reference its ECC data was generated from, the majority is the
\* template's highest bit and what is counted is the bits that differ.
LEMMA DecodeWord ==
    ASSUME NEW w \in SUBSET Bits, NEW ref \in SUBSET Bits, NEW template,
           2 * Cardinality(Xor(w, ref)) < WordBits
    PROVE  /\ Majority(Xor(w, EccWord(ref, template))) <=> HIGHEST_BIT(template)
           /\ Residue(Xor(w, EccWord(ref, template))) = Xor(w, ref)
<1> DEFINE d == Xor(w, ref)
           code == Xor(w, EccWord(ref, template))
<1>1. d \in SUBSET Bits
  BY DEF Xor
<1>2. /\ Cardinality(d) \in Nat
      /\ Cardinality(Bits \ d) = WordBits - Cardinality(d)
  BY <1>1, WordSize
<1>3. WordBits \in Nat
  BY ParamsAssumption
<1>4. CASE HIGHEST_BIT(template)
  <2>1. code = Bits \ d
    BY <1>4 DEF EccWord, Xor
  <2>2. Majority(code)
    BY <2>1, <1>2, <1>3 DEF Majority
  <2>3. Residue(code) = Bits \ code
    BY <2>2 DEF Residue
  <2>4. Bits \ code = d
    BY <2>1, <1>1
  <2> QED
    BY <1>4, <2>2, <2>3, <2>4
<1>5. CASE ~HIGHEST_BIT(template)
  <2>1. code = d
    BY <1>5 DEF EccWord
  <2>2. ~Majority(code)
    BY <2>1, <1>2, <1>3 DEF Majority
  <2>3. Residue(code) = code
    BY <2>2 DEF Residue
  <2> QED
    BY <1>5, <2>1, <2>2, <2>3
<1> QED
  BY <1>4, <1>5

-----------------------------------------------------------------------------
(***************************************************************************)
(* Masks.                                                                  *)
(***************************************************************************)

\* Division by a positive number, rounded down.
LEMMA Rounded ==
    ASSUME NEW n \in Nat, NEW d \in Nat \ {0}
    PROVE  /\ n \div d \in Nat /\ (n \div d) * d <= n /\ n \div d <= n
           /\ n % d \in 0 .. d - 1 /\ n - (n % d) \in 0 .. n
<1>1. /\ n % d \in 0 .. d - 1
      /\ n \div d \in Int
      /\ n = d * (n \div d) + (n % d)
  OBVIOUS
<1> DEFINE q == n \div d
           r == n % d
<1>2. q \in Int /\ r \in Nat /\ r < d /\ n = d * q + r
  BY <1>1
<1> HIDE DEF q, r
<1>3. q >= 0
  BY <1>2
<1>4. q * d = d * q /\ d * q <= n
  BY <1>2, <1>3
<1>5. q <= d * q
  BY <1>2, <1>3
<1>6. r <= n
  BY <1>2, <1>3, <1>4
<1> QED
  BY <1>1, <1>2, <1>3, <1>4, <1>5, <1>6 DEF q, r

\* A mask is a finite set of bits of the memory (ecc.c:142-159).
LEMMA MaskFinite ==
    ASSUME NEW S \in SUBSET Cells
    PROVE  /\ IsFiniteSet(S) /\ Cardinality(S) \in Nat
           /\ Cardinality(S) <= MemBits
<1>1. IsFiniteSet(Cells) /\ Cardinality(Cells) = MemBits
  BY FS_Interval, ParamsAssumption DEF Cells
<1> QED
  BY <1>1, FS_Subset, FS_CardinalityType

\* The weight of a mask, rounded down, is at most the number of its bits.
LEMMA MaskWeight ==
    ASSUME NEW S \in SUBSET Cells
    PROVE  mask_hw(S) \in Nat /\ mask_hw(S) <= Cardinality(S)
<1>1. Cardinality(S) \in Nat
  BY MaskFinite
<1>2. WordBits * WordBits \in Nat \ {0}
  BY ParamsAssumption
<1>3. Cardinality(S) - (Cardinality(S) % (WordBits * WordBits)) \in 0 .. Cardinality(S)
  BY <1>1, <1>2, Rounded
<1> QED
  BY <1>1, <1>3 DEF mask_hw

\* The words of the ECC data do not outrun either mask.
LEMMA WordsFit ==
    /\ WordCount \in 0 .. MemBits
    /\ \A p \in Paths : WordCount * WordBits <= Cardinality(Mask(p))
<1> DEFINE a == mask_hw(Mask("rtc"))
           b == mask_hw(Mask("sleep"))
           n == CodeLength(Mask("rtc"), Mask("sleep"))
<1>1. Mask("rtc") \in SUBSET Cells /\ Mask("sleep") \in SUBSET Cells
  BY DEF Mask, create_puf_mask
<1>2. /\ a \in Nat /\ a <= Cardinality(Mask("rtc"))
      /\ b \in Nat /\ b <= Cardinality(Mask("sleep"))
  BY <1>1, MaskWeight
<1>3. /\ Cardinality(Mask("rtc")) \in Nat /\ Cardinality(Mask("rtc")) <= MemBits
      /\ Cardinality(Mask("sleep")) \in Nat
  BY <1>1, MaskFinite
<1>4. n \in Nat /\ n <= a /\ n <= b
  BY <1>2 DEF CodeLength, Smaller
<1>5. WordBits \in Nat \ {0} /\ MemBits \in Nat
  BY ParamsAssumption
<1>6. WordCount = n \div WordBits
  BY DEF WordCount
<1>7. WordCount \in Nat /\ WordCount * WordBits <= n /\ WordCount <= n
  BY <1>4, <1>5, <1>6, Rounded
<1>8. WordCount * WordBits \in Nat
  BY <1>5, <1>7
<1> HIDE DEF a, b, n
<1> QED
  BY <1>2, <1>3, <1>4, <1>5, <1>7, <1>8 DEF Paths

-----------------------------------------------------------------------------
(***************************************************************************)
(* The inductive invariant: the helper data is what enrolment derived from *)
(* the counters, which do not change, and a response that is held is what  *)
(* correct_data() made of the image beside it.                             *)
(***************************************************************************)
HelperInv == helper # NoValue => helper = [p \in Paths |-> HelperData(p)]

ResponseInv ==
    ready =>
      /\ helper # NoValue
      /\ image \in Images
      /\ response = {k \in Words(image.path) :
                       Majority(CodeWord(image.path, image.ones, k))}
      /\ errors = Cardinality({e \in Words(image.path) \X Bits :
                     e[2] \in Residue(CodeWord(image.path, image.ones, e[1]))})

IInv == TypeOK /\ HelperInv /\ ResponseInv

\* What provision_puf_helper() stores has the type of helper data
\* (ecc.c:203-241).
LEMMA HelperDataType == \A p \in Paths : HelperData(p) \in Helpers
<1> SUFFICES ASSUME NEW p \in Paths PROVE HelperData(p) \in Helpers
  OBVIOUS
<1>1. WordCount \in 0 .. MemBits
  BY WordsFit
<1>2. Mask(p) \in SUBSET Cells
  BY DEF Mask, create_puf_mask
<1>3. 0 .. WordCount - 1 \subseteq 0 .. MemBits
  BY <1>1, ParamsAssumption
<1>4. {e \in (0 .. WordCount - 1) \X Bits :
         e[2] \in EccWord(ReferenceWord(p, e[1]), ReferenceWord("sleep", e[1]))}
      \in SUBSET ((0 .. MemBits) \X Bits)
  BY <1>3
<1> QED
  BY <1>1, <1>2, <1>4 DEF HelperData, Helpers

\* The bits counted as errors are finitely many (ecc.c:118-127).
LEMMA ErrorsFinite ==
    ASSUME NEW n \in Nat, NEW S \in SUBSET ((0 .. n - 1) \X Bits)
    PROVE  Cardinality(S) \in Nat
<1>1. IsFiniteSet(0 .. n - 1) /\ IsFiniteSet(Bits)
  BY FS_Interval, ParamsAssumption DEF Bits
<1>2. IsFiniteSet((0 .. n - 1) \X Bits)
  BY <1>1, FS_Product
<1> QED
  BY <1>2, FS_Subset, FS_CardinalityType

\* The invariant holds at first and is kept by every step.
THEOREM Inductive == Spec => []IInv
<1>1. Init => IInv
  <2> SUFFICES ASSUME Init PROVE IInv
    OBVIOUS
  <2>1. freq \in [Paths -> [Cells -> 0 .. Measurements]]
    BY ParamsAssumption DEF Init
  <2>2. TypeOK
    BY <2>1 DEF Init, TypeOK
  <2> QED
    BY <2>2 DEF Init, IInv, HelperInv, ResponseInv
<1>2. IInv /\ [Next]_vars => IInv'
  <2> SUFFICES ASSUME IInv, [Next]_vars PROVE IInv'
    OBVIOUS
  <2> USE DEF IInv
  <2>1. CASE provision_puf_helper
    <3>1. ~ready
      BY <2>1 DEF provision_puf_helper, ResponseInv
    <3>2. helper' = [p \in Paths |-> HelperData(p)] /\ freq' = freq
      BY <2>1 DEF provision_puf_helper
    <3>3. helper' \in [Paths -> Helpers]
      BY <3>2, HelperDataType
    <3>4. TypeOK'
      BY <2>1, <3>3 DEF TypeOK, provision_puf_helper
    <3>5. \A p : HelperData(p)' = HelperData(p)
      BY <3>2 DEF HelperData, Mask, Reference, ReferenceWord, WordCount
    <3>6. HelperInv'
      BY <3>2, <3>5 DEF HelperInv
    <3>7. ResponseInv'
      BY <2>1, <3>1 DEF provision_puf_helper, ResponseInv
    <3> QED
      BY <3>4, <3>6, <3>7
  <2>2. ASSUME NEW p \in Paths, NEW m \in SUBSET Cells, Reconstruct(p, m)
        PROVE  IInv'
    <3>1. helper' = helper /\ freq' = freq /\ helper # NoValue /\ ~ready
      BY <2>2 DEF Reconstruct
    <3>2. HelperInv'
      <4>1. \A q : HelperData(q)' = HelperData(q)
        BY <3>1 DEF HelperData, Mask, Reference, ReferenceWord, WordCount
      <4> QED
        BY <3>1, <4>1 DEF HelperInv
    <3>3. CASE ~puf_ok(m)
      <4>1. UNCHANGED <<ready, response, errors, image>>
        BY <2>2, <3>3 DEF Reconstruct
      <4>2. TypeOK'
        BY <4>1, <3>1 DEF TypeOK
      <4> QED
        BY <4>1, <4>2, <3>1, <3>2 DEF ResponseInv
    <3>4. CASE puf_ok(m)
      <4>1. /\ ready' = TRUE
            /\ response' = {k \in Words(p) : Majority(CodeWord(p, m, k))}
            /\ errors' = Cardinality({e \in Words(p) \X Bits :
                                        e[2] \in Residue(CodeWord(p, m, e[1]))})
            /\ image' = [path |-> p, ones |-> m]
        BY <2>2, <3>4 DEF Reconstruct
      <4>2. helper[p].words \in 0 .. MemBits
        BY <3>1 DEF TypeOK, Helpers
      <4>3. Words(p) \subseteq 0 .. MemBits
        BY <4>2, ParamsAssumption DEF Words
      <4>4. errors' \in Nat
        <5>1. helper[p].words \in Nat
          BY <4>2
        <5> QED
          BY <4>1, <5>1, ErrorsFinite DEF Words
      <4>5. image' \in Images
        BY <4>1 DEF Images
      <4>6. TypeOK'
        BY <4>1, <4>3, <4>4, <4>5, <3>1 DEF TypeOK
      <4>7. image'.path = p /\ image'.ones = m
        BY <4>1
      <4>8. /\ Words(p)' = Words(p)
            /\ \A k : CodeWord(p, m, k)' = CodeWord(p, m, k)
        BY <3>1 DEF Words, CodeWord
      <4>9. ResponseInv'
        BY <4>1, <4>5, <4>7, <4>8, <3>1 DEF ResponseInv, Words, CodeWord
      <4> QED
        BY <4>6, <4>9, <3>2
    <3> QED
      BY <3>3, <3>4
  <2>3. CASE clean_puf_response
    <3>1. helper' = helper /\ freq' = freq /\ ~ready'
      BY <2>3 DEF clean_puf_response
    <3>2. \A q : HelperData(q)' = HelperData(q)
      BY <3>1 DEF HelperData, Mask, Reference, ReferenceWord, WordCount
    <3>3. TypeOK'
      BY <2>3 DEF clean_puf_response, TypeOK
    <3> QED
      BY <3>1, <3>2, <3>3 DEF HelperInv, ResponseInv
  <2>4. CASE UNCHANGED vars
    <3>1. \A q : HelperData(q)' = HelperData(q)
      BY <2>4 DEF vars, HelperData, Mask, Reference, ReferenceWord, WordCount
    <3>2. TypeOK'
      BY <2>4 DEF vars, TypeOK
    <3>3. HelperInv'
      BY <2>4, <3>1 DEF vars, HelperInv
    <3>4. ResponseInv'
      BY <2>4 DEF vars, ResponseInv, Words, CodeWord
    <3> QED
      BY <3>2, <3>3, <3>4
  <2>5. \A p \in Paths, n \in Noises : PowerUpImage(p, n) \in SUBSET Cells
    BY ParamsAssumption DEF PowerUpImage, Xor, Reference, create_puf_reference
  <2> QED
    BY <2>1, <2>2, <2>3, <2>4, <2>5 DEF Next
<1> QED
  BY <1>1, <1>2, PTL DEF Spec

-----------------------------------------------------------------------------
(***************************************************************************)
(* The properties.                                                         *)
(***************************************************************************)

\* TypeOK is an invariant.
THEOREM TypeCorrect == Spec => []TypeOK
<1>1. IInv => TypeOK
  BY DEF IInv
<1> QED
  BY <1>1, Inductive, PTL

\* What CodeWord() is on a state of the invariant: the measured word against
\* the ECC word generated from the reference (ecc.c:120, 234-241).
LEMMA CodeWordOfReference ==
    ASSUME IInv, ready, NEW k \in Words(image.path)
    PROVE  /\ CodeWord(image.path, image.ones, k) =
                Xor(MaskedWord(Mask(image.path), image.ones, k),
                    EccWord(ReferenceWord(image.path, k),
                            ReferenceWord("sleep", k)))
           /\ Flipped(k) = Xor(MaskedWord(Mask(image.path), image.ones, k),
                               ReferenceWord(image.path, k))
<1> DEFINE p == image.path
           ew == EccWord(ReferenceWord(p, k), ReferenceWord("sleep", k))
<1>1. p \in Paths
  BY DEF IInv, ResponseInv, Images
<1>2. helper[p] = HelperData(p)
  BY <1>1 DEF IInv, ResponseInv, HelperInv
<1> HIDE DEF p
<1>3. helper[p].mask = Mask(p) /\ helper[p].words = WordCount
  BY <1>2 DEF HelperData
<1>4. k \in 0 .. WordCount - 1
  BY <1>3 DEF Words, p
<1>5. ew \subseteq Bits
  BY DEF EccWord, ReferenceWord, MaskedWord
<1>6. {b \in Bits : <<k, b>> \in helper[p].ecc} = ew
  <2>1. \A b \in Bits : <<k, b>> \in helper[p].ecc <=> b \in ew
    BY <1>2, <1>4 DEF HelperData
  <2> QED
    BY <2>1, <1>5
<1> QED
  BY <1>3, <1>6 DEF CodeWord, Flipped, p

\* Both properties of a correctable response, from the invariant.
LEMMA Decoded ==
    ASSUME IInv, ready, Correctable, NEW k \in Words(image.path)
    PROVE  LET code == CodeWord(image.path, image.ones, k)
           IN  /\ Majority(code) <=> HIGHEST_BIT(ReferenceWord("sleep", k))
               /\ Residue(code) = Flipped(k)
<1> DEFINE w == MaskedWord(Mask(image.path), image.ones, k)
           r == ReferenceWord(image.path, k)
<1>1. w \in SUBSET Bits /\ r \in SUBSET Bits
  BY DEF MaskedWord, ReferenceWord
<1>2. 2 * Cardinality(Xor(w, r)) < WordBits
  BY CodeWordOfReference DEF Correctable
<1> HIDE DEF w, r
<1>3. /\ Majority(Xor(w, EccWord(r, ReferenceWord("sleep", k))))
           <=> HIGHEST_BIT(ReferenceWord("sleep", k))
      /\ Residue(Xor(w, EccWord(r, ReferenceWord("sleep", k)))) = Xor(w, r)
  BY <1>1, <1>2, DecodeWord
<1> QED
  BY <1>3, CodeWordOfReference DEF w, r

\* A correctable response is the enrolled one on either path.
THEOREM ResponseSame == Spec => []SameResponse
<1>1. IInv => SameResponse
  <2> SUFFICES ASSUME IInv, ready, Correctable
               PROVE  response = {k \in Words("sleep") :
                                    HIGHEST_BIT(ReferenceWord("sleep", k))}
    BY DEF SameResponse
  <2>1. image.path \in Paths /\ helper = [p \in Paths |-> HelperData(p)]
    BY DEF IInv, ResponseInv, HelperInv, Images
  <2>2. Words(image.path) = Words("sleep")
    BY <2>1 DEF Words, HelperData, Paths
  <2>3. response = {k \in Words(image.path) :
                      Majority(CodeWord(image.path, image.ones, k))}
    BY DEF IInv, ResponseInv
  <2>4. \A k \in Words(image.path) :
           Majority(CodeWord(image.path, image.ones, k))
             <=> HIGHEST_BIT(ReferenceWord("sleep", k))
    BY Decoded
  <2> QED
    BY <2>2, <2>3, <2>4
<1> QED
  BY <1>1, Inductive, PTL

\* The errors counted for a correctable response are the flipped bits.
THEOREM ErrorsCounted == Spec => []ErrorsExact
<1>1. IInv => ErrorsExact
  <2> SUFFICES ASSUME IInv, ready, Correctable
               PROVE  errors = Cardinality({e \in Words(image.path) \X Bits :
                                              e[2] \in Flipped(e[1])})
    BY DEF ErrorsExact
  <2>1. errors = Cardinality({e \in Words(image.path) \X Bits :
                     e[2] \in Residue(CodeWord(image.path, image.ones, e[1]))})
    BY DEF IInv, ResponseInv
  <2>2. \A k \in Words(image.path) :
           Residue(CodeWord(image.path, image.ones, k)) = Flipped(k)
    BY Decoded
  <2>3. {e \in Words(image.path) \X Bits :
           e[2] \in Residue(CodeWord(image.path, image.ones, e[1]))}
        = {e \in Words(image.path) \X Bits : e[2] \in Flipped(e[1])}
    BY <2>2
  <2> QED
    BY <2>1, <2>3
<1> QED
  BY <1>1, Inductive, PTL

\* apply_puf_mask() fills its result on either path.
THEOREM MasksLongEnough == Spec => []MasksFill
<1>1. IInv => MasksFill
  <2> SUFFICES ASSUME IInv, helper # NoValue, NEW p \in Paths
               PROVE  helper[p].words * WordBits <= Cardinality(helper[p].mask)
    BY DEF MasksFill
  <2>1. helper[p].words = WordCount /\ helper[p].mask = Mask(p)
    BY DEF IInv, HelperInv, HelperData
  <2> QED
    BY <2>1, WordsFit
<1> QED
  BY <1>1, Inductive, PTL
=============================================================================
