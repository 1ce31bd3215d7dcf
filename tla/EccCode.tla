------------------------------ MODULE EccCode ------------------------------
(***************************************************************************)
(* The fuzzy extractor of esp32_puflib: stable-bit masks, the repetition   *)
(* code and the two paths that reconstruct a PUF response from it (ecc.c,  *)
(* bit_array.c, and their use in puf_measurement.c).                       *)
(*                                                                         *)
(* The first attempt of a boot measures the RTC SRAM, a retry the SRAM as  *)
(* a deep sleep leaves it: two memories with two masks and two references, *)
(* whose ECC data is generated so that both give the same response.        *)
(*                                                                         *)
(* A memory image, a mask and a byte are the sets of their one bits; bit i *)
(* of an image is bit i % 8 of byte i / 8, so the highest bit of a byte is *)
(* the last one appended. WordBits is 8 in the code, and masks are cut to  *)
(* whole bytes of response, WordBits * WordBits bits. The commits and the  *)
(* boots in between are in PufBoot.                                        *)
(***************************************************************************)
EXTENDS Integers, FiniteSets

CONSTANTS
    WordBits,      \* bits of a code word
    MemBits,       \* PUF_MEMORY_SIZE * 8
    Measurements,  \* PROVISIONING_MEASUREMENTS
    RtcCounters,   \* what get_puf_bit_frequency() may count
    SleepCounters, \* what PUF_FREQUENCY may hold after the last measurement
    Noises,        \* the sets of bits that may read differently
    NoValue

Cells == 0 .. MemBits - 1
Bits == 0 .. WordBits - 1

ASSUME ParamsAssumption ==
    /\ WordBits \in Nat \ {0}
    /\ MemBits \in Nat
    /\ Measurements \in Nat
    /\ RtcCounters \subseteq [Cells -> 0 .. Measurements]
    /\ SleepCounters \subseteq [Cells -> 0 .. Measurements]
    /\ Noises \subseteq SUBSET Cells

Xor(a, b) == (a \ b) \cup (b \ a)
Smaller(m, n) == IF m < n THEN m ELSE n

-----------------------------------------------------------------------------
(***************************************************************************)
(* Enrolment: masks and references from the bit counters.                  *)
(***************************************************************************)
\* round(Measurements * 0.001) and round(Measurements * 0.999)
MASK_LOWER_BOUND == (2 * Measurements + 1000) \div 2000
MASK_UPPER_BOUND == (2 * 999 * Measurements + 1000) \div 2000

create_puf_mask(puf_freq) ==
    {i \in Cells : \/ puf_freq[i] >= MASK_UPPER_BOUND
                   \/ puf_freq[i] <= MASK_LOWER_BOUND}

create_puf_reference(puf_freq) ==
    {i \in Cells : puf_freq[i] > Measurements \div 2}

\* Its weight, down to a multiple of 64.
mask_hw(mask) ==
    Cardinality(mask) - (Cardinality(mask) % (WordBits * WordBits))

\* Mutant: the weight of the RTC mask is used for both.
MutCodeLengthRtc(rtc, sleep) == mask_hw(rtc)

\* The number of bits both masks are used for.
CodeLength(rtc, sleep) == Smaller(mask_hw(rtc), mask_hw(sleep))

\* bit_counter when apply_puf_mask() gets to bit i.
bit_counter(mask, i) == Cardinality({x \in mask : x < i})

\* apply_puf_mask(): word k of the selected bits of an image. (Bits beyond the
\* last selected one would be whatever malloc() left there; MasksFill.)
MaskedWord(mask, ones, k) ==
    {b \in Bits : \E i \in mask \cap ones :
                     bit_counter(mask, i) = k * WordBits + b}

HIGHEST_BIT(word) == WordBits - 1 \in word

\* Mutant: the ECC data of each path is generated from its own reference.
MutTemplateIgnored(word, template) ==
    IF HIGHEST_BIT(word) THEN Bits \ word ELSE word

\* generate_ecc_data_template(); generate_ecc_data() is the same with the
\* reference as its own template.
EccWord(word, template) ==
    IF HIGHEST_BIT(template) THEN Bits \ word ELSE word

(***************************************************************************)
(* Reconstruction: majority decoding.                                      *)
(***************************************************************************)
Majority(code) == 2 * Cardinality(code) > WordBits

\* Mutant: the complement is not taken before the errors are counted.
MutResidueOnes(code) == code

\* The bits of a code word that correct_data() counts as errors.
Residue(code) == IF Majority(code) THEN Bits \ code ELSE code

\* The hamming-weight gate: more than 48.5% of the image are ones.
puf_ok(ones) == 1000 * Cardinality(ones) > 485 * MemBits

-----------------------------------------------------------------------------
VARIABLES
    freq,      \* freq[p]: the bit counters of path p
    helper,    \* the four blobs: helper[p].mask, helper[p].ecc
    ready,     \* PUF_STATE = RESPONSE_READY
    response,  \* PUF_RESPONSE: the words that decode to one
    errors,    \* bit_errors of the response
    image      \* the image it was measured from, and on which path

vars == <<freq, helper, ready, response, errors, image>>

Paths == {"rtc", "sleep"}

\* A blob of ECC data is the set of its one bits, as <<word, bit>>; `words`
\* is its length.
Helpers == [mask : SUBSET Cells, words : 0 .. MemBits,
            ecc : SUBSET ((0 .. MemBits) \X Bits)]
Images == [path : Paths, ones : SUBSET Cells]
ASSUME NoValueAssumption ==
    /\ NoValue \notin [Paths -> Helpers]
    /\ NoValue \notin Images

Reference(p) == create_puf_reference(freq[p])
Mask(p) == create_puf_mask(freq[p])

\* Word k of the masked reference of path p.
ReferenceWord(p, k) == MaskedWord(Mask(p), Reference(p), k)

\* How many words both masked references have.
WordCount == CodeLength(Mask("rtc"), Mask("sleep")) \div WordBits

Init ==
    /\ freq \in [Paths -> RtcCounters \cup SleepCounters]
    /\ freq["rtc"] \in RtcCounters /\ freq["sleep"] \in SleepCounters
    /\ helper = NoValue
    /\ image = NoValue /\ ready = FALSE /\ response = {}
    /\ errors = 0

\* The mask and the ECC data of path p.
HelperData(p) ==
    [mask |-> Mask(p),
     words |-> WordCount,
     ecc |-> {e \in (0 .. WordCount - 1) \X Bits :
                e[2] \in EccWord(ReferenceWord(p, e[1]),
                                 ReferenceWord("sleep", e[1]))}]

\* bitArray_append() asserts that there is room for the bit: with a code of no
\* words apply_puf_mask() aborts at the first bit that a mask selects.
provision_puf_helper ==
    /\ helper = NoValue
    /\ WordCount = 0 => \A p \in Paths : Mask(p) = {}
    /\ helper' = [p \in Paths |-> HelperData(p)]
    /\ UNCHANGED <<freq, ready, response, errors, image>>

Words(p) == 0 .. helper[p].words - 1

\* The code word correct_data() sees at k.
CodeWord(p, m, k) ==
    Xor(MaskedWord(helper[p].mask, m, k), {b \in Bits : <<k, b>> \in helper[p].ecc})

\* What memory p holds when it has been powered down and up again: the
\* reference, but for some bits.
PowerUpImage(p, n) == Xor(Reference(p), n)

\* get_puf_response() on the RTC SRAM, puf_response_reset_calculate() on the
\* image the wake stub saved: measure, mask, correct, and clean the response
\* unless the image passes the gate.
Reconstruct(p, m) ==
    /\ helper # NoValue
    /\ ~ready
    /\ IF puf_ok(m)
       THEN /\ ready' = TRUE
            /\ response' = {k \in Words(p) : Majority(CodeWord(p, m, k))}
            /\ errors' = Cardinality({e \in Words(p) \X Bits :
                                        e[2] \in Residue(CodeWord(p, m, e[1]))})
            /\ image' = [path |-> p, ones |-> m]
       ELSE UNCHANGED <<ready, response, errors, image>>
    /\ UNCHANGED <<freq, helper>>

\* clean_puf_response(), when the key pair has been derived.
clean_puf_response ==
    /\ ready
    /\ ready' = FALSE /\ response' = {}
    /\ image' = NoValue
    /\ errors' = 0
    /\ UNCHANGED <<freq, helper>>

Next ==
    \/ provision_puf_helper
    \/ \E p \in Paths, n \in Noises : Reconstruct(p, PowerUpImage(p, n))
    \/ clean_puf_response

Spec == Init /\ [][Next]_vars

-----------------------------------------------------------------------------
(***************************************************************************)
(* Properties.                                                             *)
(***************************************************************************)

TypeOK ==
    /\ freq \in [Paths -> [Cells -> 0 .. Measurements]]
    /\ helper \in [Paths -> Helpers] \cup {NoValue}
    /\ ready \in BOOLEAN
    /\ response \subseteq 0 .. MemBits
    /\ errors \in Nat
    /\ image \in Images \cup {NoValue}

\* The bits of word k that were measured differently from the reference.
Flipped(k) ==
    Xor(MaskedWord(helper[image.path].mask, image.ones, k),
        ReferenceWord(image.path, k))

\* No word has as many flipped bits as half its length.
Correctable ==
    \A k \in Words(image.path) : 2 * Cardinality(Flipped(k)) < WordBits

\* A response that is held is the enrolled one, the highest bits of the
\* masked deep-sleep reference, whichever memory it was measured in, as long
\* as fewer than half the bits of every word were measured differently from
\* that memory's own reference (up to 3 of 8): a retry derives the same key
\* as a first attempt (ecc.c:82-132, 234-241).
SameResponse ==
    ready /\ Correctable =>
       response = {k \in Words("sleep") : HIGHEST_BIT(ReferenceWord("sleep", k))}

\* Then bit_errors is the number of those bits, in every word
\* (ecc.c:118-127), so the errors=%.3f%% diagnostic is exact.
ErrorsExact ==
    ready /\ Correctable =>
       errors = Cardinality({e \in Words(image.path) \X Bits : e[2] \in Flipped(e[1])})

\* Both masks select at least as many bits as the ECC data covers, so that
\* apply_puf_mask() fills the buffers it copies out, which come from malloc()
\* (ecc.c:161-178, 215).
MasksFill ==
    helper # NoValue =>
       \A p \in Paths : helper[p].words * WordBits <= Cardinality(helper[p].mask)
=============================================================================
