---------------------------- MODULE PufBootProofs ----------------------------
(***************************************************************************)
(* Proofs about PufBoot for every number of measurements, every retry      *)
(* limit and any number of power cycles and flashings: the helper data of  *)
(* an enrolled node is consistent, its key pair does not change, what a    *)
(* wake-up reads is there, a ready response is held, the resets are        *)
(* bounded, and every boot comes to its end but for its network waits.     *)
(*                                                                         *)
(* The invariant ties the three memories together: what is in flash at     *)
(* each step of an enrolment, given what RTC memory says of it, and what   *)
(* RTC memory may say at a boot, given what is in flash.                   *)
(***************************************************************************)
EXTENDS PufBoot, TLAPS

\* What PUF_FREQUENCY holds after n measurements of the current run.
Counted(n) == IF n = 0 THEN Zeros ELSE [runs |-> {run}, count |-> n]

\* Helper data that comes from all the measurements of one run.
Complete(h) ==
    /\ h \in Helpers
    /\ h.freq = [runs |-> {h.run}, count |-> Measurements]

Absent == blob["ECC_DATA"] = NoBlob

\* ECC_DATA is written last, so it vouches for the other three.
BlobInv ==
    /\ ~Absent => /\ Complete(blob["ECC_DATA"])
                  /\ \A k \in HelperKeys : blob[k] = blob["ECC_DATA"]
    /\ keys \subseteq {blob}
    /\ Absent => keys = {}

\* An enrolment that sleeps, or has just woken up.
EnrolInv ==
    state = "PROVISIONING" /\ pc \in {"asleep", "boot"} =>
      Absent /\ iter < Measurements /\ freq = Counted(iter)

MeasureInv ==
    pc = "measure" =>
      /\ state = "PROVISIONING" /\ Absent
      /\ iter > 0 => freq = Counted(iter - 1)

\* How far provision_puf_helper() has got.
WriteInv ==
    /\ pc \in {"derive", "write_sleep_mask", "write_ecc_sleep", "write_ecc"} =>
         Absent /\ Complete(derived)
    /\ pc \in {"write_sleep_mask", "write_ecc_sleep", "write_ecc"} =>
         blob["PUF_MASK"] = derived
    /\ pc \in {"write_ecc_sleep", "write_ecc"} =>
         blob["PUF_SLEEP_MASK"] = derived
    /\ pc = "write_ecc" => blob["ECC_SLEEP_DATA"] = derived

\* Past the enrolment step the node is enrolled; a retry needs it to be.
EnrolledInv ==
    /\ pc \in {"zero", "delete", "final", "export", "wifi", "respond", "use",
             "session", "release"} => ~Absent
    /\ state = "PUF_RESPONSE_RESET" => ~Absent /\ pc \in {"asleep", "boot"}
    /\ pc = "asleep" => state # "NONE"
    /\ pc = "check" /\ state # "NONE" => ~Absent

\* The RTC flags against RAM and against the resets that took place.
ReadyInv ==
    /\ pufState = "RESPONSE_READY" => response # NoResponse /\ response.sane
    /\ pc \in {"use", "session", "release"} => pufState = "RESPONSE_READY"
    /\ pc \in {"asleep", "measure"} => pufState = "RESPONSE_CLEAN"
    /\ pc = "boot" \/ (pc = "check" /\ Absent) => pufState = "RESPONSE_CLEAN"
    /\ resets = retries

IInv ==
    /\ TypeOK
    /\ BlobInv
    /\ EnrolInv
    /\ MeasureInv
    /\ WriteInv
    /\ EnrolledInv
    /\ ReadyInv
-----------------------------------------------------------------------------
(***************************************************************************)
(* One lemma per action: it preserves IInv.                                *)
(***************************************************************************)
USE DEF flashVars, rtcVars, ramVars, ghostVars, opVars, Pcs, HelperKeys

\* Being enrolled is having ECC_DATA.
LEMMA EnrolledIff ==
    ASSUME TypeOK, BlobInv
    PROVE  rot_identity_is_enrolled <=> ~Absent
BY AbsentAssumption DEF rot_identity_is_enrolled, Found, Absent, BlobInv, Complete

\* The counters are frequencies, and those of all measurements are complete.
LEMMA CountedTypes ==
    ASSUME TypeOK, NEW n \in Nat
    PROVE  Counted(n) \in Frequencies /\ Counted(n) # NoBlob
BY AbsentAssumption DEF Counted, Frequencies, Zeros, TypeOK

\* A response that passed the gate is one.
LEMMA SaneResponse ==
    ASSUME NEW p \in {"rtc", "sleep"}
    PROVE  /\ [path |-> p, sane |-> TRUE] \in Responses
           /\ [path |-> p, sane |-> TRUE] # NoResponse
<1>1. \A s \in BOOLEAN : [path |-> p, sane |-> s] \in Responses
  BY DEF Responses
<1>2. [path |-> p, sane |-> TRUE] \in Responses
  BY <1>1
<1> QED BY <1>2, AbsentAssumption

\* The timer wakes the node.
LEMMA WakeStep ==
    ASSUME IInv, Wake
    PROVE  IInv'
<1>1. TypeOK'
  BY DEF IInv, TypeOK, Wake, BlobInv, EnrolInv, MeasureInv, WriteInv,
     EnrolledInv, ReadyInv
<1>2. BlobInv' /\ WriteInv' /\ EnrolledInv'
  BY DEF IInv, TypeOK, Wake, BlobInv, EnrolInv, MeasureInv, WriteInv,
     EnrolledInv, ReadyInv, Absent, Complete
<1>3. EnrolInv' /\ MeasureInv'
  BY DEF IInv, TypeOK, Wake, BlobInv, EnrolInv, MeasureInv, WriteInv,
     EnrolledInv, ReadyInv, Absent, Counted
<1>4. ReadyInv'
  BY DEF IInv, TypeOK, Wake, BlobInv, EnrolInv, MeasureInv, WriteInv,
     EnrolledInv, ReadyInv, Absent
<1> QED BY <1>1, <1>2, <1>3, <1>4 DEF IInv

\* The power goes at any step; RTC memory is initialised.
LEMMA PowerCycleStep ==
    ASSUME IInv, PowerCycle
    PROVE  IInv'
<1>1. TypeOK'
  BY ParamsAssumption DEF IInv, TypeOK, PowerCycle, ColdBoot, BlobInv,
     EnrolInv, MeasureInv, WriteInv, EnrolledInv, ReadyInv
<1>2. BlobInv' /\ WriteInv' /\ EnrolledInv'
  BY ParamsAssumption DEF IInv, TypeOK, PowerCycle, ColdBoot, BlobInv,
     EnrolInv, MeasureInv, WriteInv, EnrolledInv, ReadyInv, Absent, Complete
<1>3. EnrolInv' /\ MeasureInv'
  BY ParamsAssumption DEF IInv, TypeOK, PowerCycle, ColdBoot, BlobInv,
     EnrolInv, MeasureInv, WriteInv, EnrolledInv, ReadyInv, Absent, Counted
<1>4. ReadyInv'
  BY ParamsAssumption DEF IInv, TypeOK, PowerCycle, ColdBoot, BlobInv,
     EnrolInv, MeasureInv, WriteInv, EnrolledInv, ReadyInv, Absent
<1> QED BY <1>1, <1>2, <1>3, <1>4 DEF IInv

\* The NVS partition is replaced, RTC memory is initialised.
LEMMA ReplaceNvsStep ==
    ASSUME IInv, ReplaceNvs
    PROVE  IInv'
<1>1. TypeOK'
  BY ParamsAssumption DEF IInv, TypeOK, ReplaceNvs, ColdBoot, BlobInv,
     EnrolInv, MeasureInv, WriteInv, EnrolledInv, ReadyInv
<1>2. BlobInv' /\ WriteInv' /\ EnrolledInv'
  BY ParamsAssumption DEF IInv, TypeOK, ReplaceNvs, ColdBoot, BlobInv,
     EnrolInv, MeasureInv, WriteInv, EnrolledInv, ReadyInv, Absent, Complete
<1>3. EnrolInv' /\ MeasureInv'
  BY ParamsAssumption DEF IInv, TypeOK, ReplaceNvs, ColdBoot, BlobInv,
     EnrolInv, MeasureInv, WriteInv, EnrolledInv, ReadyInv, Absent, Counted
<1>4. ReadyInv'
  BY ParamsAssumption DEF IInv, TypeOK, ReplaceNvs, ColdBoot, BlobInv,
     EnrolInv, MeasureInv, WriteInv, EnrolledInv, ReadyInv, Absent
<1> QED BY <1>1, <1>2, <1>3, <1>4 DEF IInv

\* puflib_init() with nothing to do.
LEMMA InitNoneStep ==
    ASSUME IInv, InitNone
    PROVE  IInv'
<1>1. TypeOK'
  BY DEF IInv, TypeOK, InitNone, BlobInv, EnrolInv, MeasureInv, WriteInv,
     EnrolledInv, ReadyInv
<1>2. BlobInv' /\ WriteInv' /\ EnrolledInv'
  BY DEF IInv, TypeOK, InitNone, BlobInv, EnrolInv, MeasureInv, WriteInv,
     EnrolledInv, ReadyInv, Absent, Complete
<1>3. EnrolInv' /\ MeasureInv'
  BY DEF IInv, TypeOK, InitNone, BlobInv, EnrolInv, MeasureInv, WriteInv,
     EnrolledInv, ReadyInv, Absent, Counted
<1>4. ReadyInv'
  BY DEF IInv, TypeOK, InitNone, BlobInv, EnrolInv, MeasureInv, WriteInv,
     EnrolledInv, ReadyInv, Absent
<1> QED BY <1>1, <1>2, <1>3, <1>4 DEF IInv

\* puflib_init() counts the measurement it was woken up for.
LEMMA InitProvisioningStep ==
    ASSUME IInv, InitProvisioning
    PROVE  IInv'
<1>1. TypeOK'
  BY ParamsAssumption DEF IInv, TypeOK, InitProvisioning, BlobInv, EnrolInv,
     MeasureInv, WriteInv, EnrolledInv, ReadyInv
<1>2. BlobInv' /\ WriteInv' /\ EnrolledInv'
  BY ParamsAssumption DEF IInv, TypeOK, InitProvisioning, BlobInv, EnrolInv,
     MeasureInv, WriteInv, EnrolledInv, ReadyInv, Absent, Complete
<1>3. EnrolInv' /\ MeasureInv'
  BY ParamsAssumption DEF IInv, TypeOK, InitProvisioning, BlobInv, EnrolInv,
     MeasureInv, WriteInv, EnrolledInv, ReadyInv, Absent, Counted
<1>4. ReadyInv'
  BY ParamsAssumption DEF IInv, TypeOK, InitProvisioning, BlobInv, EnrolInv,
     MeasureInv, WriteInv, EnrolledInv, ReadyInv, Absent
<1> QED BY <1>1, <1>2, <1>3, <1>4 DEF IInv

\* puflib_init() after a retry: a response is ready, or the flag is cleared.
LEMMA InitResetStep ==
    ASSUME IInv, InitReset
    PROVE  IInv'
<1>0. /\ [path |-> "sleep", sane |-> TRUE] \in Responses
      /\ [path |-> "sleep", sane |-> TRUE] # NoResponse
  BY SaneResponse
<1>1. TypeOK'
  BY <1>0 DEF IInv, TypeOK, InitReset, CleanResponse, BlobInv, EnrolInv,
     MeasureInv, WriteInv, EnrolledInv, ReadyInv
<1>2. BlobInv' /\ WriteInv' /\ EnrolledInv'
  BY <1>0 DEF IInv, TypeOK, InitReset, CleanResponse, BlobInv, EnrolInv,
     MeasureInv, WriteInv, EnrolledInv, ReadyInv, Absent, Complete
<1>3. EnrolInv' /\ MeasureInv'
  BY <1>0 DEF IInv, TypeOK, InitReset, CleanResponse, BlobInv, EnrolInv,
     MeasureInv, WriteInv, EnrolledInv, ReadyInv, Absent, Counted
<1>4. ReadyInv'
  BY <1>0 DEF IInv, TypeOK, InitReset, CleanResponse, BlobInv, EnrolInv,
     MeasureInv, WriteInv, EnrolledInv, ReadyInv, Absent
<1> QED BY <1>1, <1>2, <1>3, <1>4 DEF IInv

\* A measurement is added; the last one completes the counters.
LEMMA MeasureStep ==
    ASSUME IInv, Measure
    PROVE  IInv'
<1>0. /\ iter \in 0 .. Measurements /\ Measurements \in Nat \ {0} /\ iter \in Nat
      /\ pc = "measure" /\ state = "PROVISIONING" /\ Absent /\ run \in Nat
      /\ pufState = "RESPONSE_CLEAN"
  BY ParamsAssumption DEF IInv, TypeOK, Measure, MeasureInv, ReadyInv
<1>1. freq' = Counted(iter)
  <2>1. CASE iter = 0
    BY <2>1 DEF Measure, NextFrequency, Counted
  <2>2. CASE iter = 1
    <3>1. freq = Zeros
      BY <2>2 DEF IInv, MeasureInv, Counted, Measure
    <3>2. freq.runs = {} /\ freq.count = 0
      BY <3>1 DEF Zeros
    <3>3. freq' = [runs |-> {} \cup {run}, count |-> 0 + 1]
      BY <2>2, <3>2 DEF Measure, NextFrequency
    <3>4. Counted(iter) = [runs |-> {run}, count |-> 1]
      BY <2>2 DEF Counted
    <3> QED BY <3>3, <3>4
  <2>3. CASE iter > 1
    <3>1. iter - 1 # 0 /\ iter > 0 /\ iter # 0
      BY <2>3, <1>0
    <3>2. freq = [runs |-> {run}, count |-> iter - 1]
      BY <3>1, <1>0 DEF IInv, MeasureInv, Counted
    <3>3. freq' = [runs |-> {run} \cup {run}, count |-> (iter - 1) + 1]
      BY <3>1, <3>2 DEF Measure, NextFrequency
    <3>4. (iter - 1) + 1 = iter
      BY <1>0
    <3> QED BY <3>1, <3>3, <3>4 DEF Counted
  <2> QED BY <2>1, <2>2, <2>3, <1>0
<1>2. freq' \in Frequencies
  BY <1>0, <1>1, CountedTypes DEF IInv
<1>3. CASE iter = Measurements
  <2>1. iter # 0
    BY <1>0, <1>3
  <2>2. /\ derived' = [run |-> run, freq |-> freq'] /\ pc' = "derive"
        /\ UNCHANGED <<blob, pinned, state, iter, pufState, retries, response,
                       run, returned, resets, keys, cycles, flashes>>
    BY <1>0, <1>3 DEF Measure
  <2>3. derived' \in Helpers
    BY <1>0, <1>2, <2>2 DEF Helpers
  <2>4. Complete(derived')
    BY <2>1, <2>2, <2>3, <1>1, <1>3 DEF Complete, Counted
  <2>5. TypeOK'
    BY <1>2, <2>2, <2>3 DEF IInv, TypeOK
  <2>6. BlobInv' /\ EnrolInv' /\ MeasureInv' /\ WriteInv' /\ EnrolledInv' /\ ReadyInv'
    BY <1>0, <2>2, <2>4
    DEF IInv, BlobInv, EnrolInv, MeasureInv, WriteInv, EnrolledInv, ReadyInv, Absent, Complete
  <2> QED BY <2>5, <2>6 DEF IInv
<1>4. CASE iter < Measurements
  <2>1. /\ pc' = "asleep" /\ response' = NoResponse /\ derived' = NoBlob
        /\ returned' = "none"
        /\ UNCHANGED <<blob, pinned, state, iter, pufState, retries, run,
                       resets, keys, cycles, flashes>>
    BY <1>0, <1>4 DEF Measure, DeepSleep
  <2>2. TypeOK'
    BY <1>2, <2>1 DEF IInv, TypeOK
  <2>3. EnrolInv'
    BY <1>0, <1>1, <1>4, <2>1 DEF EnrolInv, Absent, Counted
  <2>4. BlobInv' /\ MeasureInv' /\ WriteInv' /\ EnrolledInv' /\ ReadyInv'
    BY <1>0, <2>1 DEF IInv, BlobInv, EnrolInv, MeasureInv, WriteInv,
       EnrolledInv, ReadyInv, Absent, Complete
  <2> QED BY <2>2, <2>3, <2>4 DEF IInv
<1> QED BY <1>0, <1>3, <1>4 DEF Measure

\* The four writes, ECC_DATA last.
LEMMA provision_puf_helperStep ==
    ASSUME IInv, provision_puf_helper
    PROVE  IInv'
<1>1. TypeOK' /\ EnrolInv' /\ MeasureInv' /\ ReadyInv'
  BY DEF IInv, TypeOK, provision_puf_helper, WriteBlob, EnrolInv, MeasureInv,
     ReadyInv
<1>2. BlobInv' /\ WriteInv' /\ EnrolledInv'
  <2>0. /\ pc \in {"derive", "write_sleep_mask", "write_ecc_sleep", "write_ecc"}
        /\ Absent /\ keys = {} /\ Complete(derived) /\ derived # NoBlob
        /\ derived' = derived /\ state' = state /\ keys' = keys
        /\ state # "PUF_RESPONSE_RESET"
    BY AbsentAssumption DEF IInv, provision_puf_helper, WriteBlob, WriteInv,
       BlobInv, EnrolledInv, Complete
  <2>1. CASE WriteBlob("derive", "PUF_MASK", "write_sleep_mask")
    BY <2>0, <2>1 DEF IInv, TypeOK, WriteBlob, BlobInv, WriteInv, EnrolledInv,
       Absent, Complete
  <2>2. CASE WriteBlob("write_sleep_mask", "PUF_SLEEP_MASK", "write_ecc_sleep")
    BY <2>0, <2>2 DEF IInv, TypeOK, WriteBlob, BlobInv, WriteInv, EnrolledInv,
       Absent, Complete
  <2>3. CASE WriteBlob("write_ecc_sleep", "ECC_SLEEP_DATA", "write_ecc")
    BY <2>0, <2>3 DEF IInv, TypeOK, WriteBlob, BlobInv, WriteInv, EnrolledInv,
       Absent, Complete
  <2>4. CASE WriteBlob("write_ecc", "ECC_DATA", "zero")
    <3>1. /\ pc = "write_ecc" /\ pc' = "zero"
          /\ blob' = [blob EXCEPT !["ECC_DATA"] = derived]
      BY <2>4 DEF WriteBlob
    <3>2. \A k \in HelperKeys : blob'[k] = derived
      BY <3>1 DEF IInv, TypeOK, WriteInv
    <3>3. ~Absent'
      BY <2>0, <3>2 DEF Absent
    <3> QED BY <2>0, <3>1, <3>2, <3>3 DEF BlobInv, WriteInv, EnrolledInv,
       Complete
  <2> QED BY <2>1, <2>2, <2>3, <2>4 DEF provision_puf_helper
<1> QED BY <1>1, <1>2 DEF IInv

\* The counters are overwritten.
LEMMA ZeroFrequencyStep ==
    ASSUME IInv, ZeroFrequency
    PROVE  IInv'
<1>1. TypeOK'
  BY DEF Zeros, Frequencies, IInv, TypeOK, ZeroFrequency, BlobInv, EnrolInv,
     MeasureInv, WriteInv, EnrolledInv, ReadyInv
<1>2. BlobInv' /\ WriteInv' /\ EnrolledInv'
  BY DEF IInv, TypeOK, ZeroFrequency, BlobInv, EnrolInv, MeasureInv,
     WriteInv, EnrolledInv, ReadyInv, Absent, Complete
<1>3. EnrolInv' /\ MeasureInv'
  BY DEF IInv, TypeOK, ZeroFrequency, BlobInv, EnrolInv, MeasureInv,
     WriteInv, EnrolledInv, ReadyInv, Absent, Counted
<1>4. ReadyInv'
  BY DEF IInv, TypeOK, ZeroFrequency, BlobInv, EnrolInv, MeasureInv,
     WriteInv, EnrolledInv, ReadyInv, Absent
<1> QED BY <1>1, <1>2, <1>3, <1>4 DEF IInv

\* The counters are erased.
LEMMA DeleteFrequencyStep ==
    ASSUME IInv, DeleteFrequency
    PROVE  IInv'
<1>1. TypeOK'
  BY DEF IInv, TypeOK, DeleteFrequency, BlobInv, EnrolInv, MeasureInv,
     WriteInv, EnrolledInv, ReadyInv
<1>2. BlobInv' /\ WriteInv' /\ EnrolledInv'
  BY DEF IInv, TypeOK, DeleteFrequency, BlobInv, EnrolInv, MeasureInv,
     WriteInv, EnrolledInv, ReadyInv, Absent, Complete
<1>3. EnrolInv' /\ MeasureInv'
  BY DEF IInv, TypeOK, DeleteFrequency, BlobInv, EnrolInv, MeasureInv,
     WriteInv, EnrolledInv, ReadyInv, Absent, Counted
<1>4. ReadyInv'
  BY DEF IInv, TypeOK, DeleteFrequency, BlobInv, EnrolInv, MeasureInv,
     WriteInv, EnrolledInv, ReadyInv, Absent
<1> QED BY <1>1, <1>2, <1>3, <1>4 DEF IInv

\* Enrolment starts only without ECC_DATA.
LEMMA EnrollPufStep ==
    ASSUME IInv, EnrollPuf
    PROVE  IInv'
<1>0. rot_identity_is_enrolled <=> ~Absent
  BY EnrolledIff DEF IInv
<1>1. TypeOK'
  BY ParamsAssumption, <1>0 DEF IInv, TypeOK, EnrollPuf, BlobInv, EnrolInv,
     MeasureInv, WriteInv, EnrolledInv, ReadyInv
<1>2. BlobInv' /\ WriteInv' /\ EnrolledInv'
  BY <1>0 DEF IInv, TypeOK, EnrollPuf, BlobInv, EnrolInv, MeasureInv,
     WriteInv, EnrolledInv, ReadyInv, Absent, Complete
<1>3. EnrolInv' /\ MeasureInv'
  BY <1>0 DEF IInv, TypeOK, EnrollPuf, BlobInv, EnrolInv, MeasureInv,
     WriteInv, EnrolledInv, ReadyInv, Absent, Counted
<1>4. ReadyInv'
  BY <1>0 DEF IInv, TypeOK, EnrollPuf, BlobInv, EnrolInv, MeasureInv,
     WriteInv, EnrolledInv, ReadyInv, Absent
<1> QED BY <1>1, <1>2, <1>3, <1>4 DEF IInv

\* Enrolment is skipped only with ECC_DATA.
LEMMA SkipEnrollmentStep ==
    ASSUME IInv, SkipEnrollment
    PROVE  IInv'
<1>0. rot_identity_is_enrolled <=> ~Absent
  BY EnrolledIff DEF IInv
<1>1. TypeOK'
  BY <1>0 DEF IInv, TypeOK, SkipEnrollment, BlobInv, EnrolInv, MeasureInv,
     WriteInv, EnrolledInv, ReadyInv
<1>2. BlobInv' /\ WriteInv' /\ EnrolledInv'
  BY <1>0 DEF IInv, TypeOK, SkipEnrollment, BlobInv, EnrolInv, MeasureInv,
     WriteInv, EnrolledInv, ReadyInv, Absent, Complete
<1>3. EnrolInv' /\ MeasureInv'
  BY <1>0 DEF IInv, TypeOK, SkipEnrollment, BlobInv, EnrolInv, MeasureInv,
     WriteInv, EnrolledInv, ReadyInv, Absent, Counted
<1>4. ReadyInv'
  BY <1>0 DEF IInv, TypeOK, SkipEnrollment, BlobInv, EnrolInv, MeasureInv,
     WriteInv, EnrolledInv, ReadyInv, Absent
<1> QED BY <1>1, <1>2, <1>3, <1>4 DEF IInv

\* The server reference is looked up.
LEMMA LoadServerRefStep ==
    ASSUME IInv, LoadServerRef
    PROVE  IInv'
<1>1. TypeOK'
  BY DEF IInv, TypeOK, LoadServerRef, BlobInv, EnrolInv, MeasureInv,
     WriteInv, EnrolledInv, ReadyInv
<1>2. BlobInv' /\ WriteInv' /\ EnrolledInv'
  BY DEF IInv, TypeOK, LoadServerRef, BlobInv, EnrolInv, MeasureInv,
     WriteInv, EnrolledInv, ReadyInv, Absent, Complete
<1>3. EnrolInv' /\ MeasureInv'
  BY DEF IInv, TypeOK, LoadServerRef, BlobInv, EnrolInv, MeasureInv,
     WriteInv, EnrolledInv, ReadyInv, Absent, Counted
<1>4. ReadyInv'
  BY DEF IInv, TypeOK, LoadServerRef, BlobInv, EnrolInv, MeasureInv,
     WriteInv, EnrolledInv, ReadyInv, Absent
<1> QED BY <1>1, <1>2, <1>3, <1>4 DEF IInv

\* The network comes up, or app_main returns.
LEMMA ConnectToServerStep ==
    ASSUME IInv, ConnectToServer
    PROVE  IInv'
<1>1. TypeOK'
  BY DEF IInv, TypeOK, ConnectToServer, BlobInv, EnrolInv, MeasureInv,
     WriteInv, EnrolledInv, ReadyInv
<1>2. BlobInv' /\ WriteInv' /\ EnrolledInv'
  BY DEF IInv, TypeOK, ConnectToServer, BlobInv, EnrolInv, MeasureInv,
     WriteInv, EnrolledInv, ReadyInv, Absent, Complete
<1>3. EnrolInv' /\ MeasureInv'
  BY DEF IInv, TypeOK, ConnectToServer, BlobInv, EnrolInv, MeasureInv,
     WriteInv, EnrolledInv, ReadyInv, Absent, Counted
<1>4. ReadyInv'
  BY DEF IInv, TypeOK, ConnectToServer, BlobInv, EnrolInv, MeasureInv,
     WriteInv, EnrolledInv, ReadyInv, Absent
<1> QED BY <1>1, <1>2, <1>3, <1>4 DEF IInv

\* The response of a retry is taken.
LEMMA TakeReadyResponseStep ==
    ASSUME IInv, TakeReadyResponse
    PROVE  IInv'
<1>1. TypeOK'
  BY ParamsAssumption DEF IInv, TypeOK, TakeReadyResponse, ReturnsTrue,
     BlobInv, EnrolInv, MeasureInv, WriteInv, EnrolledInv, ReadyInv
<1>2. BlobInv' /\ WriteInv' /\ EnrolledInv'
  BY DEF IInv, TypeOK, TakeReadyResponse, ReturnsTrue, BlobInv, EnrolInv,
     MeasureInv, WriteInv, EnrolledInv, ReadyInv, Absent, Complete
<1>3. EnrolInv' /\ MeasureInv'
  BY DEF IInv, TypeOK, TakeReadyResponse, ReturnsTrue, BlobInv, EnrolInv,
     MeasureInv, WriteInv, EnrolledInv, ReadyInv, Absent, Counted
<1>4. ReadyInv'
  BY DEF IInv, TypeOK, TakeReadyResponse, ReturnsTrue, BlobInv, EnrolInv,
     MeasureInv, WriteInv, EnrolledInv, ReadyInv, Absent
<1> QED BY <1>1, <1>2, <1>3, <1>4 DEF IInv

\* A measurement passes the gate.
LEMMA MeasureResponseStep ==
    ASSUME IInv, MeasureResponse
    PROVE  IInv'
<1>0. /\ [path |-> "rtc", sane |-> TRUE] \in Responses
      /\ [path |-> "rtc", sane |-> TRUE] # NoResponse
  BY SaneResponse
<1>1. TypeOK'
  BY ParamsAssumption, <1>0 DEF IInv, TypeOK, MeasureResponse, ReturnsTrue,
     BlobInv, EnrolInv, MeasureInv, WriteInv, EnrolledInv, ReadyInv
<1>2. BlobInv' /\ WriteInv' /\ EnrolledInv'
  BY <1>0 DEF IInv, TypeOK, MeasureResponse, ReturnsTrue, BlobInv, EnrolInv,
     MeasureInv, WriteInv, EnrolledInv, ReadyInv, Absent, Complete
<1>3. EnrolInv' /\ MeasureInv'
  BY <1>0 DEF IInv, TypeOK, MeasureResponse, ReturnsTrue, BlobInv, EnrolInv,
     MeasureInv, WriteInv, EnrolledInv, ReadyInv, Absent, Counted
<1>4. ReadyInv'
  BY <1>0 DEF IInv, TypeOK, MeasureResponse, ReturnsTrue, BlobInv, EnrolInv,
     MeasureInv, WriteInv, EnrolledInv, ReadyInv, Absent
<1> QED BY <1>1, <1>2, <1>3, <1>4 DEF IInv

\* The retry budget is used up.
LEMMA GiveUpStep ==
    ASSUME IInv, GiveUp
    PROVE  IInv'
<1>1. TypeOK'
  BY ParamsAssumption DEF IInv, TypeOK, GiveUp, CleanResponse, GivesUp,
     BlobInv, EnrolInv, MeasureInv, WriteInv, EnrolledInv, ReadyInv
<1>2. BlobInv' /\ WriteInv' /\ EnrolledInv'
  BY DEF IInv, TypeOK, GiveUp, CleanResponse, GivesUp, BlobInv, EnrolInv,
     MeasureInv, WriteInv, EnrolledInv, ReadyInv, Absent, Complete
<1>3. EnrolInv' /\ MeasureInv'
  BY DEF IInv, TypeOK, GiveUp, CleanResponse, GivesUp, BlobInv, EnrolInv,
     MeasureInv, WriteInv, EnrolledInv, ReadyInv, Absent, Counted
<1>4. ReadyInv'
  BY DEF IInv, TypeOK, GiveUp, CleanResponse, GivesUp, BlobInv, EnrolInv,
     MeasureInv, WriteInv, EnrolledInv, ReadyInv, Absent
<1> QED BY <1>1, <1>2, <1>3, <1>4 DEF IInv

\* A retry is counted in RTC memory, and the node sleeps.
LEMMA ResetToRetryStep ==
    ASSUME IInv, ResetToRetry
    PROVE  IInv'
<1>1. TypeOK'
  BY ParamsAssumption DEF IInv, TypeOK, ResetToRetry, DeepSleep, GivesUp,
     CountReset, BlobInv, EnrolInv, MeasureInv, WriteInv, EnrolledInv,
     ReadyInv
<1>2. BlobInv' /\ WriteInv' /\ EnrolledInv'
  BY ParamsAssumption DEF IInv, TypeOK, ResetToRetry, DeepSleep, GivesUp,
     CountReset, BlobInv, EnrolInv, MeasureInv, WriteInv, EnrolledInv,
     ReadyInv, Absent, Complete
<1>3. EnrolInv' /\ MeasureInv'
  BY ParamsAssumption DEF IInv, TypeOK, ResetToRetry, DeepSleep, GivesUp,
     CountReset, BlobInv, EnrolInv, MeasureInv, WriteInv, EnrolledInv,
     ReadyInv, Absent, Counted
<1>4. ReadyInv'
  BY ParamsAssumption DEF IInv, TypeOK, ResetToRetry, DeepSleep, GivesUp,
     CountReset, BlobInv, EnrolInv, MeasureInv, WriteInv, EnrolledInv,
     ReadyInv, Absent
<1> QED BY <1>1, <1>2, <1>3, <1>4 DEF IInv

\* A key pair is derived under the current helper data.
LEMMA UseResponseStep ==
    ASSUME IInv, UseResponse
    PROVE  IInv'
<1>1. TypeOK'
  BY DEF IInv, TypeOK, UseResponse, get_mask_ecc_hash, BlobInv, EnrolInv,
     MeasureInv, WriteInv, EnrolledInv, ReadyInv
<1>2. BlobInv' /\ WriteInv' /\ EnrolledInv'
  BY DEF IInv, TypeOK, UseResponse, get_mask_ecc_hash, BlobInv, EnrolInv,
     MeasureInv, WriteInv, EnrolledInv, ReadyInv, Absent, Complete
<1>3. EnrolInv' /\ MeasureInv'
  BY DEF IInv, TypeOK, UseResponse, get_mask_ecc_hash, BlobInv, EnrolInv,
     MeasureInv, WriteInv, EnrolledInv, ReadyInv, Absent, Counted
<1>4. ReadyInv'
  BY DEF IInv, TypeOK, UseResponse, get_mask_ecc_hash, BlobInv, EnrolInv,
     MeasureInv, WriteInv, EnrolledInv, ReadyInv, Absent
<1> QED BY <1>1, <1>2, <1>3, <1>4 DEF IInv

\* The response is released.
LEMMA ReleaseResponseStep ==
    ASSUME IInv, ReleaseResponse
    PROVE  IInv'
<1>1. TypeOK'
  BY DEF IInv, TypeOK, ReleaseResponse, CleanResponse, BlobInv, EnrolInv,
     MeasureInv, WriteInv, EnrolledInv, ReadyInv
<1>2. BlobInv' /\ WriteInv' /\ EnrolledInv'
  BY DEF IInv, TypeOK, ReleaseResponse, CleanResponse, BlobInv, EnrolInv,
     MeasureInv, WriteInv, EnrolledInv, ReadyInv, Absent, Complete
<1>3. EnrolInv' /\ MeasureInv'
  BY DEF IInv, TypeOK, ReleaseResponse, CleanResponse, BlobInv, EnrolInv,
     MeasureInv, WriteInv, EnrolledInv, ReadyInv, Absent, Counted
<1>4. ReadyInv'
  BY DEF IInv, TypeOK, ReleaseResponse, CleanResponse, BlobInv, EnrolInv,
     MeasureInv, WriteInv, EnrolledInv, ReadyInv, Absent
<1> QED BY <1>1, <1>2, <1>3, <1>4 DEF IInv

-----------------------------------------------------------------------------
(***************************************************************************)
(* The invariant, and what follows from it.                                *)
(***************************************************************************)

\* IInv holds at the first power-on.
LEMMA InitIInv ==
    ASSUME Init
    PROVE  IInv
<1>1. TypeOK
  <2>1. /\ 0 \in 0 .. Measurements /\ 0 \in 0 .. RetryLimit
        /\ 0 \in 0 .. RetryLimit + 1 /\ 0 \in 0 .. MaxCycles
        /\ 0 \in 0 .. MaxFlashes
    BY ParamsAssumption
  <2> QED BY <2>1 DEF Init, TypeOK
<1>2. BlobInv /\ EnrolInv /\ MeasureInv /\ WriteInv /\ EnrolledInv /\ ReadyInv
  BY DEF Init, BlobInv, EnrolInv, MeasureInv, WriteInv, EnrolledInv,
     ReadyInv, Absent
<1> QED BY <1>1, <1>2 DEF IInv

\* Every step of the firmware, of the power and of the operator preserves it.
LEMMA NextIInv ==
    ASSUME IInv, [Next]_vars
    PROVE  IInv'
<1>1. CASE Firmware
  BY <1>1, InitNoneStep, InitProvisioningStep, InitResetStep, MeasureStep,
     provision_puf_helperStep, ZeroFrequencyStep, DeleteFrequencyStep,
     EnrollPufStep, SkipEnrollmentStep, LoadServerRefStep, ConnectToServerStep,
     TakeReadyResponseStep, MeasureResponseStep, GiveUpStep, ResetToRetryStep,
     UseResponseStep, ReleaseResponseStep DEF Firmware
<1>2. CASE UNCHANGED vars
  BY <1>2 DEF vars, IInv, TypeOK, BlobInv, EnrolInv, MeasureInv, WriteInv,
     EnrolledInv, ReadyInv, Absent, Complete, Counted
<1> QED BY <1>1, <1>2, WakeStep, PowerCycleStep, ReplaceNvsStep DEF Next

\* IInv holds in every reachable state.
THEOREM Inductive == Spec => []IInv
<1>1. Init => IInv
  BY InitIInv
<1>2. IInv /\ [Next]_vars => IInv'
  BY NextIInv
<1> QED BY <1>1, <1>2, PTL DEF Spec

\* Every variable keeps its type: iteration_progress never passes the number
\* of measurements, the retry counter never passes its limit.
THEOREM TypeCorrect == Spec => []TypeOK
<1>1. IInv => TypeOK
  BY DEF IInv
<1> QED BY <1>1, Inductive, PTL

\* An enrolled node has helper data of one complete run, wherever the power
\* was lost (ecc.c:218-241, rot_identity.c:70-84).
THEOREM HelperDataConsistent == Spec => []HelperConsistent
<1>1. ASSUME IInv PROVE HelperConsistent
  <2>1. rot_identity_is_enrolled <=> ~Absent
    BY <1>1, EnrolledIff DEF IInv
  <2> QED BY <1>1, <2>1 DEF IInv, BlobInv, Complete, HelperConsistent
<1>2. IInv => HelperConsistent
  BY <1>1
<1> QED BY <1>2, Inductive, PTL

\* The key pair of a node changes only when its NVS partition is replaced
\* (rot_identity.c:42-68).
THEOREM KeysStable == Spec => []KeyStable
<1>1. IInv => KeyStable
  BY DEF IInv, BlobInv, KeyStable
<1> QED BY <1>1, Inductive, PTL

\* RESPONSE_READY never outlives the response, and only a response that
\* passed the gate is used (puf_measurement.c:187-215, 264-285).
THEOREM ReadyIsHeld == Spec => []ReadyHeld
<1>1. IInv => ReadyHeld
  BY DEF IInv, ReadyInv, ReadyHeld
<1> QED BY <1>1, Inductive, PTL

\* A wake-up finds the blobs it reads without checking
\* (puf_measurement.c:118, 146, 235, 241).
THEOREM WakesFindData == Spec => []WakeFindsData
<1>1. ASSUME IInv PROVE WakeFindsData
  <2> SUFFICES ASSUME pc = "asleep"
               PROVE  \/ state = "PROVISIONING" /\ freq # NoBlob /\ iter < Measurements
                      \/ state = "PUF_RESPONSE_RESET" /\ rot_identity_is_enrolled
    BY DEF WakeFindsData
  <2>1. CASE state = "PROVISIONING"
    <3>1. iter < Measurements /\ freq = Counted(iter) /\ iter \in Nat
      BY <1>1, <2>1, ParamsAssumption DEF IInv, TypeOK, EnrolInv
    <3>2. freq # NoBlob
      BY <1>1, <3>1, CountedTypes DEF IInv
    <3> QED BY <2>1, <3>1, <3>2
  <2>2. CASE state = "PUF_RESPONSE_RESET"
    BY <1>1, <2>2, EnrolledIff DEF IInv, EnrolledInv
  <2> QED BY <1>1, <2>1, <2>2 DEF IInv, TypeOK, EnrolledInv
<1>2. IInv => WakeFindsData
  BY <1>1
<1> QED BY <1>2, Inductive, PTL

\* The node resets itself at most RetryLimit times without an answer
\* (rot_identity.c:112-133).
THEOREM RetriesBounded == Spec => []RetryBounded
<1>1. IInv => RetryBounded
  BY ParamsAssumption DEF IInv, TypeOK, ReadyInv, RetryBounded
<1> QED BY <1>1, Inductive, PTL

-----------------------------------------------------------------------------
(***************************************************************************)
(* The boots implement StableIdentity.                                     *)
(***************************************************************************)
Identity == IF rot_identity_is_enrolled THEN blob ELSE NoBlob
Held == IF response = NoResponse THEN FALSE ELSE response.sane

\* A response in RAM is flagged in RTC memory; ReadyInv is the converse.
FlagInv == response # NoResponse => pufState = "RESPONSE_READY"

\* Whatever puts a response into RAM or takes it away sets the flag with it.
LEMMA FlagKept ==
    ASSUME IInv, FlagInv, [Next]_vars
    PROVE  FlagInv'
<1>1. CASE Firmware
  <2>1. ASSUME \/ InitNone \/ InitProvisioning \/ provision_puf_helper
               \/ ZeroFrequency \/ DeleteFrequency \/ EnrollPuf \/ SkipEnrollment
               \/ LoadServerRef \/ ConnectToServer \/ TakeReadyResponse
               \/ UseResponse
        PROVE  response' = response /\ pufState' = pufState
    BY <2>1 DEF InitNone, InitProvisioning, provision_puf_helper, WriteBlob,
       ZeroFrequency, DeleteFrequency, EnrollPuf, SkipEnrollment, LoadServerRef,
       ConnectToServer, TakeReadyResponse, ReturnsTrue, UseResponse
  <2>2. ASSUME \/ InitReset \/ GiveUp \/ ResetToRetry \/ ReleaseResponse
               \/ MeasureResponse
        PROVE  response' = NoResponse \/ pufState' = "RESPONSE_READY"
    BY <2>2 DEF InitReset, GiveUp, ResetToRetry, ReleaseResponse,
       MeasureResponse, CleanResponse, DeepSleep
  <2>3. ASSUME Measure
        PROVE  (response' = NoResponse \/ response' = response) /\ pufState' = pufState
    BY <2>3 DEF Measure, DeepSleep
  <2> QED BY <1>1, <2>1, <2>2, <2>3 DEF Firmware, FlagInv
<1>2. CASE ~Firmware
  BY <1>2 DEF Next, vars, FlagInv, Wake, PowerCycle, ReplaceNvs, ColdBoot
<1> QED BY <1>1, <1>2

\* The response is held exactly while it is flagged.
LEMMA HeldIff ==
    ASSUME IInv, FlagInv
    PROVE  Held = (pufState = "RESPONSE_READY")
<1>1. pufState = "RESPONSE_READY" => response # NoResponse /\ response.sane
  BY DEF IInv, ReadyInv
<1>2. ASSUME response # NoResponse
      PROVE  pufState = "RESPONSE_READY"
  BY <1>2 DEF FlagInv
<1>3. CASE response = NoResponse
  BY <1>1, <1>3 DEF Held
<1>4. CASE response # NoResponse
  <2>1. response \in Responses
    BY <1>4 DEF IInv, TypeOK
  <2>2. response.sane \in BOOLEAN
    BY <2>1 DEF Responses
  <2> QED BY <1>1, <1>2, <1>4, <2>2 DEF Held
<1> QED BY <1>3, <1>4

\* What a node that is enrolled is enrolled with.
LEMMA IdentityIs ==
    ASSUME IInv
    PROVE  /\ Absent => Identity = NoBlob
           /\ ~Absent => /\ Identity = blob /\ Identity \in Identities
                         /\ Identity # NoBlob
<1>1. rot_identity_is_enrolled <=> ~Absent
  BY EnrolledIff DEF IInv
<1>2. ~Absent => blob \in Identities
  BY DEF IInv, TypeOK, BlobInv, Complete, Identities
<1>3. ~Absent => blob # NoBlob
  BY <1>2, AbsentAssumption DEF Identities
<1> QED BY <1>1, <1>2, <1>3 DEF Identity

\* What the mapping shows of a state.
shown == <<Identity, Held, resets, keys>>

\* Flash unchanged, the same response and the same count show the same.
LEMMA ShownFrame ==
    ASSUME UNCHANGED <<blob, response, resets, keys>>
    PROVE  UNCHANGED shown
BY DEF shown, Identity, Held, rot_identity_is_enrolled, Found

\* The commit of ECC_DATA enrols the node, the three before it do not show.
LEMMA CommitEnrols ==
    ASSUME IInv, IInv', provision_puf_helper
    PROVE  Promise!Enrol \/ UNCHANGED shown
<1>1. UNCHANGED <<response, resets, keys>> /\ Held' = Held
  BY DEF provision_puf_helper, WriteBlob, Held
<1>2. Absent /\ Identity = NoBlob
  BY IdentityIs DEF IInv, WriteInv, provision_puf_helper, WriteBlob
<1>3. CASE Absent'
  <2>1. Identity' = NoBlob
    <3>1. (Absent => Identity = NoBlob)'
      BY IdentityIs, PTL
    <3> QED BY <1>3, <3>1
  <2> QED BY <1>1, <1>2, <2>1 DEF shown
<1>4. CASE ~Absent'
  <2>1. Identity' \in Identities
    <3>1. (~Absent => Identity \in Identities)'
      BY IdentityIs, PTL
    <3> QED BY <1>4, <3>1 DEF Identities, Helpers, Frequencies
  <2> QED BY <1>1, <1>2, <2>1 DEF Promise!Enrol, Identity, Held
<1> QED BY <1>3, <1>4

\* Where app_main() asks for a response, uses one or was woken up for one, the
\* node is enrolled.
LEMMA AskerEnrolled ==
    ASSUME IInv, blob' = blob,
           pc \in {"export", "respond", "use"} \/ state = "PUF_RESPONSE_RESET"
    PROVE  Identity # NoBlob /\ Identity' = Identity
BY IdentityIs DEF IInv, EnrolledInv, Identity, rot_identity_is_enrolled, Found

\* A retry's wake-up has measured a response, or has not.
LEMMA WakeHolds ==
    ASSUME IInv, FlagInv, InitReset
    PROVE  Promise!Hold \/ UNCHANGED shown
<1>1. Identity # NoBlob /\ Identity' = Identity /\ UNCHANGED <<resets, keys>>
  BY AskerEnrolled DEF InitReset
<1>2. Held = FALSE
  BY HeldIff DEF InitReset, IInv, ReadyInv
<1>3. Held' = FALSE \/ Held' = TRUE
  <2>1. [path |-> "sleep", sane |-> TRUE] # NoResponse
    BY SaneResponse
  <2>2. \/ response' = [path |-> "sleep", sane |-> TRUE]
        \/ response' = NoResponse
    BY DEF InitReset, CleanResponse
  <2> QED BY <2>1, <2>2 DEF Held
<1> QED BY <1>1, <1>2, <1>3 DEF Promise!Hold, shown, Identity, Held

\* rot_identity_get_puf_response() returns true with a response in RAM.
LEMMA TrueAnswers ==
    ASSUME IInv, FlagInv, TakeReadyResponse \/ MeasureResponse
    PROVE  Promise!Answer
<1>1. Identity # NoBlob /\ Identity' = Identity
  BY AskerEnrolled DEF TakeReadyResponse, MeasureResponse
<1>2. resets' = 0 /\ keys' = keys
  BY DEF TakeReadyResponse, MeasureResponse, ReturnsTrue
<1>3. Held' = TRUE
  <2>1. CASE TakeReadyResponse
    <3>1. Held = TRUE
      BY <2>1, HeldIff DEF TakeReadyResponse
    <3> QED BY <2>1, <3>1 DEF TakeReadyResponse, Held
  <2>2. CASE MeasureResponse
    <3>1. [path |-> "rtc", sane |-> TRUE] # NoResponse
      BY SaneResponse
    <3> QED BY <2>2, <3>1 DEF MeasureResponse, Held
  <2> QED BY <2>1, <2>2
<1> QED BY <1>1, <1>2, <1>3 DEF Promise!Answer, Identity, Held

\* It returns false only when every attempt has failed.
LEMMA FalseFails ==
    ASSUME IInv, FlagInv, GiveUp
    PROVE  Promise!Fail
<1>1. Identity' = Identity
  BY AskerEnrolled DEF GiveUp
<1>2. Held = FALSE /\ Held' = FALSE
  BY HeldIff DEF GiveUp, CleanResponse, Held
<1>3. resets = RetryLimit
  BY ParamsAssumption DEF GiveUp, GivesUp, IInv, TypeOK, ReadyInv
<1>4. resets' = 0 /\ keys' = keys
  BY DEF GiveUp
<1> QED BY <1>1, <1>2, <1>3, <1>4 DEF Promise!Fail, Identity, Held

\* A reset is an attempt within the limit, counted across the sleep.
LEMMA ResetRetries ==
    ASSUME IInv, FlagInv, ResetToRetry
    PROVE  Promise!Retry
<1>1. Identity # NoBlob /\ Identity' = Identity
  BY AskerEnrolled DEF ResetToRetry
<1>2. Held = FALSE /\ Held' = FALSE
  BY HeldIff DEF ResetToRetry, DeepSleep, Held
<1>3. resets < RetryLimit /\ resets' = resets + 1 /\ keys' = keys
  BY ParamsAssumption DEF ResetToRetry, GivesUp, CountReset, IInv, TypeOK, ReadyInv
<1> QED BY <1>1, <1>2, <1>3 DEF Promise!Retry, Identity, Held

\* A key pair is derived from the held response under the enrolled helper
\* data, or the derivation fails.
LEMMA UseDerives ==
    ASSUME IInv, FlagInv, UseResponse
    PROVE  Promise!Derive \/ UNCHANGED shown
<1>1. Identity # NoBlob /\ Identity' = Identity
  BY AskerEnrolled DEF UseResponse
<1>2. Held = TRUE /\ Held' = Held
  BY HeldIff DEF UseResponse, Held, IInv, ReadyInv
<1>3. Identity = blob
  BY <1>1 DEF Identity
<1>4. keys' \in {keys, keys \cup {Identity}} /\ resets' = resets
  BY <1>3 DEF UseResponse, get_mask_ecc_hash
<1> QED BY <1>1, <1>2, <1>4 DEF Promise!Derive, shown, Identity, Held

\* The response goes from RAM, and nothing else that shows.
LEMMA ReleaseReleases ==
    ASSUME IInv, FlagInv, ReleaseResponse
    PROVE  Promise!Release
<1>1. Held = TRUE /\ Held' = FALSE
  BY HeldIff DEF ReleaseResponse, CleanResponse, Held, IInv, ReadyInv
<1>2. Identity' = Identity /\ UNCHANGED <<resets, keys>>
  BY DEF ReleaseResponse, Identity, rot_identity_is_enrolled, Found
<1> QED BY <1>1, <1>2 DEF Promise!Release, Identity, Held

\* The power goes, or the NVS partition.
LEMMA FailureShows ==
    ASSUME PowerCycle \/ ReplaceNvs
    PROVE  Promise!LosePower \/ Promise!Wipe
<1>1. Held' = FALSE /\ resets' = 0
  BY DEF PowerCycle, ReplaceNvs, ColdBoot, Held
<1>2. CASE PowerCycle
  <2>1. Identity' = Identity /\ keys' = keys
    BY <1>2 DEF PowerCycle, Identity, rot_identity_is_enrolled, Found
  <2> QED BY <1>1, <2>1 DEF Promise!LosePower, Identity, Held
<1>3. CASE ReplaceNvs
  <2>1. Identity' = NoBlob /\ keys' = {}
    BY <1>3 DEF ReplaceNvs, Identity, rot_identity_is_enrolled, Found
  <2> QED BY <1>1, <2>1 DEF Promise!Wipe, Identity, Held
<1> QED BY <1>2, <1>3

\* Measurements, sleeps, wake-ups and everything else do not show.
LEMMA RestStutters ==
    ASSUME IInv, FlagInv,
           \/ InitNone \/ InitProvisioning \/ Measure \/ ZeroFrequency
           \/ DeleteFrequency \/ EnrollPuf \/ SkipEnrollment \/ LoadServerRef
           \/ ConnectToServer \/ Wake \/ UNCHANGED vars
    PROVE  UNCHANGED shown
<1>1. CASE Measure
  <2>1. Held = FALSE
    BY <1>1, HeldIff DEF Measure, IInv, ReadyInv
  <2>2. response' = NoResponse \/ response' = response
    BY <1>1 DEF Measure, DeepSleep
  <2>3. Held' = Held
    BY <2>1, <2>2 DEF Held
  <2>4. UNCHANGED <<blob, resets, keys>>
    BY <1>1 DEF Measure
  <2>5. Identity' = Identity
    BY <2>4 DEF Identity, rot_identity_is_enrolled, Found
  <2> QED BY <2>3, <2>4, <2>5 DEF shown
<1>2. CASE ~Measure
  <2>1. UNCHANGED <<blob, response, resets, keys>>
    BY <1>2 DEF InitNone, InitProvisioning, ZeroFrequency, DeleteFrequency,
       EnrollPuf, SkipEnrollment, LoadServerRef, ConnectToServer, Wake, vars
  <2> QED BY <2>1, ShownFrame
<1> QED BY <1>1, <1>2

\* The boots of a node implement a stable identity, for any number of
\* measurements, retries, power failures and flashings
\* (rot_identity.c:42-133, ecc.c:218-241, puf_measurement.c:187-285).
THEOREM Implements == Spec => ImplementsStableIdentity
<1>1. Init => FlagInv /\ Promise!Init
  BY DEF Init, FlagInv, Promise!Init, rot_identity_is_enrolled, Found
<1>2. IInv /\ FlagInv /\ [Next]_vars => FlagInv'
  BY FlagKept
<1>3. IInv /\ IInv' /\ FlagInv /\ [Next]_vars => [Promise!Next]_(Promise!promise)
  <2> SUFFICES ASSUME IInv, IInv', FlagInv, [Next]_vars
               PROVE  Promise!Next \/ UNCHANGED shown
    BY DEF Promise!promise, shown, Identity, Held
  <2>1. CASE provision_puf_helper
    BY <2>1, CommitEnrols DEF Promise!Next
  <2>2. CASE InitReset
    BY <2>2, WakeHolds DEF Promise!Next
  <2>3. CASE TakeReadyResponse \/ MeasureResponse
    BY <2>3, TrueAnswers DEF Promise!Next
  <2>4. CASE GiveUp
    BY <2>4, FalseFails DEF Promise!Next
  <2>5. CASE ResetToRetry
    BY <2>5, ResetRetries DEF Promise!Next
  <2>6. CASE UseResponse
    BY <2>6, UseDerives DEF Promise!Next
  <2>9. CASE ReleaseResponse
    BY <2>9, ReleaseReleases DEF Promise!Next
  <2>7. CASE PowerCycle \/ ReplaceNvs
    BY <2>7, FailureShows DEF Promise!Next
  <2>8. CASE \/ InitNone \/ InitProvisioning \/ Measure \/ ZeroFrequency
             \/ DeleteFrequency \/ EnrollPuf \/ SkipEnrollment \/ LoadServerRef
             \/ ConnectToServer \/ Wake \/ UNCHANGED vars
    BY <2>8, RestStutters
  <2> QED BY <2>1, <2>2, <2>3, <2>4, <2>5, <2>6, <2>7, <2>8, <2>9
    DEF Next, Firmware
<1> QED BY <1>1, <1>2, <1>3, Inductive, PTL
    DEF Spec, ImplementsStableIdentity, Promise!Spec
-----------------------------------------------------------------------------
(***************************************************************************)
(* Every boot comes to its end: the measure of how much is left to do.     *)
(***************************************************************************)
\* What is left once the node is enrolled: a retry takes six steps.
RetriesLeft == 6 * (RetryLimit - retries)

\* A measurement takes three: it is taken, the node sleeps, it wakes up.
MeasurementsLeft == 3 * (Measurements - iter)

\* An upper bound of the steps the firmware has left before it idles.
StepsLeft ==
    CASE pc = "idle" -> 0
      [] pc \in {"session", "release"} -> 1
      [] pc = "use" -> 2
      [] pc \in {"export", "respond"} -> RetriesLeft + 3
      [] pc = "wifi" -> RetriesLeft + 4
      [] pc = "final" -> RetriesLeft + 5
      [] pc = "check" /\ (~Absent \/ state # "NONE") -> RetriesLeft + 6
      [] pc = "boot" /\ state = "PUF_RESPONSE_RESET" -> RetriesLeft + 7
      [] pc = "asleep" /\ state = "PUF_RESPONSE_RESET" -> RetriesLeft + 8
      [] pc = "delete" -> RetriesLeft + 7
      [] pc = "zero" -> RetriesLeft + 8
      [] pc = "write_ecc" -> RetriesLeft + 9
      [] pc = "write_ecc_sleep" -> RetriesLeft + 10
      [] pc = "write_sleep_mask" -> RetriesLeft + 11
      [] pc = "derive" -> RetriesLeft + 12
      [] pc = "boot" /\ state = "PROVISIONING" -> RetriesLeft + MeasurementsLeft + 11
      [] pc = "asleep" /\ state = "PROVISIONING" -> RetriesLeft + MeasurementsLeft + 12
      [] pc = "measure" -> RetriesLeft + MeasurementsLeft + 13
      [] pc = "check" /\ Absent /\ state = "NONE" -> RetriesLeft + 3 * Measurements + 14
      [] pc = "boot" /\ state = "NONE" -> RetriesLeft + 3 * Measurements + 15

\* The most a node needs: all measurements, and all retries.
MostSteps == 6 * RetryLimit + 3 * Measurements + 15

\* The measure is a natural number wherever the boots can be.
LEMMA StepsRange ==
    ASSUME IInv
    PROVE  StepsLeft \in 0 .. MostSteps
<1>1. /\ RetriesLeft \in 0 .. 6 * RetryLimit
      /\ MeasurementsLeft \in 0 .. 3 * Measurements
      /\ 6 * RetryLimit \in Nat /\ 3 * Measurements \in Nat
  BY ParamsAssumption DEF IInv, TypeOK, RetriesLeft, MeasurementsLeft
<1>2. /\ pc \in Pcs /\ state \in {"NONE", "PROVISIONING", "PUF_RESPONSE_RESET"}
      /\ pc = "asleep" => state # "NONE"
  BY DEF IInv, TypeOK, EnrolledInv
<1>3. \/ StepsLeft \in 0 .. 2
      \/ \E n \in 3 .. 12 : StepsLeft = RetriesLeft + n
      \/ \E n \in 11 .. 13 : StepsLeft = RetriesLeft + MeasurementsLeft + n
      \/ \E n \in 14 .. 15 : StepsLeft = RetriesLeft + 3 * Measurements + n
  <2>1. CASE pc \in {"idle", "use", "session", "release"}
    <3>1. StepsLeft \in {0, 1, 2}
      BY <2>1 DEF StepsLeft
    <3> QED BY <3>1
  <2>2. CASE pc \in {"export", "respond", "wifi", "final"}
    <3>1. StepsLeft \in {RetriesLeft + 3, RetriesLeft + 4, RetriesLeft + 5}
      BY <2>2 DEF StepsLeft
    <3> QED BY <3>1
  <2>3. CASE pc = "check"
    <3>1. StepsLeft \in {RetriesLeft + 6, RetriesLeft + 3 * Measurements + 14}
      BY <2>3 DEF StepsLeft
    <3> QED BY <3>1
  <2>4. CASE pc \in {"delete", "zero", "write_ecc", "write_ecc_sleep",
                     "write_sleep_mask", "derive"}
    <3>1. StepsLeft \in {RetriesLeft + 7, RetriesLeft + 8, RetriesLeft + 9,
                         RetriesLeft + 10, RetriesLeft + 11, RetriesLeft + 12}
      BY <2>4 DEF StepsLeft
    <3> QED BY <3>1
  <2>5. CASE pc = "measure"
    <3>1. StepsLeft = RetriesLeft + MeasurementsLeft + 13
      BY <2>5 DEF StepsLeft
    <3> QED BY <3>1
  <2>6. CASE pc \in {"boot", "asleep"}
    <3>1. StepsLeft \in {RetriesLeft + 7, RetriesLeft + 8,
                         RetriesLeft + MeasurementsLeft + 11,
                         RetriesLeft + MeasurementsLeft + 12,
                         RetriesLeft + 3 * Measurements + 15}
      BY <1>2, <2>6 DEF StepsLeft
    <3> QED BY <3>1
  <2> QED BY <1>2, <2>1, <2>2, <2>3, <2>4, <2>5, <2>6
<1> QED BY <1>1, <1>3 DEF MostSteps

\* Enrolment, on its way to the commits.
LEMMA EnrolmentFalls ==
    ASSUME IInv, IInv',
           InitNone \/ InitProvisioning \/ Measure \/ EnrollPuf \/ Wake
    PROVE  StepsLeft' < StepsLeft
<1> DEFINE r == RetriesLeft
<1>1. /\ r \in Nat /\ Measurements \in Nat \ {0}
      /\ iter \in 0 .. Measurements /\ iter' \in 0 .. Measurements
  BY ParamsAssumption DEF IInv, TypeOK, RetriesLeft
<1>2. RetriesLeft' = r
  BY DEF RetriesLeft, InitNone, InitProvisioning, Measure, EnrollPuf, Wake
<1>3. Absent' = Absent
  BY DEF Absent, InitNone, InitProvisioning, Measure, EnrollPuf, Wake
<1> HIDE DEF r
<1>4. CASE InitNone
  <2>1. pc = "boot" /\ state = "NONE" /\ pc' = "check" /\ state' = state
    BY <1>4 DEF InitNone
  <2>2. StepsLeft = r + 3 * Measurements + 15
    BY <2>1 DEF StepsLeft, r
  <2>3. StepsLeft' \in {r + 6, r + 3 * Measurements + 14}
    BY <1>2, <1>3, <2>1 DEF StepsLeft
  <2> QED BY <1>1, <2>2, <2>3
<1>5. CASE InitProvisioning
  <2>1. /\ pc = "boot" /\ state = "PROVISIONING" /\ pc' = "measure"
        /\ state' = state /\ iter' = iter + 1
    BY <1>5 DEF InitProvisioning
  <2>2. StepsLeft = r + MeasurementsLeft + 11
    BY <2>1 DEF StepsLeft, r
  <2>3. StepsLeft' = r + 3 * (Measurements - (iter + 1)) + 13
    BY <1>2, <2>1 DEF StepsLeft, MeasurementsLeft
  <2> QED BY <1>1, <2>2, <2>3 DEF MeasurementsLeft
<1>6. CASE Measure
  <2>1. pc = "measure" /\ state = "PROVISIONING" /\ state' = state /\ iter' = iter
    BY <1>6 DEF Measure, IInv, MeasureInv
  <2>2. StepsLeft = r + MeasurementsLeft + 13 /\ MeasurementsLeft \in Nat
    BY <1>1, <2>1 DEF StepsLeft, r, MeasurementsLeft
  <2>3. MeasurementsLeft' = MeasurementsLeft
    BY <2>1 DEF MeasurementsLeft
  <2>4. pc' \in {"asleep", "derive"}
    BY <1>6 DEF Measure, DeepSleep
  <2>5. StepsLeft' \in {r + 12, r + MeasurementsLeft + 12}
    BY <1>2, <2>1, <2>3, <2>4 DEF StepsLeft
  <2> QED BY <1>1, <2>2, <2>5
<1>7. CASE EnrollPuf
  <2>1. pc = "check" /\ Absent
    BY <1>7, EnrolledIff DEF EnrollPuf, IInv
  <2>2. CASE state = "NONE"
    <3>1. state' = "PROVISIONING" /\ pc' = "measure" /\ iter' = 0
      BY <1>7, <2>2 DEF EnrollPuf
    <3>2. StepsLeft = r + 3 * Measurements + 14
      BY <2>1, <2>2 DEF StepsLeft, r
    <3>3. StepsLeft' = r + 3 * (Measurements - 0) + 13
      BY <1>2, <3>1 DEF StepsLeft, MeasurementsLeft
    <3> QED BY <1>1, <3>2, <3>3
  <2>3. CASE state # "NONE"
    BY <2>1, <2>3 DEF IInv, EnrolledInv
  <2> QED BY <2>2, <2>3
<1>8. CASE Wake
  <2>1. /\ pc = "asleep" /\ pc' = "boot" /\ state' = state /\ iter' = iter
        /\ state \in {"PROVISIONING", "PUF_RESPONSE_RESET"}
    BY <1>8 DEF Wake, IInv, TypeOK, EnrolledInv
  <2>2. MeasurementsLeft' = MeasurementsLeft /\ MeasurementsLeft \in Int
    BY <1>1, <2>1 DEF MeasurementsLeft
  <2>3. CASE state = "PROVISIONING"
    <3>1. StepsLeft = r + MeasurementsLeft + 12
      BY <2>1, <2>3 DEF StepsLeft, r
    <3>2. StepsLeft' = r + MeasurementsLeft + 11
      BY <1>2, <2>1, <2>2, <2>3 DEF StepsLeft
    <3> QED BY <1>1, <2>2, <3>1, <3>2
  <2>4. CASE state = "PUF_RESPONSE_RESET"
    <3>1. StepsLeft = r + 8 /\ StepsLeft' = r + 7
      BY <1>2, <2>1, <2>4 DEF StepsLeft, r
    <3> QED BY <1>1, <3>1
  <2> QED BY <2>1, <2>3, <2>4
<1> QED BY <1>4, <1>5, <1>6, <1>7, <1>8

\* The commits, and what app_main does once the node is enrolled.
LEMMA EnrolledFalls ==
    ASSUME IInv, IInv',
           \/ provision_puf_helper \/ ZeroFrequency \/ DeleteFrequency
           \/ InitReset \/ SkipEnrollment \/ LoadServerRef \/ ConnectToServer
    PROVE  StepsLeft' < StepsLeft
<1> DEFINE r == RetriesLeft
<1>1. r \in Nat
  BY ParamsAssumption DEF IInv, TypeOK, RetriesLeft
<1>2. RetriesLeft' = r
  BY DEF RetriesLeft, provision_puf_helper, WriteBlob, ZeroFrequency,
     DeleteFrequency, InitReset, SkipEnrollment, LoadServerRef, ConnectToServer
<1> HIDE DEF r
<1>3. CASE provision_puf_helper
  <2>1. \/ pc = "derive" /\ pc' = "write_sleep_mask"
        \/ pc = "write_sleep_mask" /\ pc' = "write_ecc_sleep"
        \/ pc = "write_ecc_sleep" /\ pc' = "write_ecc"
        \/ pc = "write_ecc" /\ pc' = "zero"
    BY <1>3 DEF provision_puf_helper, WriteBlob
  <2>2. \/ StepsLeft = r + 12 /\ StepsLeft' = r + 11
        \/ StepsLeft = r + 11 /\ StepsLeft' = r + 10
        \/ StepsLeft = r + 10 /\ StepsLeft' = r + 9
        \/ StepsLeft = r + 9 /\ StepsLeft' = r + 8
    BY <1>2, <2>1 DEF StepsLeft, r
  <2> QED BY <1>1, <2>2
<1>4. CASE ZeroFrequency \/ DeleteFrequency
  <2>1. \/ pc = "zero" /\ pc' = "delete"
        \/ pc = "delete" /\ pc' = "check" /\ ~Absent /\ Absent' = Absent
    BY <1>4 DEF ZeroFrequency, DeleteFrequency, IInv, EnrolledInv, Absent
  <2>2. \/ StepsLeft = r + 8 /\ StepsLeft' = r + 7
        \/ StepsLeft = r + 7 /\ StepsLeft' = r + 6
    BY <1>2, <2>1 DEF StepsLeft, r
  <2> QED BY <1>1, <2>2
<1>5. CASE InitReset
  <2>1. /\ pc = "boot" /\ state = "PUF_RESPONSE_RESET" /\ pc' = "check"
        /\ ~Absent /\ Absent' = Absent
    BY <1>5 DEF InitReset, IInv, EnrolledInv, Absent
  <2>2. StepsLeft = r + 7 /\ StepsLeft' = r + 6
    BY <1>2, <2>1 DEF StepsLeft, r
  <2> QED BY <1>1, <2>2
<1>6. CASE SkipEnrollment
  <2>1. pc = "check" /\ ~Absent /\ pc' = "final"
    BY <1>6, EnrolledIff DEF SkipEnrollment, IInv
  <2>2. StepsLeft = r + 6 /\ StepsLeft' = r + 5
    BY <1>2, <2>1 DEF StepsLeft, r
  <2> QED BY <1>1, <2>2
<1>7. CASE LoadServerRef \/ ConnectToServer
  <2>1. \/ pc = "final" /\ pc' \in {"wifi", "export"}
        \/ pc = "wifi" /\ pc' \in {"respond", "idle"}
    BY <1>7 DEF LoadServerRef, ConnectToServer
  <2>2. \/ StepsLeft = r + 5 /\ StepsLeft' \in {r + 4, r + 3}
        \/ StepsLeft = r + 4 /\ StepsLeft' \in {r + 3, 0}
    BY <1>2, <2>1 DEF StepsLeft, r
  <2> QED BY <1>1, <2>2
<1> QED BY <1>3, <1>4, <1>5, <1>6, <1>7

\* An attempt: an answer, or one retry less.
LEMMA AttemptFalls ==
    ASSUME IInv, IInv',
           \/ TakeReadyResponse \/ MeasureResponse \/ GiveUp \/ ResetToRetry
           \/ UseResponse \/ ReleaseResponse
    PROVE  StepsLeft' < StepsLeft
<1>1. RetriesLeft \in Nat /\ retries \in Nat /\ RetryLimit \in Nat
  BY ParamsAssumption DEF IInv, TypeOK, RetriesLeft
<1>2. CASE TakeReadyResponse \/ MeasureResponse \/ GiveUp
  <2>1. pc \in {"export", "respond"} /\ pc' \in {"use", "idle"}
    BY <1>2 DEF TakeReadyResponse, MeasureResponse, GiveUp, ReturnsTrue
  <2>2. StepsLeft = RetriesLeft + 3 /\ StepsLeft' \in {2, 0}
    BY <2>1 DEF StepsLeft
  <2> QED BY <1>1, <2>2
<1>3. CASE ResetToRetry
  <2>1. /\ pc \in {"export", "respond"} /\ pc' = "asleep"
        /\ state' = "PUF_RESPONSE_RESET" /\ retries' = retries + 1
    BY <1>3 DEF ResetToRetry, DeepSleep
  <2>2. StepsLeft = RetriesLeft + 3 /\ StepsLeft' = RetriesLeft' + 8
    BY <2>1 DEF StepsLeft
  <2>3. RetriesLeft' = RetriesLeft - 6
    BY <1>1, <2>1 DEF RetriesLeft
  <2> QED BY <1>1, <2>2, <2>3
<1>4. CASE UseResponse \/ ReleaseResponse
  <2>1. \/ pc = "use" /\ pc' \in {"session", "release"}
        \/ pc \in {"session", "release"} /\ pc' = "idle"
    BY <1>4 DEF UseResponse, ReleaseResponse
  <2>2. \/ StepsLeft = 2 /\ StepsLeft' = 1
        \/ StepsLeft = 1 /\ StepsLeft' = 0
    BY <2>1 DEF StepsLeft
  <2> QED BY <2>2
<1> QED BY <1>2, <1>3, <1>4

\* From any state at most 6 * RetryLimit + 3 * Measurements + 15 steps of the
\* firmware and wake-ups lie before the end of app_main: every one of them
\* takes the node closer to it, deep sleeps and restarts from the top included
\* (rot_identity.c:44-56, 115-124). So a boot either ends or stands still at one
\* of its steps; that it stands still only in its network waits is fairness,
\* and BootDecides.
THEOREM BootsEnd ==
    Spec => /\ [](StepsLeft \in 0 .. MostSteps)
            /\ [][Firmware \/ Wake => StepsLeft' < StepsLeft]_vars
<1>1. IInv => StepsLeft \in 0 .. MostSteps
  BY StepsRange
<1>2. IInv /\ IInv' /\ [Next]_vars =>
        [Firmware \/ Wake => StepsLeft' < StepsLeft]_vars
  <2> SUFFICES ASSUME IInv, IInv', Firmware \/ Wake
               PROVE  StepsLeft' < StepsLeft
    OBVIOUS
  <2>1. CASE InitNone \/ InitProvisioning \/ Measure \/ EnrollPuf \/ Wake
    BY <2>1, EnrolmentFalls
  <2>2. CASE \/ provision_puf_helper \/ ZeroFrequency \/ DeleteFrequency
             \/ InitReset \/ SkipEnrollment \/ LoadServerRef \/ ConnectToServer
    BY <2>2, EnrolledFalls
  <2>3. CASE \/ TakeReadyResponse \/ MeasureResponse \/ GiveUp \/ ResetToRetry
             \/ UseResponse \/ ReleaseResponse
    BY <2>3, AttemptFalls
  <2> QED BY <2>1, <2>2, <2>3 DEF Firmware
<1> QED BY <1>1, <1>2, Inductive, PTL DEF Spec
=============================================================================
