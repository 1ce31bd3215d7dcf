------------------------------- MODULE PufBoot -------------------------------
(***************************************************************************)
(* The boots of one smg_puf_rot_node: enrolment and reconstruction of the  *)
(* PUF response across deep sleeps and power cycles (app_main.c,           *)
(* rot_identity.c and the vendored esp32_puflib: ecc.c, puf_measurement.c, *)
(* nvs.c, wake_up_stub.c).                                                 *)
(*                                                                         *)
(* Three memories with three lifetimes carry the state from one boot to    *)
(* the next: flash (NVS) survives everything but a flashed image, RTC      *)
(* memory survives a deep sleep but no reset, RAM survives nothing. An     *)
(* action is what the firmware does between two NVS commits, so that the   *)
(* power can go at each of them; a commit itself is atomic.                *)
(*                                                                         *)
(* A measurement is named by the enrolment run it was taken for, and a     *)
(* blob by the run and the counters it was derived from; whether a         *)
(* measurement passes the hamming-weight gate is open.                     *)
(***************************************************************************)
EXTENDS Integers, FiniteSets

CONSTANTS
    Measurements,  \* PROVISIONING_MEASUREMENTS
    RetryLimit,    \* ROT_PUF_RESET_RETRY_LIMIT
    NoBlob,        \* a key that is not in NVS
    NoResponse,    \* PUF_RESPONSE = NULL
    MaxCycles,     \* bound: power cycles in a behaviour
    MaxFlashes     \* bound: NVS images and firmware updates flashed

ASSUME ParamsAssumption ==
    /\ Measurements \in Nat \ {0}
    /\ RetryLimit \in Nat
    /\ MaxCycles \in Nat /\ MaxFlashes \in Nat

\* PUF_FREQUENCY: the runs whose measurements were added, and how many.
Frequencies == [runs : SUBSET Nat, count : Nat]
Zeros == [runs |-> {}, count |-> 0]

\* The helper data derived by run r from the deep-sleep counters f.
Helpers == [run : Nat, freq : Frequencies]
HelperKeys == {"PUF_MASK", "PUF_SLEEP_MASK", "ECC_SLEEP_DATA", "ECC_DATA"}

\* PUF_RESPONSE: by which path it was measured, and whether more than 48.5%
\* of the measured bits were ones.
Responses == [path : {"rtc", "sleep"}, sane : BOOLEAN]

ASSUME AbsentAssumption ==
    /\ NoBlob \notin Helpers \cup Frequencies \cup [HelperKeys -> Helpers]
    /\ NoResponse \notin Responses

VARIABLES
    blob,      \* flash: the four blobs of helper data
    freq,      \* flash: PUF_FREQUENCY
    pinned,    \* flash: a server reference is pinned
    state,     \* RTC: PUFLIB_STATE.state
    iter,      \* RTC: PUFLIB_STATE.iteration_progress
    pufState,  \* RTC: PUF_STATE
    retries,   \* RTC: s_puf_reset_retry_count
    response,  \* RAM: PUF_RESPONSE
    derived,   \* RAM: the helper data provision_puf_helper() is writing
    pc,        \* where app_main() is
    run,       \* enrolment runs started so far
    returned,  \* what rot_identity_get_puf_response() returned in this boot
    resets,    \* retry resets since it last returned or the power was cycled
               \* (the count stops one past RetryLimit)
    keys,      \* helper data that key pairs were derived under since a flash
    cycles, flashes

flashVars == <<blob, freq, pinned>>
rtcVars == <<state, iter, pufState, retries>>
ramVars == <<response, derived>>
ghostVars == <<returned, resets, keys>>
opVars == <<cycles, flashes>>
vars == <<blob, freq, pinned, state, iter, pufState, retries, response,
          derived, pc, run, returned, resets, keys, cycles, flashes>>

Pcs == {"asleep", "boot", "measure", "derive", "write_sleep_mask",
        "write_ecc_sleep", "write_ecc", "zero", "delete", "check", "final",
        "export", "wifi", "respond", "use", "session", "release", "idle"}

TypeOK ==
    /\ blob \in [HelperKeys -> Helpers \cup {NoBlob}]
    /\ freq \in Frequencies \cup {NoBlob}
    /\ pinned \in BOOLEAN
    /\ state \in {"NONE", "PROVISIONING", "PUF_RESPONSE_RESET"}
    /\ iter \in 0 .. Measurements
    /\ pufState \in {"RESPONSE_CLEAN", "RESPONSE_READY"}
    /\ retries \in 0 .. RetryLimit
    /\ response \in Responses \cup {NoResponse}
    /\ derived \in Helpers \cup {NoBlob}
    /\ pc \in Pcs
    /\ run \in Nat
    /\ returned \in {"none", "true", "false"}
    /\ resets \in 0 .. RetryLimit + 1
    /\ keys \subseteq [HelperKeys -> Helpers \cup {NoBlob}]
    /\ cycles \in 0 .. MaxCycles
    /\ flashes \in 0 .. MaxFlashes

\* A freshly flashed chip with an empty NVS partition is powered on.
Init ==
    /\ blob = [k \in HelperKeys |-> NoBlob]
    /\ freq = NoBlob
    /\ pinned = FALSE
    /\ state = "NONE" /\ iter = 0
    /\ pufState = "RESPONSE_CLEAN" /\ retries = 0
    /\ response = NoResponse /\ derived = NoBlob
    /\ pc = "boot"
    /\ run = 0
    /\ returned = "none" /\ resets = 0 /\ keys = {}
    /\ cycles = 0 /\ flashes = 0

\* What get_blob() returns.
Found(key) == blob[key] # NoBlob

rot_identity_is_enrolled == Found("PUF_MASK") /\ Found("ECC_DATA")

\* The hash of the four blobs; it is only taken when all of them are there.
get_mask_ecc_hash == blob

-----------------------------------------------------------------------------
(***************************************************************************)
(* Deep sleep, power and flashing (external: the ESP32 and its tools).     *)
(***************************************************************************)

\* esp_deep_sleep_start(): RAM is gone, RTC memory stays.
DeepSleep ==
    /\ pc' = "asleep"
    /\ response' = NoResponse /\ derived' = NoBlob
    /\ returned' = "none"

\* Mutant: the retry counter is not in RTC memory.
MutWakeForgets ==
    /\ pc = "asleep"
    /\ pc' = "boot"
    /\ retries' = 0
    /\ UNCHANGED <<flashVars, state, iter, pufState, ramVars, run, ghostVars,
                   opVars>>

\* The timer fires; the wake stub copies the SRAM to PUF_BUFFER and app_main
\* starts from the top.
Wake ==
    /\ pc = "asleep"
    /\ pc' = "boot"
    /\ UNCHANGED <<flashVars, rtcVars, ramVars, run, ghostVars, opVars>>

\* Power-on or hard reset: RTC_DATA_ATTR variables get their initial values.
ColdBoot ==
    /\ pc' = "boot"
    /\ state' = "NONE" /\ iter' = 0
    /\ pufState' = "RESPONSE_CLEAN" /\ retries' = 0
    /\ response' = NoResponse /\ derived' = NoBlob
    /\ returned' = "none" /\ resets' = 0

PowerCycle ==
    /\ cycles < MaxCycles
    /\ cycles' = cycles + 1
    /\ ColdBoot
    /\ UNCHANGED <<flashVars, run, keys, flashes>>

\* The NVS partition is replaced: by the image provision_server_ref.py builds,
\* which pins the reference and holds nothing else, or by the nvs_flash_erase()
\* of the first boot after an update to another NVS version. (That a wake-up
\* finds no free page in NVS and erases it too is not modelled.)
ReplaceNvs ==
    /\ flashes < MaxFlashes
    /\ flashes' = flashes + 1
    /\ blob' = [k \in HelperKeys |-> NoBlob]
    /\ freq' = NoBlob
    /\ pinned' \in BOOLEAN
    /\ keys' = {}
    /\ ColdBoot
    /\ UNCHANGED <<run, cycles>>

-----------------------------------------------------------------------------
(***************************************************************************)
(* rot_identity_run_enrollment_step(), first puflib_init().                *)
(***************************************************************************)

\* clean_puf_response().
CleanResponse ==
    /\ response' = NoResponse
    /\ pufState' = "RESPONSE_CLEAN"

InitNone ==
    /\ pc = "boot" /\ state = "NONE"
    /\ pc' = "check"
    /\ UNCHANGED <<flashVars, rtcVars, ramVars, run, ghostVars, opVars>>

\* The wake-up of an enrolment.
InitProvisioning ==
    /\ pc = "boot" /\ state = "PROVISIONING"
    /\ iter' = iter + 1
    /\ pc' = "measure"
    /\ UNCHANGED <<flashVars, state, pufState, retries, ramVars, run, ghostVars,
                   opVars>>

\* Mutant: a retry is accepted without the hamming-weight gate.
MutResetUngated ==
    /\ pc = "boot" /\ state = "PUF_RESPONSE_RESET"
    /\ state' = "NONE"
    /\ \E sane \in BOOLEAN : response' = [path |-> "sleep", sane |-> sane]
    /\ pufState' = "RESPONSE_READY"
    /\ pc' = "check"
    /\ UNCHANGED <<flashVars, iter, retries, derived, run, ghostVars, opVars>>

\* puf_response_reset_calculate(): the wake-up of a retry.
InitReset ==
    /\ pc = "boot" /\ state = "PUF_RESPONSE_RESET"
    /\ state' = "NONE"
    /\ \/ /\ response' = [path |-> "sleep", sane |-> TRUE]
          /\ pufState' = "RESPONSE_READY"
       \/ CleanResponse
    /\ pc' = "check"
    /\ UNCHANGED <<flashVars, iter, retries, derived, run, ghostVars, opVars>>

\* pufsleep_bit_frequency_helper(): what it writes to PUF_FREQUENCY.
NextFrequency ==
    IF iter = 0 THEN Zeros
    ELSE [runs |-> freq.runs \cup {run}, count |-> freq.count + 1]

\* get_pufsleep_bit_frequency(): write the counters and sleep, but go on to
\* derive the helper data after the last measurement. (A wake-up beyond the
\* last one would skip the write; WakeFindsData says there is none.)
Measure ==
    /\ pc = "measure"
    /\ freq' = NextFrequency
    /\ \/ /\ iter < Measurements
          /\ DeepSleep
       \/ /\ iter = Measurements
          /\ derived' = [run |-> run, freq |-> freq']
          /\ pc' = "derive"
          /\ UNCHANGED <<response, returned>>
    /\ UNCHANGED <<blob, pinned, rtcVars, run, resets, keys, opVars>>

\* provision_puf_helper(): the next of its four set_blob() calls.
WriteBlob(at, key, next) ==
    /\ pc = at
    /\ blob' = [blob EXCEPT ![key] = derived]
    /\ pc' = next
    /\ UNCHANGED <<freq, pinned, rtcVars, ramVars, run, ghostVars, opVars>>

\* Mutant: the two ECC blobs are written in the other order.
MutWriteEccFirst ==
    \/ WriteBlob("derive", "PUF_MASK", "write_sleep_mask")
    \/ WriteBlob("write_sleep_mask", "PUF_SLEEP_MASK", "write_ecc_sleep")
    \/ WriteBlob("write_ecc_sleep", "ECC_DATA", "write_ecc")
    \/ WriteBlob("write_ecc", "ECC_SLEEP_DATA", "zero")

provision_puf_helper ==
    \/ WriteBlob("derive", "PUF_MASK", "write_sleep_mask")
    \/ WriteBlob("write_sleep_mask", "PUF_SLEEP_MASK", "write_ecc_sleep")
    \/ WriteBlob("write_ecc_sleep", "ECC_SLEEP_DATA", "write_ecc")
    \/ WriteBlob("write_ecc", "ECC_DATA", "zero")

\* The end of provision_puf_calculate(), and of puflib_init().
ZeroFrequency ==
    /\ pc = "zero"
    /\ freq' = Zeros
    /\ pc' = "delete"
    /\ UNCHANGED <<blob, pinned, rtcVars, ramVars, run, ghostVars, opVars>>

DeleteFrequency ==
    /\ pc = "delete"
    /\ freq' = NoBlob
    /\ derived' = NoBlob
    /\ pc' = "check"
    /\ UNCHANGED <<blob, pinned, rtcVars, response, run, ghostVars, opVars>>

\* Mutant: enroll_puf() is called on every boot.
MutEnrollAlways ==
    /\ pc = "check"
    /\ iter' = 0
    /\ IF state = "NONE"
       THEN state' = "PROVISIONING" /\ run' = run + 1 /\ pc' = "measure"
       ELSE state' = "NONE" /\ run' = run /\ pc' = "final"
    /\ UNCHANGED <<flashVars, pufState, retries, ramVars, ghostVars, opVars>>

\* enroll_puf(), called only while the blobs are missing: provisioning
\* starts. Its other branch ("PROVISIONING DONE") would need the blobs to be
\* missing after the last measurement; app_main would return.
EnrollPuf ==
    /\ pc = "check"
    /\ ~rot_identity_is_enrolled
    /\ iter' = 0
    /\ IF state = "NONE"
       THEN state' = "PROVISIONING" /\ run' = run + 1 /\ pc' = "measure"
       ELSE state' = "NONE" /\ run' = run /\ pc' = "idle"
    /\ UNCHANGED <<flashVars, pufState, retries, ramVars, ghostVars, opVars>>

SkipEnrollment ==
    /\ pc = "check"
    /\ rot_identity_is_enrolled
    /\ pc' = "final"
    /\ UNCHANGED <<flashVars, rtcVars, ramVars, run, ghostVars, opVars>>

-----------------------------------------------------------------------------
(***************************************************************************)
(* app_main() after enrolment.                                             *)
(***************************************************************************)

\* The server reference decides between the export and the session.
LoadServerRef ==
    /\ pc = "final"
    /\ pc' = IF pinned THEN "wifi" ELSE "export"
    /\ UNCHANGED <<flashVars, rtcVars, ramVars, run, ghostVars, opVars>>

\* WiFi and connect() succeed, or app_main returns. Nothing bounds the time this
\* takes: wifi_station_connect() waits without a timeout.
ConnectToServer ==
    /\ pc = "wifi"
    /\ pc' \in {"respond", "idle"}
    /\ UNCHANGED <<flashVars, rtcVars, ramVars, run, ghostVars, opVars>>

\* rot_identity_get_puf_response() returns true.
ReturnsTrue ==
    /\ retries' = 0 /\ resets' = 0
    /\ returned' = "true"
    /\ pc' = "use"

\* A response is there already: the retry's.
TakeReadyResponse ==
    /\ pc \in {"export", "respond"}
    /\ pufState = "RESPONSE_READY"
    /\ ReturnsTrue
    /\ UNCHANGED <<flashVars, state, iter, pufState, ramVars, run, keys, opVars>>

\* get_puf_response() on the RTC SRAM passes the hamming-weight gate.
MeasureResponse ==
    /\ pc \in {"export", "respond"}
    /\ pufState # "RESPONSE_READY"
    /\ response' = [path |-> "rtc", sane |-> TRUE]
    /\ pufState' = "RESPONSE_READY"
    /\ ReturnsTrue
    /\ UNCHANGED <<flashVars, state, iter, derived, run, keys, opVars>>

\* Mutant: one retry too many.
MutGivesUpLate(n) == n > RetryLimit + 1

GivesUp(n) == n > RetryLimit

\* It does not, and the budget is used up: rot_identity_get_puf_response()
\* returns false and app_main returns.
GiveUp ==
    /\ pc \in {"export", "respond"}
    /\ pufState # "RESPONSE_READY"
    /\ GivesUp(retries + 1)
    /\ CleanResponse
    /\ retries' = 0 /\ resets' = 0
    /\ returned' = "false"
    /\ pc' = "idle"
    /\ UNCHANGED <<flashVars, state, iter, derived, run, keys, opVars>>

CountReset == resets' = IF resets > RetryLimit THEN resets ELSE resets + 1

\* Mutant: the reset does not record why it sleeps.
MutResetStateKept ==
    /\ pc \in {"export", "respond"}
    /\ pufState # "RESPONSE_READY"
    /\ ~GivesUp(retries + 1)
    /\ pufState' = "RESPONSE_CLEAN"
    /\ retries' = retries + 1 /\ CountReset
    /\ DeepSleep
    /\ UNCHANGED <<flashVars, state, iter, run, keys, opVars>>

\* It does not: get_puf_response_reset().
ResetToRetry ==
    /\ pc \in {"export", "respond"}
    /\ pufState # "RESPONSE_READY"
    /\ ~GivesUp(retries + 1)
    /\ pufState' = "RESPONSE_CLEAN"
    /\ retries' = retries + 1 /\ CountReset
    /\ state' = "PUF_RESPONSE_RESET"
    /\ DeepSleep
    /\ UNCHANGED <<flashVars, iter, run, keys, opVars>>

\* The key pair is derived from the response and the hash of the four blobs,
\* unless mbedtls fails: for the export, or as the first step of the handshake.
UseResponse ==
    /\ pc = "use"
    /\ \/ /\ keys' = keys \cup {get_mask_ecc_hash}
          /\ pc' = IF pinned THEN "session" ELSE "release"
       \/ /\ keys' = keys
          /\ pc' = "release"
    /\ UNCHANGED <<flashVars, rtcVars, ramVars, run, returned, resets, opVars>>

\* rot_identity_release_puf_response(): after the derivation for the export,
\* and only after rot_session_handshake() has returned, which receives from
\* the server without a timeout. app_main then returns.
ReleaseResponse ==
    /\ pc \in {"session", "release"}
    /\ CleanResponse
    /\ pc' = "idle"
    /\ UNCHANGED <<flashVars, state, iter, retries, derived, run, ghostVars,
                   opVars>>

-----------------------------------------------------------------------------
Firmware ==
    \/ InitNone
    \/ InitProvisioning
    \/ InitReset
    \/ Measure
    \/ provision_puf_helper
    \/ ZeroFrequency
    \/ DeleteFrequency
    \/ EnrollPuf
    \/ SkipEnrollment
    \/ LoadServerRef
    \/ ConnectToServer
    \/ TakeReadyResponse
    \/ MeasureResponse
    \/ GiveUp
    \/ ResetToRetry
    \/ UseResponse
    \/ ReleaseResponse

Next == Firmware \/ Wake \/ PowerCycle \/ ReplaceNvs

Spec == Init /\ [][Next]_vars

\* app_main waits for the access point, the DHCP server or the server.
OnNetwork == pc \in {"wifi", "session"}

\* While it has power, the firmware runs on and the wake-up timer fires. Nothing
\* is assumed of its two waits without a timeout (wifi_station.c:93 for an
\* address, net_msg.c:24 for bytes from the server): either may last for ever.
FairSpec == Spec /\ WF_vars((Firmware \/ Wake) /\ ~OnNetwork)

-----------------------------------------------------------------------------
(***************************************************************************)
(* Properties.                                                             *)
(***************************************************************************)

\* A node that counts as enrolled has the helper data of both paths, all of
\* it from one run and from exactly that run's measurements, however often
\* the power went while it was enrolling. is_enrolled looks only at PUF_MASK
\* and ECC_DATA: it is the order of the writes that makes this true
\* (rot_identity.c:70-84, ecc.c:218-241).
HelperConsistent ==
    rot_identity_is_enrolled =>
      /\ \A k \in HelperKeys : blob[k] = blob["ECC_DATA"]
      /\ blob["ECC_DATA"].freq =
           [runs |-> {blob["ECC_DATA"].run}, count |-> Measurements]

\* Between two flashings every key pair is derived under the same helper
\* data: a registered pk_a stays valid. Enrolment is not run again by a
\* retry's wake-up, nor after a power cycle (rot_identity.c:42-68, 174-178).
KeyStable == keys \subseteq {blob}

\* RESPONSE_READY, which is in RTC memory, never outlives the response, which
\* is in RAM, and a response that is used passed the hamming-weight gate
\* (puf_measurement.c:187-215, 264-285, rot_identity.c:105-110).
ReadyHeld ==
    /\ pufState = "RESPONSE_READY" => response # NoResponse /\ response.sane
    /\ pc \in {"use", "session", "release"} => pufState = "RESPONSE_READY"

\* A wake-up finds in flash what it is about to read: get_blob() leaves its
\* arguments unset when a key is missing, and its callers do not look at
\* what it returns (puf_measurement.c:118, 146, 235, 241). An enrolment also
\* has not slept more often than it measures.
WakeFindsData ==
    pc = "asleep" =>
      \/ state = "PROVISIONING" /\ freq # NoBlob /\ iter < Measurements
      \/ state = "PUF_RESPONSE_RESET" /\ rot_identity_is_enrolled

\* The node resets itself at most RetryLimit times before it has an answer,
\* although every wake-up starts app_main from scratch
\* (rot_identity.c:112-133).
RetryBounded == resets <= RetryLimit

\* Enrolment, reconstruction, retries and power failures implement a stable
\* identity (StableIdentity): a node is enrolled in one step, the commit of
\* ECC_DATA, with the complete helper data of one run, and nothing short of a
\* wipe changes them; keys are derived from a response that is held, and only
\* after all RetryLimit attempts have failed is there no answer
\* (rot_identity.c:42-133, ecc.c:218-241, puf_measurement.c:187-285).
Identities ==
    {b \in [HelperKeys -> Helpers] :
       /\ \A k \in HelperKeys : b[k] = b["ECC_DATA"]
       /\ b["ECC_DATA"].freq =
            [runs |-> {b["ECC_DATA"].run}, count |-> Measurements]}

Promise == INSTANCE StableIdentity WITH
    None <- NoBlob,
    Limit <- RetryLimit,
    identity <- IF rot_identity_is_enrolled THEN blob ELSE NoBlob,
    held <- IF response = NoResponse THEN FALSE ELSE response.sane,
    tries <- resets,
    used <- keys
ImplementsStableIdentity == Promise!Spec

\* A node that keeps its power ends its boot, again and again, unless it ends
\* up waiting for the network for ever: enrolment and the retries, whose deep
\* sleeps each start app_main from the top, do not go on for ever
\* (rot_identity.c:44-56, 115-124).
BootDecides == []<>(pc = "idle") \/ <>[]OnNetwork

\* "It is now overwritten with zeros and erased once the masks/ECC data have
\* been derived from it" (esp32_puflib/README.md:10-11): an enrolled node
\* that has finished booting has no raw counters in flash.
FrequencyErased ==
    pc = "idle" /\ rot_identity_is_enrolled =>
      freq = NoBlob \/ freq.runs = {}
=============================================================================
