# A TLA+ model of the SMG Root of Trust

The repository holds the firmware of a microgrid node whose identity comes from
an SRAM PUF (`src/smg_puf_rot_node/`, C on ESP-IDF), the server that authenticates
such nodes, and the older server that talks to nodes over the SecureNode protocol,
judges what they report and steers their power (`src/smg_primary_server/`, Python).
This directory models both. TLC checks the models on small instances; TLAPS proves
the safety properties for all of them.

## 1. The system

| Part | State it keeps | Operations | Interacts with |
|---|---|---|---|
| PUF server: `puf_server.py`, `RotSession` of `rot_challenge_service.py` | the registry and `id_b`, read once at the start; per connection the nonces, `authenticated`, `Key_ab` | accept; `_handshake()` (hello, challenge, response, session_ack); `_data_loop()`; receive timeouts | nodes over TCP, one thread per connection; the registry file |
| Node session: `app_main.c`, `rot_session.c`, `net_msg.c`, `secure_channel.c` | socket, nonces, key pair, `Key_ab`, all in RAM | connect, hello, check the server's proof, sign, wait for the ack, send one encrypted payload | server; node identity |
| Node identity: `rot_identity.c` | the pinned server reference in NVS, the retry counter in RTC memory | enrolment step, enrolled test, get and release the PUF response, derive the key pair | PUF library; `app_main` |
| PUF library, control: `puf_measurement.c`, `ecc.c`, `nvs.c`, `wake_up_stub.c` | five NVS blobs; `PUFLIB_STATE`, `PUF_STATE` in RTC memory; `PUF_RESPONSE` in RAM | `puflib_init`, `enroll_puf`, `provision_puf_helper`, `get_puf_response`, `get_puf_response_reset` | flash, deep sleep and the wake stub |
| PUF library, code: `ecc.c`, `bit_array.c` | none between calls | masks, references, ECC data, majority decoding, hamming-weight gate | PUF library, control |
| Registry tool: `tools/register_puf_node.py` | `puf_node_registry.json` | load, change one entry, save; print the follow-up command | the server's next start; the reference tool |
| Reference tool: `tools/provision_server_ref.py` | `puf_server_identity.json`, an NVS image | take or make `id_b`, build the image, rewrite the identity | the node's flash; the registry tool |
| WiFi station: `wifi_station.c` | event group, retry counter, credentials in NVS | connect and wait, event handler | `app_main` |
| SecureNode session: `auth_service.py` (`NodeSession`), `protocol.py`, `crypto_utils.py` | where the dialogue is, the audit chain `_PRV_bl`, trust score, anomaly counter | P2 hello, P3 session, P4 readings, P5 logout; drop of an untrusted node | its client over TCP, one thread per connection; data store; EMS |
| PC client: `pc_client.py` (and `secure_node.py` of the MicroPython nodes, which the repository refers to) | `_M_num`, `_PRV_bl` | `run_client`: P2, P3, `num_sends` readings, logout | the session |
| Data store: `data_store.py` | latest reading, trust and record count per node | `record`, `get_all_latest`, `get_median_v_bus`, under one lock | sessions write, EMS reads |
| EMS: `ems_coordinator.py`, the loop in `server.py` | set point per node | snapshot, fuzzy inference, write of the set points, under two locks | data store; sessions send the set points |

What is hard about it:

* **Concurrency.** A node that reboots opens a new connection while the thread
  of its old one still waits; the operator edits the registry while sessions are
  live; a node and a server thread fail at different messages.
* **Half-finished handshakes.** The server sets `authenticated` before it sends
  the ack; the ack carries nothing, so the node must be right in assuming that
  the server derived the same key.
* **Time-outs on one side only.** The server's receives time out, the node's
  `recv()` does not.
* **Three memories with three lifetimes.** Flash, RTC memory and RAM survive
  different events. Enrolment takes 20 deep sleeps and four separate commits, and
  each retry of a reconstruction restarts `app_main` from scratch.
* **A chain with two ends.** The server advances its audit chain before its answer is
  sent, the client when it arrives; the set point follows the answer unasked.
* **Shared state between three kinds of thread.** Sessions judge a reading against the
  store, record it and answer in separate steps; the EMS reads and writes in between.
* **Files and flash edited by hand.** Two tools read, change and rewrite whole files, print
  commands for one another, and flash an image that erases the enrolment beside it.
* **Two measurements of one secret.** The first attempt measures the RTC SRAM
  after a power-down, a retry measures another memory after a deep sleep, with
  another mask, and both must give the same key.

The properties that make each part correct are in section 3, and `hazards` in
`PROJECT.json` ties each hard spot, at its line, to the properties that watch it.

## 2. Modules

| Module | What it is |
|---|---|
| `RotHandshake` | nodes, server threads, registry, connections and their faults |
| `MutualAuth` | what the handshake promises both ends: the abstract specification |
| `RotHandshakeProofs` | its inductive invariant, its theorems and the refinement of `MutualAuth` |
| `MCRotHandshake`, `MCRot*.cfg` | its instances |
| `PufBoot`, `PufBoot*.cfg` | the boots of one node, with flash, RTC memory and RAM |
| `StableIdentity` | what the PUF promises the protocols above it: the abstract specification |
| `PufBootProofs` | its inductive invariant, its theorems and the refinement of `StableIdentity` |
| `EccCode` | masks, repetition code and both reconstruction paths, on sets of bits |
| `EccCodeProofs` | that the code corrects what it should |
| `MCEccCode`, `MCEccCode.cfg` | its instance |
| `EccTables` | the 256-entry tables of `ecc.c`, byte by byte; checked inside `MCEccCode` |
| `WifiStation`, `WifiStation.cfg` | the waiting task and the event handler of `wifi_station.c` |
| `WifiStationProofs` | its inductive invariant and theorems |
| `Provisioning` | the two tools, their files, and the node's flash from enrolment to service |
| `ProvisioningProofs` | its inductive invariant and theorems |
| `MCProvisioning`, `MCProvisioning.cfg` | its instance |
| `AuditLog` | what the hash chain of P4 promises: the abstract specification |
| `SecureNode`, `SecureNode*.cfg` | one connection of the SecureNode protocol, both ends and the stream |
| `SecureNodeProofs` | its inductive invariant, its theorems and the refinement of `AuditLog` |
| `GridServer` | the sessions of `server.py` around the data store and the EMS loop |
| `GridServerProofs` | its inductive invariant and theorems |
| `EmsFuzzy` | `_fuzzy_infer` in exact integers |
| `EmsFuzzyProofs` | range and coverage of the inference for all its inputs |
| `MCEmsFuzzy`, `MCGridServer` and their `.cfg` | their instances; the second runs `GridServer` on `EmsFuzzy` |

The modules meet at these interfaces. `PufBoot` promises that every key pair is
derived under the same helper data and from a response that passed the gate;
`EccCode` promises that such a response, with correctable errors, is the enrolled
one; `RotHandshake` takes from them only the set `ReconKeys[d]` of keys node `d`
may derive, the enrolled one and any wrong ones. `Provisioning` ends where
`RotHandshake` begins: `Served(n)` is what `RotHandshake` asks of node and files.
`SecureNode` is the dialogue of one connection and leaves open whether a set point is
sent and whether the node is dropped; `GridServer` is what decides that, over several
connections, and takes the dialogue's outcome as a message that verified or did not.
`GridServer` is parameterised by the inference, which `MCGridServer` takes from `EmsFuzzy`.

### RotHandshake

`dpc[d]` is where node `d`'s program is, `dconn[d]` the socket it uses; `spc[c]`
is where the `RotSession` of connection `c` is and `result[c]` what its `run()`
returned. `link[c]`, `dend[c]` and the one-place channels `c2s[c]`, `s2c[c]` are
the connection. `sentry[c]` and `shello[c]` are the locals of `_handshake()`,
`auth[c]` and `skey[c]` its attributes; `dsk[c]`, `dtr[c]` and `dkey[c]` are the key
pair, signed transcript and `Key_ab` of the boot that opened `c`.

An action is what a program does from one blocking call to the next:
`StartHandshake` is everything from the reconstruction to the send of hello,
`AnswerChallenge` and `RejectChallenge` the two outcomes of the checks on the
challenge, and so on; on the server `SendChallenge`, `RejectHello`, `SendAck`,
`RejectResponse`, `RaiseOnGarbage`, `ReceiveData`, `SessionSeesEnd`,
`SessionTimesOut`, each including the close of the socket and what `run()`
returns. `RegisterNode`, `RemoveNode`, `StopServer` and `StartServer` are the
operator's; `ClientConnect`, `ClientSend` and `ClientClose` a peer with no
registered key, such as the `FakeDevice` of the protocol tests under an
unregistered identity. `ResetLink`, `SilenceLink`, `ResetDevice`, `ConnectFails` and
`CryptoFails` are the failures the code handles, or does not.

Abstractions. A hash is the record of its inputs; a signature names its signer and
what it signs; an ECDH secret is the set of its two ephemeral keys; a random value
is named by the connection it was drawn for, since 16 or 32 random bytes do not
repeat. So the model says nothing of the strength of the primitives, and
everything about which values each side feeds to them. A send that fails on the node
is a lost frame followed by a failed receive: nothing else distinguishes them.
The node tests the fields of a challenge and not its `type`, and so does the model.

`MutualAuth` has, for each run, the terms the initiator has vouched for, the terms and the key the
responder has accepted, the key the initiator has taken, and whether data has passed. Its four
actions say when: `Accept` needs a `Vouch` and a key no other run has, and takes over the very terms
that were vouched for; `Take` needs an `Accept` and hands the initiator the responder's key;
`Deliver` needs a `Take`. A run is a connection. `vouched` is the transcript its node signed, with
the node's `id_a` and public key and the reference it pinned (`NodeTerms`); `accepted` is what the
session has of them, from hello and registry (`ServerTerms`), once `auth[c]` holds; the keys are
`skey[c]` and `dkey[c]`. `AnswerChallenge` is `Vouch`, `SendAck` is `Accept`, `ReceiveAck` is
`Take`, `ReceiveData` is `Deliver`, and every other step stutters: faults, restarts, operator and
clients included.

### PufBoot

The variables are grouped by lifetime. Flash: the four helper blobs, `freq`
(`PUF_FREQUENCY`) and whether a reference is `pinned`. RTC memory: `state`, `iter`,
`pufState` and `retries`, which `Wake` keeps and `PowerCycle` clears. RAM:
`response` and `derived`, which neither keeps. A measurement is named by the
enrolment run that took it and a blob by the run and counters it was derived from,
so a mix of two runs would show. One action is what happens between two NVS commits,
so the power may go at each; a commit is atomic, as NVS promises. `ReplaceNvs` is a
flashed image or the `nvs_flash_erase()` of `app_main.c:62-68` at a cold boot; that a wake-up
finds no free page and erases NVS too is left out. `pc` stands at `"wifi"` while `app_main` waits for
the access point or for `connect()`, and at `"session"` from the derivation of the key pair to the
return of `rot_session_handshake()`; either may last for ever (`OnNetwork`), and only then does
`ReleaseResponse` take the response from RAM.

`StableIdentity` has four variables: the `identity` keys are derived under, whether a usable response is
`held`, the attempts since the last answer (`tries`), and what keys were derived under since the last
wipe (`used`). The mapping takes all four blobs for the identity once `rot_identity_is_enrolled`
holds, the response in RAM for `held`, `resets` and `keys` for the others. The commit of `ECC_DATA`
is `Enrol`, the wake-up of a retry `Hold`, a return of `rot_identity_get_puf_response()` `Answer` or `Fail`,
`ResetToRetry` is `Retry`, `UseResponse` is `Derive` (or stutters, when mbedtls fails),
`ReleaseResponse` is `Release`, a power cycle `LosePower`, a replaced partition `Wipe`;
the measurements, sleeps and other commits of an enrolment stutter. This is what `RotHandshake` takes
for granted of a node's key pair.

Two things the model makes visible. The "PROVISIONING DONE" branch of `enroll_puf`
is never taken in this firmware: once the last measurement has been taken the blobs
exist, so `rot_identity_run_enrollment_step` does not call it again and `PUFLIB_STATE`
stays at `PROVISIONING` with all measurements done. That is harmless only because
`get_puf_response_reset` overwrites it before the next deep sleep (`WakeFindsData`).
And `rot_identity_is_enrolled` reads two of the four blobs; it is right because of
the order of the writes (`HelperConsistent`).

### EccCode and EccTables

An SRAM image is the set of its one-bits and a word the set of its one-bits among
`WordBits`. `create_puf_mask`, `create_puf_reference`, `apply_puf_mask`, the
generation of ECC data and `correct_data` are operators; `provision_puf_helper` (which aborts,
at the `assert` of `bit_array.c:44`, when the stable bits do not fill a word but a mask selects some),
`Reconstruct` (on either path) and `clean_puf_response` are the actions. A
measurement is the reference of its memory with the bits of some member of
`Noises` flipped. In the code `WordBits` is 8; the model keeps it a parameter because
nothing but the two tables depends on it. `EccTables` has those two tables literally
and the C operators on bytes, and checks what `EccCode` assumes of them.

`ecc.c:194` describes a reference bit as 0 iff the counter says 0 more than half
the time; at exactly half the code and the sentence differ, but such a bit is
never stable and the mask leaves it out.

### WifiStation

`pc` is where `wifi_station_connect()` is, or what it returned; `bits` the event group;
`events` the queue between the WiFi driver and the event loop's task, which runs
`event_handler`, one action per branch. The driver and the access point (`radio`) are
external: an attempt fails or associates, an address comes or not, and either may be
lost while earlier events are still queued. `RotHandshake` and `PufBoot` use only the
result (`ConnectFails`, `ConnectToServer`).

### Provisioning

A step of a tool is what lies between two accesses to a file: `Begin` (load), `Truncate`
(`open(path, "w")`) and `Write`, and a tool may be killed between any two (`KillRun`,
`KillProvision`). `Torn` is a file truncated and not written, or one in which a shorter text lies
over a longer one. `saved` is history: the last complete content. A node's flash is its enrolment
`key[n]` and its reference `ref[n]`; `Flash` writes an image, which replaces the whole NVS
partition, `LiveSave` only the reference, as `rot_identity_save_server_ref` does. They are two
blobs, written one after the other, and the power may go between them. `Given` is the `--id-b` of
the follow-up command: the printed one, or, where the tool printed the placeholder `<id_b from
above>`, one that an earlier run made, or none. A re-enrolment is assumed to give a new key pair.
Entries of devices that are not in `Nodes` may be in the registry from the start.

### SecureNode and AuditLog

`cl` is where `run_client` is (about to send, or the frame it waits for), `sv` where
`NodeSession.run` is, `c2s` and `s2c` the bytes in flight as frames, `link` the connection.
A block of the chain is the sequence of all that was hashed into it, so blocks are equal
exactly when their histories are; a cipher text is its plain text, or `Bad` when it does not
verify. An action is what a program does between two blocking calls; `ServerSends` and
`ClientSends` include the frame that goes into a stream nobody reads any more. A `stranger` is a
client that holds the session's keys and is neither `pc_client.py` nor `secure_node.py`: it may send a
broken frame, or one of another type, in the place of the right one (`Sendable`), put any `M_num` of
`Numbers` on a reading, which the server does not compare (`auth_service.py:333-357`), and add frames
that the data loop ignores for as long as it likes (`SendMore`).

`AuditLog` has two variables, the node's log and the server's, besides whether the client is `honest`,
and two actions. `Commit` appends an entry to the server's log; with an honest client it is allowed only
while both logs agree, and the entry is the next number. `Acknowledge` hands an honest node the server's
log; of another's log nothing is said. The
mapping drops the block made by P3: `nodeLog` is `Entries(cPrv)`, `serverLog` `Entries(sPrv)`;
`AcceptReading` is `Commit`, `ReceiveDxRes` is `Acknowledge`, every other step stutters.

### GridServer and EmsFuzzy

A step is what a thread does between two lock operations. `Judge` is the reading up to the
comparison with the median of the other nodes (`UpdateTrust`), `Record` the write into the
store, `Answer` the reply with the set point of that moment and the drop. `Snapshot` and
`Apply` are the two halves of `update()`. A field of a reading holds a number or what else the node's
JSON has there: `Absent`, `Null` or a `Text`. The median leaves out voltages that are absent or null;
where the comparison raises (`~Comparable`), nothing is judged or stored and the node gets its answer
(`JudgeUnreadable`). With fewer than two others nothing is compared and everything is stored, a power
always is; the sums of `update()` then raise (`~Summable`), the loop logs that and goes on, and no set
point is written (`ApplyFails`). `latest[n].by` is history: the connection that
recorded the entry. Voltages are in 0.1 V and trust in hundredths, so that the code's
constants are integers; readings whose distance from the median is exactly the threshold of
0.8 V are left out of the instances, since there the result hangs on a rounding of binary floats.

`EmsFuzzy` has the membership functions, the rule table, the union of the clipped
output sets (`Aggregated`), the two sums over the universe (`Total`) and the centroid (`Infer`); every value the
code computes with is a multiple of the scale chosen, except the final quotient, which is
rounded to 0.1 W as `round(.., 1)` does.

## 3. What the runs check

Deadlock checking is off where the system may stop: a node that has had its boot is
idle until it is reset, a node without a whole block of stable bits aborts at its enrolment, and
the bounds on connections, cycles and flashes end a behaviour.

| Run | Instance | Checks |
|---|---|---|
| `rot_one_node` | one node, pinned to this server, to another, or not at all; registry entry right, with another `V_B`, malformed or absent; all faults and a client; 2 connections | `ImplementsMutualAuth`, `KeyAgreement`, `ServerAuthentic`, `PayloadAuthentic`, `InFlightOnce` |
| `rot_two_nodes` | two nodes with their own or a shared `id_a`, their own or a shared `V_B`; reboots; 3 connections; fair | `NodeAuthentic`, `NodeServed` |
| `rot_live` | one node, silent and slow connections, reboots, 2 operator actions; 2 connections; fair | `SnapshotEntry`, `SessionEnds`, `NodeReturns` |
| `boot` | 20 measurements and 5 retries as in the code; 2 power cycles, 1 flashed image; fair | `HelperConsistent`, `ImplementsStableIdentity`, `ReadyHeld`, `WakeFindsData`, `RetryBounded`, `BootDecides` |
| `ecc_code` | words of 4 bits, 18 cells, up to 3 flips anywhere, 5 by 4 pairs of counters; and the tables for every reference byte, template bit and flip | `SameResponse`, `ErrorsExact`, `MasksFill`, `TablesDecode` |
| `wifi` | 10 retries as in the code, with and without credentials; fair | `FailAfterRetries`, `GivesUpForGood`, `WifiDecides` |
| `provisioning` | one node enrolled up to twice, two `id_a`, two overlapping invocations of the registry tool, two calls, two `id_b` | `FlashedNeverServed`, `OneIdentity`, `LostOnlyByOverlap` |
| `secure_node` | 3 readings; a link that resets or falls silent, a client that crashes; `pc_client`, a node, or a stranger with two numbers of its own and up to two frames waiting when it adds one; fair | `TypeOK`, `ChainsAgree`, `BacklogBounded`, `HonestNeverRefused`, `ImplementsAuditLog`, `ClientEnds`, `SessionEnds` |
| `grid` | four nodes on a connection each, readings 1.2 V apart, one node that also sends none, null and a text; a window of one, the EMS loop with the real inference; fair | `StoreTracksTrust`, `UntrustedOut`, `AnomalyNeedsHalf`, `UntrustedStarved` |
| `ems` | 13 voltage errors by 13 demands by 7 trust scores: the corners of the input sets and points beside and beyond them | `ZeroOnlyOutside`, `LessTrustLess`, `SetPointFollowsBus` |
| `boot_frequency`, `secure_logout` | smallest instance that shows it | one sentence of a document or comment each, which the code does not keep (section 6) |

The type invariants are proved for every instance (section 4).

What the properties say:

* `KeyAgreement`: a node that has `Key_ab` shares it with an authenticated session
  at the other end of its own connection, whatever was reset in between.
* `NodeAuthentic`: whoever is authenticated is a node with that `id_a`, that derived
  exactly the registered key in that boot, pinned the same `V_B` and this `id_b`, and
  signed the transcript the server saw.
* `ServerAuthentic`: a node signs only for a session that has its own `V_B`,
  under the nonces of that connection.
* `ImplementsMutualAuth`: the handshake is injective agreement in both directions: an accepted
  session matches the one run whose node signed for it, on the terms that node signed, its key is
  that of no other connection although `V_B` is long-lived, and nothing agreed is taken back.
* `PayloadAuthentic`: what the data loop decrypts was sent by that connection's node
  after its handshake, and decryption never fails between honest ends.
* `InFlightOnce`: request and response alternate, so no frame is ever sent behind an
  unread one.
* `SnapshotEntry`: a live session uses the entry the running process loaded.
* `SessionEnds`, `NodeReturns`, `NodeServed`: threads end; a node is stuck only on a
  silent connection; a well provisioned node is served.
* `HelperConsistent`, `ImplementsStableIdentity`: helper data of one run and complete, wherever the
  power went; one identity between two flashings, keys only under it and from a response that is
  held, and no failure before every attempt was made.
* `ReadyHeld`, `WakeFindsData`, `RetryBounded`, `BootDecides`: flags in RTC memory
  agree with RAM; a wake-up finds the blobs it reads without checking; the retry
  budget holds across boots; every boot ends, unless it is left waiting for the network
  (`wifi_station.c:93` and `net_msg.c:24` wait without a timeout).
* `SameResponse`, `ErrorsExact`, `MasksFill`: both paths give the enrolled response
  while fewer than half the bits of each word flip; the reported error count is
  exact; neither mask is shorter than the code.
* `TablesDecode`: the two 256-entry tables of `ecc.c` correct and count as `EccCode` assumes.
* `FailAfterRetries`, `GivesUpForGood`, `WifiDecides`: the station gives up after the
  first attempt and ten more have failed in a row, not earlier; then it stays off the
  air; and the wait ends unless the station is left associated without an address, a
  case that `wifi_station.c:93` waits out for ever.
* `FlashedNeverServed`: a node whose reference came from a flashed image is not served, since
  the image erased the registered key and the new one is never printed. `OneIdentity`:
  as long as one `id_b` was made, all files and nodes agree on it. `LostOnlyByOverlap`: only
  invocations that overlap lose entries they are not about, killed ones do not.
* `ChainsAgree`, `ImplementsAuditLog`: whatever timeouts, lost frames and set points came
  before, a reading is built on the block the server has; the server's log only grows, by an entry
  at a time; and with an honest client the logs never diverge, lose an entry or skip a number. A stranger
  can number its entries as it likes, the server keeps `_M_num_expected` and does not compare it.
  `HonestNeverRefused`: no frame of an honest client is refused.
  `BacklogBounded`: at most one set point lies before the next answer. `ClientEnds`: an honest client
  ends, whatever fails. `SessionEnds`: the server's thread does once nothing is sent any more; a peer
  that goes on sending frames the data loop ignores renews the wait and keeps it.
* `StoreTracksTrust`: the trust the EMS reads is the one the session has. `UntrustedOut`: a
  session below 0.3 takes no further message. `AnomalyNeedsHalf`: a reading counts against
  its node only if half of the others that reported a voltage, two at least, are more than 0.8 V away.
  `UntrustedStarved`: no stale set point outlasts the readings it came from, from when
  the store holds nothing that `update()` cannot add; without that condition it is false (section 6).
* `ZeroOnlyOutside`: the rules have no hole; 0 W means that the bus is out of their reach.
  `LessTrustLess`, `SetPointFollowsBus`: less trust never earns more, nor does a higher bus,
  and more demand never earns less, up to the wobble of a clipped centroid (1 W).

**Bounds.** Two connections are what a reboot of one node needs to overlap an old session with a new
one, and three let two nodes and a reboot overlap. `MaxOps = 2` allows an edit and a stop, or two
edits, during a session. Two power cycles interrupt an enrolment and then its repetition. Words of 4
bits have the three cases of a word of 8 (a correctable error, a tie, an uncorrectable one), and 18
cells hold one rounded mask and unstable bits besides. The client is left out of `rot_live` for the
size of its graph: every wait for a client's frame is one of the timed waits. Three readings let a
failure come after a first, in the middle and at the end of P4. Four nodes are the fewest for a
median of three others beside one of two; a window of one instead of three shortens the way to a
lost trust without changing its steps, and the bound on readings per node keeps the graph finite.
The fourth node sends each thing that is no number: it leaves the voltage out, which is harmless, or
sends null for its power or a text for its voltage, which are the two ways into the store that make
`update()` raise. A stranger's numbers are one that repeats and one that skips; with two frames
waiting its padding can lie before, behind and between its own. The two tool invocations of
`provisioning` overlap, and a second enrolment and a second `id_b` are what the properties are
about. The proofs have none of these bounds.

**Fairness.** `RotHandshake` assumes weak fairness of each node's program and of each server thread
separately: FreeRTOS and the operating system run them, and a waiting thread's receive times out
after 10 or 30 s (`rot_challenge_service.py:110`, `:309`), which is why `SessionTimesOut` is among
its steps. The node's `recv()` has no timeout and the model gives it none. No fairness is assumed of
faults, of the operator or of clients. `PufBoot` assumes weak fairness of firmware and wake-up timer
together: one processor, with power; but nothing of the steps that end a wait for the network
(`OnNetwork`). `WifiStation` assumes it of the two tasks, and that the driver ends an attempt one
way or the other, but not that DHCP answers. `SecureNode` assumes it of the server and of an honest
client, not of a stranger: both give every receive a timeout (10 s in `pc_client.py`, 10 and in the
data loop 30 s on the server), so that `ClientReceiveFails` and `ServerReceiveFails` are among their
steps. `GridServer` assumes it of the EMS loop alone (`EmsStep`), which wakes every five seconds and
survives its exceptions: an update that raises is a step of the loop too. No step is assumed to
succeed: reconstruction may fail each time.

## 4. What is proved

TLAPS checks every proof to its leaves, for all values of the constants that satisfy
the named assumptions.

| Module | Theorem: property |
|---|---|
| `RotHandshakeProofs` | `TypeCorrect`: `TypeOK`; `KeysAgree`: `KeyAgreement`; `NodesAuthentic`: `NodeAuthentic`; `ServersAuthentic`: `ServerAuthentic`; `Implements`: `ImplementsMutualAuth`; `KeysDistinct`: no two connections share a key; `PayloadsAuthentic`: `PayloadAuthentic`; `SnapshotKept`: `SnapshotEntry`; `FramesOnce`: `InFlightOnce` |
| `PufBootProofs` | `TypeCorrect`: `TypeOK`; `HelperDataConsistent`: `HelperConsistent`; `Implements`: `ImplementsStableIdentity`; `KeysStable`: every key between two flashings is derived under the same helper data; `ReadyIsHeld`: `ReadyHeld`; `WakesFindData`: `WakeFindsData`; `RetriesBounded`: `RetryBounded`; `BootsEnd`: a bounded measure falls with every step of the firmware |
| `EccCodeProofs` | `TypeCorrect`: `TypeOK`; `ResponseSame`: `SameResponse`; `ErrorsCounted`: `ErrorsExact`; `MasksLongEnough`: `MasksFill` |
| `WifiStationProofs` | `TypeCorrect`: `TypeOK`; `FailsAfterRetries`: `FailAfterRetries`; `StaysGivenUp`: `GivesUpForGood` |
| `ProvisioningProofs` | `TypeCorrect`: `TypeOK`; `FlashedUnserved`: `FlashedNeverServed`; `IdentityOne`: `OneIdentity`; `OnlyOverlapLoses`: `LostOnlyByOverlap` |
| `SecureNodeProofs` | `TypeCorrect`: `TypeOK`; `Agreement`: `ChainsAgree`; `BacklogKept`: `BacklogBounded`; `HonestServed`: `HonestNeverRefused`; `ConnectionEnds`: a bounded measure falls with every step; `Implements`: `ImplementsAuditLog` |
| `GridServerProofs` | `TypeCorrect`: `TypeOK`; `StoreTracks`: `StoreTracksTrust`; `UntrustedGoes`: `UntrustedOut`; `HalfMustDisagree`: `AnomalyNeedsHalf` |
| `EmsFuzzyProofs` | `RulesCover`: `ZeroOnlyOutside`; `SetPointInRange`: every set point is in 0 to 100 W; `UntrustedIsolated`: at most 5 W for a trust score up to 0.2, the first half of `LessTrustLess` |

**RotHandshake.** Any number of nodes, connections, identities and operator actions.
Assumptions: `ReconAssumption` (no two nodes derive the same key: PUF uniqueness; and
a derived key is a point of the curve), the client's key is not registered, and the
null values are none of the values they stand against. None of the properties is
inductive: that the server may trust a signature depends on what frames can be in flight.
The invariant `IInv` therefore has a part per place where a value rests: `UnusedInv` (a
connection not opened yet), `DeviceInv` (how far the node got), `ToServerInv`,
`ToDeviceInv` and `ClientInv` (the frame in flight each way, by whom), `HelloInv` (what
the session has taken from hello and registry), `SignedInv` (what a signature entails
about the session), `AuthInv` (what authentication entails about the node), `KeyInv`. The
argument follows the messages: a challenge in flight was made from the session's own
entry; so a node that accepts it and signs has the same `V_B` and transcript
(`SignedInv`); so a response that verifies under the registered key was signed by that
node in that boot (`AuthInv`); so an ack in flight means the session holds
`SessionKey(c)`, which is what the node computes (`KeyInv`). One lemma per action;
`ConnFrame` and `DeviceFrame` dispose of the connections and nodes an action leaves alone, and
`LossFrame` of the actions that at most lose a frame, report an error, accept or end a session,
or take a node off line.
`SnapshotEntry` has an invariant of its own, since it relates sessions to the server process.
For `InFlightOnce` the two directions must be taken together: `Turn` (on a node's connection one
of them is empty) and `Quiet` (both are, once the node holds `Key_ab`) are inductive relative to
`IInv`, and every step that keeps them sends only where nothing is in flight (`Once`).
`Implements` needs nothing beyond `IInv`: `SignedInv` is what makes an `Accept` find the terms of its `Vouch`,
`KeyInv` what makes a `Take` find the responder's key, and fresh nonces what makes a key differ
from those of all other connections. There is a lemma for each of the four steps that change the
abstract state (`AnswerVouches`, `AckAccepts`, `AckTakes`, `DataDelivers`) and one for each kind of step
that does not.

**PufBoot.** Any number of measurements, retries, power cycles and flashes. `IInv` says what flash
holds at each step of an enrolment, given what RTC memory says of it (`EnrolInv`, `MeasureInv`), how
far the commits got (`WriteInv`), that `ECC_DATA`, written last, vouches for the rest (`BlobInv`),
and what RTC memory may say at a boot (`EnrolledInv`, `ReadyInv`). `WakeFindsData` and
`HelperConsistent` follow. For `Implements`, `FlagInv` adds that a response in RAM is flagged in RTC
memory, so that the flag the code tests is the response the promise speaks of (`HeldIff`); then
there is a lemma per kind of step. It needs `NoBlob` to be none of the values of a complete set of
blobs. `BootsEnd` counts what is left (`StepsLeft`): three steps for a measurement, six for a retry,
and where the boot is; every step of the firmware and every wake-up lowers the count, and `IInv` is
needed because a boot finds its place from what flash and RTC memory say. A power cut or a flashing
may raise it again, but never above `MostSteps`. It is about cycles: that a step is taken at all is
fairness, and of the two waits for the network not assumed.

**EccCode.** Any word length, memory size, counters and noise. `DecodeWord` is the
heart: a code word that differs from all-zeros or all-ones in fewer than half its bits
decodes to that bit and leaves just those bits as residue. `CodeWordOfReference` shows
that XOR with the ECC data turns a masked measurement into such a word whose
template is the highest bit of the deep-sleep reference, for either memory;
`WordsFit` that the code length, rounded down to words, exceeds neither mask.

**WifiStation.** Any retry limit. Since the driver waits to be told to connect, at most
an address and its loss are ever queued (`QueueInv`); for each such queue `CountInv`
relates the driver's failures to `s_retry_count`.

**Provisioning.** Any number of nodes, identifiers, overlapping invocations and keys.
`KeysShown` says that an entry for a node, in the file or in the hands of a tool, has a key
the node printed; `KeysFresh` that a key made since is not among those, and that under a
flashed reference the current one never is: hence `FlashedNeverServed`. `IdsMade` bounds every
`id_b` in sight by the number made. `CopiesCurrent` says that an invocation nobody overlapped
works on the last complete content, and that a file that parses is that content.

**SecureNode.** Any number of readings, any client, any failure. The chains agree because one
exchange is under way at a time, which is not visible in one state of the two programs:
`IInv` says it of the frames in flight. `Tokens`: a request or its answer is in flight, not both
(unless the client is gone), and neither when the next request is made. `Stages`: how
far the two programs can be apart. `Asked`, `Pending`, `Awaited`: which request can be
pending, and that a pending reading was built on the block both have. `Answered`: what an
answer in flight says of the server, for a reading that it has committed exactly that
one. `Chains` relates the blocks and the counter. `RequestAnswered`, `ClientLeaves` and
`ServerLeaves` carry the parts that many steps share. `Implements` follows: a commit finds
equal chains (`ReadingCommits`), an acknowledgement finds the server one entry ahead
(`AnswerCompletes`). `Backlog` adds what may lie where in a link: behind the answer to the
pending request at most its set point, in front of it at most the one left from the request
before, and nothing but those while no request is pending. `ConnectionEnds` counts what is left
(`Fuel`): the places of the client and of the server, a frame to the server at what it can cost it
(a step, an answer, a set point), a frame back at one. For an honest client it is bounded by
`MostSteps`. Every step of a program, of the link or of a crash lowers it, whoever the client is; a frame
that a stranger adds (`SendMore`) raises it by four, which is why the thread can be held by a
peer that never stops, and by no other. `Implements` has the same two halves: that the log only grows holds for
any client, that its numbers have no gap rests on the client's counter and the chain.

**GridServer.** Any number of nodes and connections, several per node included, any window and
any inference. `SessionsOK` relates where a thread is to its score and its reading, `AuthorsOK`
says that what is in the store was put there by a connection of that node. `HalfMustDisagree` is
about the order of the voltages that are numbers (a reading that is judged was `Comparable`, so all that
the median takes are): `SortedMeans` says that the value at position `i` of the sorted
readings has at most `i` readings below it and more than `i` up to it; so a reading more than
0.8 V above that value is that far from more than `i` others (`FarFromSorted`, and likewise below);
and the median is either the middle value or the mean of the middle two, of which one is
at least as far from the reading (`AnomalousMeans`). That such a position is filled at all is `RankExists`.

**EmsFuzzy.** All integer voltage errors and demands, trust scores from 0 to 100. `MembershipMeans`
and its instances say what the shapes are worth, `StrengthMeans` and `AggregatedMeans` what the
minima and maxima over rules and labels are, and `SumsMeans` that the sums satisfy their
recurrence. `SetPointInRange`: each term of the numerator is at most 100 W times its term of
the denominator, hence so are the sums (`TotalAtMost`). `RulesCover`: a rule fires exactly where each
of the three inputs has a set that reaches it (`SomeRuleFires`); where none does the set point is 0
(`InferNothing`), and where one does it is not rounded to 0 either, because the set of half a watt
weighs enough against the one of 0 W (`InferPositive`). `UntrustedIsolated`: at a trust score up to 0.2
only the UNTRUSTED rules fire, whose output is always ZERO, so the united set falls from 0 to 10 W
(`UntrustedFalls`); compared with a flat set of the height it has at 5 W, its partial sums never
put the centroid beyond the middle. The proof found two guards of `Membership` that overlapped
when two corners coincide, which TLC had resolved by taking the first; they are disjoint now, in
the order of the code's tests. These theorems are about the model's grid of inputs (0.1 V, 1 W,
hundredths of trust), on which a membership that is not a multiple of 1/120 is rounded down;
the three results do not hang on that rounding, the proofs using only whether a membership is
positive and how it is ordered.

Induction theorems of the library that take an operator as a parameter cannot be instantiated
here. Where a proof is by induction (on the length of the universe, on the rank of a reading), it goes
through the set of the counterexamples: if there is one there is a least one (`LeastOf`,
`SetInduction`), since `<` on the naturals is well-founded.

**Only model-checked.** Liveness (`SessionEnds`, `NodeReturns`, `NodeServed`, `BootDecides`,
`WifiDecides`, `ClientEnds`, `UntrustedStarved`), which is out of the prover's reach. What
`BootDecides`, `ClientEnds` and the `SessionEnds` of `SecureNode` owe to fairness is only that the
programs do not stop on the way (and, for `BootDecides`, where a boot may): the measures of
`BootsEnd` and `ConnectionEnds` exclude that they run for ever. Further `TablesDecode`, whose
operators are bitwise; and the second half of `LessTrustLess` and `SetPointFollowsBus`, which
compare two centroids up to a wobble of 1 W: there the run is over the corners of the input sets and
their neighbours.

## 5. What is not modelled

* The strength of ECDSA, ECDH, HKDF and AES-GCM; HKDF's rejection sampling is one step.
* Frame splitting and length prefixes of `net_msg.c` and `protocol.py`: a frame arrives whole or
  not at all.
* The ring buffers behind `get_recent` and `export_json`, the status log, the manual set point
  of the EMS and the server identity in `config.json`: nothing in the system reads them back.
* Numbers of JSON that are not finite, texts that spell a number, and booleans: a reading's fields
  are integers, absent, null or a text that is no number.
* A PUF with fewer than a whole block of stable bits in either memory: `EccCode` has the abort,
  `PufBoot` an enrolment that succeeds.
* A change of `id_b` under a running system: `RotHandshake` restarts the server with the `id_b` it had,
  although `puf_server.py:61` reads the file again; what the file can come to is `Provisioning`.
* Metrics, printing, and the simulated sensors of `pc_client.py`.
* `secure_node.py`, the MicroPython node, which is not in the repository: its frames are modelled
  from what `auth_service.py` unpacks.
* `generate_methodology_csv.py`, which writes a table for a paper.
* Order between two connections of one node in the data store: a thread of an older
  connection may write after one of a newer (`data_store.py:43`), and the code promises nothing.

## 6. Where code and text disagree

Shown by a run:

* `boot_frequency`: the raw counters are "overwritten with zeros and erased once the
  masks/ECC data have been derived" (`esp32_puflib/README.md:10-11`), but stay in flash
  for good if the power goes after the last helper blob and before the erasure.
* `secure_logout`: "recv logout_req -> verify A_END_bl -> send logout_res"
  (`auth_service.py:14`), but the request of `pc_client.py` encrypts one block where the
  server unpacks two, and the session ends without an answer.

Met while modelling, and visible in the modules:

* `RotSession.run()` "Returns True iff the handshake succeeded" (`rot_challenge_service.py:203`), and
  returns True when the send of `session_ack` raised (`ReturnsAuthenticated`).
* "the PUF response is released from RAM like any other boot" (`app_main.c:99-100`), but not when
  a retry's wake-up made it ready and WiFi or `connect()` then fails (`ConnectToServer`).
* "A false return here means the device is not enrolled at all" (`rot_identity.h:41-42`), but an
  enrolled node gets it once its retries are used up (`GiveUp`).
* `smg_puf_rot_node/README.md:51` "Provisioning a node": steps 1 to 4 in their order leave a node that
  is never served (`FlashedNeverServed`); the printed follow-up command has no `--id-a`.
* An untrusted node gets the set point computed before its trust fell with the reply that
  drops it, and the centroid of ZERO is about 3.3 W, not 0 (`Answer`, `Infer`).
* A bus 3 V off its nominal 12 V, or a demand of 150 W, gives every node 0 W; the voltages
  `pc_client.py` simulates are of that kind (`ZeroOnlyOutside`).
* Readings of nodes that have gone stay in the demand and in the medians; and with three nodes
  one bad sensor makes the good ones anomalous (`Others`, `AnomalyNeedsHalf` asks for half).
* `_M_num_expected` (`auth_service.py:357`) is written and never compared: a client may put any
  `M_num` on a reading, and the audit log has it (`SendReading`, `AcceptReading`).
* "A node whose trust drops below 0.3 (UNTRUSTED) receives setpoint = 0 W" (`ems_coordinator.py:17-18`),
  but one stored reading, of any node, with null for its power makes `update()` raise every five seconds
  (`ems_coordinator.py:227`), which `server.py:111` logs: all nodes keep the set points they had until
  that node reports something else (`ApplyFails`, and the condition of `UntrustedStarved`).
* A trust score lowered by a message that does not verify never reaches the store: the
  session ends with it (`SecurityError`).

## 7. Plan

Built, in this order: `RotHandshake`, `PufBoot`, `EccCode`, `EccTables`, `WifiStation`,
`SecureNode` with `AuditLog`, `GridServer` with `EmsFuzzy`, `Provisioning`, and their proofs; then
`MutualAuth` and `StableIdentity` with their refinements, and the proofs about the median and the
inference.
Worth doing next: a composition of `StableIdentity` and `RotHandshake` in which `ReconKeys` is what
the boots derive.
