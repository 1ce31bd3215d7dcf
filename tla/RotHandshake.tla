---------------------------- MODULE RotHandshake ----------------------------
(***************************************************************************)
(* The Root of Trust session (P2 handshake, P3 data) between the nodes     *)
(* running smg_puf_rot_node (app_main.c, rot_session.c, secure_channel.c,  *)
(* net_msg.c) and the PUF server of smg_primary_server (puf_server.py,     *)
(* rot_challenge_service.py), with the registry that register_puf_node.py  *)
(* edits and the server reads once, when it starts.                        *)
(*                                                                         *)
(* Devices boot, connect, reconstruct a key pair and run one handshake per *)
(* boot; the server runs one RotSession thread per accepted connection.    *)
(* Connections are reset, go silent, or outlive a device that has rebooted *)
(* and is already on its next one.                                         *)
(*                                                                         *)
(* Cryptography is symbolic: a hash is the tuple or record of its inputs,  *)
(* an ECDH secret is the set of the two ephemeral keys it is made of, a    *)
(* signature is the signer's key with what it signed, and a random value   *)
(* is named after the connection it was drawn for (random values of 16 or  *)
(* 32 bytes do not repeat).                                                *)
(***************************************************************************)
EXTENDS Integers

CONSTANTS
    Devices,      \* the physical nodes
    Ids,          \* values of id_a
    ServerIds,    \* values of id_b
    IdB,          \* the id_b in puf_server_identity.json
    Verifiers,    \* values of shs_b (V_B)
    PubKeys,      \* public keys a registry entry can hold
    Malformed,    \* a registered pk_a that is not a point of the curve
    ReconKeys,    \* ReconKeys[d]: the keys d's PUF response can derive (the
                  \* enrolled one, and those of a wrong reconstruction)
    ClientKey,    \* the key of a client that is no registered node
    NoEntry, NoPeer, Client, NoMsg, NoValue,
    NvsContents,  \* what the "rot_identity" namespaces of the fleet may hold
    Registries,   \* what puf_node_registry.json may hold at first
    Faults,       \* which of FaultKinds may happen
    MaxConns,     \* bound: TCP connections in a behaviour
    MaxOps        \* bound: operator actions (registry edits, server stops)

FaultKinds == {"reset", "silent", "slow", "power", "wifi", "crypto", "client"}

ASSUME ConstantsAssumption ==
    /\ IdB \in ServerIds
    /\ Malformed \in PubKeys
    /\ ClientKey \notin PubKeys
    /\ Client \notin Devices /\ NoPeer \notin Devices /\ Client # NoPeer
    /\ MaxConns \in Nat /\ MaxOps \in Nat
    /\ Faults \subseteq FaultKinds

\* PUF uniqueness: no two nodes derive the same key, and what a node derives
\* is a point of the curve (the scalar is in [1, n-1]).
ASSUME ReconAssumption ==
    /\ ReconKeys \in [Devices -> SUBSET (PubKeys \ {Malformed})]
    /\ \A d, e \in Devices : d # e => ReconKeys[d] \cap ReconKeys[e] = {}

Conns == 1 .. MaxConns

(***************************************************************************)
(* Random values, one of each kind for a connection.                       *)
(***************************************************************************)
Nonces == [kind : {"ca", "cb", "ea", "eb", "client"}, conn : Conns]
ChallengeA(c) == [kind |-> "ca", conn |-> c]
EphA(c)       == [kind |-> "ea", conn |-> c]
ChallengeB(c) == [kind |-> "cb", conn |-> c]
EphB(c)       == [kind |-> "eb", conn |-> c]
ClientRandom(c) == [kind |-> "client", conn |-> c]

Entries == [pk : PubKeys, shs_b : Verifiers]
ASSUME NoEntryAssumption == NoEntry \notin Entries

NvsRefs == [id_a : Ids, pinned : BOOLEAN, id_b : ServerIds, shs_b : Verifiers]
ASSUME ContentsAssumption ==
    /\ NvsContents \subseteq [Devices -> NvsRefs]
    /\ Registries \subseteq [Ids -> Entries \cup {NoEntry}]

(***************************************************************************)
(* Hashes, the device's signature and the session key.                     *)
(***************************************************************************)
ServerProofs == [shs_b : Verifiers, ca : Nonces, eph_b : Nonces]
ServerProof(v, ca, eb) == [shs_b |-> v, ca |-> ca, eph_b |-> eb]

Transcripts == [id_a : Ids, id_b : ServerIds, cb : Nonces, ca : Nonces,
                eph_a : Nonces, eph_b : Nonces, proof : ServerProofs]
MsgHash(ida, idb, cb, ca, ea, eb, proof) ==
    [id_a |-> ida, id_b |-> idb, cb |-> cb, ca |-> ca,
     eph_a |-> ea, eph_b |-> eb, proof |-> proof]

Signers == PubKeys \cup {ClientKey}
Sign(sk, hash) == [signer |-> sk, hash |-> hash]

\* Mutants: any signer is accepted; the key is a function of V_B alone.
MutVerifiesAnyone(pk, sig, hash) == sig.hash = hash
MutKeyOfVerifier(ea, eb, v, ca, cb) ==
    [z |-> {}, shs_b |-> v, ca |-> ChallengeA(1), cb |-> ChallengeB(1)]

Keys == [z : SUBSET Nonces, shs_b : Verifiers, ca : Nonces, cb : Nonces]
Verifies(pk, sig, hash) == sig = Sign(pk, hash)
KeyAb(ea, eb, v, ca, cb) ==
    [z |-> {ea, eb}, shs_b |-> v, ca |-> ca, cb |-> cb]

ASSUME NoValueAssumption ==
    /\ NoValue \notin Keys
    /\ NoValue \notin Transcripts
    /\ NoValue \notin Signers
    /\ NoValue \notin [id_a : Ids, ca : Nonces]
    /\ NoValue \notin [id_a : Ids, pk : PubKeys, id_b : ServerIds, shs_b : Verifiers]

(***************************************************************************)
(* Frames. "other" is a well-formed frame of another type, "garbage" one   *)
(* recv_json or the field parsing raises on.                               *)
(***************************************************************************)
Hello(ida, ca) == [type |-> "hello", id_a |-> ida, ca |-> ca]
Challenge(idb, cb, eb, proof) ==
    [type |-> "challenge", id_b |-> idb, cb |-> cb, eph_b |-> eb, proof |-> proof]
Response(ea, sig) == [type |-> "response", eph_a |-> ea, sig |-> sig]
Data(key, from) == [type |-> "data", key |-> key, from |-> from]
Ack == [type |-> "session_ack"]
Error == [type |-> "error"]
Other == [type |-> "other"]
Garbage == [type |-> "garbage"]

ToServer ==
    [type : {"hello"}, id_a : Ids, ca : Nonces]
    \cup [type : {"response"}, eph_a : Nonces,
          sig : [signer : Signers, hash : Transcripts]]
    \cup [type : {"data"}, key : Keys, from : Devices]
    \cup {Other, Garbage}
ToDevice ==
    [type : {"challenge"}, id_b : ServerIds, cb : Nonces, eph_b : Nonces,
     proof : ServerProofs]
    \cup {Ack, Error}
ASSUME NoMsgAssumption == NoMsg \notin ToServer /\ NoMsg \notin ToDevice

-----------------------------------------------------------------------------
VARIABLES
    nvs,       \* nvs[d]: the pinned reference in d's flash
    regFile,   \* puf_node_registry.json
    ops,       \* operator actions so far
    srvUp,     \* puf_server.py is running
    registry,  \* the copy of regFile loaded by main()
    nconn,     \* connections opened so far
    peer,      \* peer[c]: who opened c
    link,      \* link[c]: "up", "reset" (RST seen) or "silent" (nothing passes)
    c2s, s2c,  \* the frame in flight in each direction of c
    dpc,       \* dpc[d]: where app_main is
    dconn,     \* dconn[d]: the connection of d's socket
    dend,      \* dend[c]: the connecting end of c
    dsk,       \* dsk[c]: the key pair derived for the handshake on c
    dtr,       \* dtr[c]: the transcript the device signed on c
    dkey,      \* dkey[c]: out_session->key_ab
    spc,       \* spc[c]: where the RotSession of c is
    shello,    \* shello[c]: id_a and challenge_a it received
    sentry,    \* sentry[c]: the registry entry it read
    auth,      \* auth[c]: self.authenticated
    skey,      \* skey[c]: self.key_ab
    result,    \* result[c]: what run() returned
    got        \* got[c]: the nodes whose payload the data loop decrypted

cfgVars == <<nvs, regFile, ops, srvUp, registry>>
netVars == <<nconn, peer, link>>
devVars == <<dpc, dconn, dend, dsk, dtr, dkey>>
srvVars == <<spc, shello, sentry, auth, skey, result, got>>
vars == <<nvs, regFile, ops, srvUp, registry, nconn, peer, link, c2s, s2c,
          dpc, dconn, dend, dsk, dtr, dkey,
          spc, shello, sentry, auth, skey, result, got>>

DevPc == {"off", "connected", "wait_challenge", "wait_ack", "established",
          "idle"}
OnLine == {"connected", "wait_challenge", "wait_ack", "established"}
SrvPc == {"none", "backlog", "wait_hello", "wait_response", "data", "closed"}
Waiting == {"wait_hello", "wait_response", "data"}

TypeOK ==
    /\ nvs \in [Devices -> NvsRefs]
    /\ regFile \in [Ids -> Entries \cup {NoEntry}]
    /\ registry \in [Ids -> Entries \cup {NoEntry}]
    /\ ops \in 0 .. MaxOps
    /\ srvUp \in BOOLEAN
    /\ nconn \in 0 .. MaxConns
    /\ peer \in [Conns -> Devices \cup {Client, NoPeer}]
    /\ link \in [Conns -> {"up", "reset", "silent"}]
    /\ c2s \in [Conns -> ToServer \cup {NoMsg}]
    /\ s2c \in [Conns -> ToDevice \cup {NoMsg}]
    /\ dpc \in [Devices -> DevPc]
    /\ dconn \in [Devices -> Conns \cup {0}]
    /\ dend \in [Conns -> {"none", "open", "closed"}]
    /\ dsk \in [Conns -> PubKeys \cup {NoValue}]
    /\ dtr \in [Conns -> Transcripts \cup {NoValue}]
    /\ dkey \in [Conns -> Keys \cup {NoValue}]
    /\ spc \in [Conns -> SrvPc]
    /\ shello \in [Conns -> [id_a : Ids, ca : Nonces] \cup {NoValue}]
    /\ sentry \in [Conns -> Entries \cup {NoEntry}]
    /\ auth \in [Conns -> BOOLEAN]
    /\ skey \in [Conns -> Keys \cup {NoValue}]
    /\ result \in [Conns -> {"running", "true", "false", "raised"}]
    /\ got \in [Conns -> SUBSET Devices]

\* The server is started on the initial registry file; no node has booted.
Init ==
    /\ nvs \in NvsContents
    /\ regFile \in Registries
    /\ ops = 0
    /\ srvUp = TRUE
    /\ registry = regFile
    /\ nconn = 0
    /\ peer = [c \in Conns |-> NoPeer]
    /\ link = [c \in Conns |-> "up"]
    /\ c2s = [c \in Conns |-> NoMsg]
    /\ s2c = [c \in Conns |-> NoMsg]
    /\ dpc = [d \in Devices |-> "off"]
    /\ dconn = [d \in Devices |-> 0]
    /\ dend = [c \in Conns |-> "none"]
    /\ dsk = [c \in Conns |-> NoValue]
    /\ dtr = [c \in Conns |-> NoValue]
    /\ dkey = [c \in Conns |-> NoValue]
    /\ spc = [c \in Conns |-> "none"]
    /\ shello = [c \in Conns |-> NoValue]
    /\ sentry = [c \in Conns |-> NoEntry]
    /\ auth = [c \in Conns |-> FALSE]
    /\ skey = [c \in Conns |-> NoValue]
    /\ result = [c \in Conns |-> "running"]
    /\ got = [c \in Conns |-> {}]

-----------------------------------------------------------------------------
(***************************************************************************)
(* TCP, as both ends use it. The protocol is lock-step, so one frame per   *)
(* direction is enough (InFlightOnce checks that a node's connection never *)
(* needs more). A frame sent on a connection that is down, or whose other  *)
(* end is closed, is lost; a frame already in flight is read before the    *)
(* end of file of the side that closed.                                    *)
(***************************************************************************)
\* A frame the connecting end writes on c: lost unless c can deliver it.
SendToServer(c, m) ==
    c2s' = [c2s EXCEPT ![c] =
              IF link[c] = "up" /\ spc[c] # "closed" THEN m ELSE NoMsg]

\* What a frame the server writes on c leaves in flight.
Delivered(c, m) == IF link[c] = "up" /\ dend[c] = "open" THEN m ELSE NoMsg

\* recv() on the server's end returns 0 or raises: FIN or RST, nothing left.
ServerSeesEnd(c) ==
    /\ c2s[c] = NoMsg
    /\ \/ link[c] = "up" /\ dend[c] = "closed"
       \/ link[c] = "reset"

\* recv() on the device's end returns <= 0.
DeviceSeesEnd(c) ==
    /\ s2c[c] = NoMsg
    /\ \/ link[c] = "up" /\ spc[c] = "closed"
       \/ link[c] = "reset"

-----------------------------------------------------------------------------
(***************************************************************************)
(* The node: app_main() and rot_session_handshake(), one action between    *)
(* two calls that may block or reset the chip.                             *)
(***************************************************************************)

\* close(sock); return: app_main ends and the chip idles until it is reset.
CloseAndIdle(d) ==
    /\ dpc' = [dpc EXCEPT ![d] = "idle"]
    /\ dend' = [dend EXCEPT ![dconn[d]] = "closed"]
    /\ UNCHANGED dconn

\* No server reference is pinned: the export branch prints and returns.
ExportOnly(d) ==
    /\ dpc[d] = "off"
    /\ ~nvs[d].pinned
    /\ dpc' = [dpc EXCEPT ![d] = "idle"]
    /\ UNCHANGED <<cfgVars, netVars, c2s, s2c, srvVars,
                   dconn, dend, dsk, dtr, dkey>>

\* WiFi does not come up, or connect() fails: app_main returns.
ConnectFails(d) ==
    /\ dpc[d] = "off"
    /\ nvs[d].pinned
    /\ ~srvUp \/ "wifi" \in Faults
    /\ dpc' = [dpc EXCEPT ![d] = "idle"]
    /\ UNCHANGED <<cfgVars, netVars, c2s, s2c, srvVars,
                   dconn, dend, dsk, dtr, dkey>>

\* connect_to_server(), before the PUF response is reconstructed.
Connect(d) ==
    /\ dpc[d] = "off"
    /\ nvs[d].pinned
    /\ srvUp
    /\ nconn < MaxConns
    /\ nconn' = nconn + 1
    /\ peer' = [peer EXCEPT ![nconn + 1] = d]
    /\ spc' = [spc EXCEPT ![nconn + 1] = "backlog"]
    /\ dend' = [dend EXCEPT ![nconn + 1] = "open"]
    /\ dpc' = [dpc EXCEPT ![d] = "connected"]
    /\ dconn' = [dconn EXCEPT ![d] = nconn + 1]
    /\ UNCHANGED <<cfgVars, link, c2s, s2c, dsk, dtr, dkey,
                   shello, sentry, auth, skey, result, got>>

\* rot_identity_get_puf_response() succeeds with a response that derives the
\* key pair k; the handshake generates its ephemeral key and sends hello.
StartHandshake(d, k) ==
    LET c == dconn[d] IN
    /\ dpc[d] = "connected"
    /\ k \in ReconKeys[d]
    /\ dsk' = [dsk EXCEPT ![c] = k]
    /\ SendToServer(c, Hello(nvs[d].id_a, ChallengeA(c)))
    /\ dpc' = [dpc EXCEPT ![d] = "wait_challenge"]
    /\ UNCHANGED <<cfgVars, netVars, s2c, srvVars, dconn, dend, dtr, dkey>>

\* The retry budget of rot_identity_get_puf_response() is used up, or mbedtls
\* fails to derive a key: close(sock) and return.
ReconstructFails(d) ==
    /\ dpc[d] = "connected"
    /\ "crypto" \in Faults
    /\ CloseAndIdle(d)
    /\ UNCHANGED <<cfgVars, netVars, c2s, s2c, srvVars, dsk, dtr, dkey>>

\* Mutant: server_proof is not compared.
MutServerUnproved(d, m) ==
    m.type = "challenge" /\ m.id_b = nvs[d].id_b

\* The checks of message 2: all fields there, the pinned id_b, and
\* server_proof = SHA256(V_B || challenge_A || eph_pk_B).
ServerAccepted(d, m) ==
    /\ m.type = "challenge"
    /\ m.id_b = nvs[d].id_b
    /\ m.proof = ServerProof(nvs[d].shs_b, ChallengeA(dconn[d]), m.eph_b)

SignedTranscript(d, m) ==
    MsgHash(nvs[d].id_a, m.id_b, m.cb, ChallengeA(dconn[d]),
            EphA(dconn[d]), m.eph_b, m.proof)

\* Mutant: the node does not wait for session_ack.
MutAnswerEager(d) ==
    LET c == dconn[d]
        m == s2c[c]
    IN
    /\ dpc[d] = "wait_challenge"
    /\ m # NoMsg
    /\ ServerAccepted(d, m)
    /\ s2c' = [s2c EXCEPT ![c] = NoMsg]
    /\ dtr' = [dtr EXCEPT ![c] = SignedTranscript(d, m)]
    /\ SendToServer(c, Response(EphA(c), Sign(dsk[c], SignedTranscript(d, m))))
    /\ dpc' = [dpc EXCEPT ![d] = "established"]
    /\ UNCHANGED <<cfgVars, netVars, srvVars, dconn, dend, dsk, dkey>>

\* Message 2 arrives and is accepted: sign the transcript, send message 3.
AnswerChallenge(d) ==
    LET c == dconn[d]
        m == s2c[c]
    IN
    /\ dpc[d] = "wait_challenge"
    /\ m # NoMsg
    /\ ServerAccepted(d, m)
    /\ s2c' = [s2c EXCEPT ![c] = NoMsg]
    /\ dtr' = [dtr EXCEPT ![c] = SignedTranscript(d, m)]
    /\ SendToServer(c, Response(EphA(c), Sign(dsk[c], SignedTranscript(d, m))))
    /\ dpc' = [dpc EXCEPT ![d] = "wait_ack"]
    /\ UNCHANGED <<cfgVars, netVars, srvVars, dconn, dend, dsk, dkey>>

\* Message 2 is an error, comes from another server, or fails the proof.
RejectChallenge(d) ==
    LET m == s2c[dconn[d]] IN
    /\ dpc[d] = "wait_challenge"
    /\ m # NoMsg
    /\ ~ServerAccepted(d, m)
    /\ s2c' = [s2c EXCEPT ![dconn[d]] = NoMsg]
    /\ CloseAndIdle(d)
    /\ UNCHANGED <<cfgVars, netVars, c2s, srvVars, dsk, dtr, dkey>>

\* Mutant: the type of message 4 is not looked at.
MutAnyAck(m) == m # NoMsg

AckAccepted(m) == m # NoMsg /\ m.type = "session_ack"

\* Message 4 is session_ack: compute Z and Key_ab; the handshake returns true.
ReceiveAck(d) ==
    LET c == dconn[d] IN
    /\ dpc[d] = "wait_ack"
    /\ AckAccepted(s2c[c])
    /\ s2c' = [s2c EXCEPT ![c] = NoMsg]
    /\ dkey' = [dkey EXCEPT ![c] =
                  KeyAb(EphA(c), dtr[c].eph_b, nvs[d].shs_b,
                        ChallengeA(c), dtr[c].cb)]
    /\ dpc' = [dpc EXCEPT ![d] = "established"]
    /\ UNCHANGED <<cfgVars, netVars, c2s, srvVars, dconn, dend, dsk, dtr>>

\* Message 4 is anything else.
RejectAck(d) ==
    LET c == dconn[d] IN
    /\ dpc[d] = "wait_ack"
    /\ s2c[c] # NoMsg /\ ~AckAccepted(s2c[c])
    /\ s2c' = [s2c EXCEPT ![c] = NoMsg]
    /\ CloseAndIdle(d)
    /\ UNCHANGED <<cfgVars, netVars, c2s, srvVars, dsk, dtr, dkey>>

\* mbedtls fails: signing, or ECDH after the ack, or encrypting the message.
CryptoFails(d) ==
    LET c == dconn[d] IN
    /\ "crypto" \in Faults
    /\ \/ dpc[d] = "wait_challenge" /\ s2c[c] # NoMsg
       \/ dpc[d] = "wait_ack" /\ AckAccepted(s2c[c])
       \/ dpc[d] = "established"
    /\ s2c' = [s2c EXCEPT ![c] = NoMsg]
    /\ CloseAndIdle(d)
    /\ UNCHANGED <<cfgVars, netVars, c2s, srvVars, dsk, dtr, dkey>>

\* net_msg_recv() returns NULL. There is no receive timeout: while the
\* connection is silent, the node stays where it is.
ReceiveFails(d) ==
    /\ dpc[d] \in {"wait_challenge", "wait_ack"}
    /\ DeviceSeesEnd(dconn[d])
    /\ CloseAndIdle(d)
    /\ UNCHANGED <<cfgVars, netVars, c2s, s2c, srvVars, dsk, dtr, dkey>>

\* The demo message under Key_ab, then close(sock): app_main is over.
SendDemo(d) ==
    LET c == dconn[d] IN
    /\ dpc[d] = "established"
    /\ SendToServer(c, Data(dkey[c], d))
    /\ CloseAndIdle(d)
    /\ UNCHANGED <<cfgVars, netVars, s2c, srvVars, dsk, dtr, dkey>>

\* Power loss, the operator's reset, or the deep sleep of a reconstruction
\* retry: the socket is gone without a FIN and app_main starts over.
ResetDevice(d) ==
    /\ "power" \in Faults
    /\ dpc[d] # "off"
    /\ dpc' = [dpc EXCEPT ![d] = "off"]
    /\ dconn' = [dconn EXCEPT ![d] = 0]
    /\ IF dpc[d] \in OnLine
       THEN /\ dend' = [dend EXCEPT ![dconn[d]] = "closed"]
            /\ link' = [link EXCEPT ![dconn[d]] =
                          IF @ = "up" THEN "silent" ELSE @]
            /\ s2c' = [s2c EXCEPT ![dconn[d]] = NoMsg]
       ELSE UNCHANGED <<dend, link, s2c>>
    /\ UNCHANGED <<cfgVars, nconn, peer, c2s, srvVars, dsk, dtr, dkey>>

-----------------------------------------------------------------------------
(***************************************************************************)
(* The server: main()'s accept loop and one RotSession per connection.     *)
(* conn.close() in handle_client's finally is part of every ending.        *)
(***************************************************************************)

\* Mutant: the socket is never closed.
MutEndLeaksSocket(c, r) ==
    /\ spc' = [spc EXCEPT ![c] = "leaked"]
    /\ result' = [result EXCEPT ![c] = r]

\* The session ends: run() returned r, or an exception escaped it ("raised").
EndSession(c, r) ==
    /\ spc' = [spc EXCEPT ![c] = "closed"]
    /\ result' = [result EXCEPT ![c] = r]

\* What run() returns once a ConnectionError, ProtocolError or OSError has
\* ended the session: self.authenticated.
ReturnsAuthenticated(c) == IF auth[c] THEN "true" ELSE "false"

Accept(c) ==
    /\ srvUp
    /\ spc[c] = "backlog"
    /\ spc' = [spc EXCEPT ![c] = "wait_hello"]
    /\ UNCHANGED <<cfgVars, netVars, c2s, s2c, devVars,
                   shello, sentry, auth, skey, result, got>>

\* hello names a registered node whose public key is a point of the curve.
HelloAccepted(m) ==
    /\ m.type = "hello"
    /\ registry[m.id_a] # NoEntry
    /\ registry[m.id_a].pk # Malformed

\* Message 1 accepted: send challenge_B, eph_pk_B and server_proof. On a
\* connection that was reset the send raises, and run() returns False.
SendChallenge(c) ==
    LET m == c2s[c]
        e == registry[m.id_a]
    IN
    /\ spc[c] = "wait_hello"
    /\ m # NoMsg
    /\ HelloAccepted(m)
    /\ c2s' = [c2s EXCEPT ![c] = NoMsg]
    /\ shello' = [shello EXCEPT ![c] = [id_a |-> m.id_a, ca |-> m.ca]]
    /\ sentry' = [sentry EXCEPT ![c] = e]
    /\ s2c' = [s2c EXCEPT ![c] =
                 Delivered(c, Challenge(IdB, ChallengeB(c), EphB(c),
                                        ServerProof(e.shs_b, m.ca, EphB(c))))]
    /\ IF link[c] = "reset"
       THEN EndSession(c, "false")
       ELSE /\ spc' = [spc EXCEPT ![c] = "wait_response"]
            /\ UNCHANGED result
    /\ UNCHANGED <<cfgVars, netVars, devVars, auth, skey, got>>

\* Message 1 of another type, from an unknown id_a, or for a malformed pk_a.
RejectHello(c) ==
    LET m == c2s[c] IN
    /\ spc[c] = "wait_hello"
    /\ m # NoMsg /\ m # Garbage
    /\ ~HelloAccepted(m)
    /\ c2s' = [c2s EXCEPT ![c] = NoMsg]
    /\ s2c' = [s2c EXCEPT ![c] = Delivered(c, Error)]
    /\ EndSession(c, "false")
    /\ UNCHANGED <<cfgVars, netVars, devVars, shello, sentry, auth, skey, got>>

\* Mutant: the nonces are hashed in the other order.
MutTranscriptSwapped(c, ea) ==
    MsgHash(shello[c].id_a, IdB, shello[c].ca, ChallengeB(c), ea, EphB(c),
            ServerProof(sentry[c].shs_b, shello[c].ca, EphB(c)))

\* The transcript the server rebuilds from what it received and sent.
ServerTranscript(c, ea) ==
    MsgHash(shello[c].id_a, IdB, ChallengeB(c), shello[c].ca, ea, EphB(c),
            ServerProof(sentry[c].shs_b, shello[c].ca, EphB(c)))

ResponseAccepted(c, m) ==
    /\ m.type = "response"
    /\ Verifies(sentry[c].pk, m.sig, ServerTranscript(c, m.eph_a))

\* Message 3 verifies: derive Key_ab, set authenticated, then send the ack.
\* If that send raises, run() returns authenticated, which is True.
SendAck(c) ==
    LET m == c2s[c] IN
    /\ spc[c] = "wait_response"
    /\ m # NoMsg
    /\ ResponseAccepted(c, m)
    /\ c2s' = [c2s EXCEPT ![c] = NoMsg]
    /\ skey' = [skey EXCEPT ![c] =
                  KeyAb(m.eph_a, EphB(c), sentry[c].shs_b,
                        shello[c].ca, ChallengeB(c))]
    /\ auth' = [auth EXCEPT ![c] = TRUE]
    /\ s2c' = [s2c EXCEPT ![c] = Delivered(c, Ack)]
    /\ IF link[c] = "reset"
       THEN EndSession(c, "true")
       ELSE /\ spc' = [spc EXCEPT ![c] = "data"]
            /\ UNCHANGED result
    /\ UNCHANGED <<cfgVars, netVars, devVars, shello, sentry, got>>

\* Message 3 of another type, with a malformed key, or a bad signature.
RejectResponse(c) ==
    LET m == c2s[c] IN
    /\ spc[c] = "wait_response"
    /\ m # NoMsg /\ m # Garbage
    /\ ~ResponseAccepted(c, m)
    /\ c2s' = [c2s EXCEPT ![c] = NoMsg]
    /\ s2c' = [s2c EXCEPT ![c] = Delivered(c, Error)]
    /\ EndSession(c, "false")
    /\ UNCHANGED <<cfgVars, netVars, devVars, shello, sentry, auth, skey, got>>

\* A frame that does not parse: a ProtocolError (length) ends run(), any
\* other exception (JSON, a missing or badly encoded field) escapes it.
RaiseOnGarbage(c) ==
    /\ spc[c] \in Waiting
    /\ c2s[c] = Garbage
    /\ c2s' = [c2s EXCEPT ![c] = NoMsg]
    /\ \E r \in {ReturnsAuthenticated(c), "raised"} : EndSession(c, r)
    /\ UNCHANGED <<cfgVars, netVars, s2c, devVars,
                   shello, sentry, auth, skey, got>>

\* decrypt_data_message() returns and does not raise.
Decrypts(m, key) == m.type = "data" /\ m.key = key

\* A frame in the data loop: a payload that decrypts under key_ab is logged,
\* one that does not is answered with an error, another type is skipped.
ReceiveData(c) ==
    LET m == c2s[c]
        decrypts == Decrypts(m, skey[c])
    IN
    /\ spc[c] = "data"
    /\ m # NoMsg /\ m # Garbage
    /\ c2s' = [c2s EXCEPT ![c] = NoMsg]
    /\ got' = [got EXCEPT ![c] = IF decrypts THEN @ \cup {m.from} ELSE @]
    /\ s2c' = [s2c EXCEPT ![c] = IF m.type = "data" /\ ~decrypts
                                 THEN Delivered(c, Error) ELSE @]
    /\ UNCHANGED <<cfgVars, netVars, devVars,
                   spc, shello, sentry, auth, skey, result>>

\* The peer closed or reset the connection. In the data loop a closed
\* connection makes _data_loop return and run() return True.
SessionSeesEnd(c) ==
    /\ spc[c] \in Waiting
    /\ ServerSeesEnd(c)
    /\ EndSession(c, ReturnsAuthenticated(c))
    /\ UNCHANGED <<cfgVars, netVars, c2s, s2c, devVars,
                   shello, sentry, auth, skey, got>>

\* Mutant: the data loop waits without a timeout.
MutTimeoutInHandshake(c) ==
    /\ spc[c] \in {"wait_hello", "wait_response"}
    /\ c2s[c] = NoMsg
    /\ link[c] = "silent" \/ "slow" \in Faults
    /\ EndSession(c, ReturnsAuthenticated(c))
    /\ UNCHANGED <<cfgVars, netVars, c2s, s2c, devVars,
                   shello, sentry, auth, skey, got>>

\* No frame for 10 s (handshake) or 30 s (data loop).
SessionTimesOut(c) ==
    /\ spc[c] \in Waiting
    /\ c2s[c] = NoMsg
    /\ link[c] = "silent" \/ "slow" \in Faults
    /\ EndSession(c, ReturnsAuthenticated(c))
    /\ UNCHANGED <<cfgVars, netVars, c2s, s2c, devVars,
                   shello, sentry, auth, skey, got>>

\* The process is stopped: its daemon threads die, their sockets close.
StopServer ==
    /\ srvUp
    /\ ops < MaxOps
    /\ ops' = ops + 1
    /\ srvUp' = FALSE
    /\ spc' = [c \in Conns |-> IF spc[c] = "none" THEN "none" ELSE "closed"]
    /\ result' = [c \in Conns |->
                    IF spc[c] \in Waiting THEN "raised" ELSE result[c]]
    /\ UNCHANGED <<nvs, regFile, registry, netVars, c2s, s2c, devVars,
                   shello, sentry, auth, skey, got>>

\* main(): load the registry, listen.
StartServer ==
    /\ ~srvUp
    /\ srvUp' = TRUE
    /\ registry' = regFile
    /\ UNCHANGED <<nvs, regFile, ops, netVars, c2s, s2c, devVars, srvVars>>

-----------------------------------------------------------------------------
(***************************************************************************)
(* register_puf_node.py: an entry is overwritten or deleted, and the file  *)
(* written back. A running server does not look at it again.               *)
(***************************************************************************)
\* Mutant: the running server picks up the new entry.
MutRegisterReloads(i, e) ==
    /\ ops < MaxOps
    /\ ops' = ops + 1
    /\ regFile' = [regFile EXCEPT ![i] = e]
    /\ registry' = IF srvUp THEN regFile' ELSE registry
    /\ UNCHANGED <<nvs, srvUp, netVars, c2s, s2c, devVars, srvVars>>

RegisterNode(i, e) ==
    /\ ops < MaxOps
    /\ ops' = ops + 1
    /\ regFile' = [regFile EXCEPT ![i] = e]
    /\ UNCHANGED <<nvs, srvUp, registry, netVars, c2s, s2c, devVars, srvVars>>

RemoveNode(i) ==
    /\ ops < MaxOps
    /\ regFile[i] # NoEntry
    /\ ops' = ops + 1
    /\ regFile' = [regFile EXCEPT ![i] = NoEntry]
    /\ UNCHANGED <<nvs, srvUp, registry, netVars, c2s, s2c, devVars, srvVars>>

-----------------------------------------------------------------------------
(***************************************************************************)
(* The environment: the network, and clients that are no node (another     *)
(* program on the port, or the clients of the protocol's tests, which      *)
(* follow the protocol with an id_a or a key that is not registered).      *)
(***************************************************************************)
\* The connection is reset, or nothing passes any more; a frame in flight
\* had arrived, or is lost.
ResetLink(c) ==
    /\ "reset" \in Faults
    /\ link[c] = "up" /\ spc[c] # "none"
    /\ link' = [link EXCEPT ![c] = "reset"]
    /\ \E q \in {c2s[c], NoMsg} : c2s' = [c2s EXCEPT ![c] = q]
    /\ \E q \in {s2c[c], NoMsg} : s2c' = [s2c EXCEPT ![c] = q]
    /\ UNCHANGED <<cfgVars, nconn, peer, devVars, srvVars>>

SilenceLink(c) ==
    /\ "silent" \in Faults
    /\ link[c] = "up" /\ spc[c] # "none"
    /\ link' = [link EXCEPT ![c] = "silent"]
    /\ \E q \in {c2s[c], NoMsg} : c2s' = [c2s EXCEPT ![c] = q]
    /\ \E q \in {s2c[c], NoMsg} : s2c' = [s2c EXCEPT ![c] = q]
    /\ UNCHANGED <<cfgVars, nconn, peer, devVars, srvVars>>

ClientConnect ==
    /\ "client" \in Faults
    /\ srvUp
    /\ nconn < MaxConns
    /\ nconn' = nconn + 1
    /\ peer' = [peer EXCEPT ![nconn + 1] = Client]
    /\ spc' = [spc EXCEPT ![nconn + 1] = "backlog"]
    /\ dend' = [dend EXCEPT ![nconn + 1] = "open"]
    /\ UNCHANGED <<cfgVars, link, c2s, s2c, dpc, dconn, dsk, dtr, dkey,
                   shello, sentry, auth, skey, result, got>>

\* What such a client may send on c.
ClientFrames(c) ==
    {Other, Garbage}
    \cup {Hello(i, ClientRandom(c)) : i \in Ids}
    \cup IF shello[c] = NoValue THEN {}
         ELSE {Response(ClientRandom(c),
                        Sign(ClientKey, ServerTranscript(c, ClientRandom(c))))}

\* It has read whatever the server sent before it sends its next frame.
ClientSend(c, m) ==
    /\ peer[c] = Client
    /\ dend[c] = "open"
    /\ c2s[c] = NoMsg
    /\ m \in ClientFrames(c)
    /\ spc[c] # "closed"
    /\ SendToServer(c, m)
    /\ s2c' = [s2c EXCEPT ![c] = NoMsg]
    /\ UNCHANGED <<cfgVars, netVars, devVars, srvVars>>

ClientClose(c) ==
    /\ peer[c] = Client
    /\ dend[c] = "open"
    /\ dend' = [dend EXCEPT ![c] = "closed"]
    /\ UNCHANGED <<cfgVars, netVars, c2s, s2c, srvVars,
                   dpc, dconn, dsk, dtr, dkey>>

-----------------------------------------------------------------------------
DeviceStep(d) ==
    \/ ExportOnly(d)
    \/ Connect(d)
    \/ \E k \in ReconKeys[d] : StartHandshake(d, k)
    \/ AnswerChallenge(d)
    \/ RejectChallenge(d)
    \/ ReceiveAck(d)
    \/ RejectAck(d)
    \/ ReceiveFails(d)
    \/ SendDemo(d)

DeviceFault(d) ==
    \/ ConnectFails(d)
    \/ ReconstructFails(d)
    \/ CryptoFails(d)
    \/ ResetDevice(d)

SessionStep(c) ==
    \/ Accept(c)
    \/ SendChallenge(c)
    \/ RejectHello(c)
    \/ SendAck(c)
    \/ RejectResponse(c)
    \/ RaiseOnGarbage(c)
    \/ ReceiveData(c)
    \/ SessionSeesEnd(c)
    \/ SessionTimesOut(c)

Operator ==
    \/ StopServer
    \/ StartServer
    \/ \E i \in Ids : RemoveNode(i) \/ \E e \in Entries : RegisterNode(i, e)

Environment ==
    \/ ClientConnect
    \/ \E c \in Conns :
         \/ ResetLink(c)
         \/ SilenceLink(c)
         \/ \E m \in ClientFrames(c) : ClientSend(c, m)
         \/ ClientClose(c)

Next ==
    \/ \E d \in Devices : DeviceStep(d) \/ DeviceFault(d)
    \/ \E c \in Conns : SessionStep(c)
    \/ Operator
    \/ Environment

Spec == Init /\ [][Next]_vars

\* A node's program runs on, and so does a server thread: the scheduler runs
\* it, and its receive times out after 10 or 30 s.
FairSpec ==
    /\ Spec
    /\ \A d \in Devices : WF_vars(DeviceStep(d))
    /\ \A c \in Conns : WF_vars(SessionStep(c))

-----------------------------------------------------------------------------
(***************************************************************************)
(* Properties.                                                             *)
(***************************************************************************)

\* A node that returns from the handshake with Key_ab shares it with the
\* session thread at the other end of its own connection, which had already
\* authenticated the node (rot_session.c:243-275, the ack of message 4;
\* rot_challenge_service.py:298-301). It survives reboots, resets and a
\* server restarted in between.
KeyAgreement ==
    \A c \in Conns :
       dkey[c] # NoValue => auth[c] /\ skey[c] = dkey[c]

\* The server authenticates a session only if its peer is a node that holds
\* the id_a it claimed, pinned the same V_B and this server's id_b, derived
\* exactly the registered key pair in that boot, and signed the transcript
\* the server itself saw (rot_challenge_service.py:286-300). A client without
\* a registered key, a node re-registered with another V_B and a node whose
\* PUF response was reconstructed wrongly are never authenticated.
NodeAuthentic ==
    \A c \in Conns : auth[c] =>
       /\ peer[c] \in Devices
       /\ shello[c].id_a = nvs[peer[c]].id_a
       /\ sentry[c].shs_b = nvs[peer[c]].shs_b
       /\ nvs[peer[c]].id_b = IdB
       /\ sentry[c].pk = dsk[c] /\ dsk[c] \in ReconKeys[peer[c]]
       /\ dtr[c] = ServerTranscript(c, EphA(c))

\* A node signs only towards a session that has read the very V_B it has
\* pinned, under the nonce of this connection (rot_session.c:140-163, then
\* 194-210): it authenticates the server before it proves itself.
ServerAuthentic ==
    \A c \in Conns : dtr[c] # NoValue =>
       /\ sentry[c] # NoEntry
       /\ sentry[c].shs_b = nvs[peer[c]].shs_b
       /\ nvs[peer[c]].id_b = IdB
       /\ dtr[c].ca = ChallengeA(c) /\ dtr[c].cb = ChallengeB(c)

\* No two connections, of the same node or not, ever have the same key
\* (test_rot_challenge_protocol.py: two sessions under one V_B differ).
SessionKeysDistinct ==
    \A b, c \in Conns :
       skey[b] # NoValue /\ skey[b] = skey[c] => b = c

\* The handshake implements injective agreement in both directions (MutualAuth):
\* what the node has signed for is what the server authenticates it for, field
\* by field and once per connection, under a key of that connection alone that
\* the node takes over only afterwards (rot_session.c:105-278,
\* rot_challenge_service.py:224-305). No fault, reboot, stranger or operator
\* takes back, repeats or reorders any of it.
Terms == [id_a : Ids, pk : PubKeys, id_b : ServerIds, shs_b : Verifiers]
NodeTerms(c) ==
    [id_a |-> nvs[peer[c]].id_a, pk |-> dsk[c],
     id_b |-> nvs[peer[c]].id_b, shs_b |-> nvs[peer[c]].shs_b]
ServerTerms(c) ==
    [id_a |-> shello[c].id_a, pk |-> sentry[c].pk,
     id_b |-> IdB, shs_b |-> sentry[c].shs_b]
SessionKeys == {KeyAb(EphA(c), EphB(c), v, ChallengeA(c), ChallengeB(c)) :
                  c \in Conns, v \in Verifiers}

Mutual == INSTANCE MutualAuth WITH
    Runs <- Conns,
    Keys <- SessionKeys,
    None <- NoValue,
    vouched <- [c \in Conns |-> IF dtr[c] = NoValue THEN NoValue ELSE NodeTerms(c)],
    accepted <- [c \in Conns |-> IF auth[c] THEN ServerTerms(c) ELSE NoValue],
    key <- skey,
    taken <- dkey,
    delivered <- {c \in Conns : got[c] # {}}
ImplementsMutualAuth == Mutual!Spec

\* A payload the data loop accepts on c was sent by the node that opened c,
\* which had completed the handshake there; so a decryption can never fail
\* between honest ends (rot_challenge_service.py:307-323).
PayloadAuthentic ==
    \A c \in Conns :
       /\ got[c] \subseteq {peer[c]}
       /\ got[c] # {} => dkey[c] # NoValue
       /\ spc[c] = "data" /\ c2s[c] # NoMsg =>
            c2s[c].type = "data" /\ c2s[c].key = skey[c]

\* A live session works with the entry the running server loaded when it
\* started, whatever register_puf_node.py has written since: no session of
\* an earlier server process, and no half-updated entry (puf_server.py:67).
SnapshotEntry ==
    \A c \in Conns : spc[c] \in {"wait_response", "data"} =>
       srvUp /\ sentry[c] = registry[shello[c].id_a]

\* Neither end of a node's connection sends a frame while its previous one
\* is still in flight: the request/response order of net_msg.c's users
\* never needs a queue.
InFlightOnce ==
    [][\A c \in Conns : peer[c] \in Devices =>
          /\ c2s[c] = NoMsg \/ c2s'[c] \in {c2s[c], NoMsg}
          /\ s2c[c] = NoMsg \/ s2c'[c] \in {s2c[c], NoMsg}]_vars

\* Every session thread ends: whatever the peer does, or stops doing, the
\* receive timeouts get the thread out of its waits
\* (rot_challenge_service.py:110-117, 309-311).
SessionEnds ==
    \A c \in Conns : (spc[c] \in Waiting) ~> (spc[c] = "closed")

\* A node that waits for the server gets an answer or an end of file, or
\* else its connection has gone silent: net_msg_recv has no timeout, and
\* that is the only way the node stays blocked (net_msg.c:24-34).
NodeReturns ==
    \A d \in Devices : (dpc[d] \in {"wait_challenge", "wait_ack"}) ~>
       \/ dpc[d] \notin {"wait_challenge", "wait_ack"}
       \/ link[dconn[d]] = "silent"

\* The node's registry entry and its pinned reference belong together.
WellProvisioned(d) ==
    /\ nvs[d].pinned /\ nvs[d].id_b = IdB
    /\ registry[nvs[d].id_a] # NoEntry
    /\ registry[nvs[d].id_a].shs_b = nvs[d].shs_b
    /\ ReconKeys[d] = {registry[nvs[d].id_a].pk}

\* A well provisioned node gets its payload to the server over every
\* connection it opens and does not lose, with another node and reboots
\* around it (README "Provisioning a node", step 5).  What is delivered or
\* lost stays so: the formula says it of each of the MaxConns connections.
NodeServed ==
    []<>(\A d \in Devices, c \in Conns :
           peer[c] = d /\ WellProvisioned(d) => got[c] = {d} \/ link[c] # "up")
=============================================================================
