------------------------- MODULE RotHandshakeProofs -------------------------
(***************************************************************************)
(* Proofs about RotHandshake, for every fleet, registry and number of      *)
(* connections: the inductive invariant IInv of the handshake, and from it *)
(* the safety properties the TLC runs check on small instances.            *)
(*                                                                         *)
(* IInv says, connection by connection, what each frame in flight must     *)
(* contain given what its sender knew, and what each end has therefore     *)
(* learnt about the other. Its parts follow the order of the protocol.     *)
(***************************************************************************)
EXTENDS RotHandshake, TLAPS

\* The key both ends of connection c must arrive at.
SessionKey(c) ==
    KeyAb(EphA(c), EphB(c), sentry[c].shs_b, ChallengeA(c), ChallengeB(c))

\* A connection number not yet used, and a peer recorded for every other.
UnusedInv(c) ==
    /\ c > nconn => peer[c] = NoPeer
    /\ peer[c] = NoPeer =>
         /\ spc[c] = "none" /\ c2s[c] = NoMsg /\ s2c[c] = NoMsg
         /\ dsk[c] = NoValue /\ dtr[c] = NoValue /\ dkey[c] = NoValue
         /\ shello[c] = NoValue /\ ~auth[c] /\ skey[c] = NoValue
         /\ got[c] = {}

\* The socket of a node that is on line, and how far its handshake got.
DeviceInv(d) ==
    /\ dpc[d] \in OnLine => dconn[d] \in Conns /\ peer[dconn[d]] = d
    /\ dpc[d] = "connected" => dsk[dconn[d]] = NoValue
    /\ dpc[d] \in {"wait_challenge", "wait_ack", "established"} =>
         dsk[dconn[d]] # NoValue
    /\ dpc[d] = "wait_challenge" => dtr[dconn[d]] = NoValue
    /\ dpc[d] \in {"wait_ack", "established"} => dtr[dconn[d]] # NoValue
    /\ dpc[d] = "wait_ack" => dkey[dconn[d]] = NoValue
    /\ dpc[d] = "established" => dkey[dconn[d]] # NoValue

\* The frame a node has in flight towards the server.
ToServerInv(c) ==
    peer[c] \in Devices =>
      /\ dsk[c] = NoValue => c2s[c] = NoMsg /\ shello[c] = NoValue
      /\ dsk[c] # NoValue => dsk[c] \in ReconKeys[peer[c]]
      /\ \/ c2s[c] = NoMsg
         \/ /\ c2s[c] = Hello(nvs[peer[c]].id_a, ChallengeA(c))
            /\ shello[c] = NoValue
         \/ /\ c2s[c] = Response(EphA(c), Sign(dsk[c], dtr[c]))
            /\ dtr[c] # NoValue /\ ~auth[c]
         \/ /\ c2s[c] = Data(dkey[c], peer[c])
            /\ dkey[c] # NoValue

\* A client signs with its own key, and sends no data frame.
ClientInv(c) ==
    peer[c] = Client =>
      /\ c2s[c] # NoMsg /\ c2s[c].type = "response" =>
           c2s[c].sig.signer = ClientKey
      /\ dsk[c] = NoValue

\* What the session has taken from hello and from the registry.
HelloInv(c) ==
    /\ spc[c] \in {"none", "backlog", "wait_hello"} => shello[c] = NoValue
    /\ spc[c] = "wait_response" => shello[c] # NoValue
    /\ shello[c] # NoValue => sentry[c] # NoEntry
    /\ shello[c] # NoValue /\ peer[c] \in Devices =>
         shello[c] = [id_a |-> nvs[peer[c]].id_a, ca |-> ChallengeA(c)]

\* The frame the server has in flight towards a node.
ToDeviceInv(c) ==
    peer[c] \in Devices =>
      \/ s2c[c] = NoMsg
      \/ s2c[c] = Error
      \/ s2c[c] = Ack /\ auth[c]
      \/ /\ shello[c] # NoValue
         /\ s2c[c] = Challenge(IdB, ChallengeB(c), EphB(c),
                        ServerProof(sentry[c].shs_b, shello[c].ca, EphB(c)))

\* What a node that has signed knows about the session.
SignedInv(c) ==
    dtr[c] # NoValue =>
      /\ peer[c] \in Devices
      /\ dsk[c] # NoValue
      /\ shello[c] # NoValue
      /\ dtr[c] = ServerTranscript(c, EphA(c))
      /\ sentry[c].shs_b = nvs[peer[c]].shs_b
      /\ nvs[peer[c]].id_b = IdB

\* What a session that has authenticated its peer knows about it.
AuthInv(c) ==
    /\ spc[c] = "data" => auth[c]
    /\ skey[c] # NoValue => auth[c]
    /\ auth[c] =>
         /\ dtr[c] # NoValue
         /\ sentry[c].pk = dsk[c]
         /\ skey[c] = SessionKey(c)

\* What follows for the node that received the ack, and for the payload.
KeyInv(c) ==
    /\ dkey[c] # NoValue => auth[c] /\ dkey[c] = skey[c]
    /\ got[c] \subseteq {peer[c]}
    /\ got[c] # {} => dkey[c] # NoValue

ConnInv(c) ==
    /\ UnusedInv(c)
    /\ ToServerInv(c)
    /\ ClientInv(c)
    /\ HelloInv(c)
    /\ ToDeviceInv(c)
    /\ SignedInv(c)
    /\ AuthInv(c)
    /\ KeyInv(c)

ProtocolInv ==
    /\ \A c \in Conns : ConnInv(c)
    /\ \A d \in Devices : DeviceInv(d)

IInv == TypeOK /\ ProtocolInv

-----------------------------------------------------------------------------
(***************************************************************************)
(* Lemmas about the values the protocol exchanges.                         *)
(***************************************************************************)

\* The random values drawn for a connection are nonces.
LEMMA NonceTypes ==
    \A c \in Conns : /\ ChallengeA(c) \in Nonces /\ EphA(c) \in Nonces
                     /\ ChallengeB(c) \in Nonces /\ EphB(c) \in Nonces
                     /\ ClientRandom(c) \in Nonces
BY DEF Nonces, ChallengeA, EphA, ChallengeB, EphB, ClientRandom

\* Two connections have different challenges.
LEMMA NonceFresh ==
    \A b, c \in Conns : ChallengeA(b) = ChallengeA(c) => b = c
BY DEF ChallengeA

\* The symbolic hashes, keys and signatures have their types.
LEMMA CryptoTypes ==
    /\ \A v \in Verifiers, ca, eb \in Nonces : ServerProof(v, ca, eb) \in ServerProofs
    /\ \A i \in Ids, b \in ServerIds, cb, ca, ea, eb \in Nonces, p \in ServerProofs :
          MsgHash(i, b, cb, ca, ea, eb, p) \in Transcripts
    /\ \A ea, eb, ca, cb \in Nonces, v \in Verifiers : KeyAb(ea, eb, v, ca, cb) \in Keys
    /\ \A k \in Signers, t \in Transcripts :
          Sign(k, t) \in [signer : Signers, hash : Transcripts]
BY DEF ServerProof, ServerProofs, MsgHash, Transcripts, KeyAb, Keys, Sign

\* A node's frames are frames for the server, and a server's for a node.
LEMMA FrameTypes ==
    /\ \A i \in Ids, ca \in Nonces : Hello(i, ca) \in ToServer
    /\ \A ea \in Nonces, sig \in [signer : Signers, hash : Transcripts] :
          Response(ea, sig) \in ToServer
    /\ \A k \in Keys, d \in Devices : Data(k, d) \in ToServer
    /\ Other \in ToServer /\ Garbage \in ToServer
    /\ \A b \in ServerIds, cb, eb \in Nonces, p \in ServerProofs :
          Challenge(b, cb, eb, p) \in ToDevice
    /\ Ack \in ToDevice /\ Error \in ToDevice
BY DEF Hello, Response, Data, Challenge, ToServer, ToDevice

\* What a received frame of a given type holds.
LEMMA FrameFields ==
    /\ \A m \in ToServer : m.type = "hello" => m.id_a \in Ids /\ m.ca \in Nonces
    /\ \A m \in ToServer : m.type = "response" =>
          /\ m.eph_a \in Nonces
          /\ m.sig \in [signer : Signers, hash : Transcripts]
    /\ \A m \in ToServer : m.type = "data" => m.key \in Keys /\ m.from \in Devices
    /\ \A m \in ToDevice : m.type = "challenge" =>
          /\ m.id_b \in ServerIds /\ m.cb \in Nonces /\ m.eph_b \in Nonces
          /\ m.proof \in ServerProofs
BY DEF ToServer, ToDevice, Other, Garbage, Ack, Error

\* Frames of different types differ.
LEMMA FrameKinds ==
    /\ \A i, ca : Hello(i, ca).type = "hello"
    /\ \A ea, sig : Response(ea, sig).type = "response"
    /\ \A k, d : Data(k, d).type = "data"
    /\ \A b, cb, eb, p : Challenge(b, cb, eb, p).type = "challenge"
    /\ Ack.type = "session_ack" /\ Error.type = "error"
    /\ Other.type = "other" /\ Garbage.type = "garbage"
BY DEF Hello, Response, Data, Challenge, Ack, Error, Other, Garbage

-----------------------------------------------------------------------------
(***************************************************************************)
(* Frame lemmas: what a step leaves alone stays true.                      *)
(***************************************************************************)
USE DEF cfgVars, netVars, devVars, srvVars, DevPc, SrvPc, Waiting

\* Nothing the invariant says of connection b changes.
SameConn(b) ==
    /\ peer'[b] = peer[b] /\ spc'[b] = spc[b]
    /\ c2s'[b] = c2s[b] /\ s2c'[b] = s2c[b]
    /\ dsk'[b] = dsk[b] /\ dtr'[b] = dtr[b] /\ dkey'[b] = dkey[b]
    /\ shello'[b] = shello[b] /\ sentry'[b] = sentry[b]
    /\ auth'[b] = auth[b] /\ skey'[b] = skey[b] /\ got'[b] = got[b]

\* A step that leaves connection b alone preserves what is known of it.
LEMMA ConnFrame ==
    ASSUME NEW b \in Conns, ConnInv(b), SameConn(b), nvs' = nvs,
           b > nconn' => b > nconn
    PROVE  ConnInv(b)'
BY DEF SameConn, ConnInv, UnusedInv, ToServerInv, ClientInv, HelloInv,
   ToDeviceInv, SignedInv, AuthInv, KeyInv, ServerTranscript, SessionKey

\* Nor does a step that leaves node e and its connection alone.
LEMMA DeviceFrame ==
    ASSUME NEW e \in Devices, DeviceInv(e),
           dpc'[e] = dpc[e], dconn'[e] = dconn[e],
           dpc[e] \in OnLine =>
             /\ peer'[dconn[e]] = peer[dconn[e]] /\ dsk'[dconn[e]] = dsk[dconn[e]]
             /\ dtr'[dconn[e]] = dtr[dconn[e]] /\ dkey'[dconn[e]] = dkey[dconn[e]]
    PROVE  DeviceInv(e)'
BY DEF DeviceInv, OnLine

\* A step that at most loses the frame in flight, reports an error, accepts or
\* ends a session, or takes a node off line: nothing either end has learnt of
\* the other changes.
OnlyLoses ==
    /\ UNCHANGED <<nvs, nconn, peer, dsk, dtr, dkey, shello, sentry, auth, skey,
                   got>>
    /\ \A b \in Conns :
         /\ c2s'[b] \in {c2s[b], NoMsg}
         /\ \/ s2c'[b] \in {s2c[b], NoMsg}
            \/ s2c'[b] = Error /\ spc[b] # "none"
         /\ \/ spc'[b] = spc[b]
            \/ spc'[b] = "closed" /\ spc[b] # "none"
            \/ spc'[b] = "wait_hello" /\ spc[b] = "backlog"
    /\ \A e \in Devices : \/ dpc'[e] = dpc[e] /\ dconn'[e] = dconn[e]
                          \/ dpc'[e] \notin OnLine

\* Such a step preserves the protocol's invariant.
LEMMA LossFrame ==
    ASSUME IInv, OnlyLoses
    PROVE  ProtocolInv'
<1>1. ASSUME NEW b \in Conns PROVE ConnInv(b)'
  <2>1. ConnInv(b)
    BY DEF IInv, ProtocolInv
  <2>2. UnusedInv(b)' /\ ClientInv(b)'
    BY <2>1 DEF OnlyLoses, ConnInv, UnusedInv, ClientInv
  <2>3. ToServerInv(b)'
    BY <2>1 DEF OnlyLoses, ConnInv, ToServerInv
  <2>4. HelloInv(b)'
    BY <2>1 DEF OnlyLoses, ConnInv, HelloInv
  <2>5. ToDeviceInv(b)'
    BY <2>1 DEF OnlyLoses, ConnInv, ToDeviceInv
  <2>6. SignedInv(b)'
    BY <2>1 DEF OnlyLoses, ConnInv, SignedInv, ServerTranscript
  <2>7. AuthInv(b)' /\ KeyInv(b)'
    BY <2>1 DEF OnlyLoses, ConnInv, AuthInv, KeyInv, SessionKey
  <2> QED
    BY <2>2, <2>3, <2>4, <2>5, <2>6, <2>7 DEF ConnInv
<1>2. ASSUME NEW e \in Devices PROVE DeviceInv(e)'
  BY DEF IInv, ProtocolInv, OnlyLoses, DeviceInv, OnLine
<1> QED BY <1>1, <1>2 DEF ProtocolInv

\* The next connection number is fresh, and within the bound.
LEMMA NextConn ==
    ASSUME TypeOK, nconn < MaxConns
    PROVE  /\ nconn + 1 \in Conns /\ nconn + 1 \in 0 .. MaxConns
           /\ nconn + 1 > nconn
           /\ \A c \in Conns : c > nconn + 1 => c > nconn
           /\ \A c \in Conns : ~(c > nconn /\ nconn > c)
BY ConstantsAssumption DEF TypeOK, Conns

-----------------------------------------------------------------------------
(***************************************************************************)
(* One lemma per action: it preserves IInv.                                *)
(***************************************************************************)

\* connect_to_server: the new connection starts with no history.
LEMMA ConnectStep ==
    ASSUME IInv, NEW d \in Devices, Connect(d)
    PROVE  IInv'
<1> DEFINE c == nconn + 1
<1>0. /\ c \in Conns /\ c \in 0 .. MaxConns /\ c > nconn
      /\ \A b \in Conns : b > c => b > nconn
      /\ ~(c > c)
  BY NextConn, ConstantsAssumption DEF IInv, Connect, TypeOK, Conns
<1>1. TypeOK'
  BY <1>0 DEF IInv, TypeOK, Connect
<1>a. /\ peer[c] = NoPeer /\ ConnInv(c)
      /\ d # Client /\ d # NoPeer
  BY <1>0, ConstantsAssumption DEF IInv, ProtocolInv, ConnInv, UnusedInv
<1>b. /\ nvs' = nvs /\ nconn' = c
      /\ peer' = [peer EXCEPT ![c] = d] /\ spc' = [spc EXCEPT ![c] = "backlog"]
      /\ dpc' = [dpc EXCEPT ![d] = "connected"]
      /\ dconn' = [dconn EXCEPT ![d] = c]
      /\ UNCHANGED <<c2s, s2c, dsk, dtr, dkey, shello, sentry, auth, skey, got>>
  BY DEF Connect
<1> HIDE DEF c
<1>2. ASSUME NEW b \in Conns PROVE ConnInv(b)'
  <2>1. CASE b = c
    BY <2>1, <1>0, <1>a, <1>b DEF IInv, TypeOK, ConnInv, UnusedInv,
       ToServerInv, ClientInv, HelloInv, ToDeviceInv, SignedInv, AuthInv,
       KeyInv, ServerTranscript, SessionKey
  <2>2. CASE b # c
    <3>1. nvs' = nvs /\ (b > nconn' => b > nconn) /\ ConnInv(b)
      BY <1>0, <1>b DEF IInv, ProtocolInv
    <3>2. SameConn(b)
      BY <2>2, <1>0, <1>b DEF IInv, TypeOK, SameConn
    <3> QED BY <3>1, <3>2, ConnFrame
  <2> QED BY <2>1, <2>2
<1>3. ASSUME NEW e \in Devices PROVE DeviceInv(e)'
  <2>1. CASE e = d
    BY <2>1, <1>0, <1>a, <1>b DEF IInv, TypeOK, DeviceInv, ConnInv,
       UnusedInv, OnLine
  <2>2. CASE e # d
    <3>1. dpc[e] \in OnLine => dconn[e] # c
      BY <2>2, <1>a, ConstantsAssumption DEF IInv, ProtocolInv, DeviceInv
    <3> QED BY <2>2, <3>1, <1>b, DeviceFrame DEF IInv, TypeOK, ProtocolInv
  <2> QED BY <2>1, <2>2
<1> QED BY <1>1, <1>2, <1>3 DEF IInv, ProtocolInv

\* A client connects.
LEMMA ClientConnectStep ==
    ASSUME IInv, ClientConnect
    PROVE  IInv'
<1> DEFINE c == nconn + 1
<1>0. /\ c \in Conns /\ c \in 0 .. MaxConns /\ c > nconn
      /\ \A b \in Conns : b > c => b > nconn
      /\ ~(c > c)
  BY NextConn, ConstantsAssumption DEF IInv, ClientConnect, TypeOK, Conns
<1>1. TypeOK'
  BY <1>0 DEF IInv, TypeOK, ClientConnect
<1>a. peer[c] = NoPeer /\ ConnInv(c) /\ Client \notin Devices /\ Client # NoPeer
      /\ NoPeer \notin Devices
  BY <1>0, ConstantsAssumption DEF IInv, ProtocolInv, ConnInv, UnusedInv
<1>b. /\ nvs' = nvs /\ nconn' = c
      /\ peer' = [peer EXCEPT ![c] = Client]
      /\ spc' = [spc EXCEPT ![c] = "backlog"]
      /\ UNCHANGED <<c2s, s2c, dpc, dconn, dsk, dtr, dkey, shello, sentry,
                     auth, skey, got>>
  BY DEF ClientConnect
<1> HIDE DEF c
<1>2. ASSUME NEW b \in Conns PROVE ConnInv(b)'
  <2>1. CASE b = c
    BY <2>1, <1>0, <1>a, <1>b DEF IInv, TypeOK, ConnInv, UnusedInv,
       ToServerInv, ClientInv, HelloInv, ToDeviceInv, SignedInv, AuthInv,
       KeyInv, ServerTranscript, SessionKey
  <2>2. CASE b # c
    <3>1. nvs' = nvs /\ (b > nconn' => b > nconn) /\ ConnInv(b)
      BY <1>0, <1>b DEF IInv, ProtocolInv
    <3>2. SameConn(b)
      BY <2>2, <1>0, <1>b DEF IInv, TypeOK, SameConn
    <3> QED BY <3>1, <3>2, ConnFrame
  <2> QED BY <2>1, <2>2
<1>3. ASSUME NEW e \in Devices PROVE DeviceInv(e)'
  <2>1. dpc[e] \in OnLine => dconn[e] # c
    BY <1>a DEF IInv, ProtocolInv, DeviceInv
  <2> QED BY <2>1, <1>b, DeviceFrame DEF IInv, TypeOK, ProtocolInv
<1> QED BY <1>1, <1>2, <1>3 DEF IInv, ProtocolInv

\* The data loop: what it decrypts on c is what c's node sent under the
\* key of c.
LEMMA ReceiveDataStep ==
    ASSUME IInv, NEW c \in Conns, ReceiveData(c)
    PROVE  IInv'
<1>a. /\ auth[c] /\ dtr[c] # NoValue /\ peer[c] \in Devices
      /\ shello[c] # NoValue /\ ConnInv(c)
  BY DEF IInv, ReceiveData, Decrypts, ProtocolInv, ConnInv, AuthInv, SignedInv
<1>b. c2s[c] = Data(dkey[c], peer[c]) /\ dkey[c] # NoValue /\ dkey[c] = skey[c]
  BY <1>a, FrameKinds DEF IInv, TypeOK, ReceiveData, Decrypts, ConnInv, ToServerInv,
     KeyInv
<1>c. /\ c2s' = [c2s EXCEPT ![c] = NoMsg]
      /\ got' = [got EXCEPT ![c] = @ \cup {peer[c]}]
      /\ UNCHANGED <<s2c, nvs, nconn, peer, spc, dsk, dtr, dkey, shello, sentry,
                     auth, skey>>
  <2>1. c2s[c].type = "data" /\ c2s[c].key = skey[c] /\ c2s[c].from = peer[c]
    BY <1>b DEF Data
  <2> QED BY <2>1 DEF ReceiveData, Decrypts, IInv, TypeOK
<1>1. TypeOK'
  BY <1>a, <1>c DEF IInv, TypeOK, ReceiveData, Decrypts
<1>2. ASSUME NEW b \in Conns PROVE ConnInv(b)'
  <2>1. CASE b = c
    <3>1. c2s'[c] = NoMsg /\ got'[c] \subseteq {peer[c]}
      BY <1>a, <1>c DEF IInv, TypeOK, ConnInv, KeyInv
    <3> QED BY <2>1, <3>1, <1>a, <1>b, <1>c DEF ConnInv, UnusedInv,
       ToServerInv, ClientInv, HelloInv, ToDeviceInv, SignedInv, AuthInv,
       KeyInv, ServerTranscript, SessionKey
  <2>2. CASE b # c
    <3>1. nvs' = nvs /\ (b > nconn' => b > nconn) /\ ConnInv(b)
      BY <1>c DEF IInv, ProtocolInv, ReceiveData, Decrypts
    <3>2. SameConn(b)
      BY <2>2, <1>c DEF IInv, TypeOK, SameConn, ReceiveData, Decrypts
    <3> QED BY <3>1, <3>2, ConnFrame
  <2> QED BY <2>1, <2>2
<1>3. ASSUME NEW e \in Devices PROVE DeviceInv(e)'
  BY DeviceFrame DEF ReceiveData, Decrypts, IInv, ProtocolInv
<1> QED BY <1>1, <1>2, <1>3 DEF IInv, ProtocolInv


\* Message 1: the node sends hello under its fresh challenge_a.
LEMMA StartHandshakeStep ==
    ASSUME IInv, NEW d \in Devices, NEW k \in ReconKeys[d], StartHandshake(d, k)
    PROVE  IInv'
<1> DEFINE c == dconn[d]
           hello == Hello(nvs[d].id_a, ChallengeA(c))
<1>a. c \in Conns /\ peer[c] = d /\ dsk[c] = NoValue /\ ConnInv(c)
  BY DEF IInv, ProtocolInv, DeviceInv, OnLine, StartHandshake
<1>b. /\ c2s[c] = NoMsg /\ shello[c] = NoValue /\ dtr[c] = NoValue
      /\ ~auth[c] /\ dkey[c] = NoValue
  BY <1>a DEF ConnInv, ToServerInv, SignedInv, AuthInv, KeyInv
<1>c. /\ dsk' = [dsk EXCEPT ![c] = k]
      /\ dpc' = [dpc EXCEPT ![d] = "wait_challenge"]
      /\ c2s' = [c2s EXCEPT ![c] = c2s'[c]]
      /\ c2s'[c] \in {hello, NoMsg}
      /\ UNCHANGED <<s2c, nvs, nconn, peer, spc, dconn, dtr, dkey, shello, sentry,
                     auth, skey, got>>
  BY <1>a DEF StartHandshake, SendToServer, IInv, TypeOK
<1>v. k \in PubKeys /\ k # NoValue
  BY ReconAssumption, NoValueAssumption DEF Signers
<1>t. hello \in ToServer
  BY <1>a, FrameTypes, NonceTypes DEF IInv, TypeOK, NvsRefs
<1>1. TypeOK'
  BY <1>a, <1>c, <1>v, <1>t DEF IInv, TypeOK, StartHandshake
<1>w. /\ dpc'[d] = "wait_challenge" /\ dconn'[d] = c
      /\ dsk'[c] # NoValue /\ dtr'[c] = NoValue
  BY <1>a, <1>b, <1>c, <1>v DEF IInv, TypeOK
<1> HIDE DEF hello, c
<1>2. ASSUME NEW b \in Conns PROVE ConnInv(b)'
  <2>1. CASE b = c
    <3>1. /\ dsk'[c] = k
          /\ c2s'[c] = NoMsg \/ c2s'[c] = Hello(nvs[d].id_a, ChallengeA(c))
      BY <1>a, <1>c DEF IInv, TypeOK, hello
    <3> QED BY <2>1, <3>1, <1>a, <1>b, <1>c, <1>v, ConstantsAssumption DEF
       ConnInv, UnusedInv, ToServerInv, ClientInv, HelloInv, ToDeviceInv,
       SignedInv, AuthInv, KeyInv, ServerTranscript, SessionKey
  <2>2. CASE b # c
    <3>1. nvs' = nvs /\ (b > nconn' => b > nconn) /\ ConnInv(b)
      BY <1>a, <1>c DEF IInv, ProtocolInv
    <3>2. SameConn(b)
      BY <2>2, <1>a, <1>c DEF IInv, TypeOK, SameConn
    <3> QED BY <3>1, <3>2, ConnFrame
  <2> QED BY <2>1, <2>2
<1>3. ASSUME NEW e \in Devices PROVE DeviceInv(e)'
  <2>1. CASE e = d
    BY <2>1, <1>a, <1>c, <1>w DEF DeviceInv, OnLine
  <2>2. CASE e # d
    <3>1. dpc[e] \in OnLine => dconn[e] # c
      BY <2>2, <1>a DEF IInv, ProtocolInv, DeviceInv
    <3> QED BY <2>2, <3>1, <1>c, DeviceFrame DEF IInv, TypeOK, ProtocolInv
  <2> QED BY <2>1, <2>2
<1> QED BY <1>1, <1>2, <1>3 DEF IInv, ProtocolInv

\* Message 2: the session records hello and the registry entry, and its
\* challenge is made of exactly these.
LEMMA SendChallengeStep ==
    ASSUME IInv, NEW c \in Conns, SendChallenge(c)
    PROVE  IInv'
<1> DEFINE m == c2s[c]
           e == registry[m.id_a]
           reply == Challenge(IdB, ChallengeB(c), EphB(c),
                              ServerProof(e.shs_b, m.ca, EphB(c)))
<1>a. /\ ConnInv(c) /\ spc[c] = "wait_hello" /\ m # NoMsg /\ m.type = "hello"
      /\ e # NoEntry
  BY DEF IInv, ProtocolInv, SendChallenge, HelloAccepted
<1>b. /\ shello[c] = NoValue /\ dtr[c] = NoValue /\ ~auth[c]
      /\ dkey[c] = NoValue /\ skey[c] = NoValue /\ got[c] = {}
      /\ peer[c] # NoPeer
  BY <1>a DEF ConnInv, UnusedInv, HelloInv, SignedInv, AuthInv, KeyInv
<1>t. /\ m.id_a \in Ids /\ m.ca \in Nonces /\ e \in Entries
      /\ reply \in ToDevice
  <2>1. m.id_a \in Ids /\ m.ca \in Nonces
    BY <1>a, FrameFields DEF IInv, TypeOK
  <2>2. e \in Entries
    BY <1>a, <2>1 DEF IInv, TypeOK
  <2>3. ServerProof(e.shs_b, m.ca, EphB(c)) \in ServerProofs
    BY <2>1, <2>2, NonceTypes, CryptoTypes DEF Entries
  <2> QED BY <2>1, <2>2, <2>3, NonceTypes, FrameTypes, ConstantsAssumption
<1>n. [id_a |-> m.id_a, ca |-> m.ca] # NoValue
  BY <1>t, NoValueAssumption
<1>c. /\ c2s' = [c2s EXCEPT ![c] = NoMsg]
      /\ shello' = [shello EXCEPT ![c] = [id_a |-> m.id_a, ca |-> m.ca]]
      /\ sentry' = [sentry EXCEPT ![c] = e]
      /\ s2c' = [s2c EXCEPT ![c] = s2c'[c]] /\ s2c'[c] \in {reply, NoMsg}
      /\ spc' = [spc EXCEPT ![c] = spc'[c]]
      /\ spc'[c] \in {"closed", "wait_response"}
      /\ result' \in [Conns -> {"running", "true", "false", "raised"}]
      /\ UNCHANGED <<nvs, nconn, peer, dpc, dconn, dsk, dtr, dkey,
                     auth, skey, got>>
  BY DEF SendChallenge, Delivered, EndSession, IInv, TypeOK
<1>1. TypeOK'
  <2>1. UNCHANGED <<nvs, regFile, registry, ops, srvUp, nconn, peer, link, dpc,
                    dconn, dend, dsk, dtr, dkey, auth, skey, got>>
    BY DEF SendChallenge
  <2>2. /\ c2s' \in [Conns -> ToServer \cup {NoMsg}]
        /\ spc' \in [Conns -> SrvPc]
    BY <1>c DEF IInv, TypeOK
  <2>5. s2c' \in [Conns -> ToDevice \cup {NoMsg}]
    <3> HIDE DEF reply, m, e
    <3> QED BY <1>c, <1>t DEF IInv, TypeOK
  <2>3. shello' \in [Conns -> [id_a : Ids, ca : Nonces] \cup {NoValue}]
    BY <1>c, <1>t DEF IInv, TypeOK
  <2>4. sentry' \in [Conns -> Entries \cup {NoEntry}]
    BY <1>c, <1>t DEF IInv, TypeOK
  <2> QED
    BY <1>c, <2>1, <2>2, <2>3, <2>4, <2>5 DEF IInv, TypeOK
<1>d. peer[c] \in Devices =>
         m.id_a = nvs[peer[c]].id_a /\ m.ca = ChallengeA(c) /\ dsk[c] # NoValue
  BY <1>a, FrameKinds DEF ConnInv, ToServerInv, Hello
<1>2. ASSUME NEW b \in Conns PROVE ConnInv(b)'
  <2>1. CASE b = c
    <3>1. /\ shello'[c] = [id_a |-> m.id_a, ca |-> m.ca] /\ sentry'[c] = e
          /\ c2s'[c] = NoMsg
          /\ s2c'[c] = NoMsg \/ s2c'[c] = Challenge(IdB, ChallengeB(c), EphB(c),
                        ServerProof(sentry'[c].shs_b, shello'[c].ca, EphB(c)))
      BY <1>c DEF IInv, TypeOK
    <3> HIDE DEF m, e, reply
    <3> QED BY <2>1, <3>1, <1>a, <1>b, <1>c, <1>d, <1>n, ConstantsAssumption
       DEF ConnInv, UnusedInv, ToServerInv, ClientInv, HelloInv, ToDeviceInv,
       SignedInv, AuthInv, KeyInv, ServerTranscript, SessionKey
  <2>2. CASE b # c
    <3>1. nvs' = nvs /\ (b > nconn' => b > nconn) /\ ConnInv(b)
      BY <1>c DEF IInv, ProtocolInv
    <3>2. SameConn(b)
      BY <2>2, <1>c DEF IInv, TypeOK, SameConn
    <3> QED BY <3>1, <3>2, ConnFrame
  <2> QED BY <2>1, <2>2
<1>3. ASSUME NEW f \in Devices PROVE DeviceInv(f)'
  BY <1>c, DeviceFrame DEF IInv, ProtocolInv
<1> QED BY <1>1, <1>2, <1>3 DEF IInv, ProtocolInv

\* Message 3: a challenge that passes the node's checks comes from a session
\* holding the same V_B, and the node signs the transcript of that session.
LEMMA AnswerChallengeStep ==
    ASSUME IInv, NEW d \in Devices, AnswerChallenge(d)
    PROVE  IInv'
<1> DEFINE c == dconn[d]
           m == s2c[c]
           tr == SignedTranscript(d, m)
           reply == Response(EphA(c), Sign(dsk[c], tr))
<1>a. /\ c \in Conns /\ peer[c] = d /\ dsk[c] # NoValue /\ dtr[c] = NoValue
      /\ ConnInv(c) /\ m # NoMsg /\ ServerAccepted(d, m)
  BY DEF IInv, ProtocolInv, DeviceInv, OnLine, AnswerChallenge
<1>b. /\ ~auth[c] /\ dkey[c] = NoValue
  BY <1>a DEF ConnInv, AuthInv, KeyInv
<1>d. /\ shello[c] # NoValue
      /\ shello[c] = [id_a |-> nvs[d].id_a, ca |-> ChallengeA(c)]
      /\ m = Challenge(IdB, ChallengeB(c), EphB(c),
                       ServerProof(sentry[c].shs_b, shello[c].ca, EphB(c)))
  BY <1>a, FrameKinds DEF ConnInv, ToDeviceInv, HelloInv, ServerAccepted
<1>e. /\ m.id_b = IdB /\ m.cb = ChallengeB(c) /\ m.eph_b = EphB(c)
      /\ m.proof = ServerProof(sentry[c].shs_b, ChallengeA(c), EphB(c))
      /\ shello[c].id_a = nvs[d].id_a /\ shello[c].ca = ChallengeA(c)
  BY <1>d DEF Challenge
<1>f. nvs[d].id_b = IdB /\ sentry[c].shs_b = nvs[d].shs_b
  BY <1>a, <1>e DEF ServerAccepted, ServerProof
<1>g. tr = ServerTranscript(c, EphA(c))
  BY <1>e DEF SignedTranscript, ServerTranscript
<1>t. tr \in Transcripts /\ tr # NoValue /\ reply \in ToServer
  <2>1. m.id_b \in ServerIds /\ m.cb \in Nonces /\ m.eph_b \in Nonces
        /\ m.proof \in ServerProofs
    BY <1>a, FrameFields DEF IInv, TypeOK, ServerAccepted
  <2>2. tr \in Transcripts
    BY <2>1, <1>a, NonceTypes, CryptoTypes DEF SignedTranscript, IInv,
       TypeOK, NvsRefs
  <2>3. dsk[c] \in Signers
    BY <1>a DEF IInv, TypeOK, Signers
  <2> QED BY <1>a, <2>2, <2>3, NonceTypes, CryptoTypes, FrameTypes,
     NoValueAssumption
<1>c. /\ s2c' = [s2c EXCEPT ![c] = NoMsg]
      /\ dtr' = [dtr EXCEPT ![c] = tr]
      /\ dpc' = [dpc EXCEPT ![d] = "wait_ack"]
      /\ c2s' = [c2s EXCEPT ![c] = c2s'[c]] /\ c2s'[c] \in {reply, NoMsg}
      /\ UNCHANGED <<nvs, nconn, peer, spc, dconn, dsk, dkey, shello, sentry,
                     auth, skey, got>>
  BY <1>a DEF AnswerChallenge, SendToServer, IInv, TypeOK
<1>1. TypeOK'
  <2>1. UNCHANGED <<nvs, regFile, registry, ops, srvUp, nconn, peer, link, dconn,
                    dend, dsk, dkey, spc, shello, sentry, auth, skey, result, got>>
    BY DEF AnswerChallenge, cfgVars, netVars, srvVars
  <2>2. /\ s2c' \in [Conns -> ToDevice \cup {NoMsg}]
        /\ dtr' \in [Conns -> Transcripts \cup {NoValue}]
        /\ dpc' \in [Devices -> DevPc]
        /\ c2s' \in [Conns -> ToServer \cup {NoMsg}]
    BY <1>a, <1>c, <1>t DEF IInv, TypeOK, DevPc
  <2> QED
    BY <2>1, <2>2 DEF IInv, TypeOK
<1>h. /\ dtr'[c] = tr /\ dtr'[c] # NoValue /\ s2c'[c] = NoMsg
      /\ c2s'[c] = NoMsg \/ c2s'[c] = Response(EphA(c), Sign(dsk'[c], dtr'[c]))
  BY <1>a, <1>c, <1>t DEF IInv, TypeOK
<1>v. dtr'[c] # NoValue
  BY <1>h
<1>w. /\ dpc'[d] = "wait_ack" /\ dconn'[d] = c
      /\ dsk'[c] # NoValue /\ dtr'[c] # NoValue /\ dkey'[c] = NoValue
  BY <1>a, <1>b, <1>c, <1>h DEF IInv, TypeOK
<1> HIDE DEF c, m, tr, reply
<1>2. ASSUME NEW b \in Conns PROVE ConnInv(b)'
  <2>1. CASE b = c
    BY <2>1, <1>a, <1>b, <1>c, <1>d, <1>f, <1>g, <1>h, ConstantsAssumption
       DEF ConnInv, UnusedInv, ToServerInv, ClientInv, HelloInv, ToDeviceInv,
       SignedInv, AuthInv, KeyInv, ServerTranscript, SessionKey
  <2>2. CASE b # c
    <3>1. nvs' = nvs /\ (b > nconn' => b > nconn) /\ ConnInv(b)
      BY <1>a, <1>c DEF IInv, ProtocolInv
    <3>2. SameConn(b)
      BY <2>2, <1>a, <1>c DEF IInv, TypeOK, SameConn
    <3> QED BY <3>1, <3>2, ConnFrame
  <2> QED BY <2>1, <2>2
<1>3. ASSUME NEW e \in Devices PROVE DeviceInv(e)'
  <2>1. CASE e = d
    BY <2>1, <1>a, <1>c, <1>w DEF DeviceInv, OnLine
  <2>2. CASE e # d
    <3>1. dpc[e] \in OnLine => dconn[e] # c
      BY <2>2, <1>a DEF IInv, ProtocolInv, DeviceInv
    <3> QED BY <2>2, <3>1, <1>c, DeviceFrame DEF IInv, TypeOK, ProtocolInv
  <2> QED BY <2>1, <2>2
<1> QED BY <1>1, <1>2, <1>3 DEF IInv, ProtocolInv

\* A response that verifies was made by the node of this connection, over the
\* transcript of this connection, and was not there before.
LEMMA ResponseMeans ==
    ASSUME IInv, NEW c \in Conns, SendAck(c)
    PROVE  /\ ConnInv(c) /\ spc[c] = "wait_response" /\ c2s[c] # NoMsg
           /\ peer[c] \in Devices /\ peer[c] # NoPeer
           /\ shello[c] # NoValue /\ shello[c].ca = ChallengeA(c)
           /\ sentry[c] # NoEntry /\ sentry[c] \in Entries
           /\ c2s[c] = Response(EphA(c), Sign(dsk[c], dtr[c])) /\ dtr[c] # NoValue
           /\ c2s[c].eph_a = EphA(c) /\ sentry[c].pk = dsk[c] /\ ~auth[c]
<1> DEFINE m == c2s[c]
<1>a. /\ ConnInv(c) /\ spc[c] = "wait_response" /\ m # NoMsg
      /\ m.type = "response"
      /\ m.sig = Sign(sentry[c].pk, ServerTranscript(c, m.eph_a))
      /\ shello[c] # NoValue /\ sentry[c] # NoEntry /\ sentry[c] \in Entries
      /\ peer[c] # NoPeer
  BY DEF IInv, TypeOK, ProtocolInv, SendAck, ResponseAccepted, Verifies,
     ConnInv, HelloInv, UnusedInv
<1>b. peer[c] \in Devices
  <2>1. m.sig.signer \in PubKeys
    BY <1>a DEF Sign, Entries
  <2>2. peer[c] # Client
    BY <2>1, <1>a, ConstantsAssumption DEF ConnInv, ClientInv
  <2> QED BY <2>2, <1>a DEF IInv, TypeOK
<1>d. /\ m = Response(EphA(c), Sign(dsk[c], dtr[c])) /\ dtr[c] # NoValue
      /\ ~auth[c]
  BY <1>a, <1>b, FrameKinds DEF ConnInv, ToServerInv
<1>e. m.eph_a = EphA(c) /\ sentry[c].pk = dsk[c]
  BY <1>a, <1>d DEF Response, Sign
<1>f. shello[c].ca = ChallengeA(c)
  BY <1>a, <1>b DEF ConnInv, HelloInv
<1> QED BY <1>a, <1>b, <1>d, <1>e, <1>f

\* A response that verifies was signed by the node that opened the
\* connection, since only it derives the registered key.
LEMMA SendAckStep ==
    ASSUME IInv, NEW c \in Conns, SendAck(c)
    PROVE  IInv'
<1> DEFINE m == c2s[c]
<1>a. /\ ConnInv(c) /\ spc[c] = "wait_response" /\ m # NoMsg
      /\ shello[c] # NoValue /\ sentry[c] # NoEntry /\ sentry[c] \in Entries
      /\ peer[c] # NoPeer
  BY ResponseMeans
<1>b. peer[c] \in Devices
  BY ResponseMeans
<1>d. /\ m = Response(EphA(c), Sign(dsk[c], dtr[c])) /\ dtr[c] # NoValue
      /\ ~auth[c]
  BY ResponseMeans
<1>e. m.eph_a = EphA(c) /\ sentry[c].pk = dsk[c]
  BY ResponseMeans
<1>f. shello[c].ca = ChallengeA(c)
  BY ResponseMeans
<1>t. SessionKey(c) \in Keys /\ SessionKey(c) # NoValue
  BY <1>a, NonceTypes, CryptoTypes, NoValueAssumption DEF SessionKey, Entries
<1>c. /\ c2s' = [c2s EXCEPT ![c] = NoMsg]
      /\ skey' = [skey EXCEPT ![c] = SessionKey(c)]
      /\ auth' = [auth EXCEPT ![c] = TRUE]
      /\ s2c' = [s2c EXCEPT ![c] = s2c'[c]] /\ s2c'[c] \in {Ack, NoMsg}
      /\ spc' = [spc EXCEPT ![c] = spc'[c]] /\ spc'[c] \in {"closed", "data"}
      /\ result' \in [Conns -> {"running", "true", "false", "raised"}]
      /\ UNCHANGED <<nvs, nconn, peer, dpc, dconn, dsk, dtr, dkey, shello,
                     sentry, got>>
  BY <1>e, <1>f DEF SendAck, Delivered, EndSession, SessionKey, IInv, TypeOK
<1>1. TypeOK'
  BY <1>c, <1>t, FrameTypes DEF IInv, TypeOK, SendAck
<1>g. /\ c2s'[c] = NoMsg /\ auth'[c] = TRUE /\ skey'[c] = SessionKey(c)
      /\ s2c'[c] = NoMsg \/ s2c'[c] = Ack
      /\ dkey[c] = NoValue
  <2>1. dkey[c] = NoValue
    BY <1>a, <1>d DEF ConnInv, KeyInv
  <2> QED BY <2>1, <1>c DEF IInv, TypeOK
<1> HIDE DEF m
<1>2. ASSUME NEW b \in Conns PROVE ConnInv(b)'
  <2>1. CASE b = c
    <3>1. UnusedInv(c)'
      BY <1>a, <1>c DEF ConnInv, UnusedInv
    <3>2. ToServerInv(c)' /\ ClientInv(c)'
      BY <1>a, <1>b, <1>c, <1>g DEF ConnInv, ToServerInv, ClientInv
    <3>3. HelloInv(c)'
      BY <1>a, <1>c DEF ConnInv, HelloInv
    <3>4. ToDeviceInv(c)'
      BY <1>g DEF ToDeviceInv
    <3>5. SignedInv(c)'
      BY <1>a, <1>c DEF ConnInv, SignedInv, ServerTranscript
    <3>6. AuthInv(c)'
      BY <1>c, <1>d, <1>e, <1>g DEF AuthInv, SessionKey
    <3>7. KeyInv(c)'
      BY <1>a, <1>c, <1>g DEF ConnInv, KeyInv
    <3> QED
      BY <2>1, <3>1, <3>2, <3>3, <3>4, <3>5, <3>6, <3>7 DEF ConnInv
  <2>2. CASE b # c
    <3>1. nvs' = nvs /\ (b > nconn' => b > nconn) /\ ConnInv(b)
      BY <1>c DEF IInv, ProtocolInv
    <3>2. SameConn(b)
      BY <2>2, <1>c DEF IInv, TypeOK, SameConn
    <3> QED BY <3>1, <3>2, ConnFrame
  <2> QED BY <2>1, <2>2
<1>3. ASSUME NEW f \in Devices PROVE DeviceInv(f)'
  BY <1>c, DeviceFrame DEF IInv, ProtocolInv
<1> QED BY <1>1, <1>2, <1>3 DEF IInv, ProtocolInv

\* Message 4: an ack is only in flight once the session has its key, and
\* the node computes the same one.
LEMMA ReceiveAckStep ==
    ASSUME IInv, NEW d \in Devices, ReceiveAck(d)
    PROVE  IInv'
<1> DEFINE c == dconn[d]
<1>a. /\ c \in Conns /\ peer[c] = d /\ dtr[c] # NoValue /\ dkey[c] = NoValue
      /\ ConnInv(c) /\ s2c[c] # NoMsg /\ s2c[c].type = "session_ack"
  BY DEF IInv, ProtocolInv, DeviceInv, OnLine, ReceiveAck, AckAccepted
<1>b. auth[c] /\ skey[c] = SessionKey(c)
  BY <1>a, FrameKinds DEF ConnInv, ToDeviceInv, AuthInv
<1>d. /\ dtr[c].eph_b = EphB(c) /\ dtr[c].cb = ChallengeB(c)
      /\ sentry[c].shs_b = nvs[d].shs_b
  BY <1>a DEF ConnInv, SignedInv, ServerTranscript, MsgHash
<1>t. SessionKey(c) \in Keys /\ SessionKey(c) # NoValue
  <2>1. nvs[d].shs_b \in Verifiers
    BY DEF IInv, TypeOK, NvsRefs
  <2> QED
    BY <1>a, <1>d, <2>1, NonceTypes, CryptoTypes, NoValueAssumption DEF
       SessionKey
<1>c. /\ s2c' = [s2c EXCEPT ![c] = NoMsg]
      /\ dkey' = [dkey EXCEPT ![c] = SessionKey(c)]
      /\ dpc' = [dpc EXCEPT ![d] = "established"]
      /\ UNCHANGED <<c2s, nvs, nconn, peer, spc, dconn, dsk, dtr, shello, sentry,
                     auth, skey, got>>
  BY <1>d DEF ReceiveAck, SessionKey
<1>1. TypeOK'
  BY <1>a, <1>c, <1>t DEF IInv, TypeOK, ReceiveAck
<1>g. s2c'[c] = NoMsg /\ dkey'[c] = skey[c] /\ dkey'[c] # NoValue
  BY <1>a, <1>b, <1>c, <1>t DEF IInv, TypeOK
<1>v. dsk[c] # NoValue
  BY <1>a DEF ConnInv, SignedInv
<1>w. /\ dpc'[d] = "established" /\ dconn'[d] = c
      /\ dsk'[c] # NoValue /\ dtr'[c] # NoValue /\ dkey'[c] # NoValue
  BY <1>a, <1>c, <1>g, <1>v DEF IInv, TypeOK
<1> HIDE DEF c
<1>2. ASSUME NEW b \in Conns PROVE ConnInv(b)'
  <2>1. CASE b = c
    BY <2>1, <1>a, <1>b, <1>c, <1>g, ConstantsAssumption DEF ConnInv,
       UnusedInv, ToServerInv, ClientInv, HelloInv, ToDeviceInv, SignedInv,
       AuthInv, KeyInv, ServerTranscript, SessionKey
  <2>2. CASE b # c
    <3>1. nvs' = nvs /\ (b > nconn' => b > nconn) /\ ConnInv(b)
      BY <1>a, <1>c DEF IInv, ProtocolInv
    <3>2. SameConn(b)
      BY <2>2, <1>a, <1>c DEF IInv, TypeOK, SameConn
    <3> QED BY <3>1, <3>2, ConnFrame
  <2> QED BY <2>1, <2>2
<1>3. ASSUME NEW e \in Devices PROVE DeviceInv(e)'
  <2>1. CASE e = d
    BY <2>1, <1>a, <1>c, <1>w DEF DeviceInv, OnLine
  <2>2. CASE e # d
    <3>1. dpc[e] \in OnLine => dconn[e] # c
      BY <2>2, <1>a DEF IInv, ProtocolInv, DeviceInv
    <3> QED BY <2>2, <3>1, <1>c, DeviceFrame DEF IInv, TypeOK, ProtocolInv
  <2> QED BY <2>1, <2>2
<1> QED BY <1>1, <1>2, <1>3 DEF IInv, ProtocolInv

\* A client cannot sign with a registered key.
LEMMA ClientSendStep ==
    ASSUME IInv, NEW c \in Conns, NEW m \in ClientFrames(c), ClientSend(c, m)
    PROVE  IInv'
<1>a. peer[c] = Client /\ peer[c] \notin Devices /\ peer[c] # NoPeer /\ ConnInv(c)
  BY ConstantsAssumption DEF IInv, ProtocolInv, ClientSend
<1>t. m \in ToServer /\ (m.type = "response" => m.sig.signer = ClientKey)
  <2>1. CASE m \in {Other, Garbage}
    BY <2>1, FrameTypes, FrameKinds
  <2>2. CASE \E i \in Ids : m = Hello(i, ClientRandom(c))
    BY <2>2, FrameTypes, FrameKinds, NonceTypes
  <2>3. CASE /\ shello[c] # NoValue
             /\ m = Response(ClientRandom(c),
                        Sign(ClientKey, ServerTranscript(c, ClientRandom(c))))
    <3>1. sentry[c] \in Entries /\ shello[c] \in [id_a : Ids, ca : Nonces]
      BY <2>3, <1>a DEF IInv, TypeOK, ConnInv, HelloInv
    <3>2. ServerProof(sentry[c].shs_b, shello[c].ca, EphB(c)) \in ServerProofs
      BY <3>1, NonceTypes, CryptoTypes DEF Entries
    <3>3. ServerTranscript(c, ClientRandom(c)) \in Transcripts
      BY <3>1, <3>2, NonceTypes, CryptoTypes, ConstantsAssumption DEF
         ServerTranscript
    <3>4. Sign(ClientKey, ServerTranscript(c, ClientRandom(c)))
             \in [signer : Signers, hash : Transcripts]
      BY <3>3, CryptoTypes DEF Signers
    <3>5. m \in ToServer
      BY <2>3, <3>4, NonceTypes, FrameTypes
    <3>6. m.sig.signer = ClientKey
      BY <2>3 DEF Response, Sign
    <3> QED BY <3>5, <3>6
  <2> QED BY <2>1, <2>2, <2>3 DEF ClientFrames
<1>c. /\ s2c' = [s2c EXCEPT ![c] = NoMsg]
      /\ c2s' = [c2s EXCEPT ![c] = c2s'[c]] /\ c2s'[c] \in {m, NoMsg}
      /\ UNCHANGED <<nvs, nconn, peer, spc, dpc, dconn, dsk, dtr, dkey, shello,
                     sentry, auth, skey, got>>
  BY DEF ClientSend, SendToServer, IInv, TypeOK
<1>1. TypeOK'
  BY <1>c, <1>t DEF IInv, TypeOK, ClientSend
<1>2. ASSUME NEW b \in Conns PROVE ConnInv(b)'
  <2>1. CASE b = c
    BY <2>1, <1>a, <1>c, <1>t DEF ConnInv, UnusedInv, ToServerInv, ClientInv,
       HelloInv, ToDeviceInv, SignedInv, AuthInv, KeyInv, ServerTranscript,
       SessionKey
  <2>2. CASE b # c
    <3>1. nvs' = nvs /\ (b > nconn' => b > nconn) /\ ConnInv(b)
      BY <1>c DEF IInv, ProtocolInv
    <3>2. SameConn(b)
      BY <2>2, <1>c DEF IInv, TypeOK, SameConn
    <3> QED BY <3>1, <3>2, ConnFrame
  <2> QED BY <2>1, <2>2
<1>3. ASSUME NEW f \in Devices PROVE DeviceInv(f)'
  BY <1>c, DeviceFrame DEF IInv, ProtocolInv
<1> QED BY <1>1, <1>2, <1>3 DEF IInv, ProtocolInv

\* The node only exports its public key.
LEMMA ExportOnlyStep ==
    ASSUME IInv, NEW d \in Devices, ExportOnly(d)
    PROVE  IInv'
<1>1. TypeOK'
  BY DEF IInv, TypeOK, ExportOnly
<1>2. OnlyLoses
  BY DEF OnlyLoses, OnLine, IInv, TypeOK, ExportOnly
<1>3. ProtocolInv'
  BY <1>2, LossFrame
<1> QED BY <1>1, <1>3 DEF IInv

\* The node does not reach the server.
LEMMA ConnectFailsStep ==
    ASSUME IInv, NEW d \in Devices, ConnectFails(d)
    PROVE  IInv'
<1>1. TypeOK'
  BY DEF IInv, TypeOK, ConnectFails
<1>2. OnlyLoses
  BY DEF OnlyLoses, OnLine, IInv, TypeOK, ConnectFails
<1>3. ProtocolInv'
  BY <1>2, LossFrame
<1> QED BY <1>1, <1>3 DEF IInv

\* The PUF response cannot be reconstructed.
LEMMA ReconstructFailsStep ==
    ASSUME IInv, NEW d \in Devices, ReconstructFails(d)
    PROVE  IInv'
<1>1. TypeOK'
  BY DEF IInv, TypeOK, ReconstructFails, CloseAndIdle
<1>2. OnlyLoses
  BY DEF OnlyLoses, OnLine, IInv, TypeOK, ReconstructFails, CloseAndIdle
<1>3. ProtocolInv'
  BY <1>2, LossFrame
<1> QED BY <1>1, <1>3 DEF IInv

\* The node turns message 2 down.
LEMMA RejectChallengeStep ==
    ASSUME IInv, NEW d \in Devices, RejectChallenge(d)
    PROVE  IInv'
<1>1. TypeOK'
  BY DEF IInv, TypeOK, RejectChallenge, CloseAndIdle
<1>2. OnlyLoses
  BY DEF OnlyLoses, OnLine, IInv, TypeOK, RejectChallenge, CloseAndIdle
<1>3. ProtocolInv'
  BY <1>2, LossFrame
<1> QED BY <1>1, <1>3 DEF IInv

\* The node turns message 4 down.
LEMMA RejectAckStep ==
    ASSUME IInv, NEW d \in Devices, RejectAck(d)
    PROVE  IInv'
<1>1. TypeOK'
  BY DEF IInv, TypeOK, RejectAck, CloseAndIdle
<1>2. OnlyLoses
  BY DEF OnlyLoses, OnLine, IInv, TypeOK, RejectAck, CloseAndIdle
<1>3. ProtocolInv'
  BY <1>2, LossFrame
<1> QED BY <1>1, <1>3 DEF IInv

\* mbedtls fails on the node.
LEMMA CryptoFailsStep ==
    ASSUME IInv, NEW d \in Devices, CryptoFails(d)
    PROVE  IInv'
<1>1. TypeOK'
  BY DEF IInv, TypeOK, CryptoFails, CloseAndIdle
<1>2. OnlyLoses
  BY DEF OnlyLoses, OnLine, IInv, TypeOK, CryptoFails, CloseAndIdle
<1>3. ProtocolInv'
  BY <1>2, LossFrame
<1> QED BY <1>1, <1>3 DEF IInv

\* The connection ended under the node.
LEMMA ReceiveFailsStep ==
    ASSUME IInv, NEW d \in Devices, ReceiveFails(d)
    PROVE  IInv'
<1>1. TypeOK'
  BY DEF IInv, TypeOK, ReceiveFails, CloseAndIdle
<1>2. OnlyLoses
  BY DEF OnlyLoses, OnLine, IInv, TypeOK, ReceiveFails, CloseAndIdle
<1>3. ProtocolInv'
  BY <1>2, LossFrame
<1> QED BY <1>1, <1>3 DEF IInv

\* The demo message is encrypted under the key of its connection.
LEMMA SendDemoStep ==
    ASSUME IInv, NEW d \in Devices, SendDemo(d)
    PROVE  IInv'
<1>0. Data(dkey[dconn[d]], d) \in ToServer
  <2>1. dconn[d] \in Conns /\ dkey[dconn[d]] # NoValue
    BY DEF IInv, ProtocolInv, DeviceInv, OnLine, SendDemo
  <2> QED BY <2>1, FrameTypes DEF IInv, TypeOK
<1>a. /\ dconn[d] \in Conns /\ peer[dconn[d]] = d /\ d # Client
      /\ dkey[dconn[d]] # NoValue /\ dsk[dconn[d]] # NoValue
      /\ ConnInv(dconn[d])
  BY ConstantsAssumption DEF IInv, ProtocolInv, DeviceInv, OnLine, SendDemo
<1>c. /\ c2s' = [c2s EXCEPT ![dconn[d]] = c2s'[dconn[d]]]
      /\ c2s'[dconn[d]] \in {Data(dkey[dconn[d]], d), NoMsg}
      /\ dpc' = [dpc EXCEPT ![d] = "idle"]
      /\ UNCHANGED <<nvs, nconn, peer, spc, s2c, dconn, dsk, dtr, dkey, shello,
                     sentry, auth, skey, got>>
  BY <1>a DEF SendDemo, SendToServer, CloseAndIdle, IInv, TypeOK
<1>1. TypeOK'
  <2>1. UNCHANGED <<nvs, regFile, registry, ops, srvUp, nconn, peer, link, s2c,
                    dconn, dsk, dtr, dkey, spc, shello, sentry, auth, skey,
                    result, got>>
    BY DEF SendDemo, CloseAndIdle
  <2>2. dend' \in [Conns -> {"none", "open", "closed"}]
    BY DEF SendDemo, CloseAndIdle, IInv, TypeOK
  <2>3. /\ c2s' \in [Conns -> ToServer \cup {NoMsg}]
        /\ dpc' \in [Devices -> DevPc]
    BY <1>0, <1>c DEF IInv, TypeOK
  <2> QED
    BY <2>1, <2>2, <2>3 DEF IInv, TypeOK
<1>2. ASSUME NEW b \in Conns PROVE ConnInv(b)'
  <2>1. CASE b = dconn[d]
    <3>1. ToServerInv(b)' /\ ClientInv(b)'
      BY <2>1, <1>a, <1>c DEF ConnInv, ToServerInv, ClientInv
    <3> QED
      BY <2>1, <3>1, <1>a, <1>c DEF ConnInv, UnusedInv, HelloInv, ToDeviceInv,
         SignedInv, AuthInv, KeyInv, ServerTranscript, SessionKey
  <2>2. CASE b # dconn[d]
    <3>1. nvs' = nvs /\ (b > nconn' => b > nconn) /\ ConnInv(b)
      BY <1>c DEF IInv, ProtocolInv
    <3>2. SameConn(b)
      BY <2>2, <1>c DEF IInv, TypeOK, SameConn
    <3> QED BY <3>1, <3>2, ConnFrame
  <2> QED BY <2>1, <2>2
<1>3. ASSUME NEW e \in Devices PROVE DeviceInv(e)'
  <2>1. CASE e = d
    BY <2>1, <1>c DEF IInv, TypeOK, DeviceInv, OnLine
  <2>2. CASE e # d
    BY <2>2, <1>c, DeviceFrame DEF IInv, TypeOK, ProtocolInv
  <2> QED BY <2>1, <2>2
<1> QED BY <1>1, <1>2, <1>3 DEF IInv, ProtocolInv

\* The node loses power, on a connection the server still has open.
LEMMA ResetDeviceStep ==
    ASSUME IInv, NEW d \in Devices, ResetDevice(d)
    PROVE  IInv'
<1>c. /\ s2c' = [b \in Conns |-> IF dpc[d] \in OnLine /\ b = dconn[d]
                                 THEN NoMsg ELSE s2c[b]]
      /\ dpc' = [dpc EXCEPT ![d] = "off"] /\ dconn' = [dconn EXCEPT ![d] = 0]
      /\ UNCHANGED <<nvs, regFile, registry, ops, srvUp, nconn, peer, spc, c2s,
                     dsk, dtr, dkey, shello, sentry, auth, skey, result, got>>
  BY DEF ResetDevice, IInv, TypeOK
<1>1. TypeOK'
  <2>1. link' \in [Conns -> {"up", "reset", "silent"}]
    BY DEF ResetDevice, IInv, TypeOK
  <2>3. dend' \in [Conns -> {"none", "open", "closed"}]
    BY DEF ResetDevice, IInv, TypeOK
  <2>2. /\ s2c' \in [Conns -> ToDevice \cup {NoMsg}]
        /\ dpc' \in [Devices -> DevPc]
        /\ dconn' \in [Devices -> Conns \cup {0}]
    BY <1>c DEF IInv, TypeOK
  <2> QED BY <1>c, <2>1, <2>2, <2>3 DEF IInv, TypeOK
<1>2. OnlyLoses
  BY <1>c DEF OnlyLoses, OnLine, IInv, TypeOK
<1>3. ProtocolInv'
  BY <1>2, LossFrame
<1> QED BY <1>1, <1>3 DEF IInv

\* The accept loop starts a session.
LEMMA AcceptStep ==
    ASSUME IInv, NEW c \in Conns, Accept(c)
    PROVE  IInv'
<1>1. TypeOK'
  BY DEF IInv, TypeOK, Accept
<1>2. OnlyLoses
  BY DEF OnlyLoses, OnLine, IInv, TypeOK, Accept
<1>3. ProtocolInv'
  BY <1>2, LossFrame
<1> QED BY <1>1, <1>3 DEF IInv

\* The session turns message 1 down.
LEMMA RejectHelloStep ==
    ASSUME IInv, NEW c \in Conns, RejectHello(c)
    PROVE  IInv'
<1>1. TypeOK'
  BY FrameTypes DEF IInv, TypeOK, RejectHello, Delivered, EndSession
<1>2. OnlyLoses
  BY DEF OnlyLoses, OnLine, IInv, TypeOK, RejectHello, Delivered, EndSession
<1>3. ProtocolInv'
  BY <1>2, LossFrame
<1> QED BY <1>1, <1>3 DEF IInv

\* The session turns message 3 down.
LEMMA RejectResponseStep ==
    ASSUME IInv, NEW c \in Conns, RejectResponse(c)
    PROVE  IInv'
<1>1. TypeOK'
  BY FrameTypes DEF IInv, TypeOK, RejectResponse, Delivered, EndSession
<1>2. OnlyLoses
  BY DEF OnlyLoses, OnLine, IInv, TypeOK, RejectResponse, Delivered, EndSession
<1>3. ProtocolInv'
  BY <1>2, LossFrame
<1> QED BY <1>1, <1>3 DEF IInv

\* The session ends on a frame it cannot parse.
LEMMA RaiseOnGarbageStep ==
    ASSUME IInv, NEW c \in Conns, RaiseOnGarbage(c)
    PROVE  IInv'
<1>1. TypeOK'
  BY DEF IInv, TypeOK, RaiseOnGarbage, EndSession, ReturnsAuthenticated
<1>2. OnlyLoses
  BY DEF OnlyLoses, OnLine, IInv, TypeOK, RaiseOnGarbage, EndSession,
     ReturnsAuthenticated
<1>3. ProtocolInv'
  BY <1>2, LossFrame
<1> QED BY <1>1, <1>3 DEF IInv

\* The session ends with its connection.
LEMMA SessionSeesEndStep ==
    ASSUME IInv, NEW c \in Conns, SessionSeesEnd(c)
    PROVE  IInv'
<1>1. TypeOK'
  BY DEF IInv, TypeOK, SessionSeesEnd, EndSession, ReturnsAuthenticated
<1>2. OnlyLoses
  BY DEF OnlyLoses, OnLine, IInv, TypeOK, SessionSeesEnd, EndSession,
     ReturnsAuthenticated
<1>3. ProtocolInv'
  BY <1>2, LossFrame
<1> QED BY <1>1, <1>3 DEF IInv

\* The session ends on a receive timeout.
LEMMA SessionTimesOutStep ==
    ASSUME IInv, NEW c \in Conns, SessionTimesOut(c)
    PROVE  IInv'
<1>1. TypeOK'
  BY DEF IInv, TypeOK, SessionTimesOut, EndSession, ReturnsAuthenticated
<1>2. OnlyLoses
  BY DEF OnlyLoses, OnLine, IInv, TypeOK, SessionTimesOut, EndSession,
     ReturnsAuthenticated
<1>3. ProtocolInv'
  BY <1>2, LossFrame
<1> QED BY <1>1, <1>3 DEF IInv

\* The connection is reset.
LEMMA ResetLinkStep ==
    ASSUME IInv, NEW c \in Conns, ResetLink(c)
    PROVE  IInv'
<1>1. TypeOK'
  BY DEF IInv, TypeOK, ResetLink
<1>2. OnlyLoses
  BY DEF OnlyLoses, OnLine, IInv, TypeOK, ResetLink
<1>3. ProtocolInv'
  BY <1>2, LossFrame
<1> QED BY <1>1, <1>3 DEF IInv

\* The connection goes silent.
LEMMA SilenceLinkStep ==
    ASSUME IInv, NEW c \in Conns, SilenceLink(c)
    PROVE  IInv'
<1>1. TypeOK'
  BY DEF IInv, TypeOK, SilenceLink
<1>2. OnlyLoses
  BY DEF OnlyLoses, OnLine, IInv, TypeOK, SilenceLink
<1>3. ProtocolInv'
  BY <1>2, LossFrame
<1> QED BY <1>1, <1>3 DEF IInv

\* A client closes its connection.
LEMMA ClientCloseStep ==
    ASSUME IInv, NEW c \in Conns, ClientClose(c)
    PROVE  IInv'
<1>1. TypeOK'
  BY DEF IInv, TypeOK, ClientClose
<1>2. OnlyLoses
  BY DEF OnlyLoses, OnLine, IInv, TypeOK, ClientClose
<1>3. ProtocolInv'
  BY <1>2, LossFrame
<1> QED BY <1>1, <1>3 DEF IInv

\* The server process is stopped.
LEMMA StopServerStep ==
    ASSUME IInv, StopServer
    PROVE  IInv'
<1>0. ops + 1 \in 0 .. MaxOps
  BY ConstantsAssumption DEF IInv, TypeOK, StopServer
<1>1. TypeOK'
  BY <1>0 DEF IInv, TypeOK, StopServer
<1>2. OnlyLoses
  BY DEF OnlyLoses, OnLine, IInv, TypeOK, StopServer
<1>3. ProtocolInv'
  BY <1>2, LossFrame
<1> QED BY <1>1, <1>3 DEF IInv

\* The server process starts and loads the registry.
LEMMA StartServerStep ==
    ASSUME IInv, StartServer
    PROVE  IInv'
<1>1. TypeOK'
  BY DEF IInv, TypeOK, StartServer
<1>2. OnlyLoses
  BY DEF OnlyLoses, OnLine, IInv, TypeOK, StartServer
<1>3. ProtocolInv'
  BY <1>2, LossFrame
<1> QED BY <1>1, <1>3 DEF IInv

\* register_puf_node.py writes an entry.
LEMMA RegisterNodeStep ==
    ASSUME IInv, NEW i \in Ids, NEW e \in Entries, RegisterNode(i, e)
    PROVE  IInv'
<1>0. ops + 1 \in 0 .. MaxOps
  BY ConstantsAssumption DEF IInv, TypeOK, RegisterNode
<1>1. TypeOK'
  BY <1>0 DEF IInv, TypeOK, RegisterNode
<1>2. OnlyLoses
  BY DEF OnlyLoses, OnLine, IInv, TypeOK, RegisterNode
<1>3. ProtocolInv'
  BY <1>2, LossFrame
<1> QED BY <1>1, <1>3 DEF IInv

\* register_puf_node.py deletes an entry.
LEMMA RemoveNodeStep ==
    ASSUME IInv, NEW i \in Ids, RemoveNode(i)
    PROVE  IInv'
<1>0. ops + 1 \in 0 .. MaxOps
  BY ConstantsAssumption DEF IInv, TypeOK, RemoveNode
<1>1. TypeOK'
  BY <1>0 DEF IInv, TypeOK, RemoveNode
<1>2. OnlyLoses
  BY DEF OnlyLoses, OnLine, IInv, TypeOK, RemoveNode
<1>3. ProtocolInv'
  BY <1>2, LossFrame
<1> QED BY <1>1, <1>3 DEF IInv

-----------------------------------------------------------------------------
(***************************************************************************)
(* The invariant, and what follows from it.                                *)
(***************************************************************************)

\* IInv holds before any node boots.
LEMMA InitIInv ==
    ASSUME Init
    PROVE  IInv
<1>1. TypeOK
  BY ContentsAssumption, ConstantsAssumption DEF Init, TypeOK
<1>2. \A c \in Conns : ConnInv(c)
  BY ConstantsAssumption DEF Init, ConnInv, UnusedInv, ToServerInv, ClientInv,
     HelloInv, ToDeviceInv, SignedInv, AuthInv, KeyInv
<1>3. \A d \in Devices : DeviceInv(d)
  BY DEF Init, DeviceInv, OnLine
<1> QED BY <1>1, <1>2, <1>3 DEF IInv, ProtocolInv

\* A step of something else leaves IInv alone.
LEMMA StutterIInv ==
    ASSUME IInv, UNCHANGED vars
    PROVE  IInv'
<1>1. TypeOK'
  BY DEF IInv, TypeOK, vars
<1>2. ASSUME NEW c \in Conns PROVE ConnInv(c)'
  BY ConnFrame DEF IInv, ProtocolInv, SameConn, vars
<1>3. ASSUME NEW d \in Devices PROVE DeviceInv(d)'
  BY DeviceFrame DEF IInv, ProtocolInv, vars
<1> QED BY <1>1, <1>2, <1>3 DEF IInv, ProtocolInv

\* Every step of the system preserves IInv.
LEMMA NextIInv ==
    ASSUME IInv, Next
    PROVE  IInv'
<1>1. CASE \E d \in Devices : DeviceStep(d)
  BY <1>1, ExportOnlyStep, ConnectStep, StartHandshakeStep,
     AnswerChallengeStep, RejectChallengeStep, ReceiveAckStep, RejectAckStep,
     ReceiveFailsStep, SendDemoStep DEF DeviceStep
<1>2. CASE \E d \in Devices : DeviceFault(d)
  BY <1>2, ConnectFailsStep, ReconstructFailsStep, CryptoFailsStep,
     ResetDeviceStep
     DEF DeviceFault
<1>3. CASE \E c \in Conns : SessionStep(c)
  BY <1>3, AcceptStep, SendChallengeStep, RejectHelloStep, SendAckStep,
     RejectResponseStep, RaiseOnGarbageStep, ReceiveDataStep, SessionSeesEndStep,
     SessionTimesOutStep DEF SessionStep
<1>4. CASE Operator
  BY <1>4, StopServerStep, StartServerStep, RegisterNodeStep, RemoveNodeStep
     DEF Operator
<1>5. CASE Environment
  BY <1>5, ClientConnectStep, ResetLinkStep, SilenceLinkStep, ClientSendStep,
     ClientCloseStep DEF Environment
<1> QED BY <1>1, <1>2, <1>3, <1>4, <1>5 DEF Next

\* IInv holds in every reachable state, for every fleet, registry, fault set
\* and number of connections.
THEOREM Inductive == Spec => []IInv
<1>1. Init => IInv
  BY InitIInv
<1>2. IInv /\ [Next]_vars => IInv'
  BY NextIInv, StutterIInv
<1> QED BY <1>1, <1>2, PTL DEF Spec

\* Every variable keeps its type (all of rot_session.c and RotSession).
THEOREM TypeCorrect == Spec => []TypeOK
<1>1. IInv => TypeOK
  BY DEF IInv
<1> QED BY <1>1, Inductive, PTL

\* A node that has Key_ab shares it with the session at the other end, which
\* had authenticated it (rot_session.c:243-275).
THEOREM KeysAgree == Spec => []KeyAgreement
<1>1. IInv => KeyAgreement
  BY DEF IInv, ProtocolInv, ConnInv, KeyInv, KeyAgreement
<1> QED BY <1>1, Inductive, PTL

\* A session is authenticated only for the node that owns the claimed id_a and
\* the registered key (rot_challenge_service.py:286-300).
THEOREM NodesAuthentic == Spec => []NodeAuthentic
<1>1. ASSUME IInv PROVE NodeAuthentic
  <2> SUFFICES ASSUME NEW c \in Conns, auth[c]
               PROVE  /\ peer[c] \in Devices
                      /\ shello[c].id_a = nvs[peer[c]].id_a
                      /\ sentry[c].shs_b = nvs[peer[c]].shs_b
                      /\ nvs[peer[c]].id_b = IdB
                      /\ sentry[c].pk = dsk[c] /\ dsk[c] \in ReconKeys[peer[c]]
                      /\ dtr[c] = ServerTranscript(c, EphA(c))
    BY DEF NodeAuthentic
  <2>1. ConnInv(c)
    BY <1>1 DEF IInv, ProtocolInv
  <2>2. dtr[c] # NoValue /\ sentry[c].pk = dsk[c]
    BY <2>1 DEF ConnInv, AuthInv
  <2>3. /\ peer[c] \in Devices /\ dsk[c] # NoValue /\ shello[c] # NoValue
        /\ dtr[c] = ServerTranscript(c, EphA(c))
        /\ sentry[c].shs_b = nvs[peer[c]].shs_b /\ nvs[peer[c]].id_b = IdB
    BY <2>1, <2>2 DEF ConnInv, SignedInv
  <2>4. shello[c].id_a = nvs[peer[c]].id_a
    BY <2>1, <2>3 DEF ConnInv, HelloInv
  <2>5. dsk[c] \in ReconKeys[peer[c]]
    BY <2>1, <2>3 DEF ConnInv, ToServerInv
  <2> QED BY <2>2, <2>3, <2>4, <2>5
<1>2. IInv => NodeAuthentic
  BY <1>1
<1> QED BY <1>2, Inductive, PTL

\* A node signs only towards a session that has its pinned V_B
\* (rot_session.c:140-163, 194-210).
THEOREM ServersAuthentic == Spec => []ServerAuthentic
<1>1. ASSUME IInv PROVE ServerAuthentic
  <2> SUFFICES ASSUME NEW c \in Conns, dtr[c] # NoValue
               PROVE  /\ sentry[c] # NoEntry
                      /\ sentry[c].shs_b = nvs[peer[c]].shs_b
                      /\ nvs[peer[c]].id_b = IdB
                      /\ dtr[c].ca = ChallengeA(c) /\ dtr[c].cb = ChallengeB(c)
    BY DEF ServerAuthentic
  <2>1. ConnInv(c)
    BY <1>1 DEF IInv, ProtocolInv
  <2>2. /\ peer[c] \in Devices /\ shello[c] # NoValue
        /\ dtr[c] = ServerTranscript(c, EphA(c))
        /\ sentry[c].shs_b = nvs[peer[c]].shs_b /\ nvs[peer[c]].id_b = IdB
    BY <2>1 DEF ConnInv, SignedInv
  <2>3. sentry[c] # NoEntry /\ shello[c].ca = ChallengeA(c)
    BY <2>1, <2>2 DEF ConnInv, HelloInv
  <2>4. dtr[c].ca = ChallengeA(c) /\ dtr[c].cb = ChallengeB(c)
    BY <2>2, <2>3 DEF ServerTranscript, MsgHash
  <2> QED BY <2>2, <2>3, <2>4
<1>2. IInv => ServerAuthentic
  BY <1>1
<1> QED BY <1>2, Inductive, PTL

\* No two connections have the same Key_ab (rot_challenge_service.py:298-299,
\* rot_session.c:263-275).
THEOREM KeysDistinct == Spec => []SessionKeysDistinct
<1>1. ASSUME IInv PROVE SessionKeysDistinct
  <2> SUFFICES ASSUME NEW b \in Conns, NEW c \in Conns,
                      skey[b] # NoValue, skey[b] = skey[c]
               PROVE  b = c
    BY DEF SessionKeysDistinct
  <2>1. ConnInv(b) /\ ConnInv(c)
    BY <1>1 DEF IInv, ProtocolInv
  <2>2. skey[b] = SessionKey(b) /\ skey[c] = SessionKey(c)
    BY <2>1 DEF ConnInv, AuthInv
  <2>3. SessionKey(b).ca = ChallengeA(b) /\ SessionKey(c).ca = ChallengeA(c)
    BY DEF SessionKey, KeyAb
  <2> QED BY <2>2, <2>3, NonceFresh
<1>2. IInv => SessionKeysDistinct
  BY <1>1
<1> QED BY <1>2, Inductive, PTL

\* A payload the data loop accepts comes from the node of its connection
\* (rot_challenge_service.py:307-323).
THEOREM PayloadsAuthentic == Spec => []PayloadAuthentic
<1>1. ASSUME IInv PROVE PayloadAuthentic
  <2> SUFFICES ASSUME NEW c \in Conns
               PROVE  /\ got[c] \subseteq {peer[c]}
                      /\ got[c] # {} => dkey[c] # NoValue
                      /\ spc[c] = "data" /\ c2s[c] # NoMsg =>
                           c2s[c].type = "data" /\ c2s[c].key = skey[c]
    BY DEF PayloadAuthentic
  <2>1. ConnInv(c)
    BY <1>1 DEF IInv, ProtocolInv
  <2>2. ASSUME spc[c] = "data", c2s[c] # NoMsg
        PROVE  c2s[c].type = "data" /\ c2s[c].key = skey[c]
    <3>1. auth[c] /\ dtr[c] # NoValue
      BY <2>1, <2>2 DEF ConnInv, AuthInv
    <3>2. peer[c] \in Devices /\ shello[c] # NoValue
      BY <2>1, <3>1 DEF ConnInv, SignedInv
    <3>3. c2s[c] = Data(dkey[c], peer[c]) /\ dkey[c] # NoValue
      BY <2>1, <2>2, <3>1, <3>2 DEF ConnInv, ToServerInv
    <3>4. dkey[c] = skey[c]
      BY <2>1, <3>3 DEF ConnInv, KeyInv
    <3> QED BY <3>3, <3>4 DEF Data
  <2> QED BY <2>1, <2>2 DEF ConnInv, KeyInv
<1>2. IInv => PayloadAuthentic
  BY <1>1
<1> QED BY <1>2, Inductive, PTL

-----------------------------------------------------------------------------
(***************************************************************************)
(* The registry snapshot. SnapshotEntry is not inductive alone: a stopped  *)
(* server must also be known to have no session left, so that loading the  *)
(* registry again cannot change the entry under a live one.                *)
(***************************************************************************)
\* A connection that is accepted, or waits to be, has a server behind it.
LiveInv == \A c \in Conns : spc[c] \notin {"none", "closed"} => srvUp

SnapInv == TypeOK /\ LiveInv /\ SnapshotEntry

\* Steps that touch neither the registry in memory nor a session.
LEMMA SnapFrame ==
    ASSUME SnapInv, TypeOK', srvUp' = srvUp, registry' = registry,
           spc' = spc, shello' = shello, sentry' = sentry
    PROVE  SnapInv'
BY DEF SnapInv, LiveInv, SnapshotEntry

\* Steps of one session that move it on without reading the registry.
LEMMA SnapOne ==
    ASSUME SnapInv, TypeOK', NEW c \in Conns, NEW s \in SrvPc,
           srvUp' = srvUp, registry' = registry,
           spc' = [spc EXCEPT ![c] = s],
           shello' = shello, sentry' = sentry,
           \/ s = "closed"
           \/ s = "data" /\ spc[c] = "wait_response"
           \/ s \in {"backlog", "wait_hello"} /\ srvUp
    PROVE  SnapInv'
BY DEF SnapInv, TypeOK, LiveInv, SnapshotEntry

\* One step of the system preserves SnapInv (TypeOK' is TypeCorrect's part).
LEMMA NextSnap ==
    ASSUME SnapInv, TypeOK', Next
    PROVE  SnapInv'
<1>1. ASSUME NEW d \in Devices, DeviceStep(d) \/ DeviceFault(d) PROVE SnapInv'
  <2>1. CASE Connect(d)
    <3>1. nconn + 1 \in Conns
      BY <2>1, NextConn DEF Connect, SnapInv
    <3> QED BY <2>1, <3>1, SnapOne DEF Connect
  <2>2. CASE ~Connect(d)
    <3>1. /\ srvUp' = srvUp /\ registry' = registry
          /\ spc' = spc /\ shello' = shello /\ sentry' = sentry
      BY <1>1, <2>2 DEF DeviceStep, DeviceFault, ExportOnly, StartHandshake,
         AnswerChallenge, RejectChallenge, ReceiveAck, RejectAck, ReceiveFails,
         SendDemo, ConnectFails, ReconstructFails, CryptoFails, ResetDevice
    <3> QED BY <3>1, SnapFrame
  <2> QED BY <2>1, <2>2
<1>2. ASSUME NEW c \in Conns, SessionStep(c) PROVE SnapInv'
  <2>1. CASE Accept(c)
    BY <2>1, SnapOne DEF Accept
  <2>2. CASE SendChallenge(c)
    <3> DEFINE m == c2s[c]
               e == registry[m.id_a]
    <3>1. /\ srvUp' = srvUp /\ registry' = registry /\ srvUp
          /\ shello' = [shello EXCEPT ![c] = [id_a |-> m.id_a, ca |-> m.ca]]
          /\ sentry' = [sentry EXCEPT ![c] = e]
          /\ spc' = [spc EXCEPT ![c] = spc'[c]]
      <4>1. srvUp /\ spc \in [Conns -> SrvPc]
        BY <2>2 DEF SendChallenge, SnapInv, TypeOK, LiveInv
      <4>2. /\ srvUp' = srvUp /\ registry' = registry
            /\ shello' = [shello EXCEPT ![c] = [id_a |-> m.id_a, ca |-> m.ca]]
            /\ sentry' = [sentry EXCEPT ![c] = e]
        BY <2>2 DEF SendChallenge
      <4>3. spc' = [spc EXCEPT ![c] = spc'[c]]
        BY <2>2, <4>1 DEF SendChallenge, EndSession
      <4> QED BY <4>1, <4>2, <4>3
    <3>2. sentry'[c] = registry'[shello'[c].id_a]
      BY <3>1 DEF SnapInv, TypeOK
    <3>3. \A b \in Conns : b # c =>
             spc'[b] = spc[b] /\ shello'[b] = shello[b] /\ sentry'[b] = sentry[b]
      BY <3>1 DEF SnapInv, TypeOK
    <3> HIDE DEF m, e
    <3> QED BY <3>1, <3>2, <3>3 DEF SnapInv, LiveInv, SnapshotEntry
  <2>3. CASE RejectHello(c)
    BY <2>3, SnapOne DEF RejectHello, EndSession
  <2>4. CASE SendAck(c)
    BY <2>4, SnapOne DEF SendAck, EndSession
  <2>5. CASE RejectResponse(c)
    BY <2>5, SnapOne DEF RejectResponse, EndSession
  <2>6. CASE RaiseOnGarbage(c)
    BY <2>6, SnapOne DEF RaiseOnGarbage, EndSession
  <2>7. CASE ReceiveData(c)
    BY <2>7, SnapFrame DEF ReceiveData, Decrypts
  <2>8. CASE SessionSeesEnd(c)
    BY <2>8, SnapOne DEF SessionSeesEnd, EndSession
  <2>9. CASE SessionTimesOut(c)
    BY <2>9, SnapOne DEF SessionTimesOut, EndSession
  <2> QED BY <1>2, <2>1, <2>2, <2>3, <2>4, <2>5, <2>6, <2>7, <2>8, <2>9
          DEF SessionStep
<1>3. CASE StopServer
  BY <1>3 DEF StopServer, SnapInv, LiveInv, SnapshotEntry
<1>4. CASE StartServer
  BY <1>4 DEF StartServer, SnapInv, TypeOK, LiveInv, SnapshotEntry
<1>5. ASSUME NEW i \in Ids,
             RemoveNode(i) \/ \E e \in Entries : RegisterNode(i, e)
      PROVE  SnapInv'
  BY <1>5, SnapFrame DEF RemoveNode, RegisterNode
<1>6. CASE Environment
  <2>1. CASE ClientConnect
    <3>1. nconn + 1 \in Conns
      BY <2>1, NextConn DEF ClientConnect, SnapInv
    <3> QED BY <2>1, <3>1, SnapOne DEF ClientConnect
  <2>2. CASE ~ClientConnect
    BY <1>6, <2>2, SnapFrame DEF Environment, ResetLink, SilenceLink,
       ClientSend, ClientClose
  <2> QED BY <2>1, <2>2
<1> QED BY <1>1, <1>2, <1>3, <1>4, <1>5, <1>6 DEF Next, Operator

\* A live session keeps the entry the running server loaded, whatever
\* register_puf_node.py writes and however often the server is restarted
\* (puf_server.py:67).
THEOREM SnapshotKept == Spec => []SnapshotEntry
<1>1. Init /\ TypeOK => SnapInv
  BY DEF Init, SnapInv, LiveInv, SnapshotEntry
<1>2. SnapInv /\ TypeOK' /\ [Next]_vars => SnapInv'
  <2>1. ASSUME SnapInv, TypeOK', UNCHANGED vars PROVE SnapInv'
    BY <2>1, SnapFrame DEF vars
  <2> QED BY <2>1, NextSnap
<1>3. SnapInv => SnapshotEntry
  BY DEF SnapInv
<1> QED BY <1>1, <1>2, <1>3, TypeCorrect, PTL DEF Spec

-----------------------------------------------------------------------------
(***************************************************************************)
(* Request and response alternate: whose turn it is on a node's connection *)
(* is not a variable of either program, but shows in the two directions of *)
(* the connection together, which IInv describes one by one.               *)
(***************************************************************************)
\* One of the two directions is empty, and both are before the first request.
Turn(c) ==
    peer[c] \in Devices =>
      /\ c2s[c] = NoMsg \/ s2c[c] = NoMsg
      /\ dsk[c] = NoValue => s2c[c] = NoMsg

\* Nothing is in flight on a connection whose node holds Key_ab.
Quiet(d) ==
    dpc[d] = "established" => c2s[dconn[d]] = NoMsg /\ s2c[dconn[d]] = NoMsg

TurnInv == (\A c \in Conns : Turn(c)) /\ (\A d \in Devices : Quiet(d))

\* What InFlightOnce says of a step and a connection.
Drains(c) ==
    /\ c2s'[c] \in {c2s[c], NoMsg}
    /\ s2c'[c] \in {s2c[c], NoMsg}
Once(c) ==
    peer[c] \in Devices =>
      /\ c2s[c] = NoMsg \/ c2s'[c] \in {c2s[c], NoMsg}
      /\ s2c[c] = NoMsg \/ s2c'[c] \in {s2c[c], NoMsg}

\* Steps that send nothing, and establish no node.
LEMMA DrainTurn ==
    ASSUME TurnInv, peer' = peer, dsk' = dsk,
           \A c \in Conns : Drains(c),
           \A d \in Devices : dpc'[d] = "established" =>
             /\ dpc[d] = "established" /\ dconn'[d] = dconn[d]
             /\ dconn[d] \in Conns
    PROVE  TurnInv' /\ \A c \in Conns : Once(c)
BY DEF TurnInv, Turn, Quiet, Once, Drains

\* The server answers a frame it takes: its own direction was empty.
LEMMA AnswerTurn ==
    ASSUME IInv, TurnInv, NEW c \in Conns, c2s[c] # NoMsg,
           c2s' = [c2s EXCEPT ![c] = NoMsg],
           s2c' = [s2c EXCEPT ![c] = s2c'[c]],
           UNCHANGED <<peer, dsk, dpc, dconn>>
    PROVE  TurnInv' /\ \A b \in Conns : Once(b)
<1>1. /\ c2s'[c] = NoMsg
      /\ \A b \in Conns : b # c => c2s'[b] = c2s[b] /\ s2c'[b] = s2c[b]
  BY DEF IInv, TypeOK
<1>2. peer[c] \in Devices => s2c[c] = NoMsg /\ dsk[c] # NoValue
  BY DEF TurnInv, Turn, IInv, ProtocolInv, ConnInv, ToServerInv
<1>3. \A b \in Conns : Turn(b)' /\ Once(b)
  BY <1>1, <1>2 DEF TurnInv, Turn, Once
<1>4. ASSUME NEW d \in Devices PROVE Quiet(d)'
  <2>1. dpc[d] = "established" => dconn[d] \in Conns /\ dconn[d] # c
    BY DEF IInv, ProtocolInv, DeviceInv, OnLine, TurnInv, Quiet
  <2> QED BY <2>1, <1>1 DEF TurnInv, Quiet
<1> QED BY <1>3, <1>4 DEF TurnInv

\* A node sends on its connection c, on which nothing was in flight towards
\* the server, and leaves nothing in the other direction.
LEMMA RequestTurn ==
    ASSUME IInv, TurnInv, NEW d \in Devices, NEW c \in Conns,
           dpc[d] \in OnLine, c = dconn[d], c2s[c] = NoMsg,
           c2s' = [c2s EXCEPT ![c] = c2s'[c]],
           s2c' = [s2c EXCEPT ![c] = NoMsg],
           peer' = peer, dconn' = dconn,
           \A b \in Conns : b # c => dsk'[b] = dsk[b],
           \A e \in Devices : e # d => dpc'[e] = dpc[e],
           dpc'[d] = "established" => c2s'[c] = NoMsg
    PROVE  TurnInv' /\ \A b \in Conns : Once(b)
<1>1. /\ s2c'[c] = NoMsg
      /\ \A b \in Conns : b # c => c2s'[b] = c2s[b] /\ s2c'[b] = s2c[b]
  BY DEF IInv, TypeOK
<1>2. \A b \in Conns : Turn(b)' /\ Once(b)
  BY <1>1 DEF TurnInv, Turn, Once
<1>3. ASSUME NEW e \in Devices PROVE Quiet(e)'
  <2>1. e # d /\ dpc[e] = "established" => dconn[e] \in Conns /\ dconn[e] # c
    BY DEF IInv, ProtocolInv, DeviceInv, OnLine
  <2> QED BY <2>1, <1>1 DEF TurnInv, Quiet
<1> QED BY <1>2, <1>3 DEF TurnInv

\* A step of a node.
LEMMA DeviceTurn ==
    ASSUME IInv, TurnInv, NEW d \in Devices, DeviceStep(d)
    PROVE  TurnInv' /\ \A c \in Conns : Once(c)
<1> DEFINE c == dconn[d]
<1>0. /\ \A e \in Devices : dpc[e] \in OnLine =>
           /\ dconn[e] \in Conns /\ peer[dconn[e]] = e
           /\ Turn(dconn[e]) /\ ToServerInv(dconn[e])
      /\ \A e \in Devices : dpc[e] = "connected" => dsk[dconn[e]] = NoValue
  BY DEF IInv, ProtocolInv, ConnInv, DeviceInv, TurnInv, OnLine
<1>1. CASE ExportOnly(d) \/ RejectChallenge(d) \/ RejectAck(d) \/ ReceiveFails(d)
  <2>1. /\ peer' = peer /\ dsk' = dsk /\ dconn' = dconn
        /\ dpc' = [dpc EXCEPT ![d] = "idle"]
    BY <1>1 DEF ExportOnly, RejectChallenge, RejectAck, ReceiveFails, CloseAndIdle
  <2>2. \A b \in Conns : Drains(b)
    BY <1>1 DEF ExportOnly, RejectChallenge, RejectAck, ReceiveFails, Drains,
       IInv, TypeOK
  <2> QED BY <2>1, <2>2, <1>0, DrainTurn DEF IInv, TypeOK, OnLine
<1>2. CASE Connect(d)
  <2> DEFINE n == nconn + 1
  <2>1. n \in Conns /\ n > nconn /\ peer[n] = NoPeer /\ UnusedInv(n)
    BY <1>2, NextConn DEF Connect, IInv, ProtocolInv, ConnInv, UnusedInv
  <2>2. /\ peer' = [peer EXCEPT ![n] = d] /\ dpc' = [dpc EXCEPT ![d] = "connected"]
        /\ dconn' = [dconn EXCEPT ![d] = n] /\ UNCHANGED <<c2s, s2c, dsk>>
    BY <1>2 DEF Connect
  <2> HIDE DEF n
  <2> QED BY <2>1, <2>2 DEF TurnInv, Turn, Quiet, Once, UnusedInv, IInv, TypeOK
<1>3. ASSUME NEW k \in ReconKeys[d], StartHandshake(d, k)
      PROVE  TurnInv' /\ \A b \in Conns : Once(b)
  <2>1. /\ dpc[d] \in OnLine /\ c \in Conns
        /\ c2s[c] = NoMsg /\ s2c[c] = NoMsg
    BY <1>3, <1>0 DEF StartHandshake, OnLine, Turn, ToServerInv
  <2>2. /\ c2s' = [c2s EXCEPT ![c] = c2s'[c]]
        /\ s2c' = [s2c EXCEPT ![c] = NoMsg]
    BY <1>3, <2>1 DEF StartHandshake, SendToServer, IInv, TypeOK
  <2>3. /\ peer' = peer /\ dconn' = dconn
        /\ dpc' = [dpc EXCEPT ![d] = "wait_challenge"]
        /\ \A b \in Conns : b # c => dsk'[b] = dsk[b]
    BY <1>3 DEF StartHandshake, IInv, TypeOK
  <2> HIDE DEF c
  <2>4. c = dconn[d]
    BY DEF c
  <2>5. /\ dpc'[d] # "established"
        /\ \A e \in Devices : e # d => dpc'[e] = dpc[e]
    BY <2>3 DEF IInv, TypeOK
  <2> QED BY <2>1, <2>2, <2>3, <2>4, <2>5, RequestTurn
<1>4. CASE AnswerChallenge(d)
  <2>1. dpc[d] \in OnLine /\ c \in Conns /\ c2s[c] = NoMsg
    BY <1>4, <1>0 DEF AnswerChallenge, OnLine, Turn
  <2>2. /\ c2s' = [c2s EXCEPT ![c] = c2s'[c]]
        /\ s2c' = [s2c EXCEPT ![c] = NoMsg]
    BY <1>4, <2>1 DEF AnswerChallenge, SendToServer, IInv, TypeOK
  <2>3. /\ peer' = peer /\ dconn' = dconn /\ dsk' = dsk
        /\ dpc' = [dpc EXCEPT ![d] = "wait_ack"]
    BY <1>4 DEF AnswerChallenge
  <2> HIDE DEF c
  <2>4. c = dconn[d]
    BY DEF c
  <2> QED BY <2>1, <2>2, <2>3, <2>4, RequestTurn DEF IInv, TypeOK
<1>5. CASE ReceiveAck(d)
  <2>1. dpc[d] \in OnLine /\ c \in Conns /\ c2s[c] = NoMsg
    BY <1>5, <1>0 DEF ReceiveAck, AckAccepted, OnLine, Turn
  <2>2. /\ c2s' = c2s /\ s2c' = [s2c EXCEPT ![c] = NoMsg]
        /\ peer' = peer /\ dconn' = dconn /\ dsk' = dsk
        /\ dpc' = [dpc EXCEPT ![d] = "established"]
    BY <1>5 DEF ReceiveAck
  <2>3. c2s' = [c2s EXCEPT ![c] = c2s'[c]]
    BY <2>1, <2>2 DEF IInv, TypeOK
  <2> HIDE DEF c
  <2>4. c = dconn[d]
    BY DEF c
  <2> QED BY <2>1, <2>2, <2>3, <2>4, RequestTurn DEF IInv, TypeOK
<1>6. CASE SendDemo(d)
  <2>1. /\ dpc[d] \in OnLine /\ c \in Conns
        /\ c2s[c] = NoMsg /\ s2c[c] = NoMsg
    BY <1>6, <1>0 DEF SendDemo, OnLine, TurnInv, Quiet
  <2>2. /\ c2s' = [c2s EXCEPT ![c] = c2s'[c]]
        /\ s2c' = [s2c EXCEPT ![c] = NoMsg]
    BY <1>6, <2>1 DEF SendDemo, SendToServer, IInv, TypeOK
  <2>3. /\ peer' = peer /\ dconn' = dconn /\ dsk' = dsk
        /\ dpc' = [dpc EXCEPT ![d] = "idle"]
    BY <1>6 DEF SendDemo, CloseAndIdle
  <2> HIDE DEF c
  <2>4. c = dconn[d]
    BY DEF c
  <2> QED BY <2>1, <2>2, <2>3, <2>4, RequestTurn DEF IInv, TypeOK
<1> QED BY <1>1, <1>2, <1>3, <1>4, <1>5, <1>6 DEF DeviceStep

\* A failure in a node, or its reset.
LEMMA FaultTurn ==
    ASSUME IInv, TurnInv, NEW d \in Devices, DeviceFault(d)
    PROVE  TurnInv' /\ \A c \in Conns : Once(c)
<1>1. /\ peer' = peer /\ dsk' = dsk
      /\ dpc' \in {[dpc EXCEPT ![d] = "idle"], [dpc EXCEPT ![d] = "off"]}
      /\ \A e \in Devices : e # d => dconn'[e] = dconn[e]
  BY DEF DeviceFault, ConnectFails, ReconstructFails, CryptoFails, ResetDevice,
     CloseAndIdle, IInv, TypeOK
<1>2. \A b \in Conns : Drains(b)
  BY DEF DeviceFault, ConnectFails, ReconstructFails, CryptoFails, ResetDevice,
     CloseAndIdle, IInv, TypeOK, Drains
<1>3. \A e \in Devices : dpc[e] = "established" => dconn[e] \in Conns
  BY DEF IInv, ProtocolInv, DeviceInv, OnLine
<1> QED BY <1>1, <1>2, <1>3, DrainTurn DEF IInv, TypeOK

\* A step of a session thread.
LEMMA SessionTurn ==
    ASSUME IInv, TurnInv, NEW c \in Conns, SessionStep(c)
    PROVE  TurnInv' /\ \A b \in Conns : Once(b)
<1>0. /\ UNCHANGED <<peer, dsk, dpc, dconn>>
      /\ \A e \in Devices : dpc[e] = "established" => dconn[e] \in Conns
  BY DEF SessionStep, Accept, SendChallenge, RejectHello, SendAck, RejectResponse,
     RaiseOnGarbage, ReceiveData, SessionSeesEnd, SessionTimesOut,
     IInv, ProtocolInv, DeviceInv, OnLine
<1>1. CASE \/ SendChallenge(c) \/ RejectHello(c) \/ SendAck(c)
           \/ RejectResponse(c) \/ ReceiveData(c)
  <2>1. /\ c2s[c] # NoMsg /\ c2s' = [c2s EXCEPT ![c] = NoMsg]
        /\ s2c' = [s2c EXCEPT ![c] = s2c'[c]]
    BY <1>1 DEF SendChallenge, RejectHello, SendAck, RejectResponse, ReceiveData,
       IInv, TypeOK
  <2> QED BY <2>1, <1>0, AnswerTurn
<1>2. CASE \/ Accept(c) \/ RaiseOnGarbage(c) \/ SessionSeesEnd(c)
           \/ SessionTimesOut(c)
  <2>1. \A b \in Conns : Drains(b)
    BY <1>2 DEF Accept, RaiseOnGarbage, SessionSeesEnd, SessionTimesOut,
       Drains, IInv, TypeOK
  <2> QED BY <2>1, <1>0, DrainTurn
<1> QED BY <1>1, <1>2 DEF SessionStep

\* The operator and the environment: a client is no node's peer.
LEMMA OutsideTurn ==
    ASSUME IInv, TurnInv, Operator \/ Environment
    PROVE  TurnInv' /\ \A b \in Conns : Once(b)
<1>0. /\ \A e \in Devices : dpc[e] = "established" =>
           dconn[e] \in Conns /\ peer[dconn[e]] = e
      /\ Client \notin Devices /\ NoPeer \notin Devices
  BY ConstantsAssumption DEF IInv, ProtocolInv, DeviceInv, OnLine
<1>1. CASE Operator
  <2>1. UNCHANGED <<peer, dsk, dpc, dconn, c2s, s2c>>
    BY <1>1 DEF Operator, StopServer, StartServer, RemoveNode, RegisterNode
  <2> QED BY <2>1, <1>0, DrainTurn DEF Drains
<1>2. CASE ClientConnect
  <2> DEFINE n == nconn + 1
  <2>1. n \in Conns /\ peer' = [peer EXCEPT ![n] = Client]
        /\ UNCHANGED <<c2s, s2c, dsk, dpc, dconn>>
    BY <1>2, NextConn DEF ClientConnect, IInv
  <2> HIDE DEF n
  <2> QED BY <2>1, <1>0 DEF TurnInv, Turn, Quiet, Once, IInv, TypeOK
<1>3. ASSUME NEW c \in Conns, ResetLink(c) \/ SilenceLink(c) \/ ClientClose(c)
      PROVE  TurnInv' /\ \A b \in Conns : Once(b)
  <2>1. UNCHANGED <<peer, dsk, dpc, dconn>>
    BY <1>3 DEF ResetLink, SilenceLink, ClientClose
  <2>2. \A b \in Conns : Drains(b)
    BY <1>3 DEF ResetLink, SilenceLink, ClientClose, Drains, IInv, TypeOK
  <2> QED BY <2>1, <2>2, <1>0, DrainTurn
<1>4. ASSUME NEW c \in Conns, NEW m \in ClientFrames(c), ClientSend(c, m)
      PROVE  TurnInv' /\ \A b \in Conns : Once(b)
  <2>1. peer[c] = Client /\ UNCHANGED <<peer, dsk, dpc, dconn>>
    BY <1>4 DEF ClientSend
  <2>2. \A b \in Conns : b # c => c2s'[b] = c2s[b] /\ s2c'[b] = s2c[b]
    BY <1>4 DEF ClientSend, SendToServer, IInv, TypeOK
  <2> QED BY <2>1, <2>2, <1>0 DEF TurnInv, Turn, Quiet, Once
<1> QED BY <1>1, <1>2, <1>3, <1>4 DEF Environment

\* Neither end of a node's connection sends behind a frame of its own that
\* is still in flight, however nodes, faults and restarts interleave
\* (rot_session.c, rot_challenge_service.py: each receives between two sends).
THEOREM FramesOnce == Spec => InFlightOnce
<1>1. Init => TurnInv
  BY DEF Init, TurnInv, Turn, Quiet
<1>2. IInv /\ TurnInv /\ [Next]_vars => TurnInv' /\ \A c \in Conns : Once(c)
  <2>1. ASSUME TurnInv, UNCHANGED vars
        PROVE  TurnInv' /\ \A c \in Conns : Once(c)
    BY <2>1 DEF vars, TurnInv, Turn, Quiet, Once
  <2> QED BY <2>1, DeviceTurn, FaultTurn, SessionTurn, OutsideTurn DEF Next
<1>3. (\A c \in Conns : Once(c)) <=>
        \A c \in Conns : peer[c] \in Devices =>
          /\ c2s[c] = NoMsg \/ c2s'[c] \in {c2s[c], NoMsg}
          /\ s2c[c] = NoMsg \/ s2c'[c] \in {s2c[c], NoMsg}
  BY DEF Once
<1> QED BY <1>1, <1>2, <1>3, Inductive, PTL DEF Spec, InFlightOnce

-----------------------------------------------------------------------------
(***************************************************************************)
(* The handshake implements MutualAuth: AnswerChallenge vouches, SendAck   *)
(* accepts, ReceiveAck takes the key and ReceiveData delivers; every other *)
(* step leaves alone what the mapping reads.                               *)
(***************************************************************************)
Vouched == [c \in Conns |-> IF dtr[c] = NoValue THEN NoValue ELSE NodeTerms(c)]
Accepted == [c \in Conns |-> IF auth[c] THEN ServerTerms(c) ELSE NoValue]
Served == {c \in Conns : got[c] # {}}
mapped == <<Vouched, Accepted, skey, dkey, Served>>

\* What the mapping reads of connection c.
SameView(c) ==
    /\ dtr'[c] = dtr[c] /\ auth'[c] = auth[c] /\ got'[c] = got[c]
    /\ dtr[c] # NoValue => peer'[c] = peer[c] /\ dsk'[c] = dsk[c]
    /\ auth[c] => shello'[c] = shello[c] /\ sentry'[c] = sentry[c]

LEMMA ViewFrame ==
    ASSUME nvs' = nvs, skey' = skey, dkey' = dkey, \A c \in Conns : SameView(c)
    PROVE  UNCHANGED mapped
<1>1. Vouched' = Vouched
  BY DEF Vouched, SameView, NodeTerms
<1>2. Accepted' = Accepted
  BY DEF Accepted, SameView, ServerTerms
<1>3. Served' = Served
  BY DEF Served, SameView
<1> QED BY <1>1, <1>2, <1>3 DEF mapped

\* What a node that has signed vouched for are terms.
LEMMA TermTypes ==
    ASSUME IInv, NEW c \in Conns, peer[c] \in Devices, dsk[c] # NoValue
    PROVE  NodeTerms(c) \in Terms /\ NodeTerms(c) # NoValue
<1>1. ConnInv(c)
  BY DEF IInv, ProtocolInv
<1>2. dsk[c] \in PubKeys
  BY <1>1, ReconAssumption DEF ConnInv, ToServerInv
<1>3. NodeTerms(c) \in Terms
  BY <1>2 DEF NodeTerms, Terms, IInv, TypeOK, NvsRefs
<1> QED BY <1>3, NoValueAssumption DEF Terms

\* A node that answers the challenge vouches for the terms of its boot.
LEMMA AnswerVouches ==
    ASSUME IInv, NEW d \in Devices, AnswerChallenge(d),
           NEW c \in Conns, c = dconn[d], NEW t, t = NodeTerms(c)
    PROVE  t \in Terms /\ Mutual!Vouch(c, t)
<1>1. /\ peer[c] = d /\ dtr[c] = NoValue /\ dsk[c] # NoValue
      /\ ~auth[c]
  BY DEF IInv, ProtocolInv, ConnInv, DeviceInv, AuthInv, OnLine, AnswerChallenge
<1>2. dtr'[c] # NoValue
  <2>1. DeviceInv(d)'
    BY AnswerChallengeStep DEF IInv, ProtocolInv
  <2>2. dpc'[d] = "wait_ack" /\ dconn'[d] = c
    BY DEF AnswerChallenge, IInv, TypeOK
  <2> QED BY <2>1, <2>2 DEF DeviceInv
<1>3. /\ dtr' = [dtr EXCEPT ![c] = dtr'[c]]
      /\ UNCHANGED <<nvs, peer, dsk, auth, shello, sentry, skey, dkey, got>>
  BY <1>1 DEF AnswerChallenge, IInv, TypeOK
<1>4. Vouched' = [Vouched EXCEPT ![c] = t]
  BY <1>1, <1>2, <1>3 DEF Vouched, NodeTerms, IInv, TypeOK
<1>5. UNCHANGED <<Accepted, skey, dkey, Served>>
  BY <1>3 DEF Accepted, Served, ServerTerms
<1>6. Vouched[c] = NoValue
  BY <1>1 DEF Vouched
<1>7. t \in Terms
  BY <1>1, TermTypes
<1> QED BY <1>4, <1>5, <1>6, <1>7 DEF Mutual!Vouch, Vouched, Accepted, Served

\* A session that sends the ack accepts what its peer has vouched for, under
\* the key of this connection.
LEMMA AckAccepts ==
    ASSUME IInv, NEW c \in Conns, SendAck(c)
    PROVE  \E k \in SessionKeys : Mutual!Accept(c, k)
<1>1. /\ ConnInv(c) /\ peer[c] \in Devices /\ dtr[c] # NoValue /\ ~auth[c]
      /\ shello[c] # NoValue /\ shello[c].ca = ChallengeA(c) /\ sentry[c] \in Entries
      /\ sentry[c].pk = dsk[c] /\ dsk[c] # NoValue
  BY ResponseMeans DEF ConnInv, SignedInv
<1>2. ServerTerms(c) = NodeTerms(c)
  BY <1>1 DEF ConnInv, SignedInv, HelloInv, ServerTerms, NodeTerms
<1>3. /\ auth' = [auth EXCEPT ![c] = TRUE]
      /\ skey' = [skey EXCEPT ![c] = SessionKey(c)]
      /\ UNCHANGED <<nvs, peer, dsk, dtr, shello, sentry, dkey, got>>
  BY <1>1, ResponseMeans DEF SendAck, SessionKey
<1>4. \A q \in Conns : skey[q] # SessionKey(c)
  <2> SUFFICES ASSUME NEW q \in Conns, skey[q] = SessionKey(c) PROVE FALSE
    OBVIOUS
  <2>1. SessionKey(c) # NoValue
    BY <1>1, NonceTypes, CryptoTypes, NoValueAssumption DEF SessionKey, Entries
  <2>2. auth[q] /\ skey[q] = SessionKey(q)
    BY <2>1 DEF IInv, ProtocolInv, ConnInv, AuthInv
  <2>3. ChallengeA(q) = ChallengeA(c)
    BY <2>2 DEF SessionKey, KeyAb
  <2> QED BY <2>2, <2>3, <1>1, NonceFresh
<1>5. Accepted' = [Accepted EXCEPT ![c] = NodeTerms(c)]
  BY <1>2, <1>3 DEF Accepted, ServerTerms, IInv, TypeOK
<1>6. UNCHANGED <<Vouched, dkey, Served>>
  BY <1>3 DEF Vouched, Served, NodeTerms
<1>7. Vouched[c] = NodeTerms(c) /\ NodeTerms(c) # NoValue /\ Accepted[c] = NoValue
  BY <1>1, TermTypes DEF Vouched, Accepted
<1>8. SessionKey(c) \in SessionKeys
  BY <1>1 DEF SessionKey, SessionKeys, Entries
<1>9. PICK k \in SessionKeys : k = SessionKey(c)
  BY <1>8
<1>10. Mutual!Accept(c, k)
  BY <1>3, <1>4, <1>5, <1>6, <1>7, <1>9 DEF Mutual!Accept, Vouched, Accepted, Served
<1> QED BY <1>10

\* A node that gets the ack takes the key of a session that has accepted.
LEMMA AckTakes ==
    ASSUME IInv, NEW d \in Devices, ReceiveAck(d), NEW c \in Conns, c = dconn[d]
    PROVE  Mutual!Take(c)
<1>1. /\ peer[c] = d /\ dtr[c] # NoValue /\ dkey[c] = NoValue
      /\ ConnInv(c) /\ s2c[c] # NoMsg /\ s2c[c].type = "session_ack"
  BY DEF IInv, ProtocolInv, DeviceInv, OnLine, ReceiveAck, AckAccepted
<1>2. auth[c] /\ dsk[c] # NoValue
  BY <1>1, FrameKinds DEF ConnInv, ToDeviceInv, SignedInv
<1>3. dkey'[c] # NoValue /\ dkey'[c] = skey'[c]
  <2>1. DeviceInv(d)' /\ KeyInv(c)'
    <3>1. IInv'
      BY ReceiveAckStep
    <3>2. DeviceInv(d)' /\ ConnInv(c)'
      BY <1>1, <3>1 DEF IInv, ProtocolInv
    <3> QED BY <3>2 DEF ConnInv
  <2>2. dpc'[d] = "established" /\ dconn'[d] = c
    BY DEF ReceiveAck, IInv, TypeOK
  <2> QED BY <2>1, <2>2 DEF DeviceInv, KeyInv
<1>4. /\ dkey' = [dkey EXCEPT ![c] = skey[c]]
      /\ UNCHANGED <<nvs, peer, dsk, dtr, auth, shello, sentry, skey, got>>
  BY <1>1, <1>3 DEF ReceiveAck, IInv, TypeOK
<1>5. UNCHANGED <<Vouched, Accepted, skey, Served>>
  BY <1>4 DEF Vouched, Accepted, Served, NodeTerms, ServerTerms
<1>6. ServerTerms(c) = NodeTerms(c)
  BY <1>1, <1>2 DEF ConnInv, SignedInv, HelloInv, AuthInv, ServerTerms, NodeTerms
<1>7. Accepted[c] # NoValue
  BY <1>1, <1>2, <1>6, TermTypes DEF Accepted
<1> QED BY <1>1, <1>4, <1>5, <1>7 DEF Mutual!Take, Vouched, Accepted, Served

\* A payload that is decrypted is delivered, on a run whose node has the key.
LEMMA DataDelivers ==
    ASSUME IInv, NEW c \in Conns, ReceiveData(c)
    PROVE  Mutual!Deliver(c) \/ UNCHANGED mapped
<1>1. UNCHANGED <<nvs, peer, dsk, dtr, auth, shello, sentry, skey, dkey>>
  BY DEF ReceiveData, Decrypts
<1>2. \A b \in Conns : b # c => got'[b] = got[b]
  BY DEF ReceiveData, Decrypts, IInv, TypeOK
<1>3. CASE got'[c] = got[c]
  BY <1>1, <1>2, <1>3, ViewFrame DEF SameView
<1>4. CASE got'[c] # got[c]
  <2>1. got[c] \subseteq got'[c]
    BY DEF ReceiveData, Decrypts, IInv, TypeOK
  <2>2. got'[c] # {}
    BY <1>4, <2>1
  <2>3. dkey'[c] # NoValue
    BY <2>2, ReceiveDataStep DEF IInv, ProtocolInv, ConnInv, KeyInv
  <2>4. Served' = Served \cup {c}
    BY <1>2, <2>2 DEF Served
  <2>5. UNCHANGED <<Vouched, Accepted, skey, dkey>>
    BY <1>1 DEF Vouched, Accepted, NodeTerms, ServerTerms
  <2> QED BY <1>1, <2>3, <2>4, <2>5 DEF Mutual!Deliver, Vouched, Accepted, Served
<1> QED BY <1>3, <1>4

\* The steps of a node that do none of this.
LEMMA DeviceView ==
    ASSUME IInv, NEW d \in Devices, DeviceStep(d) \/ DeviceFault(d),
           ~AnswerChallenge(d), ~ReceiveAck(d)
    PROVE  UNCHANGED mapped
<1>1. CASE Connect(d)
  <2> DEFINE n == nconn + 1
  <2>1. n \in Conns /\ n > nconn /\ UnusedInv(n)
    BY <1>1, NextConn DEF Connect, IInv, ProtocolInv, ConnInv
  <2>2. peer' = [peer EXCEPT ![n] = d] /\ dtr[n] = NoValue
    BY <1>1, <2>1 DEF Connect, UnusedInv
  <2>3. UNCHANGED <<nvs, dsk, dtr, dkey, auth, shello, sentry, skey, got>>
    BY <1>1 DEF Connect
  <2> HIDE DEF n
  <2>4. \A b \in Conns : SameView(b)
    BY <2>1, <2>2, <2>3 DEF SameView, IInv, TypeOK
  <2> QED BY <2>3, <2>4, ViewFrame
<1>2. ASSUME NEW k \in ReconKeys[d], StartHandshake(d, k) PROVE UNCHANGED mapped
  <2> DEFINE c == dconn[d]
  <2>1. c \in Conns /\ dsk[c] = NoValue /\ dtr[c] = NoValue
    BY <1>2 DEF StartHandshake, IInv, ProtocolInv, ConnInv, DeviceInv, SignedInv, OnLine
  <2>2. /\ dsk' = [dsk EXCEPT ![c] = k]
        /\ UNCHANGED <<nvs, peer, dtr, dkey, auth, shello, sentry, skey, got>>
    BY <1>2 DEF StartHandshake
  <2> HIDE DEF c
  <2>3. \A b \in Conns : SameView(b)
    BY <2>1, <2>2 DEF SameView, IInv, TypeOK
  <2> QED BY <2>2, <2>3, ViewFrame
<1>3. CASE ~Connect(d) /\ ~(\E k \in ReconKeys[d] : StartHandshake(d, k))
  <2>1. UNCHANGED <<nvs, peer, dsk, dtr, dkey, auth, shello, sentry, skey, got>>
    BY <1>3 DEF DeviceStep, DeviceFault, ExportOnly, RejectChallenge, RejectAck,
       ReceiveFails, SendDemo, ConnectFails, ReconstructFails, CryptoFails,
       ResetDevice
  <2> QED BY <2>1, ViewFrame DEF SameView
<1> QED BY <1>1, <1>2, <1>3

\* The steps of a session thread that do none of this: only an unauthenticated
\* session takes a hello.
LEMMA SessionView ==
    ASSUME IInv, NEW c \in Conns, SessionStep(c), ~SendAck(c), ~ReceiveData(c)
    PROVE  UNCHANGED mapped
<1>1. UNCHANGED <<nvs, peer, dsk, dtr, dkey, auth, skey, got>>
  BY DEF SessionStep, Accept, SendChallenge, RejectHello, RejectResponse,
     RaiseOnGarbage, SessionSeesEnd, SessionTimesOut
<1>2. CASE SendChallenge(c)
  <2>1. /\ \A b \in Conns : b # c => shello'[b] = shello[b] /\ sentry'[b] = sentry[b]
        /\ spc[c] = "wait_hello"
    BY <1>2 DEF SendChallenge, IInv, TypeOK
  <2>2. ~auth[c]
    BY <2>1 DEF IInv, ProtocolInv, ConnInv, HelloInv, SignedInv, AuthInv
  <2> QED BY <1>1, <2>1, <2>2, ViewFrame DEF SameView
<1>3. CASE ~SendChallenge(c)
  <2>1. UNCHANGED <<shello, sentry>>
    BY <1>3 DEF SessionStep, Accept, RejectHello, RejectResponse,
       RaiseOnGarbage, SessionSeesEnd, SessionTimesOut
  <2> QED BY <1>1, <2>1, ViewFrame DEF SameView
<1> QED BY <1>2, <1>3

\* The operator and the environment: a client's connection is a fresh one.
LEMMA OutsideView ==
    ASSUME IInv, Operator \/ Environment
    PROVE  UNCHANGED mapped
<1>1. UNCHANGED <<nvs, dsk, dtr, dkey, auth, shello, sentry, skey, got>>
  BY DEF Operator, StopServer, StartServer, RemoveNode, RegisterNode, Environment,
     ClientConnect, ResetLink, SilenceLink, ClientSend, ClientClose
<1>2. CASE ClientConnect
  <2> DEFINE n == nconn + 1
  <2>1. n \in Conns /\ n > nconn /\ UnusedInv(n)
    BY <1>2, NextConn DEF ClientConnect, IInv, ProtocolInv, ConnInv
  <2>2. peer' = [peer EXCEPT ![n] = Client] /\ dtr[n] = NoValue
    BY <1>2, <2>1 DEF ClientConnect, UnusedInv
  <2> HIDE DEF n
  <2>3. \A b \in Conns : SameView(b)
    BY <1>1, <2>1, <2>2 DEF SameView, IInv, TypeOK
  <2> QED BY <1>1, <2>3, ViewFrame
<1>3. CASE ~ClientConnect
  <2>1. peer' = peer
    BY <1>3 DEF Operator, StopServer, StartServer, RemoveNode, RegisterNode,
       Environment, ResetLink, SilenceLink, ClientSend, ClientClose
  <2> QED BY <1>1, <2>1, ViewFrame DEF SameView
<1> QED BY <1>2, <1>3

\* The handshake implements injective agreement in both directions, for every
\* fleet, registry, fault and number of connections.
THEOREM Implements == Spec => ImplementsMutualAuth
<1>1. Init => Mutual!Init
  BY DEF Init, Mutual!Init
<1>2. IInv /\ [Next]_vars => [Mutual!Next]_(Mutual!run)
  <2> SUFFICES ASSUME IInv, [Next]_vars
               PROVE  Mutual!Next \/ UNCHANGED mapped
    BY DEF Mutual!run, mapped, Vouched, Accepted, Served
  <2>1. ASSUME NEW d \in Devices, DeviceStep(d) \/ DeviceFault(d)
        PROVE  Mutual!Next \/ UNCHANGED mapped
    <3>1. CASE AnswerChallenge(d)
      <4>1. PICK c \in Conns : c = dconn[d]
        BY <3>1 DEF IInv, ProtocolInv, DeviceInv, OnLine, AnswerChallenge
      <4>2. PICK t : t = NodeTerms(c)
        OBVIOUS
      <4> QED BY <3>1, <4>1, <4>2, AnswerVouches DEF Mutual!Next
    <3>2. CASE ReceiveAck(d)
      <4>1. PICK c \in Conns : c = dconn[d]
        BY <3>2 DEF IInv, ProtocolInv, DeviceInv, OnLine, ReceiveAck
      <4> QED BY <3>2, <4>1, AckTakes DEF Mutual!Next
    <3> QED BY <2>1, <3>1, <3>2, DeviceView
  <2>2. ASSUME NEW c \in Conns, SessionStep(c)
        PROVE  Mutual!Next \/ UNCHANGED mapped
    <3>1. CASE SendAck(c)
      BY <3>1, AckAccepts DEF Mutual!Next
    <3>2. CASE ReceiveData(c)
      BY <3>2, DataDelivers DEF Mutual!Next
    <3> QED BY <2>2, <3>1, <3>2, SessionView
  <2>3. CASE Operator \/ Environment
    BY <2>3, OutsideView
  <2>4. CASE UNCHANGED vars
    BY <2>4, ViewFrame DEF SameView, vars
  <2> QED BY <2>1, <2>2, <2>3, <2>4 DEF Next
<1> QED BY <1>1, <1>2, Inductive, PTL DEF Spec, ImplementsMutualAuth, Mutual!Spec
=============================================================================
