-------------------------- MODULE SecureNodeProofs --------------------------
(***************************************************************************)
(* Theorems of SecureNode, for every number of readings, every client and  *)
(* every failure: the invariant that relates what is in flight to where    *)
(* the two programs are, what follows for the two audit chains, and that   *)
(* only a client that keeps adding frames keeps a connection going.        *)
(***************************************************************************)
EXTENDS SecureNode, Functions, SequenceTheorems, TLAPS

(***************************************************************************)
(* The inductive invariant.                                                *)
(***************************************************************************)
(* The frames that ask for an answer, and the answers. *)
Requests == {"rot_hello", "ses_init", "ses_conf", "dx_msg"}
Answers == {"rot_ack", "ses_reply", "ses_conf_ack", "dx_res"}

(* No frame of these types is in queue q; at most one is. *)
Free(q, types) == \A f \in Range(q) : f.type \notin types
AtMostOne(q, types) ==
  \A i, j \in 1 .. Len(q) : q[i].type \in types /\ q[j].type \in types => i = j

Opening == {"start", "rot_ack", "ses_reply", "conf_ack"}
Handshake == {"hello", "init", "conf"}
InData == {"data", "answered", "ended"}

(* One exchange at a time: a request or its answer is in flight, never     *)
(* both unless the client is gone, and neither before the next request.    *)
Tokens ==
  /\ AtMostOne(c2s, Requests) /\ AtMostOne(s2c, Answers)
  /\ cl \in {"start", "ready"} => Free(c2s, Requests) /\ Free(s2c, Answers)
  /\ cl = "done" \/ Free(c2s, Requests) \/ Free(s2c, Answers)

(* How far apart the two programs can be. *)
Stages ==
  /\ cl = "start" => sv \in {"hello", "ended"}
  /\ cl = "rot_ack" => sv \in {"hello", "init", "ended"}
  /\ cl = "ses_reply" => sv \in {"init", "conf", "ended"}
  /\ cl = "conf_ack" => sv \in {"conf", "data", "ended"}
  /\ cl \notin Opening \cup {"done"} => sv \in InData

(* Which request a client that is not done can have pending. *)
Asked ==
  \A f \in Range(c2s) :
    /\ f.type \in Requests =>
         /\ cl = "rot_ack" => f.type = "rot_hello"
         /\ cl = "ses_reply" => f.type = "ses_init"
         /\ cl = "conf_ack" => f.type = "ses_conf"
         /\ cl \notin Opening \cup {"done"} => f.type = "dx_msg"
    /\ f.type = "logout_req" => cl \notin Opening /\ sv \in InData

(* A pending reading was built on the chain both ends have. *)
Pending ==
  \A f \in Range(c2s) : f.type = "dx_msg" =>
    /\ sv \in InData /\ cPrv = sPrv
    /\ f.num = asked /\ m = Len(cPrv) /\ m >= 1
    /\ f.body \in {PREG(cPrv, asked), Bad}
    /\ kind # "stranger" => f.body = PREG(cPrv, asked) /\ asked = m

(* What an honest client has pending is what the server waits for. *)
Awaited ==
  kind # "stranger" /\ sv \in Handshake =>
    \A f \in Range(c2s) : f.type = Expected /\ f.body = Genesis

(* What an answer tells about the server. *)
Answered ==
  \A f \in Range(s2c) :
    /\ cl \in Opening => f.type \in Answers \cup {"error"}
    /\ f.type = "ses_reply" => f.body = Genesis
    /\ f.type \in Answers =>
         /\ cl = "rot_ack" => sv \in {"init", "ended"}
         /\ cl = "ses_reply" => sv \in {"conf", "ended"}
         /\ cl = "conf_ack" => sv \in {"data", "ended"} /\ sPrv = InitBlock(Genesis)
         /\ cl = "dx_res" => f.body = sPrv /\ sPrv = PREG(cPrv, asked)

(* The chains and the counter. *)
Chains ==
  /\ cl \in Opening => m = 0
  /\ cl \in {"start", "rot_ack", "ses_reply"} => cPrv = Genesis
  /\ cl = "conf_ack" => cPrv = InitBlock(Genesis)
  /\ cl = "ready" => cPrv = sPrv /\ Len(cPrv) = m + 1
  /\ cl = "dx_res" => Len(cPrv) = m /\ m >= 1
  /\ sv \in Handshake => sPrv = Genesis

IInv ==
  TypeOK /\ Tokens /\ Stages /\ Asked /\ Pending /\ Awaited /\ Answered /\ Chains

(***************************************************************************)
(* Queues.                                                                 *)
(***************************************************************************)
LEMMA RangeSeq ==
  ASSUME NEW q \in Seq(Frames)
  PROVE  /\ Range(q) = {q[i] : i \in 1 .. Len(q)}
         /\ Range(q) \subseteq Frames
         /\ q = <<>> <=> Range(q) = {}
<1>1. q \in [1 .. Len(q) -> Frames] /\ DOMAIN q = 1 .. Len(q) /\ Len(q) \in Nat
  BY LenProperties
<1>2. Range(q) = {q[i] : i \in 1 .. Len(q)}
  BY <1>1, Zenon DEF Range
<1>3. Range(q) \subseteq Frames
  BY <1>1, <1>2
<1>4. q # <<>> => q[1] \in Range(q)
  BY <1>1, <1>2, EmptySeq
<1>5. q = <<>> => Range(q) = {}
  BY <1>2, EmptySeq
<1> QED
  BY <1>2, <1>3, <1>4, <1>5

(* Receiving: nothing new, and with the head its token is gone. *)
LEMMA TakeHead ==
  ASSUME NEW q \in Seq(Frames), q # <<>>
  PROVE  /\ Tail(q) \in Seq(Frames) /\ Head(q) \in Range(q)
         /\ Range(Tail(q)) \subseteq Range(q)
         /\ \A T : AtMostOne(q, T) =>
              /\ AtMostOne(Tail(q), T)
              /\ Head(q).type \in T => Free(Tail(q), T)
<1>1. /\ Tail(q) \in Seq(Frames) /\ Len(Tail(q)) = Len(q) - 1 /\ Len(q) \in Nat \ {0}
      /\ \A i \in 1 .. Len(Tail(q)) : Tail(q)[i] = q[i + 1]
      /\ Head(q) = q[1]
  BY HeadTailProperties, EmptySeq
<1>2. Head(q) \in Range(q)
  BY <1>1, RangeSeq
<1>3. Range(Tail(q)) = {q[i + 1] : i \in 1 .. Len(Tail(q))}
  <2>1. Range(Tail(q)) = {Tail(q)[i] : i \in 1 .. Len(Tail(q))}
    BY <1>1, RangeSeq
  <2> QED
    BY <1>1, <2>1
<1>4. \A i \in 1 .. Len(Tail(q)) : i + 1 \in 1 .. Len(q) /\ i + 1 # 1
  BY <1>1
<1>5. Range(Tail(q)) \subseteq Range(q)
  BY <1>3, <1>4, RangeSeq
<1>6. ASSUME NEW T, AtMostOne(q, T)
      PROVE  AtMostOne(Tail(q), T)
  BY <1>1, <1>4, <1>6 DEF AtMostOne
<1>7. ASSUME NEW T, AtMostOne(q, T), Head(q).type \in T
      PROVE  Free(Tail(q), T)
  <2>1. ASSUME NEW i \in 1 .. Len(Tail(q)) PROVE q[i + 1].type \notin T
    <3>1. 1 \in 1 .. Len(q)
      BY <1>1
    <3> QED
      BY <1>1, <1>4, <1>7, <3>1 DEF AtMostOne
  <2> QED
    BY <1>3, <2>1 DEF Free
<1> QED
  BY <1>1, <1>2, <1>5, <1>6, <1>7

(* Sending: one frame more. *)
LEMMA PutLast ==
  ASSUME NEW q \in Seq(Frames), NEW f \in Frames
  PROVE  /\ Append(q, f) \in Seq(Frames) /\ q \o <<f>> \in Seq(Frames)
         /\ Range(Append(q, f)) = Range(q) \cup {f}
         /\ Range(q \o <<f>>) = Range(q) \cup {f}
         /\ \A T : AtMostOne(q, T) /\ (f.type \notin T \/ Free(q, T)) =>
              AtMostOne(Append(q, f), T) /\ AtMostOne(q \o <<f>>, T)
<1> DEFINE p == Append(q, f)
<1>1. /\ p \in Seq(Frames) /\ Len(p) = Len(q) + 1 /\ Len(q) \in Nat
      /\ \A i \in 1 .. Len(q) : p[i] = q[i]
      /\ p[Len(q) + 1] = f
  BY AppendProperties, LenProperties
<1>2. q \o <<f>> = p
  BY AppendIsConcat
<1> HIDE DEF p
<1>3. Range(p) = {p[i] : i \in 1 .. Len(q) + 1}
  BY <1>1, RangeSeq
<1>4. 1 .. Len(q) + 1 = 1 .. Len(q) \cup {Len(q) + 1}
  BY <1>1
<1>5. Range(p) = Range(q) \cup {f}
  BY <1>1, <1>3, <1>4, RangeSeq
<1>6. ASSUME NEW T, AtMostOne(q, T), f.type \notin T \/ Free(q, T)
      PROVE  AtMostOne(p, T)
  <2>1. \A i \in 1 .. Len(q) : q[i] \in Range(q)
    BY RangeSeq
  <2>2. \A i \in 1 .. Len(q) : f.type \in T => q[i].type \notin T
    BY <1>6, <2>1 DEF Free
  <2> QED
    BY <1>1, <1>4, <1>6, <2>2 DEF AtMostOne
<1> QED
  BY <1>1, <1>2, <1>5, <1>6 DEF p

(* The frames of the protocol are frames. *)
LEMMA FrameTypes ==
  /\ \A t \in Types, b \in Seq(Int) : /\ Frame(t, b) \in Frames
                                      /\ Frame(t, b).type = t /\ Frame(t, b).body = b
  /\ <<>> \in Seq(Int) /\ <<>> \in Seq(Nat) /\ <<0>> \in Seq(Nat) /\ Bad \in Seq(Int)
  /\ \A q \in Seq(Nat) : q \in Seq(Int)
  /\ LogoutRequest \in Frames /\ LogoutRequest.type = "logout_req"
<1>1. \A q \in Seq(Nat) : q \in Seq(Int)
  BY SeqMonotonic
<1>2. <<>> \in Seq(Int) /\ <<0>> \in Seq(Int) /\ <<0, 0>> \in Seq(Int) /\ <<-1>> \in Seq(Int)
      /\ <<0>> \in Seq(Nat) /\ <<>> \in Seq(Nat)
  OBVIOUS
<1>3. \A t \in Types, b \in Seq(Int) : /\ Frame(t, b) \in Frames
                                       /\ Frame(t, b).type = t /\ Frame(t, b).body = b
  BY DEF Frame, Frames
<1>4. Bad \in Seq(Int)
  BY <1>2 DEF Bad
<1>5. LogoutRequest \in Frames /\ LogoutRequest.type = "logout_req"
  <2> DEFINE b == IF kind = "pc_client" THEN <<0>> ELSE <<0, 0>>
  <2>1. b \in Seq(Int)
    BY <1>2
  <2>2. LogoutRequest = Frame("logout_req", b)
    BY DEF LogoutRequest
  <2> HIDE DEF b
  <2> QED
    BY <1>3, <2>1, <2>2 DEF Types
<1> QED
  BY <1>1, <1>2, <1>3, <1>4, <1>5, Zenon

LEMMA OpeningFrames ==
  /\ Genesis \in Seq(Int) /\ InitBlock(Genesis) \in Seq(Nat)
  /\ \A t \in {"rot_hello", "ses_init", "ses_conf"} :
       Frame(t, Genesis) \in Frames /\ Frame(t, Genesis).type = t
       /\ Frame(t, Genesis).body = Genesis
<1>1. Genesis \in Seq(Int)
  BY DEF Genesis
<1>2. InitBlock(Genesis) \in Seq(Nat)
  <2>1. Genesis \in Seq(Nat)
    BY DEF Genesis
  <2> QED
    BY <2>1, AppendProperties DEF InitBlock
<1>3. ASSUME NEW t \in {"rot_hello", "ses_init", "ses_conf"}
      PROVE  /\ Frame(t, Genesis) \in Frames /\ Frame(t, Genesis).type = t
             /\ Frame(t, Genesis).body = Genesis
  BY <1>1 DEF Frame, Frames, Types
<1> QED
  BY <1>1, <1>2, <1>3

(* A frame whose fields do not matter here. *)
LEMMA SignalTypes ==
  ASSUME NEW t \in Types
  PROVE  Frame(t, <<>>) \in Frames /\ Frame(t, <<>>).type = t
<1>1. <<>> \in Seq(Int)
  OBVIOUS
<1> QED
  BY <1>1 DEF Frame, Frames

(* A reading in the making. *)
LEMMA ReadingTypes ==
  ASSUME NEW prv \in Seq(Nat), NEW n \in Nat
  PROVE  /\ PREG(prv, n) \in Seq(Nat) /\ Len(PREG(prv, n)) = Len(prv) + 1
         /\ Reading(prv, n) \in Frames /\ Reading(prv, n).type = "dx_msg"
         /\ Reading(prv, n).body = PREG(prv, n) /\ Reading(prv, n).num = n
<1>1. PREG(prv, n) \in Seq(Nat) /\ Len(PREG(prv, n)) = Len(prv) + 1
  BY AppendProperties DEF PREG
<1>2. PREG(prv, n) \in Seq(Int)
  BY <1>1, FrameTypes
<1> HIDE DEF PREG
<1>3. /\ Reading(prv, n) \in Frames /\ Reading(prv, n).type = "dx_msg"
      /\ Reading(prv, n).body = PREG(prv, n) /\ Reading(prv, n).num = n
  BY <1>2 DEF Reading, Frames, Types
<1> QED
  BY <1>1, <1>3, Zenon

(* What the client's send_msg does to the queue. *)
LEMMA ClientPuts ==
  ASSUME TypeOK, NEW f \in Frames, NEW wait, ClientSends(f, wait), f.type # "other"
  PROVE  \E g \in Frames :
           /\ g.type \in {f.type, "other"} /\ g.body \in {f.body, Bad} /\ g.num = f.num
           /\ kind # "stranger" => g = f
           /\ c2s' \in Seq(Frames) /\ Range(c2s') \subseteq Range(c2s) \cup {g}
           /\ AtMostOne(c2s, Requests) /\ (f.type \notin Requests \/ Free(c2s, Requests))
                => AtMostOne(c2s', Requests)
<1>1. PICK g \in Sendable(f) :
        c2s' = IF link = "up" /\ sv # "ended" THEN Append(c2s, g) ELSE c2s
  BY DEF ClientSends
<1>2. /\ g \in Frames
      /\ g.type \in {f.type, "other"} /\ g.body \in {f.body, Bad} /\ g.num = f.num
      /\ kind # "stranger" => g = f
  <2>1. Bad \in Seq(Int)
    BY FrameTypes
  <2>2. \/ g = f
        \/ kind = "stranger" /\ g \in {[f EXCEPT !.body = Bad], [f EXCEPT !.type = "other"]}
    BY DEF Sendable
  <2>3. CASE g = f
    BY <2>3
  <2>4. CASE g = [f EXCEPT !.body = Bad]
    BY <2>1, <2>2, <2>4 DEF Frames
  <2>5. CASE g = [f EXCEPT !.type = "other"]
    BY <2>2, <2>5 DEF Frames, Types
  <2> QED
    BY <2>2, <2>3, <2>4, <2>5
<1>3. c2s \in Seq(Frames)
  BY DEF TypeOK
<1>4. g.type \notin Requests \/ g.type = f.type
  BY <1>2 DEF Requests
<1>5. /\ c2s' \in Seq(Frames) /\ Range(c2s') \subseteq Range(c2s) \cup {g}
      /\ AtMostOne(c2s, Requests) /\ (f.type \notin Requests \/ Free(c2s, Requests))
           => AtMostOne(c2s', Requests)
  BY <1>1, <1>2, <1>3, <1>4, PutLast
<1> QED
  BY <1>2, <1>5

(* What the server's send_msg does to the other. *)
LEMMA ServerPuts ==
  ASSUME TypeOK, NEW f \in Frames, s2c' = Delivered(<<f>>)
  PROVE  /\ s2c' \in Seq(Frames) /\ Range(s2c') \subseteq Range(s2c) \cup {f}
         /\ cl = "done" => s2c' = s2c
         /\ AtMostOne(s2c, Answers) /\ (f.type \notin Answers \/ Free(s2c, Answers))
              => AtMostOne(s2c', Answers)
  BY PutLast DEF TypeOK, Delivered

LEMMA ServerTakes ==
  ASSUME IInv, ServerReceives
  PROVE  /\ c2s' \in Seq(Frames) /\ Head(c2s) \in Range(c2s) /\ Head(c2s) \in Frames
         /\ Range(c2s') \subseteq Range(c2s) /\ AtMostOne(c2s', Requests)
         /\ Head(c2s).type \in Requests => Free(c2s', Requests)
  BY TakeHead, RangeSeq DEF IInv, TypeOK, Tokens, ServerReceives

LEMMA ClientTakes ==
  ASSUME IInv, ClientReceives
  PROVE  /\ s2c' \in Seq(Frames) /\ Head(s2c) \in Range(s2c) /\ Head(s2c) \in Frames
         /\ Range(s2c') \subseteq Range(s2c) /\ AtMostOne(s2c', Answers)
         /\ Head(s2c).type \in Answers => Free(s2c', Answers)
  BY TakeHead, RangeSeq DEF IInv, TypeOK, Tokens, ClientReceives

(* The client gives up a phase, or the program: the chains stay. *)
LEMMA ClientLeaves ==
  ASSUME IInv, UNCHANGED <<kind, asked, cPrv, server, c2s, link>>,
         cl' \in {"logout", "done"}, cl' = "logout" => cl \in {"ready", "dx_res"},
         m' = m \/ (cl = "ready" /\ m' = m + 1 /\ m' <= Sends),
         s2c' \in Seq(Frames), Range(s2c') \subseteq Range(s2c), AtMostOne(s2c', Answers)
  PROVE  IInv'
<1> USE DEF IInv, server
<1>1. TypeOK'
  BY SecureNodeAssumption DEF TypeOK
<1>2. Tokens'
  BY DEF Tokens, Free
<1>3. Stages' /\ Asked' /\ Awaited'
  BY DEF Stages, Asked, Awaited, Opening, Expected
<1>4. Pending'
  BY DEF Pending, Tokens, Free, Requests
<1>5. Answered'
  BY DEF Answered, Opening
<1>6. Chains'
  BY DEF Chains, Opening
<1> QED
  BY <1>1, <1>2, <1>3, <1>4, <1>5, <1>6

(* The server leaves the dialogue or goes on in its data loop: the chains  *)
(* stay. *)
LEMMA ServerLeaves ==
  ASSUME IInv, UNCHANGED <<kind, client, sPrv, link>>,
         sv' = "ended" \/ (sv \in {"data", "answered"} /\ sv' = "data"),
         c2s' \in Seq(Frames), Range(c2s') \subseteq Range(c2s), AtMostOne(c2s', Requests),
         s2c' \in Seq(Frames), AtMostOne(s2c', Answers),
         \A f \in Range(s2c') : \/ f \in Range(s2c) \/ f.type = "error"
                                \/ cl \notin Opening /\ f.type \in {"logout_res", "setpoint"}
  PROVE  IInv'
<1> USE DEF IInv, client
<1>1. TypeOK'
  BY DEF TypeOK
<1>2. Tokens'
  BY DEF Tokens, Free, Answers
<1>3. Stages'
  BY DEF Stages, Opening, InData
<1>4. Asked' /\ Pending'
  BY DEF Asked, Pending, InData
<1>5. Awaited' /\ Chains'
  BY DEF Awaited, Chains, Handshake
<1>6. Answered'
  BY DEF Answered, Answers, Stages
<1> QED
  BY <1>1, <1>2, <1>3, <1>4, <1>5, <1>6

(***************************************************************************)
(* The client's steps.                                                     *)
(***************************************************************************)
(* A frame of P2 or P3 is sent when its predecessor is answered. *)
LEMMA OpeningSend ==
  ASSUME IInv, NEW f \in Frames, NEW wait, ClientSends(f, wait),
         \/ f.type = "rot_hello" /\ wait = "rot_ack" /\ sv \in {"hello", "ended"}
         \/ f.type = "ses_init" /\ wait = "ses_reply" /\ sv \in {"init", "ended"}
         \/ f.type = "ses_conf" /\ wait = "conf_ack" /\ sv \in {"conf", "ended"},
         f.body = Genesis, cl \in Opening, Free(c2s, Requests),
         UNCHANGED <<kind, server, link>>,
         s2c' \in Seq(Frames), Range(s2c') \subseteq Range(s2c),
         AtMostOne(s2c', Answers), Free(s2c', Answers)
  PROVE  /\ c2s' \in Seq(Frames) /\ cl' = wait
         /\ Tokens' /\ Stages' /\ Asked' /\ Pending' /\ Awaited' /\ Answered'
<1> USE DEF IInv, server
<1>1. cl' = wait /\ f.type \in Requests /\ f.type # "other" /\ wait \in Opening
  BY DEF ClientSends, Requests, Opening
<1>2. PICK g \in Frames :
        /\ g.type \in {f.type, "other"}
        /\ kind # "stranger" => g = f
        /\ c2s' \in Seq(Frames) /\ Range(c2s') \subseteq Range(c2s) \cup {g}
        /\ AtMostOne(c2s', Requests)
  BY <1>1, ClientPuts DEF Tokens
<1>3. ASSUME NEW x \in Range(c2s')
      PROVE  x = g \/ (x \in Range(c2s) /\ x.type \notin Requests /\ x.type # "logout_req")
  BY <1>2 DEF Free, Asked
<1>a. \/ wait = "rot_ack" /\ g.type \in {"rot_hello", "other"}
      \/ wait = "ses_reply" /\ g.type \in {"ses_init", "other"}
      \/ wait = "conf_ack" /\ g.type \in {"ses_conf", "other"}
  BY <1>2
<1>b. g.type # "dx_msg" /\ g.type # "logout_req"
  BY <1>a
<1>4. Tokens' /\ Stages'
  BY <1>1, <1>2 DEF Tokens, Stages, Opening
<1>5. Asked'
  <2> SUFFICES ASSUME NEW x \in Range(c2s')
               PROVE  /\ x.type \in Requests =>
                           /\ cl' = "rot_ack" => x.type = "rot_hello"
                           /\ cl' = "ses_reply" => x.type = "ses_init"
                           /\ cl' = "conf_ack" => x.type = "ses_conf"
                           /\ cl' \notin Opening \cup {"done"} => x.type = "dx_msg"
                      /\ x.type # "logout_req"
    BY DEF Asked
  <2> QED
    <3>1. CASE x = g
      <4>1. x.type = "other" => x.type \notin Requests
        BY DEF Requests
      <4>2. /\ x.type = "rot_hello" => wait = "rot_ack"
            /\ x.type = "ses_init" => wait = "ses_reply"
            /\ x.type = "ses_conf" => wait = "conf_ack"
        BY <1>a, <3>1
      <4> QED
        BY <1>1, <1>a, <1>b, <3>1, <4>1, <4>2
    <3>2. CASE x # g
      BY <1>3, <3>2
    <3> QED
      BY <3>1, <3>2
<1>6. Pending'
  <2>1. \A x \in Range(c2s') : x.type # "dx_msg"
    BY <1>3, <1>b DEF Requests
  <2> QED
    BY <2>1 DEF Pending
<1>7. Awaited'
  <2> SUFFICES ASSUME kind # "stranger", sv \in Handshake, NEW x \in Range(c2s')
               PROVE  x.type = Expected /\ x.body = Genesis
    BY DEF Awaited, Expected
  <2>1. CASE x = g
    <3>1. g = f /\ f.body = Genesis
      BY <1>2
    <3>2. f.type = Expected
      BY DEF Expected, Handshake
    <3> QED
      BY <2>1, <3>1, <3>2
  <2>2. CASE x \in Range(c2s)
    BY <2>2 DEF Awaited
  <2> QED
    BY <1>2, <2>1, <2>2
<1>8. Answered'
  <2>1. \A x \in Range(s2c') : x \in Range(s2c) /\ x.type \notin Answers
    BY DEF Free
  <2> QED
    BY <2>1 DEF Answered
<1> QED
  BY <1>1, <1>2, <1>4, <1>5, <1>6, <1>7, <1>8

LEMMA OpeningKeeps ==
  ASSUME IInv, SendHello \/ ReceiveRotAck \/ ReceiveSesReply
  PROVE  IInv'
<1> USE DEF IInv, server
<1>1. CASE SendHello
  <2> DEFINE f == Frame("rot_hello", <<>>)
  <2>1. f \in Frames /\ f.type = "rot_hello" /\ f.body = Genesis
    BY OpeningFrames DEF Genesis
  <2>2. ClientSends(f, "rot_ack") /\ UNCHANGED <<kind, m, asked, cPrv, server, s2c, link>>
    BY <1>1 DEF SendHello
  <2> HIDE DEF f
  <2>3. /\ sv \in {"hello", "ended"} /\ cl \in Opening
        /\ Free(c2s, Requests) /\ Free(s2c, Answers) /\ AtMostOne(s2c, Answers)
        /\ cPrv = Genesis /\ m = 0 /\ s2c \in Seq(Frames)
    BY <1>1 DEF SendHello, Stages, Tokens, Chains, Opening, TypeOK
  <2>4. /\ c2s' \in Seq(Frames) /\ cl' = "rot_ack"
        /\ Tokens' /\ Stages' /\ Asked' /\ Pending' /\ Awaited' /\ Answered'
    BY <2>1, <2>2, <2>3, OpeningSend
  <2>5. TypeOK' /\ Chains'
    BY <2>2, <2>3, <2>4 DEF TypeOK, Chains, Opening
  <2> QED
    BY <2>4, <2>5
<1>2. CASE ReceiveRotAck
  <2> DEFINE f == Frame("ses_init", cPrv)
  <2>1. /\ ClientReceives /\ Head(s2c).type = "rot_ack" /\ cl = "rot_ack"
        /\ ClientSends(f, "ses_reply") /\ UNCHANGED <<kind, m, asked, cPrv, server, link>>
    BY <1>2 DEF ReceiveRotAck
  <2>2. cPrv = Genesis /\ m = 0 /\ cl \in Opening
    BY <2>1 DEF Chains, Opening
  <2>3. f \in Frames /\ f.type = "ses_init" /\ f.body = Genesis
    BY <2>2, OpeningFrames
  <2> HIDE DEF f
  <2>4. /\ s2c' \in Seq(Frames) /\ Range(s2c') \subseteq Range(s2c)
        /\ AtMostOne(s2c', Answers) /\ Free(s2c', Answers)
        /\ Head(s2c) \in Range(s2c) /\ Head(s2c).type \in Answers
    BY <2>1, ClientTakes DEF Answers
  <2>5. sv \in {"init", "ended"} /\ Free(c2s, Requests)
    BY <2>1, <2>4 DEF Answered, Tokens, Free
  <2>6. /\ c2s' \in Seq(Frames) /\ cl' = "ses_reply"
        /\ Tokens' /\ Stages' /\ Asked' /\ Pending' /\ Awaited' /\ Answered'
    BY <2>1, <2>2, <2>3, <2>4, <2>5, OpeningSend
  <2>7. TypeOK' /\ Chains'
    BY <2>1, <2>2, <2>4, <2>6 DEF TypeOK, Chains, Opening
  <2> QED
    BY <2>6, <2>7
<1>3. CASE ReceiveSesReply
  <2> DEFINE f == Frame("ses_conf", <<>>)
  <2>1. /\ ClientReceives /\ Head(s2c).type = "ses_reply" /\ cl = "ses_reply"
        /\ ClientSends(f, "conf_ack") /\ UNCHANGED <<kind, m, asked, server, link>>
        /\ cPrv' = InitBlock(Head(s2c).body)
    BY <1>3 DEF ReceiveSesReply
  <2>2. m = 0 /\ cl \in Opening
    BY <2>1 DEF Chains, Opening
  <2>3. f \in Frames /\ f.type = "ses_conf" /\ f.body = Genesis
    BY OpeningFrames DEF Genesis
  <2> HIDE DEF f
  <2>4. /\ s2c' \in Seq(Frames) /\ Range(s2c') \subseteq Range(s2c)
        /\ AtMostOne(s2c', Answers) /\ Free(s2c', Answers)
        /\ Head(s2c) \in Range(s2c) /\ Head(s2c).type \in Answers
    BY <2>1, ClientTakes DEF Answers
  <2>5. sv \in {"conf", "ended"} /\ Free(c2s, Requests) /\ Head(s2c).body = Genesis
    BY <2>1, <2>4 DEF Answered, Tokens, Free
  <2>6. /\ c2s' \in Seq(Frames) /\ cl' = "conf_ack"
        /\ Tokens' /\ Stages' /\ Asked' /\ Pending' /\ Awaited' /\ Answered'
    BY <2>1, <2>2, <2>3, <2>4, <2>5, OpeningSend
  <2>7. cPrv' = InitBlock(Genesis) /\ InitBlock(Genesis) \in Seq(Nat)
    BY <2>1, <2>5, OpeningFrames
  <2>8. TypeOK' /\ Chains'
    BY <2>1, <2>2, <2>4, <2>6, <2>7 DEF TypeOK, Chains, Opening
  <2> QED
    BY <2>6, <2>8
<1> QED
  BY <1>1, <1>2, <1>3

LEMMA ConfAckKeeps ==
  ASSUME IInv, ReceiveConfAck
  PROVE  IInv'
<1> USE DEF IInv
<1>1. /\ cl = "conf_ack" /\ cl' = "ready" /\ ClientReceives /\ Head(s2c).type # "error"
      /\ UNCHANGED <<kind, m, asked, cPrv, server, c2s, link>>
  BY DEF ReceiveConfAck
<1>2. /\ s2c' \in Seq(Frames) /\ Range(s2c') \subseteq Range(s2c)
      /\ AtMostOne(s2c', Answers) /\ Head(s2c) \in Range(s2c)
      /\ Head(s2c).type \in Answers => Free(s2c', Answers)
  BY <1>1, ClientTakes
<1>3. Head(s2c).type \in Answers
  BY <1>1, <1>2 DEF Answered, Opening
<1>4. /\ sv \in {"data", "ended"} /\ sPrv = InitBlock(Genesis) /\ Free(c2s, Requests)
  BY <1>1, <1>2, <1>3 DEF Answered, Tokens, Free
<1>5. m = 0 /\ cPrv = sPrv /\ Len(cPrv) = 1
  <2>1. Len(InitBlock(Genesis)) = 1
    BY DEF InitBlock, Genesis
  <2> QED
    BY <1>1, <1>4, <2>1 DEF Chains, Opening
<1>6. \A f \in Range(c2s) : f.type \notin Requests /\ f.type # "logout_req" /\ f.type # "dx_msg"
  BY <1>1, <1>4 DEF Free, Asked, Opening, Requests
<1>7. \A f \in Range(s2c') : f \in Range(s2c) /\ f.type \notin Answers
  BY <1>2, <1>3 DEF Free
<1>8. TypeOK' /\ Tokens' /\ Stages'
  BY <1>1, <1>2, <1>3, <1>4 DEF TypeOK, Tokens, Stages, Opening, InData, server
<1>9. Asked' /\ Pending' /\ Awaited'
  BY <1>1, <1>4, <1>6 DEF Asked, Pending, Awaited, Handshake, server
<1>10. Answered'
  BY <1>1, <1>7 DEF Answered, Opening, server
<1>11. Chains'
  BY <1>1, <1>4, <1>5 DEF Chains, Opening, Handshake, server
<1> QED
  BY <1>8, <1>9, <1>10, <1>11

LEMMA SkipKeeps ==
  ASSUME IInv, SkipSetpoint
  PROVE  IInv'
<1> USE DEF IInv
<1>1. /\ ClientReceives /\ UNCHANGED <<kind, client, server, c2s, link>>
  BY DEF SkipSetpoint
<1>2. /\ s2c' \in Seq(Frames) /\ Range(s2c') \subseteq Range(s2c) /\ AtMostOne(s2c', Answers)
  BY <1>1, ClientTakes
<1>3. TypeOK' /\ Tokens' /\ Stages'
  BY <1>1, <1>2 DEF TypeOK, Tokens, Free, Stages, client, server
<1>4. Asked' /\ Pending' /\ Awaited' /\ Answered' /\ Chains'
  BY <1>1, <1>2 DEF Asked, Pending, Awaited, Expected, Answered, Chains, client, server
<1> QED
  BY <1>3, <1>4

LEMMA SendReadingKeeps ==
  ASSUME IInv, SendReading
  PROVE  IInv'
<1> USE DEF IInv
<1> DEFINE f == Reading(cPrv, asked')
<1>1. /\ cl = "ready" /\ m < Sends /\ m' = m + 1 /\ ClientSends(f, "dx_res")
      /\ UNCHANGED <<kind, cPrv, server, s2c, link>>
  BY DEF SendReading
<1>2. /\ m \in Nat /\ m' \in 1 .. Sends /\ cPrv \in Seq(Nat)
      /\ asked' \in 0 .. Sends \cup Numbers /\ asked' \in Nat
      /\ kind # "stranger" => asked' = m'
  <2>1. /\ m \in 0 .. Sends /\ cPrv \in Seq(Nat) /\ Sends \in Nat /\ Numbers \subseteq Nat
    BY SecureNodeAssumption DEF TypeOK
  <2>2. asked' \in {m'} \cup (IF kind = "stranger" THEN Numbers ELSE {})
    BY DEF SendReading
  <2> QED
    BY <1>1, <2>1, <2>2
<1>3. /\ f \in Frames /\ f.type = "dx_msg" /\ f.body = PREG(cPrv, asked') /\ f.num = asked'
  BY <1>2, ReadingTypes
<1> HIDE DEF f
<1>4. /\ cPrv = sPrv /\ Len(cPrv) = m + 1 /\ sv \in InData
      /\ Free(c2s, Requests) /\ Free(s2c, Answers)
  BY <1>1 DEF Chains, Tokens, Stages, Opening
<1>5. cl' = "dx_res"
  BY <1>1 DEF ClientSends
<1>6. PICK g \in Frames :
        /\ g.type \in {"dx_msg", "other"} /\ g.body \in {PREG(cPrv, asked'), Bad} /\ g.num = asked'
        /\ kind # "stranger" => g = f
        /\ c2s' \in Seq(Frames) /\ Range(c2s') \subseteq Range(c2s) \cup {g}
        /\ AtMostOne(c2s', Requests)
  BY <1>1, <1>3, <1>4, ClientPuts DEF Tokens
<1>7. \A x \in Range(c2s') :
        x = g \/ (x \in Range(c2s) /\ x.type \notin Requests)
  BY <1>4, <1>6 DEF Free
<1>8. g.type \in {"dx_msg", "other"} /\ g.type # "logout_req"
  BY <1>6
<1>9. TypeOK' /\ Tokens' /\ Stages'
  BY <1>1, <1>2, <1>4, <1>5, <1>6 DEF TypeOK, Tokens, Stages, Opening, server
<1>10. Asked'
  <2>1. ASSUME NEW x \in Range(c2s')
        PROVE  /\ x.type \in Requests => x.type = "dx_msg"
               /\ x.type = "logout_req" => sv' \in InData
    BY <1>1, <1>4, <1>7, <1>8 DEF Requests, server
  <2> QED
    BY <1>5, <2>1 DEF Asked, Opening
<1>11. Pending'
  <2>1. ASSUME NEW x \in Range(c2s'), x.type = "dx_msg"
        PROVE  x = g
    BY <1>7, <2>1 DEF Requests
  <2>2. kind # "stranger" => g.body = PREG(cPrv, asked')
    BY <1>3, <1>6
  <2> QED
    BY <1>1, <1>2, <1>4, <1>6, <2>1, <2>2 DEF Pending, server
<1>12. Awaited' /\ Answered'
  BY <1>1, <1>4, <1>5 DEF Awaited, Answered, Handshake, InData, Free, Opening, server
<1>13. Chains'
  BY <1>1, <1>2, <1>4, <1>5 DEF Chains, Opening, Handshake, InData, server
<1> QED
  BY <1>9, <1>10, <1>11, <1>12, <1>13

LEMMA SendLogoutKeeps ==
  ASSUME IInv, SendLogout
  PROVE  IInv'
<1> USE DEF IInv
<1>1. /\ cl \in {"logout", "ready"} /\ ClientSends(LogoutRequest, "logout_res")
      /\ UNCHANGED <<kind, m, asked, cPrv, server, s2c, link>>
  BY DEF SendLogout
<1>2. LogoutRequest \in Frames /\ LogoutRequest.type = "logout_req"
  BY FrameTypes
<1>3. sv \in InData
  BY <1>1 DEF Stages, Opening
<1>4. cl' = "logout_res"
  BY <1>1 DEF ClientSends
<1>5. PICK g \in Frames :
        /\ g.type \in {"logout_req", "other"}
        /\ c2s' \in Seq(Frames) /\ Range(c2s') \subseteq Range(c2s) \cup {g}
        /\ AtMostOne(c2s', Requests)
  <2>1. LogoutRequest.type \notin Requests /\ LogoutRequest.type # "other"
    BY <1>2 DEF Requests
  <2> QED
    BY <1>1, <1>2, <2>1, ClientPuts DEF Tokens
<1>6. g.type \notin Requests /\ g.type # "dx_msg"
  BY <1>5 DEF Requests
<1>7. TypeOK' /\ Stages'
  BY <1>1, <1>3, <1>4, <1>5 DEF TypeOK, Stages, Opening, server
<1>8. Tokens'
  BY <1>1, <1>4, <1>5, <1>6 DEF Tokens, Free
<1>9. Asked'
  <2>1. ASSUME NEW x \in Range(c2s'), x.type \in Requests
        PROVE  x.type = "dx_msg"
    BY <1>1, <1>5, <1>6, <2>1 DEF Asked, Opening
  <2> QED
    BY <1>1, <1>3, <1>4, <2>1 DEF Asked, Opening, server
<1>10. Pending'
  BY <1>1, <1>5, <1>6 DEF Pending, server
<1>11. Awaited' /\ Answered' /\ Chains'
  BY <1>1, <1>3, <1>4 DEF Awaited, Answered, Chains, Handshake, InData, Opening, server
<1> QED
  BY <1>7, <1>8, <1>9, <1>10, <1>11

LEMMA AnswerCompletes ==
  ASSUME IInv, ReceiveDxRes
  PROVE  /\ cl = "dx_res" /\ cl' = "ready" /\ cPrv' = sPrv
         /\ sPrv = PREG(cPrv, asked) /\ Len(cPrv) = m /\ m >= 1
         /\ UNCHANGED <<kind, m, asked, server, c2s, link>>
         /\ s2c' \in Seq(Frames) /\ Range(s2c') \subseteq Range(s2c)
         /\ AtMostOne(s2c', Answers) /\ Free(s2c', Answers) /\ Free(c2s, Requests)
<1> USE DEF IInv
<1>1. /\ cl = "dx_res" /\ cl' = "ready" /\ ClientReceives /\ Head(s2c).type = "dx_res"
      /\ cPrv' = REG(PREG(cPrv, asked), Head(s2c).body)
      /\ UNCHANGED <<kind, m, asked, server, c2s, link>>
  BY DEF ReceiveDxRes
<1>2. /\ s2c' \in Seq(Frames) /\ Range(s2c') \subseteq Range(s2c)
      /\ AtMostOne(s2c', Answers) /\ Free(s2c', Answers)
      /\ Head(s2c) \in Range(s2c) /\ Head(s2c).type \in Answers
  BY <1>1, ClientTakes DEF Answers
<1>3. Head(s2c).body = sPrv /\ sPrv = PREG(cPrv, asked) /\ Free(c2s, Requests)
  BY <1>1, <1>2 DEF Answered, Tokens, Free
<1>4. cPrv' = sPrv
  BY <1>1, <1>3 DEF REG
<1>5. Len(cPrv) = m /\ m >= 1
  BY <1>1 DEF Chains
<1> QED
  BY <1>1, <1>2, <1>3, <1>4, <1>5

LEMMA DxResKeeps ==
  ASSUME IInv, ReceiveDxRes
  PROVE  IInv'
<1> USE DEF IInv
<1>1. /\ cl = "dx_res" /\ cl' = "ready" /\ cPrv' = sPrv
      /\ sPrv = PREG(cPrv, asked) /\ Len(cPrv) = m /\ m >= 1
      /\ UNCHANGED <<kind, m, asked, server, c2s, link>>
      /\ s2c' \in Seq(Frames) /\ Range(s2c') \subseteq Range(s2c)
      /\ AtMostOne(s2c', Answers) /\ Free(s2c', Answers) /\ Free(c2s, Requests)
  BY AnswerCompletes
<1>2. m \in Nat /\ asked \in Nat /\ cPrv \in Seq(Nat)
  BY SecureNodeAssumption DEF TypeOK
<1>3. Len(sPrv) = m + 1
  BY <1>1, <1>2, ReadingTypes
<1>4. TypeOK' /\ Tokens' /\ Stages'
  BY <1>1 DEF TypeOK, Tokens, Stages, Opening, server
<1>5. Asked' /\ Pending' /\ Awaited'
  <2>1. \A x \in Range(c2s') : x.type \notin Requests /\ x.type # "dx_msg"
    BY <1>1 DEF Free, Requests
  <2>2. sv' \in InData
    BY <1>1 DEF Stages, Opening, server
  <2> QED
    BY <1>1, <2>1, <2>2 DEF Asked, Pending, Awaited, InData, Handshake, Opening
<1>6. Answered'
  <2>1. \A x \in Range(s2c') : x \in Range(s2c) /\ x.type \notin Answers
    BY <1>1 DEF Free
  <2> QED
    BY <1>1, <2>1 DEF Answered, Opening, server
<1>7. Chains'
  BY <1>1, <1>3 DEF Chains, Opening, Handshake, server
<1> QED
  BY <1>4, <1>5, <1>6, <1>7

(* The steps that give up, and the failures of the link. *)
LEMMA FailuresKeep ==
  ASSUME IInv, \/ ClientSendFails \/ ReceiveLogoutRes \/ ReceiveError
               \/ ClientReceiveFails \/ ClientCrashes \/ LinkFails
  PROVE  IInv'
<1>1. s2c \in Seq(Frames) /\ AtMostOne(s2c, Answers) /\ m \in Nat /\ Sends \in Nat
  BY SecureNodeAssumption DEF IInv, TypeOK, Tokens
<1>2. CASE ClientSendFails
  <2>1. /\ cl' \in {"logout", "done"}
        /\ cl' = "logout" => cl \in {"ready", "dx_res"}
        /\ m' = m \/ (cl = "ready" /\ m' = m + 1 /\ m' <= Sends)
    BY <1>1, <1>2 DEF ClientSendFails
  <2> QED
    BY <1>1, <1>2, <2>1, ClientLeaves DEF ClientSendFails
<1>3. CASE ReceiveLogoutRes
  BY <1>3, ClientTakes, ClientLeaves DEF ReceiveLogoutRes
<1>4. CASE ReceiveError
  BY <1>4, ClientTakes, ClientLeaves DEF ReceiveError, AfterFailure
<1>5. CASE ClientReceiveFails
  BY <1>1, <1>5, ClientLeaves DEF ClientReceiveFails, AfterFailure
<1>6. CASE ClientCrashes
  BY <1>1, <1>6, ClientLeaves DEF ClientCrashes
<1>7. CASE LinkFails
  <2>1. UNCHANGED <<kind, client, server, c2s, s2c>> /\ link' \in {"reset", "silent"}
    BY <1>7 DEF LinkFails
  <2>2. TypeOK' /\ Tokens' /\ Stages' /\ Asked'
    BY <2>1 DEF IInv, TypeOK, Tokens, Stages, Asked, client, server
  <2>3. Pending' /\ Awaited' /\ Answered' /\ Chains'
    BY <2>1 DEF IInv, Pending, Awaited, Expected, Answered, Chains, client, server
  <2> QED
    BY <2>2, <2>3 DEF IInv
<1> QED
  BY <1>2, <1>3, <1>4, <1>5, <1>6, <1>7

(***************************************************************************)
(* The server's steps.                                                     *)
(***************************************************************************)
(* A request is taken and answered, or the connection turns out dead. *)
LEMMA RequestAnswered ==
  ASSUME IInv, ServerReceives, Head(c2s).type \in Requests, UNCHANGED client,
         NEW f \in Frames, f.type \in Answers, NEW next, ServerSends(f, next)
  PROVE  /\ c2s' \in Seq(Frames) /\ Range(c2s') \subseteq Range(c2s) /\ Free(c2s', Requests)
         /\ Head(c2s) \in Range(c2s)
         /\ s2c' \in Seq(Frames) /\ cl \notin {"start", "ready"}
         /\ \A x \in Range(s2c') : \/ x = f /\ sv' = next
                                   \/ x \in Range(s2c) /\ (cl = "done" \/ x.type \notin Answers)
         /\ sv' \in {next, "ended"} /\ Tokens'
<1> USE DEF IInv
<1>1. /\ c2s' \in Seq(Frames) /\ Head(c2s) \in Range(c2s)
      /\ Range(c2s') \subseteq Range(c2s) /\ AtMostOne(c2s', Requests) /\ Free(c2s', Requests)
  BY ServerTakes
<1>2. ~Free(c2s, Requests)
  BY <1>1 DEF Free
<1>3. cl = "done" \/ (cl \notin {"start", "ready"} /\ Free(s2c, Answers))
  BY <1>2 DEF Tokens
<1>4. s2c \in Seq(Frames) /\ AtMostOne(s2c, Answers)
  BY DEF TypeOK, Tokens
<1>5. CASE s2c' = Delivered(<<f>>) /\ sv' = next
  <2>1. /\ s2c' \in Seq(Frames) /\ Range(s2c') \subseteq Range(s2c) \cup {f}
        /\ cl = "done" => s2c' = s2c
        /\ AtMostOne(s2c, Answers) /\ (f.type \notin Answers \/ Free(s2c, Answers))
             => AtMostOne(s2c', Answers)
    BY <1>5, ServerPuts
  <2>2. AtMostOne(s2c', Answers)
    BY <1>3, <1>4, <2>1
  <2> QED
    BY <1>1, <1>3, <1>5, <2>1, <2>2 DEF Tokens, Free, client
<1>6. CASE s2c' = s2c /\ sv' = "ended"
  BY <1>1, <1>3, <1>4, <1>6 DEF Tokens, Free, client
<1> QED
  BY <1>5, <1>6 DEF ServerSends

LEMMA AcceptHelloKeeps ==
  ASSUME IInv, AcceptHello
  PROVE  IInv'
<1> USE DEF IInv, client
<1> DEFINE f == Frame("rot_ack", <<>>)
<1>1. /\ sv = "hello" /\ ServerReceives /\ Head(c2s).type = "rot_hello"
      /\ ServerSends(f, "init") /\ UNCHANGED <<kind, client, sPrv, link>>
  BY DEF AcceptHello, Incoming
<1>2. f \in Frames /\ f.type = "rot_ack"
  BY SignalTypes DEF Types
<1> HIDE DEF f
<1>3. /\ c2s' \in Seq(Frames) /\ Range(c2s') \subseteq Range(c2s) /\ Free(c2s', Requests)
      /\ Head(c2s) \in Range(c2s) /\ s2c' \in Seq(Frames) /\ cl \notin {"start", "ready"}
      /\ \A x \in Range(s2c') : \/ x = f /\ sv' = "init"
                                \/ x \in Range(s2c) /\ (cl = "done" \/ x.type \notin Answers)
      /\ sv' \in {"init", "ended"} /\ Tokens'
  BY <1>1, <1>2, RequestAnswered DEF Requests, Answers
<1>4. cl \in {"rot_ack", "done"}
  <2>1. Head(c2s).type \in Requests
    BY <1>1 DEF Requests
  <2> QED
    BY <1>1, <1>3, <2>1 DEF TypeOK, Asked, Opening
<1>5. \A x \in Range(c2s') : x \in Range(c2s) /\ x.type \notin Requests /\ x.type # "dx_msg"
  BY <1>3 DEF Free, Requests
<1>6. TypeOK' /\ Stages' /\ Chains'
  BY <1>1, <1>3, <1>4 DEF TypeOK, Stages, Chains, Opening, Handshake
<1>7. Asked' /\ Pending'
  BY <1>1, <1>5 DEF Asked, Pending, InData
<1>8. Awaited'
  <2>1. kind # "stranger" => Range(c2s') = {}
    BY <1>1, <1>5 DEF Awaited, Expected, Handshake, Requests
  <2> QED
    BY <1>1, <2>1 DEF Awaited
<1>9. Answered'
  BY <1>1, <1>2, <1>3, <1>4 DEF Answered, Answers, Opening
<1> QED
  BY <1>3, <1>6, <1>7, <1>8, <1>9

LEMMA AcceptInitKeeps ==
  ASSUME IInv, AcceptInit
  PROVE  IInv'
<1> USE DEF IInv, client
<1> DEFINE f == Frame("ses_reply", sPrv)
<1>1. /\ sv = "init" /\ ServerReceives /\ Head(c2s).type = "ses_init"
      /\ ServerSends(f, "conf") /\ UNCHANGED <<kind, client, sPrv, link>>
  BY DEF AcceptInit, Incoming
<1>2. f \in Frames /\ f.type = "ses_reply" /\ f.body = Genesis
  <2>1. sPrv = Genesis
    BY <1>1 DEF Chains, Handshake
  <2> QED
    BY <2>1, FrameTypes, OpeningFrames DEF Types
<1> HIDE DEF f
<1>3. /\ c2s' \in Seq(Frames) /\ Range(c2s') \subseteq Range(c2s) /\ Free(c2s', Requests)
      /\ Head(c2s) \in Range(c2s) /\ s2c' \in Seq(Frames) /\ cl \notin {"start", "ready"}
      /\ \A x \in Range(s2c') : \/ x = f /\ sv' = "conf"
                                \/ x \in Range(s2c) /\ (cl = "done" \/ x.type \notin Answers)
      /\ sv' \in {"conf", "ended"} /\ Tokens'
  BY <1>1, <1>2, RequestAnswered DEF Requests, Answers
<1>4. cl \in {"ses_reply", "done"}
  <2>1. Head(c2s).type \in Requests
    BY <1>1 DEF Requests
  <2> QED
    BY <1>1, <1>3, <2>1 DEF TypeOK, Asked, Opening
<1>5. \A x \in Range(c2s') : x \in Range(c2s) /\ x.type \notin Requests /\ x.type # "dx_msg"
  BY <1>3 DEF Free, Requests
<1>6. TypeOK' /\ Stages' /\ Chains'
  BY <1>1, <1>3, <1>4 DEF TypeOK, Stages, Chains, Opening, Handshake
<1>7. Asked' /\ Pending'
  BY <1>1, <1>5 DEF Asked, Pending, InData
<1>8. Awaited'
  <2>1. kind # "stranger" => Range(c2s') = {}
    BY <1>1, <1>5 DEF Awaited, Expected, Handshake, Requests
  <2> QED
    BY <1>1, <2>1 DEF Awaited
<1>9. Answered'
  BY <1>1, <1>2, <1>3, <1>4 DEF Answered, Answers, Opening
<1> QED
  BY <1>3, <1>6, <1>7, <1>8, <1>9

LEMMA AcceptConfKeeps ==
  ASSUME IInv, AcceptConf
  PROVE  IInv'
<1> USE DEF IInv, client
<1> DEFINE f == Frame("ses_conf_ack", <<>>)
<1>1. /\ sv = "conf" /\ ServerReceives /\ Head(c2s).type = "ses_conf"
      /\ ServerSends(f, "data") /\ UNCHANGED <<kind, client, link>>
      /\ sPrv' = InitBlock(Genesis)
  BY DEF AcceptConf, Incoming, Chains, Handshake
<1>2. f \in Frames /\ f.type = "ses_conf_ack"
  BY SignalTypes DEF Types
<1> HIDE DEF f
<1>3. /\ c2s' \in Seq(Frames) /\ Range(c2s') \subseteq Range(c2s) /\ Free(c2s', Requests)
      /\ Head(c2s) \in Range(c2s) /\ s2c' \in Seq(Frames) /\ cl \notin {"start", "ready"}
      /\ \A x \in Range(s2c') : \/ x = f /\ sv' = "data"
                                \/ x \in Range(s2c) /\ (cl = "done" \/ x.type \notin Answers)
      /\ sv' \in {"data", "ended"} /\ Tokens'
  BY <1>1, <1>2, RequestAnswered DEF Requests, Answers
<1>4. cl \in {"conf_ack", "done"}
  <2>1. Head(c2s).type \in Requests
    BY <1>1 DEF Requests
  <2> QED
    BY <1>1, <1>3, <2>1 DEF TypeOK, Asked, Opening
<1>5. \A x \in Range(c2s') : x \in Range(c2s) /\ x.type \notin Requests /\ x.type # "dx_msg"
  BY <1>3 DEF Free, Requests
<1>6. TypeOK' /\ Stages' /\ Chains'
  BY <1>1, <1>3, <1>4, OpeningFrames DEF TypeOK, Stages, Chains, Opening, Handshake, InData
<1>7. Asked' /\ Pending'
  BY <1>1, <1>5 DEF Asked, Pending, InData
<1>8. Awaited'
  BY <1>3 DEF Awaited, Handshake
<1>9. Answered'
  BY <1>1, <1>2, <1>3, <1>4 DEF Answered, Answers, Opening
<1> QED
  BY <1>3, <1>6, <1>7, <1>8, <1>9

(* The reading the server accepts was built on the chain both ends have. *)
LEMMA ReadingCommits ==
  ASSUME IInv, AcceptReading
  PROVE  /\ cPrv = sPrv /\ m = Len(cPrv) /\ m \in Nat \ {0}
         /\ kind # "stranger" => asked = m
         /\ asked \in 0 .. Sends \cup Numbers
         /\ sPrv' = PREG(sPrv, asked) /\ PREG(sPrv, asked) \in Seq(Nat) /\ UNCHANGED client
<1> USE DEF IInv
<1>1. /\ ServerReceives /\ Head(c2s).type = "dx_msg"
      /\ sPrv' = REG(Head(c2s).body, PREG(sPrv, Head(c2s).num))
      /\ Head(c2s).body = PREG(sPrv, Head(c2s).num) /\ UNCHANGED client
  BY DEF AcceptReading, Incoming
<1>2. Head(c2s) \in Range(c2s)
  BY <1>1, ServerTakes
<1>3. cPrv = sPrv /\ Head(c2s).num = asked /\ m = Len(cPrv) /\ m >= 1
      /\ (kind # "stranger" => asked = m)
  BY <1>1, <1>2 DEF Pending
<1>4. sPrv' = PREG(sPrv, asked)
  BY <1>1, <1>3 DEF REG
<1>5. m \in Nat /\ asked \in 0 .. Sends \cup Numbers /\ sPrv \in Seq(Nat)
  BY SecureNodeAssumption DEF TypeOK
<1>6. asked \in Nat
  BY <1>5, SecureNodeAssumption
<1>7. PREG(sPrv, asked) \in Seq(Nat)
  BY <1>5, <1>6, ReadingTypes
<1>8. m = Len(cPrv) /\ m \in Nat \ {0} /\ (kind # "stranger" => asked = m)
  <2> HIDE DEF IInv
  <2> QED
    BY <1>3, <1>5
<1>9. cPrv = sPrv /\ UNCHANGED client
  BY <1>1, <1>3, Zenon
<1> HIDE DEF IInv
<1> QED
  BY <1>4, <1>5, <1>7, <1>8, <1>9, Zenon

LEMMA AcceptReadingKeeps ==
  ASSUME IInv, AcceptReading
  PROVE  IInv'
<1> USE DEF IInv, client
<1> DEFINE f == Frame("dx_res", sPrv')
<1>1. /\ sv = "data" /\ ServerReceives /\ Head(c2s).type = "dx_msg"
      /\ ServerSends(f, "answered") /\ UNCHANGED <<kind, client, link>>
  BY DEF AcceptReading, Incoming
<1>2. cPrv = sPrv /\ m = Len(cPrv) /\ sPrv' = PREG(cPrv, asked) /\ sPrv' \in Seq(Nat) /\ m >= 1
  BY ReadingCommits
<1>3. f \in Frames /\ f.type = "dx_res" /\ f.body = sPrv'
  BY <1>2, FrameTypes DEF Types
<1> HIDE DEF f
<1>4. /\ c2s' \in Seq(Frames) /\ Range(c2s') \subseteq Range(c2s) /\ Free(c2s', Requests)
      /\ Head(c2s) \in Range(c2s) /\ s2c' \in Seq(Frames) /\ cl \notin {"start", "ready"}
      /\ \A x \in Range(s2c') : \/ x = f /\ sv' = "answered"
                                \/ x \in Range(s2c) /\ (cl = "done" \/ x.type \notin Answers)
      /\ sv' \in {"answered", "ended"} /\ Tokens'
  BY <1>1, <1>3, RequestAnswered DEF Requests, Answers
<1>5. cl \notin Opening
  <2>1. Head(c2s).type \in Requests
    BY <1>1 DEF Requests
  <2> QED
    BY <1>1, <1>4, <2>1 DEF Asked, Opening
<1>6. \A x \in Range(c2s') : x \in Range(c2s) /\ x.type \notin Requests /\ x.type # "dx_msg"
  BY <1>4 DEF Free, Requests
<1>7. TypeOK' /\ Stages' /\ Chains'
  BY <1>1, <1>2, <1>4, <1>5 DEF TypeOK, Stages, Chains, Opening, Handshake, InData
<1>8. Asked' /\ Pending' /\ Awaited'
  BY <1>1, <1>4, <1>5, <1>6 DEF Asked, Pending, Awaited, InData, Handshake
<1>9. Answered'
  BY <1>1, <1>2, <1>3, <1>4, <1>5 DEF Answered, Answers, Opening
<1> QED
  BY <1>4, <1>7, <1>8, <1>9

(* The steps that refuse, end the session or leave the chain alone. *)
LEMMA Quiet ==
  ASSUME IInv
  PROVE  /\ c2s \in Seq(Frames) /\ AtMostOne(c2s, Requests)
         /\ s2c \in Seq(Frames) /\ AtMostOne(s2c, Answers)
  BY DEF IInv, TypeOK, Tokens

LEMMA Unasked ==
  ASSUME IInv, NEW t \in {"error", "setpoint", "logout_res"},
         s2c' = Delivered(<<Frame(t, <<>>)>>)
  PROVE  /\ s2c' \in Seq(Frames) /\ AtMostOne(s2c', Answers)
         /\ \A x \in Range(s2c') : x \in Range(s2c) \/ x.type = t
<1>1. Frame(t, <<>>) \in Frames /\ Frame(t, <<>>).type = t
  BY SignalTypes DEF Types
<1>2. t \notin Answers
  BY DEF Answers
<1> QED
  BY <1>1, <1>2, Quiet, ServerPuts DEF IInv

LEMMA RefusalsKeep ==
  ASSUME IInv, \/ RejectHandshake \/ FinishReading \/ RejectReading \/ AcceptLogout
               \/ RejectLogout \/ IgnoreFrame \/ ServerReceiveFails
  PROVE  IInv'
<1> USE Quiet
<1>1. CASE RejectHandshake
  BY <1>1, ServerTakes, Unasked, ServerLeaves DEF RejectHandshake, Refuse
<1>2. CASE FinishReading
  <2>1. cl \notin Opening
    BY <1>2 DEF FinishReading, IInv, Stages, Opening
  <2>2. /\ sv = "answered" /\ sv' \in {"data", "ended"}
        /\ s2c' = s2c \/ s2c' = Delivered(<<Frame("setpoint", <<>>)>>)
        /\ UNCHANGED <<kind, client, sPrv, c2s, link>>
    BY <1>2 DEF FinishReading, ServerSends
  <2> QED
    BY <2>1, <2>2, Unasked, ServerLeaves
<1>3. CASE RejectReading
  BY <1>3, ServerTakes, Unasked, ServerLeaves DEF RejectReading, Refuse
<1>4. CASE AcceptLogout
  <2>1. cl \notin Opening
    BY <1>4, ServerTakes DEF AcceptLogout, Incoming, IInv, Asked
  <2> QED
    BY <1>4, <2>1, ServerTakes, Unasked, ServerLeaves DEF AcceptLogout
<1>5. CASE RejectLogout
  BY <1>5, ServerTakes, ServerLeaves DEF RejectLogout
<1>6. CASE IgnoreFrame
  BY <1>6, ServerTakes, ServerLeaves DEF IgnoreFrame, server
<1>7. CASE ServerReceiveFails
  BY <1>7, Unasked, ServerLeaves DEF ServerReceiveFails, Refuse
<1> QED
  BY <1>1, <1>2, <1>3, <1>4, <1>5, <1>6, <1>7

(* A frame that a stranger adds is none the dialogue waits for. *)
LEMMA SendMoreKeeps ==
  ASSUME IInv, SendMore
  PROVE  IInv'
<1> DEFINE g == Frame("other", <<>>)
<1>1. /\ kind = "stranger" /\ c2s' = Append(c2s, g)
      /\ UNCHANGED <<kind, client, server, s2c, link>>
  BY DEF SendMore
<1>2. g \in Frames /\ g.type = "other"
  BY SignalTypes DEF Types
<1> HIDE DEF g
<1>3. g.type \notin Requests /\ g.type \notin {"dx_msg", "logout_req"}
  BY <1>2 DEF Requests
<1>4. /\ c2s' \in Seq(Frames) /\ Range(c2s') = Range(c2s) \cup {g}
      /\ AtMostOne(c2s', Requests)
  BY <1>1, <1>2, <1>3, PutLast, Quiet DEF Free
<1>5. TypeOK' /\ Stages' /\ Chains' /\ Answered'
  BY <1>1, <1>4 DEF IInv, TypeOK, Stages, Chains, Answered, client, server
<1>6. Tokens'
  BY <1>1, <1>3, <1>4 DEF IInv, Tokens, Free, client
<1>7. Asked' /\ Pending' /\ Awaited'
  BY <1>1, <1>3, <1>4 DEF IInv, Asked, Pending, Awaited, client, server
<1> QED
  BY <1>5, <1>6, <1>7 DEF IInv

(***************************************************************************)
(* The theorems.                                                           *)
(***************************************************************************)
LEMMA InitIInv == Init => IInv
<1> SUFFICES ASSUME Init PROVE IInv
  OBVIOUS
<1>1. /\ kind \in Kinds /\ cl = "start" /\ m = 0 /\ asked = 0 /\ cPrv = <<>>
      /\ sv = "hello" /\ sPrv = <<>> /\ c2s = <<>> /\ s2c = <<>> /\ link = "up"
  BY DEF Init, Genesis
<1>2. <<>> \in Seq(Frames) /\ <<>> \in Seq(Nat) /\ Len(<<>>) = 0
  OBVIOUS
<1>3. Range(c2s) = {} /\ Range(s2c) = {}
  BY <1>1, <1>2, RangeSeq
<1>4. TypeOK
  BY <1>1, <1>2, SecureNodeAssumption DEF TypeOK
<1>5. Tokens
  BY <1>1, <1>2, <1>3 DEF Tokens, AtMostOne, Free
<1>6. Stages /\ Asked /\ Pending /\ Awaited /\ Answered
  BY <1>1, <1>3 DEF Stages, Asked, Pending, Awaited, Answered, Opening
<1>7. Chains
  BY <1>1 DEF Chains, Opening, Genesis
<1> QED
  BY <1>4, <1>5, <1>6, <1>7 DEF IInv

LEMMA StepKeeps == IInv /\ [Next]_vars => IInv'
<1> SUFFICES ASSUME IInv, [Next]_vars PROVE IInv'
  OBVIOUS
<1>1. CASE ClientStep
  BY <1>1, OpeningKeeps, ConfAckKeeps, SkipKeeps, SendReadingKeeps, SendLogoutKeeps,
     DxResKeeps, FailuresKeep DEF ClientStep
<1>2. CASE ServerStep
  BY <1>2, AcceptHelloKeeps, AcceptInitKeeps, AcceptConfKeeps, AcceptReadingKeeps,
     RefusalsKeep DEF ServerStep
<1>3. CASE LinkFails \/ ClientCrashes \/ SendMore
  BY <1>3, FailuresKeep, SendMoreKeeps
<1>4. CASE UNCHANGED vars
  <2>1. UNCHANGED <<kind, client, server, c2s, s2c, link>>
    BY <1>4 DEF vars, client, server
  <2>2. TypeOK' /\ Tokens' /\ Stages' /\ Asked'
    BY <2>1 DEF IInv, TypeOK, Tokens, Stages, Asked, client, server
  <2>3. Pending' /\ Awaited' /\ Answered' /\ Chains'
    BY <2>1 DEF IInv, Pending, Awaited, Expected, Answered, Chains, client, server
  <2> QED
    BY <2>2, <2>3 DEF IInv
<1> QED
  BY <1>1, <1>2, <1>3, <1>4 DEF Next

(* The invariant of a connection, whoever the client is and whatever fails. *)
THEOREM Inductive == Spec => []IInv
  BY InitIInv, StepKeeps, PTL DEF Spec

(* Every variable keeps its type: the counter never passes num_sends. *)
THEOREM TypeCorrect == Spec => []TypeOK
<1>1. IInv => TypeOK
  BY DEF IInv
<1> QED
  BY <1>1, Inductive, PTL

(* pc_client and a node build every reading on the block the server has. *)
THEOREM Agreement == Spec => []ChainsAgree
<1>1. IInv => ChainsAgree
  BY DEF IInv, Chains, ChainsAgree
<1> QED
  BY <1>1, Inductive, PTL

(* No handshake frame and no reading of pc_client or a node is refused. *)
THEOREM HonestServed == Spec => HonestNeverRefused
<1>1. IInv /\ [Next]_vars => [RejectHandshake \/ RejectReading => kind = "stranger"]_vars
  <2> SUFFICES ASSUME IInv, RejectHandshake \/ RejectReading, kind # "stranger"
               PROVE  FALSE
    OBVIOUS
  <2>1. Head(c2s) \in Range(c2s)
    BY ServerTakes DEF RejectHandshake, RejectReading
  <2>2. CASE RejectHandshake
    <3>1. sv \in Handshake
      BY <2>2 DEF RejectHandshake, Handshake
    <3>2. Head(c2s).type = Expected /\ Head(c2s).body = Genesis /\ sPrv = Genesis
      BY <2>1, <3>1 DEF IInv, Awaited, Chains
    <3>3. Genesis # Bad
      BY DEF Genesis, Bad
    <3> QED
      BY <2>2, <3>2, <3>3 DEF RejectHandshake
  <2>3. CASE RejectReading
    BY <2>1, <2>3 DEF RejectReading, Incoming, IInv, Pending
  <2> QED
    BY <2>2, <2>3
<1> QED
  BY <1>1, Inductive, PTL DEF Spec, HonestNeverRefused

(* The two chains as logs. *)
LEMMA EntriesOfNext ==
  ASSUME NEW p \in Seq(Nat), Len(p) >= 1, NEW n \in Nat
  PROVE  /\ Entries(p) \in Seq(Nat) /\ Len(Entries(p)) = Len(p) - 1
         /\ Entries(PREG(p, n)) = Append(Entries(p), n)
         /\ Entries(PREG(p, n)) # Entries(p)
<1>1. /\ Append(p, n) \in Seq(Nat) /\ Len(Append(p, n)) = Len(p) + 1 /\ Len(p) \in Nat
      /\ \A i \in 1 .. Len(p) : Append(p, n)[i] = p[i]
      /\ Append(p, n)[Len(p) + 1] = n
  BY AppendProperties, LenProperties
<1>2. p # <<>>
  BY EmptySeq
<1>3. /\ Tail(p) \in Seq(Nat) /\ Len(Tail(p)) = Len(p) - 1
      /\ \A i \in 1 .. Len(Tail(p)) : Tail(p)[i] = p[i + 1]
  BY <1>2, HeadTailProperties
<1>4. Entries(p) = Tail(p)
  <2>1. CASE Len(p) = 1
    <3>1. Tail(p) = <<>>
      <4>1. \A t \in Seq(Nat) : Len(t) = 0 => t = <<>>
        BY EmptySeq
      <4>2. Len(Tail(p)) = 0
        BY <1>1, <1>3, <2>1
      <4> QED
        BY <1>3, <4>1, <4>2, Zenon
    <3> QED
      BY <2>1, <3>1 DEF Entries
  <2> QED
    BY <1>1, <2>1 DEF Entries
<1>5. Entries(PREG(p, n)) = Tail(Append(p, n))
  BY <1>1 DEF Entries, PREG
<1>6. Tail(Append(p, n)) = Append(Tail(p), n)
  BY <1>1, <1>2
<1>7. Append(Tail(p), n) # Tail(p)
  <2>1. Len(Append(Tail(p), n)) = Len(Tail(p)) + 1 /\ Len(Tail(p)) \in Nat
    BY <1>3, AppendProperties, LenProperties
  <2> QED
    BY <2>1
<1>8. Entries(PREG(p, n)) = Append(Entries(p), n) /\ Entries(PREG(p, n)) # Entries(p)
  BY <1>4, <1>5, <1>6, <1>7, Zenon
<1> QED
  BY <1>3, <1>4, <1>8, Zenon

(* Who the client is does not change. *)
LEMMA KindKept ==
  ASSUME [Next]_vars
  PROVE  kind' = kind
<1>1. CASE ClientStep
  BY <1>1 DEF ClientStep, SendHello, SendReading, SendLogout, ClientSendFails,
     ReceiveRotAck, ReceiveSesReply, ReceiveConfAck, SkipSetpoint, ReceiveDxRes,
     ReceiveLogoutRes, ReceiveError, ClientReceiveFails
<1>2. CASE ServerStep
  BY <1>2 DEF ServerStep, AcceptHello, AcceptInit, AcceptConf, RejectHandshake,
     AcceptReading, FinishReading, RejectReading, AcceptLogout, RejectLogout,
     IgnoreFrame, ServerReceiveFails
<1>3. CASE LinkFails \/ ClientCrashes \/ SendMore \/ UNCHANGED vars
  BY <1>3 DEF LinkFails, ClientCrashes, SendMore, vars
<1> QED
  BY <1>1, <1>2, <1>3 DEF Next

(* Only a committed reading and its acknowledgement change the two logs,   *)
(* and they do it as the abstract audit log allows: nothing that is        *)
(* committed is lost or rewritten, and of an honest client the entries are *)
(* numbered without a gap and committed only from a chain both have        *)
(* (auth_service.py:333-365, pc_client.py:249-280). *)
THEOREM Implements == Spec => ImplementsAuditLog
<1> DEFINE cLog == Entries(cPrv)
           sLog == Entries(sPrv)
<1>1. Init => Log!Init
  BY DEF Init, Genesis, Entries, Honest, Log!Init
<1>2. IInv /\ [Next]_vars => [Log!Next]_(Log!logs)
  <2> SUFFICES ASSUME IInv, [Next]_vars
               PROVE  Log!Next \/ UNCHANGED <<Honest, cLog, sLog>>
    BY DEF Log!logs
  <2>0. Honest' = Honest
    BY KindKept DEF Honest
  <2>1. CASE AcceptReading
    <3>1. /\ cPrv = sPrv /\ m = Len(cPrv) /\ m \in Nat \ {0}
          /\ sPrv' = PREG(sPrv, asked) /\ asked \in 0 .. Sends \cup Numbers
          /\ Honest => asked = m
          /\ cPrv' = cPrv /\ sPrv \in Seq(Nat)
      BY <2>1, ReadingCommits DEF client, IInv, TypeOK, Honest
    <3>2. asked \in Nat
      BY <3>1, SecureNodeAssumption
    <3>3. sLog' = Append(sLog, asked) /\ Len(sLog) + 1 = m
      BY <3>1, <3>2, EntriesOfNext
    <3>4. cLog' = cLog /\ cLog = sLog
      BY <3>1
    <3> QED
      BY <2>0, <3>1, <3>3, <3>4 DEF Log!Next, Log!Commit
  <2>2. CASE ReceiveDxRes
    <3>1. /\ cPrv' = sPrv /\ sPrv = PREG(cPrv, asked) /\ Len(cPrv) = m /\ m >= 1
          /\ sPrv' = sPrv /\ asked \in Nat /\ cPrv \in Seq(Nat)
      BY <2>2, AnswerCompletes, SecureNodeAssumption DEF server, IInv, TypeOK
    <3>2. cLog # sLog
      BY <3>1, EntriesOfNext
    <3> QED
      BY <2>0, <3>1, <3>2 DEF Log!Next, Log!Acknowledge
  <2>3. CASE ReceiveSesReply
    <3>1. Head(s2c).body = Genesis /\ cPrv = Genesis
      <4>1. ClientReceives /\ cl = "ses_reply" /\ Head(s2c).type = "ses_reply"
        BY <2>3 DEF ReceiveSesReply
      <4> QED
        BY <4>1, ClientTakes DEF IInv, Answered, Chains
    <3>2. cPrv' = InitBlock(Genesis) /\ sPrv' = sPrv
      BY <2>3, <3>1 DEF ReceiveSesReply, server
    <3>3. Entries(InitBlock(Genesis)) = Entries(Genesis)
      BY DEF Entries, InitBlock, Genesis
    <3> QED
      BY <2>0, <3>1, <3>2, <3>3
  <2>4. CASE AcceptConf
    <3>1. sPrv = Genesis /\ sPrv' = InitBlock(sPrv) /\ cPrv' = cPrv
      BY <2>4 DEF AcceptConf, client, IInv, Chains, Handshake
    <3>2. Entries(InitBlock(Genesis)) = Entries(Genesis)
      BY DEF Entries, InitBlock, Genesis
    <3> QED
      BY <2>0, <3>1, <3>2
  <2>5. CASE UNCHANGED <<cPrv, sPrv>>
    BY <2>0, <2>5
  <2>6. \/ AcceptReading \/ ReceiveDxRes \/ ReceiveSesReply \/ AcceptConf
        \/ UNCHANGED <<cPrv, sPrv>>
    <3>1. CASE ClientStep
      BY <3>1 DEF ClientStep, SendHello, SendReading, SendLogout, ClientSendFails,
         ReceiveRotAck, ReceiveConfAck, SkipSetpoint, ReceiveLogoutRes, ReceiveError,
         ClientReceiveFails, client, server
    <3>2. CASE ServerStep
      BY <3>2 DEF ServerStep, AcceptHello, AcceptInit, RejectHandshake, FinishReading,
         RejectReading, AcceptLogout, RejectLogout, IgnoreFrame, ServerReceiveFails,
         client, server
    <3>3. CASE LinkFails \/ ClientCrashes \/ SendMore
      BY <3>3 DEF LinkFails, ClientCrashes, SendMore, client, server
    <3> QED
      BY <3>1, <3>2, <3>3 DEF Next, vars
  <2> QED
    BY <2>1, <2>2, <2>3, <2>4, <2>5, <2>6
<1> QED
  BY <1>1, <1>2, Inductive, PTL DEF Spec, ImplementsAuditLog, Log!Spec

(***************************************************************************)
(* What is left behind an answer.                                          *)
(***************************************************************************)
(* Behind an answer there is at most the set point that followed it, and   *)
(* that only once the server has sent it. *)
Behind ==
  \A i \in 1 .. Len(s2c) : s2c[i].type \in Answers =>
    /\ cl = "conf_ack" => i = Len(s2c)
    /\ cl = "dx_res" => /\ i = Len(s2c) \/ i + 1 = Len(s2c)
                        /\ i = Len(s2c) \/ s2c[i + 1].type = "setpoint"
                        /\ sv = "answered" => i = Len(s2c)

Left ==
  cl = "ready" => /\ Len(s2c) <= 1
                  /\ \A i \in 1 .. Len(s2c) : s2c[i].type = "setpoint"
                  /\ sv = "answered" => Len(s2c) = 0

Logouts == \A f \in Range(c2s) : f.type = "logout_req" => cl \in {"logout_res", "done"}

Backlog == Behind /\ Left /\ Logouts

LEMMA TailAt ==
  ASSUME IInv, ClientReceives
  PROVE  /\ Len(s2c) \in Nat \ {0} /\ Len(s2c') = Len(s2c) - 1
         /\ \A i \in 1 .. Len(s2c') : s2c'[i] = s2c[i + 1]
         /\ Head(s2c) = s2c[1]
  BY HeadTailProperties, EmptySeq DEF IInv, TypeOK, ClientReceives

LEMMA DeliveredAt ==
  ASSUME IInv, NEW t \in Types, NEW b \in Seq(Int), s2c' = Delivered(<<Frame(t, b)>>)
  PROVE  /\ Len(s2c) \in Nat
         /\ \/ s2c' = s2c
            \/ /\ Len(s2c') = Len(s2c) + 1
               /\ \A i \in 1 .. Len(s2c) : s2c'[i] = s2c[i]
               /\ s2c'[Len(s2c) + 1].type = t
<1> DEFINE f == Frame(t, b)
<1>1. f \in Frames /\ f.type = t
  BY FrameTypes
<1> HIDE DEF f
<1>2. s2c \in Seq(Frames) /\ Len(s2c) \in Nat
  BY LenProperties DEF IInv, TypeOK
<1>3. /\ s2c \o <<f>> = Append(s2c, f) /\ Len(Append(s2c, f)) = Len(s2c) + 1
      /\ \A i \in 1 .. Len(s2c) : Append(s2c, f)[i] = s2c[i]
      /\ Append(s2c, f)[Len(s2c) + 1] = f
  BY <1>1, <1>2, AppendIsConcat, AppendProperties
<1>4. s2c' = s2c \/ s2c' = s2c \o <<f>>
  BY DEF Delivered, f
<1> QED
  BY <1>1, <1>2, <1>3, <1>4

(* No answer in a queue, by position. *)
LEMMA FreeAt ==
  ASSUME NEW q \in Seq(Frames), Free(q, Answers)
  PROVE  \A i \in 1 .. Len(q) : q[i].type \notin Answers
  BY RangeSeq DEF Free

LEMMA ClientBacklog ==
  ASSUME IInv, IInv', Backlog, ClientStep
  PROVE  Backlog'
<1> USE DEF Backlog
<1>1. CASE SendHello \/ ReceiveRotAck
  <2>1. cl' \in {"rot_ack", "ses_reply"}
    BY <1>1 DEF SendHello, ReceiveRotAck, ClientSends
  <2> QED
    BY <2>1 DEF Behind, Left, Logouts, IInv, Asked, Opening
<1>2. CASE ReceiveSesReply
  <2>1. cl' = "conf_ack" /\ ClientReceives /\ Head(s2c).type \in Answers
    BY <1>2 DEF ReceiveSesReply, ClientSends, Answers
  <2>2. \A i \in 1 .. Len(s2c') : s2c'[i].type \notin Answers
    BY <2>1, ClientTakes, FreeAt
  <2> QED
    BY <2>1, <2>2 DEF Behind, Left, Logouts, IInv, Asked, Opening
<1>3. CASE ReceiveConfAck
  <2>1. /\ cl = "conf_ack" /\ cl' = "ready" /\ ClientReceives /\ c2s' = c2s
        /\ Head(s2c).type # "error"
    BY <1>3 DEF ReceiveConfAck
  <2>2. Head(s2c).type \in Answers
    BY <2>1, ClientTakes DEF IInv, Answered, Opening
  <2>3. Len(s2c) = 1
    BY <2>1, <2>2, TailAt DEF Behind
  <2>4. Len(s2c') = 0
    BY <2>1, <2>3, TailAt
  <2> QED
    BY <2>1, <2>4 DEF Behind, Left, Logouts
<1>4. CASE SendReading
  <2> DEFINE f == Reading(cPrv, asked')
  <2>1. cl = "ready" /\ cl' = "dx_res" /\ s2c' = s2c /\ ClientSends(f, "dx_res")
    BY <1>4 DEF SendReading, ClientSends
  <2>2. asked' \in Nat /\ cPrv \in Seq(Nat) /\ s2c \in Seq(Frames) /\ Free(s2c, Answers)
    BY <2>1, SecureNodeAssumption DEF IInv, TypeOK, Tokens
  <2>3. f \in Frames /\ f.type = "dx_msg"
    BY <2>2, ReadingTypes
  <2> HIDE DEF f
  <2>4. PICK g \in Frames : /\ g.type \in {"dx_msg", "other"}
                            /\ Range(c2s') \subseteq Range(c2s) \cup {g}
    BY <2>1, <2>3, ClientPuts DEF IInv
  <2>5. \A i \in 1 .. Len(s2c') : s2c'[i].type \notin Answers
    BY <2>1, <2>2, FreeAt
  <2>6. g.type # "logout_req"
    BY <2>4
  <2>7. \A x \in Range(c2s') : x.type # "logout_req"
    BY <2>1, <2>4, <2>6 DEF Logouts
  <2> QED
    BY <2>1, <2>5, <2>7 DEF Behind, Left, Logouts
<1>5. CASE SendLogout
  <2>1. cl' = "logout_res"
    BY <1>5 DEF SendLogout, ClientSends
  <2> QED
    BY <2>1 DEF Behind, Left, Logouts
<1>6. CASE SkipSetpoint
  <2>1. ClientReceives /\ cl = "dx_res" /\ UNCHANGED <<client, server, c2s>>
    BY <1>6 DEF SkipSetpoint
  <2>2. /\ Len(s2c) \in Nat \ {0} /\ Len(s2c') = Len(s2c) - 1
        /\ \A i \in 1 .. Len(s2c') : s2c'[i] = s2c[i + 1]
    BY <2>1, TailAt
  <2>3. ASSUME NEW i \in 1 .. Len(s2c'), s2c'[i].type \in Answers
        PROVE  /\ i = Len(s2c') \/ i + 1 = Len(s2c')
               /\ i = Len(s2c') \/ s2c'[i + 1].type = "setpoint"
               /\ sv = "answered" => i = Len(s2c')
    <3>1. i + 1 \in 1 .. Len(s2c) /\ s2c[i + 1].type \in Answers
      BY <2>2, <2>3
    <3>2. /\ i + 1 = Len(s2c) \/ i + 2 = Len(s2c)
          /\ i + 1 = Len(s2c) \/ s2c[(i + 1) + 1].type = "setpoint"
          /\ sv = "answered" => i + 1 = Len(s2c)
      BY <2>1, <3>1 DEF Behind
    <3>3. i # Len(s2c') => i + 1 \in 1 .. Len(s2c')
      BY <2>2
    <3> QED
      BY <2>2, <3>2, <3>3
  <2> QED
    BY <2>1, <2>3 DEF Behind, Left, Logouts, client, server
<1>7. CASE ReceiveDxRes
  <2>1. /\ ClientReceives /\ cl = "dx_res" /\ cl' = "ready" /\ Head(s2c).type \in Answers
        /\ UNCHANGED <<server, c2s>>
    BY <1>7 DEF ReceiveDxRes, Answers
  <2>2. /\ Len(s2c) \in Nat \ {0} /\ Len(s2c') = Len(s2c) - 1 /\ Head(s2c) = s2c[1]
        /\ \A i \in 1 .. Len(s2c') : s2c'[i] = s2c[i + 1]
    BY <2>1, TailAt
  <2>3. /\ Len(s2c) = 1 \/ Len(s2c) = 2
        /\ Len(s2c) = 1 \/ s2c[1 + 1].type = "setpoint"
        /\ sv = "answered" => Len(s2c) = 1
    BY <2>1, <2>2 DEF Behind
  <2>4. /\ Len(s2c') <= 1 /\ \A i \in 1 .. Len(s2c') : s2c'[i].type = "setpoint"
        /\ sv = "answered" => Len(s2c') = 0
    BY <2>2, <2>3
  <2> QED
    BY <2>1, <2>4 DEF Behind, Left, Logouts, server
<1>8. CASE ClientSendFails \/ ReceiveLogoutRes \/ ReceiveError \/ ClientReceiveFails
  <2>1. cl' \in {"logout", "done"} /\ c2s' = c2s /\ (cl' = "done" \/ cl \in {"ready", "dx_res"})
    BY <1>8 DEF ClientSendFails, ReceiveLogoutRes, ReceiveError, ClientReceiveFails,
       AfterFailure
  <2> QED
    BY <2>1 DEF Behind, Left, Logouts
<1> QED
  BY <1>1, <1>2, <1>3, <1>4, <1>5, <1>6, <1>7, <1>8 DEF ClientStep

LEMMA ServerBacklog ==
  ASSUME IInv, Backlog, ServerStep
  PROVE  Backlog'
<1> USE DEF Backlog
<1>0. cl' = cl
  BY DEF ServerStep, AcceptHello, AcceptInit, AcceptConf, RejectHandshake, AcceptReading,
     FinishReading, RejectReading, AcceptLogout, RejectLogout, IgnoreFrame,
     ServerReceiveFails, client
<1>1. Logouts'
  <2>1. c2s' = c2s \/ ServerReceives
    BY DEF ServerStep, AcceptHello, AcceptInit, AcceptConf, RejectHandshake, AcceptReading,
       FinishReading, RejectReading, AcceptLogout, RejectLogout, IgnoreFrame,
       ServerReceiveFails
  <2>2. Range(c2s') \subseteq Range(c2s)
    BY <2>1, ServerTakes
  <2> QED
    BY <1>0, <2>2 DEF Logouts
<1>2. ASSUME cl \notin {"conf_ack", "dx_res", "ready"} \/ (s2c' = s2c /\ sv' # "answered")
      PROVE  Behind' /\ Left'
  BY <1>0, <1>2 DEF Behind, Left
<1>3. CASE sv \in Handshake /\ s2c' = Delivered(<<Frame("error", <<>>)>>) /\ sv' = "ended"
  <2>1. cl = "conf_ack" \/ cl \notin {"conf_ack", "dx_res", "ready"}
    BY <1>3 DEF IInv, Stages, Opening, InData, Handshake
  <2>2. ASSUME cl = "conf_ack", NEW i \in 1 .. Len(s2c') PROVE s2c'[i].type \notin Answers
    <3>1. sv \notin {"data", "ended"}
      BY <1>3 DEF Handshake
    <3>2. \A j \in 1 .. Len(s2c) : s2c[j] \in Range(s2c)
      BY RangeSeq DEF IInv, TypeOK
    <3>3. \A j \in 1 .. Len(s2c) : s2c[j].type \notin Answers
      BY <2>2, <3>1, <3>2 DEF IInv, Answered
    <3>4. "error" \in Types /\ <<>> \in Seq(Int) /\ "error" \notin Answers
      BY DEF Types, Answers
    <3>5. \/ s2c' = s2c
          \/ /\ Len(s2c') = Len(s2c) + 1 /\ Len(s2c) \in Nat
             /\ \A j \in 1 .. Len(s2c) : s2c'[j] = s2c[j]
             /\ s2c'[Len(s2c) + 1].type = "error"
      BY <1>3, <3>4, DeliveredAt
    <3>6. i \in 1 .. Len(s2c) \/ (i = Len(s2c) + 1 /\ s2c'[i].type = "error")
      BY <3>5
    <3> QED
      BY <3>3, <3>4, <3>5, <3>6
  <2> QED
    BY <1>0, <1>1, <2>1, <2>2 DEF Behind, Left
<1>4. CASE AcceptHello \/ AcceptInit
  <2>1. cl \notin {"conf_ack", "dx_res", "ready"}
    BY <1>4 DEF AcceptHello, AcceptInit, IInv, Stages, Opening, InData
  <2> QED
    BY <1>1, <1>2, <2>1
<1>5. CASE AcceptConf
  <2>1. sv = "conf" /\ sv' \in {"data", "ended"} /\ Head(c2s).type \in Requests /\ ServerReceives
    BY <1>5 DEF AcceptConf, ServerSends, Incoming, Requests
  <2>2. cl = "conf_ack" \/ cl \notin {"conf_ack", "dx_res", "ready"}
    BY <2>1 DEF IInv, Stages, Opening, InData
  <2>3. cl = "conf_ack" => Free(s2c, Answers) /\ s2c \in Seq(Frames)
    BY <2>1, ServerTakes DEF IInv, TypeOK, Tokens, Free
  <2>4. s2c' = s2c \/ s2c' = Delivered(<<Frame("ses_conf_ack", <<>>)>>)
    BY <1>5 DEF AcceptConf, ServerSends
  <2>5. ASSUME cl = "conf_ack", NEW i \in 1 .. Len(s2c'), s2c'[i].type \in Answers
        PROVE  i = Len(s2c')
    <3>1. \A j \in 1 .. Len(s2c) : s2c[j].type \notin Answers
      BY <2>3, <2>5, FreeAt
    <3>2. "ses_conf_ack" \in Types /\ <<>> \in Seq(Int)
      BY DEF Types
    <3>3. \/ s2c' = s2c
          \/ /\ Len(s2c') = Len(s2c) + 1 /\ Len(s2c) \in Nat
             /\ \A j \in 1 .. Len(s2c) : s2c'[j] = s2c[j]
      BY <2>4, <3>2, DeliveredAt
    <3> QED
      BY <2>5, <3>1, <3>3
  <2> QED
    BY <1>0, <1>1, <2>2, <2>5 DEF Behind, Left
<1>6. CASE AcceptReading \/ RejectReading
  <2>1. /\ sv = "data" /\ Head(c2s).type = "dx_msg" /\ ServerReceives
        /\ Head(c2s).type \in Requests
    BY <1>6 DEF AcceptReading, RejectReading, Incoming, Requests
  <2>2. cl = "dx_res" \/ cl \notin {"conf_ack", "dx_res", "ready"}
    BY <2>1, ServerTakes DEF IInv, Asked, Tokens, Free
  <2>3. cl = "dx_res" => Free(s2c, Answers) /\ s2c \in Seq(Frames)
    BY <2>1, ServerTakes DEF IInv, TypeOK, Tokens, Free
  <2>4. \/ s2c' = s2c
        \/ /\ Len(s2c') = Len(s2c) + 1 /\ Len(s2c) \in Nat
           /\ \A j \in 1 .. Len(s2c) : s2c'[j] = s2c[j]
    <3>1. \/ s2c' = s2c \/ s2c' = Delivered(<<Frame("dx_res", sPrv')>>)
          \/ s2c' = Delivered(<<Frame("error", <<>>)>>)
      BY <1>6 DEF AcceptReading, RejectReading, ServerSends, Refuse
    <3>2. AcceptReading => sPrv' \in Seq(Int)
      BY ReadingCommits, FrameTypes
    <3>3. RejectReading => s2c' = Delivered(<<Frame("error", <<>>)>>)
      BY DEF RejectReading, Refuse
    <3>4. AcceptReading => s2c' = s2c \/ s2c' = Delivered(<<Frame("dx_res", sPrv')>>)
      BY DEF AcceptReading, ServerSends
    <3>5. {"dx_res", "error"} \subseteq Types /\ <<>> \in Seq(Int)
      BY DEF Types
    <3> QED
      BY <1>6, <3>2, <3>3, <3>4, <3>5, DeliveredAt
  <2>5. ASSUME cl = "dx_res", NEW i \in 1 .. Len(s2c'), s2c'[i].type \in Answers
        PROVE  i = Len(s2c')
    <3>1. \A j \in 1 .. Len(s2c) : s2c[j].type \notin Answers
      BY <2>3, <2>5, FreeAt
    <3> QED
      BY <2>4, <2>5, <3>1
  <2> QED
    BY <1>0, <1>1, <2>2, <2>5 DEF Behind, Left
<1>7. CASE FinishReading
  <2>1. /\ sv = "answered" /\ sv' # "answered"
        /\ s2c' = s2c \/ s2c' = Delivered(<<Frame("setpoint", <<>>)>>)
    BY <1>7 DEF FinishReading, ServerSends
  <2>2. cl # "conf_ack"
    BY <2>1 DEF IInv, Stages
  <2>3. "setpoint" \in Types /\ <<>> \in Seq(Int) /\ "setpoint" \notin Answers
    BY DEF Types, Answers
  <2>4. \/ s2c' = s2c
        \/ /\ Len(s2c') = Len(s2c) + 1 /\ Len(s2c) \in Nat
           /\ \A i \in 1 .. Len(s2c) : s2c'[i] = s2c[i]
           /\ s2c'[Len(s2c) + 1].type = "setpoint"
    BY <2>1, <2>3, DeliveredAt
  <2>5. CASE s2c' = s2c
    BY <1>1, <1>2, <2>1, <2>5
  <2>6. CASE /\ Len(s2c') = Len(s2c) + 1 /\ Len(s2c) \in Nat
             /\ \A i \in 1 .. Len(s2c) : s2c'[i] = s2c[i]
             /\ s2c'[Len(s2c) + 1].type = "setpoint"
    <3>1. Left'
      BY <1>0, <2>1, <2>6 DEF Left
    <3>2. ASSUME cl = "dx_res", NEW i \in 1 .. Len(s2c'), s2c'[i].type \in Answers
          PROVE  i + 1 = Len(s2c')
      <4>1. i \in 1 .. Len(s2c)
        BY <2>3, <2>6, <3>2
      <4>2. i = Len(s2c)
        BY <2>1, <2>6, <3>2, <4>1 DEF Behind
      <4> QED
        BY <2>6, <4>2
    <3>3. s2c'[Len(s2c')].type = "setpoint"
      BY <2>6
    <3> QED
      BY <1>0, <1>1, <2>1, <2>2, <3>1, <3>2, <3>3 DEF Behind
  <2> QED
    BY <2>4, <2>5, <2>6
<1>8. CASE AcceptLogout
  <2>1. cl \notin {"conf_ack", "dx_res", "ready"}
    BY <1>8, ServerTakes DEF AcceptLogout, Incoming, Logouts
  <2> QED
    BY <1>1, <1>2, <2>1
<1>9. CASE RejectLogout \/ IgnoreFrame
  BY <1>1, <1>2, <1>9 DEF RejectLogout, IgnoreFrame, server
<1>10. CASE RejectHandshake
  BY <1>3, <1>10 DEF RejectHandshake, Refuse, Handshake
<1>11. CASE ServerReceiveFails
  BY <1>1, <1>2, <1>3, <1>11 DEF ServerReceiveFails, Refuse, Handshake
<1> QED
  BY <1>4, <1>5, <1>6, <1>7, <1>8, <1>9, <1>10, <1>11 DEF ServerStep

(* A client about to send has at most the last set point to skip. *)
THEOREM BacklogKept == Spec => []BacklogBounded
<1>1. Init => Backlog
  <2>1. ASSUME Init PROVE cl = "start" /\ Len(s2c) = 0 /\ Range(c2s) = {}
    <3>1. c2s = <<>> /\ s2c = <<>> /\ <<>> \in Seq(Frames)
      BY <2>1 DEF Init
    <3> QED
      BY <2>1, <3>1, RangeSeq DEF Init
  <2> QED
    BY <2>1 DEF Backlog, Behind, Left, Logouts
<1>2. IInv /\ IInv' /\ Backlog /\ [Next]_vars => Backlog'
  <2> SUFFICES ASSUME IInv, IInv', Backlog, [Next]_vars PROVE Backlog'
    OBVIOUS
  <2>1. CASE LinkFails \/ ClientCrashes \/ UNCHANGED vars
    <3>1. /\ s2c' = s2c /\ c2s' = c2s /\ sv' = sv
          /\ cl' = cl \/ cl' = "done"
      BY <2>1 DEF LinkFails, ClientCrashes, vars, client, server
    <3> QED
      BY <3>1 DEF Backlog, Behind, Left, Logouts
  <2>2. CASE SendMore
    <3>1. /\ s2c' = s2c /\ sv' = sv /\ cl' = cl
          /\ c2s' = Append(c2s, Frame("other", <<>>))
      BY <2>2 DEF SendMore, client, server
    <3>2. Range(c2s') = Range(c2s) \cup {Frame("other", <<>>)}
          /\ Frame("other", <<>>).type = "other"
      BY <3>1, SignalTypes, PutLast, Quiet DEF Types
    <3> QED
      BY <3>1, <3>2 DEF Backlog, Behind, Left, Logouts
  <2> QED
    BY <2>1, <2>2, ClientBacklog, ServerBacklog DEF Next
<1>3. Backlog => BacklogBounded
  BY DEF Backlog, Left, BacklogBounded
<1> QED
  BY <1>1, <1>2, <1>3, Inductive, PTL DEF Spec

(***************************************************************************)
(* Every connection comes to its end: the measure of how much is left to   *)
(* do.                                                                     *)
(***************************************************************************)
(* What the client has before it: a reading is at most a frame sent, four  *)
(* steps of the server over it, and the answer.  P4 can be left for the    *)
(* logout from every reading, and nothing leads back. *)
ReadingsLeft == 6 * (Sends - m)
ClientFuel ==
  CASE cl = "start"      -> ReadingsLeft + 21
    [] cl = "rot_ack"    -> ReadingsLeft + 16
    [] cl = "ses_reply"  -> ReadingsLeft + 12
    [] cl = "conf_ack"   -> ReadingsLeft + 8
    [] cl = "dx_res"     -> ReadingsLeft + 8
    [] cl = "ready"      -> ReadingsLeft + 7
    [] cl = "logout"     -> 6
    [] cl = "logout_res" -> 1
    [] OTHER             -> 0

(* A reading that is answered may still be followed by its set point. *)
ServerFuel ==
  CASE sv = "answered" -> 4
    [] sv = "ended"    -> 0
    [] OTHER           -> 2

LinkFuel == IF link = "up" THEN 1 ELSE 0

(* A frame to the server costs it a step, an answer and a set point. *)
Fuel == ClientFuel + ServerFuel + LinkFuel + 4 * Len(c2s) + Len(s2c)
MostSteps == 6 * Sends + 24
FuelCounts == Fuel \in Nat
FuelBounded == Fuel \in 0 .. MostSteps
HonestBounded == Honest => FuelBounded

LEMMA FuelParts ==
  ASSUME TypeOK
  PROVE  /\ ClientFuel \in 0 .. 6 * Sends + 21 /\ ServerFuel \in {0, 2, 4}
         /\ LinkFuel \in {0, 1} /\ Len(c2s) \in Nat /\ Len(s2c) \in Nat
         /\ Fuel \in Nat
<1>1. Len(c2s) \in Nat /\ Len(s2c) \in Nat
  BY LenProperties DEF TypeOK
<1>2. Sends \in Nat /\ ReadingsLeft \in 0 .. 6 * Sends
  BY SecureNodeAssumption DEF TypeOK, ReadingsLeft
<1>3. ClientFuel \in 0 .. 6 * Sends + 21
  <2>1. ClientFuel \in {ReadingsLeft + 21, ReadingsLeft + 16, ReadingsLeft + 12,
                        ReadingsLeft + 8, ReadingsLeft + 7, 6, 1, 0}
    BY DEF ClientFuel
  <2> HIDE DEF ClientFuel, ReadingsLeft
  <2> QED
    BY <1>2, <2>1
<1>4. ServerFuel \in {0, 2, 4} /\ LinkFuel \in {0, 1}
  BY DEF ServerFuel, LinkFuel
<1>5. Fuel \in Nat
  BY <1>1, <1>3, <1>4, SecureNodeAssumption DEF Fuel
<1> QED
  BY <1>1, <1>3, <1>4, <1>5

(* How long a queue is after a frame was put in or taken out. *)
LEMMA QueueLengths ==
  ASSUME NEW q \in Seq(Frames), NEW f
  PROVE  /\ Len(Append(q, f)) = Len(q) + 1 /\ Len(q \o <<f>>) = Len(q) + 1
         /\ q # <<>> => Len(Tail(q)) = Len(q) - 1
<1> DEFINE S == Frames \cup {f}
<1>1. q \in Seq(S)
  BY SeqMonotonic
<1>2. f \in S
  OBVIOUS
<1> HIDE DEF S
<1>3. Len(Append(q, f)) = Len(q) + 1 /\ q \o <<f>> = Append(q, f)
  BY <1>1, <1>2, AppendProperties, AppendIsConcat
<1>4. q # <<>> => Len(Tail(q)) = Len(q) - 1
  BY HeadTailProperties
<1> QED
  BY <1>3, <1>4

LEMMA SendLengths ==
  ASSUME TypeOK, NEW f, NEW wait, ClientSends(f, wait)
  PROVE  /\ Len(c2s') \in {Len(c2s), Len(c2s) + 1} /\ cl' = wait
<1>1. PICK g \in Sendable(f) : c2s' = c2s \/ c2s' = Append(c2s, g)
  BY DEF ClientSends
<1>2. Len(c2s') \in {Len(c2s), Len(c2s) + 1}
  BY <1>1, QueueLengths DEF TypeOK
<1> QED
  BY <1>2 DEF ClientSends

LEMMA AnswerLengths ==
  ASSUME TypeOK, NEW f
  PROVE  /\ s2c' = Delivered(<<f>>) => Len(s2c') \in {Len(s2c), Len(s2c) + 1}
         /\ \A next : ServerSends(f, next) =>
              Len(s2c') \in {Len(s2c), Len(s2c) + 1} /\ sv' \in {next, "ended"}
<1>1. s2c' = Delivered(<<f>>) => Len(s2c') \in {Len(s2c), Len(s2c) + 1}
  <2>1. s2c' = Delivered(<<f>>) => s2c' = s2c \/ s2c' = s2c \o <<f>>
    BY DEF Delivered
  <2> QED
    BY <2>1, QueueLengths DEF TypeOK
<1> QED
  BY <1>1 DEF ServerSends

LEMMA ClientSpends ==
  ASSUME TypeOK, ClientStep
  PROVE  Fuel' < Fuel
<1> DEFINE R == 6 * (Sends - m)
<1>0. /\ Len(c2s) \in Nat /\ Len(s2c) \in Nat /\ ServerFuel \in Nat /\ LinkFuel \in Nat
      /\ ClientFuel \in Nat /\ R \in Nat /\ ReadingsLeft = R /\ m \in Nat
  BY FuelParts, SecureNodeAssumption DEF TypeOK, ReadingsLeft
<1>a. ClientStep => UNCHANGED <<server, link>>
  BY DEF ClientStep, SendHello, SendReading, SendLogout, ClientSendFails, ReceiveRotAck,
     ReceiveSesReply, ReceiveConfAck, SkipSetpoint, ReceiveDxRes, ReceiveLogoutRes,
     ReceiveError, ClientReceiveFails
<1>b. Fuel' = ClientFuel' + ServerFuel + LinkFuel + 4 * Len(c2s') + Len(s2c')
  <2>1. ServerFuel' = ServerFuel /\ LinkFuel' = LinkFuel
    BY <1>a DEF ServerFuel, LinkFuel, server
  <2> QED
    BY <2>1, Zenon DEF Fuel
<1>c. ClientReceives => Len(s2c') = Len(s2c) - 1
  BY QueueLengths DEF ClientReceives, TypeOK
<1>d. SUFFICES ClientFuel' \in Int /\ Len(c2s') \in Int /\ Len(s2c') \in Int
               /\ ClientFuel' + 4 * Len(c2s') + Len(s2c') < ClientFuel + 4 * Len(c2s) + Len(s2c)
  <2> DEFINE x == ClientFuel' y == Len(c2s') z == Len(s2c')
  <2>1. Fuel' = x + ServerFuel + LinkFuel + 4 * y + z
    BY <1>b
  <2> HIDE DEF x, y, z
  <2>2. ASSUME x \in Int, y \in Int, z \in Int, x + 4 * y + z < ClientFuel + 4 * Len(c2s) + Len(s2c)
        PROVE  Fuel' < Fuel
    BY <1>0, <2>1, <2>2 DEF Fuel
  <2> QED
    BY <2>2 DEF x, y, z
<1> HIDE DEF R
<1>1. CASE SendHello
  <2>1. /\ cl = "start" /\ cl' = "rot_ack" /\ UNCHANGED <<m, s2c>>
        /\ Len(c2s') \in {Len(c2s), Len(c2s) + 1}
    BY <1>1, SendLengths DEF SendHello
  <2>2. ClientFuel = R + 21 /\ ClientFuel' = R + 16
    BY <1>0, <2>1 DEF ClientFuel, ReadingsLeft
  <2> QED
    BY <1>0, <2>1, <2>2
<1>2. CASE SendReading
  <2>1. /\ cl = "ready" /\ cl' = "dx_res" /\ m' = m + 1 /\ s2c' = s2c
        /\ Len(c2s') \in {Len(c2s), Len(c2s) + 1}
    BY <1>2, SendLengths DEF SendReading
  <2>2. ReadingsLeft' = R - 6
    BY <1>0, <2>1, SecureNodeAssumption DEF R, ReadingsLeft
  <2>3. ClientFuel = R + 7 /\ ClientFuel' = R + 2
    BY <1>0, <2>1, <2>2 DEF ClientFuel
  <2> QED
    BY <1>0, <2>1, <2>3
<1>3. CASE SendLogout
  <2>1. /\ cl \in {"logout", "ready"} /\ cl' = "logout_res" /\ s2c' = s2c
        /\ Len(c2s') \in {Len(c2s), Len(c2s) + 1}
    BY <1>3, SendLengths DEF SendLogout
  <2>2. ClientFuel >= 6 /\ ClientFuel' = 1
    BY <1>0, <2>1 DEF ClientFuel
  <2> QED
    BY <1>0, <2>1, <2>2
<1>4. CASE ClientSendFails
  <2>1. /\ UNCHANGED <<c2s, s2c>>
        /\ \/ cl = "ready" /\ cl' = "logout"
           \/ cl \in {"start", "ready", "logout"} /\ cl' = "done"
    BY <1>4 DEF ClientSendFails
  <2>2. ClientFuel' \in Int /\ ClientFuel' < ClientFuel
    BY <1>0, <2>1 DEF ClientFuel
  <2> QED
    BY <1>0, <2>1, <2>2
<1>5. CASE ReceiveRotAck \/ ReceiveSesReply
  <2>1. /\ \/ cl = "rot_ack" /\ cl' = "ses_reply"
           \/ cl = "ses_reply" /\ cl' = "conf_ack"
        /\ m' = m /\ Len(c2s') \in {Len(c2s), Len(c2s) + 1} /\ Len(s2c') = Len(s2c) - 1
    BY <1>5, <1>c, SendLengths DEF ReceiveRotAck, ReceiveSesReply
  <2>2. ReadingsLeft' = R
    BY <1>0, <2>1 DEF ReadingsLeft
  <2>3. cl = "rot_ack" => ClientFuel = R + 16
    BY <1>0 DEF ClientFuel
  <2>4. cl = "ses_reply" => ClientFuel = R + 12
    BY <1>0 DEF ClientFuel
  <2>5. cl' = "ses_reply" => ClientFuel' = R + 12
    BY <2>2 DEF ClientFuel
  <2>6. cl' = "conf_ack" => ClientFuel' = R + 8
    BY <2>2 DEF ClientFuel
  <2>7. \/ ClientFuel = R + 16 /\ ClientFuel' = R + 12
        \/ ClientFuel = R + 12 /\ ClientFuel' = R + 8
    BY <2>1, <2>3, <2>4, <2>5, <2>6
  <2> QED
    BY <1>0, <2>1, <2>7
<1>6. CASE ReceiveConfAck \/ ReceiveDxRes
  <2>1. /\ cl \in {"conf_ack", "dx_res"} /\ cl' = "ready" /\ UNCHANGED <<m, c2s>>
        /\ Len(s2c') = Len(s2c) - 1
    BY <1>6, <1>c DEF ReceiveConfAck, ReceiveDxRes
  <2>2. ClientFuel = R + 8 /\ ClientFuel' = R + 7
    BY <1>0, <2>1 DEF ClientFuel, ReadingsLeft
  <2> QED
    BY <1>0, <2>1, <2>2
<1>7. CASE SkipSetpoint
  <2>1. UNCHANGED <<cl, m, c2s>> /\ Len(s2c') = Len(s2c) - 1
    BY <1>7, <1>c DEF SkipSetpoint, client
  <2>2. ClientFuel' = ClientFuel
    BY <2>1 DEF ClientFuel, ReadingsLeft
  <2> QED
    BY <1>0, <2>1, <2>2
<1>8. CASE ReceiveLogoutRes \/ ReceiveError \/ ClientReceiveFails
  <2>1. /\ c2s' = c2s /\ Len(s2c') \in {Len(s2c), Len(s2c) - 1}
        /\ cl \in {"rot_ack", "ses_reply", "conf_ack", "dx_res", "logout_res"}
        /\ cl' = "done" \/ (cl = "dx_res" /\ cl' = "logout")
    BY <1>8, <1>c DEF ReceiveLogoutRes, ReceiveError, ClientReceiveFails, AfterFailure
  <2>2. ClientFuel' \in Int /\ ClientFuel' < ClientFuel
    BY <1>0, <2>1 DEF ClientFuel
  <2> QED
    BY <1>0, <2>1, <2>2
<1> QED
  BY <1>1, <1>2, <1>3, <1>4, <1>5, <1>6, <1>7, <1>8 DEF ClientStep

(* A frame taken pays for an answer and for a set point to come. *)
LEMMA FramePays ==
  ASSUME NEW c \in Nat, NEW l \in Nat, NEW s \in Nat, NEW t \in Nat, t <= s + 2,
         NEW n \in Nat, NEW a \in Nat, NEW b \in Nat, b <= a + 1
  PROVE  c + t + l + 4 * (n - 1) + b < c + s + l + 4 * n + a
OBVIOUS

LEMMA ServerSpends ==
  ASSUME TypeOK, ServerStep
  PROVE  Fuel' < Fuel
<1>0. /\ Len(c2s) \in Nat /\ Len(s2c) \in Nat /\ ServerFuel \in {0, 2, 4} /\ LinkFuel \in Nat
      /\ ClientFuel \in Nat
  BY FuelParts
<1>a. UNCHANGED <<client, link>>
  BY DEF ServerStep, AcceptHello, AcceptInit, AcceptConf, RejectHandshake, AcceptReading,
     FinishReading, RejectReading, AcceptLogout, RejectLogout, IgnoreFrame,
     ServerReceiveFails
<1>b. /\ Fuel' = ClientFuel + ServerFuel' + LinkFuel + 4 * Len(c2s') + Len(s2c')
      /\ Fuel = ClientFuel + ServerFuel + LinkFuel + 4 * Len(c2s) + Len(s2c)
  <2>1. ClientFuel' = ClientFuel /\ LinkFuel' = LinkFuel
    BY <1>a DEF ClientFuel, ReadingsLeft, LinkFuel, client
  <2> QED
    BY <2>1, Zenon DEF Fuel
<1>c. ServerReceives => Len(c2s') = Len(c2s) - 1
  BY QueueLengths DEF ServerReceives, TypeOK
<1>d. Refuse => Len(s2c') \in {Len(s2c), Len(s2c) + 1} /\ sv' = "ended"
  BY AnswerLengths DEF Refuse
<1>e. ASSUME Len(c2s') = Len(c2s) - 1, Len(s2c') \in {Len(s2c), Len(s2c) + 1},
             ServerFuel' \in Nat, ServerFuel' <= ServerFuel + 2
      PROVE  Fuel' < Fuel
  <2>1. Len(s2c') \in Nat /\ Len(s2c') <= Len(s2c) + 1
    BY <1>0, <1>e
  <2>2. Fuel' = ClientFuel + ServerFuel' + LinkFuel + 4 * (Len(c2s) - 1) + Len(s2c')
    BY <1>b, <1>e
  <2>3. ServerFuel \in Nat
    BY <1>0
  <2>4. ClientFuel + ServerFuel' + LinkFuel + 4 * (Len(c2s) - 1) + Len(s2c')
          < ClientFuel + ServerFuel + LinkFuel + 4 * Len(c2s) + Len(s2c)
    BY <1>0, <1>e, <2>1, <2>3, FramePays
  <2> QED
    BY <1>b, <2>2, <2>4
<1>1. CASE FinishReading
  <2>1. /\ c2s' = c2s /\ Len(s2c') \in {Len(s2c), Len(s2c) + 1}
        /\ sv = "answered" /\ sv' \in {"data", "ended"}
    BY <1>1, AnswerLengths DEF FinishReading
  <2>2. ServerFuel = 4 /\ ServerFuel' \in {0, 2}
    BY <2>1 DEF ServerFuel
  <2> QED
    BY <1>0, <1>b, <2>1, <2>2
<1>2. CASE ServerReceiveFails
  <2>1. /\ c2s' = c2s /\ Len(s2c') \in {Len(s2c), Len(s2c) + 1}
        /\ sv \in {"hello", "init", "conf", "data"} /\ sv' = "ended"
    BY <1>2, <1>d, <1>0 DEF ServerReceiveFails
  <2>2. ServerFuel = 2 /\ ServerFuel' = 0
    BY <2>1 DEF ServerFuel
  <2> QED
    BY <1>0, <1>b, <2>1, <2>2
<1>3. CASE \/ AcceptHello \/ AcceptInit \/ AcceptConf \/ AcceptReading
  <2>1. /\ Len(c2s') = Len(c2s) - 1 /\ Len(s2c') \in {Len(s2c), Len(s2c) + 1}
        /\ sv \in {"hello", "init", "conf", "data"}
    BY <1>3, <1>c, AnswerLengths DEF AcceptHello, AcceptInit, AcceptConf, AcceptReading
  <2>2. ServerFuel = 2 /\ ServerFuel' \in {0, 2, 4}
    BY <2>1 DEF ServerFuel
  <2> QED
    BY <1>e, <2>1, <2>2
<1>4. CASE RejectHandshake \/ RejectReading \/ AcceptLogout \/ RejectLogout \/ IgnoreFrame
  <2>1. /\ Len(c2s') = Len(c2s) - 1 /\ Len(s2c') \in {Len(s2c), Len(s2c) + 1}
        /\ sv' \in {"ended", sv}
    <3>1. CASE RejectHandshake \/ RejectReading
      BY <3>1, <1>c, <1>d DEF RejectHandshake, RejectReading
    <3>2. CASE AcceptLogout
      BY <3>2, <1>c, AnswerLengths DEF AcceptLogout
    <3>3. CASE RejectLogout \/ IgnoreFrame
      BY <3>3, <1>c, <1>0 DEF RejectLogout, IgnoreFrame, server
    <3> QED
      BY <1>4, <3>1, <3>2, <3>3
  <2>2. ServerFuel' \in {0, ServerFuel}
    BY <2>1 DEF ServerFuel
  <2>3. ServerFuel' \in Nat /\ ServerFuel' <= ServerFuel
    BY <1>0, <2>2
  <2> QED
    BY <1>0, <1>e, <2>1, <2>3
<1> QED
  BY <1>1, <1>2, <1>3, <1>4 DEF ServerStep

(* A frame that a stranger adds costs the server at most four steps, its   *)
(* answer and its set point included. *)
LEMMA MoreCosts ==
  ASSUME TypeOK, SendMore
  PROVE  Fuel' = Fuel + 4
<1>1. /\ UNCHANGED <<client, server, s2c, link>> /\ c2s' = Append(c2s, Frame("other", <<>>))
  BY DEF SendMore
<1>2. Len(c2s') = Len(c2s) + 1 /\ Len(s2c') = Len(s2c)
  BY <1>1, QueueLengths DEF TypeOK
<1>3. ClientFuel' = ClientFuel /\ ServerFuel' = ServerFuel /\ LinkFuel' = LinkFuel
  BY <1>1 DEF ClientFuel, ReadingsLeft, ServerFuel, LinkFuel, client, server
<1>4. /\ Fuel' = ClientFuel + ServerFuel + LinkFuel + 4 * (Len(c2s) + 1) + Len(s2c)
      /\ Fuel = ClientFuel + ServerFuel + LinkFuel + 4 * Len(c2s) + Len(s2c)
  BY <1>2, <1>3, Zenon DEF Fuel
<1>5. /\ ClientFuel \in Nat /\ ServerFuel \in Nat /\ LinkFuel \in Nat
      /\ Len(c2s) \in Nat /\ Len(s2c) \in Nat
  BY FuelParts, SecureNodeAssumption
<1> QED
  BY <1>4, <1>5

(* Every step of the client, the server, the link or a crash uses some of  *)
(* what is left, of which an honest client has at most MostSteps: the      *)
(* loops of run_client and NodeSession.run cannot go round for ever,       *)
(* whatever fails.  Only a client that adds frames the loop ignores keeps  *)
(* the server's thread longer, four steps a frame at most                  *)
(* (auth_service.py:303-316).  (That they do not stop on the way needs     *)
(* fairness, and is ClientEnds and SessionEnds.) *)
THEOREM ConnectionEnds ==
  Spec => /\ [](Honest => FuelBounded)
          /\ [][IF SendMore THEN Fuel' = Fuel + 4 ELSE Fuel' < Fuel]_vars
<1>0. TypeOK => /\ ClientFuel \in Nat /\ ServerFuel \in Nat /\ LinkFuel \in Nat
                /\ Len(c2s) \in Nat /\ Len(s2c) \in Nat
  BY FuelParts, SecureNodeAssumption
<1>1. ASSUME TypeOK, Next, ~SendMore PROVE Fuel' < Fuel
  <2>1. CASE LinkFails
    <3>1. /\ UNCHANGED <<kind, client, server, c2s, s2c>>
          /\ link = "up" /\ link' \in {"reset", "silent"}
      BY <2>1 DEF LinkFails
    <3>2. LinkFuel = 1 /\ LinkFuel' = 0 /\ ClientFuel' = ClientFuel
          /\ ServerFuel' = ServerFuel /\ Len(c2s') = Len(c2s) /\ Len(s2c') = Len(s2c)
      BY <3>1 DEF LinkFuel, ClientFuel, ReadingsLeft, ServerFuel, client, server
    <3>3. Fuel' = ClientFuel + ServerFuel + 0 + 4 * Len(c2s) + Len(s2c)
          /\ Fuel = ClientFuel + ServerFuel + 1 + 4 * Len(c2s) + Len(s2c)
      BY <3>2, Zenon DEF Fuel
    <3> QED
      BY <1>0, <1>1, <3>3
  <2>2. CASE ClientCrashes
    <3>1. cl # "done" /\ cl' = "done" /\ UNCHANGED <<server, c2s, s2c, link>>
      BY <2>2 DEF ClientCrashes
    <3>2. LinkFuel' = LinkFuel /\ ServerFuel' = ServerFuel /\ Len(c2s') = Len(c2s)
          /\ Len(s2c') = Len(s2c)
      BY <3>1 DEF LinkFuel, ServerFuel, server
    <3>3. ClientFuel' = 0 /\ ClientFuel > 0
      <4>1. ReadingsLeft \in Nat
        BY <1>1, SecureNodeAssumption DEF TypeOK, ReadingsLeft
      <4> QED
        BY <1>1, <3>1, <4>1 DEF TypeOK, ClientFuel
    <3>4. Fuel' = 0 + ServerFuel + LinkFuel + 4 * Len(c2s) + Len(s2c)
          /\ Fuel = ClientFuel + ServerFuel + LinkFuel + 4 * Len(c2s) + Len(s2c)
      BY <3>2, <3>3, Zenon DEF Fuel
    <3> QED
      BY <1>0, <1>1, <3>3, <3>4
  <2> QED
    BY <1>1, <2>1, <2>2, ClientSpends, ServerSpends DEF Next
<1>2. Init => HonestBounded
  <2> SUFFICES ASSUME Init PROVE FuelBounded
    BY DEF HonestBounded
  <2>1. Len(c2s) = 0 /\ Len(s2c) = 0
    BY EmptySeq DEF Init
  <2>2. ClientFuel = 6 * Sends + 21 /\ ServerFuel = 2 /\ LinkFuel = 1
    BY SecureNodeAssumption DEF Init, ClientFuel, ReadingsLeft, ServerFuel, LinkFuel
  <2> QED
    BY <2>1, <2>2, SecureNodeAssumption DEF FuelBounded, Fuel, MostSteps
<1>3. TypeOK => FuelCounts
  BY FuelParts DEF FuelCounts
<1>4. TypeOK' => FuelCounts'
  BY <1>3, PTL
<1>5. TypeOK /\ TypeOK' /\ HonestBounded /\ [Next]_vars => HonestBounded'
  <2> SUFFICES ASSUME TypeOK, TypeOK', HonestBounded, [Next]_vars, Honest'
               PROVE  FuelBounded'
    BY DEF HonestBounded
  <2>1. Honest
    BY KindKept DEF Honest
  <2>2. Fuel' <= Fuel
    <3>1. CASE Next
      <4>1. ~SendMore
        BY <2>1 DEF SendMore, Honest
      <4> QED
        BY <1>1, <1>3, <1>4, <3>1, <4>1 DEF FuelCounts
    <3>2. CASE UNCHANGED vars
      <4>1. Fuel' = Fuel
        BY <3>2 DEF vars, Fuel, ClientFuel, ReadingsLeft, ServerFuel, LinkFuel
      <4> QED
        BY <1>3, <4>1 DEF FuelCounts
    <3> QED
      BY <3>1, <3>2
  <2>3. FuelBounded
    BY <2>1 DEF HonestBounded
  <2> QED
    BY <1>3, <1>4, <2>2, <2>3, SecureNodeAssumption DEF FuelCounts, FuelBounded, MostSteps
<1>6. TypeOK /\ [Next]_vars => [IF SendMore THEN Fuel' = Fuel + 4 ELSE Fuel' < Fuel]_vars
  BY <1>1, MoreCosts
<1>7. HonestBounded <=> (Honest => FuelBounded)
  BY DEF HonestBounded
<1> QED
  BY <1>2, <1>5, <1>6, <1>7, TypeCorrect, PTL DEF Spec
=============================================================================
