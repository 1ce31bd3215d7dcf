----------------------------- MODULE SecureNode -----------------------------
(***************************************************************************)
(* One connection of the SecureNode protocol, P2 to P5: the server's       *)
(* NodeSession thread (auth_service.py) and the client at the other end,   *)
(* pc_client.py or a node running secure_node.py, with the TCP stream      *)
(* between them.                                                           *)
(*                                                                         *)
(* A block of the audit chain is the sequence of what was hashed into it,  *)
(* so that two blocks are equal exactly when their histories are.  A       *)
(* cipher text is its plain text, or Bad when it does not verify.          *)
(***************************************************************************)
EXTENDS Integers, Sequences

CONSTANTS
  Sends,     \* num_sends: readings the client wants to deliver
  Faults,    \* what may go wrong: "reset" and "silent" links, client "crash"
  Kinds,     \* who connects: "pc_client", "node", "stranger"
  Numbers,   \* M_num that a stranger may put on a reading instead of the next
  Padding    \* bound: a stranger adds frames while fewer than these wait

ASSUME SecureNodeAssumption ==
  /\ Sends \in Nat \ {0}
  /\ Faults \subseteq {"reset", "silent", "crash"}
  /\ Kinds \subseteq {"pc_client", "node", "stranger"} /\ Kinds # {}
  /\ Numbers \subseteq Nat /\ Padding \in Nat

VARIABLES
  kind,      \* who the client is
  cl,        \* where run_client is: about to send, or the frame it waits for
  m,         \* SecureNodeClient._M_num
  asked,     \* the M_num of the reading last sent: m, but of a stranger's
  cPrv,      \* SecureNodeClient._PRV_bl
  sv,        \* where NodeSession.run is
  sPrv,      \* NodeSession._PRV_bl, and with it NodeSession._chain
  c2s, s2c,  \* frames sent and not yet received
  link       \* the TCP connection: "up", "reset" or "silent"

client == <<cl, m, asked, cPrv>>
server == <<sv, sPrv>>
vars == <<kind, cl, m, asked, cPrv, sv, sPrv, c2s, s2c, link>>

(***************************************************************************)
(* Blocks and frames.                                                      *)
(***************************************************************************)
Genesis == <<>>
InitBlock(prv) == Append(prv, 0)
PREG(prv, n) == Append(prv, n)
Bad == <<-1>>

(* REG_bl = H(A_REG_bl, B_REG_bl): the halves come from the two ends'      *)
(* PREG_bl, and a block made of different ones is in no honest chain.      *)
REG(a, b) == IF a = b THEN a ELSE Append(a, 0)

Types == {"rot_hello", "rot_ack", "ses_init", "ses_reply", "ses_conf", "ses_conf_ack",
          "dx_msg", "dx_res", "setpoint", "logout_req", "logout_res", "error", "other"}
Frames == [type : Types, body : Seq(Int), num : Nat]
Frame(type, body) == [type |-> type, body |-> body, num |-> 0]
Reading(prv, n) == [type |-> "dx_msg", body |-> PREG(prv, n), num |-> n]

(* pc_client encrypts END_reg itself; secure_node.py the pair of END_reg   *)
(* and A_END_bl that _handle_p5 unpacks.                                   *)
LogoutRequest == Frame("logout_req", IF kind = "pc_client" THEN <<0>> ELSE <<0, 0>>)

(* A client that is neither keeps the order of the dialogue, but sends any *)
(* frame in the place of the right one; see SendReading and SendMore.      *)
Sendable(f) ==
  {f} \cup IF kind = "stranger"
           THEN {[f EXCEPT !.body = Bad], [f EXCEPT !.type = "other"]}
           ELSE {}

Init ==
  /\ kind \in Kinds
  /\ cl = "start" /\ m = 0 /\ asked = 0 /\ cPrv = Genesis
  /\ sv = "hello" /\ sPrv = Genesis
  /\ c2s = <<>> /\ s2c = <<>> /\ link = "up"

(***************************************************************************)
(* The client.                                                             *)
(***************************************************************************)
(* send_msg of the client: the frame is lost when nothing reaches a live   *)
(* server any more.                                                        *)
ClientSends(f, wait) ==
  /\ link # "reset"
  /\ \E g \in Sendable(f) :
       c2s' = IF link = "up" /\ sv # "ended" THEN Append(c2s, g) ELSE c2s
  /\ cl' = wait

(* Mutant: P4 goes on to the next reading after a failed one. *)
MutGoesOn ==
  CASE cl \in {"ready", "dx_res"} -> IF m < Sends THEN "ready" ELSE "logout"
    [] OTHER -> "done"

(* Where an exception takes run_client: P2, P3 and P5 end it, P4 breaks    *)
(* out of its loop into the logout.                                        *)
AfterFailure == IF cl \in {"ready", "dx_res"} THEN "logout" ELSE "done"

SendHello ==
  /\ cl = "start"
  /\ ClientSends(Frame("rot_hello", <<>>), "rot_ack")
  /\ UNCHANGED <<kind, m, asked, cPrv, server, s2c, link>>

(* Mutant: _M_num is incremented after the message is built. *)
MutNumberLate ==
  /\ cl = "ready" /\ m < Sends
  /\ m' = m + 1 /\ asked' = m'
  /\ ClientSends(Reading(cPrv, m), "dx_res")
  /\ UNCHANGED <<kind, cPrv, server, s2c, link>>

(* Mutant: one reading more than num_sends. *)
MutOneMore ==
  /\ cl = "ready" /\ m <= Sends
  /\ m' = m + 1 /\ asked' = m'
  /\ ClientSends(Reading(cPrv, m'), "dx_res")
  /\ UNCHANGED <<kind, cPrv, server, s2c, link>>

(* The next number, or of a stranger another one. *)
SendReading ==
  /\ cl = "ready" /\ m < Sends
  /\ m' = m + 1
  /\ asked' \in {m'} \cup (IF kind = "stranger" THEN Numbers ELSE {})
  /\ ClientSends(Reading(cPrv, asked'), "dx_res")
  /\ UNCHANGED <<kind, cPrv, server, s2c, link>>

SendLogout ==
  /\ cl = "logout" \/ (cl = "ready" /\ m = Sends)
  /\ ClientSends(LogoutRequest, "logout_res")
  /\ UNCHANGED <<kind, m, asked, cPrv, server, s2c, link>>

(* The socket reports the dead connection to the sender. *)
ClientSendFails ==
  /\ cl \in {"start", "ready", "logout"}
  /\ link = "reset" \/ sv = "ended"
  /\ m' = IF cl = "ready" /\ m < Sends THEN m + 1 ELSE m
  /\ cl' = IF cl = "ready" /\ m < Sends THEN "logout" ELSE "done"
  /\ UNCHANGED <<kind, asked, cPrv, server, c2s, s2c, link>>

ClientReceives == s2c # <<>> /\ s2c' = Tail(s2c)

(* P2 answered: run_client goes on to P3 in the same breath. *)
ReceiveRotAck ==
  /\ cl = "rot_ack" /\ ClientReceives /\ Head(s2c).type = "rot_ack"
  /\ ClientSends(Frame("ses_init", cPrv), "ses_reply")
  /\ UNCHANGED <<kind, m, asked, cPrv, server, link>>

ReceiveSesReply ==
  /\ cl = "ses_reply" /\ ClientReceives /\ Head(s2c).type = "ses_reply"
  /\ cPrv' = InitBlock(Head(s2c).body)
  /\ ClientSends(Frame("ses_conf", <<>>), "conf_ack")
  /\ UNCHANGED <<kind, m, asked, server, link>>

(* Any frame but an error is taken for the acknowledgement. *)
ReceiveConfAck ==
  /\ cl = "conf_ack" /\ ClientReceives /\ Head(s2c).type # "error"
  /\ cl' = "ready"
  /\ UNCHANGED <<kind, m, asked, cPrv, server, c2s, link>>

SkipSetpoint ==
  /\ cl = "dx_res" /\ ClientReceives /\ Head(s2c).type = "setpoint"
  /\ UNCHANGED <<kind, client, server, c2s, link>>

(* Mutant: p4_finalize does not set _PRV_bl. *)
MutChainKept ==
  /\ cl = "dx_res" /\ ClientReceives /\ Head(s2c).type = "dx_res"
  /\ cl' = "ready"
  /\ UNCHANGED <<kind, m, asked, cPrv, server, c2s, link>>

(* Mutant: the first frame that comes is the answer, a set point too. *)
MutAnyAnswer ==
  /\ cl = "dx_res" /\ ClientReceives /\ Head(s2c).type # "error"
  /\ cPrv' = REG(PREG(cPrv, asked), Head(s2c).body)
  /\ cl' = "ready"
  /\ UNCHANGED <<kind, m, asked, server, c2s, link>>

ReceiveDxRes ==
  /\ cl = "dx_res" /\ ClientReceives /\ Head(s2c).type = "dx_res"
  /\ cPrv' = REG(PREG(cPrv, asked), Head(s2c).body)
  /\ cl' = "ready"
  /\ UNCHANGED <<kind, m, asked, server, c2s, link>>

(* The logout is reported as done whatever frame comes. *)
ReceiveLogoutRes ==
  /\ cl = "logout_res" /\ ClientReceives
  /\ cl' = "done"
  /\ UNCHANGED <<kind, m, asked, cPrv, server, c2s, link>>

(* An error frame, or one that lacks the fields the client reads. *)
Acceptable == CASE cl = "conf_ack" -> Head(s2c).type # "error"
                [] cl = "dx_res"   -> Head(s2c).type \in {"dx_res", "setpoint"}
                [] OTHER           -> Head(s2c).type = cl
ReceiveError ==
  /\ cl \in {"rot_ack", "ses_reply", "conf_ack", "dx_res"}
  /\ ClientReceives /\ ~Acceptable
  /\ cl' = AfterFailure
  /\ UNCHANGED <<kind, m, asked, cPrv, server, c2s, link>>

(* Mutant: the answer to the logout is awaited without a timeout. *)
MutLogoutWaits ==
  /\ cl \in {"rot_ack", "ses_reply", "conf_ack", "dx_res"}
  /\ s2c = <<>> \/ link = "reset"
  /\ cl' = AfterFailure
  /\ UNCHANGED <<kind, m, asked, cPrv, server, c2s, s2c, link>>

(* Nothing comes within ten seconds, or the stream is closed or reset.  A  *)
(* link that fails between receiving and sending is the send that raises.  *)
ClientReceiveFails ==
  /\ cl \in {"rot_ack", "ses_reply", "conf_ack", "dx_res", "logout_res"}
  /\ s2c = <<>> \/ link = "reset"
  /\ cl' = AfterFailure
  /\ UNCHANGED <<kind, m, asked, cPrv, server, c2s, s2c, link>>

ClientStep ==
  \/ SendHello \/ SendReading \/ SendLogout \/ ClientSendFails
  \/ ReceiveRotAck \/ ReceiveSesReply \/ ReceiveConfAck
  \/ SkipSetpoint \/ ReceiveDxRes \/ ReceiveLogoutRes
  \/ ReceiveError \/ ClientReceiveFails

(* A stranger may add frames of a type the server does not wait for.       *)
SendMore ==
  /\ kind = "stranger" /\ cl # "done"
  /\ link = "up" /\ sv # "ended" /\ Len(c2s) < Padding
  /\ c2s' = Append(c2s, Frame("other", <<>>))
  /\ UNCHANGED <<kind, client, server, s2c, link>>

(***************************************************************************)
(* The server's thread.                                                    *)
(***************************************************************************)
Incoming(type) == c2s # <<>> /\ Head(c2s).type = type
ServerReceives == c2s # <<>> /\ c2s' = Tail(c2s)

Delivered(fs) == IF link = "up" /\ cl # "done" THEN s2c \o fs ELSE s2c

(* send_msg of the server: raises only on a connection that is dead, which *)
(* every handler turns into the end of the session.                        *)
ServerSends(f, next) ==
  \/ link # "reset" /\ s2c' = Delivered(<<f>>) /\ sv' = next
  \/ (link = "reset" \/ cl = "done") /\ sv' = "ended" /\ UNCHANGED s2c

(* _send_error swallows its own failure; the thread then closes the socket. *)
Refuse == s2c' = Delivered(<<Frame("error", <<>>)>>) /\ sv' = "ended"

AcceptHello ==
  /\ sv = "hello" /\ Incoming("rot_hello") /\ Head(c2s).body # Bad
  /\ ServerReceives /\ ServerSends(Frame("rot_ack", <<>>), "init")
  /\ UNCHANGED <<kind, client, sPrv, link>>

(* PREINIT_bl is computed from the server's genesis block and compared. *)
AcceptInit ==
  /\ sv = "init" /\ Incoming("ses_init") /\ Head(c2s).body = sPrv
  /\ ServerReceives /\ ServerSends(Frame("ses_reply", sPrv), "conf")
  /\ UNCHANGED <<kind, client, sPrv, link>>

AcceptConf ==
  /\ sv = "conf" /\ Incoming("ses_conf") /\ Head(c2s).body # Bad
  /\ sPrv' = InitBlock(sPrv)
  /\ ServerReceives /\ ServerSends(Frame("ses_conf_ack", <<>>), "data")
  /\ UNCHANGED <<kind, client, link>>

Expected == CASE sv = "hello" -> "rot_hello"
              [] sv = "init"  -> "ses_init"
              [] OTHER        -> "ses_conf"

(* A wrong type, an unknown node, a block or a tag that does not match. *)
RejectHandshake ==
  /\ sv \in {"hello", "init", "conf"} /\ ServerReceives
  /\ \/ Head(c2s).type # Expected
     \/ sv # "init" /\ Head(c2s).body = Bad
     \/ sv = "init" /\ Head(c2s).body # sPrv
  /\ Refuse
  /\ UNCHANGED <<kind, client, sPrv, link>>

(* The chain advances before the reading is looked at and answered, and its *)
(* number is not compared with _M_num_expected.                            *)
AcceptReading ==
  /\ sv = "data" /\ Incoming("dx_msg")
  /\ Head(c2s).body = PREG(sPrv, Head(c2s).num)
  /\ sPrv' = REG(Head(c2s).body, PREG(sPrv, Head(c2s).num))
  /\ ServerReceives /\ ServerSends(Frame("dx_res", sPrv'), "answered")
  /\ UNCHANGED <<kind, client, link>>

(* The set point follows when the EMS has one, and the connection is       *)
(* dropped when the trust of this cycle is too low.                        *)
FinishReading ==
  /\ sv = "answered"
  /\ \E next \in {"data", "ended"} :
       \/ sv' = next /\ UNCHANGED s2c
       \/ ServerSends(Frame("setpoint", <<>>), next)
  /\ UNCHANGED <<kind, client, sPrv, c2s, link>>

RejectReading ==
  /\ sv = "data" /\ Incoming("dx_msg")
  /\ Head(c2s).body # PREG(sPrv, Head(c2s).num)
  /\ ServerReceives /\ Refuse
  /\ UNCHANGED <<kind, client, sPrv, link>>

(* Only the pair form unpacks into END_reg and A_END_bl. *)
AcceptLogout ==
  /\ sv = "data" /\ Incoming("logout_req") /\ Head(c2s).body = <<0, 0>>
  /\ ServerReceives /\ s2c' = Delivered(<<Frame("logout_res", <<>>)>>)
  /\ sv' = "ended"
  /\ UNCHANGED <<kind, client, sPrv, link>>

(* A logout that does not verify ends the session without an answer. *)
RejectLogout ==
  /\ sv = "data" /\ Incoming("logout_req") /\ Head(c2s).body # <<0, 0>>
  /\ ServerReceives /\ sv' = "ended"
  /\ UNCHANGED <<kind, client, sPrv, s2c, link>>

IgnoreFrame ==
  /\ sv = "data" /\ ServerReceives
  /\ Head(c2s).type \notin {"dx_msg", "logout_req"}
  /\ UNCHANGED <<kind, client, server, s2c, link>>

(* Mutant: the timeout of the data loop goes on with the loop. *)
MutLoopGoesOn ==
  /\ sv \in {"hello", "init", "conf"}
  /\ c2s = <<>> \/ link = "reset"
  /\ IF sv = "conf" THEN Refuse ELSE sv' = "ended" /\ UNCHANGED s2c
  /\ UNCHANGED <<kind, client, sPrv, c2s, link>>

(* The receive times out or finds the stream closed or reset; only the     *)
(* wait inside _run_p3 reports that to the peer.                           *)
ServerReceiveFails ==
  /\ sv \in {"hello", "init", "conf", "data"}
  /\ c2s = <<>> \/ link = "reset"
  /\ IF sv = "conf" THEN Refuse ELSE sv' = "ended" /\ UNCHANGED s2c
  /\ UNCHANGED <<kind, client, sPrv, c2s, link>>

ServerStep ==
  \/ AcceptHello \/ AcceptInit \/ AcceptConf \/ RejectHandshake
  \/ AcceptReading \/ FinishReading \/ RejectReading
  \/ AcceptLogout \/ RejectLogout \/ IgnoreFrame \/ ServerReceiveFails

(***************************************************************************)
(* What the environment may do.                                            *)
(***************************************************************************)
LinkFails ==
  /\ link = "up"
  /\ link' \in Faults \cap {"reset", "silent"}
  /\ UNCHANGED <<kind, client, server, c2s, s2c>>

ClientCrashes ==
  /\ "crash" \in Faults /\ cl # "done"
  /\ cl' = "done"
  /\ UNCHANGED <<kind, m, asked, cPrv, server, c2s, s2c, link>>

Next == ClientStep \/ SendMore \/ ServerStep \/ LinkFails \/ ClientCrashes

Spec == Init /\ [][Next]_vars

(* Both programs run whenever they can, and every receive has a timeout.   *)
(* Of a stranger nothing is assumed.                                       *)
Honest == kind # "stranger"
FairSpec == Spec /\ WF_vars(Honest /\ ClientStep) /\ WF_vars(ServerStep)

(***************************************************************************)
(* Properties.                                                             *)
(***************************************************************************)
TypeOK ==
  /\ kind \in Kinds
  /\ cl \in {"start", "rot_ack", "ses_reply", "conf_ack", "ready", "dx_res",
             "logout", "logout_res", "done"}
  /\ m \in 0 .. Sends /\ asked \in 0 .. Sends \cup Numbers
  /\ cPrv \in Seq(Nat) /\ sPrv \in Seq(Nat)
  /\ sv \in {"hello", "init", "conf", "data", "answered", "ended"}
  /\ c2s \in Seq(Frames) /\ s2c \in Seq(Frames)
  /\ link \in {"up", "reset", "silent"}

(* A client that is about to send a reading has the chain the server has   *)
(* (p4_finalize and _handle_p4 hash the same blocks), whatever set points, *)
(* timeouts and lost frames came before.                                   *)
ChainsAgree == cl = "ready" => cPrv = sPrv

(* A client that is about to send has at most one frame to skip before the *)
(* answer: the set point of the last reading, sent behind its dx_res.      *)
BacklogBounded ==
  cl = "ready" => /\ Len(s2c) <= 1
                  /\ \A i \in 1 .. Len(s2c) : s2c[i].type = "setpoint"

(* The server refuses no handshake frame and no reading of a client that   *)
(* runs pc_client or secure_node: after a failed exchange run_client       *)
(* breaks out of the P4 loop and does not send on a chain that is behind.  *)
HonestNeverRefused ==
  [][RejectHandshake \/ RejectReading => kind = "stranger"]_vars

(* The entries of the audit log that a block stands for. *)
Entries(prv) == IF Len(prv) <= 1 THEN <<>> ELSE Tail(prv)

(* The two chains implement the abstract audit log.  Whoever the client    *)
(* is, an entry that was committed stays as it is, and a step adds one at  *)
(* most.  Of an honest client the server commits the next reading only     *)
(* from a chain the node has too, under the next number (which the server  *)
(* does not compare: auth_service.py:333-357), and the node only catches   *)
(* up, whatever is lost or times out.                                      *)
Log == INSTANCE AuditLog WITH
  Entry <- 0 .. Sends \cup Numbers,
  honest <- Honest,
  nodeLog <- Entries(cPrv),
  serverLog <- Entries(sPrv)
ImplementsAuditLog == Log!Spec

(* run_client always comes to its end, on a dead link and with a server    *)
(* that has dropped it as well. *)
ClientEnds == Honest => <>(cl = "done")

(* NodeSession.run leaves its loops once nothing is sent any more, so that *)
(* _handle_client closes the socket and the thread ends.  (A peer that     *)
(* sends on, be it frames the data loop ignores, renews the wait and keeps *)
(* the thread: auth_service.py:303-316.)                                   *)
SessionEnds == cl = "done" \/ link = "silent" ~> sv = "ended"

(* auth_service.py:13: logout_req is answered by logout_res.  Of a client  *)
(* whose chain is intact on a connection that is up.                       *)
LogoutAnswered ==
  [][ServerStep /\ sv = "data" /\ Incoming("logout_req") /\ link = "up"
       /\ cl = "logout_res" /\ c2s' # c2s
       => \E i \in 1 .. Len(s2c') : s2c'[i].type = "logout_res"]_vars
=============================================================================
