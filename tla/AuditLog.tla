------------------------------ MODULE AuditLog ------------------------------
(***************************************************************************)
(* What the hash chain of P4 promises the two ends of a session.  The      *)
(* server's log only grows, by one entry at a time.  With an honest node   *)
(* it is one entry ahead of the node's at most, its entries are numbered   *)
(* from 1 without a gap, and the node's log only ever becomes the          *)
(* server's.                                                               *)
(***************************************************************************)
EXTENDS Naturals, Sequences

CONSTANT Entry   \* what an entry can be numbered

VARIABLES honest, nodeLog, serverLog

logs == <<honest, nodeLog, serverLog>>

Init == honest \in BOOLEAN /\ nodeLog = <<>> /\ serverLog = <<>>

(* The server appends an entry: the next one, and from the log that both   *)
(* have, if the node is honest.                                            *)
Commit ==
  /\ honest => nodeLog = serverLog
  /\ \E n \in Entry : /\ serverLog' = Append(serverLog, n)
                      /\ honest => n = Len(serverLog) + 1
  /\ UNCHANGED <<honest, nodeLog>>

(* An honest node takes over what the server logged, another does as it    *)
(* likes.                                                                  *)
Acknowledge ==
  /\ honest => nodeLog # serverLog /\ nodeLog' = serverLog
  /\ UNCHANGED <<honest, serverLog>>

Next == Commit \/ Acknowledge

Spec == Init /\ [][Next]_logs
=============================================================================
