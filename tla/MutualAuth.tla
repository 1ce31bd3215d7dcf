----------------------------- MODULE MutualAuth -----------------------------
(***************************************************************************)
(* What a handshake promises the two ends of each run: injective agreement *)
(* in both directions.  The responder accepts a run only after the         *)
(* initiator has vouched for it, on the very terms the initiator vouched   *)
(* for and with a key of no other run; the initiator takes over only the   *)
(* key of a responder that has accepted; data passes between two ends that *)
(* both hold the key, and nothing agreed is ever taken back.               *)
(***************************************************************************)
CONSTANTS Runs, Terms, Keys, None

VARIABLES
  vouched,    \* vouched[r]: the terms the initiator has signed, or None
  accepted,   \* accepted[r]: the terms the responder has accepted, or None
  key,        \* key[r]: the key the responder holds, or None
  taken,      \* taken[r]: the key the initiator holds, or None
  delivered   \* the runs over which data has passed

run == <<vouched, accepted, key, taken, delivered>>

Init ==
  /\ vouched = [r \in Runs |-> None]
  /\ accepted = [r \in Runs |-> None]
  /\ key = [r \in Runs |-> None]
  /\ taken = [r \in Runs |-> None]
  /\ delivered = {}

(* The initiator commits itself to who it is and to whom it talks. *)
Vouch(r, t) ==
  /\ vouched[r] = None
  /\ vouched' = [vouched EXCEPT ![r] = t]
  /\ UNCHANGED <<accepted, key, taken, delivered>>

(* The responder accepts that, under a key of this run alone. *)
Accept(r, k) ==
  /\ vouched[r] # None /\ accepted[r] = None
  /\ \A q \in Runs : key[q] # k
  /\ accepted' = [accepted EXCEPT ![r] = vouched[r]]
  /\ key' = [key EXCEPT ![r] = k]
  /\ UNCHANGED <<vouched, taken, delivered>>

(* The initiator learns that it was accepted, and has the key too. *)
Take(r) ==
  /\ accepted[r] # None /\ taken[r] = None
  /\ taken' = [taken EXCEPT ![r] = key[r]]
  /\ UNCHANGED <<vouched, accepted, key, delivered>>

Deliver(r) ==
  /\ taken[r] # None
  /\ delivered' = delivered \cup {r}
  /\ UNCHANGED <<vouched, accepted, key, taken>>

Next ==
  \E r \in Runs :
    \/ \E t \in Terms : Vouch(r, t)
    \/ \E k \in Keys : Accept(r, k)
    \/ Take(r)
    \/ Deliver(r)

Spec == Init /\ [][Next]_run
=============================================================================
