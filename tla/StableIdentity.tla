--------------------------- MODULE StableIdentity ---------------------------
(***************************************************************************)
(* What the PUF promises the protocols above it, whatever happens to the   *)
(* power: one identity between two wipes, which is complete before it is   *)
(* used and under which every key is derived; keys only from a response    *)
(* that is held; a bounded number of attempts at one, all of them made     *)
(* before it gives up.                                                     *)
(***************************************************************************)
EXTENDS Integers

CONSTANTS Identities, None, Limit

VARIABLES
  identity,   \* what keys are derived under, or None before enrolment
  held,       \* a usable response is in memory
  tries,      \* attempts since the last answer
  used        \* what keys have been derived under since the last wipe

promise == <<identity, held, tries, used>>

Init == identity = None /\ held = FALSE /\ tries = 0 /\ used = {}

Enrol ==
  /\ identity = None /\ identity' \in Identities
  /\ UNCHANGED <<held, tries, used>>

(* Whoever is enrolled may measure a response, now or after a retry. *)
Hold ==
  /\ identity # None
  /\ held' = TRUE
  /\ UNCHANGED <<identity, tries, used>>

(* The caller gets a response: the one held, or one measured for it. *)
Answer ==
  /\ identity # None
  /\ held' = TRUE /\ tries' = 0
  /\ UNCHANGED <<identity, used>>

Retry ==
  /\ identity # None /\ ~held /\ tries < Limit
  /\ tries' = tries + 1
  /\ UNCHANGED <<identity, held, used>>

Fail ==
  /\ ~held /\ tries = Limit
  /\ tries' = 0
  /\ UNCHANGED <<identity, held, used>>

(* A key is derived while the response is held. *)
Derive ==
  /\ identity # None /\ held
  /\ used' = used \cup {identity}
  /\ UNCHANGED <<identity, held, tries>>

Release ==
  /\ held /\ held' = FALSE
  /\ UNCHANGED <<identity, tries, used>>

LosePower ==
  /\ held' = FALSE /\ tries' = 0
  /\ UNCHANGED <<identity, used>>

Wipe ==
  /\ identity' = None /\ used' = {}
  /\ held' = FALSE /\ tries' = 0

Next ==
  \/ Enrol \/ Hold \/ Answer \/ Retry \/ Fail
  \/ Derive \/ Release
  \/ LosePower \/ Wipe

Spec == Init /\ [][Next]_promise
=============================================================================
