----------------------------- MODULE GridServer -----------------------------
(***************************************************************************)
(* The threads of server.py around the two shared objects: one NodeSession *)
(* per connection (auth_service.py, from P4 on; SecureNode models the      *)
(* protocol below it), the DataStore, and the EMS loop.  A step is what    *)
(* one thread does between two lock operations.                            *)
(*                                                                         *)
(* Voltages are in 0.1 V, powers and set points as EmsFuzzy has them,      *)
(* trust in hundredths.  A field of a reading holds what the node's JSON   *)
(* has there: a number, nothing at all, null, or a text.                   *)
(***************************************************************************)
EXTENDS Integers, FiniteSets, FiniteSetsExt

CONSTANTS
  Nodes, Sessions,
  Owner,            \* the node each connection authenticates as
  Readings,         \* what each node may report: [v, p]
  Faulty,           \* bound: the connections that may end or misbehave
  Budget,           \* bound: readings recorded per node
  Window,           \* _V_BUS_ANOMALY_WINDOW
  FuzzyInfer(_, _, _), \* _fuzzy_infer, rounded: see EmsFuzzy
  Absent, Null, Text,  \* what a reading may hold in the place of a number
  None

Values == Int \cup {Absent, Null, Text}

ASSUME GridAssumption ==
  /\ IsFiniteSet(Nodes)
  /\ Owner \in [Sessions -> Nodes]
  /\ Readings \in [Nodes -> SUBSET [v : Values, p : Values]]
  /\ Faulty \subseteq Sessions
  /\ Budget \in [Nodes -> Nat]
  /\ Window \in Nat \ {0}
  /\ {Absent, Null, Text} \cap Int = {} /\ Absent # Null /\ Null # Text /\ Text # Absent
  /\ None \notin [v : Values, p : Values]
  /\ None \notin [v : Values, p : Values, trust : 0 .. 100, by : Sessions]

VARIABLES
  pc,         \* where each connection's thread is
  trust,      \* _trust_score
  anomalies,  \* _consecutive_anomalies
  reading,    \* the sensor_data it works on
  latest,     \* DataStore._latest
  count,      \* DataStore._record_counts
  ems,        \* the EMS loop: "asleep" or in the middle of "update"
  snap,       \* its all_latest
  setpoint    \* EMSCoordinator._setpoints, None before the first update

sessions == <<pc, trust, anomalies, reading>>
store == <<latest, count>>
emsVars == <<ems, snap, setpoint>>
vars == <<pc, trust, anomalies, reading, latest, count, ems, snap, setpoint>>

Stored == [v : Values, p : Values, trust : 0 .. 100, by : Sessions]
NoReadings == [n \in Nodes |-> None]

Init ==
  /\ pc = [s \in Sessions |-> "none"]
  /\ trust = [s \in Sessions |-> 0]
  /\ anomalies = [s \in Sessions |-> 0]
  /\ reading = [s \in Sessions |-> None]
  /\ latest = NoReadings /\ count = [n \in Nodes |-> 0]
  /\ ems = "asleep" /\ snap = NoReadings /\ setpoint = NoReadings

Reported(all) == {n \in Nodes : all[n] # None}
Abs(x) == IF x < 0 THEN -x ELSE x

(***************************************************************************)
(* get_median_v_bus: the middle of the latest voltages of the other nodes  *)
(* that have one, twice its value so that the mean of two stays an integer.*)
(***************************************************************************)
Others(n) == {k \in Reported(latest) \ {n} : latest[k].v \notin {Absent, Null}}

Sorted(K, i) ==
  CHOOSE x \in {latest[k].v : k \in K} :
    /\ Cardinality({k \in K : latest[k].v < x}) <= i
    /\ i < Cardinality({k \in K : latest[k].v <= x})

TwiceMedian(K) ==
  LET n == Cardinality(K)
  IN  IF n % 2 = 0 THEN Sorted(K, n \div 2 - 1) + Sorted(K, n \div 2)
                   ELSE 2 * Sorted(K, n \div 2)

(* Sorting and averaging a text raises, and so does subtracting from null  *)
(* or a text; a voltage that is absent is taken for the median itself.     *)
Comparable(n, r) ==
  Cardinality(Others(n)) >= 2 =>
    r.v \in Int \cup {Absent} /\ \A k \in Others(n) : latest[k].v \in Int

(* More than 0.8 V away from the median of at least two others. *)
\* Mutant: away from the lowest of the others instead of their median.
MutAnomalous(n, r) ==
  /\ Cardinality(Others(n)) >= 2 /\ r.v \in Int
  /\ 2 * Abs(r.v - Sorted(Others(n), 0)) > 16
Anomalous(n, r) ==
  /\ Cardinality(Others(n)) >= 2 /\ r.v \in Int
  /\ Abs(2 * r.v - TwiceMedian(Others(n))) > 16

(***************************************************************************)
(* The thread of one connection.                                           *)
(***************************************************************************)
(* P2 and P3 succeed: a new NodeSession starts with full trust. *)
Connect(s) ==
  /\ pc[s] = "none"
  /\ pc' = [pc EXCEPT ![s] = "idle"]
  /\ trust' = [trust EXCEPT ![s] = 80]
  /\ UNCHANGED <<anomalies, reading, store, emsVars>>

Lowered(score, by) == IF score > by THEN score - by ELSE 0

(* _update_trust: full windows of anomalies cost 0.4, a good reading       *)
(* starts the count again and, without a median, nothing changes.          *)
UpdateTrust(s, r) ==
  LET full == anomalies[s] + 1 >= Window
  IN  IF Anomalous(Owner[s], r)
      THEN /\ anomalies' = [anomalies EXCEPT ![s] = IF full THEN 0 ELSE @ + 1]
           /\ trust' = [trust EXCEPT ![s] = IF full THEN Lowered(@, 40) ELSE @]
      ELSE /\ anomalies' = [anomalies EXCEPT ![s] =
                              IF Cardinality(Others(Owner[s])) >= 2 THEN 0 ELSE @]
           /\ UNCHANGED trust

(* A dx_msg that verified, up to the comparison with the other nodes. *)
Judge(s) ==
  /\ pc[s] = "idle" /\ count[Owner[s]] < Budget[Owner[s]]
  /\ \E r \in Readings[Owner[s]] :
       /\ Comparable(Owner[s], r)
       /\ reading' = [reading EXCEPT ![s] = r] /\ UpdateTrust(s, r)
  /\ pc' = [pc EXCEPT ![s] = "judged"]
  /\ UNCHANGED <<store, emsVars>>

(* One whose payload does not parse, or cannot be compared: nothing is     *)
(* judged or stored, and the node gets its answer.                         *)
JudgeUnreadable(s) ==
  /\ pc[s] = "idle"
  /\ s \in Faulty \/ \E r \in Readings[Owner[s]] : ~Comparable(Owner[s], r)
  /\ pc' = [pc EXCEPT ![s] = "recorded"]
  /\ UNCHANGED <<trust, anomalies, reading, store, emsVars>>

\* Mutant: the reading goes without a trust score, which update() reads as 1.0.
MutEntry(s) == [v |-> reading[s].v, p |-> reading[s].p, trust |-> 100, by |-> s]
Entry(s) == [v |-> reading[s].v, p |-> reading[s].p, trust |-> trust[s], by |-> s]

Record(s) ==
  /\ pc[s] = "judged"
  /\ latest' = [latest EXCEPT ![Owner[s]] = Entry(s)]
  /\ count' = [count EXCEPT ![Owner[s]] = @ + 1]
  /\ reading' = [reading EXCEPT ![s] = None]
  /\ pc' = [pc EXCEPT ![s] = "recorded"]
  /\ UNCHANGED <<trust, anomalies, emsVars>>

(* dx_res and the set point of this moment go out, then the connection is  *)
(* dropped if this cycle took the trust below 0.3. *)
\* Mutant: the reply is the end of the cycle.
MutAnswer(s) ==
  /\ pc[s] = "recorded"
  /\ pc' = [pc EXCEPT ![s] = "idle"]
  /\ UNCHANGED <<trust, anomalies, reading, store, emsVars>>
Answer(s) ==
  /\ pc[s] = "recorded"
  /\ pc' = [pc EXCEPT ![s] = IF trust[s] < 30 THEN "ended" ELSE "idle"]
  /\ UNCHANGED <<trust, anomalies, reading, store, emsVars>>

(* A message that does not verify, or a reply that cannot be sent: trust   *)
(* is lowered and the session ends either way. *)
SecurityError(s) ==
  /\ s \in Faulty /\ pc[s] \in {"idle", "recorded"}
  /\ trust' = [trust EXCEPT ![s] = Lowered(@, 30)]
  /\ pc' = [pc EXCEPT ![s] = "ended"]
  /\ UNCHANGED <<anomalies, reading, store, emsVars>>

(* Logout, closed connection or no message for thirty seconds. *)
End(s) ==
  /\ s \in Faulty /\ pc[s] = "idle"
  /\ pc' = [pc EXCEPT ![s] = "ended"]
  /\ UNCHANGED <<trust, anomalies, reading, store, emsVars>>

SessionStep(s) ==
  \/ Connect(s) \/ Judge(s) \/ JudgeUnreadable(s) \/ Record(s) \/ Answer(s)
  \/ SecurityError(s) \/ End(s)

(***************************************************************************)
(* The EMS loop: update() takes its snapshot under the store's lock and    *)
(* writes the set points under its own.                                    *)
(***************************************************************************)
Snapshot ==
  /\ ems = "asleep" /\ Reported(latest) # {}
  /\ ems' = "update" /\ snap' = latest
  /\ UNCHANGED <<sessions, store, setpoint>>

(* The two sums of update(), which raise on a null or a text. *)
VNominal == 120
Number(x, default) == IF x = Absent THEN default ELSE x
Addable(r) == {r.v, r.p} \subseteq Int \cup {Absent}
Summable(all) == \A n \in Reported(all) : Addable(all[n])

MeanError == MapThenSumSet(LAMBDA n : Number(snap[n].v, VNominal), Reported(snap))
               \div Cardinality(Reported(snap)) - VNominal
Demand == MapThenSumSet(LAMBDA n : Number(snap[n].p, 0), Reported(snap))

\* Mutant: nodes the server no longer trusts are left out of the update.
MutApply ==
  /\ ems = "update" /\ Summable(snap)
  /\ setpoint' = [n \in Nodes |-> IF snap[n] = None \/ snap[n].trust < 30
                                  THEN setpoint[n]
                                  ELSE FuzzyInfer(MeanError, Demand, snap[n].trust)]
  /\ ems' = "asleep" /\ snap' = NoReadings
  /\ UNCHANGED <<sessions, store>>
Apply ==
  /\ ems = "update" /\ Summable(snap)
  /\ setpoint' = [n \in Nodes |-> IF snap[n] = None
                                  THEN setpoint[n]
                                  ELSE FuzzyInfer(MeanError, Demand, snap[n].trust)]
  /\ ems' = "asleep" /\ snap' = NoReadings
  /\ UNCHANGED <<sessions, store>>

(* _ems_update_loop logs what update() raises; no set point is written.    *)
ApplyFails ==
  /\ ems = "update" /\ ~Summable(snap)
  /\ ems' = "asleep" /\ snap' = NoReadings
  /\ UNCHANGED <<sessions, store, setpoint>>

EmsStep == Snapshot \/ Apply \/ ApplyFails

Next == (\E s \in Sessions : SessionStep(s)) \/ EmsStep

Spec == Init /\ [][Next]_vars

(* The EMS loop wakes up every five seconds, after an update that raised   *)
(* as well; nothing is assumed of what an update comes to, nor of the      *)
(* connections.                                                            *)
FairSpec == Spec /\ WF_vars(EmsStep)

(***************************************************************************)
(* Properties.                                                             *)
(***************************************************************************)
TypeOK ==
  /\ pc \in [Sessions -> {"none", "idle", "judged", "recorded", "ended"}]
  /\ trust \in [Sessions -> {0, 10, 40, 50, 80}]
  /\ anomalies \in [Sessions -> 0 .. Window - 1]
  /\ reading \in [Sessions -> [v : Values, p : Values] \cup {None}]
  /\ latest \in [Nodes -> Stored \cup {None}]
  /\ count \in [Nodes -> Nat]
  /\ ems \in {"asleep", "update"}
  /\ snap \in [Nodes -> Stored \cup {None}]
  /\ DOMAIN setpoint = Nodes

(* What the EMS reads of a node is the trust its thread has now: between   *)
(* two messages no lowered score is missing from the store.                *)
StoreTracksTrust ==
  \A n \in Nodes, s \in Sessions :
    latest[n] # None /\ latest[n].by = s /\ pc[s] \in {"idle", "recorded"}
      => latest[n].trust = trust[s]

(* A connection whose score fell below 0.3 takes no further message, and a *)
(* node the store calls untrusted has lost the connection that reported it *)
(* or is about to. *)
UntrustedOut ==
  /\ \A s \in Sessions : pc[s] = "idle" => trust[s] >= 30
  /\ \A n \in Nodes : latest[n] # None /\ latest[n].trust < 30
                        => pc[latest[n].by] \in {"recorded", "ended"}

Disagrees(r, k) == Abs(r.v - latest[k].v) > 8

(* A reading counts against its node only if half of the other nodes that  *)
(* reported a voltage, and there are two of them at least, are more than   *)
(* 0.8 V away from it: one bad sensor among three others cannot get a good *)
(* one dropped.                                                            *)
AnomalyNeedsHalf ==
  [][\A s \in Sessions :
       anomalies'[s] > anomalies[s] \/ (pc[s] = "idle" /\ trust'[s] = trust[s] - 40) =>
         LET K == {k \in Reported(latest) \ {Owner[s]} : latest[k].v \in Int}
         IN  /\ Cardinality(K) >= 2
             /\ 2 * Cardinality({k \in K : Disagrees(reading'[s], k)}) >= Cardinality(K)]_vars

(* A node that lost its trust is starved by the EMS (the centroid of ZERO  *)
(* is below 5 W): however the loop's snapshots and writes fall between the *)
(* readings, no stale set point outlasts the readings that came with it,   *)
(* from when the store holds no null or text that update() cannot add.     *)
Untrusted(n) == latest[n] # None /\ latest[n].trust < 30
Starved(n) == setpoint[n] # None /\ setpoint[n] <= 50
AllStarved == \A n \in Nodes : Untrusted(n) => Starved(n)
UntrustedStarved == <>[]Summable(latest) => []<>AllStarved
=============================================================================
