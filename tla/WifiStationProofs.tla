------------------------- MODULE WifiStationProofs -------------------------
(***************************************************************************)
(* Safety of WifiStation for every retry limit. The invariant lists what   *)
(* may be queued (the driver waits to be told to connect, so at most an    *)
(* address and its loss) and, for each queue, where the driver is and how  *)
(* its failures compare with the handler's counter.                        *)
(***************************************************************************)
EXTENDS WifiStation, SequenceTheorems, TLAPS

Fail == "WIFI_FAIL_BIT" \in bits

\* Before the driver is started.
OffInv ==
    /\ pc = "start" => radio = "off"
    /\ radio = "off" =>
         /\ events = <<>> /\ bits = {} /\ s_retry_count = 0 /\ failed = 0
         /\ pc = "start" \/ (pc = "false" /\ ~provisioned)

\* The driver against the queue.
QueueInv ==
    /\ radio = "idle" =>
         \/ events = <<"STA_START">>
         \/ events = <<"STA_DISCONNECTED">>
         \/ events = <<"STA_GOT_IP", "STA_DISCONNECTED">>
         \/ events = <<>> /\ Fail
    /\ radio \in {"connecting", "associated"} => events = <<>>
    /\ radio = "addressed" => events = <<>> \/ events = <<"STA_GOT_IP">>

\* The handler's counter against the driver's failures.
CountInv ==
    /\ events = <<>> /\ ~Fail => failed = s_retry_count
    /\ events = <<"STA_START">> => failed = 0 /\ s_retry_count = 0
    /\ events = <<"STA_DISCONNECTED">> => failed = s_retry_count + 1
    /\ events = <<"STA_GOT_IP">> => failed = 0
    /\ events = <<"STA_GOT_IP", "STA_DISCONNECTED">> => failed = 1

GiveUpInv ==
    /\ Fail => radio = "idle" /\ events = <<>> /\ failed = WIFI_MAX_RETRY + 1
    /\ pc = "false" /\ provisioned => Fail

IInv == TypeOK /\ OffInv /\ QueueInv /\ CountInv /\ GiveUpInv

\* The queues that occur, taken apart and put together.
LEMMA Queues ==
    /\ Head(<<"STA_START">>) = "STA_START" /\ Tail(<<"STA_START">>) = <<>>
    /\ Head(<<"STA_DISCONNECTED">>) = "STA_DISCONNECTED"
    /\ Tail(<<"STA_DISCONNECTED">>) = <<>>
    /\ Head(<<"STA_GOT_IP">>) = "STA_GOT_IP" /\ Tail(<<"STA_GOT_IP">>) = <<>>
    /\ Head(<<"STA_GOT_IP", "STA_DISCONNECTED">>) = "STA_GOT_IP"
    /\ Tail(<<"STA_GOT_IP", "STA_DISCONNECTED">>) = <<"STA_DISCONNECTED">>
    /\ Append(<<>>, "STA_DISCONNECTED") = <<"STA_DISCONNECTED">>
    /\ Append(<<>>, "STA_GOT_IP") = <<"STA_GOT_IP">>
    /\ <<"STA_START">> # <<>> /\ <<"STA_DISCONNECTED">> # <<>>
    /\ <<"STA_GOT_IP">> # <<>> /\ <<"STA_GOT_IP", "STA_DISCONNECTED">> # <<>>
    /\ <<"STA_START">> # <<"STA_DISCONNECTED">>
    /\ <<"STA_START">> # <<"STA_GOT_IP">>
    /\ <<"STA_GOT_IP">> # <<"STA_DISCONNECTED">>
    /\ <<"STA_GOT_IP", "STA_DISCONNECTED">> # <<"STA_START">>
    /\ <<"STA_GOT_IP", "STA_DISCONNECTED">> # <<"STA_DISCONNECTED">>
    /\ <<"STA_GOT_IP", "STA_DISCONNECTED">> # <<"STA_GOT_IP">>
    /\ <<>> \in Seq(Event) /\ <<"STA_START">> \in Seq(Event)
    /\ <<"STA_DISCONNECTED">> \in Seq(Event) /\ <<"STA_GOT_IP">> \in Seq(Event)
    /\ <<"STA_GOT_IP", "STA_DISCONNECTED">> \in Seq(Event)
  BY DEF Event

LEMMA AddressLost ==
    Append(<<"STA_GOT_IP">>, "STA_DISCONNECTED")
      = <<"STA_GOT_IP", "STA_DISCONNECTED">>
  <1> DEFINE s == Append(<<"STA_GOT_IP">>, "STA_DISCONNECTED")
             t == <<"STA_GOT_IP", "STA_DISCONNECTED">>
  <1>1. /\ s \in Seq(Event) /\ Len(s) = 2
        /\ s[1] = "STA_GOT_IP" /\ s[2] = "STA_DISCONNECTED"
    BY DEF Event
  <1>2. /\ t \in Seq(Event) /\ Len(t) = 2
        /\ t[1] = "STA_GOT_IP" /\ t[2] = "STA_DISCONNECTED"
    BY DEF Event
  <1>3. \A i \in 1 .. Len(s) : s[i] = t[i]
    BY <1>1, <1>2
  <1>4. s = t
    <2> HIDE DEF s, t
    <2> QED
      BY <1>1, <1>2, <1>3, SeqEqual
  <1> QED
    BY <1>4

-----------------------------------------------------------------------------
LEMMA InitIInv == Init => IInv
  BY RetryAssumption, Queues
     DEF Init, IInv, TypeOK, OffInv, QueueInv, CountInv, GiveUpInv, Fail, Radio

LEMMA NextIInv == IInv /\ [Next]_vars => IInv'
  <1> USE RetryAssumption, Queues
  <1> USE DEF IInv, TypeOK, OffInv, QueueInv, CountInv, GiveUpInv, Fail, Radio
  <1> SUFFICES ASSUME IInv, [Next]_vars PROVE IInv'
    OBVIOUS
  <1>1. CASE NoCredentials
    BY <1>1 DEF NoCredentials, wifi_load_credentials
  <1>2. CASE StartStation
    BY <1>2 DEF StartStation, wifi_load_credentials
  <1>3. CASE ReturnFromWait
    BY <1>3 DEF ReturnFromWait
  <1>4. CASE HandleStart
    <2>1. events = <<"STA_START">> /\ events' = <<>> /\ radio = "idle"
      BY <1>4 DEF HandleStart, Handling
    <2> QED
      BY <1>4, <2>1 DEF HandleStart, esp_wifi_connect
  <1>5. CASE HandleDisconnectedRetry
    <2>1. events = <<"STA_DISCONNECTED">> /\ events' = <<>> /\ radio = "idle"
      BY <1>5 DEF HandleDisconnectedRetry, Handling
    <2> QED
      BY <1>5, <2>1 DEF HandleDisconnectedRetry, esp_wifi_connect, RetriesLeft
  <1>6. CASE HandleDisconnectedGiveUp
    <2>1. events = <<"STA_DISCONNECTED">> /\ events' = <<>> /\ radio = "idle"
      BY <1>6 DEF HandleDisconnectedGiveUp, Handling
    <2> QED
      BY <1>6, <2>1 DEF HandleDisconnectedGiveUp, RetriesLeft
  <1>7. CASE HandleGotIp
    <2>1. \/ events = <<"STA_GOT_IP">> /\ events' = <<>> /\ radio = "addressed"
          \/ /\ events = <<"STA_GOT_IP", "STA_DISCONNECTED">>
             /\ events' = <<"STA_DISCONNECTED">> /\ radio = "idle"
      BY <1>7 DEF HandleGotIp, Handling
    <2>2. ~Fail /\ ~Fail' /\ radio' = radio /\ failed' = failed
          /\ s_retry_count' = 0 /\ pc' = pc /\ provisioned' = provisioned
      BY <1>7, <2>1 DEF HandleGotIp
    <2>3. TypeOK'
      <3>1. events' \in Seq(Event)
        BY <2>1
      <3>2. bits' \subseteq {"WIFI_CONNECTED_BIT", "WIFI_FAIL_BIT"}
        BY <1>7 DEF HandleGotIp
      <3> QED
        BY <2>2, <3>1, <3>2
    <2>4. CASE events' = <<>> /\ radio = "addressed"
      BY <2>1, <2>2, <2>3, <2>4
    <2>5. CASE events' = <<"STA_DISCONNECTED">> /\ radio = "idle"
      BY <2>1, <2>2, <2>3, <2>5
    <2> QED
      BY <2>1, <2>4, <2>5
  <1>8. CASE Disconnect
    <2>1. \/ events = <<>> /\ events' = <<"STA_DISCONNECTED">>
          \/ /\ events = <<"STA_GOT_IP">>
             /\ events' = <<"STA_GOT_IP", "STA_DISCONNECTED">>
      BY <1>8, AddressLost DEF Disconnect
    <2> QED
      BY <1>8, <2>1 DEF Disconnect
  <1>9. CASE Associate
    BY <1>9 DEF Associate
  <1>10. CASE GetAddress
    <2>1. events = <<>> /\ events' = <<"STA_GOT_IP">>
      BY <1>10 DEF GetAddress
    <2> QED
      BY <1>10, <2>1 DEF GetAddress
  <1>11. CASE UNCHANGED vars
    BY <1>11 DEF vars
  <1> QED
    BY <1>1, <1>2, <1>3, <1>4, <1>5, <1>6, <1>7, <1>8, <1>9, <1>10, <1>11
       DEF Next, wifi_station_connect, event_handler

\* The invariant holds for every retry limit (wifi_station.c:40-104).
THEOREM Inductive == Spec => []IInv
  BY InitIInv, NextIInv, PTL DEF Spec

\* Type correctness: s_retry_count never passes WIFI_MAX_RETRY.
THEOREM TypeCorrect == Spec => []TypeOK
  BY Inductive, PTL DEF IInv

\* The station gives up after WIFI_MAX_RETRY + 1 failures in a row and never
\* earlier (wifi_station.c:45-54).
THEOREM FailsAfterRetries == Spec => []FailAfterRetries
  <1>1. IInv => FailAfterRetries
    BY DEF IInv, GiveUpInv, Fail, FailAfterRetries
  <1> QED
    BY <1>1, Inductive, PTL

\* A station that gave up stays off the air (wifi_station.c:45-51).
THEOREM StaysGivenUp == Spec => []GivesUpForGood
  <1>1. IInv => GivesUpForGood
    BY DEF IInv, GiveUpInv, Fail, GivesUpForGood
  <1> QED
    BY <1>1, Inductive, PTL
=============================================================================
