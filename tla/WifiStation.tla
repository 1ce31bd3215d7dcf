---------------------------- MODULE WifiStation ----------------------------
(***************************************************************************)
(* wifi_station.c: app_main's task starts the station and waits on an      *)
(* event group; the handler, on the event loop's task, reconnects a        *)
(* bounded number of times and sets the bits. The WiFi driver and the      *)
(* access point are external: an attempt is refused or associates, an      *)
(* associated station is given an address or never, and any of it may be   *)
(* lost again. The driver's events are queued, and handled in order, while *)
(* the driver goes on.                                                     *)
(***************************************************************************)
EXTENDS Integers, Sequences

CONSTANT WIFI_MAX_RETRY

ASSUME RetryAssumption == WIFI_MAX_RETRY \in Nat

VARIABLES
    provisioned,    \* the "wifi_creds" namespace has SSID and password
    pc,             \* app_main's task in wifi_station_connect(), or its result
    bits,           \* s_wifi_event_group
    s_retry_count,
    events,         \* posted and not yet handled
    radio,          \* what the driver is at
    failed          \* attempts and links lost since it last had an address

vars == <<provisioned, pc, bits, s_retry_count, events, radio, failed>>

Event == {"STA_START", "STA_DISCONNECTED", "STA_GOT_IP"}
Radio == {"off", "idle", "connecting", "associated", "addressed"}

TypeOK ==
    /\ provisioned \in BOOLEAN
    /\ pc \in {"start", "waiting", "true", "false"}
    /\ bits \subseteq {"WIFI_CONNECTED_BIT", "WIFI_FAIL_BIT"}
    /\ s_retry_count \in 0 .. WIFI_MAX_RETRY
    /\ events \in Seq(Event)
    /\ radio \in Radio
    /\ failed \in Nat

Init ==
    /\ provisioned \in BOOLEAN
    /\ pc = "start"
    /\ bits = {} /\ s_retry_count = 0
    /\ events = <<>>
    /\ radio = "off" /\ failed = 0

-----------------------------------------------------------------------------
(***************************************************************************)
(* wifi_station_connect().                                                 *)
(***************************************************************************)
wifi_load_credentials == provisioned

NoCredentials ==
    /\ pc = "start"
    /\ ~wifi_load_credentials
    /\ pc' = "false"
    /\ UNCHANGED <<provisioned, bits, s_retry_count, events, radio, failed>>

\* The event group, the handlers and the driver are set up and started.
StartStation ==
    /\ pc = "start"
    /\ wifi_load_credentials
    /\ pc' = "waiting"
    /\ radio' = "idle"
    /\ events' = <<"STA_START">>
    /\ UNCHANGED <<provisioned, bits, s_retry_count, failed>>

\* xEventGroupWaitBits() returns once a bit is set; it clears none.
ReturnFromWait ==
    /\ pc = "waiting"
    /\ bits # {}
    /\ pc' = IF "WIFI_CONNECTED_BIT" \in bits THEN "true" ELSE "false"
    /\ UNCHANGED <<provisioned, bits, s_retry_count, events, radio, failed>>

-----------------------------------------------------------------------------
(***************************************************************************)
(* event_handler().                                                        *)
(***************************************************************************)
Handling(e) == events # <<>> /\ Head(events) = e /\ events' = Tail(events)

\* The return value is ignored: a driver that is not idle refuses the call.
esp_wifi_connect == radio' = IF radio = "idle" THEN "connecting" ELSE radio

HandleStart ==
    /\ Handling("STA_START")
    /\ esp_wifi_connect
    /\ UNCHANGED <<provisioned, pc, bits, s_retry_count, failed>>

RetriesLeft == s_retry_count < WIFI_MAX_RETRY

HandleDisconnectedRetry ==
    /\ Handling("STA_DISCONNECTED")
    /\ RetriesLeft
    /\ esp_wifi_connect
    /\ s_retry_count' = s_retry_count + 1
    /\ UNCHANGED <<provisioned, pc, bits, failed>>

\* Mutants: it goes on trying; it forgets to tell the waiting task.
MutGiveUpReconnects ==
    /\ Handling("STA_DISCONNECTED")
    /\ ~RetriesLeft
    /\ esp_wifi_connect
    /\ bits' = bits \cup {"WIFI_FAIL_BIT"}
    /\ UNCHANGED <<provisioned, pc, s_retry_count, failed>>
MutGiveUpSilent ==
    /\ Handling("STA_DISCONNECTED")
    /\ ~RetriesLeft
    /\ UNCHANGED <<provisioned, pc, bits, s_retry_count, radio, failed>>

HandleDisconnectedGiveUp ==
    /\ Handling("STA_DISCONNECTED")
    /\ ~RetriesLeft
    /\ bits' = bits \cup {"WIFI_FAIL_BIT"}
    /\ UNCHANGED <<provisioned, pc, s_retry_count, radio, failed>>

\* Mutant: the counter is not reset.
MutKeepsCount ==
    /\ Handling("STA_GOT_IP")
    /\ bits' = bits \cup {"WIFI_CONNECTED_BIT"}
    /\ UNCHANGED <<provisioned, pc, s_retry_count, radio, failed>>

HandleGotIp ==
    /\ Handling("STA_GOT_IP")
    /\ s_retry_count' = 0
    /\ bits' = bits \cup {"WIFI_CONNECTED_BIT"}
    /\ UNCHANGED <<provisioned, pc, radio, failed>>

-----------------------------------------------------------------------------
(***************************************************************************)
(* The driver, the access point and its DHCP server.                       *)
(***************************************************************************)
\* An attempt fails, or the link is lost.
Disconnect ==
    /\ radio \in {"connecting", "associated", "addressed"}
    /\ radio' = "idle"
    /\ events' = Append(events, "STA_DISCONNECTED")
    /\ failed' = failed + 1
    /\ UNCHANGED <<provisioned, pc, bits, s_retry_count>>

Associate ==
    /\ radio = "connecting"
    /\ radio' = "associated"
    /\ UNCHANGED <<provisioned, pc, bits, s_retry_count, events, failed>>

GetAddress ==
    /\ radio = "associated"
    /\ radio' = "addressed"
    /\ events' = Append(events, "STA_GOT_IP")
    /\ failed' = 0
    /\ UNCHANGED <<provisioned, pc, bits, s_retry_count>>

-----------------------------------------------------------------------------
wifi_station_connect == NoCredentials \/ StartStation \/ ReturnFromWait

event_handler ==
    \/ HandleStart
    \/ HandleDisconnectedRetry
    \/ HandleDisconnectedGiveUp
    \/ HandleGotIp

Attempt == radio = "connecting" /\ (Disconnect \/ Associate)

Next ==
    \/ wifi_station_connect
    \/ event_handler
    \/ Disconnect
    \/ Associate
    \/ GetAddress

Spec == Init /\ [][Next]_vars

\* FreeRTOS runs both tasks, and the driver ends an attempt one way or the
\* other; an address need never come.
FairSpec ==
    /\ Spec
    /\ WF_vars(wifi_station_connect)
    /\ WF_vars(event_handler)
    /\ WF_vars(Attempt)

-----------------------------------------------------------------------------
(***************************************************************************)
(* Properties.                                                             *)
(***************************************************************************)

\* The station gives up only when the first attempt and WIFI_MAX_RETRY more,
\* or a lost link and as many attempts, have failed in a row with no address
\* in between, whatever the driver did while events were queued; and without
\* that, wifi_station_connect() returns false only if there are no
\* credentials (wifi_station.c:45-54, 61-66, 97-103).
FailAfterRetries ==
    /\ "WIFI_FAIL_BIT" \in bits => failed = WIFI_MAX_RETRY + 1
    /\ pc = "false" /\ provisioned => failed = WIFI_MAX_RETRY + 1

\* Once the handler has given up, the station stays off the air: no event is
\* on its way and no attempt is under way behind the back of an app_main
\* that has returned (wifi_station.c:45-51).
GivesUpForGood ==
    "WIFI_FAIL_BIT" \in bits => radio = "idle" /\ events = <<>>

\* wifi_station_connect() returns, unless the access point keeps the station
\* associated for good without ever giving it an address: the wait has no
\* timeout and that case raises neither bit (wifi_station.c:93-95).
WifiDecides ==
    <>(pc \in {"true", "false"}) \/ <>[](radio = "associated")
=============================================================================
