---------------------------------- MODULE Wlan ----------------------------------
(***************************************************************************)
(* The network of the device: the driver (which is not part of the code)   *)
(* tells what happens to the link by events, one handler takes them one    *)
(* after the other and sleeps in between, and the flow task looks for a    *)
(* stronger access point between its rounds.  The red LED shows what went  *)
(* wrong last; a task of its own blinks for it.                            *)
(***************************************************************************)
EXTENDS Naturals, Sequences

CONSTANTS Signal,     \* the access points of the network, and how strong each is
          Addresses,  \* the addresses that are handed out
          Pending,    \* bound on the events that wait for the handler
          Tries,      \* attempts before a pause
          None

\* What the constants must be; assumed where they have values.
WlanAssumption ==
  /\ DOMAIN Signal # {} /\ \A a \in DOMAIN Signal : Signal[a] \in Nat
  /\ None \notin DOMAIN Signal /\ None \notin Addresses
  /\ {"start", "connected", "disconnected"} \cap Addresses = {}
  /\ Addresses # {} /\ Pending \in Nat \ {0, 1} /\ Tries \in Nat \ {0}

VARIABLES
  main,      \* app_main: "checks", "init", "up", or "aborted"
  link,      \* the driver: off, idle, connecting, joined or online, where and with which address
  events,    \* what waits for event_handler
  handler,   \* event_handler: "idle", asleep for the "pause" of 5 s, or before MQTT ("mqtt")
  wlan,      \* WIFIConnected, WIFIReconnectCnt and wlan_config.ipaddress
  roam,      \* wifiRoamByScanning: "away", "scan" or "found", and APWithBetterRSSI
  attempts,  \* history: attempts since the last address or pause
  led,       \* StatusLEDData and xHandle_task_StatusLED
  lamp,      \* task_StatusLED: where it is, what it copied and whether the LED is lit
  off        \* StatusLEDOff in the task that reboots: "away", "delete", "done" or "deleted"

vars == <<main, link, events, handler, wlan, roam, attempts, led, lamp, off>>

AccessPoints == DOMAIN Signal
NoLink       == [is |-> "idle", ap |-> None, address |-> None]

Init ==
  /\ main = "checks" /\ link = [NoLink EXCEPT !.is = "off"]
  /\ events = <<>> /\ handler = "idle" /\ attempts = 0
  \* The address of wlan.ini, or None for DHCP.
  /\ \E address \in Addresses \union {None} :
       wlan = [connected |-> FALSE, count |-> 0, address |-> address]
  /\ roam = [at |-> "away", better |-> FALSE]
  /\ led = [task |-> FALSE, busy |-> FALSE, shows |-> None, forever |-> FALSE]
  /\ lamp = [at |-> "none", shows |-> None, forever |-> FALSE, lit |-> FALSE]
  /\ off = "away"

------------------------------------------------------------------------------
(* StatusLED: the request is noted in any case, and taken up when the task *)
(* waits for one or there is none.                                         *)

StatusLED(code, forever) ==
  LET Noted == [led EXCEPT !.shows = code, !.forever = forever]
  IN \/ /\ led.task /\ ~led.busy
        /\ led' = [Noted EXCEPT !.busy = TRUE]
        \* xTaskAbortDelay wakes a task that waits; it does nothing to one that is on its way out.
        /\ lamp' = (IF lamp.at = "waits" THEN [lamp EXCEPT !.at = "loop"] ELSE lamp)
     \/ /\ ~led.task
        /\ led' = [Noted EXCEPT !.busy = TRUE, !.task = TRUE]
        /\ lamp' = [lamp EXCEPT !.at = "loop"]
     \/ /\ ~led.task                            \* xTaskCreate fails
        /\ led' = [Noted EXCEPT !.busy = TRUE] /\ UNCHANGED lamp
     \/ led.task /\ led.busy /\ led' = Noted /\ UNCHANGED lamp

LedUnchanged == UNCHANGED <<led, lamp, off>>
NetUnchanged == UNCHANGED <<main, link, events, handler, wlan, roam, attempts>>

\* task_StatusLED: a look at the request, a copy of it, and the first light.
LedBegins ==
  /\ lamp.at = "loop"
  /\ lamp' = IF led.busy THEN [at |-> "blinks", shows |-> led.shows, forever |-> led.forever, lit |-> FALSE]
             ELSE [lamp EXCEPT !.at = "ends"]
  /\ NetUnchanged /\ UNCHANGED <<led, off>>

LedBlinks ==
  /\ lamp.at = "blinks" /\ lamp' = [lamp EXCEPT !.lit = ~lamp.lit]
  /\ NetUnchanged /\ UNCHANGED <<led, off>>

LedDone ==
  /\ lamp.at = "blinks" /\ ~lamp.lit /\ ~lamp.forever
  /\ led' = [led EXCEPT !.busy = FALSE] /\ lamp' = [lamp EXCEPT !.at = "waits", !.shows = None]
  /\ NetUnchanged /\ UNCHANGED off

LedWaited ==
  /\ lamp.at = "waits" /\ lamp' = [lamp EXCEPT !.at = "loop"]
  /\ NetUnchanged /\ UNCHANGED <<led, off>>

LedEnds ==
  /\ lamp.at = "ends"
  /\ led' = [led EXCEPT !.task = FALSE] /\ lamp' = [lamp EXCEPT !.at = "none"]
  /\ NetUnchanged /\ UNCHANGED off

\* StatusLEDOff: the handle is looked at, then used; a task that has gone in between
\* leaves the caller to delete itself.
StatusLEDOff ==
  /\ main = "up" /\ off = "away"
  /\ IF led.task THEN off' = "delete" /\ UNCHANGED lamp
     ELSE off' = "done" /\ lamp' = [lamp EXCEPT !.lit = FALSE]
  /\ NetUnchanged /\ UNCHANGED led

StatusLEDDeletes ==
  /\ off = "delete"
  /\ IF led.task THEN off' = "done" /\ lamp' = [lamp EXCEPT !.at = "deleted", !.shows = None, !.lit = FALSE]
     ELSE off' = "deleted" /\ UNCHANGED lamp
  /\ NetUnchanged /\ UNCHANGED led

------------------------------------------------------------------------------
(* app_main *)

\* A folder is missing on the card: that is shown for ever, and the start goes on.
CardChecked ==
  /\ main = "checks" /\ main' = "init"
  /\ StatusLED("SDCARD_CHECK", TRUE) \/ UNCHANGED <<led, lamp>>
  /\ UNCHANGED <<link, events, handler, wlan, roam, attempts, off>>

\* wifi_init_sta gets to esp_wifi_start.
InitSta ==
  /\ main = "init" /\ main' = "up"
  /\ link' = NoLink /\ events' = <<"start">>
  /\ UNCHANGED <<handler, wlan, roam, attempts>> /\ LedUnchanged

\* LoadWlanFromFile or a step of wifi_init_sta fails: there is no network until a restart.
InitFails ==
  /\ main = "init" /\ main' = "aborted"
  /\ StatusLED("WLAN_INIT", TRUE)
  /\ UNCHANGED <<link, events, handler, wlan, roam, attempts, off>>

------------------------------------------------------------------------------
(* The driver *)

Tells(event) == Len(events) < Pending /\ events' = Append(events, event)
DriverStep   == UNCHANGED <<main, handler, wlan, roam, attempts>> /\ LedUnchanged

\* The strongest access point that answers.
Joins ==
  /\ link.is = "connecting"
  /\ \E ap \in AccessPoints : link' = [link EXCEPT !.is = "joined", !.ap = ap]
  /\ Tells("connected") /\ DriverStep

\* The address of wlan.ini or whichever DHCP hands out.
Addressed ==
  /\ link.is = "joined"
  /\ \E address \in Addresses :
       /\ link' = [link EXCEPT !.is = "online", !.address = address]
       /\ Tells(address)
  /\ DriverStep

\* An attempt fails or a connection is lost: no access point, authentication, beacons, or anything else.
Loses ==
  /\ link.is \in {"connecting", "joined", "online"}
  /\ link' = NoLink /\ Tells("disconnected") /\ DriverStep

\* esp_wifi_connect
Connect == link' = IF link.is = "idle" THEN [link EXCEPT !.is = "connecting"] ELSE link

------------------------------------------------------------------------------
(* event_handler *)

Handles(event) == handler = "idle" /\ events # <<>> /\ Head(events) = event /\ events' = Tail(events)

HandleStart ==
  /\ Handles("start") /\ wlan' = [wlan EXCEPT !.connected = FALSE]
  /\ Connect /\ attempts' = attempts + 1
  /\ UNCHANGED <<main, handler, roam>> /\ LedUnchanged

\* Mutant: after the last attempt of a row there is a pause but no other attempt.
HandleDisconnectedPausing ==
  /\ Handles("disconnected")
  /\ StatusLED("WLAN_CONN", FALSE)
  /\ IF wlan.count + 1 >= Tries
     THEN /\ wlan' = [wlan EXCEPT !.connected = FALSE, !.count = 0]
          /\ handler' = "pause" /\ attempts' = 0 /\ UNCHANGED link
     ELSE /\ wlan' = [wlan EXCEPT !.connected = FALSE, !.count = @ + 1]
          /\ attempts' = attempts + 1 /\ Connect /\ UNCHANGED handler
  /\ UNCHANGED <<main, roam, off>>

\* The next attempt is begun before the pause, which the handler sleeps away.
HandleDisconnected ==
  /\ Handles("disconnected")
  /\ StatusLED("WLAN_CONN", FALSE)
  /\ Connect
  /\ IF wlan.count + 1 >= Tries
     THEN /\ wlan' = [wlan EXCEPT !.connected = FALSE, !.count = 0]
          /\ handler' = "pause" /\ attempts' = 0
     ELSE /\ wlan' = [wlan EXCEPT !.connected = FALSE, !.count = @ + 1]
          /\ attempts' = attempts + 1 /\ UNCHANGED handler
  /\ UNCHANGED <<main, roam, off>>

HandleConnected ==
  /\ Handles("connected")
  /\ UNCHANGED <<main, link, handler, wlan, roam, attempts>> /\ LedUnchanged

\* With MQTT enabled MQTT_Init comes 5 s later, whatever has become of the link.
HandleGotIP ==
  /\ \E address \in Addresses :
       Handles(address) /\ wlan' = [connected |-> TRUE, count |-> 0, address |-> address]
  /\ attempts' = 0 /\ handler' \in {"idle", "mqtt"}
  /\ UNCHANGED <<main, link, roam>> /\ LedUnchanged

HandlerWakes ==
  /\ handler # "idle" /\ handler' = "idle"
  /\ UNCHANGED <<main, link, events, wlan, roam, attempts>> /\ LedUnchanged

------------------------------------------------------------------------------
(* wifiRoamByScanning, between two rounds of the flow *)

\* A threshold is set and get_WIFI_RSSI is below it.
RoamBegins ==
  /\ main = "up" /\ roam.at = "away" /\ link.ap # None
  /\ roam' = [roam EXCEPT !.at = "scan"]
  /\ UNCHANGED <<main, link, events, handler, wlan, attempts>> /\ LedUnchanged

\* wifi_scan: without a link esp_wifi_sta_get_ap_info leaves currentAP as it was on the
\* stack, and the comparison has any result.
Scanned ==
  /\ roam.at = "scan"
  /\ \E found \in SUBSET AccessPoints, better \in BOOLEAN :
       /\ link.ap # None => better = (\E ap \in found : Signal[ap] > Signal[link.ap] + 5)
       /\ found = {} => ~better
       /\ roam' = [at |-> "found", better |-> roam.better \/ better]
  /\ UNCHANGED <<main, link, events, handler, wlan, attempts>> /\ LedUnchanged

\* esp_wifi_disconnect: what there is of a link goes, with an event like any other loss.
Roams ==
  /\ roam.at = "found" /\ roam' = [at |-> "away", better |-> FALSE]
  /\ IF roam.better /\ link.is \in {"connecting", "joined", "online"}
     THEN link' = NoLink /\ Tells("disconnected")
     ELSE UNCHANGED <<link, events>>
  /\ UNCHANGED <<main, handler, wlan, attempts>> /\ LedUnchanged

Next ==
  \/ CardChecked \/ InitSta \/ InitFails
  \/ Joins \/ Addressed \/ Loses
  \/ HandleStart \/ HandleDisconnected \/ HandleConnected \/ HandleGotIP \/ HandlerWakes
  \/ RoamBegins \/ Scanned \/ Roams
  \/ LedBegins \/ LedBlinks \/ LedDone \/ LedWaited \/ LedEnds
  \/ StatusLEDOff \/ StatusLEDDeletes

Spec == Init /\ [][Next]_vars

------------------------------------------------------------------------------
BlinkCodes == {"SDCARD_CHECK", "WLAN_INIT", "WLAN_CONN", None}
NetTypes ==
  /\ main \in {"checks", "init", "up", "aborted"} /\ handler \in {"idle", "pause", "mqtt"}
  /\ link \in [is : {"off", "idle", "connecting", "joined", "online"}, ap : AccessPoints \union {None},
               address : Addresses \union {None}]
  /\ roam \in [at : {"away", "scan", "found"}, better : BOOLEAN]
CountTypes ==
  /\ wlan \in [connected : BOOLEAN, count : 0..(Tries - 1), address : Addresses \union {None}]
  /\ attempts \in 0..Tries /\ Len(events) <= Pending
LedTypes ==
  /\ led \in [task : BOOLEAN, busy : BOOLEAN, shows : BlinkCodes, forever : BOOLEAN]
  /\ lamp \in [at : {"none", "loop", "blinks", "waits", "ends", "deleted"}, shows : BlinkCodes,
               forever : BOOLEAN, lit : BOOLEAN]
  /\ off \in {"away", "delete", "done", "deleted"}
TypeOK == NetTypes /\ CountTypes /\ LedTypes

(* Once the handler has caught up with the driver, the device believes to  *)
(* be connected exactly when it has an address, and knows the address it   *)
(* was given last; and it is connected or an attempt is under way, so that *)
(* no loss of the network, and no change to a stronger access point that   *)
(* crossed with one, is the last that is heard of it.  There are never     *)
(* more attempts in a row than there may be before a pause.  The LED is    *)
(* lit by nobody but its task, which is there whenever it is to be found   *)
(* by its handle (event_handler, wifiRoamByScanning, task_StatusLED).      *)
WlanTrue ==
  /\ main = "up" /\ events = <<>> /\ handler = "idle" =>
       /\ wlan.connected <=> link.is = "online"
       /\ wlan.connected => wlan.address = link.address
       /\ link.is \in {"connecting", "joined", "online"}
  /\ attempts <= Tries
  /\ lamp.lit => lamp.at = "blinks"
  /\ off = "away" => (led.task <=> lamp.at # "none")

------------------------------------------------------------------------------
(* The inductive invariant                                                 *)

Events == {"start", "connected", "disconnected"} \union Addresses
Settled == \A i \in DOMAIN events : events[i] = "connected"
Newest(i) == events[i] # "connected" /\ \A j \in DOMAIN events : j > i => events[j] = "connected"

NewestTells ==
  \A i \in DOMAIN events : Newest(i) =>
    IF events[i] \in Addresses THEN link.is = "online" /\ link.address = events[i]
    ELSE link.is # "online"
HandlerKnows ==
  main = "up" /\ Settled =>
    /\ wlan.connected <=> link.is = "online"
    /\ wlan.connected => wlan.address = link.address
    /\ link.is # "idle"

\* The last event that waits tells how the link is; when none waits the device knows it.
EventsTell ==
  /\ events \in Seq(Events) /\ (main = "up" <=> link.is # "off")
  /\ NewestTells /\ HandlerKnows

\* A row of attempts begins with a start, an address or a pause.
RowCounted ==
  /\ attempts <= wlan.count + 1
  /\ main \in {"checks", "init"} => events = <<>> /\ wlan.count = 0 /\ attempts = 0
  /\ \A i \in DOMAIN events : events[i] = "start" => i = 1 /\ wlan.count = 0 /\ attempts = 0

\* The handle of the LED's task is set exactly while there is one, and nobody else lights the LED.
LampSound ==
  /\ led.task <=> lamp.at # "none"
  /\ lamp.lit => lamp.at = "blinks"

Inductive == TypeOK /\ EventsTell /\ RowCounted /\ LampSound
=============================================================================
