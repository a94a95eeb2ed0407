---------------------------------- MODULE Mqtt ----------------------------------
(***************************************************************************)
(* The MQTT interface: one client, created when Wi-Fi is there, that       *)
(* connects, loses its connection and connects again in a task of its own, *)
(* while the flow task publishes through it what each round has to say.    *)
(* Every flag is read and written without a lock.                          *)
(*                                                                         *)
(* The client library is external: it connects, disconnects and accepts or *)
(* refuses a message or a subscription when it likes.  One task            *)
(* initialises it at a time.                                               *)
(***************************************************************************)
EXTENDS Naturals

CONSTANTS Announcements,  \* how many topics each announcement has
          Values          \* how many topics a reading has

\* What the constants must be; assumed where they have values.
MqttAssumption ==
  Announcements \in Nat \ {0} /\ Values \in Nat \ {0}

VARIABLES
  wifi,        \* getWIFIisConnected
  enabled,     \* mqtt_enabled; mqtt_configOK follows the first Start
  initialized, \* mqtt_initialized
  connected,   \* mqtt_connected
  client,      \* the library's client: "none", "trying", "up"
  handlers,    \* subscribeFunktionMap
  listening,   \* topics the broker delivers to this session
  denied,     \* history: topics this session asked for and did not get
  greeting,    \* the connected event is being handled
  failed,      \* failedOnRound is the current round
  scheduled,   \* sendingOf_DiscoveryAndStaticTopics_scheduled
  pc, k,       \* progress of the round's publication
  sent,        \* one topic of the announcement was accepted
  success,     \* what ClassFlowMQTT::doFlow will return
  missing      \* history: topics of this round that were not accepted

service == <<enabled, initialized, client>>
session == <<connected, handlers, listening, denied, greeting>>
round   == <<pc, k, sent, success, missing>>
vars    == <<wifi, service, session, failed, scheduled, round>>

Topics  == {"control", "gpio"}

Init ==
  /\ wifi \in BOOLEAN
  /\ enabled = FALSE /\ initialized = FALSE /\ client = "none"
  /\ connected = FALSE /\ handlers = {} /\ greeting = FALSE
  /\ listening = {} /\ denied = {}
  /\ failed = FALSE /\ scheduled = TRUE
  /\ pc = "start" /\ k = 0 /\ sent = FALSE /\ success = FALSE /\ missing = {}

------------------------------------------------------------------------------
(* MQTT_Init, by whoever finds the client not initialized *)

MQTT_Init ==
  /\ enabled' = TRUE
  /\ \/ (initialized \/ ~wifi) /\ UNCHANGED <<initialized, client>>
     \/ ~initialized /\ wifi /\ initialized' = TRUE /\ client' = "trying"
     \/ ~initialized /\ wifi /\ client' = "none" /\ UNCHANGED initialized

\* The configuration is read, by the flow's initialisation.
Start ==
  /\ pc = "start"
  /\ MQTT_Init
  /\ pc' = "idle"
  /\ UNCHANGED <<wifi, session, failed, scheduled, k, sent, success, missing>>

GotAddress ==
  /\ ~wifi
  /\ wifi' = TRUE
  /\ UNCHANGED <<service, session, failed, scheduled, round>>

\* Five seconds after the address; the event loop's task.
WifiInit ==
  /\ wifi /\ enabled
  /\ MQTT_Init
  /\ UNCHANGED <<wifi, session, failed, scheduled, round>>

WifiLost ==
  /\ wifi
  /\ wifi' = FALSE
  /\ UNCHANGED <<service, session, failed, scheduled, round>>

------------------------------------------------------------------------------
(* mqtt_event_handler_cb, in the client's task *)

Connected ==
  /\ client = "trying" /\ wifi
  /\ client' = "up" /\ initialized' = TRUE /\ connected' = TRUE /\ greeting' = TRUE
  /\ UNCHANGED <<wifi, enabled, handlers, listening, denied, failed, scheduled, round>>

\* One subscription for each topic; the code looks at none of the results.
Subscribe(topics) ==
  \E some \in SUBSET topics : denied' = some /\ listening' = topics \ some

\* Mutant: only what was registered before is subscribed.
MQTTconnectedLate ==
  /\ greeting
  /\ handlers' = handlers \union {"control"}
  /\ Subscribe(handlers)
  /\ greeting' = FALSE
  /\ UNCHANGED <<wifi, service, connected, failed, scheduled, round>>

\* MQTTconnected registers the control topics, then asks for all that are registered.
MQTTconnected ==
  /\ greeting
  /\ handlers' = handlers \union {"control"}
  /\ Subscribe(handlers')
  /\ greeting' = FALSE
  /\ UNCHANGED <<wifi, service, connected, failed, scheduled, round>>

\* The client tries again by itself; the broker forgets the session.
Disconnected ==
  /\ client = "up" /\ ~greeting
  /\ client' = "trying" /\ connected' = FALSE /\ listening' = {} /\ denied' = {}
  /\ UNCHANGED <<wifi, enabled, initialized, handlers, greeting, failed, scheduled, round>>

\* GpioPin::init only registers; the next connection subscribes.
MQTTregisterSubscribeFunction ==
  /\ "gpio" \notin handlers
  /\ handlers' = handlers \union {"gpio"}
  /\ UNCHANGED <<wifi, service, connected, listening, denied, greeting, failed, scheduled, round>>

ClientStep == Connected \/ MQTTconnected \/ Disconnected

------------------------------------------------------------------------------
(* MQTTPublish: one message, tried twice; one failure suppresses the round's rest *)

Refused == UNCHANGED <<service, failed>>

Suppressed == (~enabled \/ failed) /\ Refused

NotReady == /\ enabled /\ ~failed /\ ~(initialized /\ connected)
            /\ MQTT_Init /\ UNCHANGED failed

BothTriesFail == /\ enabled /\ ~failed /\ initialized /\ connected
                 /\ failed' = TRUE /\ UNCHANGED service

Accepted == /\ enabled /\ ~failed /\ initialized /\ connected
            /\ UNCHANGED <<service, failed>>

\* Another task's message, of a pin: it fails for the round as well.
GpioPublishes ==
  /\ pc # "start"
  /\ NotReady \/ BothTriesFail
  /\ UNCHANGED <<wifi, session, scheduled, round>>

NotAccepted == Suppressed \/ NotReady \/ BothTriesFail

------------------------------------------------------------------------------
(* a round's publication: ClassFlowMQTT::doFlow *)

RoundStarts ==
  /\ pc = "idle"
  /\ failed' = FALSE /\ pc' = "status" /\ missing' = {}
  /\ UNCHANGED <<wifi, service, session, scheduled, k, sent, success>>

\* The status of the stages before; nobody looks at what becomes of it.
StatusPublished ==
  /\ pc = "status"
  /\ Accepted \/ NotAccepted
  /\ pc' = (IF scheduled THEN "announce" ELSE "system") /\ k' = 1 /\ sent' = FALSE
  /\ UNCHANGED <<wifi, session, scheduled, success, missing>>

\* Discovery, then the static topics: a group is skipped when not connected at its start.
GroupStarts == k \in {1, Announcements + 1}

SkipGroup ==
  /\ pc = "announce" /\ GroupStarts /\ ~connected
  /\ k' = k + Announcements
  /\ UNCHANGED <<wifi, service, session, failed, scheduled, pc, sent, success, missing>>

AnnounceTopic ==
  /\ pc = "announce" /\ k <= 2 * Announcements /\ (GroupStarts => connected)
  /\ \/ Accepted /\ sent' = TRUE
     \/ NotAccepted /\ UNCHANGED sent
  /\ k' = k + 1
  /\ UNCHANGED <<wifi, session, scheduled, pc, success, missing>>

\* One accepted topic is enough to clear the flag.
sendDiscovery_and_static_Topics ==
  /\ pc = "announce" /\ k > 2 * Announcements
  /\ scheduled' = (scheduled /\ ~sent)
  /\ pc' = "system"
  /\ UNCHANGED <<wifi, service, session, failed, k, sent, success, missing>>

publishSystemData ==
  /\ pc = "system"
  /\ \/ connected /\ Accepted /\ success' = TRUE /\ UNCHANGED missing
     \/ connected /\ NotAccepted /\ success' = FALSE /\ missing' = missing \union {"system"}
     \/ ~connected /\ Refused /\ success' = FALSE /\ missing' = missing \union {"system"}
  /\ pc' = "look"
  /\ UNCHANGED <<wifi, session, scheduled, k, sent>>

LooksAgain ==
  /\ pc = "look"
  /\ success' = (success /\ connected)
  /\ pc' = "values" /\ k' = 0
  /\ UNCHANGED <<wifi, service, session, failed, scheduled, sent, missing>>

\* The connection is looked at once more before the first value, not before the others.
ValuesSkipped ==
  /\ pc = "values" /\ k = 0 /\ ~connected
  /\ missing' = missing \union {"skipped"}
  /\ pc' = "accounting"
  /\ UNCHANGED <<wifi, service, session, failed, scheduled, k, sent, success>>

ValuePublished ==
  /\ pc = "values" /\ (k = 0 => connected)
  /\ \/ Accepted /\ UNCHANGED <<success, missing>>
     \/ NotAccepted /\ success' = FALSE /\ missing' = missing \union {"value"}
  /\ k' = k + 1
  /\ pc' = IF k' = Values THEN "accounting" ELSE "values"
  /\ UNCHANGED <<wifi, session, scheduled, sent>>

\* Only when the configuration asks for it.
publishAccountingSnapshot ==
  /\ pc = "accounting"
  /\ \/ Refused /\ UNCHANGED <<success, missing>>
     \/ connected /\ Accepted /\ UNCHANGED <<success, missing>>
     \/ /\ IF connected THEN NotAccepted ELSE Refused
        /\ success' = FALSE /\ missing' = missing \union {"accounting"}
  /\ pc' = "idle"
  /\ UNCHANGED <<wifi, session, scheduled, k, sent>>

RoundStep == \/ RoundStarts \/ StatusPublished \/ SkipGroup \/ AnnounceTopic
             \/ sendDiscovery_and_static_Topics \/ publishSystemData \/ LooksAgain
             \/ ValuesSkipped \/ ValuePublished \/ publishAccountingSnapshot

\* /mqtt_publish_discovery
scheduleSending ==
  /\ ~scheduled
  /\ scheduled' = TRUE
  /\ UNCHANGED <<wifi, service, session, failed, round>>

Next == \/ Start \/ GotAddress \/ WifiInit \/ WifiLost \/ ClientStep
        \/ MQTTregisterSubscribeFunction \/ GpioPublishes \/ RoundStep \/ scheduleSending

Spec == Init /\ [][Next]_vars

------------------------------------------------------------------------------
TypeOK ==
  /\ wifi \in BOOLEAN /\ enabled \in BOOLEAN /\ initialized \in BOOLEAN
  /\ client \in {"none", "trying", "up"} /\ connected \in BOOLEAN
  /\ handlers \subseteq Topics /\ greeting \in BOOLEAN
  /\ listening \subseteq handlers /\ denied \subseteq handlers
  /\ failed \in BOOLEAN /\ scheduled \in BOOLEAN
  /\ pc \in {"start", "idle", "status", "announce", "system", "look", "values", "accounting"}
  /\ k \in 0 .. (2 * Announcements + Values) /\ sent \in BOOLEAN /\ success \in BOOLEAN
  /\ missing \subseteq {"system", "skipped", "value", "accounting"}

(* A round whose publication reports success had each of its topics        *)
(* accepted, whatever the connection did meanwhile, with one exception:    *)
(* a connection that is lost between the two looks at it leaves out the    *)
(* values, and nothing else (ClassFlowMQTT::doFlow, MQTTPublish).          *)
RoundReportsTruth ==
  pc = "idle" /\ success => missing \subseteq {"skipped"}

(* A client that is connected and has greeted the broker listens to the    *)
(* control topics, after any number of lost connections and of new clients,*)
(* unless this very session was denied them: the refusal of an earlier    *)
(* session has no effect on a later one, and before the greeting nothing   *)
(* is listened to (mqtt_event_handler_cb, MQTTconnected, MQTT_Init).       *)
ListensWhenConnected ==
  /\ connected => initialized /\ client = "up" /\ (greeting \/ "control" \in listening \union denied)
  /\ listening \intersect denied = {}
  /\ ~connected \/ greeting => listening = {} /\ denied = {}

------------------------------------------------------------------------------
(* The inductive invariant: what a round's success stands for at each of   *)
(* its steps, and what the client has been told.                           *)

SuccessStands ==
  /\ pc \in {"look", "values"} /\ success => missing = {}
  /\ pc \in {"start", "idle", "accounting"} /\ success => missing \subseteq {"skipped"}
  /\ pc = "status" => missing = {}
  /\ pc \in {"announce", "system"} => missing = {} /\ k \in 1 .. (2 * Announcements + 1)
  /\ pc = "values" => k < Values

ClientStands ==
  /\ connected => initialized
  /\ connected <=> client = "up"
  /\ greeting => connected

Inductive == TypeOK /\ SuccessStands /\ ClientStands /\ ListensWhenConnected
=============================================================================
