---------------------------------- MODULE Gpio ----------------------------------
(***************************************************************************)
(* The pins for general use, between five tasks: an interrupt that queues  *)
(* the changes of one input, the GPIO task that takes them from the queue  *)
(* and polls the other pins, HTTP requests and MQTT messages that switch   *)
(* an output, and the flow, which deletes the pins with each of its        *)
(* initialisations and makes new ones from config.ini, with no lock.       *)
(*                                                                         *)
(* The output is told to subscribers on the topic that switches it, so     *)
(* that the broker hands back to the device what the device has published. *)
(* One initialisation runs at a time.                                      *)
(***************************************************************************)
EXTENDS Integers, Sequences

CONSTANTS QueueLimit,  \* length of gpio_queue_handle (10)
          Pending,     \* bound on the messages under way from the broker
          Inits        \* bound on initialisations

\* What the constants must be; assumed where they have values.
GpioAssumption == QueueLimit \in Nat \ {0} /\ Pending \in Nat \ {0} /\ Inits \in Nat \ {0}

VARIABLES
  pins,       \* the initialisation that the pins of gpioMap are from, 0 when there are none
  inits,      \* how many there have been
  flow,       \* the initialisation under way: "idle", to "make" or "hook" pins, or to "start" the task
  hooked,     \* GpioPin::init has been called: the pins have their direction and their interrupts
  level,      \* level[p]: of the pin itself
  latch,      \* the level the output is to have, which the pin has while it is an output
  state,      \* state[p]: currentState, Unknown in a new pin
  handler,    \* the initialisation whose pin handles the output's topic, 0 for none
  greets,     \* the connect function is registered
  session,    \* the connection: "no", "deaf" (without the output's topic) or "listening"
  greeting,   \* greeting[g]: the call of the connect function by the client or by the flow
  queue,      \* gpio_queue_handle
  task,       \* the GPIO task: "none", "queue", or about to publish a level
  http,       \* the level a request has set and not published yet, and the pin's initialisation
  told,       \* what subscribers of the output were told last
  echo,       \* messages on the output's topic under way to the device
  missed,     \* history: the last change of the watched pin was not queued, or a greeting has read
              \* another level: that of before, or that of a pin which is no input yet
  lost        \* history: the last message on the output's topic was not handed back

init     == <<pins, inits, flow, hooked>>
wires    == <<level, latch, state>>
client   == <<handler, greets, session, greeting>>
messages == <<told, echo, lost>>
vars     == <<init, wires, client, queue, task, http, messages, missed>>

Pins     == {"watched", "output"}  \* an input with an interrupt on any edge, and an output
Greeters == {"client", "flow"}
Unknown  == -1
Levels   == {0, 1}

At(at)             == [at |-> at, pin |-> "watched", from |-> 0, new |-> Unknown]
Read(at, p, value) == [at |-> at, pin |-> p, from |-> pins, new |-> value]

Init ==
  /\ pins = 0 /\ inits = 0 /\ flow = "idle" /\ hooked = FALSE
  /\ handler = 0 /\ greets = FALSE /\ session = "no" /\ greeting = [g \in Greeters |-> At("no")]
  /\ level = [p \in Pins |-> 0] /\ latch = 0 /\ state = [p \in Pins |-> Unknown]
  /\ queue = <<>> /\ task = At("none") /\ http = At("no")
  /\ told = Unknown /\ echo = <<>>
  /\ missed = FALSE /\ lost = FALSE

\* The broker has a message on the output's topic, and hands it back to a session that listens.
Told(value) ==
  /\ told' = value
  /\ \/ session = "listening" /\ Len(echo) < Pending /\ echo' = Append(echo, value) /\ lost' = FALSE
     \/ lost' = TRUE /\ UNCHANGED echo

\* MQTTPublish: without a connection, or when the client does not take it, the message is gone.
Publish(p, value) ==
  \/ p = "watched" /\ UNCHANGED messages
  \/ p = "output" /\ session # "no" /\ Told(value)
  \/ p = "output" /\ lost' = TRUE /\ UNCHANGED <<told, echo>>

\* What a pin that has been deleted since publishes is anybody's guess.
PublishRead(read) ==
  \/ Publish(read.pin, read.new)
  \/ read.from # pins /\ lost' = TRUE /\ UNCHANGED <<told, echo>>

\* currentState after it: that of the pin that was read.
Kept(read) == IF read.from = pins THEN [state EXCEPT ![read.pin] = read.new] ELSE state

------------------------------------------------------------------------------
(* gpio_handler_init                                                       *)

\* ~GpioPin, and a start of the chip: the pin is no output any more, and its level what the pull-up
\* and the wiring make of it.
ResetPin == \E pulled \in Levels : level' = [level EXCEPT !["output"] = pulled]

\* clear: the pins are deleted, their interrupts with them.
Clear ==
  /\ flow = "idle" /\ inits < Inits
  /\ inits' = inits + 1 /\ pins' = 0 /\ hooked' = FALSE /\ state' = [p \in Pins |-> Unknown]
  /\ flow' = "make" /\ ResetPin
  /\ UNCHANGED <<latch, client, queue, task, http, messages, missed>>

\* readConfig fills the map with new pins; or there is no such section, the handler is off, and
\* the pins stay as they have been reset.
MakePins ==
  /\ flow = "make"
  /\ \/ pins' = inits /\ flow' = "hook"
     \/ UNCHANGED pins /\ flow' = "idle"
  /\ UNCHANGED <<inits, hooked, wires, client, queue, task, http, messages, missed>>

\* GpioPin::init and MQTTregisterConnectFunction: an output is one again, at the level it was set to
\* last; its topic is registered unless there is a function for it, and the handler too, which is
\* called at once when there is a connection.  When it has been registered before, the task is
\* there, and nothing is left to do.
HookPins ==
  /\ flow = "hook" /\ flow' = (IF greets THEN "idle" ELSE "start")
  /\ hooked' = TRUE /\ level' = [level EXCEPT !["output"] = latch]
  /\ handler' = (IF handler = 0 THEN pins ELSE handler)
  /\ greets' = TRUE
  /\ greeting' = (IF ~greets /\ session # "no" THEN [greeting EXCEPT !["flow"] = At("due")] ELSE greeting)
  /\ UNCHANGED <<pins, inits, latch, state, session, queue, task, http, messages, missed>>

\* The task is created once, with its queue.
StartTask ==
  /\ flow = "start" /\ greeting["flow"].at = "no"
  /\ flow' = "idle"
  /\ task' = (IF task.at = "none" THEN At("queue") ELSE task)
  /\ UNCHANGED <<pins, inits, hooked, wires, client, queue, http, messages, missed>>

------------------------------------------------------------------------------
(* the client: connect functions, then subscriptions                       *)

Connect ==
  /\ session = "no" /\ session' = "deaf"
  /\ greeting' = [greeting EXCEPT !["client"] = At(IF greets THEN "due" ELSE "subscribe")]
  /\ UNCHANGED <<init, wires, handler, greets, queue, task, http, messages, missed>>

Greeted == [client |-> At("subscribe"), flow |-> At("no")]

\* handleMQTTconnect reads an input, and is through when it is known as it is or there is none.
\* A pin that is no input yet is read as 0.
GreetReads(g) ==
  /\ greeting[g].at = "due"
  /\ \E value \in {level["watched"]} \union (IF hooked THEN {} ELSE {0}) :
       /\ greeting' = [greeting EXCEPT ![g] =
            IF pins # 0 /\ state["watched"] # value THEN Read("greet", "watched", value) ELSE Greeted[g]]
       /\ missed' = (missed \/ value # level["watched"])
  /\ UNCHANGED <<init, wires, handler, greets, session, queue, task, http, messages>>

GreetPublishes(g) ==
  /\ greeting[g].at = "greet"
  /\ PublishRead(greeting[g])
  /\ state' = Kept(greeting[g])
  /\ greeting' = [greeting EXCEPT ![g] = Greeted[g]]
  /\ UNCHANGED <<init, level, latch, handler, greets, session, queue, task, http, missed>>

Subscribe ==
  /\ greeting["client"].at = "subscribe"
  /\ session' = (IF handler # 0 THEN "listening" ELSE "deaf")
  /\ greeting' = [greeting EXCEPT !["client"] = At("no")]
  /\ UNCHANGED <<init, wires, handler, greets, queue, task, http, messages, missed>>

\* The client sees it when it has called all functions.
Disconnect ==
  /\ session # "no" /\ greeting["client"].at = "no"
  /\ session' = "no" /\ echo' = <<>> /\ lost' = (lost \/ echo # <<>>)
  /\ UNCHANGED <<init, wires, handler, greets, greeting, queue, task, http, told, missed>>

------------------------------------------------------------------------------
(* the watched pin *)

\* Mutant: the level is taken before the change.
ChangeSeenLate ==
  /\ hooked => task.at # "none"
  /\ level' = [level EXCEPT !["watched"] = 1 - @]
  /\ IF hooked /\ Len(queue) < QueueLimit
     THEN queue' = Append(queue, level["watched"]) /\ missed' = FALSE
     ELSE missed' = (missed \/ handler # 0) /\ UNCHANGED queue
  /\ UNCHANGED <<init, latch, state, client, task, http, messages>>

\* gpio_isr_handler reads the level and queues it; a queue that is full drops it.  Without a
\* queue, which is made after the first pins, the device restarts.
Change ==
  /\ hooked => task.at # "none"
  /\ level' = [level EXCEPT !["watched"] = 1 - @]
  /\ IF hooked /\ Len(queue) < QueueLimit
     THEN queue' = Append(queue, level'["watched"]) /\ missed' = FALSE
     ELSE missed' = (missed \/ handler # 0) /\ UNCHANGED queue
  /\ UNCHANGED <<init, latch, state, client, task, http, messages>>

\* gpioHandlerTask: a pin that is gone, or not there yet, is passed over.
Receive ==
  /\ task.at = "queue" /\ queue # <<>>
  /\ queue' = Tail(queue)
  /\ task' = (IF pins # 0 THEN Read("publish", "watched", Head(queue)) ELSE task)
  /\ missed' = (missed \/ pins = 0)
  /\ UNCHANGED <<init, wires, client, http, messages>>

\* publishState of a pin without an interrupt: the level is read, published, and kept.  The
\* level of an output may be read as 0 whatever it is.
Poll ==
  /\ task.at = "queue" /\ pins # 0
  /\ \E value \in {0, level["output"]} \ {state["output"]} : task' = Read("publish", "output", value)
  /\ UNCHANGED <<init, wires, client, queue, http, messages, missed>>

\* A greeting that has read another level keeps it after this one.
Published ==
  /\ task.at = "publish"
  /\ PublishRead(task)
  /\ state' = Kept(task)
  /\ task' = At("queue")
  /\ missed' = (missed \/ (task.pin = "watched" /\ \E g \in Greeters : greeting[g].at = "greet"
                                                                    /\ greeting[g].new # task.new))
  /\ UNCHANGED <<init, level, latch, client, queue, http>>

------------------------------------------------------------------------------
(* the output *)

\* gpio_set_level: the pin has the level as long as it is an output.
SetLevel(value) ==
  latch' = value /\ level' = (IF hooked THEN [level EXCEPT !["output"] = value] ELSE level)

\* setValue for an HTTP request: the level is set, then published.
HttpSets ==
  /\ pins # 0 /\ http.at = "no"
  /\ \E value \in Levels : http' = Read("set", "output", value) /\ SetLevel(value)
  /\ UNCHANGED <<init, state, client, queue, task, messages, missed>>

HttpPublishes ==
  /\ http.at = "set" /\ PublishRead(http)
  /\ http' = At("no")
  /\ UNCHANGED <<init, wires, client, queue, task, missed>>

\* Somebody else publishes on the topic.
Command ==
  /\ \E value \in Levels : Told(value)
  /\ UNCHANGED <<init, wires, client, queue, task, http, missed>>

\* handleMQTT sets the level and publishes nothing.  A pin that has been deleted may do as if
\* it were still there.
HandleMqtt ==
  /\ echo # <<>> /\ echo' = Tail(echo)
  /\ \/ SetLevel(Head(echo)) /\ UNCHANGED lost
     \/ handler # pins /\ lost' = TRUE /\ UNCHANGED <<level, latch>>
  /\ UNCHANGED <<init, state, client, queue, task, http, told, missed>>

\* gpio_handler_destroy and a restart, or a restart alone.
Restart ==
  /\ pins' = 0 /\ flow' = "idle" /\ hooked' = FALSE /\ UNCHANGED inits
  /\ handler' = 0 /\ greets' = FALSE /\ session' = "no" /\ greeting' = [g \in Greeters |-> At("no")]
  /\ ResetPin /\ latch' = 0 /\ state' = [p \in Pins |-> Unknown]
  /\ queue' = <<>> /\ task' = At("none") /\ http' = At("no")
  /\ echo' = <<>> /\ missed' = FALSE /\ lost' = TRUE /\ UNCHANGED told

Next ==
  \/ Clear \/ MakePins \/ HookPins \/ StartTask
  \/ Connect \/ Subscribe \/ Disconnect
  \/ \E g \in Greeters : GreetReads(g) \/ GreetPublishes(g)
  \/ Change \/ Receive \/ Poll \/ Published
  \/ HttpSets \/ HttpPublishes \/ Command \/ HandleMqtt \/ Restart

Spec == Init /\ [][Next]_vars

------------------------------------------------------------------------------
Reads == [at : {"none", "queue", "publish", "no", "set", "due", "greet", "subscribe"}, pin : Pins,
          from : 0 .. Inits, new : Levels \union {Unknown}]
TypeOK ==
  /\ pins \in 0 .. Inits /\ inits \in 0 .. Inits /\ handler \in 0 .. Inits
  /\ flow \in {"idle", "make", "hook", "start"} /\ hooked \in BOOLEAN
  /\ level \in [Pins -> Levels] /\ latch \in Levels /\ state \in [Pins -> Levels \union {Unknown}]
  /\ greets \in BOOLEAN /\ session \in {"no", "deaf", "listening"}
  /\ greeting \in [Greeters -> Reads] /\ task \in Reads /\ http \in Reads
  /\ queue \in Seq(Levels) /\ Len(queue) <= QueueLimit
  /\ told \in Levels \union {Unknown} /\ echo \in Seq(Levels) /\ Len(echo) <= Pending
  /\ missed \in BOOLEAN /\ lost \in BOOLEAN

(* Once the changes of the watched pin have been taken from the queue, it  *)
(* is known as it is, unless the last one found the queue full or no pin,  *)
(* or a greeting has read another level.  Once nothing is under way, an    *)
(* output is at the level subscribers were told last, in whatever order    *)
(* requests, polls, messages and initialisations have met and whatever a   *)
(* poll has read, as long as the last message was handed back; while its   *)
(* pin is deleted or the handler is off it is no output, which nobody is   *)
(* told, and when it is made anew it is at that level again                *)
(* (gpio_isr_handler, gpioHandlerTask, ~GpioPin, GpioPin::init, setValue,  *)
(* publishState, handleMQTTconnect, handleMQTT).                           *)
GpioTrue ==
  /\ queue = <<>> /\ ~missed /\ task.at # "publish" /\ state["watched"] # Unknown =>
       state["watched"] = level["watched"]
  /\ hooked /\ echo = <<>> /\ http.at = "no" /\ ~lost /\ told # Unknown => level["output"] = told

------------------------------------------------------------------------------
(* The inductive invariant of the proofs.                                  *)

\* What has been read is of pins that have been there; the client greets in a session that does
\* not listen yet, and only one that listens has messages under way.
Underway ==
  /\ task.at \in {"none", "queue", "publish"} /\ http.at \in {"no", "set"}
  /\ \A g \in Greeters : greeting[g].at \in {"no", "due", "greet", "subscribe"}
  /\ task.at = "publish" => task.from \in 1 .. inits /\ task.new \in Levels
  /\ http.at = "set" => http.pin = "output" /\ http.new \in Levels
  /\ \A g \in Greeters : greeting[g].at = "greet" =>
       greeting[g].pin = "watched" /\ greeting[g].from \in 1 .. inits /\ greeting[g].new \in Levels
  /\ greeting["client"].at # "no" => session = "deaf"
  /\ session # "listening" => echo = <<>>

\* The pins are those of the last initialisation; a topic is registered before anything is read of
\* the watched pin.
PinsStand ==
  /\ pins \in {0, inits} /\ (pins = 0 => state = [p \in Pins |-> Unknown])
  /\ flow = "make" => pins = 0 /\ inits > 0 /\ (task.at = "publish" => task.from # inits)
       /\ \A g \in Greeters : greeting[g].at = "greet" => greeting[g].from # inits
  /\ flow \in {"hook", "start"} => pins # 0 /\ (flow = "start" => hooked)
  /\ hooked => handler # 0
  /\ handler = 0 => /\ ~greets /\ queue = <<>> /\ task.at = "none" /\ state["watched"] = Unknown
                    /\ \A g \in Greeters : greeting[g].at \notin {"due", "greet"}

\* The task is about to keep a level of the watched pin.
Keeps == task.at = "publish" /\ task.pin = "watched"

\* The last change that is queued, or the one the task has taken last, is to the level of the watched
\* pin, and with neither the pin is known as it is, and no greeting has read another level.
WatchStands ==
  ~missed => /\ queue # <<>> => queue[Len(queue)] = level["watched"]
             /\ queue = <<>> /\ Keeps => task.new = level["watched"]
             /\ queue = <<>> /\ ~(Keeps /\ task.from = pins) =>
                  /\ state["watched"] \in {Unknown, level["watched"]}
                  /\ \A g \in Greeters : greeting[g].at = "greet" /\ greeting[g].from = pins =>
                       greeting[g].new = level["watched"]

\* Subscribers were told what comes back last, and the output is to be at what they were told.
OutputStands ==
  /\ hooked => level["output"] = latch
  /\ ~lost => /\ echo # <<>> => told = echo[Len(echo)]
              /\ echo = <<>> /\ http.at = "no" /\ told # Unknown => latch = told

Inductive == TypeOK /\ Underway /\ PinsStand /\ WatchStands /\ OutputStands
=============================================================================
