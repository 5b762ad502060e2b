---------------------------- MODULE LorawanLink ----------------------------
(***************************************************************************)
(* LorawanConnector: an MQTT connector (its network loop and dispatch      *)
(* queues are MqttDispatch's) to a LoRaWAN network server, which queues a  *)
(* downlink until the node's next uplink.  send() throttles downlinks per  *)
(* device; the algorithms here all command the device Commanded.           *)
(***************************************************************************)
EXTENDS LoraLink

CONSTANTS
  Commanded,      \* the device the commands go to
  Downlink,       \* its controller_options
  Intervals,      \* min_downlink_interval, of the device or the connector
  QueueModes,     \* what the profile offers: {} or {"push", "replace"}
  MaxCommands,    \* BOUND: commands of one algorithm
  MaxTime         \* BOUND: the monotonic clock

ASSUME ThrottleAssumption ==
  Intervals \subseteq Nat /\ MaxCommands \in Nat /\ MaxTime \in Nat \ {0}

VARIABLES
  interval,   \* min_downlink_interval
  time,       \* monotonic()
  issued,     \* the number of the last command of each algorithm
  noted,      \* the time a send() read before it took the lock
  previous,   \* what it found in _last_downlink under the lock
  last,       \* _last_downlink of the device, 0 for none
  queue       \* the network server's downlinks for the device

throttle == <<interval, time, noted, previous, last>>
downlinks == <<throttle, issued, queue>>

LorawanInit ==
  /\ interval \in Intervals /\ time = 1 /\ last = 0
  /\ noted = [a \in Algorithms |-> 0] /\ previous = [a \in Algorithms |-> 0]
  /\ issued = [a \in Algorithms |-> 0] /\ queue = << >>

Lorawan == kind = "lorawan"

---------------------------------------------------------------------------
(* The uplink path. *)

(* A pattern declared by hand wins; the others name one node's topic. *)
TopicRoute(uplink) ==
  {d \in Devices : /\ Declared[d].readable
                   /\ \/ Declared[d].everyTopic
                      \/ /\ Declared[d].address # ""
                         /\ NormaliseEui(Declared[d].address) = NormaliseEui(uplink.address)}

(* Connected, subscribed, and inside the network loop. *)
Subscribe ==
  /\ Lorawan /\ At(Worker, "out", "reading") /\ Reached(WriteOnly)
  /\ UNCHANGED <<setting, after, handles, held, locking, delay, restarts, stopping, readings, downlinks>>

Unsubscribe ==
  /\ Lorawan /\ stopping /\ At(Worker, "reading", "ended")
  /\ UNCHANGED <<setting, after, handles, held, locking, connected, delay, restarts, stopping>>
  /\ UNCHANGED <<readings, downlinks>>

(* The server hands a node its next downlink in the window after an uplink. *)
HearUplink(uplink) ==
  /\ Lorawan /\ pc[Worker] = "reading"
  /\ DeliverUplink(uplink, TopicRoute(uplink), count + 1)
  /\ queue' = IF Commanded \in TopicRoute(uplink) /\ queue # << >> THEN Tail(queue) ELSE queue
  /\ UNCHANGED <<setting, pc, after, handles, held, locking, delay, restarts, stopping>>
  /\ UNCHANGED <<throttle, issued>>

---------------------------------------------------------------------------
(* resolve_downlink() and the publication, on an algorithm's thread. *)

NoPort == 0
ResolveFPort(options) == IF options.fPort \in 1..223 THEN options.fPort ELSE NoPort

ResolveQueueMode(options) ==
  IF options.queueMode \in QueueModes THEN options.queueMode
  ELSE IF "replace" \in QueueModes THEN "replace" ELSE "push"

(* A port that is not an application's drops the command before the throttle. *)
SendDownlink(a) ==
  /\ Lorawan /\ issued[a] < MaxCommands /\ ResolveFPort(Downlink) # NoPort
  /\ At(a, "free", IF interval = 0 THEN "publish" ELSE "throttle")
  /\ issued' = [issued EXCEPT ![a] = @ + 1] /\ noted' = [noted EXCEPT ![a] = time]
  /\ UNCHANGED <<setting, after, handles, held, locking, connected, delay, restarts, stopping, readings>>
  /\ UNCHANGED <<interval, time, previous, last, queue>>

EnterThrottle(a) ==
  /\ At(a, "throttle", "exchange") /\ Enter(a)
  /\ previous' = [previous EXCEPT ![a] = last]
  /\ UNCHANGED <<setting, after, handles, held, connected, delay, restarts, stopping, readings>>
  /\ UNCHANGED <<interval, time, noted, last, issued, queue>>

TooSoon(a) == previous[a] # 0 /\ noted[a] - previous[a] < interval

(* Inside the interval the new command is the one that is dropped. *)
LeaveThrottle(a) ==
  /\ Lorawan /\ Exit(a)
  /\ IF TooSoon(a) THEN At(a, "exchange", "free") /\ UNCHANGED last
                   ELSE At(a, "exchange", "publish") /\ last' = noted[a]
  /\ UNCHANGED <<setting, after, handles, held, connected, delay, restarts, stopping, readings>>
  /\ UNCHANGED <<interval, time, noted, previous, issued, queue>>

Enqueue(command) ==
  queue' = IF ResolveQueueMode(Downlink) = "replace" THEN <<command>> ELSE Append(queue, command)

PublishDownlink(a) ==
  /\ At(a, "publish", "free") /\ Enqueue([from |-> a, number |-> issued[a]])
  /\ UNCHANGED <<setting, after, handles, held, locking, connected, delay, restarts, stopping, readings>>
  /\ UNCHANGED <<throttle, issued>>

(* A payload that does not convert, or a client that is not there.  The    *)
(* interval is spent all the same.                                         *)
DropDownlink(a) ==
  /\ At(a, "publish", "free")
  /\ UNCHANGED <<setting, after, handles, held, locking, connected, delay, restarts, stopping, readings>>
  /\ UNCHANGED <<throttle, issued, queue>>

Tick ==
  /\ Lorawan /\ time < MaxTime /\ time' = time + 1
  /\ UNCHANGED <<shared, readings, interval, noted, previous, last, issued, queue>>

---------------------------------------------------------------------------
LorawanLoop == Subscribe \/ Unsubscribe

Sending(a) ==
  SendDownlink(a) \/ EnterThrottle(a) \/ LeaveThrottle(a) \/ PublishDownlink(a) \/ DropDownlink(a)

LorawanNext ==
  \/ LorawanLoop \/ Tick
  \/ \E uplink \in Uplinks : HearUplink(uplink)
  \/ \E a \in Senders[kind] : Sending(a)
=============================================================================
