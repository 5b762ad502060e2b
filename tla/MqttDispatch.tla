---------------------------- MODULE MqttDispatch ----------------------------
(***************************************************************************)
(* connectors/mqtt.py: the connector's thread, which connects and then     *)
(* runs paho's network loop; a bounded queue and a dispatch thread per     *)
(* device; and stop(), on the supervisor's thread.  The supervisor may     *)
(* restart start() in the same object, with its queues as they were.       *)
(*                                                                         *)
(* A payload is the number of its arrival.                                 *)
(***************************************************************************)
EXTENDS Integers, Sequences

CONSTANTS
  Devices,       \* the readable devices behind this connector
  Capacity,      \* _MAX_QUEUED_PER_DEVICE
  Stopped,       \* a shutdown may be requested
  MaxPayloads,   \* BOUND: payloads the broker sends
  MaxDeaths,     \* BOUND: dispatch threads that die of a BaseException
  MaxRestarts    \* the supervisor's restart budget

ASSUME DispatchAssumption ==
  /\ Capacity \in Nat \ {0}
  /\ MaxPayloads \in Nat /\ MaxDeaths \in Nat /\ MaxRestarts \in Nat
  /\ Stopped \in BOOLEAN

STOP == 0                     \* the sentinel _STOP
Payloads == 1..MaxPayloads
Releasers == {"net", "stop"}  \* the threads that run _release_dispatchers

VARIABLES
  queue,       \* per device, the queue of its dispatcher, oldest first
  thread,      \* per device, where its dispatch thread is
  generation,  \* per device, how many dispatchers it was given
  item,        \* per device, what that thread took from the queue
  data,        \* per device, device.data: the last payload it accepted
  stored,      \* per device, the last row handed to storage
  net,         \* where the connector's thread is
  sent,        \* payloads the broker has sent: on_message has the last one
  targets,     \* the devices it has still to be handed to
  target,      \* the device it is being handed to
  newest,      \* HISTORY: per device, the newest payload on_message had for it
  client,      \* mqtt_client: how many were built, 0 before any
  live,        \* the clients that are connected and not disconnected
  stopping,    \* the connector's stop event
  stopper,     \* where stop() is
  stopClient,  \* the client stop() found
  release,     \* per releasing thread, the dispatchers of its snapshot left
  closing,     \* ... and the one it drained and has still to send the sentinel
  deaths, restarts

reader  == <<thread, generation, item>>
inbox   == <<queue, reader>>
reading == <<data, stored>>
routing == <<sent, targets, target>>
message == <<routing, newest>>
stop    == <<stopping, stopper, stopClient>>
connection == <<client, live>>
releasing  == <<release, closing>>
budget  == <<deaths, restarts>>
vars == <<inbox, reading, net, message, connection, stop, releasing, budget>>

Alive(d) == thread[d] \in {"get", "check", "receive", "publish"}

(* _dispatch_snapshot: each device's current queue and thread. *)
Dispatchers == {<<d, generation[d]>> : d \in {e \in Devices : thread[e] # "none"}}
Current(q) == q[2] = generation[q[1]]

Init ==
  /\ queue = [d \in Devices |-> <<>>]
  /\ thread = [d \in Devices |-> "none"] /\ item = [d \in Devices |-> STOP]
  /\ generation = [d \in Devices |-> 0]
  /\ data = [d \in Devices |-> 0] /\ stored = [d \in Devices |-> 0]
  /\ net = "start" /\ sent = 0 /\ targets = {} /\ target \in Devices
  /\ newest = [d \in Devices |-> 0]
  /\ client = 0 /\ live = {}
  /\ stopping = FALSE /\ stopper = "event" /\ stopClient = 0
  /\ release = [t \in Releasers |-> {}] /\ closing = [t \in Releasers |-> {}]
  /\ deaths = 0 /\ restarts = 0

---------------------------------------------------------------------------
(* start(): build a client, connect, run the network loop. *)

BuildClient ==
  /\ net = "start" /\ net' = "connect" /\ client' = client + 1
  /\ UNCHANGED <<inbox, reading, message, live, stop, releasing, budget>>

(* while not self.is_stopping(): connect() succeeds, or fails and is       *)
(* retried after an interruptible wait.  Connecting a client undoes a      *)
(* disconnect() that came before it.                                       *)
Connect ==
  /\ net = "connect"
  /\ \/ stopping /\ net' = "connected" /\ UNCHANGED live
     \/ ~stopping /\ net' = "connecting" /\ UNCHANGED live
  /\ UNCHANGED <<inbox, reading, message, client, stop, releasing, budget>>

Connecting ==
  /\ net = "connecting"
  /\ \/ net' = "connected" /\ live' = live \cup {client}
     \/ net' = "connect" /\ UNCHANGED live
  /\ UNCHANGED <<inbox, reading, message, client, stop, releasing, budget>>

(* Mutant: nothing is checked between connect() and the network loop. *)
EnterLoop_Unchecked ==
  /\ net = "connected" /\ net' = "loop"
  /\ UNCHANGED <<inbox, reading, message, connection, stop, releasing, budget>>

EnterLoop ==
  /\ net = "connected" /\ net' = IF stopping THEN "over" ELSE "loop"
  /\ UNCHANGED <<inbox, reading, message, connection, stop, releasing, budget>>

(* loop_forever() returns once disconnect() was called on its client. *)
LeaveLoop ==
  /\ net = "loop" /\ client \notin live
  /\ net' = "release" /\ release' = [release EXCEPT !["net"] = Dispatchers]
  /\ UNCHANGED <<inbox, reading, message, connection, stop, closing, budget>>

(* on_message raises on a payload that is not UTF-8, out of the loop: the  *)
(* supervisor restarts start(), unless it stops or has no restart left.    *)
LoopRaises ==
  /\ net = "loop"
  /\ IF restarts < MaxRestarts /\ ~stopping
     THEN net' = "start" /\ restarts' = restarts + 1
     ELSE net' = "over" /\ UNCHANGED restarts
  /\ UNCHANGED <<inbox, reading, message, connection, stop, releasing, deaths>>

---------------------------------------------------------------------------
(* on_message and _enqueue, on the connector's thread. *)

(* A topic matches the routing pattern of one device, or of several. *)
Arrive ==
  /\ net = "loop" /\ sent < MaxPayloads
  /\ net' = "message" /\ sent' = sent + 1
  /\ targets' \in SUBSET Devices \ {{}}
  /\ UNCHANGED <<inbox, reading, target, newest, connection, stop, releasing, budget>>

MessageDone ==
  /\ net = "message" /\ targets = {} /\ net' = "loop"
  /\ UNCHANGED <<inbox, reading, message, connection, stop, releasing, budget>>

(* _enqueue drops what arrives after stop(). *)
NextTarget(d) ==
  /\ net = "message" /\ d \in targets
  /\ targets' = targets \ {d} /\ target' = d
  /\ IF stopping
     THEN net' = "message" /\ UNCHANGED newest
     ELSE net' = "find" /\ newest' = [newest EXCEPT ![d] = sent]
  /\ UNCHANGED <<inbox, reading, sent, connection, stop, releasing, budget>>

(* Mutant: a dispatcher that died is never replaced. *)
FindDispatcher_NoAliveCheck(d) ==
  /\ net = "find" /\ d = target /\ net' = "put"
  /\ IF thread[d] # "none"
     THEN UNCHANGED inbox
     ELSE /\ queue' = [queue EXCEPT ![d] = <<>>] /\ thread' = [thread EXCEPT ![d] = "get"]
          /\ generation' = [generation EXCEPT ![d] = @ + 1] /\ UNCHANGED item
  /\ UNCHANGED <<reading, message, connection, stop, releasing, budget>>

(* _dispatcher_for, under its lock: a thread that is gone is replaced,     *)
(* with an empty queue.                                                    *)
FindDispatcher(d) ==
  /\ net = "find" /\ d = target /\ net' = "put"
  /\ IF Alive(d)
     THEN UNCHANGED inbox
     ELSE /\ queue' = [queue EXCEPT ![d] = <<>>] /\ thread' = [thread EXCEPT ![d] = "get"]
          /\ generation' = [generation EXCEPT ![d] = @ + 1] /\ UNCHANGED item
  /\ UNCHANGED <<reading, message, connection, stop, releasing, budget>>

(* Mutant: the newest payload is read first. *)
Enqueued_Lifo(d) == queue' = [queue EXCEPT ![d] = <<sent>> \o @]

Enqueued(d) == queue' = [queue EXCEPT ![d] = Append(@, sent)]

(* Mutant: a full queue keeps what it has. *)
Put_DropNewest(d) ==
  /\ net = "put" /\ d = target /\ net' = "message"
  /\ IF Len(queue[d]) < Capacity THEN Enqueued(d) ELSE UNCHANGED queue
  /\ UNCHANGED <<reader, reading, message, connection, stop, releasing, budget>>

Put(d) ==
  /\ net = "put" /\ d = target
  /\ IF Len(queue[d]) < Capacity
     THEN Enqueued(d) /\ net' = "message"
     ELSE net' = "dropOldest" /\ UNCHANGED queue
  /\ UNCHANGED <<reader, reading, message, connection, stop, releasing, budget>>

(* get_nowait(), or Empty when the dispatcher drained it meanwhile. *)
DropOldest(d) ==
  /\ net = "dropOldest" /\ d = target /\ net' = "putAgain"
  /\ queue' = [queue EXCEPT ![d] = IF @ = <<>> THEN @ ELSE Tail(@)]
  /\ UNCHANGED <<reader, reading, message, connection, stop, releasing, budget>>

(* Full again: the newest payload is dropped after all, and the error says *)
(* so.  NewestKept is that this cannot happen before a stop.               *)
PutAgain(d) ==
  /\ net = "putAgain" /\ d = target /\ net' = "message"
  /\ IF Len(queue[d]) < Capacity THEN Enqueued(d) ELSE UNCHANGED queue
  /\ UNCHANGED <<reader, reading, message, connection, stop, releasing, budget>>

---------------------------------------------------------------------------
(* _dispatch, on the device's own thread. *)

Step(d, from, to) == thread[d] = from /\ thread' = [thread EXCEPT ![d] = to]

Get(d) ==
  /\ Step(d, "get", "check") /\ queue[d] # <<>>
  /\ item' = [item EXCEPT ![d] = Head(queue[d])]
  /\ queue' = [queue EXCEPT ![d] = Tail(@)]
  /\ UNCHANGED <<generation, reading, net, message, connection, stop, releasing, budget>>

Check(d) ==
  /\ Step(d, "check", IF item[d] = STOP \/ stopping THEN "ended" ELSE "receive")
  /\ UNCHANGED <<queue, item, generation, reading, net, message, connection, stop, releasing, budget>>

(* deliver(): receive() takes the payload, refuses it, or raises, which    *)
(* deliver contains; a BaseException is not contained and kills the thread *)
Receive(d) ==
  /\ \/ Step(d, "receive", "publish") /\ data' = [data EXCEPT ![d] = item[d]] /\ UNCHANGED deaths
     \/ Step(d, "receive", "get") /\ UNCHANGED <<data, deaths>>
     \/ /\ Step(d, "receive", "dead") /\ UNCHANGED data
        /\ deaths < MaxDeaths /\ deaths' = deaths + 1
  /\ UNCHANGED <<queue, item, generation, stored, net, message, connection, stop, releasing, restarts>>

(* on_device_data_received: the registry and storage read device.data. *)
Publish(d) ==
  /\ Step(d, "publish", "get") /\ stored' = [stored EXCEPT ![d] = data[d]]
  /\ UNCHANGED <<queue, item, generation, data, net, message, connection, stop, releasing, budget>>

---------------------------------------------------------------------------
(* stop(), and _release_dispatchers on either thread. *)

SetStopEvent ==
  /\ Stopped
  /\ stopper = "event" /\ stopper' = "client" /\ stopping' = TRUE
  /\ UNCHANGED <<inbox, reading, net, message, connection, stopClient, releasing, budget>>

FindClient ==
  /\ stopper = "client" /\ stopper' = "disconnect" /\ stopClient' = client
  /\ UNCHANGED <<inbox, reading, net, message, connection, stopping, releasing, budget>>

Disconnect ==
  /\ stopper = "disconnect" /\ stopper' = "release" /\ live' = live \ {stopClient}
  /\ release' = [release EXCEPT !["stop"] = Dispatchers]
  /\ UNCHANGED <<inbox, reading, net, message, client, stopping, stopClient, closing, budget>>

Releases(t) == (t = "net" /\ net = "release") \/ (t = "stop" /\ stopper = "release")

(* Does q stand first in t's list, and has it payloads left?  A dispatcher *)
(* that was replaced has no reader: its queue is not followed any further. *)
Draining(t, q) == Releases(t) /\ closing[t] = {} /\ q \in release[t]
HasPayloads(q) == Current(q) /\ queue[q[1]] # <<>>

(* One get_nowait() of the drain ... *)
Abandon(t, q) ==
  /\ Draining(t, q) /\ HasPayloads(q) /\ queue' = [queue EXCEPT ![q[1]] = Tail(@)]
  /\ UNCHANGED <<reader, reading, net, message, connection, stop, releasing, budget>>

(* ... which ends on Empty ... *)
Drained(t, q) ==
  /\ Draining(t, q) /\ ~HasPayloads(q)
  /\ release' = [release EXCEPT ![t] = @ \ {q}] /\ closing' = [closing EXCEPT ![t] = {q}]
  /\ UNCHANGED <<inbox, reading, net, message, connection, stop, budget>>

(* ... and is followed by the sentinel, unless payloads raced it and       *)
(* filled the queue again.                                                 *)
PutStop(t, q) ==
  /\ Releases(t) /\ q \in closing[t] /\ closing' = [closing EXCEPT ![t] = {}]
  /\ queue' = [queue EXCEPT ![q[1]] = IF Current(q) /\ Len(@) < Capacity
                                      THEN Append(@, STOP) ELSE @]
  /\ UNCHANGED <<reader, reading, net, message, connection, stop, release, budget>>

AllReleased(t) == Releases(t) /\ release[t] = {} /\ closing[t] = {}

StopReturns ==
  /\ AllReleased("stop") /\ stopper' = "returned"
  /\ UNCHANGED <<inbox, reading, net, message, connection, stopping, stopClient, releasing, budget>>

(* _join_dispatchers waits its two seconds at most, then start() returns. *)
StartReturns ==
  /\ AllReleased("net") /\ net' = "over"
  /\ UNCHANGED <<inbox, reading, message, connection, stop, releasing, budget>>

---------------------------------------------------------------------------
ReleaseNext(t) ==
  \E q \in release[t] \cup closing[t] : Abandon(t, q) \/ Drained(t, q) \/ PutStop(t, q)

NetRuns ==
  \/ BuildClient \/ Connect \/ Connecting \/ EnterLoop \/ LeaveLoop \/ MessageDone
  \/ \E d \in Devices :
       NextTarget(d) \/ FindDispatcher(d) \/ Put(d) \/ DropOldest(d) \/ PutAgain(d)
  \/ ReleaseNext("net") \/ StartReturns

DispatchNext(d) == Get(d) \/ Check(d) \/ Receive(d) \/ Publish(d)

StopNext == FindClient \/ Disconnect \/ ReleaseNext("stop") \/ StopReturns

Next ==
  \/ NetRuns \/ Arrive \/ LoopRaises \/ SetStopEvent \/ StopNext
  \/ \E d \in Devices : DispatchNext(d)

Spec == Init /\ [][Next]_vars

(* Threads that can run do, connect() answers and deliver() returns.       *)
(* Nothing makes a payload arrive, on_message raise or a stop come.        *)
FairSpec ==
  /\ Spec /\ WF_vars(NetRuns) /\ WF_vars(StopNext)
  /\ \A d \in Devices : WF_vars(DispatchNext(d))

---------------------------------------------------------------------------
(* Properties. *)

Queues == Seq(Payloads \cup {STOP})
Snapshots == SUBSET (Devices \X Nat)

(* Every variable stays within its type. *)
TypeOK ==
  /\ queue \in [Devices -> Queues]
  /\ \A d \in Devices : Len(queue[d]) <= Capacity
  /\ thread \in [Devices -> {"none", "get", "check", "receive", "publish", "dead", "ended"}]
  /\ generation \in [Devices -> Nat]
  /\ item \in [Devices -> Payloads \cup {STOP}] /\ data \in [Devices -> 0..MaxPayloads]
  /\ stored \in [Devices -> 0..MaxPayloads] /\ newest \in [Devices -> 0..MaxPayloads]
  /\ net \in {"start", "connect", "connecting", "connected", "loop", "message", "find",
              "put", "dropOldest", "putAgain", "release", "over"}
  /\ sent \in 0..MaxPayloads /\ targets \subseteq Devices /\ target \in Devices
  /\ client \in 0..(MaxRestarts + 1) /\ live \subseteq 1..client /\ stopClient \in 0..client
  /\ stopping \in BOOLEAN
  /\ stopper \in {"event", "client", "disconnect", "release", "returned"}
  /\ release \in [Releasers -> Snapshots] /\ closing \in [Releasers -> Snapshots]
  /\ deaths \in 0..MaxDeaths /\ restarts \in 0..MaxRestarts

(* A device never goes back to an older reading, in its own data or in the *)
(* rows storage gets, and a row holds the payload its own delivery parsed: *)
(* over bursts that overflow the queue, over the death of its dispatcher   *)
(* and over a restart of the connector.                                    *)
ReadingsMoveForward ==
  [][\A d \in Devices :
       /\ data'[d] # data[d] => data'[d] > data[d]
       /\ stored'[d] # stored[d] => stored'[d] > stored[d] /\ stored'[d] = item[d]]_vars

Putting(d) == net \in {"put", "dropOldest", "putAgain"} /\ target = d
Enqueueing(d) == target = d /\ (net = "find" \/ Putting(d))

(* "Readings are being lost, newest kept": while the connector runs and    *)
(* its dispatcher lives, the newest payload that on_message had for a      *)
(* device is the last in its queue, or what its dispatcher took last, once *)
(* _enqueue has returned: _drop_oldest has only ever made room for it, and *)
(* the second put never finds the queue full (_enqueue, _drop_oldest).     *)
NewestKept ==
  \A d \in Devices :
    ~stopping /\ Alive(d) /\ newest[d] # 0 /\ ~Enqueueing(d) =>
      IF queue[d] = <<>> THEN item[d] = newest[d] ELSE queue[d][Len(queue[d])] = newest[d]

(* A payload accepted for a device is reached by its dispatcher, or a      *)
(* newer one is: a dispatcher that died does not silence the device.       *)
DeviceNotSilenced ==
  \A d \in Devices, n \in Payloads, k \in 0..MaxDeaths :
    (net = "find" /\ target = d /\ sent = n /\ deaths = k)
      ~> (item[d] >= n \/ deaths > k \/ stopping)

(* A stop ends start() and every dispatcher, wherever it finds them: while *)
(* connecting, in the loop, between a drain and a put, in a restart.       *)
StopEnds ==
  stopping ~> (net = "over" /\ stopper = "returned" /\ \A d \in Devices : ~Alive(d))
=============================================================================
