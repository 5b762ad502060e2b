----------------------------- MODULE MqttProofs -----------------------------
(***************************************************************************)
(* Theorems about MqttDispatch, for any devices, any bound of the queues,  *)
(* any number of payloads, deaths and restarts, and a stop at any moment.  *)
(***************************************************************************)
EXTENDS MqttDispatch, TLAPS

(* The steps of _enqueue that have one device to serve. *)
Handing == {"find", "put", "dropOldest", "putAgain"}

(* The payload on_message holds has still to be put in d's queue. *)
Awaits(d) == d \in targets \/ (net \in Handing /\ target = d)

(* A queue is in the order of arrival, sentinels apart. *)
Sorted(q) == \A j, k \in 1..Len(q) : j < k /\ q[k] # STOP => q[j] < q[k]

(* Every payload of a queue is newer than n; none is newer; all are older. *)
NewerThan(n, q) == \A k \in 1..Len(q) : q[k] # STOP => n < q[k]
AtMost(n, q)    == \A k \in 1..Len(q) : q[k] <= n
OlderThan(n, q) == \A k \in 1..Len(q) : q[k] < n

(* A device's data, the payload its thread holds and its queue follow each *)
(* other in the order of arrival, and nothing is newer than what came last. *)
Lane(d) ==
  /\ Sorted(queue[d]) /\ NewerThan(item[d], queue[d]) /\ NewerThan(data[d], queue[d])
  /\ item[d] <= sent /\ data[d] <= sent /\ stored[d] <= data[d] /\ AtMost(sent, queue[d])
  /\ thread[d] = "check" => item[d] = STOP \/ data[d] < item[d]
  /\ thread[d] = "receive" => data[d] < item[d]
  /\ thread[d] = "publish" => data[d] = item[d]

(* Until it is put, the payload on_message holds is newer than all a device *)
(* has of its own.                                                          *)
Behind(d) == item[d] < sent /\ data[d] < sent /\ OlderThan(sent, queue[d])

OrderInv ==
  /\ \A d \in Devices : Lane(d) /\ (Awaits(d) => Behind(d))
  /\ net \in Handing => target \notin targets

Clients == client = IF net = "start" THEN restarts ELSE restarts + 1

(* Until a stop, the loop's client is connected, nobody drains a queue, and *)
(* a put after a drop finds room.                                           *)
BeforeStop ==
  ~stopping =>
    /\ stopper = "event" /\ net # "release"
    /\ net \in Handing \cup {"connected", "loop", "message"} => client \in live
    /\ net = "putAgain" => Len(queue[target]) < Capacity
    /\ net \in Handing => newest[target] = sent

---------------------------------------------------------------------------
(* Sequences and snapshots. *)

(* A queue with one payload more at its end. *)
LEMMA Appended ==
  ASSUME NEW q \in Queues, NEW e \in Payloads \cup {STOP}
  PROVE  /\ Append(q, e) \in Queues
         /\ Len(q) \in Nat /\ Len(Append(q, e)) = Len(q) + 1
         /\ \A k \in 1..Len(q) : Append(q, e)[k] = q[k]
         /\ Append(q, e)[Len(q) + 1] = e
<1> DEFINE S == Payloads \cup {STOP}
<1> HIDE DEF S
<1>1. q \in Seq(S) /\ e \in S
  BY DEF S, Queues
<1>2. Append(q, e) \in Seq(S)
  BY <1>1
<1>3. Append(q, e) \in Queues
  BY <1>2 DEF S, Queues
<1> QED BY <1>1, <1>3

(* A queue without its oldest payload. *)
LEMMA Popped ==
  ASSUME NEW q \in Queues, q # << >>
  PROVE  /\ Tail(q) \in Queues /\ Len(q) \in Nat /\ Len(q) > 0 /\ Len(Tail(q)) = Len(q) - 1
         /\ \A k \in 1..Len(Tail(q)) : Tail(q)[k] = q[k + 1]
         /\ Head(q) = q[1] /\ Head(q) \in Payloads \cup {STOP}
<1> DEFINE S == Payloads \cup {STOP}
<1> HIDE DEF S
<1>1. q \in Seq(S)
  BY DEF S, Queues
<1>2. Tail(q) \in Seq(S) /\ Head(q) \in S
  BY <1>1
<1>3. Tail(q) \in Queues /\ Head(q) \in Payloads \cup {STOP}
  BY <1>2 DEF S, Queues
<1> QED BY <1>1, <1>3

(* The elements of a queue are payloads and sentinels, both numbers. *)
LEMMA Elements ==
  ASSUME NEW q \in Queues
  PROVE  Len(q) \in Nat /\ \A k \in 1..Len(q) : q[k] \in Payloads \cup {STOP} /\ q[k] \in Nat
BY DispatchAssumption DEF Queues, Payloads, STOP

(* The empty queue. *)
LEMMA Emptied == << >> \in Queues /\ Len(<< >>) = 0
BY DEF Queues

(* A snapshot names devices, and any part of it is one. *)
LEMMA SnapshotFacts ==
  /\ Dispatchers \in (IF generation \in [Devices -> Nat] THEN Snapshots ELSE {Dispatchers})
  /\ {} \in Snapshots
  /\ \A s \in Snapshots : \A q \in s :
       q[1] \in Devices /\ s \ {q} \in Snapshots /\ {q} \in Snapshots
BY DEF Dispatchers, Snapshots

---------------------------------------------------------------------------
(* Which steps touch what. *)

(* A step that leaves every queue, thread and reading alone, and does not  *)
(* interrupt _enqueue nor, but for NextTarget, get it under way.           *)
Aside ==
  /\ UNCHANGED <<queue, thread, generation, item, data, stored>>
  /\ net \notin Handing \/ UNCHANGED <<net, target>>
  /\ \/ Arrive
     \/ \E d \in Devices : NextTarget(d)
     \/ UNCHANGED <<sent, targets, target, newest>> /\ (net' \notin Handing \/ net' = net)

(* A step of _enqueue, of a dispatch thread, or of a drain touches a queue; *)
(* every other step leaves the queues, the threads and the readings alone.  *)
LEMMA Elsewhere ==
  ASSUME [Next]_vars
  PROVE  \/ \E d \in Devices : FindDispatcher(d) \/ Put(d) \/ DropOldest(d) \/ PutAgain(d)
         \/ \E d \in Devices : DispatchNext(d)
         \/ \E t \in Releasers : \E q \in release[t] \cup closing[t] : Abandon(t, q) \/ PutStop(t, q)
         \/ Aside
<1> USE DEF Aside, Handing, inbox, reader, reading, message, routing
<1>1. CASE UNCHANGED vars
  BY <1>1 DEF vars
<1>2. CASE BuildClient \/ Connect \/ Connecting \/ EnterLoop \/ LeaveLoop \/ MessageDone
  BY <1>2 DEF BuildClient, Connect, Connecting, EnterLoop, LeaveLoop, MessageDone
<1>3. CASE StartReturns \/ LoopRaises
  BY <1>3 DEF StartReturns, AllReleased, Releases, LoopRaises
<1>11. CASE Arrive
  BY <1>11 DEF Arrive
<1>12. ASSUME NEW d \in Devices, NextTarget(d) PROVE Aside
  BY <1>12 DEF NextTarget
<1>4. CASE SetStopEvent \/ FindClient \/ Disconnect \/ StopReturns
  BY <1>4 DEF SetStopEvent, FindClient, Disconnect, StopReturns
<1>5. ASSUME NEW t \in Releasers, NEW q \in release[t] \cup closing[t], Drained(t, q)
      PROVE  Aside
  BY <1>5 DEF Drained
<1> QED
  BY <1>1, <1>2, <1>3, <1>11, <1>12, <1>4, <1>5
     DEF Next, NetRuns, StopNext, ReleaseNext, Releasers

---------------------------------------------------------------------------
(* Types, one part of the state at a time. *)

InboxTyped ==
  /\ queue \in [Devices -> Queues] /\ \A d \in Devices : Len(queue[d]) <= Capacity
  /\ thread \in [Devices -> {"none", "get", "check", "receive", "publish", "dead", "ended"}]
  /\ generation \in [Devices -> Nat] /\ item \in [Devices -> Payloads \cup {STOP}]

ReadingTyped ==
  data \in [Devices -> 0..MaxPayloads] /\ stored \in [Devices -> 0..MaxPayloads]

MessageTyped ==
  /\ sent \in 0..MaxPayloads /\ targets \subseteq Devices /\ target \in Devices
  /\ newest \in [Devices -> 0..MaxPayloads]

NetTyped ==
  net \in {"start", "connect", "connecting", "connected", "loop", "message", "find",
           "put", "dropOldest", "putAgain", "release", "over"}

ClientTyped ==
  /\ client \in 0..(MaxRestarts + 1) /\ live \subseteq 1..client /\ stopClient \in 0..client
  /\ deaths \in 0..MaxDeaths /\ restarts \in 0..MaxRestarts /\ Clients

StopTyped ==
  stopping \in BOOLEAN /\ stopper \in {"event", "client", "disconnect", "release", "returned"}

ReleaseTyped == release \in [Releasers -> Snapshots] /\ closing \in [Releasers -> Snapshots]

Typed ==
  /\ InboxTyped /\ ReadingTyped /\ MessageTyped /\ NetTyped
  /\ ClientTyped /\ StopTyped /\ ReleaseTyped

LEMMA InitTyped == Init => Typed
<1> SUFFICES ASSUME Init PROVE Typed
  OBVIOUS
<1>1. InboxTyped
  <2>1. Len(<< >>) <= Capacity
    BY DispatchAssumption, Emptied
  <2> QED BY <2>1, Emptied DEF Init, InboxTyped, Payloads, STOP
<1>2. ReadingTyped /\ MessageTyped
  BY DispatchAssumption DEF Init, ReadingTyped, MessageTyped
<1>3. NetTyped /\ StopTyped
  BY DEF Init, NetTyped, StopTyped
<1>4. ClientTyped
  BY DispatchAssumption DEF Init, ClientTyped, Clients
<1>5. ReleaseTyped
  BY SnapshotFacts DEF Init, ReleaseTyped
<1> QED BY <1>1, <1>2, <1>3, <1>4, <1>5 DEF Typed

(* A queue never outgrows its bound, whoever puts and whoever takes. *)
LEMMA InboxStep == Typed /\ [Next]_vars => InboxTyped'
<1> SUFFICES ASSUME Typed, [Next]_vars PROVE InboxTyped'
  OBVIOUS
<1> USE DEF Typed, InboxTyped, reader, inbox
<1>1. ASSUME NEW d \in Devices, FindDispatcher(d) PROVE InboxTyped'
  <2>1. Len(<< >>) <= Capacity
    BY DispatchAssumption, Emptied
  <2>2. CASE Alive(d)
    BY <1>1, <2>2 DEF FindDispatcher
  <2>3. CASE ~Alive(d)
    <3>1. queue' = [queue EXCEPT ![d] = << >>] /\ thread' = [thread EXCEPT ![d] = "get"]
          /\ generation' = [generation EXCEPT ![d] = @ + 1] /\ item' = item
      BY <1>1, <2>3 DEF FindDispatcher
    <3> QED BY <2>1, <3>1, Emptied
  <2> QED BY <2>2, <2>3
<1>2. ASSUME NEW d \in Devices, Put(d) \/ PutAgain(d) PROVE InboxTyped'
  <2>1. CASE Len(queue[d]) < Capacity
    <3>1. sent \in Payloads \cup {STOP}
      BY DEF MessageTyped, Payloads, STOP
    <3>2. Append(queue[d], sent) \in Queues /\ Len(Append(queue[d], sent)) <= Capacity
      BY <2>1, <3>1, Appended, DispatchAssumption
    <3>3. queue' = [queue EXCEPT ![d] = Append(queue[d], sent)]
      BY <1>2, <2>1 DEF Put, PutAgain, Enqueued
    <3>4. UNCHANGED <<thread, generation, item>>
      BY <1>2 DEF Put, PutAgain
    <3> QED BY <3>2, <3>3, <3>4
  <2>2. CASE ~(Len(queue[d]) < Capacity)
    BY <1>2, <2>2 DEF Put, PutAgain
  <2> QED BY <2>1, <2>2
<1>3. ASSUME NEW d \in Devices, queue[d] # << >>, queue' = [queue EXCEPT ![d] = Tail(queue[d])]
      PROVE  queue' \in [Devices -> Queues] /\ \A e \in Devices : Len(queue'[e]) <= Capacity
  <2>1. Tail(queue[d]) \in Queues /\ Len(Tail(queue[d])) <= Capacity
    BY <1>3, Popped, DispatchAssumption
  <2> QED BY <1>3, <2>1
<1>4. ASSUME NEW d \in Devices, DropOldest(d) PROVE InboxTyped'
  BY <1>3, <1>4 DEF DropOldest
<1>5. ASSUME NEW d \in Devices, DispatchNext(d) PROVE InboxTyped'
  <2>1. CASE Get(d)
    <3>1. Head(queue[d]) \in Payloads \cup {STOP}
      BY <2>1, Popped DEF Get
    <3>2. queue' = [queue EXCEPT ![d] = Tail(queue[d])] /\ queue[d] # << >>
      BY <2>1 DEF Get
    <3> QED BY <1>3, <2>1, <3>1, <3>2 DEF Get, Step
  <2>2. CASE Check(d) \/ Publish(d)
    BY <2>2 DEF Check, Publish, Step
  <2>3. CASE Receive(d)
    BY <2>3 DEF Receive, Step
  <2> QED BY <1>5, <2>1, <2>2, <2>3 DEF DispatchNext
<1>6. ASSUME NEW t \in Releasers, NEW q \in release[t] \cup closing[t],
             Abandon(t, q) \/ PutStop(t, q)
      PROVE  InboxTyped'
  <2>1. q[1] \in Devices
    BY <1>6, SnapshotFacts DEF ReleaseTyped
  <2>2. CASE Abandon(t, q)
    BY <1>3, <2>1, <2>2 DEF Abandon, HasPayloads
  <2>3. CASE PutStop(t, q) /\ Current(q) /\ Len(queue[q[1]]) < Capacity
    <3>1. Append(queue[q[1]], STOP) \in Queues /\ Len(Append(queue[q[1]], STOP)) <= Capacity
      BY <2>1, <2>3, Appended, DispatchAssumption
    <3>2. queue' = [queue EXCEPT ![q[1]] = Append(queue[q[1]], STOP)]
      BY <2>3 DEF PutStop
    <3>3. UNCHANGED <<thread, generation, item>>
      BY <2>3 DEF PutStop
    <3> QED BY <2>1, <3>1, <3>2, <3>3
  <2>4. CASE PutStop(t, q) /\ ~(Current(q) /\ Len(queue[q[1]]) < Capacity)
    BY <2>1, <2>4 DEF PutStop
  <2> QED BY <1>6, <2>2, <2>3, <2>4
<1>7. CASE Aside
  BY <1>7 DEF Aside
<1> QED BY <1>1, <1>2, <1>4, <1>5, <1>6, <1>7, Elsewhere

(* The rest of the state: the connector's thread, stop() and the releases. *)
LEMMA ConnectorStep ==
  ASSUME Typed, [Next]_vars
  PROVE  NetTyped' /\ StopTyped' /\ ClientTyped'
<1> USE DispatchAssumption
    DEF Typed, NetTyped, StopTyped, ClientTyped, Clients, stop, connection, budget
<1>1. CASE UNCHANGED vars
  BY <1>1 DEF vars
<1>2. CASE BuildClient
  BY <1>2 DEF BuildClient
<1>3. CASE Connect \/ EnterLoop \/ LeaveLoop \/ MessageDone \/ StartReturns \/ Arrive
  <2>1. /\ UNCHANGED <<client, live, stopping, stopper, stopClient, deaths, restarts>>
        /\ net # "start" /\ net' # "start"
    BY <1>3 DEF Connect, EnterLoop, LeaveLoop, MessageDone, StartReturns, Arrive, Releases, AllReleased
  <2>2. NetTyped'
    BY <1>3 DEF Connect, EnterLoop, LeaveLoop, MessageDone, StartReturns, Arrive
  <2> QED BY <2>1, <2>2
<1>4. CASE Connecting
  <2>1. client \in 1..client /\ client \in Nat
    BY <1>4 DEF Connecting
  <2>2. /\ UNCHANGED <<client, stopping, stopper, stopClient, deaths, restarts>>
        /\ net' \in {"connected", "connect"} /\ live' \subseteq live \cup {client}
    BY <1>4 DEF Connecting
  <2> QED BY <1>4, <2>1, <2>2 DEF Connecting
<1>5. CASE LoopRaises
  BY <1>5 DEF LoopRaises
<1>6. ASSUME NEW d \in Devices,
             NextTarget(d) \/ FindDispatcher(d) \/ Put(d) \/ DropOldest(d) \/ PutAgain(d)
      PROVE  NetTyped' /\ StopTyped' /\ ClientTyped'
  BY <1>6 DEF NextTarget, FindDispatcher, Put, DropOldest, PutAgain
<1>7. ASSUME NEW d \in Devices, DispatchNext(d)
      PROVE  NetTyped' /\ StopTyped' /\ ClientTyped'
  <2>1. UNCHANGED <<net, client, live, stopping, stopper, stopClient, restarts>>
    BY <1>7 DEF DispatchNext, Get, Check, Receive, Publish
  <2>2. deaths' \in 0..MaxDeaths
    BY <1>7 DEF DispatchNext, Get, Check, Receive, Publish
  <2> QED BY <2>1, <2>2
<1>8. CASE SetStopEvent \/ FindClient \/ StopReturns
  <2>1. UNCHANGED <<net, client, live, deaths, restarts>> /\ stopClient' \in {stopClient, client}
    BY <1>8 DEF SetStopEvent, FindClient, StopReturns
  <2>2. StopTyped'
    BY <1>8 DEF SetStopEvent, FindClient, StopReturns
  <2> QED BY <2>1, <2>2
<1>9. CASE Disconnect
  BY <1>9 DEF Disconnect
<1>10. ASSUME NEW t \in Releasers, ReleaseNext(t)
       PROVE  NetTyped' /\ StopTyped' /\ ClientTyped'
  BY <1>10 DEF ReleaseNext, Abandon, Drained, PutStop
<1> QED
  BY <1>1, <1>2, <1>3, <1>4, <1>5, <1>6, <1>7, <1>8, <1>9, <1>10
     DEF Next, NetRuns, StopNext, Releasers

LEMMA MessageStep == Typed /\ [Next]_vars => MessageTyped' /\ ReadingTyped'
<1> SUFFICES ASSUME Typed, [Next]_vars PROVE MessageTyped' /\ ReadingTyped'
  OBVIOUS
<1> USE DispatchAssumption DEF Typed, MessageTyped, ReadingTyped, message, routing, reading
<1>1. CASE UNCHANGED vars
  BY <1>1 DEF vars
<1>2. CASE BuildClient \/ Connect \/ Connecting \/ EnterLoop \/ LeaveLoop \/ LoopRaises
  BY <1>2 DEF BuildClient, Connect, Connecting, EnterLoop, LeaveLoop, LoopRaises
<1>3. CASE MessageDone \/ StartReturns \/ Arrive
  BY <1>3 DEF MessageDone, StartReturns, Arrive
<1>4. ASSUME NEW d \in Devices,
             NextTarget(d) \/ FindDispatcher(d) \/ Put(d) \/ DropOldest(d) \/ PutAgain(d)
      PROVE  MessageTyped' /\ ReadingTyped'
  BY <1>4 DEF NextTarget, FindDispatcher, Put, DropOldest, PutAgain
<1>5. ASSUME NEW d \in Devices, DispatchNext(d) PROVE MessageTyped' /\ ReadingTyped'
  <2>1. item[d] \in 0..MaxPayloads
    BY DEF InboxTyped, Payloads, STOP
  <2>2. CASE Get(d) \/ Check(d)
    BY <2>2 DEF Get, Check
  <2>3. CASE Receive(d)
    BY <2>1, <2>3 DEF Receive
  <2>4. CASE Publish(d)
    BY <2>4 DEF Publish
  <2> QED BY <1>5, <2>2, <2>3, <2>4 DEF DispatchNext
<1>6. CASE SetStopEvent \/ FindClient \/ Disconnect \/ StopReturns
  BY <1>6 DEF SetStopEvent, FindClient, Disconnect, StopReturns
<1>7. ASSUME NEW t \in Releasers, ReleaseNext(t) PROVE MessageTyped' /\ ReadingTyped'
  BY <1>7 DEF ReleaseNext, Abandon, Drained, PutStop
<1> QED
  BY <1>1, <1>2, <1>3, <1>4, <1>5, <1>6, <1>7 DEF Next, NetRuns, StopNext, Releasers

LEMMA ReleaseStep == Typed /\ [Next]_vars => ReleaseTyped'
<1> SUFFICES ASSUME Typed, [Next]_vars PROVE ReleaseTyped'
  OBVIOUS
<1> USE DEF Typed, ReleaseTyped, releasing
<1>1. CASE UNCHANGED vars
  BY <1>1 DEF vars
<1>2. CASE BuildClient \/ Connect \/ Connecting \/ EnterLoop \/ LoopRaises \/ MessageDone
  BY <1>2 DEF BuildClient, Connect, Connecting, EnterLoop, LoopRaises, MessageDone
<1>3. CASE StartReturns \/ Arrive \/ SetStopEvent \/ FindClient \/ StopReturns
  BY <1>3 DEF StartReturns, Arrive, SetStopEvent, FindClient, StopReturns
<1>4. CASE LeaveLoop \/ Disconnect
  <2>1. Dispatchers \in Snapshots
    BY SnapshotFacts DEF InboxTyped
  <2> QED BY <1>4, <2>1 DEF LeaveLoop, Disconnect
<1>5. ASSUME NEW d \in Devices,
             \/ NextTarget(d) \/ FindDispatcher(d) \/ Put(d) \/ DropOldest(d) \/ PutAgain(d)
             \/ DispatchNext(d)
      PROVE  ReleaseTyped'
  BY <1>5 DEF NextTarget, FindDispatcher, Put, DropOldest, PutAgain,
              DispatchNext, Get, Check, Receive, Publish
<1>6. ASSUME NEW t \in Releasers, NEW q \in release[t] \cup closing[t],
             Abandon(t, q) \/ Drained(t, q) \/ PutStop(t, q)
      PROVE  ReleaseTyped'
  <2>1. CASE Abandon(t, q)
    BY <2>1 DEF Abandon
  <2>2. CASE Drained(t, q)
    <3>1. release[t] \ {q} \in Snapshots /\ {q} \in Snapshots
      BY <2>2, SnapshotFacts DEF Drained, Draining
    <3> QED BY <2>2, <3>1 DEF Drained
  <2>3. CASE PutStop(t, q)
    BY <2>3, SnapshotFacts DEF PutStop
  <2> QED BY <1>6, <2>1, <2>2, <2>3
<1> QED
  BY <1>1, <1>2, <1>3, <1>4, <1>5, <1>6 DEF Next, NetRuns, StopNext, ReleaseNext, Releasers

LEMMA NextTyped == Typed /\ [Next]_vars => Typed'
BY InboxStep, ConnectorStep, MessageStep, ReleaseStep DEF Typed

(* No queue ever holds more than its bound, the clients are at most one    *)
(* more than the restarts, and every variable keeps its type.              *)
THEOREM DispatchTypeCorrect == Spec => []TypeOK
<1>1. Spec => []Typed
  BY InitTyped, NextTyped, PTL DEF Spec
<1>2. Typed => TypeOK
  BY DEF Typed, TypeOK, InboxTyped, ReadingTyped, MessageTyped, NetTyped, ClientTyped,
         StopTyped, ReleaseTyped
<1> QED BY <1>1, <1>2, PTL

---------------------------------------------------------------------------
(* The order of the readings. *)

(* What a queue keeps when it loses its oldest payload, and when it gets e. *)
PopKeeps(q) ==
  /\ Sorted(Tail(q)) /\ NewerThan(Head(q), Tail(q))
  /\ \A n \in Nat : /\ NewerThan(n, q) => NewerThan(n, Tail(q))
                    /\ NewerThan(n, q) => Head(q) = STOP \/ n < Head(q)
                    /\ AtMost(n, q) => AtMost(n, Tail(q)) /\ Head(q) <= n
                    /\ OlderThan(n, q) => OlderThan(n, Tail(q)) /\ Head(q) < n

AppendKeeps(q, e) ==
  /\ Sorted(Append(q, e))
  /\ \A n \in Nat : /\ NewerThan(n, q) /\ (e = STOP \/ n < e) => NewerThan(n, Append(q, e))
                    /\ AtMost(n, q) /\ e <= n => AtMost(n, Append(q, e))
                    /\ OlderThan(n, q) /\ e < n => OlderThan(n, Append(q, e))

(* A queue that lost its oldest payload keeps its order, behind that one. *)
LEMMA PoppedOrder ==
  ASSUME NEW q \in Queues, q # << >>, Sorted(q)
  PROVE  PopKeeps(q)
<1>1. /\ Len(q) \in Nat /\ Len(q) > 0 /\ Len(Tail(q)) = Len(q) - 1
      /\ \A k \in 1..Len(Tail(q)) : Tail(q)[k] = q[k + 1]
      /\ Head(q) = q[1]
  BY Popped
<1>2. \A k \in 1..Len(Tail(q)) : k + 1 \in 1..Len(q)
  BY <1>1
<1>3. Sorted(Tail(q))
  BY <1>1, <1>2 DEF Sorted
<1>4. NewerThan(Head(q), Tail(q))
  BY <1>1, <1>2 DEF Sorted, NewerThan
<1>5. 1 \in 1..Len(q)
  BY <1>1
<1>6. ASSUME NEW n \in Nat
      PROVE  /\ NewerThan(n, q) => NewerThan(n, Tail(q))
             /\ AtMost(n, q) => AtMost(n, Tail(q)) /\ Head(q) <= n
             /\ OlderThan(n, q) => OlderThan(n, Tail(q)) /\ Head(q) < n
             /\ NewerThan(n, q) => Head(q) = STOP \/ n < Head(q)
  BY <1>1, <1>2, <1>5 DEF NewerThan, AtMost, OlderThan
<1> QED BY <1>3, <1>4, <1>6 DEF PopKeeps

(* A queue that got a sentinel, or a payload newer than all it had, keeps  *)
(* its order.                                                              *)
LEMMA AppendedOrder ==
  ASSUME NEW q \in Queues, NEW e \in Payloads \cup {STOP}, Sorted(q), e = STOP \/ OlderThan(e, q)
  PROVE  AppendKeeps(q, e)
<1>1. /\ Len(q) \in Nat /\ Len(Append(q, e)) = Len(q) + 1
      /\ \A k \in 1..Len(q) : Append(q, e)[k] = q[k]
      /\ Append(q, e)[Len(q) + 1] = e
  BY Appended
<1>2. \A k \in 1..Len(Append(q, e)) : k \in 1..Len(q) \/ k = Len(q) + 1
  BY <1>1
<1>3. Sorted(Append(q, e))
  BY <1>1, <1>2 DEF Sorted, OlderThan
<1>4. ASSUME NEW n \in Nat
      PROVE  /\ NewerThan(n, q) /\ (e = STOP \/ n < e) => NewerThan(n, Append(q, e))
             /\ AtMost(n, q) /\ e <= n => AtMost(n, Append(q, e))
             /\ OlderThan(n, q) /\ e < n => OlderThan(n, Append(q, e))
  BY <1>1, <1>2 DEF NewerThan, AtMost, OlderThan
<1> QED BY <1>3, <1>4 DEF AppendKeeps

(* What the types say of one device, as numbers. *)
LEMMA Numbers ==
  ASSUME Typed, NEW d \in Devices
  PROVE  /\ queue[d] \in Queues /\ item[d] \in Nat /\ data[d] \in Nat /\ stored[d] \in Nat
         /\ item[d] \in Payloads \cup {STOP} /\ sent \in Nat /\ STOP = 0
         /\ sent \in Payloads \cup {STOP} /\ newest[d] \in Nat
         /\ \A p \in Payloads \cup {STOP} : p \in Nat /\ (p # STOP => p > 0)
BY DispatchAssumption DEF Typed, InboxTyped, ReadingTyped, MessageTyped, Payloads, STOP

LEMMA InitOrder == Init => OrderInv
<1> SUFFICES ASSUME Init PROVE OrderInv
  OBVIOUS
<1>1. Len(<< >>) = 0
  BY Emptied
<1> QED BY <1>1 DEF Init, OrderInv, Lane, Awaits, Handing, Sorted, NewerThan, AtMost, STOP

(* A step that touches only device d, and brings no payload to another:    *)
(* what is left to show is about d.                                        *)
LEMMA OrderFrame ==
  ASSUME OrderInv, NEW d \in Devices,
         \A e \in Devices \ {d} : /\ queue'[e] = queue[e] /\ thread'[e] = thread[e] /\ item'[e] = item[e]
                                  /\ data'[e] = data[e] /\ stored'[e] = stored[e],
         UNCHANGED <<sent, targets, target>>, net' \in Handing => net \in Handing,
         Lane(d)', Awaits(d)' => Behind(d)'
  PROVE  OrderInv'
<1>1. ASSUME NEW e \in Devices \ {d} PROVE Lane(e)' /\ (Awaits(e)' => Behind(e)')
  <2>1. Lane(e) /\ (Awaits(e) => Behind(e))
    BY DEF OrderInv
  <2>2. Awaits(e)' => Awaits(e)
    BY DEF Awaits
  <2> QED BY <2>1, <2>2 DEF Lane, Behind
<1> QED BY <1>1 DEF OrderInv

(* The connector's thread, outside _enqueue, and stop(). *)
LEMMA AsideOrder ==
  ASSUME Typed, OrderInv, Aside
  PROVE  OrderInv'
<1>1. sent \in Nat
  BY DEF Typed, MessageTyped
<1>2. CASE Arrive
  <2>1. sent' = sent + 1 /\ net' \notin Handing
    BY <1>2 DEF Arrive, Handing
  <2>2. ASSUME NEW d \in Devices PROVE Lane(d)' /\ Behind(d)'
    <3>1. Lane(d) /\ queue[d] \in Queues /\ item[d] \in Nat /\ data[d] \in Nat
      BY Numbers DEF OrderInv
    <3>2. \A k \in 1..Len(queue[d]) : queue[d][k] \in Nat
      BY <3>1, Elements
    <3>3. AtMost(sent', queue[d]) /\ OlderThan(sent', queue[d])
      <4>1. AtMost(sent, queue[d])
        BY <3>1 DEF Lane
      <4> QED BY <1>1, <2>1, <3>2, <4>1 DEF AtMost, OlderThan
    <3> QED BY <1>1, <2>1, <3>1, <3>3 DEF Lane, Behind, Aside
  <2> QED BY <2>1, <2>2 DEF OrderInv
<1>3. ASSUME NEW d \in Devices, NextTarget(d) PROVE OrderInv'
  <2>1. /\ net = "message" /\ d \in targets /\ targets' = targets \ {d} /\ target' = d
        /\ UNCHANGED <<queue, thread, item, data, stored, sent>>
    BY <1>3 DEF NextTarget, Aside
  <2>2. ASSUME NEW e \in Devices PROVE Lane(e)' /\ (Awaits(e)' => Behind(e)')
    <3>1. Lane(e) /\ (Awaits(e) => Behind(e))
      BY DEF OrderInv
    <3>2. Awaits(e)' => Awaits(e)
      BY <2>1 DEF Awaits
    <3> QED BY <2>1, <3>1, <3>2 DEF Lane, Behind
  <2> QED BY <2>1, <2>2 DEF OrderInv
<1>4. CASE UNCHANGED <<sent, targets, target>> /\ (net' \notin Handing \/ net' = net)
  <2>1. ASSUME NEW e \in Devices PROVE Lane(e)' /\ (Awaits(e)' => Behind(e)')
    <3>1. Lane(e) /\ (Awaits(e) => Behind(e))
      BY DEF OrderInv
    <3>2. Awaits(e)' => Awaits(e)
      BY <1>4 DEF Awaits
    <3> QED BY <1>4, <3>1, <3>2 DEF Lane, Behind, Aside
  <2> QED BY <1>4, <2>1 DEF OrderInv
<1> QED BY <1>2, <1>3, <1>4 DEF Aside

(* A put brings the newest payload behind older ones. *)
LEMMA PutOrder ==
  ASSUME Typed, OrderInv, NEW d \in Devices, Put(d) \/ PutAgain(d)
  PROVE  OrderInv'
<1>1. net \in Handing /\ target = d /\ d \notin targets /\ Lane(d) /\ Behind(d)
  BY DEF Put, PutAgain, Handing, OrderInv, Awaits
<1>2. UNCHANGED <<thread, item, data, stored, sent, targets, target>>
  BY DEF Put, PutAgain, reader, reading, message, routing
<1>3. CASE Len(queue[d]) < Capacity
  <2>1. /\ queue' = [queue EXCEPT ![d] = Append(queue[d], sent)] /\ net' = "message"
    BY <1>3 DEF Put, PutAgain, Enqueued
  <2>2. queue'[d] = Append(queue[d], sent) /\ \A e \in Devices \ {d} : queue'[e] = queue[e]
    BY <2>1 DEF Typed, InboxTyped
  <2>3. Lane(d)'
    <3>1. AppendKeeps(queue[d], sent)
      BY <1>1, Numbers, AppendedOrder DEF Lane, Behind, AppendKeeps
    <3> QED BY <1>1, <1>2, <2>2, <3>1, Numbers DEF Lane, Behind, AppendKeeps
  <2>4. ~Awaits(d)'
    BY <1>1, <1>2, <2>1 DEF Awaits, Handing
  <2> QED BY <1>1, <1>2, <2>1, <2>2, <2>3, <2>4, OrderFrame
<1>4. CASE ~(Len(queue[d]) < Capacity)
  <2>1. UNCHANGED queue
    BY <1>4 DEF Put, PutAgain
  <2> QED BY <1>1, <1>2, <2>1, OrderFrame DEF Lane, Behind
<1> QED BY <1>3, <1>4

(* Whoever takes the oldest payload of a queue, to drop it, leaves it in   *)
(* order.                                                                  *)
LEMMA DropOrder ==
  ASSUME Typed, OrderInv, NEW d \in Devices,
         queue[d] # << >>, queue' = [queue EXCEPT ![d] = Tail(queue[d])],
         UNCHANGED <<thread, item, data, stored, sent, targets, target>>,
         net' \in Handing => net \in Handing
  PROVE  OrderInv'
<1>1. queue'[d] = Tail(queue[d]) /\ \A e \in Devices \ {d} : queue'[e] = queue[e]
  BY DEF Typed, InboxTyped
<1>2. Lane(d) /\ (Awaits(d)' => Behind(d))
  BY DEF OrderInv, Awaits
<1>3. PopKeeps(queue[d])
  BY <1>2, Numbers, PoppedOrder DEF Lane
<1>4. Lane(d)'
  BY <1>1, <1>2, <1>3, Numbers DEF Lane, PopKeeps
<1>5. Behind(d) => Behind(d)'
  BY <1>1, <1>2, <1>3, Numbers DEF Behind, PopKeeps
<1> QED BY <1>1, <1>2, <1>4, <1>5, OrderFrame

(* A dispatcher that is found, or made with an empty queue, is in order. *)
LEMMA FindOrder ==
  ASSUME Typed, OrderInv, NEW d \in Devices, FindDispatcher(d)
  PROVE  OrderInv'
<1>1. /\ net = "find" /\ target = d /\ net' = "put" /\ Lane(d) /\ Behind(d)
      /\ UNCHANGED <<data, stored, sent, targets, target>>
  BY DEF FindDispatcher, Handing, OrderInv, Awaits, reading, message, routing
<1>2. CASE Alive(d)
  <2>1. UNCHANGED <<queue, thread, item>>
    BY <1>2 DEF FindDispatcher, inbox, reader
  <2> QED BY <1>1, <2>1, OrderFrame DEF Lane, Behind, Handing
<1>3. CASE ~Alive(d)
  <2>1. queue' = [queue EXCEPT ![d] = << >>] /\ thread' = [thread EXCEPT ![d] = "get"] /\ item' = item
    BY <1>3 DEF FindDispatcher
  <2>2. queue'[d] = << >> /\ thread'[d] = "get"
    BY <2>1 DEF Typed, InboxTyped
  <2>3. \A e \in Devices \ {d} : queue'[e] = queue[e] /\ thread'[e] = thread[e]
    BY <2>1 DEF Typed, InboxTyped
  <2>4. Lane(d)' /\ Behind(d)'
    BY <1>1, <2>1, <2>2, Emptied DEF Lane, Behind, Sorted, NewerThan, AtMost, OlderThan
  <2> QED BY <1>1, <2>1, <2>3, <2>4, OrderFrame DEF Handing
<1> QED BY <1>2, <1>3

(* A dispatch thread takes, checks, parses and stores in order. *)
LEMMA DispatchOrder ==
  ASSUME Typed, OrderInv, NEW d \in Devices, DispatchNext(d)
  PROVE  OrderInv'
<1>1. UNCHANGED <<net, sent, targets, target>> /\ Lane(d) /\ (Awaits(d)' => Behind(d))
  BY DEF DispatchNext, Get, Check, Receive, Publish, message, routing, OrderInv, Awaits
<1>2. CASE Get(d)
  <2>1. /\ queue[d] # << >> /\ queue'[d] = Tail(queue[d]) /\ item'[d] = Head(queue[d])
        /\ thread'[d] = "check" /\ UNCHANGED <<data, stored>>
    BY <1>2 DEF Get, Step, Typed, InboxTyped, reading
  <2>2. \A e \in Devices \ {d} : /\ queue'[e] = queue[e] /\ thread'[e] = thread[e]
                                 /\ item'[e] = item[e]
    BY <1>2 DEF Get, Step, Typed, InboxTyped
  <2>3. PopKeeps(queue[d])
    BY <1>1, <2>1, Numbers, PoppedOrder DEF Lane
  <2>4. Lane(d)'
    BY <1>1, <2>1, <2>3, Numbers DEF Lane, PopKeeps
  <2>5. Behind(d) => Behind(d)'
    BY <1>1, <2>1, <2>3, Numbers DEF Behind, PopKeeps
  <2> QED BY <1>1, <2>1, <2>2, <2>4, <2>5, OrderFrame
<1>3. CASE Check(d)
  <2>1. /\ UNCHANGED <<queue, item, data, stored>> /\ thread[d] = "check"
        /\ \A e \in Devices \ {d} : thread'[e] = thread[e]
        /\ thread'[d] = "ended" \/ (thread'[d] = "receive" /\ item[d] # STOP)
    BY <1>3 DEF Check, Step, Typed, InboxTyped, reading
  <2> QED BY <1>1, <2>1, OrderFrame DEF Lane, Behind
<1>4. CASE Receive(d)
  <2>1. /\ UNCHANGED <<queue, item, stored>> /\ thread[d] = "receive"
        /\ \A e \in Devices \ {d} : thread'[e] = thread[e] /\ data'[e] = data[e]
        /\ \/ thread'[d] = "publish" /\ data'[d] = item[d]
           \/ thread'[d] \in {"get", "dead"} /\ data'[d] = data[d]
    BY <1>4 DEF Receive, Step, Typed, InboxTyped, ReadingTyped
  <2> QED BY <1>1, <2>1, Numbers, OrderFrame DEF Lane, Behind
<1>5. CASE Publish(d)
  <2>1. /\ UNCHANGED <<queue, item, data>> /\ thread[d] = "publish" /\ thread'[d] = "get"
        /\ \A e \in Devices \ {d} : thread'[e] = thread[e] /\ stored'[e] = stored[e]
        /\ stored'[d] = data[d]
    BY <1>5 DEF Publish, Step, Typed, InboxTyped, ReadingTyped
  <2> QED BY <1>1, <2>1, Numbers, OrderFrame DEF Lane, Behind
<1> QED BY <1>2, <1>3, <1>4, <1>5 DEF DispatchNext

(* A drain drops the oldest payloads, and a sentinel is in order anywhere. *)
LEMMA ReleaseOrder ==
  ASSUME Typed, OrderInv, NEW t \in Releasers, NEW q \in release[t] \cup closing[t],
         Abandon(t, q) \/ PutStop(t, q)
  PROVE  OrderInv'
<1>1. q[1] \in Devices
  BY SnapshotFacts DEF Typed, ReleaseTyped
<1>2. UNCHANGED <<net, thread, item, data, stored, sent, targets, target>>
  BY DEF Abandon, PutStop, reader, reading, message, routing
<1>3. CASE Abandon(t, q)
  BY <1>1, <1>2, <1>3, DropOrder DEF Abandon, HasPayloads
<1>4. CASE PutStop(t, q) /\ Current(q) /\ Len(queue[q[1]]) < Capacity
  <2>1. queue' = [queue EXCEPT ![q[1]] = Append(queue[q[1]], STOP)]
    BY <1>4 DEF PutStop
  <2>2. /\ queue'[q[1]] = Append(queue[q[1]], STOP)
        /\ \A e \in Devices \ {q[1]} : queue'[e] = queue[e]
    BY <1>1, <2>1 DEF Typed, InboxTyped
  <2>3. Lane(q[1]) /\ (Awaits(q[1])' => Behind(q[1]))
    BY <1>1, <1>2 DEF OrderInv, Awaits
  <2>4. AppendKeeps(queue[q[1]], STOP)
    BY <1>1, <2>3, Numbers, AppendedOrder DEF Lane
  <2>5. Lane(q[1])'
    BY <1>1, <1>2, <2>2, <2>3, <2>4, Numbers DEF Lane, AppendKeeps
  <2>6. Behind(q[1]) => Behind(q[1])'
    BY <1>1, <1>2, <2>2, <2>3, <2>4, Numbers DEF Behind, AppendKeeps
  <2> QED BY <1>1, <1>2, <2>2, <2>3, <2>5, <2>6, OrderFrame
<1>5. CASE PutStop(t, q) /\ ~(Current(q) /\ Len(queue[q[1]]) < Capacity)
  <2>1. queue'[q[1]] = queue[q[1]] /\ \A e \in Devices : queue'[e] = queue[e]
    BY <1>1, <1>5 DEF PutStop, Typed, InboxTyped
  <2>2. Lane(q[1]) /\ (Awaits(q[1])' => Behind(q[1]))
    BY <1>1, <1>2 DEF OrderInv, Awaits
  <2> QED BY <1>1, <1>2, <2>1, <2>2, OrderFrame DEF Lane, Behind
<1> QED BY <1>3, <1>4, <1>5

LEMMA NextOrder == Typed /\ OrderInv /\ [Next]_vars => OrderInv'
<1> SUFFICES ASSUME Typed, OrderInv, [Next]_vars PROVE OrderInv'
  OBVIOUS
<1>1. ASSUME NEW d \in Devices, DropOldest(d) PROVE OrderInv'
  <2>1. /\ UNCHANGED <<thread, item, data, stored, sent, targets, target>>
        /\ net \in Handing /\ target = d
    BY <1>1 DEF DropOldest, reader, reading, message, routing, Handing
  <2>2. CASE queue[d] # << >>
    BY <1>1, <2>1, <2>2, DropOrder DEF DropOldest
  <2>3. CASE queue[d] = << >>
    <3>1. \A e \in Devices : queue'[e] = queue[e]
      BY <1>1, <2>3 DEF DropOldest, Typed, InboxTyped
    <3>2. Lane(d) /\ Behind(d)
      BY <2>1 DEF OrderInv, Awaits
    <3> QED BY <2>1, <3>1, <3>2, OrderFrame DEF Lane, Behind
  <2> QED BY <2>2, <2>3
<1> QED BY <1>1, Elsewhere, AsideOrder, PutOrder, FindOrder, DispatchOrder, ReleaseOrder

(* The order of arrival is kept from a device's queue to its rows, for any *)
(* bound, any overflow, death, restart and stop.                           *)
LEMMA InOrder == Spec => [](Typed /\ OrderInv)
BY InitTyped, NextTyped, InitOrder, NextOrder, PTL DEF Spec

(* A device never goes back to an older reading, neither in its data nor in *)
(* storage, and a row holds the payload its own delivery parsed.            *)
THEOREM ReadingsMoveForwardHolds == Spec => ReadingsMoveForward
<1> DEFINE Forward ==
      \A d \in Devices :
        /\ data'[d] # data[d] => data'[d] > data[d]
        /\ stored'[d] # stored[d] => stored'[d] > stored[d] /\ stored'[d] = item[d]
<1>1. ASSUME Typed, OrderInv, [Next]_vars PROVE Forward
  <2>1. ASSUME NEW d \in Devices, NEW e \in Devices, DispatchNext(e)
        PROVE  /\ data'[d] # data[d] => data'[d] > data[d]
               /\ stored'[d] # stored[d] => stored'[d] > stored[d] /\ stored'[d] = item[d]
    <3>1. Lane(d)
      BY <1>1 DEF OrderInv
    <3>2. CASE Get(e) \/ Check(e)
      BY <3>2 DEF Get, Check, reading
    <3>3. CASE Receive(e)
      BY <1>1, <3>1, <3>3, Numbers DEF Receive, Step, Typed, InboxTyped, ReadingTyped, Lane
    <3>4. CASE Publish(e)
      BY <1>1, <3>1, <3>4, Numbers DEF Publish, Step, Typed, InboxTyped, ReadingTyped, Lane
    <3> QED BY <2>1, <3>2, <3>3, <3>4 DEF DispatchNext
  <2>2. CASE UNCHANGED <<data, stored>>
    BY <2>2
  <2>3. ASSUME NEW d \in Devices, FindDispatcher(d) \/ Put(d) \/ DropOldest(d) \/ PutAgain(d)
        PROVE  UNCHANGED <<data, stored>>
    BY <2>3 DEF FindDispatcher, Put, DropOldest, PutAgain, reading
  <2>4. ASSUME NEW t \in Releasers, NEW q \in release[t] \cup closing[t],
               Abandon(t, q) \/ PutStop(t, q)
        PROVE  UNCHANGED <<data, stored>>
    BY <2>4 DEF Abandon, PutStop, reading
  <2> QED BY <1>1, <2>1, <2>2, <2>3, <2>4, Elsewhere DEF Aside
<1>2. Typed /\ OrderInv /\ [Next]_vars => [Forward]_vars
  BY <1>1
<1> QED BY <1>2, InOrder, PTL DEF Spec, ReadingsMoveForward

---------------------------------------------------------------------------
(* The newest payload. *)

LEMMA InitNewest == Init => BeforeStop /\ NewestKept
BY DEF Init, BeforeStop, NewestKept, Handing, Alive

(* Before a stop nobody drains a queue. *)
LEMMA NobodyDrains ==
  ASSUME BeforeStop, ~stopping, NEW t \in Releasers, NEW q
  PROVE  ~Abandon(t, q) /\ ~Drained(t, q) /\ ~PutStop(t, q)
BY DEF BeforeStop, Abandon, Drained, PutStop, Draining, Releases

(* A stop is not taken back. *)
LEMMA StopIsFinal ==
  ASSUME [Next]_vars, stopping
  PROVE  stopping'
<1>1. ASSUME NEW d \in Devices,
             \/ NextTarget(d) \/ FindDispatcher(d) \/ Put(d) \/ DropOldest(d) \/ PutAgain(d)
             \/ DispatchNext(d)
      PROVE  stopping'
  BY <1>1 DEF NextTarget, FindDispatcher, Put, DropOldest, PutAgain, DispatchNext,
              Get, Check, Receive, Publish, stop
<1>2. ASSUME NEW t \in Releasers, ReleaseNext(t) PROVE stopping'
  BY <1>2 DEF ReleaseNext, Abandon, Drained, PutStop, stop
<1>3. CASE \/ BuildClient \/ Connect \/ Connecting \/ EnterLoop \/ LeaveLoop \/ LoopRaises
           \/ Arrive \/ MessageDone \/ StartReturns
  BY <1>3 DEF BuildClient, Connect, Connecting, EnterLoop, LeaveLoop, LoopRaises, Arrive,
              MessageDone, StartReturns, stop
<1>4. CASE SetStopEvent \/ FindClient \/ Disconnect \/ StopReturns \/ UNCHANGED vars
  BY <1>4 DEF SetStopEvent, FindClient, Disconnect, StopReturns, vars, stop
<1> QED BY <1>1, <1>2, <1>3, <1>4 DEF Next, NetRuns, StopNext, Releasers

LEMMA BeforeStopStep == Typed /\ BeforeStop /\ [Next]_vars => BeforeStop'
<1> SUFFICES ASSUME Typed, BeforeStop, [Next]_vars, ~stopping, ~stopping' PROVE BeforeStop'
  BY StopIsFinal DEF BeforeStop
<1> USE DEF BeforeStop, Handing, stop, connection
<1>1. CASE UNCHANGED vars
  BY <1>1 DEF vars, inbox, message, routing
<1>2. CASE BuildClient \/ Connect \/ EnterLoop \/ LeaveLoop \/ LoopRaises
  BY <1>2 DEF BuildClient, Connect, EnterLoop, LeaveLoop, LoopRaises
<1>3. CASE Connecting \/ Arrive \/ MessageDone \/ StartReturns
  BY <1>3 DEF Connecting, Arrive, MessageDone, StartReturns, AllReleased, Releases
<1>4. ASSUME NEW d \in Devices, NextTarget(d) \/ FindDispatcher(d) \/ Put(d) \/ PutAgain(d)
      PROVE  BeforeStop'
  <2>1. CASE NextTarget(d)
    <3>1. newest'[d] = sent' /\ target' = d /\ net' = "find"
      BY <2>1 DEF NextTarget, Typed, MessageTyped
    <3> QED BY <2>1, <3>1 DEF NextTarget
  <2>2. CASE FindDispatcher(d) \/ Put(d) \/ PutAgain(d)
    BY <2>2 DEF FindDispatcher, Put, PutAgain, message, routing
  <2> QED BY <1>4, <2>1, <2>2
<1>5. ASSUME NEW d \in Devices, DropOldest(d) PROVE BeforeStop'
  <2>1. /\ net = "dropOldest" /\ target = d /\ net' = "putAgain"
        /\ UNCHANGED <<target, sent, newest, stopper, client, live>>
    BY <1>5 DEF DropOldest, message, routing
  <2>2. queue'[d] = IF queue[d] = << >> THEN queue[d] ELSE Tail(queue[d])
    BY <1>5 DEF DropOldest, Typed, InboxTyped
  <2>3. Len(queue'[d]) < Capacity
    <3>1. queue[d] \in Queues /\ Len(queue[d]) <= Capacity
      BY DEF Typed, InboxTyped
    <3> QED BY <2>2, <3>1, Popped, Emptied, DispatchAssumption
  <2> QED BY <2>1, <2>3
<1>6. ASSUME NEW d \in Devices, DispatchNext(d) PROVE BeforeStop'
  <2>1. UNCHANGED <<net, target, sent, newest, client, live, stopper>>
    BY <1>6 DEF DispatchNext, Get, Check, Receive, Publish, message, routing
  <2>2. CASE Get(d)
    <3>1. queue[d] \in Queues /\ queue[d] # << >> /\ target \in Devices /\ Capacity \in Nat
      BY <2>2, DispatchAssumption DEF Get, Typed, InboxTyped, MessageTyped
    <3>2. /\ Len(queue[d]) \in Nat /\ Len(Tail(queue[d])) = Len(queue[d]) - 1
      BY <3>1, Popped
    <3>3. /\ queue'[target] = IF target = d THEN Tail(queue[d]) ELSE queue[target]
      BY <2>2, <3>1 DEF Get, Typed, InboxTyped
    <3> QED BY <2>1, <3>1, <3>2, <3>3
  <2>3. CASE Check(d) \/ Receive(d) \/ Publish(d)
    BY <2>1, <2>3 DEF Check, Receive, Publish
  <2> QED BY <1>6, <2>2, <2>3 DEF DispatchNext
<1>7. CASE SetStopEvent \/ FindClient \/ Disconnect \/ StopReturns
  BY <1>7 DEF SetStopEvent, FindClient, Disconnect, StopReturns, AllReleased, Releases
<1>8. ASSUME NEW t \in Releasers, NEW q \in release[t] \cup closing[t],
             Abandon(t, q) \/ Drained(t, q) \/ PutStop(t, q)
      PROVE  FALSE
  BY <1>8, NobodyDrains
<1> QED
  BY <1>1, <1>2, <1>3, <1>4, <1>5, <1>6, <1>7, <1>8
     DEF Next, NetRuns, StopNext, ReleaseNext, Releasers

(* What NewestKept says of a device. *)
Kept(d) ==
  IF queue[d] = << >> THEN item[d] = newest[d] ELSE queue[d][Len(queue[d])] = newest[d]

(* A put ends with the newest payload last in its queue. *)
LEMMA PutNewest ==
  ASSUME Typed, BeforeStop, NewestKept, ~stopping, NEW d \in Devices, Put(d) \/ PutAgain(d)
  PROVE  NewestKept'
<1>1. target = d /\ Putting(d) /\ UNCHANGED <<thread, item, target>>
  BY DEF Put, PutAgain, Putting, reader, message, routing
<1>2. CASE Len(queue[d]) < Capacity
  <2>1. /\ queue' = [queue EXCEPT ![d] = Append(queue[d], sent)] /\ net' = "message"
        /\ UNCHANGED newest /\ newest[d] = sent
    BY <1>1, <1>2 DEF Put, PutAgain, Enqueued, BeforeStop, Putting, Handing, message
  <2>2. /\ queue'[d] = Append(queue[d], sent) /\ newest'[d] = sent
        /\ \A e \in Devices \ {d} : queue'[e] = queue[e] /\ newest'[e] = newest[e]
    BY <2>1 DEF Typed, InboxTyped
  <2>3. /\ Len(queue[d]) \in Nat /\ Len(queue'[d]) = Len(queue[d]) + 1
        /\ queue'[d][Len(queue[d]) + 1] = sent
    BY <2>2, Numbers, Appended
  <2>4. queue'[d] # << >>
    BY <2>3, Emptied
  <2>5. Kept(d)'
    BY <2>2, <2>3, <2>4 DEF Kept
  <2>6. \A e \in Devices \ {d} : ~Enqueueing(e) /\ (Alive(e)' => Alive(e)) /\ (Kept(e) => Kept(e)')
    BY <1>1, <2>2 DEF Enqueueing, Alive, Kept
  <2> QED BY <2>2, <2>5, <2>6 DEF NewestKept, Kept
<1>3. CASE ~(Len(queue[d]) < Capacity)
  <2>1. Put(d)
    BY <1>3 DEF PutAgain, BeforeStop
  <2>2. UNCHANGED <<queue, newest>> /\ net' = "dropOldest"
    BY <1>3, <2>1 DEF Put, message
  <2> QED BY <1>1, <2>2 DEF NewestKept, Enqueueing, Putting, Alive, message
<1> QED BY <1>2, <1>3

(* A dispatch thread takes the oldest payload: the newest is still last in *)
(* the queue, unless it was the one taken.                                 *)
LEMMA DispatchNewest ==
  ASSUME Typed, NewestKept, ~stopping, NEW d \in Devices, DispatchNext(d)
  PROVE  NewestKept'
<1>1. UNCHANGED <<net, target, newest>>
  BY DEF DispatchNext, Get, Check, Receive, Publish, message, routing
<1>2. \A e \in Devices : Alive(e)' => Alive(e)
  BY DEF DispatchNext, Get, Check, Receive, Publish, Step, Alive, Typed, InboxTyped
<1>3. CASE Get(d)
  <2>1. /\ queue[d] # << >> /\ queue'[d] = Tail(queue[d]) /\ item'[d] = Head(queue[d])
        /\ \A e \in Devices \ {d} : queue'[e] = queue[e] /\ item'[e] = item[e]
    BY <1>3 DEF Get, Typed, InboxTyped
  <2>2. /\ Len(queue[d]) \in Nat /\ Len(queue[d]) > 0 /\ Len(Tail(queue[d])) = Len(queue[d]) - 1
        /\ \A k \in 1..Len(Tail(queue[d])) : Tail(queue[d])[k] = queue[d][k + 1]
        /\ Head(queue[d]) = queue[d][1] /\ Tail(queue[d]) \in Queues
    BY <2>1, Numbers, Popped
  <2>3. Kept(d) => Kept(d)'
    <3>1. CASE Tail(queue[d]) = << >>
      <4>1. Len(queue[d]) = 1
        <5>1. Len(Tail(queue[d])) = 0
          BY <3>1, Emptied
        <5>2. Len(queue[d]) \in Nat /\ Len(Tail(queue[d])) = Len(queue[d]) - 1
          BY <2>2
        <5> QED BY <5>1, <5>2, SMT
      <4> QED BY <1>1, <2>1, <2>2, <3>1, <4>1 DEF Kept
    <3>2. CASE Tail(queue[d]) # << >>
      <4>1. Len(Tail(queue[d])) \in 1..Len(Tail(queue[d]))
        BY <2>2, <3>2, Popped
      <4> QED BY <1>1, <2>1, <2>2, <3>2, <4>1 DEF Kept
    <3> QED BY <3>1, <3>2
  <2>4. \A e \in Devices \ {d} : Kept(e) => Kept(e)'
    BY <1>1, <2>1 DEF Kept
  <2> QED BY <1>1, <1>2, <2>3, <2>4 DEF NewestKept, Enqueueing, Putting, Kept
<1>4. CASE Check(d) \/ Receive(d) \/ Publish(d)
  <2>1. UNCHANGED <<queue, item>>
    BY <1>4 DEF Check, Receive, Publish
  <2> QED BY <1>1, <1>2, <2>1 DEF NewestKept, Enqueueing, Putting
<1> QED BY <1>3, <1>4 DEF DispatchNext

LEMMA NewestStep ==
  Typed /\ BeforeStop /\ NewestKept /\ [Next]_vars /\ ~stopping /\ ~stopping' => NewestKept'
<1> SUFFICES ASSUME Typed, BeforeStop, NewestKept, [Next]_vars, ~stopping PROVE NewestKept'
  OBVIOUS
<1>1. ASSUME NEW d \in Devices, FindDispatcher(d) PROVE NewestKept'
  <2>1. net' = "put" /\ target' = d /\ target = d /\ UNCHANGED <<newest, item>>
    BY <1>1 DEF FindDispatcher, message, routing, inbox, reader
  <2>2. \A e \in Devices \ {d} : queue'[e] = queue[e] /\ thread'[e] = thread[e]
    BY <1>1 DEF FindDispatcher, inbox, reader, Typed, InboxTyped
  <2> QED BY <2>1, <2>2 DEF NewestKept, Enqueueing, Putting, Alive
<1>2. ASSUME NEW d \in Devices, DropOldest(d) PROVE NewestKept'
  <2>1. net' = "putAgain" /\ target = d /\ UNCHANGED <<target, newest, item, thread>>
    BY <1>2 DEF DropOldest, message, routing, reader
  <2>2. \A e \in Devices \ {d} : queue'[e] = queue[e]
    BY <1>2 DEF DropOldest, Typed, InboxTyped
  <2> QED BY <2>1, <2>2 DEF NewestKept, Enqueueing, Putting, Alive
<1>3. CASE Aside
  <2>1. UNCHANGED <<queue, thread, item>>
    BY <1>3 DEF Aside
  <2>2. CASE UNCHANGED newest
    <3>1. \A d \in Devices : Enqueueing(d) => Enqueueing(d)'
      BY <1>3 DEF Aside, Enqueueing, Putting, Handing
    <3> QED BY <2>1, <2>2, <3>1 DEF NewestKept, Alive
  <2>3. ASSUME NEW d \in Devices, NextTarget(d) PROVE NewestKept'
    <3>1. Enqueueing(d)' /\ \A e \in Devices : ~Enqueueing(e)
      BY <2>3 DEF NextTarget, Enqueueing, Putting
    <3>2. \A e \in Devices \ {d} : newest'[e] = newest[e]
      BY <2>3 DEF NextTarget, Typed, MessageTyped
    <3> QED BY <2>1, <3>1, <3>2 DEF NewestKept, Alive
  <2> QED BY <1>3, <2>2, <2>3 DEF Aside, Arrive
<1>4. ASSUME NEW t \in Releasers, NEW q \in release[t] \cup closing[t],
             Abandon(t, q) \/ PutStop(t, q)
      PROVE  FALSE
  BY <1>4, NobodyDrains
<1> QED BY <1>1, <1>2, <1>3, <1>4, PutNewest, DispatchNewest, Elsewhere

(* "Readings are being lost, newest kept": as long as nobody stops it, the *)
(* newest payload of a device is the last in its queue or the one its      *)
(* dispatcher took last, for any bound, overflow, death and restart.       *)
THEOREM NewestKeptHolds == Spec => []NewestKept
<1>1. NewestKept /\ Typed /\ BeforeStop /\ [Next]_vars => NewestKept'
  <2>1. stopping' => NewestKept'
    BY DEF NewestKept
  <2> QED BY <2>1, NewestStep, StopIsFinal
<1>2. Spec => [](Typed /\ BeforeStop /\ NewestKept)
  BY <1>1, InitTyped, NextTyped, InitNewest, BeforeStopStep, PTL DEF Spec
<1> QED BY <1>2, PTL

---------------------------------------------------------------------------
(* The end of the dispatch threads. *)

(* The thread of d will look at its queue, and finds nothing there. *)
Waiting(d) == thread[d] \in {"get", "receive", "publish"} /\ queue[d] = << >>

(* Somebody is still to put something in the queue of d: stop(), which has *)
(* not yet taken its snapshot, a releaser that has d's dispatcher in its   *)
(* own, or on_message.                                                     *)
ToBeWoken(d) ==
  \/ stopper \in {"client", "disconnect"} \/ Putting(d)
  \/ \E t \in Releasers : <<d, generation[d]>> \in release[t] \cup closing[t]

WakeInv ==
  /\ stopping <=> stopper # "event"
  /\ \A t \in Releasers :
       /\ release[t] \cup closing[t] # {} => Releases(t)
       /\ \A q, r \in closing[t] : q = r
  /\ stopping => \A d \in Devices : Waiting(d) => ToBeWoken(d)

(* A queue with a payload more is not empty. *)
LEMMA NotEmpty ==
  ASSUME NEW q \in Queues, NEW e \in Payloads \cup {STOP}
  PROVE  Append(q, e) # << >>
<1> DEFINE r == Append(q, e)
<1>1. Len(q) \in Nat /\ Len(r) = Len(q) + 1
  BY Appended
<1> HIDE DEF r
<1>2. r # << >>
  BY <1>1, Emptied
<1> QED BY <1>2 DEF r

LEMMA InitWake == Init => WakeInv
BY DEF Init, WakeInv, Releasers

(* A step that leaves the queues, the threads and the releasers alone, and *)
(* the stop and on_message where they are, or nearer to a wake-up.         *)
LEMMA WakeFrame ==
  ASSUME WakeInv, UNCHANGED <<thread, queue, generation, release, closing, stopping, stopper>>,
         \A d \in Devices : Putting(d) => Putting(d)', net # "release" \/ net' = "release"
  PROVE  WakeInv'
<1>1. \A t \in Releasers : Releases(t) => Releases(t)'
  BY DEF Releases
<1>2. \A d \in Devices : (Waiting(d)' <=> Waiting(d)) /\ (ToBeWoken(d) => ToBeWoken(d)')
  BY DEF Waiting, ToBeWoken
<1> QED BY <1>1, <1>2 DEF WakeInv

(* stop() and start() take their snapshots with nothing left of others.    *)
LEMMA SnapshotWake == ASSUME Typed, WakeInv, LeaveLoop \/ Disconnect PROVE WakeInv'
<1> USE DEF stop, inbox, reader, message, routing
<1>1. PICK t \in Releasers :
        /\ ~Releases(t) /\ Releases(t)' /\ release' = [release EXCEPT ![t] = Dispatchers]
        /\ \A s \in Releasers \ {t} : Releases(s) <=> Releases(s)'
  BY DEF LeaveLoop, Disconnect, Releases, Releasers
<1>2. UNCHANGED <<thread, queue, generation, closing, stopping>>
  BY DEF LeaveLoop, Disconnect
<1>3. stopping <=> stopper' # "event"
  BY DEF LeaveLoop, Disconnect, WakeInv
<1>4. release'[t] = Dispatchers /\ \A s \in Releasers \ {t} : release'[s] = release[s]
  BY <1>1 DEF Typed, ReleaseTyped
<1>5. release[t] = {} /\ closing[t] = {}
  BY <1>1 DEF WakeInv
<1>6. ASSUME NEW d \in Devices, Waiting(d)' PROVE ToBeWoken(d)'
  <2>1. <<d, generation[d]>> \in Dispatchers
    BY <1>2, <1>6 DEF Waiting, Dispatchers
  <2> QED BY <1>2, <1>4, <2>1 DEF ToBeWoken
<1>7. ASSUME NEW s \in Releasers
      PROVE  /\ release'[s] \cup closing'[s] # {} => Releases(s)'
             /\ \A q, r \in closing'[s] : q = r
  BY <1>1, <1>2, <1>4 DEF WakeInv
<1> QED BY <1>2, <1>3, <1>6, <1>7 DEF WakeInv

(* What on_message does on its way ends in a put. *)
LEMMA MessageWake ==
  ASSUME Typed, WakeInv, NEW d \in Devices,
         NextTarget(d) \/ FindDispatcher(d) \/ Put(d) \/ DropOldest(d) \/ PutAgain(d)
  PROVE  WakeInv'
<1> USE DEF stop, inbox, reader, message, routing, releasing, connection
<1>1. CASE NextTarget(d)
  <2>1. \A e \in Devices : ~Putting(e)
    BY <1>1 DEF NextTarget, Putting
  <2> QED BY <1>1, <2>1, WakeFrame DEF NextTarget
<1>2. ASSUME FindDispatcher(d) \/ Put(d) \/ DropOldest(d) \/ PutAgain(d) PROVE WakeInv'
  <2>1. /\ UNCHANGED <<release, closing, stopping, stopper, target>>
        /\ net # "release" /\ net' # "release" /\ target = d
    BY <1>2 DEF FindDispatcher, Put, DropOldest, PutAgain
  <2>2. \A t \in Releasers : Releases(t)' <=> Releases(t)
    BY <2>1 DEF Releases
  <2>3. queue[d] \in Queues /\ Append(queue[d], sent) # << >>
    <3>1. sent \in Payloads \cup {STOP} /\ queue[d] \in Queues
      BY DispatchAssumption DEF Typed, InboxTyped, MessageTyped, Payloads, STOP
    <3> QED BY <3>1, NotEmpty
  <2>4. ASSUME NEW e \in Devices \ {d}, Waiting(e)' PROVE Waiting(e) /\ generation'[e] = generation[e]
    BY <1>2, <2>4 DEF FindDispatcher, Put, DropOldest, PutAgain, Enqueued, Waiting, Typed, InboxTyped
  <2>5. ASSUME Waiting(d)' PROVE Putting(d)' \/ (Waiting(d) /\ ~Putting(d) /\ generation'[d] = generation[d])
    <3>1. CASE FindDispatcher(d) \/ DropOldest(d)
      BY <2>1, <3>1 DEF FindDispatcher, DropOldest, Putting
    <3>2. CASE Put(d) \/ PutAgain(d)
      <4>1. CASE Len(queue[d]) < Capacity
        <5>1. queue'[d] = Append(queue[d], sent)
          BY <3>2, <4>1 DEF Put, PutAgain, Enqueued, Typed, InboxTyped
        <5> QED BY <2>3, <2>5, <5>1 DEF Waiting
      <4>2. CASE ~(Len(queue[d]) < Capacity)
        <5>1. queue' = queue /\ queue[d] # << >>
          BY <3>2, <4>2, Emptied, DispatchAssumption DEF Put, PutAgain
        <5> QED BY <2>5, <5>1 DEF Waiting
      <4> QED BY <4>1, <4>2
    <3> QED BY <1>2, <3>1, <3>2
  <2>6. ASSUME stopping, NEW e \in Devices, Waiting(e)' PROVE ToBeWoken(e)'
    <3>1. CASE e = d
      <4>1. CASE Putting(d)'
        BY <3>1, <4>1 DEF ToBeWoken
      <4>2. CASE Waiting(d) /\ ~Putting(d) /\ generation'[d] = generation[d]
        <5>1. ToBeWoken(d)
          BY <2>6, <4>2 DEF WakeInv
        <5> QED BY <2>1, <3>1, <4>2, <5>1 DEF ToBeWoken
      <4> QED BY <2>5, <2>6, <3>1, <4>1, <4>2
    <3>2. CASE e # d
      <4>1. Waiting(e) /\ generation'[e] = generation[e] /\ ~Putting(e)
        BY <2>1, <2>4, <2>6, <3>2 DEF Putting
      <4>2. ToBeWoken(e)
        BY <2>6, <4>1 DEF WakeInv
      <4> QED BY <2>1, <4>1, <4>2 DEF ToBeWoken
    <3> QED BY <3>1, <3>2
  <2> QED BY <2>1, <2>2, <2>6 DEF WakeInv
<1> QED BY <1>1, <1>2

(* A dispatch thread that looks at its queue under a stop ends; one that   *)
(* was delivering comes back to what it left.                              *)
LEMMA DispatchWake == ASSUME Typed, WakeInv, NEW d \in Devices, DispatchNext(d) PROVE WakeInv'
<1> USE DEF stop, inbox, reader, message, routing, releasing, connection
<1>1. UNCHANGED <<release, closing, stopping, stopper, target, net, generation>>
  BY DEF DispatchNext, Get, Check, Receive, Publish
<1>2. \A t \in Releasers : Releases(t)' <=> Releases(t)
  BY <1>1 DEF Releases
<1>3. ASSUME stopping, NEW e \in Devices, Waiting(e)' PROVE Waiting(e)
  <2>1. thread[e] \in {"none", "get", "check", "receive", "publish", "dead", "ended"}
    BY DEF Typed, InboxTyped
  <2>2. CASE e # d
    BY <1>3, <2>2 DEF DispatchNext, Get, Check, Receive, Publish, Step, Waiting, Typed, InboxTyped
  <2>3. CASE e = d
    <3>1. CASE Get(d) \/ Check(d)
      BY <1>3, <2>3, <3>1 DEF Get, Check, Step, Waiting, Typed, InboxTyped
    <3>2. CASE Receive(d) \/ Publish(d)
      BY <1>3, <2>3, <3>2 DEF Receive, Publish, Step, Waiting, Typed, InboxTyped
    <3> QED BY <3>1, <3>2 DEF DispatchNext
  <2> QED BY <2>2, <2>3
<1>4. \A e \in Devices : ToBeWoken(e) => ToBeWoken(e)'
  BY <1>1 DEF ToBeWoken, Putting
<1> QED BY <1>1, <1>2, <1>3, <1>4 DEF WakeInv

(* A drain is followed by the sentinel, unless the queue filled meanwhile.  *)
LEMMA ReleaseWake ==
  ASSUME Typed, WakeInv, NEW t \in Releasers, NEW q \in release[t] \cup closing[t],
         Abandon(t, q) \/ Drained(t, q) \/ PutStop(t, q)
  PROVE  WakeInv'
<1> USE DEF stop, reader, message, routing, releasing, connection, inbox
<1>1. /\ UNCHANGED <<stopping, stopper, net, target, generation, thread>>
      /\ Releases(t) /\ \A s \in Releasers : Releases(s)' <=> Releases(s)
  BY DEF Abandon, Drained, PutStop, Draining, Releases
<1>2. \A e \in Devices : Putting(e)' <=> Putting(e)
  BY <1>1 DEF Putting
<1>3. q[1] \in Devices /\ release[t] \in Snapshots /\ closing[t] \in Snapshots
  BY DEF Typed, ReleaseTyped, Snapshots
<1>4. CASE Abandon(t, q)
  <2>1. /\ UNCHANGED <<release, closing>> /\ q \in release[t] /\ Current(q)
        /\ \A e \in Devices \ {q[1]} : queue'[e] = queue[e]
    BY <1>4 DEF Abandon, Draining, HasPayloads, Typed, InboxTyped
  <2>2. q = <<q[1], generation[q[1]]>>
    BY <1>3, <2>1 DEF Current, Snapshots
  <2>3. ASSUME stopping, NEW e \in Devices, Waiting(e)' PROVE ToBeWoken(e)'
    <3>1. CASE e = q[1]
      BY <1>1, <2>1, <2>2, <3>1 DEF ToBeWoken
    <3>2. CASE e # q[1]
      <4>1. Waiting(e)
        BY <1>1, <2>1, <2>3, <3>2 DEF Waiting
      <4> QED BY <1>1, <1>2, <2>1, <2>3, <4>1 DEF WakeInv, ToBeWoken
    <3> QED BY <3>1, <3>2
  <2> QED BY <1>1, <2>1, <2>3 DEF WakeInv
<1>5. CASE Drained(t, q)
  <2>1. /\ queue' = queue /\ closing[t] = {} /\ q \in release[t]
        /\ release'[t] = release[t] \ {q} /\ closing'[t] = {q}
        /\ \A s \in Releasers \ {t} : release'[s] = release[s] /\ closing'[s] = closing[s]
    BY <1>5 DEF Drained, Draining, Typed, ReleaseTyped
  <2>2. \A s \in Releasers : release'[s] \cup closing'[s] = release[s] \cup closing[s]
    BY <2>1
  <2>3. \A e \in Devices : Waiting(e)' <=> Waiting(e)
    BY <1>1, <2>1 DEF Waiting
  <2>4. \A e \in Devices : ToBeWoken(e) => ToBeWoken(e)'
    BY <1>1, <1>2, <2>2 DEF ToBeWoken
  <2>5. \A s \in Releasers : \A p, r \in closing'[s] : p = r
    BY <2>1 DEF WakeInv
  <2> QED BY <1>1, <2>2, <2>3, <2>4, <2>5 DEF WakeInv
<1>6. CASE PutStop(t, q)
  <2>1. /\ release' = release /\ q \in closing[t] /\ closing'[t] = {}
        /\ \A s \in Releasers \ {t} : closing'[s] = closing[s]
    BY <1>6 DEF PutStop, Typed, ReleaseTyped
  <2>2. closing[t] = {q}
    BY <2>1 DEF WakeInv
  <2>3. /\ \A e \in Devices \ {q[1]} : queue'[e] = queue[e]
        /\ queue'[q[1]] = IF Current(q) /\ Len(queue[q[1]]) < Capacity
                          THEN Append(queue[q[1]], STOP) ELSE queue[q[1]]
    BY <1>3, <1>6 DEF PutStop, Typed, InboxTyped
  <2>4. ASSUME Current(q) PROVE queue'[q[1]] # << >>
    <3>1. queue[q[1]] \in Queues /\ Append(queue[q[1]], STOP) # << >>
      BY <1>3, NotEmpty DEF Typed, InboxTyped
    <3>2. CASE Len(queue[q[1]]) < Capacity
      BY <2>3, <2>4, <3>1, <3>2
    <3>3. CASE ~(Len(queue[q[1]]) < Capacity)
      BY <2>3, <3>3, Emptied, DispatchAssumption
    <3> QED BY <3>2, <3>3
  <2>5. ASSUME NEW e \in Devices, Waiting(e)'
        PROVE  Waiting(e) /\ <<e, generation[e]>> # q
    <3>1. CASE e = q[1]
      <4>1. ~Current(q)
        BY <2>4, <2>5, <3>1 DEF Waiting
      <4> QED BY <1>1, <2>3, <2>5, <3>1, <4>1 DEF Waiting, Current
    <3>2. CASE e # q[1]
      BY <1>1, <2>3, <2>5, <3>2 DEF Waiting
    <3> QED BY <3>1, <3>2
  <2>6. ASSUME stopping, NEW e \in Devices, Waiting(e)' PROVE ToBeWoken(e)'
    <3>1. Waiting(e) /\ <<e, generation[e]>> # q
      BY <2>5, <2>6
    <3>2. ToBeWoken(e)
      BY <2>6, <3>1 DEF WakeInv
    <3> QED BY <1>1, <1>2, <2>1, <2>2, <3>1, <3>2 DEF ToBeWoken
  <2>7. ASSUME NEW s \in Releasers
        PROVE  /\ release'[s] \cup closing'[s] # {} => Releases(s)'
               /\ \A p, r \in closing'[s] : p = r
    BY <1>1, <2>1 DEF WakeInv
  <2> QED BY <1>1, <2>6, <2>7 DEF WakeInv
<1> QED BY <1>4, <1>5, <1>6

LEMMA WakeStep == Typed /\ WakeInv /\ [Next]_vars => WakeInv'
<1> SUFFICES ASSUME Typed, WakeInv, [Next]_vars PROVE WakeInv'
  OBVIOUS
<1> USE DEF stop, inbox, reader, message, routing, releasing, connection
<1>1. CASE BuildClient \/ Connect \/ Connecting \/ EnterLoop \/ MessageDone
  <2>1. /\ UNCHANGED <<thread, queue, generation, release, closing, stopping, stopper, target>>
        /\ net \in {"start", "connect", "connecting", "connected", "message"}
    BY <1>1 DEF BuildClient, Connect, Connecting, EnterLoop, MessageDone
  <2> QED BY <2>1, WakeFrame DEF Putting
<1>2. CASE Arrive \/ LoopRaises
  <2>1. /\ UNCHANGED <<thread, queue, generation, release, closing, stopping, stopper, target>>
        /\ net = "loop"
    BY <1>2 DEF Arrive, LoopRaises
  <2> QED BY <2>1, WakeFrame DEF Putting
<1>3. CASE StartReturns \/ StopReturns
  <2>1. /\ UNCHANGED <<thread, queue, generation, release, closing, stopping, target>>
        /\ stopper = stopper' \/ (stopper = "release" /\ stopper' = "returned")
        /\ net = net' \/ (net = "release" /\ net' = "over")
        /\ \A t \in Releasers : ~(Releases(t)' <=> Releases(t)) => release[t] \cup closing[t] = {}
    BY <1>3 DEF StartReturns, StopReturns, AllReleased, Releases, Releasers
  <2>2. \A d \in Devices : (Waiting(d)' <=> Waiting(d)) /\ (ToBeWoken(d) => ToBeWoken(d)')
    BY <2>1 DEF Waiting, ToBeWoken, Putting
  <2> QED BY <2>1, <2>2 DEF WakeInv
<1>4. CASE SetStopEvent \/ FindClient
  <2>1. /\ UNCHANGED <<thread, queue, generation, release, closing, target, net>>
        /\ stopping' = TRUE /\ stopper' \in {"client", "disconnect"}
        /\ stopper \in {"event", "client"}
    BY <1>4 DEF SetStopEvent, FindClient, WakeInv
  <2>2. \A t \in Releasers : Releases(t)' <=> Releases(t)
    BY <2>1 DEF Releases
  <2> QED BY <2>1, <2>2 DEF WakeInv, ToBeWoken
<1>5. CASE UNCHANGED vars
  <2>1. /\ UNCHANGED <<thread, queue, generation, release, closing, stopping, stopper, target, net>>
    BY <1>5 DEF vars
  <2> QED BY <2>1, WakeFrame DEF Putting
<1>6. CASE LeaveLoop \/ Disconnect
  BY <1>6, SnapshotWake
<1>7. ASSUME NEW d \in Devices,
             NextTarget(d) \/ FindDispatcher(d) \/ Put(d) \/ DropOldest(d) \/ PutAgain(d)
      PROVE  WakeInv'
  BY <1>7, MessageWake
<1>8. ASSUME NEW d \in Devices, DispatchNext(d) PROVE WakeInv'
  BY <1>8, DispatchWake
<1>9. ASSUME NEW t \in Releasers, NEW q \in release[t] \cup closing[t],
             Abandon(t, q) \/ Drained(t, q) \/ PutStop(t, q)
      PROVE  WakeInv'
  BY <1>9, ReleaseWake
<1> QED
  BY <1>1, <1>2, <1>3, <1>4, <1>5, <1>6, <1>7, <1>8, <1>9
     DEF Next, NetRuns, StopNext, ReleaseNext, Releasers

(* Once start() and stop() are over, no dispatch thread waits at an empty   *)
(* queue, whatever raced them: a payload put between a drain and the       *)
(* sentinel, a dispatcher that was replaced, a queue that was full, a      *)
(* network loop that raised.  Without it StopEnds could not hold (_enqueue, *)
(* _release_dispatchers, _dispatch).                                       *)
NobodyLeftWaiting ==
  net = "over" /\ stopper = "returned" => \A d \in Devices : ~Waiting(d)

(* For any devices and bounds, nobody is left waiting (connectors/mqtt.py). *)
THEOREM NobodyLeftWaitingHolds == Spec => []NobodyLeftWaiting
<1>1. WakeInv => NobodyLeftWaiting
  <2> SUFFICES ASSUME WakeInv, net = "over", stopper = "returned", NEW d \in Devices, Waiting(d)
               PROVE  FALSE
    BY DEF NobodyLeftWaiting
  <2>1. ToBeWoken(d) /\ ~Putting(d)
    BY DEF WakeInv, Putting
  <2> QED BY <2>1 DEF ToBeWoken, WakeInv, Releases
<1> QED BY <1>1, InitTyped, NextTyped, InitWake, WakeStep, PTL DEF Spec
=============================================================================
