-------------------------- MODULE FieldLinksProofs --------------------------
(***************************************************************************)
(* Theorems about FieldLinks, for any devices, any algorithms and any      *)
(* restart budget.                                                         *)
(***************************************************************************)
EXTENDS FieldLinks, FiniteSetTheorems, WellFoundedInduction, TLAPS

(* Where each connector's threads can be. *)
HttpPlaces ==
  /\ pc[Worker] \in {"out", "top", "pass", "poll", "sleep", "drop", "close", "crashed", "ended"}
  /\ \A a \in Algorithms : pc[a] \in {"free", "holding"}

ModbusPlaces ==
  /\ pc[Worker] \in {"out", "top", "pass", "call", "exchange", "disconnect", "sleep", "backoff",
                     "drop", "crashed", "ended"}
  /\ \A a \in Algorithms : pc[a] \in {"free", "call", "exchange", "raised"}

SerialPlaces ==
  /\ pc[Worker] \in {"out", "top", "init", "exchange", "reading", "backoff", "drop", "close", "ended"}
  /\ \A a \in Algorithms : pc[a] \in {"free", "line", "port", "exchange"}

LorawanPlaces ==
  /\ pc[Worker] \in {"out", "reading", "ended"}
  /\ \A a \in Algorithms : pc[a] \in {"free", "throttle", "exchange", "publish"}

Places ==
  /\ kind \in Kinds /\ DOMAIN pc = Threads
  /\ pc = [t \in Threads |-> pc[t]]
  /\ kind \in {"http", "openems"} => HttpPlaces
  /\ kind = "modbus" => ModbusPlaces
  /\ kind = "serial" => SerialPlaces
  /\ kind = "lorawan" => LorawanPlaces
  /\ after \in {"ended", "crashed", "backoff"}
  /\ after = "crashed" => kind # "serial"
  /\ after = "backoff" => kind = "serial"

(* The lock is held by the thread whose exchange is on the wire. *)
Locking ==
  /\ lock \in Threads \cup {NoOne}
  /\ wire = IF lock = NoOne THEN << >> ELSE <<lock>>
  /\ \A t \in Threads : pc[t] = "exchange" <=> lock = t

(* Where the worker has no handle; the port is lost, and reopened, inside  *)
(* start(), and at the top of a loop that is being stopped it is still open. *)
Without ==
  \/ pc[Worker] \in {"out", "crashed", "ended"}
  \/ kind = "serial" /\ pc[Worker] = "backoff"
  \/ kind = "serial" /\ pc[Worker] = "top" /\ ~stopping
  \/ kind = "lorawan"

Handles ==
  /\ made \in Nat /\ handle \in 0..made /\ dying \in 0..made
  /\ open = {handle, dying} \ {0}
  /\ dying # 0 => pc[Worker] = "close"
  /\ pc[Worker] = "close" => handle = 0
  /\ Without => handle = 0
  /\ kind = "modbus" /\ lock # NoOne => handle # 0

LinkInv == Places /\ Locking /\ Handles

---------------------------------------------------------------------------
(* An exchange is entered by one thread, which has the wire to itself, and *)
(* leaves it as it was.                                                    *)
LEMMA EnterLocks ==
  ASSUME LinkInv, NEW t \in Threads, Enter(t), pc' = [pc EXCEPT ![t] = "exchange"]
  PROVE  Locking' /\ lock' = t
PROOF
<1>1. lock = NoOne /\ lock' = t /\ wire = << >> /\ wire' = Append(wire, t)
  BY DEF Enter, LinkInv, Locking
<1>2. Append(<< >>, t) = <<t>> OBVIOUS
<1> QED BY <1>1, <1>2, LinkAssumption DEF LinkInv, Locking, Places

LEMMA ExitUnlocks ==
  ASSUME LinkInv, NEW t \in Threads, Exit(t), NEW to, to # "exchange",
         pc' = [pc EXCEPT ![t] = to]
  PROVE  Locking' /\ lock' = NoOne
PROOF
<1>1. lock = t /\ lock' = NoOne /\ wire = <<t>> /\ wire' = Tail(wire)
  BY LinkAssumption DEF Exit, LinkInv, Locking
<1>2. Tail(<<t>>) = << >> OBVIOUS
<1> QED BY <1>1, <1>2, LinkAssumption DEF LinkInv, Locking, Places

(* What the connectors have in common. *)
LEMMA SharedSteps ==
  ASSUME LinkInv, SharedNext PROVE LinkInv'
PROOF
<1> USE LinkAssumption
    DEF LinkInv, Places, HttpPlaces, ModbusPlaces, SerialPlaces, LorawanPlaces, Locking, Handles,
        Without, At, Leaving, AllKinds, Threads, setting, handles, locking
<1>1. CASE Drop
  BY <1>1 DEF Drop
<1>2. CASE Close
  BY <1>2 DEF Close
<1>3. CASE Backoff
  BY <1>3 DEF Backoff
<1>4. CASE Supervise
  BY <1>4 DEF Supervise
<1>5. CASE RequestStop
  <2>1. Places' BY <1>5 DEF RequestStop
  <2>2. Locking' BY <1>5 DEF RequestStop
  <2>3. Handles' BY <1>5 DEF RequestStop
  <2> QED BY <2>1, <2>2, <2>3
<1> QED
  BY <1>1, <1>2, <1>3, <1>4, <1>5 DEF SharedNext

(* The loop of a connector that polls. *)
LEMMA PollSteps ==
  ASSUME LinkInv, PollLoop PROVE LinkInv'
PROOF
<1> USE LinkAssumption
    DEF LinkInv, Places, HttpPlaces, ModbusPlaces, SerialPlaces, LorawanPlaces, Locking, Handles,
        Without, At, Leaving, AllKinds, Threads, setting, handles, locking, Http, Polls, MakeHandle
<1>1. CASE PollIdle
  BY <1>1 DEF PollIdle
<1>2. CASE StartPolling
  <2>1. Places' /\ Locking' BY <1>2 DEF StartPolling
  <2>2. handle = 0 /\ dying = 0 /\ open = {} BY <1>2 DEF StartPolling
  <2>3. made' = made + 1 /\ handle' = made' /\ made' \in Nat \ {0} BY <1>2 DEF StartPolling
  <2>4. open' = {handle', dying'} \ {0} /\ dying' = 0 BY <1>2, <2>2, <2>3 DEF StartPolling
  <2>5. ~Without' BY <1>2 DEF StartPolling
  <2>6. Handles' BY <1>2, <2>3, <2>4, <2>5 DEF StartPolling
  <2> QED BY <2>1, <2>6
<1>3. CASE LeavePolling
  BY <1>3 DEF LeavePolling
<1>4. CASE BeginPass
  BY <1>4 DEF BeginPass
<1>5. CASE EnsureConnected
  BY <1>5 DEF EnsureConnected
<1>6. CASE Refused
  BY <1>6 DEF Refused
<1>7. CASE NextTask
  BY <1>7 DEF NextTask
<1>8. CASE EndPass
  BY <1>8 DEF EndPass
<1>9. CASE Wake
  BY <1>9 DEF Wake
<1>10. CASE HttpPoll
  BY <1>10 DEF HttpPoll
<1>11. CASE HttpRaises
  BY <1>11 DEF HttpRaises
<1>12. CASE Answered
  <2>1. Locking' /\ lock' = NoOne BY <1>12, ExitUnlocks DEF Answered, Leaving
  <2>2. Places' BY <1>12 DEF Answered
  <2>3. Handles' BY <1>12, <2>1 DEF Answered
  <2> QED BY <2>1, <2>2, <2>3
<1>13. CASE TransportFailed
  <2>1. Locking' /\ lock' = NoOne BY <1>13, ExitUnlocks DEF TransportFailed, Leaving
  <2>2. Places' BY <1>13 DEF TransportFailed
  <2>3. Handles' BY <1>13, <2>1 DEF TransportFailed
  <2> QED BY <2>1, <2>2, <2>3
<1>14. CASE ModbusRaises
  <2>1. Locking' /\ lock' = NoOne BY <1>14, ExitUnlocks DEF ModbusRaises, Leaving
  <2>2. Places' BY <1>14 DEF ModbusRaises
  <2>3. Handles' BY <1>14, <2>1 DEF ModbusRaises
  <2> QED BY <2>1, <2>2, <2>3
<1>15. CASE Disconnect
  BY <1>15 DEF Disconnect
<1>16. CASE CloseClient
  BY <1>16 DEF CloseClient
<1> QED
  BY <1>1, <1>2, <1>3, <1>4, <1>5, <1>6, <1>7, <1>8, <1>9, <1>10, <1>11, <1>12, <1>13, <1>14, <1>15, <1>16 DEF PollLoop

(* An algorithm on a session or a client. *)
LEMMA SendPollingSteps ==
  ASSUME LinkInv, NEW a \in Algorithms, SendPolling(a) PROVE LinkInv'
PROOF
<1> USE LinkAssumption
    DEF LinkInv, Places, HttpPlaces, ModbusPlaces, SerialPlaces, LorawanPlaces, Locking, Handles,
        Without, At, Leaving, AllKinds, Threads, setting, handles, locking, Http
<1>1. CASE SendModbus(a)
  BY <1>1 DEF SendModbus
<1>2. CASE SendRaises(a)
  BY <1>2 DEF SendRaises
<1>3. CASE AlgorithmRestarts(a)
  BY <1>3 DEF AlgorithmRestarts
<1>4. CASE NotConnected(a)
  BY <1>4 DEF NotConnected
<1>5. CASE Written(a)
  <2>1. Locking' /\ lock' = NoOne BY <1>5, ExitUnlocks DEF Written, Leaving
  <2>2. Places' BY <1>5 DEF Written
  <2>3. Handles' BY <1>5, <2>1 DEF Written
  <2> QED BY <2>1, <2>2, <2>3
<1>6. CASE TakeSession(a)
  BY <1>6 DEF TakeSession
<1>7. CASE Post(a)
  BY <1>7 DEF Post
<1> QED
  BY <1>1, <1>2, <1>3, <1>4, <1>5, <1>6, <1>7 DEF SendPolling

LEMMA CallSteps ==
  ASSUME LinkInv, NEW t \in Threads, BeginCall(t) PROVE LinkInv'
PROOF
<1> USE LinkAssumption
    DEF LinkInv, Places, HttpPlaces, ModbusPlaces, SerialPlaces, LorawanPlaces, Locking, Handles,
        Without, At, Leaving, AllKinds, Threads, setting, handles, locking
<1>1. Locking' /\ lock' = t BY EnterLocks DEF BeginCall
<1>2. Places' BY DEF BeginCall
<1>3. Handles' BY <1>1 DEF BeginCall
<1> QED BY <1>1, <1>2, <1>3

(* The loop of the radio. *)
LEMMA SerialSteps ==
  ASSUME LinkInv, SerialLoop \/ ReadFails PROVE LinkInv'
PROOF
<1> USE LinkAssumption
    DEF LinkInv, Places, HttpPlaces, ModbusPlaces, SerialPlaces, LorawanPlaces, Locking, Handles,
        Without, At, Leaving, AllKinds, Threads, setting, handles, locking, MakeHandle
<1>1. CASE SerialIdle
  BY <1>1 DEF SerialIdle
<1>2. CASE StartSerial
  BY <1>2 DEF StartSerial
<1>3. CASE LeaveSerial
  BY <1>3 DEF LeaveSerial
<1>4. CASE OpenPort
  <2>1. Places' /\ Locking' BY <1>4 DEF OpenPort
  <2>2. handle = 0 /\ dying = 0 /\ open = {} BY <1>4 DEF OpenPort
  <2>3. made' = made + 1 /\ handle' = made' /\ made' \in Nat \ {0} BY <1>4 DEF OpenPort
  <2>4. open' = {handle', dying'} \ {0} /\ dying' = 0 BY <1>4, <2>2, <2>3 DEF OpenPort
  <2>5. ~Without' BY <1>4 DEF OpenPort
  <2>6. Handles' BY <1>4, <2>3, <2>4, <2>5 DEF OpenPort
  <2> QED BY <2>1, <2>6
<1>5. CASE OpenFails
  BY <1>5 DEF OpenFails
<1>6. CASE WriteInit
  <2>1. Locking' /\ lock' = Worker BY <1>6, EnterLocks DEF WriteInit
  <2>2. Places' BY <1>6 DEF WriteInit
  <2>3. Handles' BY <1>6, <2>1 DEF WriteInit
  <2> QED BY <2>1, <2>2, <2>3
<1>7. CASE InitWritten
  <2>1. Locking' /\ lock' = NoOne BY <1>7, ExitUnlocks DEF InitWritten, Leaving
  <2>2. Places' BY <1>7 DEF InitWritten
  <2>3. Handles' BY <1>7, <2>1 DEF InitWritten
  <2> QED BY <2>1, <2>2, <2>3
<1>8. CASE Opened
  BY <1>8 DEF Opened
<1>9. CASE StopReading
  BY <1>9 DEF StopReading
<1>10. CASE ReadFails
  BY <1>10 DEF ReadFails
<1> QED
  BY <1>1, <1>2, <1>3, <1>4, <1>5, <1>6, <1>7, <1>8, <1>9, <1>10 DEF SerialLoop

(* An algorithm on the port. *)
LEMMA SendPortSteps ==
  ASSUME LinkInv, NEW a \in Algorithms, SendOnPort(a) PROVE LinkInv'
PROOF
<1> USE LinkAssumption
    DEF LinkInv, Places, HttpPlaces, ModbusPlaces, SerialPlaces, LorawanPlaces, Locking, Handles,
        Without, At, Leaving, AllKinds, Threads, setting, handles, locking
<1>1. CASE SendSerial(a)
  BY <1>1 DEF SendSerial
<1>2. CASE WriteSkipped(a)
  BY <1>2 DEF WriteSkipped
<1>3. CASE TakePort(a)
  BY <1>3 DEF TakePort
<1>4. CASE WriteLine(a)
  <2>1. Locking' /\ lock' = a BY <1>4, EnterLocks DEF WriteLine
  <2>2. Places' BY <1>4 DEF WriteLine
  <2>3. Handles' BY <1>4, <2>1 DEF WriteLine
  <2> QED BY <2>1, <2>2, <2>3
<1>5. CASE LineWritten(a)
  <2>1. Locking' /\ lock' = NoOne BY <1>5, ExitUnlocks DEF LineWritten, Leaving
  <2>2. Places' BY <1>5 DEF LineWritten
  <2>3. Handles' BY <1>5, <2>1 DEF LineWritten
  <2> QED BY <2>1, <2>2, <2>3
<1> QED
  BY <1>1, <1>2, <1>3, <1>4, <1>5 DEF SendOnPort

(* An algorithm in the throttle. *)
LEMMA SendingSteps ==
  ASSUME LinkInv, NEW a \in Algorithms, Sending(a) PROVE LinkInv'
PROOF
<1> USE LinkAssumption
    DEF LinkInv, Places, HttpPlaces, ModbusPlaces, SerialPlaces, LorawanPlaces, Locking, Handles,
        Without, At, Leaving, AllKinds, Threads, setting, handles, locking, Lorawan
<1>1. CASE SendDownlink(a)
  BY <1>1 DEF SendDownlink
<1>2. CASE EnterThrottle(a)
  <2>1. Locking' /\ lock' = a BY <1>2, EnterLocks DEF EnterThrottle
  <2>2. Places' BY <1>2 DEF EnterThrottle
  <2>3. Handles' BY <1>2, <2>1 DEF EnterThrottle
  <2> QED BY <2>1, <2>2, <2>3
<1>3. CASE LeaveThrottle(a)
  <2>1. PICK to \in {"free", "publish"} : At(a, "exchange", to)
    BY <1>3 DEF LeaveThrottle
  <2>2. Locking' /\ lock' = NoOne BY <1>3, <2>1, ExitUnlocks DEF LeaveThrottle
  <2>3. Places' BY <1>3, <2>1 DEF LeaveThrottle
  <2>4. Handles' BY <1>3, <2>1, <2>2 DEF LeaveThrottle
  <2> QED BY <2>2, <2>3, <2>4
<1>4. CASE PublishDownlink(a)
  BY <1>4 DEF PublishDownlink
<1>5. CASE DropDownlink(a)
  BY <1>5 DEF DropDownlink
<1> QED
  BY <1>1, <1>2, <1>3, <1>4, <1>5 DEF Sending

(* The session with the broker. *)
LEMMA LorawanSteps ==
  ASSUME LinkInv, LorawanLoop PROVE LinkInv'
PROOF
<1> USE LinkAssumption
    DEF LinkInv, Places, HttpPlaces, ModbusPlaces, SerialPlaces, LorawanPlaces, Locking, Handles,
        Without, At, Leaving, AllKinds, Threads, setting, handles, locking, Lorawan
<1>1. CASE Subscribe
  BY <1>1 DEF Subscribe
<1>2. CASE Unsubscribe
  BY <1>2 DEF Unsubscribe
<1> QED
  BY <1>1, <1>2 DEF LorawanLoop

(* A payload, a tick or a device that comes due moves no thread. *)
LEMMA OtherSteps ==
  ASSUME LinkInv, UNCHANGED <<setting, pc, after, handles, locking, stopping>> PROVE LinkInv'
PROOF
<1> USE LinkAssumption
    DEF LinkInv, Places, HttpPlaces, ModbusPlaces, SerialPlaces, LorawanPlaces, Locking, Handles,
        Without, At, Leaving, AllKinds, Threads, setting, handles, locking
<1>1. Places' OBVIOUS
<1>2. Locking' OBVIOUS
<1>3. Handles' OBVIOUS
<1> QED BY <1>1, <1>2, <1>3

(* A line heard; the one a stop found under way is the last. *)
LEMMA HearSteps ==
  ASSUME LinkInv, NEW frame \in Uplinks, Hear(frame) PROVE LinkInv'
PROOF
<1> USE LinkAssumption
    DEF LinkInv, Places, HttpPlaces, ModbusPlaces, SerialPlaces, LorawanPlaces, Locking, Handles,
        Without, At, AllKinds, Threads, setting, handles, locking
<1>1. kind = "serial" /\ UNCHANGED <<setting, after, handles, locking, stopping>> BY DEF Hear
<1>2. PICK to \in {"top", "reading"} :
        /\ pc[Worker] = "reading" /\ pc' = [pc EXCEPT ![Worker] = to]
        /\ to = "top" => stopping
  BY DEF Hear
<1>3. Places' BY <1>1, <1>2
<1>4. Locking' BY <1>1, <1>2
<1>5. Handles' BY <1>1, <1>2
<1> QED BY <1>3, <1>4, <1>5

LEMMA LinkStep ==
  ASSUME LinkInv, [Next]_vars PROVE LinkInv'
PROOF
<1>1. CASE SharedNext BY <1>1, SharedSteps
<1>2. CASE PollNext
  <2>1. CASE PollLoop BY <2>1, PollSteps
  <2>2. ASSUME NEW t \in Senders[kind] \cup {Worker}, BeginCall(t) PROVE LinkInv'
    <3>1. t \in Threads BY LinkAssumption DEF LinkInv, Places, Threads
    <3> QED BY <2>2, <3>1, CallSteps
  <2>3. ASSUME NEW a \in Senders[kind], SendPolling(a) PROVE LinkInv'
    <3>1. a \in Algorithms BY LinkAssumption DEF LinkInv, Places
    <3> QED BY <2>3, <3>1, SendPollingSteps
  <2>4. ASSUME NEW d \in Devices, ComesDue(d) PROVE LinkInv'
    BY <2>4, OtherSteps DEF ComesDue, shared
  <2> QED BY <1>2, <2>1, <2>2, <2>3, <2>4 DEF PollNext
<1>3. CASE SerialNext
  <2>1. CASE SerialLoop \/ ReadFails BY <2>1, SerialSteps
  <2>2. ASSUME NEW frame \in Uplinks, Hear(frame) PROVE LinkInv'
    BY <2>2, HearSteps
  <2>3. ASSUME NEW a \in Senders[kind], SendOnPort(a) PROVE LinkInv'
    <3>1. a \in Algorithms BY LinkAssumption DEF LinkInv, Places
    <3> QED BY <2>3, <3>1, SendPortSteps
  <2> QED BY <1>3, <2>1, <2>2, <2>3 DEF SerialNext
<1>4. CASE LorawanNext
  <2>1. CASE LorawanLoop BY <2>1, LorawanSteps
  <2>2. CASE Tick BY <2>2, OtherSteps DEF Tick, shared
  <2>3. ASSUME NEW uplink \in Uplinks, HearUplink(uplink) PROVE LinkInv'
    BY <2>3, OtherSteps DEF HearUplink
  <2>4. ASSUME NEW a \in Senders[kind], Sending(a) PROVE LinkInv'
    <3>1. a \in Algorithms BY LinkAssumption DEF LinkInv, Places
    <3> QED BY <2>4, <3>1, SendingSteps
  <2> QED BY <1>4, <2>1, <2>2, <2>3, <2>4 DEF LorawanNext
<1>5. CASE UNCHANGED vars BY <1>5, OtherSteps DEF vars, shared
<1> QED BY <1>1, <1>2, <1>3, <1>4, <1>5 DEF Next

(* The inductive invariant: where the threads are says who has the lock, and *)
(* whether there is a handle.                                                *)
THEOREM LinkInductive == Spec => []LinkInv
PROOF
<1>1. Init => LinkInv
  BY LinkAssumption
  DEF Init, LinkInit, LinkInv, Places, HttpPlaces, ModbusPlaces, SerialPlaces, LorawanPlaces,
      Locking, Handles, Without, AllKinds, Threads
<1>2. LinkInv /\ [Next]_vars => LinkInv' BY LinkStep
<1> QED BY <1>1, <1>2, PTL DEF Spec

(* Two exchanges never overlap on a socket or a radio (_call, _write_line),  *)
(* for any number of algorithms that send.                                   *)
THEOREM OwnReplyHolds == Spec => []OwnReply
PROOF
<1>1. LinkInv => OwnReply BY LinkAssumption DEF LinkInv, Locking, OwnReply
<1> QED BY <1>1, LinkInductive, PTL

(* send() never finds a closed session, client or port in the attribute, and *)
(* no client is closed under a transaction.                                  *)
THEOREM HandsOutOpenHolds == Spec => []HandsOutOpen
PROOF
<1>1. LinkInv => HandsOutOpen
  BY LinkAssumption DEF LinkInv, Places, Locking, Handles, HandsOutOpen, Threads
<1> QED BY <1>1, LinkInductive, PTL

(* Outside start(), and in the serial connector's backoff, everything that   *)
(* was opened is closed, whatever crashed or was stopped on the way.         *)
THEOREM NothingLeftOpenHolds == Spec => []NothingLeftOpen
PROOF
<1>1. LinkInv => NothingLeftOpen
  BY DEF LinkInv, Handles, Without, NothingLeftOpen
<1> QED BY <1>1, LinkInductive, PTL

(* The throttle: its numbers, and that the time it found under the lock is *)
(* still the last one when it decides.                                     *)
ThrottleTypes ==
  /\ interval \in Nat /\ time \in Nat /\ last \in Nat
  /\ noted \in [Algorithms -> Nat] /\ previous \in [Algorithms -> Nat]

FoundIsLast ==
  kind = "lorawan" => \A a \in Algorithms : lock = a => previous[a] = last

ThrottleInv == ThrottleTypes /\ FoundIsLast

(* No step of another kind takes the lock of a LoRaWAN connector. *)
LEMMA LockLeft ==
  ASSUME LinkInv, kind = "lorawan", SharedNext \/ PollNext \/ SerialNext
  PROVE  lock' \in {lock, NoOne}
PROOF
<1> USE DEF LinkInv, Places, LorawanPlaces, At, Leaving, Exit, locking, shared, Http
<1>1. CASE SharedNext
  BY <1>1 DEF SharedNext, Drop, Close, Backoff, Supervise, RequestStop
<1>2. CASE PollLoop
  BY <1>2 DEF PollLoop, PollIdle, StartPolling, LeavePolling, BeginPass, EnsureConnected, Refused,
              NextTask, EndPass, Wake, HttpPoll, HttpRaises, Answered, TransportFailed,
              ModbusRaises, Disconnect, CloseClient
<1>3. ASSUME NEW t, BeginCall(t) PROVE lock' \in {lock, NoOne}
  BY <1>3 DEF BeginCall
<1>4. ASSUME NEW a, SendPolling(a) PROVE lock' \in {lock, NoOne}
  BY <1>4 DEF SendPolling, SendModbus, SendRaises, AlgorithmRestarts, NotConnected, Written,
              TakeSession, Post
<1>5. ASSUME NEW d, ComesDue(d) PROVE lock' \in {lock, NoOne}
  BY <1>5 DEF ComesDue
<1>6. CASE SerialLoop \/ ReadFails
  BY <1>6 DEF SerialLoop, SerialIdle, StartSerial, LeaveSerial, OpenPort, OpenFails, WriteInit,
              InitWritten, Opened, StopReading, ReadFails
<1>7. ASSUME NEW frame, Hear(frame) PROVE lock' \in {lock, NoOne}
  BY <1>7 DEF Hear
<1>8. ASSUME NEW a \in Algorithms, SendOnPort(a) PROVE lock' \in {lock, NoOne}
  BY <1>8 DEF SendOnPort, SendSerial, WriteSkipped, TakePort, WriteLine, LineWritten
<1>9. Senders[kind] \subseteq Algorithms BY LinkAssumption
<1> QED
  BY <1>1, <1>2, <1>3, <1>4, <1>5, <1>6, <1>7, <1>8, <1>9 DEF PollNext, SerialNext

LEMMA ThrottleSending ==
  ASSUME LinkInv, ThrottleInv, NEW a \in Algorithms, Sending(a)
  PROVE  ThrottleInv' /\ (last' # last /\ last # 0 => last' - last >= interval)
PROOF
<1> USE LinkAssumption DEF ThrottleInv, ThrottleTypes, FoundIsLast, setting, locking, Threads
<1>1. CASE SendDownlink(a) BY <1>1 DEF SendDownlink
<1>2. CASE EnterThrottle(a) BY <1>2 DEF EnterThrottle, Enter
<1>3. CASE LeaveThrottle(a)
  <2>1. kind = "lorawan" /\ lock' = NoOne /\ previous[a] = last
    BY <1>3 DEF LeaveThrottle, Lorawan, Exit, LinkInv, Locking
  <2>2. ThrottleTypes' BY <1>3 DEF LeaveThrottle
  <2>3. FoundIsLast' BY <2>1
  <2>4. last' # last => ~TooSoon(a) /\ last' = noted[a] BY <1>3 DEF LeaveThrottle
  <2>5. last' # last /\ last # 0 => noted[a] - last >= interval BY <2>1, <2>4 DEF TooSoon
  <2> QED BY <2>2, <2>3, <2>4, <2>5
<1>4. CASE PublishDownlink(a) BY <1>4 DEF PublishDownlink, throttle
<1>5. CASE DropDownlink(a) BY <1>5 DEF DropDownlink, throttle
<1> QED BY <1>1, <1>2, <1>3, <1>4, <1>5 DEF Sending

LEMMA ThrottleStep ==
  ASSUME LinkInv, ThrottleInv, [Next]_vars
  PROVE  ThrottleInv' /\ (last' # last /\ last # 0 => last' - last >= interval)
PROOF
<1> USE DEF downlinks, throttle, setting, shared, locking
<1>1. ASSUME UNCHANGED throttle, kind' = kind, kind = "lorawan" => lock' \in {lock, NoOne}
      PROVE  ThrottleInv' /\ (last' # last /\ last # 0 => last' - last >= interval)
  BY <1>1, LinkAssumption DEF ThrottleInv, ThrottleTypes, FoundIsLast, Threads
<1>2. kind' = kind
  BY DEF Next, SharedNext, Drop, Close, Backoff, Supervise, RequestStop, vars,
         PollNext, PollLoop, PollIdle, StartPolling, LeavePolling, BeginPass, EnsureConnected, Refused,
         NextTask, EndPass, Wake, HttpPoll, HttpRaises, Answered, TransportFailed, ModbusRaises,
         Disconnect, CloseClient, BeginCall, SendPolling, SendModbus, SendRaises, AlgorithmRestarts,
         NotConnected, Written, TakeSession, Post, ComesDue,
         SerialNext, SerialLoop, SerialIdle, StartSerial, LeaveSerial, OpenPort, OpenFails, WriteInit,
         InitWritten, Opened, StopReading, ReadFails, Hear, SendOnPort, SendSerial, WriteSkipped,
         TakePort, WriteLine, LineWritten,
         LorawanNext, LorawanLoop, Subscribe, Unsubscribe, Tick, HearUplink, Sending, SendDownlink,
         EnterThrottle, LeaveThrottle, PublishDownlink, DropDownlink
<1>3. CASE SharedNext /\ NotOnRadio BY <1>1, <1>2, <1>3, LockLeft DEF NotOnRadio
<1>4. CASE PollNext /\ NotOnRadio BY <1>1, <1>2, <1>4, LockLeft DEF NotOnRadio
<1>5. CASE SerialNext /\ SerialOnly BY <1>1, <1>2, <1>5, LockLeft DEF SerialOnly
<1>6. CASE LorawanNext
  <2>1. CASE LorawanLoop BY <1>1, <2>1 DEF LorawanLoop, Subscribe, Unsubscribe
  <2>2. CASE Tick BY <2>2 DEF Tick, ThrottleInv, ThrottleTypes, FoundIsLast
  <2>3. ASSUME NEW uplink \in Uplinks, HearUplink(uplink)
        PROVE  ThrottleInv' /\ (last' # last /\ last # 0 => last' - last >= interval)
    BY <1>1, <2>3 DEF HearUplink
  <2>4. ASSUME NEW a \in Senders[kind], Sending(a)
        PROVE  ThrottleInv' /\ (last' # last /\ last # 0 => last' - last >= interval)
    <3>1. a \in Algorithms BY LinkAssumption DEF LinkInv, Places
    <3> QED BY <2>4, <3>1, ThrottleSending
  <2> QED BY <1>6, <2>1, <2>2, <2>3, <2>4 DEF LorawanNext
<1>7. CASE UNCHANGED vars BY <1>1, <1>7 DEF vars
<1> QED BY <1>3, <1>4, <1>5, <1>6, <1>7 DEF Next

(* Two downlinks let through to a node are an interval apart (_throttle),  *)
(* for any number of algorithms that send and any interval.                *)
THEOREM DownlinksApartHolds == Spec => DownlinksApart
PROOF
<1>1. Init => ThrottleInv
  BY ThrottleAssumption, LinkAssumption
  DEF Init, LinkInit, LorawanInit, ThrottleInv, ThrottleTypes, FoundIsLast, Threads
<1>2. LinkInv /\ ThrottleInv /\ [Next]_vars
        => ThrottleInv' /\ (last' # last /\ last # 0 => last' - last >= interval)
  BY ThrottleStep
<1>3. LinkInv /\ ThrottleInv /\ [Next]_vars
        => [last' # last /\ last # 0 => last' - last >= interval]_vars
  BY <1>2
<1> QED BY <1>1, <1>2, <1>3, LinkInductive, PTL DEF Spec, DownlinksApart

---------------------------------------------------------------------------
(* A field of a device shows what the newest of the uplinks it could be    *)
(* read from says.                                                         *)
Shows(spec, uplinks, shown) ==
  LET own == {i \in 1..Len(uplinks) : Eligible(spec, uplinks[i].uplink)}
      newest == uplinks[CHOOSE i \in own : \A j \in own : j <= i]
      value == DecodeField(spec, newest.uplink)
  IN  /\ own # {} => \E i \in own : \A j \in own : j <= i
      /\ IF own = {} \/ value = NoValue THEN spec.name \notin DOMAIN shown
         ELSE /\ spec.name \in DOMAIN shown
              /\ shown[spec.name] = [value |-> value, port |-> newest.uplink.port, count |-> newest.count]

ReadingInv ==
  /\ fields = [d \in Devices |-> fields[d]]
  /\ \E S : accepted \in [Devices -> Seq(S)]
  /\ \A d \in Devices : \A spec \in BuildSpecs(Declared[d].fields) :
       Shows(spec, accepted[d], fields[d])

(* A name has one field. *)
LEMMA NamesApart ==
  ASSUME NEW d \in Devices,
         NEW s \in BuildSpecs(Declared[d].fields), NEW t \in BuildSpecs(Declared[d].fields),
         s.name = t.name
  PROVE  s = t
PROOF
<1> DEFINE e == Declared[d].fields
           First(i) == \A j \in 1..(i - 1) : ~(Declarable(e[j]) /\ e[j].name = e[i].name)
<1>1. PICK i \in 1..Len(e) : Declarable(e[i]) /\ First(i) /\ s = Resolved(e[i])
  BY DEF BuildSpecs
<1>2. PICK j \in 1..Len(e) : Declarable(e[j]) /\ First(j) /\ t = Resolved(e[j])
  BY DEF BuildSpecs
<1>3. s.name = e[i].name /\ t.name = e[j].name
  BY <1>1, <1>2, FieldMapsAssumption DEF Resolved
<1>4. i \in Int /\ j \in Int /\ 1 <= i /\ 1 <= j
  BY FieldMapsAssumption
<1>5. ~(i < j) /\ ~(j < i)
  BY <1>1, <1>2, <1>3, <1>4
<1> QED BY <1>1, <1>2, <1>4, <1>5

(* What an uplink leaves of a reading: its own fields are new, those it    *)
(* could not give are gone, and the others stay.                           *)
LEMMA ReceiveShows ==
  ASSUME NEW d \in Devices, NEW shown, NEW uplink, NEW n,
         NEW spec \in BuildSpecs(Declared[d].fields)
  PROVE  LET after_ == Receive(Declared[d], shown, uplink, n)
             value == DecodeField(spec, uplink)
         IN  IF Eligible(spec, uplink)
             THEN IF value = NoValue THEN spec.name \notin DOMAIN after_
                  ELSE /\ spec.name \in DOMAIN after_
                       /\ after_[spec.name] = [value |-> value, port |-> uplink.port, count |-> n]
             ELSE IF spec.name \in DOMAIN shown
                  THEN spec.name \in DOMAIN after_ /\ after_[spec.name] = shown[spec.name]
                  ELSE spec.name \notin DOMAIN after_
PROOF
<1> DEFINE node == Declared[d]
           fresh == Fresh(node, uplink)
           kept == fresh \cup Carried(node, shown, uplink)
           Named(name) == CHOOSE s \in kept : s.name = name
           r == Receive(node, shown, uplink, n)
<1>1. fresh = {s \in BuildSpecs(node.fields) : Eligible(s, uplink) /\ DecodeField(s, uplink) # NoValue}
  BY DEF Fresh
<1>2. Carried(node, shown, uplink)
        = {s \in BuildSpecs(node.fields) : ~Eligible(s, uplink) /\ s.name \in DOMAIN shown}
  BY DEF Carried
<1>3. r = [name \in {s.name : s \in kept} |->
             IF Named(name) \in fresh
             THEN [value |-> DecodeField(Named(name), uplink), port |-> uplink.port, count |-> n]
             ELSE shown[name]]
  BY DEF Receive
<1>4. \A s \in kept : s \in BuildSpecs(node.fields)
  BY <1>1, <1>2
<1>5. spec.name \in {s.name : s \in kept} <=> spec \in kept
  BY <1>4, NamesApart
<1>6. spec \in kept => Named(spec.name) = spec
  BY <1>4, NamesApart
<1>7. spec \in kept <=> spec \in fresh \/ spec \in Carried(node, shown, uplink)
  OBVIOUS
<1> HIDE DEF r, kept, fresh, Named
<1>8. spec.name \in DOMAIN r <=> spec \in kept
  BY <1>3, <1>5
<1>9. spec \in kept => r[spec.name] = IF spec \in fresh
        THEN [value |-> DecodeField(spec, uplink), port |-> uplink.port, count |-> n]
        ELSE shown[spec.name]
  BY <1>3, <1>5, <1>6
<1> QED BY <1>1, <1>2, <1>7, <1>8, <1>9 DEF r

LEMMA AcceptShows ==
  ASSUME NEW d \in Devices, NEW S, NEW uplinks \in Seq(S), NEW shown, NEW uplink, NEW n,
         NEW spec \in BuildSpecs(Declared[d].fields), Shows(spec, uplinks, shown)
  PROVE  Shows(spec, Append(uplinks, [uplink |-> uplink, count |-> n]),
               Receive(Declared[d], shown, uplink, n))
PROOF
<1> DEFINE u == [uplink |-> uplink, count |-> n]
           now == Append(uplinks, u)
           m == Len(uplinks)
           own(q) == {i \in 1..Len(q) : Eligible(spec, q[i].uplink)}
           Newest(q) == CHOOSE i \in own(q) : \A j \in own(q) : j <= i
           r == Receive(Declared[d], shown, uplink, n)
<1>1. /\ m \in Nat /\ Len(now) = m + 1 /\ now[m + 1] = u /\ \A i \in 1..m : now[i] = uplinks[i]
      /\ 1..(m + 1) = 1..m \cup {m + 1} /\ m + 1 \notin 1..m
  <2> HIDE DEF u
  <2> QED OBVIOUS
<1>2. u.uplink = uplink /\ u.count = n
  OBVIOUS
<1> HIDE DEF u, now, m
<1>3. CASE Eligible(spec, uplink)
  <2>1. m + 1 \in own(now)
    BY <1>1, <1>2, <1>3
  <2>2. \A i \in own(now) : i \in Int /\ i <= m + 1
    BY <1>1
  <2>3. Newest(now) = m + 1
    <3>1. \A i \in own(now) : (\A j \in own(now) : j <= i) => i = m + 1
      BY <1>1, <2>1, <2>2
    <3> HIDE DEF own
    <3> QED BY <2>1, <2>2, <3>1
  <2>4. own(now) # {} /\ now[Newest(now)] = u
    BY <1>1, <2>1, <2>3
  <2>7. \E i \in own(now) : \A j \in own(now) : j <= i
    <3> HIDE DEF own
    <3> QED BY <2>1, <2>2
  <2> HIDE DEF own, Newest, r
  <2>5. IF DecodeField(spec, uplink) = NoValue THEN spec.name \notin DOMAIN r
        ELSE /\ spec.name \in DOMAIN r
             /\ r[spec.name] = [value |-> DecodeField(spec, uplink), port |-> uplink.port, count |-> n]
    BY <1>3, ReceiveShows DEF r
  <2>6. Shows(spec, now, r)
    BY <1>2, <2>4, <2>5, <2>7 DEF Shows, own, Newest
  <2> QED BY <2>6 DEF r, now, u
<1>4. CASE ~Eligible(spec, uplink)
  <2>1. own(now) = own(uplinks)
    BY <1>1, <1>2, <1>4 DEF m
  <2>2. Newest(now) = Newest(uplinks)
    BY <2>1
  <2>3. own(uplinks) # {} => now[Newest(now)] = uplinks[Newest(uplinks)]
    <3>1. own(uplinks) # {} => Newest(uplinks) \in own(uplinks)
      <4>1. own(uplinks) # {} => \E i \in own(uplinks) : \A j \in own(uplinks) : j <= i
        BY DEF Shows
      <4> HIDE DEF own
      <4> QED BY <4>1
    <3> QED BY <1>1, <2>2, <3>1 DEF m
  <2> HIDE DEF own, Newest, r
  <2>4. IF spec.name \in DOMAIN shown THEN spec.name \in DOMAIN r /\ r[spec.name] = shown[spec.name]
        ELSE spec.name \notin DOMAIN r
    BY <1>4, ReceiveShows DEF r
  <2>5. own(now) # {} => \E i \in own(now) : \A j \in own(now) : j <= i
    BY <2>1 DEF Shows, own
  <2>6. Shows(spec, now, r)
    BY <2>1, <2>2, <2>3, <2>4, <2>5 DEF Shows, own, Newest
  <2> QED BY <2>6 DEF r, now, u
<1> QED BY <1>3, <1>4

(* An uplink delivered to the devices of its node. *)
LEMMA DeliverReads ==
  ASSUME ReadingInv, NEW uplink, NEW D, NEW n, DeliverUplink(uplink, D, n)
  PROVE  ReadingInv'
PROOF
<1> DEFINE u == [uplink |-> uplink, count |-> n]
<1>1. /\ fields' = [d \in Devices |-> IF Takes(d, D, uplink)
                      THEN Receive(Declared[d], fields[d], uplink, n) ELSE fields[d]]
      /\ accepted' = [d \in Devices |-> IF Takes(d, D, uplink) THEN Append(accepted[d], u) ELSE accepted[d]]
  BY DEF DeliverUplink
<1>2. PICK S : accepted \in [Devices -> Seq(S)]
  BY DEF ReadingInv
<1> HIDE DEF u
<1>3. accepted' \in [Devices -> Seq(S \cup {u})]
  <2>1. \A d \in Devices : accepted[d] \in Seq(S \cup {u})
    BY <1>2
  <2>2. \A d \in Devices : Append(accepted[d], u) \in Seq(S \cup {u})
    BY <2>1
  <2> QED BY <1>1, <2>1, <2>2
<1>4. ASSUME NEW d \in Devices, NEW spec \in BuildSpecs(Declared[d].fields)
      PROVE  Shows(spec, accepted'[d], fields'[d])
  <2>1. Shows(spec, accepted[d], fields[d]) /\ accepted[d] \in Seq(S)
    BY <1>2 DEF ReadingInv
  <2>2. CASE Takes(d, D, uplink)
    <3>1. Shows(spec, Append(accepted[d], u), Receive(Declared[d], fields[d], uplink, n))
      BY <2>1, AcceptShows DEF u
    <3> QED BY <1>1, <2>2, <3>1
  <2>3. CASE ~Takes(d, D, uplink)
    BY <1>1, <2>1, <2>3
  <2> QED BY <2>2, <2>3
<1> QED BY <1>1, <1>3, <1>4 DEF ReadingInv

LEMMA ReadingsStay ==
  ASSUME ReadingInv, UNCHANGED readings PROVE ReadingInv'
PROOF
BY DEF ReadingInv, readings

LEMMA ReadingStep ==
  ASSUME ReadingInv, [Next]_vars PROVE ReadingInv'
PROOF
<1> USE DEF serial, downlinks
<1>1. CASE NotOnRadio \/ UNCHANGED vars
  BY <1>1, ReadingsStay DEF NotOnRadio, vars
<1>2. CASE SerialNext
  <2>1. ASSUME NEW frame \in Uplinks, Hear(frame) PROVE ReadingInv'
    BY <2>1, DeliverReads DEF Hear
  <2>2. CASE SerialLoop \/ ReadFails
    BY <2>2, ReadingsStay
    DEF SerialLoop, SerialIdle, StartSerial, LeaveSerial, OpenPort, OpenFails, WriteInit, InitWritten,
        Opened, StopReading, ReadFails
  <2>3. ASSUME NEW a, SendOnPort(a) PROVE ReadingInv'
    BY <2>3, ReadingsStay DEF SendOnPort, SendSerial, WriteSkipped, TakePort, WriteLine, LineWritten
  <2> QED BY <1>2, <2>1, <2>2, <2>3 DEF SerialNext
<1>3. CASE LorawanNext
  <2>1. ASSUME NEW uplink \in Uplinks, HearUplink(uplink) PROVE ReadingInv'
    BY <2>1, DeliverReads DEF HearUplink
  <2>2. CASE LorawanLoop \/ Tick
    BY <2>2, ReadingsStay DEF LorawanLoop, Subscribe, Unsubscribe, Tick
  <2>3. ASSUME NEW a, Sending(a) PROVE ReadingInv'
    BY <2>3, ReadingsStay
    DEF Sending, SendDownlink, EnterThrottle, LeaveThrottle, PublishDownlink, DropDownlink
  <2> QED BY <1>3, <2>1, <2>2, <2>3 DEF LorawanNext
<1> QED BY <1>1, <1>2, <1>3 DEF Next

(* A reading shows, field by field, the newest uplink the field could be   *)
(* read from, and a field that this uplink could not give is not shown     *)
(* (receive_lorawan), for any field map and any uplinks.                   *)
THEOREM FieldsAreNewestHolds == Spec => []FieldsAreNewest
PROOF
<1>1. Init => ReadingInv
  <2> SUFFICES ASSUME Init PROVE ReadingInv
    OBVIOUS
  <2>1. fields = [d \in Devices |-> << >>] /\ accepted = [d \in Devices |-> << >>]
    BY DEF Init, LoraInit, NoReading
  <2>2. accepted \in [Devices -> Seq({})]
    <3>1. << >> \in Seq({})
      OBVIOUS
    <3> QED BY <2>1, <3>1
  <2>3. ASSUME NEW spec PROVE Shows(spec, << >>, << >>)
    <3>1. 1..Len(<< >>) = {} /\ DOMAIN << >> = {}
      OBVIOUS
    <3> QED BY <3>1 DEF Shows
  <2> QED BY <2>1, <2>2, <2>3 DEF ReadingInv
<1>2. ReadingInv /\ [Next]_vars => ReadingInv'
  BY ReadingStep
<1>3. ReadingInv => FieldsAreNewest
  BY DEF ReadingInv, Shows, FieldsAreNewest
<1> QED BY <1>1, <1>2, <1>3, PTL DEF Spec

-----------------------------------------------------------------------------
(* The passes of a worker over its devices, what the session keeps of it-  *)
(* self, the radio and the downlinks: the type invariant, strengthened.    *)

(* Where the worker is polling a device. *)
Busy == Polls /\ pc[Worker] \in {"poll", "call", "exchange"}

(* A pass polls what was due when it began, each device once, and on a     *)
(* Modbus socket asks for the registers that the device declares.          *)
PassInv ==
  /\ todo \subseteq due /\ due \subseteq Tasks /\ failed \subseteq Tasks
  /\ IF Busy THEN task \in todo ELSE task = 0
  /\ read \in Nat \ {0} /\ got \in BOOLEAN /\ socket \in BOOLEAN
  /\ kind = "modbus" /\ Busy => read \in 1..Reads(task)

(* The session's own variables. *)
SettingInv ==
  /\ configured \in BOOLEAN /\ stopping \in BOOLEAN
  /\ held \in [Algorithms -> 0..made]
  /\ connected \subseteq Devices /\ delay \in 1..MaxBackoff /\ restarts \in 0..MaxRestarts

(* The init commands still to write, and what was heard. *)
RadioInv ==
  /\ line \in 1..(InitCommands + 1)
  /\ kind = "serial" /\ pc[Worker] = "exchange" => line <= InitCommands
  /\ count \in 0..MaxUplinks
  /\ accepted \in [Devices -> Seq([uplink : Uplinks, count : 0..MaxUplinks])]

(* No downlink is without a number, nor noted before its time. *)
DownlinkInv ==
  /\ time \in 1..MaxTime /\ last \in 0..time /\ interval \in Intervals
  /\ noted \in [Algorithms -> 0..time] /\ previous \in [Algorithms -> 0..time]
  /\ issued \in [Algorithms -> 0..MaxCommands]
  /\ kind = "lorawan" => \A a \in Algorithms : pc[a] # "free" => issued[a] # 0
  /\ queue \in Seq([from : Algorithms, number : 1..MaxCommands])

LEMMA KindStays == [Next]_vars => kind' = kind /\ configured' = configured
PROOF
BY DEF Next, SharedNext, Drop, Close, Backoff, Supervise, RequestStop, vars, shared, setting,
       PollNext, PollLoop, PollIdle, StartPolling, LeavePolling, BeginPass, EnsureConnected, Refused,
       NextTask, EndPass, Wake, HttpPoll, HttpRaises, Answered, TransportFailed, ModbusRaises,
       Disconnect, CloseClient, BeginCall, SendPolling, SendModbus, SendRaises, AlgorithmRestarts,
       NotConnected, Written, TakeSession, Post, ComesDue,
       SerialNext, SerialLoop, SerialIdle, StartSerial, LeaveSerial, OpenPort, OpenFails, WriteInit,
       InitWritten, Opened, StopReading, ReadFails, Hear, SendOnPort, SendSerial, WriteSkipped,
       TakePort, WriteLine, LineWritten,
       LorawanNext, LorawanLoop, Subscribe, Unsubscribe, Tick, HearUplink, Sending, SendDownlink,
       EnterThrottle, LeaveThrottle, PublishDownlink, DropDownlink

(* A connector takes the steps of its own kind only. *)
LEMMA PollsOnly == ASSUME LinkInv, PollNext PROVE Polls
PROOF
<1> USE DEF LinkInv, Places, SerialPlaces, LorawanPlaces, At, Leaving, AllKinds, Exit, Http, Polls
<1>1. Senders[kind] \subseteq Algorithms /\ kind \in AllKinds
  BY LinkAssumption
<1>2. CASE PollLoop
  BY <1>1, <1>2 DEF PollLoop, PollIdle, StartPolling, LeavePolling, BeginPass, EnsureConnected, Refused,
              NextTask, EndPass, Wake, HttpPoll, HttpRaises, Answered, TransportFailed,
              ModbusRaises, Disconnect, CloseClient
<1>3. ASSUME NEW t, BeginCall(t) PROVE Polls
  BY <1>3 DEF BeginCall
<1>4. ASSUME NEW a \in Algorithms, SendPolling(a) PROVE Polls
  BY <1>1, <1>4 DEF SendPolling, SendModbus, SendRaises, AlgorithmRestarts, NotConnected, Written,
              TakeSession, Post
<1>5. ASSUME NEW d, ComesDue(d) PROVE Polls
  BY <1>5 DEF ComesDue
<1> QED BY <1>1, <1>2, <1>3, <1>4, <1>5 DEF PollNext

LEMMA SerialsOnly == ASSUME LinkInv, SerialNext PROVE kind = "serial"
PROOF
<1> USE DEF LinkInv, Places, HttpPlaces, ModbusPlaces, LorawanPlaces, At, Leaving, AllKinds
<1>1. Senders[kind] \subseteq Algorithms /\ kind \in AllKinds
  BY LinkAssumption
<1>2. CASE SerialLoop \/ ReadFails
  BY <1>1, <1>2 DEF SerialLoop, SerialIdle, StartSerial, LeaveSerial, OpenPort, OpenFails, WriteInit,
              InitWritten, Opened, StopReading, ReadFails
<1>3. ASSUME NEW frame, Hear(frame) PROVE kind = "serial"
  BY <1>3 DEF Hear
<1>4. ASSUME NEW a \in Algorithms, SendOnPort(a) PROVE kind = "serial"
  BY <1>1, <1>4 DEF SendOnPort, SendSerial, WriteSkipped, TakePort, WriteLine, LineWritten
<1> QED BY <1>1, <1>2, <1>3, <1>4 DEF SerialNext

LEMMA LorawansOnly == ASSUME LinkInv, LorawanNext PROVE kind = "lorawan"
PROOF
<1> USE DEF LinkInv, Places, HttpPlaces, ModbusPlaces, SerialPlaces, At, Leaving, AllKinds, Lorawan
<1>1. Senders[kind] \subseteq Algorithms /\ kind \in AllKinds
  BY LinkAssumption
<1>2. CASE LorawanLoop \/ Tick
  BY <1>1, <1>2 DEF LorawanLoop, Subscribe, Unsubscribe, Tick
<1>3. ASSUME NEW uplink, HearUplink(uplink) PROVE kind = "lorawan"
  BY <1>3 DEF HearUplink
<1>4. ASSUME NEW a \in Algorithms, Sending(a) PROVE kind = "lorawan"
  BY <1>1, <1>4 DEF Sending, SendDownlink, EnterThrottle, LeaveThrottle, PublishDownlink, DropDownlink
<1> QED BY <1>1, <1>2, <1>3, <1>4 DEF LorawanNext

(* The next device of a pass is one of it, and it has a register to read. *)
LEMMA NextIsOne ==
  ASSUME NEW D \in SUBSET Devices, D # {}
  PROVE  (CHOOSE d \in D : \A e \in D : d <= e) \in D
PROOF
<1> DEFINE Less == {ss \in Nat \X Nat : ss[1] < ss[2]}
<1>1. D \in SUBSET Nat
  BY LinkAssumption DEF Devices
<1>2. \E d \in D : \A e \in D : ~ (<<e, d>> \in Less)
  <2>1. IsWellFoundedOn(Less, Nat)
    BY NatLessThanWellFounded DEF OpToRel
  <2> HIDE DEF Less
  <2> QED BY <1>1, <2>1, WFMin
<1>3. PICK d \in D : \A e \in D : ~ (<<e, d>> \in Less)
  BY <1>2
<1>4. ASSUME NEW e \in D PROVE d <= e
  <2>1. d \in Nat /\ e \in Nat
    BY <1>1
  <2>2. <<e, d>> \in Nat \X Nat /\ <<e, d>>[1] = e /\ <<e, d>>[2] = d
    BY <2>1
  <2>3. ~(e < d)
    BY <1>3, <2>2
  <2> QED BY <2>1, <2>3
<1> QED BY <1>4

LEMMA ReadsSome ==
  ASSUME NEW d \in Tasks, kind = "modbus" PROVE Reads(d) \in Nat \ {0}
PROOF
<1> DEFINE n == Len(Declared[d].registers)
           R == BuildReads(Declared[d].registers)
<1>1. d \in Devices /\ R # {}
  BY DEF Tasks, ModbusTasks
<1>2. n \in Nat /\ R \subseteq 1..n
  BY <1>1, RegistersAssumption DEF BuildReads
<1>3. IsFiniteSet(R)
  <2> HIDE DEF R, n
  <2>1. IsFiniteSet(1..n)
    BY <1>2, FS_Interval
  <2> QED BY <1>2, <2>1, FS_Subset
<1>4. Cardinality(R) \in Nat /\ Cardinality(R) # 0
  BY <1>1, <1>3, FS_CardinalityType, FS_EmptySet
<1> QED BY <1>4 DEF Reads

LEMMA TasksAreDevices == Tasks \subseteq Devices
PROOF
BY DEF Tasks, ModbusTasks, HttpTasks

(* A poll that ends takes its device out of the pass. *)
LEMMA PollEnds ==
  ASSUME PassInv, Busy, ~Busy', kind' = kind, Polled, failed' \subseteq failed \cup {task},
         socket' \in BOOLEAN
  PROVE  PassInv'
PROOF
<1>1. Tasks' = Tasks
  BY DEF Tasks, ModbusTasks, HttpTasks, ResolveEndpoint, OpenemsEndpoint, HttpEndpoint
<1> QED BY <1>1 DEF PassInv, Polled

(* Where the worker polls nothing, before and after. *)
LEMMA PassStays ==
  ASSUME PassInv, kind' = kind, Busy' <=> Busy, UNCHANGED <<todo, task, failed, read, got>>,
         due' = due \/ \E d \in Tasks \ due : due' = due \cup {d}, socket' \in BOOLEAN
  PROVE  PassInv'
PROOF
<1>1. Tasks' = Tasks
  BY DEF Tasks, ModbusTasks, HttpTasks, ResolveEndpoint, OpenemsEndpoint, HttpEndpoint
<1>2. \A d : Reads(d)' = Reads(d)
  BY DEF Reads
<1> QED BY <1>1, <1>2 DEF PassInv

LEMMA PollingPass ==
  ASSUME LinkInv, PassInv, PollLoop, kind' = kind PROVE PassInv'
PROOF
<1>1. Tasks' = Tasks
  BY DEF Tasks, ModbusTasks, HttpTasks, ResolveEndpoint, OpenemsEndpoint, HttpEndpoint
<1> USE DEF LinkInv, Places, At, Leaving, Threads, Http, Polls, Busy, polling
<1>2. CASE PollIdle \/ LeavePolling \/ Refused \/ Wake
  BY <1>2, PassStays DEF PollIdle, LeavePolling, Refused, Wake, PassInv
<1>3. CASE StartPolling \/ Disconnect
  BY <1>3, PassStays DEF StartPolling, Disconnect
<1>4. CASE BeginPass \/ EnsureConnected
  <2>1. todo' = due /\ ~Busy /\ ~Busy' /\ UNCHANGED <<due, task, read, got, failed>> /\ socket' \in {socket, TRUE}
    BY <1>4 DEF BeginPass, EnsureConnected
  <2> QED BY <1>1, <2>1 DEF PassInv
<1>5. CASE NextTask
  <2>1. todo \in SUBSET Devices /\ todo # {}
    BY <1>5, TasksAreDevices DEF PassInv, NextTask
  <2>2. task' \in todo
    BY <1>5, <2>1, NextIsOne DEF NextTask
  <2>3. read' = 1 /\ got' = FALSE /\ UNCHANGED <<due, todo, failed, socket>>
    BY <1>5 DEF NextTask
  <2>4. Busy'
    <3>1. Polls
      BY <1>5, PollsOnly DEF PollNext, PollLoop
    <3> QED BY <1>5, <3>1 DEF NextTask
  <2>5. kind = "modbus" => read' \in 1..Reads(task')
    BY <2>2, <2>3, ReadsSome DEF PassInv
  <2> HIDE DEF Busy
  <2>6. todo' \subseteq due' /\ due' \subseteq Tasks' /\ failed' \subseteq Tasks'
    BY <1>1, <2>3 DEF PassInv
  <2>7. socket' \in BOOLEAN
    BY <2>3 DEF PassInv
  <2>8. (kind = "modbus" /\ Busy => read \in 1..Reads(task))'
    BY <2>5 DEF Reads
  <2>9. (IF Busy THEN task \in todo ELSE task = 0)'
    BY <2>2, <2>3, <2>4
  <2>10. read' \in Nat \ {0} /\ got' \in BOOLEAN
    <3>1. read' = 1
      BY <2>3
    <3>2. got' \in BOOLEAN
      BY <2>3, Zenon
    <3>3. 1 \in Nat \ {0}
      OBVIOUS
    <3> QED BY <3>1, <3>2, <3>3
  <2> QED BY <2>6, <2>7, <2>8, <2>9, <2>10 DEF PassInv
<1>6. CASE EndPass
  <2>1. todo' = {} /\ ~Busy /\ ~Busy' /\ UNCHANGED <<due, task, read, got, failed, socket>>
    BY <1>6 DEF EndPass
  <2> QED BY <1>1, <2>1 DEF PassInv
<1>7. CASE HttpPoll
  <2>1. Busy /\ ~Busy' /\ Polled /\ failed' \subseteq failed \cup {task} /\ socket' = socket
    BY <1>7, LinkAssumption DEF HttpPoll, Delivered, NotDelivered, HttpPlaces, ModbusPlaces, SerialPlaces,
       LorawanPlaces, AllKinds
  <2> HIDE DEF Busy
  <2> QED BY <2>1, PollEnds DEF PassInv
<1>8. CASE HttpRaises \/ ModbusRaises
  <2>1. todo' = {} /\ task' = 0 /\ ~Busy' /\ UNCHANGED <<due, read, got, failed, socket>>
    BY <1>8 DEF HttpRaises, ModbusRaises
  <2> QED BY <1>1, <2>1 DEF PassInv
<1>9. CASE Answered
  <2>1. Busy /\ kind = "modbus" /\ socket' = TRUE
    BY <1>9 DEF Answered, Exit
  <2>2. CASE read < Reads(task)
    <3>1. read' = read + 1 /\ got' \in BOOLEAN /\ UNCHANGED <<due, todo, task, failed>> /\ Busy'
      BY <1>9, <2>1, <2>2 DEF Answered, PassInv
    <3>2. Reads(task) \in Nat \ {0}
      BY <2>1, ReadsSome DEF PassInv
    <3> HIDE DEF Busy
    <3> QED BY <1>1, <2>1, <2>2, <3>1, <3>2 DEF PassInv, Reads
  <2>3. CASE ~(read < Reads(task))
    <3>1. ~Busy' /\ Polled /\ failed' \subseteq failed \cup {task}
      BY <1>9, <2>1, <2>3 DEF Answered, Delivered, NotDelivered
    <3> HIDE DEF Busy
    <3> QED BY <2>1, <3>1, PollEnds
  <2> QED BY <2>2, <2>3
<1>10. CASE TransportFailed
  <2>1. Busy /\ ~Busy' /\ Polled /\ failed' \subseteq failed \cup {task} /\ socket' \in BOOLEAN
    BY <1>10 DEF TransportFailed, Exit, NotDelivered
  <2> HIDE DEF Busy
  <2> QED BY <2>1, PollEnds
<1>11. CASE CloseClient
  <2>1. ~Busy /\ ~Busy' /\ UNCHANGED <<due, todo, task, read, got, failed>> /\ socket' = FALSE
    BY <1>11 DEF CloseClient
  <2> HIDE DEF Busy
  <2> QED BY <2>1, PassStays
<1> QED BY <1>2, <1>3, <1>4, <1>5, <1>6, <1>7, <1>8, <1>9, <1>10, <1>11 DEF PollLoop

LEMMA PassStep ==
  ASSUME LinkInv, PassInv, [Next]_vars PROVE PassInv'
PROOF
<1>1. kind' = kind
  BY KindStays
<1> USE DEF LinkInv, Places, At, Leaving, Threads, Polls, Busy
<1>2. CASE UNCHANGED vars
  BY <1>1, <1>2, PassStays DEF vars, shared, polling, PassInv
<1>3. CASE SharedNext /\ NotPolling
  <2>1. Busy' <=> Busy
    BY <1>1, <1>3 DEF SharedNext, Drop, Close, Backoff, Supervise, RequestStop
  <2> HIDE DEF Busy
  <2> QED BY <1>1, <1>3, <2>1, PassStays DEF NotPolling, polling, PassInv
<1>4. CASE PollNext
  <2>1. ASSUME NEW t \in Threads, BeginCall(t) PROVE PassInv'
    <3>1. Busy' <=> Busy
      BY <1>1, <2>1, LinkAssumption DEF BeginCall
    <3> HIDE DEF Busy
    <3> QED BY <1>1, <2>1, <3>1, PassStays DEF BeginCall, polling, PassInv
  <2>2. ASSUME NEW a \in Algorithms, SendPolling(a) PROVE PassInv'
    <3>1. pc'[Worker] = pc[Worker]
      BY <2>2, LinkAssumption
      DEF SendPolling, SendModbus, SendRaises, AlgorithmRestarts, NotConnected, Written, TakeSession, Post
    <3>2. UNCHANGED <<due, todo, task, failed, read, got>> /\ socket' \in BOOLEAN
      BY <2>2
      DEF SendPolling, SendModbus, SendRaises, AlgorithmRestarts, NotConnected, Written, TakeSession, Post,
          PassInv, polling
    <3> QED BY <1>1, <3>1, <3>2, PassStays
  <2>3. ASSUME NEW d \in Devices, ComesDue(d) PROVE PassInv'
    <3>1. d \in Tasks \ due /\ due' = due \cup {d} /\ UNCHANGED <<pc, todo, task, failed, read, got, socket>>
      BY <2>3 DEF ComesDue, shared
    <3> QED BY <1>1, <3>1, PassStays DEF PassInv
  <2>4. CASE PollLoop
    BY <1>1, <2>4, PollingPass
  <2>5. Senders[kind] \subseteq Algorithms
    BY LinkAssumption
  <2> QED BY <1>4, <2>1, <2>2, <2>3, <2>4, <2>5 DEF PollNext
<1>5. CASE (SerialNext \/ LorawanNext) /\ UNCHANGED polling
  <2>1. ~Polls
    BY <1>5, SerialsOnly, LorawansOnly
  <2>2. ~Busy /\ ~Busy'
    BY <1>1, <2>1
  <2> HIDE DEF Busy
  <2> QED BY <1>1, <1>5, <2>2, PassStays DEF polling, PassInv
<1> QED BY <1>2, <1>3, <1>4, <1>5 DEF Next, SerialOnly, LorawanOnly

(* What a step may do to the session's own variables. *)
SettingMoves ==
  /\ made' = made \/ made' = made + 1
  /\ held' = held \/ \E a \in Algorithms : \E h \in 0..made : held' = [held EXCEPT ![a] = h]
  /\ connected' \subseteq connected \cup Devices
  /\ delay' = delay \/ delay' = 1 \/ delay' = IF 2 * delay < MaxBackoff THEN 2 * delay ELSE MaxBackoff
  /\ restarts' = restarts \/ (restarts < MaxRestarts /\ restarts' = restarts + 1)

LEMMA StopStays == [Next]_vars => stopping' = stopping \/ stopping' = TRUE
PROOF
BY Zenon
   DEF Next, SharedNext, Drop, Close, Backoff, Supervise, RequestStop, vars, shared,
       PollNext, PollLoop, PollIdle, StartPolling, LeavePolling, BeginPass, EnsureConnected, Refused,
       NextTask, EndPass, Wake, HttpPoll, HttpRaises, Answered, TransportFailed, ModbusRaises,
       Disconnect, CloseClient, BeginCall, SendPolling, SendModbus, SendRaises, AlgorithmRestarts,
       NotConnected, Written, TakeSession, Post, ComesDue,
       SerialNext, SerialLoop, SerialIdle, StartSerial, LeaveSerial, OpenPort, OpenFails, WriteInit,
       InitWritten, Opened, StopReading, ReadFails, Hear, SendOnPort, SendSerial, WriteSkipped,
       TakePort, WriteLine, LineWritten,
       LorawanNext, LorawanLoop, Subscribe, Unsubscribe, Tick, HearUplink, Sending, SendDownlink,
       EnterThrottle, LeaveThrottle, PublishDownlink, DropDownlink

LEMMA SettingMoved ==
  ASSUME SettingInv, made \in Nat, [Next]_vars, SettingMoves PROVE SettingInv'
PROOF
<1>1. held' \in [Algorithms -> 0..made']
  <2>1. held' \in [Algorithms -> 0..made]
    BY DEF SettingInv, SettingMoves
  <2>2. 0..made \subseteq 0..made'
    BY DEF SettingMoves
  <2> QED BY <2>1, <2>2
<1>2. delay' \in 1..MaxBackoff /\ restarts' \in 0..MaxRestarts
  BY LinkAssumption DEF SettingInv, SettingMoves
<1>3. configured' \in BOOLEAN /\ stopping' \in BOOLEAN
  BY KindStays, StopStays, Zenon DEF SettingInv
<1>4. connected' \subseteq Devices
  BY DEF SettingInv, SettingMoves
<1> QED BY <1>1, <1>2, <1>3, <1>4 DEF SettingInv

LEMMA SettingStep ==
  ASSUME LinkInv, PassInv, SettingInv, [Next]_vars PROVE SettingInv'
PROOF
<1>1. made \in Nat /\ handle \in 0..made /\ 0 \in 0..made
  BY DEF LinkInv, Handles
<1>2. WriteOnly \subseteq Devices
  BY DEF WriteOnly
<1>4. Busy => {task} \subseteq Devices
  BY TasksAreDevices DEF PassInv
<1> SUFFICES SettingMoves
  BY <1>1, SettingMoved
<1> USE DEF SettingMoves, shared, handles, setting
<1>5. CASE UNCHANGED vars
  BY <1>5 DEF vars
<1>6. CASE SharedNext
  <2>1. CASE Drop \/ Close \/ RequestStop
    BY <2>1 DEF Drop, Close, RequestStop
  <2>2. CASE Backoff
    BY <2>2 DEF Backoff
  <2>3. CASE Supervise
    <3>1. restarts \in Nat /\ MaxRestarts \in Nat
      BY LinkAssumption DEF SettingInv
    <3> QED BY <2>3, <3>1 DEF Supervise
  <2> QED BY <1>6, <2>1, <2>2, <2>3 DEF SharedNext
<1>7. CASE PollNext
  <2>1. CASE PollLoop
    <3>1. CASE Answered \/ TransportFailed \/ HttpPoll
      <4>1. Busy
        BY <3>1, LinkAssumption
        DEF Answered, TransportFailed, HttpPoll, At, Exit, Busy, Polls, LinkInv, Places, ModbusPlaces,
            SerialPlaces, LorawanPlaces, AllKinds
      <4>2. connected' \subseteq connected \cup Devices
        BY <1>4, <3>1, <4>1 DEF Answered, TransportFailed, HttpPoll, Delivered, NotDelivered, Reached
      <4> QED BY <3>1, <4>2 DEF Answered, TransportFailed, HttpPoll
    <3>2. CASE StartPolling \/ EnsureConnected
      <4>1. connected' \subseteq connected \cup Devices
        BY <1>2, <3>2 DEF StartPolling, EnsureConnected, Reached
      <4> QED BY <3>2, <4>1 DEF StartPolling, EnsureConnected, MakeHandle
    <3> QED BY <2>1, <3>1, <3>2
      DEF PollLoop, PollIdle, LeavePolling, BeginPass, Refused, NextTask, EndPass, Wake, HttpRaises,
          ModbusRaises, Disconnect, CloseClient
  <2>2. ASSUME NEW t, BeginCall(t) PROVE SettingMoves
    BY <2>2 DEF BeginCall
  <2>3. ASSUME NEW a \in Algorithms, SendPolling(a) PROVE SettingMoves
    BY <1>1, <2>3
    DEF SendPolling, SendModbus, SendRaises, AlgorithmRestarts, NotConnected, Written, TakeSession, Post
  <2>4. ASSUME NEW d, ComesDue(d) PROVE SettingMoves
    BY <2>4 DEF ComesDue
  <2>5. Senders[kind] \subseteq Algorithms
    BY LinkAssumption DEF LinkInv, Places
  <2> HIDE DEF SettingMoves
  <2> QED BY <1>7, <2>1, <2>2, <2>3, <2>4, <2>5 DEF PollNext
<1>8. CASE SerialNext
  <2>1. CASE SerialLoop \/ ReadFails
    <3>1. connected' \subseteq connected \cup Devices
      BY <1>2, <2>1
      DEF SerialLoop, SerialIdle, StartSerial, LeaveSerial, OpenPort, OpenFails, WriteInit,
          InitWritten, Opened, StopReading, ReadFails, Reached
    <3> QED BY <2>1, <3>1
      DEF SerialLoop, SerialIdle, StartSerial, LeaveSerial, OpenPort, OpenFails, WriteInit,
          InitWritten, Opened, StopReading, ReadFails, MakeHandle
  <2>2. ASSUME NEW frame, Hear(frame) PROVE SettingMoves
    <3>1. connected' \subseteq connected \cup Devices
      BY <2>2 DEF Hear, DeliverUplink, Reached, Route
    <3> QED BY <2>2, <3>1 DEF Hear
  <2>3. ASSUME NEW a \in Algorithms, SendOnPort(a) PROVE SettingMoves
    BY <1>1, <2>3 DEF SendOnPort, SendSerial, WriteSkipped, TakePort, WriteLine, LineWritten
  <2>4. Senders[kind] \subseteq Algorithms
    BY LinkAssumption DEF LinkInv, Places
  <2> HIDE DEF SettingMoves
  <2> QED BY <1>8, <2>1, <2>2, <2>3, <2>4 DEF SerialNext
<1>9. CASE LorawanNext
  <2>1. CASE LorawanLoop \/ Tick
    <3>1. connected' \subseteq connected \cup Devices
      BY <1>2, <2>1 DEF LorawanLoop, Subscribe, Unsubscribe, Tick, Reached
    <3> QED BY <2>1, <3>1 DEF LorawanLoop, Subscribe, Unsubscribe, Tick
  <2>2. ASSUME NEW uplink, HearUplink(uplink) PROVE SettingMoves
    <3>1. connected' \subseteq connected \cup Devices
      BY <2>2 DEF HearUplink, DeliverUplink, Reached, TopicRoute
    <3> QED BY <2>2, <3>1 DEF HearUplink
  <2>3. ASSUME NEW a, Sending(a) PROVE SettingMoves
    BY <2>3 DEF Sending, SendDownlink, EnterThrottle, LeaveThrottle, PublishDownlink, DropDownlink
  <2> HIDE DEF SettingMoves
  <2> QED BY <1>9, <2>1, <2>2, <2>3 DEF LorawanNext
<1> QED BY <1>5, <1>6, <1>7, <1>8, <1>9 DEF Next

(* The radio: an uplink more is counted, and an init command more written. *)
LEMMA RadioStep ==
  ASSUME LinkInv, RadioInv, [Next]_vars PROVE RadioInv'
PROOF
<1>1. kind' = kind
  BY KindStays
<1> DEFINE Uplinked == accepted \in [Devices -> Seq([uplink : Uplinks, count : 0..MaxUplinks])]
           Writing == kind = "serial" /\ pc[Worker] = "exchange" => line <= InitCommands
<1>2. ASSUME NEW uplink \in Uplinks, NEW D, NEW n \in 0..MaxUplinks, DeliverUplink(uplink, D, n)
      PROVE  count' \in 0..MaxUplinks /\ Uplinked'
  <2> DEFINE u == [uplink |-> uplink, count |-> n]
             U == [uplink : Uplinks, count : 0..MaxUplinks]
  <2>1. u \in U
    OBVIOUS
  <2>2. accepted' = [d \in Devices |-> IF Takes(d, D, uplink) THEN Append(accepted[d], u) ELSE accepted[d]]
    BY <1>2 DEF DeliverUplink
  <2>3. accepted \in [Devices -> Seq(U)]
    BY DEF RadioInv
  <2> HIDE DEF u, U
  <2>4. accepted' \in [Devices -> Seq(U)]
    BY <2>1, <2>2, <2>3
  <2>5. count' \in 0..MaxUplinks
    BY <1>2, FieldMapsAssumption DEF DeliverUplink, RadioInv
  <2> QED BY <2>4, <2>5 DEF U
<1>3. ASSUME UNCHANGED readings, line' = line, Writing' PROVE RadioInv'
  BY <1>3 DEF RadioInv, readings
<1> USE DEF LinkInv, Places, At, Leaving, serial
<1>4. CASE UNCHANGED vars
  BY <1>1, <1>3, <1>4 DEF vars, shared, RadioInv
<1>5. CASE SharedNext /\ NotOnRadio
  <2>1. pc'[Worker] # "exchange" \/ pc'[Worker] = pc[Worker]
    BY <1>5 DEF SharedNext, Drop, Close, Backoff, Supervise, RequestStop, Threads
  <2> QED BY <1>1, <1>3, <1>5, <2>1 DEF NotOnRadio, RadioInv
<1>6. CASE (PollNext /\ NotOnRadio) \/ (LorawanNext /\ line' = line)
  <2>1. kind' # "serial"
    BY <1>1, <1>6, PollsOnly, LorawansOnly DEF Polls
  <2>2. CASE UNCHANGED readings
    BY <1>3, <1>6, <2>1, <2>2 DEF NotOnRadio
  <2>3. ASSUME NEW uplink \in Uplinks, HearUplink(uplink), line' = line PROVE RadioInv'
    <3>1. count + 1 \in 0..MaxUplinks
      BY <2>3, FieldMapsAssumption DEF HearUplink, DeliverUplink, RadioInv
    <3>2. count' \in 0..MaxUplinks /\ Uplinked'
      BY <1>2, <2>3, <3>1 DEF HearUplink
    <3> QED BY <2>1, <2>3, <3>2 DEF RadioInv
  <2>4. UNCHANGED readings \/ \E uplink \in Uplinks : HearUplink(uplink)
    BY <1>6
    DEF NotOnRadio, LorawanNext, LorawanLoop, Subscribe, Unsubscribe, Tick, Sending, SendDownlink,
        EnterThrottle, LeaveThrottle, PublishDownlink, DropDownlink
  <2>5. line' = line
    BY <1>6 DEF NotOnRadio
  <2> QED BY <2>2, <2>3, <2>4, <2>5
<1>7. CASE SerialNext
  <2>1. ASSUME NEW frame \in Uplinks, Hear(frame) PROVE RadioInv'
    <3>1. 0 \in 0..MaxUplinks
      BY FieldMapsAssumption
    <3>2. count' \in 0..MaxUplinks /\ Uplinked'
      BY <1>2, <2>1, <3>1 DEF Hear
    <3> QED BY <1>1, <2>1, <3>2 DEF Hear, RadioInv
  <2>2. ASSUME NEW a \in Algorithms, SendOnPort(a) PROVE RadioInv'
    <3>0. \E from, to : At(a, from, to)
      <4> HIDE DEF At
      <4> QED BY <2>2 DEF SendOnPort, SendSerial, WriteSkipped, TakePort, WriteLine, LineWritten
    <3>1. pc'[Worker] = pc[Worker]
      BY <3>0, LinkAssumption
    <3>2. UNCHANGED <<line, readings>>
      BY <2>2 DEF SendOnPort, SendSerial, WriteSkipped, TakePort, WriteLine, LineWritten
    <3> QED BY <1>1, <1>3, <3>1, <3>2 DEF RadioInv
  <2>3. CASE OpenPort
    <3>1. line' = 1 /\ UNCHANGED readings /\ pc'[Worker] = "init"
      BY <2>3, LinkAssumption DEF OpenPort, Threads
    <3>2. line' \in 1..(InitCommands + 1)
      BY <3>1, SerialAssumption
    <3>3. count' \in 0..MaxUplinks /\ Uplinked'
      BY <3>1 DEF RadioInv, readings
    <3> QED BY <3>1, <3>2, <3>3 DEF RadioInv
  <2>4. CASE InitWritten
    <3>1. line <= InitCommands /\ line' = line + 1 /\ UNCHANGED readings /\ pc'[Worker] # "exchange"
      BY <2>4, LinkAssumption DEF InitWritten, Threads, RadioInv
    <3>2. line' \in 1..(InitCommands + 1)
      BY <3>1, SerialAssumption DEF RadioInv
    <3>3. count' \in 0..MaxUplinks /\ Uplinked'
      BY <3>1 DEF RadioInv, readings
    <3> QED BY <3>1, <3>2, <3>3 DEF RadioInv
  <2>5. CASE WriteInit
    <3>1. line <= InitCommands /\ UNCHANGED <<line, readings>>
      BY <2>5 DEF WriteInit
    <3> QED BY <1>3, <3>1
  <2>6. CASE SerialIdle \/ StartSerial \/ LeaveSerial \/ OpenFails \/ Opened \/ StopReading \/ ReadFails
    <3>1. UNCHANGED <<line, readings>> /\ pc'[Worker] # "exchange"
      BY <2>6, LinkAssumption
      DEF SerialIdle, StartSerial, LeaveSerial, OpenFails, Opened, StopReading, ReadFails, Threads
    <3> QED BY <1>3, <3>1
  <2>7. Senders[kind] \subseteq Algorithms
    BY LinkAssumption
  <2> QED BY <1>7, <2>1, <2>2, <2>3, <2>4, <2>5, <2>6, <2>7 DEF SerialNext, SerialLoop
<1> QED BY <1>4, <1>5, <1>6, <1>7 DEF Next, SerialOnly, LorawanOnly

(* A downlink was given its number, and noted, before it is anywhere. *)
LEMMA DownlinkSending ==
  ASSUME LinkInv, DownlinkInv, kind = "lorawan", kind' = kind, NEW a \in Algorithms, Sending(a)
  PROVE  DownlinkInv'
PROOF
<1>1. /\ time \in 1..MaxTime /\ last \in 0..time /\ interval \in Intervals
      /\ noted \in [Algorithms -> 0..time] /\ previous \in [Algorithms -> 0..time]
      /\ issued \in [Algorithms -> 0..MaxCommands]
      /\ queue \in Seq([from : Algorithms, number : 1..MaxCommands])
      /\ \A b \in Algorithms : pc[b] # "free" => issued[b] # 0
  BY DEF DownlinkInv
<1>2. pc = [t \in Threads |-> pc[t]] /\ Algorithms \subseteq Threads /\ MaxCommands \in Nat /\ time \in 0..time
  BY <1>1, ThrottleAssumption DEF LinkInv, Places, Threads
<1> USE DEF At, throttle
<1>3. CASE SendDownlink(a)
  <2>1. /\ UNCHANGED <<interval, time, previous, last, queue>>
        /\ issued' = [issued EXCEPT ![a] = @ + 1] /\ issued[a] < MaxCommands
        /\ noted' = [noted EXCEPT ![a] = time]
        /\ \A b \in Algorithms \ {a} : pc'[b] = pc[b]
    BY <1>2, <1>3 DEF SendDownlink
  <2>2. issued' \in [Algorithms -> 0..MaxCommands] /\ issued'[a] # 0
        /\ \A b \in Algorithms \ {a} : issued'[b] = issued[b]
    BY <1>1, <1>2, <2>1
  <2>3. noted' \in [Algorithms -> 0..time]
    BY <1>1, <1>2, <2>1
  <2> QED BY <1>1, <2>1, <2>2, <2>3 DEF DownlinkInv
<1>4. ASSUME issued' = issued, pc[a] # "free", \A b \in Algorithms \ {a} : pc'[b] = pc[b]
      PROVE  \A b \in Algorithms : pc'[b] # "free" => issued'[b] # 0
  BY <1>1, <1>4
<1>5. CASE EnterThrottle(a)
  <2>1. /\ UNCHANGED <<interval, time, noted, last, issued, queue>> /\ previous' = [previous EXCEPT ![a] = last]
        /\ pc[a] # "free" /\ \A b \in Algorithms \ {a} : pc'[b] = pc[b]
    BY <1>2, <1>5 DEF EnterThrottle
  <2>2. previous' \in [Algorithms -> 0..time]
    BY <1>1, <2>1
  <2> QED BY <1>1, <1>4, <2>1, <2>2 DEF DownlinkInv
<1>6. CASE LeaveThrottle(a)
  <2>1. /\ UNCHANGED <<interval, time, noted, previous, issued, queue>> /\ (last' = last \/ last' = noted[a])
        /\ pc[a] # "free" /\ \A b \in Algorithms \ {a} : pc'[b] = pc[b]
    BY <1>2, <1>6 DEF LeaveThrottle
  <2>2. last' \in 0..time
    BY <1>1, <2>1
  <2> QED BY <1>1, <1>4, <2>1, <2>2 DEF DownlinkInv
<1>7. CASE PublishDownlink(a)
  <2> DEFINE command == [from |-> a, number |-> issued[a]]
             C == [from : Algorithms, number : 1..MaxCommands]
  <2>1. /\ UNCHANGED <<interval, time, noted, previous, last, issued>>
        /\ (queue' = <<command>> \/ queue' = Append(queue, command))
        /\ pc[a] # "free" /\ \A b \in Algorithms \ {a} : pc'[b] = pc[b]
    BY <1>2, <1>7 DEF PublishDownlink, Enqueue
  <2>2. command \in C
    <3>1. issued[a] \in 1..MaxCommands
      <4>1. issued[a] \in 0..MaxCommands /\ issued[a] # 0
        BY <1>1, <2>1
      <4> QED BY <1>2, <4>1
    <3> QED BY <3>1
  <2>3. queue' \in Seq(C)
    <3> HIDE DEF command
    <3>1. queue \in Seq(C)
      BY <1>1
    <3> HIDE DEF C
    <3>2. <<command>> \in Seq(C) /\ Append(queue, command) \in Seq(C)
      BY <2>2, <3>1
    <3> QED BY <2>1, <3>2
  <2> QED BY <1>1, <1>4, <2>1, <2>3 DEF DownlinkInv
<1>8. CASE DropDownlink(a)
  <2>1. /\ UNCHANGED <<throttle, issued, queue>>
        /\ pc[a] # "free" /\ \A b \in Algorithms \ {a} : pc'[b] = pc[b]
    BY <1>2, <1>8 DEF DropDownlink
  <2> QED BY <1>1, <1>4, <2>1 DEF DownlinkInv
<1> QED BY <1>3, <1>5, <1>6, <1>7, <1>8 DEF Sending

LEMMA DownlinkStep ==
  ASSUME LinkInv, DownlinkInv, [Next]_vars PROVE DownlinkInv'
PROOF
<1>1. kind' = kind
  BY KindStays
<1>2. ASSUME UNCHANGED downlinks, kind = "lorawan" => \A a \in Algorithms : pc'[a] = pc[a] PROVE DownlinkInv'
  BY <1>1, <1>2 DEF DownlinkInv, downlinks, throttle
<1> USE DEF LinkInv, Places, At, Leaving
<1>3. CASE UNCHANGED vars
  BY <1>2, <1>3 DEF vars, shared
<1>4. CASE SharedNext /\ NotOnRadio
  <2>1. \A a \in Algorithms : pc'[a] = pc[a]
    BY <1>4, LinkAssumption DEF SharedNext, Drop, Close, Backoff, Supervise, RequestStop, Threads
  <2> QED BY <1>2, <1>4, <2>1 DEF NotOnRadio
<1>5. CASE (PollNext /\ NotOnRadio) \/ (SerialNext /\ SerialOnly)
  <2>1. kind # "lorawan"
    BY <1>5, PollsOnly, SerialsOnly DEF Polls
  <2> QED BY <1>2, <1>5, <2>1 DEF NotOnRadio, SerialOnly
<1>6. CASE LorawanNext
  <2>1. CASE LorawanLoop
    <3>1. \A a \in Algorithms : pc'[a] = pc[a]
      BY <2>1, LinkAssumption DEF LorawanLoop, Subscribe, Unsubscribe, Threads
    <3> QED BY <1>2, <2>1, <3>1 DEF LorawanLoop, Subscribe, Unsubscribe
  <2>2. CASE Tick
    <3>1. /\ time' = time + 1 /\ time' \in 1..MaxTime /\ UNCHANGED <<pc, interval, noted, previous, last, issued, queue>>
          /\ 0..time \subseteq 0..time'
      BY <2>2, ThrottleAssumption DEF Tick, DownlinkInv, shared
    <3>2. last' \in 0..time' /\ noted' \in [Algorithms -> 0..time'] /\ previous' \in [Algorithms -> 0..time']
      BY <3>1 DEF DownlinkInv
    <3> QED BY <1>1, <3>1, <3>2 DEF DownlinkInv
  <2>3. ASSUME NEW uplink, HearUplink(uplink) PROVE DownlinkInv'
    <3>1. queue' = queue \/ (queue # << >> /\ queue' = Tail(queue))
      BY <2>3 DEF HearUplink
    <3>2. queue' \in Seq([from : Algorithms, number : 1..MaxCommands])
      <4> DEFINE C == [from : Algorithms, number : 1..MaxCommands]
      <4>1. queue \in Seq(C)
        BY DEF DownlinkInv
      <4> HIDE DEF C
      <4>2. queue' \in Seq(C)
        BY <3>1, <4>1
      <4> QED BY <4>2 DEF C
    <3>3. UNCHANGED <<interval, time, noted, previous, last, issued, pc>>
      BY <2>3 DEF HearUplink, throttle
    <3> QED BY <1>1, <3>2, <3>3 DEF DownlinkInv
  <2>4. ASSUME NEW a \in Senders[kind], Sending(a) PROVE DownlinkInv'
    <3>1. a \in Algorithms
      BY LinkAssumption
    <3>2. kind = "lorawan"
      BY <1>6, LorawansOnly
    <3> QED BY <1>1, <2>4, <3>1, <3>2, DownlinkSending
  <2> QED BY <1>6, <2>1, <2>2, <2>3, <2>4 DEF LorawanNext
<1> QED BY <1>3, <1>4, <1>5, <1>6 DEF Next

(* The inductive invariant of the field links. *)
FieldInv == LinkInv /\ PassInv /\ SettingInv /\ RadioInv /\ DownlinkInv

LEMMA FieldInit == Init => FieldInv
PROOF
<1> SUFFICES ASSUME Init PROVE FieldInv
  OBVIOUS
<1>1. LinkInv
  BY LinkAssumption
  DEF Init, LinkInit, LinkInv, Places, HttpPlaces, ModbusPlaces, SerialPlaces, LorawanPlaces,
      Locking, Handles, Without, AllKinds, Threads
<1>2. pc[Worker] = "out" /\ \A a \in Algorithms : pc[a] = "free"
  BY LinkAssumption DEF Init, LinkInit, Threads
<1>3. PassInv
  <2>1. ~Busy
    BY <1>2 DEF Busy
  <2>2. due = Tasks /\ todo = {} /\ task = 0 /\ failed = {} /\ read = 1
    BY DEF Init, PollInit
  <2>3. got = FALSE /\ socket = FALSE
    BY DEF Init, PollInit
  <2>4. got \in BOOLEAN /\ socket \in BOOLEAN
    BY <2>3
  <2> QED BY <2>1, <2>2, <2>4 DEF PassInv
<1>4. SettingInv
  <2>1. stopping \in BOOLEAN /\ configured \in BOOLEAN
    BY DEF Init, LinkInit
  <2>2. held \in [Algorithms -> 0..made] /\ connected = {} /\ delay \in 1..MaxBackoff /\ restarts \in 0..MaxRestarts
    BY LinkAssumption DEF Init, LinkInit
  <2> QED BY <2>1, <2>2 DEF SettingInv
<1>5. RadioInv
  <2>1. line \in 1..(InitCommands + 1) /\ count \in 0..MaxUplinks
    BY SerialAssumption, FieldMapsAssumption DEF Init, SerialInit, LoraInit
  <2>2. accepted \in [Devices -> Seq([uplink : Uplinks, count : 0..MaxUplinks])]
    <3>1. \A S : << >> \in Seq(S)
      OBVIOUS
    <3> QED BY <3>1 DEF Init, LoraInit
  <2> QED BY <1>2, <2>1, <2>2 DEF RadioInv
<1>6. DownlinkInv
  <2>1. time \in 1..MaxTime /\ last \in 0..time /\ interval \in Intervals /\ MaxCommands \in Nat
    BY ThrottleAssumption DEF Init, LorawanInit
  <2>2. /\ noted \in [Algorithms -> 0..time] /\ previous \in [Algorithms -> 0..time]
        /\ issued \in [Algorithms -> 0..MaxCommands]
    BY <2>1 DEF Init, LorawanInit
  <2>3. queue \in Seq([from : Algorithms, number : 1..MaxCommands])
    BY DEF Init, LorawanInit
  <2> QED BY <1>2, <2>1, <2>2, <2>3 DEF DownlinkInv
<1> QED BY <1>1, <1>3, <1>4, <1>5, <1>6 DEF FieldInv

(* A pass stays within what was due, a frozen set of tasks is polled once  *)
(* each, a handle held is one that was made, the radio counts no more      *)
(* uplinks than it heard and no downlink is noted before its time: what    *)
(* the workers of src/connectors keep, in one inductive invariant.         *)
THEOREM FieldLinksInductive == Spec => []FieldInv
PROOF
<1>1. FieldInv /\ [Next]_vars => FieldInv'
  BY LinkStep, PassStep, SettingStep, RadioStep, DownlinkStep DEF FieldInv
<1> QED BY <1>1, FieldInit, PTL DEF Spec

(* Every variable of every connector keeps its type. *)
THEOREM FieldLinksTypeCorrect == Spec => []TypeOK
PROOF
<1>1. FieldInv => TypeOK
  <2> SUFFICES ASSUME FieldInv PROVE TypeOK
    OBVIOUS
  <2> USE DEF FieldInv
  <2>1. kind \in Kinds /\ configured \in BOOLEAN /\ stopping \in BOOLEAN
    BY DEF LinkInv, Places, SettingInv
  <2>2. pc \in [Threads -> LinkPlaces \cup SendPlaces]
    <3>1. pc[Worker] \in LinkPlaces \cup SendPlaces /\ \A a \in Algorithms : pc[a] \in SendPlaces
      BY LinkAssumption
      DEF LinkInv, Places, HttpPlaces, ModbusPlaces, SerialPlaces, LorawanPlaces, AllKinds, LinkPlaces,
          SendPlaces
    <3> QED BY <3>1 DEF LinkInv, Places, Threads
  <2>3. /\ after \in {"ended", "crashed", "backoff"} /\ made \in Nat
        /\ handle \in 0..made /\ dying \in 0..made /\ open \subseteq 1..made
    BY DEF LinkInv, Places, Handles
  <2>4. lock \in Threads \cup {NoOne} /\ wire \in Seq(Threads)
    <3>1. lock \in Threads \cup {NoOne} /\ wire = IF lock = NoOne THEN << >> ELSE <<lock>>
      BY DEF LinkInv, Locking
    <3> QED BY <3>1
  <2>5. /\ due \subseteq Tasks /\ todo \subseteq Tasks /\ failed \subseteq Tasks
        /\ read \in Nat \ {0} /\ got \in BOOLEAN /\ socket \in BOOLEAN
    BY DEF PassInv
  <2>6. task \in 0..Len(Declared)
    <3>1. task = 0 \/ task \in Devices
      BY TasksAreDevices DEF PassInv
    <3> QED BY <3>1, LinkAssumption DEF Devices
  <2>7. /\ held \in [Algorithms -> 0..made] /\ connected \subseteq Devices
        /\ delay \in 1..MaxBackoff /\ restarts \in 0..MaxRestarts
    BY DEF SettingInv
  <2>8. /\ line \in 1..(InitCommands + 1) /\ count \in 0..MaxUplinks
        /\ accepted \in [Devices -> Seq([uplink : Uplinks, count : 0..MaxUplinks])]
    BY DEF RadioInv
  <2>9. /\ time \in 1..MaxTime /\ last \in 0..time /\ interval \in Intervals
        /\ noted \in [Algorithms -> 0..time] /\ previous \in [Algorithms -> 0..time]
        /\ issued \in [Algorithms -> 0..MaxCommands]
        /\ queue \in Seq([from : Algorithms, number : 1..MaxCommands])
    BY DEF DownlinkInv
  <2> HIDE DEF FieldInv
  <2>10. {due, todo, failed} \in SUBSET (SUBSET Tasks) /\ {got, socket} \subseteq BOOLEAN
         /\ {handle, dying} \subseteq 0..made /\ {noted, previous} \subseteq [Algorithms -> 0..time]
    BY <2>3, <2>5, <2>9
  <2> QED BY <2>1, <2>2, <2>3, <2>4, <2>5, <2>6, <2>7, <2>8, <2>9, <2>10 DEF TypeOK
<1> QED BY <1>1, FieldLinksInductive, PTL

(* What a pass asks for was due when the pass began, and what is asked on  *)
(* the Modbus socket is a register that the device declares (_poll_device, *)
(* _read_device), for any devices and any registers.                       *)
AsksForItsOwn ==
  /\ todo \subseteq due
  /\ kind = "modbus" /\ pc[Worker] = "exchange" => task \in todo /\ read \in 1..Reads(task)

THEOREM AsksForItsOwnHolds == Spec => []AsksForItsOwn
PROOF
<1>1. FieldInv => AsksForItsOwn
  BY DEF FieldInv, PassInv, Busy, Polls, AsksForItsOwn
<1> QED BY <1>1, FieldLinksInductive, PTL

---------------------------------------------------------------------------
(* What send() writes to a register. *)

(* Quotient and remainder. *)
LEMMA Divided ==
  ASSUME NEW n \in Int, NEW scale \in Nat \ {0}
  PROVE  /\ n \div scale \in Int
         /\ n % scale \in 0..(scale - 1)
         /\ n = scale * (n \div scale) + (n % scale)
BY SMTT(30)

LEMMA Distributed ==
  ASSUME NEW a \in Int, NEW b \in Int
  PROVE  a * (b + 1) = a * b + a
OBVIOUS

(* round() is within a half of the quotient, and even when it is half off. *)
LEMMA RoundsToNearest ==
  ASSUME NEW n \in Int, NEW scale \in Nat \ {0}
  PROVE  LET r == RoundHalfEven(n, scale)
             off == 2 * (scale * r - n)
         IN  /\ r \in Int
             /\ off \in -scale..scale
             /\ off \in {-scale, scale} => r % 2 = 0
<1> DEFINE whole == n \div scale
           m == n % scale
           p == scale * whole
           r == RoundHalfEven(n, scale)
<1>1. whole \in Int /\ m \in 0..(scale - 1) /\ p \in Int /\ n = p + m
  BY Divided
<1>2. r = IF 2 * m < scale \/ (2 * m = scale /\ whole % 2 = 0) THEN whole ELSE whole + 1
  BY DEF RoundHalfEven
<1>3. scale * (whole + 1) = p + scale
  BY <1>1, Distributed
<1>4. scale * whole = p
  OBVIOUS
<1>5. whole % 2 = 0 \/ (whole + 1) % 2 = 0
  BY <1>1
<1> HIDE DEF whole, m, p, r
<1>6. CASE r = whole
  <2>1. 2 * (scale * r - n) = 0 - 2 * m
    BY <1>1, <1>4, <1>6
  <2> QED BY <1>1, <1>2, <1>6, <2>1 DEF r
<1>7. CASE r = whole + 1
  <2>1. 2 * (scale * r - n) = 2 * scale - 2 * m
    BY <1>1, <1>3, <1>7
  <2> QED BY <1>1, <1>2, <1>5, <1>7, <2>1 DEF r
<1> QED BY <1>2, <1>6, <1>7

(* Multiples of scale that differ are at least scale apart. *)
LEMMA Apart ==
  ASSUME NEW a \in Int, NEW b \in Int, NEW scale \in Nat \ {0}, a < b
  PROVE  scale * a + scale <= scale * b
<1>1. PICK k \in Nat : b = a + 1 + k
  <2> b - a - 1 \in Nat /\ b = a + 1 + (b - a - 1)
    OBVIOUS
  <2> QED OBVIOUS
<1>2. scale * (a + 1 + k) = scale * a + scale + scale * k
  BY SMTT(30)
<1>3. scale * k \in Nat /\ scale * a \in Int
  BY SMTT(30)
<1> QED BY <1>1, <1>2, <1>3

(* What is a multiple of the scale is divided exactly. *)
LEMMA RoundsMultiples ==
  ASSUME NEW k \in Int, NEW scale \in Nat \ {0}
  PROVE  RoundHalfEven(scale * k, scale) = k
<1> DEFINE n == scale * k
           whole == n \div scale
           m == n % scale
           q == scale * whole
<1>1. n \in Int
  BY SMTT(30)
<1>2. whole \in Int /\ m \in 0..(scale - 1) /\ q \in Int /\ n = q + m
  <2> HIDE DEF n
  <2>1. whole \in Int /\ m \in 0..(scale - 1) /\ n = scale * whole + m
    BY <1>1, Divided
  <2> QED BY <2>1
<1>3. whole < k => q + scale <= n
  BY <1>2, Apart
<1>4. k < whole => n + scale <= q
  BY <1>2, Apart
<1>5. whole = k /\ m = 0
  <2> HIDE DEF n, whole, m, q
  <2>1. ~(whole < k) /\ ~(k < whole)
    BY <1>1, <1>2, <1>3, <1>4
  <2>2. whole = k
    BY <1>2, <2>1
  <2>3. q = n
    BY <2>2 DEF q, n
  <2> QED BY <1>1, <1>2, <2>2, <2>3
<1>6. 2 * m < scale
  BY <1>5
<1> QED BY <1>5, <1>6 DEF RoundHalfEven

(* The word that a numeric command writes to a register fits it, and is    *)
(* the setpoint over the scale to within half a unit, a half going to the  *)
(* even word: never what is left of a larger number.  A setpoint that is a *)
(* whole number of units, as what was read from the register is, goes out  *)
(* as exactly that word (_register_value, modbus_tcp.py: the scale is the  *)
(* inverse of the read path's).  For any whole scale and setpoint.         *)
THEOREM WordIsTheSetpoint ==
  ASSUME NEW scale \in Nat \ {0}, NEW signed \in BOOLEAN, NEW value \in Int, NEW on, NEW off
  PROVE  LET options == [scale |-> scale, signed |-> signed, on |-> on, off |-> off]
             word == RegisterValue([token |-> "number", value |-> value], options)
             error == 2 * (scale * word - value)
         IN  /\ word # NoWord =>
                  /\ Fits(word, signed) /\ error \in -scale..scale
                  /\ error \in {-scale, scale} => word % 2 = 0
             /\ \A k \in Int : Fits(k, signed) /\ value = scale * k => word = k
<1> DEFINE options == [scale |-> scale, signed |-> signed, on |-> on, off |-> off]
           word == RegisterValue([token |-> "number", value |-> value], options)
           r == RoundHalfEven(value, scale)
<1>1. word = IF Fits(r, signed) THEN r ELSE NoWord
  BY DEF RegisterValue
<1>2. word # NoWord => word = r /\ Fits(r, signed)
  BY <1>1, Zenon
<1>3. ASSUME NEW k \in Int, Fits(k, signed), value = scale * k PROVE word = k
  <2>1. r = k
    BY <1>3, RoundsMultiples
  <2> QED BY <1>1, <1>3, <2>1, Zenon
<1>4. /\ 2 * (scale * r - value) \in -scale..scale
      /\ 2 * (scale * r - value) \in {-scale, scale} => r % 2 = 0
  BY RoundsToNearest
<1> HIDE DEF r, word
<1>5. word # NoWord =>
        /\ Fits(word, signed) /\ 2 * (scale * word - value) \in -scale..scale
        /\ 2 * (scale * word - value) \in {-scale, scale} => word % 2 = 0
  BY <1>2, <1>4, Zenon
<1> QED BY <1>3, <1>5, Zenon DEF word, options
=============================================================================
