------------------------ MODULE HomeAssistantSession ------------------------
(***************************************************************************)
(* connectors/home_assistant.py: one socket to Home Assistant, on which the *)
(* connector's thread authenticates, subscribes, takes a snapshot and       *)
(* receives, while the algorithms' threads write commands to it and main    *)
(* may stop it.                                                             *)
(*                                                                          *)
(* The server is external.  It is what the connector relies on: it answers  *)
(* the frames of one socket in order, and may go away, or go silent with    *)
(* the socket left open.  One watched entity stands for all of them; its    *)
(* state is the number of changes it went through.                          *)
(***************************************************************************)
EXTENDS Integers, Sequences

CONSTANTS
  Algorithms,      \* the threads that call send()
  MaxMissedPongs,  \* max_missed_pongs
  MaxSends,        \* BOUND: commands of each algorithm
  MaxSessions,     \* BOUND: connections the server accepts
  MaxQuiet,        \* BOUND: receive timeouts on a socket that is alive
  MaxChanges       \* BOUND: changes of the entity

Net == "connector"
Threads == Algorithms \cup {Net}

ASSUME SessionAssumption ==
  /\ Net \notin Algorithms /\ "nobody" \notin Threads
  /\ MaxMissedPongs \in Nat \ {0}
  /\ {MaxSends, MaxSessions, MaxQuiet, MaxChanges} \subseteq Nat

VARIABLES
  pc,          \* where each thread is
  frame,       \* the command a thread has given an id, until it is done with it
  lock,        \* who holds _send_lock
  nextId,      \* _next_id
  ws,          \* is _ws set?
  snapshotId,  \* _snapshot_id, 0 for None
  pending,     \* the ids in _pending
  missed,      \* of _receive_loop
  stopping, stopPc,  \* the stop event, and stop()
  view,        \* what the device shows
  link,        \* the socket
  toServer, toClient,  \* the frames on it
  phase, subscribed, answered, lastId,  \* the server's end of it
  house,       \* the entity
  made, sessions, quiet  \* counted for the bounds

ids     == <<lock, nextId>>
session == <<ws, snapshotId, pending, missed>>
stop    == <<stopping, stopPc>>
wire    == <<link, toServer, toClient>>
server  == <<phase, subscribed, answered, lastId>>
counts  == <<made, sessions, quiet>>
vars == <<pc, frame, ids, session, stop, view, wire, server, house, counts>>

NoFrame == [type |-> "none", id |-> 0]
Auth    == [type |-> "auth", id |-> 0]
Message(type, id, value) == [type |-> type, id |-> id, value |-> value]

Init ==
  /\ pc = [t \in Threads |-> IF t = Net THEN "top" ELSE "idle"]
  /\ frame = [t \in Threads |-> NoFrame] /\ lock = "nobody" /\ nextId = 1
  /\ ws = FALSE /\ snapshotId = 0 /\ pending = {} /\ missed = 0
  /\ stopping = FALSE /\ stopPc = "run" /\ view = -1
  /\ link = "none" /\ toServer = << >> /\ toClient = << >>
  /\ phase = "auth" /\ subscribed = FALSE /\ answered = FALSE /\ lastId = 0
  /\ house = 0 /\ made = [a \in Algorithms |-> 0] /\ sessions = 0 /\ quiet = 0

(* What the server holds of a connection ends with it. *)
Forget == phase' = "auth" /\ subscribed' = FALSE /\ answered' = FALSE /\ lastId' = 0

At(t, where) == pc[t] = where
Goto(t, where) == pc' = [pc EXCEPT ![t] = where]

---------------------------------------------------------------------------
(* _send_command: an id and the frame that carries it, under _send_lock. *)

(* Mutant: the lock covers the id and not the frame. *)
TakeId_Unlocked(t, type) ==
  /\ lock = "nobody" /\ ws /\ frame[t] = NoFrame
  /\ frame' = [frame EXCEPT ![t] = [type |-> type, id |-> nextId]]
  /\ nextId' = nextId + 1 /\ UNCHANGED lock

TakeId(t, type) ==
  /\ lock = "nobody" /\ ws /\ frame[t] = NoFrame
  /\ frame' = [frame EXCEPT ![t] = [type |-> type, id |-> nextId]]
  /\ nextId' = nextId + 1 /\ lock' = t

Release == lock' = "nobody" /\ UNCHANGED nextId

(* A socket whose other end is gone takes the frame all the same, or raises. *)
Write(f) == toServer' = IF link = "up" THEN Append(toServer, f) ELSE toServer

Writing(t) == frame[t] # NoFrame /\ pc[t] \in {"send", "subscribe", "snapshot", "ping"}
Writable == link \in {"up", "silent", "down"}

WriteRaises(t) ==
  /\ Writing(t) /\ link # "up" /\ Release
  /\ frame' = [frame EXCEPT ![t] = NoFrame]
  /\ Goto(t, IF t = Net THEN "teardown" ELSE "idle")
  /\ UNCHANGED <<session, stop, view, wire, server, house, counts>>

---------------------------------------------------------------------------
(* send(), on the thread of an algorithm.  Without a socket it only logs. *)

Send(a) ==
  /\ At(a, "idle") /\ made[a] < MaxSends /\ TakeId(a, "call")
  /\ made' = [made EXCEPT ![a] = @ + 1] /\ Goto(a, "send")
  /\ UNCHANGED <<session, stop, view, wire, server, house, sessions, quiet>>

WriteCall(a) ==
  /\ At(a, "send") /\ Writing(a) /\ Writable /\ Write(frame[a]) /\ Release
  /\ Goto(a, "file")
  /\ UNCHANGED <<frame, session, stop, view, link, toClient, server, house, counts>>

(* The command is filed after the lock that sent it was released. *)
FileCall(a) ==
  /\ At(a, "file") /\ pending' = pending \cup {frame[a].id}
  /\ frame' = [frame EXCEPT ![a] = NoFrame] /\ Goto(a, "idle")
  /\ UNCHANGED <<ids, ws, snapshotId, missed, stop, view, wire, server, house, counts>>

---------------------------------------------------------------------------
(* start(), on the connector's own thread. *)

Leave ==
  /\ At(Net, "top") /\ stopping /\ Goto(Net, "done")
  /\ UNCHANGED <<frame, ids, session, stop, view, wire, server, house, counts>>

Connect ==
  /\ At(Net, "top") /\ ~stopping /\ sessions < MaxSessions
  /\ link' = "up" /\ toServer' = << >> /\ toClient' = <<Message("auth_required", 0, 0)>>
  /\ sessions' = sessions + 1 /\ Goto(Net, "publish")
  /\ UNCHANGED <<frame, ids, session, stop, view, server, house, made, quiet>>

ConnectRaises ==
  /\ At(Net, "top") /\ ~stopping /\ Goto(Net, "teardown")
  /\ UNCHANGED <<frame, ids, session, stop, view, wire, server, house, counts>>

(* The socket is handed to send() before it is authenticated. *)
Publish ==
  /\ At(Net, "publish") /\ lock = "nobody" /\ ws' = TRUE /\ Goto(Net, "hello")
  /\ UNCHANGED <<frame, ids, snapshotId, pending, missed, stop, view, wire, server, house, counts>>

(* _expect: one message of the handshake. *)
Expect(where, type) ==
  /\ At(Net, where) /\ toClient # << >> /\ link # "aborted" /\ Head(toClient).type = type
  /\ toClient' = Tail(toClient)

Hello ==
  /\ Expect("hello", "auth_required") /\ Goto(Net, "auth")
  /\ UNCHANGED <<frame, ids, session, stop, view, link, toServer, server, house, counts>>

Authenticate ==
  /\ At(Net, "auth") /\ Writable /\ Write(Auth) /\ Goto(Net, "reply")
  /\ UNCHANGED <<frame, ids, session, stop, view, link, toClient, server, house, counts>>

Accepted ==
  /\ Expect("reply", "auth_ok") /\ Goto(Net, "subscribe")
  /\ UNCHANGED <<frame, ids, session, stop, view, link, toServer, server, house, counts>>

(* Permanent: start() returns, and does not connect again. *)
Rejected ==
  /\ Expect("reply", "auth_invalid") /\ Goto(Net, "rejected")
  /\ UNCHANGED <<frame, ids, session, stop, view, link, toServer, server, house, counts>>

(* The socket fails, or nothing arrives before its timeout. *)
HandshakeRaises ==
  /\ \/ pc[Net] \in {"hello", "reply"} /\ (link # "up" \/ toClient = << >>)
     \/ At(Net, "auth") /\ link # "up"
  /\ Goto(Net, "teardown")
  /\ UNCHANGED <<frame, ids, session, stop, view, wire, server, house, counts>>

(* Mutant: the snapshot is asked for first. *)
Opening_SnapshotFirst == [subscribe |-> "get_states", snapshot |-> "subscribe_events"]

(* _subscribe: what is sent at each of its two steps. *)
Opening == [subscribe |-> "subscribe_events", snapshot |-> "get_states"]

(* The loop of _receive_loop asks for the stop event at its head. *)
Again == IF stopping THEN "teardown" ELSE "receive"

Ask ==
  /\ \/ pc[Net] \in {"subscribe", "snapshot"} /\ TakeId(Net, Opening[pc[Net]])
     \/ At(Net, "ping") /\ TakeId(Net, "ping")
  /\ UNCHANGED <<pc, session, stop, view, wire, server, house, counts>>

WriteAsk ==
  /\ Writing(Net) /\ Writable /\ Write(frame[Net]) /\ Release
  /\ Goto(Net, IF At(Net, "subscribe") THEN "snapshot" ELSE Again)
  /\ snapshotId' = IF frame[Net].type = "get_states" THEN frame[Net].id ELSE snapshotId
  /\ missed' = IF At(Net, "snapshot") THEN 0 ELSE missed
  /\ frame' = [frame EXCEPT ![Net] = NoFrame]
  /\ UNCHANGED <<ws, pending, stop, view, link, toClient, server, house, counts>>

(* _handle_frame: an event or the snapshot is delivered; any result clears *)
(* its command.                                                            *)
Receive ==
  LET m == Head(toClient)
  IN  /\ At(Net, "receive") /\ toClient # << >> /\ link # "aborted"
      /\ toClient' = Tail(toClient) /\ missed' = 0 /\ Goto(Net, Again)
      /\ pending' = IF m.type = "result" THEN pending \ {m.id} ELSE pending
      /\ IF m.type = "result" /\ m.id = snapshotId
         THEN snapshotId' = 0 /\ view' = m.value
         ELSE UNCHANGED snapshotId /\ view' = IF m.type = "event" THEN m.value ELSE view
      /\ UNCHANGED <<frame, ids, ws, stop, link, toServer, server, house, counts>>

ReceiveRaises ==
  /\ At(Net, "receive") /\ link \in {"down", "aborted"} /\ Goto(Net, "teardown")
  /\ UNCHANGED <<frame, ids, session, stop, view, wire, server, house, counts>>

(* Mutant: silence is not counted. *)
Timeout_Patient ==
  /\ At(Net, "receive") /\ toClient = << >> /\ link \in {"up", "silent"}
  /\ stopping /\ Goto(Net, "teardown")
  /\ UNCHANGED <<frame, ids, session, stop, view, wire, server, house, counts>>

Dead(n) == n > MaxMissedPongs

(* Nothing arrived for receive_timeout: stop, give the socket up, or ping. *)
Timeout ==
  /\ At(Net, "receive") /\ toClient = << >> /\ link \in {"up", "silent"}
  /\ IF stopping
     THEN Goto(Net, "teardown") /\ UNCHANGED <<missed, quiet>>
     ELSE /\ missed' = missed + 1
          /\ link = "up" => quiet < MaxQuiet
          /\ quiet' = IF link = "up" THEN quiet + 1 ELSE quiet
          /\ Goto(Net, IF Dead(missed') THEN "teardown" ELSE "ping")
  /\ UNCHANGED <<frame, ids, ws, snapshotId, pending, stop, view, wire, server, house, made, sessions>>

(* _teardown: under the lock, so that no command is half written. *)
Teardown ==
  /\ pc[Net] \in {"teardown", "rejected"} /\ lock = "nobody"
  /\ ws' = FALSE /\ pending' = {} /\ snapshotId' = 0 /\ missed' = 0
  /\ link' = "none" /\ toServer' = << >> /\ toClient' = << >> /\ Forget
  /\ Goto(Net, IF At(Net, "rejected") THEN "done" ELSE "backoff")
  /\ UNCHANGED <<frame, ids, stop, view, house, counts>>

(* wait_stop(backoff): the delay passes, or the stop event ends it. *)
Backoff ==
  /\ At(Net, "backoff") /\ Goto(Net, IF stopping THEN "done" ELSE "top")
  /\ UNCHANGED <<frame, ids, session, stop, view, wire, server, house, counts>>

Session ==
  \/ Leave \/ Connect \/ ConnectRaises \/ Publish \/ Hello \/ Authenticate \/ Accepted
  \/ Rejected \/ HandshakeRaises \/ Ask \/ WriteAsk \/ WriteRaises(Net) \/ Receive
  \/ ReceiveRaises \/ Timeout \/ Teardown \/ Backoff

---------------------------------------------------------------------------
(* stop(), on the thread that stops the workers. *)

(* Mutant: stop() goes straight to the socket. *)
SetStop_Forgotten ==
  /\ stopPc = "run" /\ stopPc' = "abort" /\ UNCHANGED stopping
  /\ UNCHANGED <<pc, frame, ids, session, view, wire, server, house, counts>>

SetStop ==
  /\ stopPc = "run" /\ stopPc' = "abort" /\ stopping' = TRUE
  /\ UNCHANGED <<pc, frame, ids, session, view, wire, server, house, counts>>

(* _ws is read without the lock: the socket may be gone, or still to come. *)
Abort ==
  /\ stopPc = "abort" /\ stopPc' = "done"
  /\ IF ws
     THEN link' = "aborted" /\ toServer' = << >> /\ toClient' = << >> /\ Forget
     ELSE UNCHANGED <<wire, server>>
  /\ UNCHANGED <<pc, frame, ids, session, stopping, view, house, counts>>

---------------------------------------------------------------------------
(* Home Assistant. *)

Reply(m) == toClient' = Append(toClient, m)

(* The first frame must be the token, which may be wrong: anything else is *)
(* refused as well, with or without a reply.                               *)
CheckToken ==
  /\ link = "up" /\ phase = "auth" /\ toServer # << >> /\ toServer' = Tail(toServer)
  /\ \/ Head(toServer) = Auth /\ phase' = "command" /\ Reply(Message("auth_ok", 0, 0))
        /\ UNCHANGED link
     \/ link' = "down" /\ UNCHANGED phase
        /\ \/ Reply(Message("auth_invalid", 0, 0))
           \/ Head(toServer) # Auth /\ UNCHANGED toClient
  /\ UNCHANGED <<pc, frame, ids, session, stop, view, subscribed, answered, lastId, house, counts>>

Serve ==
  LET f == Head(toServer)
  IN  /\ link = "up" /\ phase = "command" /\ toServer # << >> /\ toServer' = Tail(toServer)
      /\ lastId' = f.id
      /\ subscribed' = (subscribed \/ f.type = "subscribe_events")
      /\ answered' = (answered \/ f.type = "get_states")
      /\ Reply(Message(IF f.type = "ping" THEN "pong" ELSE "result", f.id,
                       IF f.type = "get_states" THEN house ELSE 0))
      /\ UNCHANGED <<pc, frame, ids, session, stop, view, link, phase, house, counts>>

Change ==
  /\ house < MaxChanges /\ house' = house + 1
  /\ IF link = "up" /\ subscribed THEN Reply(Message("event", 0, house')) ELSE UNCHANGED toClient
  /\ UNCHANGED <<pc, frame, ids, session, stop, view, link, toServer, server, counts>>

(* The server goes away, or the network under an open socket does. *)
Drop ==
  /\ link = "up" /\ link' \in {"down", "silent"} /\ toServer' = << >> /\ Forget
  /\ UNCHANGED <<pc, frame, ids, session, stop, view, toClient, house, counts>>

Next ==
  \/ \E a \in Algorithms : Send(a) \/ WriteCall(a) \/ WriteRaises(a) \/ FileCall(a)
  \/ Session \/ SetStop \/ Abort
  \/ CheckToken \/ Serve \/ Change \/ Drop

Spec == Init /\ [][Next]_vars

(* The connector's thread and stop() go on, and so does a thread that holds *)
(* the lock: the timeout of the socket bounds a write as well as a read.    *)
FairSpec ==
  /\ Spec /\ WF_vars(Session) /\ WF_vars(Abort)
  /\ \A a \in Algorithms : WF_vars(WriteCall(a) \/ WriteRaises(a))

---------------------------------------------------------------------------
(* Properties. *)

Commands == {"call", "subscribe_events", "get_states", "ping"}
FrameTypes == [type : Commands \cup {"auth"}, id : Nat]
MessageTypes ==
  [type : {"auth_required", "auth_ok", "auth_invalid", "result", "event", "pong"},
   id : Nat, value : Nat]

(* Every variable stays within its type; in particular the connector never *)
(* waits through more than max_missed_pongs silences.                      *)
TypeOK ==
  /\ \A a \in Algorithms : pc[a] \in {"idle", "send", "file"}
  /\ pc[Net] \in {"top", "publish", "hello", "auth", "reply", "rejected", "subscribe",
                  "snapshot", "receive", "ping", "teardown", "backoff", "done"}
  /\ \A t \in Threads : frame[t] = NoFrame \/ frame[t] \in FrameTypes
  /\ lock \in Threads \cup {"nobody"} /\ nextId \in Nat \ {0}
  /\ ws \in BOOLEAN /\ snapshotId \in Nat /\ pending \subseteq 1..(nextId - 1)
  /\ missed \in 0..(MaxMissedPongs + 1) /\ stopping \in BOOLEAN
  /\ stopPc \in {"run", "abort", "done"} /\ view \in Nat \cup {-1}
  /\ link \in {"none", "up", "down", "silent", "aborted"}
  /\ toServer \in Seq(FrameTypes) /\ toClient \in Seq(MessageTypes)
  /\ phase \in {"auth", "command"} /\ {subscribed, answered} \subseteq BOOLEAN
  /\ lastId \in Nat /\ house \in Nat /\ made \in [Algorithms -> Nat]
  /\ sessions \in 0..MaxSessions /\ quiet \in 0..MaxQuiet

(* Home Assistant refuses a command whose id is not greater than the last  *)
(* it saw: whatever threads send at once, ids reach the wire in order.     *)
IdsIncrease ==
  \A k \in 1..Len(toServer) :
    toServer[k] # Auth =>
      /\ lastId < toServer[k].id
      /\ \A j \in 1..(k - 1) : toServer[j].id < toServer[k].id

Carries(m) == m.type = "event" \/ (m.type = "result" /\ m.id = snapshotId)

(* Subscribe first, then snapshot, is lossless: once the snapshot was      *)
(* taken, the newest of what the device shows and what is on its way to it *)
(* is the state of the entity, over any number of sessions.                *)
NoChangeLost ==
  answered /\ link = "up" =>
    IF \E k \in 1..Len(toClient) : Carries(toClient[k])
    THEN \E k \in 1..Len(toClient) :
           /\ Carries(toClient[k]) /\ toClient[k].value = house
           /\ \A j \in (k + 1)..Len(toClient) : ~Carries(toClient[j])
    ELSE view = house

(* No command is written to a socket whose token has not been sent: "ids   *)
(* exist only in the command phase" (_connect_and_authenticate).           *)
IdsOnlyInCommandPhase ==
  phase = "auth" =>
    \A k \in 1..Len(toServer) : toServer[k] # Auth => \E j \in 1..(k - 1) : toServer[j] = Auth

(* A socket that has gone silent is noticed and given up. *)
SilenceNoticed == link = "silent" ~> link # "silent"

(* A stop ends the session, wherever it finds it. *)
StopEnds == stopPc # "run" ~> pc[Net] = "done"
=============================================================================
