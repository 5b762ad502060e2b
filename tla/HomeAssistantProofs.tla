------------------------ MODULE HomeAssistantProofs ------------------------
(***************************************************************************)
(* Theorems about HomeAssistantSession, for any number of algorithms and   *)
(* any bounds.                                                             *)
(***************************************************************************)
EXTENDS HomeAssistantSession, SequenceTheorems, TLAPS

AlgorithmPlaces == {"idle", "send", "file"}
NetPlaces == {"top", "publish", "hello", "auth", "reply", "rejected", "subscribe", "snapshot",
              "receive", "ping", "teardown", "backoff", "done"}
Numbered == [type : Commands \cup {"none"}, id : Nat]

(* TypeOK, by the part of the program that writes the variables. *)
PlaceTypes ==
  /\ pc \in [Threads -> AlgorithmPlaces \cup NetPlaces]
  /\ \A a \in Algorithms : pc[a] \in AlgorithmPlaces
  /\ pc[Net] \in NetPlaces

CommandTypes ==
  /\ lock \in Threads \cup {"nobody"} /\ nextId \in Nat \ {0}
  /\ frame \in [Threads -> Numbered]
  /\ \A t \in Threads : frame[t] = NoFrame \/ (frame[t].type \in Commands /\ frame[t].id \in 1..(nextId - 1))

SessionTypes ==
  /\ ws \in BOOLEAN /\ snapshotId \in Nat /\ pending \subseteq 1..(nextId - 1)
  /\ missed \in 0..(MaxMissedPongs + 1)
  /\ pc[Net] \in {"receive", "ping"} => missed <= MaxMissedPongs

StopTypes == stopping \in BOOLEAN /\ stopPc \in {"run", "abort", "done"}

WireTypes ==
  /\ link \in {"none", "up", "down", "silent", "aborted"}
  /\ toServer \in Seq(FrameTypes) /\ toClient \in Seq(MessageTypes)

ServerTypes ==
  /\ phase \in {"auth", "command"} /\ subscribed \in BOOLEAN /\ answered \in BOOLEAN
  /\ lastId \in Nat /\ house \in Nat /\ view \in Nat \cup {-1}

CountTypes ==
  made \in [Algorithms -> Nat] /\ sessions \in 0..MaxSessions /\ quiet \in 0..MaxQuiet

(* send() files a command it was given an id for. *)
Filing == \A a \in Algorithms : pc[a] \in {"send", "file"} => frame[a] # NoFrame

Typed ==
  /\ PlaceTypes /\ CommandTypes /\ Filing /\ SessionTypes /\ StopTypes
  /\ WireTypes /\ ServerTypes /\ CountTypes

LEMMA TypedIsTypeOK == Typed => TypeOK
<1> SUFFICES ASSUME Typed PROVE TypeOK
  OBVIOUS
<1>1. \A t \in Threads : frame[t] = NoFrame \/ frame[t] \in FrameTypes
  BY DEF Typed, CommandTypes, FrameTypes, Numbered
<1>2. {subscribed, answered} \subseteq BOOLEAN
  BY DEF Typed, ServerTypes
<1> QED
  BY <1>1, <1>2 DEF Typed, PlaceTypes, CommandTypes, SessionTypes, StopTypes, WireTypes,
     ServerTypes, CountTypes, TypeOK, AlgorithmPlaces, NetPlaces

LEMMA TypedInit == Init => Typed
<1> SUFFICES ASSUME Init PROVE Typed
  OBVIOUS
<1>1. PlaceTypes
  BY SessionAssumption DEF Init, PlaceTypes, AlgorithmPlaces, NetPlaces, Threads, Net
<1>2. CommandTypes
  BY DEF Init, CommandTypes, Numbered, NoFrame
<1>3. SessionTypes /\ StopTypes
  <2>1. pc[Net] = "top"
    BY DEF Init, Threads
  <2>2. MaxMissedPongs \in Nat
    BY SessionAssumption
  <2>3. 0 \in 0..(MaxMissedPongs + 1)
    BY <2>2
  <2> QED BY <2>1, <2>3 DEF Init, SessionTypes, StopTypes
<1>4. WireTypes /\ ServerTypes
  <2>1. subscribed \in BOOLEAN /\ answered \in BOOLEAN
    BY DEF Init
  <2>2. view \in Nat \cup {-1}
    BY DEF Init
  <2>3. << >> \in Seq(FrameTypes) /\ << >> \in Seq(MessageTypes)
    OBVIOUS
  <2> QED BY <2>1, <2>2, <2>3 DEF Init, WireTypes, ServerTypes
<1>5. CountTypes
  BY SessionAssumption DEF Init, CountTypes
<1>6. Filing
  BY SessionAssumption DEF Init, Filing, Threads
<1> QED BY <1>1, <1>2, <1>3, <1>4, <1>5, <1>6 DEF Typed

(* A step of one thread, from where it was to where it goes. *)
LEMMA Move ==
  ASSUME PlaceTypes, NEW t \in Threads, NEW where, Goto(t, where),
         IF t = Net THEN where \in NetPlaces ELSE where \in AlgorithmPlaces
  PROVE  PlaceTypes' /\ pc'[t] = where
<1>1. where \in AlgorithmPlaces \cup NetPlaces
  OBVIOUS
<1>2. pc' \in [Threads -> AlgorithmPlaces \cup NetPlaces] /\ pc'[t] = where
  BY <1>1 DEF PlaceTypes, Goto
<1>3. \A u \in Threads \ {t} : pc'[u] = pc[u]
  BY DEF PlaceTypes, Goto
<1>4. Net \in Threads /\ Algorithms \subseteq Threads /\ Net \notin Algorithms
  BY SessionAssumption DEF Threads
<1> QED BY <1>2, <1>3, <1>4 DEF PlaceTypes

LEMMA Take ==
  ASSUME CommandTypes, NEW t \in Threads, NEW type \in Commands, TakeId(t, type)
  PROVE  CommandTypes'
<1>1. frame' \in [Threads -> Numbered]
  BY DEF CommandTypes, TakeId, Numbered
<1>2. nextId' \in Nat \ {0} /\ lock' \in Threads \cup {"nobody"}
  BY DEF CommandTypes, TakeId
<1>3. ASSUME NEW u \in Threads
      PROVE  frame'[u] = NoFrame \/ (frame'[u].type \in Commands /\ frame'[u].id \in 1..(nextId' - 1))
  <2>1. CASE u = t
    BY <2>1 DEF CommandTypes, TakeId
  <2>2. CASE u # t
    BY <2>2 DEF CommandTypes, TakeId
  <2> QED BY <2>1, <2>2
<1> QED BY <1>1, <1>2, <1>3 DEF CommandTypes

(* A thread that is done with its command. *)
LEMMA Finish ==
  ASSUME CommandTypes, NEW t \in Threads, frame' = [frame EXCEPT ![t] = NoFrame],
         nextId' = nextId, lock' \in {lock, "nobody"}
  PROVE  CommandTypes'
BY DEF CommandTypes, Numbered, NoFrame

(* The groups of variables a step does not touch keep their types. *)
LEMMA KeepCommands ==
  ASSUME CommandTypes, UNCHANGED <<frame, ids>> PROVE CommandTypes'
BY DEF CommandTypes, ids

LEMMA KeepSession ==
  ASSUME SessionTypes, nextId \in Nat, UNCHANGED session, nextId' \in {nextId, nextId + 1},
         pc'[Net] \in {"receive", "ping"} => missed <= MaxMissedPongs
  PROVE  SessionTypes'
<1>1. ASSUME NEW n \in 1..(nextId - 1) PROVE n \in 1..(nextId' - 1)
  <2>1. CASE nextId' = nextId
    BY <2>1, <1>1
  <2>2. CASE nextId' = nextId + 1
    BY <2>2, <1>1
  <2> QED BY <2>1, <2>2
<1> QED BY <1>1 DEF SessionTypes, session

LEMMA KeepStop ==
  ASSUME StopTypes, UNCHANGED stop PROVE StopTypes'
BY DEF StopTypes, stop

LEMMA KeepServer ==
  ASSUME ServerTypes, UNCHANGED <<server, house, view>> PROVE ServerTypes'
BY DEF ServerTypes, server

LEMMA KeepWire ==
  ASSUME WireTypes, UNCHANGED wire PROVE WireTypes'
BY DEF WireTypes, wire

LEMMA KeepCounts ==
  ASSUME CountTypes, UNCHANGED counts PROVE CountTypes'
BY DEF CountTypes, counts

(* A frame that has an id may be written. *)
LEMMA WriteFrame ==
  ASSUME WireTypes, NEW f \in FrameTypes, Write(f), UNCHANGED <<link, toClient>>
  PROVE  WireTypes'
BY DEF WireTypes, Write

(* What a received message leaves of the channel. *)
LEMMA TakeMessage ==
  ASSUME WireTypes, toClient # << >>, toClient' = Tail(toClient), UNCHANGED <<link, toServer>>
  PROVE  WireTypes' /\ Head(toClient) \in MessageTypes
<1>1. toClient \in Seq(MessageTypes) /\ toClient # << >>
  BY DEF WireTypes
<1>2. Tail(toClient) \in Seq(MessageTypes) /\ Head(toClient) \in MessageTypes
  BY <1>1, HeadTailProperties
<1> QED BY <1>2 DEF WireTypes

LEMMA OwnFrame ==
  ASSUME CommandTypes, NEW t \in Threads, Writing(t)
  PROVE  frame[t] \in FrameTypes /\ frame[t].type \in Commands /\ frame[t].id \in 1..(nextId - 1)
BY DEF CommandTypes, Writing, Numbered, FrameTypes

LEMMA AlgorithmTyped ==
  ASSUME Typed, NEW a \in Algorithms, Send(a) \/ WriteCall(a) \/ WriteRaises(a) \/ FileCall(a)
  PROVE  Typed'
<1>0. a \in Threads /\ a # Net /\ nextId \in Nat
  BY SessionAssumption DEF Threads, Typed, CommandTypes
<1>1. PlaceTypes'
  <2>1. \E where \in AlgorithmPlaces : Goto(a, where)
    BY <1>0 DEF Send, WriteCall, WriteRaises, FileCall, AlgorithmPlaces
  <2> QED BY <2>1, <1>0, Move DEF Typed
<1>2. pc'[Net] = pc[Net]
  BY <1>0 DEF Send, WriteCall, WriteRaises, FileCall, Goto, Typed, PlaceTypes, Threads
<1>3. CommandTypes'
  <2>1. CASE Send(a)
    BY <2>1, <1>0, Take DEF Send, Typed, Commands
  <2>2. CASE WriteCall(a)
    BY <2>2 DEF WriteCall, Release, Typed, CommandTypes
  <2>3. CASE WriteRaises(a)
    BY <2>3, <1>0, Finish DEF WriteRaises, Release, Typed
  <2>4. CASE FileCall(a)
    BY <2>4, <1>0, Finish DEF FileCall, ids, Typed
  <2> QED BY <2>1, <2>2, <2>3, <2>4
<1>4. SessionTypes'
  <2>1. CASE ~FileCall(a)
    <3>1. UNCHANGED session /\ nextId' \in {nextId, nextId + 1}
      BY <2>1 DEF Send, WriteCall, WriteRaises, Release, TakeId
    <3> QED BY <3>1, <1>0, <1>2, KeepSession DEF Typed, SessionTypes
  <2>2. CASE FileCall(a)
    <3>1. frame[a].id \in 1..(nextId - 1)
      BY <2>2, <1>0 DEF Typed, CommandTypes, FileCall, Filing, At
    <3> QED BY <2>2, <3>1, <1>2 DEF FileCall, Typed, SessionTypes, ids
  <2> QED BY <2>1, <2>2
<1>5. StopTypes' /\ ServerTypes'
  BY KeepStop, KeepServer DEF Typed, Send, WriteCall, WriteRaises, FileCall
<1>6. WireTypes'
  <2>1. CASE WriteCall(a)
    BY <2>1, <1>0, OwnFrame, WriteFrame DEF WriteCall, Typed
  <2>2. CASE ~WriteCall(a)
    BY <2>2, KeepWire DEF Typed, Send, WriteRaises, FileCall
  <2> QED BY <2>1, <2>2
<1>7. CountTypes'
  <2>1. CASE Send(a)
    BY <2>1 DEF Send, Typed, CountTypes
  <2>2. CASE ~Send(a)
    BY <2>2, KeepCounts DEF Typed, WriteCall, WriteRaises, FileCall
  <2> QED BY <2>1, <2>2
<1>8. Filing'
  <2>1. frame \in [Threads -> Numbered] /\ pc \in [Threads -> AlgorithmPlaces \cup NetPlaces]
    BY DEF Typed, CommandTypes, PlaceTypes
  <2>2. \A b \in Algorithms \ {a} : pc'[b] = pc[b] /\ frame'[b] = frame[b]
    BY <2>1, <1>0 DEF Send, WriteCall, WriteRaises, FileCall, Goto, TakeId, Threads
  <2>3. pc'[a] \in {"send", "file"} => frame'[a] # NoFrame
    <3>1. CASE Send(a)
      <4>1. frame'[a].id = nextId /\ nextId # 0
        BY <3>1, <2>1, <1>0 DEF Send, TakeId, Typed, CommandTypes
      <4> QED BY <4>1 DEF NoFrame
    <3>2. CASE WriteCall(a)
      BY <3>2 DEF WriteCall, Writing
    <3>3. CASE WriteRaises(a) \/ FileCall(a)
      BY <3>3, <2>1, <1>0 DEF WriteRaises, FileCall, Goto
    <3> QED BY <3>1, <3>2, <3>3
  <2> QED BY <2>2, <2>3 DEF Typed, Filing
<1> QED BY <1>1, <1>3, <1>4, <1>5, <1>6, <1>7, <1>8 DEF Typed

LEMMA KeepFiling ==
  ASSUME Typed, UNCHANGED frame, NEW where, Goto(Net, where) PROVE Filing'
<1>1. \A a \in Algorithms : pc'[a] = pc[a]
  BY SessionAssumption DEF Goto, Typed, PlaceTypes, Threads
<1> QED BY <1>1 DEF Typed, Filing

(* The steps of the connector's thread that write no command and wait for  *)
(* no frame of the session.                                                *)
LEMMA NetMove ==
  ASSUME Typed, NEW where \in NetPlaces \ {"receive", "ping"}, Goto(Net, where),
         UNCHANGED <<frame, ids, snapshotId, pending, missed>>, ws' \in BOOLEAN
  PROVE  PlaceTypes' /\ CommandTypes' /\ Filing' /\ SessionTypes'
<1>1. PlaceTypes' /\ pc'[Net] = where
  BY Move DEF Typed, Threads
<1>2. CommandTypes' /\ Filing'
  BY KeepCommands, KeepFiling DEF Typed
<1>3. SessionTypes'
  BY <1>1 DEF Typed, SessionTypes, ids
<1> QED BY <1>1, <1>2, <1>3

LEMMA HandshakeTyped ==
  ASSUME Typed,
         \/ Leave \/ Connect \/ ConnectRaises \/ Publish \/ Hello \/ Authenticate \/ Accepted
         \/ Rejected \/ HandshakeRaises \/ ReceiveRaises \/ Backoff
  PROVE  Typed'
<1>1. PlaceTypes' /\ CommandTypes' /\ Filing' /\ SessionTypes'
  <2>1. ws \in BOOLEAN
    BY DEF Typed, SessionTypes
  <2>2. /\ \E where \in NetPlaces \ {"receive", "ping"} : Goto(Net, where)
        /\ UNCHANGED <<frame, ids, snapshotId, pending, missed>>
    BY DEF NetPlaces, session, Leave, Connect, ConnectRaises, Publish, Hello, Authenticate,
           Accepted, Rejected, HandshakeRaises, ReceiveRaises, Backoff
  <2>3. ws' \in BOOLEAN
    BY <2>1 DEF session, Leave, Connect, ConnectRaises, Publish, Hello, Authenticate,
           Accepted, Rejected, HandshakeRaises, ReceiveRaises, Backoff
  <2> QED BY <2>2, <2>3, NetMove
<1>2. StopTypes' /\ ServerTypes'
  BY KeepStop, KeepServer DEF Typed, Leave, Connect, ConnectRaises, Publish, Hello, Authenticate,
     Accepted, Rejected, HandshakeRaises, ReceiveRaises, Backoff
<1>3. WireTypes'
  <2>1. CASE Connect
    <3>1. Message("auth_required", 0, 0) \in MessageTypes
      BY DEF Message, MessageTypes
    <3>2. << >> \in Seq(FrameTypes) /\ <<Message("auth_required", 0, 0)>> \in Seq(MessageTypes)
      BY <3>1
    <3> QED BY <2>1, <3>2 DEF Connect, WireTypes
  <2>2. CASE Hello \/ Accepted \/ Rejected
    BY <2>2, TakeMessage DEF Hello, Accepted, Rejected, Expect, Typed
  <2>3. CASE Authenticate
    <3>1. Auth \in FrameTypes
      BY DEF Auth, FrameTypes
    <3> QED BY <2>3, <3>1, WriteFrame DEF Authenticate, Typed
  <2>4. CASE Leave \/ ConnectRaises \/ Publish \/ HandshakeRaises \/ ReceiveRaises \/ Backoff
    BY <2>4, KeepWire DEF Typed, Leave, ConnectRaises, Publish, HandshakeRaises, ReceiveRaises,
       Backoff
  <2> QED BY <2>1, <2>2, <2>3, <2>4
<1>4. CountTypes'
  <2>1. CASE Connect
    BY <2>1, SessionAssumption DEF Connect, Typed, CountTypes
  <2>2. CASE ~Connect
    BY <2>2, KeepCounts DEF Typed, Leave, ConnectRaises, Publish, Hello, Authenticate,
       Accepted, Rejected, HandshakeRaises, ReceiveRaises, Backoff
  <2> QED BY <2>1, <2>2
<1> QED BY <1>1, <1>2, <1>3, <1>4 DEF Typed

LEMMA NetThread == Net \in Threads /\ Net \notin Algorithms
BY SessionAssumption DEF Threads

(* The session's own commands. *)
LEMMA AskTyped ==
  ASSUME Typed, Ask \/ WriteAsk \/ WriteRaises(Net)
  PROVE  Typed'
<1>0. nextId \in Nat /\ MaxMissedPongs \in Nat
  BY SessionAssumption DEF Typed, CommandTypes
<1>1. PlaceTypes'
  <2>1. CASE Ask
    BY <2>1 DEF Ask, Typed, PlaceTypes
  <2>2. CASE WriteAsk
    <3>1. \E where \in NetPlaces : Goto(Net, where)
      BY <2>2 DEF WriteAsk, NetPlaces, Again
    <3> QED BY <3>1, NetThread, Move DEF Typed
  <2>3. CASE WriteRaises(Net)
    BY <2>3, NetThread, Move DEF WriteRaises, NetPlaces, Typed
  <2> QED BY <2>1, <2>2, <2>3
<1>2. CommandTypes'
  <2>1. CASE Ask
    <3>1. \E type \in Commands : TakeId(Net, type)
      BY <2>1 DEF Ask, Opening, Commands
    <3> QED BY <3>1, NetThread, Take DEF Typed
  <2>2. CASE WriteAsk \/ WriteRaises(Net)
    BY <2>2, NetThread, Finish DEF WriteAsk, WriteRaises, Release, Typed
  <2> QED BY <2>1, <2>2
<1>3. Filing'
  <2>1. \A a \in Algorithms : pc'[a] = pc[a]
    BY NetThread DEF Ask, WriteAsk, WriteRaises, Goto, Typed, PlaceTypes, Threads
  <2>2. frame \in [Threads -> Numbered]
    BY DEF Typed, CommandTypes
  <2>3. \A a \in Algorithms : frame'[a] = frame[a]
    BY <2>2, NetThread DEF Ask, WriteAsk, WriteRaises, TakeId, Threads
  <2> QED BY <2>1, <2>3 DEF Typed, Filing
<1>4. SessionTypes'
  <2>1. CASE Ask
    <3>1. UNCHANGED session /\ nextId' = nextId + 1 /\ pc' = pc
      BY <2>1 DEF Ask, TakeId
    <3> QED BY <3>1, <1>0, KeepSession DEF Typed, SessionTypes
  <2>2. CASE WriteAsk
    <3>1. snapshotId' \in Nat
      BY <2>2, NetThread DEF WriteAsk, Typed, CommandTypes, SessionTypes, Numbered
    <3>2. missed' \in 0..(MaxMissedPongs + 1) /\ (~At(Net, "subscribe") => missed' <= MaxMissedPongs)
      <4>1. CASE At(Net, "snapshot")
        BY <4>1, <2>2, <1>0 DEF WriteAsk
      <4>2. CASE ~At(Net, "snapshot")
        BY <4>2, <2>2, SessionAssumption, NetThread
        DEF WriteAsk, Writing, At, Typed, SessionTypes, PlaceTypes, NetPlaces
      <4> QED BY <4>1, <4>2
    <3>3. pc'[Net] \in {"receive", "ping"} => ~At(Net, "subscribe")
      BY <2>2, NetThread DEF WriteAsk, Goto, At, Typed, PlaceTypes
    <3> QED BY <2>2, <3>1, <3>2, <3>3 DEF WriteAsk, Release, Typed, SessionTypes
  <2>3. CASE WriteRaises(Net)
    <3>1. pc'[Net] = "teardown"
      BY <2>3, NetThread DEF WriteRaises, Goto, Typed, PlaceTypes
    <3> QED BY <2>3, <3>1, <1>0, KeepSession DEF WriteRaises, Release, Typed
  <2> QED BY <2>1, <2>2, <2>3
<1>5. StopTypes' /\ ServerTypes' /\ CountTypes'
  BY KeepStop, KeepServer, KeepCounts DEF Typed, Ask, WriteAsk, WriteRaises
<1>6. WireTypes'
  <2>1. CASE WriteAsk
    BY <2>1, NetThread, OwnFrame, WriteFrame DEF WriteAsk, Typed
  <2>2. CASE ~WriteAsk
    BY <2>2, KeepWire DEF Typed, Ask, WriteRaises
  <2> QED BY <2>1, <2>2
<1> QED BY <1>1, <1>2, <1>3, <1>4, <1>5, <1>6 DEF Typed

(* What the session receives, or waits for in vain, and its end. *)
LEMMA ReceiveTyped ==
  ASSUME Typed, Receive \/ Timeout \/ Teardown
  PROVE  Typed'
<1>0. nextId \in Nat /\ MaxMissedPongs \in Nat
  BY SessionAssumption DEF Typed, CommandTypes
<1>1. PlaceTypes'
  <2>1. \E where \in NetPlaces : Goto(Net, where)
    BY DEF Receive, Timeout, Teardown, NetPlaces, Again
  <2> QED BY <2>1, NetThread, Move DEF Typed
<1>2. CommandTypes'
  BY KeepCommands DEF Typed, Receive, Timeout, Teardown
<1>3. Filing'
  BY KeepFiling DEF Receive, Timeout, Teardown
<1>4. Receive => Head(toClient) \in MessageTypes /\ WireTypes'
  BY TakeMessage DEF Receive, Typed
<1>5. SessionTypes'
  <2>1. CASE Receive
    <3>1. snapshotId' \in Nat /\ pending' \subseteq pending /\ missed' = 0 /\ nextId' = nextId /\ ws' = ws
      BY <2>1 DEF Receive, Typed, SessionTypes, ids
    <3> QED BY <3>1, <1>0 DEF Typed, SessionTypes
  <2>2. CASE Timeout
    <3>1. CASE stopping
      <4>1. pc'[Net] = "teardown" /\ UNCHANGED session /\ nextId' = nextId
        BY <2>2, <3>1, NetThread DEF Timeout, Goto, Typed, PlaceTypes, session, ids
      <4> QED BY <4>1, <1>0, KeepSession DEF Typed
    <3>2. CASE ~stopping
      <4>1. missed' = missed + 1 /\ missed \in Nat /\ missed <= MaxMissedPongs
        BY <2>2, <3>2, SessionAssumption DEF Timeout, At, Typed, SessionTypes
      <4>2. pc'[Net] \in {"receive", "ping"} => ~(missed' > MaxMissedPongs)
        BY <2>2, <3>2, NetThread DEF Timeout, Goto, Dead, Typed, PlaceTypes
      <4>3. ws' = ws /\ snapshotId' = snapshotId /\ pending' = pending /\ nextId' = nextId
        BY <2>2 DEF Timeout, ids
      <4> QED BY <4>1, <4>2, <4>3, <1>0 DEF Typed, SessionTypes
    <3> QED BY <3>1, <3>2
  <2>3. CASE Teardown
    <3>1. ws' = FALSE /\ pending' = {} /\ snapshotId' = 0 /\ missed' = 0
      BY <2>3 DEF Teardown
    <3>2. ws' \in BOOLEAN
      BY <3>1
    <3>3. 0 \in 0..(MaxMissedPongs + 1) /\ 0 <= MaxMissedPongs
      BY <1>0
    <3> QED BY <3>1, <3>2, <3>3 DEF SessionTypes
  <2> QED BY <2>1, <2>2, <2>3
<1>6. StopTypes'
  BY KeepStop DEF Typed, Receive, Timeout, Teardown
<1>7. ServerTypes'
  <2>1. CASE Receive
    BY <2>1, <1>4 DEF Receive, Typed, ServerTypes, server, MessageTypes
  <2>2. CASE Timeout
    BY <2>2, KeepServer DEF Timeout, Typed
  <2>3. CASE Teardown
    BY <2>3 DEF Teardown, Forget, Typed, ServerTypes
  <2> QED BY <2>1, <2>2, <2>3
<1>8. WireTypes'
  <2>1. CASE Timeout
    BY <2>1, KeepWire DEF Timeout, Typed
  <2>2. CASE Teardown
    BY <2>2 DEF Teardown, WireTypes
  <2> QED BY <2>1, <2>2, <1>4
<1>9. CountTypes'
  <2>1. CASE Timeout
    BY <2>1, SessionAssumption DEF Timeout, Typed, CountTypes, WireTypes
  <2>2. CASE ~Timeout
    BY <2>2, KeepCounts DEF Typed, Receive, Teardown
  <2> QED BY <2>1, <2>2
<1> QED BY <1>1, <1>2, <1>3, <1>5, <1>6, <1>7, <1>8, <1>9 DEF Typed

(* stop(), and the world outside. *)
LEMMA OutsideTyped ==
  ASSUME Typed, SetStop \/ Abort \/ CheckToken \/ Serve \/ Change \/ Drop
  PROVE  Typed'
<1>1. UNCHANGED <<pc, frame, ids, session, counts>>
  BY DEF SetStop, Abort, CheckToken, Serve, Change, Drop
<1>2. PlaceTypes' /\ CommandTypes' /\ Filing' /\ SessionTypes' /\ CountTypes'
  <2>1. PlaceTypes' /\ Filing'
    BY <1>1 DEF Typed, PlaceTypes, Filing
  <2>2. CommandTypes' /\ CountTypes'
    BY <1>1, KeepCommands, KeepCounts DEF Typed
  <2>3. SessionTypes'
    BY <1>1 DEF Typed, SessionTypes, session, ids
  <2> QED BY <2>1, <2>2, <2>3
<1>3. StopTypes'
  <2>1. CASE SetStop
    BY <2>1 DEF SetStop, StopTypes
  <2>2. CASE Abort
    BY <2>2 DEF Abort, Typed, StopTypes
  <2>3. CASE CheckToken \/ Serve \/ Change \/ Drop
    BY <2>3, KeepStop DEF CheckToken, Serve, Change, Drop, Typed
  <2> QED BY <2>1, <2>2, <2>3
<1>4. toServer' \in Seq(FrameTypes)
  <2>1. toServer \in Seq(FrameTypes)
    BY DEF Typed, WireTypes
  <2>2. CASE CheckToken \/ Serve
    <3>1. toServer # << >> /\ toServer' = Tail(toServer)
      BY <2>2 DEF CheckToken, Serve
    <3> QED BY <3>1, <2>1, HeadTailProperties
  <2>3. CASE ~(CheckToken \/ Serve)
    <3>1. toServer' \in {toServer, << >>}
      BY <2>3 DEF SetStop, Abort, Change, Drop, wire
    <3>2. << >> \in Seq(FrameTypes)
      OBVIOUS
    <3> QED BY <3>1, <3>2, <2>1, Zenon
  <2> QED BY <2>2, <2>3
<1>5. toClient' \in Seq(MessageTypes)
  <2>1. toClient \in Seq(MessageTypes)
    BY DEF Typed, WireTypes
  <2>2. CASE CheckToken
    <3>1. Message("auth_ok", 0, 0) \in MessageTypes /\ Message("auth_invalid", 0, 0) \in MessageTypes
      BY DEF Message, MessageTypes
    <3>2. \/ toClient' = toClient
          \/ toClient' = Append(toClient, Message("auth_ok", 0, 0))
          \/ toClient' = Append(toClient, Message("auth_invalid", 0, 0))
      BY <2>2 DEF CheckToken, Reply
    <3>3. \A m \in MessageTypes : Append(toClient, m) \in Seq(MessageTypes)
      BY <2>1
    <3> QED BY <2>1, <3>1, <3>2, <3>3, Zenon
  <2>3. CASE Serve
    <3>1. Head(toServer).id \in Nat /\ house \in Nat
      <4>1. toServer # << >> /\ toServer \in Seq(FrameTypes)
        BY <2>3 DEF Serve, Typed, WireTypes
      <4>2. Head(toServer) \in FrameTypes
        BY <4>1, HeadTailProperties
      <4> QED BY <4>2 DEF FrameTypes, Typed, ServerTypes
    <3>2. \E m \in MessageTypes : toClient' = Append(toClient, m)
      BY <2>3, <3>1 DEF Serve, Reply, Message, MessageTypes
    <3> QED BY <3>2, <2>1
  <2>4. CASE Change
    <3>1. Message("event", 0, house') \in MessageTypes
      BY <2>4 DEF Change, Message, MessageTypes, Typed, ServerTypes
    <3> QED BY <2>1, <2>4, <3>1 DEF Change, Reply
  <2>5. CASE SetStop \/ Abort \/ Drop
    <3>1. toClient' \in {toClient, << >>}
      BY <2>5 DEF SetStop, Abort, Drop, wire
    <3>2. << >> \in Seq(MessageTypes)
      OBVIOUS
    <3> QED BY <3>1, <3>2, <2>1, Zenon
  <2> QED BY <2>2, <2>3, <2>4, <2>5
<1>6. WireTypes'
  <2>1. link' \in {"none", "up", "down", "silent", "aborted"}
    BY DEF Typed, WireTypes, SetStop, Abort, CheckToken, Serve, Change, Drop, wire
  <2> QED BY <2>1, <1>4, <1>5 DEF WireTypes
<1>7. ServerTypes'
  <2>1. CASE Abort \/ Drop
    <3>1. UNCHANGED server \/ Forget
      BY <2>1 DEF Abort, Drop
    <3>2. UNCHANGED <<house, view>>
      BY <2>1 DEF Abort, Drop
    <3>3. CASE Forget
      BY <3>2, <3>3 DEF Forget, Typed, ServerTypes
    <3> QED BY <3>1, <3>2, <3>3, KeepServer DEF Typed
  <2>2. CASE Serve
    <3>1. lastId' \in Nat
      <4>1. toServer # << >> /\ toServer \in Seq(FrameTypes)
        BY <2>2 DEF Serve, Typed, WireTypes
      <4>2. Head(toServer) \in FrameTypes
        BY <4>1, HeadTailProperties
      <4> QED BY <4>2, <2>2 DEF FrameTypes, Serve
    <3>2. subscribed' \in BOOLEAN /\ answered' \in BOOLEAN
      BY <2>2 DEF Serve
    <3> QED BY <2>2, <3>1, <3>2 DEF Serve, Typed, ServerTypes
  <2>3. CASE CheckToken
    BY <2>3 DEF CheckToken, Typed, ServerTypes
  <2>4. CASE Change
    BY <2>4 DEF Change, Typed, ServerTypes, server
  <2>5. CASE SetStop
    BY <2>5, KeepServer DEF SetStop, Typed
  <2> QED BY <2>1, <2>2, <2>3, <2>4, <2>5
<1> QED BY <1>2, <1>3, <1>6, <1>7 DEF Typed

LEMMA TypedStep == Typed /\ [Next]_vars => Typed'
<1> SUFFICES ASSUME Typed, [Next]_vars PROVE Typed'
  OBVIOUS
<1>1. CASE Next
  BY <1>1, AlgorithmTyped, HandshakeTyped, AskTyped, ReceiveTyped, OutsideTyped
  DEF Next, Session
<1>2. CASE UNCHANGED vars
  <2>1. UNCHANGED <<pc, frame, ids, session, stop, view, wire, server, house, counts>>
    BY <1>2 DEF vars
  <2>2. PlaceTypes' /\ Filing'
    BY <2>1 DEF Typed, PlaceTypes, Filing
  <2>3. SessionTypes'
    BY <2>1 DEF Typed, SessionTypes, session, ids
  <2> QED BY <2>1, <2>2, <2>3, KeepCommands, KeepStop, KeepServer, KeepWire, KeepCounts DEF Typed
<1> QED BY <1>1, <1>2

(* Every variable stays within its type, for any number of algorithms and  *)
(* any bounds: in particular a pong missed max_missed_pongs times ends the *)
(* session, and no name is filed under an id that was never allocated.     *)
THEOREM SessionTypeCorrect == Spec => []TypeOK
<1>1. Spec => []Typed
  BY TypedInit, TypedStep, PTL DEF Spec
<1> QED BY <1>1, TypedIsTypeOK, PTL

---------------------------------------------------------------------------
(* The order of ids. *)

Below(n) == \A k \in 1..Len(toServer) : toServer[k].id < n

(* A thread that has an id holds the lock until its frame is written. *)
OwnsLock ==
  /\ \A t \in Threads : frame[t] # NoFrame => lock = t \/ (t # Net /\ pc[t] = "file")
  /\ \A a \in Algorithms : lock = a => pc[a] = "send"

(* Nothing on the wire, and nothing the server saw, is as new as the next  *)
(* id, nor as the id of the thread that holds the lock.                    *)
Newest ==
  /\ lastId < nextId /\ Below(nextId)
  /\ lock \in Threads => lastId < frame[lock].id /\ Below(frame[lock].id)
  /\ \A k \in 1..Len(toServer) : toServer[k] # Auth => 0 < toServer[k].id

Numbering == OwnsLock /\ Newest /\ IdsIncrease

LEMMA Numbers ==
  ASSUME Typed
  PROVE  /\ lastId \in Nat /\ nextId \in Nat \ {0} /\ toServer \in Seq(FrameTypes)
         /\ \A k \in 1..Len(toServer) : toServer[k].id \in Nat
         /\ frame \in [Threads -> Numbered] /\ \A t \in Threads : frame[t].id \in Nat
         /\ pc \in [Threads -> AlgorithmPlaces \cup NetPlaces]
<1>1. toServer \in Seq(FrameTypes) /\ \A f \in FrameTypes : f.id \in Nat
  BY DEF Typed, WireTypes, FrameTypes
<1>2. \A k \in 1..Len(toServer) : toServer[k].id \in Nat
  BY <1>1
<1> QED BY <1>1, <1>2 DEF Typed, CommandTypes, ServerTypes, PlaceTypes, Numbered

(* A step that writes nothing, numbers nothing and moves no algorithm. *)
LEMMA Unnumbered ==
  ASSUME Typed, Numbering, UNCHANGED <<frame, ids, toServer, lastId>>,
         \A a \in Algorithms : pc'[a] = pc[a]
  PROVE  Numbering'
<1>1. OwnsLock'
  BY DEF Numbering, OwnsLock, ids, Threads
<1>2. Newest' /\ IdsIncrease'
  BY DEF Numbering, Newest, Below, IdsIncrease, ids
<1> QED BY <1>1, <1>2 DEF Numbering

(* A connection that is gone, or begins. *)
LEMMA Emptied ==
  ASSUME Typed, Numbering, UNCHANGED <<frame, ids>>, toServer' = << >>, lastId' \in {0, lastId},
         \A a \in Algorithms : pc'[a] = pc[a]
  PROVE  Numbering'
<1>1. OwnsLock'
  BY DEF Numbering, OwnsLock, ids, Threads
<1>2. IdsIncrease'
  BY DEF IdsIncrease
<1>3. Newest'
  <2>1. lastId' <= lastId /\ lastId' \in Nat
    BY Numbers
  <2>2. lastId' < nextId'
    BY <2>1, Numbers DEF Numbering, Newest, ids
  <2>3. lock' \in Threads => lastId' < frame'[lock'].id
    BY <2>1, Numbers DEF Numbering, Newest, ids
  <2> QED BY <2>2, <2>3 DEF Newest, Below
<1> QED BY <1>1, <1>2, <1>3 DEF Numbering

LEMMA Taken ==
  ASSUME Typed, Numbering, NEW t \in Threads, NEW type \in Commands, TakeId(t, type),
         UNCHANGED <<toServer, lastId>>, t # Net => pc'[t] = "send",
         \A a \in Algorithms \ {t} : pc'[a] = pc[a]
  PROVE  Numbering'
<1>1. /\ lock = "nobody" /\ lock' = t /\ nextId' = nextId + 1 /\ frame'[t].id = nextId
      /\ \A u \in Threads \ {t} : frame'[u] = frame[u]
  BY Numbers DEF TakeId
<1>2. "nobody" \notin Threads
  BY SessionAssumption
<1>3. OwnsLock'
  <2>1. ASSUME NEW u \in Threads, frame'[u] # NoFrame
        PROVE  lock' = u \/ (u # Net /\ pc'[u] = "file")
    <3>1. CASE u = t
      BY <1>1, <3>1
    <3>2. CASE u # t
      <4>1. u # Net /\ pc[u] = "file"
        BY <1>1, <1>2, <2>1, <3>2 DEF Numbering, OwnsLock
      <4>2. u \in Algorithms \ {t}
        BY <3>2, <4>1 DEF Threads
      <4> QED BY <4>1, <4>2
    <3> QED BY <3>1, <3>2
  <2>2. ASSUME NEW a \in Algorithms, lock' = a PROVE pc'[a] = "send"
    BY <1>1, <2>2, SessionAssumption
  <2> QED BY <2>1, <2>2 DEF OwnsLock
<1>4. IdsIncrease'
  BY DEF Numbering, IdsIncrease
<1>5. Newest'
  <2>1. \A k \in 1..Len(toServer) : toServer[k].id < nextId + 1
    BY Numbers DEF Numbering, Newest, Below
  <2> QED BY <1>1, <2>1, Numbers DEF Numbering, Newest, Below
<1> QED BY <1>3, <1>4, <1>5 DEF Numbering

(* The thread that holds the lock puts its frame on the wire, or loses it *)
(* with the connection.                                                   *)
LEMMA Written ==
  ASSUME Typed, Numbering, NEW t \in Threads, lock = t, frame[t] # NoFrame,
         toServer' \in {toServer, Append(toServer, frame[t])},
         UNCHANGED lastId, lock' = "nobody", UNCHANGED nextId,
         frame' \in {frame, [frame EXCEPT ![t] = NoFrame]},
         t # Net => pc'[t] = "file" \/ frame'[t] = NoFrame,
         t = Net => frame'[t] = NoFrame,
         \A a \in Algorithms \ {t} : pc'[a] = pc[a]
  PROVE  Numbering'
<1>1. "nobody" \notin Threads /\ "nobody" \notin Algorithms
  BY SessionAssumption DEF Threads
<1>2. /\ frame[t].id \in 1..(nextId - 1) /\ frame[t] \in FrameTypes /\ lastId < frame[t].id
      /\ Below(frame[t].id)
  BY DEF Typed, CommandTypes, FrameTypes, Numbered, Numbering, Newest
<1>3. OwnsLock'
  <2>1. ASSUME NEW u \in Threads, frame'[u] # NoFrame
        PROVE  u # Net /\ pc'[u] = "file"
    <3>1. CASE u = t
      BY <2>1, <3>1
    <3>2. CASE u # t
      <4>1. frame[u] # NoFrame
        BY <2>1, <3>2, Numbers
      <4>2. u # Net /\ pc[u] = "file"
        BY <3>2, <4>1 DEF Numbering, OwnsLock
      <4>3. u \in Algorithms \ {t}
        BY <3>2, <4>2 DEF Threads
      <4> QED BY <4>2, <4>3
    <3> QED BY <3>1, <3>2
  <2> QED BY <1>1, <2>1 DEF OwnsLock
<1>4. Newest' /\ IdsIncrease'
  <2>1. CASE toServer' = toServer
    <3>1. Newest'
      BY <1>1, <2>1 DEF Numbering, Newest, Below
    <3>2. IdsIncrease'
      BY <2>1 DEF Numbering, IdsIncrease
    <3> QED BY <3>1, <3>2
  <2>2. CASE toServer' = Append(toServer, frame[t])
    <3> DEFINE n == Len(toServer)
    <3>1. /\ n \in Nat /\ Len(toServer') = n + 1 /\ toServer'[n + 1] = frame[t]
          /\ \A k \in 1..n : toServer'[k] = toServer[k]
      BY <1>2, <2>2, Numbers
    <3>2. \A k \in 1..(n + 1) : k = n + 1 \/ k \in 1..n
      BY <3>1
    <3> HIDE DEF n
    <3>3. \A k \in 1..n : toServer[k].id \in Nat /\ toServer[k].id < frame[t].id
      BY <1>2, Numbers DEF Below, n
    <3>4. Newest'
      <4>1. Below(nextId)'
        <5> SUFFICES ASSUME NEW k \in 1..(n + 1) PROVE toServer'[k].id < nextId
          BY <3>1 DEF Below
        <5>1. nextId \in Nat /\ frame[t].id \in Nat /\ frame[t].id < nextId
          <6>1. nextId \in Nat
            BY Numbers
          <6> QED BY <1>2, <6>1
        <5>2. CASE k = n + 1
          BY <3>1, <5>1, <5>2
        <5>3. CASE k \in 1..n
          <6>1. toServer'[k] = toServer[k]
            BY <3>1, <5>3
          <6>2. toServer[k].id \in Nat /\ toServer[k].id < frame[t].id
            BY <3>3, <5>3
          <6> QED BY <5>1, <6>1, <6>2
        <5> QED BY <3>2, <5>2, <5>3
      <4>2. \A k \in 1..Len(toServer') : toServer'[k] # Auth => 0 < toServer'[k].id
        BY <1>2, <3>1, <3>2 DEF Numbering, Newest, n
      <4>3. lastId' < nextId'
        BY DEF Numbering, Newest
      <4> QED BY <1>1, <4>1, <4>2, <4>3 DEF Newest
    <3>5. IdsIncrease'
      <4> SUFFICES ASSUME NEW k \in 1..(n + 1), toServer'[k] # Auth
                   PROVE  /\ lastId < toServer'[k].id
                          /\ \A j \in 1..(k - 1) : toServer'[j].id < toServer'[k].id
        BY <3>1 DEF IdsIncrease
      <4>1. CASE k = n + 1
        BY <1>2, <3>1, <3>3, <4>1
      <4>2. CASE k \in 1..n
        <5>1. \A j \in 1..(k - 1) : j \in 1..n
          BY <3>1, <4>2
        <5> QED BY <3>1, <4>2, <5>1 DEF Numbering, IdsIncrease, n
      <4> QED BY <3>2, <4>1, <4>2
    <3> QED BY <3>4, <3>5
  <2> QED BY <2>1, <2>2
<1> QED BY <1>3, <1>4 DEF Numbering

(* The server takes a frame off the wire. *)
LEMMA Served ==
  ASSUME Typed, Numbering, toServer # << >>, toServer' = Tail(toServer),
         lastId' \in {lastId, Head(toServer).id}, UNCHANGED <<frame, ids, pc>>
  PROVE  Numbering'
<1>1. OwnsLock'
  BY DEF Numbering, OwnsLock, ids
<1> DEFINE n == Len(toServer)
<1>2. /\ n \in Nat \ {0} /\ Head(toServer) = toServer[1] /\ Len(toServer') = n - 1
      /\ \A k \in 1..(n - 1) : toServer'[k] = toServer[k + 1]
  BY Numbers, HeadTailProperties
<1> HIDE DEF n
<1>3. \A k \in 1..n : toServer[k].id \in Nat
  BY Numbers DEF n
<1>4. \A k \in 1..(n - 1) : k + 1 \in 1..n /\ k \in 1..n
  BY <1>2
<1>5. 1 \in 1..n
  BY <1>2
<1>6. Newest'
  <2>1. lastId' < nextId' /\ (lock' \in Threads => lastId' < frame'[lock'].id)
    <3>1. toServer[1].id < nextId /\ (lock \in Threads => toServer[1].id < frame[lock].id)
      BY <1>5 DEF Numbering, Newest, Below, n
    <3> QED BY <1>2, <3>1 DEF Numbering, Newest, ids
  <2>2. Below(nextId)' /\ (lock' \in Threads => Below(frame[lock].id)')
    <3>1. \A k \in 1..(n - 1) : toServer'[k].id < nextId
      BY <1>2, <1>4 DEF Numbering, Newest, Below, n
    <3>2. ASSUME lock \in Threads PROVE \A k \in 1..(n - 1) : toServer'[k].id < frame[lock].id
      BY <1>2, <1>4, <3>2 DEF Numbering, Newest, Below, n
    <3> QED BY <1>2, <3>1, <3>2 DEF Below, ids
  <2>3. \A k \in 1..Len(toServer') : toServer'[k] # Auth => 0 < toServer'[k].id
    BY <1>2, <1>4 DEF Numbering, Newest, n
  <2> QED BY <2>1, <2>2, <2>3 DEF Newest
<1>7. IdsIncrease'
  <2> SUFFICES ASSUME NEW k \in 1..(n - 1), toServer[k + 1] # Auth
               PROVE  /\ lastId' < toServer[k + 1].id
                      /\ \A j \in 1..(k - 1) : toServer'[j].id < toServer[k + 1].id
    BY <1>2 DEF IdsIncrease
  <2>1. /\ lastId < toServer[k + 1].id
        /\ \A j \in 1..k : toServer[j].id < toServer[k + 1].id
    <3>1. k + 1 \in 1..n /\ (k + 1) - 1 = k
      BY <1>2
    <3> QED BY <3>1 DEF Numbering, IdsIncrease, n
  <2>2. 1 \in 1..k /\ \A j \in 1..(k - 1) : j \in 1..(n - 1) /\ j + 1 \in 1..k
    BY <1>2
  <2> QED BY <1>2, <2>1, <2>2
<1> QED BY <1>1, <1>6, <1>7 DEF Numbering

(* The token has no id, and may follow anything. *)
LEMMA Introduced ==
  ASSUME Typed, Numbering, toServer' = Append(toServer, Auth),
         UNCHANGED <<frame, ids, lastId>>, \A a \in Algorithms : pc'[a] = pc[a]
  PROVE  Numbering'
<1>1. OwnsLock'
  BY DEF Numbering, OwnsLock, ids, Threads
<1> DEFINE n == Len(toServer)
<1>2. /\ n \in Nat /\ Len(toServer') = n + 1 /\ toServer'[n + 1] = Auth
      /\ \A k \in 1..n : toServer'[k] = toServer[k]
  <2>1. Auth \in FrameTypes
    BY DEF Auth, FrameTypes
  <2> QED BY <2>1, Numbers
<1> HIDE DEF n
<1>3. \A k \in 1..(n + 1) : k = n + 1 \/ k \in 1..n
  BY <1>2
<1>4. Auth.id = 0
  BY DEF Auth
<1>5. Newest'
  <2>1. Below(nextId)'
    <3> SUFFICES ASSUME NEW k \in 1..(n + 1) PROVE toServer'[k].id < nextId
      BY <1>2 DEF Below, ids
    <3>1. CASE k = n + 1
      <4>1. nextId \in Nat \ {0}
        BY Numbers
      <4> QED BY <1>2, <1>4, <3>1, <4>1
    <3>2. CASE k \in 1..n
      BY <1>2, <3>2 DEF Numbering, Newest, Below, n
    <3> QED BY <1>3, <3>1, <3>2
  <2>2. lock' \in Threads => lastId' < frame'[lock'].id /\ Below(frame[lock].id)'
    <3> SUFFICES ASSUME lock \in Threads PROVE lastId < frame[lock].id /\ Below(frame[lock].id)'
      BY DEF ids
    <3>1. lastId < frame[lock].id /\ Below(frame[lock].id)
      BY DEF Numbering, Newest
    <3>2. 0 < frame[lock].id
      BY <3>1, Numbers
    <3> QED BY <1>2, <1>3, <1>4, <3>1, <3>2 DEF Below, ids, n
  <2>3. \A k \in 1..Len(toServer') : toServer'[k] # Auth => 0 < toServer'[k].id
    BY <1>2, <1>3 DEF Numbering, Newest, n
  <2>4. lastId' < nextId'
    BY DEF Numbering, Newest, ids
  <2> QED BY <2>1, <2>2, <2>3, <2>4 DEF Newest
<1>6. IdsIncrease'
  <2> SUFFICES ASSUME NEW k \in 1..(n + 1), toServer'[k] # Auth
               PROVE  /\ lastId < toServer'[k].id
                      /\ \A j \in 1..(k - 1) : toServer'[j].id < toServer'[k].id
    BY <1>2 DEF IdsIncrease
  <2>1. k \in 1..n
    BY <1>2, <1>3
  <2>2. \A j \in 1..(k - 1) : j \in 1..n
    BY <1>2, <2>1
  <2> QED BY <1>2, <2>1, <2>2 DEF Numbering, IdsIncrease, n
<1> QED BY <1>1, <1>5, <1>6 DEF Numbering

LEMMA NumberingInit == Init => Numbering
<1> SUFFICES ASSUME Init PROVE Numbering
  OBVIOUS
<1>1. OwnsLock
  BY SessionAssumption DEF Init, OwnsLock, Threads
<1>2. Newest /\ IdsIncrease
  BY SessionAssumption DEF Init, Newest, Below, IdsIncrease
<1> QED BY <1>1, <1>2 DEF Numbering

(* Where a step of the connector's thread leaves the algorithms: where they *)
(* were.                                                                    *)
LEMMA NetMoves ==
  ASSUME Typed, NEW where, Goto(Net, where)
  PROVE  \A a \in Algorithms : pc'[a] = pc[a]
BY NetThread DEF Goto, Typed, PlaceTypes

LEMMA OwnMoves ==
  ASSUME Typed, NEW t \in Threads, NEW where, Goto(t, where)
  PROVE  pc'[t] = where /\ \A a \in Algorithms \ {t} : pc'[a] = pc[a]
BY DEF Goto, Typed, PlaceTypes, Threads

LEMMA AlgorithmNumbering ==
  ASSUME Typed, Numbering, NEW a \in Algorithms,
         Send(a) \/ WriteCall(a) \/ FileCall(a)
  PROVE  Numbering'
<1>1. a \in Threads /\ a # Net /\ "nobody" \notin Threads
  BY SessionAssumption DEF Threads
<1>2. CASE Send(a)
  <2>1. pc'[a] = "send" /\ \A b \in Algorithms \ {a} : pc'[b] = pc[b]
    BY <1>1, <1>2, OwnMoves DEF Send
  <2>2. TakeId(a, "call") /\ UNCHANGED <<toServer, lastId>> /\ "call" \in Commands
    BY <1>2 DEF Send, wire, server, Commands
  <2> QED BY <1>1, <2>1, <2>2, Taken
<1>3. CASE WriteCall(a)
  <2>1. pc'[a] = "file" /\ \A b \in Algorithms \ {a} : pc'[b] = pc[b]
    BY <1>1, <1>3, OwnMoves DEF WriteCall
  <2>2. frame[a] # NoFrame /\ lock = a
    BY <1>1, <1>3 DEF WriteCall, Writing, At, Numbering, OwnsLock
  <2>3. /\ toServer' \in {toServer, Append(toServer, frame[a])} /\ UNCHANGED lastId
        /\ lock' = "nobody" /\ UNCHANGED nextId /\ frame' = frame
    BY <1>3 DEF WriteCall, Write, Release, server
  <2> QED BY <1>1, <2>1, <2>2, <2>3, Written
<1>4. CASE FileCall(a)
  <2>1. pc'[a] = "idle" /\ \A b \in Algorithms \ {a} : pc'[b] = pc[b]
    BY <1>1, <1>4, OwnMoves DEF FileCall
  <2>2. /\ pc[a] = "file" /\ frame' = [frame EXCEPT ![a] = NoFrame]
        /\ UNCHANGED <<lock, nextId, toServer, lastId>>
    BY <1>4 DEF FileCall, At, ids, wire, server
  <2>3. lock # a
    BY <2>2 DEF Numbering, OwnsLock
  <2>4. /\ frame'[a] = NoFrame
        /\ \A u \in Threads \ {a} : frame'[u] = frame[u]
    BY <1>1, <2>2, Numbers
  <2>5. OwnsLock'
    <3>1. ASSUME NEW u \in Threads, frame'[u] # NoFrame
          PROVE  lock' = u \/ (u # Net /\ pc'[u] = "file")
      <4>1. u # a /\ frame[u] # NoFrame
        BY <2>4, <3>1
      <4>2. CASE u = Net
        BY <2>2, <4>1, <4>2 DEF Numbering, OwnsLock
      <4>3. CASE u \in Algorithms \ {a}
        BY <2>1, <2>2, <4>1, <4>3 DEF Numbering, OwnsLock
      <4> QED BY <4>1, <4>2, <4>3 DEF Threads
    <3>2. ASSUME NEW b \in Algorithms, lock' = b PROVE pc'[b] = "send"
      BY <2>1, <2>2, <2>3, <3>2 DEF Numbering, OwnsLock
    <3> QED BY <3>1, <3>2 DEF OwnsLock
  <2>6. Newest' /\ IdsIncrease'
    BY <2>2, <2>3, <2>4 DEF Numbering, Newest, Below, IdsIncrease
  <2> QED BY <2>5, <2>6 DEF Numbering
<1> QED BY <1>2, <1>3, <1>4

LEMMA RaisesNumbering ==
  ASSUME Typed, Numbering, NEW t \in Threads, WriteRaises(t)
  PROVE  Numbering'
<1>1. frame[t] # NoFrame /\ lock = t
  BY DEF WriteRaises, Writing, Numbering, OwnsLock
<1>2. /\ frame' = [frame EXCEPT ![t] = NoFrame] /\ toServer' = toServer /\ UNCHANGED lastId
      /\ lock' = "nobody" /\ UNCHANGED nextId
  BY DEF WriteRaises, Release, wire, server
<1>3. frame'[t] = NoFrame
  BY <1>2, Numbers
<1>4. \A a \in Algorithms \ {t} : pc'[a] = pc[a]
  BY OwnMoves DEF WriteRaises
<1> QED BY <1>1, <1>2, <1>3, <1>4, Written

LEMMA AskNumbering ==
  ASSUME Typed, Numbering, Ask \/ WriteAsk
  PROVE  Numbering'
<1>1. CASE Ask
  <2>1. \E type \in Commands : TakeId(Net, type)
    <3>1. Opening["subscribe"] \in Commands /\ Opening["snapshot"] \in Commands
      BY DEF Opening, Commands
    <3>2. "ping" \in Commands
      BY DEF Commands
    <3>3. CASE pc[Net] \in {"subscribe", "snapshot"} /\ TakeId(Net, Opening[pc[Net]])
      BY <3>1, <3>3
    <3> QED BY <1>1, <3>2, <3>3 DEF Ask
  <2>2. UNCHANGED <<pc, toServer, lastId>>
    BY <1>1 DEF Ask, wire, server
  <2> QED BY <2>1, <2>2, NetThread, Taken
<1>2. CASE WriteAsk
  <2>1. \A a \in Algorithms : pc'[a] = pc[a]
    BY <1>2, NetMoves DEF WriteAsk
  <2>2. frame[Net] # NoFrame /\ lock = Net
    BY <1>2, NetThread DEF WriteAsk, Writing, Numbering, OwnsLock
  <2>3. /\ toServer' \in {toServer, Append(toServer, frame[Net])} /\ UNCHANGED lastId
        /\ lock' = "nobody" /\ UNCHANGED nextId /\ frame' = [frame EXCEPT ![Net] = NoFrame]
    BY <1>2 DEF WriteAsk, Write, Release, server
  <2>4. frame'[Net] = NoFrame
    BY <2>3, NetThread, Numbers
  <2> QED BY <2>1, <2>2, <2>3, <2>4, NetThread, Written
<1> QED BY <1>1, <1>2

(* The steps that number nothing. *)
LEMMA SilentNumbering ==
  ASSUME Typed, Numbering,
         \/ Leave \/ ConnectRaises \/ Publish \/ Hello \/ Accepted \/ Rejected \/ HandshakeRaises
         \/ Receive \/ ReceiveRaises \/ Timeout \/ Backoff \/ SetStop \/ Change
  PROVE  Numbering'
<1>1. UNCHANGED <<frame, ids, toServer, lastId>>
  BY DEF Leave, ConnectRaises, Publish, Hello, Accepted, Rejected, HandshakeRaises, Receive,
     ReceiveRaises, Timeout, Backoff, SetStop, Change, wire, server
<1>2. UNCHANGED pc \/ \E where \in NetPlaces : Goto(Net, where)
  BY DEF Leave, ConnectRaises, Publish, Hello, Accepted, Rejected, HandshakeRaises, Receive,
     ReceiveRaises, Timeout, Backoff, SetStop, Change, Again, NetPlaces
<1>3. \A a \in Algorithms : pc'[a] = pc[a]
  BY <1>2, NetMoves
<1> QED BY <1>1, <1>3, Unnumbered

LEMMA WireNumbering ==
  ASSUME Typed, Numbering,
         Connect \/ Authenticate \/ Teardown \/ Abort \/ CheckToken \/ Serve \/ Drop
  PROVE  Numbering'
<1>1. CASE Connect \/ Teardown \/ Drop
  <2>1. UNCHANGED <<frame, ids>> /\ toServer' = << >> /\ lastId' \in {0, lastId}
    BY <1>1 DEF Connect, Teardown, Drop, Forget, server
  <2>2. UNCHANGED pc \/ \E where \in NetPlaces : Goto(Net, where)
    BY <1>1 DEF Connect, Teardown, Drop, NetPlaces
  <2>3. \A a \in Algorithms : pc'[a] = pc[a]
    BY <2>2, NetMoves
  <2> QED BY <2>1, <2>3, Emptied
<1>2. CASE Abort
  <2>1. UNCHANGED <<frame, ids, pc>>
    BY <1>2 DEF Abort
  <2>2. \/ toServer' = << >> /\ lastId' = 0
        \/ UNCHANGED <<toServer, lastId>>
    BY <1>2 DEF Abort, Forget, wire, server
  <2> QED BY <2>1, <2>2, Emptied, Unnumbered
<1>3. CASE Authenticate
  <2>1. UNCHANGED <<frame, ids, lastId>> /\ \A a \in Algorithms : pc'[a] = pc[a]
    BY <1>3, NetMoves DEF Authenticate, server
  <2>2. toServer' = toServer \/ toServer' = Append(toServer, Auth)
    BY <1>3 DEF Authenticate, Write
  <2> QED BY <2>1, <2>2, Introduced, Unnumbered
<1>4. CASE CheckToken
  BY <1>4, Served DEF CheckToken
<1>5. CASE Serve
  BY <1>5, Served DEF Serve
<1> QED BY <1>1, <1>2, <1>3, <1>4, <1>5

LEMMA NumberingStep == Typed /\ Numbering /\ [Next]_vars => Numbering'
<1> SUFFICES ASSUME Typed, Numbering, [Next]_vars PROVE Numbering'
  OBVIOUS
<1>1. CASE Next
  <2>1. Algorithms \subseteq Threads
    BY DEF Threads
  <2> QED BY <1>1, <2>1, NetThread, AlgorithmNumbering, RaisesNumbering, AskNumbering,
             SilentNumbering, WireNumbering
          DEF Next, Session
<1>2. CASE UNCHANGED vars
  BY <1>2, Unnumbered DEF vars, wire, server
<1> QED BY <1>1, <1>2

(* However many threads send at once, and over any number of sessions, the  *)
(* ids on the wire increase: an id is taken and written under one lock.     *)
THEOREM IdsIncreaseHolds == Spec => []IdsIncrease
<1>1. Init => Typed /\ Numbering
  BY TypedInit, NumberingInit
<1>2. (Typed /\ Numbering) /\ [Next]_vars => (Typed /\ Numbering)'
  BY TypedStep, NumberingStep
<1>3. Typed /\ Numbering => IdsIncrease
  BY DEF Numbering
<1> QED BY <1>1, <1>2, <1>3, PTL DEF Spec
---------------------------------------------------------------------------
(* NoChangeLost. *)

(* What a device would show in the end: the last message that carries the  *)
(* entity's state, or what it shows already.                               *)
Tells(m, s) == m.type = "event" \/ (m.type = "result" /\ m.id = s)

Fresh(c, s, v, h) ==
  IF \E k \in 1..Len(c) : Tells(c[k], s)
  THEN \E k \in 1..Len(c) :
         /\ Tells(c[k], s) /\ c[k].value = h
         /\ \A j \in (k + 1)..Len(c) : ~Tells(c[j], s)
  ELSE v = h

LEMMA FreshIsNoChangeLost ==
  NoChangeLost <=> (answered /\ link = "up" => Fresh(toClient, snapshotId, view, house))
BY DEF NoChangeLost, Fresh, Tells, Carries

(* A message that tells nothing of the entity makes no difference ... *)
LEMMA FreshPast ==
  ASSUME NEW T, NEW c \in Seq(T), NEW m \in T, NEW s, NEW v, NEW h,
         Fresh(c, s, v, h), ~Tells(m, s)
  PROVE  Fresh(Append(c, m), s, v, h)
<1> DEFINE d == Append(c, m)
           n == Len(c)
<1>1. /\ n \in Nat /\ Len(d) = n + 1 /\ d[n + 1] = m
      /\ \A k \in 1..n : d[k] = c[k]
  BY AppendProperties
<1> HIDE DEF d, n
<1>2. \A k \in 1..(n + 1) : k \in 1..n \/ k = n + 1
  BY <1>1
<1>3. CASE \E k \in 1..n : Tells(c[k], s)
  <2>1. PICK k \in 1..n : /\ Tells(c[k], s) /\ c[k].value = h
                          /\ \A j \in (k + 1)..n : ~Tells(c[j], s)
    BY <1>3 DEF Fresh, n
  <2>2. \A j \in (k + 1)..(n + 1) : ~Tells(d[j], s)
    <3>1. \A j \in (k + 1)..(n + 1) : j = n + 1 \/ (j \in (k + 1)..n /\ j \in 1..n)
      BY <1>1
    <3> QED BY <1>1, <2>1, <3>1
  <2>3. k \in 1..(n + 1) /\ Tells(d[k], s) /\ d[k].value = h
    BY <1>1, <2>1
  <2> QED BY <1>1, <2>2, <2>3 DEF Fresh, d
<1>4. CASE ~\E k \in 1..n : Tells(c[k], s)
  <2>1. v = h
    BY <1>4 DEF Fresh, n
  <2>2. ~\E k \in 1..(n + 1) : Tells(d[k], s)
    BY <1>1, <1>2, <1>4
  <2> QED BY <1>1, <2>1, <2>2 DEF Fresh, d
<1> QED BY <1>3, <1>4

(* ... one that tells the entity's state settles it ... *)
LEMMA FreshTold ==
  ASSUME NEW T, NEW c \in Seq(T), NEW m \in T, NEW s, NEW v, NEW h,
         Tells(m, s), m.value = h
  PROVE  Fresh(Append(c, m), s, v, h)
<1> DEFINE d == Append(c, m)
           n == Len(c)
<1>1. n \in Nat /\ Len(d) = n + 1 /\ d[n + 1] = m
  BY AppendProperties
<1> HIDE DEF d, n
<1>2. n + 1 \in 1..(n + 1) /\ \A j \in ((n + 1) + 1)..(n + 1) : FALSE
  BY <1>1
<1> QED BY <1>1, <1>2 DEF Fresh, d

(* ... and the device shows it once it has come to it. *)
LEMMA FreshTaken ==
  ASSUME NEW T, NEW c \in Seq(T), c # << >>, NEW s, NEW v, NEW h, Fresh(c, s, v, h)
  PROVE  Fresh(Tail(c), s, IF Tells(Head(c), s) THEN Head(c).value ELSE v, h)
<1> DEFINE d == Tail(c)
           n == Len(c)
           w == IF Tells(Head(c), s) THEN Head(c).value ELSE v
<1>1. /\ n \in Nat \ {0} /\ Len(d) = n - 1 /\ Head(c) = c[1]
      /\ \A k \in 1..(n - 1) : d[k] = c[k + 1]
  BY HeadTailProperties
<1> HIDE DEF d, n
<1>2. \A k \in 1..n : k = 1 \/ (k - 1 \in 1..(n - 1) /\ c[k] = d[k - 1])
  BY <1>1
<1>3. CASE \E k \in 1..(n - 1) : Tells(d[k], s)
  <2>1. PICK k \in 1..(n - 1) : Tells(d[k], s)
    BY <1>3
  <2>2. k + 1 \in 1..n /\ Tells(c[k + 1], s)
    BY <1>1, <2>1
  <2>3. PICK i \in 1..n : /\ Tells(c[i], s) /\ c[i].value = h
                          /\ \A j \in (i + 1)..n : ~Tells(c[j], s)
    BY <2>2 DEF Fresh, n
  <2>4. i # 1
    <3>1. i = 1 => k + 1 \in (i + 1)..n
      BY <1>1, <2>1
    <3> QED BY <2>2, <2>3, <3>1
  <2>5. i - 1 \in 1..(n - 1) /\ Tells(d[i - 1], s) /\ d[i - 1].value = h
    BY <1>2, <2>3, <2>4
  <2>6. \A j \in ((i - 1) + 1)..(n - 1) : ~Tells(d[j], s)
    <3>1. \A j \in ((i - 1) + 1)..(n - 1) : j + 1 \in (i + 1)..n /\ j \in 1..(n - 1)
      BY <1>1, <2>3
    <3> QED BY <1>1, <2>3, <3>1
  <2> QED BY <1>1, <2>5, <2>6 DEF Fresh, d
<1>4. CASE ~\E k \in 1..(n - 1) : Tells(d[k], s)
  <2>1. w = h
    <3>1. CASE Tells(Head(c), s)
      <4>1. \E k \in 1..n : Tells(c[k], s)
        <5>1. 1 \in 1..n
          BY <1>1
        <5> QED BY <1>1, <3>1, <5>1
      <4>2. PICK i \in 1..n : Tells(c[i], s) /\ c[i].value = h
        BY <4>1 DEF Fresh, n
      <4>3. i = 1
        BY <1>2, <1>4, <4>2
      <4> QED BY <1>1, <3>1, <4>2, <4>3
    <3>2. CASE ~Tells(Head(c), s)
      <4>1. ~\E k \in 1..n : Tells(c[k], s)
        BY <1>1, <1>2, <1>4, <3>2
      <4> QED BY <3>2, <4>1 DEF Fresh, n
    <3> QED BY <3>1, <3>2
  <2> QED BY <1>1, <1>4, <2>1 DEF Fresh, d
<1> QED BY <1>3, <1>4

(* Which number the snapshot has matters only while its answer is awaited. *)
LEMMA FreshAnyway ==
  ASSUME NEW c, NEW s, NEW r, NEW v, NEW h, Fresh(c, s, v, h),
         \A k \in 1..Len(c) : Tells(c[k], s) <=> Tells(c[k], r), Len(c) \in Nat
  PROVE  Fresh(c, r, v, h)
<1>1. CASE \E k \in 1..Len(c) : Tells(c[k], s)
  <2>1. PICK i \in 1..Len(c) : /\ Tells(c[i], s) /\ c[i].value = h
                               /\ \A j \in (i + 1)..Len(c) : ~Tells(c[j], s)
    BY <1>1 DEF Fresh
  <2>2. \A j \in (i + 1)..Len(c) : ~Tells(c[j], r)
    <3>1. \A j \in (i + 1)..Len(c) : j \in 1..Len(c)
      OBVIOUS
    <3> QED BY <2>1, <3>1
  <2> QED BY <2>1, <2>2 DEF Fresh
<1>2. CASE ~\E k \in 1..Len(c) : Tells(c[k], s)
  BY <1>2 DEF Fresh
<1> QED BY <1>1, <1>2

(* A command is what the place of its thread says, and nobody has asked    *)
(* for a snapshot before the end of the handshake.                         *)
Before == {"top", "publish", "hello", "auth", "reply", "subscribe", "snapshot", "backoff"}

Composed ==
  /\ \A a \in Algorithms : frame[a] # NoFrame => frame[a].type = "call"
  /\ frame[Net] # NoFrame =>
       \/ pc[Net] = "subscribe" /\ frame[Net].type = "subscribe_events"
       \/ pc[Net] = "snapshot" /\ frame[Net].type = "get_states"
       \/ pc[Net] = "ping" /\ frame[Net].type = "ping"
  /\ pc[Net] \in Before => snapshotId = 0

(* The algorithms' steps leave the connector where it is. *)
LEMMA Aside ==
  ASSUME Typed, NEW a \in Algorithms, Send(a) \/ WriteCall(a) \/ WriteRaises(a) \/ FileCall(a)
  PROVE  /\ pc'[Net] = pc[Net] /\ frame'[Net] = frame[Net]
         /\ UNCHANGED <<link, toClient, phase, subscribed, answered, lastId, house, view, snapshotId>>
         /\ \A b \in Algorithms \ {a} : frame'[b] = frame[b]
         /\ frame'[a] \in {frame[a], NoFrame, [type |-> "call", id |-> nextId]}
<1>1. a \in Threads /\ Net \in Threads /\ a # Net
  BY NetThread DEF Threads
<1>2. \A b \in Algorithms \ {a} : b \in Threads
  BY DEF Threads
<1>3. pc'[Net] = pc[Net]
  BY <1>1 DEF Send, WriteCall, WriteRaises, FileCall, Goto, Typed, PlaceTypes
<1>4. /\ frame'[Net] = frame[Net] /\ \A b \in Algorithms \ {a} : frame'[b] = frame[b]
      /\ frame'[a] \in {frame[a], NoFrame, [type |-> "call", id |-> nextId]}
  BY <1>1, <1>2, Numbers DEF Send, WriteCall, WriteRaises, FileCall, TakeId
<1>5. UNCHANGED <<link, toClient, phase, subscribed, answered, lastId, house, view, snapshotId>>
  BY DEF Send, WriteCall, WriteRaises, FileCall, session, wire, server
<1> QED BY <1>3, <1>4, <1>5

(* A step that composes nothing and asks for nothing. *)
LEMMA ComposedStays ==
  ASSUME Typed, Composed, UNCHANGED <<frame, snapshotId>>,
         \/ pc'[Net] = pc[Net]
         \/ frame[Net] = NoFrame /\ (pc'[Net] \in Before => pc[Net] \in Before)
  PROVE  Composed'
BY DEF Composed

LEMMA ComposedStep == Typed /\ Composed /\ [Next]_vars => Composed'
<1> SUFFICES ASSUME Typed, Composed, [Next]_vars PROVE Composed'
  OBVIOUS
<1>0. Net \in Threads /\ Algorithms \subseteq Threads /\ Net \notin Algorithms
  BY NetThread DEF Threads
<1>1. CASE UNCHANGED vars \/ SetStop \/ Abort \/ CheckToken \/ Serve \/ Change \/ Drop
  <2>1. UNCHANGED <<frame, snapshotId>> /\ pc' = pc
    BY <1>1 DEF vars, session, SetStop, Abort, CheckToken, Serve, Change, Drop
  <2> QED BY <2>1, ComposedStays
<1>2. ASSUME NEW a \in Algorithms, Send(a) \/ WriteCall(a) \/ WriteRaises(a) \/ FileCall(a)
      PROVE  Composed'
  <2>1. \A b \in Algorithms : frame'[b] # NoFrame => frame'[b].type = "call"
    BY <1>2, Aside DEF Composed
  <2>2. pc'[Net] = pc[Net] /\ frame'[Net] = frame[Net] /\ snapshotId' = snapshotId
    BY <1>2, Aside
  <2> QED BY <2>1, <2>2 DEF Composed
<1>3. CASE \/ Leave \/ Connect \/ ConnectRaises \/ Publish \/ Hello \/ Authenticate \/ Accepted
           \/ Rejected \/ HandshakeRaises \/ ReceiveRaises \/ Timeout \/ Backoff
  <2>1. UNCHANGED <<frame, snapshotId>>
    BY <1>3 DEF Leave, Connect, ConnectRaises, Publish, Hello, Authenticate, Accepted, Rejected,
       HandshakeRaises, ReceiveRaises, Timeout, Backoff, session
  <2>2. pc[Net] \notin {"subscribe", "snapshot", "ping"}
    BY <1>3 DEF Leave, Connect, ConnectRaises, Publish, Hello, Authenticate, Accepted, Rejected,
       HandshakeRaises, ReceiveRaises, Timeout, Backoff, At, Expect
  <2>3. pc'[Net] \in Before => pc[Net] \in Before
    <3>1. CASE Leave \/ Connect \/ ConnectRaises \/ Publish \/ Hello \/ Authenticate
      BY <1>0, <3>1 DEF Leave, Connect, ConnectRaises, Publish, Hello, Authenticate, At, Expect,
         Goto, Before, Typed, PlaceTypes
    <3>2. CASE Accepted \/ Rejected \/ HandshakeRaises \/ ReceiveRaises \/ Timeout \/ Backoff
      BY <1>0, <3>2 DEF Accepted, Rejected, HandshakeRaises, ReceiveRaises, Timeout, Backoff, At,
         Expect, Goto, Before, Typed, PlaceTypes
    <3> QED BY <1>3, <3>1, <3>2
  <2>4. frame[Net] = NoFrame
    BY <2>2 DEF Composed
  <2> QED BY <2>1, <2>3, <2>4, ComposedStays
<1>4. CASE Ask
  <2>1. \E type \in {"subscribe_events", "get_states", "ping"} :
          /\ frame' = [frame EXCEPT ![Net] = [type |-> type, id |-> nextId]]
          /\ \/ pc[Net] = "subscribe" /\ type = "subscribe_events"
             \/ pc[Net] = "snapshot" /\ type = "get_states"
             \/ pc[Net] = "ping" /\ type = "ping"
    BY <1>4 DEF Ask, TakeId, Opening, At
  <2>2. \A a \in Algorithms : frame'[a] = frame[a]
    BY <1>0, <2>1, Numbers
  <2>3. pc' = pc /\ snapshotId' = snapshotId
    BY <1>4 DEF Ask, session
  <2> QED BY <1>0, <2>1, <2>2, <2>3, Numbers DEF Composed
<1>5. CASE WriteAsk \/ WriteRaises(Net) \/ Teardown
  <2>1. frame' = [frame EXCEPT ![Net] = NoFrame] \/ (frame' = frame /\ frame[Net] = NoFrame)
    BY <1>5 DEF WriteAsk, WriteRaises, Teardown, Composed
  <2>2. frame'[Net] = NoFrame /\ \A a \in Algorithms : frame'[a] = frame[a]
    BY <1>0, <2>1, Numbers
  <2>3. pc'[Net] \in Before => snapshotId' = 0
    <3>1. CASE WriteRaises(Net)
      BY <1>0, <3>1 DEF WriteRaises, Goto, Before, Typed, PlaceTypes
    <3>2. CASE Teardown
      BY <3>2 DEF Teardown
    <3>3. CASE WriteAsk
      <4>1. pc[Net] # "subscribe" => pc'[Net] \in {"receive", "teardown"}
        BY <1>0, <3>3 DEF WriteAsk, At, Again, Goto, Typed, PlaceTypes
      <4>2. pc[Net] = "subscribe" => frame[Net].type # "get_states" /\ snapshotId = 0
        BY <3>3 DEF WriteAsk, Writing, Composed, Before
      <4> QED BY <3>3, <4>1, <4>2 DEF WriteAsk, Before
    <3> QED BY <1>5, <3>1, <3>2, <3>3
  <2> QED BY <2>2, <2>3 DEF Composed
<1>6. CASE Receive
  <2>1. UNCHANGED frame /\ frame[Net] = NoFrame
    BY <1>6 DEF Receive, At, Composed
  <2>2. pc'[Net] \notin Before
    BY <1>0, <1>6 DEF Receive, Again, Goto, Before, Typed, PlaceTypes
  <2> QED BY <2>1, <2>2 DEF Composed
<1> QED BY <1>1, <1>2, <1>3, <1>4, <1>5, <1>6 DEF Next, Session

(* While a socket is up it belongs to the session in progress, and its     *)
(* command phase begins with the one token that was written to it.         *)
Greeted ==
  link = "up" =>
    /\ pc[Net] \notin {"top", "backoff", "done"}
    /\ pc[Net] \in {"publish", "hello", "auth"} \/ phase = "command" =>
         \A k \in 1..Len(toServer) : toServer[k] # Auth
    /\ pc[Net] \in {"publish", "hello", "auth"} => phase = "auth"
    /\ \A j, k \in 1..Len(toServer) : toServer[j] = Auth /\ toServer[k] = Auth => j = k
    /\ phase = "auth" => ~subscribed /\ ~answered

(* A socket that is not up, or not authenticated, has no session. *)
Forgotten ==
  link # "up" \/ phase = "auth" => phase = "auth" /\ ~subscribed /\ ~answered

LEMMA ForgottenStep == Typed /\ Forgotten /\ [Next]_vars => Forgotten'
<1> SUFFICES ASSUME Typed, Forgotten, [Next]_vars PROVE Forgotten'
  OBVIOUS
<1>1. CASE UNCHANGED <<phase, subscribed, answered>> /\ (link' = link \/ phase = "auth")
  BY <1>1 DEF Forgotten
<1>2. CASE Forget
  BY <1>2 DEF Forget, Forgotten
<1>3. CASE phase' = "command" /\ link' = "up"
  BY <1>3 DEF Forgotten
<1>4. CASE Session
  <2>1. CASE Connect
    <3>1. UNCHANGED <<phase, subscribed, answered>> /\ link' = "up"
      BY <2>1 DEF Connect, server
    <3> QED BY <3>1 DEF Forgotten
  <2>2. CASE Teardown
    BY <1>2, <2>2 DEF Teardown
  <2>3. CASE ~(Connect \/ Teardown)
    BY <1>1, <1>4, <2>3
       DEF Session, Leave, ConnectRaises, Publish, Hello, Authenticate, Accepted, Rejected,
           HandshakeRaises, Ask, WriteAsk, WriteRaises, Receive, ReceiveRaises, Timeout, Backoff,
           wire, server
  <2> QED BY <2>1, <2>2, <2>3
<1>5. CASE SetStop \/ Abort \/ Change \/ Drop \/ UNCHANGED vars
  BY <1>1, <1>2, <1>5 DEF SetStop, Abort, Change, Drop, vars, wire, server
<1>6. CASE CheckToken \/ Serve
  BY <1>1, <1>3, <1>6 DEF CheckToken, Serve
<1>7. ASSUME NEW a \in Algorithms, Send(a) \/ WriteCall(a) \/ WriteRaises(a) \/ FileCall(a)
      PROVE  Forgotten'
  BY <1>1, <1>7, Aside
<1> QED BY <1>4, <1>5, <1>6, <1>7 DEF Next

(* Results come back in the order of the commands they answer. *)
Resulted ==
  link = "up" =>
    /\ \A k \in 1..Len(toClient) :
         toClient[k].type = "result" => 0 < toClient[k].id /\ toClient[k].id <= lastId
    /\ \A j, k \in 1..Len(toClient) :
         j < k /\ toClient[j].type = "result" /\ toClient[k].type = "result"
           => toClient[j].id < toClient[k].id

(* The one request for the snapshot, on its way or answered, and always    *)
(* behind the subscription.                                                *)
Asked ==
  link = "up" =>
    /\ pc[Net] \in Before => ~answered
    /\ \A k \in 1..Len(toServer) :
         toServer[k].type = "get_states" =>
           /\ pc[Net] \notin Before /\ ~answered /\ toServer[k].id = snapshotId
           /\ subscribed \/ \E j \in 1..(k - 1) : toServer[j].type = "subscribe_events"
    /\ answered => snapshotId <= lastId /\ subscribed
    /\ ~answered /\ snapshotId # 0 => \E k \in 1..Len(toServer) : toServer[k].type = "get_states"
    /\ pc[Net] = "snapshot" =>
         subscribed \/ \E k \in 1..Len(toServer) : toServer[k].type = "subscribe_events"

Told == Greeted /\ Resulted /\ Asked /\ NoChangeLost

(* Nothing is said of a socket that is not up. *)
LEMMA NotUp == ASSUME link' # "up" PROVE Told'
BY DEF Told, Greeted, Resulted, Asked, NoChangeLost

(* Steps that leave the socket and both of its ends alone. *)
LEMMA Unheard ==
  ASSUME Typed, Told,
         UNCHANGED <<link, toServer, toClient, phase, subscribed, answered, lastId, house, view,
                     snapshotId>>,
         \/ pc'[Net] = pc[Net]
         \/ /\ pc'[Net] \notin {"top", "backoff", "done", "snapshot", "auth"}
            /\ pc'[Net] \in Before => pc[Net] \in Before
            /\ pc'[Net] \in {"publish", "hello"} => pc[Net] \in {"publish", "hello"}
  PROVE  Told'
<1>1. Greeted'
  BY DEF Told, Greeted
<1>2. Resulted'
  BY DEF Told, Resulted
<1>3. Asked'
  BY DEF Told, Asked
<1>4. NoChangeLost'
  BY FreshIsNoChangeLost DEF Told, NoChangeLost, Carries
<1> QED BY <1>1, <1>2, <1>3, <1>4 DEF Told

(* A frame is put on a socket that is up. *)
LEMMA Sent ==
  ASSUME Typed, Numbering, Told, NEW f \in FrameTypes, toServer' = Append(toServer, f),
         UNCHANGED <<link, toClient, phase, subscribed, answered, lastId, house, view>>,
         link = "up", pc'[Net] \notin {"top", "backoff", "done"},
         \/ f = Auth /\ pc[Net] = "auth" /\ pc'[Net] = "reply" /\ snapshotId' = snapshotId
         \/ f.type = "call" /\ pc'[Net] = pc[Net] /\ snapshotId' = snapshotId
         \/ /\ f.type = "subscribe_events" /\ pc[Net] = "subscribe" /\ pc'[Net] = "snapshot"
            /\ snapshotId' = snapshotId
         \/ /\ f.type = "get_states" /\ pc[Net] = "snapshot" /\ pc'[Net] \notin Before
            /\ snapshotId' = f.id
         \/ f.type = "ping" /\ pc'[Net] \notin Before /\ pc[Net] = "ping" /\ snapshotId' = snapshotId
  PROVE  Told'
<1> DEFINE n == Len(toServer)
<1>1. /\ n \in Nat /\ Len(toServer') = n + 1 /\ toServer'[n + 1] = f
      /\ \A k \in 1..n : toServer'[k] = toServer[k]
  BY Numbers, AppendProperties
<1>2. \A k \in 1..(n + 1) : k = n + 1 \/ k \in 1..n
  BY <1>1
<1>3. Auth.type = "auth"
  BY DEF Auth
<1> HIDE DEF n
<1>4. Greeted'
  <2>1. f # Auth \/ (f = Auth /\ pc[Net] = "auth" /\ pc'[Net] = "reply")
    BY <1>3
  <2>2. CASE f # Auth
    <3>1. \A k \in 1..Len(toServer') : toServer'[k] = Auth => k \in 1..n /\ toServer[k] = Auth
      BY <1>1, <1>2, <2>2
    <3>2. /\ pc'[Net] \in {"publish", "hello", "auth"} => pc[Net] = pc'[Net]
          /\ pc[Net] \in {"publish", "hello", "auth"} => phase = "auth"
          /\ pc[Net] \in {"publish", "hello", "auth"} \/ phase = "command" =>
               \A k \in 1..n : toServer[k] # Auth
      BY <2>2 DEF Told, Greeted, n, Before
    <3>3. \A j, k \in 1..n : toServer[j] = Auth /\ toServer[k] = Auth => j = k
      BY DEF Told, Greeted, n
    <3>4. phase = "auth" => ~subscribed /\ ~answered
      BY DEF Told, Greeted
    <3>5. pc'[Net] \in {"publish", "hello", "auth"} \/ phase = "command" =>
            \A k \in 1..Len(toServer') : toServer'[k] # Auth
      BY <3>1, <3>2
    <3>6. \A j, k \in 1..Len(toServer') : toServer'[j] = Auth /\ toServer'[k] = Auth => j = k
      BY <3>1, <3>3
    <3>7. pc'[Net] \in {"publish", "hello", "auth"} => phase = "auth"
      BY <3>2
    <3> QED BY <3>4, <3>5, <3>6, <3>7 DEF Greeted
  <2>3. CASE f = Auth
    <3>1. phase = "auth" /\ \A k \in 1..n : toServer[k] # Auth
      BY <2>1, <2>3 DEF Told, Greeted, n
    <3>2. \A k \in 1..Len(toServer') : toServer'[k] = Auth => k = n + 1
      BY <1>1, <1>2, <3>1
    <3>3. ~subscribed /\ ~answered
      BY <3>1 DEF Told, Greeted
    <3>4. pc'[Net] = "reply"
      BY <2>1, <2>3
    <3>5. \A j, k \in 1..Len(toServer') : toServer'[j] = Auth /\ toServer'[k] = Auth => j = k
      BY <3>2
    <3> QED BY <3>1, <3>3, <3>4, <3>5 DEF Greeted
  <2> QED BY <2>2, <2>3
<1>5. Resulted'
  BY DEF Told, Resulted
<1>6. Asked'
  <2>1. pc'[Net] \in Before => pc[Net] \in Before /\ pc[Net] # "ping" /\ f.type # "get_states"
    BY <1>3 DEF Before
  <2>2. \A k \in 1..n : toServer[k].type = "get_states" => pc[Net] \notin Before
    BY DEF Told, Asked, n
  <2>3. pc[Net] = "snapshot" =>
          /\ ~answered
          /\ subscribed \/ \E j \in 1..n : toServer[j].type = "subscribe_events"
    BY DEF Told, Asked, n, Before
  <2>4. CASE f.type = "get_states"
    <3>1. pc[Net] = "snapshot" /\ pc[Net] \in Before /\ snapshotId' = f.id /\ pc'[Net] \notin Before
      BY <1>3, <2>4 DEF Before
    <3>2. \A k \in 1..n : toServer[k].type # "get_states"
      BY <2>2, <3>1
    <3>3. subscribed \/ \E j \in 1..((n + 1) - 1) : toServer'[j].type = "subscribe_events"
      BY <1>1, <2>3, <3>1
    <3>4. \A k \in 1..(n + 1) : toServer'[k].type = "get_states" => k = n + 1
      BY <1>1, <1>2, <3>2
    <3>5. n + 1 \in 1..(n + 1) /\ toServer'[n + 1].type = "get_states"
      BY <1>1, <2>4
    <3>6. pc'[Net] # "snapshot"
      BY <3>1 DEF Before
    <3> QED BY <1>1, <2>3, <3>1, <3>3, <3>4, <3>5, <3>6 DEF Asked
  <2>5. CASE f.type # "get_states"
    <3>1. snapshotId' = snapshotId
      BY <2>5
    <3>2. \A k \in 1..(n + 1) : toServer'[k].type = "get_states" =>
            /\ k \in 1..n /\ toServer[k].type = "get_states"
            /\ \A j \in 1..(k - 1) : toServer'[j] = toServer[j]
      <4>1. \A k \in 1..n : \A j \in 1..(k - 1) : j \in 1..n
        BY <1>1
      <4> QED BY <1>1, <1>2, <2>5, <4>1
    <3>3. \A k \in 1..(n + 1) : toServer'[k].type = "get_states" =>
            /\ pc'[Net] \notin Before /\ ~answered /\ toServer'[k].id = snapshotId
            /\ subscribed \/ \E j \in 1..(k - 1) : toServer'[j].type = "subscribe_events"
      BY <1>1, <2>1, <3>2 DEF Told, Asked, n
    <3>4. ASSUME ~answered, snapshotId # 0
          PROVE  \E k \in 1..(n + 1) : toServer'[k].type = "get_states"
      <4>1. PICK k \in 1..n : toServer[k].type = "get_states"
        BY <3>4 DEF Told, Asked, n
      <4> QED BY <1>1, <4>1
    <3>5. pc'[Net] = "snapshot" =>
            subscribed \/ \E k \in 1..(n + 1) : toServer'[k].type = "subscribe_events"
      <4>1. CASE f.type = "subscribe_events"
        BY <1>1, <4>1
      <4>2. CASE pc[Net] = "snapshot"
        BY <1>1, <2>3, <4>2
      <4> QED BY <1>3, <4>1, <4>2 DEF Before
    <3>6. pc'[Net] \in Before => ~answered
      BY <2>1 DEF Told, Asked
    <3>7. answered => snapshotId <= lastId /\ subscribed
      BY DEF Told, Asked
    <3> QED BY <1>1, <3>1, <3>3, <3>4, <3>5, <3>6, <3>7 DEF Asked
  <2> QED BY <2>4, <2>5
<1>7. NoChangeLost'
  <2>1. CASE snapshotId' = snapshotId
    BY <2>1 DEF Told, NoChangeLost, Carries
  <2>2. CASE pc[Net] = "snapshot"
    BY <2>2 DEF Told, Asked, Before, NoChangeLost
  <2> QED BY <2>1, <2>2
<1> QED BY <1>4, <1>5, <1>6, <1>7 DEF Told

(* The connector takes a message of the handshake, which tells nothing, or *)
(* of the session.                                                         *)
LEMMA Heard ==
  ASSUME Typed, Numbering, Told, toClient # << >>, toClient' = Tail(toClient),
         UNCHANGED <<link, toServer, phase, subscribed, answered, lastId, house>>,
         \/ /\ Head(toClient).type \notin {"result", "event"} /\ UNCHANGED <<view, snapshotId>>
            /\ pc[Net] \in Before /\ pc'[Net] \notin {"top", "backoff", "done", "snapshot", "publish", "hello"}
            /\ pc'[Net] = "auth" => pc[Net] = "hello"
         \/ /\ pc[Net] = "receive" /\ pc'[Net] \in {"receive", "teardown"}
            /\ view' = IF Tells(Head(toClient), snapshotId) THEN Head(toClient).value ELSE view
            /\ snapshotId' = IF Head(toClient).type = "result" /\ Head(toClient).id = snapshotId
                             THEN 0 ELSE snapshotId
  PROVE  Told'
<1> DEFINE n == Len(toClient)
<1>1. /\ n \in Nat \ {0} /\ Len(toClient') = n - 1 /\ Head(toClient) = toClient[1]
      /\ \A k \in 1..(n - 1) : toClient'[k] = toClient[k + 1]
      /\ toClient \in Seq(MessageTypes) /\ \A k \in 1..n : toClient[k] \in MessageTypes
  <2>1. toClient \in Seq(MessageTypes)
    BY DEF Typed, WireTypes
  <2> QED BY <2>1, HeadTailProperties
<1> HIDE DEF n
<1>2. /\ lastId \in Nat /\ snapshotId \in Nat /\ 1 \in 1..n
      /\ \A k \in 1..(n - 1) : k \in Nat /\ k + 1 \in 1..n /\ 1 < k + 1
      /\ \A k \in 1..n : toClient[k].id \in Nat
  BY <1>1 DEF Typed, ServerTypes, SessionTypes, MessageTypes
<1>3. SUFFICES ASSUME link = "up" PROVE Told'
  BY NotUp
<1>4. /\ \A k \in 1..n : toClient[k].type = "result" => 0 < toClient[k].id /\ toClient[k].id <= lastId
      /\ \A j, k \in 1..n : j < k /\ toClient[j].type = "result" /\ toClient[k].type = "result"
           => toClient[j].id < toClient[k].id
  BY <1>3 DEF Told, Resulted, n
<1>5. Resulted'
  <2>1. \A k \in 1..(n - 1) :
          toClient'[k].type = "result" => 0 < toClient'[k].id /\ toClient'[k].id <= lastId
    BY <1>1, <1>2, <1>4
  <2>2. ASSUME NEW j \in 1..(n - 1), NEW k \in 1..(n - 1), j < k,
               toClient'[j].type = "result", toClient'[k].type = "result"
        PROVE  toClient'[j].id < toClient'[k].id
    <3>1. j + 1 \in 1..n /\ k + 1 \in 1..n /\ j + 1 < k + 1
      BY <1>2, <2>2
    <3> QED BY <1>1, <1>4, <2>2, <3>1
  <2> QED BY <1>1, <2>1, <2>2 DEF Resulted
<1>6. Greeted'
  BY <1>3 DEF Told, Greeted, Before
<1>7. CASE snapshotId' = snapshotId
  <2>1. Asked'
    BY <1>3, <1>7 DEF Told, Asked, Before
  <2>2. NoChangeLost'
    <3>1. SUFFICES ASSUME answered PROVE Fresh(toClient', snapshotId, view', house)
      BY <1>7, FreshIsNoChangeLost DEF NoChangeLost, Fresh, Tells, Carries
    <3>2. pc[Net] \notin Before
      BY <1>3, <3>1 DEF Told, Asked
    <3>3. view' = IF Tells(Head(toClient), snapshotId) THEN Head(toClient).value ELSE view
      BY <3>2
    <3>4. Fresh(toClient, snapshotId, view, house)
      BY <1>3, <3>1, FreshIsNoChangeLost DEF Told
    <3> QED BY <1>1, <3>3, <3>4, FreshTaken
  <2> QED BY <1>5, <1>6, <2>1, <2>2 DEF Told
<1>8. CASE snapshotId' # snapshotId
  <2> DEFINE s == snapshotId
  <2>1. /\ pc[Net] = "receive" /\ snapshotId' = 0 /\ toClient[1].type = "result" /\ toClient[1].id = s
        /\ view' = IF Tells(Head(toClient), s) THEN Head(toClient).value ELSE view
        /\ pc'[Net] \in {"receive", "teardown"}
    BY <1>1, <1>8
  <2>2. 0 < s /\ s <= lastId
    BY <1>2, <1>4, <2>1
  <2>3. answered
    <3> SUFFICES ASSUME ~answered PROVE FALSE
      OBVIOUS
    <3>1. PICK k \in 1..Len(toServer) : toServer[k].type = "get_states" /\ toServer[k].id = s
      BY <1>3, <2>2 DEF Told, Asked
    <3>2. toServer[k] # Auth
      BY <3>1 DEF Auth
    <3>3. lastId < toServer[k].id
      BY <3>2 DEF Numbering, IdsIncrease
    <3> QED BY <1>2, <2>2, <3>1, <3>3
  <2>4. Asked'
    <3>1. \A k \in 1..Len(toServer) : toServer[k].type # "get_states"
      BY <1>3, <2>3 DEF Told, Asked
    <3>2. pc'[Net] \notin Before
      BY <2>1 DEF Before
    <3>3. 0 <= lastId /\ subscribed
      BY <1>2, <1>3, <2>3 DEF Told, Asked
    <3> QED BY <2>1, <2>3, <3>1, <3>2, <3>3 DEF Asked, Before
  <2>5. NoChangeLost'
    <3>1. Fresh(toClient, s, view, house)
      BY <1>3, <2>3, FreshIsNoChangeLost DEF Told
    <3>2. Fresh(toClient', s, view', house)
      BY <1>1, <2>1, <3>1, FreshTaken
    <3>3. \A k \in 1..(n - 1) : Tells(toClient'[k], s) <=> Tells(toClient'[k], 0)
      <4> SUFFICES ASSUME NEW k \in 1..(n - 1), toClient'[k].type = "result"
                   PROVE  toClient'[k].id # s /\ toClient'[k].id # 0
        BY DEF Tells
      <4>1. k + 1 \in 1..n /\ 1 < k + 1 /\ toClient'[k] = toClient[k + 1]
        BY <1>1, <1>2
      <4>2. s < toClient[k + 1].id
        BY <1>2, <1>4, <2>1, <4>1
      <4>3. toClient[k + 1].id \in Nat /\ s \in Nat
        BY <1>2, <4>1
      <4>4. toClient[k + 1].id # s /\ toClient[k + 1].id # 0
        <5> HIDE DEF s
        <5> QED BY <2>2, <4>2, <4>3
      <4> QED BY <4>1, <4>4
    <3>4. Fresh(toClient', 0, view', house)
      <4>1. Len(toClient') \in Nat
        BY <1>1
      <4> HIDE DEF s
      <4> QED BY <1>1, <3>2, <3>3, <4>1, FreshAnyway
    <3> QED BY <2>1, <3>4 DEF NoChangeLost, Fresh, Tells, Carries
  <2> QED BY <1>5, <1>6, <2>4, <2>5 DEF Told
<1> QED BY <1>7, <1>8

(* A token that is good opens the command phase: nothing on the wire is    *)
(* another one.                                                            *)
LEMMA TokenTold ==
  ASSUME Typed, Numbering, Told, CheckToken
  PROVE  Told'
<1> DEFINE n == Len(toServer)
           m == Message("auth_ok", 0, 0)
<1>1. /\ n \in Nat \ {0} /\ Len(toServer') = n - 1 /\ Head(toServer) = toServer[1]
      /\ \A k \in 1..(n - 1) : toServer'[k] = toServer[k + 1]
  BY Numbers, HeadTailProperties DEF CheckToken
<1> HIDE DEF n
<1>2. /\ 1 \in 1..n
      /\ \A k \in 1..(n - 1) : k + 1 \in 1..n /\ k + 1 # 1
  BY <1>1
<1>3. SUFFICES ASSUME link' = "up" PROVE Told'
  BY NotUp
<1>4. /\ link = "up" /\ phase = "auth" /\ phase' = "command" /\ toServer[1] = Auth
      /\ toClient' = Append(toClient, m)
      /\ UNCHANGED <<pc, snapshotId, subscribed, answered, lastId>>
  BY <1>1, <1>3 DEF CheckToken, Reply, session
<1>5. ~subscribed /\ ~answered /\ pc[Net] \notin {"publish", "hello", "auth"}
  BY <1>2, <1>4 DEF Told, Greeted, n
<1>6. Greeted'
  <2>1. \A k \in 1..Len(toServer') : toServer'[k] # Auth
    BY <1>1, <1>2, <1>4 DEF Told, Greeted, n
  <2> QED BY <1>4, <1>5, <2>1 DEF Told, Greeted
<1>7. Resulted'
  <2> DEFINE l == Len(toClient)
  <2>1. /\ l \in Nat /\ Len(toClient') = l + 1 /\ toClient'[l + 1].type # "result"
        /\ \A k \in 1..l : toClient'[k] = toClient[k]
    <3>1. m \in MessageTypes /\ toClient \in Seq(MessageTypes) /\ m.type = "auth_ok"
      BY DEF Message, MessageTypes, Typed, WireTypes
    <3> QED BY <1>4, <3>1, AppendProperties
  <2>2. \A k \in 1..(l + 1) : k \in 1..l \/ k = l + 1
    BY <2>1
  <2> HIDE DEF l
  <2>3. \A k \in 1..Len(toClient') : toClient'[k].type = "result" =>
          k \in 1..l /\ toClient'[k] = toClient[k]
    BY <2>1, <2>2
  <2> QED BY <1>4, <2>3 DEF Told, Resulted, l
<1>8. Asked'
  <2>1. Auth.type = "auth"
    BY DEF Auth
  <2>2. ASSUME NEW k \in 1..(n - 1), toServer'[k].type = "get_states"
        PROVE  /\ pc[Net] \notin Before /\ toServer'[k].id = snapshotId
               /\ \E j \in 1..(k - 1) : toServer'[j].type = "subscribe_events"
    <3>1. k + 1 \in 1..n /\ toServer[k + 1].type = "get_states" /\ (k + 1) - 1 = k /\ k \in Nat
      BY <1>1, <1>2, <2>2
    <3>2. PICK j \in 1..k : toServer[j].type = "subscribe_events"
      BY <1>4, <1>5, <3>1 DEF Told, Asked, n
    <3>3. j # 1
      BY <1>4, <2>1, <3>2
    <3>4. j - 1 \in 1..(k - 1) /\ j - 1 \in 1..(n - 1) /\ (j - 1) + 1 = j
      BY <1>1, <3>1, <3>2, <3>3
    <3>5. toServer'[j - 1].type = "subscribe_events"
      BY <1>1, <3>2, <3>4
    <3>6. pc[Net] \notin Before /\ toServer'[k].id = snapshotId
      BY <1>1, <1>4, <3>1 DEF Told, Asked, n
    <3> QED BY <3>4, <3>5, <3>6
  <2>3. ASSUME NEW type \in {"get_states", "subscribe_events"},
               \E k \in 1..n : toServer[k].type = type
        PROVE  \E k \in 1..(n - 1) : toServer'[k].type = type
    <3>1. PICK k \in 1..n : toServer[k].type = type
      BY <2>3
    <3>2. k # 1
      BY <1>4, <2>1, <3>1
    <3>3. k - 1 \in 1..(n - 1) /\ (k - 1) + 1 = k
      BY <1>1, <3>1, <3>2
    <3> QED BY <1>1, <3>1, <3>3
  <2>4. ~answered /\ snapshotId # 0 => \E k \in 1..(n - 1) : toServer'[k].type = "get_states"
    BY <1>4, <2>3 DEF Told, Asked, n
  <2>5. pc[Net] = "snapshot" => \E k \in 1..(n - 1) : toServer'[k].type = "subscribe_events"
    BY <1>4, <1>5, <2>3 DEF Told, Asked, n
  <2> QED BY <1>1, <1>4, <1>5, <2>2, <2>4, <2>5 DEF Asked
<1>9. NoChangeLost'
  BY <1>4, <1>5 DEF NoChangeLost
<1> QED BY <1>6, <1>7, <1>8, <1>9 DEF Told

(* A command is answered in its turn: the snapshot with the state of the   *)
(* entity, and nothing else under the snapshot's number.                   *)
LEMMA ServeTold ==
  ASSUME Typed, Numbering, Told, Serve
  PROVE  Told'
<1> DEFINE n == Len(toServer)
           l == Len(toClient)
           f == Head(toServer)
           m == Message(IF f.type = "ping" THEN "pong" ELSE "result", f.id,
                        IF f.type = "get_states" THEN house ELSE 0)
<1>1. /\ n \in Nat \ {0} /\ Len(toServer') = n - 1 /\ f = toServer[1] /\ f \in FrameTypes
      /\ \A k \in 1..(n - 1) : toServer'[k] = toServer[k + 1]
  BY Numbers, HeadTailProperties DEF Serve
<1>2. /\ link = "up" /\ phase = "command" /\ lastId' = f.id /\ toClient' = Append(toClient, m)
      /\ subscribed' = (subscribed \/ f.type = "subscribe_events")
      /\ answered' = (answered \/ f.type = "get_states")
      /\ UNCHANGED <<pc, snapshotId, link, phase, house, view>>
  BY DEF Serve, Reply, session
<1>3. /\ m \in MessageTypes /\ toClient \in Seq(MessageTypes) /\ m.id = f.id
      /\ (m.type = "result" <=> f.type # "ping") /\ m.type # "event"
      /\ (f.type = "get_states" => m.type = "result" /\ m.value = house)
      /\ lastId \in Nat /\ snapshotId \in Nat /\ f.id \in Nat
  BY <1>1 DEF Message, MessageTypes, FrameTypes, Typed, WireTypes, ServerTypes, SessionTypes
<1>4. /\ l \in Nat /\ Len(toClient') = l + 1 /\ toClient'[l + 1] = m
      /\ \A k \in 1..l : toClient'[k] = toClient[k]
  BY <1>2, <1>3, AppendProperties
<1>5. /\ 1 \in 1..n
      /\ \A k \in 1..(n - 1) : k + 1 \in 1..n /\ k + 1 # 1 /\ 1 \in 1..((k + 1) - 1)
      /\ \A k \in 1..(l + 1) : k \in 1..l \/ k = l + 1
      /\ \A k \in 1..l : k < l + 1 /\ ~(l + 1 < k)
  BY <1>1, <1>4
<1> HIDE DEF n, l, m, f
<1>6. /\ \A k \in 1..n : toServer[k] # Auth
      /\ lastId < f.id /\ 0 < f.id
      /\ \A k \in 1..(n - 1) : f.id < toServer'[k].id
  <2>1. \A k \in 1..n : toServer[k] # Auth
    BY <1>2 DEF Told, Greeted, n
  <2>2. lastId < f.id
    BY <1>1, <1>5, <2>1 DEF Numbering, IdsIncrease, n
  <2>3. \A k \in 1..(n - 1) : f.id < toServer'[k].id
    BY <1>1, <1>5, <2>1 DEF Numbering, IdsIncrease, n
  <2> QED BY <1>3, <2>1, <2>2, <2>3
<1>7. Greeted'
  <2>1. \A k \in 1..Len(toServer') : toServer'[k] # Auth
    BY <1>1, <1>5, <1>6
  <2> QED BY <1>2, <2>1 DEF Told, Greeted
<1>8. Resulted'
  <2>1. \A k \in 1..l : toClient[k].type = "result" =>
          0 < toClient[k].id /\ toClient[k].id <= lastId
    BY <1>2 DEF Told, Resulted, l
  <2>2. \A k \in 1..l : toClient[k].id \in Nat
    <3>1. \A k \in 1..l : toClient[k] \in MessageTypes
      BY <1>3 DEF l
    <3> QED BY <3>1 DEF MessageTypes
  <2>3. \A k \in 1..l : toClient[k].type = "result" => toClient[k].id < f.id
    BY <1>3, <1>6, <2>1, <2>2
  <2>4. \A k \in 1..(l + 1) :
          toClient'[k].type = "result" => 0 < toClient'[k].id /\ toClient'[k].id <= f.id
    BY <1>3, <1>4, <1>5, <1>6, <2>1, <2>2, <2>3
  <2>5. ASSUME NEW j \in 1..(l + 1), NEW k \in 1..(l + 1), j < k,
               toClient'[j].type = "result", toClient'[k].type = "result"
        PROVE  toClient'[j].id < toClient'[k].id
    <3>1. j \in 1..l
      BY <1>4, <2>5
    <3>2. CASE k \in 1..l
      BY <1>2, <1>4, <2>5, <3>1, <3>2 DEF Told, Resulted, l
    <3>3. CASE k = l + 1
      BY <1>3, <1>4, <2>3, <2>5, <3>1, <3>3
    <3> QED BY <1>5, <3>2, <3>3
  <2> QED BY <1>2, <1>4, <2>4, <2>5 DEF Resulted
<1>9. f.type = "get_states" => ~answered /\ f.id = snapshotId /\ subscribed /\ pc[Net] \notin Before
  <2>1. ~\E j \in 1..(1 - 1) : toServer[j].type = "subscribe_events"
    OBVIOUS
  <2> QED BY <1>1, <1>2, <1>5, <2>1 DEF Told, Asked, n
<1>10. answered => snapshotId < f.id
  BY <1>2, <1>3, <1>6 DEF Told, Asked
<1>11. Asked'
  <2>1. ASSUME NEW k \in 1..(n - 1), toServer'[k].type = "get_states"
        PROVE  /\ pc[Net] \notin Before /\ ~answered' /\ toServer'[k].id = snapshotId
               /\ subscribed' \/ \E j \in 1..(k - 1) : toServer'[j].type = "subscribe_events"
    <3>1. k + 1 \in 1..n /\ toServer[k + 1].type = "get_states" /\ (k + 1) - 1 = k /\ k \in Nat
      BY <1>1, <1>5, <2>1
    <3>2. pc[Net] \notin Before /\ ~answered /\ toServer'[k].id = snapshotId
      BY <1>1, <1>2, <3>1 DEF Told, Asked, n
    <3>3. f.type # "get_states"
      BY <1>3, <1>6, <1>9, <3>2
    <3>4. CASE subscribed
      BY <1>2, <3>2, <3>3, <3>4
    <3>5. CASE ~subscribed
      <4>1. PICK j \in 1..k : toServer[j].type = "subscribe_events"
        BY <1>2, <3>1, <3>5 DEF Told, Asked, n
      <4>2. CASE j = 1
        BY <1>1, <1>2, <3>2, <3>3, <4>1, <4>2
      <4>3. CASE j # 1
        <5>1. j - 1 \in 1..(k - 1) /\ j - 1 \in 1..(n - 1) /\ (j - 1) + 1 = j
          BY <1>1, <3>1, <4>1, <4>3
        <5>2. toServer'[j - 1].type = "subscribe_events"
          BY <1>1, <4>1, <5>1
        <5> QED BY <1>2, <3>2, <3>3, <5>1, <5>2
      <4> QED BY <4>2, <4>3
    <3> QED BY <3>4, <3>5
  <2>2. ASSUME NEW type, \E k \in 1..n : toServer[k].type = type, f.type # type
        PROVE  \E k \in 1..(n - 1) : toServer'[k].type = type
    <3>1. PICK k \in 1..n : toServer[k].type = type
      BY <2>2
    <3>2. k # 1
      BY <1>1, <2>2, <3>1
    <3>3. k - 1 \in 1..(n - 1) /\ (k - 1) + 1 = k
      BY <1>1, <3>1, <3>2
    <3> QED BY <1>1, <3>1, <3>3
  <2>3. ~answered' /\ snapshotId # 0 => \E k \in 1..(n - 1) : toServer'[k].type = "get_states"
    <3>1. ~answered /\ snapshotId # 0 => \E k \in 1..n : toServer[k].type = "get_states"
      BY <1>2 DEF Told, Asked, n
    <3> QED BY <1>2, <2>2, <3>1
  <2>4. pc[Net] = "snapshot" =>
          subscribed' \/ \E k \in 1..(n - 1) : toServer'[k].type = "subscribe_events"
    <3>1. pc[Net] = "snapshot" =>
            subscribed \/ \E k \in 1..n : toServer[k].type = "subscribe_events"
      BY <1>2 DEF Told, Asked, n
    <3> QED BY <1>2, <2>2, <3>1
  <2>5. pc[Net] \in Before => ~answered'
    BY <1>2, <1>9 DEF Told, Asked
  <2>6. answered' => snapshotId <= f.id /\ subscribed'
    <3>1. CASE answered
      <4>1. subscribed
        BY <1>2, <3>1 DEF Told, Asked
      <4> QED BY <1>2, <1>3, <1>10, <3>1, <4>1
    <3>2. CASE f.type = "get_states"
      BY <1>2, <1>3, <1>9, <3>2
    <3> QED BY <1>2, <3>1, <3>2
  <2> QED BY <1>1, <1>2, <2>1, <2>3, <2>4, <2>5, <2>6 DEF Asked
<1>12. NoChangeLost'
  <2> SUFFICES ASSUME answered' PROVE Fresh(toClient', snapshotId, view, house)
    BY <1>2 DEF NoChangeLost, Fresh, Tells, Carries
  <2>1. CASE f.type = "get_states"
    <3>1. Tells(m, snapshotId) /\ m.value = house
      BY <1>3, <1>9, <2>1 DEF Tells
    <3> QED BY <1>2, <1>3, <3>1, FreshTold
  <2>2. CASE f.type # "get_states"
    <3>1. answered
      BY <1>2, <2>2
    <3>2. ~Tells(m, snapshotId)
      BY <1>3, <1>10, <3>1 DEF Tells
    <3>3. Fresh(toClient, snapshotId, view, house)
      BY <1>2, <3>1, FreshIsNoChangeLost DEF Told
    <3> QED BY <1>2, <1>3, <3>2, <3>3, FreshPast
  <2> QED BY <2>1, <2>2
<1> QED BY <1>7, <1>8, <1>11, <1>12 DEF Told

(* A change after the snapshot was taken is an event: the subscription was *)
(* there before it.                                                        *)
LEMMA ChangeTold ==
  ASSUME Typed, Told, Change
  PROVE  Told'
<1>1. UNCHANGED <<pc, snapshotId, view, link, toServer, phase, subscribed, answered, lastId>>
  BY DEF Change, session, server
<1>2. SUFFICES ASSUME link = "up" PROVE Told'
  BY <1>1, NotUp
<1> DEFINE m == Message("event", 0, house + 1)
<1>3. /\ m \in MessageTypes /\ toClient \in Seq(MessageTypes) /\ m.type = "event"
      /\ m.value = house + 1 /\ house' = house + 1
      /\ (subscribed => toClient' = Append(toClient, m)) /\ (~subscribed => toClient' = toClient)
  BY <1>2 DEF Change, Reply, Message, MessageTypes, Typed, WireTypes, ServerTypes
<1>4. Greeted' /\ Asked'
  BY <1>1 DEF Told, Greeted, Asked
<1>5. Resulted'
  <2>1. CASE toClient' = toClient
    BY <1>1, <2>1 DEF Told, Resulted
  <2>2. CASE toClient' = Append(toClient, m)
    <3> DEFINE l == Len(toClient)
    <3>1. /\ l \in Nat /\ Len(toClient') = l + 1 /\ toClient'[l + 1].type # "result"
          /\ \A k \in 1..l : toClient'[k] = toClient[k]
      BY <1>3, <2>2, AppendProperties
    <3>2. \A k \in 1..(l + 1) : k \in 1..l \/ k = l + 1
      BY <3>1
    <3> HIDE DEF l
    <3>3. \A k \in 1..Len(toClient') : toClient'[k].type = "result" =>
            k \in 1..l /\ toClient'[k] = toClient[k]
      BY <3>1, <3>2
    <3> QED BY <1>1, <3>3 DEF Told, Resulted, l
  <2> QED BY <1>3, <2>1, <2>2
<1>6. NoChangeLost'
  <2> SUFFICES ASSUME answered PROVE Fresh(toClient', snapshotId, view, house')
    BY <1>1 DEF NoChangeLost, Fresh, Tells, Carries
  <2>1. subscribed
    BY <1>2 DEF Told, Asked
  <2>2. Tells(m, snapshotId)
    BY <1>3 DEF Tells
  <2> HIDE DEF m
  <2> QED BY <1>3, <2>1, <2>2, FreshTold
<1> QED BY <1>4, <1>5, <1>6 DEF Told

LEMMA SendingTold ==
  ASSUME Typed, Numbering, Composed, Told,
         \/ \E a \in Algorithms : Send(a) \/ WriteCall(a) \/ WriteRaises(a) \/ FileCall(a)
         \/ Authenticate \/ WriteAsk \/ WriteRaises(Net)
  PROVE  Told'
<1>0. Net \in Threads /\ Algorithms \subseteq Threads /\ Net \notin Algorithms
  BY NetThread DEF Threads
<1>1. ASSUME NEW a \in Algorithms, Send(a) \/ WriteCall(a) \/ WriteRaises(a) \/ FileCall(a)
      PROVE  Told'
  <2>1. /\ pc'[Net] = pc[Net]
        /\ UNCHANGED <<link, toClient, phase, subscribed, answered, lastId, house, view, snapshotId>>
    BY <1>1, Aside
  <2>2. CASE toServer' = toServer
    BY <2>1, <2>2, Unheard
  <2>3. CASE WriteCall(a) /\ link = "up"
    <3>1. frame[a] \in FrameTypes /\ frame[a].type = "call" /\ toServer' = Append(toServer, frame[a])
      BY <1>0, <2>3 DEF WriteCall, Writing, Write, Composed, Typed, CommandTypes, FrameTypes, Numbered
    <3>2. pc[Net] \notin {"top", "backoff", "done"}
      BY <2>3 DEF Told, Greeted
    <3> QED BY <2>1, <2>3, <3>1, <3>2, Sent
  <2>4. CASE WriteCall(a) /\ link # "up"
    BY <2>1, <2>4, NotUp
  <2>5. WriteCall(a) \/ toServer' = toServer
    BY <1>1 DEF Send, WriteRaises, FileCall, wire
  <2> QED BY <2>2, <2>3, <2>4, <2>5
<1>2. CASE WriteRaises(Net)
  BY <1>2, NotUp DEF WriteRaises, wire
<1>3. CASE Authenticate
  <2>1. /\ UNCHANGED <<link, toClient, phase, subscribed, answered, lastId, house, view, snapshotId>>
        /\ pc[Net] = "auth" /\ pc'[Net] = "reply"
    BY <1>0, <1>3 DEF Authenticate, At, Goto, session, server, Typed, PlaceTypes
  <2>2. CASE link # "up"
    BY <2>1, <2>2, NotUp
  <2>3. CASE link = "up"
    <3>1. toServer' = Append(toServer, Auth) /\ Auth \in FrameTypes
      BY <1>3, <2>3 DEF Authenticate, Write, Auth, FrameTypes
    <3> QED BY <2>1, <2>3, <3>1, Sent
  <2> QED BY <2>2, <2>3
<1>4. CASE WriteAsk
  <2>1. /\ UNCHANGED <<link, toClient, phase, subscribed, answered, lastId, house, view>>
        /\ frame[Net] # NoFrame
        /\ pc'[Net] = IF pc[Net] = "subscribe" THEN "snapshot" ELSE Again
        /\ snapshotId' = IF frame[Net].type = "get_states" THEN frame[Net].id ELSE snapshotId
    BY <1>0, <1>4 DEF WriteAsk, Writing, At, Goto, server, Typed, PlaceTypes
  <2>2. CASE link # "up"
    BY <2>1, <2>2, NotUp
  <2>3. CASE link = "up"
    <3>1. toServer' = Append(toServer, frame[Net]) /\ frame[Net] \in FrameTypes
      BY <1>0, <1>4, <2>1, <2>3
         DEF WriteAsk, Write, Typed, CommandTypes, FrameTypes, Numbered
    <3>2. Again \in {"receive", "teardown"}
      BY DEF Again
    <3> QED BY <2>1, <2>3, <3>1, <3>2, Sent DEF Composed, Before
  <2> QED BY <2>2, <2>3
<1> QED BY <1>1, <1>2, <1>3, <1>4

LEMMA ToldStep ==
  Typed /\ Numbering /\ Composed /\ Forgotten /\ Told /\ [Next]_vars => Told'
<1> SUFFICES ASSUME Typed, Numbering, Composed, Forgotten, Told, [Next]_vars PROVE Told'
  OBVIOUS
<1>0. Net \in Threads
  BY NetThread
<1>1. CASE UNCHANGED vars \/ SetStop \/ Ask \/ (Abort /\ ~ws)
  <2>1. UNCHANGED <<link, toServer, toClient, phase, subscribed, answered, lastId, house, view,
                    snapshotId, pc>>
    BY <1>1 DEF vars, SetStop, Ask, Abort, session, wire, server
  <2> QED BY <2>1, Unheard
<1>2. CASE (Abort /\ ws) \/ Teardown \/ Drop
  <2>1. link' # "up"
    BY <1>2 DEF Abort, Teardown, Drop
  <2> QED BY <2>1, NotUp
<1>3. CASE Leave \/ Backoff \/ ConnectRaises \/ ReceiveRaises
  <2>1. link # "up" /\ link' = link
    BY <1>3 DEF Leave, Backoff, ConnectRaises, ReceiveRaises, At, wire, Told, Greeted
  <2> QED BY <2>1, NotUp
<1>4. CASE Connect
  <2>1. /\ toServer' = << >> /\ toClient' = <<Message("auth_required", 0, 0)>>
        /\ pc'[Net] = "publish" /\ snapshotId' = snapshotId /\ snapshotId = 0
        /\ UNCHANGED <<phase, subscribed, answered>>
    BY <1>0, <1>4 DEF Connect, At, Goto, session, server, Composed, Before, Typed, PlaceTypes
  <2>2. phase = "auth" /\ ~subscribed /\ ~answered
    <3>1. link # "up"
      BY <1>4 DEF Connect, At, Told, Greeted
    <3> QED BY <3>1 DEF Forgotten
  <2>3. Greeted' /\ Asked' /\ NoChangeLost'
    BY <2>1, <2>2 DEF Greeted, Asked, NoChangeLost
  <2>4. Resulted'
    <3>1. Len(toClient') = 1 /\ \A k \in 1..1 : toClient'[k].type # "result"
      BY <2>1 DEF Message
    <3> QED BY <3>1 DEF Resulted
  <2> QED BY <2>3, <2>4 DEF Told
<1>5. CASE Publish \/ HandshakeRaises \/ Timeout
  <2>1. UNCHANGED <<link, toServer, toClient, phase, subscribed, answered, lastId, house, view,
                    snapshotId>>
    BY <1>5 DEF Publish, HandshakeRaises, Timeout, session, wire, server
  <2>2. \/ pc[Net] = "publish" /\ pc'[Net] = "hello"
        \/ pc'[Net] \in {"teardown", "ping"}
    BY <1>0, <1>5 DEF Publish, HandshakeRaises, Timeout, At, Goto, Typed, PlaceTypes
  <2> QED BY <2>1, <2>2, Unheard DEF Before
<1>6. CASE Hello \/ Accepted \/ Rejected
  <2>1. /\ toClient # << >> /\ toClient' = Tail(toClient)
        /\ UNCHANGED <<link, toServer, phase, subscribed, answered, lastId, house, view, snapshotId>>
        /\ Head(toClient).type \notin {"result", "event"}
    BY <1>6 DEF Hello, Accepted, Rejected, Expect, session, server
  <2>2. \/ pc[Net] = "hello" /\ pc'[Net] = "auth"
        \/ pc[Net] = "reply" /\ pc'[Net] \in {"subscribe", "rejected"}
    BY <1>0, <1>6 DEF Hello, Accepted, Rejected, Expect, At, Goto, Typed, PlaceTypes
  <2> QED BY <2>1, <2>2, Heard DEF Before
<1>7. CASE Receive
  <2>1. /\ toClient # << >> /\ toClient' = Tail(toClient) /\ pc[Net] = "receive"
        /\ UNCHANGED <<link, toServer, phase, subscribed, answered, lastId, house>>
        /\ snapshotId' = IF Head(toClient).type = "result" /\ Head(toClient).id = snapshotId
                         THEN 0 ELSE snapshotId
        /\ view' = IF Tells(Head(toClient), snapshotId) THEN Head(toClient).value ELSE view
    BY <1>7 DEF Receive, At, server, Tells
  <2>2. pc'[Net] \in {"receive", "teardown"}
    BY <1>0, <1>7 DEF Receive, Again, Goto, Typed, PlaceTypes
  <2> QED BY <2>1, <2>2, Heard
<1> QED BY <1>1, <1>2, <1>3, <1>4, <1>5, <1>6, <1>7, TokenTold, ServeTold, ChangeTold, SendingTold
        DEF Next, Session

(* Subscribe first, then snapshot, is lossless: over any number of         *)
(* sessions, changes and commands, once the snapshot was taken the newest  *)
(* of what the device shows and what is on its way is the entity's state.  *)
THEOREM NoChangeLostHolds == Spec => []NoChangeLost
<1> DEFINE Inv == Typed /\ Numbering /\ Composed /\ Forgotten /\ Told
<1>1. Init => Inv
  <2> SUFFICES ASSUME Init PROVE Inv
    OBVIOUS
  <2>1. Typed /\ Numbering
    BY TypedInit, NumberingInit
  <2>2. Composed
    BY NetThread DEF Init, Composed, Threads
  <2>3. Told
    BY DEF Init, Told, Greeted, Resulted, Asked, NoChangeLost
  <2>4. Forgotten
    BY DEF Init, Forgotten
  <2> QED BY <2>1, <2>2, <2>3, <2>4
<1>2. Inv /\ [Next]_vars => Inv'
  BY TypedStep, NumberingStep, ComposedStep, ForgottenStep, ToldStep
<1>3. Inv => NoChangeLost
  BY DEF Told
<1> QED BY <1>1, <1>2, <1>3, PTL DEF Spec
=============================================================================
