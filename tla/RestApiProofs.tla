--------------------------- MODULE RestApiProofs ---------------------------
(***************************************************************************)
(* Theorems about RestApi, for any workers, any restart policy and any     *)
(* number of requests.                                                     *)
(***************************************************************************)
EXTENDS RestApi, FiniteSetTheorems, TLAPS

(* TypeOK, by the part of the program that writes the variables. *)
ThreadTypes ==
  /\ thread \in [Workers -> {"none", "listed", "target", "crashed", "backoff", "retire",
                             "unwinding", "dead"}]
  /\ restarts \in [Workers -> 0..MaxRestarts] /\ crashes \in [Workers -> 0..(MaxRestarts + 1)]
  /\ clean \subseteq Workers /\ finished \subseteq Workers

MainTypes ==
  /\ mainPc \in {"append", "start", "run", "setEvent", "callStop", "flag", "join"}
  /\ mainAt \in 1..(Len(Order) + 1) /\ stopEvent \subseteq Workers /\ stopping \subseteq Workers
  /\ mainPc # "join" => mainAt \in Positions

ServerTypes ==
  /\ serverPc \in {"guard", "publish", "bind", "serving", "ended", "failed"}
  /\ published \in BOOLEAN /\ shouldExit \in BOOLEAN

RequestTypes ==
  /\ requestPc \in {"none", "finished", "clean", "alive", "crashes", "answer"}
  /\ requestAt \in Positions /\ listed \in 0..Len(Order) /\ answered \in 0..Requests
  /\ requestPc # "none" => requestAt <= listed
  /\ state \in [Workers -> {"unread", "running", "finished", "down", "lost"}]
  /\ damaged \subseteq Workers /\ wasDown \subseteq Workers /\ wasDamaged \subseteq Workers

(* Each crash is followed by a restart or is the last one. *)
Budget ==
  \A w \in Workers :
    /\ crashes[w] <= restarts[w] + 1
    /\ thread[w] \in {"none", "listed", "target", "backoff"} => crashes[w] <= restarts[w]

(* A worker main() has still to start has not run: none is started twice. *)
Unstarted ==
  /\ mainPc \in {"append", "start"} =>
       \A k \in Positions : k > mainAt => thread[Order[k]] = "none"
  /\ mainPc = "append" => thread[Order[mainAt]] = "none"
  /\ mainPc = "start" => thread[Order[mainAt]] = "listed"

(* A worker leaves its target only by a return, which is recorded as clean *)
(* before anybody can see it finished, or by a crash, which is counted.    *)
OnTheWayOut ==
  \A w \in Workers :
    thread[w] \in {"crashed", "backoff", "retire", "unwinding", "dead"} \/ w \in finished
      => w \in clean \/ crashes[w] > 0

(* In a backoff, and before it, the crash that led there is counted. *)
BackoffHasCrashed ==
  \A w \in Workers : thread[w] \in {"crashed", "backoff"} => crashes[w] > 0

(* Past the finally of _run, finished is set. *)
UnwindingIsFinished ==
  \A w \in Workers : thread[w] \in {"unwinding", "dead"} => w \in finished

(* Between its first read and its second, the handler holds a worker that  *)
(* is finished for good.                                                   *)
CleanReadIsFinished == requestPc = "clean" => Current \in finished

Typed == ThreadTypes /\ MainTypes /\ ServerTypes /\ RequestTypes

WayOut == BackoffHasCrashed /\ OnTheWayOut /\ UnwindingIsFinished

IInv ==
  /\ Typed /\ Budget /\ Unstarted /\ WayOut
  /\ CleanReadIsFinished /\ DownHasCrashed

LEMMA TypesAreTypeOK == Typed => TypeOK
BY DEF Typed, ThreadTypes, MainTypes, ServerTypes, RequestTypes, TypeOK

(* The workers in the list are at most the workers there are. *)
LEMMA ListedBound ==
  ASSUME NEW S \in SUBSET Workers
  PROVE  /\ Cardinality(S) \in 0..Len(Order)
         /\ S # {} => Cardinality(S) >= 1
<1> DEFINE n == Len(Order)
           f == [k \in Positions |-> Order[k]]
<1>1. n \in Nat /\ Positions = 1..n
  BY RestAssumption DEF Positions
<1>2. IsFiniteSet(Positions) /\ Cardinality(Positions) = n
  <2>1. 1 \in Int /\ n \in Int /\ (IF 1 > n THEN 0 ELSE n - 1 + 1) = n
    BY <1>1
  <2> HIDE DEF n
  <2> QED BY <1>1, <2>1, FS_Interval
<1>3. f \in Surjection(Positions, Workers)
  BY DEF Surjection, Workers
<1>4. IsFiniteSet(Workers) /\ Cardinality(Workers) <= n
  BY <1>2, <1>3, FS_Surjection
<1>5. IsFiniteSet(S) /\ Cardinality(S) <= Cardinality(Workers)
  BY <1>4, FS_Subset
<1>6. Cardinality(S) \in Nat /\ Cardinality(Workers) \in Nat
  BY <1>4, <1>5, FS_CardinalityType
<1>7. S # {} => Cardinality(S) # 0
  BY <1>5, FS_EmptySet
<1> QED BY <1>1, <1>4, <1>5, <1>6, <1>7

(* What the handler has found stays true while it does not move: workers   *)
(* are only ever added to the finished, and crashes only counted up.       *)
LEMMA RequestFrame ==
  ASSUME IInv, ThreadTypes', UNCHANGED request, finished \subseteq finished',
         \A w \in Workers : crashes[w] > 0 => crashes'[w] > 0
  PROVE  RequestTypes' /\ CleanReadIsFinished' /\ DownHasCrashed'
<1>1. RequestTypes'
  BY DEF IInv, Typed, RequestTypes, request
<1>2. CleanReadIsFinished'
  BY DEF IInv, CleanReadIsFinished, request, Current
<1>3. DownHasCrashed'
  BY DEF IInv, DownHasCrashed, request
<1> QED BY <1>1, <1>2, <1>3

(* What holds of the threads and main() when neither moves. *)
LEMMA ThreadFrame ==
  ASSUME IInv, UNCHANGED <<thread, counters, finished>>
  PROVE  ThreadTypes' /\ Budget' /\ WayOut'
<1>1. ThreadTypes'
  BY DEF IInv, Typed, ThreadTypes, counters
<1>2. Budget'
  BY DEF IInv, Budget, counters
<1>3. WayOut'
  BY DEF IInv, WayOut, BackoffHasCrashed, OnTheWayOut, UnwindingIsFinished, counters
<1> QED BY <1>1, <1>2, <1>3

(* A step of one worker's thread, from where it was to where it goes. It   *)
(* never touches a worker that main() has still to start.                  *)
LEMMA WorkerMove ==
  ASSUME IInv, NEW w \in Workers, NEW from, NEW to, In(w, from, to),
         from \notin {"none", "listed"}, UNCHANGED main
  PROVE  MainTypes' /\ Unstarted'
<1>1. MainTypes'
  BY DEF IInv, Typed, MainTypes, main
<1>2. \A v \in Workers : thread[v] \in {"none", "listed"} => thread'[v] = thread[v]
  BY DEF In, IInv, Typed, ThreadTypes
<1>3. \A k \in Positions : Order[k] \in Workers
  BY DEF Workers
<1>4. mainPc \in {"append", "start"} => mainAt \in Positions
  BY DEF IInv, Typed, MainTypes
<1>5. Unstarted'
  BY <1>2, <1>3, <1>4 DEF IInv, Unstarted, main
<1> QED BY <1>1, <1>5

(* What SMT needs of the types: domains, and counters that are numbers. *)
LEMMA Counters ==
  ASSUME ThreadTypes
  PROVE  /\ thread = [v \in Workers |-> thread[v]]
         /\ crashes \in [Workers -> Nat] /\ restarts \in [Workers -> Nat]
<1>1. thread = [v \in Workers |-> thread[v]]
  BY DEF ThreadTypes
<1>2. 0..MaxRestarts \subseteq Nat /\ 0..(MaxRestarts + 1) \subseteq Nat
  BY RestAssumption
<1>3. crashes \in [Workers -> Nat]
  BY <1>2 DEF ThreadTypes
<1>4. restarts \in [Workers -> Nat]
  BY <1>2 DEF ThreadTypes
<1> QED BY <1>1, <1>3, <1>4

(* The three ways out of a target. *)
LEMMA TargetEnds ==
  ASSUME IInv, NEW w \in Workers, Returns(w) \/ Raises(w) \/ Exits(w),
         UNCHANGED <<finished, main, request>>
  PROVE  /\ ThreadTypes' /\ Budget' /\ Unstarted' /\ WayOut' /\ MainTypes'
         /\ RequestTypes' /\ CleanReadIsFinished' /\ DownHasCrashed'
<1>1. MainTypes' /\ Unstarted'
  BY WorkerMove DEF Returns, Raises, Exits
<1>2. /\ thread = [v \in Workers |-> thread[v]] /\ thread[w] = "target"
      /\ crashes \in [Workers -> Nat] /\ restarts \in [Workers -> Nat]
      /\ crashes[w] <= restarts[w] /\ restarts[w] \in 0..MaxRestarts /\ MaxRestarts \in Nat
  <2>1. thread[w] = "target"
    BY DEF Returns, Raises, Exits, In
  <2> QED BY <2>1, Counters, RestAssumption DEF IInv, Typed, ThreadTypes, Budget
<1>3. ThreadTypes'
  BY <1>2 DEF IInv, Typed, ThreadTypes, Returns, Raises, Exits, In
<1>4. Budget'
  BY <1>2 DEF IInv, Budget, Returns, Raises, Exits, In
<1>5. WayOut'
  BY <1>2 DEF IInv, WayOut, BackoffHasCrashed, OnTheWayOut, UnwindingIsFinished,
              Returns, Raises, Exits, In
<1>6. \A v \in Workers : crashes[v] > 0 => crashes'[v] > 0
  BY <1>2 DEF Returns, Raises, Exits
<1>7. RequestTypes' /\ CleanReadIsFinished' /\ DownHasCrashed'
  BY <1>3, <1>6, RequestFrame
<1> QED BY <1>1, <1>3, <1>4, <1>5, <1>7

(* A step of a thread outside of its target. *)
LEMMA WorkerSteps ==
  ASSUME IInv, NEW w \in Workers, WorkerNext(w)
  PROVE  IInv'
<1>1. CASE EndTarget(w)
  <2>1. ServerTypes'
    BY <1>1 DEF EndTarget, IInv, Typed, ServerTypes, server
  <2> QED BY <1>1, <2>1, TargetEnds DEF EndTarget, IInv, Typed
<1>2. CASE GiveUp(w) \/ Backoff(w) \/ EndBackoff(w) \/ SetFinished(w) \/ Die(w)
  <2> USE <1>2
  <2>1. ServerTypes'
    BY DEF GiveUp, Backoff, EndBackoff, SetFinished, Die, IInv, Typed, ServerTypes, server
  <2>2. MainTypes' /\ Unstarted'
    BY WorkerMove DEF GiveUp, Backoff, EndBackoff, SetFinished, Die
  <2>3. ThreadTypes'
    <3>1. ThreadTypes
      BY DEF IInv, Typed
    <3>2. CASE Backoff(w)
      <4>1. restarts[w] \in 0..MaxRestarts /\ restarts[w] < MaxRestarts /\ MaxRestarts \in Nat
        BY <3>1, <3>2, RestAssumption DEF Backoff, MayRestart, ThreadTypes
      <4>2. restarts[w] + 1 \in 0..MaxRestarts
        BY <4>1
      <4> QED BY <3>1, <3>2, <4>2 DEF Backoff, In, ThreadTypes
    <3>3. CASE GiveUp(w) \/ EndBackoff(w) \/ Die(w)
      BY <3>1, <3>3 DEF GiveUp, EndBackoff, Die, In, counters, ThreadTypes
    <3>4. CASE SetFinished(w)
      BY <3>1, <3>4 DEF SetFinished, In, counters, ThreadTypes
    <3> QED BY <3>2, <3>3, <3>4
  <2>4. Budget'
    <3>1. /\ thread = [v \in Workers |-> thread[v]]
          /\ crashes \in [Workers -> Nat] /\ restarts \in [Workers -> Nat]
      BY Counters DEF IInv, Typed
    <3> QED BY <3>1 DEF GiveUp, Backoff, EndBackoff, SetFinished, Die, In, counters,
                        IInv, Budget
  <2>5. WayOut'
    BY DEF GiveUp, Backoff, EndBackoff, SetFinished, Die, In, counters, IInv, Typed,
           ThreadTypes, WayOut, BackoffHasCrashed, OnTheWayOut, UnwindingIsFinished
  <2>6. UNCHANGED request /\ UNCHANGED crashes /\ finished \subseteq finished'
    BY DEF GiveUp, Backoff, EndBackoff, SetFinished, Die, counters
  <2>7. RequestTypes' /\ CleanReadIsFinished' /\ DownHasCrashed'
    BY <2>3, <2>6, RequestFrame
  <2> QED BY <2>1, <2>2, <2>3, <2>4, <2>5, <2>7 DEF IInv, Typed
<1> QED BY <1>1, <1>2 DEF WorkerNext

LEMMA ServerSteps ==
  ASSUME IInv, ServerNext
  PROVE  IInv'
<1>1. Server \in Workers
  BY RestAssumption
<1>2. ServerTypes'
  <2>1. ServerTypes
    BY DEF IInv, Typed
  <2>2. serverPc' \in {"guard", "publish", "bind", "serving", "ended", "failed"}
    BY DEF ServerNext, GuardStart, Publish, Bind, EndServing, Unpublish, Serving
  <2>3. published' \in BOOLEAN /\ shouldExit' \in BOOLEAN
    <3>1. CASE UNCHANGED <<published, shouldExit>>
      BY <2>1, <3>1 DEF ServerTypes
    <3>2. CASE Publish
      <4>1. (Server \in stopping) \in BOOLEAN
        OBVIOUS
      <4> QED BY <3>2, <4>1, Zenon DEF Publish
    <3>3. CASE Unpublish
      BY <2>1, <3>3, Zenon DEF Unpublish, ServerTypes
    <3> QED BY <3>1, <3>2, <3>3 DEF ServerNext, GuardStart, Bind, EndServing
  <2> QED BY <2>2, <2>3 DEF ServerTypes
<1>3. UNCHANGED <<finished, main, request>>
  BY DEF ServerNext, GuardStart, Publish, Bind, EndServing, Unpublish
<1>4. CASE Returns(Server) \/ Raises(Server)
  BY <1>1, <1>2, <1>3, <1>4, TargetEnds DEF IInv, Typed
<1>5. CASE UNCHANGED <<thread, counters>>
  <2>1. ThreadTypes' /\ Budget' /\ WayOut'
    BY <1>3, <1>5, ThreadFrame
  <2>2. MainTypes' /\ Unstarted'
    BY <1>3, <1>5 DEF IInv, Typed, MainTypes, Unstarted, main
  <2>3. RequestTypes' /\ CleanReadIsFinished' /\ DownHasCrashed'
    BY <1>3, <1>5, <2>1, RequestFrame DEF counters
  <2> QED BY <1>2, <2>1, <2>2, <2>3 DEF IInv, Typed
<1> QED BY <1>4, <1>5 DEF ServerNext, GuardStart, Publish, Bind, EndServing, Unpublish

(* main() starts each worker once, in order. *)
LEMMA StartSteps ==
  ASSUME IInv, Supervise \/ StartThread
  PROVE  IInv'
<1> DEFINE w == Order[mainAt]
<1>1. mainAt \in Positions /\ w \in Workers /\ Positions = 1..Len(Order) /\ Len(Order) \in Nat
  BY RestAssumption DEF IInv, Typed, MainTypes, Workers, Supervise, StartThread, Positions
<1>2. /\ \A k \in Positions : k > mainAt => thread[Order[k]] = "none"
      /\ thread[w] \in {"none", "listed"}
  BY DEF IInv, Unstarted, Supervise, StartThread
<1>3. /\ thread \in [Workers -> {"none", "listed", "target", "crashed", "backoff", "retire",
                                 "unwinding", "dead"}]
      /\ thread' = [thread EXCEPT ![w] = IF mainPc = "append" THEN "listed" ELSE "target"]
      /\ UNCHANGED <<counters, finished, server, request>>
  BY DEF IInv, Typed, ThreadTypes, Supervise, StartThread
<1>4. ThreadTypes'
  BY <1>1, <1>3 DEF IInv, Typed, ThreadTypes, counters
<1>5. Budget'
  BY <1>1, <1>2, <1>3 DEF IInv, Budget, counters
<1>6. WayOut'
  BY <1>1, <1>3 DEF IInv, WayOut, BackoffHasCrashed, OnTheWayOut, UnwindingIsFinished, counters
<1>7. MainTypes'
  BY <1>1 DEF IInv, Typed, MainTypes, Supervise, StartThread
<1>8. Unstarted'
  <2>1. \A k \in Positions : k > mainAt => Order[k] # w /\ Order[k] \in Workers
    BY <1>1, RestAssumption DEF Workers
  <2>2. \A k \in Positions : k > mainAt => thread'[Order[k]] = "none"
    BY <1>2, <1>3, <2>1
  <2>3. mainPc' = "start" => thread'[w] = "listed" /\ mainAt' = mainAt
    BY <1>1, <1>3 DEF Supervise, StartThread
  <2>4. mainPc' = "append" => mainAt' = mainAt + 1 /\ mainAt' \in Positions
    BY <1>1, <1>7 DEF Supervise, StartThread, MainTypes
  <2>5. mainPc' \in {"append", "start"} => mainAt' >= mainAt
    BY <1>1, <2>3, <2>4
  <2> QED BY <1>1, <2>2, <2>3, <2>4, <2>5 DEF Unstarted
<1>9. ServerTypes'
  BY <1>3 DEF IInv, Typed, ServerTypes, server
<1>10. RequestTypes' /\ CleanReadIsFinished' /\ DownHasCrashed'
  BY <1>3, <1>4, RequestFrame DEF counters
<1> QED BY <1>4, <1>5, <1>6, <1>7, <1>8, <1>9, <1>10 DEF IInv, Typed

LEMMA StopSteps ==
  ASSUME IInv, Shutdown \/ SetStopEvent \/ CallStop \/ FlagServer
  PROVE  IInv'
<1>1. UNCHANGED <<thread, counters, finished, request>>
  BY DEF Shutdown, SetStopEvent, CallStop, FlagServer
<1>2. ThreadTypes' /\ Budget' /\ WayOut'
  BY <1>1, ThreadFrame
<1>3. RequestTypes' /\ CleanReadIsFinished' /\ DownHasCrashed'
  BY <1>1, <1>2, RequestFrame DEF counters
<1>4. ServerTypes'
  BY DEF IInv, Typed, ServerTypes, server, Shutdown, SetStopEvent, CallStop, FlagServer
<1>5. MainTypes'
  <2>1. mainAt \in Positions /\ Positions = 1..Len(Order) /\ Len(Order) \in Nat
        /\ Order[mainAt] \in Workers
    BY RestAssumption DEF IInv, Typed, MainTypes, Workers, Positions, Shutdown, SetStopEvent,
                          CallStop, FlagServer
  <2>2. stopEvent' \subseteq Workers /\ stopping' \subseteq Workers
    BY <2>1 DEF IInv, Typed, MainTypes, Shutdown, SetStopEvent, CallStop, FlagServer
  <2> QED BY <2>1, <2>2 DEF IInv, Typed, MainTypes, Shutdown, SetStopEvent, CallStop, FlagServer
<1>6. Unstarted'
  BY DEF Unstarted, Shutdown, SetStopEvent, CallStop, FlagServer
<1> QED BY <1>2, <1>3, <1>4, <1>5, <1>6 DEF IInv, Typed

(* The handler: what it calls down it saw finished, then not clean. *)
LEMMA HealthSteps ==
  ASSUME IInv, HealthNext
  PROVE  IInv'
<1>1. UNCHANGED <<thread, counters, finished, server, main>>
  BY DEF HealthNext, TakeSnapshot, ReadFinished, ReadClean, ReadAlive, ReadCrashes, Answer
<1>2. ThreadTypes' /\ Budget' /\ WayOut'
  BY <1>1, ThreadFrame
<1>3. ServerTypes' /\ MainTypes' /\ Unstarted'
  BY <1>1 DEF IInv, Typed, ServerTypes, MainTypes, Unstarted, server, main
<1>4. /\ Positions = 1..Len(Order) /\ Len(Order) \in Nat /\ Requests \in Nat
      /\ requestAt \in Positions /\ Current \in Workers
  BY RestAssumption DEF IInv, Typed, RequestTypes, Workers, Positions, Current
<1>5. RequestTypes'
  <2>1. CASE TakeSnapshot
    <3> DEFINE S == {v \in Workers : thread[v] # "none"}
    <3>1. Server \in S /\ S \in SUBSET Workers
      BY <2>1, RestAssumption DEF TakeSnapshot
    <3>2. Cardinality(S) \in 0..Len(Order) /\ Cardinality(S) >= 1
      BY <3>1, ListedBound
    <3>3. listed' = Cardinality(S) /\ requestAt' = 1
      BY <2>1 DEF TakeSnapshot
    <3>4. listed' \in 0..Len(Order) /\ requestAt' \in Positions /\ requestAt' <= listed'
      BY <1>4, <3>2, <3>3
    <3>5. answered' \in 0..Requests
      BY <1>4, <2>1 DEF TakeSnapshot, IInv, Typed, RequestTypes
    <3>6. finished \ clean \subseteq Workers
      BY DEF IInv, Typed, ThreadTypes
    <3> QED BY <2>1, <3>4, <3>5, <3>6 DEF TakeSnapshot, IInv, Typed, RequestTypes
  <2>2. CASE ReadFinished \/ Answer
    BY <2>2 DEF ReadFinished, Answer, IInv, Typed, RequestTypes
  <2>3. CASE ReadClean \/ ReadAlive
    <3>1. /\ requestPc' \in {"finished", "crashes"} /\ requestAt' \in Positions
          /\ requestAt' <= listed
      BY <1>4, <2>3 DEF ReadClean, ReadAlive, Found, IInv, Typed, RequestTypes
    <3>2. state' \in [Workers -> {"unread", "running", "finished", "down", "lost"}]
      BY <1>4, <2>3 DEF ReadClean, ReadAlive, Found, IInv, Typed, RequestTypes
    <3> QED BY <2>3, <3>1, <3>2 DEF ReadClean, ReadAlive, IInv, Typed, RequestTypes
  <2>4. CASE ReadCrashes
    <3>1. damaged' \subseteq Workers
      BY <1>4, <2>4 DEF ReadCrashes, IInv, Typed, RequestTypes
    <3>2. /\ requestPc' \in {"crashes", "answer"} /\ requestAt' \in Positions
          /\ requestAt' <= listed
      BY <1>4, <2>4 DEF ReadCrashes, IInv, Typed, RequestTypes
    <3> QED BY <2>4, <3>1, <3>2 DEF ReadCrashes, IInv, Typed, RequestTypes
  <2> QED BY <2>1, <2>2, <2>3, <2>4 DEF HealthNext
<1>6. CleanReadIsFinished'
  BY <1>1 DEF IInv, CleanReadIsFinished, Current, HealthNext, TakeSnapshot, ReadFinished,
              ReadClean, ReadAlive, ReadCrashes, Answer, Found
<1>7. DownHasCrashed'
  <2>1. CASE ReadClean
    <3>1. Current \in finished
      BY <2>1 DEF ReadClean, IInv, CleanReadIsFinished
    <3>2. Current \in clean \/ crashes[Current] > 0
      BY <1>4, <3>1 DEF IInv, WayOut, OnTheWayOut
    <3>3. state \in [Workers -> {"unread", "running", "finished", "down", "lost"}]
      BY DEF IInv, Typed, RequestTypes
    <3> QED BY <1>1, <1>4, <2>1, <3>2, <3>3 DEF ReadClean, Found, IInv, DownHasCrashed, counters
  <2>2. CASE ReadAlive
    <3>1. state \in [Workers -> {"unread", "running", "finished", "down", "lost"}]
      BY DEF IInv, Typed, RequestTypes
    <3> QED BY <1>1, <1>4, <2>2, <3>1 DEF ReadAlive, Found, IInv, DownHasCrashed, counters
  <2>3. CASE TakeSnapshot
    BY <2>3 DEF TakeSnapshot, DownHasCrashed
  <2>4. CASE ReadFinished \/ ReadCrashes \/ Answer
    BY <1>1, <2>4 DEF ReadFinished, ReadCrashes, Answer, IInv, DownHasCrashed, counters
  <2> QED BY <2>1, <2>2, <2>3, <2>4 DEF HealthNext
<1> QED BY <1>2, <1>3, <1>5, <1>6, <1>7 DEF IInv, Typed

LEMMA InitIInv == Init => IInv
<1> SUFFICES ASSUME Init PROVE IInv
  OBVIOUS
<1>1. Len(Order) \in Nat /\ Len(Order) >= 1 /\ Positions = 1..Len(Order) /\ MaxRestarts \in Nat
      /\ Requests \in Nat
  BY RestAssumption DEF Positions
<1>2. ThreadTypes
  BY <1>1 DEF Init, ThreadTypes
<1>7. MainTypes /\ ServerTypes
  <2>1. MainTypes
    BY <1>1 DEF Init, MainTypes
  <2>2. ServerTypes
    BY Zenon DEF Init, ServerTypes
  <2> QED BY <2>1, <2>2
<1>3. RequestTypes
  BY <1>1 DEF Init, RequestTypes
<1>4. Budget /\ WayOut
  BY DEF Init, Budget, WayOut, BackoffHasCrashed, OnTheWayOut, UnwindingIsFinished
<1>5. Unstarted
  BY <1>1 DEF Init, Unstarted, Workers
<1>6. CleanReadIsFinished /\ DownHasCrashed
  BY DEF Init, CleanReadIsFinished, DownHasCrashed
<1> QED BY <1>2, <1>3, <1>4, <1>5, <1>6, <1>7 DEF IInv, Typed

LEMMA NextIInv == IInv /\ [Next]_vars => IInv'
<1> SUFFICES ASSUME IInv, [Next]_vars PROVE IInv'
  OBVIOUS
<1>1. CASE UNCHANGED vars
  <2>1. ThreadTypes' /\ Budget' /\ WayOut'
    BY <1>1, ThreadFrame DEF vars
  <2>2. ServerTypes' /\ MainTypes' /\ Unstarted'
    BY <1>1 DEF vars, IInv, Typed, ServerTypes, MainTypes, Unstarted, server, main
  <2>3. RequestTypes' /\ CleanReadIsFinished' /\ DownHasCrashed'
    BY <1>1, <2>1, RequestFrame DEF vars, counters
  <2> QED BY <2>1, <2>2, <2>3 DEF IInv, Typed
<1>2. CASE MainNext \/ Shutdown
  BY <1>2, StartSteps, StopSteps DEF MainNext
<1>3. CASE \E w \in Workers : WorkerNext(w)
  BY <1>3, WorkerSteps
<1>4. CASE ServerNext
  BY <1>4, ServerSteps
<1>5. CASE HealthNext
  BY <1>5, HealthSteps
<1> QED BY <1>1, <1>2, <1>3, <1>4, <1>5 DEF Next

(* IInv is inductive: it holds initially and no step of main(), of a       *)
(* worker, of the server or of the handler of /health breaks it.           *)
THEOREM RestInductive == Spec => []IInv
BY InitIInv, NextIInv, PTL DEF Spec

(* Every variable keeps its type; a worker is restarted at most            *)
(* MaxRestarts times and crashes at most once more (SupervisedWorker._run).*)
THEOREM RestTypeCorrect == Spec => []TypeOK
<1>1. IInv => TypeOK
  BY TypesAreTypeOK DEF IInv
<1> QED BY <1>1, RestInductive, PTL

(* No worker is called down by GET /health that has not crashed.           *)
THEOREM DownHasCrashedHolds == Spec => []DownHasCrashed
<1>1. IInv => DownHasCrashed
  BY DEF IInv
<1> QED BY <1>1, RestInductive, PTL

(* A thread that has died is finished, on every path out of _run.          *)
THEOREM DeadIsFinishedHolds == Spec => []DeadIsFinished
<1>1. IInv => DeadIsFinished
  BY DEF IInv, WayOut, UnwindingIsFinished, DeadIsFinished
<1> QED BY <1>1, RestInductive, PTL

---------------------------------------------------------------------------
(* FailureIsReported. *)

(* How many workers main() has put in the list. *)
Added ==
  IF mainPc = "append" THEN mainAt - 1
  ELSE IF mainPc = "start" THEN mainAt ELSE Len(Order)

(* They are the first of the order, and whoever has not begun has nothing  *)
(* to report; a finished worker is out of its target for good.             *)
Listing ==
  /\ \A k \in Positions : k <= Added => thread[Order[k]] # "none"
  /\ \A w \in Workers : thread[w] \in {"none", "listed"} => w \notin finished /\ crashes[w] = 0
  /\ \A w \in finished : thread[w] \in {"unwinding", "dead"}

(* What had failed when the request came is in the snapshot and has still  *)
(* failed: nobody is taken off the finished or the crashed, and a finished *)
(* worker no longer becomes clean.                                         *)
Lasting ==
  requestPc # "none" =>
    /\ wasDown \subseteq finished /\ wasDown \cap clean = {}
    /\ \A w \in wasDamaged : crashes[w] > 0
    /\ \A k \in Positions : Order[k] \in wasDown \cup wasDamaged => k <= listed

(* How far the handler has looked for the workers that are down, ... *)
Looked(k) ==
  IF requestPc \in {"crashes", "answer"} THEN k <= listed ELSE k < requestAt

(* ... and it has noted those it passed. *)
DownNoted ==
  requestPc # "none" =>
    /\ \A k \in Positions : Looked(k) /\ Order[k] \in wasDown => state[Order[k]] = "down"
    /\ requestPc = "alive" => Current \notin wasDown

DamageNoted ==
  requestPc \in {"crashes", "answer"} =>
    \A k \in Positions :
      (requestPc = "answer" \/ k < requestAt) /\ k <= listed /\ Order[k] \in wasDamaged
        => Order[k] \in damaged

Reporting == Listing /\ Lasting /\ DownNoted /\ DamageNoted

(* The snapshot holds as many workers as main() has added. *)
LEMMA SnapshotSize ==
  ASSUME IInv, Listing
  PROVE  Cardinality({w \in Workers : thread[w] # "none"}) = Added
<1> DEFINE S == {w \in Workers : thread[w] # "none"}
           f == [k \in 1..Added |-> Order[k]]
<1>1. Len(Order) \in Nat /\ Positions = 1..Len(Order)
  BY RestAssumption DEF Positions
<1>2. Added \in Nat /\ Added <= Len(Order)
  <2>1. mainPc # "join" => mainAt \in 1..Len(Order)
    BY <1>1 DEF IInv, Typed, MainTypes
  <2> QED BY <1>1, <2>1 DEF Added
<1>3. \A k \in Positions : thread[Order[k]] # "none" <=> k <= Added
  <2>1. \A k \in Positions : k > Added => thread[Order[k]] = "none"
    <3> SUFFICES ASSUME NEW k \in Positions, k > Added PROVE thread[Order[k]] = "none"
      OBVIOUS
    <3>1. mainPc \in {"append", "start"} /\ mainAt \in 1..Len(Order)
      BY <1>1 DEF Added, IInv, Typed, MainTypes
    <3>2. k > mainAt \/ (k = mainAt /\ mainPc = "append")
      BY <1>1, <3>1 DEF Added
    <3> QED BY <3>1, <3>2 DEF IInv, Unstarted
  <2> QED BY <1>1, <1>2, <2>1 DEF Listing
<1>4. f \in Bijection(1..Added, S)
  <2>1. \A k \in 1..Added : k \in Positions /\ Order[k] \in S
    BY <1>1, <1>2, <1>3 DEF Workers
  <2>2. \A j, k \in 1..Added : Order[j] = Order[k] => j = k
    BY <2>1, RestAssumption
  <2>3. \A w \in S : \E k \in 1..Added : Order[k] = w
    BY <1>1, <1>2, <1>3 DEF Workers
  <2> HIDE DEF S
  <2>4. f \in [1..Added -> S] /\ \A k \in 1..Added : f[k] = Order[k]
    BY <2>1
  <2> HIDE DEF f
  <2>5. \A j, k \in 1..Added : f[j] = f[k] => j = k
    BY <2>2, <2>4
  <2>6. \A w \in S : \E k \in 1..Added : f[k] = w
    BY <2>3, <2>4
  <2> QED BY <2>4, <2>5, <2>6 DEF Bijection, Injection, Surjection, IsInjective
<1>5. IsFiniteSet(1..Added) /\ Cardinality(1..Added) = Added
  <2>1. 1 \in Int /\ Added \in Int /\ (IF 1 > Added THEN 0 ELSE Added - 1 + 1) = Added
    BY <1>2
  <2> QED BY <2>1, FS_Interval
<1> HIDE DEF S, f
<1>6. Cardinality(1..Added) = Cardinality(S)
  BY <1>4, <1>5, FS_Bijection DEF ExistsBijection
<1> QED BY <1>5, <1>6 DEF S

(* The handler's notes stand while it does not move, as long as a finished *)
(* worker stays so and does not become clean.                              *)
LEMMA ReportFrame ==
  ASSUME Reporting, UNCHANGED request, finished \subseteq finished',
         clean' \cap finished \subseteq clean,
         \A w \in Workers : crashes[w] > 0 => crashes'[w] > 0, IInv
  PROVE  Lasting' /\ DownNoted' /\ DamageNoted'
<1>1. Lasting'
  <2>1. wasDamaged \subseteq Workers
    BY DEF IInv, Typed, RequestTypes
  <2> QED BY <2>1 DEF Reporting, Lasting, request
<1>2. DownNoted'
  BY DEF Reporting, DownNoted, Looked, Current, request
<1>3. DamageNoted'
  BY DEF Reporting, DamageNoted, request
<1> QED BY <1>1, <1>2, <1>3

(* A step of a thread that has begun, which leaves it begun. *)
LEMMA ListingMove ==
  ASSUME IInv, Reporting, NEW w \in Workers, NEW from, NEW to, In(w, from, to),
         from \notin {"none", "listed", "dead"}, to \notin {"none", "listed"},
         UNCHANGED main, \A v \in Workers \ {w} : crashes'[v] = crashes[v],
         \/ finished' = finished /\ from # "unwinding"
         \/ finished' = finished \cup {w} /\ to = "unwinding"
         \/ finished' = finished /\ to = "dead"
  PROVE  Listing'
<1>1. /\ thread = [v \in Workers |-> thread[v]] /\ thread[w] = from
      /\ thread' = [thread EXCEPT ![w] = to]
  BY Counters DEF IInv, Typed, In
<1>2. thread'[w] = to /\ \A v \in Workers \ {w} : thread'[v] = thread[v]
  BY <1>1
<1>3. \A k \in Positions : k <= Added' => thread'[Order[k]] # "none"
  <2>1. Added' = Added /\ \A k \in Positions : Order[k] \in Workers
    BY DEF Added, main, Workers
  <2> QED BY <1>2, <2>1 DEF Reporting, Listing
<1>4. \A v \in Workers :
        thread'[v] \in {"none", "listed"} => v \notin finished' /\ crashes'[v] = 0
  BY <1>2 DEF Reporting, Listing
<1>5. \A v \in finished' : thread'[v] \in {"unwinding", "dead"}
  <2>1. finished \subseteq Workers
    BY DEF IInv, Typed, ThreadTypes
  <2>2. w \in finished => from \in {"unwinding", "dead"}
    BY <1>1 DEF Reporting, Listing
  <2> QED BY <1>2, <2>1, <2>2 DEF Reporting, Listing
<1> QED BY <1>3, <1>4, <1>5 DEF Listing

(* The three ways out of a target: only here is a worker made clean. *)
LEMMA TargetReports ==
  ASSUME IInv, Reporting, NEW w \in Workers, Returns(w) \/ Raises(w) \/ Exits(w),
         UNCHANGED <<finished, main, request>>
  PROVE  Reporting'
<1>1. /\ thread[w] = "target" /\ crashes \in [Workers -> Nat]
      /\ In(w, "target", "retire") \/ In(w, "target", "crashed")
      /\ \A v \in Workers \ {w} : crashes'[v] = crashes[v]
  BY Counters DEF IInv, Typed, Returns, Raises, Exits, In
<1>2. Listing'
  BY <1>1, ListingMove
<1>3. \A v \in Workers : crashes[v] > 0 => crashes'[v] > 0
  BY <1>1 DEF Returns, Raises, Exits
<1>4. w \notin finished
  BY <1>1 DEF Reporting, Listing
<1>5. clean' \cap finished \subseteq clean
  BY <1>4 DEF Returns, Raises, Exits
<1> QED BY <1>2, <1>3, <1>5, ReportFrame DEF Reporting

LEMMA WorkerReports ==
  ASSUME IInv, Reporting, NEW w \in Workers, WorkerNext(w)
  PROVE  Reporting'
<1>1. CASE EndTarget(w)
  BY <1>1, TargetReports DEF EndTarget
<1>2. CASE GiveUp(w) \/ Backoff(w) \/ EndBackoff(w) \/ SetFinished(w) \/ Die(w)
  <2> USE <1>2
  <2>1. UNCHANGED <<crashes, clean, main, request>> /\ finished \subseteq finished'
    BY DEF GiveUp, Backoff, EndBackoff, SetFinished, Die, counters
  <2>2. Listing'
    <3>1. CASE GiveUp(w)
      BY <3>1, <2>1, ListingMove DEF GiveUp
    <3>2. CASE Backoff(w)
      BY <3>2, <2>1, ListingMove DEF Backoff
    <3>3. CASE EndBackoff(w)
      BY <3>3, <2>1, ListingMove DEF EndBackoff
    <3>4. CASE SetFinished(w)
      BY <3>4, <2>1, ListingMove DEF SetFinished
    <3>5. CASE Die(w)
      BY <3>5, <2>1, ListingMove DEF Die
    <3> QED BY <3>1, <3>2, <3>3, <3>4, <3>5
  <2> QED BY <2>1, <2>2, ReportFrame DEF Reporting
<1> QED BY <1>1, <1>2 DEF WorkerNext

LEMMA ServerReports ==
  ASSUME IInv, Reporting, ServerNext
  PROVE  Reporting'
<1>1. Server \in Workers /\ UNCHANGED <<finished, main, request>>
  BY RestAssumption DEF ServerNext, GuardStart, Publish, Bind, EndServing, Unpublish
<1>2. CASE Returns(Server) \/ Raises(Server)
  BY <1>1, <1>2, TargetReports
<1>3. CASE UNCHANGED <<thread, counters>>
  <2>1. Listing'
    BY <1>1, <1>3 DEF Reporting, Listing, Added, main, counters
  <2> QED BY <1>1, <1>3, <2>1, ReportFrame DEF Reporting, counters
<1> QED BY <1>2, <1>3 DEF ServerNext, GuardStart, Publish, Bind, EndServing, Unpublish

LEMMA MainReports ==
  ASSUME IInv, Reporting, MainNext \/ Shutdown
  PROVE  Reporting'
<1>1. UNCHANGED <<counters, finished, request>>
  BY DEF MainNext, Supervise, StartThread, Shutdown, SetStopEvent, CallStop, FlagServer
<1>2. CASE Supervise \/ StartThread
  <2> DEFINE w == Order[mainAt]
  <2>1. mainAt \in Positions /\ w \in Workers /\ Positions = 1..Len(Order) /\ Len(Order) \in Nat
    BY <1>2, RestAssumption DEF IInv, Typed, MainTypes, Workers, Supervise, StartThread, Positions
  <2>2. /\ thread[w] \in {"none", "listed"}
        /\ thread' = [thread EXCEPT ![w] = IF mainPc = "append" THEN "listed" ELSE "target"]
    BY <1>2 DEF IInv, Unstarted, Supervise, StartThread
  <2>3. /\ thread = [v \in Workers |-> thread[v]] /\ thread'[w] \in {"listed", "target"}
        /\ \A v \in Workers \ {w} : thread'[v] = thread[v]
    BY <2>1, <2>2, Counters DEF IInv, Typed
  <2>4. w \notin finished /\ crashes[w] = 0
    BY <2>1, <2>2 DEF Reporting, Listing
  <2>5. \A k \in Positions : k <= Added' => thread'[Order[k]] # "none"
    <3>1. \A k \in Positions : k <= Added' => k <= Added \/ k = mainAt
      BY <1>2, <2>1 DEF Added, Supervise, StartThread
    <3>2. \A k \in Positions : Order[k] \in Workers
      BY DEF Workers
    <3> HIDE DEF Added
    <3> QED BY <2>1, <2>3, <3>1, <3>2 DEF Reporting, Listing
  <2>6. Listing'
    <3>1. finished \subseteq Workers
      BY DEF IInv, Typed, ThreadTypes
    <3> QED BY <1>1, <2>1, <2>3, <2>4, <2>5, <3>1 DEF Reporting, Listing, counters
  <2> QED BY <1>1, <2>6, ReportFrame DEF Reporting, counters
<1>3. CASE SetStopEvent \/ CallStop \/ FlagServer \/ Shutdown
  <2>1. Added' = Added /\ UNCHANGED thread
    BY <1>3 DEF Added, SetStopEvent, CallStop, FlagServer, Shutdown
  <2>2. Listing'
    BY <1>1, <2>1 DEF Reporting, Listing, counters
  <2> QED BY <1>1, <2>2, ReportFrame DEF Reporting, counters
<1> QED BY <1>2, <1>3 DEF MainNext

(* The handler itself: its snapshot reaches every worker that had failed,  *)
(* and it takes a worker for down, and for damaged, when it comes to it.   *)
LEMMA HealthReports ==
  ASSUME IInv, Reporting, HealthNext
  PROVE  Reporting'
<1>1. UNCHANGED <<thread, counters, finished, server, main>>
  BY DEF HealthNext, TakeSnapshot, ReadFinished, ReadClean, ReadAlive, ReadCrashes, Answer
<1>2. Listing'
  BY <1>1 DEF Reporting, Listing, Added, main, counters
<1>3. /\ Positions = 1..Len(Order) /\ Len(Order) \in Nat /\ requestAt \in Positions
      /\ listed \in Nat /\ \A k \in Positions : k \in Nat /\ Order[k] \in Workers
      /\ \A j, k \in Positions : Order[j] = Order[k] => j = k
      /\ state = [w \in Workers |-> state[w]]
  BY RestAssumption DEF IInv, Typed, RequestTypes, Workers, Positions
<1>4. CASE TakeSnapshot
  <2>1. listed' = Added
    BY <1>4, SnapshotSize DEF TakeSnapshot, Reporting
  <2>2. wasDown' = finished \ clean /\ wasDamaged' = {w \in Workers : crashes[w] > 0}
        /\ requestPc' = "finished" /\ requestAt' = 1
    BY <1>4 DEF TakeSnapshot
  <2>3. \A k \in Positions : Order[k] \in wasDown' \cup wasDamaged' => k <= Added
    <3> SUFFICES ASSUME NEW k \in Positions, Order[k] \in finished \/ crashes[Order[k]] > 0
                 PROVE  k <= Added
      BY <2>2
    <3>1. thread[Order[k]] # "none"
      BY <1>3 DEF Reporting, Listing
    <3>2. k > Added => mainPc \in {"append", "start"} /\ mainAt \in Positions
      BY <1>3 DEF Added, IInv, Typed, MainTypes
    <3>3. k > Added => k > mainAt \/ (k = mainAt /\ mainPc = "append")
      BY <1>3, <3>2 DEF Added
    <3>4. ~(k > Added)
      BY <3>1, <3>2, <3>3 DEF IInv, Unstarted
    <3>5. Added \in Int
      BY <1>3 DEF Added, IInv, Typed, MainTypes
    <3> QED BY <1>3, <3>4, <3>5
  <2>4. Lasting'
    BY <1>1, <2>1, <2>2, <2>3 DEF Lasting, counters
  <2>5. DownNoted'
    BY <1>3, <2>2 DEF DownNoted, Looked
  <2>6. DamageNoted'
    BY <2>2 DEF DamageNoted
  <2> QED BY <1>2, <2>4, <2>5, <2>6 DEF Reporting
<1>5. CASE requestPc # "none" /\ requestPc' # "none" /\ ~TakeSnapshot
  <2>1. UNCHANGED <<listed, wasDown, wasDamaged>>
    BY <1>5 DEF HealthNext, ReadFinished, ReadClean, ReadAlive, ReadCrashes, Answer
  <2>2. Lasting'
    BY <1>1, <1>5, <2>1 DEF Reporting, Lasting, counters
  <2>3. DownNoted'
    <3>1. CASE ReadFinished
      <4>1. Current \in wasDown => Current \in finished
        BY <1>5 DEF Reporting, Lasting
      <4> QED BY <3>1, <4>1 DEF ReadFinished, Reporting, DownNoted, Looked, Current
    <3>2. CASE ReadClean \/ ReadAlive
      <4>1. Current \in wasDown => state'[Current] = "down"
        <5>1. requestPc = "alive" => Current \notin wasDown
          BY DEF Reporting, DownNoted
        <5>2. Current \in Workers /\ (Current \in wasDown => Current \notin clean)
          BY <1>3, <1>5 DEF Current, Reporting, Lasting
        <5> QED BY <1>3, <3>2, <5>1, <5>2 DEF ReadClean, ReadAlive, Found
      <4>2. \A k \in Positions : k # requestAt => state'[Order[k]] = state[Order[k]]
        BY <1>3, <3>2 DEF ReadClean, ReadAlive, Found, Current
      <4>3. \A k \in Positions : Looked(k)' => k < requestAt \/ k = requestAt
        <5>1. requestPc' = "crashes" => requestAt = listed
          BY <3>2 DEF ReadClean, ReadAlive, Found
        <5>2. requestPc' # "crashes" => requestAt' = requestAt + 1 /\ requestPc' = "finished"
          BY <3>2 DEF ReadClean, ReadAlive, Found
        <5>3. requestPc' \in {"crashes", "finished"}
          BY <3>2 DEF ReadClean, ReadAlive, Found
        <5> QED BY <1>3, <2>1, <5>1, <5>2, <5>3 DEF Looked
      <4>4. \A k \in Positions : k < requestAt /\ Order[k] \in wasDown => state[Order[k]] = "down"
        BY <1>5, <3>2 DEF Reporting, DownNoted, Looked, ReadClean, ReadAlive
      <4>5. \A k \in Positions : Looked(k)' /\ Order[k] \in wasDown => state'[Order[k]] = "down"
        <5>1. \A k \in Positions : k < requestAt => k # requestAt
          BY <1>3
        <5> QED BY <4>1, <4>2, <4>3, <4>4, <5>1 DEF Current
      <4>6. requestPc' # "alive"
        BY <3>2 DEF ReadClean, ReadAlive, Found
      <4> QED BY <2>1, <4>5, <4>6 DEF DownNoted
    <3>3. CASE ReadCrashes
      <4>1. \A k \in Positions : Looked(k)' => Looked(k)
        BY <3>3 DEF ReadCrashes, Looked
      <4> QED BY <3>3, <4>1 DEF ReadCrashes, Reporting, DownNoted
    <3> QED BY <1>5, <3>1, <3>2, <3>3 DEF HealthNext, Answer
  <2>4. DamageNoted'
    <3>1. CASE ReadCrashes
      <4>1. Current \in wasDamaged => Current \in damaged'
        BY <1>5, <3>1 DEF ReadCrashes, Reporting, Lasting
      <4>2. damaged \subseteq damaged'
        BY <3>1 DEF ReadCrashes
      <4>3. \A k \in Positions :
              (requestPc' = "answer" \/ k < requestAt') /\ k <= listed => k < requestAt \/ k = requestAt
        BY <1>3, <3>1 DEF ReadCrashes
      <4>4. \A k \in Positions :
              k < requestAt /\ k <= listed /\ Order[k] \in wasDamaged => Order[k] \in damaged
        BY <3>1 DEF ReadCrashes, Reporting, DamageNoted
      <4> QED BY <2>1, <4>1, <4>2, <4>3, <4>4 DEF DamageNoted, Current
    <3>2. CASE ReadFinished \/ ReadClean \/ ReadAlive
      <4>1. requestPc' = "crashes" => requestAt' = 1
        BY <3>2 DEF ReadFinished, ReadClean, ReadAlive, Found
      <4>2. requestPc' # "answer"
        BY <3>2 DEF ReadFinished, ReadClean, ReadAlive, Found
      <4> QED BY <1>3, <4>1, <4>2 DEF DamageNoted
    <3> QED BY <1>5, <3>1, <3>2 DEF HealthNext, Answer
  <2> QED BY <1>2, <2>2, <2>3, <2>4 DEF Reporting
<1>6. CASE Answer
  <2>1. requestPc' = "none"
    BY <1>6 DEF Answer
  <2> QED BY <1>2, <2>1 DEF Reporting, Lasting, DownNoted, DamageNoted
<1> QED BY <1>4, <1>5, <1>6
        DEF HealthNext, ReadFinished, ReadClean, ReadAlive, ReadCrashes, Found

(* Whatever had failed when a request for /health came is still failed and *)
(* noted when it is answered.                                              *)
THEOREM FailureIsReportedHolds == Spec => []FailureIsReported
<1>1. Init => Reporting
  <2> SUFFICES ASSUME Init PROVE Reporting
    OBVIOUS
  <2>1. Added = 0 /\ \A k \in Positions : ~(k <= 0)
    BY RestAssumption DEF Init, Added, Positions
  <2>2. Listing
    BY <2>1 DEF Init, Listing
  <2> QED BY <2>2 DEF Init, Reporting, Lasting, DownNoted, DamageNoted
<1>2. IInv /\ Reporting /\ [Next]_vars => Reporting'
  <2> SUFFICES ASSUME IInv, Reporting, [Next]_vars PROVE Reporting'
    OBVIOUS
  <2>1. CASE UNCHANGED vars
    <3>1. Listing'
      BY <2>1 DEF vars, Reporting, Listing, Added, main, counters
    <3> QED BY <2>1, <3>1, ReportFrame DEF vars, Reporting, counters
  <2>2. CASE \E w \in Workers : WorkerNext(w)
    BY <2>2, WorkerReports
  <2> QED BY <2>1, <2>2, MainReports, ServerReports, HealthReports DEF Next
<1>3. IInv /\ Reporting => FailureIsReported
  <2> SUFFICES ASSUME IInv, Reporting, requestPc = "answer"
               PROVE  (wasDown # {} => Status = "down") /\ (wasDamaged # {} => Status # "ok")
    BY DEF FailureIsReported
  <2>1. \A w \in Workers : \E k \in Positions : Order[k] = w
    BY DEF Workers
  <2>2. wasDown \subseteq Workers /\ wasDamaged \subseteq Workers
    BY DEF IInv, Typed, RequestTypes
  <2>3. \A w \in wasDown : state[w] = "down"
    BY <2>1, <2>2 DEF Reporting, Lasting, DownNoted, Looked
  <2>4. wasDamaged \subseteq damaged
    BY <2>1, <2>2 DEF Reporting, Lasting, DamageNoted
  <2> QED BY <2>2, <2>3, <2>4 DEF Status
<1> QED BY <1>1, <1>2, <1>3, RestInductive, PTL DEF Spec

---------------------------------------------------------------------------
(* The stop of the server. *)

(* stop_all() goes through the workers in order, and stop() of the server  *)
(* finds its Server object or is found by it: once a Server is published   *)
(* under a stop, it is flagged or main() is about to flag it.              *)
StopInv ==
  /\ published <=> serverPc \in {"bind", "serving", "ended", "failed"}
  /\ mainPc = "run" => mainAt = 1
  /\ mainPc \in {"setEvent", "callStop", "flag", "join"} =>
       \A k \in Positions : k < mainAt => Order[k] \in stopEvent \cap stopping
  /\ mainPc \in {"callStop", "flag"} => Order[mainAt] \in stopEvent
  /\ mainPc = "flag" => Order[mainAt] \in stopping
  /\ mainPc = "join" => mainAt > Len(Order)
  /\ Server \in stopping /\ published /\ ~shouldExit => mainPc = "flag" /\ Order[mainAt] = Server

LEMMA InitStop == Init => StopInv
BY RestAssumption DEF Init, StopInv, Positions

LEMMA NextStop == IInv /\ StopInv /\ [Next]_vars => StopInv'
<1> SUFFICES ASSUME IInv, StopInv, [Next]_vars PROVE StopInv'
  OBVIOUS
<1> USE DEF StopInv
<1>1. CASE UNCHANGED <<server, main>>
  BY <1>1 DEF server, main
<1>2. CASE Supervise \/ StartThread
  BY <1>2 DEF Supervise, StartThread, server
<1>3. CASE Shutdown
  <2>1. \A k \in Positions : ~(k < 1)
    BY DEF Positions
  <2> QED BY <1>3, <2>1 DEF Shutdown, server
<1>4. CASE SetStopEvent
  BY <1>4 DEF SetStopEvent, server
<1>5. CASE CallStop
  <2>1. Order[mainAt] = Server \/ (Server \in stopping' => Server \in stopping)
    BY <1>5 DEF CallStop
  <2> QED BY <1>5, <2>1 DEF CallStop, server
<1>6. CASE FlagServer
  <2>1. /\ mainPc = "flag" /\ mainAt \in Positions /\ mainAt' = mainAt + 1
        /\ mainPc' = IF mainAt = Len(Order) THEN "join" ELSE "setEvent"
        /\ UNCHANGED <<serverPc, published, stopEvent, stopping>>
    BY <1>6 DEF FlagServer, IInv, Typed, MainTypes
  <2>2. \A k \in Positions : k < mainAt' => k < mainAt \/ k = mainAt
    BY <2>1, RestAssumption DEF Positions
  <2>3. published /\ ~shouldExit' => Order[mainAt] # Server /\ ~shouldExit
    BY <1>6 DEF FlagServer
  <2>4. mainPc' = "join" => mainAt' > Len(Order)
    BY <2>1, RestAssumption
  <2> QED BY <2>1, <2>2, <2>3, <2>4
<1>7. ASSUME NEW w \in Workers, WorkerNext(w) PROVE UNCHANGED <<server, main>>
  BY <1>7 DEF WorkerNext, EndTarget, GiveUp, Backoff, EndBackoff, SetFinished, Die
<1>8. CASE ServerNext
  <2>1. CASE GuardStart \/ Bind \/ EndServing
    BY <1>8, <2>1 DEF GuardStart, Bind, EndServing, Serving, main
  <2>2. CASE Publish
    BY <2>2 DEF Publish, Serving, main
  <2>3. CASE Unpublish
    BY <2>3 DEF Unpublish, Serving, main
  <2> QED BY <1>8, <2>1, <2>2, <2>3 DEF ServerNext
<1>9. CASE HealthNext
  BY <1>1, <1>9 DEF HealthNext, TakeSnapshot, ReadFinished, ReadClean, ReadAlive, ReadCrashes, Answer
<1> QED
  BY <1>1, <1>2, <1>3, <1>4, <1>5, <1>6, <1>7, <1>8, <1>9 DEF Next, MainNext, vars

(* When main() has told everybody to stop, no worker is left that can be   *)
(* restarted or start() again, and no server binds or serves that will not *)
(* see the stop: neither one that was published before stop(), nor one     *)
(* that passed the guard before it and was published behind it (start() and *)
(* stop() of rest_api.py, SupervisedWorker._run).  StopReachesServer rests *)
(* on it.                                                                  *)
StopIsHeard ==
  mainPc = "join" =>
    /\ Workers \subseteq stopEvent \cap stopping
    /\ \A w \in Workers : ~MayRestart(w)
    /\ serverPc \in {"bind", "serving"} => shouldExit

(* A stop is heard by every worker, whatever each of them was doing. *)
THEOREM StopIsHeardHolds == Spec => []StopIsHeard
<1>1. IInv /\ StopInv => StopIsHeard
  <2> SUFFICES ASSUME IInv, StopInv, mainPc = "join" PROVE
                 /\ Workers \subseteq stopEvent \cap stopping
                 /\ \A w \in Workers : ~MayRestart(w)
                 /\ serverPc \in {"bind", "serving"} => shouldExit
    BY DEF StopIsHeard
  <2>1. \A k \in Positions : k < mainAt
    BY RestAssumption DEF StopInv, IInv, Typed, MainTypes, Positions
  <2>2. Workers \subseteq stopEvent \cap stopping
    BY <2>1 DEF StopInv, Workers
  <2>3. Server \in stopping
    BY <2>2, RestAssumption
  <2> QED BY <2>2, <2>3 DEF StopInv, MayRestart
<1> QED BY <1>1, RestInductive, InitIInv, NextIInv, InitStop, NextStop, PTL DEF Spec
=============================================================================
