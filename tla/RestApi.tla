------------------------------ MODULE RestApi ------------------------------
(***************************************************************************)
(* services/rest_api.py: the server's start() and stop(), and GET /health, *)
(* which reads the workers of supervisor/supervisor.py one field at a time *)
(* and under no lock, while their threads crash, restart and finish.       *)
(*                                                                         *)
(* The targets of the other workers are only what their threads see of     *)
(* them: a return, an exception or a SystemExit, at any time.              *)
(***************************************************************************)
EXTENDS Integers, Sequences, FiniteSets

CONSTANTS
  Order,           \* supervisor.workers, in the order they are started
  Server,          \* the worker that runs RestApiService.start()
  RestartEnabled,  \* RestartPolicy.enabled
  MaxRestarts,     \* RestartPolicy.max_restarts
  Requests         \* BOUND: requests for /health

Positions == 1..Len(Order)
Workers == {Order[k] : k \in Positions}

ASSUME RestAssumption ==
  /\ Len(Order) \in Nat \ {0} /\ Server \in Workers
  /\ \A j, k \in Positions : Order[j] = Order[k] => j = k
  /\ MaxRestarts \in Nat /\ Requests \in Nat /\ RestartEnabled \in BOOLEAN

VARIABLES
  thread,      \* where each worker's thread is
  crashes, restarts,
  clean,       \* the workers with completed_cleanly
  finished,    \* the workers whose _finished is set
  serverPc,    \* where the server's start() is
  published,   \* _server is not None
  shouldExit,  \* should_exit of the newest Server object
  mainPc, mainAt,       \* main(): supervise_all, the run, stop_all
  stopEvent, stopping,  \* the workers told to stop, the Stoppables stopped
  requestPc, requestAt, \* the handler of GET /health
  listed,      \* its snapshot: how many workers were in the list
  state,       \* what it found each worker to be
  damaged,     \* the workers it found crashes on
  answered,    \* requests begun
  wasDown, wasDamaged   \* HISTORY: the truth when the request came

counters == <<crashes, restarts, clean>>
server   == <<serverPc, published, shouldExit>>
main     == <<mainPc, mainAt, stopEvent, stopping>>
request  == <<requestPc, requestAt, listed, state, damaged, answered, wasDown, wasDamaged>>
vars == <<thread, counters, finished, server, main, request>>

Init ==
  /\ thread = [w \in Workers |-> "none"]
  /\ crashes = [w \in Workers |-> 0] /\ restarts = [w \in Workers |-> 0]
  /\ clean = {} /\ finished = {}
  /\ serverPc = "guard" /\ published = FALSE /\ shouldExit = FALSE
  /\ mainPc = "append" /\ mainAt = 1 /\ stopEvent = {} /\ stopping = {}
  /\ requestPc = "none" /\ requestAt = 1 /\ listed = 0 /\ answered = 0
  /\ state = [w \in Workers |-> "unread"] /\ damaged = {}
  /\ wasDown = {} /\ wasDamaged = {}

---------------------------------------------------------------------------
(* main(): Supervisor.supervise, then stop_all. *)

(* self.workers.append(supervised) comes before supervised.start(). *)
Supervise ==
  /\ mainPc = "append" /\ mainPc' = "start"
  /\ thread' = [thread EXCEPT ![Order[mainAt]] = "listed"]
  /\ UNCHANGED <<counters, finished, server, mainAt, stopEvent, stopping, request>>

StartThread ==
  /\ mainPc = "start"
  /\ thread' = [thread EXCEPT ![Order[mainAt]] = "target"]
  /\ IF mainAt = Len(Order)
     THEN mainPc' = "run" /\ mainAt' = 1
     ELSE mainPc' = "append" /\ mainAt' = mainAt + 1
  /\ UNCHANGED <<counters, finished, server, stopEvent, stopping, request>>

Shutdown ==
  /\ mainPc = "run" /\ mainPc' = "setEvent"
  /\ UNCHANGED <<thread, counters, finished, server, mainAt, stopEvent, stopping, request>>

(* request_stop(): the worker's own event ... *)
SetStopEvent ==
  /\ mainPc = "setEvent" /\ mainPc' = "callStop"
  /\ stopEvent' = stopEvent \cup {Order[mainAt]}
  /\ UNCHANGED <<thread, counters, finished, server, mainAt, stopping, request>>

(* ... then stop(), which sets the event of the Stoppable first ... *)
CallStop ==
  /\ mainPc = "callStop" /\ mainPc' = "flag"
  /\ stopping' = stopping \cup {Order[mainAt]}
  /\ UNCHANGED <<thread, counters, finished, server, mainAt, stopEvent, request>>

(* ... and, under the server lock, flags the Server that is published. *)
FlagServer ==
  /\ mainPc = "flag"
  /\ shouldExit' = (shouldExit \/ (Order[mainAt] = Server /\ published))
  /\ mainAt' = mainAt + 1
  /\ mainPc' = IF mainAt = Len(Order) THEN "join" ELSE "setEvent"
  /\ UNCHANGED <<thread, counters, finished, serverPc, published, stopEvent, stopping, request>>

---------------------------------------------------------------------------
(* SupervisedWorker._run. *)

In(w, from, to) == thread[w] = from /\ thread' = [thread EXCEPT ![w] = to]

(* Mutant: the flag is left to whoever reads it. *)
Returns_NotRecorded(w) == In(w, "target", "retire") /\ UNCHANGED counters

Returns(w) ==
  /\ In(w, "target", "retire") /\ clean' = clean \cup {w}
  /\ UNCHANGED <<crashes, restarts>>

Raises(w) ==
  /\ In(w, "target", "crashed") /\ crashes' = [crashes EXCEPT ![w] = @ + 1]
  /\ UNCHANGED <<restarts, clean>>

(* A SystemExit is a crash that is not restarted. *)
Exits(w) ==
  /\ In(w, "target", "retire") /\ crashes' = [crashes EXCEPT ![w] = @ + 1]
  /\ UNCHANGED <<restarts, clean>>

EndTarget(w) ==
  /\ w # Server /\ (Returns(w) \/ Raises(w) \/ Exits(w))
  /\ UNCHANGED <<finished, server, main, request>>

MayRestart(w) ==
  w \notin stopEvent /\ RestartEnabled /\ restarts[w] < MaxRestarts

GiveUp(w) ==
  /\ ~MayRestart(w) /\ In(w, "crashed", "retire")
  /\ UNCHANGED <<counters, finished, server, main, request>>

Backoff(w) ==
  /\ MayRestart(w) /\ In(w, "crashed", "backoff")
  /\ restarts' = [restarts EXCEPT ![w] = @ + 1]
  /\ UNCHANGED <<crashes, clean, finished, server, main, request>>

EndBackoff(w) ==
  /\ In(w, "backoff", IF w \in stopEvent THEN "retire" ELSE "target")
  /\ UNCHANGED <<counters, finished, server, main, request>>

(* The finally of _run: _finished is set after retire(), on every path; *)
(* the thread dies after that.                                          *)
SetFinished(w) ==
  /\ In(w, "retire", "unwinding") /\ finished' = finished \cup {w}
  /\ UNCHANGED <<counters, server, main, request>>

Die(w) ==
  /\ In(w, "unwinding", "dead")
  /\ UNCHANGED <<counters, finished, server, main, request>>

WorkerNext(w) ==
  EndTarget(w) \/ GiveUp(w) \/ Backoff(w) \/ EndBackoff(w) \/ SetFinished(w) \/ Die(w)

---------------------------------------------------------------------------
(* RestApiService.start(), the target of the server's thread. *)

Serving(from, to) == thread[Server] = "target" /\ serverPc = from /\ serverPc' = to

(* if self.is_stopping(): return *)
GuardStart ==
  /\ \/ Server \in stopping /\ Serving("guard", "guard") /\ Returns(Server)
     \/ /\ Server \notin stopping /\ Serving("guard", "publish")
        /\ UNCHANGED <<thread, counters>>
  /\ UNCHANGED <<finished, published, shouldExit, main, request>>

(* Mutant: a stop() between the guard and here goes unnoticed. *)
Publish_NoRecheck ==
  /\ Serving("publish", "bind") /\ published' = TRUE /\ shouldExit' = FALSE
  /\ UNCHANGED <<thread, counters, finished, main, request>>

(* Under the server lock: publish the Server, and look for a stop() again. *)
Publish ==
  /\ Serving("publish", "bind") /\ published' = TRUE /\ shouldExit' = (Server \in stopping)
  /\ UNCHANGED <<thread, counters, finished, main, request>>

(* server.run(): the port is bound, or uvicorn exits, which start() turns  *)
(* into a RuntimeError.                                                    *)
Bind ==
  /\ Serving("bind", "serving") \/ Serving("bind", "failed")
  /\ UNCHANGED <<thread, counters, finished, published, shouldExit, main, request>>

EndServing ==
  /\ shouldExit /\ Serving("serving", "ended")
  /\ UNCHANGED <<thread, counters, finished, published, shouldExit, main, request>>

(* finally: self._server = None, and start() returns or raises. *)
Unpublish ==
  /\ \/ Serving("ended", "guard") /\ Returns(Server)
     \/ Serving("failed", "guard") /\ Raises(Server)
  /\ published' = FALSE
  /\ UNCHANGED <<finished, shouldExit, main, request>>

ServerNext == GuardStart \/ Publish \/ Bind \/ EndServing \/ Unpublish

---------------------------------------------------------------------------
(* _health_payload, on a thread of the server's pool. *)

IsAlive(w) == thread[w] \notin {"none", "listed", "dead"}
Current == Order[requestAt]

(* workers = list(self.supervisor.workers) *)
TakeSnapshot ==
  /\ requestPc = "none" /\ answered < Requests
  /\ thread[Server] = "target" /\ serverPc = "serving"
  /\ requestPc' = "finished" /\ requestAt' = 1 /\ answered' = answered + 1
  /\ listed' = Cardinality({w \in Workers : thread[w] # "none"})
  /\ state' = [w \in Workers |-> "unread"] /\ damaged' = {}
  /\ wasDown' = finished \ clean /\ wasDamaged' = {w \in Workers : crashes[w] > 0}
  /\ UNCHANGED <<thread, counters, finished, server, main>>

Found(what) ==
  /\ state' = [state EXCEPT ![Current] = what]
  /\ IF requestAt = listed
     THEN requestPc' = "crashes" /\ requestAt' = 1
     ELSE requestPc' = "finished" /\ requestAt' = requestAt + 1

(* _worker_state reads is_finished(), then one of the other two. *)
ReadFinished ==
  /\ requestPc = "finished"
  /\ requestPc' = IF Current \in finished THEN "clean" ELSE "alive"
  /\ UNCHANGED <<thread, counters, finished, server, main, requestAt, listed, state,
                 damaged, answered, wasDown, wasDamaged>>

ReadClean ==
  /\ requestPc = "clean" /\ Found(IF Current \in clean THEN "finished" ELSE "down")
  /\ UNCHANGED <<thread, counters, finished, server, main, listed, damaged, answered,
                 wasDown, wasDamaged>>

ReadAlive ==
  /\ requestPc = "alive" /\ Found(IF IsAlive(Current) THEN "running" ELSE "lost")
  /\ UNCHANGED <<thread, counters, finished, server, main, listed, damaged, answered,
                 wasDown, wasDamaged>>

(* Mutant: only a worker that is still running can be damaged. *)
ReadCrashes_RunningOnly ==
  /\ requestPc = "crashes"
  /\ damaged' = IF crashes[Current] > 0 /\ state[Current] = "running"
                THEN damaged \cup {Current} ELSE damaged
  /\ IF requestAt = listed
     THEN requestPc' = "answer" /\ UNCHANGED requestAt
     ELSE requestAt' = requestAt + 1 /\ UNCHANGED requestPc
  /\ UNCHANGED <<thread, counters, finished, server, main, listed, state, answered,
                 wasDown, wasDamaged>>

ReadCrashes ==
  /\ requestPc = "crashes"
  /\ damaged' = IF crashes[Current] > 0 THEN damaged \cup {Current} ELSE damaged
  /\ IF requestAt = listed
     THEN requestPc' = "answer" /\ UNCHANGED requestAt
     ELSE requestAt' = requestAt + 1 /\ UNCHANGED requestPc
  /\ UNCHANGED <<thread, counters, finished, server, main, listed, state, answered,
                 wasDown, wasDamaged>>

Status ==
  IF \E w \in Workers : state[w] \in {"down", "lost"} THEN "down"
  ELSE IF damaged # {} THEN "degraded" ELSE "ok"

Answer ==
  /\ requestPc = "answer" /\ requestPc' = "none"
  /\ UNCHANGED <<thread, counters, finished, server, main, requestAt, listed, state,
                 damaged, answered, wasDown, wasDamaged>>

HealthNext ==
  TakeSnapshot \/ ReadFinished \/ ReadClean \/ ReadAlive \/ ReadCrashes \/ Answer

---------------------------------------------------------------------------
MainNext == Supervise \/ StartThread \/ SetStopEvent \/ CallStop \/ FlagServer

Next ==
  \/ MainNext \/ Shutdown
  \/ \E w \in Workers : WorkerNext(w)
  \/ ServerNext \/ HealthNext

Spec == Init /\ [][Next]_vars

(* main() and the server's thread go on; a bind answers; a backoff ends.   *)
(* Nothing makes a shutdown, a request or the end of another worker come.  *)
FairSpec ==
  /\ Spec /\ WF_vars(MainNext) /\ WF_vars(ServerNext) /\ WF_vars(WorkerNext(Server))

---------------------------------------------------------------------------
(* Properties. *)

(* Every variable stays within its type: with the counters, a worker is    *)
(* restarted at most MaxRestarts times and crashes at most once more.      *)
TypeOK ==
  /\ thread \in [Workers -> {"none", "listed", "target", "crashed", "backoff", "retire",
                             "unwinding", "dead"}]
  /\ restarts \in [Workers -> 0..MaxRestarts] /\ crashes \in [Workers -> 0..(MaxRestarts + 1)]
  /\ clean \subseteq Workers /\ finished \subseteq Workers
  /\ serverPc \in {"guard", "publish", "bind", "serving", "ended", "failed"}
  /\ {published, shouldExit} \subseteq BOOLEAN
  /\ mainPc \in {"append", "start", "run", "setEvent", "callStop", "flag", "join"}
  /\ mainAt \in 1..(Len(Order) + 1) /\ stopEvent \cup stopping \subseteq Workers
  /\ requestPc \in {"none", "finished", "clean", "alive", "crashes", "answer"}
  /\ requestAt \in Positions /\ listed \in 0..Len(Order) /\ answered \in 0..Requests
  /\ state \in [Workers -> {"unread", "running", "finished", "down", "lost"}]
  /\ damaged \cup wasDown \cup wasDamaged \subseteq Workers

(* A worker that had given up when the request came is never hidden: the   *)
(* verdict is "down", whatever the threads do while it is computed.  Nor is *)
(* a crash that came before the request hidden behind an "ok".              *)
FailureIsReported ==
  requestPc = "answer" =>
    (wasDown # {} => Status = "down") /\ (wasDamaged # {} => Status # "ok")

(* A worker is called "down" only after a crash of its own: a return that  *)
(* races the reads of _worker_state is never mistaken for a give-up.       *)
DownHasCrashed == \A w \in Workers : state[w] = "down" => crashes[w] > 0

(* A dead thread is a finished worker, on every path out of _run: main's   *)
(* liveness loop, which waits for is_finished(), never waits for a corpse. *)
DeadIsFinished == \A w \in Workers : thread[w] = "dead" => w \in finished

(* stop() ends the server wherever it finds it: before the guard, between  *)
(* the guard and the lock, binding, serving, or in the backoff of a bind   *)
(* that failed.                                                            *)
StopReachesServer == (mainPc = "join") ~> (thread[Server] = "dead")

=============================================================================
