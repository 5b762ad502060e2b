------------------------------ MODULE Lockstep ------------------------------
(***************************************************************************)
(* A backtest: the replay thread of connectors/pseudo.py, the algorithm    *)
(* threads of api/algorithm.py, the SupervisedWorker that runs each of     *)
(* them (supervisor/supervisor.py) and main.py's shutdown, around the      *)
(* barrier of SimulationClock.                                             *)
(*                                                                         *)
(* A step of a thread is what it does between two points where another     *)
(* thread can get in: one lock section of the clock, one read of a stop    *)
(* event, one payload handed to a device.                                  *)
(***************************************************************************)
EXTENDS SimulationClock, Sequences, FiniteSets

CONSTANTS
  Replay,          \* the replay connector's worker
  Devices,         \* the devices the configuration attaches to the replay
  UnknownDevice,   \* a name in the file that the configuration does not know
  Entries,         \* the sorted rows: [time, device, ok], ok: receive() accepts it
  FileOutcomes,    \* what loading may do: "ok", "none" (missing, empty), "raise"
  LoopFile,        \* option "loop"
  MaxPasses,       \* BOUND: passes of a looping replay
  Paced,           \* option "speed" > 0: the replay sleeps between timestamps
  StepTimeout,     \* step_timeout_seconds: "never" (null), "finite", "off" (<= 0)
  Required,        \* required_devices of each algorithm
  GateTimeout,     \* wait_for_devices_timeout is finite
  MainOutcomes,    \* how main() may end: "return", "raise", "exit" (SystemExit)
  RestartEnabled,  \* RestartPolicy.enabled
  MaxRestarts,     \* RestartPolicy.max_restarts
  StopOrder,       \* supervisor.workers: connectors first, then algorithms
  OtherConnector,  \* another connector keeps the run alive
  Interruptible    \* SIGINT or SIGTERM may arrive

Workers == Algorithms \cup {Replay}

ReplayPCs == {"load", "pass", "entry", "dispatch", "commit", "await", "passEnd"}
LoopPCs   == {"join", "gate", "top", "poll", "idle", "main", "live", "leave"}
DonePCs   == {"crashed", "backoff", "retire", "finish", "finished"}

ASSUME ConfigAssumption ==
  /\ Replay \notin Algorithms
  /\ Times \subseteq Int /\ NoTime \notin Times
  /\ UnknownDevice \notin Devices
  /\ Entries \in Seq([time : Times, device : Devices \cup {UnknownDevice}, ok : BOOLEAN])
  /\ \A i, j \in 1..Len(Entries) : i <= j => Entries[i].time <= Entries[j].time
  /\ Len(Entries) > 0
  /\ FileOutcomes \subseteq {"ok", "none", "raise"}
  /\ MainOutcomes \subseteq {"return", "raise", "exit"}
  /\ StepTimeout \in {"never", "finite", "off"}
  /\ Required \in [Algorithms -> SUBSET Devices]
  /\ {LoopFile, Paced, GateTimeout, RestartEnabled, OtherConnector, Interruptible}
       \subseteq BOOLEAN
  /\ MaxPasses \in Nat \ {0} /\ MaxRestarts \in Nat
  /\ StopOrder \in Seq(Workers)
  /\ \A w \in Workers : \E k \in 1..Len(StopOrder) : StopOrder[k] = w

VARIABLES
  pc,         \* where each worker's thread is
  idx,        \* the replay's position in Entries
  passes,     \* passes over the file begun so far
  data,       \* per device, the index of its last accepted row, 0 before any
  step,       \* per algorithm, the last Step wait_for_step handed it
  stepped,    \* the local "stepped", and _stepped_before_crash between loops
  restarts,   \* SupervisedWorker.restarts
  stopEvent,  \* workers whose SupervisedWorker._stop_event is set
  stopping,   \* workers whose Stoppable event is set
  mainPc,     \* main(): "run", or which half of request_stop comes next, or "join"
  mainAt      \* the position in supervisor.workers stop_all has reached

replayVars == <<idx, passes, data>>
algVars    == <<step, stepped>>
mainVars   == <<stopEvent, stopping, mainPc, mainAt>>
vars == <<clock, pc, replayVars, algVars, restarts, mainVars>>

NoStep == [gen |-> 0, time |-> NoTime]

Init ==
  /\ ClockInit
  /\ pc = [w \in Workers |-> IF w = Replay THEN "load" ELSE "join"]
  /\ idx = 1 /\ passes = 0
  /\ data = [d \in Devices |-> 0]
  /\ step = [a \in Algorithms |-> NoStep]
  /\ stepped = [a \in Algorithms |-> FALSE]
  /\ restarts = [w \in Workers |-> 0]
  /\ stopEvent = {} /\ stopping = {}
  /\ mainPc = "run" /\ mainAt = 1

Goto(w, from, to) == pc[w] = from /\ pc' = [pc EXCEPT ![w] = to]

---------------------------------------------------------------------------
(* The replay thread: PseudoConnector.start(). *)

NumEntries == Len(Entries)

(* The last row of its timestep: the next row carries another timestamp. *)
EndsStep(i) == i = NumEntries \/ Entries[i + 1].time # Entries[i].time

(* A file that is missing, unsupported or empty returns at once, and       *)
(* leaves the clock as it was; any other failure is a crash of start().    *)
AfterLoad(outcome) ==
  CASE outcome = "ok"    -> "pass"
    [] outcome = "none"  -> "retire"
    [] outcome = "raise" -> "crashed"

LoadFile ==
  /\ \E outcome \in FileOutcomes : Goto(Replay, "load", AfterLoad(outcome))
  /\ UNCHANGED <<clock, replayVars, algVars, restarts, mainVars>>

(* while not self.is_stopping(): a stop seen here skips the reset. *)
BeginPass ==
  /\ \/ Replay \in stopping /\ Goto(Replay, "pass", "retire") /\ UNCHANGED <<idx, passes>>
     \/ /\ Replay \notin stopping /\ Goto(Replay, "pass", "entry")
        /\ passes < MaxPasses
        /\ idx' = 1 /\ passes' = passes + 1
  /\ UNCHANGED <<clock, data, algVars, restarts, mainVars>>

NextEntry ==
  /\ Goto(Replay, "entry",
          IF idx > NumEntries \/ Replay \in stopping THEN "passEnd" ELSE "dispatch")
  /\ UNCHANGED <<clock, replayVars, algVars, restarts, mainVars>>

SleepsBefore(i) == Paced /\ i > 1 /\ Entries[i].time > Entries[i - 1].time

(* wait_stop() answered True: the sleep between two timestamps was cut. *)
SleepInterrupted ==
  /\ Goto(Replay, "dispatch", "passEnd")
  /\ SleepsBefore(idx) /\ Replay \in stopping
  /\ UNCHANGED <<clock, replayVars, algVars, restarts, mainVars>>

(* set_event_time, then deliver(): receive() and, when it accepted the     *)
(* payload, the readiness events and the registry's live snapshot.         *)
Dispatch ==
  /\ Goto(Replay, "dispatch", "commit")
  /\ ~ (SleepsBefore(idx) /\ Replay \in stopping)
  /\ SetEventTime(Entries[idx].time)
  /\ data' = [d \in Devices |->
                IF d = Entries[idx].device /\ Entries[idx].ok THEN idx ELSE data[d]]
  /\ UNCHANGED <<idx, passes, algVars, restarts, mainVars>>

(* Reached for an unknown device as well. *)
CommitStep ==
  /\ pc[Replay] = "commit"
  /\ IF EndsStep(idx)
     THEN Goto(Replay, "commit", "await") /\ PublishStep(Entries[idx].time) /\ UNCHANGED idx
     ELSE Goto(Replay, "commit", "entry") /\ idx' = idx + 1 /\ UNCHANGED clock
  /\ UNCHANGED <<passes, data, algVars, restarts, mainVars>>

(* wait_for_completion returned an empty list ... *)
AwaitDone ==
  /\ StepTimeout = "off" \/ ~AnyPending \/ Replay \in stopping
  /\ Goto(Replay, "await", "entry") /\ idx' = idx + 1
  /\ UNCHANGED <<clock, passes, data, algVars, restarts, mainVars>>

(* Mutant: the deadline is computed anew at every slice, and never passes. *)
AwaitOverrun_MovingDeadline == FALSE /\ UNCHANGED vars

(* ... or, past its deadline, the laggards: the replay advances anyway. *)
AwaitOverrun ==
  /\ StepTimeout = "finite" /\ AnyPending /\ Replay \notin stopping
  /\ Goto(Replay, "await", "entry") /\ idx' = idx + 1
  /\ UNCHANGED <<clock, passes, data, algVars, restarts, mainVars>>

EndPass ==
  /\ IF Replay \in stopping \/ ~LoopFile
     THEN Goto(Replay, "passEnd", "retire") /\ ClockReset
     ELSE Goto(Replay, "passEnd", "pass") /\ UNCHANGED clock
  /\ UNCHANGED <<replayVars, algVars, restarts, mainVars>>

(* BOUND: a looping replay that used up MaxPasses only ends by a stop. *)
ReplayNext ==
  \/ LoadFile \/ BeginPass \/ NextEntry \/ SleepInterrupted \/ Dispatch
  \/ CommitStep \/ AwaitDone \/ AwaitOverrun \/ EndPass

---------------------------------------------------------------------------
(* An algorithm thread: Algorithm.loop(). *)

Ready == {d \in Devices : data[d] # 0}

(* Mutant: a restarted loop() begins with stepped = False. *)
JoinLoop_Forgets(a) ==
  /\ Goto(a, "join", "gate") /\ Join(a)
  /\ stepped' = [stepped EXCEPT ![a] = FALSE]
  /\ UNCHANGED <<replayVars, step, restarts, mainVars>>

(* A restarted loop() is still a participant and keeps "stepped". *)
JoinLoop(a) ==
  /\ Goto(a, "join", "gate") /\ Join(a)
  /\ UNCHANGED <<replayVars, algVars, restarts, mainVars>>

(* _wait_for_required_devices: ready, timed out, or stopped. *)
PassGate(a) ==
  /\ Required[a] \subseteq Ready \/ GateTimeout \/ a \in stopping
  /\ Goto(a, "gate", "top")
  /\ UNCHANGED <<clock, replayVars, algVars, restarts, mainVars>>

(* while not self.is_stopping() *)
LoopGuard(a) ==
  /\ Goto(a, "top", IF a \in stopping THEN "leave" ELSE "poll")
  /\ UNCHANGED <<clock, replayVars, algVars, restarts, mainVars>>

(* wait_for_step returned a step ... *)
TakeStep(a) ==
  /\ StepReady(a)
  /\ Goto(a, "poll", "main")
  /\ step' = [step EXCEPT ![a] = CurrentStep]
  /\ stepped' = [stepped EXCEPT ![a] = TRUE]
  /\ UNCHANGED <<clock, replayVars, restarts, mainVars>>

(* ... or None, after its timeout or at once when nothing is simulated. *)
NoStepYet(a) ==
  /\ ~StepReady(a)
  /\ Goto(a, "poll", "idle")
  /\ UNCHANGED <<clock, replayVars, algVars, restarts, mainVars>>

(* is_simulated() takes the lock again: the clock may have moved since. *)
ChooseCadence(a) ==
  /\ Goto(a, "idle", IF simulated THEN "top"
                     ELSE IF stepped[a] THEN "leave" ELSE "live")
  /\ UNCHANGED <<clock, replayVars, algVars, restarts, mainVars>>

AfterMain(outcome) ==
  CASE outcome = "return" -> "top"
    [] outcome = "raise"  -> "crashed"
    [] outcome = "exit"   -> "leave"

(* Mutant: the ack is not in a finally, so a crashed step stays owed. *)
FinishStep_NoAckOnCrash(a) ==
  /\ \E outcome \in MainOutcomes :
       /\ Goto(a, "main", AfterMain(outcome))
       /\ IF outcome = "raise" THEN UNCHANGED clock ELSE Ack(a, step[a].gen)
  /\ UNCHANGED <<replayVars, algVars, restarts, mainVars>>

(* The step is acknowledged however main() ended. *)
FinishStep(a) ==
  /\ \E outcome \in MainOutcomes : Goto(a, "main", AfterMain(outcome))
  /\ Ack(a, step[a].gen)
  /\ UNCHANGED <<replayVars, algVars, restarts, mainVars>>

(* A wall-clock main(); the sleep of delay_seconds ends in the loop guard. *)
FinishLive(a) ==
  /\ \E outcome \in MainOutcomes : Goto(a, "live", AfterMain(outcome))
  /\ UNCHANGED <<clock, replayVars, algVars, restarts, mainVars>>

(* The finally of loop(): a return and a SystemExit leave the barrier. *)
LeaveLoop(a) ==
  /\ Goto(a, "leave", "retire") /\ Leave(a)
  /\ UNCHANGED <<replayVars, algVars, restarts, mainVars>>

AlgorithmNext(a) ==
  \/ JoinLoop(a) \/ PassGate(a) \/ LoopGuard(a) \/ TakeStep(a) \/ NoStepYet(a)
  \/ ChooseCadence(a) \/ FinishStep(a) \/ FinishLive(a) \/ LeaveLoop(a)

---------------------------------------------------------------------------
(* SupervisedWorker._run, after the target crashed. *)

MayRestart(w) ==
  w \notin stopEvent /\ RestartEnabled /\ restarts[w] < MaxRestarts

GiveUp(w) ==
  /\ ~MayRestart(w) /\ Goto(w, "crashed", "retire")
  /\ UNCHANGED <<clock, replayVars, algVars, restarts, mainVars>>

(* Mutant: a crash deregisters the algorithm, as a return does. *)
Backoff_Leaves(w) ==
  /\ MayRestart(w) /\ Goto(w, "crashed", "backoff")
  /\ restarts' = [restarts EXCEPT ![w] = @ + 1]
  /\ IF w \in Algorithms THEN Leave(w) ELSE UNCHANGED clock
  /\ UNCHANGED <<replayVars, algVars, mainVars>>

Backoff(w) ==
  /\ MayRestart(w) /\ Goto(w, "crashed", "backoff")
  /\ restarts' = [restarts EXCEPT ![w] = @ + 1]
  /\ UNCHANGED <<clock, replayVars, algVars, mainVars>>

(* _stop_event.wait(delay) answers whether the event was set. *)
EndBackoff(w) ==
  /\ Goto(w, "backoff", IF w \in stopEvent THEN "retire"
                        ELSE IF w = Replay THEN "load" ELSE "join")
  /\ UNCHANGED <<clock, replayVars, algVars, restarts, mainVars>>

(* Mutant: nobody releases the replay when no restart is coming. *)
Retire_KeepsReplayWaiting(w) ==
  /\ Goto(w, "retire", "finish")
  /\ UNCHANGED <<clock, replayVars, algVars, restarts, mainVars>>

(* retire() exists on algorithms only; the replay has nothing to release. *)
Retire(w) ==
  /\ Goto(w, "retire", "finish")
  /\ IF w \in Algorithms
     THEN Leave(w) /\ stepped' = [stepped EXCEPT ![w] = FALSE]
     ELSE UNCHANGED <<clock, stepped>>
  /\ UNCHANGED <<replayVars, step, restarts, mainVars>>

Finish(w) ==
  /\ Goto(w, "finish", "finished")
  /\ UNCHANGED <<clock, replayVars, algVars, restarts, mainVars>>

SupervisorNext(w) == GiveUp(w) \/ Backoff(w) \/ EndBackoff(w) \/ Retire(w) \/ Finish(w)

---------------------------------------------------------------------------
(* main(): the signal handler, the liveness loop, and stop_all(). *)

AllConnectorsFinished == pc[Replay] = "finished" /\ ~OtherConnector

Shutdown ==
  /\ mainPc = "run" /\ (Interruptible \/ AllConnectorsFinished)
  /\ mainPc' = "setEvent"
  /\ UNCHANGED <<clock, pc, replayVars, algVars, restarts, stopEvent, stopping, mainAt>>

SetStopEvent ==
  /\ mainPc = "setEvent"
  /\ stopEvent' = stopEvent \cup {StopOrder[mainAt]}
  /\ mainPc' = "callStop"
  /\ UNCHANGED <<clock, pc, replayVars, algVars, restarts, stopping, mainAt>>

CallStop ==
  /\ mainPc = "callStop"
  /\ stopping' = stopping \cup {StopOrder[mainAt]}
  /\ mainAt' = mainAt + 1
  /\ mainPc' = IF mainAt = Len(StopOrder) THEN "join" ELSE "setEvent"
  /\ UNCHANGED <<clock, pc, replayVars, algVars, restarts, stopEvent>>

MainNext == Shutdown \/ SetStopEvent \/ CallStop

(* The run is over: every worker finished and main only joins them. *)
Terminated ==
  /\ mainPc = "join" /\ \A w \in Workers : pc[w] = "finished"
  /\ UNCHANGED vars

---------------------------------------------------------------------------
Next ==
  \/ ReplayNext
  \/ \E a \in Algorithms : AlgorithmNext(a)
  \/ \E w \in Workers : SupervisorNext(w)
  \/ MainNext
  \/ Terminated

Spec == Init /\ [][Next]_vars

(* A thread that can run is run, a sleep, a deadline or a backoff ends, and *)
(* main() of an algorithm comes back.  No fairness makes a signal arrive or *)
(* picks how main() ends.                                                   *)
FairExceptAlgorithms ==
  /\ WF_vars(ReplayNext)
  /\ \A w \in Workers : WF_vars(SupervisorNext(w))
  /\ WF_vars(AllConnectorsFinished /\ Shutdown) /\ WF_vars(SetStopEvent \/ CallStop)

FairSpec ==
  Spec /\ FairExceptAlgorithms /\ \A a \in Algorithms : WF_vars(AlgorithmNext(a))

(* The weaker assumption: an algorithm may hang in main(), in its gate or   *)
(* anywhere else, for ever.                                                 *)
HungSpec == Spec /\ FairExceptAlgorithms

---------------------------------------------------------------------------
(* Properties. *)

(* Every variable stays within its type. *)
TypeOK ==
  /\ ClockTypeOK
  /\ pc \in [Workers -> ReplayPCs \cup LoopPCs \cup DonePCs]
  /\ idx \in 1..(NumEntries + 1) /\ passes \in 0..MaxPasses
  /\ data \in [Devices -> 0..NumEntries]
  /\ step \in [Algorithms -> [gen : Nat, time : Times \cup {NoTime}]]
  /\ stepped \in [Algorithms -> BOOLEAN]
  /\ restarts \in [Workers -> 0..MaxRestarts]
  /\ stopEvent \subseteq Workers /\ stopping \subseteq Workers
  /\ mainPc \in {"run", "setEvent", "callStop", "join"}
  /\ mainAt \in 1..(Len(StopOrder) + 1)

(* step_timeout_seconds: null, the setting under which no step is given up. *)
Strict == StepTimeout = "never"

(* The index of the last row of the g-th step ever committed, and what each *)
(* device then holds: its last accepted row, of an earlier pass if need be. *)
SetMax(S) == CHOOSE x \in S : \A y \in S : y <= x

StepEnds == {i \in 1..NumEntries : EndsStep(i)}
Ends(i) == Cardinality({j \in StepEnds : j <= i})
EndOf(g) == CHOOSE i \in StepEnds : \E p \in 0..MaxPasses : g = p * Ends(NumEntries) + Ends(i)
Readings(d, last) == {i \in 1..last : Entries[i].device = d /\ Entries[i].ok}
DataAt(g) ==
  [d \in Devices |->
     LET own == Readings(d, EndOf(g))
         old == IF g > Ends(NumEntries) THEN Readings(d, NumEntries) ELSE {}
     IN  IF own # {} THEN SetMax(own) ELSE IF old # {} THEN SetMax(old) ELSE 0]

(* An algorithm inside main() reads every device as its own timestep left   *)
(* it: no reading of a later timestep, none missing, whatever the threads   *)
(* do, and also while the run is being stopped.  The barrier's promise in   *)
(* the docstrings of SimulationClock and PseudoConnector.                   *)
SeesOwnTimestep ==
  Strict => \A a \in Algorithms : pc[a] = "main" => data = DataAt(step[a].gen)

(* The structural half of the same promise: the step being processed is the *)
(* newest one, so get_simulation_time() is stable for the whole of main().  *)
NoRunAhead ==
  Strict => \A a \in Algorithms : pc[a] = "main" => step[a].gen = generation

(* While nothing is being stopped, a decision taken in main() is stamped    *)
(* with the timestep main() is processing (decision_timestamp reads the     *)
(* committed step when the decision is written).                            *)
StampStable ==
  Strict /\ Replay \notin stopping =>
    \A a \in Algorithms : pc[a] = "main" => stepTime = step[a].time

(* An algorithm is a participant from its construction until its worker is  *)
(* retired, through every crash and backoff, and never after.               *)
ParticipantUntilRetired ==
  \A a \in Algorithms :
    /\ pc[a] \notin {"retire", "finish", "finished"} => acked[a] # NotJoined
    /\ pc[a] \in {"finish", "finished"} => acked[a] = NotJoined

(* An algorithm that processed a replay step never runs on the wall clock   *)
(* afterwards, even when it crashed on the last step and restarts into a    *)
(* clock that was reset.                                                    *)
NoWallClockAfterStep ==
  \A a \in Algorithms : step[a].gen > 0 => pc[a] # "live"

(* An algorithm enters main() with a replay step. *)
Begins(a) == pc[a] # "main" /\ pc'[a] = "main"

(* Every step is processed once, and the next one an algorithm begins is    *)
(* the next one committed: a crash and its backoff neither repeat a         *)
(* timestep nor lose one.                                                   *)
EveryStepOnce ==
  [][Strict => \A a \in Algorithms :
       Begins(a) => step'[a].gen = step[a].gen + 1]_vars

(* A step is committed only once every algorithm that will run again has    *)
(* been handed the previous one and is out of main().                       *)
CommitAfterAll ==
  [][Strict /\ generation' # generation =>
       \A a \in Algorithms :
         pc[a] \notin {"retire", "finish", "finished"} =>
           step[a].gen = generation /\ pc[a] # "main"]_vars

(* With any step timeout, lockstep on or off, no step is processed twice    *)
(* and none out of order, the one main() crashed on included.               *)
StepsIncrease ==
  [][\A a \in Algorithms : Begins(a) => step'[a].gen > step[a].gen]_vars

(* A replay reaches the end of its last pass over the file whatever the     *)
(* algorithms do: hang, crash, exit, or run out of restarts.                *)
ReplayCompletes ==
  <>(pc[Replay] = "finished" \/ (LoopFile /\ passes = MaxPasses /\ pc[Replay] = "pass"))

(* The run ends with every worker finished, whichever way the algorithms    *)
(* ended: the replay completes and main notices, or a signal came and found *)
(* each thread wherever it was: in its gate, waiting for a step, in a       *)
(* backoff, in the barrier of an unlimited step, in a paced replay's sleep. *)
AllFinished == mainPc = "join" /\ \A w \in Workers : pc[w] = "finished"
RunEnds == <>AllFinished

(* loop() runs main() on a wall-clock cadence when no replay drives the     *)
(* clock: an algorithm no replay step reached runs once the replay's worker *)
(* is finished and the rest of the run goes on.                             *)
LiveCadenceOtherwise ==
  \A a \in Algorithms :
    (pc[Replay] = "finished" /\ mainPc = "run" /\ step[a].gen = 0)
      ~> (pc[a] \in {"live", "finished"} \/ mainPc # "run")

---------------------------------------------------------------------------
(* Refinement and the inductive invariant. *)

Rounds == INSTANCE Backtest WITH
  Views   <- [Devices -> 0..NumEntries],
  round   <- generation,
  view    <- data,
  member  <- Participants,
  busy    <- {a \in Algorithms : pc[a] = "main"},
  handled <- [a \in Algorithms |-> step[a].gen]

(* With an unlimited step timeout the threads, the crashes, the restarts    *)
(* and the stop of this module implement the rounds of Backtest.            *)
ImplementsBacktest == Rounds!Spec

(* The cursors are inside what they index wherever they are used.           *)
Positions ==
  /\ pc[Replay] \in {"dispatch", "commit", "await"} => idx <= NumEntries
  /\ mainPc \in {"run", "setEvent", "callStop"} => mainAt <= Len(StopOrder)

(* An algorithm owes at most the newest step, has begun what it             *)
(* acknowledged, and processes nothing but the newest step.                 *)
Owing ==
  \A a \in Algorithms :
    /\ acked[a] # NotJoined => acked[a] \in {generation, generation - 1}
    /\ acked[a] # NotJoined /\ pc[a] # "main" => acked[a] = step[a].gen
    /\ pc[a] = "main" => step[a].gen = generation /\ acked[a] = generation - 1

(* Outside the barrier's wait nobody owes a step, unless the replay is      *)
(* being stopped, and then it does not get to dispatch another row.         *)
Holding ==
  /\ pc[Replay] \in {"dispatch", "commit"} => ~AnyPending
  /\ pc[Replay] # "await" => Replay \in stopping \/ ~AnyPending

(* The inductive strengthening of the safety properties above.              *)
IInv ==
  /\ TypeOK /\ Positions
  /\ ParticipantUntilRetired
  /\ Strict => Owing /\ Holding /\ StampStable
=============================================================================
