--------------------------- MODULE LockstepProofs ---------------------------
(***************************************************************************)
(* Theorems about Lockstep, for any algorithms, devices, rows, restart     *)
(* policy and order of shutdown that satisfy ConfigAssumption.             *)
(***************************************************************************)
EXTENDS Lockstep, FiniteSetTheorems, TLAPS

TypeInv == TypeOK /\ Positions

(* Facts about the configuration that the proofs cite. *)
LEMMA Config ==
  /\ Replay \notin Algorithms
  /\ Workers = Algorithms \cup {Replay}
  /\ NumEntries \in Nat /\ NumEntries > 0
  /\ \A i \in 1..NumEntries : Entries[i].time \in Times
  /\ NoTime \notin Times
  /\ Len(StopOrder) \in Nat /\ Len(StopOrder) > 0
  /\ \A k \in 1..Len(StopOrder) : StopOrder[k] \in Workers
  /\ MaxRestarts \in Nat /\ MaxPasses \in Nat
<1> DEFINE Rows == [time : Times, device : Devices \cup {UnknownDevice}, ok : BOOLEAN]
<1>1. Entries \in Seq(Rows) /\ \A r \in Rows : r.time \in Times
  BY ConfigAssumption
<1> HIDE DEF Rows
<1>2. NumEntries \in Nat /\ NumEntries > 0
  BY <1>1, ConfigAssumption DEF NumEntries
<1>3. \A i \in 1..NumEntries : Entries[i].time \in Times
  BY <1>1 DEF NumEntries
<1>4. StopOrder \in Seq(Workers) /\ \E k \in 1..Len(StopOrder) : StopOrder[k] = Replay
  BY ConfigAssumption DEF Workers
<1>5. Len(StopOrder) \in Nat /\ Len(StopOrder) > 0
  BY <1>4
<1>6. \A k \in 1..Len(StopOrder) : StopOrder[k] \in Workers
  BY <1>4
<1>7. /\ Replay \notin Algorithms /\ NoTime \notin Times
      /\ MaxRestarts \in Nat /\ MaxPasses \in Nat
  BY ConfigAssumption
<1> QED BY <1>2, <1>3, <1>5, <1>6, <1>7 DEF Workers

(* What loading the file, and what the end of main(), lead to. *)
LEMMA Outcomes ==
  /\ \A o \in FileOutcomes : AfterLoad(o) \in {"pass", "retire", "crashed"}
  /\ \A o \in MainOutcomes : AfterMain(o) \in {"top", "crashed", "leave"}
BY ConfigAssumption DEF AfterLoad, AfterMain

LEMMA InitType == Init => TypeInv
BY Config DEF Init, ClockInit, TypeInv, TypeOK, Positions, ClockTypeOK, NoStep, NotJoined,
              ReplayPCs, LoopPCs, DonePCs

(* Every step of the replay thread keeps the types. *)
LEMMA ReplayType == TypeInv /\ ReplayNext => TypeInv'
<1> SUFFICES ASSUME TypeInv, ReplayNext PROVE TypeInv'
  OBVIOUS
<1> USE Config DEF TypeInv, TypeOK, Positions, ClockTypeOK, Goto, ReplayPCs, LoopPCs, DonePCs,
        clock, replayVars, algVars, mainVars
<1>1. CASE LoadFile
  BY <1>1, Outcomes DEF LoadFile
<1>2. CASE BeginPass
  BY <1>2, SMTT(40) DEF BeginPass
<1>3. CASE NextEntry
  BY <1>3 DEF NextEntry
<1>4. CASE SleepInterrupted
  BY <1>4 DEF SleepInterrupted
<1>5. CASE Dispatch
  BY <1>5 DEF Dispatch, SetEventTime
<1>6. CASE CommitStep
  <2>1. idx \in 1..NumEntries /\ Entries[idx].time \in Times
    BY <1>6 DEF CommitStep
  <2>2. CASE EndsStep(idx)
    BY <1>6, <2>1, <2>2 DEF CommitStep, PublishStep
  <2>3. CASE ~EndsStep(idx)
    BY <1>6, <2>1, <2>3 DEF CommitStep
  <2> QED BY <2>2, <2>3
<1>7. CASE AwaitDone
  BY <1>7 DEF AwaitDone
<1>8. CASE AwaitOverrun
  BY <1>8 DEF AwaitOverrun
<1>9. CASE EndPass
  <2>1. CASE Replay \in stopping \/ ~LoopFile
    <3>1. /\ simulated' = FALSE /\ eventTime' = NoTime /\ stepTime' = NoTime
          /\ UNCHANGED <<generation, acked>> /\ UNCHANGED <<replayVars, algVars, restarts, mainVars>>
          /\ pc[Replay] = "passEnd" /\ pc' = [pc EXCEPT ![Replay] = "retire"]
      BY <1>9, <2>1 DEF EndPass, ClockReset
    <3>2. ClockTypeOK'
      BY <3>1
    <3>3. pc' \in [Workers -> ReplayPCs \cup LoopPCs \cup DonePCs]
      BY <3>1
    <3>4. Positions'
      BY <3>1
    <3> QED BY <3>1, <3>2, <3>3, <3>4
  <2>2. CASE ~(Replay \in stopping \/ ~LoopFile)
    BY <1>9, <2>2, SMTT(40) DEF EndPass
  <2> QED BY <2>1, <2>2
<1> QED BY <1>1, <1>2, <1>3, <1>4, <1>5, <1>6, <1>7, <1>8, <1>9 DEF ReplayNext

(* Every step of an algorithm thread keeps the types. *)
LEMMA AlgorithmType ==
  ASSUME TypeInv, NEW a \in Algorithms, AlgorithmNext(a)
  PROVE  TypeInv'
<1> USE Config DEF TypeInv, TypeOK, Positions, ClockTypeOK, Goto, ReplayPCs, LoopPCs, DonePCs,
        clock, replayVars, algVars, mainVars
<1>1. CASE JoinLoop(a)
  BY <1>1 DEF JoinLoop, Join
<1>2. CASE PassGate(a)
  BY <1>2 DEF PassGate
<1>3. CASE LoopGuard(a)
  BY <1>3 DEF LoopGuard
<1>4. CASE TakeStep(a)
  BY <1>4 DEF TakeStep, CurrentStep
<1>5. CASE NoStepYet(a)
  BY <1>5 DEF NoStepYet
<1>6. CASE ChooseCadence(a)
  BY <1>6 DEF ChooseCadence
<1>7. CASE FinishStep(a)
  BY <1>7, Outcomes DEF FinishStep, Ack
<1>8. CASE FinishLive(a)
  BY <1>8, Outcomes DEF FinishLive
<1>9. CASE LeaveLoop(a)
  BY <1>9 DEF LeaveLoop, Leave
<1> QED BY <1>1, <1>2, <1>3, <1>4, <1>5, <1>6, <1>7, <1>8, <1>9 DEF AlgorithmNext

(* Every step of a SupervisedWorker keeps the types. *)
LEMMA SupervisorType ==
  ASSUME TypeInv, NEW w \in Workers, SupervisorNext(w)
  PROVE  TypeInv'
<1> USE Config DEF TypeInv, TypeOK, Positions, ClockTypeOK, Goto, ReplayPCs, LoopPCs, DonePCs,
        clock, replayVars, algVars, mainVars
<1>1. CASE GiveUp(w)
  BY <1>1 DEF GiveUp
<1>2. CASE Backoff(w)
  BY <1>2 DEF Backoff, MayRestart
<1>3. CASE EndBackoff(w)
  BY <1>3 DEF EndBackoff
<1>4. CASE Retire(w)
  BY <1>4 DEF Retire, Leave
<1>5. CASE Finish(w)
  BY <1>5 DEF Finish
<1> QED BY <1>1, <1>2, <1>3, <1>4, <1>5 DEF SupervisorNext

(* Every step of main keeps the types. *)
LEMMA MainType == TypeInv /\ MainNext => TypeInv'
<1> SUFFICES ASSUME TypeInv, MainNext PROVE TypeInv'
  OBVIOUS
<1> USE Config DEF TypeInv, TypeOK, Positions, ClockTypeOK, clock, replayVars, algVars
<1>1. CASE Shutdown
  BY <1>1 DEF Shutdown
<1>2. CASE SetStopEvent
  BY <1>2 DEF SetStopEvent
<1>3. CASE CallStop
  BY <1>3 DEF CallStop
<1> QED BY <1>1, <1>2, <1>3 DEF MainNext

LEMMA NextType == TypeInv /\ [Next]_vars => TypeInv'
<1> SUFFICES ASSUME TypeInv, [Next]_vars PROVE TypeInv'
  OBVIOUS
<1>1. CASE UNCHANGED vars
  BY <1>1 DEF TypeInv, TypeOK, Positions, ClockTypeOK, vars, clock, replayVars, algVars, mainVars
<1>2. CASE Terminated
  BY <1>1, <1>2 DEF Terminated
<1> QED
  BY <1>1, <1>2, ReplayType, AlgorithmType, SupervisorType, MainType DEF Next

(* Every variable of the composition stays within its type, and no cursor  *)
(* is used outside what it indexes, for any configuration.                 *)
THEOREM TypeCorrect == Spec => [](TypeOK /\ Positions)
<1>1. Spec => []TypeInv
  BY InitType, NextType, PTL DEF Spec
<1> QED BY <1>1, PTL DEF TypeInv

---------------------------------------------------------------------------
(* Participation. *)

LEMMA ParticipantInit == Init => ParticipantUntilRetired
<1> SUFFICES ASSUME Init, NEW a \in Algorithms
             PROVE  /\ pc[a] \notin {"retire", "finish", "finished"} => acked[a] # NotJoined
                    /\ pc[a] \in {"finish", "finished"} => acked[a] = NotJoined
  BY DEF ParticipantUntilRetired
<1>1. a \in Workers /\ a # Replay
  BY Config
<1>2. pc[a] = "join" /\ acked[a] = 0
  BY <1>1 DEF Init, ClockInit
<1> QED BY <1>2 DEF NotJoined

LEMMA ParticipantStep ==
  TypeInv /\ ParticipantUntilRetired /\ [Next]_vars => ParticipantUntilRetired'
<1> SUFFICES ASSUME TypeInv, ParticipantUntilRetired, [Next]_vars
             PROVE  ParticipantUntilRetired'
  OBVIOUS
<1> USE Config DEF TypeInv, TypeOK, ClockTypeOK, ParticipantUntilRetired,
        NotJoined, Goto, clock, replayVars, algVars, mainVars
<1>1. CASE UNCHANGED vars \/ Terminated
  BY <1>1 DEF vars, Terminated
<1>2. CASE ReplayNext
  BY <1>2 DEF ReplayNext, LoadFile, BeginPass, NextEntry, SleepInterrupted, Dispatch,
              SetEventTime, CommitStep, PublishStep, AwaitDone, AwaitOverrun, EndPass, ClockReset
<1>3. ASSUME NEW a \in Algorithms, AlgorithmNext(a) PROVE ParticipantUntilRetired'
  <2>1. CASE JoinLoop(a)
    BY <2>1 DEF JoinLoop, Join
  <2>2. CASE PassGate(a) \/ LoopGuard(a) \/ NoStepYet(a) \/ ChooseCadence(a)
    BY <2>2 DEF PassGate, LoopGuard, NoStepYet, ChooseCadence
  <2>6. CASE TakeStep(a)
    BY <2>6 DEF TakeStep
  <2>3. CASE FinishStep(a)
    <3>1. step[a].gen \in Nat /\ acked[a] \in Nat \cup {-1}
      OBVIOUS
    <3>2. acked' = [acked EXCEPT ![a] = IF acked[a] < step[a].gen THEN step[a].gen ELSE acked[a]]
      BY <2>3 DEF FinishStep, Ack
    <3>3. acked'[a] # -1 /\ \A b \in Algorithms \ {a} : acked'[b] = acked[b]
      BY <2>3, <3>1, <3>2 DEF FinishStep
    <3>4. PICK to \in {"top", "crashed", "leave"} : pc' = [pc EXCEPT ![a] = to]
      BY <2>3, Outcomes DEF FinishStep
    <3> QED BY <3>3, <3>4
  <2>4. CASE FinishLive(a)
    BY <2>4, Outcomes DEF FinishLive
  <2>5. CASE LeaveLoop(a)
    BY <2>5 DEF LeaveLoop, Leave
  <2> QED BY <1>3, <2>1, <2>2, <2>3, <2>4, <2>5, <2>6 DEF AlgorithmNext
<1>4. ASSUME NEW w \in Workers, SupervisorNext(w) PROVE ParticipantUntilRetired'
  <2>1. CASE GiveUp(w) \/ Backoff(w) \/ EndBackoff(w) \/ Finish(w)
    BY <2>1, SMTT(40) DEF GiveUp, Backoff, EndBackoff, Finish
  <2>2. CASE Retire(w)
    BY <2>2, SMTT(40) DEF Retire, Leave
  <2> QED BY <1>4, <2>1, <2>2 DEF SupervisorNext
<1>5. CASE MainNext
  BY <1>5 DEF MainNext, Shutdown, SetStopEvent, CallStop
<1> QED BY <1>1, <1>2, <1>3, <1>4, <1>5 DEF Next

(* An algorithm is a participant of the barrier until its worker retires   *)
(* it, through every crash, and never afterwards: with any step timeout    *)
(* and any restart policy.                                                 *)
THEOREM ParticipationCorrect == Spec => []ParticipantUntilRetired
<1> DEFINE I == TypeInv /\ ParticipantUntilRetired
<1>1. Init => I
  BY InitType, ParticipantInit
<1>2. I /\ [Next]_vars => I'
  BY NextType, ParticipantStep
<1>3. Spec => []I
  BY <1>1, <1>2, PTL DEF Spec
<1> QED BY <1>3, PTL

---------------------------------------------------------------------------
(* The barrier without a step timeout. *)

BarrierInv == Owing /\ Holding /\ StampStable

LEMMA BarrierInit == Init => BarrierInv
<1> SUFFICES ASSUME Init PROVE BarrierInv
  OBVIOUS
<1>1. pc[Replay] = "load"
  BY Config DEF Init
<1>2. ASSUME NEW a \in Algorithms
      PROVE  pc[a] = "join" /\ acked[a] = 0 /\ generation = 0 /\ step[a].gen = 0
  <2>1. a \in Workers /\ a # Replay
    BY Config
  <2> QED BY <2>1 DEF Init, ClockInit, NoStep
<1>3. Owing /\ StampStable
  BY <1>2 DEF Owing, StampStable
<1>4. ~AnyPending
  BY <1>2 DEF AnyPending, IsPending
<1>5. Holding
  BY <1>1, <1>4 DEF Holding
<1> QED BY <1>3, <1>5 DEF BarrierInv

(* A step that moves one thread without touching the barrier, and takes no *)
(* one into main(), the replay not into dispatching and not out of a stop. *)
LEMMA BarrierFrame ==
  ASSUME TypeInv, BarrierInv,
         UNCHANGED <<stepTime, generation, acked, step>>, stopping \subseteq stopping',
         \A a \in Algorithms : pc'[a] = "main" <=> pc[a] = "main",
         pc'[Replay] = "await" <=> pc[Replay] = "await",
         pc'[Replay] \in {"dispatch", "commit"} => pc[Replay] \in {"dispatch", "commit"}
  PROVE  BarrierInv'
<1>1. AnyPending' <=> AnyPending
  BY DEF AnyPending, IsPending
<1>2. Owing'
  BY DEF BarrierInv, Owing
<1>3. Holding'
  BY <1>1 DEF BarrierInv, Holding
<1>4. StampStable'
  BY DEF BarrierInv, StampStable
<1> QED BY <1>2, <1>3, <1>4 DEF BarrierInv

(* An algorithm in main() owes the step it is processing. *)
LEMMA InMainIsPending ==
  ASSUME TypeInv, ParticipantUntilRetired, Owing, NEW a \in Algorithms, pc[a] = "main"
  PROVE  acked[a] # NotJoined /\ acked[a] < generation /\ IsPending(a)
BY DEF TypeInv, TypeOK, ClockTypeOK, ParticipantUntilRetired, Owing, IsPending

LEMMA ReplayBarrier ==
  ASSUME TypeInv, ParticipantUntilRetired, Strict, BarrierInv, ReplayNext
  PROVE  BarrierInv'
<1> USE Config DEF Goto, replayVars, algVars, mainVars, clock
<1>a. pc \in [Workers -> ReplayPCs \cup LoopPCs \cup DonePCs]
  BY DEF TypeInv, TypeOK
<1>b. \A a \in Algorithms : a # Replay /\ a \in Workers
  OBVIOUS
<1>c. ~AnyPending => \A a \in Algorithms : pc[a] # "main"
  BY InMainIsPending DEF AnyPending, BarrierInv
<1>1. CASE LoadFile
  <2>1. pc'[Replay] \in {"pass", "retire", "crashed"} /\ pc[Replay] = "load"
    BY <1>1, <1>a, Outcomes DEF LoadFile
  <2>2. \A a \in Algorithms : pc'[a] = pc[a]
    BY <1>1, <1>a, <1>b DEF LoadFile
  <2> QED BY <1>1, <2>1, <2>2, BarrierFrame DEF LoadFile
<1>2. CASE BeginPass
  BY <1>2, <1>a, <1>b, BarrierFrame DEF BeginPass
<1>3. CASE NextEntry
  <2>1. CASE idx > NumEntries \/ Replay \in stopping
    BY <1>3, <2>1, <1>a, <1>b, BarrierFrame DEF NextEntry
  <2>2. CASE ~(idx > NumEntries \/ Replay \in stopping)
    <3>1. ~AnyPending /\ ~AnyPending'
      BY <1>3, <2>2 DEF NextEntry, BarrierInv, Holding, AnyPending, IsPending
    <3> QED BY <1>3, <3>1, <1>a, <1>b DEF NextEntry, BarrierInv, Holding, Owing, StampStable
  <2> QED BY <2>1, <2>2
<1>4. CASE SleepInterrupted
  BY <1>4, <1>a, <1>b, BarrierFrame DEF SleepInterrupted
<1>5. CASE Dispatch
  BY <1>5, <1>a, <1>b, BarrierFrame DEF Dispatch, SetEventTime
<1>6. CASE CommitStep
  <2>1. ~AnyPending
    BY <1>6 DEF CommitStep, BarrierInv, Holding
  <2>2. CASE ~EndsStep(idx)
    BY <1>6, <2>2, <1>a, <1>b, BarrierFrame DEF CommitStep
  <2>3. CASE EndsStep(idx)
    <3>1. generation' = generation + 1 /\ acked' = acked /\ step' = step
      BY <1>6, <2>3 DEF CommitStep, PublishStep
    <3>2. \A a \in Algorithms : acked[a] # NotJoined => acked[a] = generation
      BY <2>1 DEF AnyPending, IsPending, BarrierInv, Owing, TypeInv, TypeOK, ClockTypeOK
    <3>3. \A a \in Algorithms : pc'[a] = pc[a] /\ pc[a] # "main"
      BY <1>6, <2>1, <2>3, <1>a, <1>b, <1>c DEF CommitStep
    <3>4. pc'[Replay] = "await"
      BY <1>6, <2>3, <1>a DEF CommitStep
    <3>5. generation \in Nat
      BY DEF TypeInv, TypeOK, ClockTypeOK
    <3>6. Owing'
      BY <3>1, <3>2, <3>3, <3>5 DEF Owing, BarrierInv
    <3>7. Holding' /\ StampStable'
      BY <3>3, <3>4 DEF Holding, StampStable
    <3> QED BY <3>6, <3>7 DEF BarrierInv
  <2> QED BY <2>2, <2>3
<1>7. CASE AwaitDone
  <2>1. ~AnyPending \/ Replay \in stopping
    BY <1>7 DEF AwaitDone, Strict
  <2>2. AnyPending' <=> AnyPending
    BY <1>7 DEF AwaitDone, AnyPending, IsPending
  <2> QED BY <1>7, <2>1, <2>2, <1>a, <1>b
            DEF AwaitDone, BarrierInv, Holding, Owing, StampStable
<1>8. CASE AwaitOverrun
  BY <1>8 DEF AwaitOverrun, Strict
<1>9. CASE EndPass
  <2>1. \A a \in Algorithms : pc'[a] = pc[a]
    BY <1>9, <1>a, <1>b DEF EndPass
  <2>2. pc'[Replay] \in {"retire", "pass"} /\ pc[Replay] = "passEnd"
    BY <1>9, <1>a DEF EndPass
  <2>3. UNCHANGED <<generation, acked, step, stopping>>
    BY <1>9 DEF EndPass, ClockReset
  <2>4. AnyPending' <=> AnyPending
    BY <2>3 DEF AnyPending, IsPending
  <2>5. Owing' /\ Holding'
    BY <2>1, <2>2, <2>3, <2>4 DEF BarrierInv, Owing, Holding
  <2>6. StampStable'
    BY <2>1, <2>2, <2>3, <1>c DEF BarrierInv, Holding, StampStable
  <2> QED BY <2>5, <2>6 DEF BarrierInv
<1> QED BY <1>1, <1>2, <1>3, <1>4, <1>5, <1>6, <1>7, <1>8, <1>9 DEF ReplayNext

(* Leaving the barrier, which an algorithm never does inside main(). *)
LEMMA LeaveBarrier ==
  ASSUME TypeInv, BarrierInv, NEW a \in Algorithms, Leave(a), UNCHANGED <<step, stopping>>,
         pc[a] # "main", pc'[a] # "main", pc'[Replay] = pc[Replay],
         \A b \in Algorithms \ {a} : pc'[b] = pc[b]
  PROVE  BarrierInv'
<1>1. acked'[a] = NotJoined /\ \A b \in Algorithms \ {a} : acked'[b] = acked[b]
  BY DEF Leave, TypeInv, TypeOK, ClockTypeOK
<1>2. UNCHANGED <<generation, stepTime>>
  BY DEF Leave
<1>3. AnyPending' => AnyPending
  BY <1>1, <1>2 DEF AnyPending, IsPending
<1>4. Owing'
  BY <1>1, <1>2 DEF Owing, BarrierInv
<1>5. Holding' /\ StampStable'
  BY <1>2, <1>3 DEF Holding, StampStable, BarrierInv
<1> QED BY <1>4, <1>5 DEF BarrierInv

LEMMA AlgorithmBarrier ==
  ASSUME TypeInv, ParticipantUntilRetired, Strict, BarrierInv,
         NEW a \in Algorithms, AlgorithmNext(a)
  PROVE  BarrierInv'
<1> USE DEF Goto, replayVars, algVars, mainVars, clock
<1>a. pc \in [Workers -> ReplayPCs \cup LoopPCs \cup DonePCs]
  BY DEF TypeInv, TypeOK
<1>b. a # Replay /\ a \in Workers /\ Replay \in Workers /\ \A b \in Algorithms : b \in Workers
  BY Config
<1>t. acked \in [Algorithms -> Nat \cup {NotJoined}] /\ generation \in Nat
      /\ step \in [Algorithms -> [gen : Nat, time : Times \cup {NoTime}]]
  BY DEF TypeInv, TypeOK, ClockTypeOK
<1>1. CASE JoinLoop(a)
  <2>1. acked[a] # NotJoined
    BY <1>1 DEF JoinLoop, ParticipantUntilRetired
  <2>2. acked' = acked
    BY <1>1, <2>1, <1>t DEF JoinLoop, Join
  <2> QED BY <1>1, <2>2, <1>a, <1>b, BarrierFrame DEF JoinLoop, Join
<1>2. CASE PassGate(a)
  BY <1>2, <1>a, <1>b, BarrierFrame DEF PassGate
<1>3. CASE LoopGuard(a)
  BY <1>3, <1>a, <1>b, BarrierFrame DEF LoopGuard
<1>4. CASE TakeStep(a)
  <2>1. UNCHANGED <<generation, acked, stepTime, stopping>>
    BY <1>4 DEF TakeStep
  <2>2. acked[a] # NotJoined /\ acked[a] = generation - 1
    BY <1>4, <1>t DEF TakeStep, StepReady, IsPending, BarrierInv, Owing
  <2>3. step'[a].gen = generation /\ step'[a].time = stepTime
        /\ \A b \in Algorithms \ {a} : step'[b] = step[b]
    BY <1>4, <1>t DEF TakeStep, CurrentStep
  <2>4. pc'[a] = "main" /\ \A w \in Workers \ {a} : pc'[w] = pc[w]
    BY <1>4, <1>a, <1>b DEF TakeStep
  <2>5. Owing'
    BY <2>1, <2>2, <2>3, <2>4, <1>b DEF BarrierInv, Owing
  <2>6. AnyPending' <=> AnyPending
    BY <2>1 DEF AnyPending, IsPending
  <2>7. Holding'
    BY <2>1, <2>4, <2>6, <1>b DEF BarrierInv, Holding
  <2>8. StampStable'
    BY <2>1, <2>3, <2>4, <1>b DEF BarrierInv, StampStable
  <2> QED BY <2>5, <2>7, <2>8 DEF BarrierInv
<1>5. CASE NoStepYet(a)
  BY <1>5, <1>a, <1>b, BarrierFrame DEF NoStepYet
<1>6. CASE ChooseCadence(a)
  BY <1>6, <1>a, <1>b, BarrierFrame DEF ChooseCadence
<1>7. CASE FinishStep(a)
  <2>1. UNCHANGED <<generation, stepTime, step, stopping>>
    BY <1>7 DEF FinishStep, Ack
  <2>2. step[a].gen = generation /\ acked[a] = generation - 1 /\ pc[a] = "main"
    BY <1>7 DEF FinishStep, BarrierInv, Owing
  <2>3. acked'[a] = generation /\ \A b \in Algorithms \ {a} : acked'[b] = acked[b]
    BY <1>7, <2>2, <1>t DEF FinishStep, Ack
  <2>4. pc'[a] \in {"top", "crashed", "leave"} /\ \A w \in Workers \ {a} : pc'[w] = pc[w]
    BY <1>7, <1>a, <1>b, Outcomes DEF FinishStep
  <2>5. AnyPending' => AnyPending
    BY <2>1, <2>3, <1>t DEF AnyPending, IsPending
  <2>6. Owing'
    BY <2>1, <2>2, <2>3, <2>4, <1>b, <1>t DEF BarrierInv, Owing
  <2>7. Holding' /\ StampStable'
    BY <2>1, <2>4, <2>5, <1>b DEF BarrierInv, Holding, StampStable
  <2> QED BY <2>6, <2>7 DEF BarrierInv
<1>8. CASE FinishLive(a)
  <2>1. pc[a] = "live" /\ pc'[a] \in {"top", "crashed", "leave"}
        /\ \A w \in Workers \ {a} : pc'[w] = pc[w]
    BY <1>8, <1>a, <1>b, Outcomes DEF FinishLive
  <2> QED BY <1>8, <2>1, <1>b, BarrierFrame DEF FinishLive
<1>9. CASE LeaveLoop(a)
  BY <1>9, <1>a, <1>b, LeaveBarrier DEF LeaveLoop
<1> QED BY <1>1, <1>2, <1>3, <1>4, <1>5, <1>6, <1>7, <1>8, <1>9 DEF AlgorithmNext

LEMMA SupervisorBarrier ==
  ASSUME TypeInv, BarrierInv, NEW w \in Workers, SupervisorNext(w)
  PROVE  BarrierInv'
<1> USE DEF Goto, replayVars, algVars, mainVars, clock
<1>a. pc \in [Workers -> ReplayPCs \cup LoopPCs \cup DonePCs]
  BY DEF TypeInv, TypeOK
<1>b. Replay \notin Algorithms /\ Workers = Algorithms \cup {Replay}
  BY Config
<1>1. CASE GiveUp(w)
  BY <1>1, <1>a, <1>b, BarrierFrame DEF GiveUp
<1>2. CASE Backoff(w)
  BY <1>2, <1>a, <1>b, BarrierFrame DEF Backoff
<1>3. CASE EndBackoff(w)
  BY <1>3, <1>a, <1>b, BarrierFrame DEF EndBackoff
<1>4. CASE Retire(w)
  <2>1. CASE w \in Algorithms
    BY <1>4, <2>1, <1>a, <1>b, LeaveBarrier DEF Retire
  <2>2. CASE w \notin Algorithms
    BY <1>4, <2>2, <1>a, <1>b, BarrierFrame DEF Retire
  <2> QED BY <2>1, <2>2
<1>5. CASE Finish(w)
  BY <1>5, <1>a, <1>b, BarrierFrame DEF Finish
<1> QED BY <1>1, <1>2, <1>3, <1>4, <1>5 DEF SupervisorNext

LEMMA MainBarrier ==
  ASSUME TypeInv, BarrierInv, MainNext
  PROVE  BarrierInv'
BY BarrierFrame DEF MainNext, Shutdown, SetStopEvent, CallStop, replayVars, algVars, clock

LEMMA BarrierStep ==
  ASSUME TypeInv, ParticipantUntilRetired, Strict, BarrierInv, [Next]_vars
  PROVE  BarrierInv'
<1>1. CASE UNCHANGED vars \/ Terminated
  BY <1>1, BarrierFrame DEF vars, Terminated, clock, algVars, mainVars
<1> QED
  BY <1>1, ReplayBarrier, AlgorithmBarrier, SupervisorBarrier, MainBarrier DEF Next

(* The inductive invariant: TypeOK and Positions, who participates, and,   *)
(* without a step timeout, who owes which step to whom.                    *)
THEOREM Inductive == Spec => []IInv
<1>1. Init => IInv
  BY InitType, ParticipantInit, BarrierInit DEF IInv, TypeInv, BarrierInv
<1>2. IInv /\ [Next]_vars => IInv'
  <2> SUFFICES ASSUME IInv, [Next]_vars PROVE IInv'
    OBVIOUS
  <2>1. TypeInv' /\ ParticipantUntilRetired'
    BY NextType, ParticipantStep DEF IInv, TypeInv
  <2>2. ASSUME Strict PROVE BarrierInv'
    BY <2>2, BarrierStep DEF IInv, TypeInv, BarrierInv
  <2> QED BY <2>1, <2>2 DEF IInv, TypeInv, BarrierInv, Strict
<1> QED BY <1>1, <1>2, PTL DEF Spec

(* An algorithm inside main() always processes the newest step: the replay *)
(* does not run ahead of any algorithm, crashed, restarted or stopping.    *)
THEOREM NoRunAheadHolds == Spec => []NoRunAhead
<1>1. IInv => NoRunAhead
  BY DEF IInv, NoRunAhead, Owing
<1> QED BY <1>1, Inductive, PTL

(* Until the replay is told to stop, get_simulation_time() is stable for   *)
(* the whole of main() and a decision is stamped with the step it belongs  *)
(* to.                                                                     *)
THEOREM StampStableHolds == Spec => []StampStable
<1>1. IInv => StampStable
  BY DEF IInv, StampStable
<1> QED BY <1>1, Inductive, PTL

(* Only TakeStep enters main() with a step. *)
LEMMA BeginsTakes ==
  ASSUME TypeInv, [Next]_vars, NEW a \in Algorithms, Begins(a)
  PROVE  TakeStep(a)
<1> USE DEF Goto, replayVars, algVars, mainVars, clock
<1>1. pc \in [Workers -> ReplayPCs \cup LoopPCs \cup DonePCs] /\ a \in Workers /\ a # Replay
  BY Config DEF TypeInv, TypeOK
<1>2. pc[a] # "main" /\ pc'[a] = "main"
  BY DEF Begins
<1>3. CASE ReplayNext
  <2>1. \E from, to : Goto(Replay, from, to)
    BY <1>3 DEF ReplayNext, LoadFile, BeginPass, NextEntry, SleepInterrupted, Dispatch,
                CommitStep, AwaitDone, AwaitOverrun, EndPass
  <2> QED BY <1>1, <1>2, <2>1
<1>4. ASSUME NEW b \in Algorithms, AlgorithmNext(b) PROVE TakeStep(a)
  <2>1. b \in Workers
    BY Config
  <2>2. TakeStep(b)
    BY <1>1, <1>2, <1>4, <2>1, Outcomes
       DEF AlgorithmNext, JoinLoop, PassGate, LoopGuard, NoStepYet, ChooseCadence,
           FinishStep, FinishLive, LeaveLoop
  <2> QED BY <1>1, <1>2, <2>1, <2>2 DEF TakeStep
<1>5. ASSUME NEW w \in Workers, SupervisorNext(w) PROVE FALSE
  BY <1>1, <1>2, <1>5 DEF SupervisorNext, GiveUp, Backoff, EndBackoff, Retire, Finish
<1>6. CASE MainNext
  BY <1>2, <1>6 DEF MainNext, Shutdown, SetStopEvent, CallStop
<1> QED BY <1>2, <1>3, <1>4, <1>5, <1>6 DEF Next, Terminated, vars

(* Taking a step: it is the one after the last step the algorithm held. *)
LEMMA TakesNextStep ==
  ASSUME IInv, Strict, NEW a \in Algorithms, TakeStep(a)
  PROVE  /\ step'[a].gen = generation /\ generation = step[a].gen + 1
         /\ step' = [step EXCEPT ![a] = CurrentStep]
<1>1. /\ generation \in Nat /\ acked \in [Algorithms -> Nat \cup {NotJoined}]
      /\ step \in [Algorithms -> [gen : Nat, time : Times \cup {NoTime}]]
  BY DEF IInv, TypeOK, ClockTypeOK
<1>2. acked[a] = step[a].gen /\ acked[a] = generation - 1
  BY <1>1 DEF TakeStep, Goto, StepReady, IsPending, IInv, Owing
<1> QED BY <1>1, <1>2 DEF TakeStep, CurrentStep

(* Every algorithm processes every step once and in order, whatever        *)
(* crashes and restarts lie between: a crash neither repeats nor loses one. *)
THEOREM EveryStepOnceHolds == Spec => EveryStepOnce
<1>1. ASSUME IInv, [Next]_vars
      PROVE  Strict => \A a \in Algorithms : Begins(a) => step'[a].gen = step[a].gen + 1
  <2> SUFFICES ASSUME Strict, NEW a \in Algorithms, Begins(a)
               PROVE  step'[a].gen = step[a].gen + 1
    OBVIOUS
  <2> QED BY <1>1, BeginsTakes, TakesNextStep DEF IInv, TypeInv
<1> QED BY <1>1, Inductive, PTL DEF Spec, EveryStepOnce

---------------------------------------------------------------------------
(* Lockstep implements Backtest. *)

(* With nobody owing a step, nobody is in main() and every participant has *)
(* processed the newest step.                                              *)
LEMMA NobodyOwes ==
  ASSUME IInv, Strict, ~AnyPending
  PROVE  /\ \A a \in Algorithms : pc[a] # "main"
         /\ \A a \in Algorithms : acked[a] # NotJoined => step[a].gen = generation
<1>1. \A a \in Algorithms : pc[a] # "main"
  BY InMainIsPending DEF IInv, TypeInv, AnyPending
<1>2. \A a \in Algorithms : acked[a] # NotJoined => acked[a] = generation
  BY DEF AnyPending, IsPending, IInv, Owing, TypeOK, ClockTypeOK
<1> QED BY <1>1, <1>2 DEF IInv, Owing

(* The devices and the generation change only while nobody owes a step. *)
LEMMA ChangesOnlyWhenQuiet ==
  ASSUME IInv, Strict, [Next]_vars, ~UNCHANGED <<data, generation>>
  PROVE  /\ ~AnyPending /\ ReplayNext
         /\ UNCHANGED <<acked, step>> /\ \A a \in Algorithms : pc'[a] = pc[a]
         /\ \/ generation' = generation /\ data' \in [Devices -> 0..NumEntries]
            \/ generation' = generation + 1 /\ data' = data
<1> USE DEF replayVars, algVars, mainVars, clock
<1>1. ReplayNext
  BY DEF Next, vars, Terminated, MainNext, Shutdown, SetStopEvent, CallStop,
         SupervisorNext, GiveUp, Backoff, EndBackoff, Retire, Finish, Leave,
         AlgorithmNext, JoinLoop, Join, PassGate, LoopGuard, TakeStep, NoStepYet, ChooseCadence,
         FinishStep, Ack, FinishLive, LeaveLoop
<1>2. Dispatch \/ CommitStep
  BY <1>1 DEF ReplayNext, LoadFile, BeginPass, NextEntry, SleepInterrupted, AwaitDone,
              AwaitOverrun, EndPass, ClockReset
<1>3. ~AnyPending
  BY <1>2 DEF Dispatch, CommitStep, Goto, IInv, Holding
<1>4. UNCHANGED <<acked, step>>
  BY <1>2 DEF Dispatch, SetEventTime, CommitStep, PublishStep
<1>5. \A a \in Algorithms : pc'[a] = pc[a]
  BY <1>2, Config DEF Dispatch, CommitStep, Goto, IInv, TypeOK
<1>6. data' \in [Devices -> 0..NumEntries]
  BY NextType DEF IInv, TypeInv, TypeOK
<1>7. generation' = generation \/ (generation' = generation + 1 /\ data' = data)
  BY <1>2 DEF Dispatch, SetEventTime, CommitStep, PublishStep
<1> QED BY <1>1, <1>3, <1>4, <1>5, <1>6, <1>7

(* A step is committed only once every algorithm that will run again has   *)
(* been handed the previous one and is out of main().                      *)
THEOREM CommitAfterAllHolds == Spec => CommitAfterAll
<1>1. ASSUME IInv, [Next]_vars
      PROVE  Strict /\ generation' # generation =>
               \A a \in Algorithms :
                 pc[a] \notin {"retire", "finish", "finished"} =>
                   step[a].gen = generation /\ pc[a] # "main"
  <2> SUFFICES ASSUME Strict, generation' # generation, NEW a \in Algorithms,
                      pc[a] \notin {"retire", "finish", "finished"}
               PROVE  step[a].gen = generation /\ pc[a] # "main"
    OBVIOUS
  <2>1. ~AnyPending
    BY <1>1, ChangesOnlyWhenQuiet
  <2>2. acked[a] # NotJoined
    BY <1>1 DEF IInv, ParticipantUntilRetired
  <2> QED BY <1>1, <2>1, <2>2, NobodyOwes
<1> QED BY <1>1, Inductive, PTL DEF Spec, CommitAfterAll

LEMMA RoundsInit == Init => Rounds!Init
<1> SUFFICES ASSUME Init PROVE Rounds!Init
  OBVIOUS
<1>1. \A a \in Algorithms : a \in Workers /\ a # Replay
  BY Config
<1>2. generation = 0 /\ data \in [Devices -> 0..NumEntries]
  BY Config DEF Init, ClockInit
<1>3. Participants = Algorithms
  <2>1. \A a \in Algorithms : acked[a] = 0
    BY DEF Init, ClockInit
  <2>2. ASSUME NEW a \in Algorithms PROVE acked[a] # NotJoined
    <3>1. acked[a] = 0
      BY <2>1
    <3> QED BY <3>1 DEF NotJoined
  <2> QED BY <2>2 DEF Participants
<1>4. {a \in Algorithms : pc[a] = "main"} = {}
  BY <1>1 DEF Init
<1>5. [a \in Algorithms |-> step[a].gen] = [a \in Algorithms |-> 0]
  BY DEF Init, NoStep
<1> QED BY <1>2, <1>3, <1>4, <1>5 DEF Rounds!Init

(* A step that touches neither the barrier nor who is in main() stutters. *)
LEMMA RoundsFrame ==
  ASSUME UNCHANGED <<data, generation, acked, step>>,
         \A a \in Algorithms : pc'[a] = "main" <=> pc[a] = "main"
  PROVE  UNCHANGED Rounds!vars
<1>1. {a \in Algorithms : pc'[a] = "main"} = {a \in Algorithms : pc[a] = "main"}
  OBVIOUS
<1>2. Participants' = Participants
  BY DEF Participants
<1> QED BY <1>1, <1>2 DEF Rounds!vars

(* Leaving the barrier is withdrawing, or nothing when already out. *)
LEMMA RoundsLeave ==
  ASSUME TypeInv, NEW a \in Algorithms, Leave(a), UNCHANGED <<data, step>>, pc[a] # "main",
         \A b \in Algorithms : pc'[b] = "main" <=> pc[b] = "main"
  PROVE  Rounds!Withdraw(a) \/ UNCHANGED Rounds!vars
<1>1. {b \in Algorithms : pc'[b] = "main"} = {b \in Algorithms : pc[b] = "main"}
  OBVIOUS
<1>2. Participants' = Participants \ {a}
  BY DEF Leave, Participants, TypeInv, TypeOK, ClockTypeOK
<1>3. UNCHANGED generation
  BY DEF Leave
<1>4. CASE a \in Participants
  BY <1>1, <1>2, <1>3, <1>4 DEF Rounds!Withdraw
<1>5. CASE a \notin Participants
  BY <1>1, <1>2, <1>3, <1>5 DEF Rounds!vars
<1> QED BY <1>4, <1>5

LEMMA RoundsChange ==
  ASSUME IInv, Strict, [Next]_vars, ~UNCHANGED <<data, generation>>
  PROVE  Rounds!Next
<1>1. Rounds!Quiet
  BY ChangesOnlyWhenQuiet, NobodyOwes DEF Rounds!Quiet, Participants
<1>2. {a \in Algorithms : pc'[a] = "main"} = {a \in Algorithms : pc[a] = "main"}
  BY ChangesOnlyWhenQuiet
<1>3. Participants' = Participants /\ step' = step
  BY ChangesOnlyWhenQuiet DEF Participants
<1>4. CASE generation' = generation /\ data' \in [Devices -> 0..NumEntries]
  BY <1>1, <1>2, <1>3, <1>4 DEF Rounds!Next, Rounds!Deliver
<1>5. CASE generation' = generation + 1 /\ data' = data
  BY <1>1, <1>2, <1>3, <1>5 DEF Rounds!Next, Rounds!Open
<1> QED BY <1>4, <1>5, ChangesOnlyWhenQuiet

LEMMA RoundsAlgorithm ==
  ASSUME IInv, Strict, NEW a \in Algorithms, AlgorithmNext(a)
  PROVE  Rounds!Next \/ UNCHANGED Rounds!vars
<1> USE DEF Goto, replayVars, algVars, mainVars, clock
<1>a. pc \in [Workers -> ReplayPCs \cup LoopPCs \cup DonePCs] /\ TypeInv
  BY DEF IInv, TypeInv, TypeOK
<1>b. \A b \in Algorithms : b \in Workers
  BY Config
<1>1. CASE JoinLoop(a)
  <2>1. acked' = acked
    BY <1>1 DEF JoinLoop, Join, IInv, ParticipantUntilRetired, TypeOK, ClockTypeOK
  <2> QED BY <1>1, <2>1, <1>a, <1>b, RoundsFrame DEF JoinLoop, Join
<1>2. CASE PassGate(a) \/ LoopGuard(a) \/ NoStepYet(a) \/ ChooseCadence(a)
  BY <1>2, <1>a, <1>b, RoundsFrame DEF PassGate, LoopGuard, NoStepYet, ChooseCadence
<1>3. CASE TakeStep(a)
  <2>1. step' = [step EXCEPT ![a] = CurrentStep] /\ step[a].gen + 1 = generation
    BY <1>3, TakesNextStep DEF TakeStep
  <2>2. [b \in Algorithms |-> step[b].gen]'
          = [[b \in Algorithms |-> step[b].gen] EXCEPT ![a] = generation]
    BY <2>1 DEF CurrentStep, IInv, TypeOK
  <2>3. a \in Participants \ {b \in Algorithms : pc[b] = "main"}
    BY <1>3 DEF TakeStep, StepReady, IsPending, Participants
  <2>4. {b \in Algorithms : pc'[b] = "main"} = {b \in Algorithms : pc[b] = "main"} \cup {a}
    BY <1>3, <1>a, <1>b DEF TakeStep
  <2>5. UNCHANGED <<generation, data, Participants>>
    BY <1>3 DEF TakeStep, Participants
  <2>6. Rounds!Begin(a)
    BY <2>1, <2>2, <2>3, <2>4, <2>5 DEF Rounds!Begin
  <2> QED BY <2>6 DEF Rounds!Next
<1>4. CASE FinishStep(a)
  <2>1. UNCHANGED <<generation, data, step>>
    BY <1>4 DEF FinishStep, Ack
  <2>2. Participants' = Participants
    <3>1. acked[a] # NotJoined /\ acked[a] < generation /\ step[a].gen = generation
      BY <1>4, InMainIsPending DEF FinishStep, IInv, TypeInv, Owing
    <3>2. acked' = [acked EXCEPT ![a] = generation] /\ generation \in Nat
          /\ acked \in [Algorithms -> Nat \cup {NotJoined}]
      BY <1>4, <3>1 DEF FinishStep, Ack, IInv, TypeOK, ClockTypeOK
    <3>3. generation # NotJoined
      BY <3>2 DEF NotJoined
    <3> QED BY <3>1, <3>2, <3>3 DEF Participants
  <2>3. a \in {b \in Algorithms : pc[b] = "main"}
    BY <1>4 DEF FinishStep
  <2>4. {b \in Algorithms : pc'[b] = "main"} = {b \in Algorithms : pc[b] = "main"} \ {a}
    BY <1>4, <1>a, <1>b, Outcomes DEF FinishStep
  <2>5. Rounds!End(a)
    BY <2>1, <2>2, <2>3, <2>4 DEF Rounds!End
  <2> QED BY <2>5 DEF Rounds!Next
<1>5. CASE FinishLive(a)
  <2>1. \A b \in Algorithms : pc'[b] = "main" <=> pc[b] = "main"
    BY <1>5, <1>a, <1>b, Outcomes DEF FinishLive
  <2> QED BY <1>5, <2>1, RoundsFrame DEF FinishLive
<1>6. CASE LeaveLoop(a)
  <2>1. pc[a] # "main" /\ \A b \in Algorithms : pc'[b] = "main" <=> pc[b] = "main"
    BY <1>6, <1>a, <1>b DEF LeaveLoop
  <2>2. Rounds!Withdraw(a) \/ UNCHANGED Rounds!vars
    BY <1>6, <1>a, <2>1, RoundsLeave DEF LeaveLoop
  <2> QED BY <2>2 DEF Rounds!Next
<1> QED BY <1>1, <1>2, <1>3, <1>4, <1>5, <1>6 DEF AlgorithmNext

LEMMA RoundsSupervisor ==
  ASSUME IInv, NEW w \in Workers, SupervisorNext(w)
  PROVE  Rounds!Next \/ UNCHANGED Rounds!vars
<1> USE DEF Goto, replayVars, algVars, mainVars, clock
<1>a. pc \in [Workers -> ReplayPCs \cup LoopPCs \cup DonePCs] /\ TypeInv
  BY DEF IInv, TypeInv, TypeOK
<1>b. \A b \in Algorithms : b \in Workers
  BY Config
<1>1. CASE GiveUp(w) \/ Backoff(w) \/ EndBackoff(w) \/ Finish(w)
  BY <1>1, <1>a, <1>b, RoundsFrame DEF GiveUp, Backoff, EndBackoff, Finish
<1>2. CASE Retire(w)
  <2>1. \A b \in Algorithms : pc'[b] = "main" <=> pc[b] = "main"
    BY <1>2, <1>a, <1>b DEF Retire
  <2>2. CASE w \in Algorithms
    BY <1>2, <1>a, <2>1, <2>2, RoundsLeave DEF Retire, Rounds!Next
  <2>3. CASE w \notin Algorithms
    BY <1>2, <2>1, <2>3, RoundsFrame DEF Retire
  <2> QED BY <2>2, <2>3
<1> QED BY <1>1, <1>2 DEF SupervisorNext

LEMMA RoundsStep ==
  ASSUME IInv, Strict, [Next]_vars
  PROVE  [Rounds!Next]_(Rounds!vars)
<1> USE DEF replayVars, algVars, mainVars, clock
<1>1. CASE ~UNCHANGED <<data, generation>>
  BY <1>1, RoundsChange
<1>2. CASE ReplayNext /\ UNCHANGED <<data, generation>>
  <2>1. UNCHANGED <<acked, step>>
    BY <1>2 DEF ReplayNext, LoadFile, BeginPass, NextEntry, SleepInterrupted, Dispatch,
                SetEventTime, CommitStep, PublishStep, AwaitDone, AwaitOverrun, EndPass, ClockReset
  <2>2. \E from, to : Goto(Replay, from, to)
    BY <1>2 DEF ReplayNext, LoadFile, BeginPass, NextEntry, SleepInterrupted, Dispatch,
                CommitStep, AwaitDone, AwaitOverrun, EndPass
  <2>3. \A a \in Algorithms : pc'[a] = pc[a]
    BY <2>2, Config DEF Goto, IInv, TypeOK
  <2> QED BY <1>2, <2>1, <2>3, RoundsFrame
<1>3. CASE MainNext
  BY <1>3, RoundsFrame DEF MainNext, Shutdown, SetStopEvent, CallStop
<1>4. CASE Terminated \/ UNCHANGED vars
  BY <1>4, RoundsFrame DEF Terminated, vars
<1> QED BY <1>1, <1>2, <1>3, <1>4, RoundsAlgorithm, RoundsSupervisor DEF Next

(* With an unlimited step timeout a backtest is a sequence of rounds: the  *)
(* replay thread, the algorithm loops, crashes, restarts, retirements and  *)
(* the stop of this code implement Backtest.                               *)
THEOREM Refinement == ASSUME Strict PROVE Spec => ImplementsBacktest
<1>1. Init => Rounds!Init
  BY RoundsInit
<1>2. IInv /\ [Next]_vars => [Rounds!Next]_(Rounds!vars)
  BY RoundsStep
<1> QED BY <1>1, <1>2, Inductive, PTL DEF Spec, ImplementsBacktest, Rounds!Spec

---------------------------------------------------------------------------
(* With any step timeout. *)

(* A processed step is remembered, in "stepped" or by having finished, and  *)
(* an algorithm on the wall clock has processed none.                       *)
Remembers ==
  \A a \in Algorithms :
    /\ pc[a] = "live" => step[a].gen = 0
    /\ step[a].gen > 0 => stepped[a] \/ pc[a] \in {"finish", "finished"}

(* No step an algorithm was given is newer than the newest one, and outside *)
(* main() a participant has acknowledged whatever it was given.             *)
Settled ==
  \A a \in Algorithms :
    /\ step[a].gen <= generation
    /\ acked[a] # NotJoined /\ pc[a] # "main" => acked[a] >= step[a].gen

AnyTimeoutInv == TypeInv /\ Remembers /\ Settled

(* Nothing was processed when the run begins. *)
LEMMA AnyTimeoutInit == Init => AnyTimeoutInv
<1> SUFFICES ASSUME Init, NEW a \in Algorithms
             PROVE  /\ pc[a] = "join" /\ step[a].gen = 0
                    /\ generation = 0 /\ acked[a] = 0
  BY InitType DEF AnyTimeoutInv, Remembers, Settled
<1>1. a \in Workers /\ a # Replay
  BY Config
<1> QED BY <1>1 DEF Init, ClockInit, NoStep

(* Every step keeps what an algorithm remembers. *)
LEMMA RemembersStep == TypeInv /\ Remembers /\ [Next]_vars => Remembers'
<1> SUFFICES ASSUME TypeInv, Remembers, [Next]_vars PROVE Remembers'
  OBVIOUS
<1> USE Config DEF TypeInv, TypeOK, ClockTypeOK, Remembers, Goto,
        clock, replayVars, algVars, mainVars
<1>1. CASE UNCHANGED vars \/ Terminated
  BY <1>1 DEF vars, Terminated
<1>2. CASE ReplayNext
  BY <1>2 DEF ReplayNext, LoadFile, BeginPass, NextEntry, SleepInterrupted, Dispatch,
              SetEventTime, CommitStep, PublishStep, AwaitDone, AwaitOverrun, EndPass, ClockReset
<1>3. ASSUME NEW a \in Algorithms, AlgorithmNext(a) PROVE Remembers'
  <2>1. CASE JoinLoop(a) \/ PassGate(a) \/ LoopGuard(a) \/ NoStepYet(a)
    BY <2>1 DEF JoinLoop, PassGate, LoopGuard, NoStepYet
  <2>2. CASE ChooseCadence(a)
    BY <2>2 DEF ChooseCadence
  <2>3. CASE TakeStep(a)
    BY <2>3, SMTT(40) DEF TakeStep, CurrentStep
  <2>4. CASE FinishStep(a) \/ FinishLive(a)
    BY <2>4, Outcomes DEF FinishStep, FinishLive
  <2>5. CASE LeaveLoop(a)
    BY <2>5 DEF LeaveLoop
  <2> QED BY <1>3, <2>1, <2>2, <2>3, <2>4, <2>5 DEF AlgorithmNext
<1>4. ASSUME NEW w \in Workers, SupervisorNext(w) PROVE Remembers'
  <2>1. CASE GiveUp(w) \/ Backoff(w)
    <3>1. /\ pc[w] = "crashed" /\ UNCHANGED <<step, stepped>>
          /\ pc'[w] \in {"retire", "backoff"} /\ \A v \in Workers \ {w} : pc'[v] = pc[v]
      BY <2>1 DEF GiveUp, Backoff
    <3> QED BY <3>1
  <2>2. CASE EndBackoff(w)
    BY <2>2, SMTT(40) DEF EndBackoff
  <2>3. CASE Retire(w)
    BY <2>3, SMTT(40) DEF Retire
  <2>4. CASE Finish(w)
    BY <2>4, SMTT(40) DEF Finish
  <2> QED BY <1>4, <2>1, <2>2, <2>3, <2>4 DEF SupervisorNext
<1>5. CASE MainNext
  BY <1>5 DEF MainNext, Shutdown, SetStopEvent, CallStop
<1> QED BY <1>1, <1>2, <1>3, <1>4, <1>5 DEF Next

(* Every step keeps what was acknowledged at or past what was given. *)
LEMMA SettledStep == TypeInv /\ Settled /\ [Next]_vars => Settled'
<1> SUFFICES ASSUME TypeInv, Settled, [Next]_vars PROVE Settled'
  OBVIOUS
<1> USE Config DEF TypeInv, TypeOK, ClockTypeOK, Settled, NotJoined, Goto,
        clock, replayVars, algVars, mainVars
<1>1. CASE UNCHANGED vars \/ Terminated
  BY <1>1 DEF vars, Terminated
<1>2. CASE ReplayNext
  BY <1>2 DEF ReplayNext, LoadFile, BeginPass, NextEntry, SleepInterrupted, Dispatch,
              SetEventTime, CommitStep, PublishStep, AwaitDone, AwaitOverrun, EndPass, ClockReset
<1>3. ASSUME NEW a \in Algorithms, AlgorithmNext(a) PROVE Settled'
  <2>1. CASE JoinLoop(a)
    BY <2>1 DEF JoinLoop, Join
  <2>2. CASE PassGate(a) \/ LoopGuard(a) \/ NoStepYet(a) \/ ChooseCadence(a)
    BY <2>2 DEF PassGate, LoopGuard, NoStepYet, ChooseCadence
  <2>3. CASE TakeStep(a)
    BY <2>3, SMTT(40) DEF TakeStep, CurrentStep
  <2>4. CASE FinishStep(a)
    <3>1. step[a].gen \in Nat /\ acked[a] \in Nat \cup {-1}
      OBVIOUS
    <3>2. acked' = [acked EXCEPT ![a] = IF acked[a] < step[a].gen THEN step[a].gen ELSE acked[a]]
      BY <2>4 DEF FinishStep, Ack
    <3>3. acked'[a] >= step[a].gen /\ \A b \in Algorithms \ {a} : acked'[b] = acked[b]
      BY <3>1, <3>2
    <3>4. PICK to \in {"top", "crashed", "leave"} : pc' = [pc EXCEPT ![a] = to]
      BY <2>4, Outcomes DEF FinishStep
    <3>5. UNCHANGED <<generation, step>>
      BY <2>4 DEF FinishStep, Ack
    <3> QED BY <3>3, <3>4, <3>5
  <2>5. CASE FinishLive(a)
    BY <2>5, Outcomes DEF FinishLive
  <2>6. CASE LeaveLoop(a)
    BY <2>6 DEF LeaveLoop, Leave
  <2> QED BY <1>3, <2>1, <2>2, <2>3, <2>4, <2>5, <2>6 DEF AlgorithmNext
<1>4. ASSUME NEW w \in Workers, SupervisorNext(w) PROVE Settled'
  <2>1. CASE GiveUp(w) \/ Backoff(w) \/ EndBackoff(w) \/ Finish(w)
    BY <2>1, SMTT(40) DEF GiveUp, Backoff, EndBackoff, Finish
  <2>2. CASE Retire(w)
    BY <2>2, SMTT(40) DEF Retire, Leave
  <2> QED BY <1>4, <2>1, <2>2 DEF SupervisorNext
<1>5. CASE MainNext
  BY <1>5 DEF MainNext, Shutdown, SetStopEvent, CallStop
<1> QED BY <1>1, <1>2, <1>3, <1>4, <1>5 DEF Next

(* The two facts hold together, with any step timeout. *)
LEMMA AnyTimeout == Spec => []AnyTimeoutInv
<1>1. Init => AnyTimeoutInv
  BY AnyTimeoutInit
<1>2. AnyTimeoutInv /\ [Next]_vars => AnyTimeoutInv'
  BY NextType, RemembersStep, SettledStep DEF AnyTimeoutInv
<1> QED BY <1>1, <1>2, PTL DEF Spec

(* An algorithm that processed a replay step never falls back to the wall   *)
(* clock, through crashes, restarts and resets of the clock, with any step  *)
(* timeout: loop()'s "stepped" outlives the loop that set it.               *)
THEOREM NoWallClockAfterStepHolds == Spec => []NoWallClockAfterStep
<1>1. AnyTimeoutInv => NoWallClockAfterStep
  BY DEF AnyTimeoutInv, Remembers, NoWallClockAfterStep
<1> QED BY <1>1, AnyTimeout, PTL

(* No step is begun twice and none out of order, whether lockstep holds or  *)
(* the step timeout has given it up, the step main() crashed on included.   *)
THEOREM StepsIncreaseHolds == Spec => StepsIncrease
<1>1. ASSUME AnyTimeoutInv, [Next]_vars, NEW a \in Algorithms, Begins(a)
      PROVE  step'[a].gen > step[a].gen
  <2>1. TakeStep(a)
    BY <1>1, BeginsTakes DEF AnyTimeoutInv
  <2>2. acked[a] # NotJoined /\ acked[a] < generation /\ pc[a] # "main"
    BY <1>1, <2>1 DEF TakeStep, StepReady, IsPending, Begins
  <2>3. acked[a] >= step[a].gen /\ step'[a].gen = generation
    BY <1>1, <2>1, <2>2 DEF TakeStep, CurrentStep, AnyTimeoutInv, Settled, TypeInv, TypeOK
  <2> QED BY <1>1, <2>2, <2>3 DEF AnyTimeoutInv, TypeInv, TypeOK, ClockTypeOK, NotJoined
<1>2. AnyTimeoutInv /\ [Next]_vars =>
        [\A a \in Algorithms : Begins(a) => step'[a].gen > step[a].gen]_vars
  BY <1>1
<1> QED BY <1>2, AnyTimeout, PTL DEF Spec, StepsIncrease

---------------------------------------------------------------------------
(* What the devices show. *)

(* How many rows have gone to their devices and been committed in this pass, *)
(* and how many passes are complete.                                         *)
Handed     == IF pc[Replay] \in {"commit", "await"} THEN idx ELSE idx - 1
Committed  == IF pc[Replay] = "await" THEN idx ELSE idx - 1
PassesDone == IF passes = 0 THEN 0 ELSE passes - 1

(* Where the replay is says where it is in the file.                        *)
Course ==
  /\ passes = 0 => idx = 1 /\ pc[Replay] \notin {"entry", "dispatch", "commit", "await", "passEnd"}
  /\ pc[Replay] \in {"load", "crashed", "backoff"} => passes = 0
  /\ pc[Replay] = "pass" /\ passes > 0 => idx = NumEntries + 1
  /\ pc[Replay] = "passEnd" => idx = NumEntries + 1 \/ Replay \in stopping
  /\ pc[Replay] = "await" => EndsStep(idx)

(* A generation is so many complete passes and the steps of this one.       *)
Counted == generation = PassesDone * Ends(NumEntries) + Ends(Committed)

(* x is the greatest element of S. *)
IsMax(x, S) == x \in S /\ \A y \in S : y <= x

(* A device shows its last row of this pass, or else of the one before.     *)
Shows ==
  \A d \in Devices :
    LET own == Readings(d, Handed)
        old == IF passes > 1 THEN Readings(d, NumEntries) ELSE {}
    IN  \/ IsMax(data[d], own)
        \/ own = {} /\ IsMax(data[d], old)
        \/ own = {} /\ old = {} /\ data[d] = 0

(* While a step is owed, all the rows of its timestep have been handed on,  *)
(* and none of the next.                                                    *)
Complete == AnyPending => Handed \in StepEnds

(* Counting the timesteps that end in the first rows. *)
LEMMA EndsCount ==
  /\ \A i \in Int : IsFiniteSet({j \in StepEnds : j <= i}) /\ Ends(i) \in Nat
  /\ Ends(0) = 0
  /\ \A i \in 1..NumEntries : Ends(i) = IF EndsStep(i) THEN Ends(i - 1) + 1 ELSE Ends(i - 1)
<1>1. IsFiniteSet(1..NumEntries) /\ NumEntries \in Nat
  BY FS_Interval, Config
<1>2. ASSUME NEW i \in Int PROVE IsFiniteSet({j \in StepEnds : j <= i}) /\ Ends(i) \in Nat
  <2>1. {j \in StepEnds : j <= i} \subseteq 1..NumEntries
    BY DEF StepEnds
  <2>2. IsFiniteSet({j \in StepEnds : j <= i})
    BY <1>1, <2>1, FS_Subset
  <2> QED BY <2>2, FS_CardinalityType DEF Ends
<1>3. Ends(0) = 0
  <2>1. {j \in StepEnds : j <= 0} = {}
    BY DEF StepEnds
  <2> QED BY <2>1, FS_EmptySet DEF Ends
<1>4. ASSUME NEW i \in 1..NumEntries
      PROVE  Ends(i) = IF EndsStep(i) THEN Ends(i - 1) + 1 ELSE Ends(i - 1)
  <2>1. CASE EndsStep(i)
    <3>1. {j \in StepEnds : j <= i} = {j \in StepEnds : j <= i - 1} \cup {i}
      BY <2>1 DEF StepEnds
    <3>2. i \notin {j \in StepEnds : j <= i - 1}
      OBVIOUS
    <3>3. i - 1 \in Int
      BY <1>1
    <3>4. IsFiniteSet({j \in StepEnds : j <= i - 1})
      BY <1>2, <3>3
    <3> QED BY <2>1, <3>1, <3>2, <3>4, FS_AddElement DEF Ends
  <2>2. CASE ~EndsStep(i)
    <3>1. {j \in StepEnds : j <= i} = {j \in StepEnds : j <= i - 1}
      BY <2>2 DEF StepEnds
    <3> QED BY <2>2, <3>1 DEF Ends
  <2> QED BY <2>1, <2>2
<1> QED BY <1>2, <1>3, <1>4

(* The count never falls, and rises at the end of a timestep. *)
LEMMA EndsMonotone ==
  /\ \A i, j \in 0..NumEntries : i <= j => Ends(i) <= Ends(j)
  /\ \A i \in StepEnds, j \in 0..NumEntries : j < i => Ends(j) < Ends(i)
<1>1. ASSUME NEW i \in 0..NumEntries, NEW j \in 0..NumEntries, i <= j
      PROVE  Ends(i) <= Ends(j)
  <2>1. {k \in StepEnds : k <= i} \subseteq {k \in StepEnds : k <= j}
    BY <1>1, Config DEF StepEnds
  <2> QED BY <2>1, EndsCount, FS_Subset DEF Ends
<1>2. ASSUME NEW i \in StepEnds, NEW j \in 0..NumEntries, j < i
      PROVE  Ends(j) < Ends(i)
  <2>1. i \in 1..NumEntries /\ EndsStep(i) /\ i - 1 \in 0..NumEntries /\ j <= i - 1
    BY <1>2, Config DEF StepEnds
  <2>2. Ends(j) <= Ends(i - 1) /\ Ends(i) = Ends(i - 1) + 1
    BY <1>1, <2>1, EndsCount
  <2>3. Ends(j) \in Nat /\ Ends(i - 1) \in Nat
    <3>1. j \in Int /\ i - 1 \in Int
      BY <2>1, Config
    <3> QED BY <3>1, EndsCount
  <2> QED BY <2>2, <2>3
<1> QED BY <1>1, <1>2

(* One more pass is at least one pass more. *)
LEMMA Passes ==
  ASSUME NEW p \in Nat, NEW q \in Nat, NEW e \in Nat, q < p
  PROVE  q * e + e <= p * e
<1>1. PICK k \in Nat : p = q + 1 + k
  <2>1. p - q - 1 \in Nat /\ p = q + 1 + (p - q - 1)
    OBVIOUS
  <2> QED BY <2>1
<1>2. p * e = q * e + e + k * e
  BY <1>1
<1>3. k * e >= 0 /\ q * e \in Nat
  OBVIOUS
<1> QED BY <1>2, <1>3

(* The number of a step says which row ended it, and whether a pass was    *)
(* complete before it.                                                     *)
LEMMA EndOfIs ==
  ASSUME NEW i \in StepEnds, NEW p \in 0..MaxPasses
  PROVE  /\ EndOf(p * Ends(NumEntries) + Ends(i)) = i
         /\ p * Ends(NumEntries) + Ends(i) > Ends(NumEntries) <=> p > 0
<1> DEFINE e == Ends(NumEntries)
           g == p * e + Ends(i)
<1>1. /\ e \in Nat /\ NumEntries \in Nat /\ MaxPasses \in Nat
      /\ \A j \in StepEnds : Ends(j) \in Nat /\ 0 < Ends(j) /\ Ends(j) <= e
  <2>1. \A j \in StepEnds : j \in 1..NumEntries /\ j \in 0..NumEntries /\ j \in Int /\ 0 < j
    BY Config DEF StepEnds
  <2>2. 0 \in 0..NumEntries /\ NumEntries \in 0..NumEntries /\ NumEntries \in Int
    BY Config
  <2>3. \A j \in StepEnds : Ends(j) \in Nat /\ Ends(0) < Ends(j) /\ Ends(j) <= Ends(NumEntries)
    <3> TAKE j \in StepEnds
    <3>1. Ends(j) \in Nat
      BY <2>1, EndsCount
    <3>2. Ends(0) < Ends(j)
      BY <2>1, <2>2, EndsMonotone
    <3>3. Ends(j) <= Ends(NumEntries)
      <4>1. j \in 0..NumEntries /\ j <= NumEntries
        BY <2>1, <2>2
      <4> QED BY <2>2, <4>1, EndsMonotone
    <3> QED BY <3>1, <3>2, <3>3
  <2>4. Ends(0) = 0 /\ e \in Nat
    BY <2>2, EndsCount
  <2> QED BY <2>3, <2>4, Config
<1>2. ASSUME NEW j \in StepEnds, NEW q \in 0..MaxPasses, g = q * e + Ends(j)
      PROVE  j = i
  <2>1. p \in Nat /\ q \in Nat
    OBVIOUS
  <2>2. q * e \in Nat /\ p * e \in Nat
    BY <1>1, <2>1
  <2>3. ~(q < p)
    <3> HIDE DEF e
    <3> QED BY <1>1, <1>2, <2>1, <2>2, Passes
  <2>4. ~(p < q)
    <3> HIDE DEF e
    <3> QED BY <1>1, <1>2, <2>1, <2>2, Passes
  <2>5. p = q
    BY <2>1, <2>3, <2>4
  <2>6. Ends(i) = Ends(j)
    <3> HIDE DEF e
    <3> QED BY <1>1, <1>2, <2>2, <2>5
  <2>7. i \in 0..NumEntries /\ j \in 0..NumEntries
    BY <1>1 DEF StepEnds
  <2> QED BY <1>1, <2>6, <2>7, EndsMonotone
<1>3. EndOf(g) = i
  BY <1>2 DEF EndOf
<1>4. g > e <=> p > 0
  <2>1. CASE p = 0
    BY <1>1, <2>1
  <2>2. CASE p > 0
    <3>1. p \in Nat /\ p * e \in Nat
      BY <1>1
    <3>2. e <= p * e
      <4> HIDE DEF e
      <4>1. 0 * e + e <= p * e
        BY <1>1, <2>2, <3>1, Passes
      <4> QED BY <1>1, <4>1
    <3> HIDE DEF e
    <3> QED BY <1>1, <2>2, <3>1, <3>2
  <2> QED BY <2>1, <2>2
<1> QED BY <1>3, <1>4

(* The three together, with any step timeout. *)
FileInv == Course /\ Counted /\ Shows

(* Before the first pass nothing was handed on and nothing committed. *)
LEMMA FileInit == Init => FileInv
<1> SUFFICES ASSUME Init PROVE FileInv
  OBVIOUS
<1>1. /\ idx = 1 /\ passes = 0 /\ pc[Replay] = "load" /\ generation = 0
      /\ \A d \in Devices : data[d] = 0
  BY Config DEF Init, ClockInit
<1>2. Course
  BY <1>1 DEF Course
<1>3. Handed = 0 /\ Committed = 0 /\ PassesDone = 0
  BY <1>1 DEF Handed, Committed, PassesDone
<1>4. Ends(0) = 0 /\ Ends(NumEntries) \in Nat
  <2>1. NumEntries \in Int
    BY Config
  <2> QED BY <2>1, EndsCount
<1>5. Counted
  BY <1>1, <1>3, <1>4 DEF Counted
<1>6. \A d \in Devices : Readings(d, 0) = {}
  BY DEF Readings
<1>7. Shows
  BY <1>1, <1>3, <1>6 DEF Shows
<1> QED BY <1>2, <1>5, <1>7 DEF FileInv

(* A step that leaves the replay's account of the file alone. *)
LEMMA FileFrame ==
  ASSUME FileInv, UNCHANGED <<data, passes, generation, Handed, Committed>>, Course'
  PROVE  FileInv'
<1>1. Counted'
  BY DEF FileInv, Counted, PassesDone
<1>2. Shows'
  BY DEF FileInv, Shows
<1> QED BY <1>1, <1>2 DEF FileInv

(* Another row handed on: the device it names shows it, if it accepts it.  *)
LEMMA DispatchShows ==
  ASSUME TypeInv, Shows, Dispatch, Handed = idx - 1, Handed' = idx
  PROVE  Shows'
<1>1. idx \in 1..NumEntries /\ NumEntries \in Nat
  BY Config DEF TypeInv, TypeOK, Positions, Dispatch, Goto
<1> SUFFICES ASSUME NEW d \in Devices
             PROVE  LET own == Readings(d, idx)
                        old == IF passes > 1 THEN Readings(d, NumEntries) ELSE {}
                    IN  \/ IsMax(data'[d], own)
                        \/ own = {} /\ IsMax(data'[d], old)
                        \/ own = {} /\ old = {} /\ data'[d] = 0
  <2>1. passes' = passes
    BY DEF Dispatch
  <2> QED BY <2>1 DEF Shows
<1>2. CASE Entries[idx].device = d /\ Entries[idx].ok
  <2>1. data'[d] = idx
    BY <1>2 DEF Dispatch
  <2>2. IsMax(idx, Readings(d, idx))
    BY <1>1, <1>2 DEF IsMax, Readings
  <2> QED BY <2>1, <2>2
<1>3. CASE ~(Entries[idx].device = d /\ Entries[idx].ok)
  <2>1. data'[d] = data[d]
    BY <1>3 DEF Dispatch
  <2>2. Readings(d, idx) = Readings(d, idx - 1)
    BY <1>1, <1>3 DEF Readings
  <2> QED BY <2>1, <2>2 DEF Shows
<1> QED BY <1>2, <1>3

(* Another pass begun: what was shown of this pass is of the one before.   *)
LEMMA PassShows ==
  ASSUME Shows, passes \in Nat, data' = data, passes' = passes + 1, Handed' = 0,
         passes = 0 => Handed = 0, passes > 0 => Handed = NumEntries
  PROVE  Shows'
<1> SUFFICES ASSUME NEW d \in Devices
             PROVE  LET own == Readings(d, 0)
                        old == IF passes + 1 > 1 THEN Readings(d, NumEntries) ELSE {}
                    IN  \/ IsMax(data[d], own)
                        \/ own = {} /\ IsMax(data[d], old)
                        \/ own = {} /\ old = {} /\ data[d] = 0
  BY DEF Shows
<1>1. Readings(d, 0) = {}
  BY DEF Readings
<1>2. CASE passes = 0
  BY <1>1, <1>2 DEF Shows, IsMax
<1>3. CASE passes > 0
  BY <1>1, <1>3 DEF Shows, IsMax
<1> QED BY <1>2, <1>3

(* Every step of the replay thread keeps its account of the file. *)
LEMMA ReplayFile == ASSUME TypeInv, FileInv, ReplayNext PROVE FileInv'
<1> USE DEF Goto, replayVars, algVars, mainVars, clock
<1>a. /\ pc \in [Workers -> ReplayPCs \cup LoopPCs \cup DonePCs] /\ Replay \in Workers
      /\ idx \in 1..(NumEntries + 1) /\ passes \in Nat /\ NumEntries \in Nat /\ idx \in Int
      /\ pc[Replay] \in {"dispatch", "commit", "await"} => idx \in 1..NumEntries
  BY Config DEF TypeInv, TypeOK, Positions
<1>b. Course /\ Counted /\ Shows
  BY DEF FileInv
<1>1. CASE LoadFile
  <2>1. pc[Replay] = "load" /\ pc'[Replay] \in {"pass", "retire", "crashed"}
    BY <1>1, <1>a, Outcomes DEF LoadFile
  <2>2. Course'
    BY <1>1, <1>a, <1>b, <2>1 DEF LoadFile, Course
  <2> QED BY <1>1, <2>1, <2>2, FileFrame DEF LoadFile, Handed, Committed
<1>2. CASE BeginPass
  <2>1. CASE Replay \in stopping
    <3>1. pc[Replay] = "pass" /\ pc'[Replay] = "retire" /\ UNCHANGED <<idx, passes>>
      BY <1>2, <1>a, <2>1 DEF BeginPass
    <3>2. Course'
      BY <1>b, <3>1 DEF Course
    <3> QED BY <1>2, <3>1, <3>2, FileFrame DEF BeginPass, Handed, Committed
  <2>2. CASE Replay \notin stopping
    <3>1. /\ pc[Replay] = "pass" /\ pc'[Replay] = "entry" /\ idx' = 1 /\ passes' = passes + 1
          /\ UNCHANGED <<data, generation>>
      BY <1>2, <1>a, <2>2 DEF BeginPass
    <3>2. Course'
      BY <1>a, <3>1 DEF Course
    <3>3. /\ passes = 0 => Handed = 0 /\ Committed = 0
          /\ passes > 0 => Handed = NumEntries /\ Committed = NumEntries
          /\ Handed' = 0 /\ Committed' = 0
      BY <1>a, <1>b, <3>1 DEF Course, Handed, Committed
    <3>4. Shows'
      BY <1>a, <1>b, <3>1, <3>3, PassShows
    <3>5. Counted'
      <4>1. Ends(0) = 0 /\ Ends(NumEntries) \in Nat
        <5>1. NumEntries \in Int
          BY <1>a
        <5> QED BY <5>1, EndsCount
      <4>2. PassesDone' = passes
        BY <1>a, <3>1 DEF PassesDone
      <4>3. generation = passes * Ends(NumEntries)
        <5>1. CASE passes = 0
          BY <1>b, <3>3, <4>1, <5>1 DEF Counted, PassesDone
        <5>2. CASE passes > 0
          <6> DEFINE e == Ends(NumEntries)
          <6>1. generation = (passes - 1) * e + e
            BY <1>b, <3>3, <5>2 DEF Counted, PassesDone
          <6>2. e \in Nat
            BY <4>1
          <6> HIDE DEF e
          <6>3. (passes - 1) * e + e = passes * e
            BY <1>a, <6>2
          <6> QED BY <6>1, <6>3 DEF e
        <5> QED BY <1>a, <5>1, <5>2
      <4>4. passes * Ends(NumEntries) + 0 = passes * Ends(NumEntries)
        BY <1>a, <4>1
      <4> QED BY <3>1, <3>3, <4>1, <4>2, <4>3, <4>4 DEF Counted
    <3> QED BY <3>2, <3>4, <3>5 DEF FileInv
  <2> QED BY <2>1, <2>2
<1>3. CASE NextEntry
  <2>1. pc[Replay] = "entry" /\ pc'[Replay] \in {"passEnd", "dispatch"}
        /\ pc'[Replay] = "passEnd" => idx = NumEntries + 1 \/ Replay \in stopping
    BY <1>3, <1>a DEF NextEntry
  <2>2. Course'
    BY <1>3, <1>b, <2>1 DEF NextEntry, Course
  <2> QED BY <1>3, <2>1, <2>2, FileFrame DEF NextEntry, Handed, Committed
<1>4. CASE SleepInterrupted
  <2>1. pc[Replay] = "dispatch" /\ pc'[Replay] = "passEnd" /\ Replay \in stopping
    BY <1>4, <1>a DEF SleepInterrupted
  <2>2. Course'
    BY <1>4, <1>b, <2>1 DEF SleepInterrupted, Course
  <2> QED BY <1>4, <2>1, <2>2, FileFrame DEF SleepInterrupted, Handed, Committed
<1>5. CASE Dispatch
  <2>1. pc[Replay] = "dispatch" /\ pc'[Replay] = "commit"
    BY <1>5, <1>a DEF Dispatch
  <2>2. UNCHANGED <<idx, passes, generation, stopping>>
    BY <1>5 DEF Dispatch, SetEventTime
  <2>3. Course'
    BY <1>b, <2>1, <2>2 DEF Course
  <2>4. Handed = idx - 1 /\ Handed' = idx /\ Committed' = Committed
    BY <2>1, <2>2 DEF Handed, Committed
  <2>5. Shows'
    BY <1>5, <1>b, <2>4, DispatchShows
  <2>6. Counted'
    BY <1>b, <2>2, <2>4 DEF Counted, PassesDone
  <2> QED BY <2>3, <2>5, <2>6 DEF FileInv
<1>6. CASE CommitStep
  <2>1. pc[Replay] = "commit" /\ idx \in 1..NumEntries /\ Committed = idx - 1 /\ Handed = idx
    BY <1>6, <1>a DEF CommitStep, Committed, Handed
  <2>2. Ends(idx) = IF EndsStep(idx) THEN Ends(idx - 1) + 1 ELSE Ends(idx - 1)
    BY <2>1, EndsCount
  <2>3. CASE EndsStep(idx)
    <3>1. /\ pc'[Replay] = "await" /\ UNCHANGED <<idx, passes, data, stopping>>
          /\ generation' = generation + 1
      BY <1>6, <1>a, <2>3 DEF CommitStep, PublishStep
    <3>2. Course'
      BY <1>b, <2>1, <2>3, <3>1 DEF Course, EndsStep
    <3>3. Handed' = Handed /\ Committed' = idx
      BY <2>1, <3>1 DEF Handed, Committed
    <3>4. Shows'
      BY <1>b, <3>1, <3>3 DEF Shows
    <3>5. Counted'
      <4> DEFINE before == PassesDone * Ends(NumEntries)
      <4>1. before \in Int /\ Ends(idx - 1) \in Nat
        <5>1. idx - 1 \in Int /\ NumEntries \in Int /\ PassesDone \in Nat
          BY <1>a DEF PassesDone
        <5>2. Ends(idx - 1) \in Nat /\ Ends(NumEntries) \in Nat
          BY <5>1, EndsCount
        <5> QED BY <5>1, <5>2
      <4>2. generation = before + Ends(idx - 1)
        BY <1>b, <2>1 DEF Counted
      <4>3. PassesDone' = PassesDone
        BY <3>1 DEF PassesDone
      <4>4. Ends(idx) = Ends(idx - 1) + 1
        BY <2>2, <2>3
      <4>5. generation' = before + Ends(idx)
        <5> HIDE DEF before
        <5> QED BY <3>1, <4>1, <4>2, <4>4
      <4> QED BY <3>3, <4>3, <4>5 DEF Counted
    <3> QED BY <3>2, <3>4, <3>5 DEF FileInv
  <2>4. CASE ~EndsStep(idx)
    <3>1. /\ pc'[Replay] = "entry" /\ UNCHANGED <<passes, data, stopping, generation>>
          /\ idx' = idx + 1
      BY <1>6, <1>a, <2>4 DEF CommitStep
    <3>2. Course'
      BY <1>b, <2>1, <3>1 DEF Course
    <3>3. Handed' = Handed /\ Committed' = idx
      BY <1>a, <2>1, <3>1 DEF Handed, Committed
    <3>4. Shows'
      BY <1>b, <3>1, <3>3 DEF Shows
    <3>5. Counted'
      <4>1. Ends(Committed') = Ends(Committed)
        BY <2>1, <2>2, <2>4, <3>3
      <4> QED BY <1>b, <3>1, <4>1 DEF Counted, PassesDone
    <3> QED BY <3>2, <3>4, <3>5 DEF FileInv
  <2> QED BY <2>3, <2>4
<1>7. CASE AwaitDone \/ AwaitOverrun
  <2>1. /\ pc[Replay] = "await" /\ pc'[Replay] = "entry" /\ idx' = idx + 1
        /\ UNCHANGED <<generation, passes, data, stopping>>
    BY <1>7, <1>a DEF AwaitDone, AwaitOverrun
  <2>2. Course'
    BY <1>b, <2>1 DEF Course
  <2>3. Handed' = Handed /\ Committed' = Committed
    BY <1>a, <2>1 DEF Handed, Committed
  <2> QED BY <2>1, <2>2, <2>3, FileFrame
<1>8. CASE EndPass
  <2>1. /\ pc[Replay] = "passEnd" /\ pc'[Replay] \in {"retire", "pass"}
        /\ pc'[Replay] = "pass" => Replay \notin stopping
    BY <1>8, <1>a DEF EndPass
  <2>2. UNCHANGED <<idx, passes, data, generation, stopping>>
    BY <1>8 DEF EndPass, ClockReset
  <2>3. Course'
    BY <1>b, <2>1, <2>2 DEF Course
  <2>4. Handed' = Handed /\ Committed' = Committed
    BY <2>1, <2>2 DEF Handed, Committed
  <2> QED BY <2>2, <2>3, <2>4, FileFrame
<1> QED BY <1>1, <1>2, <1>3, <1>4, <1>5, <1>6, <1>7, <1>8 DEF ReplayNext

(* The other threads leave the file alone, and the replay's supervisor      *)
(* restarts it only before its first pass.                                  *)
LEMMA FileStep == ASSUME TypeInv, FileInv, [Next]_vars PROVE FileInv'
<1> USE DEF Goto, replayVars, algVars, mainVars, clock
<1>a. pc \in [Workers -> ReplayPCs \cup LoopPCs \cup DonePCs] /\ Replay \in Workers
  BY Config DEF TypeInv, TypeOK
<1>b. Course
  BY DEF FileInv
<1>1. ASSUME UNCHANGED <<idx, passes, data, generation>>, pc'[Replay] = pc[Replay],
             stopping \subseteq stopping'
      PROVE  FileInv'
  <2>1. Course'
    BY <1>1, <1>b DEF Course, EndsStep
  <2>2. UNCHANGED <<Handed, Committed>>
    BY <1>1 DEF Handed, Committed
  <2> QED BY <1>1, <2>1, <2>2, FileFrame
<1>2. CASE UNCHANGED vars \/ Terminated
  BY <1>1, <1>2 DEF vars, Terminated
<1>3. ASSUME NEW a \in Algorithms, AlgorithmNext(a) PROVE FileInv'
  <2>1. UNCHANGED <<idx, passes, data, generation, stopping>>
    BY <1>3 DEF AlgorithmNext, JoinLoop, Join, PassGate, LoopGuard, TakeStep, NoStepYet,
                ChooseCadence, FinishStep, Ack, FinishLive, LeaveLoop, Leave
  <2>2. \E from, to : Goto(a, from, to)
    BY <1>3 DEF AlgorithmNext, JoinLoop, PassGate, LoopGuard, TakeStep, NoStepYet,
                ChooseCadence, FinishStep, FinishLive, LeaveLoop
  <2>3. pc'[Replay] = pc[Replay]
    BY <1>a, <2>2, Config
  <2> QED BY <1>1, <2>1, <2>3
<1>4. ASSUME NEW w \in Workers, SupervisorNext(w) PROVE FileInv'
  <2>1. UNCHANGED <<idx, passes, data, generation, stopping>>
    BY <1>4 DEF SupervisorNext, GiveUp, Backoff, EndBackoff, Retire, Finish, Leave
  <2>2. CASE w # Replay
    <3>1. pc'[Replay] = pc[Replay]
      BY <1>4, <1>a, <2>2 DEF SupervisorNext, GiveUp, Backoff, EndBackoff, Retire, Finish
    <3> QED BY <1>1, <2>1, <3>1
  <2>3. CASE w = Replay
    <3>1. \/ pc[Replay] \in {"crashed", "backoff"} /\ pc'[Replay] \in {"load", "backoff", "retire"}
          \/ pc[Replay] \in {"retire", "finish"} /\ pc'[Replay] \in {"finish", "finished"}
      BY <1>4, <1>a, <2>3 DEF SupervisorNext, GiveUp, Backoff, EndBackoff, Retire, Finish
    <3>2. Course'
      BY <1>b, <2>1, <3>1 DEF Course
    <3>3. UNCHANGED <<Handed, Committed>>
      BY <2>1, <3>1 DEF Handed, Committed
    <3> QED BY <2>1, <3>2, <3>3, FileFrame
  <2> QED BY <2>2, <2>3
<1>5. CASE MainNext
  BY <1>1, <1>5 DEF MainNext, Shutdown, SetStopEvent, CallStop
<1> QED BY <1>2, <1>3, <1>4, <1>5, ReplayFile DEF Next

(* Nobody comes to owe a step but by its publication. *)
LEMMA NoNewDebt ==
  ASSUME TypeInv, ParticipantUntilRetired, [Next]_vars, generation' = generation, AnyPending'
  PROVE  AnyPending
<1> USE DEF Goto, replayVars, algVars, mainVars, clock
<1>a. /\ generation \in Nat /\ acked \in [Algorithms -> Nat \cup {NotJoined}]
      /\ step \in [Algorithms -> [gen : Nat, time : Times \cup {NoTime}]]
  BY DEF TypeInv, TypeOK, ClockTypeOK
<1>1. ASSUME \A b \in Algorithms : acked'[b] \in {acked[b], NotJoined, generation} \/
                                   (acked[b] # NotJoined /\ acked'[b] >= acked[b])
      PROVE  AnyPending
  <2>1. PICK b \in Algorithms : acked'[b] # NotJoined /\ acked'[b] < generation
    BY DEF AnyPending, IsPending
  <2>2. acked[b] \in Nat \cup {-1} /\ acked'[b] \in Nat \cup {-1}
    BY <1>a, NextType DEF TypeInv, TypeOK, ClockTypeOK, NotJoined
  <2>3. acked[b] # NotJoined /\ acked[b] < generation
    BY <1>1, <1>a, <2>1, <2>2
  <2> QED BY <2>3 DEF AnyPending, IsPending
<1>2. CASE acked' = acked
  BY <1>1, <1>2
<1>3. ASSUME NEW a \in Algorithms, AlgorithmNext(a) PROVE AnyPending
  <2>1. CASE JoinLoop(a)
    BY <1>1, <1>a, <2>1 DEF JoinLoop, Join
  <2>2. CASE FinishStep(a)
    <3>1. acked[a] # NotJoined
      BY <2>2 DEF FinishStep, ParticipantUntilRetired
    <3>2. step[a].gen \in Nat /\ acked[a] \in Nat
      BY <1>a, <3>1
    <3>3. acked' = [acked EXCEPT ![a] = IF acked[a] < step[a].gen THEN step[a].gen ELSE acked[a]]
      BY <2>2 DEF FinishStep, Ack
    <3>4. acked'[a] >= acked[a] /\ \A b \in Algorithms \ {a} : acked'[b] = acked[b]
      BY <1>a, <3>2, <3>3
    <3> QED BY <1>1, <3>1, <3>4
  <2>3. CASE LeaveLoop(a)
    BY <1>1, <1>a, <2>3 DEF LeaveLoop, Leave
  <2> QED BY <1>2, <1>3, <2>1, <2>2, <2>3
          DEF AlgorithmNext, PassGate, LoopGuard, TakeStep, NoStepYet, ChooseCadence, FinishLive
<1>4. ASSUME NEW w \in Workers, SupervisorNext(w) PROVE AnyPending
  <2>1. CASE Retire(w)
    BY <1>1, <1>2, <1>a, <2>1 DEF Retire, Leave
  <2> QED BY <1>2, <1>4, <2>1 DEF SupervisorNext, GiveUp, Backoff, EndBackoff, Finish
<1>5. CASE ReplayNext
  BY <1>2, <1>5 DEF ReplayNext, LoadFile, BeginPass, NextEntry, SleepInterrupted, Dispatch,
                SetEventTime, CommitStep, PublishStep, AwaitDone, AwaitOverrun, EndPass, ClockReset
<1> QED BY <1>2, <1>3, <1>4, <1>5 DEF Next, vars, Terminated, MainNext, Shutdown, SetStopEvent, CallStop

(* The replay moves on to another row only when nobody owes a step. *)
LEMMA CompleteStep ==
  ASSUME IInv, Strict, FileInv, Complete, [Next]_vars
  PROVE  Complete'
<1> SUFFICES ASSUME AnyPending' PROVE Handed' \in StepEnds
  BY DEF Complete
<1> USE DEF Goto, replayVars, algVars, mainVars, clock
<1>a. /\ pc \in [Workers -> ReplayPCs \cup LoopPCs \cup DonePCs] /\ Replay \in Workers /\ TypeInv
      /\ idx \in Int /\ NumEntries \in Nat
      /\ pc[Replay] \in {"dispatch", "commit", "await"} => idx \in 1..NumEntries
  BY Config DEF IInv, TypeInv, TypeOK, Positions
<1>1. CASE generation' # generation
  <2>1. CommitStep /\ EndsStep(idx)
    BY <1>1 DEF Next, vars, Terminated, MainNext, Shutdown, SetStopEvent, CallStop,
         SupervisorNext, GiveUp, Backoff, EndBackoff, Retire, Finish, Leave,
         AlgorithmNext, JoinLoop, Join, PassGate, LoopGuard, TakeStep, NoStepYet, ChooseCadence,
         FinishStep, Ack, FinishLive, LeaveLoop,
         ReplayNext, LoadFile, BeginPass, NextEntry, SleepInterrupted, Dispatch, SetEventTime,
         CommitStep, AwaitDone, AwaitOverrun, EndPass, ClockReset
  <2>2. pc'[Replay] = "await" /\ idx' = idx /\ idx \in 1..NumEntries
    BY <1>a, <2>1 DEF CommitStep
  <2> QED BY <2>1, <2>2 DEF Handed, StepEnds
<1>2. CASE generation' = generation
  <2>1. AnyPending
    BY <1>2, <1>a, NoNewDebt DEF IInv
  <2>2. Handed \in StepEnds
    BY <2>1 DEF Complete
  <2>3. pc[Replay] \notin {"dispatch", "commit"} /\ (pc[Replay] # "await" => Replay \in stopping)
    BY <2>1 DEF IInv, Holding
  <2>4. CASE idx' = idx /\ pc'[Replay] = pc[Replay]
    BY <2>2, <2>4 DEF Handed
  <2>5. CASE ReplayNext
    <3>1. CASE AwaitDone \/ AwaitOverrun
      <4>1. pc[Replay] = "await" /\ pc'[Replay] = "entry" /\ idx' = idx + 1
        BY <1>a, <3>1 DEF AwaitDone, AwaitOverrun
      <4> QED BY <1>a, <2>2, <4>1 DEF Handed
    <3>2. CASE LoadFile
      <4>1. pc[Replay] = "load" /\ pc'[Replay] \in {"pass", "retire", "crashed"} /\ idx' = idx
        BY <1>a, <3>2, Outcomes DEF LoadFile
      <4> QED BY <2>2, <4>1 DEF Handed
    <3>3. CASE BeginPass \/ NextEntry \/ SleepInterrupted \/ EndPass
      <4>1. /\ pc[Replay] \in {"pass", "entry", "dispatch", "passEnd"}
            /\ pc'[Replay] \in {"retire", "passEnd", "pass"} /\ idx' = idx
        BY <1>a, <2>3, <3>3 DEF BeginPass, NextEntry, SleepInterrupted, EndPass
      <4> QED BY <2>2, <4>1 DEF Handed
    <3> QED BY <2>3, <2>5, <3>1, <3>2, <3>3 DEF ReplayNext, Dispatch, CommitStep
  <2>6. ASSUME NEW a \in Algorithms, AlgorithmNext(a) PROVE Handed' \in StepEnds
    <3>1. \E from, to : Goto(a, from, to)
      BY <2>6 DEF AlgorithmNext, JoinLoop, PassGate, LoopGuard, TakeStep, NoStepYet,
                  ChooseCadence, FinishStep, FinishLive, LeaveLoop
    <3>2. pc'[Replay] = pc[Replay]
      BY <1>a, <3>1, Config
    <3>3. idx' = idx
      BY <2>6 DEF AlgorithmNext, JoinLoop, PassGate, LoopGuard, TakeStep, NoStepYet,
                  ChooseCadence, FinishStep, FinishLive, LeaveLoop
    <3> QED BY <2>4, <3>2, <3>3
  <2>7. ASSUME NEW w \in Workers, SupervisorNext(w) PROVE Handed' \in StepEnds
    <3>1. idx' = idx
      BY <2>7 DEF SupervisorNext, GiveUp, Backoff, EndBackoff, Retire, Finish
    <3>2. \/ pc'[Replay] = pc[Replay]
          \/ /\ pc[Replay] \notin {"commit", "await"}
             /\ pc'[Replay] \notin {"commit", "await"}
      BY <1>a, <2>7 DEF SupervisorNext, GiveUp, Backoff, EndBackoff, Retire, Finish
    <3> QED BY <2>2, <3>1, <3>2 DEF Handed
  <2> QED BY <2>4, <2>5, <2>6, <2>7
          DEF Next, vars, Terminated, MainNext, Shutdown, SetStopEvent, CallStop
<1> QED BY <1>1, <1>2

(* With nothing but whole timesteps handed on, the devices show the newest. *)
LEMMA ShowsNewest ==
  ASSUME TypeInv, FileInv, Handed \in StepEnds, Committed = Handed
  PROVE  data = DataAt(generation)
<1> DEFINE e == Ends(NumEntries)
<1>1. passes \in 0..MaxPasses /\ MaxPasses \in Nat /\ data \in [Devices -> 0..NumEntries]
  BY Config DEF TypeInv, TypeOK
<1>2. PassesDone \in 0..MaxPasses /\ (PassesDone > 0 <=> passes > 1)
  BY <1>1 DEF PassesDone
<1>3. generation = PassesDone * e + Ends(Handed)
  BY DEF FileInv, Counted
<1>4. EndOf(generation) = Handed /\ (generation > e <=> passes > 1)
  BY <1>2, <1>3, EndOfIs
<1>5. ASSUME NEW d \in Devices
      PROVE  data[d] = LET own == Readings(d, Handed)
                           old == IF passes > 1 THEN Readings(d, NumEntries) ELSE {}
                       IN  IF own # {} THEN SetMax(own)
                           ELSE IF old # {} THEN SetMax(old) ELSE 0
  <2>1. \A last : Readings(d, last) \subseteq 1..last
    BY DEF Readings
  <2>2. ASSUME NEW S \in SUBSET Int, NEW x, IsMax(x, S) PROVE S # {} /\ SetMax(S) = x
    <3>1. x \in S /\ \A y \in S : y <= x
      BY <2>2 DEF IsMax
    <3>2. ASSUME NEW z \in S, \A y \in S : y <= z PROVE z = x
      <4>1. z <= x /\ x <= z /\ z \in Int /\ x \in Int
        BY <3>1, <3>2
      <4> QED BY <4>1
    <3> QED BY <3>1, <3>2 DEF SetMax
  <2>3. Readings(d, Handed) \in SUBSET Int /\ Readings(d, NumEntries) \in SUBSET Int
    BY <2>1
  <2>4. IsMax(data[d], Readings(d, Handed)) =>
          Readings(d, Handed) # {} /\ SetMax(Readings(d, Handed)) = data[d]
    BY <2>2, <2>3
  <2>5. IsMax(data[d], Readings(d, NumEntries)) =>
          Readings(d, NumEntries) # {} /\ SetMax(Readings(d, NumEntries)) = data[d]
    BY <2>2, <2>3
  <2> QED BY <2>4, <2>5 DEF FileInv, Shows, IsMax
<1> QED BY <1>1, <1>4, <1>5 DEF DataAt

(* An algorithm inside main() reads every device exactly as the timestep it *)
(* is processing left it, for any file, any algorithms and any schedule of  *)
(* crashes, restarts and stops: the promise of the barrier.                 *)
THEOREM SeesOwnTimestepHolds == Spec => []SeesOwnTimestep
<1> DEFINE I == IInv /\ FileInv /\ (Strict => Complete)
<1>1. Init => I
  <2> SUFFICES ASSUME Init PROVE I
    OBVIOUS
  <2>1. IInv
    BY InitType, ParticipantInit, BarrierInit DEF IInv, TypeInv, BarrierInv
  <2>2. ~AnyPending
    BY DEF Init, ClockInit, AnyPending, IsPending
  <2> QED BY <2>1, <2>2, FileInit DEF Complete
<1>2. I /\ [Next]_vars => I'
  <2> SUFFICES ASSUME I, [Next]_vars PROVE I'
    OBVIOUS
  <2>1. TypeInv' /\ ParticipantUntilRetired'
    BY NextType, ParticipantStep DEF IInv, TypeInv
  <2>2. ASSUME Strict PROVE BarrierInv'
    BY <2>2, BarrierStep DEF IInv, TypeInv, BarrierInv
  <2>3. IInv'
    BY <2>1, <2>2 DEF IInv, TypeInv, BarrierInv, Strict
  <2>4. FileInv'
    BY FileStep DEF IInv, TypeInv
  <2>5. Strict => Complete'
    BY CompleteStep
  <2> QED BY <2>3, <2>4, <2>5 DEF Strict
<1>3. I => SeesOwnTimestep
  <2> SUFFICES ASSUME I, Strict, NEW a \in Algorithms, pc[a] = "main"
               PROVE  data = DataAt(step[a].gen)
    BY DEF SeesOwnTimestep
  <2>1. step[a].gen = generation /\ IsPending(a)
    BY InMainIsPending DEF IInv, TypeInv, Owing
  <2>2. AnyPending
    BY <2>1 DEF AnyPending
  <2>3. Handed \in StepEnds /\ pc[Replay] # "commit"
    BY <2>2 DEF Complete, IInv, Holding
  <2>4. Committed = Handed
    BY <2>3 DEF Committed, Handed
  <2>5. TypeInv
    BY DEF IInv, TypeInv
  <2> QED BY <2>1, <2>3, <2>4, <2>5, ShowsNewest
<1> QED BY <1>1, <1>2, <1>3, PTL DEF Spec

---------------------------------------------------------------------------
(* Whom the replay waits for. *)

(* The clock is simulated until the replay leaves it, and has a step while *)
(* the replay waits for one; nobody is on the wall clock before that.      *)
Over == pc[Replay] \in {"retire", "finish", "finished"}
CadenceInv ==
  /\ ~simulated => Over
  /\ pc[Replay] = "await" => stepTime # NoTime
  /\ \A a \in Algorithms : pc[a] = "live" => ~simulated

LEMMA CadenceInit == Init => CadenceInv
<1> SUFFICES ASSUME Init PROVE CadenceInv
  OBVIOUS
<1>1. pc[Replay] = "load" /\ \A a \in Algorithms : pc[a] = "join"
  BY Config DEF Init
<1> QED BY <1>1 DEF Init, ClockInit, CadenceInv

LEMMA CadenceStep == TypeInv /\ CadenceInv /\ [Next]_vars => CadenceInv'
<1> SUFFICES ASSUME TypeInv, CadenceInv, [Next]_vars PROVE CadenceInv'
  OBVIOUS
<1> USE Config DEF TypeInv, TypeOK, Positions, ClockTypeOK, CadenceInv, Over, Goto,
        clock, replayVars, algVars, mainVars
<1>1. CASE UNCHANGED vars \/ Terminated
  BY <1>1 DEF vars, Terminated
<1>2. CASE ReplayNext
  <2>1. CASE LoadFile
    <3>1. PICK to \in {"pass", "retire", "crashed"} : pc' = [pc EXCEPT ![Replay] = to]
      BY <2>1, Outcomes DEF LoadFile
    <3>2. pc[Replay] = "load" /\ UNCHANGED <<simulated, stepTime>>
      BY <2>1 DEF LoadFile
    <3>3. simulated /\ \A a \in Algorithms : pc[a] # "live"
      BY <3>2
    <3> QED BY <3>1, <3>2, <3>3
  <2>2. CASE BeginPass \/ NextEntry \/ SleepInterrupted \/ AwaitDone \/ AwaitOverrun
    BY <2>2, SMTT(40) DEF BeginPass, NextEntry, SleepInterrupted, AwaitDone, AwaitOverrun
  <2>3. CASE Dispatch
    BY <2>3 DEF Dispatch, SetEventTime
  <2>4. CASE CommitStep
    <3>1. Entries[idx].time # NoTime
      BY <2>4 DEF CommitStep
    <3>2. \A a \in Algorithms : pc[a] # "live"
      BY <2>4 DEF CommitStep
    <3>3. pc' = [pc EXCEPT ![Replay] = "await"] \/ pc' = [pc EXCEPT ![Replay] = "entry"]
      BY <2>4 DEF CommitStep
    <3>4. /\ simulated' = TRUE \/ simulated' = simulated
          /\ pc'[Replay] = "await" => stepTime' = Entries[idx].time
      BY <2>4, SMTT(40) DEF CommitStep, PublishStep
    <3>5. simulated
      BY <2>4 DEF CommitStep
    <3>6. simulated' = TRUE
      BY <3>4, <3>5, Zenon
    <3>7. \A a \in Algorithms : pc'[a] # "live"
      BY <3>2, <3>3
    <3> QED BY <3>1, <3>4, <3>6, <3>7
  <2>5. CASE EndPass
    BY <2>5, SMTT(40) DEF EndPass, ClockReset
  <2> QED BY <1>2, <2>1, <2>2, <2>3, <2>4, <2>5 DEF ReplayNext
<1>3. ASSUME NEW a \in Algorithms, AlgorithmNext(a) PROVE CadenceInv'
  <2>1. UNCHANGED <<simulated, stepTime>>
    BY <1>3 DEF AlgorithmNext, JoinLoop, Join, PassGate, LoopGuard, TakeStep, NoStepYet,
                ChooseCadence, FinishStep, Ack, FinishLive, LeaveLoop, Leave
  <2>2. /\ pc'[Replay] = pc[Replay] /\ \A b \in Algorithms \ {a} : pc'[b] = pc[b]
    BY <1>3 DEF AlgorithmNext, JoinLoop, PassGate, LoopGuard, TakeStep, NoStepYet,
                ChooseCadence, FinishStep, FinishLive, LeaveLoop
  <2>3. pc'[a] = "live" => ~simulated
    BY <1>3, Outcomes DEF AlgorithmNext, JoinLoop, PassGate, LoopGuard, TakeStep, NoStepYet,
                          ChooseCadence, FinishStep, FinishLive, LeaveLoop
  <2> QED BY <2>1, <2>2, <2>3
<1>4. ASSUME NEW w \in Workers, SupervisorNext(w) PROVE CadenceInv'
  <2>1. UNCHANGED <<simulated, stepTime>>
    BY <1>4 DEF SupervisorNext, GiveUp, Backoff, EndBackoff, Retire, Leave, Finish
  <2>2. /\ pc[w] \in {"crashed", "backoff", "retire", "finish"}
        /\ pc[w] \in {"retire", "finish"} => pc'[w] \in {"finish", "finished"}
        /\ pc'[w] \notin {"live", "await"}
        /\ \A v \in Workers \ {w} : pc'[v] = pc[v]
    BY <1>4, SMTT(40) DEF SupervisorNext, GiveUp, Backoff, EndBackoff, Retire, Finish
  <2> QED BY <2>1, <2>2
<1>5. CASE MainNext
  BY <1>5 DEF MainNext, Shutdown, SetStopEvent, CallStop
<1> QED BY <1>1, <1>2, <1>3, <1>4, <1>5 DEF Next

(* The replay never waits for what cannot come: while it waits for a step, *)
(* each algorithm that owes it is one whose worker has still to be retired *)
(* and that is offered that step when it asks; and no algorithm is on the  *)
(* wall clock before the replay is over, crashed or not (Algorithm.loop,   *)
(* SimulationClock.wait_for_step, wait_for_completion).                    *)
AwaitedCanCome ==
  /\ pc[Replay] = "await" =>
       \A a \in Algorithms :
         IsPending(a) => StepReady(a) /\ pc[a] \notin {"live", "finish", "finished"}
  /\ (\E a \in Algorithms : pc[a] = "live") => Over

(* Any step timeout, any restart policy: nobody waits for what cannot come. *)
THEOREM AwaitedCanComeHolds == Spec => []AwaitedCanCome
<1>1. CadenceInv /\ ParticipantUntilRetired => AwaitedCanCome
  BY DEF CadenceInv, Over, ParticipantUntilRetired, AwaitedCanCome, StepReady, IsPending
<1>2. Spec => []CadenceInv
  <2>1. TypeInv /\ CadenceInv /\ [Next]_vars => (TypeInv /\ CadenceInv)'
    BY NextType, CadenceStep
  <2> QED BY <2>1, InitType, CadenceInit, PTL DEF Spec
<1> QED BY <1>1, <1>2, ParticipationCorrect, PTL
=============================================================================
