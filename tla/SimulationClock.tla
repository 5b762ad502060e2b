-------------------------- MODULE SimulationClock --------------------------
(***************************************************************************)
(* simulation/clock.py: the replay clock and the barrier it keeps.         *)
(*                                                                         *)
(* Every method takes the clock's one Condition for its whole body, so     *)
(* each is one atomic operator here.  A wait releases the lock, and the    *)
(* answer is computed after the lock is taken again: the operators that    *)
(* wait are therefore stated at the instant they return.                   *)
(*                                                                         *)
(* The clock is a singleton without a thread.  This module gives its state *)
(* and its operations; Lockstep says who calls them, and when.             *)
(***************************************************************************)
EXTENDS Integers

CONSTANTS Algorithms,   \* names that may participate in the barrier
          Times,        \* timestamps a replay file carries
          NoTime        \* None in _event_time and _step_time

NotJoined == -1         \* the name has no entry in _acked

VARIABLES simulated,    \* _simulated: a replay clock drives this run
          eventTime,    \* _event_time: the entry being dispatched
          stepTime,     \* _step_time: the last committed timestep
          generation,   \* _generation: how many steps were ever committed
          acked         \* _acked: the last generation each participant finished

clock == <<simulated, eventTime, stepTime, generation, acked>>

(* Algorithm.__init__ joined every participant and PseudoConnector.__init__ *)
(* declared the simulation, both on the main thread, before any worker ran. *)
ClockInit ==
  /\ simulated = TRUE
  /\ eventTime = NoTime
  /\ stepTime = NoTime
  /\ generation = 0
  /\ acked = [a \in Algorithms |-> 0]

ClockTypeOK ==
  /\ simulated \in BOOLEAN
  /\ eventTime \in Times \cup {NoTime}
  /\ stepTime \in Times \cup {NoTime}
  /\ generation \in Nat
  /\ acked \in [Algorithms -> Nat \cup {NotJoined}]

---------------------------------------------------------------------------
(* Writing: the replay thread. *)

ClockReset ==
  /\ simulated' = FALSE
  /\ eventTime' = NoTime
  /\ stepTime' = NoTime
  /\ UNCHANGED <<generation, acked>>

SetEventTime(t) ==
  /\ eventTime' = t
  /\ UNCHANGED <<simulated, stepTime, generation, acked>>

PublishStep(t) ==
  /\ simulated' = TRUE
  /\ stepTime' = t
  /\ generation' = generation + 1
  /\ UNCHANGED <<eventTime, acked>>

---------------------------------------------------------------------------
(* Participating: the algorithm threads. *)

Participants == {a \in Algorithms : acked[a] # NotJoined}

(* An unregistered name counts as up to date. *)
IsPending(a) == acked[a] # NotJoined /\ acked[a] < generation

(* Mutant: all() for any(). *)
AnyPending_All == \A a \in Algorithms : IsPending(a)

AnyPending == \E a \in Algorithms : IsPending(a)

(* Mutant: joining again joins at the current generation. *)
Join_Reset(a) ==
  /\ acked' = [acked EXCEPT ![a] = generation]
  /\ UNCHANGED <<simulated, eventTime, stepTime, generation>>

(* setdefault: joining again keeps the marker, so no step is forgotten. *)
Join(a) ==
  /\ acked' = [acked EXCEPT ![a] = IF @ = NotJoined THEN generation ELSE @]
  /\ UNCHANGED <<simulated, eventTime, stepTime, generation>>

Leave(a) ==
  /\ acked' = [acked EXCEPT ![a] = NotJoined]
  /\ UNCHANGED <<simulated, eventTime, stepTime, generation>>

(* max(): a late ack never walks the marker back.  A name without an entry *)
(* gets one, which is _acked.get(name, generation) in the source.          *)
Ack(a, g) ==
  /\ acked' = [acked EXCEPT ![a] = IF @ < g THEN g ELSE @]
  /\ UNCHANGED <<simulated, eventTime, stepTime, generation>>

(* wait_for_step hands out a step exactly when this holds, and None else. *)
(* The step is always the newest one.                                     *)
StepReady(a) == simulated /\ stepTime # NoTime /\ IsPending(a)

CurrentStep == [gen |-> generation, time |-> stepTime]
=============================================================================
