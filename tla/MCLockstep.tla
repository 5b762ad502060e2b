---------------------------- MODULE MCLockstep ----------------------------
(* Instances of Lockstep small enough for TLC. *)
EXTENDS Lockstep

CONSTANTS a1, a2, meter, plug, stranger, replayWorker, none

Row(t, d, accepted) == [time |-> t, device |-> d, ok |-> accepted]

(* Three timesteps: two devices in the first, a rejected payload and an    *)
(* unknown device in the second, one device in the third.                  *)
MCEntries ==
  << Row(1, meter, TRUE), Row(1, plug, TRUE),
     Row(2, meter, FALSE), Row(2, stranger, TRUE),
     Row(3, meter, TRUE) >>

(* Two timesteps; the plug reports in the second one only. *)
MCShortEntries == << Row(1, meter, TRUE), Row(2, plug, TRUE) >>

MCTimes == 1..3
MCNothingRequired == [a \in Algorithms |-> {}]
MCPlugRequired == [a \in Algorithms |-> IF a = a1 THEN {plug} ELSE {}]
MCStopOrder == << replayWorker, a1, a2 >>
=============================================================================
