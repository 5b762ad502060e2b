--------------------------- MODULE MCDecisionFeed ---------------------------
(* Instances of DecisionFeed small enough for TLC. *)
EXTENDS DecisionFeed

CONSTANT a1

MCBackends == << "influx", "csv" >>
MCFirstCursors == {-1}
MCLimits == {1, 9}
=============================================================================
