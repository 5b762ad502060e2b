--------------------------- MODULE MCMqttDispatch ---------------------------
(* Instances of MqttDispatch small enough for TLC. *)
EXTENDS MqttDispatch, TLC

CONSTANTS meter, plug
=============================================================================
