-------------------------- MODULE MCHomeAssistant --------------------------
(* Instances of HomeAssistantSession small enough for TLC. *)
EXTENDS HomeAssistantSession

CONSTANT a1
=============================================================================
