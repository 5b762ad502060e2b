------------------------------ MODULE LoraLink ------------------------------
(***************************************************************************)
(* The LoRa nodes behind a connector, and the readings their devices show: *)
(* what LoRaConnector and LorawanConnector have in common.                 *)
(***************************************************************************)
EXTENDS FieldLink, LoraDevice

CONSTANTS
  Uplinks,      \* what the nodes may send
  MaxUplinks    \* BOUND: uplinks in one behaviour

(* The entries of a field map have names: an entry that has none is dropped *)
(* before it is looked at (_build_specs), as one whose name is "".          *)
ASSUME FieldMapsAssumption ==
  /\ MaxUplinks \in Nat
  /\ \A d \in Devices :
       /\ Len(Declared[d].fields) \in Nat
       /\ \A i \in 1..Len(Declared[d].fields) : "name" \in DOMAIN Declared[d].fields[i]

VARIABLES
  count,      \* uplinks so far: the frame counter
  fields,     \* per device, data["fields"], NoReading before the first
  accepted    \* HISTORY: per device, the uplinks it accepted, with their counters

readings == <<count, fields, accepted>>

LoraInit ==
  /\ count = 0
  /\ fields = [d \in Devices |-> NoReading]
  /\ accepted = [d \in Devices |-> << >>]

Takes(d, D, uplink) == d \in D /\ Accepts(Declared[d], uplink)

(* deliver() to the devices D, which are reachable whatever they make of it. *)
DeliverUplink(uplink, D, frameCount) ==
  /\ count < MaxUplinks /\ count' = count + 1
  /\ fields' = [d \in Devices |->
       IF Takes(d, D, uplink) THEN Receive(Declared[d], fields[d], uplink, frameCount) ELSE fields[d]]
  /\ accepted' = [d \in Devices |->
       IF Takes(d, D, uplink) THEN Append(accepted[d], [uplink |-> uplink, count |-> frameCount]) ELSE accepted[d]]
  /\ Reached(D)
=============================================================================
