--------------------------- MODULE DeviceReadings ---------------------------
(***************************************************************************)
(* What the device classes under devices/ do with a payload: receive() as  *)
(* the writes to self.data it makes, one after the other, and none for a   *)
(* payload it refuses.  A meter replaces its reading, a Shelly plug and a  *)
(* pseudo device change theirs in place.                                   *)
(*                                                                         *)
(* self.data is a dict in insertion order: a sequence of items, of which a *)
(* popped one is gone and keeps its place.                                 *)
(***************************************************************************)
EXTENDS Naturals, Sequences, SequencesExt, FiniteSetsExt

Item(key, value) == [key |-> key, value |-> value, live |-> TRUE]
Gone(key) == [key |-> key, value |-> "", live |-> FALSE]
Items(f) == LET keys == SetToSeq(DOMAIN f) IN [k \in 1..Len(keys) |-> Item(keys[k], f[keys[k]])]
Live(items) == SelectSeq(items, LAMBDA item : item.live)
Reading(items) == ToSet(Live(items))

Assign(items) == [op |-> "assign", items |-> items]
Put(key, value) == [op |-> "put", item |-> Item(key, value)]
Pop(key) == [op |-> "put", item |-> Gone(key)]
Refused == << >>

(* One bytecode of the thread that runs receive(). *)
Write(items, write) ==
  LET at == {k \in 1..Len(items) : items[k].live /\ items[k].key = write.item.key}
  IN CASE write.op = "assign"         -> write.items
       [] write.op = "put" /\ at # {} -> [k \in 1..Len(items) |->
                                            IF k \in at THEN write.item ELSE items[k]]
       [] write.op = "put" /\ at = {} -> IF write.item.live THEN Append(items, write.item) ELSE items

---------------------------------------------------------------------------
(* A payload is [topic, body]; a body is what the parser of its transport  *)
(* makes of the text: [readable, ...].                                     *)

Words == [INT16 |-> 1, UINT16 |-> 1, RAW |-> 1, STRING |-> 1, INT32 |-> 2, UINT32 |-> 2,
          FLOAT32 |-> 2, INT64 |-> 4, UINT64 |-> 4, FLOAT64 |-> 4]

(* The first declaration of a name counts, an unknown type is a UINT16. *)
BuildSpecs(declared) ==
  LET first(n) == CHOOSE k \in 1..Len(declared) :
                    declared[k].name = n /\ \A j \in 1..(k - 1) : declared[j].name # n
      width(type) == IF type \in DOMAIN Words THEN Words[type] ELSE Words["UINT16"]
  IN [n \in {declared[k].name : k \in 1..Len(declared)} \ {""} |-> width(declared[first(n)].type)]

(* Mutant: a poll is merged into the reading before it. *)
ReceiveModbus_Merges(declared, body) ==
  LET names == SetToSeq(DOMAIN body.blocks \cap DOMAIN BuildSpecs(declared)) IN
  IF ~body.readable THEN Refused
  ELSE [k \in 1..Len(names) |-> Put(names[k], body.blocks[names[k]])]

(* Blocks that are not declared, or too short, are left out of the reading. *)
ReceiveModbus(declared, body) ==
  LET specs == BuildSpecs(declared)
      decodable == {n \in DOMAIN body.blocks \cap DOMAIN specs : Len(body.blocks[n]) >= specs[n]}
  IN IF ~body.readable \/ decodable = {} THEN Refused
     ELSE <<Assign(Items([n \in decodable |-> body.blocks[n]]))>>

(* A telegram whose checksum is wrong is refused; one without a checksum   *)
(* is not; a record that does not conform costs only itself.               *)
ReceiveP1(body) ==
  LET records == SelectSeq(body.records, LAMBDA r : r.conforms) IN
  IF ~body.readable \/ body.checksum = "wrong" \/ records = << >> THEN Refused
  ELSE <<Assign(<<Item("data", records)>>)>>

(* One object or an array of them; entries without an address are skipped. *)
ReceiveOpenems(body) ==
  LET usable == SelectSeq(body.channels, LAMBDA c : c.address # "")
      last(a) == CHOOSE k \in 1..Len(usable) :
                   usable[k].address = a /\ \A j \in (k + 1)..Len(usable) : usable[j].address # a
      addresses == {usable[k].address : k \in 1..Len(usable)}
  IN IF ~body.readable \/ addresses = {} THEN Refused
     ELSE <<Assign(Items([a \in addresses |-> usable[last(a)].value]))>>

Unavailable == {"unavailable", "unknown", "none", ""}

(* An entity that is unavailable gives no reading. *)
ReceiveHomeAssistant(body) ==
  IF ~body.readable \/ body.state \in Unavailable THEN Refused
  ELSE <<Assign(<<Item("state", body.state)>>)>>

Values == {"power", "energy", "overpower_value", "temperature", "temperature_f"}

(* One value per topic, by the end of the topic. *)
ReceiveShelly(topic, body) ==
  CASE ~body.readable -> Refused
    [] body.readable /\ topic \in Values -> <<Put(topic, body.value)>>
    [] body.readable /\ topic = "relay" /\ body.value \in {"on", "off"} ->
         <<Put("status", body.value), Pop("overpower")>>
    [] body.readable /\ topic = "relay" /\ body.value = "overpower" -> <<Put("overpower", "true")>>
    [] body.readable /\ topic = "overtemperature" /\ body.value \in {"0", "1"} ->
         <<Put("overtemperature", body.value)>>
    [] OTHER -> Refused

(* Any payload, parsed when it is JSON. *)
ReceivePseudo(topic, body) ==
  <<Put("topic", topic), Put("payload", body.value),
    Put("parsed", IF body.readable THEN body.value ELSE "none")>>

---------------------------------------------------------------------------
Kinds == {"modbus_meter", "modbus_switch", "p1", "openems", "ha_switch", "shelly_plug", "pseudo"}
InPlace == {"shelly_plug", "pseudo"}

(* SUPPORTED_PROTOCOLS: a pseudo device makes no claim and refuses nothing. *)
Serves(kind, protocol) ==
  CASE kind \in {"modbus_meter", "modbus_switch"} -> protocol = "modbus_tcp"
    [] kind \in {"p1", "shelly_plug"}             -> protocol = "mqtt"
    [] kind = "openems"                           -> protocol = "openems"
    [] kind = "ha_switch"                         -> protocol = "home_assistant"
    [] kind = "pseudo"                            -> TRUE

(* receive(): refuse_unserved_protocol() first, in every class. *)
Receive(kind, declared, protocol, payload) ==
  CASE ~Serves(kind, protocol) -> Refused
    [] Serves(kind, protocol) /\ kind \in {"modbus_meter", "modbus_switch"} ->
         ReceiveModbus(declared, payload.body)
    [] Serves(kind, protocol) /\ kind = "p1"          -> ReceiveP1(payload.body)
    [] Serves(kind, protocol) /\ kind = "openems"     -> ReceiveOpenems(payload.body)
    [] Serves(kind, protocol) /\ kind = "ha_switch"   -> ReceiveHomeAssistant(payload.body)
    [] Serves(kind, protocol) /\ kind = "shelly_plug" -> ReceiveShelly(payload.topic, payload.body)
    [] kind = "pseudo"                                -> ReceivePseudo(payload.topic, payload.body)
=============================================================================
