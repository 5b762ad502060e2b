---------------------------- MODULE MCFieldLinks ----------------------------
(* Instances of FieldLinks small enough for TLC. *)
EXTENDS FieldLinks, TLC

CONSTANTS worker, a1, a2, nobody

Register(n, t, a) == [name |-> n, table |-> t, address |-> a]
Field(n, source, offset, length, port) ==
  [name |-> n, source |-> source, offset |-> offset, length |-> length, type |-> "signed",
   little |-> FALSE, bit |-> NoBit, port |-> port, scale |-> 2, bias |-> 1, energy |-> n = "energy"]

(* A meter with a duplicate and an unusable register, whose node sends its  *)
(* total on port 1 and its state on port 2; a plain one with one register,  *)
(* which reads a decoded object off any topic; and a relay nobody reads.    *)
Meter ==
  [readable |-> TRUE, endpoint |-> TRUE, component |-> TRUE, address |-> "A1", port |-> 0,
   everyTopic |-> FALSE, maxBytes |-> 4,
   registers |-> <<Register("power", "unknown", 0), Register("power", "input", 0),
                   Register("power", "input", 9), Register("energy", "input", 2)>>,
   fields |-> <<Field("energy", "", NoOffset, 2, 1), Field("energy", "", 1, 2, 1),
                [Field("alarm", "", 0, 1, 0) EXCEPT !.bit = 1],
                [Field("relay", "", 0, 1, 2) EXCEPT !.type = "bool"]>>]
Plain ==
  [readable |-> TRUE, endpoint |-> TRUE, component |-> TRUE, address |-> "", port |-> 2,
   everyTopic |-> TRUE, maxBytes |-> 4,
   registers |-> <<Register("power", "holding", 0)>>,
   fields |-> <<Field("level", "level", 0, 1, 2), [Field("label", "", 0, 1, 2) EXCEPT !.type = "text"]>>]
Relay ==
  [readable |-> FALSE, endpoint |-> FALSE, component |-> FALSE, address |-> "a3", port |-> 0,
   everyTopic |-> FALSE, maxBytes |-> 4, registers |-> << >>, fields |-> << >>]
MCDeclared == <<Meter, Plain, Relay>>
MCSpellings == "A1" :> "a1"

MCOptions == [address |-> 0, kind |-> "register", on |-> 1, off |-> 0, scale |-> 2, signed |-> FALSE]
MCCommands == {[token |-> "on"], [token |-> "text"], [token |-> "infinite"],
               [token |-> "number", value |-> 3], [token |-> "number", value |-> 131072]}

(* A full reading, a short one, a status, another node's, and a broken one. *)
Uplink(address, port, bytes, object) ==
  [readable |-> TRUE, encoded |-> TRUE, address |-> address, head |-> "a1", port |-> port,
   bytes |-> bytes, object |-> object]
MCUplinks ==
  {Uplink("a1", 1, <<2, 255, 254>>, << >>), Uplink("a1", 1, <<0>>, << >>),
   Uplink("", 2, <<1>>, << >>), Uplink("b2", 2, << >>, "level" :> Number(3)),
   [Uplink("a1", 2, <<1>>, << >>) EXCEPT !.encoded = FALSE]}

(* Only the throttle is a race of two algorithms. *)
MCSenders == [k \in Kinds |-> IF k = "lorawan" THEN Algorithms ELSE {a1}]

MCDownlink == [fPort |-> 10, queueMode |-> "default"]
=============================================================================
