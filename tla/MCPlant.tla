------------------------------- MODULE MCPlant -------------------------------
(* Instances of Plant small enough for TLC. *)
EXTENDS Plant

CONSTANTS nobody, null

Entry(name, plugin) ==
  [name |-> Text(name), plugin |-> plugin, emulates |-> Null, connector |-> Null,
   protocol |-> "", declared |-> << >>]
On(entry, connector) == [entry EXCEPT !.connector = connector]
Register(name, type) == [name |-> name, type |-> type]
Meter == [Entry("meter", "modbus_meter") EXCEPT
            !.declared = <<Register("t1", "INT32"), Register("t2", "BCD"), Register("t1", "RAW")>>]
Algorithm == Entry("algorithm", "auto_toggle")
Plain == [devices |-> << >>, storage |-> << >>, connectors |-> << >>,
          algorithms |-> <<Algorithm>>, services |-> << >>]

(* A gateway and a connector that takes its name, a meter and a device     *)
(* that takes its, and a device whose connector the environment lacks.     *)
Gateway ==
  [devices |-> <<On(Meter, Text("gateway")),
                 On(Entry("meter", "pseudo"), Text("gateway")),
                 On(Entry("lost", "p1"), Reference("NONE", NoDefault))>>,
   storage |-> <<Entry("csv", "csv_file")>>,
   connectors |-> <<[Entry("gateway", "modbus_tcp") EXCEPT !.name = Reference("GATEWAY", NoDefault)],
                    Entry("gateway", "mqtt")>>,
   algorithms |-> <<Algorithm, Entry("algorithm", "device_checker")>>,
   services |-> << >>]

(* A device on a replay that stands in for a transport, or for none. *)
Replayed(device, transport) ==
  [Plain EXCEPT
     !.devices = <<On(device, Text("replay"))>>,
     !.connectors = <<[Entry("replay", "pseudo") EXCEPT !.emulates = transport]>>]
Plug == Entry("plug", "shelly_plug")
Relay == [Meter EXCEPT !.name = Text("relay"), !.plugin = "modbus_switch"]
Probe == Entry("probe", "pseudo")

(* Two algorithms and a service, one of which may end the start-up. *)
Watched ==
  [Plain EXCEPT !.connectors = <<Entry("broker", "mqtt")>>,
                !.algorithms = <<Algorithm, Entry("other", "device_checker")>>,
                !.storage = <<Entry("csv", "csv_file")>>,
                !.services = <<Entry("api", "rest_api")>>]

Broker ==
  [Plain EXCEPT !.devices = <<On(Entry("p1", "p1"), Text("broker"))>>,
                !.connectors = <<Entry("broker", "mqtt")>>]

Hubs ==
  [Plain EXCEPT
     !.devices = <<On(Entry("battery", "openems"), Text("edge")),
                   On(Entry("lamp", "ha_switch"), Text("hub") \o Reference("SUFFIX", Text("1")))>>,
     !.connectors = <<Entry("edge", "openems"),
                      [Entry("hub", "home_assistant") EXCEPT !.name = Text("hub") \o Text("1")]>>]

MCDocuments ==
  {Gateway, Watched, Broker, Hubs, Replayed(Plug, Reference("TRANSPORT", Text("mqtt"))),
   Replayed(Relay, Reference("NONE", NoDefault)), Replayed(Probe, Null)}
MCLive ==
  {[Plain EXCEPT !.devices = <<On(Plug, Text("broker"))>>,
                 !.connectors = <<Entry("broker", "mqtt")>>]}
MCEnvironments == {"GATEWAY" :> Text("gateway") @@ "TRANSPORT" :> << >>}

MCDeviceNames ==
  {Text(n) : n \in {"meter", "lost", "relay", "plug", "probe", "p1", "battery", "lamp"}}
MCAlgorithmNames == {Text("algorithm"), Text("other")}

Plugins == Kinds \cup {"csv_file", "modbus_tcp", "mqtt", "pseudo", "openems", "home_assistant",
                       "auto_toggle", "device_checker", "rest_api"}
MCOutcomes ==
  [p \in Plugins |->
     CASE p = "auto_toggle" -> {"built", "raised"}
       [] p = "modbus_tcp"  -> {"built", "skipped"}
       [] p = "rest_api"    -> {"built", "escapes"}
       [] OTHER             -> {"built"}]
AllBuilt == [p \in Plugins |-> {"built"}]

Payload(topic, body) == [topic |-> topic, body |-> body]
Blocks(blocks) == Payload("", [readable |-> TRUE, blocks |-> blocks])
Value(topic, value) == Payload(topic, [readable |-> TRUE, value |-> value])
MCPayloads ==
  [k \in Kinds |->
     CASE k \in {"modbus_meter", "modbus_switch"} ->
            {Blocks("t1" :> <<0, 1>> @@ "t2" :> <<1>>), Blocks("t1" :> <<2>> @@ "t2" :> <<2>>),
             Blocks("t1" :> <<3>>)}
       [] k = "p1" ->
            {Payload("", [readable |-> TRUE, checksum |-> c,
                          records |-> <<[conforms |-> TRUE, v |-> c], [conforms |-> FALSE, v |-> c]>>]) :
               c \in {"none", "right", "wrong"}}
       [] k = "openems" ->
            {Payload("", [readable |-> TRUE, channels |-> <<[address |-> a, value |-> 1],
                                                            [address |-> a, value |-> 2]>>]) :
               a \in {"Soc", ""}}
       [] k = "ha_switch" -> {Payload("", [readable |-> TRUE, state |-> s]) : s \in {"on", "unknown"}}
       [] k = "shelly_plug" ->
            {Value("relay", "on"), Value("relay", "overpower"), Value("power", "7"), Value("uptime", "1")}
       [] k = "pseudo" -> {Value("t", "1"), Payload("u", [readable |-> FALSE, value |-> "x"])}]

(* A plug that trips its overpower protection, and is switched on again. *)
MCTripped ==
  [MCPayloads EXCEPT !["shelly_plug"] = {Value("relay", "overpower"), Value("relay", "on")}]
=============================================================================
