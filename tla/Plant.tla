-------------------------------- MODULE Plant --------------------------------
(***************************************************************************)
(* The program as one: main() builds it from a configuration, and the      *)
(* devices it registered are rewritten by the connectors it started and    *)
(* read by the algorithms it started.                                      *)
(***************************************************************************)
EXTENDS DeviceRegistry

vars == <<startupVars, registryVars>>

Init == StartupInit /\ RegistryInit

(* An algorithm's thread does not end inside get_devices().                *)
EndsOutside ==
  \A a \in AlgorithmNames : <<"algorithms", a>> \in running \ running' => doing[a] = "idle"

(* The threads are daemons, and end with the process. *)
Threads ==
  /\ phase # "ended"
  /\ (\E d \in DeviceNames : Deliver(d)) \/ (\E a \in AlgorithmNames : RunMain(a))

Next ==
  \/ StartupNext /\ EndsOutside /\ UNCHANGED registryVars
  \/ Threads /\ UNCHANGED startupVars

Spec == Init /\ [][Next]_vars
FairSpec == Spec /\ StartupFairness

---------------------------------------------------------------------------
(* As soon as one thread runs, every algorithm is constructed, and the     *)
(* barrier waits for those that have not ended and for no other name: a    *)
(* replay that publishes steps meanwhile leaves no algorithm out, and      *)
(* waits for nobody who does not exist (main.py, SimulationClock.join).    *)
BarrierIsTheBuilt ==
  running # {} =>
    /\ phase \notin AxisNames
    /\ participants = Names(built["algorithms"])
                        \ {w[2] : w \in {w \in started \ running : w[1] = "algorithms"}}

(* Said of the document itself: the first entry of a name is the one that  *)
(* counts, and a device hears the transport its connector stands in for.   *)
Counts(axis, k) ==
  LET name(j) == Interpolate(environment, document[axis][j].name) IN
  \A j \in 1..(k - 1) : name(j) # name(k)

(* Once the connectors exist, every device that was constructed is in the  *)
(* registry once, carries the options of the entry that counts under its   *)
(* name, hears the protocol of the connector entry that counts under the   *)
(* name it gives, and was injected into that connector if it was built     *)
(* (config.py, main.py).                                                   *)
WiredAsConfigured ==
  phase \in {"algorithms", "services", "start", "wait"} =>
    /\ Len(registry) = Len(built["devices"])
    /\ \A k \in 1..Len(registry) :
         LET d == registry[k]
             c == CHOOSE c \in 1..Len(document["connectors"]) :
                    /\ Counts("connectors", c)
                    /\ Interpolate(environment, document["connectors"][c].name) = d.connector
             connector == InterpolateEntry(environment, document["connectors"][c])
         IN /\ \E j \in 1..Len(document["devices"]) :
                 /\ Counts("devices", j)
                 /\ [InterpolateEntry(environment, document["devices"][j])
                       EXCEPT !.protocol = d.protocol] = d
            /\ d.protocol = IF connector.emulates \in {Null, << >>}
                            THEN connector.plugin ELSE Word(connector.emulates)
            /\ d.name \in DOMAIN wired <=> d.connector \in Names(built["connectors"])
            /\ d.name \in DOMAIN wired => wired[d.name] = d.connector

(* A signal, at whatever point of the start-up, the end of the last        *)
(* connector, and a plugin that brings main() down all end the run with    *)
(* every started worker told to stop and every registered backend closed   *)
(* (main.py, main() and shutdown()).                                       *)
Down == phase = "ended" /\ asked = started /\ open = {}
RunEndsClosed ==
  /\ (event \/ phase = "stop") ~> Down
  /\ (phase = "wait" /\ AllConnectorsFinished) ~> Down

(* A copy of a device that replaces its reading is one whole reading: the  *)
(* one it had when get_devices() took the lock, or one accepted since      *)
(* (Device.__deepcopy__, DevicesManager.get_devices).                      *)
WasHeld(a, d) ==
  \/ since[a][d] = 0 /\ snapshot[a][d] = Reading(<< >>)
  \/ \E k \in 1..Len(accepted[d]) : k >= since[a][d] /\ accepted[d][k] = snapshot[a][d]

Replacing == Kinds \ InPlace
SnapshotIsAReading ==
  \A a \in AlgorithmNames, d \in DeviceNames :
    d \in DOMAIN snapshot[a] /\ Device(d).plugin \in Replacing => WasHeld(a, d)

(* The reading that a receive() under way is about to accept. *)
UnderWay(d) == Reading(FoldLeft(Write, items[d], writes[d]))

(* As the docstring of Device.__deepcopy__ has it, of every device: a      *)
(* snapshot does not race the connector that writes it, so that a copy is  *)
(* one reading, be it the one that is just being written.                  *)
NoRacingSnapshot ==
  \A a \in AlgorithmNames : \A d \in DOMAIN snapshot[a] :
    WasHeld(a, d) \/ (at[d] = "receive" /\ snapshot[a][d] = UnderWay(d))

(* What is stored of a device is each reading it accepted, once and in     *)
(* order, and nothing for a payload it refused: a gap, not a flat line     *)
(* (Connector.on_device_data_received).                                    *)
StoredIsTheReading ==
  \A d \in DeviceNames :
    /\ Len(stored[d]) <= Len(accepted[d])
    /\ SubSeq(accepted[d], 1, Len(stored[d])) = stored[d]
    /\ at[d] = "idle" => stored[d] = accepted[d]
=============================================================================
