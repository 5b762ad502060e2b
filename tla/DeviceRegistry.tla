--------------------------- MODULE DeviceRegistry ---------------------------
(***************************************************************************)
(* The live devices main() registered (devices_manager.py): the threads of *)
(* their connectors rewrite them (Connector.deliver) without a lock, while *)
(* algorithms deep-copy them under the registry's and work on the copies.  *)
(*                                                                         *)
(* A step is one bytecode at which the interpreter may switch threads: a   *)
(* write to a dict, one turn of a deepcopy over a dict.                    *)
(***************************************************************************)
EXTENDS Startup, DeviceReadings

CONSTANTS
  NoOne,
  DeviceNames, AlgorithmNames,  \* every name the Documents give to one
  Payloads,       \* per kind, what a connector may route to a device of it
  MaxPayloads,    \* BOUND: payloads of a run
  MaxSnapshots    \* BOUND: calls of main() per algorithm

VARIABLES
  at,         \* per device, where its connector's thread is in deliver()
  writes,     \* per device, the writes left in receive()
  items,      \* per device, self.data
  payloads,   \* those handed to a device so far
  connected, ready,  \* devices whose events are set
  lock,       \* the algorithm that holds devices_lock
  doing,      \* per algorithm, where it is in main()
  copy,       \* per algorithm, the deepcopy under way
  snapshot,   \* per algorithm, self.devices: the copies it has made
  snapshots,  \* per algorithm, the calls of main() begun
  accepted,   \* HISTORY: per device, the readings receive() accepted
  since,      \* HISTORY: per algorithm and device, those accepted at the copy's start
  stored      \* per device, what write_device_data() was given

liveVars   == <<at, writes, items, payloads, connected, ready, accepted, stored>>
readerVars == <<doing, copy, snapshot, snapshots, since>>
registryVars == <<liveVars, lock, readerVars>>

Device(name) == LET k == CHOOSE k \in 1..Len(registry) : registry[k].name = name IN registry[k]
Copying(names) == [left |-> names, size |-> 0, next |-> 0, got |-> {}]
NoCopy == Copying(<< >>)

RegistryInit ==
  /\ at = [d \in DeviceNames |-> "idle"] /\ writes = [d \in DeviceNames |-> << >>]
  /\ items = writes /\ accepted = writes /\ stored = writes
  /\ payloads = 0
  /\ connected = {} /\ ready = {} /\ lock = NoOne
  /\ doing = [a \in AlgorithmNames |-> "idle"] /\ copy = [a \in AlgorithmNames |-> NoCopy]
  /\ snapshot = [a \in AlgorithmNames |-> << >>] /\ snapshots = [a \in AlgorithmNames |-> 0]
  /\ since = [a \in AlgorithmNames |-> [d \in DeviceNames |-> 0]]

---------------------------------------------------------------------------
(* Connector.deliver(), on the thread that serves the device: one of its   *)
(* own on a broker, and of several devices on the transports that poll.    *)

Delivering(d, from, to) == at[d] = from /\ at' = [at EXCEPT ![d] = to]

(* receive() is entered; a payload it refuses only proves the connection.  *)
BeginReceive(d) ==
  /\ d \in DOMAIN wired /\ <<"connectors", wired[d]>> \in running
  /\ payloads < MaxPayloads /\ payloads' = payloads + 1
  /\ \E payload \in Payloads[Device(d).plugin] :
       LET w == Receive(Device(d).plugin, Device(d).declared, Device(d).protocol, payload) IN
       /\ Delivering(d, "idle", IF w = Refused THEN "refused" ELSE "receive")
       /\ writes' = [writes EXCEPT ![d] = w]
  /\ UNCHANGED <<items, connected, ready, accepted, stored, lock, readerVars>>

WriteData(d) ==
  /\ LET now == Write(items[d], Head(writes[d]))
         last == Len(writes[d]) = 1
     IN /\ Delivering(d, "receive", IF last THEN "accepted" ELSE "receive")
        /\ items' = [items EXCEPT ![d] = now]
        /\ accepted' = IF last THEN [accepted EXCEPT ![d] = Append(@, Reading(now))] ELSE accepted
  /\ writes' = [writes EXCEPT ![d] = Tail(@)]
  /\ UNCHANGED <<payloads, connected, ready, stored, lock, readerVars>>

(* Mutant: the answer of receive() is not looked at. *)
OnDataReceived_Always(d) ==
  /\ \/ Delivering(d, "accepted", "publish")
     \/ Delivering(d, "refused", "publish")
  /\ connected' = connected \cup {d} /\ ready' = ready \cup {d}
  /\ UNCHANGED <<writes, items, payloads, accepted, stored, lock, readerVars>>

(* on_device_data_received(): only an accepted payload is a reading. *)
OnDataReceived(d) ==
  /\ \/ Delivering(d, "accepted", "publish") /\ ready' = ready \cup {d}
     \/ Delivering(d, "refused", "idle") /\ UNCHANGED ready
  /\ connected' = connected \cup {d}
  /\ UNCHANGED <<writes, items, payloads, accepted, stored, lock, readerVars>>

(* update_device() puts the same live object back, once it has the lock. *)
UpdateDevice(d) ==
  /\ Delivering(d, "publish", "store") /\ lock = NoOne
  /\ UNCHANGED <<writes, items, payloads, connected, ready, accepted, stored, lock, readerVars>>

WriteDeviceData(d) ==
  /\ Delivering(d, "store", "idle")
  /\ stored' = [stored EXCEPT ![d] = Append(@, Reading(items[d]))]
  /\ UNCHANGED <<writes, items, payloads, connected, ready, accepted, lock, readerVars>>

---------------------------------------------------------------------------
(* get_devices() on an algorithm's thread: in main(), and each time loop() *)
(* starts, before the first step (_wait_for_required_devices).  At a       *)
(* replay the latter may meet a payload, and the former only once a step   *)
(* has timed out: its barrier, which Lockstep models, otherwise keeps      *)
(* main() and the payloads apart.  Here a copy may begin at any time.      *)

Doing(a, from, to) == doing[a] = from /\ doing' = [doing EXCEPT ![a] = to]

GetDevices(a) ==
  /\ <<"algorithms", a>> \in running /\ Doing(a, "idle", "copy")
  /\ lock = NoOne /\ lock' = a
  /\ snapshots[a] < MaxSnapshots /\ snapshots' = [snapshots EXCEPT ![a] = @ + 1]
  /\ copy' = [copy EXCEPT ![a] = Copying([k \in 1..Len(registry) |-> registry[k].name])]
  /\ snapshot' = [snapshot EXCEPT ![a] = << >>]
  /\ since' = [since EXCEPT ![a] = [d \in DeviceNames |-> Len(accepted[d])]]
  /\ UNCHANGED <<liveVars>>

Copied(a, d, reading) ==
  /\ snapshot' = [snapshot EXCEPT ![a] = [name \in DOMAIN @ \cup {d} |->
                                             IF name = d THEN reading ELSE @[name]]]
  /\ copy' = [copy EXCEPT ![a] = Copying(Tail(copy[a].left))]

(* The dict of a device that replaces its reading never changes again. *)
CopyReplaced(a) ==
  /\ doing[a] = "copy" /\ copy[a].left # << >>
  /\ LET d == Head(copy[a].left) IN
       Device(d).plugin \notin InPlace /\ Copied(a, d, Reading(items[d]))
  /\ UNCHANGED <<liveVars, lock, doing, snapshots, since>>

(* The first turn of the iteration over a dict remembers its size. *)
OpenItems(a) ==
  /\ doing[a] = "copy" /\ copy[a].left # << >> /\ copy[a].next = 0
  /\ LET d == Head(copy[a].left) IN
       /\ Device(d).plugin \in InPlace
       /\ copy' = [copy EXCEPT ![a] = [left |-> @.left, size |-> Len(Live(items[d])),
                                       next |-> 1, got |-> {}]]
  /\ UNCHANGED <<liveVars, lock, doing, snapshot, snapshots, since>>

SizeChanged(a) == Len(Live(items[Head(copy[a].left)])) # copy[a].size

(* The next turn: one item, or the end. *)
CopyItem(a) ==
  /\ doing[a] = "copy" /\ copy[a].next > 0 /\ ~SizeChanged(a)
  /\ LET d == Head(copy[a].left)
         next == {k \in copy[a].next..Len(items[d]) : items[d][k].live}
     IN IF next = {} THEN Copied(a, d, copy[a].got)
        ELSE /\ copy' = [copy EXCEPT ![a] = [left |-> @.left, size |-> @.size, next |-> Min(next) + 1,
                                             got |-> @.got \cup {items[d][Min(next)]}]]
             /\ UNCHANGED snapshot
  /\ UNCHANGED <<liveVars, lock, doing, snapshots, since>>

(* "dictionary changed size during iteration": main() raises, its snapshot *)
(* is lost, and the supervisor restarts the algorithm.                     *)
CopyRaises(a) ==
  /\ doing[a] = "copy" /\ copy[a].next > 0 /\ SizeChanged(a)
  /\ Doing(a, "copy", "idle") /\ lock' = NoOne
  /\ copy' = [copy EXCEPT ![a] = NoCopy] /\ snapshot' = [snapshot EXCEPT ![a] = << >>]
  /\ UNCHANGED <<liveVars, snapshots, since>>

ReleaseDevices(a) ==
  /\ Doing(a, "copy", "idle") /\ copy[a].left = << >> /\ lock' = NoOne
  /\ UNCHANGED <<liveVars, copy, snapshot, snapshots, since>>

Deliver(d) ==
  \/ BeginReceive(d)
  \/ WriteData(d)
  \/ OnDataReceived(d)
  \/ UpdateDevice(d)
  \/ WriteDeviceData(d)

RunMain(a) ==
  \/ GetDevices(a)
  \/ CopyReplaced(a)
  \/ OpenItems(a)
  \/ CopyItem(a)
  \/ CopyRaises(a)
  \/ ReleaseDevices(a)
=============================================================================
