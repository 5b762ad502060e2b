------------------------------ MODULE FieldLink ------------------------------
(***************************************************************************)
(* What the HTTP, OpenEMS, Modbus TCP, serial and LoRaWAN connectors have  *)
(* in common: one supervised thread runs start() and owns a handle (the    *)
(* session, the client, the port); send() uses the same handle from the    *)
(* threads of the algorithms; a stop may be requested at any moment.       *)
(*                                                                         *)
(* PollingLink, SerialLink and LorawanLink extend this module with the     *)
(* connectors' own steps, and FieldLinks puts them together.               *)
(***************************************************************************)
EXTENDS Naturals, Sequences, FiniteSets

CONSTANTS
  Worker,        \* the thread that runs start()
  Algorithms,    \* the threads that call send()
  NoOne,         \* nobody holds the lock
  Kinds,         \* the connectors considered, of AllKinds
  Declared,      \* the devices in the order of the configuration, as Devices
  MaxRestarts,   \* the supervisor's restart budget
  MaxBackoff,    \* max_reconnect_backoff_seconds, in units of the first delay
  MaxHandles,    \* BOUND: handles made in one behaviour
  Senders        \* BOUND: the algorithms that send through a connector of each kind

AllKinds == {"http", "openems", "modbus", "serial", "lorawan"}
Threads == Algorithms \cup {Worker}
Devices == 1..Len(Declared)

ASSUME LinkAssumption ==
  /\ Worker \notin Algorithms /\ NoOne \notin Threads
  /\ Kinds \subseteq AllKinds /\ Senders \in [Kinds -> SUBSET Algorithms]
  /\ Len(Declared) \in Nat
  /\ MaxRestarts \in Nat /\ MaxBackoff \in Nat \ {0} /\ MaxHandles \in Nat \ {0}

VARIABLES
  kind,         \* which connector this is
  configured,   \* host, port or pattern are there, so that start() does not idle
  pc, after,    \* where each thread is; where the worker goes once it closed
  handle,       \* _session, _client or _serial: 0 for None, else its number
  made, open,   \* handles made so far, and those not closed for good
  dying,        \* the handle swapped out of the attribute and not yet closed
  held,         \* the handle a send() took and works with
  lock,         \* _lock or _write_lock: its holder
  wire,         \* the threads whose exchange has begun and is not over, in order
  connected,    \* the devices shown as connected
  delay,        \* the next reconnect delay
  restarts,     \* restarts the supervisor spent
  stopping      \* the stop event

handles == <<handle, made, open, dying>>
locking == <<lock, wire>>
setting == <<kind, configured>>
shared == <<setting, pc, after, handles, held, locking, connected, delay, restarts, stopping>>

WriteOnly == {d \in Devices : ~Declared[d].readable}

LinkInit ==
  /\ kind \in Kinds /\ configured \in BOOLEAN
  /\ pc = [t \in Threads |-> IF t = Worker THEN "out" ELSE "free"]
  /\ after = "ended"
  /\ handle = 0 /\ made = 0 /\ open = {} /\ dying = 0
  /\ held = [a \in Algorithms |-> 0]
  /\ lock = NoOne /\ wire = << >>
  /\ connected = {} /\ delay = 1 /\ restarts = 0 /\ stopping = FALSE

At(t, from, to) == pc[t] = from /\ pc' = [pc EXCEPT ![t] = to]

(* The worker closes its handle before it goes on. *)
Leaving(from, to) == At(Worker, from, "drop") /\ after' = to

---------------------------------------------------------------------------
(* The handle. *)

MakeHandle ==
  /\ made < MaxHandles
  /\ made' = made + 1 /\ handle' = made' /\ open' = open \cup {made'}
  /\ UNCHANGED dying

(* Swapped out before it is closed: nobody can take a handle that is being *)
(* closed.                                                                 *)
Drop ==
  /\ kind # "modbus" /\ At(Worker, "drop", "close")
  /\ dying' = handle /\ handle' = 0
  /\ UNCHANGED <<setting, after, made, open, held, locking, connected, delay, restarts, stopping>>

Close ==
  /\ pc[Worker] = "close" /\ pc' = [pc EXCEPT ![Worker] = after]
  /\ open' = open \ {dying} /\ dying' = 0
  /\ UNCHANGED <<setting, after, handle, made, held, locking, connected, delay, restarts, stopping>>

(* on_connected(), and every payload that arrives: the device is reachable. *)
Reached(D) == connected' = connected \cup D

---------------------------------------------------------------------------
(* The lock of a link, and an exchange over its wire. *)

(* Mutant: two threads on one socket. *)
Enter_Unlocked(t) ==
  /\ lock' = t /\ wire' = Append(wire, t)

Enter(t) ==
  /\ lock = NoOne
  /\ lock' = t /\ wire' = Append(wire, t)

Exit(t) ==
  /\ pc[t] = "exchange"
  /\ lock' = NoOne /\ wire' = Tail(wire)

---------------------------------------------------------------------------
(* What surrounds the connector. *)

(* wait_stop(backoff): cut short by a stop, it leaves the loop. *)
Backoff ==
  /\ \/ stopping /\ Leaving("backoff", "ended") /\ UNCHANGED delay
     \/ /\ ~stopping /\ At(Worker, "backoff", "top") /\ UNCHANGED after
        /\ delay' = IF 2 * delay < MaxBackoff THEN 2 * delay ELSE MaxBackoff
  /\ UNCHANGED <<setting, handles, held, locking, connected, restarts, stopping>>

(* SupervisedWorker._run after start() raised. *)
Supervise ==
  /\ IF stopping \/ restarts >= MaxRestarts
     THEN At(Worker, "crashed", "ended") /\ UNCHANGED restarts
     ELSE At(Worker, "crashed", "out") /\ restarts' = restarts + 1
  /\ UNCHANGED <<setting, after, handles, held, locking, connected, delay, stopping>>

RequestStop ==
  /\ ~stopping /\ stopping' = TRUE
  /\ UNCHANGED <<setting, pc, after, handles, held, locking, connected, delay, restarts>>

SharedNext == Drop \/ Close \/ Backoff \/ Supervise \/ RequestStop
=============================================================================
