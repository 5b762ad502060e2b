----------------------------- MODULE PollingLink -----------------------------
(***************************************************************************)
(* The connectors that poll: HttpApiConnector, OpenemsConnector (the same  *)
(* loop with another endpoint and another send()) and ModbusTcpConnector.  *)
(*                                                                         *)
(* An HTTP poll is one request on the session.  A Modbus poll is one       *)
(* exchange per declared register, each under the lock it shares with      *)
(* send(), because all of them go over one socket.                         *)
(***************************************************************************)
EXTENDS FieldLink, Integers

CONSTANTS
  Commands,        \* the commands an algorithm may send
  RegisterOptions, \* controller_options of the device they go to
  CloseOnError     \* close_on_error

ASSUME RegistersAssumption == \A d \in Devices : Len(Declared[d].registers) \in Nat

VARIABLES
  due,      \* the devices whose interval has passed
  todo,     \* the rest of this pass: what was due when it took the time
  task,     \* the device being polled, 0 for none
  read,     \* its register being read
  got,      \* a register of this poll was answered
  failed,   \* _failed_devices
  socket    \* the Modbus client's socket is connected

polling == <<due, todo, task, read, got, failed, socket>>
---------------------------------------------------------------------------
(* inject_devices(): what is polled, resolved once. *)

(* An entry counts when it has a name, a known table and an address, and   *)
(* no earlier entry that counts has the name.                              *)
Usable(entry) == entry.name # "" /\ entry.table # "unknown" /\ entry.address >= 0

BuildReads(registers) ==
  {i \in 1..Len(registers) :
     /\ Usable(registers[i])
     /\ \A j \in 1..(i - 1) : ~(Usable(registers[j]) /\ registers[j].name = registers[i].name)}

OpenemsEndpoint(d) == Declared[d].component
HttpEndpoint(d) == Declared[d].endpoint
ResolveEndpoint(d) == IF kind = "openems" THEN OpenemsEndpoint(d) ELSE HttpEndpoint(d)

HttpTasks == {d \in Devices : Declared[d].readable /\ ResolveEndpoint(d)}
ModbusTasks == {d \in Devices : Declared[d].readable /\ BuildReads(Declared[d].registers) # {}}
Tasks == IF kind = "modbus" THEN ModbusTasks ELSE HttpTasks

Reads(d) == Cardinality(BuildReads(Declared[d].registers))

PollInit ==
  /\ due = Tasks /\ todo = {} /\ task = 0 /\ read = 1 /\ got = FALSE
  /\ failed = {} /\ socket = FALSE

---------------------------------------------------------------------------
(* The loop of start(). *)

Polls == kind \in {"http", "openems", "modbus"}
Http == kind \in {"http", "openems"}

(* No host, or nothing to poll: start() returns, and there never is a handle. *)
PollIdle ==
  /\ Polls /\ (Tasks = {} \/ (kind = "modbus" /\ ~configured))
  /\ At(Worker, "out", "ended")
  /\ UNCHANGED <<setting, after, handles, held, locking, connected, delay, restarts, stopping, polling>>

(* Each run makes a session or a client of its own. *)
StartPolling ==
  /\ Polls /\ Tasks # {} /\ (kind = "modbus" => configured)
  /\ At(Worker, "out", "top") /\ MakeHandle
  /\ IF Http THEN Reached(WriteOnly) ELSE UNCHANGED connected
  /\ delay' = 1 /\ socket' = FALSE
  /\ UNCHANGED <<setting, after, held, locking, restarts, stopping, due, todo, task, read, got, failed>>

LeavePolling ==
  /\ Polls /\ stopping /\ Leaving("top", "ended")
  /\ UNCHANGED <<setting, handles, held, locking, connected, delay, restarts, stopping, polling>>

(* now = monotonic(), once for the whole pass. *)
BeginPass ==
  /\ Http /\ ~stopping /\ At(Worker, "top", "pass")
  /\ todo' = due
  /\ UNCHANGED <<setting, after, handles, held, locking, connected, delay, restarts, stopping>>
  /\ UNCHANGED <<due, task, read, got, failed, socket>>

(* _ensure_connected(), all under the lock; the pass follows. *)
EnsureConnected ==
  /\ kind = "modbus" /\ ~stopping /\ lock = NoOne
  /\ At(Worker, "top", "pass")
  /\ socket' = TRUE /\ todo' = due /\ delay' = 1 /\ Reached(WriteOnly)
  /\ UNCHANGED <<setting, after, handles, held, locking, restarts, stopping>>
  /\ UNCHANGED <<due, task, read, got, failed>>

Refused ==
  /\ kind = "modbus" /\ ~stopping /\ lock = NoOne /\ ~socket
  /\ At(Worker, "top", "backoff")
  /\ UNCHANGED <<setting, after, handles, held, locking, connected, delay, restarts, stopping, polling>>

(* Mutant: one device that fails ends the pass for those after it. *)
NextTask_FirstFailureEnds ==
  /\ ~stopping /\ todo # {}
  /\ IF todo \cap failed # {}
     THEN At(Worker, "pass", "sleep") /\ UNCHANGED <<task, read, got>>
     ELSE /\ At(Worker, "pass", IF Http THEN "poll" ELSE "call")
          /\ task' = CHOOSE d \in todo : \A e \in todo : d <= e
          /\ read' = 1 /\ got' = FALSE
  /\ UNCHANGED <<setting, after, handles, held, locking, connected, delay, restarts, stopping>>
  /\ UNCHANGED <<due, todo, failed, socket>>

(* The next device of the pass, in the order of the configuration. *)
NextTask ==
  /\ ~stopping /\ todo # {}
  /\ At(Worker, "pass", IF Http THEN "poll" ELSE "call")
  /\ task' = CHOOSE d \in todo : \A e \in todo : d <= e
  /\ read' = 1 /\ got' = FALSE
  /\ UNCHANGED <<setting, after, handles, held, locking, connected, delay, restarts, stopping>>
  /\ UNCHANGED <<due, todo, failed, socket>>

EndPass ==
  /\ stopping \/ todo = {}
  /\ At(Worker, "pass", "sleep") /\ todo' = {}
  /\ UNCHANGED <<setting, after, handles, held, locking, connected, delay, restarts, stopping>>
  /\ UNCHANGED <<due, task, read, got, failed, socket>>

(* wait_stop(): until the next device is due, or a minute, or a stop. *)
Wake ==
  /\ At(Worker, "sleep", "top")
  /\ UNCHANGED <<setting, after, handles, held, locking, connected, delay, restarts, stopping, polling>>

ComesDue(d) ==
  /\ Polls /\ d \in Tasks \ due /\ task # d
  /\ due' = due \cup {d}
  /\ UNCHANGED <<shared, todo, task, read, got, failed, socket>>

---------------------------------------------------------------------------
(* _poll_device(): how a poll ends, last_poll = monotonic() included. *)

Polled ==
  /\ due' = due \ {task} /\ todo' = todo \ {task} /\ task' = 0
  /\ UNCHANGED <<read, got>>

(* deliver(): a device that raised has recovered nothing. *)
Delivered ==
  /\ failed' \in {failed, failed \ {task}} /\ Reached({task})

NotDelivered ==
  /\ failed' = failed \cup {task} /\ UNCHANGED connected

HttpPoll ==
  /\ At(Worker, "poll", "pass") /\ Polled
  /\ Delivered \/ NotDelivered
  /\ UNCHANGED <<setting, after, handles, held, locking, delay, restarts, stopping, socket>>

(* Anything that is not a requests exception is for the supervisor. *)
HttpRaises ==
  /\ Leaving("poll", "crashed")
  /\ task' = 0 /\ todo' = {}
  /\ UNCHANGED <<setting, handles, held, locking, connected, delay, restarts, stopping>>
  /\ UNCHANGED <<due, read, got, failed, socket>>

---------------------------------------------------------------------------
(* _call(): one exchange on the Modbus socket, by the worker or by send(). *)

BeginCall(t) ==
  /\ kind = "modbus" /\ handle # 0
  /\ At(t, "call", "exchange") /\ Enter(t)
  /\ UNCHANGED <<setting, after, handles, held, connected, delay, restarts, stopping, polling>>

(* A register was answered, with words or with an exception response, which *)
(* leaves the others worth reading.  After the last one the poll is over.   *)
Answered ==
  /\ kind = "modbus" /\ Exit(Worker) /\ socket' = TRUE
  /\ \E words \in BOOLEAN :
       IF read < Reads(task)
       THEN /\ At(Worker, "exchange", "call")
            /\ read' = read + 1 /\ got' = (got \/ words)
            /\ UNCHANGED <<due, todo, task, failed, connected>>
       ELSE /\ At(Worker, "exchange", "pass") /\ Polled
            /\ IF got \/ words THEN Delivered ELSE NotDelivered
  /\ UNCHANGED <<setting, after, handles, held, delay, restarts, stopping>>

(* A transport error: the rest of the device is skipped, and the socket may *)
(* be dropped so that the next pass connects again.                         *)
TransportFailed ==
  /\ kind = "modbus" /\ Exit(Worker) /\ socket' \in BOOLEAN
  /\ At(Worker, "exchange", IF CloseOnError THEN "disconnect" ELSE "pass")
  /\ Polled /\ NotDelivered
  /\ UNCHANGED <<setting, after, handles, held, delay, restarts, stopping>>

(* Anything that is no transport error is for the supervisor; the lock is  *)
(* released on the way.                                                    *)
ModbusRaises ==
  /\ kind = "modbus" /\ Exit(Worker) /\ Leaving("exchange", "crashed")
  /\ task' = 0 /\ todo' = {}
  /\ UNCHANGED <<setting, handles, held, connected, delay, restarts, stopping>>
  /\ UNCHANGED <<due, read, got, failed, socket>>

Disconnect ==
  /\ lock = NoOne /\ At(Worker, "disconnect", "pass") /\ socket' = FALSE
  /\ UNCHANGED <<setting, after, handles, held, locking, connected, delay, restarts, stopping>>
  /\ UNCHANGED <<due, todo, task, read, got, failed>>

(* Mutant: tears the socket down without the lock. *)
CloseClient_Unlocked ==
  /\ kind = "modbus" /\ pc[Worker] = "drop"
  /\ pc' = [pc EXCEPT ![Worker] = after]
  /\ open' = open \ {handle} /\ handle' = 0 /\ socket' = FALSE
  /\ UNCHANGED <<setting, after, made, dying, held, locking, connected, delay, restarts, stopping>>
  /\ UNCHANGED <<due, todo, task, read, got, failed>>

CloseClient ==
  /\ kind = "modbus" /\ lock = NoOne /\ pc[Worker] = "drop"
  /\ pc' = [pc EXCEPT ![Worker] = after]
  /\ open' = open \ {handle} /\ handle' = 0 /\ socket' = FALSE
  /\ UNCHANGED <<setting, after, made, dying, held, locking, connected, delay, restarts, stopping>>
  /\ UNCHANGED <<due, todo, task, read, got, failed>>

---------------------------------------------------------------------------
(* send(), on an algorithm's thread. *)

(* int(round(n / scale)), which rounds a half to the even neighbour. *)
RoundHalfEven(n, scale) ==
  LET whole == n \div scale
      twice == 2 * (n % scale)
  IN  IF twice < scale \/ (twice = scale /\ whole % 2 = 0) THEN whole ELSE whole + 1

NoWord == 65536
Fits(value, signed) == IF signed THEN value \in -32768..32767 ELSE value \in 0..65535

(* The word a register write carries, or NoWord for a command it refuses. *)
RegisterValue(command, options) ==
  LET raw == CASE command.token = "on"  -> options.on
               [] command.token = "off" -> options.off
               [] OTHER -> command.value
      value == RoundHalfEven(raw, options.scale)
  IN  IF command.token # "text" /\ Fits(value, options.signed) THEN value ELSE NoWord

(* float("inf") is a number, and int() of it raises an OverflowError, which *)
(* neither _register_value nor send() catches.                              *)
Raises(command) ==
  /\ RegisterOptions.address >= 0 /\ RegisterOptions.kind = "register"
  /\ command.token = "infinite"

Writes(command) ==
  /\ RegisterOptions.address >= 0
  /\ \/ RegisterOptions.kind = "coil" /\ command.token \in {"on", "off"}
     \/ /\ RegisterOptions.kind = "register" /\ ~Raises(command)
        /\ RegisterValue(command, RegisterOptions) # NoWord

(* A command that is refused, or finds no handle, is dropped: nothing changes. *)
SendModbus(a) ==
  /\ kind = "modbus" /\ \E command \in Commands : Writes(command)
  /\ At(a, "free", "call")
  /\ UNCHANGED <<setting, after, handles, held, locking, connected, delay, restarts, stopping, polling>>

SendRaises(a) ==
  /\ kind = "modbus" /\ \E command \in Commands : Raises(command)
  /\ At(a, "free", "raised")
  /\ UNCHANGED <<setting, after, handles, held, locking, connected, delay, restarts, stopping, polling>>

(* The supervisor restarts the algorithm. *)
AlgorithmRestarts(a) ==
  /\ At(a, "raised", "free")
  /\ UNCHANGED <<setting, after, handles, held, locking, connected, delay, restarts, stopping, polling>>

NotConnected(a) ==
  /\ kind = "modbus" /\ lock = NoOne /\ handle = 0
  /\ At(a, "call", "free")
  /\ UNCHANGED <<setting, after, handles, held, locking, connected, delay, restarts, stopping, polling>>

(* Answered, refused by the meter or lost: the caller only logs it. *)
Written(a) ==
  /\ kind = "modbus" /\ At(a, "exchange", "free") /\ Exit(a) /\ socket' \in BOOLEAN
  /\ UNCHANGED <<setting, after, handles, held, connected, delay, restarts, stopping>>
  /\ UNCHANGED <<due, todo, task, read, got, failed>>

(* _live_session(): the session is read once, and used later. *)
TakeSession(a) ==
  /\ Http /\ handle # 0 /\ At(a, "free", "holding")
  /\ held' = [held EXCEPT ![a] = handle]
  /\ UNCHANGED <<setting, after, handles, locking, connected, delay, restarts, stopping, polling>>

(* Every way the request can end is caught, a session closed meanwhile too. *)
Post(a) ==
  /\ At(a, "holding", "free") /\ held' = [held EXCEPT ![a] = 0]
  /\ UNCHANGED <<setting, after, handles, locking, connected, delay, restarts, stopping, polling>>

---------------------------------------------------------------------------

SendPolling(a) ==
  \/ SendModbus(a) \/ SendRaises(a) \/ AlgorithmRestarts(a) \/ NotConnected(a)
  \/ Written(a) \/ TakeSession(a) \/ Post(a)

PollLoop ==
  \/ PollIdle \/ StartPolling \/ LeavePolling \/ BeginPass \/ EnsureConnected \/ Refused
  \/ NextTask \/ EndPass \/ Wake \/ HttpPoll \/ HttpRaises
  \/ Answered \/ TransportFailed \/ ModbusRaises \/ Disconnect \/ CloseClient

PollNext ==
  \/ PollLoop
  \/ \E t \in Senders[kind] \cup {Worker} : BeginCall(t)
  \/ \E a \in Senders[kind] : SendPolling(a)
  \/ \E d \in Devices : ComesDue(d)
=============================================================================
