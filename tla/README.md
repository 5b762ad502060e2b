# Formal models of Motrix Edge

Motrix Edge is an energy management system: connectors receive readings from
devices, algorithms decide on commands, storage and a REST API record and show
both. A run can also be a *backtest*, in which a replay connector plays a file
of readings and everything else is the production code. Each connector,
algorithm and service runs on a thread of its own, under a supervisor that
restarts it after a crash.

This directory holds TLA+ modules of the parts whose correctness depends on how
those threads interleave, the TLC configurations that check them on small
instances, and TLAPS proofs of the properties that matter most, for every value
of the constants. Paths below are relative to the repository (`src/`).

## 1. The system

| Part | State | Operations | Interacts through |
|---|---|---|---|
| Replay barrier `simulation/clock.py` | simulated flag, event time, step time, generation, one marker per participant | `reset`, `set_event_time`, `publish_step`, `wait_for_completion`, `join`, `leave`, `wait_for_step`, `ack` | one Condition; called by the replay, the algorithms, the supervisor |
| Replay connector `connectors/pseudo.py` | position in the file | load, dispatch a row, commit a timestep, wait, loop, reset | clock, devices, stop event |
| Algorithm loop `api/algorithm.py` | current step, "stepped" across restarts | join, gate on required devices, step or live cadence, ack, leave, retire, `control_device` | clock, registry, storage funnel |
| Supervisor `supervisor/supervisor.py` | restarts, crashes, clean, finished, stop event per worker | run, restart after backoff, retire, `request_stop`, `stop_all` | every worker's thread |
| Configuration `config/` | the document | put in the environment, drop duplicate names, resolve protocols | read once by main |
| Main `main.py` | shutdown event, what it built on each axis | construct, withdraw, register, inject, supervise, liveness loop, shutdown, close storage | every part |
| Decision history `api/decisions.py` | ring of records, total, epoch | `record`, `page`, `decision_timestamp` | one lock; clock |
| Storage funnel `storage_manager/` | list of backends | fan out a reading or a decision, close, read | backends, history |
| CSV, InfluxDB `storage/` | open files; client, writer, latches | append, close, read | one lock each |
| MQTT `connectors/mqtt.py` | client, a bounded queue and a thread per device | connect, receive, enqueue, dispatch, drop oldest, stop | paho's network loop, dispatch threads, the stopping thread |
| LoRaWAN `connectors/lorawan.py` (an MQTT connector) | what it was told of each node; the time of the last downlink per device | route an uplink, resolve, throttle and publish a downlink | the same; the algorithms' threads; the network server's queue |
| HTTP `connectors/http_api.py`, `openems.py` | session, poll schedule | inject devices, poll what is due, send | own thread, the algorithms' threads |
| Modbus TCP `connectors/modbus_tcp.py` | client and its lock, schedule, backoff | connect, poll several registers, disconnect, send | one socket under one lock; own thread, the algorithms' threads |
| LoRa serial `connectors/lora.py` | port, write lock, backoff | open, initialise, read lines, reconnect, send | one port; own thread, the algorithms' threads |
| Home Assistant `connectors/home_assistant.py` | socket, ids, pending commands, missed pongs | connect, handshake, subscribe, receive, reconnect, send, stop | own thread, the algorithms' threads, `stop()` |
| REST API `services/rest_api.py` | server, its lock | start, stop, `/health`, `/devices`, `/workers`, `/decisions` | supervisor's workers, clock, history, registry |
| Registry `devices_manager/`, `api/device.py` | live devices by name | update, copy, control | one lock; connectors write without it, algorithms copy under it |
| Device classes `devices/` | the latest reading, a dict | `receive` of a payload | called by connectors, copied by the registry |

What makes them hard: the barrier must hold through crashes, restarts and stops;
every wait must be interruptible; the funnel, the history and the backends each
take their own lock and read the clock for themselves; a queue is shared by a
producer, a consumer and a stopping thread; a handle is used by an algorithm
while its owner reconnects or stops; a device is copied while it is rewritten;
`/health` reads other threads' state field by field. What would make each part correct is stated as the
properties of section 4, hazard by hazard in `PROJECT.json`.

## 2. The modules

    Backtest            what a backtest promises: rounds
       ^  refined by                ^  its rounds drive
    Lockstep -> SimulationClock     DecisionFeed -> DecisionLog
    LockstepProofs                  DecisionFeedProofs

    FieldLinks -> PollingLink -------------> FieldLink      (-> is EXTENDS)
               -> SerialLink  -> LoraLink -> FieldLink
               -> LorawanLink -> LoraLink -> LoraDevice
    FieldLinksProofs

    Plant -> DeviceRegistry -> Startup -> Configuration
    PlantProofs             -> DeviceReadings

    MqttDispatch, MqttProofs     RestApi, RestApiProofs     Storage, StorageProofs
    HomeAssistantSession, HomeAssistantProofs               (each stands alone)

`MC*` modules and their `.cfg` files are the instances TLC checks. A definition
whose comment begins with "Mutant" is a plausible bug in the definition after
it; it belongs to no specification, and shows that a property notices the bug.

### SimulationClock, Lockstep, Backtest

`SimulationClock` has the fields of the class as variables (`acked` is `-1` for
a name that is not in the dictionary) and one operator per method. Every method
holds the Condition for its whole body, and a wait re-takes it before it
answers, so each operator is atomic; a waiting method is the predicate under
which it returns.

`Lockstep` composes it with the threads. `pc` says where each worker's thread
is, and a step of a thread is what it does between two points where another
thread can get in: one lock section, one read of a stop event, one payload
handed to a device. So the replay's `dispatch` (event time, then `deliver`),
`commit` (`publish_step`, when the row ends its timestep) and `await`
(`wait_for_completion`) are three actions; the algorithm's `wait_for_step`,
its separate `is_simulated()`, `main()` and the `ack` in its `finally` are four.
The supervisor's `crashed`, `backoff`, `retire` and `finish` are positions of
the same `pc`. `stop_all` sets each worker's own event and its Stoppable event
in two steps, worker by worker in start order. A file row is a record of its
timestamp, its device and whether `receive()` accepts it; `data[d]` is the row
a device accepted last. Durations are abstracted: a deadline or a sleep may end
at any time, and `StepTimeout` says only whether there is a deadline.

`Backtest` is the abstract specification: a sequence of rounds, where the
devices change and the next round opens only while every algorithm still
taking part has processed the current one. `ImplementsBacktest` states that
Lockstep implements it under the mapping round = generation, view = data,
member = participants, busy = the algorithms inside `main()`, handled = the
step each was last given.

### DecisionLog, DecisionFeed

`DecisionLog` is the ring with the cursor arithmetic of `page()`: clamped
cursor and limit, `missed`, `has_more`, `next_cursor`. `DecisionFeed` follows a
decision out of `control_device`: the funnel stamps it and records it, then
stamps it again and appends it for each backend, one step for each reading of
the clock and one for each lock section. The times at which `main()` may run
under a replay are the rounds of `Backtest`, instantiated here, so this module
rests on what Lockstep is shown to implement; `ClearClock` is the replay's
reset, which a stop can bring under a running `main()`. A client polls
`/decisions` with any of the configured limits, passes `next_cursor` back,
seeks with `limit=0`, and starts over when it sees another epoch; `Restart`
replaces the process.

### MqttDispatch

The connector's thread (`net`), a dispatch thread and queue per device, and
`stop()` on the supervisor's thread. A payload is the number of its arrival.
Put, drop-oldest, second put, get, the stop check, `receive()` and the
publication are separate actions, as are the event, the lookup of the client,
`disconnect()` with the snapshot, each `get_nowait` of a drain and each
sentinel. `generation` tells the dispatcher a snapshot holds from the one that
replaced it. `loop_forever()` returns after its client was disconnected, and
raises when `on_message` does (a payload that is not UTF-8), after which the
supervisor runs `start()` again in the same object. paho's own reconnection,
which changes none of this state, is left out.

### RestApi

`start()` and `stop()` of the server around the server lock, as the target of
one supervised worker among others, with `SupervisedWorker._run` in full; and
one `GET /health`: the snapshot of the list, then for each worker
`is_finished()` and, as its own step, `completed_cleanly` or `is_alive()`, then
the crash counters, then the verdict. The targets of the other workers return,
raise or exit at any time.

### Storage

The fan-out of `StorageManager` by any number of threads over CSV and InfluxDB
backends in the order of the configuration, and `close_all()` by main. A CSV
append is three actions inside its lock: the handle is opened and the header
decided (`OpenFile`), the row goes into the handle's buffer (`WriteRow`), the
buffer is flushed (`FlushRow`). `Spill` is a buffer that reaches the disk
earlier, which Python allows at any time. One file stands for the two a backend
keeps, which share only its lock. A backend in `Failing` may refuse the
directory, the row or the flush. InfluxDB's `_enqueue` is one lock section,
`close()` a locked `Detach` and two steps outside the lock; the client's batching
writer is external and settles points when it likes. `EndProcess` is a kill as
well as a normal end: what no handle has flushed is lost, and the next process
appends to the same files. `read()`, which nothing in the program calls, and the
flattening of a reading into fields are left out.

### HomeAssistantSession

The connector's thread from connect to backoff, the algorithms' threads inside
`send()`, and `stop()`. `_send_command` is two actions with `_send_lock` held in
between, the id and the write, either of which may find the socket broken;
`send()` files its command in a third, after the lock. `Publish` puts the socket
where `send()` finds it before the handshake, as the code does, and `Abort`
reads it without the lock. Home Assistant is external: two FIFO channels, a
phase, the newest id it saw, and one entity whose state is the number of its
changes, standing for all of them. It may refuse a token or a first frame that
is none, go away, or fall silent on an open socket. One entity is enough because
the code treats each by itself. Left out: configuration errors that return
before a session, frames that do not parse, a `get_states` that fails, and the
resolution of a command to a service.

### FieldLink, PollingLink, SerialLink, LorawanLink, FieldLinks

The five connectors that own a handle (a session, a client, a port) which
`send()` uses from the algorithms' threads. `FieldLink` has what they share: the
handle with its number, the lock, the reconnect backoff, the supervisor's
restart, a stop. `handle` is the attribute and `open` the handles not yet closed
for good; `Drop` swaps the attribute to None and `Close` closes what it held, two
actions, because `send()` may read the attribute in between. `wire` has the
threads whose exchange on the connection has begun and not ended.

`PollingLink` is HTTP, OpenEMS and Modbus TCP: a pass takes the devices that
were due when it began, a poll of Modbus is one exchange per usable register,
each under the client's lock, and `send()` is several steps on a thread of its
own. `SerialLink` is the LoRa radio: initialisation lines, the reader, routing by
address and port. `LorawanLink` is what LoRaWAN adds to an MQTT connector: routing
by topic, the throttle of a downlink, whose clock is read before the lock, and
the server's queue, which hands out one downlink per uplink. Its network loop
and dispatch queues are MqttDispatch's. `LoraDevice` is the device class behind
both: field specifications, ports, slices, scale, and which fields an uplink
carries over. `FieldLinks` chooses one kind at the start. Time is a deadline that
may pass at any moment, but for the throttle, which compares two readings of a
counter; `Senders` says which algorithms send through which kind.

### Configuration, Startup, DeviceReadings, DeviceRegistry, Plant

`Configuration` is what `Config.__init__` makes of a document: `${VAR}` and
`${VAR:-default}`, the removal of later entries of a name, and the protocol a
device hears from its connector, a replay that stands in for a transport
included. A text is a sequence of words and references. `Startup` is `main()`:
each plugin of each axis is built, skipped, raises out of its constructor (and is
withdrawn from the barrier if it had joined) or brings the process down; then
registration, injection, the start of the workers, a signal at any point, and
`shutdown()` step by step. `DeviceReadings` is `receive()` of every device class
as the writes it makes to `self.data`, none for a payload it refuses.
`DeviceRegistry` has the connectors' threads in `deliver()`, and the algorithms'
in `get_devices()`, whose deepcopy takes one turn of the dict's iteration at a
time: the interpreter may switch threads in between, and only `get_devices()`
takes the lock. A copy may begin at any time. At a replay the code is stricter:
its barrier, which `Lockstep` models, keeps `main()` and the payloads apart, but for
a step that times out and for `_wait_for_required_devices`
(`api/algorithm.py:216`), which copies outside the barrier. So the module has more
behaviours than a replay, and what holds in it holds at one; the run that
fails has a live broker, where nothing keeps the two apart.
`Plant` is the program from the first line of `main()` to the
last with the devices live in between.

## 3. The runs

| Run | Instance | Question |
|---|---|---|
| `lockstep_crash` | 2 algorithms, one behind a readiness gate, 5 rows in 3 timesteps (one rejected, one for an unknown device), paced, 1 restart each, `main()` returns, raises or exits, loading may raise, no step timeout, a signal at any point | is no timestep lost, repeated or seen half-updated, are the rounds of Backtest implemented, and does the run end? |
| `lockstep_overrun` | a finite step timeout, 2 timesteps looped twice and paced, an unlimited gate, algorithms under no fairness at all, a signal at any point | does the replay complete, and is no step processed twice or backwards? |
| `lockstep_no_file` | a file that does not load, beside a live connector | violation: the algorithms never run |
| `decisions` | 1 algorithm with 3 decisions per process over 2 rounds, ring of 2, 2 backends of which the first may raise, a client with pages of 1 or of everything from the first record, 1 tick of the wall clock, a restart | is no decision lost, does it carry one stamp, does a polling client account for every one of them, and catch up? |
| `mqtt_flow` | 1 device, queue of 2, 4 payloads, a dispatcher that dies, a loop that raises, a stop | is the newest reading kept, in order, is a dead dispatcher replaced, and does a stop end everything? |
| `field_links` | each of 5 kinds, 3 devices (several registers and ports; one; write-only), 2 handles, 1 restart, backoff of 2 steps, 1 command per algorithm, of 5 sorts, 2 uplinks of 5 sorts, 3 instants, a stop | does an exchange meet another's, is a closed handle handed out or one left open, is every device polled, what does a node's reading hold, and does a stop end? |
| `plant` | 7 documents over all five axes, 2 payloads in all, 1 snapshot per algorithm, each way a plugin may fail to load, a signal at any point | what is built, wired, published, stored and copied, and is everything stopped and closed at the end? |
| `snapshot_torn` | a Shelly plug on a live broker, tripped and switched on, and an algorithm that copies it | violation: a copy has the status of one reading and the overpower mark of the one before |
| `rest_health` | server and one connector, 2 restarts each, 2 requests, failing binds, a shutdown | does a verdict hide or invent a failure, and does a stop reach the server wherever it is? |
| `storage_files` | 2 threads with 2 calls and 1, two CSV backends on one directory of which the second may refuse, InfluxDB between them, a kill or an end, one rerun | is every returned row on disk under one header, is anything left open, does `close_all` end? |
| `ha_session` | 1 algorithm with a command, 2 sessions, 2 changes of the entity, 1 missed pong allowed, refusal, drop, silence and stop at any point | do ids reach the wire in order, is no change lost, is silence noticed, and does a stop end? |
| `ha_handshake` | 1 session, 1 command | violation: a command is written before the token |

Why the bounds are enough for what they are asked. Lockstep's algorithms
interact only through the barrier, so two show every pairing of one that
processes with one that crashes, leaves or lags; three timesteps give a step
before, at and after a crash; one restart gives both a restart and a spent
budget, and two passes the wrap-around of a looping file. A ring of two with
three decisions evicts while a page is truncated, and a restart leaves the client
with a cursor of the other process; two writers at once are `storage_files`'
question, and the proofs' of both modules. A queue of two is the smallest
that orders two payloads, and four payloads overflow it twice. In `storage_files`
one thread may be in each CSV backend while main closes either, the second call
of a thread comes after a close, and one rerun meets a file with any prefix of
what the first run wrote. In `field_links` a second handle begins with whatever
the first left behind, with a command that still holds the first; two uplinks
make one field newer than another, and three instants put a downlink inside
an interval and one outside. Two payloads let a copy lie between two readings of
one device, or of two. In `ha_session` the connector's pings are a second writer
beside the algorithm, and the second session begins with whatever the first left
behind. The proofs of section 5 need none of these bounds.

**Deadlock** is checked in the Lockstep runs, where `Terminated` is the only
state in which nothing happens, and in `decisions`, where a client can
always ask again. The other runs say `CHECK_DEADLOCK FALSE`: their bounds stop
the environment, and liveness is stated as a property instead.

**Fairness.** Weak fairness of a thread says that a thread which can go on does:
the operating system schedules it, a sleep, deadline or backoff ends, a call
into a device, broker or port answers. It is never assumed that a signal, a
payload, a request or a crash comes, nor which way `main()` ends.
- In `lockstep_overrun` the algorithms have no fairness, since a finite step
  timeout must survive one that hangs.
- `decisions` assumes only that the client goes on polling.
- `rest_health`: main, the server's thread and its worker go on.
- `storage_files`: main goes on closing and a thread that holds a lock goes on to
  release it, which needs the disk to answer or refuse.
- `ha_session`: the connector's thread goes on, `stop()` reaches the socket, and a
  thread that holds the send lock writes or fails, since the socket has a timeout.
- `field_links`: the worker and whoever holds a lock go on. A lock is fought for
  by threads that ask again and again, so what a thread does once it has it is
  strongly fair: Python's lock is handed to a waiting thread sooner or later. The
  same is said of a gateway, which accepts a connection that is tried often
  enough. Failing polls and lines are not assumed to stop.
- `plant`: plugins return from their constructors, and `main()` keeps running.

**What the violation runs show** is listed under `findings`, each with the line
of documentation it contradicts:
- a replay that cannot load its file never resets the clock, and starves the
  algorithms of a run that another connector keeps alive;
- a copy of a device whose class changes its dict in place may mix two readings:
  a plug that tripped and is switched on again is copied between the two writes of
  that payload (`shelly_plug.py:78-79`), on and still overpower, which is neither
  a reading it accepted nor the one it is about to accept. Where the dict
  changes its size instead, the copy raises (`CopyRaises`);
- a command sent while a Home Assistant session is being opened is the first
  frame on its socket, and a server that refuses it ends the connector.

Two things the models show that contradict no documentation: `/health` may call
a worker that finishes between its two reads "lost" for one answer, and the
LoRaWAN throttle drops the newer of two commands, not the older.

## 4. The properties

*Lockstep.* `SeesOwnTimestep` (inside `main()` every device is exactly as the
timestep being processed left it), `ParticipantUntilRetired`,
`NoWallClockAfterStep`, `EveryStepOnce`, `StepsIncrease`, and `ImplementsBacktest`;
for liveness `RunEnds` (with or without a signal) and `ReplayCompletes`.
`LiveCadenceOtherwise` is the one that fails. Those that speak of lockstep are
stated for `Strict`, the unlimited step timeout: with a finite one the code
itself gives the guarantee up and logs it.

*Decisions.* `FeedAccounts` (start + received + reported missed = cursor, in
order and without duplicates), `FeedFaithful`, `CatchesUp`, `NoDecisionLost`,
`SameStampInReplay`.

*MQTT.* `NewestKept` (the newest payload that `on_message` had for a device,
whether or not a put took it), `ReadingsMoveForward`, `DeviceNotSilenced`, `StopEnds`.

*Field connectors.* `OwnReply` (a thread completes the exchange it began),
`HandsOutOpen`, `NothingLeftOpen`, `FieldsAreNewest` (each field of a LoRa node is
what the newest uplink of its port said, or absent), `DownlinksApart`,
`EachDevicePolled`, `StopEnds`.

*Plant.* `BarrierIsTheBuilt` (once a thread runs, the barrier waits for the
algorithms that were built and for no other name), `WiredAsConfigured`,
`SnapshotIsAReading` (of the classes that replace their dict),
`StoredIsTheReading`, `RunEndsClosed`; `NoRacingSnapshot`, of every class and with
the reading under way counted as one, fails.

*REST.* `FailureIsReported`, `DownHasCrashed`, `StopReachesServer`.

*Storage.* `HeaderOnce`, `NoRowLost`, `NothingLeftOpen`, `CloseAllEnds`.
`HeaderOnce` on a shared directory rests on the fan-out alone: no thread reaches
the second backend before the first has flushed its header, so it is stated for
files whose first backend does not refuse; if that one refuses, both can find an
empty file and each write a header.

*Home Assistant.* `IdsIncrease`, `NoChangeLost` (once the snapshot was taken, the
newest of what the device shows and what is on its way is the entity's state),
`SilenceNoticed`, `StopEnds`; `IdsOnlyInCommandPhase` is the one that fails.

The type invariants, and `NoRunAhead`, `StampStable`, `CommitAfterAll`, `LogWindow`
and `DeadIsFinished`, are steps or consequences of the proofs and are proved
without a run of their own. `PROJECT.json` pairs each property of each
passing run with a mutant that breaks it.

## 5. The proofs

Each `*Proofs` module proves its theorems for every value of the constants that
satisfies the named assumptions of the modules it extends (`ConfigAssumption`,
`FeedAssumption`, `CapacityAssumption`, `DispatchAssumption`, `RestAssumption`,
`StorageAssumption`, `SessionAssumption`, `LinkAssumption`, `RegistersAssumption`,
`SerialAssumption`, `FieldMapsAssumption`, `ThrottleAssumption`,
`DocumentsAssumption`). TLC evaluates these in the runs. Any other hypothesis is
in the statement of the theorem.

**LockstepProofs.** The argument with an unlimited step timeout:

1. `TypeCorrect`: types, and every cursor inside what it indexes.
2. `ParticipationCorrect`, for every step timeout: a worker's `pc` says whether
   its name is in the barrier.
3. `Inductive`, the invariant `IInv`. `NoRunAhead` alone is not inductive: a
   commit keeps it only if nobody is inside `main()`, which follows from nobody
   being *pending*, which must therefore be tied to `pc` and to `step`.
   `Owing` does that (an algorithm owes at most the newest step, and inside
   `main()` owes exactly that one), and `Holding` says that outside its wait
   the replay is quiet, unless it is being stopped and will not dispatch again.
4. From it: `NoRunAheadHolds`, `StampStableHolds`, `EveryStepOnceHolds`,
   `CommitAfterAllHolds`, and `Refinement`: every step of a strict Lockstep is
   a step or a stutter of Backtest.
5. `SeesOwnTimestepHolds`, the promise of the barrier in terms of the file. Counting
   the rows that end a timestep (`EndsCount`, `EndsMonotone`) gives a step's number
   back its row (`EndOfIs`). Where the replay is in the file says what generation it is
   (`Counted`) and what each device shows (`Shows`), with any timeout; while a step is
   owed, exactly whole timesteps have been handed on (`Complete`), without one.

With any step timeout, `Remembers` (an algorithm that was given a step has
`stepped` set or has finished) gives `NoWallClockAfterStepHolds`, and `Settled`
(outside `main()` a participant has acknowledged what it was given) gives
`StepsIncreaseHolds`. `CadenceInv` (the clock is simulated, with a step, whenever the
replay waits) and `ParticipationCorrect` give `AwaitedCanComeHolds`: whomever the
replay waits for has a step to take and is not on the wall clock. That is what
`RunEnds` and `ReplayCompletes` rest on in safety.

**DecisionFeedProofs** needs `PositiveLimits` as well, without which its theorems
would be false: `page()` clamps a negative limit to zero, which is the seek probe,
and a client that takes that page for an ordinary one skips decisions in silence.
`FeedInductive` proves `IInv`; `LogWindowHolds`, `FeedAccountsHolds` and
`FeedFaithfulHolds` follow. The records a page skips are a prefix of the ring
because `LogWindow` makes `seq` contiguous (`OlderCount`, `PageFacts`); what
eviction removes is then exactly what `missed` adds. The invariant also needs
`seen <= epoch`: a client never follows a process that is still to come.
`SameStampInReplayHolds` rests on the rounds: nothing is written outside `main()`,
and no round opens under it. `NoDecisionLostHolds` says that the history and each
backend hold, or have counted, whatever has passed them on its way through the
funnel.

**RestApiProofs.** `RestTypeCorrect` carries the restart budget: each crash is
followed by a restart or is the last one (`Budget`), which also needs that main()
starts no worker twice (`Unstarted`). `DownHasCrashedHolds` needs that a worker on
its way out that is not marked clean has crashed (`OnTheWayOut`), and that the
handler between its two reads holds a worker that is finished for good
(`CleanReadIsFinished`). `FailureIsReportedHolds` follows what the handler has
noted: the snapshot lists every worker that had failed by then (`Listing`), a
failure lasts (`Lasting`), and the notes of the pass agree with both (`DownNoted`,
`DamageNoted`). `StopIsHeardHolds` follows `stop_all()` worker by worker (`StopInv`): a
`Server` object that is published under a stop is flagged already or is about to be,
by `stop()` or by `start()` itself, whichever came second.

**HomeAssistantProofs.** `SessionTypeCorrect` goes by groups of variables
(`Typed`), of which `Filing` and the bound of `missed` where the loop waits are
what the types alone do not carry. `IdsIncreaseHolds` needs that a thread with an
id that is not yet written holds the lock (`OwnsLock`), and that its id is newer
than everything on the wire and than what the server saw (`Newest`): an id is
taken when nobody holds the lock, so everything older is written or lost with its
socket. `NoChangeLostHolds` follows one session: one token per socket
(`Greeted`), results in the order of the ids (`Resulted`), the one `get_states`
behind the subscription (`Asked`), and nothing of an earlier socket left
(`Forgotten`).

**MqttProofs.** `ReadingsMoveForwardHolds` and `NewestKeptHolds` are both about one
line of payloads, from the network to the device, in the order they arrived (`Lane`,
`Behind`): until a stop nobody drains the queue, and a put that follows a drop
finds room, since the connector's thread is the only producer.
`DispatchTypeCorrect` comes first. `NobodyLeftWaitingHolds` is about the stop (`WakeInv`):
a dispatch thread that would find its queue empty still has somebody to wake it,
`stop()` before its snapshot, a releaser with the dispatcher in its own, or `on_message`;
when all of these are through, no thread is in front of an empty queue.

**StorageProofs.** `StorageTypeCorrect` proves types together with who holds which
lock. `NothingLeftOpenHolds` needs that a closed backend never builds a client
again (`Wired`) and that `close_all()` has settled what it detached before it went on
(`Swept`).
`NoRowLostHolds` needs that a buffer holds rows of its own backend only (`Foreign`),
that a thread's rows keep their order (`InOrder`) and where the row of a call is
at each place of the append (`Kept`). `HeaderOnceHolds` rests on `HeaderInv`: while the
file is empty, its first backend has the header in its handle and no thread has
gone past that backend.

**FieldLinksProofs** proves, for every kind of connector, that where the threads
are says who has the lock and whether there is a handle (`LinkInductive`);
`OwnReplyHolds`, `HandsOutOpenHolds` and `NothingLeftOpenHolds`
follow. `DownlinksApartHolds` has an invariant of its own: the time a thread
compares with, once it has the throttle's lock, is the last one anybody noted.
`FieldsAreNewestHolds` carries the newest accepted uplink of each field in its
invariant (`ReadingInv`), as an existence: an uplink that is accepted is the newest
for what it carries and changes nothing else, and an uplink that is refused
changes nothing. `FieldLinksInductive` adds what a pass (`PassInv`), a session
(`SettingInv`), the radio (`RadioInv`) and the downlinks (`DownlinkInv`) keep; the types
follow (`FieldLinksTypeCorrect`), and that a pass asks only for what is its own
(`AsksForItsOwnHolds`). `WordIsTheSetpoint` is about the arithmetic of a register
write, for any whole scale: the word is the setpoint over the scale to within half a
unit or nothing is written, and a value that was read goes back as the word it was.

**PlantProofs** proves `StoredIsTheReadingHolds` device by device: storage has all
the readings the device accepted but the one whose delivery is under way, and
that one is what the device still shows (`Stored`). `SnapshotIsAReadingHolds` rests
on `CopyInv`: a device whose class replaces its dict is written once per accepted
payload and shows the newest (`Whole`), the field-by-field copy is only ever of the
other classes, and nothing is live before `main()` has started a thread
(`Unstarted`), so that no device is renamed or dropped under a copy.

Configuration and registry are folds over lists. `FoldSteps` turns such a fold into
a run: a function from the length of a prefix to what was made of it, each value one
step from the one before. `Induction` is a set of numbers, instantiated by the set of
prefixes for which a claim holds, and comes from the least number of a set
(`Least`). So `UniqueByNameKeeps`, `RegisteredAreAll` and
`ConfigDocumented` hold of every document. On them stands `StartInv`, the invariant of
`main()`: what was built of each axis comes from the configuration, each name once
(`Building`); the registry is the devices that were built, and the wiring theirs
(`Assembled`); the workers started, the ones still to start and the barrier agree
(`Starting`). `WiredAsConfiguredHolds` and `BarrierIsTheBuiltHolds` follow, and with
`ClosingInv`, which follows the backends, `OpenWhileRunningHolds`: the state that
`RunEndsClosed` ends in is the only one in which the run is over.

Model-checked only: the liveness properties, which are outside TLAPS's reach here.
What they rest on in safety, that nobody waits for what cannot come, is proved for
four of the components: `AwaitedCanComeHolds`, `NobodyLeftWaitingHolds`,
`StopIsHeardHolds`, and for the shutdown `OpenWhileRunningHolds`.

## 6. Not modelled

- *Sequential conversions.* Decoding of floats and text in payloads, CSV rows and
  InfluxDB fields, response rendering of `/devices` and `/workers`, and logging
  are kept as accept, refuse or raise. The schema of the configuration, the
  coercion of options and the version check decide only whether `main()` goes on.
- *Storage.* A line is written whole. A kill between two writes of a row longer
  than the handle's buffer, or a disk that fills in mid-line
  (`csv_file.py:107-108`), may leave a torn last line, to which the next row is
  appended.
- *Configuration.* A connector without a name, which `config/config.py:158` meets
  with a KeyError; the order of a dictionary after it was resized.
- *Threads.* With both timeouts null, `api/algorithm.py:228` may wait for a device
  that first reports in a later timestep, which the replay then never reaches: the
  settings are documented as unlimited waits, and no instance combines them.
  paho's own reconnection and its network thread's buffers change nothing the
  dispatchers see. The LoRaWAN network loop and queues are MqttDispatch's. A
  `BaseException` under the LoRa reader leaves its port to the garbage collector.
- *Home Assistant.* A `get_states` that is refused, unreadable frames, and the
  services a command resolves to.
- *Metering.* A pass of `devices/modbus_meter.py` that reads some registers and not
  others may under-report a total (line 315): a matter of arithmetic, not of state.
- *No state of the program.* `examples/generate.py`, `api/conformance.py`,
  `api/testing.py`, and `read()` of the storage backends, which nothing calls.
