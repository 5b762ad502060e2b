------------------------------- MODULE Startup -------------------------------
(***************************************************************************)
(* main.py: the configuration is loaded, every plugin of every axis is     *)
(* constructed, devices are registered and handed to their connectors, and *)
(* only then are the workers started; the run ends with a signal or with   *)
(* its last connector, by way of shutdown().                               *)
(***************************************************************************)
EXTENDS Configuration, FiniteSets

CONSTANTS
  Documents,     \* config.json: per axis, a sequence of entries
  Environments,  \* what the process may find in its environment
  Outcomes       \* per plugin, how loading it may end: "built", "skipped" (no such
                 \* module or class, a raise before __init__), "raised" (out of
                 \* __init__, where an algorithm has joined), "escapes" (BaseException)

EntryFields == {"name", "plugin", "emulates", "connector", "protocol", "declared"}

(* A document lists entries on every axis, and loading the plugin of one    *)
(* ends in one of the ways above.                                          *)
ASSUME DocumentsAssumption ==
  \A given \in Documents : \A axis \in AxisNames :
    /\ given[axis] \in Seq(ToSet(given[axis]))
    /\ \A k \in 1..Len(given[axis]) :
         /\ DOMAIN given[axis][k] = EntryFields
         /\ Outcomes[given[axis][k].plugin] \subseteq {"built", "skipped", "raised", "escapes"}

VARIABLES
  document,      \* the configuration file
  environment,   \* and the environment it is read in
  config,        \* what Config made of the two
  phase,         \* the axis under construction, or where main() is after those
  rest,          \* entries of that axis still to construct, or workers to start
  built,         \* per axis, the entries whose plugin was constructed
  participants,  \* names joined to the replay barrier
  registry,      \* DevicesManager.devices, in insertion order
  wired,         \* device name -> name of the connector it was injected into
  open,          \* the storage backends registered and not closed
  started,       \* workers the supervisor has started: <<axis, name>>
  running,       \* those whose thread has not ended
  asked,         \* those that were asked to stop
  event          \* SHUTDOWN_EVENT

document_ == <<document, environment>>
plant     == <<config, built, registry, wired>>
workers   == <<started, running, asked>>
startupVars == <<document_, plant, phase, rest, participants, open, workers, event>>

Names(entries) == {entries[k].name : k \in 1..Len(entries)}
Built(axis) == built[axis]

StartupInit ==
  /\ document \in Documents /\ environment \in Environments
  /\ config = [axis \in AxisNames |-> << >>] /\ built = config
  /\ phase = "load" /\ rest = << >>
  /\ participants = {} /\ registry = << >> /\ wired = << >>
  /\ open = {} /\ started = {} /\ running = {} /\ asked = {} /\ event = FALSE

---------------------------------------------------------------------------
(* Main.__init__, and the handlers main() installs first. *)

Load ==
  /\ phase = "load"
  /\ config' = Config(document, environment)
  /\ phase' = Axes[1] /\ rest' = config'[Axes[1]]
  /\ UNCHANGED <<document_, built, registry, wired, participants, open, workers, event>>

(* Mutant: a construction that raises leaves what it joined behind. *)
Withdraw_Nothing(before, now) == now

(* _construct: what joined during a construction that raised leaves again. *)
Withdraw(before, now) == now \ (now \ before)

(* One turn of create_classes. *)
Construct ==
  /\ phase \in AxisNames /\ rest # << >>
  /\ LET entry == Head(rest)
         joined == participants \cup (IF phase = "algorithms" THEN {entry.name} ELSE {})
     IN \E outcome \in Outcomes[entry.plugin] :
          /\ built' = IF outcome = "built"
                      THEN [built EXCEPT ![phase] = Append(@, entry)] ELSE built
          /\ participants' = CASE outcome = "built"               -> joined
                               [] outcome \in {"raised", "escapes"} -> Withdraw(participants, joined)
                               [] outcome = "skipped"             -> participants
          /\ IF outcome = "escapes" THEN phase' = "stop" /\ rest' = << >>
             ELSE phase' = phase /\ rest' = Tail(rest)
  /\ UNCHANGED <<document_, config, registry, wired, open, workers, event>>

(* update_device() overwrites a device of the same name in place. *)
Registered(entries) ==
  FoldLeft(LAMBDA devices, d :
             IF \E k \in 1..Len(devices) : devices[k].name = d.name
             THEN [k \in 1..Len(devices) |-> IF devices[k].name = d.name THEN d ELSE devices[k]]
             ELSE Append(devices, d),
           << >>, entries)

(* inject_devices() of every connector that exists, by name. *)
Wiring ==
  LET served == {d \in ToSet(Built("devices")) : d.connector \in Names(Built("connectors"))}
  IN [name \in {d.name : d \in served} |-> (CHOOSE d \in served : d.name = name).connector]

Worker(axis) == [k \in 1..Len(Built(axis)) |-> <<axis, Built(axis)[k].name>>]

StartOrder == Worker("connectors") \o Worker("algorithms") \o Worker("services")

NextAxis(axis) == Axes[(CHOOSE k \in 1..Len(Axes) : Axes[k] = axis) + 1]

(* What main() does with the plugins of an axis it has constructed. *)
FinishAxis ==
  /\ phase \in AxisNames /\ rest = << >>
  /\ registry' = IF phase = "devices" THEN Registered(Built("devices")) ELSE registry
  /\ open' = IF phase = "storage" THEN Names(Built("storage")) ELSE open
  /\ wired' = IF phase = "connectors" THEN Wiring ELSE wired
  /\ IF phase = "services" THEN phase' = "start" /\ rest' = StartOrder
     ELSE phase' = NextAxis(phase) /\ rest' = config[phase']
  /\ UNCHANGED <<document_, config, built, participants, workers, event>>

(* supervise_all(): a worker runs from here on, whatever comes after it. *)
StartWorker ==
  /\ phase = "start"
  /\ IF rest = << >> THEN phase' = "wait" /\ UNCHANGED <<rest, workers>>
     ELSE /\ started' = started \cup {Head(rest)}
          /\ running' = running \cup {Head(rest)}
          /\ rest' = Tail(rest) /\ UNCHANGED <<phase, asked>>
  /\ UNCHANGED <<document_, plant, participants, open, event>>

---------------------------------------------------------------------------
(* A connector at its end, an algorithm that returned, a spent restart     *)
(* budget, or a stop that was heard; an algorithm leaves the barrier.      *)
EndWorker ==
  /\ \E w \in running :
       /\ running' = running \ {w}
       /\ participants' = IF w[1] = "algorithms" THEN participants \ {w[2]} ELSE participants
  /\ UNCHANGED <<document_, plant, phase, rest, open, started, asked, event>>

(* SIGTERM or SIGINT: the handler only sets the event. *)
Signal ==
  /\ phase # "load" /\ ~event /\ event' = TRUE
  /\ UNCHANGED <<document_, plant, phase, rest, participants, open, workers>>

AllConnectorsFinished == \A w \in started : w[1] = "connectors" => w \notin running

LeaveWait ==
  /\ phase = "wait" /\ (event \/ AllConnectorsFinished)
  /\ phase' = "stop"
  /\ UNCHANGED <<document_, plant, rest, participants, open, workers, event>>

(* shutdown(), in main()'s finally: stop_all, a bounded join, close_all. *)
StopAll ==
  /\ phase = "stop"
  /\ asked' = started /\ phase' = "close"
  /\ UNCHANGED <<document_, plant, rest, participants, open, started, running, event>>

(* Mutant: only a run that was started is closed. *)
CloseAll_OfWorkers ==
  /\ phase = "close"
  /\ phase' = "ended" /\ open' = IF started = {} THEN open ELSE {}
  /\ UNCHANGED <<document_, plant, rest, participants, workers, event>>

(* Every thread has ended or the join has timed out: a guard of neither.   *)
CloseAll ==
  /\ phase = "close"
  /\ phase' = "ended" /\ open' = {}
  /\ UNCHANGED <<document_, plant, rest, participants, workers, event>>

Main ==
  \/ Load
  \/ Construct
  \/ FinishAxis
  \/ StartWorker
  \/ LeaveWait
  \/ StopAll
  \/ CloseAll

StartupNext == Main \/ EndWorker \/ Signal

(* Plugins return from their constructors, and main() keeps running. *)
StartupFairness == WF_startupVars(Main)
=============================================================================
