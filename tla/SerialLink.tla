----------------------------- MODULE SerialLink -----------------------------
(***************************************************************************)
(* The LoRa radio on a serial port: LoRaConnector.  The worker opens the   *)
(* port, configures the module and reads lines; it reconnects by itself.   *)
(* send() writes on the same port, under a lock that only writers take:    *)
(* the port may be closed under a writer, which raises in the writer.      *)
(***************************************************************************)
EXTENDS LoraLink

CONSTANT InitCommands   \* how many init_commands the dialect has

ASSUME SerialAssumption == InitCommands \in Nat

VARIABLE line           \* the next init command

serial == <<line, readings>>

SerialInit == line = 1

---------------------------------------------------------------------------
(* inject_devices() and _route(): "" and 0 stand for what is not declared. *)

(* The address a frame is taken to come from: its own field or, in a dialect *)
(* without one, the leading bytes of its payload.                            *)
Candidate(frame) == IF frame.address # "" THEN NormaliseEui(frame.address) ELSE frame.head

Claims(d, frame) ==
  /\ Declared[d].readable
  /\ Declared[d].address # "" => Candidate(frame) = NormaliseEui(Declared[d].address)
  /\ Declared[d].port # 0 => frame.port = Declared[d].port

Route(frame) == {d \in Devices : Claims(d, frame)}

---------------------------------------------------------------------------
(* start(). *)

(* No port, no pattern, or nobody to read for. *)
SerialIdle ==
  /\ kind = "serial" /\ (~configured \/ WriteOnly = Devices)
  /\ At(Worker, "out", "ended")
  /\ UNCHANGED <<setting, after, handles, held, locking, connected, delay, restarts, stopping, serial>>

StartSerial ==
  /\ kind = "serial" /\ configured /\ WriteOnly # Devices
  /\ At(Worker, "out", "top") /\ delay' = 1
  /\ UNCHANGED <<setting, after, handles, held, locking, connected, restarts, stopping, serial>>

LeaveSerial ==
  /\ kind = "serial" /\ stopping /\ Leaving("top", "ended")
  /\ UNCHANGED <<setting, handles, held, locking, connected, delay, restarts, stopping, serial>>

OpenPort ==
  /\ kind = "serial" /\ ~stopping /\ At(Worker, "top", "init")
  /\ MakeHandle /\ line' = 1
  /\ UNCHANGED <<setting, after, held, locking, connected, delay, restarts, stopping, readings>>

OpenFails ==
  /\ kind = "serial" /\ ~stopping /\ Leaving("top", "backoff")
  /\ UNCHANGED <<setting, handles, held, locking, connected, delay, restarts, stopping, serial>>

(* _write_line() of the init commands. *)
WriteInit ==
  /\ line <= InitCommands /\ At(Worker, "init", "exchange") /\ Enter(Worker)
  /\ UNCHANGED <<setting, after, handles, held, connected, delay, restarts, stopping, serial>>

InitWritten ==
  /\ kind = "serial" /\ Exit(Worker)
  /\ \/ At(Worker, "exchange", "init") /\ UNCHANGED after
     \/ Leaving("exchange", "backoff")
  /\ line' = line + 1
  /\ UNCHANGED <<setting, handles, held, connected, delay, restarts, stopping, readings>>

Opened ==
  /\ line > InitCommands /\ At(Worker, "init", "reading")
  /\ Reached(WriteOnly) /\ delay' = 1
  /\ UNCHANGED <<setting, after, handles, held, locking, restarts, stopping, serial>>

(* A line that matches and whose payload decodes, dispatched to every device *)
(* that claims it.  A raw radio has no frame counter.  A line that was being *)
(* read when the stop came is still dispatched, and is the last.             *)
Hear(frame) ==
  /\ kind = "serial" /\ frame.encoded
  /\ At(Worker, "reading", IF stopping THEN "top" ELSE "reading")
  /\ DeliverUplink(frame, Route(frame), 0)
  /\ UNCHANGED <<setting, after, handles, held, locking, delay, restarts, stopping, line>>

(* Mutant: without a read timeout, a stop is seen once a line has come. *)
StopReading_NoTimeout ==
  /\ kind = "serial" /\ stopping /\ count > 0 /\ At(Worker, "reading", "top")
  /\ UNCHANGED <<setting, after, handles, held, locking, connected, delay, restarts, stopping, serial>>

StopReading ==
  /\ kind = "serial" /\ stopping /\ At(Worker, "reading", "top")
  /\ UNCHANGED <<setting, after, handles, held, locking, connected, delay, restarts, stopping, serial>>

(* Mutant: the port that failed is not closed before the backoff. *)
ReadFails_KeepsPort ==
  /\ kind = "serial" /\ At(Worker, "reading", "backoff") /\ UNCHANGED after
  /\ UNCHANGED <<setting, handles, held, locking, connected, delay, restarts, stopping, serial>>

ReadFails ==
  /\ kind = "serial" /\ Leaving("reading", "backoff")
  /\ UNCHANGED <<setting, handles, held, locking, connected, delay, restarts, stopping, serial>>

---------------------------------------------------------------------------
(* send(): the port is read once for the guard and again by _write_line(). *)

SendSerial(a) ==
  /\ kind = "serial" /\ handle # 0 /\ At(a, "free", "line")
  /\ UNCHANGED <<setting, after, handles, held, locking, connected, delay, restarts, stopping, serial>>

(* Closed in between: _write_line() returns, and send() logs the command as *)
(* queued.                                                                  *)
WriteSkipped(a) ==
  /\ handle = 0 /\ At(a, "line", "free")
  /\ UNCHANGED <<setting, after, handles, held, locking, connected, delay, restarts, stopping, serial>>

TakePort(a) ==
  /\ handle # 0 /\ At(a, "line", "port")
  /\ held' = [held EXCEPT ![a] = handle]
  /\ UNCHANGED <<setting, after, handles, locking, connected, delay, restarts, stopping, serial>>

WriteLine(a) ==
  /\ At(a, "port", "exchange") /\ Enter(a)
  /\ UNCHANGED <<setting, after, handles, held, connected, delay, restarts, stopping, serial>>

(* Written, or raised by a port that was closed or unplugged, and caught. *)
LineWritten(a) ==
  /\ kind = "serial" /\ At(a, "exchange", "free") /\ Exit(a)
  /\ held' = [held EXCEPT ![a] = 0]
  /\ UNCHANGED <<setting, after, handles, connected, delay, restarts, stopping, serial>>

---------------------------------------------------------------------------

SerialLoop ==
  \/ SerialIdle \/ StartSerial \/ LeaveSerial \/ OpenPort \/ OpenFails \/ WriteInit
  \/ InitWritten \/ Opened \/ StopReading

SendOnPort(a) ==
  SendSerial(a) \/ WriteSkipped(a) \/ TakePort(a) \/ WriteLine(a) \/ LineWritten(a)

SerialNext ==
  \/ SerialLoop \/ ReadFails
  \/ \E frame \in Uplinks : Hear(frame)
  \/ \E a \in Senders[kind] : SendOnPort(a)
=============================================================================
