------------------------------ MODULE Storage ------------------------------
(***************************************************************************)
(* storage_manager/ and storage/: the threads of a run write through every *)
(* backend in turn, main() closes the backends under those that did not    *)
(* stop in time, and the process may be killed and run again on the same   *)
(* output directories.                                                     *)
(*                                                                         *)
(* One file stands for the two that a CSV backend keeps: they share its    *)
(* lock and nothing else.  InfluxDB's batching writer is modelled by what  *)
(* the backend relies on: it settles a point, by sending it or by          *)
(* reporting it lost, at any time until it is closed.                      *)
(***************************************************************************)
EXTENDS Integers, Sequences, FiniteSets

CONSTANTS
  Writers,      \* the threads that call StorageManager
  Backends,     \* StorageManager._backends, in the order of config.json
  Csv, Influx,  \* which of them are CsvFileBackend, and InfluxDBBackend
  File,         \* the file a CSV backend writes: that of its output_dir
  Failing,      \* the CSV backends whose disk may refuse
  MaxRows,      \* BOUND: calls made by each thread
  MaxRuns       \* BOUND: processes

Positions == 1..Len(Backends)
Files == {File[c] : c \in Csv}

ASSUME StorageAssumption ==
  /\ Len(Backends) \in Nat \ {0} /\ {Backends[k] : k \in Positions} = Csv \cup Influx
  /\ \A j, k \in Positions : Backends[j] = Backends[k] => j = k
  /\ Csv \cap Influx = {} /\ Failing \subseteq Csv
  /\ MaxRows \in [Writers -> Nat] /\ MaxRuns \in Nat \ {0} /\ "nobody" \notin Writers

(* A line of a file: its header, or the row of a backend for a call. *)
Lines == [from : Csv \cup {"nobody"}, by : Writers \cup {"nobody"}, row : Nat]
Header == [from |-> "nobody", by |-> "nobody", row |-> 0]
Row(c, w, n) == [from |-> c, by |-> w, row |-> n]

VARIABLES
  pc, at, made,  \* where each thread is, at which backend, its calls so far
  disk,          \* what is on disk of each file
  holder,        \* who holds the _lock of a CSV backend
  open, buffer,  \* the CSV backends with a handle, and what it has not flushed
  attr,          \* what an InfluxDB backend holds: no client, one, or a writer too
  disabled, closed,
  batch,         \* the points in its writer
  closing, tail, \* what close() has detached: the same two, outside the lock
  mainPc, closeAt,  \* shutdown() and StorageManager.close_all
  runs,          \* processes started
  cut            \* HISTORY: the calls a kill cut short

threads == <<pc, at, made>>
csv     == <<holder, open, buffer>>
influx  == <<attr, disabled, closed, batch, closing, tail>>
main    == <<mainPc, closeAt>>
process == <<runs, cut>>
vars == <<threads, disk, csv, influx, main, process>>

Init ==
  /\ pc = [w \in Writers |-> "idle"] /\ at = [w \in Writers |-> 1]
  /\ made = [w \in Writers |-> 0] /\ disk = [f \in Files |-> << >>]
  /\ holder = [c \in Csv |-> "nobody"] /\ open = {} /\ buffer = [c \in Csv |-> << >>]
  /\ attr = [i \in Influx |-> "none"] /\ closing = [i \in Influx |-> "none"]
  /\ batch = [i \in Influx |-> {}] /\ tail = [i \in Influx |-> {}]
  /\ disabled = {} /\ closed = {}
  /\ mainPc = "run" /\ closeAt = 1 /\ runs = 1 /\ cut = {}

---------------------------------------------------------------------------
(* StorageManager._fan_out: every backend in turn, whatever one of them raised. *)

Here(w) == Backends[at[w]]
At(w, where) == pc[w] = where
Goto(w, where) == pc' = [pc EXCEPT ![w] = where] /\ UNCHANGED <<at, made>>

Call(w) ==
  /\ At(w, "idle") /\ made[w] < MaxRows[w] /\ mainPc # "off"
  /\ pc' = [pc EXCEPT ![w] = "call"] /\ at' = [at EXCEPT ![w] = 1]
  /\ made' = [made EXCEPT ![w] = @ + 1]
  /\ UNCHANGED <<disk, csv, influx, main, process>>

NextBackend(w) ==
  /\ IF at[w] = Len(Backends)
     THEN pc' = [pc EXCEPT ![w] = "idle"] /\ UNCHANGED at
     ELSE pc' = [pc EXCEPT ![w] = "call"] /\ at' = [at EXCEPT ![w] = @ + 1]
  /\ UNCHANGED made

---------------------------------------------------------------------------
(* CsvFileBackend._append_row, under the backend's lock. *)

Release(c) == holder' = [holder EXCEPT ![c] = "nobody"]

(* Mutant: a file is given its header whenever a handle is opened on it. *)
FirstLines_Always(c) == <<Header>>

(* _writer: the header is decided when the handle is opened, from the size *)
(* on disk; it waits in the handle's buffer for the first row.             *)
FirstLines(c) == IF disk[File[c]] = << >> THEN <<Header>> ELSE << >>

OpenFile(w) ==
  LET c == Here(w)
  IN  /\ At(w, "call") /\ c \in Csv /\ holder[c] = "nobody"
      /\ holder' = [holder EXCEPT ![c] = w] /\ open' = open \cup {c}
      /\ buffer' = IF c \in open THEN buffer ELSE [buffer EXCEPT ![c] = FirstLines(c)]
      /\ Goto(w, "row") /\ UNCHANGED <<disk, influx, main, process>>

(* The directory or the file is refused: no handle is kept. *)
OpenFails(w) ==
  LET c == Here(w)
  IN  /\ At(w, "call") /\ c \in Failing \ open /\ holder[c] = "nobody"
      /\ NextBackend(w) /\ UNCHANGED <<disk, csv, influx, main, process>>

WriteRow(w) ==
  LET c == Here(w)
  IN  /\ At(w, "row")
      /\ buffer' = [buffer EXCEPT ![c] = Append(@, Row(c, w, made[w]))]
      /\ Goto(w, "flush") /\ UNCHANGED <<disk, holder, open, influx, main, process>>

(* Mutant: rows are left to the handle's own buffering. *)
FlushRow_Buffered(w) ==
  LET c == Here(w)
  IN  /\ At(w, "flush") /\ Release(c)
      /\ NextBackend(w) /\ UNCHANGED <<disk, open, buffer, influx, main, process>>

(* A line reaches the disk whole or not at all, here and in Spill. *)
FlushRow(w) ==
  LET c == Here(w)
  IN  /\ At(w, "flush")
      /\ disk' = [disk EXCEPT ![File[c]] = @ \o buffer[c]]
      /\ buffer' = [buffer EXCEPT ![c] = << >>] /\ Release(c)
      /\ NextBackend(w) /\ UNCHANGED <<open, influx, main, process>>

(* Mutant: the lock is released on the way out only when nothing raised. *)
RowFails_KeepsLock(w) ==
  /\ pc[w] \in {"row", "flush"} /\ Here(w) \in Failing
  /\ NextBackend(w) /\ UNCHANGED <<disk, csv, influx, main, process>>

(* A row or a flush that raises: _fan_out logs it and goes on.  What the   *)
(* handle could not flush it keeps.                                        *)
RowFails(w) ==
  /\ pc[w] \in {"row", "flush"} /\ Here(w) \in Failing
  /\ Release(Here(w)) /\ NextBackend(w)
  /\ UNCHANGED <<disk, open, buffer, influx, main, process>>

(* A handle's buffer reaches the disk before its flush when it is full, or *)
(* when the interpreter exits.                                             *)
Spill(c) ==
  /\ buffer[c] # << >>
  /\ disk' = [disk EXCEPT ![File[c]] = @ \o buffer[c]] /\ buffer' = [buffer EXCEPT ![c] = << >>]
  /\ UNCHANGED <<threads, holder, open, influx, main, process>>

CsvNext(w) == OpenFile(w) \/ OpenFails(w) \/ WriteRow(w) \/ FlushRow(w) \/ RowFails(w)

---------------------------------------------------------------------------
(* InfluxDBBackend._enqueue: one section of its lock. *)

(* Mutant: nothing asks whether the backend was closed. *)
Refused_WhenDisabled(i) == i \in disabled

Refused(i) == i \in closed \/ i \in disabled

EnqueueRefused(w) ==
  LET i == Here(w)
  IN  /\ At(w, "call") /\ i \in Influx /\ Refused(i)
      /\ NextBackend(w) /\ UNCHANGED <<disk, csv, influx, main, process>>

(* The client and the writer are built by the first write. *)
Enqueue(w) ==
  LET i == Here(w)
  IN  /\ At(w, "call") /\ i \in Influx /\ ~Refused(i)
      /\ attr' = [attr EXCEPT ![i] = "writer"]
      /\ batch' = [batch EXCEPT ![i] = @ \cup {<<w, made[w]>>}]
      /\ NextBackend(w)
      /\ UNCHANGED <<disk, csv, disabled, closed, closing, tail, main, process>>

(* Either may refuse to be built, which disables the backend for the run;  *)
(* a client that was built before its writer failed is kept.               *)
EnqueueDisables(w) ==
  LET i == Here(w)
  IN  /\ At(w, "call") /\ i \in Influx /\ ~Refused(i) /\ attr[i] = "none"
      /\ \E held \in {"none", "client"} : attr' = [attr EXCEPT ![i] = held]
      /\ disabled' = disabled \cup {i} /\ NextBackend(w)
      /\ UNCHANGED <<disk, csv, closed, batch, closing, tail, main, process>>

InfluxNext(w) == EnqueueRefused(w) \/ Enqueue(w) \/ EnqueueDisables(w)

(* The writer's own thread: a batch is written, or reported lost. *)
SettleBatch(i) ==
  /\ attr[i] = "writer" /\ batch[i] # {} /\ batch' = [batch EXCEPT ![i] = {}]
  /\ UNCHANGED <<threads, disk, csv, attr, disabled, closed, closing, tail, main, process>>

---------------------------------------------------------------------------
(* main(): shutdown. *)

(* stop_all has returned: its grace period is bounded, so that any thread  *)
(* may still be writing.                                                   *)
Shutdown ==
  /\ mainPc = "run" /\ mainPc' = "close" /\ closeAt' = 1
  /\ UNCHANGED <<threads, disk, csv, influx, process>>

Closing == Backends[closeAt]

CloseNext ==
  IF closeAt = Len(Backends)
  THEN mainPc' = "done" /\ UNCHANGED closeAt
  ELSE mainPc' = "close" /\ closeAt' = closeAt + 1

(* CsvFileBackend.close: a write afterwards reopens the file. *)
CloseCsv ==
  /\ mainPc = "close" /\ Closing \in Csv /\ holder[Closing] = "nobody"
  /\ \/ disk' = [disk EXCEPT ![File[Closing]] = @ \o buffer[Closing]]
     \/ Closing \in Failing /\ UNCHANGED disk
  /\ open' = open \ {Closing} /\ buffer' = [buffer EXCEPT ![Closing] = << >>]
  /\ CloseNext /\ UNCHANGED <<threads, holder, influx, process>>

(* InfluxDBBackend.close: latch and detach under the lock ... *)
Detach ==
  /\ mainPc = "close" /\ Closing \in Influx /\ mainPc' = "settle"
  /\ closed' = closed \cup {Closing}
  /\ closing' = [closing EXCEPT ![Closing] = attr[Closing]]
  /\ tail' = [tail EXCEPT ![Closing] = batch[Closing]]
  /\ attr' = [attr EXCEPT ![Closing] = "none"] /\ batch' = [batch EXCEPT ![Closing] = {}]
  /\ UNCHANGED <<threads, disk, csv, disabled, closeAt, process>>

(* ... then settle what is left and drop the connection, outside it. *)
SettleTail ==
  /\ mainPc = "settle"
  /\ IF closing[Closing] = "writer"
     THEN /\ tail' = [tail EXCEPT ![Closing] = {}]
          /\ closing' = [closing EXCEPT ![Closing] = "client"]
     ELSE UNCHANGED <<closing, tail>>
  /\ mainPc' = "disconnect"
  /\ UNCHANGED <<threads, disk, csv, attr, disabled, closed, batch, closeAt, process>>

Disconnect ==
  /\ mainPc = "disconnect" /\ closing' = [closing EXCEPT ![Closing] = "none"] /\ CloseNext
  /\ UNCHANGED <<threads, disk, csv, attr, disabled, closed, batch, tail, process>>

CloseAll == CloseCsv \/ Detach \/ SettleTail \/ Disconnect

(* The process ends, by the return of main() or killed at any moment, and  *)
(* with it what no handle has flushed.  Another run appends to the files.  *)
EndProcess ==
  /\ mainPc # "off" /\ UNCHANGED disk
  /\ cut' = cut \cup {<<w, made[w]>> : w \in {v \in Writers : pc[v] # "idle"}}
  /\ pc' = [w \in Writers |-> "idle"] /\ at' = [w \in Writers |-> 1] /\ UNCHANGED made
  /\ holder' = [c \in Csv |-> "nobody"] /\ open' = {} /\ buffer' = [c \in Csv |-> << >>]
  /\ attr' = [i \in Influx |-> "none"] /\ closing' = [i \in Influx |-> "none"]
  /\ batch' = [i \in Influx |-> {}] /\ tail' = [i \in Influx |-> {}]
  /\ disabled' = {} /\ closed' = {} /\ closeAt' = 1
  /\ IF runs < MaxRuns
     THEN mainPc' = "run" /\ runs' = runs + 1
     ELSE mainPc' = "off" /\ UNCHANGED runs

Next ==
  \/ \E w \in Writers : Call(w) \/ CsvNext(w) \/ InfluxNext(w)
  \/ \E c \in Csv : Spill(c)
  \/ \E i \in Influx : SettleBatch(i)
  \/ Shutdown \/ CloseAll \/ EndProcess

Spec == Init /\ [][Next]_vars

(* main() goes on, and so does a thread that holds a lock. *)
FairSpec ==
  /\ Spec /\ WF_vars(CloseAll)
  /\ \A w \in Writers : WF_vars(WriteRow(w)) /\ WF_vars(FlushRow(w) \/ RowFails(w))

---------------------------------------------------------------------------
(* Properties. *)

Logs   == Seq(Lines)
Points == SUBSET (Writers \X Nat)

(* Every variable stays within its type. *)
TypeOK ==
  /\ pc \in [Writers -> {"idle", "call", "row", "flush"}]
  /\ at \in [Writers -> Positions] /\ made \in [Writers -> Nat]
  /\ disk \in [Files -> Logs] /\ buffer \in [Csv -> Logs]
  /\ holder \in [Csv -> Writers \cup {"nobody"}] /\ open \subseteq Csv
  /\ attr \in [Influx -> {"none", "client", "writer"}]
  /\ closing \in [Influx -> {"none", "client", "writer"}]
  /\ batch \in [Influx -> Points] /\ tail \in [Influx -> Points]
  /\ disabled \subseteq Influx /\ closed \subseteq Influx
  /\ mainPc \in {"run", "close", "settle", "disconnect", "done", "off"}
  /\ closeAt \in Positions /\ runs \in 1..MaxRuns /\ cut \in Points

(* Backend number k is the first of those that write its file. *)
FirstOnFile(k) ==
  \A j \in 1..(k - 1) : Backends[j] \in Csv => File[Backends[j]] # File[Backends[k]]

(* A file begins with its header and has no other, over any number of runs,*)
(* reopenings after close(), and backends on one output_dir.  Nothing      *)
(* orders the backends but the fan-out: no thread reaches the second one   *)
(* before the first has put the header on disk, unless it refused.         *)
HeaderOnce ==
  \A k \in Positions : Backends[k] \in Csv \ Failing /\ FirstOnFile(k) =>
    LET log == disk[File[Backends[k]]]
    IN  \A i \in 1..Len(log) : log[i] = Header <=> i = 1

(* A row whose call has returned is on disk, once, in the order of its     *)
(* thread's calls: through a kill, a shutdown that does not wait for the   *)
(* thread, a reopening, and the failures of the other backends.            *)
NoRowLost ==
  \A c \in Csv, w \in Writers :
    LET log == disk[File[c]]
        Own(k) == log[k].from = c /\ log[k].by = w
    IN  /\ \A j, k \in 1..Len(log) : j < k /\ Own(j) /\ Own(k) => log[j].row < log[k].row
        /\ c \notin Failing =>
             \A n \in 1..made[w] :
               \/ n = made[w] /\ pc[w] # "idle"
               \/ <<w, n>> \in cut
               \/ \E k \in 1..Len(log) : Own(k) /\ log[k].row = n

(* A point InfluxDB's backend accepted is in a writer that will settle it, *)
(* and nothing a straggler does opens a connection that nobody closes.     *)
NothingLeftOpen ==
  \A i \in Influx :
    /\ batch[i] # {} => attr[i] = "writer"
    /\ tail[i] # {} => closing[i] = "writer"
    /\ mainPc = "done" => attr[i] = "none" /\ closing[i] = "none"

(* close_all() returns, whatever the stragglers hold and the disks refuse. *)
CloseAllEnds == mainPc = "close" ~> mainPc \notin {"close", "settle", "disconnect"}
=============================================================================
