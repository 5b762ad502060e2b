---------------------------- MODULE StorageProofs ----------------------------
(***************************************************************************)
(* Theorems about Storage, for any threads, any backends in any order on   *)
(* any files, any disks that refuse, any number of calls and of runs.      *)
(***************************************************************************)
EXTENDS Storage, TLAPS

(* Facts about the configuration that the proofs cite. *)
LEMMA Config ==
  /\ Len(Backends) \in Nat /\ Len(Backends) > 0 /\ 1 \in Positions
  /\ \A k \in Positions : Backends[k] \in Csv \cup Influx
  /\ \A b \in Csv \cup Influx : \E k \in Positions : Backends[k] = b
  /\ \A j, k \in Positions : Backends[j] = Backends[k] => j = k
  /\ Csv \cap Influx = {} /\ Failing \subseteq Csv /\ "nobody" \notin Writers
  /\ \A c \in Csv : File[c] \in Files
BY StorageAssumption DEF Positions, Files

---------------------------------------------------------------------------
(* Lines of a file. *)

LEMMA LineFacts ==
  /\ Header \in Lines /\ << >> \in Logs /\ <<Header>> \in Logs
  /\ \A c \in Csv, w \in Writers, n \in Nat : Row(c, w, n) \in Lines
<1>1. Header \in Lines
  BY DEF Header, Lines
<1>2. << >> \in Logs /\ <<Header>> \in Logs
  BY <1>1 DEF Logs
<1> QED BY <1>1, <1>2 DEF Row, Lines

LEMMA AppendedLine ==
  ASSUME NEW q \in Logs, NEW e \in Lines
  PROVE  /\ Append(q, e) \in Logs
         /\ Len(q) \in Nat /\ Len(Append(q, e)) = Len(q) + 1
         /\ \A k \in 1..Len(q) : Append(q, e)[k] = q[k]
         /\ Append(q, e)[Len(q) + 1] = e
<1>1. q \in Seq(Lines)
  BY DEF Logs
<1> HIDE DEF Lines
<1> QED BY <1>1 DEF Logs

LEMMA Joined ==
  ASSUME NEW p \in Logs, NEW q \in Logs
  PROVE  /\ p \o q \in Logs
         /\ Len(p) \in Nat /\ Len(q) \in Nat /\ Len(p \o q) = Len(p) + Len(q)
         /\ \A k \in 1..Len(p) : (p \o q)[k] = p[k]
         /\ \A k \in 1..Len(q) : (p \o q)[Len(p) + k] = q[k]
         /\ \A k \in 1..Len(p \o q) : k \in 1..Len(p) \/ \E j \in 1..Len(q) : k = Len(p) + j
<1> HIDE DEF Lines
<1>1. p \in Seq(Lines) /\ q \in Seq(Lines)
  BY DEF Logs
<1>2. /\ p \o q \in Seq(Lines)
      /\ Len(p) \in Nat /\ Len(q) \in Nat /\ Len(p \o q) = Len(p) + Len(q)
      /\ \A k \in 1..(Len(p) + Len(q)) : (p \o q)[k] = IF k <= Len(p) THEN p[k] ELSE q[k - Len(p)]
  BY <1>1
<1>3. \A k \in 1..Len(p) : (p \o q)[k] = p[k]
  BY <1>2
<1>4. ASSUME NEW k \in 1..Len(q) PROVE (p \o q)[Len(p) + k] = q[k]
  <2>1. Len(p) + k \in 1..(Len(p) + Len(q)) /\ ~(Len(p) + k <= Len(p)) /\ Len(p) + k - Len(p) = k
    BY <1>2
  <2> QED BY <1>2, <2>1
<1>5. ASSUME NEW k \in 1..Len(p \o q), k \notin 1..Len(p)
      PROVE  \E j \in 1..Len(q) : k = Len(p) + j
  <2>1. k - Len(p) \in 1..Len(q) /\ k = Len(p) + (k - Len(p))
    BY <1>2, <1>5
  <2> QED BY <2>1
<1> QED BY <1>2, <1>3, <1>4, <1>5 DEF Logs

---------------------------------------------------------------------------
(* Types, one part of the state at a time. *)

ThreadTyped ==
  /\ pc \in [Writers -> {"idle", "call", "row", "flush"}]
  /\ at \in [Writers -> Positions] /\ made \in [Writers -> Nat]

CsvTyped ==
  /\ disk \in [Files -> Logs] /\ buffer \in [Csv -> Logs]
  /\ holder \in [Csv -> Writers \cup {"nobody"}] /\ open \subseteq Csv

InfluxTyped ==
  /\ attr \in [Influx -> {"none", "client", "writer"}]
  /\ closing \in [Influx -> {"none", "client", "writer"}]
  /\ batch \in [Influx -> Points] /\ tail \in [Influx -> Points]
  /\ disabled \subseteq Influx /\ closed \subseteq Influx

MainTyped ==
  /\ mainPc \in {"run", "close", "settle", "disconnect", "done", "off"}
  /\ closeAt \in Positions /\ runs \in 1..MaxRuns /\ cut \in Points

(* The lock of a CSV backend is held by the thread that writes to it, and   *)
(* close() works on the backend of its kind.                                *)
Locking ==
  /\ \A w \in Writers : pc[w] \in {"row", "flush"} =>
       Here(w) \in Csv /\ holder[Here(w)] = w /\ Here(w) \in open
  /\ mainPc \in {"settle", "disconnect"} => Closing \in Influx

Typed == ThreadTyped /\ CsvTyped /\ InfluxTyped /\ MainTyped /\ Locking

LEMMA InitTyped == Init => Typed
<1> SUFFICES ASSUME Init PROVE Typed
  OBVIOUS
<1>1. ThreadTyped /\ MainTyped /\ Locking
  BY Config, StorageAssumption DEF Init, ThreadTyped, MainTyped, Locking, Points
<1>2. CsvTyped
  BY LineFacts DEF Init, CsvTyped
<1>3. InfluxTyped
  BY DEF Init, InfluxTyped, Points
<1> QED BY <1>1, <1>2, <1>3 DEF Typed

(* What going on to the next backend does to the threads. *)
LEMMA NextBackendFacts ==
  ASSUME ThreadTyped, NEW w \in Writers, NextBackend(w)
  PROVE  /\ ThreadTyped' /\ made' = made
         /\ \A v \in Writers \ {w} : pc'[v] = pc[v] /\ at'[v] = at[v]
         /\ \/ pc'[w] = "idle" /\ at'[w] = at[w] /\ at[w] = Len(Backends)
            \/ pc'[w] = "call" /\ at'[w] = at[w] + 1 /\ at[w] < Len(Backends)
<1> USE DEF ThreadTyped
<1>1. CASE at[w] = Len(Backends)
  BY <1>1 DEF NextBackend
<1>2. CASE at[w] # Len(Backends)
  <2>1. at[w] + 1 \in Positions /\ at[w] < Len(Backends)
    BY <1>2, Config DEF Positions
  <2> QED BY <1>2, <2>1 DEF NextBackend
<1> QED BY <1>1, <1>2

(* What a step inside the lock does to the threads. *)
LEMMA GotoFacts ==
  ASSUME ThreadTyped, NEW w \in Writers, NEW where \in {"row", "flush"}, Goto(w, where)
  PROVE  /\ ThreadTyped' /\ made' = made /\ at' = at
         /\ pc'[w] = where /\ \A v \in Writers \ {w} : pc'[v] = pc[v]
BY DEF ThreadTyped, Goto

(* Each kind of step, with what it leaves alone. *)
LEMMA CallTyped ==
  ASSUME Typed, NEW w \in Writers, Call(w)
  PROVE  Typed'
<1>1. ThreadTyped'
  BY Config DEF Call, Typed, ThreadTyped
<1>2. CsvTyped' /\ InfluxTyped' /\ MainTyped'
  BY DEF Call, Typed, CsvTyped, InfluxTyped, MainTyped, csv, influx, main, process
<1>3. Locking'
  BY DEF Call, Typed, ThreadTyped, Locking, Here, Closing, csv, main
<1> QED BY <1>1, <1>2, <1>3 DEF Typed

LEMMA CsvTypedStep ==
  ASSUME Typed, NEW w \in Writers, CsvNext(w)
  PROVE  Typed'
<1> USE DEF Typed
<1>1. InfluxTyped' /\ MainTyped'
  BY DEF CsvNext, OpenFile, OpenFails, WriteRow, FlushRow, RowFails, InfluxTyped, MainTyped,
         csv, influx, main, process
<1>2. mainPc' = mainPc /\ Closing' = Closing
  BY DEF CsvNext, OpenFile, OpenFails, WriteRow, FlushRow, RowFails, main, Closing
<1>3. CASE OpenFile(w)
  <2>1. ThreadTyped' /\ at' = at /\ pc'[w] = "row" /\ \A v \in Writers \ {w} : pc'[v] = pc[v]
    BY <1>3, GotoFacts DEF OpenFile
  <2>2. CsvTyped'
    <3>1. FirstLines(Here(w)) \in Logs
      BY LineFacts DEF FirstLines
    <3> QED BY <1>3, <3>1 DEF OpenFile, CsvTyped
  <2>3. Locking'
    BY <1>2, <1>3, <2>1, Config DEF OpenFile, Locking, Here, CsvTyped
  <2> QED BY <1>1, <2>1, <2>2, <2>3
<1>4. CASE WriteRow(w)
  <2>1. ThreadTyped' /\ at' = at /\ pc'[w] = "flush" /\ \A v \in Writers \ {w} : pc'[v] = pc[v]
    BY <1>4, GotoFacts DEF WriteRow
  <2>2. CsvTyped'
    <3>1. Here(w) \in Csv /\ Row(Here(w), w, made[w]) \in Lines
      BY <1>4, LineFacts DEF WriteRow, Locking, ThreadTyped, At
    <3>2. Append(buffer[Here(w)], Row(Here(w), w, made[w])) \in Logs
      BY <3>1, AppendedLine DEF CsvTyped
    <3> QED BY <1>4, <3>2 DEF WriteRow, CsvTyped
  <2>3. Locking'
    BY <1>2, <1>4, <2>1 DEF WriteRow, Locking, Here, At
  <2> QED BY <1>1, <2>1, <2>2, <2>3
<1>5. CASE FlushRow(w) \/ RowFails(w)
  <2>1. /\ ThreadTyped' /\ pc'[w] \in {"idle", "call"}
        /\ \A v \in Writers \ {w} : pc'[v] = pc[v] /\ at'[v] = at[v]
    BY <1>5, NextBackendFacts DEF FlushRow, RowFails
  <2>2. /\ Here(w) \in Csv /\ holder[Here(w)] = w /\ UNCHANGED open
        /\ holder' = [holder EXCEPT ![Here(w)] = "nobody"]
    BY <1>5 DEF FlushRow, RowFails, Release, Locking, At
  <2>3. CsvTyped'
    <3>1. disk[File[Here(w)]] \o buffer[Here(w)] \in Logs
      BY <2>2, Config, Joined DEF CsvTyped
    <3>2. CASE FlushRow(w)
      BY <2>2, <3>1, <3>2, LineFacts DEF FlushRow, CsvTyped
    <3>3. CASE RowFails(w)
      BY <2>2, <3>3 DEF RowFails, CsvTyped
    <3> QED BY <1>5, <3>2, <3>3
  <2>4. Locking'
    BY <1>2, <2>1, <2>2 DEF Locking, Here, CsvTyped
  <2> QED BY <1>1, <2>1, <2>3, <2>4
<1>6. CASE OpenFails(w)
  <2>1. /\ ThreadTyped' /\ pc'[w] \in {"idle", "call"} /\ UNCHANGED <<disk, buffer, holder, open>>
        /\ \A v \in Writers \ {w} : pc'[v] = pc[v] /\ at'[v] = at[v]
    BY <1>6, NextBackendFacts DEF OpenFails, csv
  <2> QED BY <1>1, <1>2, <2>1 DEF Locking, Here, CsvTyped
<1> QED BY <1>3, <1>4, <1>5, <1>6 DEF CsvNext

LEMMA InfluxTypedStep ==
  ASSUME Typed, NEW w \in Writers, InfluxNext(w)
  PROVE  Typed'
<1> USE DEF Typed
<1>1. /\ UNCHANGED <<disk, holder, open, buffer, mainPc, closeAt, runs, cut>>
      /\ Here(w) \in Influx /\ NextBackend(w) /\ UNCHANGED <<closing, tail, closed>>
  BY DEF InfluxNext, EnqueueRefused, Enqueue, EnqueueDisables, csv, influx, main, process
<1>2. /\ ThreadTyped' /\ pc'[w] \in {"idle", "call"}
      /\ \A v \in Writers \ {w} : pc'[v] = pc[v] /\ at'[v] = at[v]
  BY <1>1, NextBackendFacts
<1>3. CsvTyped' /\ MainTyped'
  BY <1>1 DEF CsvTyped, MainTyped
<1>4. InfluxTyped'
  <2>1. CASE EnqueueRefused(w)
    BY <2>1 DEF EnqueueRefused, InfluxTyped, influx
  <2>2. CASE Enqueue(w)
    <3>1. batch[Here(w)] \cup {<<w, made[w]>>} \in Points
      BY <1>1 DEF Points, InfluxTyped, ThreadTyped
    <3> QED BY <2>2, <3>1 DEF Enqueue, InfluxTyped
  <2>3. CASE EnqueueDisables(w)
    BY <1>1, <2>3 DEF EnqueueDisables, InfluxTyped
  <2> QED BY <2>1, <2>2, <2>3 DEF InfluxNext
<1>5. Locking'
  BY <1>1, <1>2 DEF Locking, Here, Closing
<1> QED BY <1>2, <1>3, <1>4, <1>5

LEMMA OtherTypedStep ==
  ASSUME Typed,
         (\E c \in Csv : Spill(c)) \/ (\E i \in Influx : SettleBatch(i)) \/ Shutdown \/ EndProcess
  PROVE  Typed'
<1> USE DEF Typed
<1>1. ASSUME NEW c \in Csv, Spill(c) PROVE Typed'
  <2>1. disk[File[c]] \o buffer[c] \in Logs
    BY Config, Joined DEF CsvTyped
  <2>2. CsvTyped'
    BY <1>1, <2>1, LineFacts DEF Spill, CsvTyped
  <2> QED BY <1>1, <2>2
          DEF Spill, ThreadTyped, InfluxTyped, MainTyped, Locking, Here, Closing,
              threads, influx, main, process
<1>2. ASSUME NEW i \in Influx, SettleBatch(i) PROVE Typed'
  <2>1. {} \in Points
    BY DEF Points
  <2>2. InfluxTyped'
    BY <1>2, <2>1 DEF SettleBatch, InfluxTyped
  <2> QED BY <1>2, <2>2
          DEF SettleBatch, ThreadTyped, CsvTyped, MainTyped, Locking, Here, Closing,
              threads, csv, main, process
<1>3. CASE Shutdown
  BY <1>3, Config DEF Shutdown, ThreadTyped, CsvTyped, InfluxTyped, MainTyped, Locking, Here, Closing,
                      threads, csv, influx, process
<1>4. CASE EndProcess
  <2>1. ThreadTyped' /\ Locking'
    BY <1>4, Config DEF EndProcess, ThreadTyped, Locking
  <2>2. CsvTyped'
    BY <1>4, LineFacts DEF EndProcess, CsvTyped
  <2>3. InfluxTyped'
    BY <1>4 DEF EndProcess, InfluxTyped, Points
  <2>4. MainTyped'
    <3>1. cut' \in Points
      BY <1>4 DEF EndProcess, MainTyped, ThreadTyped, Points
    <3> QED BY <1>4, <3>1, Config, StorageAssumption DEF EndProcess, MainTyped
  <2> QED BY <2>1, <2>2, <2>3, <2>4
<1> QED BY <1>1, <1>2, <1>3, <1>4

LEMMA CloseTypedStep ==
  ASSUME Typed, CloseAll
  PROVE  Typed'
<1> USE DEF Typed
<1>1. ThreadTyped' /\ UNCHANGED <<pc, at, holder, runs, cut>>
  BY DEF CloseAll, CloseCsv, Detach, SettleTail, Disconnect, ThreadTyped, threads, csv, process
<1>2. ASSUME CloseNext
      PROVE  mainPc' \in {"done", "close"} /\ closeAt' \in Positions
  BY <1>2, Config DEF CloseNext, MainTyped, Positions
<1>3. CASE CloseCsv
  <2>1. Closing \in Csv /\ holder[Closing] = "nobody" /\ open' = open \ {Closing} /\ CloseNext
    BY <1>3 DEF CloseCsv
  <2>2. disk[File[Closing]] \o buffer[Closing] \in Logs
    BY <2>1, Config, Joined DEF CsvTyped
  <2>3. CsvTyped'
    BY <1>1, <1>3, <2>1, <2>2, LineFacts DEF CloseCsv, CsvTyped
  <2>4. Locking' /\ MainTyped'
    BY <1>1, <1>2, <2>1, Config DEF Locking, Here, MainTyped
  <2>5. InfluxTyped'
    BY <1>3 DEF CloseCsv, InfluxTyped, influx
  <2> QED BY <1>1, <2>3, <2>4, <2>5
<1>4. CASE Detach
  <2>1. {} \in Points
    BY DEF Points
  <2>2. InfluxTyped'
    BY <1>4, <2>1 DEF Detach, InfluxTyped
  <2>3. CsvTyped' /\ MainTyped' /\ Locking'
    BY <1>1, <1>4 DEF Detach, CsvTyped, MainTyped, Locking, Here, Closing, csv
  <2> QED BY <1>1, <2>2, <2>3
<1>5. CASE SettleTail
  <2>1. {} \in Points
    BY DEF Points
  <2>2. InfluxTyped'
    BY <1>5, <2>1 DEF SettleTail, InfluxTyped
  <2>3. CsvTyped' /\ MainTyped' /\ Locking'
    BY <1>1, <1>5 DEF SettleTail, CsvTyped, MainTyped, Locking, Here, Closing, csv
  <2> QED BY <1>1, <2>2, <2>3
<1>6. CASE Disconnect
  <2>1. InfluxTyped'
    BY <1>6 DEF Disconnect, InfluxTyped
  <2>2. CsvTyped' /\ MainTyped' /\ Locking'
    BY <1>1, <1>2, <1>6 DEF Disconnect, CsvTyped, MainTyped, Locking, Here, csv
  <2> QED BY <1>1, <2>1, <2>2
<1> QED BY <1>3, <1>4, <1>5, <1>6 DEF CloseAll

LEMMA NextTyped == Typed /\ [Next]_vars => Typed'
<1> SUFFICES ASSUME Typed, [Next]_vars PROVE Typed'
  OBVIOUS
<1>1. CASE UNCHANGED vars
  BY <1>1 DEF Typed, ThreadTyped, CsvTyped, InfluxTyped, MainTyped, Locking, Here, Closing,
              vars, threads, csv, influx, main, process
<1> QED
  BY <1>1, CallTyped, CsvTypedStep, InfluxTypedStep, OtherTypedStep, CloseTypedStep DEF Next

(* Every variable keeps its type, and the lock of a CSV backend is held by *)
(* the one thread that writes to it, over failures, closes and kills.      *)
THEOREM StorageTypeCorrect == Spec => [](TypeOK /\ Locking)
<1>1. Spec => []Typed
  BY InitTyped, NextTyped, PTL DEF Spec
<1>2. Typed => TypeOK /\ Locking
  BY DEF Typed, TypeOK, ThreadTyped, CsvTyped, InfluxTyped, MainTyped
<1> QED BY <1>1, <1>2, PTL

---------------------------------------------------------------------------
(* InfluxDB: what is detached, settled and never built again. *)

(* Points are in a writer, and a backend that was closed has no client. *)
Wired ==
  \A i \in Influx :
    /\ batch[i] # {} => attr[i] = "writer"
    /\ tail[i] # {} => closing[i] = "writer"
    /\ i \in closed => attr[i] = "none"

(* Which backends close_all() has been through, and which it is at. *)
Swept ==
  /\ \A i \in Influx : closing[i] # "none" => mainPc \in {"settle", "disconnect"} /\ i = Closing
  /\ mainPc = "disconnect" => tail[Closing] = {}
  /\ mainPc \in {"settle", "disconnect"} => Closing \in closed
  /\ mainPc \in {"close", "settle", "disconnect"} =>
       \A k \in 1..(closeAt - 1) : Backends[k] \in Influx => Backends[k] \in closed
  /\ mainPc = "done" => Influx \subseteq closed

LEMMA InfluxInit == Init => Wired /\ Swept
BY DEF Init, Wired, Swept

(* A write that is refused, accepted, or disables the backend. *)
LEMMA InfluxWrite ==
  ASSUME Typed, Wired, Swept, NEW w \in Writers, InfluxNext(w)
  PROVE  Wired' /\ Swept'
<1>1. UNCHANGED <<mainPc, closeAt, closed, closing, tail>> /\ Here(w) \in Influx
  BY DEF InfluxNext, EnqueueRefused, Enqueue, EnqueueDisables, influx, main
<1>2. Swept'
  BY <1>1 DEF Swept, Closing
<1>3. Wired'
  <2>1. CASE EnqueueRefused(w)
    BY <2>1 DEF EnqueueRefused, Wired, influx
  <2>2. CASE Enqueue(w)
    BY <1>1, <2>2 DEF Enqueue, Refused, Wired, Typed, InfluxTyped
  <2>3. CASE EnqueueDisables(w)
    BY <1>1, <2>3 DEF EnqueueDisables, Refused, Wired, Typed, InfluxTyped
  <2> QED BY <2>1, <2>2, <2>3 DEF InfluxNext
<1> QED BY <1>2, <1>3

(* close_all() goes on to the next backend, or is done with all of them. *)
LEMMA GoesOn ==
  ASSUME Typed, CloseNext, closed' = closed,
         \A k \in 1..closeAt : Backends[k] \in Influx => Backends[k] \in closed
  PROVE  /\ mainPc' \in {"done", "close"}
         /\ mainPc' = "close" =>
              \A k \in 1..(closeAt' - 1) : Backends[k] \in Influx => Backends[k] \in closed'
         /\ mainPc' = "done" => Influx \subseteq closed'
<1>1. closeAt \in Nat
  BY Config DEF Typed, MainTyped, Positions
<1>2. CASE closeAt = Len(Backends)
  <2>1. mainPc' = "done"
    BY <1>2 DEF CloseNext
  <2>2. ASSUME NEW i \in Influx PROVE i \in closed'
    <3>1. PICK k \in Positions : Backends[k] = i
      BY Config
    <3> QED BY <1>2, <3>1 DEF Positions
  <2> QED BY <2>1, <2>2
<1>3. CASE closeAt # Len(Backends)
  <2>1. mainPc' = "close" /\ closeAt' - 1 = closeAt
    BY <1>1, <1>3 DEF CloseNext
  <2> QED BY <2>1
<1> QED BY <1>2, <1>3

(* close() of an InfluxDB backend, and of the others. *)
LEMMA InfluxClose ==
  ASSUME Typed, Wired, Swept, CloseAll
  PROVE  Wired' /\ Swept'
<1>1. \A k \in 1..closeAt : k = closeAt \/ k \in 1..(closeAt - 1)
  BY Config DEF Typed, MainTyped, Positions
<1>2. CASE CloseCsv
  <2>1. /\ UNCHANGED <<attr, disabled, closed, batch, closing, tail>> /\ CloseNext
        /\ mainPc = "close" /\ Closing \in Csv
    BY <1>2 DEF CloseCsv, influx
  <2>2. \A k \in 1..closeAt : Backends[k] \in Influx => Backends[k] \in closed
    BY <1>1, <2>1, Config DEF Swept, Closing
  <2>3. \A i \in Influx : closing'[i] = "none"
    BY <2>1 DEF Swept
  <2> QED BY <2>1, <2>2, <2>3, GoesOn DEF Wired, Swept
<1>3. CASE Detach
  <2>1. /\ mainPc = "close" /\ mainPc' = "settle" /\ Closing \in Influx /\ UNCHANGED closeAt
        /\ closed' = closed \cup {Closing} /\ Closing' = Closing
        /\ closing' = [closing EXCEPT ![Closing] = attr[Closing]]
        /\ tail' = [tail EXCEPT ![Closing] = batch[Closing]]
        /\ attr' = [attr EXCEPT ![Closing] = "none"] /\ batch' = [batch EXCEPT ![Closing] = {}]
    BY <1>3 DEF Detach, Closing
  <2>2. Wired'
    BY <2>1 DEF Wired, Typed, InfluxTyped
  <2>3. Swept'
    BY <2>1 DEF Swept, Typed, InfluxTyped
  <2> QED BY <2>2, <2>3
<1>4. CASE SettleTail
  <2>1. /\ mainPc = "settle" /\ mainPc' = "disconnect" /\ Closing \in Influx
        /\ UNCHANGED <<closeAt, closed, attr, batch>> /\ Closing' = Closing
        /\ \/ /\ closing[Closing] = "writer" /\ closing' = [closing EXCEPT ![Closing] = "client"]
              /\ tail' = [tail EXCEPT ![Closing] = {}]
           \/ closing[Closing] # "writer" /\ UNCHANGED <<closing, tail>>
    BY <1>4 DEF SettleTail, Closing, Typed, Locking
  <2>2. Wired'
    BY <2>1 DEF Wired, Typed, InfluxTyped
  <2>3. tail'[Closing] = {}
    BY <2>1 DEF Wired, Typed, InfluxTyped
  <2>4. Swept'
    BY <2>1, <2>3 DEF Swept, Typed, InfluxTyped
  <2> QED BY <2>2, <2>4
<1>5. CASE Disconnect
  <2>1. /\ mainPc = "disconnect" /\ Closing \in Influx /\ CloseNext
        /\ UNCHANGED <<closed, attr, batch, tail>>
        /\ closing' = [closing EXCEPT ![Closing] = "none"]
    BY <1>5 DEF Disconnect, Typed, Locking
  <2>2. \A i \in Influx : closing'[i] = "none"
    BY <2>1 DEF Swept, Typed, InfluxTyped
  <2>3. \A k \in 1..closeAt : Backends[k] \in Influx => Backends[k] \in closed
    BY <1>1, <2>1 DEF Swept, Closing
  <2>4. Wired'
    BY <2>1 DEF Wired, Swept, Typed, InfluxTyped
  <2> QED BY <2>1, <2>2, <2>3, <2>4, GoesOn DEF Swept
<1> QED BY <1>2, <1>3, <1>4, <1>5 DEF CloseAll

LEMMA InfluxStep == Typed /\ Wired /\ Swept /\ [Next]_vars => Wired' /\ Swept'
<1> SUFFICES ASSUME Typed, Wired, Swept, [Next]_vars PROVE Wired' /\ Swept'
  OBVIOUS
<1>1. ASSUME UNCHANGED <<attr, closed, batch, closing, tail, mainPc, closeAt>>
      PROVE  Wired' /\ Swept'
  BY <1>1 DEF Wired, Swept, Closing
<1>2. ASSUME NEW w \in Writers, Call(w) \/ CsvNext(w) PROVE Wired' /\ Swept'
  BY <1>1, <1>2 DEF Call, CsvNext, OpenFile, OpenFails, WriteRow, FlushRow, RowFails, influx, main
<1>3. ASSUME NEW c \in Csv, Spill(c) PROVE Wired' /\ Swept'
  BY <1>1, <1>3 DEF Spill, influx, main
<1>4. ASSUME NEW i \in Influx, SettleBatch(i) PROVE Wired' /\ Swept'
  BY <1>4 DEF SettleBatch, Wired, Swept, Closing, Typed, InfluxTyped, main
<1>5. CASE Shutdown
  BY <1>5 DEF Shutdown, Wired, Swept, influx
<1>6. CASE EndProcess
  BY <1>6 DEF EndProcess, Wired, Swept
<1>7. CASE UNCHANGED vars
  BY <1>1, <1>7 DEF vars, influx, main
<1> QED BY <1>2, <1>3, <1>4, <1>5, <1>6, <1>7, InfluxWrite, InfluxClose DEF Next

(* A point InfluxDB's backend accepted is in a writer that will settle it,  *)
(* and a thread that writes while, or after, main closes builds nothing     *)
(* that stays open: for any threads and any order of the backends.          *)
THEOREM NothingLeftOpenHolds == Spec => []NothingLeftOpen
<1>1. Spec => [](Typed /\ Wired /\ Swept)
  BY InitTyped, NextTyped, InfluxInit, InfluxStep, PTL DEF Spec
<1>2. Typed /\ Wired /\ Swept => NothingLeftOpen
  BY DEF Wired, Swept, NothingLeftOpen
<1> QED BY <1>1, <1>2, PTL

---------------------------------------------------------------------------
(* The rows of thread w for backend c, on disk (p) and in the handle (q). *)

Mine(e, c, w) == e.from = c /\ e.by = w
Holds(q, c, w, n) == \E k \in 1..Len(q) : Mine(q[k], c, w) /\ q[k].row = n
None(q, c, w) == \A k \in 1..Len(q) : ~Mine(q[k], c, w)
Below(q, c, w, n) == \A k \in 1..Len(q) : Mine(q[k], c, w) => q[k].row < n
Rising(q, c, w) ==
  \A j, k \in 1..Len(q) : j < k /\ Mine(q[j], c, w) /\ Mine(q[k], c, w) => q[j].row < q[k].row
Before(p, q, c, w) ==
  \A j \in 1..Len(p), k \in 1..Len(q) : Mine(p[j], c, w) /\ Mine(q[k], c, w) => p[j].row < q[k].row

(* Those on disk come before those in the handle, all in order and all     *)
(* below n.                                                                *)
Ranked(p, q, c, w, n) ==
  Rising(p, c, w) /\ Rising(q, c, w) /\ Before(p, q, c, w) /\ Below(p, c, w, n) /\ Below(q, c, w, n)

LEMMA RankedEmpty ==
  ASSUME NEW p, NEW c, NEW w, NEW n, Rising(p, c, w), Below(p, c, w, n)
  PROVE  Ranked(p, << >>, c, w, n)
BY DEF Ranked, Rising, Before, Below

(* What the handle held is written after what was on disk. *)
LEMMA RankedFlush ==
  ASSUME NEW p \in Logs, NEW q \in Logs, NEW c, NEW w, NEW n, Ranked(p, q, c, w, n)
  PROVE  Ranked(p \o q, << >>, c, w, n)
<1>1. Below(p \o q, c, w, n)
  <2>1. ASSUME NEW k \in 1..Len(p \o q), Mine((p \o q)[k], c, w) PROVE (p \o q)[k].row < n
    <3>1. CASE k \in 1..Len(p)
      BY <2>1, <3>1, Joined DEF Ranked, Below
    <3>2. CASE k \notin 1..Len(p)
      <4>1. PICK b \in 1..Len(q) : k = Len(p) + b
        BY <3>2, Joined
      <4>2. (p \o q)[k] = q[b]
        BY <4>1, Joined
      <4> QED BY <2>1, <4>2 DEF Ranked, Below
    <3> QED BY <3>1, <3>2
  <2> QED BY <2>1 DEF Below
<1>2. ASSUME NEW j \in 1..Len(p \o q), NEW k \in 1..Len(p \o q), j < k,
             Mine((p \o q)[j], c, w), Mine((p \o q)[k], c, w)
      PROVE  (p \o q)[j].row < (p \o q)[k].row
  <2>1. CASE k \in 1..Len(p)
    <3>1. j \in 1..Len(p)
      BY <1>2, <2>1, Joined
    <3> QED BY <1>2, <2>1, <3>1, Joined DEF Ranked, Rising
  <2>2. CASE k \notin 1..Len(p)
    <3>1. PICK b \in 1..Len(q) : k = Len(p) + b
      BY <2>2, Joined
    <3>2. (p \o q)[k] = q[b]
      BY <3>1, Joined
    <3>3. CASE j \in 1..Len(p)
      BY <1>2, <3>2, <3>3, Joined DEF Ranked, Before
    <3>4. CASE j \notin 1..Len(p)
      <4>1. PICK a \in 1..Len(q) : j = Len(p) + a
        BY <3>4, Joined
      <4>2. (p \o q)[j] = q[a] /\ a < b
        BY <1>2, <3>1, <4>1, Joined
      <4> QED BY <1>2, <3>2, <4>2 DEF Ranked, Rising
    <3> QED BY <3>3, <3>4
  <2> QED BY <2>1, <2>2
<1> QED BY <1>1, <1>2, RankedEmpty DEF Rising

(* Another backend on the same file writes lines of its own there. *)
LEMMA RankedForeign ==
  ASSUME NEW p \in Logs, NEW q \in Logs, NEW r \in Logs, NEW c, NEW w, NEW n,
         Ranked(p, q, c, w, n), None(r, c, w)
  PROVE  Ranked(p \o r, q, c, w, n)
<1>1. ASSUME NEW k \in 1..Len(p \o r), Mine((p \o r)[k], c, w)
      PROVE  k \in 1..Len(p) /\ (p \o r)[k] = p[k]
  BY <1>1, Joined DEF None
<1> QED BY <1>1 DEF Ranked, Rising, Before, Below

(* A thread writes its next row after all the others. *)
LEMMA RankedAppend ==
  ASSUME NEW p \in Logs, NEW q \in Logs, NEW e \in Lines, NEW c, NEW w, NEW n \in Nat,
         Ranked(p, q, c, w, n), Mine(e, c, w) => e.row = n
  PROVE  Ranked(p, Append(q, e), c, w, IF Mine(e, c, w) THEN n + 1 ELSE n)
<1> DEFINE r == Append(q, e)
<1>1. /\ Len(q) \in Nat /\ Len(r) = Len(q) + 1 /\ r[Len(q) + 1] = e
      /\ \A k \in 1..Len(q) : r[k] = q[k]
      /\ \A k \in 1..Len(r) : k \in 1..Len(q) \/ k = Len(q) + 1
  BY AppendedLine
<1> HIDE DEF r
<1>2. \A k \in 1..Len(p) : Mine(p[k], c, w) => p[k].row < n
  BY DEF Ranked, Below
<1>3. \A k \in 1..Len(q) : Mine(q[k], c, w) => q[k].row < n
  BY DEF Ranked, Below
<1>4. Rising(r, c, w)
  <2> SUFFICES ASSUME NEW j \in 1..Len(r), NEW k \in 1..Len(r), j < k,
                      Mine(r[j], c, w), Mine(r[k], c, w)
               PROVE  r[j].row < r[k].row
    BY DEF Rising
  <2>1. j \in 1..Len(q) /\ r[j] = q[j]
    BY <1>1
  <2>2. CASE k \in 1..Len(q)
    BY <1>1, <2>1, <2>2 DEF Ranked, Rising
  <2>3. CASE k = Len(q) + 1
    BY <1>1, <1>3, <2>1, <2>3
  <2> QED BY <1>1, <2>2, <2>3
<1>5. Before(p, r, c, w)
  BY <1>1, <1>2 DEF Ranked, Before
<1>6. ASSUME NEW m, m = IF Mine(e, c, w) THEN n + 1 ELSE n
      PROVE  Below(p, c, w, m) /\ Below(r, c, w, m)
  <2>1. \A k \in 1..Len(p) : p[k] \in Lines
    BY DEF Logs
  <2>2. \A k \in 1..Len(q) : q[k] \in Lines
    BY DEF Logs
  <2>3. \A x \in Lines : x.row \in Nat
    BY DEF Lines
  <2>4. Below(p, c, w, m)
    BY <1>2, <1>6, <2>1, <2>3 DEF Below
  <2>5. ASSUME NEW k \in 1..Len(r), Mine(r[k], c, w) PROVE r[k].row < m
    BY <1>1, <1>3, <1>6, <2>2, <2>3, <2>5
  <2> QED BY <2>4, <2>5 DEF Below
<1> QED BY <1>4, <1>5, <1>6 DEF Ranked, r

LEMMA RankedUp ==
  ASSUME NEW p \in Logs, NEW q \in Logs, NEW c, NEW w, NEW n \in Nat, NEW m \in Nat, n <= m,
         Ranked(p, q, c, w, n)
  PROVE  Ranked(p, q, c, w, m)
<1>1. /\ \A k \in 1..Len(p) : p[k] \in Lines
      /\ \A k \in 1..Len(q) : q[k] \in Lines
  BY DEF Logs
<1>2. \A x \in Lines : x.row \in Nat
  BY DEF Lines
<1>3. Below(p, c, w, m)
  BY <1>1, <1>2 DEF Ranked, Below
<1>4. Below(q, c, w, m)
  BY <1>1, <1>2 DEF Ranked, Below
<1> QED BY <1>3, <1>4 DEF Ranked

(* What is on disk stays, and what the handle held arrives. *)
LEMMA HoldsJoined ==
  ASSUME NEW p \in Logs, NEW q \in Logs, NEW c, NEW w, NEW n,
         Holds(p, c, w, n) \/ Holds(q, c, w, n)
  PROVE  Holds(p \o q, c, w, n)
<1>1. CASE Holds(p, c, w, n)
  <2>1. PICK k \in 1..Len(p) : Mine(p[k], c, w) /\ p[k].row = n
    BY <1>1 DEF Holds
  <2>2. k \in 1..Len(p \o q) /\ (p \o q)[k] = p[k]
    BY Joined
  <2> QED BY <2>1, <2>2 DEF Holds
<1>2. CASE Holds(q, c, w, n)
  <2>1. PICK k \in 1..Len(q) : Mine(q[k], c, w) /\ q[k].row = n
    BY <1>2 DEF Holds
  <2>2. Len(p) + k \in 1..Len(p \o q)
    BY Joined
  <2>3. (p \o q)[Len(p) + k] = q[k]
    BY Joined
  <2> QED BY <2>1, <2>2, <2>3 DEF Holds
<1> QED BY <1>1, <1>2

LEMMA HoldsAppended ==
  ASSUME NEW q \in Logs, NEW e \in Lines, NEW c, NEW w, NEW n,
         Holds(q, c, w, n) \/ (Mine(e, c, w) /\ e.row = n)
  PROVE  Holds(Append(q, e), c, w, n)
BY AppendedLine DEF Holds

---------------------------------------------------------------------------
(* Rows: what a step does to the file and the handle of one backend. *)

(* Backend number k is still to be given the row of w's call, or is done   *)
(* with it.                                                                *)
NotYet(k, w) ==
  \/ pc[w] \in {"call", "row"} /\ at[w] <= k
  \/ pc[w] = "flush" /\ at[w] < k
Done(k, w) == pc[w] = "idle" \/ at[w] > k
Next2Write(k, w) == IF NotYet(k, w) THEN made[w] ELSE made[w] + 1

Log(c) == disk[File[c]]

(* A handle buffers a header and rows of its own backend. *)
Foreign ==
  \A c \in Csv : \A k \in 1..Len(buffer[c]) : buffer[c][k] = Header \/ buffer[c][k].from = c

InOrder ==
  \A k \in Positions, w \in Writers : Backends[k] \in Csv =>
    Ranked(Log(Backends[k]), buffer[Backends[k]], Backends[k], w, Next2Write(k, w))

Kept ==
  \A k \in Positions, w \in Writers : Backends[k] \in Csv \ Failing =>
    /\ \A n \in 1..made[w] : (n < made[w] \/ Done(k, w)) =>
         <<w, n>> \in cut \/ Holds(Log(Backends[k]), Backends[k], w, n)
    /\ pc[w] = "flush" /\ at[w] = k =>
         \/ Holds(Log(Backends[k]), Backends[k], w, made[w])
         \/ Holds(buffer[Backends[k]], Backends[k], w, made[w])

(* A step moves no thread back: the row it is to write next never falls.   *)
LEMMA PlaceStep ==
  ASSUME Typed, [Next]_vars, NEW k \in Positions, NEW w \in Writers
  PROVE  /\ Next2Write(k, w) \in Nat /\ Next2Write(k, w)' \in Nat
         /\ Next2Write(k, w) <= Next2Write(k, w)'
<1> USE DEF Typed
<1>1. ThreadTyped'
  BY NextTyped
<1>2. Next2Write(k, w) \in Nat /\ Next2Write(k, w)' \in Nat
  BY <1>1 DEF ThreadTyped, Next2Write
<1>3. at[w] \in Nat /\ k \in Nat /\ k <= Len(Backends) /\ made[w] \in Nat
  BY DEF ThreadTyped, Positions
<1>4. CASE UNCHANGED <<pc[w], at[w], made[w]>>
  BY <1>2, <1>4 DEF Next2Write, NotYet
<1>5. ASSUME NEW v \in Writers, Call(v)
      PROVE  Next2Write(k, w) <= Next2Write(k, w)'
  <2>1. CASE v = w
    <3>1. made'[w] = made[w] + 1
      BY <1>5, <2>1 DEF Call, ThreadTyped
    <3>2. pc[w] = "idle"
      BY <1>5, <2>1 DEF Call, At
    <3>3. Next2Write(k, w) = made[w] + 1
      BY <3>2 DEF Next2Write, NotYet
    <3> QED BY <1>3, <3>1, <3>3 DEF Next2Write
  <2>2. CASE v # w
    BY <1>4, <1>5, <2>2 DEF Call, ThreadTyped
  <2> QED BY <2>1, <2>2
<1>6. ASSUME NEW v \in Writers, NextBackend(v), pc[v] \in {"call", "row", "flush"}
      PROVE  Next2Write(k, w) <= Next2Write(k, w)'
  <2>1. /\ made' = made
        /\ \A u \in Writers \ {v} : pc'[u] = pc[u] /\ at'[u] = at[u]
        /\ \/ pc'[v] = "idle" /\ at'[v] = at[v] /\ at[v] = Len(Backends)
           \/ pc'[v] = "call" /\ at'[v] = at[v] + 1 /\ at[v] < Len(Backends)
    BY <1>6, NextBackendFacts
  <2>2. CASE v = w
    <3>1. NotYet(k, w)' => NotYet(k, w)
      BY <1>3, <1>6, <2>1, <2>2 DEF NotYet
    <3> QED BY <1>3, <2>1, <3>1 DEF Next2Write
  <2>3. CASE v # w
    BY <1>4, <2>1, <2>3
  <2> QED BY <2>2, <2>3
<1>7. ASSUME NEW v \in Writers, OpenFile(v) \/ WriteRow(v)
      PROVE  Next2Write(k, w) <= Next2Write(k, w)'
  <2>1. /\ made' = made /\ at' = at /\ \A u \in Writers \ {v} : pc'[u] = pc[u]
        /\ pc[v] \in {"call", "row"} /\ pc'[v] \in {"row", "flush"}
    BY <1>7, GotoFacts DEF OpenFile, WriteRow, At
  <2>2. CASE v = w
    <3>1. NotYet(k, w)' => NotYet(k, w)
      BY <1>3, <2>1, <2>2 DEF NotYet
    <3> QED BY <1>3, <2>1, <3>1 DEF Next2Write
  <2>3. CASE v # w
    BY <1>4, <2>1, <2>3
  <2> QED BY <2>2, <2>3
<1>8. CASE EndProcess
  <2>1. made' = made /\ pc'[w] = "idle"
    BY <1>8 DEF EndProcess
  <2>2. Next2Write(k, w)' = made[w] + 1
    BY <2>1 DEF Next2Write, NotYet
  <2> QED BY <1>3, <2>2 DEF Next2Write
<1>9. ASSUME NEW v \in Writers, CsvNext(v) \/ InfluxNext(v)
      PROVE  Next2Write(k, w) <= Next2Write(k, w)'
  BY <1>6, <1>7, <1>9
     DEF CsvNext, OpenFails, FlushRow, RowFails, InfluxNext, EnqueueRefused, Enqueue, EnqueueDisables, At
<1>10. CASE (\E c \in Csv : Spill(c)) \/ (\E i \in Influx : SettleBatch(i)) \/ Shutdown \/ CloseAll
  BY <1>4, <1>10
     DEF Spill, SettleBatch, Shutdown, CloseAll, CloseCsv, Detach, SettleTail, Disconnect, threads
<1>11. CASE UNCHANGED vars
  BY <1>4, <1>11 DEF vars, threads
<1> QED BY <1>2, <1>5, <1>8, <1>9, <1>10, <1>11 DEF Next

(* What a step does to the file and the handle of a backend: nothing; it   *)
(* writes out the handle; it writes out another's on the same file; it     *)
(* drops the handle, or opens one, which no thread is about to flush; or   *)
(* it buffers a row.                                                       *)
Idle(c) == Log(c)' = Log(c) /\ buffer'[c] = buffer[c]
Emptied(c) == Log(c)' = Log(c) \o buffer[c] /\ buffer'[c] = << >>
Shared(c, d) == Log(c)' = Log(c) \o buffer[d] /\ buffer'[c] = buffer[c]
Renewed(c) ==
  /\ Log(c)' = Log(c) /\ buffer'[c] \in {<< >>, <<Header>>}
  /\ \A w \in Writers : pc'[w] = "flush" /\ Backends[at'[w]] = c => c \in Failing
Buffered(c, w) ==
  /\ Log(c)' = Log(c) /\ buffer'[c] = Append(buffer[c], Row(c, w, made[w]))
  /\ WriteRow(w) /\ Here(w) = c

LEMMA FlushData ==
  ASSUME Typed, NEW c \in Csv, NEW d \in Csv,
         disk' = [disk EXCEPT ![File[d]] = @ \o buffer[d]],
         buffer' = [buffer EXCEPT ![d] = << >>]
  PROVE  Idle(c) \/ Emptied(c) \/ (c # d /\ Shared(c, d))
<1>1. /\ disk'[File[c]] = IF File[c] = File[d] THEN disk[File[d]] \o buffer[d] ELSE disk[File[c]]
      /\ buffer'[c] = IF c = d THEN << >> ELSE buffer[c]
  BY Config DEF Typed, CsvTyped
<1> QED BY <1>1 DEF Idle, Emptied, Shared, Log

LEMMA DataStep ==
  ASSUME Typed, [Next]_vars, NEW c \in Csv
  PROVE  \/ Idle(c) \/ Emptied(c) \/ Renewed(c)
         \/ \E d \in Csv \ {c} : Shared(c, d)
         \/ \E w \in Writers : Buffered(c, w)
<1> USE DEF Typed
<1>1. CASE UNCHANGED <<disk, buffer>>
  BY <1>1 DEF Idle, Log
<1>2. ASSUME NEW w \in Writers, CsvNext(w)
      PROVE  \/ Idle(c) \/ Emptied(c) \/ Renewed(c)
             \/ \E d \in Csv \ {c} : Shared(c, d)
             \/ \E v \in Writers : Buffered(c, v)
  <2>1. CASE OpenFile(w)
    <3>1. UNCHANGED disk /\ holder[Here(w)] = "nobody" /\ Here(w) \in Csv
          /\ buffer' \in {buffer, [buffer EXCEPT ![Here(w)] = FirstLines(Here(w))]}
      BY <2>1 DEF OpenFile
    <3>2. at' = at /\ pc'[w] = "row" /\ \A v \in Writers \ {w} : pc'[v] = pc[v]
      BY <2>1, GotoFacts DEF OpenFile
    <3>3. \A v \in Writers : pc'[v] = "flush" => Backends[at'[v]] # Here(w)
      BY <3>1, <3>2, Config DEF Locking, Here
    <3>4. FirstLines(Here(w)) \in {<< >>, <<Header>>}
      BY DEF FirstLines
    <3> QED BY <3>1, <3>3, <3>4 DEF Idle, Renewed, Log, CsvTyped
  <2>2. CASE WriteRow(w)
    <3>1. Here(w) \in Csv /\ UNCHANGED disk
          /\ buffer' = [buffer EXCEPT ![Here(w)] = Append(@, Row(Here(w), w, made[w]))]
      BY <2>2 DEF WriteRow, Locking, At
    <3> QED BY <2>2, <3>1 DEF Idle, Buffered, Log, CsvTyped
  <2>3. CASE FlushRow(w)
    <3>1. Here(w) \in Csv
      BY <2>3 DEF FlushRow, Locking, At
    <3> QED BY <2>3, <3>1, FlushData DEF FlushRow
  <2> QED BY <1>1, <1>2, <2>1, <2>2, <2>3 DEF CsvNext, OpenFails, RowFails, csv
<1>3. ASSUME NEW d \in Csv, Spill(d)
      PROVE  Idle(c) \/ Emptied(c) \/ \E e \in Csv \ {c} : Shared(c, e)
  BY <1>3, FlushData DEF Spill
<1>4. CASE CloseCsv
  <2>1. Closing \in Csv /\ buffer' = [buffer EXCEPT ![Closing] = << >>]
    BY <1>4 DEF CloseCsv
  <2>2. CASE disk' = [disk EXCEPT ![File[Closing]] = @ \o buffer[Closing]]
    BY <2>1, <2>2, FlushData
  <2>3. CASE Closing \in Failing /\ UNCHANGED disk
    BY <2>1, <2>3 DEF Idle, Renewed, Log, CsvTyped
  <2> QED BY <1>4, <2>2, <2>3 DEF CloseCsv
<1>5. CASE EndProcess
  <2>1. UNCHANGED disk /\ buffer'[c] = << >> /\ \A w \in Writers : pc'[w] = "idle"
    BY <1>5 DEF EndProcess
  <2> QED BY <2>1 DEF Renewed, Log
<1>6. CASE \/ \E w \in Writers : Call(w) \/ InfluxNext(w)
           \/ (\E i \in Influx : SettleBatch(i)) \/ Shutdown
           \/ Detach \/ SettleTail \/ Disconnect \/ UNCHANGED vars
  BY <1>1, <1>6
     DEF Call, InfluxNext, EnqueueRefused, Enqueue, EnqueueDisables, SettleBatch, Shutdown,
         Detach, SettleTail, Disconnect, vars, csv
<1> QED BY <1>2, <1>3, <1>4, <1>5, <1>6 DEF Next, CloseAll

---------------------------------------------------------------------------
(* Rows: the invariant. *)

LEMMA RowsInit == Init => Foreign /\ InOrder /\ Kept
<1> SUFFICES ASSUME Init PROVE Foreign /\ InOrder /\ Kept
  OBVIOUS
<1>1. \A c \in Csv : Log(c) = << >> /\ buffer[c] = << >>
  BY Config DEF Init, Log
<1>2. \A w \in Writers : made[w] = 0 /\ pc[w] = "idle"
  BY DEF Init
<1>3. \A k \in 1..0 : FALSE
  OBVIOUS
<1> QED BY <1>1, <1>2, <1>3 DEF Foreign, InOrder, Kept, Ranked, Rising, Before, Below

LEMMA ForeignStep == Typed /\ Foreign /\ [Next]_vars => Foreign'
<1> SUFFICES ASSUME Typed, Foreign, [Next]_vars, NEW c \in Csv, NEW k \in 1..Len(buffer'[c])
             PROVE  buffer'[c][k] = Header \/ buffer'[c][k].from = c
  BY DEF Foreign
<1>1. CASE buffer'[c] = buffer[c]
  BY <1>1 DEF Foreign
<1>2. CASE buffer'[c] \in {<< >>, <<Header>>}
  BY <1>2
<1>3. ASSUME NEW w \in Writers, Buffered(c, w)
      PROVE  buffer'[c][k] = Header \/ buffer'[c][k].from = c
  <2>1. buffer'[c] = Append(buffer[c], Row(c, w, made[w])) /\ buffer[c] \in Logs
    BY <1>3 DEF Buffered, Typed, CsvTyped
  <2>2. Row(c, w, made[w]) \in Lines /\ Row(c, w, made[w]).from = c
    BY LineFacts DEF Typed, ThreadTyped, Row
  <2>3. CASE k \in 1..Len(buffer[c])
    BY <2>1, <2>2, <2>3, AppendedLine DEF Foreign
  <2>4. CASE k \notin 1..Len(buffer[c])
    <3>1. k = Len(buffer[c]) + 1
      BY <2>1, <2>2, <2>4, AppendedLine
    <3> QED BY <2>1, <2>2, <3>1, AppendedLine
  <2> QED BY <2>3, <2>4
<1> QED BY <1>1, <1>2, <1>3, DataStep DEF Idle, Emptied, Shared, Renewed

(* What another backend wrote is not of this one. *)
LEMMA NoneOfOthers ==
  ASSUME Foreign, NEW c \in Csv, NEW d \in Csv, c # d, NEW w \in Writers
  PROVE  None(buffer[d], c, w)
<1> SUFFICES ASSUME NEW k \in 1..Len(buffer[d]), Mine(buffer[d][k], c, w) PROVE FALSE
  BY DEF None
<1>1. CASE buffer[d][k] = Header
  BY <1>1, Config DEF Header, Mine
<1>2. CASE buffer[d][k].from = d
  BY <1>2 DEF Mine
<1> QED BY <1>1, <1>2 DEF Foreign

LEMMA InOrderStep == Typed /\ Foreign /\ InOrder /\ [Next]_vars => InOrder'
<1> SUFFICES ASSUME Typed, Foreign, InOrder, [Next]_vars,
                    NEW k \in Positions, NEW w \in Writers, Backends[k] \in Csv
             PROVE  Ranked(Log(Backends[k]), buffer[Backends[k]], Backends[k], w, Next2Write(k, w))'
  BY DEF InOrder
<1>1. PICK c \in Csv : c = Backends[k]
  OBVIOUS
<1>2. PICK p, q : p = Log(c) /\ q = buffer[c]
  OBVIOUS
<1>3. PICK n, m : n = Next2Write(k, w) /\ m = Next2Write(k, w)'
  OBVIOUS
<1>4. p \in Logs /\ q \in Logs /\ Log(c)' \in Logs /\ buffer'[c] \in Logs
  <2>1. CsvTyped /\ CsvTyped'
    BY NextTyped DEF Typed
  <2> QED BY <1>2, <2>1, Config DEF CsvTyped, Log
<1>5. n \in Nat /\ m \in Nat /\ n <= m
  BY <1>3, PlaceStep
<1>6. Ranked(p, q, c, w, n)
  BY <1>1, <1>2, <1>3 DEF InOrder
<1> SUFFICES Ranked(Log(c)', buffer'[c], c, w, m)
  BY <1>1, <1>3
<1>7. CASE Idle(c)
  BY <1>2, <1>4, <1>5, <1>6, <1>7, RankedUp DEF Idle
<1>8. CASE Emptied(c)
  <2>1. Ranked(p \o q, << >>, c, w, n)
    BY <1>4, <1>6, RankedFlush
  <2> QED BY <1>2, <1>4, <1>5, <1>8, <2>1, RankedUp DEF Emptied
<1>9. ASSUME NEW d \in Csv \ {c}, Shared(c, d)
      PROVE  Ranked(Log(c)', buffer'[c], c, w, m)
  <2>1. buffer[d] \in Logs /\ None(buffer[d], c, w)
    BY NoneOfOthers DEF Typed, CsvTyped
  <2>2. Ranked(p \o buffer[d], q, c, w, n)
    BY <1>4, <1>6, <2>1, RankedForeign
  <2> QED BY <1>2, <1>4, <1>5, <1>9, <2>2, RankedUp DEF Shared
<1>10. CASE Renewed(c)
  <2>1. Ranked(p, << >>, c, w, n)
    BY <1>6, RankedEmpty DEF Ranked
  <2>2. Append(<< >>, Header) = <<Header>>
    OBVIOUS
  <2>3. ~Mine(Header, c, w)
    BY Config DEF Mine, Header
  <2>4. Ranked(p, <<Header>>, c, w, n)
    BY <1>4, <1>5, <2>1, <2>2, <2>3, LineFacts, RankedAppend
  <2> QED BY <1>2, <1>4, <1>5, <1>10, <2>1, <2>4, RankedUp DEF Renewed
<1>11. ASSUME NEW v \in Writers, Buffered(c, v)
       PROVE  Ranked(Log(c)', buffer'[c], c, w, m)
  <2>1. PICK e \in Lines : e = Row(c, v, made[v])
    BY LineFacts DEF Typed, ThreadTyped
  <2>2. Log(c)' = p /\ buffer'[c] = Append(q, e)
    BY <1>2, <1>11, <2>1 DEF Buffered
  <2>3. CASE v = w
    <3>1. at[w] = k
      BY <1>1, <1>11, <2>3, Config DEF Buffered, Here, Typed, ThreadTyped
    <3>2. pc[w] = "row" /\ pc'[w] = "flush" /\ at' = at /\ made' = made
      BY <1>11, <2>3, GotoFacts DEF Buffered, WriteRow, At, Typed
    <3>3. n = made[w] /\ m = made[w] + 1
      BY <1>3, <3>1, <3>2 DEF Next2Write, NotYet, Positions
    <3>4. Mine(e, c, w) /\ e.row = n
      BY <2>1, <2>3, <3>3 DEF Mine, Row
    <3> QED BY <1>4, <1>5, <1>6, <2>2, <3>3, <3>4, RankedAppend
  <2>4. CASE v # w
    <3>1. ~Mine(e, c, w)
      BY <2>1, <2>4 DEF Mine, Row
    <3>2. Ranked(p, Append(q, e), c, w, n)
      BY <1>4, <1>5, <1>6, <3>1, RankedAppend
    <3> QED BY <1>4, <1>5, <2>2, <3>2, RankedUp
  <2> QED BY <2>3, <2>4
<1> QED BY <1>7, <1>8, <1>9, <1>10, <1>11, DataStep

(* A thread is done with a backend once it has flushed its row there, and  *)
(* is about to flush only the row it has just written.                     *)
LEMMA ReturnStep ==
  ASSUME Typed, [Next]_vars, NEW k \in Positions, NEW w \in Writers,
         Backends[k] \in Csv \ Failing
  PROVE  /\ cut \subseteq cut'
         /\ \A n \in 1..made'[w] : n < made'[w] \/ Done(k, w)' =>
              \/ n \in 1..made[w] /\ (n < made[w] \/ Done(k, w))
              \/ <<w, n>> \in cut'
              \/ n = made[w] /\ pc[w] = "flush" /\ at[w] = k /\ FlushRow(w)
         /\ pc'[w] = "flush" /\ at'[w] = k =>
              \/ made'[w] = made[w] /\ pc[w] = "flush" /\ at[w] = k
              \/ made'[w] = made[w] /\ WriteRow(w) /\ at[w] = k
<1> USE DEF Typed
<1> DEFINE Returned ==
      \A n \in 1..made'[w] : n < made'[w] \/ Done(k, w)' =>
        \/ n \in 1..made[w] /\ (n < made[w] \/ Done(k, w))
        \/ <<w, n>> \in cut'
        \/ n = made[w] /\ pc[w] = "flush" /\ at[w] = k /\ FlushRow(w)
    AtFlush ==
      pc'[w] = "flush" /\ at'[w] = k =>
        \/ made'[w] = made[w] /\ pc[w] = "flush" /\ at[w] = k
        \/ made'[w] = made[w] /\ WriteRow(w) /\ at[w] = k
<1>1. at[w] \in Nat /\ k \in Nat /\ k <= Len(Backends) /\ made[w] \in Nat
  BY DEF ThreadTyped, Positions
<1>2. ASSUME UNCHANGED <<pc[w], at[w], made[w]>> PROVE Returned /\ AtFlush
  <2>1. Done(k, w)' <=> Done(k, w)
    BY <1>2 DEF Done
  <2> QED BY <1>2, <2>1
<1>3. ASSUME NEW v \in Writers, Call(v) PROVE Returned /\ AtFlush /\ cut \subseteq cut'
  <2>1. CASE v = w
    <3>1. made'[w] = made[w] + 1 /\ pc'[w] = "call" /\ at'[w] = 1 /\ pc[w] = "idle" /\ cut' = cut
      BY <1>3, <2>1 DEF Call, At, ThreadTyped, process
    <3>2. Done(k, w) /\ ~Done(k, w)'
      BY <1>1, <3>1, Config DEF Done, Positions
    <3> QED BY <1>1, <3>1, <3>2
  <2>2. CASE v # w
    BY <1>2, <1>3, <2>2 DEF Call, ThreadTyped, process
  <2> QED BY <2>1, <2>2
<1>4. ASSUME NEW v \in Writers, NextBackend(v), pc[v] \in {"call", "row", "flush"},
             Here(v) = Backends[k] => FlushRow(v)
      PROVE  Returned /\ AtFlush
  <2>1. /\ made' = made
        /\ \A u \in Writers \ {v} : pc'[u] = pc[u] /\ at'[u] = at[u]
        /\ \/ pc'[v] = "idle" /\ at'[v] = at[v] /\ at[v] = Len(Backends)
           \/ pc'[v] = "call" /\ at'[v] = at[v] + 1 /\ at[v] < Len(Backends)
    BY <1>4, NextBackendFacts
  <2>2. CASE v = w
    <3>1. Done(k, w)' => Done(k, w) \/ at[w] = k
      BY <1>1, <2>1, <2>2 DEF Done
    <3>2. at[w] = k => FlushRow(w) /\ pc[w] = "flush"
      BY <1>4, <2>2 DEF Here, FlushRow, At
    <3> QED BY <1>1, <2>1, <2>2, <3>1, <3>2
  <2>3. CASE v # w
    BY <1>2, <2>1, <2>3
  <2> QED BY <2>2, <2>3
<1>5. ASSUME NEW v \in Writers, OpenFile(v) \/ WriteRow(v) PROVE Returned /\ AtFlush
  <2>1. /\ made' = made /\ at' = at /\ \A u \in Writers \ {v} : pc'[u] = pc[u]
        /\ OpenFile(v) => pc'[v] = "row"
        /\ pc'[v] \in {"row", "flush"}
    BY <1>5, GotoFacts DEF OpenFile, WriteRow
  <2>2. CASE v = w
    <3>1. Done(k, w)' => Done(k, w)
      BY <2>1, <2>2 DEF Done
    <3> QED BY <1>1, <1>5, <2>1, <2>2, <3>1
  <2>3. CASE v # w
    BY <1>2, <2>1, <2>3
  <2> QED BY <2>2, <2>3
<1>6. ASSUME NEW v \in Writers, CsvNext(v) \/ InfluxNext(v)
      PROVE  Returned /\ AtFlush /\ cut \subseteq cut'
  <2>1. cut' = cut
    BY <1>6
       DEF CsvNext, OpenFile, OpenFails, WriteRow, FlushRow, RowFails, InfluxNext, EnqueueRefused,
           Enqueue, EnqueueDisables, process
  <2>2. CASE OpenFile(v) \/ WriteRow(v)
    BY <1>5, <2>1, <2>2
  <2>3. CASE OpenFails(v) \/ FlushRow(v) \/ RowFails(v) \/ InfluxNext(v)
    <3>1. NextBackend(v) /\ pc[v] \in {"call", "row", "flush"}
      BY <2>3
         DEF OpenFails, FlushRow, RowFails, InfluxNext, EnqueueRefused, Enqueue, EnqueueDisables, At
    <3>2. Here(v) = Backends[k] => FlushRow(v)
      BY <2>3, Config
         DEF OpenFails, RowFails, InfluxNext, EnqueueRefused, Enqueue, EnqueueDisables
    <3> QED BY <1>4, <2>1, <3>1, <3>2
  <2> QED BY <1>6, <2>2, <2>3 DEF CsvNext
<1>7. CASE EndProcess
  <2>1. made' = made /\ pc'[w] = "idle" /\ cut \subseteq cut'
        /\ (pc[w] # "idle" => <<w, made[w]>> \in cut')
    BY <1>7 DEF EndProcess
  <2>2. pc[w] = "idle" => Done(k, w)
    BY DEF Done
  <2> QED BY <1>1, <2>1, <2>2
<1>8. CASE (\E c \in Csv : Spill(c)) \/ (\E i \in Influx : SettleBatch(i)) \/ Shutdown \/ CloseAll
  BY <1>2, <1>8
     DEF Spill, SettleBatch, Shutdown, CloseAll, CloseCsv, Detach, SettleTail, Disconnect, threads,
         process
<1>9. CASE UNCHANGED vars
  BY <1>2, <1>9 DEF vars, threads, process
<1> QED BY <1>3, <1>6, <1>7, <1>8, <1>9 DEF Next

LEMMA KeptStep == Typed /\ Kept /\ [Next]_vars => Kept'
<1> SUFFICES ASSUME Typed, Kept, [Next]_vars,
                    NEW k \in Positions, NEW w \in Writers, Backends[k] \in Csv \ Failing
             PROVE  /\ \A n \in 1..made'[w] : (n < made'[w] \/ Done(k, w)') =>
                         <<w, n>> \in cut' \/ Holds(Log(Backends[k])', Backends[k], w, n)
                    /\ pc'[w] = "flush" /\ at'[w] = k =>
                         \/ Holds(Log(Backends[k])', Backends[k], w, made'[w])
                         \/ Holds(buffer'[Backends[k]], Backends[k], w, made'[w])
  BY DEF Kept
<1>1. PICK c \in Csv : c = Backends[k] /\ c \notin Failing
  OBVIOUS
<1>2. PICK p \in Logs, q \in Logs : p = Log(c) /\ q = buffer[c]
  BY Config DEF Typed, CsvTyped, Log
<1>3. ASSUME NEW n, Holds(p, c, w, n) PROVE Holds(Log(c)', c, w, n)
  <2>1. CASE Log(c)' = p
    BY <1>3, <2>1
  <2>2. CASE Emptied(c)
    BY <1>2, <1>3, <2>2, HoldsJoined DEF Emptied
  <2>3. ASSUME NEW d \in Csv, Shared(c, d) PROVE Holds(Log(c)', c, w, n)
    <3>1. buffer[d] \in Logs
      BY DEF Typed, CsvTyped
    <3> QED BY <1>2, <1>3, <2>3, <3>1, HoldsJoined DEF Shared
  <2> QED BY <1>2, <2>1, <2>2, <2>3, DataStep DEF Idle, Renewed, Buffered
<1>4. ASSUME NEW n, Holds(q, c, w, n), FlushRow(w), at[w] = k PROVE Holds(Log(c)', c, w, n)
  <2>1. Log(c)' = p \o q
    BY <1>1, <1>2, <1>4, Config DEF FlushRow, Here, Log, Typed, CsvTyped
  <2> QED BY <1>4, <2>1, HoldsJoined
<1>5. ASSUME NEW n, Holds(q, c, w, n), pc'[w] = "flush", at'[w] = k
      PROVE  Holds(Log(c)', c, w, n) \/ Holds(buffer'[c], c, w, n)
  <2>1. CASE buffer'[c] = q
    BY <1>5, <2>1
  <2>2. CASE Emptied(c)
    BY <1>2, <1>5, <2>2, HoldsJoined DEF Emptied
  <2>3. ASSUME NEW v \in Writers, Buffered(c, v) PROVE Holds(buffer'[c], c, w, n)
    <3>1. Row(c, v, made[v]) \in Lines
      BY LineFacts DEF Typed, ThreadTyped
    <3> QED BY <1>2, <1>5, <2>3, <3>1, HoldsAppended DEF Buffered
  <2>4. ~Renewed(c)
    BY <1>1, <1>5 DEF Renewed
  <2> QED BY <1>2, <2>1, <2>2, <2>3, <2>4, DataStep DEF Idle, Shared
<1>6. ASSUME NEW n \in 1..made'[w], n < made'[w] \/ Done(k, w)', <<w, n>> \notin cut'
      PROVE  Holds(Log(c)', c, w, n)
  <2>1. CASE n \in 1..made[w] /\ (n < made[w] \/ Done(k, w))
    <3>1. <<w, n>> \notin cut
      BY <1>6, ReturnStep
    <3>2. Holds(p, c, w, n)
      BY <1>1, <1>2, <2>1, <3>1 DEF Kept
    <3> QED BY <1>3, <3>2
  <2>2. CASE n = made[w] /\ pc[w] = "flush" /\ at[w] = k /\ FlushRow(w)
    <3>1. Holds(p, c, w, n) \/ Holds(q, c, w, n)
      BY <1>1, <1>2, <2>2 DEF Kept
    <3> QED BY <1>3, <1>4, <2>2, <3>1
  <2> QED BY <1>6, <2>1, <2>2, ReturnStep
<1>7. ASSUME pc'[w] = "flush", at'[w] = k
      PROVE  Holds(Log(c)', c, w, made'[w]) \/ Holds(buffer'[c], c, w, made'[w])
  <2>1. CASE made'[w] = made[w] /\ pc[w] = "flush" /\ at[w] = k
    <3>1. Holds(p, c, w, made[w]) \/ Holds(q, c, w, made[w])
      BY <1>1, <1>2, <2>1 DEF Kept
    <3> QED BY <1>3, <1>5, <1>7, <2>1, <3>1
  <2>2. CASE made'[w] = made[w] /\ WriteRow(w) /\ at[w] = k
    <3>1. Row(c, w, made[w]) \in Lines /\ Mine(Row(c, w, made[w]), c, w)
          /\ Row(c, w, made[w]).row = made[w]
      BY LineFacts DEF Typed, ThreadTyped, Mine, Row
    <3>2. buffer'[c] = Append(q, Row(c, w, made[w]))
      BY <1>1, <1>2, <2>2 DEF WriteRow, Here, Typed, CsvTyped
    <3> QED BY <2>2, <3>1, <3>2, HoldsAppended
  <2> QED BY <1>7, <2>1, <2>2, ReturnStep
<1> QED BY <1>1, <1>6, <1>7

(* A row whose call has returned is on disk, once, in the order of its     *)
(* thread's calls: for any threads and any backends, over kills, refusals  *)
(* of the other backends, and closes that wait for nobody.                 *)
THEOREM NoRowLostHolds == Spec => []NoRowLost
<1>1. Spec => [](Typed /\ Foreign /\ InOrder /\ Kept)
  BY InitTyped, NextTyped, RowsInit, ForeignStep, InOrderStep, KeptStep, PTL DEF Spec
<1>2. Typed /\ InOrder /\ Kept => NoRowLost
  <2> SUFFICES ASSUME Typed, InOrder, Kept, NEW c \in Csv, NEW w \in Writers
               PROVE  /\ Rising(Log(c), c, w)
                      /\ c \notin Failing => \A n \in 1..made[w] :
                           \/ n = made[w] /\ pc[w] # "idle"
                           \/ <<w, n>> \in cut
                           \/ Holds(Log(c), c, w, n)
    BY DEF NoRowLost, Rising, Holds, Mine, Log
  <2>1. PICK k \in Positions : Backends[k] = c
    BY Config
  <2>2. Rising(Log(c), c, w)
    BY <2>1 DEF InOrder, Ranked
  <2>3. ASSUME c \notin Failing, NEW n \in 1..made[w], n # made[w] \/ pc[w] = "idle"
        PROVE  <<w, n>> \in cut \/ Holds(Log(c), c, w, n)
    <3>1. n < made[w] \/ Done(k, w)
      BY <2>3 DEF Done, Typed, ThreadTyped
    <3> QED BY <2>1, <2>3, <3>1 DEF Kept
  <2> QED BY <2>2, <2>3
<1> QED BY <1>1, <1>2, PTL

---------------------------------------------------------------------------
(* Headers, of the file that backend number k is the first to write. *)

Headed(q) == \A i \in 1..Len(q) : q[i] = Header <=> i = 1
Bare(q) == \A i \in 1..Len(q) : q[i] # Header

(* While the file is empty its first backend has the header in its handle, *)
(* no thread has gone past that backend, and so no other has begun.        *)
HeaderInv(k) ==
  LET c == Backends[k]
  IN  /\ Headed(Log(c))
      /\ Log(c) = << >> =>
           /\ c \in open => Headed(buffer[c]) /\ buffer[c] # << >>
           /\ \A w \in Writers : pc[w] # "idle" => at[w] <= k
           /\ \A d \in Csv \ {c} : File[d] = File[c] => buffer[d] = << >>
      /\ Log(c) # << >> => Bare(buffer[c])
      /\ \A d \in Csv \ {c} : File[d] = File[c] => Bare(buffer[d])
      /\ c \notin open => buffer[c] = << >>

LEMMA HeaderInit ==
  ASSUME Init, NEW k \in Positions, Backends[k] \in Csv
  PROVE  HeaderInv(k)
BY Config DEF Init, HeaderInv, Log, Headed, Bare

LEMMA HeaderFacts ==
  /\ Headed(<<Header>>) /\ <<Header>> # << >> /\ Headed(<< >>) /\ Bare(<< >>)
  /\ \A c \in Csv, w \in Writers, n \in Nat : Row(c, w, n) # Header
BY Config DEF Headed, Bare, Row, Header

LEMMA HeaderFlushed ==
  ASSUME NEW p \in Logs, NEW q \in Logs
  PROVE  /\ Headed(p) /\ Bare(q) /\ p # << >> => Headed(p \o q)
         /\ Headed(q) => Headed(<< >> \o q)
         /\ p # << >> \/ q # << >> => p \o q # << >>
         /\ p = << >> /\ q = << >> => p \o q = << >>
<1>1. \A r \in Logs : Len(r) \in Nat /\ (r = << >> <=> Len(r) = 0)
  BY LineFacts DEF Logs
<1>2. ASSUME Headed(p), Bare(q), p # << >>, NEW i \in 1..Len(p \o q)
      PROVE  (p \o q)[i] = Header <=> i = 1
  <2>1. CASE i \in 1..Len(p)
    BY <1>2, <2>1, Joined DEF Headed
  <2>2. CASE i \notin 1..Len(p)
    <3>1. PICK j \in 1..Len(q) : i = Len(p) + j
      BY <2>2, Joined
    <3>2. (p \o q)[i] # Header
      BY <1>2, <3>1, Joined DEF Bare
    <3>3. Len(p) \in Nat /\ Len(p) # 0
      BY <1>1, <1>2
    <3>4. i # 1
      BY <3>1, <3>3
    <3> QED BY <3>2, <3>4
  <2> QED BY <2>1, <2>2
<1>3. << >> \o q = q
  BY DEF Logs
<1>4. Len(p \o q) = Len(p) + Len(q) /\ p \o q \in Logs
  BY Joined
<1> QED BY <1>1, <1>2, <1>3, <1>4 DEF Headed

LEMMA HeaderAppended ==
  ASSUME NEW q \in Logs, NEW e \in Lines, e # Header
  PROVE  /\ Bare(q) => Bare(Append(q, e))
         /\ Headed(q) /\ q # << >> => Headed(Append(q, e))
         /\ Append(q, e) # << >>
<1>1. Len(q) \in Nat /\ (q = << >> <=> Len(q) = 0)
  BY LineFacts DEF Logs
<1>2. /\ Len(Append(q, e)) = Len(q) + 1 /\ Append(q, e)[Len(q) + 1] = e
      /\ \A i \in 1..Len(q) : Append(q, e)[i] = q[i]
      /\ \A i \in 1..(Len(q) + 1) : i \in 1..Len(q) \/ i = Len(q) + 1
  BY <1>1, AppendedLine
<1>3. Bare(q) => Bare(Append(q, e))
  BY <1>2 DEF Bare
<1>4. ASSUME Headed(q), q # << >>, NEW i \in 1..Len(Append(q, e))
      PROVE  Append(q, e)[i] = Header <=> i = 1
  BY <1>1, <1>2, <1>4 DEF Headed
<1>5. Append(q, e) # << >>
  <2>1. Append(q, e) \in Logs /\ Len(Append(q, e)) # 0
    BY <1>1, <1>2, AppendedLine
  <2> QED BY <2>1
<1> QED BY <1>3, <1>4, <1>5 DEF Headed

(* A thread at another backend on the file has gone past the first, which  *)
(* left its header there.                                                  *)
LEMMA PastTheFirst ==
  ASSUME Typed, NEW k \in Positions, Backends[k] \in Csv, FirstOnFile(k), HeaderInv(k),
         NEW w \in Writers, pc[w] # "idle", Here(w) \in Csv, Here(w) # Backends[k],
         File[Here(w)] = File[Backends[k]]
  PROVE  Log(Backends[k]) # << >>
<1>1. at[w] \in Positions /\ at[w] # k
  BY DEF Typed, ThreadTyped, Here
<1>2. ~(at[w] <= k)
  <2> SUFFICES ASSUME at[w] <= k PROVE FALSE
    OBVIOUS
  <2>1. at[w] \in 1..(k - 1)
    BY <1>1 DEF Positions
  <2> QED BY <2>1 DEF FirstOnFile, Here
<1> QED BY <1>2 DEF HeaderInv

(* The handle of the first backend is written out, or another's is. *)
LEMMA HeaderFlush ==
  ASSUME Typed, NEW k \in Positions, Backends[k] \in Csv, HeaderInv(k), NEW d \in Csv,
         disk' = [disk EXCEPT ![File[d]] = @ \o buffer[d]],
         buffer' = [buffer EXCEPT ![d] = << >>],
         open' \subseteq open, open \ open' \subseteq {d},
         Log(Backends[k]) = << >> =>
           \A w \in Writers : pc'[w] # "idle" =>
             at'[w] <= k \/ (pc[w] = "flush" /\ at[w] = k /\ d = Backends[k])
  PROVE  HeaderInv(k)'
<1>1. PICK c \in Csv : c = Backends[k]
  OBVIOUS
<1>2. PICK p \in Logs, q \in Logs, r \in Logs : p = Log(c) /\ q = buffer[c] /\ r = buffer[d]
  BY Config DEF Typed, CsvTyped, Log
<1>3. /\ disk'[File[c]] = IF File[c] = File[d] THEN p \o r ELSE p
      /\ \A e \in Csv : buffer'[e] = IF e = d THEN << >> ELSE buffer[e]
  BY <1>2, Config DEF Typed, CsvTyped, Log
<1>4. /\ Headed(p) /\ (p # << >> => Bare(q))
      /\ p = << >> => (c \in open => Headed(q) /\ q # << >>)
      /\ p = << >> => \A e \in Csv \ {c} : File[e] = File[c] => buffer[e] = << >>
      /\ \A e \in Csv \ {c} : File[e] = File[c] => Bare(buffer[e])
      /\ c \notin open => q = << >>
  BY <1>1, <1>2 DEF HeaderInv
<1>5. \A e \in Csv \ {c} : File[e] = File[c] => Bare(buffer'[e])
  BY <1>3, <1>4, HeaderFacts
<1>6. c \notin open' => buffer'[c] = << >>
  BY <1>2, <1>3, <1>4
<1>7. CASE d = c
  <2>1. Log(c)' = p \o q /\ buffer'[c] = << >>
    BY <1>2, <1>3, <1>7 DEF Log
  <2>2. Headed(p \o q)
    BY <1>4, HeaderFlushed, HeaderFacts
  <2>3. p \o q = << >> => p = << >> /\ q = << >> /\ c \notin open
    BY <1>4, HeaderFlushed
  <2>4. ASSUME p \o q = << >>, NEW w \in Writers, pc'[w] # "idle" PROVE at'[w] <= k
    <3>1. ~(pc[w] = "flush" /\ at[w] = k)
      BY <1>1, <2>3, <2>4 DEF Typed, Locking, Here
    <3> QED BY <1>1, <1>2, <2>3, <2>4, <3>1
  <2>5. p \o q = << >> => \A e \in Csv \ {c} : File[e] = File[c] => buffer'[e] = << >>
    BY <1>3, <1>4, <2>3
  <2>6. c \in open' => p \o q # << >>
    BY <2>3
  <2> QED BY <1>1, <1>5, <1>6, <2>1, <2>2, <2>4, <2>5, <2>6, HeaderFacts DEF HeaderInv, Log
<1>8. CASE d # c /\ File[c] = File[d]
  <2>1. Log(c)' = p \o r /\ buffer'[c] = q
    BY <1>2, <1>3, <1>8 DEF Log
  <2>2. Headed(p \o r) /\ (p = << >> => p \o r = << >>)
    <3>1. Bare(r) /\ (p = << >> => r = << >>)
      BY <1>2, <1>4, <1>8
    <3> QED BY <1>4, <3>1, HeaderFlushed, HeaderFacts
  <2>3. p # << >> => p \o r # << >>
    BY HeaderFlushed
  <2>4. ASSUME p \o r = << >>, NEW w \in Writers, pc'[w] # "idle" PROVE at'[w] <= k
    BY <1>1, <1>2, <1>8, <2>3, <2>4
  <2>5. p \o r = << >> => \A e \in Csv \ {c} : File[e] = File[c] => buffer'[e] = << >>
    BY <1>3, <1>4, <2>3
  <2>6. c \in open' => c \in open
    OBVIOUS
  <2> QED BY <1>1, <1>4, <1>5, <1>6, <2>1, <2>2, <2>3, <2>4, <2>5, <2>6 DEF HeaderInv, Log
<1>9. CASE File[c] # File[d]
  <2>1. Log(c)' = p /\ buffer'[c] = q /\ d # c
    BY <1>2, <1>3, <1>9 DEF Log
  <2>2. ASSUME p = << >>, NEW w \in Writers, pc'[w] # "idle" PROVE at'[w] <= k
    BY <1>1, <1>2, <2>1, <2>2
  <2>3. p = << >> => \A e \in Csv \ {c} : File[e] = File[c] => buffer'[e] = << >>
    BY <1>3, <1>4
  <2> QED BY <1>1, <1>4, <1>5, <1>6, <2>1, <2>2, <2>3 DEF HeaderInv, Log
<1> QED BY <1>7, <1>8, <1>9

(* A thread goes no further than the first backend while the file is empty.*)
LEMMA HeaderPlace ==
  ASSUME Typed, [Next]_vars, NEW k \in Positions, Backends[k] \in Csv \ Failing, HeaderInv(k),
         Log(Backends[k]) = << >>, NEW w \in Writers, pc'[w] # "idle"
  PROVE  at'[w] <= k \/ (pc[w] = "flush" /\ at[w] = k /\ FlushRow(w))
<1> USE DEF Typed
<1>1. at[w] \in Nat /\ k \in Nat /\ 1 <= k
  BY DEF ThreadTyped, Positions
<1>2. pc[w] # "idle" => at[w] <= k
  BY DEF HeaderInv
<1>3. ASSUME NEW v \in Writers, Call(v) PROVE at'[w] <= k
  <2>1. v = w => at'[w] = 1
    BY <1>3 DEF Call, ThreadTyped
  <2>2. v # w => pc'[w] = pc[w] /\ at'[w] = at[w]
    BY <1>3 DEF Call, ThreadTyped
  <2> QED BY <1>1, <1>2, <2>1, <2>2
<1>4. ASSUME NEW v \in Writers, NextBackend(v), pc[v] # "idle",
             Here(v) = Backends[k] => FlushRow(v)
      PROVE  at'[w] <= k \/ (pc[w] = "flush" /\ at[w] = k /\ FlushRow(w))
  <2>1. /\ \A u \in Writers \ {v} : pc'[u] = pc[u] /\ at'[u] = at[u]
        /\ \/ pc'[v] = "idle" /\ at'[v] = at[v] /\ at[v] = Len(Backends)
           \/ pc'[v] = "call" /\ at'[v] = at[v] + 1 /\ at[v] < Len(Backends)
    BY <1>4, NextBackendFacts
  <2>2. CASE v = w
    <3>1. at[w] = k => FlushRow(w) /\ pc[w] = "flush"
      BY <1>4, <2>2 DEF Here, FlushRow, At
    <3> QED BY <1>1, <1>2, <1>4, <2>1, <2>2, <3>1
  <2>3. CASE v # w
    BY <1>2, <2>1, <2>3
  <2> QED BY <2>2, <2>3
<1>5. ASSUME NEW v \in Writers, OpenFile(v) \/ WriteRow(v) PROVE at'[w] <= k
  <2>1. at' = at /\ pc[v] # "idle" /\ \A u \in Writers \ {v} : pc'[u] = pc[u]
    BY <1>5, GotoFacts DEF OpenFile, WriteRow, At
  <2> QED BY <1>2, <2>1
<1>6. ASSUME NEW v \in Writers, OpenFails(v) \/ FlushRow(v) \/ RowFails(v) \/ InfluxNext(v)
      PROVE  at'[w] <= k \/ (pc[w] = "flush" /\ at[w] = k /\ FlushRow(w))
  <2>1. NextBackend(v) /\ pc[v] # "idle"
    BY <1>6
       DEF OpenFails, FlushRow, RowFails, InfluxNext, EnqueueRefused, Enqueue, EnqueueDisables, At
  <2>2. Here(v) = Backends[k] => FlushRow(v)
    BY <1>6, Config DEF OpenFails, RowFails, InfluxNext, EnqueueRefused, Enqueue, EnqueueDisables
  <2> QED BY <1>4, <2>1, <2>2
<1>7. CASE EndProcess
  BY <1>7 DEF EndProcess
<1>8. CASE (\E c \in Csv : Spill(c)) \/ (\E i \in Influx : SettleBatch(i)) \/ Shutdown \/ CloseAll
           \/ UNCHANGED vars
  <2>1. UNCHANGED <<pc, at>>
    BY <1>8 DEF Spill, SettleBatch, Shutdown, CloseAll, CloseCsv, Detach, SettleTail, Disconnect,
                vars, threads
  <2> QED BY <1>2, <2>1
<1> QED BY <1>3, <1>5, <1>6, <1>7, <1>8 DEF Next, CsvNext

LEMMA HeaderStep ==
  ASSUME Typed, [Next]_vars, NEW k \in Positions, Backends[k] \in Csv \ Failing, FirstOnFile(k),
         HeaderInv(k)
  PROVE  HeaderInv(k)'
<1> USE DEF Typed
<1>1. PICK c \in Csv : c = Backends[k] /\ c \notin Failing
  OBVIOUS
<1>2. /\ Headed(Log(c)) /\ (Log(c) # << >> => Bare(buffer[c]))
      /\ Log(c) = << >> => (c \in open => Headed(buffer[c]) /\ buffer[c] # << >>)
      /\ Log(c) = << >> => \A e \in Csv \ {c} : File[e] = File[c] => buffer[e] = << >>
      /\ \A e \in Csv \ {c} : File[e] = File[c] => Bare(buffer[e])
      /\ c \notin open => buffer[c] = << >>
  BY <1>1 DEF HeaderInv
<1>3. ASSUME UNCHANGED <<disk, buffer, open>> PROVE HeaderInv(k)'
  <2>1. Log(c)' = Log(c)
    BY <1>3 DEF Log
  <2>2. ASSUME Log(c) = << >>, NEW w \in Writers, pc'[w] # "idle" PROVE at'[w] <= k
    <3>1. ~(FlushRow(w) /\ at[w] = k)
      <4> SUFFICES ASSUME FlushRow(w), at[w] = k PROVE FALSE
        OBVIOUS
      <4>1. c \in open /\ Here(w) = c
        BY <1>1 DEF FlushRow, At, Locking, Here
      <4>2. buffer'[c] = << >>
        BY <4>1 DEF FlushRow, CsvTyped
      <4> QED BY <1>2, <1>3, <2>2, <4>1, <4>2
    <3> QED BY <1>1, <2>2, <3>1, HeaderPlace
  <2> QED BY <1>1, <1>2, <1>3, <2>1, <2>2 DEF HeaderInv, Log
<1>4. ASSUME NEW w \in Writers, OpenFile(w) PROVE HeaderInv(k)'
  <2>1. PICK d \in Csv : d = Here(w)
    BY <1>4 DEF OpenFile
  <2>2. UNCHANGED disk /\ open' = open \cup {d} /\ pc[w] # "idle"
        /\ buffer' = IF d \in open THEN buffer ELSE [buffer EXCEPT ![d] = FirstLines(d)]
    BY <1>4, <2>1 DEF OpenFile, At
  <2>3. Log(c)' = Log(c) /\ Log(d)' = Log(d)
    BY <2>2 DEF Log
  <2>4. ASSUME Log(c) = << >>, NEW v \in Writers, pc'[v] # "idle" PROVE at'[v] <= k
    <3>1. at' = at /\ pc[v] # "idle"
      BY <1>4, <2>2, <2>4, GotoFacts DEF OpenFile
    <3> QED BY <1>1, <2>4, <3>1 DEF HeaderInv
  <2>5. CASE d \in open
    BY <1>3, <2>2, <2>5
  <2>6. CASE d \notin open /\ d = c
    <3>1. buffer'[c] = FirstLines(c) /\ \A e \in Csv \ {c} : buffer'[e] = buffer[e]
      BY <2>2, <2>6 DEF CsvTyped
    <3>2. FirstLines(c) = IF Log(c) = << >> THEN <<Header>> ELSE << >>
      BY DEF FirstLines, Log
    <3> QED BY <1>1, <1>2, <2>2, <2>3, <2>4, <2>6, <3>1, <3>2, HeaderFacts DEF HeaderInv, Log
  <2>7. CASE d \notin open /\ d # c
    <3>1. buffer'[d] = FirstLines(d) /\ \A e \in Csv \ {d} : buffer'[e] = buffer[e]
      BY <2>2, <2>7 DEF CsvTyped
    <3>2. File[d] = File[c] => Log(c) # << >> /\ FirstLines(d) = << >>
      <4>1. ASSUME File[d] = File[c] PROVE Log(c) # << >>
        BY <1>1, <2>1, <2>2, <2>7, <4>1, PastTheFirst
      <4> QED BY <4>1 DEF FirstLines, Log
    <3> QED BY <1>1, <1>2, <2>2, <2>3, <2>4, <2>7, <3>1, <3>2, HeaderFacts DEF HeaderInv, Log
  <2> QED BY <2>5, <2>6, <2>7
<1>5. ASSUME NEW w \in Writers, WriteRow(w) PROVE HeaderInv(k)'
  <2>1. PICK d \in Csv : d = Here(w) /\ d \in open
    BY <1>5 DEF WriteRow, Locking, At
  <2>2. PICK e \in Lines : e = Row(d, w, made[w]) /\ e # Header
    BY LineFacts, HeaderFacts DEF ThreadTyped
  <2>3. UNCHANGED <<disk, open>> /\ pc[w] # "idle" /\ Log(c)' = Log(c)
        /\ buffer'[d] = Append(buffer[d], e) /\ \A b \in Csv \ {d} : buffer'[b] = buffer[b]
    BY <1>5, <2>1, <2>2 DEF WriteRow, At, Log, CsvTyped
  <2>4. ASSUME Log(c) = << >>, NEW v \in Writers, pc'[v] # "idle" PROVE at'[v] <= k
    <3>1. at' = at /\ pc[v] # "idle"
      BY <1>5, <2>3, <2>4, GotoFacts DEF WriteRow
    <3> QED BY <1>1, <2>4, <3>1 DEF HeaderInv
  <2>5. /\ Bare(buffer[d]) => Bare(buffer'[d])
        /\ Headed(buffer[d]) /\ buffer[d] # << >> => Headed(buffer'[d])
        /\ buffer'[d] # << >>
    BY <2>2, <2>3, HeaderAppended DEF CsvTyped
  <2>6. CASE d = c
    BY <1>1, <1>2, <2>1, <2>3, <2>4, <2>5, <2>6 DEF HeaderInv, Log
  <2>7. CASE d # c
    <3>1. File[d] = File[c] => Log(c) # << >>
      BY <1>1, <2>1, <2>3, <2>7, PastTheFirst
    <3> QED BY <1>1, <1>2, <2>1, <2>3, <2>4, <2>5, <2>7, <3>1 DEF HeaderInv, Log
  <2> QED BY <2>6, <2>7
<1>6. ASSUME NEW w \in Writers, FlushRow(w) PROVE HeaderInv(k)'
  <2>1. PICK d \in Csv : d = Here(w) /\ holder[d] = w
    BY <1>6 DEF FlushRow, Locking, At
  <2>2. /\ disk' = [disk EXCEPT ![File[d]] = @ \o buffer[d]]
        /\ buffer' = [buffer EXCEPT ![d] = << >>] /\ open' = open
        /\ holder' = [holder EXCEPT ![d] = "nobody"]
    BY <1>6, <2>1 DEF FlushRow, Release
  <2>3. ASSUME NEW v \in Writers, FlushRow(v) PROVE Here(v) = d
    <3>1. Here(v) \in Csv /\ holder[Here(v)] = v /\ holder' = [holder EXCEPT ![Here(v)] = "nobody"]
      BY <2>3 DEF FlushRow, Release, Locking, At
    <3> QED BY <2>2, <3>1, Config DEF CsvTyped
  <2>4. Log(c) = << >> => \A v \in Writers : pc'[v] # "idle" =>
          at'[v] <= k \/ (pc[v] = "flush" /\ at[v] = k /\ d = c)
    BY <1>1, <2>3, HeaderPlace DEF Here
  <2> QED BY <1>1, <2>2, <2>4, HeaderFlush
<1>7. ASSUME NEW d \in Csv, Spill(d) PROVE HeaderInv(k)'
  <2>1. Log(c) = << >> => \A v \in Writers : pc'[v] # "idle" => at'[v] <= k
    BY <1>1, <1>7 DEF Spill, threads, HeaderInv
  <2> QED BY <1>1, <1>7, <2>1, HeaderFlush DEF Spill
<1>8. CASE CloseCsv
  <2>1. PICK d \in Csv : d = Closing
    BY <1>8 DEF CloseCsv
  <2>2. open' = open \ {d} /\ buffer' = [buffer EXCEPT ![d] = << >>]
    BY <1>8, <2>1 DEF CloseCsv
  <2>3. Log(c) = << >> => \A v \in Writers : pc'[v] # "idle" => at'[v] <= k
    BY <1>1, <1>8 DEF CloseCsv, threads, HeaderInv
  <2>4. CASE disk' = [disk EXCEPT ![File[d]] = @ \o buffer[d]]
    BY <1>1, <2>2, <2>3, <2>4, HeaderFlush
  <2>5. CASE d \in Failing /\ UNCHANGED disk
    <3>1. /\ d # c /\ Log(c)' = Log(c) /\ buffer'[c] = buffer[c] /\ (c \in open' <=> c \in open)
          /\ \A e \in Csv : buffer'[e] \in {buffer[e], << >>}
      BY <1>1, <2>2, <2>5 DEF Log, CsvTyped
    <3> QED BY <1>1, <1>2, <2>3, <3>1, HeaderFacts DEF HeaderInv, Log
  <2> QED BY <1>8, <2>1, <2>4, <2>5 DEF CloseCsv
<1>9. CASE EndProcess
  <2>1. /\ Log(c)' = Log(c) /\ \A e \in Csv : buffer'[e] = << >>
        /\ open' = {} /\ \A w \in Writers : pc'[w] = "idle"
    BY <1>9 DEF EndProcess, Log
  <2> QED BY <1>1, <1>2, <2>1, HeaderFacts DEF HeaderInv, Log
<1>10. CASE \/ \E w \in Writers : Call(w) \/ OpenFails(w) \/ RowFails(w) \/ InfluxNext(w)
            \/ (\E i \in Influx : SettleBatch(i)) \/ Shutdown
            \/ Detach \/ SettleTail \/ Disconnect \/ UNCHANGED vars
  BY <1>3, <1>10
     DEF Call, OpenFails, RowFails, InfluxNext, EnqueueRefused, Enqueue, EnqueueDisables, SettleBatch,
         Shutdown, Detach, SettleTail, Disconnect, vars, csv
<1> QED BY <1>4, <1>5, <1>6, <1>7, <1>8, <1>9, <1>10 DEF Next, CsvNext, CloseAll

HeadersInv ==
  \A k \in Positions : Backends[k] \in Csv \ Failing /\ FirstOnFile(k) => HeaderInv(k)

(* A file has one header, on its first line: for any backends on one file, *)
(* over any runs and reopenings, unless the first of them refused.         *)
THEOREM HeaderOnceHolds == Spec => []HeaderOnce
<1>1. Init => HeadersInv
  BY HeaderInit DEF HeadersInv
<1>2. Typed /\ HeadersInv /\ [Next]_vars => HeadersInv'
  <2> SUFFICES ASSUME Typed, HeadersInv, [Next]_vars, NEW k \in Positions,
                      Backends[k] \in Csv \ Failing, FirstOnFile(k)
               PROVE  HeaderInv(k)'
    BY DEF HeadersInv, FirstOnFile
  <2> QED BY HeaderStep DEF HeadersInv
<1>3. HeadersInv => HeaderOnce
  BY DEF HeadersInv, HeaderInv, HeaderOnce, Headed, Log
<1> QED BY <1>1, <1>2, <1>3, InitTyped, NextTyped, PTL DEF Spec
=============================================================================
