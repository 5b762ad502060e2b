----------------------------- MODULE DecisionLog -----------------------------
(***************************************************************************)
(* api/decisions.py: the bounded history of algorithm decisions behind     *)
(* GET /decisions.  One lock covers the ring and the counter, so a record  *)
(* and a page are one atomic step each; the timestamp of a record is read  *)
(* by its caller before the lock is taken.                                 *)
(***************************************************************************)
EXTENDS Integers, Sequences, FiniteSets

CONSTANT Capacity   \* _capacity, at least 1

ASSUME CapacityAssumption == Capacity \in Nat \ {0}

VARIABLES records,   \* _records: deque(maxlen=_capacity)
          total,     \* _total: the highest seq ever assigned
          epoch      \* _epoch: the identity of this process's sequence

log == <<records, total, epoch>>

LogInit == records = <<>> /\ total = 0 /\ epoch = 1

(* A new process: the sequence restarts at 1 under another identity. *)
LogRestart == records' = <<>> /\ total' = 0 /\ epoch' = epoch + 1

(* deque(maxlen): appending to a full ring evicts the oldest record. *)
Ring(s) == IF Len(s) > Capacity THEN Tail(s) ELSE s

Decision(time, algorithm, command) ==
  [seq |-> total + 1, time |-> time, algorithm |-> algorithm, command |-> command]

Record(decision) ==
  /\ total' = decision.seq
  /\ records' = Ring(Append(records, decision))
  /\ UNCHANGED epoch

(* Mutant: an exclusive cursor read as an inclusive one. *)
Older_Inclusive(after) == {i \in 1..Len(records) : records[i].seq < after}

(* The positions a page after this cursor leaves out.  seq ascends in the  *)
(* ring, so they are a prefix of it and the comprehension keeps the rest.  *)
Older(after) == {i \in 1..Len(records) : records[i].seq <= after}

(* Evicted between the cursor and the oldest record still held. *)
Missed(after) ==
  IF records # <<>> /\ records[1].seq > after + 1 THEN records[1].seq - after - 1 ELSE 0

HasMore(newer, most) == most > 0 /\ newer > most

Page(cursor, limit) ==
  LET after == IF cursor < 0 THEN 0 ELSE cursor
      most  == IF limit < 0 THEN 0 ELSE IF limit < Capacity THEN limit ELSE Capacity
      held  == Len(records)
      older == Cardinality(Older(after))
      last  == IF older + most < held THEN older + most ELSE held
  IN  [decisions |-> SubSeq(records, older + 1, last),
       missed    |-> Missed(after),
       next      |-> IF most = 0 THEN total
                     ELSE IF older < last THEN records[last].seq ELSE after,
       more      |-> HasMore(held - older, most),
       epoch     |-> epoch]
=============================================================================
