---------------------------- MODULE DecisionFeed ----------------------------
(***************************************************************************)
(* How a decision leaves an algorithm: StorageManager's funnel records it  *)
(* in the DecisionLog and then hands it to every storage backend, each of  *)
(* which reads the clock for itself and appends under a lock of its own;   *)
(* a client of GET /decisions follows the log with a cursor.               *)
(*                                                                         *)
(* The algorithms decide inside main(), and the rounds of Backtest, which  *)
(* Lockstep implements, say when main() runs while a replay drives the     *)
(* clock.                                                                  *)
(***************************************************************************)
EXTENDS DecisionLog

CONSTANTS
  Algorithms,
  Backends,       \* the storage backends, in registration order
  Failing,        \* the backends whose write may raise
  Replayed,       \* a replay drives the clock when the process starts
  Limits,         \* the limits a polling client sends, {} when nobody polls
  FirstCursors,   \* the cursors a client may start from
  MaxDecisions,   \* BOUND: decisions of one algorithm in one process
  MaxRounds,      \* BOUND: timesteps of a replay
  MaxWall,        \* BOUND: ticks of the wall clock
  MaxEpochs       \* BOUND: processes

ASSUME FeedAssumption ==
  /\ Limits \subseteq Int \ {0} /\ FirstCursors \subseteq {-1, 0}
  /\ Replayed \in BOOLEAN
  /\ Len(Backends) \in Nat /\ Failing \subseteq {Backends[k] : k \in 1..Len(Backends)}
  /\ {MaxDecisions, MaxRounds, MaxWall, MaxEpochs} \subseteq Nat

VARIABLES
  now, member, busy, handled,   \* the rounds of Backtest
  replaying,   \* get_step_time() answers a step, not None
  wall,        \* the wall clock
  made,        \* per algorithm, the decisions it took: the last is in progress
  pc,          \* "free", reading the clock, or about to write with it
  at,          \* the surface being written: 0 the log, k the k-th backend
  stamp,       \* the timestamp read for that surface
  rows,        \* per backend, the rows this process wrote
  journal,     \* HISTORY: every record of this process
  cursor, seen,         \* the client: its cursor and the epoch it follows
  start, got, lost,     \* where it began, what it received and was told it missed
  more                  \* has_more of its last page

rounds == <<now, member, busy, handled>>
funnel == <<made, pc, at, stamp, rows, journal>>
client == <<cursor, seen, start, got, lost, more>>
vars == <<log, rounds, replaying, wall, funnel, client>>

Rounds == INSTANCE Backtest WITH Views <- {0}, view <- 0, round <- now

Surfaces == 1..Len(Backends)
NoStamp == [clock |-> "none", time |-> 0]

Init ==
  /\ LogInit
  /\ now = 0 /\ member = Algorithms /\ busy = {}
  /\ handled = [a \in Algorithms |-> 0]
  /\ replaying = Replayed /\ wall = 0
  /\ made = [a \in Algorithms |-> 0]
  /\ pc = [a \in Algorithms |-> "free"]
  /\ at = [a \in Algorithms |-> 0]
  /\ stamp = [a \in Algorithms |-> NoStamp]
  /\ rows = [k \in Surfaces |-> <<>>] /\ journal = <<>>
  /\ cursor \in FirstCursors /\ seen = epoch
  /\ start = 0 /\ got = <<>> /\ lost = 0 /\ more = FALSE

---------------------------------------------------------------------------
(* The clock and main(). *)

OpenRound ==
  /\ replaying /\ now < MaxRounds /\ Rounds!Open
  /\ UNCHANGED <<log, replaying, wall, funnel, client>>

(* SimulationClock.reset(): the replay ended, or was stopped under main(). *)
ClearClock ==
  /\ replaying /\ replaying' = FALSE
  /\ UNCHANGED <<log, rounds, wall, funnel, client>>

WallTick ==
  /\ wall < MaxWall /\ wall' = wall + 1
  /\ UNCHANGED <<log, rounds, replaying, funnel, client>>

(* An algorithm no step ever reached runs on the wall clock. *)
BeginLive(a) ==
  /\ ~replaying /\ handled[a] = 0 /\ a \in member \ busy
  /\ busy' = busy \cup {a} /\ UNCHANGED <<now, member, handled>>

BeginMain(a) ==
  /\ (replaying /\ Rounds!Begin(a)) \/ BeginLive(a)
  /\ UNCHANGED <<log, replaying, wall, funnel, client>>

(* Mutant: main() returns while its decision is still being written. *)
EndMain_Detached(a) ==
  /\ Rounds!End(a)
  /\ UNCHANGED <<log, replaying, wall, funnel, client>>

EndMain(a) ==
  /\ pc[a] = "free" /\ Rounds!End(a)
  /\ UNCHANGED <<log, replaying, wall, funnel, client>>

Withdraw(a) ==
  /\ Rounds!Withdraw(a)
  /\ UNCHANGED <<log, replaying, wall, funnel, client>>

---------------------------------------------------------------------------
(* Algorithm.control_device and the funnel. *)

(* The transport accepted the command.  One it refused, or raised on,      *)
(* never reaches the funnel.                                               *)
Control(a) ==
  /\ a \in busy /\ pc[a] = "free" /\ made[a] < MaxDecisions
  /\ made' = [made EXCEPT ![a] = @ + 1]
  /\ pc' = [pc EXCEPT ![a] = "stamp"] /\ at' = [at EXCEPT ![a] = 0]
  /\ UNCHANGED <<log, rounds, replaying, wall, stamp, rows, journal, client>>

(* decision_timestamp(): the committed step, or the wall clock for want of *)
(* one.  Each surface calls it, outside its own lock.                      *)
DecisionTimestamp ==
  IF replaying THEN [clock |-> "step", time |-> now] ELSE [clock |-> "wall", time |-> wall]

ReadClock(a) ==
  /\ pc[a] = "stamp" /\ pc' = [pc EXCEPT ![a] = "write"]
  /\ stamp' = [stamp EXCEPT ![a] = DecisionTimestamp]
  /\ UNCHANGED <<log, rounds, replaying, wall, made, at, rows, journal, client>>

(* On to the next surface, or back to main(). *)
NextSurface(a) ==
  IF at[a] < Len(Backends)
  THEN at' = [at EXCEPT ![a] = @ + 1] /\ pc' = [pc EXCEPT ![a] = "stamp"]
  ELSE pc' = [pc EXCEPT ![a] = "free"] /\ UNCHANGED at

WriteLog(a) ==
  /\ pc[a] = "write" /\ at[a] = 0
  /\ LET decision == Decision(stamp[a], a, made[a])
     IN  Record(decision) /\ journal' = Append(journal, decision)
  /\ NextSurface(a)
  /\ UNCHANGED <<rounds, replaying, wall, made, stamp, rows, client>>

Row(a) == [time |-> stamp[a], algorithm |-> a, command |-> made[a]]

(* Mutant: the first backend that raises ends the fan-out. *)
WriteBackend_Unisolated(a) ==
  /\ pc[a] = "write" /\ at[a] > 0
  /\ \/ rows' = [rows EXCEPT ![at[a]] = Append(@, Row(a))] /\ NextSurface(a)
     \/ /\ Backends[at[a]] \in Failing /\ UNCHANGED <<rows, at>>
        /\ pc' = [pc EXCEPT ![a] = "free"]
  /\ UNCHANGED <<log, rounds, replaying, wall, made, stamp, journal, client>>

(* _fan_out: what one backend raises is logged and the next one is called. *)
WriteBackend(a) ==
  /\ pc[a] = "write" /\ at[a] > 0
  /\ \/ rows' = [rows EXCEPT ![at[a]] = Append(@, Row(a))]
     \/ Backends[at[a]] \in Failing /\ UNCHANGED rows
  /\ NextSurface(a)
  /\ UNCHANGED <<log, rounds, replaying, wall, made, stamp, journal, client>>

---------------------------------------------------------------------------
(* The client of GET /decisions, and the death of the process it polls. *)

Follow(page) ==
  /\ cursor' = page.next /\ more' = page.more
  /\ got' = got \o page.decisions /\ lost' = lost + page.missed
  /\ UNCHANGED <<seen, start>>

(* Mutant: the cursor of the dead process is kept. *)
StartOver_KeepsCursor(page) ==
  /\ seen' = page.epoch /\ start' = 0
  /\ got' = <<>> /\ lost' = 0 /\ more' = FALSE /\ UNCHANGED cursor

(* A page of another epoch is dropped, and the new sequence read from its  *)
(* oldest record.                                                          *)
StartOver(page) ==
  /\ seen' = page.epoch /\ cursor' = 0 /\ start' = 0
  /\ got' = <<>> /\ lost' = 0 /\ more' = FALSE

(* Mutant: the client does not look at the epoch. *)
Poll_IgnoresEpoch(limit) ==
  Follow(Page(cursor, limit)) /\ UNCHANGED <<log, rounds, replaying, wall, funnel>>

Poll(limit) ==
  /\ LET page == Page(cursor, limit)
     IN  IF page.epoch = seen THEN Follow(page) ELSE StartOver(page)
  /\ UNCHANGED <<log, rounds, replaying, wall, funnel>>

(* limit=0: begin at the head of the log, and be sent nothing. *)
Seek ==
  /\ Limits # {}
  /\ LET page == Page(cursor, 0)
     IN  cursor' = page.next /\ start' = page.next /\ seen' = page.epoch
  /\ got' = <<>> /\ lost' = 0 /\ more' = FALSE
  /\ UNCHANGED <<log, rounds, replaying, wall, funnel>>

Restart ==
  /\ epoch < MaxEpochs /\ LogRestart
  /\ now' = 0 /\ member' = Algorithms /\ busy' = {}
  /\ handled' = [a \in Algorithms |-> 0]
  /\ replaying' = Replayed
  /\ made' = [a \in Algorithms |-> 0]
  /\ pc' = [a \in Algorithms |-> "free"] /\ at' = [a \in Algorithms |-> 0]
  /\ stamp' = [a \in Algorithms |-> NoStamp]
  /\ rows' = [k \in Surfaces |-> <<>>] /\ journal' = <<>>
  /\ UNCHANGED <<wall, client>>

---------------------------------------------------------------------------
AlgorithmNext(a) ==
  \/ BeginMain(a) \/ EndMain(a) \/ Withdraw(a)
  \/ Control(a) \/ ReadClock(a) \/ WriteLog(a) \/ WriteBackend(a)

PollNext == \E limit \in Limits : Poll(limit)

Next ==
  \/ OpenRound \/ ClearClock \/ WallTick
  \/ \E a \in Algorithms : AlgorithmNext(a)
  \/ PollNext \/ Seek \/ Restart

Spec == Init /\ [][Next]_vars

(* The client goes on polling. *)
PollingSpec == Spec /\ WF_vars(PollNext)

---------------------------------------------------------------------------
(* Properties. *)

Stamps == [clock : {"none", "step", "wall"}, time : Nat]
Decisions == [seq : Nat \ {0}, time : Stamps, algorithm : Algorithms, command : Nat]
RowSeqs == Seq([time : Stamps, algorithm : Algorithms, command : Nat])

LogTypes ==
  records \in Seq(Decisions) /\ journal \in Seq(Decisions) /\ total \in Nat /\ epoch \in Nat
ClientTypes ==
  /\ cursor \in Nat \cup {-1} /\ seen \in Nat /\ start \in Nat /\ lost \in Nat
  /\ got \in Seq(Decisions) /\ more \in BOOLEAN
RoundTypes ==
  /\ now \in Nat /\ wall \in Nat /\ replaying \in BOOLEAN
  /\ member \subseteq Algorithms /\ busy \subseteq Algorithms
  /\ handled \in [Algorithms -> Nat]
FunnelTypes ==
  /\ made \in [Algorithms -> Nat]
  /\ pc \in [Algorithms -> {"free", "stamp", "write"}]
  /\ at \in [Algorithms -> 0..Len(Backends)]
  /\ stamp \in [Algorithms -> Stamps]

(* Every variable stays within its type. *)
TypeOK ==
  LogTypes /\ ClientTypes /\ RoundTypes /\ FunnelTypes /\ rows \in [Surfaces -> RowSeqs]

(* The ring holds the newest records of the process, contiguous and in     *)
(* order, and seq says where each stands in the whole history.             *)
LogWindow ==
  /\ Len(journal) = total
  /\ Len(records) = IF total < Capacity THEN total ELSE Capacity
  /\ \A i \in 1..Len(records) :
       /\ records[i].seq = total - Len(records) + i
       /\ records[i] = journal[records[i].seq]

(* A client that passes next_cursor back verbatim accounts for every       *)
(* decision up to its cursor: it received it, once and in order, or was    *)
(* told by "missed" that it is gone.  Nothing is skipped in silence, over  *)
(* any interleaving of evictions, truncated pages, seeks and restarts.     *)
FeedAccounts ==
  /\ start + Len(got) + lost = IF cursor < 0 THEN 0 ELSE cursor
  /\ \A i \in 1..Len(got) :
       /\ got[i].seq > start /\ got[i].seq <= cursor
       /\ \A j \in 1..(i - 1) : got[j].seq < got[i].seq

(* What the client received is what the process it follows recorded.       *)
FeedFaithful ==
  seen = epoch =>
    /\ cursor <= total
    /\ \A i \in 1..Len(got) : got[i] = journal[got[i].seq]

(* The inductive strengthening: the client follows no process to come.     *)
IInv == TypeOK /\ LogWindow /\ FeedAccounts /\ FeedFaithful /\ seen <= epoch

(* A client that goes on polling gets past the last decision of the last   *)
(* process, for the bounds let both come to an end: a cursor kept over a   *)
(* restart never leaves it waiting for a seq the new process has not       *)
(* reached.                                                                *)
CatchesUp == <>[](seen = epoch /\ cursor = total)

Written(a, k) ==   \* the decisions of a that have passed surface k
  IF pc[a] = "free" \/ at[a] > k THEN made[a] ELSE made[a] - 1

(* A surface holds the first n decisions of an algorithm and no other. *)
Holds(surface, a, n) ==
  LET own == {i \in 1..Len(surface) : surface[i].algorithm = a}
  IN  /\ \A i, j \in own : i < j => surface[i].command < surface[j].command
      /\ \A i \in own : surface[i].command \in 1..n
      /\ \A c \in 1..n : \E i \in own : surface[i].command = c

(* Every surface that does not fail holds every decision of every          *)
(* algorithm, once, in the order the algorithm took them, whatever the     *)
(* other backends and the other algorithms do.                             *)
NoDecisionLost ==
  \A a \in Algorithms :
    /\ Holds(journal, a, Written(a, 0))
    /\ \A k \in Surfaces : Backends[k] \notin Failing => Holds(rows[k], a, Written(a, k))

SameTime(row) ==
  \A i \in 1..Len(journal) :
    journal[i].algorithm = row.algorithm /\ journal[i].command = row.command
      => journal[i].time = row.time

(* The endpoint and the CSV never disagree about when a decision happened, *)
(* although each reads the clock for itself (decision_timestamp), while a  *)
(* replay with an unlimited step timeout drives the clock: no round opens  *)
(* under a decision that is being written.  On the wall clock they do.     *)
SameStampInReplay ==
  replaying => \A k \in Surfaces : \A i \in 1..Len(rows[k]) : SameTime(rows[k][i])
=============================================================================
