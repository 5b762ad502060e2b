------------------------- MODULE DecisionFeedProofs -------------------------
(***************************************************************************)
(* Theorems about DecisionFeed, for any algorithms and backends, any ring  *)
(* capacity, and any positive limits a client may send.                    *)
(***************************************************************************)
EXTENDS DecisionFeed, FiniteSetTheorems, TLAPS

(* How many records were evicted since the process started. *)
Evicted == total - Len(records)

After(c) == IF c < 0 THEN 0 ELSE c

(* The positions a page leaves out are an interval, so how many there are  *)
(* is plain arithmetic on the cursor.                                      *)
LEMMA OlderCount ==
  ASSUME LogTypes, LogWindow, NEW after \in Nat
  PROVE  /\ Cardinality(Older(after)) \in 0..Len(records)
         /\ after <= Evicted => Cardinality(Older(after)) = 0
         /\ after > Evicted /\ after <= total => Cardinality(Older(after)) = after - Evicted
         /\ after > total => Cardinality(Older(after)) = Len(records)
<1> DEFINE n == IF after <= Evicted THEN 0
                ELSE IF after <= total THEN after - Evicted ELSE Len(records)
<1>1. Len(records) \in Nat /\ Evicted \in Nat /\ total = Evicted + Len(records)
  BY CapacityAssumption DEF LogTypes, LogWindow, Evicted
<1>2. n \in 0..Len(records)
  BY <1>1
<1>3. Older(after) = 1..n
  BY <1>1 DEF Older, LogWindow, Evicted
<1>4. Cardinality(1..n) = n
  <2> HIDE DEF n
  <2>1. n \in Int /\ 1 \in Int /\ n >= 0
    BY <1>1, <1>2
  <2> QED BY <2>1, FS_Interval
<1> QED BY <1>1, <1>2, <1>3, <1>4

(* What a page answers, for any cursor and any positive limit: it moves    *)
(* the cursor by what it delivers and what it reports missed, and it       *)
(* delivers consecutive records, those right after the missed ones.        *)
LEMMA PageFacts ==
  ASSUME LogTypes, LogWindow, NEW c \in Nat \cup {-1}, NEW limit \in Nat \ {0}
  PROVE  LET p == Page(c, limit)
         IN  /\ p.decisions \in Seq(Decisions) /\ p.missed \in Nat /\ p.next \in Nat
             /\ p.next = After(c) + p.missed + Len(p.decisions)
             /\ After(c) <= total => p.next <= total
             /\ \A i \in 1..Len(p.decisions) :
                  /\ p.decisions[i].seq = After(c) + p.missed + i
                  /\ p.decisions[i] = journal[p.decisions[i].seq]
             /\ p.more \in BOOLEAN /\ p.epoch = epoch
<1> DEFINE after == After(c)
           most == IF limit < 0 THEN 0 ELSE IF limit < Capacity THEN limit ELSE Capacity
           held == Len(records)
           older == Cardinality(Older(after))
           last == IF older + most < held THEN older + most ELSE held
           p == Page(c, limit)
<1>1. after \in Nat /\ most \in Nat /\ most > 0 /\ held \in Nat
  BY CapacityAssumption DEF LogTypes, After
<1>2. Evicted \in Nat /\ total = Evicted + held
  BY CapacityAssumption DEF LogTypes, LogWindow, Evicted
<1>3. /\ older \in 0..held
      /\ after <= Evicted => older = 0
      /\ after > Evicted /\ after <= total => older = after - Evicted
      /\ after > total => older = held
  BY <1>1, OlderCount
<1>4. \A i \in 1..held : /\ records[i].seq = Evicted + i
                         /\ records[i] = journal[records[i].seq]
  BY DEF LogWindow, Evicted
<1>5. Missed(after) = IF held # 0 /\ Evicted > after THEN Evicted - after ELSE 0
  BY <1>1, <1>2, <1>4 DEF Missed, LogTypes
<1>6. held = 0 => total = 0
  BY <1>2, CapacityAssumption DEF LogWindow, LogTypes
<1>7. /\ p.decisions = SubSeq(records, older + 1, last)
      /\ p.missed = Missed(after)
      /\ p.next = IF older < last THEN records[last].seq ELSE after
      /\ p.more = HasMore(held - older, most) /\ p.epoch = epoch
  <2>1. most > 0 /\ most # 0
    BY <1>1
  <2>2. p = [decisions |-> SubSeq(records, older + 1, last),
             missed    |-> Missed(after),
             next      |-> IF most = 0 THEN total
                           ELSE IF older < last THEN records[last].seq ELSE after,
             more      |-> HasMore(held - older, most),
             epoch     |-> epoch]
    BY Zenon DEF Page, After
  <2> HIDE DEF p, after, most, held, older, last
  <2> QED BY <2>1, <2>2
<1> HIDE DEF p, most, older, after, held
<1>8. last \in older..held /\ (older < held => last > older)
  BY <1>1, <1>3
<1> HIDE DEF last
<1>9. /\ SubSeq(records, older + 1, last) \in Seq(Decisions)
      /\ Len(SubSeq(records, older + 1, last)) = last - older
      /\ \A i \in 1..(last - older) : SubSeq(records, older + 1, last)[i] = records[older + i]
  BY <1>1, <1>3, <1>8 DEF LogTypes, held
<1>10. Len(p.decisions) = last - older /\ last - older \in Nat
  BY <1>1, <1>3, <1>7, <1>8, <1>9
<1>11. \A i \in 1..Len(p.decisions) :
         /\ p.decisions[i].seq = Evicted + older + i
         /\ p.decisions[i] = journal[p.decisions[i].seq]
  <2> TAKE i \in 1..Len(p.decisions)
  <2>1. p.decisions[i] = records[older + i] /\ i \in Nat
    BY <1>7, <1>9, <1>10
  <2>2. older + i \in 1..held
    BY <1>1, <1>3, <1>8, <1>10
  <2>3. records[older + i].seq = Evicted + (older + i)
    BY <1>4, <2>2
  <2> QED BY <1>2, <1>3, <1>4, <2>1, <2>2, <2>3
<1>12. p.decisions \in Seq(Decisions) /\ p.missed \in Nat
  BY <1>1, <1>2, <1>5, <1>7, <1>9
<1>13. older < held => Evicted + older = after + p.missed
  BY <1>1, <1>2, <1>3, <1>5, <1>7
<1>14. ~(older < held) => p.missed = 0
  BY <1>1, <1>2, <1>3, <1>5, <1>6, <1>7
<1>15. p.next = after + p.missed + Len(p.decisions)
  <2>1. CASE older < held
    BY <2>1, <1>1, <1>2, <1>3, <1>4, <1>7, <1>8, <1>10, <1>12, <1>13
  <2>2. CASE ~(older < held)
    BY <2>2, <1>1, <1>3, <1>7, <1>8, <1>10, <1>14
  <2> QED BY <2>1, <2>2
<1>16. after <= total => p.next <= total
  BY <1>1, <1>2, <1>3, <1>4, <1>7, <1>8, SMTT(40)
<1>17. \A i \in 1..Len(p.decisions) : p.decisions[i].seq = after + p.missed + i
  BY <1>1, <1>2, <1>3, <1>8, <1>10, <1>11, <1>12, <1>13
<1>18. p.more \in BOOLEAN /\ p.epoch = epoch
  BY <1>7 DEF HasMore
<1> QED BY <1>1, <1>10, <1>11, <1>12, <1>15, <1>16, <1>17, <1>18 DEF p, after

---------------------------------------------------------------------------
(* Type correctness. *)

(* The ring keeps the newest records of the longer sequence. *)
LEMMA RingFacts ==
  ASSUME NEW s \in Seq(Decisions), Len(s) <= Capacity + 1
  PROVE  /\ Ring(s) \in Seq(Decisions)
         /\ Len(Ring(s)) = IF Len(s) > Capacity THEN Capacity ELSE Len(s)
         /\ \A i \in 1..Len(Ring(s)) : Ring(s)[i] = s[Len(s) - Len(Ring(s)) + i]
<1>1. CASE Len(s) > Capacity
  <2>1. Len(s) = Capacity + 1 /\ s # <<>>
    BY <1>1, CapacityAssumption
  <2>2. /\ Tail(s) \in Seq(Decisions) /\ Len(Tail(s)) = Capacity
        /\ \A i \in 1..Capacity : Tail(s)[i] = s[i + 1]
    BY <2>1, CapacityAssumption
  <2>3. Ring(s) = Tail(s)
    BY <1>1 DEF Ring
  <2> QED BY <1>1, <2>1, <2>2, <2>3, CapacityAssumption
<1>2. CASE ~(Len(s) > Capacity)
  BY <1>2, CapacityAssumption DEF Ring
<1> QED BY <1>1, <1>2

LEMMA SeqFacts ==
  /\ <<>> \in Seq(Decisions) /\ <<>> \in RowSeqs
  /\ \A s \in RowSeqs, r \in [time : Stamps, algorithm : Algorithms, command : Nat] :
       Append(s, r) \in RowSeqs
<1> DEFINE R == [time : Stamps, algorithm : Algorithms, command : Nat]
<1>1. RowSeqs = Seq(R)
  BY DEF RowSeqs
<1> HIDE DEF R
<1>2. <<>> \in Seq(Decisions) /\ <<>> \in Seq(R)
  OBVIOUS
<1>3. \A s \in Seq(R), r \in R : Append(s, r) \in Seq(R)
  OBVIOUS
<1> QED BY <1>1, <1>2, <1>3 DEF R

LEMMA InitInv == Init => IInv
<1> SUFFICES ASSUME Init PROVE IInv
  OBVIOUS
<1>1. LogTypes /\ ClientTypes
  <2>1. cursor \in {-1, 0} /\ seen = 1 /\ epoch = 1
    BY FeedAssumption DEF Init, LogInit
  <2>2. LogTypes
    BY <2>1, SeqFacts DEF Init, LogInit, LogTypes
  <2>3. cursor \in Nat \cup {-1}
    BY <2>1
  <2>4. seen \in Nat /\ start \in Nat /\ lost \in Nat
    <3>1. start = 0 /\ lost = 0
      BY DEF Init
    <3> QED BY <2>1, <3>1
  <2>6. more \in BOOLEAN
    BY DEF Init
  <2>5. got \in Seq(Decisions)
    BY SeqFacts DEF Init
  <2> QED BY <2>2, <2>3, <2>4, <2>5, <2>6 DEF ClientTypes
<1>2. RoundTypes /\ FunnelTypes
  BY FeedAssumption DEF Init, RoundTypes, FunnelTypes, NoStamp, Stamps
<1>3. rows \in [Surfaces -> RowSeqs]
  BY SeqFacts DEF Init
<1>4. LogWindow /\ FeedAccounts /\ FeedFaithful /\ seen <= epoch
  BY CapacityAssumption, FeedAssumption
     DEF Init, LogInit, LogWindow, FeedAccounts, FeedFaithful
<1> QED BY <1>1, <1>2, <1>3, <1>4 DEF IInv, TypeOK

(* The parts of the state that a step leaves alone keep their types. *)
LEMMA Frames ==
  /\ LogTypes /\ UNCHANGED <<log, journal>> => LogTypes'
  /\ ClientTypes /\ UNCHANGED client => ClientTypes'
  /\ RoundTypes /\ UNCHANGED <<rounds, replaying, wall>> => RoundTypes'
  /\ FunnelTypes /\ UNCHANGED <<made, pc, at, stamp>> => FunnelTypes'
  /\ rows \in [Surfaces -> RowSeqs] /\ UNCHANGED rows => rows' \in [Surfaces -> RowSeqs]
BY DEF LogTypes, log, ClientTypes, client, RoundTypes, rounds, FunnelTypes

(* Steps that touch neither the log nor the client. *)
Elsewhere == UNCHANGED <<log, journal, client>>

LEMMA ElsewhereInv ==
  IInv /\ Elsewhere =>
    (LogTypes /\ ClientTypes /\ LogWindow /\ FeedAccounts /\ FeedFaithful /\ seen <= epoch)'
<1> SUFFICES ASSUME IInv, Elsewhere
             PROVE  (LogTypes /\ ClientTypes /\ LogWindow /\ FeedAccounts /\ FeedFaithful
                       /\ seen <= epoch)'
  OBVIOUS
<1>1. LogTypes' /\ ClientTypes'
  BY Frames DEF IInv, TypeOK, Elsewhere
<1>2. (LogWindow /\ FeedAccounts /\ FeedFaithful /\ seen <= epoch)'
  BY DEF IInv, Elsewhere, log, client, LogWindow, FeedAccounts, FeedFaithful
<1> QED BY <1>1, <1>2

(* The clock and main(). *)
MainStep(a) ==
  OpenRound \/ ClearClock \/ WallTick \/ BeginMain(a) \/ EndMain(a) \/ Withdraw(a)

LEMMA MainSteps ==
  ASSUME IInv, NEW a, MainStep(a), OpenRound \/ ClearClock \/ WallTick \/ a \in Algorithms
  PROVE  IInv'
<1>1. UNCHANGED <<log, funnel, client>>
  BY DEF MainStep, OpenRound, ClearClock, WallTick, BeginMain, EndMain, Withdraw
<1>2. RoundTypes'
  <2> USE DEF IInv, TypeOK, RoundTypes, rounds
  <2>1. CASE OpenRound
    BY <2>1 DEF OpenRound, Rounds!Open
  <2>2. CASE ClearClock
    BY <2>2 DEF ClearClock
  <2>3. CASE WallTick
    BY <2>3 DEF WallTick
  <2>4. CASE a \in Algorithms /\ BeginMain(a)
    BY <2>4 DEF BeginMain, BeginLive, Rounds!Begin
  <2>5. CASE EndMain(a)
    BY <2>5 DEF EndMain, Rounds!End
  <2>6. CASE Withdraw(a)
    BY <2>6 DEF Withdraw, Rounds!Withdraw
  <2> QED BY <2>1, <2>2, <2>3, <2>4, <2>5, <2>6 DEF MainStep
<1>3. Elsewhere /\ UNCHANGED <<made, pc, at, stamp>> /\ UNCHANGED rows
  BY <1>1 DEF Elsewhere, funnel
<1>4. FunnelTypes' /\ rows' \in [Surfaces -> RowSeqs]
  BY <1>3, Frames DEF IInv, TypeOK
<1> QED BY <1>2, <1>3, <1>4, ElsewhereInv DEF IInv, TypeOK

(* Going on to the next surface keeps the cursor of the fan-out in range. *)
LEMMA NextSurfaceType ==
  ASSUME FunnelTypes, NEW a \in Algorithms, NextSurface(a)
  PROVE  /\ at' \in [Algorithms -> 0..Len(Backends)]
         /\ pc' \in [Algorithms -> {"free", "stamp", "write"}]
<1>1. CASE at[a] < Len(Backends)
  <2>1. at[a] + 1 \in 0..Len(Backends)
    BY <1>1, FeedAssumption DEF FunnelTypes
  <2> QED BY <1>1, <2>1 DEF FunnelTypes, NextSurface
<1>2. CASE ~(at[a] < Len(Backends))
  BY <1>2 DEF FunnelTypes, NextSurface
<1> QED BY <1>1, <1>2

(* The funnel, but for the log. *)
LEMMA FunnelSteps ==
  ASSUME IInv, NEW a \in Algorithms, Control(a) \/ ReadClock(a) \/ WriteBackend(a)
  PROVE  IInv'
<1>1. Elsewhere /\ UNCHANGED <<rounds, replaying, wall>>
  BY DEF Control, ReadClock, WriteBackend, Elsewhere
<1>2. FunnelTypes /\ RoundTypes /\ rows \in [Surfaces -> RowSeqs]
  BY DEF IInv, TypeOK
<1>3. FunnelTypes'
  <2>1. CASE Control(a)
    BY <1>2, <2>1, FeedAssumption DEF Control, FunnelTypes
  <2>2. CASE ReadClock(a)
    <3>1. DecisionTimestamp \in Stamps
      BY <1>2 DEF DecisionTimestamp, Stamps, RoundTypes
    <3> QED BY <1>2, <2>2, <3>1 DEF ReadClock, FunnelTypes
  <2>3. CASE WriteBackend(a)
    <3>1. NextSurface(a) /\ UNCHANGED <<made, stamp>>
      BY <2>3 DEF WriteBackend
    <3> QED BY <1>2, <3>1, NextSurfaceType DEF FunnelTypes
  <2> QED BY <2>1, <2>2, <2>3
<1>4. rows' \in [Surfaces -> RowSeqs]
  <2>1. CASE UNCHANGED rows
    BY <1>2, <2>1
  <2>2. CASE rows' = [rows EXCEPT ![at[a]] = Append(@, Row(a))] /\ at[a] > 0
    <3>1. at[a] \in Surfaces
      BY <1>2, <2>2, FeedAssumption DEF FunnelTypes, Surfaces
    <3>2. Row(a) \in [time : Stamps, algorithm : Algorithms, command : Nat]
      BY <1>2 DEF Row, FunnelTypes
    <3>3. Append(rows[at[a]], Row(a)) \in RowSeqs
      BY <1>2, <3>1, <3>2, SeqFacts
    <3> QED BY <1>2, <2>2, <3>1, <3>3
  <2> QED BY <2>1, <2>2 DEF Control, ReadClock, WriteBackend
<1>5. RoundTypes'
  BY <1>1, <1>2, Frames
<1> QED BY <1>1, <1>3, <1>4, <1>5, ElsewhereInv DEF IInv, TypeOK

---------------------------------------------------------------------------
(* The log grows. *)

LEMMA WriteLogInv ==
  ASSUME IInv, NEW a \in Algorithms, WriteLog(a)
  PROVE  IInv'
<1> DEFINE d == Decision(stamp[a], a, made[a])
           s == Append(records, d)
<1>1. LogTypes /\ LogWindow /\ made[a] \in Nat /\ stamp[a] \in Stamps
  BY DEF IInv, TypeOK, FunnelTypes
<1>2. d \in Decisions /\ d.seq = total + 1
  BY <1>1 DEF Decision, Decisions, LogTypes
<1>3. /\ total' = total + 1 /\ records' = Ring(s) /\ journal' = Append(journal, d)
      /\ UNCHANGED <<epoch, client, rounds, replaying, wall, made, stamp, rows>>
  BY <1>2 DEF WriteLog, Record
<1>4. /\ at' \in [Algorithms -> 0..Len(Backends)]
      /\ pc' \in [Algorithms -> {"free", "stamp", "write"}]
  BY NextSurfaceType DEF WriteLog, IInv, TypeOK
<1> HIDE DEF d
<1>5. /\ s \in Seq(Decisions) /\ Len(s) = Len(records) + 1 /\ s[Len(records) + 1] = d
      /\ \A i \in 1..Len(records) : s[i] = records[i]
  BY <1>1, <1>2 DEF LogTypes
<1>6. /\ journal' \in Seq(Decisions) /\ Len(journal') = total + 1 /\ journal'[total + 1] = d
      /\ \A i \in 1..total : journal'[i] = journal[i]
  BY <1>1, <1>2, <1>3 DEF LogTypes, LogWindow
<1> HIDE DEF s
<1>7. Len(records) \in Nat /\ total \in Nat /\ Capacity \in Nat \ {0}
      /\ Len(records) = IF total < Capacity THEN total ELSE Capacity
  BY <1>1, CapacityAssumption DEF LogTypes, LogWindow
<1>8. /\ records' \in Seq(Decisions)
      /\ Len(records') = IF Len(records) + 1 > Capacity THEN Capacity ELSE Len(records) + 1
      /\ \A i \in 1..Len(records') : records'[i] = s[Len(records) + 1 - Len(records') + i]
  BY <1>3, <1>5, <1>7, RingFacts
<1>9. TypeOK'
  <2>1. LogTypes'
    BY <1>1, <1>3, <1>6, <1>7, <1>8 DEF LogTypes
  <2>2. FunnelTypes'
    BY <1>3, <1>4 DEF IInv, TypeOK, FunnelTypes
  <2>3. ClientTypes' /\ RoundTypes' /\ rows' \in [Surfaces -> RowSeqs]
    BY <1>3, Frames DEF IInv, TypeOK
  <2> QED BY <2>1, <2>2, <2>3 DEF TypeOK
<1>10. \A i \in 1..(Len(records) + 1) :
         /\ s[i].seq = total - Len(records) + i
         /\ s[i] = journal'[s[i].seq]
  <2> TAKE i \in 1..(Len(records) + 1)
  <2>1. CASE i = Len(records) + 1
    BY <2>1, <1>2, <1>5, <1>6, <1>7
  <2>2. CASE i \in 1..Len(records)
    <3>1. s[i] = records[i] /\ records[i].seq = total - Len(records) + i
          /\ records[i] = journal[records[i].seq]
      BY <2>2, <1>1, <1>5 DEF LogWindow
    <3>2. total - Len(records) + i \in 1..total
      BY <2>2, <1>7
    <3> QED BY <3>1, <3>2, <1>6
  <2> QED BY <2>1, <2>2, <1>7
<1>11. LogWindow'
  <2>1. Len(journal') = total'
    BY <1>3, <1>6
  <2>2. Len(records') = IF total' < Capacity THEN total' ELSE Capacity
    BY <1>3, <1>7, <1>8
  <2>3. ASSUME NEW i \in 1..Len(records')
        PROVE  /\ records'[i].seq = total' - Len(records') + i
               /\ records'[i] = journal'[records'[i].seq]
    <3> DEFINE j == Len(records) + 1 - Len(records') + i
    <3>1. j \in 1..(Len(records) + 1) /\ records'[i] = s[j]
      BY <1>7, <1>8
    <3>2. total - Len(records) + j = total' - Len(records') + i
      BY <1>3, <1>7, <1>8
    <3> HIDE DEF j
    <3> QED BY <1>10, <3>1, <3>2
  <2> QED BY <2>1, <2>2, <2>3 DEF LogWindow
<1>12. FeedAccounts' /\ seen' <= epoch'
  BY <1>3 DEF IInv, FeedAccounts, client
<1>13. FeedFaithful'
  <2> SUFFICES ASSUME seen' = epoch' PROVE /\ cursor' <= total'
                  /\ \A i \in 1..Len(got') : got'[i] = journal'[got'[i].seq]
    BY DEF FeedFaithful
  <2>1. seen = epoch /\ got' = got /\ cursor' = cursor
    BY <1>3 DEF client
  <2>2. cursor <= total /\ cursor \in Int /\ start \in Nat /\ got \in Seq(Decisions)
    BY <2>1 DEF IInv, FeedFaithful, TypeOK, ClientTypes
  <2>3. \A i \in 1..Len(got) : got[i] \in Decisions /\ got[i].seq > start /\ got[i].seq <= cursor
    BY <2>2 DEF IInv, FeedAccounts
  <2>4. \A i \in 1..Len(got) : got[i].seq \in 1..total
    BY <2>2, <2>3, <1>7 DEF Decisions
  <2> QED BY <2>1, <2>2, <2>4, <1>3, <1>6, <1>7 DEF IInv, FeedFaithful
<1> QED BY <1>9, <1>11, <1>12, <1>13 DEF IInv

---------------------------------------------------------------------------
(* The client reads, and the process restarts. *)

LEMMA PollInv ==
  ASSUME IInv, NEW limit \in Nat \ {0}, Poll(limit)
  PROVE  IInv'
<1> DEFINE p == Page(cursor, limit)
<1>1. LogTypes /\ LogWindow /\ cursor \in Nat \cup {-1}
  BY DEF IInv, TypeOK, ClientTypes
<1>2. /\ p.decisions \in Seq(Decisions) /\ p.missed \in Nat /\ p.next \in Nat
      /\ p.next = After(cursor) + p.missed + Len(p.decisions)
      /\ After(cursor) <= total => p.next <= total
      /\ \A i \in 1..Len(p.decisions) :
           /\ p.decisions[i].seq = After(cursor) + p.missed + i
           /\ p.decisions[i] = journal[p.decisions[i].seq]
      /\ p.more \in BOOLEAN /\ p.epoch = epoch
  BY <1>1, PageFacts
<1>3. UNCHANGED <<log, rounds, replaying, wall, funnel>>
  BY DEF Poll
<1>4. (seen = epoch /\ Follow(p)) \/ (seen # epoch /\ StartOver(p))
  BY <1>2 DEF Poll
<1> HIDE DEF p
<1>5. LogWindow'
  BY <1>1, <1>3 DEF LogWindow, log, funnel
<1>6. total \in Nat /\ epoch \in Nat /\ got \in Seq(Decisions)
      /\ start \in Nat /\ lost \in Nat /\ seen \in Nat /\ seen <= epoch
  BY DEF IInv, TypeOK, LogTypes, ClientTypes
<1>a. LogTypes' /\ RoundTypes' /\ FunnelTypes' /\ rows' \in [Surfaces -> RowSeqs]
  <2>1. UNCHANGED <<log, journal>> /\ UNCHANGED <<rounds, replaying, wall>>
        /\ UNCHANGED <<made, pc, at, stamp>> /\ UNCHANGED rows
    BY <1>3 DEF funnel
  <2> QED BY <2>1, Frames DEF IInv, TypeOK
<1>7. CASE seen # epoch /\ StartOver(p)
  <2>1. seen' = epoch /\ cursor' = 0 /\ start' = 0 /\ got' = <<>> /\ lost' = 0 /\ more' = FALSE
    BY <1>2, <1>7 DEF StartOver
  <2>2. TypeOK'
    BY <1>a, <1>6, <2>1, SeqFacts DEF TypeOK, ClientTypes
  <2>3. FeedAccounts' /\ FeedFaithful' /\ seen' <= epoch'
    BY <1>3, <1>6, <2>1 DEF FeedAccounts, FeedFaithful, log
  <2> QED BY <1>5, <2>2, <2>3 DEF IInv
<1>8. CASE seen = epoch /\ Follow(p)
  <2>1. /\ cursor' = p.next /\ more' = p.more /\ got' = got \o p.decisions
        /\ lost' = lost + p.missed /\ seen' = seen /\ start' = start
    BY <1>8 DEF Follow
  <2>2. /\ got' \in Seq(Decisions) /\ Len(got') = Len(got) + Len(p.decisions)
        /\ \A i \in 1..Len(got) : got'[i] = got[i]
        /\ \A i \in 1..Len(p.decisions) : got'[Len(got) + i] = p.decisions[i]
    BY <1>2, <1>6, <2>1
  <2>3. TypeOK'
    BY <1>a, <1>2, <1>6, <2>1, <2>2 DEF TypeOK, ClientTypes
  <2>4. /\ start + Len(got) + lost = After(cursor) /\ After(cursor) \in Nat
        /\ Len(got) \in Nat /\ Len(p.decisions) \in Nat
        /\ start <= After(cursor)
        /\ \A i \in 1..Len(got) : /\ got[i].seq > start /\ got[i].seq <= After(cursor)
                                  /\ got[i].seq \in Nat
    <3>1. \A i \in 1..Len(got) : got[i] \in Decisions
      BY <1>6
    <3>2. \A d \in Decisions : d.seq \in Nat /\ d.seq > 0
      BY DEF Decisions
    <3>3. FeedAccounts /\ Len(got) \in Nat /\ Len(p.decisions) \in Nat
      BY <1>2, <1>6 DEF IInv
    <3>4. start + Len(got) + lost = After(cursor) /\ After(cursor) \in Nat
      BY <1>1, <3>3 DEF FeedAccounts, After
    <3>5. ASSUME NEW i \in 1..Len(got) PROVE got[i].seq <= After(cursor)
      BY <1>1, <3>1, <3>2, <3>3 DEF FeedAccounts, After
    <3> QED BY <1>6, <3>1, <3>2, <3>3, <3>4, <3>5 DEF FeedAccounts
  <2>5. ASSUME NEW i \in 1..Len(got')
        PROVE  \/ i \in 1..Len(got) /\ got'[i] = got[i]
               \/ \E k \in 1..Len(p.decisions) : i = Len(got) + k /\ got'[i] = p.decisions[k]
    <3>1. CASE i <= Len(got)
      BY <3>1, <2>2, <2>4
    <3>2. CASE i > Len(got)
      <4>1. i - Len(got) \in 1..Len(p.decisions) /\ i = Len(got) + (i - Len(got))
        BY <3>2, <2>2, <2>4
      <4> QED BY <4>1, <2>2
    <3> QED BY <3>1, <3>2, <2>2, <2>4
  <2>6. \A i \in 1..Len(got') : got'[i].seq > start' /\ got'[i].seq <= cursor'
    <3> TAKE i \in 1..Len(got')
    <3>1. /\ start' = start /\ start \in Nat
          /\ cursor' = After(cursor) + p.missed + Len(p.decisions)
          /\ After(cursor) <= cursor' /\ cursor' \in Nat
      <4>1. cursor' = After(cursor) + p.missed + Len(p.decisions) /\ p.missed \in Nat
        BY <1>2, <2>1
      <4>2. After(cursor) \in Nat /\ Len(p.decisions) \in Nat
        BY <2>4
      <4>3. start' = start /\ start \in Nat
        BY <1>6, <2>1
      <4> HIDE DEF p
      <4>4. After(cursor) <= cursor' /\ cursor' \in Nat
        BY <4>1, <4>2
      <4> QED BY <4>1, <4>3, <4>4
    <3>2. CASE i \in 1..Len(got) /\ got'[i] = got[i]
      BY <3>1, <3>2, <2>4
    <3>3. CASE \E k \in 1..Len(p.decisions) : i = Len(got) + k /\ got'[i] = p.decisions[k]
      <4>1. PICK k \in 1..Len(p.decisions) : i = Len(got) + k /\ got'[i] = p.decisions[k]
        BY <3>3
      <4>2. got'[i].seq = After(cursor) + p.missed + k /\ k \in Nat /\ k > 0
        BY <4>1, <1>2
      <4>3. k <= Len(p.decisions) /\ p.missed \in Nat
        BY <4>1, <1>2, <2>4
      <4> QED BY <4>2, <4>3, <3>1, <2>4, SMTT(40)
    <3> QED BY <3>2, <3>3, <2>5
  <2>7. \A i \in 1..Len(got') : \A j \in 1..(i - 1) : got'[j].seq < got'[i].seq
    <3> SUFFICES ASSUME NEW i \in 1..Len(got'), NEW j \in 1..(i - 1)
                 PROVE  got'[j].seq < got'[i].seq
      OBVIOUS
    <3>1. j \in 1..Len(got') /\ j < i /\ i \in Int /\ j \in Int
      BY <2>2, <2>4
    <3>2. CASE i \in 1..Len(got) /\ got'[i] = got[i]
      <4>1. j \in 1..Len(got)
        BY <3>1, <3>2
      <4> QED BY <4>1, <3>2, <2>2 DEF IInv, FeedAccounts
    <3>3. CASE \E k \in 1..Len(p.decisions) : i = Len(got) + k /\ got'[i] = p.decisions[k]
      <4>1. PICK k \in 1..Len(p.decisions) : i = Len(got) + k /\ got'[i] = p.decisions[k]
        BY <3>3
      <4>2. got'[i].seq = After(cursor) + p.missed + k
        BY <4>1, <1>2
      <4>3. CASE j \in 1..Len(got) /\ got'[j] = got[j]
        BY <4>2, <4>3, <1>2, <2>4, SMTT(40)
      <4>4. CASE \E l \in 1..Len(p.decisions) : j = Len(got) + l /\ got'[j] = p.decisions[l]
        BY <4>1, <4>2, <4>4, <3>1, <1>2, <2>4, SMTT(40)
      <4> QED BY <4>3, <4>4, <3>1, <2>5
    <3> QED BY <3>2, <3>3, <2>5
  <2>8. start' + Len(got') + lost' = IF cursor' < 0 THEN 0 ELSE cursor'
    BY <1>2, <1>6, <2>1, <2>2, <2>4, SMTT(40)
  <2>9. FeedAccounts'
    BY <2>6, <2>7, <2>8 DEF FeedAccounts
  <2>10. FeedFaithful'
    <3>1. cursor <= total
      BY <1>8 DEF IInv, FeedFaithful
    <3>2. cursor' <= total'
      BY <3>1, <1>1, <1>2, <1>3, <1>6, <2>1 DEF After, log
    <3>3. \A i \in 1..Len(got') : got'[i] = journal'[got'[i].seq]
      <4> TAKE i \in 1..Len(got')
      <4>1. journal' = journal
        BY <1>3 DEF funnel
      <4>2. CASE i \in 1..Len(got) /\ got'[i] = got[i]
        BY <4>1, <4>2, <1>8 DEF IInv, FeedFaithful
      <4>3. CASE \E k \in 1..Len(p.decisions) : i = Len(got) + k /\ got'[i] = p.decisions[k]
        BY <4>1, <4>3, <1>2
      <4> QED BY <4>2, <4>3, <2>5
    <3> QED BY <3>2, <3>3 DEF FeedFaithful
  <2>11. seen' <= epoch'
    BY <1>3, <1>6, <2>1 DEF log
  <2> QED BY <1>5, <2>3, <2>9, <2>10, <2>11 DEF IInv
<1> QED BY <1>4, <1>7, <1>8

LEMMA SeekInv == IInv /\ Seek => IInv'
<1> SUFFICES ASSUME IInv, Seek PROVE IInv'
  OBVIOUS
<1>1. total \in Nat /\ epoch \in Nat
  BY DEF IInv, TypeOK, LogTypes
<1>2. Page(cursor, 0).next = total /\ Page(cursor, 0).epoch = epoch
  BY CapacityAssumption DEF Page
<1>3. /\ cursor' = total /\ start' = total /\ seen' = epoch
      /\ got' = <<>> /\ lost' = 0 /\ more' = FALSE
      /\ UNCHANGED <<log, rounds, replaying, wall, funnel>>
  BY <1>2 DEF Seek
<1>4. TypeOK'
  <2>1. UNCHANGED <<log, journal>> /\ UNCHANGED <<rounds, replaying, wall>>
        /\ UNCHANGED <<made, pc, at, stamp>> /\ UNCHANGED rows
    BY <1>3 DEF funnel
  <2>2. LogTypes' /\ RoundTypes' /\ FunnelTypes' /\ rows' \in [Surfaces -> RowSeqs]
    BY <2>1, Frames DEF IInv, TypeOK
  <2>3. ClientTypes'
    BY <1>1, <1>3, SeqFacts DEF ClientTypes
  <2> QED BY <2>2, <2>3 DEF TypeOK
<1>5. LogWindow'
  BY <1>3 DEF IInv, LogWindow, log, funnel
<1>6. FeedAccounts' /\ FeedFaithful' /\ seen' <= epoch'
  BY <1>1, <1>3 DEF FeedAccounts, FeedFaithful, log
<1> QED BY <1>4, <1>5, <1>6 DEF IInv

LEMMA RestartInv == IInv /\ Restart => IInv'
<1> SUFFICES ASSUME IInv, Restart PROVE IInv'
  OBVIOUS
<1>1. /\ epoch \in Nat /\ epoch' = epoch + 1 /\ seen' = seen /\ seen \in Nat /\ seen <= epoch
      /\ records' = <<>> /\ total' = 0 /\ journal' = <<>> /\ UNCHANGED client
  BY DEF IInv, TypeOK, LogTypes, ClientTypes, Restart, LogRestart, client
<1>2. TypeOK'
  <2>1. LogTypes'
    BY <1>1, SeqFacts DEF LogTypes
  <2>2. ClientTypes'
    BY <1>1, Frames DEF IInv, TypeOK
  <2>3. RoundTypes' /\ FunnelTypes'
    BY FeedAssumption
       DEF IInv, TypeOK, RoundTypes, FunnelTypes, Restart, NoStamp, Stamps
  <2>4. <<>> \in RowSeqs /\ rows' = [k \in Surfaces |-> <<>>]
    BY SeqFacts DEF Restart
  <2> QED BY <2>1, <2>2, <2>3, <2>4 DEF TypeOK
<1>3. LogWindow'
  BY <1>1, CapacityAssumption DEF LogWindow
<1>4. FeedAccounts'
  BY <1>1 DEF IInv, FeedAccounts, client
<1>5. FeedFaithful' /\ seen' <= epoch'
  BY <1>1 DEF FeedFaithful
<1> QED BY <1>2, <1>3, <1>4, <1>5 DEF IInv

---------------------------------------------------------------------------
(* The invariant, when no client sends a negative limit. *)

PositiveLimits == \A limit \in Limits : limit > 0

(* The strengthened invariant is inductive: every action of the funnel, of *)
(* the client and of the process keeps it.                                 *)
THEOREM FeedInductive == ASSUME PositiveLimits PROVE Spec => []IInv
<1>1. Init => IInv
  BY InitInv
<1>2. ASSUME IInv, [Next]_vars PROVE IInv'
  <2>1. CASE OpenRound \/ ClearClock \/ WallTick
    BY <1>2, <2>1, MainSteps DEF MainStep
  <2>2. ASSUME NEW a \in Algorithms, AlgorithmNext(a) PROVE IInv'
    <3>1. CASE BeginMain(a) \/ EndMain(a) \/ Withdraw(a)
      BY <1>2, <3>1, MainSteps DEF MainStep
    <3>2. CASE Control(a) \/ ReadClock(a) \/ WriteBackend(a)
      BY <1>2, <3>2, FunnelSteps
    <3>3. CASE WriteLog(a)
      BY <1>2, <3>3, WriteLogInv
    <3> QED BY <2>2, <3>1, <3>2, <3>3 DEF AlgorithmNext
  <2>3. CASE PollNext
    <3>1. PICK limit \in Limits : Poll(limit)
      BY <2>3 DEF PollNext
    <3>2. limit \in Nat \ {0}
      BY PositiveLimits, FeedAssumption DEF PositiveLimits
    <3> QED BY <1>2, <3>1, <3>2, PollInv
  <2>4. CASE Seek
    BY <1>2, <2>4, SeekInv
  <2>5. CASE Restart
    BY <1>2, <2>5, RestartInv
  <2>6. CASE UNCHANGED vars
    <3>1. Elsewhere /\ UNCHANGED <<rounds, replaying, wall>>
          /\ UNCHANGED <<made, pc, at, stamp>> /\ UNCHANGED rows
      BY <2>6 DEF vars, funnel, Elsewhere
    <3>2. RoundTypes' /\ FunnelTypes' /\ rows' \in [Surfaces -> RowSeqs]
      BY <1>2, <3>1, Frames DEF IInv, TypeOK
    <3> QED BY <1>2, <3>1, <3>2, ElsewhereInv DEF IInv, TypeOK
  <2> QED BY <1>2, <2>1, <2>2, <2>3, <2>4, <2>5, <2>6 DEF Next
<1> QED BY <1>1, <1>2, PTL DEF Spec

(* The log's own promises: the ring is the contiguous end of the history.  *)
THEOREM LogWindowHolds == ASSUME PositiveLimits PROVE Spec => []LogWindow
<1>1. IInv => LogWindow
  BY DEF IInv
<1> QED BY <1>1, FeedInductive, PTL

(* A client accounts for every decision up to its cursor. *)
THEOREM FeedAccountsHolds == ASSUME PositiveLimits PROVE Spec => []FeedAccounts
<1>1. IInv => FeedAccounts
  BY DEF IInv
<1> QED BY <1>1, FeedInductive, PTL

(* A client holds what the process it follows recorded. *)
THEOREM FeedFaithfulHolds == ASSUME PositiveLimits PROVE Spec => []FeedFaithful
<1>1. IInv => FeedFaithful
  BY DEF IInv
<1> QED BY <1>1, FeedInductive, PTL

---------------------------------------------------------------------------
(* The stamps of a replay. *)

Step == [clock |-> "step", time |-> now]

(* A row of a decision still on its way carries the step that is open. *)
Dated(row) ==
  /\ row.command <= made[row.algorithm]
  /\ pc[row.algorithm] # "free" /\ row.command = made[row.algorithm] => row.time = Step

(* Nothing is written outside main(), under which no round opens. *)
ReplayInv ==
  replaying =>
    /\ \A a \in Algorithms : /\ pc[a] # "free" => a \in busy
                             /\ pc[a] = "write" => stamp[a] = Step
    /\ \A i \in 1..Len(journal) : Dated(journal[i])
    /\ \A k \in Surfaces : \A i \in 1..Len(rows[k]) : Dated(rows[k][i]) /\ SameTime(rows[k][i])

LEMMA ReplayInit == Init => ReplayInv
BY DEF Init, ReplayInv

LEMMA ReplayStep ==
  ASSUME IInv, ReplayInv, [Next]_vars PROVE ReplayInv'
<1> SUFFICES ASSUME replaying' PROVE ReplayInv'
  BY DEF ReplayInv
<1> USE DEF ReplayInv, Dated, SameTime, Step
<1>t. /\ journal \in Seq(Decisions) /\ rows \in [Surfaces -> RowSeqs] /\ now \in Nat
      /\ made \in [Algorithms -> Nat] /\ pc \in [Algorithms -> {"free", "stamp", "write"}]
      /\ at \in [Algorithms -> 0..Len(Backends)] /\ stamp \in [Algorithms -> Stamps]
  BY DEF IInv, TypeOK, LogTypes, RoundTypes, FunnelTypes
<1>r. /\ \A i \in 1..Len(journal) : journal[i].algorithm \in Algorithms /\ journal[i].command \in Nat
      /\ \A k \in Surfaces : \A i \in 1..Len(rows[k]) :
           rows[k][i].algorithm \in Algorithms /\ rows[k][i].command \in Nat
  <2>1. \A i \in 1..Len(journal) : journal[i] \in Decisions BY <1>t
  <2>2. ASSUME NEW k \in Surfaces, NEW i \in 1..Len(rows[k])
        PROVE  rows[k][i] \in [time : Stamps, algorithm : Algorithms, command : Nat]
    <3> DEFINE RowType == [time : Stamps, algorithm : Algorithms, command : Nat]
    <3>1. rows[k] \in Seq(RowType) BY <1>t DEF RowSeqs
    <3> HIDE DEF RowType
    <3>2. rows[k][i] \in RowType BY <3>1
    <3> QED BY <3>2 DEF RowType
  <2> QED BY <2>1, <2>2 DEF Decisions
<1>1. CASE OpenRound BY <1>1, <1>t, <1>r DEF OpenRound, Rounds!Open, Rounds!Quiet, funnel
<1>2. CASE ClearClock BY <1>2 DEF ClearClock
<1>3. CASE WallTick BY <1>3 DEF WallTick, rounds, funnel
<1>4. ASSUME NEW a \in Algorithms, AlgorithmNext(a) PROVE ReplayInv'
  <2>1. CASE BeginMain(a)
    BY <1>t, <2>1 DEF BeginMain, BeginLive, Rounds!Begin, funnel
  <2>2. CASE EndMain(a) BY <1>t, <2>2 DEF EndMain, Rounds!End, funnel
  <2>3. CASE Withdraw(a) BY <1>t, <2>3 DEF Withdraw, Rounds!Withdraw, funnel
  <2>4. CASE Control(a) BY <1>t, <1>r, <2>4 DEF Control, rounds
  <2>5. CASE ReadClock(a) BY <1>t, <1>r, <2>5 DEF ReadClock, rounds, DecisionTimestamp
  <2>6. CASE WriteLog(a)
    <3>1. PICK decision : /\ decision.time = stamp[a] /\ decision.algorithm = a
                          /\ decision.command = made[a] /\ journal' = Append(journal, decision)
      BY <2>6 DEF WriteLog, Decision
    <3>2. \A i \in 1..Len(journal') : \/ i \in 1..Len(journal) /\ journal'[i] = journal[i]
                                \/ journal'[i] = decision
      BY <1>t, <3>1
    <3>3. pc[a] = "write" /\ UNCHANGED <<rounds, replaying, made, stamp, rows>>
      BY <2>6 DEF WriteLog
    <3>4. pc' \in {[pc EXCEPT ![a] = "stamp"], [pc EXCEPT ![a] = "free"]}
      BY <2>6 DEF WriteLog, NextSurface
    <3> QED BY SMTT(40), <1>t, <1>r, <3>1, <3>2, <3>3, <3>4 DEF rounds
  <2>7. CASE WriteBackend(a)
    <3>1. pc[a] = "write" /\ UNCHANGED <<rounds, replaying, made, stamp, journal>>
      BY <2>7 DEF WriteBackend
    <3>2. pc' \in {[pc EXCEPT ![a] = "stamp"], [pc EXCEPT ![a] = "free"]}
      BY <2>7 DEF WriteBackend, NextSurface
    <3>3. \A k \in Surfaces : \A i \in 1..Len(rows'[k]) :
            \/ i \in 1..Len(rows[k]) /\ rows'[k][i] = rows[k][i]
            \/ rows'[k][i] = Row(a)
      <4>1. CASE UNCHANGED rows BY <4>1
      <4>2. CASE rows' = [rows EXCEPT ![at[a]] = Append(@, Row(a))]
        BY <1>t, <4>2 DEF RowSeqs
      <4> QED BY <2>7, <4>1, <4>2 DEF WriteBackend
    <3>4. PICK new : new = Row(a) OBVIOUS
    <3>5. new.time = stamp[a] /\ new.algorithm = a /\ new.command = made[a] BY <3>4 DEF Row
    <3>6. \A b \in Algorithms : (pc'[b] # "free" => pc[b] # "free") /\ (pc'[b] = "write" => pc[b] = "write")
      BY <1>t, <3>1, <3>2
    <3>7. Step' = Step /\ busy' = busy /\ made' = made /\ replaying /\ stamp' = stamp
          /\ journal' = journal
      BY <3>1 DEF rounds
    <3>8. stamp[a] = Step /\ a \in busy BY <3>1, <3>7
    <3> USE DEF Dated, SameTime
    <3> HIDE DEF ReplayInv, Step
    <3>9. ASSUME NEW row, row.algorithm \in Algorithms, Dated(row) PROVE Dated(row)'
      BY <3>6, <3>7, <3>9
    <3>10. \A i \in 1..Len(journal) : Dated(journal[i]) BY <3>7 DEF ReplayInv
    <3>11. Dated(new)' /\ SameTime(new)'
      <4>1. Dated(new)' BY <1>t, <3>5, <3>7, <3>8
      <4>2. SameTime(new) BY <3>1, <3>5, <3>8, <3>10
      <4> QED BY <4>1, <3>7, <4>2
    <3>12. \A i \in 1..Len(journal) : Dated(journal[i])' BY <1>r, <3>7, <3>9, <3>10
    <3>13. ASSUME NEW k \in Surfaces, NEW i \in 1..Len(rows'[k])
          PROVE  (Dated(rows[k][i]) /\ SameTime(rows[k][i]))'
      <4>1. CASE rows'[k][i] = new BY <3>7, <3>11, <4>1
      <4>2. CASE i \in 1..Len(rows[k]) /\ rows'[k][i] = rows[k][i]
        <5>1. Dated(rows[k][i]) /\ SameTime(rows[k][i]) BY <3>7, <4>2 DEF ReplayInv
        <5>2. rows[k][i].algorithm \in Algorithms BY <1>r, <4>2
        <5> QED BY <3>7, <3>9, <4>2, <5>1, <5>2
      <4> QED BY <3>3, <3>4, <4>1, <4>2
    <3>14. \A b \in Algorithms : (pc'[b] # "free" => b \in busy') /\ (pc'[b] = "write" => stamp'[b] = Step')
      BY <3>6, <3>7 DEF ReplayInv
    <3> HIDE DEF Dated, SameTime
    <3> QED BY <3>7, <3>12, <3>13, <3>14 DEF ReplayInv
  <2> QED BY <1>4, <2>1, <2>2, <2>3, <2>4, <2>5, <2>6, <2>7 DEF AlgorithmNext
<1>5. CASE PollNext \/ Seek
  <2>1. UNCHANGED <<rounds, replaying, funnel>> BY <1>5 DEF PollNext, Poll, Seek
  <2> QED BY <2>1 DEF rounds, funnel
<1>6. CASE Restart BY <1>6 DEF Restart
<1>7. CASE UNCHANGED vars BY <1>7 DEF vars, rounds, funnel
<1> QED BY <1>1, <1>2, <1>3, <1>4, <1>5, <1>6, <1>7 DEF Next

(* The log and the backends agree about when a decision happened, as long  *)
(* as a replay drives the clock: each reads it for itself, and no round    *)
(* opens in between (decision_timestamp).                                  *)
THEOREM SameStampInReplayHolds == ASSUME PositiveLimits PROVE Spec => []SameStampInReplay
<1>1. IInv /\ ReplayInv /\ [Next]_vars => ReplayInv'
  BY ReplayStep
<1>2. ReplayInv => SameStampInReplay
  BY DEF ReplayInv, SameStampInReplay
<1> QED BY <1>1, <1>2, ReplayInit, FeedInductive, PTL DEF Spec

---------------------------------------------------------------------------
(* What each surface holds. *)

LEMMA HoldsAppended ==
  ASSUME NEW T, NEW surface \in Seq(T), NEW row \in T, NEW a, NEW n \in Nat, Holds(surface, a, n),
         \A x \in T : x.command \in Nat,
         row.algorithm = a => row.command = n + 1
  PROVE  Holds(Append(surface, row), a, IF row.algorithm = a THEN n + 1 ELSE n)
<1>1. PICK next : next = Append(surface, row)
  OBVIOUS
<1>2. PICK m \in Nat : m = IF row.algorithm = a THEN n + 1 ELSE n
  OBVIOUS
<1>3. /\ Len(surface) \in Nat /\ Len(next) = Len(surface) + 1 /\ next[Len(surface) + 1] = row
      /\ \A i \in 1..Len(surface) : next[i] = surface[i] /\ surface[i].command \in Nat
      /\ \A i \in 1..Len(next) : i \in 1..Len(surface) \/ i = Len(surface) + 1
      /\ \A i \in 1..Len(surface) : i \in 1..Len(next)
      /\ Len(surface) + 1 \in 1..Len(next)
  BY <1>1
<1>4. /\ \A i, j \in 1..Len(surface) : surface[i].algorithm = a /\ surface[j].algorithm = a /\ i < j
           => surface[i].command < surface[j].command
      /\ \A i \in 1..Len(surface) : surface[i].algorithm = a => surface[i].command \in 1..n
      /\ \A c \in 1..n : \E i \in 1..Len(surface) : surface[i].algorithm = a /\ surface[i].command = c
  BY DEF Holds
<1>5. ASSUME NEW i \in 1..Len(next), NEW j \in 1..Len(next), next[i].algorithm = a,
             next[j].algorithm = a, i < j
      PROVE  next[i].command < next[j].command
  <2>1. i \in 1..Len(surface) /\ next[i] = surface[i] /\ surface[i].command \in 1..n
    BY <1>3, <1>4, <1>5
  <2>2. CASE j \in 1..Len(surface)
    BY <1>3, <1>4, <1>5, <2>1, <2>2
  <2>3. CASE j = Len(surface) + 1
    BY <1>3, <1>5, <2>1, <2>3
  <2> QED BY <1>3, <2>2, <2>3
<1>6. ASSUME NEW i \in 1..Len(next), next[i].algorithm = a PROVE next[i].command \in 1..m
  <2>1. CASE i \in 1..Len(surface)
    BY <1>2, <1>3, <1>4, <1>6, <2>1
  <2>2. CASE i = Len(surface) + 1
    BY <1>2, <1>3, <1>6, <2>2
  <2> QED BY <1>3, <2>1, <2>2
<1>7. ASSUME NEW c \in 1..m PROVE \E i \in 1..Len(next) : next[i].algorithm = a /\ next[i].command = c
  <2>1. CASE c \in 1..n
    <3>1. PICK i \in 1..Len(surface) : surface[i].algorithm = a /\ surface[i].command = c
      BY <1>4, <2>1
    <3> QED BY <1>3, <3>1
  <2>2. CASE c \notin 1..n
    <3>1. row.algorithm = a /\ c = n + 1
      BY <1>2, <2>2
    <3> QED BY <1>3, <3>1
  <2> QED BY <2>1, <2>2
<1>8. Holds(next, a, m)
  BY <1>5, <1>6, <1>7 DEF Holds
<1> QED BY <1>1, <1>2, <1>8

(* Each surface holds what has passed it, and a decision in progress has a *)
(* number.                                                                 *)
KeptInv ==
  /\ \A a \in Algorithms : pc[a] # "free" => made[a] > 0
  /\ NoDecisionLost

LEMMA KeptInit == Init => KeptInv
<1> SUFFICES ASSUME Init PROVE KeptInv
  OBVIOUS
<1>1. \A a \in Algorithms, k \in Nat : Written(a, k) = 0
  BY DEF Init, Written
<1>2. \A a \in Algorithms : Holds(<< >>, a, 0)
  BY DEF Holds
<1>3. 0 \in Nat /\ \A k \in Surfaces : k \in Nat
  BY FeedAssumption DEF Surfaces
<1>4. \A k \in Surfaces : rows[k] = << >>
  BY DEF Init
<1> QED BY <1>1, <1>2, <1>3, <1>4 DEF Init, KeptInv, NoDecisionLost

LEMMA KeptStep ==
  ASSUME IInv, KeptInv, [Next]_vars
  PROVE  KeptInv'
<1>t. /\ journal \in Seq(Decisions) /\ rows \in [Surfaces -> RowSeqs]
      /\ made \in [Algorithms -> Nat] /\ pc \in [Algorithms -> {"free", "stamp", "write"}]
      /\ at \in [Algorithms -> 0..Len(Backends)] /\ stamp \in [Algorithms -> Stamps]
      /\ total \in Nat
  BY DEF IInv, TypeOK, LogTypes, FunnelTypes
<1>l. Len(Backends) \in Nat /\ \A k \in Surfaces : k \in Nat /\ 0 < k /\ k <= Len(Backends)
  BY FeedAssumption DEF Surfaces
<1>1. CASE UNCHANGED <<made, pc, at, journal, rows>>
  BY <1>1 DEF KeptInv, NoDecisionLost, Written
<1>2. ASSUME NEW a \in Algorithms, Control(a) PROVE KeptInv'
  <2>1. \A b \in Algorithms, k \in Nat : Written(b, k)' = Written(b, k)
    BY <1>t, <1>2 DEF Control, Written
  <2>2. \A b \in Algorithms : pc'[b] # "free" => made'[b] > 0
    BY <1>t, <1>2 DEF Control, KeptInv
  <2>3. UNCHANGED <<journal, rows>>
    BY <1>2 DEF Control
  <2> QED BY <1>l, <2>1, <2>2, <2>3 DEF KeptInv, NoDecisionLost
<1>3. ASSUME NEW a \in Algorithms, ReadClock(a) PROVE KeptInv'
  <2>1. \A b \in Algorithms, k \in Nat : Written(b, k)' = Written(b, k)
    BY <1>t, <1>3 DEF ReadClock, Written
  <2>2. UNCHANGED <<journal, rows, made>> /\ \A b \in Algorithms : pc'[b] # "free" => pc[b] # "free"
    BY <1>t, <1>3 DEF ReadClock
  <2> QED BY <1>l, <2>1, <2>2 DEF KeptInv, NoDecisionLost
<1>4. ASSUME NEW a \in Algorithms, NextSurface(a), pc[a] = "write", made' = made
      PROVE  /\ \A b \in Algorithms : pc'[b] # "free" => made'[b] > 0
             /\ \A b \in Algorithms, k \in 0..Len(Backends) :
                  Written(b, k)' = IF b = a /\ k = at[a] THEN Written(b, k) + 1 ELSE Written(b, k)
             /\ Written(a, at[a]) + 1 = made[a] /\ Written(a, at[a]) \in Nat
  <2>1. made[a] > 0 /\ at[a] \in 0..Len(Backends) /\ made[a] \in Nat
    BY <1>t, <1>4 DEF KeptInv
  <2>2. Written(a, at[a]) = made[a] - 1
    BY <1>4, <2>1 DEF Written
  <2>3. /\ \A b \in Algorithms \ {a} : pc'[b] = pc[b] /\ at'[b] = at[b]
        /\ \/ pc'[a] = "stamp" /\ at'[a] = at[a] + 1
           \/ pc'[a] = "free" /\ at'[a] = at[a] /\ at[a] = Len(Backends)
    BY <1>t, <1>l, <1>4, <2>1 DEF NextSurface
  <2>4. ASSUME NEW k \in 0..Len(Backends)
        PROVE  Written(a, k)' = IF k = at[a] THEN Written(a, k) + 1 ELSE Written(a, k)
    BY <1>l, <1>4, <2>1, <2>3, <2>4 DEF Written
  <2>5. ASSUME NEW b \in Algorithms \ {a}, NEW k \in 0..Len(Backends)
        PROVE  Written(b, k)' = Written(b, k)
    BY <1>4, <2>3 DEF Written
  <2>6. \A b \in Algorithms : pc'[b] # "free" => made'[b] > 0
    BY <1>4, <2>1, <2>3 DEF KeptInv
  <2> QED BY <2>1, <2>2, <2>4, <2>5, <2>6
<1>5. ASSUME NEW b \in Algorithms, NEW k \in 0..Len(Backends) PROVE Written(b, k) \in Nat
  <2>1. made[b] \in Nat /\ (pc[b] # "free" => made[b] > 0)
    BY <1>t DEF KeptInv
  <2> QED BY <2>1 DEF Written
<1>6. ASSUME NEW a \in Algorithms, WriteLog(a) PROVE KeptInv'
  <2>1. PICK decision \in Decisions : /\ decision.algorithm = a /\ decision.command = made[a]
                                      /\ journal' = Append(journal, decision)
    <3>1. Decision(stamp[a], a, made[a]) \in Decisions
      BY <1>t DEF Decision, Decisions
    <3> QED BY <1>6, <3>1 DEF WriteLog, Decision
  <2>2. pc[a] = "write" /\ at[a] = 0 /\ made' = made /\ rows' = rows /\ NextSurface(a)
    BY <1>6 DEF WriteLog
  <2>3. \A x \in Decisions : x.command \in Nat
    BY DEF Decisions
  <2>4. ASSUME NEW b \in Algorithms PROVE Holds(journal', b, Written(b, 0)')
    <3>1. Written(b, 0) \in Nat /\ Holds(journal, b, Written(b, 0))
      BY <1>l, <1>5 DEF KeptInv, NoDecisionLost
    <3>2. Written(b, 0)' = IF b = a THEN Written(b, 0) + 1 ELSE Written(b, 0)
      BY <1>4, <1>l, <2>2
    <3>3. decision.algorithm = b => decision.command = Written(b, 0) + 1
      BY <1>4, <2>1, <2>2
    <3>4. Holds(Append(journal, decision), b, IF decision.algorithm = b THEN Written(b, 0) + 1 ELSE Written(b, 0))
      BY <1>t, <2>3, <3>1, <3>3, HoldsAppended
    <3> QED BY <2>1, <3>2, <3>4
  <2>5. ASSUME NEW b \in Algorithms, NEW k \in Surfaces, Backends[k] \notin Failing
        PROVE  Holds(rows'[k], b, Written(b, k)')
    <3>1. k \in 0..Len(Backends) /\ k # at[a]
      BY <1>l, <2>2
    <3>2. Written(b, k)' = Written(b, k)
      BY <1>4, <2>2, <3>1
    <3> QED BY <2>2, <2>5, <3>2 DEF KeptInv, NoDecisionLost
  <2> QED BY <1>4, <2>2, <2>4, <2>5 DEF KeptInv, NoDecisionLost
<1>7. ASSUME NEW a \in Algorithms, WriteBackend(a) PROVE KeptInv'
  <2>1. /\ pc[a] = "write" /\ at[a] \in Surfaces /\ made' = made /\ journal' = journal
        /\ NextSurface(a)
        /\ \/ rows' = [rows EXCEPT ![at[a]] = Append(@, Row(a))]
           \/ Backends[at[a]] \in Failing /\ UNCHANGED rows
    BY <1>t, <1>7 DEF WriteBackend, Surfaces
  <2>2. ASSUME NEW b \in Algorithms PROVE Holds(journal', b, Written(b, 0)')
    <3>1. Written(b, 0)' = Written(b, 0)
      BY <1>4, <1>l, <2>1
    <3> QED BY <2>1, <3>1 DEF KeptInv, NoDecisionLost
  <2>3. ASSUME NEW b \in Algorithms, NEW k \in Surfaces, Backends[k] \notin Failing
        PROVE  Holds(rows'[k], b, Written(b, k)')
    <3>1. k \in 0..Len(Backends)
      BY <1>l
    <3>2. CASE k # at[a]
      <4>1. Written(b, k)' = Written(b, k) /\ rows'[k] = rows[k]
        BY <1>t, <1>4, <2>1, <3>1, <3>2
      <4> QED BY <2>3, <4>1 DEF KeptInv, NoDecisionLost
    <3>3. CASE k = at[a]
      <4> DEFINE T == [time : Stamps, algorithm : Algorithms, command : Nat]
      <4>1. Row(a) \in T /\ Row(a).algorithm = a /\ Row(a).command = made[a]
        BY <1>t DEF Row
      <4>2. rows[k] \in Seq(T) /\ \A x \in T : x.command \in Nat
        BY <1>t DEF RowSeqs
      <4>3. rows'[k] = Append(rows[k], Row(a))
        BY <1>t, <2>1, <2>3, <3>3
      <4>4. Written(b, k) \in Nat /\ Holds(rows[k], b, Written(b, k))
        BY <1>5, <2>3, <3>1 DEF KeptInv, NoDecisionLost
      <4>5. Written(b, k)' = IF b = a THEN Written(b, k) + 1 ELSE Written(b, k)
        BY <1>4, <2>1, <3>1, <3>3
      <4>6. Row(a).algorithm = b => Row(a).command = Written(b, k) + 1
        BY <1>4, <2>1, <3>3, <4>1
      <4> HIDE DEF T
      <4>7. Holds(Append(rows[k], Row(a)), b, IF Row(a).algorithm = b THEN Written(b, k) + 1 ELSE Written(b, k))
        BY <4>1, <4>2, <4>4, <4>6, HoldsAppended
      <4> QED BY <4>1, <4>3, <4>5, <4>7
    <3> QED BY <3>2, <3>3
  <2> QED BY <1>4, <2>1, <2>2, <2>3 DEF KeptInv, NoDecisionLost
<1>8. CASE Restart
  <2>1. \A a \in Algorithms, k \in Nat : Written(a, k)' = 0
    BY <1>8 DEF Restart, Written
  <2>2. \A a \in Algorithms : Holds(<< >>, a, 0)
    BY DEF Holds
  <2>3. journal' = << >> /\ \A k \in Surfaces : rows'[k] = << >>
    BY <1>8 DEF Restart
  <2>4. \A a \in Algorithms : pc'[a] = "free"
    BY <1>8 DEF Restart
  <2> QED BY <1>l, <2>1, <2>2, <2>3, <2>4 DEF KeptInv, NoDecisionLost
<1>9. CASE \/ OpenRound \/ ClearClock \/ WallTick \/ PollNext \/ Seek \/ UNCHANGED vars
           \/ \E a \in Algorithms : BeginMain(a) \/ EndMain(a) \/ Withdraw(a)
  BY <1>1, <1>9
     DEF OpenRound, ClearClock, WallTick, PollNext, Poll, Seek, BeginMain, EndMain, Withdraw, vars, funnel
<1> QED BY <1>2, <1>3, <1>6, <1>7, <1>8, <1>9 DEF Next, AlgorithmNext

(* The log and every backend that does not fail hold every decision, once  *)
(* and in order: for any algorithms and backends, and any of them failing. *)
THEOREM NoDecisionLostHolds == ASSUME PositiveLimits PROVE Spec => []NoDecisionLost
<1>1. IInv /\ KeptInv /\ [Next]_vars => KeptInv'
  BY KeptStep
<1>2. KeptInv => NoDecisionLost
  BY DEF KeptInv
<1> QED BY <1>1, <1>2, KeptInit, FeedInductive, PTL DEF Spec
=============================================================================
