---------------------------- MODULE PlantProofs ----------------------------
(***************************************************************************)
(* Theorems about Plant, for any configuration, any devices and any        *)
(* payloads.                                                               *)
(***************************************************************************)
EXTENDS Plant, WellFoundedInduction, TLAPS

(* What is stored of a device, and the reading on its way to the storage.  *)
Stored(d) ==
  \/ at[d] \in {"idle", "receive", "refused"} /\ accepted[d] = stored[d]
  \/ /\ at[d] \in {"accepted", "publish", "store"}
     /\ accepted[d] = Append(stored[d], Reading(items[d]))

Histories(S) == accepted \in [DeviceNames -> Seq(S)] /\ stored \in [DeviceNames -> Seq(S)]

StoreInv ==
  /\ at = [d \in DeviceNames |-> at[d]] /\ items = [d \in DeviceNames |-> items[d]]
  /\ \E S : Histories(S)
  /\ \A d \in DeviceNames : Stored(d)

LEMMA WiderSequences ==
  ASSUME NEW S, NEW T, S \subseteq T PROVE Seq(S) \subseteq Seq(T)
PROOF
OBVIOUS

LEMMA StoreStep ==
  ASSUME StoreInv, [Next]_vars PROVE StoreInv'
PROOF
<1> USE DEF StoreInv, Stored, Histories, Delivering
<1>1. ASSUME UNCHANGED <<at, items, accepted, stored>> PROVE StoreInv'
  BY <1>1
<1>2. ASSUME NEW d \in DeviceNames, Deliver(d) PROVE StoreInv'
  <2>1. CASE BeginReceive(d) BY <2>1 DEF BeginReceive
  <2>2. CASE WriteData(d)
    <3> DEFINE now == Write(items[d], Head(writes[d]))
    <3>1. PICK S : Histories(S) OBVIOUS
    <3>2. PICK T : T = S \cup {Reading(now)} OBVIOUS
    <3>3. Seq(S) \subseteq Seq(T) BY <3>2, WiderSequences
    <3>4. Histories(T) BY <3>1, <3>3
    <3>5. Reading(now) \in T BY <3>2
    <3>6. Append(accepted[d], Reading(now)) \in Seq(T)
      <4>1. accepted[d] \in Seq(T) BY <3>4
      <4> HIDE DEF now
      <4> QED BY <3>5, <4>1
    <3>7. accepted' \in {accepted, [accepted EXCEPT ![d] = Append(@, Reading(now))]} /\ stored' = stored
      BY <2>2 DEF WriteData
    <3>8. Histories(T)' BY <3>4, <3>6, <3>7
    <3>9. \A e \in DeviceNames : Stored(e)' BY <2>2 DEF WriteData
    <3> QED BY <2>2, <3>8, <3>9 DEF WriteData
  <2>3. CASE OnDataReceived(d) BY <2>3 DEF OnDataReceived
  <2>4. CASE UpdateDevice(d) BY <2>4 DEF UpdateDevice
  <2>5. CASE WriteDeviceData(d) BY <2>5 DEF WriteDeviceData
  <2> QED BY <1>2, <2>1, <2>2, <2>3, <2>4, <2>5 DEF Deliver
<1>3. ASSUME NEW a \in AlgorithmNames, RunMain(a) PROVE StoreInv'
  BY <1>1, <1>3 DEF RunMain, GetDevices, CopyReplaced, OpenItems, CopyItem, CopyRaises, ReleaseDevices,
     liveVars
<1>4. ASSUME UNCHANGED registryVars PROVE StoreInv'
  BY <1>1, <1>4 DEF registryVars, liveVars
<1> QED BY <1>2, <1>3, <1>4 DEF Next, Threads, vars

(* Storage is given each reading a device accepted, once and in order, and *)
(* nothing for a payload it refused, whatever the devices make of their    *)
(* payloads (Connector.on_device_data_received).                           *)
THEOREM StoredIsTheReadingHolds == Spec => []StoredIsTheReading
PROOF
<1>1. Init => StoreInv
  <2>1. << >> \in Seq({}) OBVIOUS
  <2> QED BY <2>1 DEF Init, RegistryInit, StoreInv, Stored, Histories
<1>2. StoreInv /\ [Next]_vars => StoreInv' BY StoreStep
<1>3. StoreInv => StoredIsTheReading
  <2> SUFFICES ASSUME StoreInv, NEW d \in DeviceNames
               PROVE  /\ Len(stored[d]) <= Len(accepted[d])
                      /\ SubSeq(accepted[d], 1, Len(stored[d])) = stored[d]
                      /\ at[d] = "idle" => stored[d] = accepted[d]
    BY DEF StoredIsTheReading
  <2>1. PICK S : accepted[d] \in Seq(S) /\ stored[d] \in Seq(S) BY DEF StoreInv, Histories
  <2> QED BY <2>1 DEF StoreInv, Stored
<1> QED BY <1>1, <1>2, <1>3, PTL DEF Spec

---------------------------------------------------------------------------
(* The copies. *)

(* A device that replaces its reading does so in one write, and shows what *)
(* it accepted last.                                                       *)
Whole(d) ==
  /\ at[d] = "receive" => \E new : writes[d] = <<Assign(new)>>
  /\ IF accepted[d] = << >> THEN items[d] = << >>
     ELSE Reading(items[d]) = accepted[d][Len(accepted[d])]

(* Until main() starts a thread nothing is live.                           *)
Unstarted ==
  phase \in AxisNames \cup {"load"} =>
    /\ running = {}
    /\ \A d \in DeviceNames : at[d] = "idle" /\ accepted[d] = << >> /\ items[d] = << >>
    /\ \A a \in AlgorithmNames :
         doing[a] = "idle" /\ copy[a].next = 0 /\ DOMAIN snapshot[a] = {}

(* The variables the copies are made of are functions. *)
CopyTypes ==
  /\ writes = [d \in DeviceNames |-> writes[d]]
  /\ doing = [a \in AlgorithmNames |-> doing[a]]
  /\ copy = [a \in AlgorithmNames |-> copy[a]]
  /\ snapshot = [a \in AlgorithmNames |-> snapshot[a]]
  /\ since = [a \in AlgorithmNames |-> [d \in DeviceNames |-> since[a][d]]]

(* A copy is whole when its device is, and never older than its lock. *)
CopyInv ==
  /\ CopyTypes /\ Unstarted
  /\ \A d \in DeviceNames : Device(d).plugin \in Replacing => Whole(d)
  /\ \A a \in AlgorithmNames : \A d \in DeviceNames :
       since[a][d] \in Nat /\ since[a][d] <= Len(accepted[d])
  /\ \A a \in AlgorithmNames :
       copy[a].next # 0 => Device(Head(copy[a].left)).plugin \in InPlace
  /\ SnapshotIsAReading

(* receive() of such a class makes one write, or none. *)
LEMMA ReceiveReplaces ==
  ASSUME NEW kind \in Replacing, NEW declared, NEW protocol, NEW payload
  PROVE  \/ Receive(kind, declared, protocol, payload) = Refused
         \/ \E new : Receive(kind, declared, protocol, payload) = <<Assign(new)>>
PROOF
<1> DEFINE r == Receive(kind, declared, protocol, payload)
<1>1. CASE kind \in {"modbus_meter", "modbus_switch"}
  <2>1. r = Refused \/ r = ReceiveModbus(declared, payload.body)
    BY <1>1 DEF Receive
  <2> QED BY <2>1 DEF ReceiveModbus
<1>2. CASE kind = "p1"
  <2>1. r = Refused \/ r = ReceiveP1(payload.body)
    BY <1>2 DEF Receive
  <2> QED BY <2>1 DEF ReceiveP1
<1>3. CASE kind = "openems"
  <2>1. r = Refused \/ r = ReceiveOpenems(payload.body)
    BY <1>3 DEF Receive
  <2> QED BY <2>1 DEF ReceiveOpenems
<1>4. CASE kind = "ha_switch"
  <2>1. r = Refused \/ r = ReceiveHomeAssistant(payload.body)
    BY <1>4 DEF Receive
  <2> QED BY <2>1 DEF ReceiveHomeAssistant
<1> QED BY <1>1, <1>2, <1>3, <1>4 DEF Replacing, Kinds, InPlace

(* Nothing was copied when the run begins. *)
LEMMA CopyInit == Init => CopyInv
PROOF
<1> SUFFICES ASSUME Init PROVE CopyInv
  OBVIOUS
<1> USE DEF Init, StartupInit, RegistryInit, NoCopy, Copying
<1>1. CopyTypes
  BY DEF CopyTypes
<1>2. Unstarted
  BY DEF Unstarted
<1>3. \A d \in DeviceNames : Whole(d)
  BY DEF Whole
<1> QED BY <1>1, <1>2, <1>3 DEF CopyInv, SnapshotIsAReading

(* The registry is built before anything is live. *)
LEMMA StartupCopies ==
  ASSUME CopyInv, StartupNext, UNCHANGED registryVars
  PROVE  CopyInv'
PROOF
<1> USE DEF registryVars, liveVars, readerVars
<1>1. CopyTypes'
  BY DEF CopyInv, CopyTypes
<1>2. Unstarted'
  <2>1. ASSUME phase' \in AxisNames \cup {"load"} PROVE phase \in AxisNames \cup {"load"} /\ running' \subseteq running
    BY <2>1 DEF StartupNext, Main, Load, Construct, FinishAxis, StartWorker, LeaveWait, StopAll,
                CloseAll, EndWorker, Signal, workers, AxisNames, Axes
  <2> QED BY <2>1 DEF CopyInv, Unstarted
<1>3. CASE registry' = registry
  <2>1. \A d : Device(d)' = Device(d)
    BY <1>3 DEF Device
  <2> QED BY <1>1, <1>2, <2>1 DEF CopyInv, Whole, SnapshotIsAReading, WasHeld
<1>4. CASE registry' # registry
  <2>1. phase \in AxisNames
    BY <1>4 DEF StartupNext, Main, Load, Construct, FinishAxis, StartWorker, LeaveWait, StopAll,
                CloseAll, EndWorker, Signal, plant
  <2>2. /\ \A d \in DeviceNames : at[d] = "idle" /\ accepted[d] = << >> /\ items[d] = << >>
        /\ \A a \in AlgorithmNames : copy[a].next = 0 /\ DOMAIN snapshot[a] = {}
    BY <2>1 DEF CopyInv, Unstarted
  <2>3. \A d \in DeviceNames : Whole(d)'
    BY <2>2 DEF Whole
  <2>4. SnapshotIsAReading'
    BY <2>2 DEF SnapshotIsAReading
  <2> QED BY <1>1, <1>2, <2>2, <2>3, <2>4 DEF CopyInv
<1> QED BY <1>3, <1>4

(* What a device has accepted only grows, so a copy stays one it held. *)
LEMMA HeldStays ==
  ASSUME NEW S, NEW a, NEW d, accepted[d] \in Seq(S), accepted'[d] \in Seq(S),
         Len(accepted[d]) <= Len(accepted'[d]),
         \A k \in 1..Len(accepted[d]) : accepted'[d][k] = accepted[d][k],
         since'[a][d] = since[a][d], snapshot'[a] = snapshot[a], WasHeld(a, d)
  PROVE  WasHeld(a, d)'
PROOF
BY DEF WasHeld

(* A connector's thread replaces a reading, and never a copy. *)
LEMMA DeliverCopies ==
  ASSUME CopyInv, StoreInv, StoreInv', NEW d \in DeviceNames, Deliver(d), phase \notin AxisNames \cup {"load"},
         UNCHANGED startupVars
  PROVE  CopyInv'
PROOF
<1> USE DEF Delivering, liveVars, readerVars, startupVars, plant
<1>a. registry' = registry /\ phase' = phase
  OBVIOUS
<1>b. \A e : Device(e)' = Device(e)
  BY <1>a DEF Device
<1>c. Unstarted'
  BY <1>a DEF Unstarted
<1>d. UNCHANGED readerVars
  BY DEF Deliver, BeginReceive, WriteData, OnDataReceived, UpdateDevice, WriteDeviceData
<1>e. CopyTypes'
  <2>1. writes' = writes \/ \E w : writes' = [writes EXCEPT ![d] = w]
    BY DEF Deliver, BeginReceive, WriteData, OnDataReceived, UpdateDevice, WriteDeviceData
  <2> QED BY <1>d, <2>1 DEF CopyInv, CopyTypes
<1>f. /\ at = [e \in DeviceNames |-> at[e]] /\ items = [e \in DeviceNames |-> items[e]]
      /\ writes = [e \in DeviceNames |-> writes[e]]
  BY DEF CopyInv, CopyTypes, StoreInv
<1>1. ASSUME accepted' = accepted, \A e \in DeviceNames : Device(e).plugin \in Replacing => Whole(e)'
      PROVE  CopyInv'
  BY <1>1, <1>b, <1>c, <1>d, <1>e DEF CopyInv, SnapshotIsAReading, WasHeld
<1>2. ASSUME accepted' = accepted, items' = items,
             \A e \in DeviceNames : at'[e] = "receive" => at[e] = "receive" /\ writes'[e] = writes[e]
      PROVE  CopyInv'
  <2>1. \A e \in DeviceNames : Device(e).plugin \in Replacing => Whole(e)'
    BY <1>2 DEF CopyInv, Whole
  <2> QED BY <1>1, <1>2, <2>1
<1>3. CASE BeginReceive(d)
  <2>1. PICK payload : LET w == Receive(Device(d).plugin, Device(d).declared, Device(d).protocol, payload) IN
          /\ at' = [at EXCEPT ![d] = IF w = Refused THEN "refused" ELSE "receive"]
          /\ writes' = [writes EXCEPT ![d] = w]
    BY <1>3 DEF BeginReceive
  <2>2. UNCHANGED <<items, accepted>>
    BY <1>3 DEF BeginReceive
  <2>3. ASSUME Device(d).plugin \in Replacing PROVE Whole(d)'
    <3>1. \/ writes'[d] = Refused /\ at'[d] = "refused"
          \/ \E new : writes'[d] = <<Assign(new)>>
      BY <1>f, <2>1, <2>3, ReceiveReplaces
    <3> QED BY <2>2, <2>3, <3>1 DEF CopyInv, Whole
  <2>4. ASSUME NEW e \in DeviceNames \ {d}, Device(e).plugin \in Replacing PROVE Whole(e)'
    BY <1>f, <2>1, <2>2, <2>4 DEF CopyInv, Whole
  <2> QED BY <1>1, <2>2, <2>3, <2>4
<1>4. CASE WriteData(d)
  <2>1. PICK S : Histories(S) /\ Histories(S)'
    <3>1. PICK S : Histories(S)
      BY DEF StoreInv
    <3>2. PICK T : Histories(T)'
      BY DEF StoreInv
    <3>3. PICK U : U = S \cup T
      OBVIOUS
    <3>4. Seq(S) \subseteq Seq(U) /\ Seq(T) \subseteq Seq(U)
      BY <3>3, WiderSequences
    <3> QED BY <3>1, <3>2, <3>4 DEF Histories
  <2> DEFINE now == Write(items[d], Head(writes[d]))
  <2>2. /\ at[d] = "receive" /\ items' = [items EXCEPT ![d] = now]
        /\ writes' = [writes EXCEPT ![d] = Tail(writes[d])]
        /\ \/ Len(writes[d]) # 1 /\ accepted' = accepted
           \/ /\ Len(writes[d]) = 1 /\ at' = [at EXCEPT ![d] = "accepted"]
              /\ accepted' = [accepted EXCEPT ![d] = Append(accepted[d], Reading(now))]
        /\ \A e \in DeviceNames \ {d} : at'[e] = at[e]
    BY <1>4, <1>f DEF WriteData
  <2> HIDE DEF now
  <2>3. accepted \in [DeviceNames -> Seq(S)] /\ accepted' \in [DeviceNames -> Seq(S)]
    BY <2>1 DEF Histories
  <2>4. ASSUME NEW e \in DeviceNames
        PROVE  /\ Len(accepted[e]) <= Len(accepted'[e])
               /\ \A k \in 1..Len(accepted[e]) : accepted'[e][k] = accepted[e][k]
    <3>1. CASE accepted'[e] = accepted[e]
      BY <3>1, <2>3
    <3>2. CASE e = d /\ accepted'[d] = Append(accepted[d], Reading(now))
      <4>1. accepted[d] \in Seq(S) /\ Append(accepted[d], Reading(now)) \in Seq(S)
        BY <2>3, <3>2
      <4>2. /\ Len(Append(accepted[d], Reading(now))) = Len(accepted[d]) + 1
            /\ \A k \in 1..Len(accepted[d]) : Append(accepted[d], Reading(now))[k] = accepted[d][k]
        BY <4>1
      <4> QED BY <3>2, <4>1, <4>2
    <3> QED BY <2>2, <2>3, <3>1, <3>2
  <2>5. ASSUME Device(d).plugin \in Replacing PROVE Whole(d)'
    <3>1. PICK new : writes[d] = <<Assign(new)>>
      BY <2>2, <2>5 DEF CopyInv, Whole
    <3>2. Len(writes[d]) = 1
      BY <3>1
    <3>3. at'[d] = "accepted" /\ items'[d] = now /\ accepted'[d] = Append(accepted[d], Reading(now))
      BY <1>f, <2>2, <2>3, <3>2
    <3>4. accepted[d] \in Seq(S)
      BY <2>3
    <3>5. accepted'[d] # << >> /\ accepted'[d][Len(accepted'[d])] = Reading(now)
      BY <3>3, <3>4
    <3> QED BY <3>3, <3>5 DEF Whole
  <2>6. ASSUME NEW e \in DeviceNames \ {d}, Device(e).plugin \in Replacing PROVE Whole(e)'
    <3>1. at'[e] = at[e] /\ writes'[e] = writes[e] /\ items'[e] = items[e] /\ accepted'[e] = accepted[e]
      BY <1>f, <2>2, <2>3
    <3> QED BY <2>6, <3>1 DEF CopyInv, Whole
  <2>7. SnapshotIsAReading'
    <3> SUFFICES ASSUME NEW a \in AlgorithmNames, NEW e \in DeviceNames,
                        e \in DOMAIN snapshot[a], Device(e).plugin \in Replacing
                 PROVE  WasHeld(a, e)'
      BY <1>b, <1>d DEF SnapshotIsAReading
    <3>1. WasHeld(a, e)
      BY DEF CopyInv, SnapshotIsAReading
    <3>2. accepted[e] \in Seq(S) /\ accepted'[e] \in Seq(S)
      BY <2>3
    <3> QED BY <1>d, <2>4, <3>1, <3>2, HeldStays
  <2>8. \A a \in AlgorithmNames : \A e \in DeviceNames :
          since'[a][e] \in Nat /\ since'[a][e] <= Len(accepted'[e])
    <3> TAKE a \in AlgorithmNames
    <3> TAKE e \in DeviceNames
    <3>1. accepted[e] \in Seq(S) /\ accepted'[e] \in Seq(S)
      BY <2>3
    <3>2. Len(accepted[e]) \in Nat /\ Len(accepted'[e]) \in Nat
      BY <3>1
    <3> QED BY <1>d, <2>4, <3>2 DEF CopyInv
  <2> QED BY <1>b, <1>c, <1>d, <1>e, <2>5, <2>6, <2>7, <2>8 DEF CopyInv
<1>5. CASE OnDataReceived(d)
  BY <1>2, <1>5, <1>f DEF OnDataReceived
<1>6. CASE UpdateDevice(d)
  BY <1>2, <1>6, <1>f DEF UpdateDevice
<1>7. CASE WriteDeviceData(d)
  BY <1>2, <1>7, <1>f DEF WriteDeviceData
<1> QED BY <1>3, <1>4, <1>5, <1>6, <1>7 DEF Deliver

(* An algorithm copies what a device shows at that moment. *)
LEMMA MainCopies ==
  ASSUME CopyInv, StoreInv, NEW a \in AlgorithmNames, RunMain(a), phase \notin AxisNames \cup {"load"},
         UNCHANGED startupVars
  PROVE  CopyInv'
PROOF
<1> USE DEF Doing, liveVars, readerVars, startupVars, plant
<1>a. registry' = registry /\ phase' = phase
  OBVIOUS
<1>b. \A e : Device(e)' = Device(e)
  BY <1>a DEF Device
<1>c. Unstarted'
  BY <1>a DEF Unstarted
<1>d. UNCHANGED liveVars
  BY DEF RunMain, GetDevices, CopyReplaced, OpenItems, CopyItem, CopyRaises, ReleaseDevices, Copied
<1>f. /\ copy = [b \in AlgorithmNames |-> copy[b]]
      /\ snapshot = [b \in AlgorithmNames |-> snapshot[b]]
      /\ since = [b \in AlgorithmNames |-> since[b]]
      /\ doing = [b \in AlgorithmNames |-> doing[b]]
  BY DEF CopyInv, CopyTypes
<1>g. \A e \in DeviceNames : Device(e).plugin \in Replacing => Whole(e)'
  BY <1>d DEF CopyInv, Whole
<1>h. PICK S : accepted \in [DeviceNames -> Seq(S)]
  BY DEF StoreInv, Histories
<1>i. ASSUME doing' = doing \/ \E to : doing' = [doing EXCEPT ![a] = to],
             snapshot' = snapshot \/ \E s : snapshot' = [snapshot EXCEPT ![a] = s],
             since' = since \/ \E f : since' = [since EXCEPT ![a] = [e \in DeviceNames |-> f[e]]],
             copy' = copy \/ \E c : copy' = [copy EXCEPT ![a] = c]
      PROVE  CopyTypes'
  <2>1. doing' = [b \in AlgorithmNames |-> doing'[b]] /\ snapshot' = [b \in AlgorithmNames |-> snapshot'[b]]
    BY <1>f, <1>i
  <2>2. since' = [b \in AlgorithmNames |-> [e \in DeviceNames |-> since'[b][e]]]
    <3>1. since = [b \in AlgorithmNames |-> [e \in DeviceNames |-> since[b][e]]]
      BY DEF CopyInv, CopyTypes
    <3> QED BY <1>i, <3>1
  <2>3. copy' = [b \in AlgorithmNames |-> copy'[b]]
    BY <1>f, <1>i
  <2>4. writes' = [e \in DeviceNames |-> writes'[e]]
    BY <1>d DEF CopyInv, CopyTypes
  <2> QED BY <2>1, <2>2, <2>3, <2>4 DEF CopyTypes
<1>j. \A q : Copying(q).next = 0
  BY DEF Copying
<1>1. ASSUME CopyTypes', since' = since \/ \E b \in AlgorithmNames :
                since' = [since EXCEPT ![b] = [e \in DeviceNames |-> Len(accepted[e])]],
             copy'[a].next # 0 => Device(Head(copy'[a].left)).plugin \in InPlace,
             \A b \in AlgorithmNames \ {a} : copy'[b] = copy[b],
             SnapshotIsAReading'
      PROVE  CopyInv'
  <2>1. \A b \in AlgorithmNames : \A e \in DeviceNames :
          since'[b][e] \in Nat /\ since'[b][e] <= Len(accepted'[e])
    <3>1. \A e \in DeviceNames : Len(accepted[e]) \in Nat /\ accepted' = accepted
      BY <1>d, <1>h
    <3> QED BY <1>1, <1>f, <3>1 DEF CopyInv
  <2>2. \A b \in AlgorithmNames :
          copy'[b].next # 0 => Device(Head(copy'[b].left)).plugin \in InPlace
    BY <1>1 DEF CopyInv
  <2> QED BY <1>1, <1>b, <1>c, <1>g, <2>1, <2>2 DEF CopyInv
<1>2. CASE GetDevices(a)
  <2>1. /\ copy'[a].next = 0 /\ \A b \in AlgorithmNames \ {a} : copy'[b] = copy[b]
        /\ snapshot'[a] = << >> /\ \A b \in AlgorithmNames \ {a} : snapshot'[b] = snapshot[b] /\ since'[b] = since[b]
        /\ since' = [since EXCEPT ![a] = [e \in DeviceNames |-> Len(accepted[e])]]
    BY <1>2, <1>f, <1>j DEF GetDevices
  <2>2. SnapshotIsAReading'
    <3> SUFFICES ASSUME NEW b \in AlgorithmNames, NEW e \in DeviceNames,
                        e \in DOMAIN snapshot'[b], Device(e).plugin \in Replacing
                 PROVE  WasHeld(b, e)'
      BY <1>b DEF SnapshotIsAReading
    <3>1. b # a
      BY <2>1
    <3> QED BY <1>d, <2>1, <3>1 DEF CopyInv, SnapshotIsAReading, WasHeld
  <2>3. CopyTypes'
    <3>1. PICK q : copy' = [copy EXCEPT ![a] = Copying(q)]
      BY <1>2 DEF GetDevices
    <3>2. PICK f : since' = [since EXCEPT ![a] = [e \in DeviceNames |-> f[e]]]
      <4> DEFINE f == [e \in DeviceNames |-> Len(accepted[e])]
      <4>1. f = [e \in DeviceNames |-> f[e]] /\ since' = [since EXCEPT ![a] = f]
        BY <2>1
      <4> HIDE DEF f
      <4> QED BY <4>1
    <3>3. snapshot' = [snapshot EXCEPT ![a] = << >>] /\ doing' = [doing EXCEPT ![a] = "copy"]
      BY <1>2 DEF GetDevices
    <3> QED BY <1>i, <1>j, <3>1, <3>2, <3>3
  <2> QED BY <1>1, <2>1, <2>2, <2>3
<1>3. ASSUME NEW d, NEW reading, Copied(a, d, reading), UNCHANGED <<doing, since>>,
             Device(d).plugin \notin InPlace => reading = Reading(items[d])
      PROVE  CopyInv'
  <2>1. /\ copy'[a].next = 0 /\ \A b \in AlgorithmNames \ {a} : copy'[b] = copy[b]
        /\ \A b \in AlgorithmNames \ {a} : snapshot'[b] = snapshot[b]
        /\ DOMAIN snapshot'[a] = DOMAIN snapshot[a] \cup {d} /\ snapshot'[a][d] = reading
        /\ \A e \in DOMAIN snapshot[a] \ {d} : snapshot'[a][e] = snapshot[a][e]
    <3> DEFINE now == [name \in DOMAIN snapshot[a] \cup {d} |->
                         IF name = d THEN reading ELSE snapshot[a][name]]
    <3>1. /\ copy' = [copy EXCEPT ![a] = Copying(Tail(copy[a].left))]
          /\ snapshot' = [snapshot EXCEPT ![a] = now]
      BY <1>3 DEF Copied
    <3>2. copy'[a].next = 0 /\ \A b \in AlgorithmNames \ {a} : copy'[b] = copy[b]
      BY <1>f, <1>j, <3>1
    <3>3. snapshot'[a] = now
          /\ \A b \in AlgorithmNames \ {a} : snapshot'[b] = snapshot[b]
      BY <1>f, <3>1
    <3> QED BY <3>2, <3>3
  <2>2. SnapshotIsAReading'
    <3> SUFFICES ASSUME NEW b \in AlgorithmNames, NEW e \in DeviceNames,
                        e \in DOMAIN snapshot'[b], Device(e).plugin \in Replacing
                 PROVE  WasHeld(b, e)'
      BY <1>b DEF SnapshotIsAReading
    <3>1. CASE b = a /\ e = d
      <4>1. snapshot'[a][d] = Reading(items[d]) /\ Whole(d)
        BY <1>3, <2>1, <3>1 DEF Replacing, CopyInv
      <4>2. accepted[d] \in Seq(S) /\ since[a][d] \in Nat /\ since[a][d] <= Len(accepted[d])
        BY <1>h, <3>1 DEF CopyInv
      <4>3. CASE accepted[d] = << >>
        BY <1>3, <3>1, <4>1, <4>2, <4>3 DEF Whole, WasHeld
      <4>4. CASE accepted[d] # << >>
        <5>1. Len(accepted[d]) \in 1..Len(accepted[d])
          BY <4>2, <4>4
        <5>2. Len(accepted'[d]) \in 1..Len(accepted'[d]) /\ Len(accepted'[d]) >= since'[a][d]
              /\ accepted'[d][Len(accepted'[d])] = snapshot'[a][d]
          BY <1>3, <1>d, <4>1, <4>2, <4>4, <5>1 DEF Whole
        <5> QED BY <3>1, <5>2 DEF WasHeld
      <4> QED BY <4>3, <4>4
    <3>2. CASE ~(b = a /\ e = d)
      BY <1>3, <1>d, <2>1, <3>2 DEF CopyInv, SnapshotIsAReading, WasHeld
    <3> QED BY <3>1, <3>2
  <2>3. CopyTypes'
    BY <1>3, <1>i, <1>j DEF Copied
  <2> QED BY <1>1, <1>3, <2>1, <2>2, <2>3
<1>4. CASE CopyReplaced(a)
  BY <1>3, <1>4 DEF CopyReplaced
<1>5. ASSUME UNCHANGED <<snapshot, since>> PROVE SnapshotIsAReading'
  BY <1>5, <1>b, <1>d DEF CopyInv, SnapshotIsAReading, WasHeld
<1>6. CASE OpenItems(a)
  <2>1. /\ copy'[a].next # 0 => Device(Head(copy'[a].left)).plugin \in InPlace
        /\ \A b \in AlgorithmNames \ {a} : copy'[b] = copy[b]
    BY <1>6, <1>f DEF OpenItems
  <2>2. CopyTypes'
    <3>1. PICK c : copy' = [copy EXCEPT ![a] = c]
      BY <1>6 DEF OpenItems
    <3> QED BY <1>6, <1>i, <3>1 DEF OpenItems
  <2> QED BY <1>1, <1>5, <1>6, <2>1, <2>2 DEF OpenItems
<1>7. CASE CopyItem(a)
  <2> DEFINE d == Head(copy[a].left)
             more == {k \in copy[a].next..Len(items[d]) : items[d][k].live}
  <2>0. Device(d).plugin \in InPlace /\ UNCHANGED <<doing, since>>
    <3>1. copy[a].next > 0 /\ UNCHANGED <<doing, since>>
      BY <1>7 DEF CopyItem
    <3>2. copy[a].next # 0
      BY <3>1
    <3>3. Device(Head(copy[a].left)).plugin \in InPlace
      BY <3>2 DEF CopyInv
    <3> QED BY <3>1, <3>3
  <2>1. CASE Copied(a, d, copy[a].got)
    BY <1>3, <2>0, <2>1
  <2>2. CASE /\ copy' = [copy EXCEPT ![a] = [left |-> copy[a].left, size |-> copy[a].size,
                                            next |-> Min(more) + 1,
                                            got |-> copy[a].got \cup {items[d][Min(more)]}]]
             /\ UNCHANGED snapshot
    <3>1. copy'[a].left = copy[a].left /\ \A b \in AlgorithmNames \ {a} : copy'[b] = copy[b]
      BY <1>f, <2>2
    <3>2. CopyTypes'
      <4>1. PICK c : copy' = [copy EXCEPT ![a] = c]
        BY <2>2
      <4> QED BY <1>i, <2>0, <2>2, <4>1
    <3> QED BY <1>1, <1>5, <2>0, <2>2, <3>1, <3>2
  <2> QED BY <1>7, <2>1, <2>2 DEF CopyItem
<1>8. CASE CopyRaises(a)
  <2>1. /\ copy'[a].next = 0 /\ \A b \in AlgorithmNames \ {a} : copy'[b] = copy[b] /\ snapshot'[b] = snapshot[b]
        /\ snapshot'[a] = << >> /\ since' = since
    BY <1>8, <1>f, <1>j DEF CopyRaises, NoCopy
  <2>2. SnapshotIsAReading'
    <3> SUFFICES ASSUME NEW b \in AlgorithmNames, NEW e \in DeviceNames,
                        e \in DOMAIN snapshot'[b], Device(e).plugin \in Replacing
                 PROVE  WasHeld(b, e)'
      BY <1>b DEF SnapshotIsAReading
    <3>1. b # a
      BY <2>1
    <3> QED BY <1>d, <2>1, <3>1 DEF CopyInv, SnapshotIsAReading, WasHeld
  <2>3. CopyTypes'
    BY <1>8, <1>i, <1>j DEF CopyRaises, NoCopy
  <2> QED BY <1>1, <2>1, <2>2, <2>3
<1>9. CASE ReleaseDevices(a)
  <2>1. copy' = copy /\ since' = since /\ snapshot' = snapshot
    BY <1>9 DEF ReleaseDevices
  <2>2. CopyTypes'
    BY <1>9, <1>i DEF ReleaseDevices
  <2> QED BY <1>1, <1>5, <2>1, <2>2 DEF CopyInv
<1> QED BY <1>2, <1>4, <1>6, <1>7, <1>8, <1>9 DEF RunMain

(* Nothing is live before main() has started a thread. *)
LEMMA LiveAfterStart ==
  ASSUME CopyInv, Threads PROVE phase \notin AxisNames \cup {"load"}
PROOF
<1> SUFFICES ASSUME phase \in AxisNames \cup {"load"} PROVE FALSE
  OBVIOUS
<1>1. /\ running = {}
      /\ \A d \in DeviceNames : at[d] = "idle"
      /\ \A a \in AlgorithmNames : doing[a] = "idle" /\ copy[a].next = 0
  BY DEF CopyInv, Unstarted
<1>2. ASSUME NEW d \in DeviceNames, Deliver(d) PROVE FALSE
  BY <1>1, <1>2 DEF Deliver, BeginReceive, WriteData, OnDataReceived, UpdateDevice, WriteDeviceData,
                    Delivering
<1>3. ASSUME NEW a \in AlgorithmNames, RunMain(a) PROVE FALSE
  BY <1>1, <1>3 DEF RunMain, GetDevices, CopyReplaced, OpenItems, CopyItem, CopyRaises,
                    ReleaseDevices, Doing
<1> QED BY <1>2, <1>3 DEF Threads

(* A copy of a device that replaces its reading is a reading it had when   *)
(* get_devices() took the lock, or one accepted since, whatever the        *)
(* connectors write meanwhile (Device.__deepcopy__).                       *)
THEOREM SnapshotIsAReadingHolds == Spec => []SnapshotIsAReading
PROOF
<1>1. Init => StoreInv
  <2>1. << >> \in Seq({}) OBVIOUS
  <2> QED BY <2>1 DEF Init, RegistryInit, StoreInv, Stored, Histories
<1>2. StoreInv /\ [Next]_vars => StoreInv' BY StoreStep
<1>3. StoreInv /\ StoreInv' /\ CopyInv /\ [Next]_vars => CopyInv'
  <2> SUFFICES ASSUME StoreInv, StoreInv', CopyInv, [Next]_vars PROVE CopyInv'
    OBVIOUS
  <2>1. CASE StartupNext /\ UNCHANGED registryVars BY <2>1, StartupCopies
  <2>2. CASE Threads /\ UNCHANGED startupVars
    BY <2>2, LiveAfterStart, DeliverCopies, MainCopies DEF Threads
  <2>3. CASE UNCHANGED vars
    <3>1. \A e : Device(e)' = Device(e)
      BY <2>3 DEF Device, vars, startupVars, plant
    <3> QED BY <2>3, <3>1 DEF vars, startupVars, workers, registryVars, liveVars, readerVars, CopyInv,
               CopyTypes, Unstarted, Whole, SnapshotIsAReading, WasHeld
  <2> QED BY <2>1, <2>2, <2>3 DEF Next
<1>4. CopyInv => SnapshotIsAReading BY DEF CopyInv
<1> QED BY <1>1, <1>2, <1>3, <1>4, CopyInit, PTL DEF Spec

---------------------------------------------------------------------------
(* Folds, for any accumulator: the numbers below n by the least-number     *)
(* principle, and a fold as the run of its accumulator over the prefixes.  *)

LEMMA Least ==
  ASSUME NEW T \in SUBSET Nat, T # {}
  PROVE  \E n \in T : \A m \in T : n <= m
PROOF
<1> DEFINE Less == {ss \in Nat \X Nat : ss[1] < ss[2]}
<1>1. IsWellFoundedOn(Less, Nat)
  BY NatLessThanWellFounded DEF OpToRel
<1>2. \E n \in T : \A m \in T : ~ (<<m, n>> \in Less)
  <2> HIDE DEF Less
  <2> QED BY <1>1, WFMin
<1>3. PICK n \in T : \A m \in T : ~ (<<m, n>> \in Less)
  BY <1>2
<1>4. ASSUME NEW m \in T, ~(n <= m) PROVE FALSE
  <2>1. n \in Nat /\ m \in Nat /\ m < n
    BY <1>4
  <2>2. <<m, n>> \in Nat \X Nat /\ <<m, n>>[1] = m /\ <<m, n>>[2] = n
    BY <2>1
  <2> QED BY <1>3, <2>1, <2>2
<1> QED BY <1>4

LEMMA Induction ==
  ASSUME NEW P \in SUBSET Nat, 0 \in P, \A n \in P : n + 1 \in P
  PROVE  P = Nat
PROOF
<1>1. ASSUME Nat \ P # {} PROVE FALSE
  <2>1. PICK n \in Nat \ P : \A m \in Nat \ P : n <= m
    BY <1>1, Least
  <2>2. n # 0 /\ n - 1 \in Nat /\ (n - 1) + 1 = n /\ ~(n <= n - 1)
    BY <2>1
  <2> QED BY <2>1, <2>2
<1> QED BY <1>1

LEMMA MaxOfInterval ==
  ASSUME NEW m \in Nat, NEW s \in SUBSET (1..(m + 1)), m + 1 \in s
  PROVE  Max(s) = m + 1 /\ s \ {Max(s)} \in SUBSET (1..m)
PROOF
<1>1. \A y \in s : m + 1 >= y
  OBVIOUS
<1>2. \A x \in s : (\A y \in s : x >= y) => x = m + 1
  OBVIOUS
<1>3. Max(s) = m + 1
  BY <1>1, <1>2 DEF Max
<1> QED BY <1>3

(* g folds step over the initial segments of 1..n, the way FoldLeft does. *)
FoldsOver(g, base, n, step) ==
  g = [s \in SUBSET (1..n) |->
         IF s = {} THEN base ELSE step[<<g[s \ {Max(s)}], Max(s)>>]]

LEMMA FoldExists ==
  ASSUME NEW Acc, NEW base \in Acc, NEW n \in Nat, NEW step \in [Acc \X (1..n) -> Acc]
  PROVE  \E g \in [SUBSET (1..n) -> Acc] : FoldsOver(g, base, n, step)
PROOF
<1> DEFINE Up(g, m) == g \in [SUBSET (1..m) -> Acc] /\ FoldsOver(g, base, m, step)
           P == {m \in Nat : m <= n => \E g : Up(g, m)}
<1>1. 0 \in P
  <2>1. SUBSET (1..0) = {{}}
    OBVIOUS
  <2>2. Up([s \in SUBSET (1..0) |-> base], 0)
    BY <2>1 DEF FoldsOver
  <2> QED BY <2>2
<1>2. ASSUME NEW m \in P PROVE m + 1 \in P
  <2>1. CASE ~(m + 1 <= n)
    BY <1>2, <2>1
  <2>2. CASE m + 1 <= n
    <3>0. m \in Nat /\ m \in 0..n
      BY <1>2, <2>2
    <3>1. PICK g : Up(g, m)
      <4>1. m <= n
        BY <3>0
      <4> HIDE DEF Up
      <4> QED BY <1>2, <4>1
    <3> DEFINE h == [s \in SUBSET (1..(m + 1)) |->
                       IF s \in SUBSET (1..m) THEN g[s]
                       ELSE step[<<g[s \ {m + 1}], m + 1>>]]
    <3>2. ASSUME NEW s \in SUBSET (1..(m + 1)), s \notin SUBSET (1..m)
          PROVE  Max(s) = m + 1 /\ s \ {m + 1} \in SUBSET (1..m) /\ s # {}
      <4>1. m + 1 \in s
        BY <3>2, <1>2
      <4> QED BY <4>1, <1>2, MaxOfInterval
    <3>3. \A s \in SUBSET (1..m) : s \in SUBSET (1..(m + 1)) /\ s \ {Max(s)} \in SUBSET (1..m)
      <4>1. 1..m \subseteq 1..(m + 1)
        BY <3>0
      <4> QED BY <4>1
    <3>4. h \in [SUBSET (1..(m + 1)) -> Acc]
      <4>1. \A s \in SUBSET (1..(m + 1)) : h[s] \in Acc
        <5>1. m + 1 \in 1..n
          BY <2>2, <3>0
        <5>2. \A s \in SUBSET (1..(m + 1)) : s \notin SUBSET (1..m) =>
                g[s \ {m + 1}] \in Acc
          BY <3>1, <3>2
        <5>3. \A s \in SUBSET (1..(m + 1)) : s \notin SUBSET (1..m) =>
                <<g[s \ {m + 1}], m + 1>> \in Acc \X (1..n)
          BY <5>1, <5>2
        <5>4. \A s \in SUBSET (1..(m + 1)) : s \notin SUBSET (1..m) =>
                step[<<g[s \ {m + 1}], m + 1>>] \in Acc
          BY <5>3
        <5> QED BY <3>1, <5>4
      <4> QED BY <4>1
    <3>5. ASSUME NEW s \in SUBSET (1..(m + 1))
          PROVE h[s] = IF s = {} THEN base ELSE step[<<h[s \ {Max(s)}], Max(s)>>]
      <4>1. CASE s \in SUBSET (1..m)
        <5>1. h[s] = g[s] /\ h[s \ {Max(s)}] = g[s \ {Max(s)}]
          BY <3>3, <4>1
        <5> QED BY <3>1, <4>1, <5>1 DEF FoldsOver
      <4>2. CASE s \notin SUBSET (1..m)
        BY <3>2, <3>3, <4>2
      <4> QED BY <4>1, <4>2
    <3>6. Up(h, m + 1)
      BY <3>4, <3>5 DEF FoldsOver
    <3>7. m + 1 \in Nat
      BY <1>2
    <3> QED BY <3>6, <3>7
  <2> QED BY <2>1, <2>2
<1>3. n \in P
  <2> HIDE DEF P
  <2>1. P = Nat
    <3>1. P \in SUBSET Nat
      BY DEF P
    <3> QED BY <1>1, <1>2, <3>1, Induction
  <2> QED BY <2>1
<1>4. n <= n
  OBVIOUS
<1>5. \E g : Up(g, n)
  <2> HIDE DEF Up
  <2> QED BY <1>3, <1>4
<1> QED BY <1>5

LEMMA InitialSegment ==
  ASSUME NEW n \in Nat, NEW k \in 1..n
  PROVE  /\ 1..k \in SUBSET (1..n) /\ 1..k # {}
         /\ Max(1..k) = k /\ (1..k) \ {k} = 1..(k - 1)
PROOF
<1>1. k - 1 \in Nat /\ (k - 1) + 1 = k /\ k \in 1..k /\ 1..k \in SUBSET (1..((k - 1) + 1))
  OBVIOUS
<1>2. Max(1..k) = k
  BY <1>1, MaxOfInterval
<1> QED BY <1>1, <1>2

LEMMA MaxInSet ==
  ASSUME NEW n \in Nat, NEW s \in SUBSET (1..n), s # {}
  PROVE  Max(s) \in s
PROOF
<1> DEFINE T == {n - x : x \in s}
<1>1. T \in SUBSET Nat /\ T # {}
  <2>1. \A x \in s : n - x \in Nat
    OBVIOUS
  <2> QED BY <2>1
<1>2. PICK t \in T : \A u \in T : t <= u
  BY <1>1, Least
<1>3. PICK x \in s : t = n - x
  BY <1>2
<1>4. \A y \in s : x >= y
  <2>1. ASSUME NEW y \in s PROVE x >= y
    <3>1. n - x <= n - y
      BY <1>2, <1>3
    <3> QED BY <3>1
  <2> QED BY <2>1
<1> QED BY <1>4 DEF Max


(* The values a fold takes on the initial segments, one after the other. *)
FoldsWithin(g, Acc, base, n, step) ==
  /\ g[{}] = base
  /\ \A s \in SUBSET (1..n) :
       s # {} /\ g[s \ {Max(s)}] \in Acc => g[s] = step[<<g[s \ {Max(s)}], Max(s)>>]
Runs(f, base, n, step) ==
  f[0] = base /\ \A k \in 1..n : f[k] = step[<<f[k - 1], k>>]

LEMMA FoldSteps ==
  ASSUME NEW Acc, NEW base \in Acc, NEW n \in Nat, NEW step \in [Acc \X (1..n) -> Acc],
         NEW g, FoldsWithin(g, Acc, base, n, step)
  PROVE  \E f \in [0..n -> Acc] : f[n] = g[1..n] /\ Runs(f, base, n, step)
PROOF
<1> USE DEF FoldsWithin, Runs
<1>1. ASSUME NEW k \in 1..n, g[1..(k - 1)] \in Acc
      PROVE  g[1..k] = step[<<g[1..(k - 1)], k>>] /\ g[1..k] \in Acc
  <2>1. g[1..k] = step[<<g[1..(k - 1)], k>>]
    BY <1>1, InitialSegment
  <2>2. <<g[1..(k - 1)], k>> \in Acc \X (1..n)
    BY <1>1
  <2> QED BY <2>1, <2>2
<1> DEFINE P == {k \in Nat : k <= n => g[1..k] \in Acc}
<1>2. 0 \in P
  <2>1. 1..0 = {}
    OBVIOUS
  <2> QED BY <2>1
<1>3. ASSUME NEW k \in P PROVE k + 1 \in P
  <2>1. CASE k + 1 <= n
    <3>1. k + 1 \in 1..n /\ (k + 1) - 1 = k /\ k <= n
      BY <2>1
    <3>2. g[1..k] \in Acc
      BY <3>1
    <3>3. g[1..((k + 1) - 1)] \in Acc
      BY <3>1, <3>2
    <3>4. g[1..(k + 1)] \in Acc
      BY <1>1, <3>1, <3>3
    <3>5. k + 1 \in Nat
      OBVIOUS
    <3> QED BY <3>4, <3>5
  <2>2. k + 1 \in Nat
    OBVIOUS
  <2> QED BY <2>1, <2>2
<1>4. P = Nat
  <2> HIDE DEF P
  <2>1. P \in SUBSET Nat
    BY DEF P
  <2> QED BY <1>2, <1>3, <2>1, Induction
<1>5. \A k \in 0..n : g[1..k] \in Acc
  <2>1. ASSUME NEW k \in 0..n PROVE g[1..k] \in Acc
    <3>1. k \in Nat /\ k <= n
      OBVIOUS
    <3>2. k \in P
      BY <1>4, <3>1
    <3> QED BY <3>1, <3>2
  <2> QED BY <2>1
<1> DEFINE f == [k \in 0..n |-> g[1..k]]
<1>6. f \in [0..n -> Acc] /\ f[n] = g[1..n]
  BY <1>5
<1>7. f[0] = base
  <2>1. 1..0 = {}
    OBVIOUS
  <2> QED BY <2>1
<1>8. ASSUME NEW k \in 1..n PROVE f[k] = step[<<f[k - 1], k>>]
  <2>1. k - 1 \in 0..n /\ k \in 0..n
    OBVIOUS
  <2> QED BY <1>1, <1>5, <2>1
<1> HIDE DEF f
<1> QED BY <1>6, <1>7, <1>8

---------------------------------------------------------------------------
(* What the folds of Configuration and of the registry make of a list.     *)

Kept(kept, e) ==
  IF \E k \in 1..Len(kept) : kept[k].name = e.name THEN kept ELSE Append(kept, e)

(* UniqueByName takes one entry after the other. *)
LEMMA UniqueFold ==
  ASSUME NEW E, NEW entries \in Seq(E)
  PROVE  \E f \in [0..Len(entries) -> Seq(E)] :
           /\ f[0] = << >> /\ f[Len(entries)] = UniqueByName(entries)
           /\ \A k \in 1..Len(entries) : f[k] = Kept(f[k - 1], entries[k])
PROOF
<1> DEFINE n == Len(entries)
           step == [x \in Seq(E) \X (1..n) |-> Kept(x[1], entries[x[2]])]
           Body(g, s) == IF s = {} THEN << >> ELSE Kept(g[s \ {Max(s)}], entries[Max(s)])
           fold == CHOOSE g : g = [s \in SUBSET (1..n) |-> Body(g, s)]
<1>1. n \in Nat /\ DOMAIN entries = 1..n /\ << >> \in Seq(E)
  OBVIOUS
<1>2. step \in [Seq(E) \X (1..n) -> Seq(E)]
  <2>1. ASSUME NEW x \in Seq(E) \X (1..n) PROVE Kept(x[1], entries[x[2]]) \in Seq(E)
    BY <1>1 DEF Kept
  <2> QED BY <2>1
<1>3. UniqueByName(entries) = fold[1..n]
  BY <1>1 DEF UniqueByName, FoldLeft, MapThenFoldSet, Kept
<1>4. ASSUME NEW s \in SUBSET (1..n), s # {}, NEW x \in Seq(E)
      PROVE  step[<<x, Max(s)>>] = Kept(x, entries[Max(s)])
  <2>1. Max(s) \in 1..n
    BY <1>1, <1>4, MaxInSet
  <2> QED BY <2>1
<1>5. fold = [s \in SUBSET (1..n) |-> Body(fold, s)]
  <2>1. PICK g \in [SUBSET (1..n) -> Seq(E)] : FoldsOver(g, << >>, n, step)
    <3> HIDE DEF n, step
    <3> QED BY <1>1, <1>2, FoldExists
  <2>2. g = [s \in SUBSET (1..n) |-> Body(g, s)]
    <3> HIDE DEF step
    <3> QED BY <1>4, <2>1 DEF FoldsOver
  <2> HIDE DEF Body
  <2> QED BY <2>2
<1> HIDE DEF fold
<1>6. fold[{}] = << >>
  BY <1>5
<1>7. \A s \in SUBSET (1..n) : s # {} /\ fold[s \ {Max(s)}] \in Seq(E) =>
        fold[s] = step[<<fold[s \ {Max(s)}], Max(s)>>]
  <2> HIDE DEF step
  <2> QED BY <1>4, <1>5
<1>8. PICK f \in [0..n -> Seq(E)] : f[n] = fold[1..n] /\ Runs(f, << >>, n, step)
  <2>1. FoldsWithin(fold, Seq(E), << >>, n, step)
    BY <1>6, <1>7 DEF FoldsWithin
  <2> HIDE DEF n, step
  <2> QED BY <1>1, <1>2, <2>1, FoldSteps
<1>9. ASSUME NEW k \in 1..n PROVE f[k] = Kept(f[k - 1], entries[k])
  <2>1. k - 1 \in 0..n
    BY <1>1
  <2>2. <<f[k - 1], k>> \in Seq(E) \X (1..n)
    BY <2>1
  <2>3. f[k] = step[<<f[k - 1], k>>]
    <3> HIDE DEF step
    <3> QED BY <1>8 DEF Runs
  <2> QED BY <2>2, <2>3
<1> QED BY <1>3, <1>8, <1>9 DEF Runs

Distinct(entries) ==
  \A i, j \in 1..Len(entries) : entries[i].name = entries[j].name => i = j

(* The entry at j is the first of its name. *)
FirstOfItsName(entries, j) == \A m \in 1..(j - 1) : entries[m].name # entries[j].name

(* What is kept of the first k entries. *)
KeptOf(entries, k, kept) ==
  /\ Distinct(kept)
  /\ \A i \in 1..Len(kept) : \E j \in 1..k : kept[i] = entries[j] /\ FirstOfItsName(entries, j)
  /\ \A j \in 1..k : \E i \in 1..Len(kept) : kept[i].name = entries[j].name

LEMMA KeptStep ==
  ASSUME NEW E, NEW entries \in Seq(E), NEW kept \in Seq(E), NEW k \in Nat, k + 1 <= Len(entries),
         KeptOf(entries, k, kept)
  PROVE  KeptOf(entries, k + 1, Kept(kept, entries[k + 1]))
PROOF
<1> DEFINE e == entries[k + 1]
           n == Len(kept)
<1>1. e \in E /\ n \in Nat /\ 1..(k + 1) = 1..k \cup {k + 1} /\ (k + 1) - 1 = k
  OBVIOUS
<1>2. CASE \E i \in 1..n : kept[i].name = e.name
  <2>1. Kept(kept, e) = kept
    BY <1>2 DEF Kept
  <2> QED BY <1>1, <1>2, <2>1 DEF KeptOf
<1>3. CASE ~\E i \in 1..n : kept[i].name = e.name
  <2> DEFINE r == Append(kept, e)
  <2>1. Kept(kept, e) = r
    BY <1>3 DEF Kept
  <2>2. Len(r) = n + 1 /\ r[n + 1] = e /\ \A i \in 1..n : r[i] = kept[i]
    BY <1>1
  <2>3. 1..(n + 1) = 1..n \cup {n + 1} /\ n + 1 \notin 1..n
    BY <1>1
  <2> HIDE DEF r, n, e
  <2>4. Distinct(r)
    <3>1. \A i, j \in 1..n : r[i].name = r[j].name => i = j
      BY <2>2 DEF KeptOf, Distinct, n
    <3>2. \A i \in 1..n : r[i].name # r[n + 1].name
      BY <1>3, <2>2
    <3> QED BY <2>2, <2>3, <3>1, <3>2 DEF Distinct
  <2>5. FirstOfItsName(entries, k + 1)
    <3>1. ASSUME NEW m \in 1..k PROVE entries[m].name # entries[k + 1].name
      <4>1. PICK i \in 1..n : kept[i].name = entries[m].name
        BY <3>1 DEF KeptOf, n
      <4> QED BY <1>3, <4>1 DEF e
    <3> QED BY <1>1, <3>1 DEF FirstOfItsName
  <2>6. \A i \in 1..Len(r) : \E j \in 1..(k + 1) : r[i] = entries[j] /\ FirstOfItsName(entries, j)
    <3>1. ASSUME NEW i \in 1..n PROVE \E j \in 1..(k + 1) : r[i] = entries[j] /\ FirstOfItsName(entries, j)
      <4>1. PICK j \in 1..k : kept[i] = entries[j] /\ FirstOfItsName(entries, j)
        BY <3>1 DEF KeptOf, n
      <4> QED BY <1>1, <2>2, <4>1
    <3>2. r[n + 1] = entries[k + 1] /\ k + 1 \in 1..(k + 1)
      BY <1>1, <2>2 DEF e
    <3> QED BY <2>2, <2>3, <2>5, <3>1, <3>2
  <2>7. \A j \in 1..(k + 1) : \E i \in 1..Len(r) : r[i].name = entries[j].name
    <3>1. ASSUME NEW j \in 1..k PROVE \E i \in 1..Len(r) : r[i].name = entries[j].name
      <4>1. PICK i \in 1..n : kept[i].name = entries[j].name
        BY <3>1 DEF KeptOf, n
      <4> QED BY <2>2, <2>3, <4>1
    <3>2. r[n + 1].name = entries[k + 1].name /\ n + 1 \in 1..Len(r)
      BY <2>2, <2>3 DEF e
    <3> QED BY <1>1, <3>1, <3>2
  <2> QED BY <2>1, <2>4, <2>6, <2>7 DEF KeptOf, e
<1> QED BY <1>2, <1>3

(* _unique_by_name, of any list of entries: each name is kept once, and    *)
(* what is kept under it is the first entry of that name (config.py).      *)
THEOREM UniqueByNameKeeps ==
  ASSUME NEW E, NEW entries \in Seq(E)
  PROVE  UniqueByName(entries) \in Seq(E) /\ KeptOf(entries, Len(entries), UniqueByName(entries))
PROOF
<1> DEFINE n == Len(entries)
<1>1. PICK f \in [0..n -> Seq(E)] :
        /\ f[0] = << >> /\ f[n] = UniqueByName(entries)
        /\ \A k \in 1..n : f[k] = Kept(f[k - 1], entries[k])
  BY UniqueFold
<1> DEFINE P == {k \in Nat : k <= n => KeptOf(entries, k, f[k])}
<1>2. 0 \in P
  BY <1>1 DEF KeptOf, Distinct
<1>3. ASSUME NEW k \in P PROVE k + 1 \in P
  <2>1. CASE k + 1 <= n
    <3>1. k + 1 \in 1..n /\ (k + 1) - 1 = k /\ k <= n /\ k \in 0..n
      BY <2>1
    <3>2. f[k] \in Seq(E) /\ KeptOf(entries, k, f[k]) /\ f[k + 1] = Kept(f[k], entries[k + 1])
      BY <1>1, <3>1
    <3>3. KeptOf(entries, k + 1, f[k + 1])
      BY <2>1, <3>2, KeptStep
    <3> QED BY <3>3
  <2>2. k + 1 \in Nat
    OBVIOUS
  <2> QED BY <2>1, <2>2
<1>4. P = Nat
  <2> HIDE DEF P
  <2>1. P \in SUBSET Nat
    BY DEF P
  <2> QED BY <1>2, <1>3, <2>1, Induction
<1>5. n \in Nat /\ n <= n /\ n \in 0..n
  OBVIOUS
<1> QED BY <1>1, <1>4, <1>5


LEMMA FirstInSet ==
  ASSUME NEW n \in Nat, NEW s \in SUBSET (1..n), s # {}
  PROVE  Min(s) \in s /\ \A i \in s : Min(s) <= i
PROOF
<1>1. s \in SUBSET Nat
  OBVIOUS
<1>2. \E x \in s : \A y \in s : x <= y
  BY <1>1, Least
<1> QED BY <1>2 DEF Min

(* The connector of a name, 0 for none. *)
Named(connectors, name) == SelectInSeq(connectors, LAMBDA c : c.name = name)

LEMMA NamedIsOne ==
  ASSUME NEW C, NEW connectors \in Seq(C), NEW name
  PROVE  \/ Named(connectors, name) = 0
         \/ /\ Named(connectors, name) \in 1..Len(connectors)
            /\ connectors[Named(connectors, name)].name = name
PROOF
<1> DEFINE n == Len(connectors)
           I == {i \in 1..n : connectors[i].name = name}
<1>1. n \in Nat /\ I \in SUBSET (1..n)
  OBVIOUS
<1>2. Named(connectors, name) = IF I # {} THEN Min(I) ELSE 0
  BY DEF Named, SelectInSeq
<1>3. CASE I # {}
  <2>1. Min(I) \in I
    <3> HIDE DEF I, n
    <3> QED BY <1>1, <1>3, FirstInSet
  <2>2. Named(connectors, name) \in I
    BY <1>2, <1>3, <2>1
  <2> QED BY <2>2
<1>4. CASE I = {}
  <2> HIDE DEF I
  <2> QED BY <1>2, <1>4
<1> QED BY <1>3, <1>4

Told(d, connector) == [d EXCEPT !.protocol = Protocol(connector)]

Resolved(connectors, resolved, d) ==
  IF Named(connectors, d.connector) = 0 THEN resolved
  ELSE Append(resolved, Told(d, connectors[Named(connectors, d.connector)]))

(* ResolvedDevices takes one device after the other. *)
LEMMA ResolvedFold ==
  ASSUME NEW D, NEW devices \in Seq(D), NEW C, NEW connectors \in Seq(C)
  PROVE  \E E : \E f \in [0..Len(devices) -> Seq(E)] :
           /\ f[0] = << >> /\ f[Len(devices)] = ResolvedDevices(devices, connectors)
           /\ \A k \in 1..Len(devices) : f[k] = Resolved(connectors, f[k - 1], devices[k])
PROOF
<1> DEFINE n == Len(devices)
           E == {Told(d, connectors[m]) : d \in D, m \in 1..Len(connectors)}
           After(r, d) == Resolved(connectors, r, d)
           step == [x \in Seq(E) \X (1..n) |-> After(x[1], devices[x[2]])]
           Body(g, s) == IF s = {} THEN << >> ELSE After(g[s \ {Max(s)}], devices[Max(s)])
           fold == CHOOSE g : g = [s \in SUBSET (1..n) |-> Body(g, s)]
<1>1. n \in Nat /\ DOMAIN devices = 1..n /\ << >> \in Seq(E)
  OBVIOUS
<1>2. step \in [Seq(E) \X (1..n) -> Seq(E)]
  <2>1. ASSUME NEW r \in Seq(E), NEW d \in D PROVE After(r, d) \in Seq(E)
    <3> DEFINE m == Named(connectors, d.connector)
               e == Told(d, connectors[m])
    <3>1. CASE m = 0
      BY <3>1 DEF Resolved
    <3>2. CASE m \in 1..Len(connectors)
      <4>1. e \in E
        <5> HIDE DEF m
        <5> QED BY <3>2
      <4>2. m # 0
        BY <3>2
      <4>3. After(r, d) = Append(r, e)
        BY <4>2 DEF Resolved
      <4> HIDE DEF e, E
      <4> QED BY <4>1, <4>3
    <3> QED BY <3>1, <3>2, NamedIsOne
  <2> HIDE DEF E, After
  <2>2. ASSUME NEW x \in Seq(E) \X (1..n) PROVE After(x[1], devices[x[2]]) \in Seq(E)
    <3>1. x[1] \in Seq(E) /\ devices[x[2]] \in D
      BY <1>1
    <3> QED BY <2>1, <3>1
  <2> QED BY <2>2
<1>3. ResolvedDevices(devices, connectors) = fold[1..n]
  BY <1>1 DEF ResolvedDevices, FoldLeft, MapThenFoldSet, Resolved, Named, Told
<1> HIDE DEF After, E
<1>4. ASSUME NEW s \in SUBSET (1..n), s # {}, NEW x \in Seq(E)
      PROVE  step[<<x, Max(s)>>] = After(x, devices[Max(s)])
  <2>1. Max(s) \in 1..n
    BY <1>1, <1>4, MaxInSet
  <2> QED BY <2>1
<1>5. fold = [s \in SUBSET (1..n) |-> Body(fold, s)]
  <2>1. PICK g \in [SUBSET (1..n) -> Seq(E)] : FoldsOver(g, << >>, n, step)
    <3> HIDE DEF n, step
    <3> QED BY <1>1, <1>2, FoldExists
  <2>2. g = [s \in SUBSET (1..n) |-> Body(g, s)]
    <3> HIDE DEF step
    <3> QED BY <1>4, <2>1 DEF FoldsOver
  <2> HIDE DEF Body
  <2> QED BY <2>2
<1> HIDE DEF fold
<1>6. FoldsWithin(fold, Seq(E), << >>, n, step)
  <2> HIDE DEF step
  <2> QED BY <1>4, <1>5 DEF FoldsWithin
<1>7. PICK f \in [0..n -> Seq(E)] : f[n] = fold[1..n] /\ Runs(f, << >>, n, step)
  <2> HIDE DEF n, step
  <2> QED BY <1>1, <1>2, <1>6, FoldSteps
<1>8. ASSUME NEW k \in 1..n PROVE f[k] = After(f[k - 1], devices[k])
  <2>0. k - 1 \in 0..n
    BY <1>1
  <2>1. <<f[k - 1], k>> \in Seq(E) \X (1..n)
    BY <2>0
  <2>2. f[k] = step[<<f[k - 1], k>>]
    <3> HIDE DEF step
    <3> QED BY <1>7 DEF Runs
  <2> QED BY <2>1, <2>2
<1>9. f[0] = << >>
  <2> HIDE DEF step
  <2> QED BY <1>7 DEF Runs
<1> HIDE DEF step, fold
<1> QED BY <1>3, <1>7, <1>8, <1>9 DEF After

(* What the first k devices were made into. *)
ResolvedOf(devices, connectors, k, r) ==
  \A i \in 1..Len(r) : \E j \in 1..k : \E c \in 1..Len(connectors) :
    connectors[c].name = devices[j].connector /\ r[i] = Told(devices[j], connectors[c])

LEMMA ResolvedDevicesAre ==
  ASSUME NEW D, NEW devices \in Seq(D), NEW C, NEW connectors \in Seq(C),
         \A d \in D : {"name", "connector", "protocol"} \subseteq DOMAIN d, Distinct(devices)
  PROVE  /\ \E E : ResolvedDevices(devices, connectors) \in Seq(E)
         /\ Distinct(ResolvedDevices(devices, connectors))
         /\ ResolvedOf(devices, connectors, Len(devices), ResolvedDevices(devices, connectors))
PROOF
<1> DEFINE n == Len(devices)
<1>1. PICK E : \E f \in [0..n -> Seq(E)] :
        /\ f[0] = << >> /\ f[n] = ResolvedDevices(devices, connectors)
        /\ \A k \in 1..n : f[k] = Resolved(connectors, f[k - 1], devices[k])
  BY ResolvedFold
<1>2. PICK f \in [0..n -> Seq(E)] :
        /\ f[0] = << >> /\ f[n] = ResolvedDevices(devices, connectors)
        /\ \A k \in 1..n : f[k] = Resolved(connectors, f[k - 1], devices[k])
  BY <1>1
<1>3. \A j \in 1..n : devices[j] \in D
  OBVIOUS
<1>4. ASSUME NEW d \in D, NEW c PROVE Told(d, c).name = d.name /\ Told(d, c).connector = d.connector
  BY DEF Told
<1> DEFINE Good(k, r) == Distinct(r) /\ ResolvedOf(devices, connectors, k, r)
           P == {k \in Nat : k <= n => Good(k, f[k])}
<1>5. 0 \in P
  BY <1>2 DEF ResolvedOf, Distinct
<1>6. ASSUME NEW k \in Nat, k + 1 <= n, NEW r \in Seq(E), Good(k, r),
             NEW q \in Seq(E), q = Resolved(connectors, r, devices[k + 1])
      PROVE  Good(k + 1, q)
  <2> DEFINE d == devices[k + 1]
             m == Named(connectors, d.connector)
  <2>1. 1..(k + 1) = 1..k \cup {k + 1} /\ k + 1 \in 1..n /\ 1..k \subseteq 1..n /\ k + 1 \notin 1..k
    BY <1>6
  <2>2. CASE q = r
    BY <1>6, <2>1, <2>2 DEF ResolvedOf
  <2>3. CASE m \in 1..Len(connectors) /\ connectors[m].name = d.connector /\ q = Append(r, Told(d, connectors[m]))
    <3> DEFINE e == Told(d, connectors[m])
    <3>1. /\ Len(q) = Len(r) + 1 /\ q[Len(r) + 1] = e /\ \A i \in 1..Len(r) : q[i] = r[i]
          /\ 1..Len(q) = 1..Len(r) \cup {Len(r) + 1} /\ Len(r) + 1 \notin 1..Len(r)
      <4> HIDE DEF e
      <4> QED BY <2>3 DEF e
    <3>2. ResolvedOf(devices, connectors, k + 1, q)
      <4>1. ASSUME NEW i \in 1..Len(r)
            PROVE  \E j \in 1..(k + 1) : \E c \in 1..Len(connectors) :
                     connectors[c].name = devices[j].connector /\ q[i] = Told(devices[j], connectors[c])
        BY <1>6, <2>1, <3>1 DEF ResolvedOf
      <4>2. \E j \in 1..(k + 1) : \E c \in 1..Len(connectors) :
              connectors[c].name = devices[j].connector /\ q[Len(r) + 1] = Told(devices[j], connectors[c])
        BY <2>1, <2>3, <3>1
      <4> QED BY <3>1, <4>1, <4>2 DEF ResolvedOf
    <3>3. \A i \in 1..Len(r) : q[i].name # q[Len(r) + 1].name
      <4>1. ASSUME NEW i \in 1..Len(r) PROVE q[i].name # d.name
        <5>1. PICK j \in 1..k : \E c \in 1..Len(connectors) : r[i] = Told(devices[j], connectors[c])
          BY <1>6 DEF ResolvedOf
        <5>2. q[i].name = devices[j].name
          BY <1>3, <1>4, <2>1, <3>1, <5>1
        <5> QED BY <2>1, <5>2 DEF Distinct
      <4>2. q[Len(r) + 1].name = d.name
        BY <1>3, <1>4, <2>1, <3>1
      <4> QED BY <4>1, <4>2
    <3>4. Distinct(q)
      <4>1. \A i, j \in 1..Len(r) : q[i].name = q[j].name => i = j
        BY <1>6, <3>1 DEF Distinct
      <4> QED BY <3>1, <3>3, <4>1 DEF Distinct
    <3> QED BY <3>2, <3>4
  <2> QED BY <1>6, <2>2, <2>3, NamedIsOne DEF Resolved
<1>7. ASSUME NEW k \in P PROVE k + 1 \in P
  <2>1. CASE k + 1 <= n
    <3>1. k + 1 \in 1..n /\ (k + 1) - 1 = k /\ k <= n /\ k \in 0..n /\ k + 1 \in 0..n
      BY <2>1
    <3>2. f[k] \in Seq(E) /\ f[k + 1] \in Seq(E) /\ Good(k, f[k])
          /\ f[k + 1] = Resolved(connectors, f[k], devices[k + 1])
      BY <1>2, <3>1
    <3>3. Good(k + 1, f[k + 1])
      <4> HIDE DEF Good
      <4> QED BY <1>6, <2>1, <3>2
    <3> QED BY <3>3
  <2>2. k + 1 \in Nat
    OBVIOUS
  <2> QED BY <2>1, <2>2
<1>8. P = Nat
  <2> HIDE DEF P
  <2>1. P \in SUBSET Nat
    BY DEF P
  <2> QED BY <1>5, <1>7, <2>1, Induction
<1>9. n \in Nat /\ n <= n /\ n \in 0..n
  OBVIOUS
<1> QED BY <1>2, <1>8, <1>9

(* update_device() of one device. *)
Enter(devices, d) ==
  IF \E k \in 1..Len(devices) : devices[k].name = d.name
  THEN [k \in 1..Len(devices) |-> IF devices[k].name = d.name THEN d ELSE devices[k]]
  ELSE Append(devices, d)

(* Registered takes one device after the other. *)
LEMMA RegisteredFold ==
  ASSUME NEW E, NEW entries \in Seq(E)
  PROVE  \E f \in [0..Len(entries) -> Seq(E)] :
           /\ f[0] = << >> /\ f[Len(entries)] = Registered(entries)
           /\ \A k \in 1..Len(entries) : f[k] = Enter(f[k - 1], entries[k])
PROOF
<1> DEFINE n == Len(entries)
           step == [x \in Seq(E) \X (1..n) |-> Enter(x[1], entries[x[2]])]
           Body(g, s) == IF s = {} THEN << >> ELSE Enter(g[s \ {Max(s)}], entries[Max(s)])
           fold == CHOOSE g : g = [s \in SUBSET (1..n) |-> Body(g, s)]
<1>1. n \in Nat /\ DOMAIN entries = 1..n /\ << >> \in Seq(E)
  OBVIOUS
<1>2. step \in [Seq(E) \X (1..n) -> Seq(E)]
  <2>1. ASSUME NEW r \in Seq(E), NEW d \in E PROVE Enter(r, d) \in Seq(E)
    <3>1. [k \in 1..Len(r) |-> IF r[k].name = d.name THEN d ELSE r[k]] \in Seq(E)
      OBVIOUS
    <3>2. Append(r, d) \in Seq(E)
      OBVIOUS
    <3> QED BY <3>1, <3>2 DEF Enter
  <2>2. ASSUME NEW x \in Seq(E) \X (1..n) PROVE Enter(x[1], entries[x[2]]) \in Seq(E)
    BY <1>1, <2>1
  <2> QED BY <2>2
<1>3. Registered(entries) = fold[1..n]
  BY <1>1 DEF Registered, FoldLeft, MapThenFoldSet, Enter
<1>4. ASSUME NEW s \in SUBSET (1..n), s # {}, NEW x \in Seq(E)
      PROVE  step[<<x, Max(s)>>] = Enter(x, entries[Max(s)])
  <2>1. Max(s) \in 1..n
    BY <1>1, <1>4, MaxInSet
  <2> QED BY <2>1
<1>5. fold = [s \in SUBSET (1..n) |-> Body(fold, s)]
  <2>1. PICK g \in [SUBSET (1..n) -> Seq(E)] : FoldsOver(g, << >>, n, step)
    <3> HIDE DEF n, step
    <3> QED BY <1>1, <1>2, FoldExists
  <2>2. g = [s \in SUBSET (1..n) |-> Body(g, s)]
    <3> HIDE DEF step
    <3> QED BY <1>4, <2>1 DEF FoldsOver
  <2> HIDE DEF Body
  <2> QED BY <2>2
<1> HIDE DEF fold
<1>6. FoldsWithin(fold, Seq(E), << >>, n, step)
  <2> HIDE DEF step
  <2> QED BY <1>4, <1>5 DEF FoldsWithin
<1>7. PICK f \in [0..n -> Seq(E)] : f[n] = fold[1..n] /\ Runs(f, << >>, n, step)
  <2> HIDE DEF n, step
  <2> QED BY <1>1, <1>2, <1>6, FoldSteps
<1>8. ASSUME NEW k \in 1..n PROVE f[k] = Enter(f[k - 1], entries[k])
  <2>1. k - 1 \in 0..n
    BY <1>1
  <2>2. <<f[k - 1], k>> \in Seq(E) \X (1..n)
    BY <2>1
  <2> QED BY <1>7, <2>2 DEF Runs
<1> QED BY <1>3, <1>7, <1>8 DEF Runs

(* Of devices whose names are their own, none overwrites another. *)
LEMMA RegisteredAreAll ==
  ASSUME NEW E, NEW entries \in Seq(E), Distinct(entries)
  PROVE  Registered(entries) = entries
PROOF
<1> DEFINE n == Len(entries)
<1>1. PICK f \in [0..n -> Seq(E)] :
        /\ f[0] = << >> /\ f[n] = Registered(entries)
        /\ \A k \in 1..n : f[k] = Enter(f[k - 1], entries[k])
  BY RegisteredFold
<1> DEFINE Same(k) == Len(f[k]) = k /\ \A i \in 1..k : f[k][i] = entries[i]
           P == {k \in Nat : k <= n => Same(k)}
<1>2. 0 \in P
  BY <1>1
<1>3. ASSUME NEW k \in P PROVE k + 1 \in P
  <2>1. CASE k + 1 <= n
    <3>1. k \in Nat /\ k + 1 \in 1..n /\ (k + 1) - 1 = k /\ k <= n /\ k \in 0..n
      BY <2>1
    <3>2. f[k] \in Seq(E) /\ entries[k + 1] \in E /\ Same(k)
          /\ f[k + 1] = Enter(f[k], entries[k + 1])
      BY <1>1, <3>1
    <3>3. \A i \in 1..k : f[k][i].name # entries[k + 1].name
      BY <3>1, <3>2 DEF Distinct
    <3>4. f[k + 1] = Append(f[k], entries[k + 1])
      BY <3>2, <3>3 DEF Enter
    <3>5. Same(k + 1)
      BY <3>1, <3>2, <3>4
    <3> QED BY <3>1, <3>5
  <2>2. k + 1 \in Nat
    OBVIOUS
  <2> QED BY <2>1, <2>2
<1>4. P = Nat
  <2> HIDE DEF P
  <2>1. P \in SUBSET Nat
    BY DEF P
  <2> QED BY <1>2, <1>3, <2>1, Induction
<1>5. Same(n) /\ f[n] \in Seq(E)
  <2>1. n \in Nat /\ n <= n /\ n \in 0..n
    OBVIOUS
  <2> QED BY <1>4, <2>1
<1> QED BY <1>1, <1>5

---------------------------------------------------------------------------
(* The configuration, as the document says it.                             *)

(* Counts, of any document and environment. *)
CountsIn(doc, env, axis, k) ==
  \A j \in 1..(k - 1) : Interpolate(env, doc[axis][j].name) # Interpolate(env, doc[axis][k].name)

(* What the configuration makes of a document: each axis names nothing     *)
(* twice, its entries are those that count under their names, and a device *)
(* hears the protocol of the connector it names.                           *)
Documented(doc, env, cfg) ==
  /\ \A axis \in AxisNames :
       /\ cfg[axis] \in Seq(ToSet(cfg[axis])) /\ Distinct(cfg[axis])
       /\ \A e \in ToSet(cfg[axis]) : \E j \in 1..Len(doc[axis]) :
            /\ CountsIn(doc, env, axis, j)
            /\ e.plugin = doc[axis][j].plugin
            /\ [InterpolateEntry(env, doc[axis][j]) EXCEPT !.protocol = e.protocol] = e
  /\ \A c \in ToSet(cfg["connectors"]) : \E j \in 1..Len(doc["connectors"]) :
       CountsIn(doc, env, "connectors", j) /\ c = InterpolateEntry(env, doc["connectors"][j])
  /\ \A d \in ToSet(cfg["devices"]) : \E c \in ToSet(cfg["connectors"]) :
       c.name = d.connector /\ d.protocol = Protocol(c)

LEMMA Interpolated ==
  ASSUME NEW entry, DOMAIN entry = EntryFields, NEW env, NEW e, e = InterpolateEntry(env, entry)
  PROVE  /\ DOMAIN e = EntryFields
         /\ e.name = Interpolate(env, entry.name) /\ e.plugin = entry.plugin
         /\ [e EXCEPT !.protocol = e.protocol] = e
PROOF
BY DEF InterpolateEntry, EntryFields

LEMMA ToldOnly ==
  ASSUME NEW d, DOMAIN d = EntryFields, NEW c, NEW e, e = Told(d, c)
  PROVE  /\ e.name = d.name /\ e.plugin = d.plugin /\ e.connector = d.connector
         /\ e.protocol = Protocol(c) /\ [d EXCEPT !.protocol = e.protocol] = e
PROOF
BY DEF Told, EntryFields

LEMMA SeqOfOwn ==
  ASSUME NEW E, NEW s \in Seq(E) PROVE s \in Seq(ToSet(s)) /\ \A e : e \in ToSet(s) <=> \E k \in 1..Len(s) : e = s[k]
PROOF
BY DEF ToSet

(* Of any document and environment, Config makes entries that each come    *)
(* from the document's first entry of their name, interpolated, no two of  *)
(* a name on one axis; and every device it leaves hears the transport of   *)
(* a connector that it also left (Config.__init__, config.py).            *)
THEOREM ConfigDocumented ==
  ASSUME NEW doc \in Documents, NEW env
  PROVE  Documented(doc, env, Config(doc, env))
PROOF
<1> DEFINE read(axis) == [k \in 1..Len(doc[axis]) |-> InterpolateEntry(env, doc[axis][k])]
           unique(axis) == UniqueByName(read(axis))
           cfg == Config(doc, env)
<1>1. ASSUME NEW axis \in AxisNames
      PROVE  /\ Len(doc[axis]) \in Nat
             /\ \A k \in 1..Len(doc[axis]) : DOMAIN doc[axis][k] = EntryFields
  BY DocumentsAssumption
<1>2. ASSUME NEW axis \in AxisNames
      PROVE  /\ read(axis) \in Seq(ToSet(read(axis))) /\ Len(read(axis)) = Len(doc[axis])
             /\ \A k \in 1..Len(doc[axis]) : read(axis)[k] = InterpolateEntry(env, doc[axis][k])
  <2> DEFINE E == {InterpolateEntry(env, doc[axis][k]) : k \in 1..Len(doc[axis])}
  <2>1. read(axis) \in Seq(E) /\ Len(read(axis)) = Len(doc[axis])
    BY <1>1
  <2>2. \A k \in 1..Len(doc[axis]) : read(axis)[k] = InterpolateEntry(env, doc[axis][k])
    OBVIOUS
  <2> HIDE DEF read, E
  <2> QED BY <2>1, <2>2, SeqOfOwn
<1>3. ASSUME NEW axis \in AxisNames
      PROVE  /\ unique(axis) \in Seq(ToSet(read(axis)))
             /\ KeptOf(read(axis), Len(read(axis)), unique(axis))
  <2> HIDE DEF read
  <2> QED BY <1>2, UniqueByNameKeeps
<1>7. {"devices", "connectors"} \subseteq AxisNames
  BY DEF AxisNames, Axes
<1>4. cfg = [[axis \in AxisNames |-> unique(axis)] EXCEPT
               !["devices"] = ResolvedDevices(unique("devices"), unique("connectors"))]
  <2> DEFINE u == [axis \in AxisNames |-> unique(axis)]
  <2>1. cfg = [u EXCEPT !["devices"] = ResolvedDevices(u["devices"], u["connectors"])]
    BY DEF Config
  <2>2. u["devices"] = unique("devices") /\ u["connectors"] = unique("connectors")
    <3> HIDE DEF unique
    <3> QED BY <1>7
  <2> HIDE DEF cfg, unique
  <2> QED BY <2>1, <2>2
<1> HIDE DEF cfg
<1>5. ASSUME NEW axis \in AxisNames, NEW e \in ToSet(unique(axis))
      PROVE  /\ DOMAIN e = EntryFields
             /\ \E j \in 1..Len(doc[axis]) :
                  CountsIn(doc, env, axis, j) /\ e = InterpolateEntry(env, doc[axis][j])
  <2>1. PICK i \in 1..Len(unique(axis)) : e = unique(axis)[i]
    <3> HIDE DEF unique, read
    <3> QED BY <1>3, <1>5, SeqOfOwn
  <2>2. PICK j \in 1..Len(doc[axis]) : e = read(axis)[j] /\ FirstOfItsName(read(axis), j)
    <3> HIDE DEF unique, read
    <3> QED BY <1>2, <1>3, <2>1 DEF KeptOf
  <2>3. e = InterpolateEntry(env, doc[axis][j]) /\ DOMAIN doc[axis][j] = EntryFields
    BY <1>1, <1>2, <2>2
  <2>4. \A m \in 1..(j - 1) : m \in 1..Len(doc[axis]) /\ read(axis)[m].name = Interpolate(env, doc[axis][m].name)
    <3>1. \A m \in 1..(j - 1) : m \in 1..Len(doc[axis])
      BY <1>1
    <3> HIDE DEF read
    <3> QED BY <1>1, <1>2, <3>1, Interpolated
  <2>5. CountsIn(doc, env, axis, j)
    <3> HIDE DEF read
    <3> QED BY <2>2, <2>3, <2>4, Interpolated DEF CountsIn, FirstOfItsName
  <2> QED BY <2>3, <2>5, Interpolated
<1>6. ASSUME NEW axis \in AxisNames
      PROVE  unique(axis) \in Seq(ToSet(unique(axis))) /\ Distinct(unique(axis))
  <2> HIDE DEF unique, read
  <2> QED BY <1>3, SeqOfOwn DEF KeptOf
<1> HIDE DEF unique
<1>8. \A axis \in AxisNames \ {"devices"} : cfg[axis] = unique(axis)
  BY <1>4
<1> DEFINE resolved == ResolvedDevices(unique("devices"), unique("connectors"))
<1>9. cfg["devices"] = resolved
  BY <1>4, <1>7
<1>10. /\ \E E : resolved \in Seq(E)
       /\ Distinct(resolved)
       /\ ResolvedOf(unique("devices"), unique("connectors"), Len(unique("devices")), resolved)
  <2>1. \A d \in ToSet(unique("devices")) : {"name", "connector", "protocol"} \subseteq DOMAIN d
    BY <1>5, <1>7 DEF EntryFields
  <2> QED BY <1>6, <1>7, <2>1, ResolvedDevicesAre
<1> HIDE DEF resolved
<1>11. resolved \in Seq(ToSet(resolved))
  BY <1>10, SeqOfOwn
<1>12. ASSUME NEW d \in ToSet(resolved)
       PROVE  \E u \in ToSet(unique("devices")) : \E c \in ToSet(unique("connectors")) :
                c.name = u.connector /\ d = Told(u, c)
  <2>1. PICK i \in 1..Len(resolved) : d = resolved[i]
    BY <1>11, <1>12, SeqOfOwn
  <2>2. PICK j \in 1..Len(unique("devices")), k \in 1..Len(unique("connectors")) :
          /\ unique("connectors")[k].name = unique("devices")[j].connector
          /\ d = Told(unique("devices")[j], unique("connectors")[k])
    BY <1>10, <2>1 DEF ResolvedOf
  <2>3. unique("devices")[j] \in ToSet(unique("devices")) /\ unique("connectors")[k] \in ToSet(unique("connectors"))
    BY <1>6, <1>7, SeqOfOwn
  <2> QED BY <2>2, <2>3
<1>13. ASSUME NEW axis \in AxisNames, NEW e \in ToSet(cfg[axis])
       PROVE  \E j \in 1..Len(doc[axis]) :
                /\ CountsIn(doc, env, axis, j)
                /\ e.plugin = doc[axis][j].plugin
                /\ [InterpolateEntry(env, doc[axis][j]) EXCEPT !.protocol = e.protocol] = e
  <2>1. CASE axis # "devices"
    <3>1. PICK j \in 1..Len(doc[axis]) :
            CountsIn(doc, env, axis, j) /\ e = InterpolateEntry(env, doc[axis][j])
      BY <1>5, <1>8, <1>13, <2>1
    <3>2. e.plugin = doc[axis][j].plugin /\ [e EXCEPT !.protocol = e.protocol] = e
      BY <1>1, <3>1, Interpolated
    <3> QED BY <3>1, <3>2
  <2>2. CASE axis = "devices"
    <3>1. PICK u \in ToSet(unique(axis)), c \in ToSet(unique("connectors")) : e = Told(u, c)
      BY <1>9, <1>12, <1>13, <2>2
    <3>2. PICK j \in 1..Len(doc[axis]) :
            CountsIn(doc, env, axis, j) /\ u = InterpolateEntry(env, doc[axis][j])
      BY <1>5, <3>1
    <3>3. u.plugin = doc[axis][j].plugin /\ DOMAIN u = EntryFields
      BY <1>1, <3>2, Interpolated
    <3>4. e.plugin = u.plugin /\ [u EXCEPT !.protocol = e.protocol] = e
      BY <3>1, <3>3, ToldOnly
    <3> QED BY <3>2, <3>3, <3>4
  <2> QED BY <2>1, <2>2
<1>14. \A axis \in AxisNames : cfg[axis] \in Seq(ToSet(cfg[axis])) /\ Distinct(cfg[axis])
  BY <1>6, <1>8, <1>9, <1>10, <1>11
<1>15. \A c \in ToSet(cfg["connectors"]) : \E j \in 1..Len(doc["connectors"]) :
         CountsIn(doc, env, "connectors", j) /\ c = InterpolateEntry(env, doc["connectors"][j])
  BY <1>5, <1>7, <1>8
<1>16. \A d \in ToSet(cfg["devices"]) : \E c \in ToSet(cfg["connectors"]) :
         c.name = d.connector /\ d.protocol = Protocol(c)
  <2>1. ASSUME NEW d \in ToSet(resolved)
        PROVE  \E c \in ToSet(unique("connectors")) : c.name = d.connector /\ d.protocol = Protocol(c)
    <3>1. PICK u \in ToSet(unique("devices")), c \in ToSet(unique("connectors")) :
            c.name = u.connector /\ d = Told(u, c)
      BY <1>12, <2>1
    <3>2. DOMAIN u = EntryFields
      BY <1>5, <1>7, <3>1
    <3> QED BY <3>1, <3>2, ToldOnly
  <2> QED BY <1>7, <1>8, <1>9, <2>1
<1> QED BY <1>13, <1>14, <1>15, <1>16 DEF Documented, cfg

---------------------------------------------------------------------------
(* From the document to the workers: what main() has built, assembled and  *)
(* started so far.                                                         *)

(* Each axis builds entries of the configuration, none twice, in turn.     *)
Building ==
  /\ built = [axis \in AxisNames |-> built[axis]]
  /\ \A axis \in AxisNames : built[axis] \in Seq(ToSet(config[axis])) /\ Distinct(built[axis])
  /\ phase = "load" => \A axis \in AxisNames : built[axis] = << >>
  /\ \A i, j \in 1..Len(Axes) : i < j /\ phase = Axes[i] => built[Axes[j]] = << >>
  /\ phase \in AxisNames =>
       /\ rest \in Seq(ToSet(config[phase])) /\ Distinct(rest)
       /\ \A i \in 1..Len(built[phase]), j \in 1..Len(rest) : built[phase][i].name # rest[j].name

(* Wiring, of any devices and connectors. *)
WiringOf(devices, connectors) ==
  LET served == {d \in ToSet(devices) : d.connector \in Names(connectors)}
  IN [name \in {d.name : d \in served} |-> (CHOOSE d \in served : d.name = name).connector]

(* What main() made of the plugins it built. *)
Assembled ==
  /\ phase \in {"storage", "connectors", "algorithms", "services", "start", "wait"} =>
       registry = built["devices"]
  /\ phase \in {"algorithms", "services", "start", "wait"} => wired = Wiring

(* A worker is started once, and the barrier has the algorithms built that *)
(* have not ended.                                                         *)
Ended == {w[2] : w \in {w \in started \ running : w[1] = "algorithms"}}
Once(workers_) == \A i, j \in 1..Len(workers_) : workers_[i] = workers_[j] => i = j
Starting ==
  /\ running \subseteq started
  /\ phase \in AxisNames \cup {"load"} => started = {}
  /\ participants = Names(built["algorithms"]) \ Ended
  /\ phase = "start" =>
       /\ rest \in Seq(ToSet(rest)) /\ Once(rest)
       /\ \A i \in 1..Len(rest) : rest[i] \notin started

StartInv ==
  /\ document \in Documents
  /\ phase # "load" => Documented(document, environment, config)
  /\ Building /\ Assembled /\ Starting

LEMMA AxesInTurn ==
  /\ AxisNames = {"devices", "storage", "connectors", "algorithms", "services"}
  /\ NextAxis("devices") = "storage" /\ NextAxis("storage") = "connectors"
  /\ NextAxis("connectors") = "algorithms" /\ NextAxis("algorithms") = "services"
  /\ Len(Axes) = 5
  /\ \A i \in 1..5 : Axes[i] \in AxisNames
  /\ \A i, j \in 1..5 : Axes[i] = Axes[j] => i = j
  /\ \A i \in 1..4 : NextAxis(Axes[i]) = Axes[i + 1]
PROOF
<1>1. /\ Len(Axes) = 5 /\ 1..5 = {1, 2, 3, 4, 5} /\ 1..4 = {1, 2, 3, 4}
      /\ Axes[1] = "devices" /\ Axes[2] = "storage" /\ Axes[3] = "connectors"
      /\ Axes[4] = "algorithms" /\ Axes[5] = "services"
  BY DEF Axes
<1>2. AxisNames = {"devices", "storage", "connectors", "algorithms", "services"}
  BY <1>1 DEF AxisNames
<1>3. \A i, j \in 1..5 : Axes[i] = Axes[j] => i = j
  BY <1>1
<1>4. ASSUME NEW i \in 1..4 PROVE NextAxis(Axes[i]) = Axes[i + 1]
  <2> DEFINE k == CHOOSE k \in 1..Len(Axes) : Axes[k] = Axes[i]
  <2>1. i \in 1..Len(Axes)
    BY <1>1
  <2>2. k \in 1..5 /\ Axes[k] = Axes[i]
    BY <1>1, <2>1
  <2>3. k = i
    BY <1>1, <1>3, <2>2
  <2> QED BY <2>3 DEF NextAxis
<1>5. /\ NextAxis("devices") = "storage" /\ NextAxis("storage") = "connectors"
      /\ NextAxis("connectors") = "algorithms" /\ NextAxis("algorithms") = "services"
  BY <1>1, <1>4
<1> QED BY <1>1, <1>2, <1>3, <1>4, <1>5

LEMMA StartInit == Init => StartInv
PROOF
<1> SUFFICES ASSUME Init PROVE StartInv
  OBVIOUS
<1>1. /\ document \in Documents /\ phase = "load" /\ started = {} /\ running = {} /\ participants = {}
      /\ built = [axis \in AxisNames |-> << >>] /\ config = built
  BY DEF Init, StartupInit
<1>2. \A axis \in AxisNames : built[axis] = << >>
  BY <1>1
<1>3. Building
  <2>1. \A i \in 1..5 : Axes[i] # "load"
    BY AxesInTurn
  <2> QED BY <1>1, <1>2, <2>1, AxesInTurn DEF Building, Distinct
<1>4. Starting
  <2>1. Names(built["algorithms"]) = {}
    BY <1>2, AxesInTurn DEF Names
  <2> QED BY <1>1, <2>1 DEF Starting
<1> QED BY <1>1, <1>3, <1>4 DEF StartInv, Assembled

LEMMA LoadStep == ASSUME StartInv, Load PROVE StartInv'
PROOF
<1>1. /\ phase = "load" /\ phase' = "devices" /\ rest' = config'["devices"]
      /\ config' = Config(document, environment)
      /\ UNCHANGED <<document, environment, built, participants, started, running>>
  BY DEF Load, document_, workers, Axes
<1>2. Documented(document, environment, config')
  BY <1>1, ConfigDocumented DEF StartInv
<1>3. \A axis \in AxisNames : built[axis] = << >>
  BY <1>1 DEF StartInv, Building
<1>4. \A axis \in AxisNames : config'[axis] \in Seq(ToSet(config'[axis])) /\ Distinct(config'[axis])
  BY <1>2 DEF Documented
<1>5. Building'
  <2>1. built' = [axis \in AxisNames |-> built'[axis]] /\ \A axis \in AxisNames : built'[axis] = << >>
    BY <1>1, <1>3 DEF StartInv, Building
  <2>2. \A axis \in AxisNames : built'[axis] \in Seq(ToSet(config'[axis])) /\ Distinct(built'[axis])
    <3>1. \A S : << >> \in Seq(S)
      OBVIOUS
    <3>2. Distinct(<< >>)
      BY DEF Distinct
    <3> QED BY <2>1, <3>1, <3>2
  <2>3. "devices" \in AxisNames /\ \A j \in 1..Len(Axes) : Axes[j] \in AxisNames
    BY AxesInTurn
  <2> QED BY <1>1, <1>4, <2>1, <2>2, <2>3 DEF Building
<1>6. Starting'
  <2>1. Ended' = Ended
    BY <1>1 DEF Ended
  <2> QED BY <1>1, <2>1, AxesInTurn DEF StartInv, Starting, Names
<1> QED BY <1>1, <1>2, <1>5, <1>6 DEF StartInv, Assembled

LEMMA ConstructStep == ASSUME StartInv, Construct PROVE StartInv'
PROOF
<1> DEFINE axis == phase
           entry == Head(rest)
           was == built[phase]
<1>1. /\ phase \in AxisNames /\ rest # << >>
      /\ UNCHANGED <<document, environment, config, registry, wired, started, running>>
  BY DEF Construct, document_, workers
<1>2. /\ Documented(document, environment, config) /\ document \in Documents
      /\ Building /\ Assembled /\ Starting /\ phase # "load"
  BY <1>1, AxesInTurn DEF StartInv
<1>3. /\ rest \in Seq(ToSet(config[phase])) /\ Distinct(rest)
      /\ was \in Seq(ToSet(config[phase])) /\ Distinct(was)
      /\ \A i \in 1..Len(was), j \in 1..Len(rest) : was[i].name # rest[j].name
  BY <1>1, <1>2 DEF Building
<1>4. /\ entry \in ToSet(config[phase]) /\ entry = rest[1] /\ 1 \in 1..Len(rest)
      /\ Tail(rest) \in Seq(ToSet(config[phase])) /\ Len(Tail(rest)) = Len(rest) - 1
      /\ \A j \in 1..Len(Tail(rest)) : j + 1 \in 1..Len(rest) /\ Tail(rest)[j] = rest[j + 1]
  BY <1>1, <1>3
<1>5. PICK outcome \in Outcomes[entry.plugin] :
        /\ built' = IF outcome = "built" THEN [built EXCEPT ![phase] = Append(@, entry)] ELSE built
        /\ participants' = CASE outcome = "built" -> participants \cup (IF phase = "algorithms" THEN {entry.name} ELSE {})
                             [] outcome \in {"raised", "escapes"} ->
                                  Withdraw(participants, participants \cup (IF phase = "algorithms" THEN {entry.name} ELSE {}))
                             [] outcome = "skipped" -> participants
        /\ IF outcome = "escapes" THEN phase' = "stop" /\ rest' = << >>
           ELSE phase' = phase /\ rest' = Tail(rest)
  BY DEF Construct
<1>6. outcome \in {"built", "skipped", "raised", "escapes"}
  <2>1. PICK j \in 1..Len(document[phase]) : entry.plugin = document[phase][j].plugin
    BY <1>1, <1>2, <1>4 DEF Documented
  <2> QED BY <1>1, <1>2, <1>5, <2>1, DocumentsAssumption
<1>7. participants' = IF outcome = "built" /\ phase = "algorithms" THEN participants \cup {entry.name}
                      ELSE participants
  BY <1>5, <1>6 DEF Withdraw
<1> DEFINE now == built'[phase]
<1>8. /\ built' = [a \in AxisNames |-> built'[a]]
      /\ \A a \in AxisNames \ {phase} : built'[a] = built[a]
      /\ now = IF outcome = "built" THEN Append(was, entry) ELSE was
  <2>1. built = [a \in AxisNames |-> built[a]]
    BY <1>2 DEF Building
  <2> QED BY <1>1, <1>5, <2>1
<1>9. now \in Seq(ToSet(config[phase])) /\ Distinct(now)
  <2>1. Append(was, entry) \in Seq(ToSet(config[phase]))
    BY <1>3, <1>4
  <2>2. Distinct(Append(was, entry))
    <3>1. /\ Len(Append(was, entry)) = Len(was) + 1 /\ Append(was, entry)[Len(was) + 1] = entry
          /\ \A i \in 1..Len(was) : Append(was, entry)[i] = was[i]
          /\ 1..(Len(was) + 1) = 1..Len(was) \cup {Len(was) + 1} /\ Len(was) + 1 \notin 1..Len(was)
      <4> HIDE DEF was, entry
      <4> QED BY <1>3, <1>4
    <3>2. \A i \in 1..Len(was) : was[i].name # entry.name
      BY <1>3, <1>4
    <3> HIDE DEF was, entry
    <3> QED BY <1>3, <3>1, <3>2 DEF Distinct
  <2> HIDE DEF now
  <2> QED BY <1>3, <1>8, <2>1, <2>2
<1>10. ASSUME phase' = phase, rest' = Tail(rest)
       PROVE  /\ rest' \in Seq(ToSet(config[phase])) /\ Distinct(rest')
              /\ \A i \in 1..Len(now), j \in 1..Len(rest') : now[i].name # rest'[j].name
  <2>1. Distinct(rest')
    BY <1>3, <1>4, <1>10 DEF Distinct
  <2>2. \A j \in 1..Len(rest') : rest'[j].name # entry.name
    <3>1. \A j \in 1..Len(rest') : j + 1 \in 1..Len(rest) /\ j + 1 # 1 /\ rest'[j] = rest[j + 1]
      BY <1>4, <1>10
    <3> QED BY <1>3, <1>4, <3>1 DEF Distinct
  <2>3. \A i \in 1..Len(now) : now[i] = entry \/ \E k \in 1..Len(was) : now[i] = was[k]
    <3> HIDE DEF now, was, entry
    <3> QED BY <1>3, <1>4, <1>8
  <2>4. \A k \in 1..Len(was), j \in 1..Len(rest') : was[k].name # rest'[j].name
    BY <1>3, <1>4, <1>10
  <2> HIDE DEF now, was, entry
  <2> QED BY <1>4, <1>10, <2>1, <2>2, <2>3, <2>4
<1>11. Building'
  <2>1. phase' \in {phase, "stop"} /\ config' = config
    BY <1>1, <1>5
  <2>2. \A a \in AxisNames : built'[a] \in Seq(ToSet(config'[a])) /\ Distinct(built'[a])
    <3>1. ASSUME NEW a \in AxisNames, a # phase
          PROVE  built'[a] \in Seq(ToSet(config'[a])) /\ Distinct(built'[a])
      BY <1>2, <1>8, <2>1, <3>1 DEF Building
    <3> QED BY <1>9, <2>1, <3>1
  <2>3. \A i, j \in 1..Len(Axes) : i < j /\ phase' = Axes[i] => built'[Axes[j]] = << >>
    <3>1. \A i, j \in 1..Len(Axes) : i < j /\ phase' = Axes[i] =>
            phase = Axes[i] /\ Axes[j] \in AxisNames \ {phase}
      BY <2>1, AxesInTurn
    <3> QED BY <1>2, <1>8, <3>1 DEF Building
  <2>4. phase' # "load" /\ (phase' \in AxisNames => phase' = phase /\ rest' = Tail(rest))
    BY <1>1, <1>5, AxesInTurn
  <2> QED BY <1>8, <1>10, <2>1, <2>2, <2>3, <2>4 DEF Building
<1>12. Assembled'
  <2>1. phase' \in {phase, "stop"}
    BY <1>5
  <2>2. phase # "devices" => built'["devices"] = built["devices"]
    BY <1>8, AxesInTurn
  <2>3. phase \notin {"devices", "connectors"} => Wiring' = Wiring
    <3>1. ASSUME phase \notin {"devices", "connectors"}
          PROVE  built'["devices"] = built["devices"] /\ built'["connectors"] = built["connectors"]
      BY <1>8, <3>1, AxesInTurn
    <3>2. Wiring = WiringOf(built["devices"], built["connectors"])
      BY DEF Wiring, WiringOf, Built
    <3>3. Wiring' = WiringOf(built'["devices"], built'["connectors"])
      BY DEF Wiring, WiringOf, Built
    <3> QED BY <3>1, <3>2, <3>3
  <2> QED BY <1>1, <1>2, <2>1, <2>2, <2>3 DEF Assembled
<1>13. Starting'
  <2>1. started = {} /\ started' = {} /\ running' = running /\ running = {}
    BY <1>1, <1>2 DEF Starting
  <2>2. Ended = {} /\ Ended' = {}
    BY <2>1 DEF Ended
  <2>3. Names(built'["algorithms"]) = IF outcome = "built" /\ phase = "algorithms"
                                      THEN Names(built["algorithms"]) \cup {entry.name}
                                      ELSE Names(built["algorithms"])
    <3>1. CASE outcome = "built" /\ phase = "algorithms"
      <4>1. now = Append(was, entry)
        BY <1>8, <3>1
      <4>2. Names(Append(was, entry)) = Names(was) \cup {entry.name}
        <5>1. /\ Len(Append(was, entry)) = Len(was) + 1 /\ Append(was, entry)[Len(was) + 1] = entry
              /\ \A i \in 1..Len(was) : Append(was, entry)[i] = was[i]
              /\ 1..(Len(was) + 1) = 1..Len(was) \cup {Len(was) + 1}
          <6> HIDE DEF was, entry
          <6> QED BY <1>3, <1>4
        <5> HIDE DEF was, entry
        <5> QED BY <5>1 DEF Names
      <4> QED BY <3>1, <4>1, <4>2
    <3>2. CASE ~(outcome = "built" /\ phase = "algorithms")
      BY <1>8, <3>2, AxesInTurn
    <3> QED BY <3>1, <3>2
  <2>4. participants = Names(built["algorithms"])
    BY <1>2, <2>2 DEF Starting
  <2>5. phase' # "start"
    BY <1>1, <1>5, AxesInTurn
  <2> HIDE DEF entry
  <2> QED BY <1>7, <2>1, <2>2, <2>3, <2>4, <2>5 DEF Starting
<1> QED BY <1>1, <1>2, <1>11, <1>12, <1>13 DEF StartInv

LEMMA ConcatOnce ==
  ASSUME NEW S, NEW s \in Seq(S), NEW t \in Seq(S), Once(s), Once(t),
         \A i \in 1..Len(s), j \in 1..Len(t) : s[i] # t[j]
  PROVE  /\ s \o t \in Seq(S) /\ Once(s \o t)
         /\ \A i \in 1..Len(s \o t) : \/ \E k \in 1..Len(s) : (s \o t)[i] = s[k]
                                      \/ \E k \in 1..Len(t) : (s \o t)[i] = t[k]
PROOF
<1> DEFINE m == Len(s)
           n == Len(t)
           r == s \o t
<1>1. m \in Nat /\ n \in Nat /\ r \in Seq(S) /\ Len(r) = m + n
  OBVIOUS
<1>2. \A i \in 1..(m + n) : r[i] = IF i <= m THEN s[i] ELSE t[i - m]
  OBVIOUS
<1> HIDE DEF m, n, r
<1>3. \A i \in 1..(m + n) : \/ i <= m /\ i \in 1..m /\ r[i] = s[i]
                            \/ ~(i <= m) /\ i - m \in 1..n /\ r[i] = t[i - m]
  BY <1>1, <1>2
<1>4. ASSUME NEW i \in 1..(m + n), NEW j \in 1..(m + n), r[i] = r[j] PROVE i = j
  <2>1. CASE i <= m /\ j <= m
    BY <1>3, <1>4, <2>1 DEF Once, m
  <2>2. CASE ~(i <= m) /\ ~(j <= m)
    <3>1. i - m = j - m
      BY <1>3, <1>4, <2>2 DEF Once, n
    <3> QED BY <1>1, <3>1
  <2>3. CASE (i <= m /\ ~(j <= m)) \/ (j <= m /\ ~(i <= m))
    <3>1. \A k \in 1..m, l \in 1..n : s[k] # t[l]
      BY DEF m, n
    <3> QED BY <1>3, <1>4, <2>3, <3>1
  <2>4. i \in Int /\ j \in Int
    OBVIOUS
  <2> QED BY <1>1, <2>1, <2>2, <2>3, <2>4
<1> QED BY <1>1, <1>3, <1>4 DEF Once, r, m, n

LEMMA WorkersOnce ==
  ASSUME Building PROVE StartOrder \in Seq(ToSet(StartOrder)) /\ Once(StartOrder)
PROOF
<1> DEFINE S == AxisNames \X {built[axis][k].name : axis \in AxisNames, k \in Nat}
<1>1. ASSUME NEW axis \in AxisNames
      PROVE  /\ Worker(axis) \in Seq(S) /\ Once(Worker(axis))
             /\ \A i \in 1..Len(Worker(axis)) : Worker(axis)[i][1] = axis
  <2> DEFINE b == built[axis]
  <2>1. Len(b) \in Nat /\ Distinct(b)
    BY DEF Building
  <2>2. \A k \in 1..Len(b) : <<axis, b[k].name>> \in S
    <3>1. \A k \in 1..Len(b) : k \in Nat
      BY <2>1
    <3> QED BY <3>1
  <2>3. Worker(axis) = [k \in 1..Len(b) |-> <<axis, b[k].name>>]
    BY DEF Worker, Built
  <2> HIDE DEF S, b
  <2>4. Worker(axis) \in Seq(S) /\ Len(Worker(axis)) = Len(b)
    BY <2>1, <2>2, <2>3
  <2>5. \A k \in 1..Len(b) : Worker(axis)[k] = <<axis, b[k].name>>
    BY <2>3
  <2> QED BY <2>1, <2>4, <2>5 DEF Once, Distinct
<1> HIDE DEF S
<1> DEFINE c == Worker("connectors")
           a == Worker("algorithms")
           v == Worker("services")
<1>2. /\ c \in Seq(S) /\ a \in Seq(S) /\ v \in Seq(S) /\ Once(c) /\ Once(a) /\ Once(v)
      /\ \A i \in 1..Len(c) : c[i][1] = "connectors"
      /\ \A i \in 1..Len(a) : a[i][1] = "algorithms"
      /\ \A i \in 1..Len(v) : v[i][1] = "services"
  BY <1>1, AxesInTurn
<1>3. StartOrder = c \o a \o v
  BY DEF StartOrder
<1> HIDE DEF c, a, v
<1>4. \A i \in 1..Len(c), j \in 1..Len(a) : c[i] # a[j]
  BY <1>2
<1>5. /\ c \o a \in Seq(S) /\ Once(c \o a)
      /\ \A i \in 1..Len(c \o a) : \/ \E k \in 1..Len(c) : (c \o a)[i] = c[k]
                                   \/ \E k \in 1..Len(a) : (c \o a)[i] = a[k]
  BY <1>2, <1>4, ConcatOnce
<1>6. \A i \in 1..Len(c \o a), j \in 1..Len(v) : (c \o a)[i] # v[j]
  BY <1>2, <1>5
<1>7. c \o a \o v \in Seq(S) /\ Once(c \o a \o v)
  BY <1>2, <1>5, <1>6, ConcatOnce
<1> QED BY <1>3, <1>7, SeqOfOwn

LEMMA FinishAxisStep == ASSUME StartInv, FinishAxis PROVE StartInv'
PROOF
<1>1. /\ phase \in AxisNames /\ phase # "load"
      /\ UNCHANGED <<document, environment, config, built, participants, started, running>>
  BY AxesInTurn DEF FinishAxis, document_, workers
<1>2. /\ Documented(document, environment, config) /\ document \in Documents
      /\ Building /\ Assembled /\ Starting
  BY <1>1 DEF StartInv
<1>3. /\ registry' = IF phase = "devices" THEN built["devices"] ELSE registry
      /\ wired' = IF phase = "connectors" THEN Wiring ELSE wired
  <2>1. Registered(built["devices"]) = built["devices"]
    BY <1>2, RegisteredAreAll, AxesInTurn DEF Building
  <2> QED BY <2>1 DEF FinishAxis, Built
<1>4. \/ phase = "services" /\ phase' = "start" /\ rest' = StartOrder
      \/ phase # "services" /\ phase' = NextAxis(phase) /\ rest' = config[phase']
  BY DEF FinishAxis
<1>a. phase \in {"devices", "storage", "connectors", "algorithms", "services"}
  BY <1>1, AxesInTurn
<1>5. \/ phase = "devices" /\ phase' = "storage"
      \/ phase = "storage" /\ phase' = "connectors"
      \/ phase = "connectors" /\ phase' = "algorithms"
      \/ phase = "algorithms" /\ phase' = "services"
      \/ phase = "services" /\ phase' = "start"
  <2>1. CASE phase = "services"
    BY <1>4, <2>1
  <2>2. CASE phase = "devices"
    BY <1>4, <2>2, AxesInTurn
  <2>3. CASE phase = "storage"
    BY <1>4, <2>3, AxesInTurn
  <2>4. CASE phase = "connectors"
    BY <1>4, <2>4, AxesInTurn
  <2>5. CASE phase = "algorithms"
    BY <1>4, <2>5, AxesInTurn
  <2> QED BY <1>a, <2>1, <2>2, <2>3, <2>4, <2>5
<1>6. Building'
  <2>1. phase' # "load" /\ (phase' \in AxisNames => phase # "services" /\ built'[phase'] = << >>)
    <3>1. phase # "services" => \E i \in 1..4 : phase = Axes[i] /\ phase' = Axes[i + 1]
      <4>1. PICK i \in 1..5 : phase = Axes[i]
        BY <1>1, AxesInTurn DEF AxisNames
      <4>2. Axes[5] = "services"
        BY DEF Axes
      <4>3. phase # "services" => i \in 1..4
        BY <4>1, <4>2
      <4> QED BY <1>4, <4>1, <4>3, AxesInTurn
    <3>2. \A i \in 1..4 : i \in 1..5 /\ i + 1 \in 1..5 /\ i < i + 1
      OBVIOUS
    <3>3. phase # "services" => built[phase'] = << >>
      BY <1>2, <3>1, <3>2, AxesInTurn DEF Building
    <3> QED BY <1>1, <1>5, <3>3, AxesInTurn
  <2>2. \A i, j \in 1..Len(Axes) : i < j /\ phase' = Axes[i] => built'[Axes[j]] = << >>
    <3>1. ASSUME NEW i \in 1..5, NEW j \in 1..5, i < j, phase' = Axes[i]
          PROVE  built[Axes[j]] = << >>
      <4>1. phase # "services" /\ phase' = NextAxis(phase)
        BY <1>4, <3>1, AxesInTurn
      <4>2. PICK m \in 1..5 : phase = Axes[m]
        BY <1>1, AxesInTurn DEF AxisNames
      <4>3. m # 5
        BY <4>1, <4>2 DEF Axes
      <4>4. m \in 1..4 /\ m + 1 \in 1..5
        BY <4>3
      <4>5. i = m + 1
        BY <3>1, <4>1, <4>2, <4>4, AxesInTurn
      <4>6. m < j
        BY <3>1, <4>5
      <4> QED BY <1>2, <4>2, <4>6, AxesInTurn DEF Building
    <3> QED BY <1>1, <3>1, AxesInTurn
  <2>3. \A axis \in AxisNames : config[axis] \in Seq(ToSet(config[axis])) /\ Distinct(config[axis])
    BY <1>2 DEF Documented
  <2>4. phase' \in AxisNames => rest' = config[phase']
    BY <1>4, <2>1
  <2> QED BY <1>1, <1>2, <2>1, <2>2, <2>3, <2>4 DEF Building
<1>7. Assembled'
  <2>1. Wiring' = Wiring
    BY <1>1 DEF Wiring, Built, Names
  <2> QED BY <1>1, <1>2, <1>3, <1>5, <2>1 DEF Assembled
<1>8. Starting'
  <2>1. started = {} /\ started' = {} /\ Ended' = Ended /\ running \subseteq started
    BY <1>1, <1>2 DEF Starting, Ended
  <2>2. phase' = "start" => rest' = StartOrder
    BY <1>4, <1>5
  <2> QED BY <1>1, <1>2, <2>1, <2>2, WorkersOnce DEF Starting, Names
<1> QED BY <1>1, <1>2, <1>6, <1>7, <1>8 DEF StartInv

LEMMA AfterStart ==
  ASSUME StartInv, phase \notin AxisNames \cup {"load"}, phase' \notin AxisNames \cup {"load"},
         UNCHANGED <<document_, plant>>, Starting', phase' \in {phase, "wait", "stop", "close", "ended"},
         phase' = "wait" => phase \in {"start", "wait"}
  PROVE  StartInv'
PROOF
<1>1. UNCHANGED <<document, environment, config, built, registry, wired>>
  BY DEF document_, plant
<1>2. Building'
  <2>1. \A i \in 1..Len(Axes) : phase' # Axes[i]
    BY AxesInTurn
  <2> QED BY <1>1, <2>1 DEF StartInv, Building
<1>3. Wiring' = Wiring
  BY <1>1 DEF Wiring, Built, Names
<1>4. Assembled'
  <2>1. CASE phase' = phase
    BY <1>1, <1>3, <2>1 DEF StartInv, Assembled
  <2>2. CASE phase' = "wait"
    BY <1>1, <1>3, <2>2 DEF StartInv, Assembled
  <2>3. CASE phase' \in {"stop", "close", "ended"}
    BY <2>3 DEF Assembled
  <2> QED BY <2>1, <2>2, <2>3
<1> QED BY <1>1, <1>2, <1>4 DEF StartInv

LEMMA StartWorkerStep == ASSUME StartInv, StartWorker PROVE StartInv'
PROOF
<1>1. Starting /\ phase = "start"
  BY DEF StartInv, StartWorker
<1>2. phase \notin AxisNames \cup {"load"} /\ "wait" \notin AxisNames \cup {"load"}
  BY <1>1, AxesInTurn
<1>3. UNCHANGED <<document_, plant, participants, built>>
  BY DEF StartWorker, plant
<1>4. CASE rest = << >>
  <2>1. phase' = "wait" /\ UNCHANGED <<started, running>>
    BY <1>4 DEF StartWorker, workers
  <2>2. Starting'
    <3>1. Ended' = Ended
      BY <2>1 DEF Ended
    <3> QED BY <1>1, <1>2, <1>3, <2>1, <3>1 DEF Starting, Names
  <2> QED BY <1>1, <1>2, <1>3, <2>1, <2>2, AfterStart
<1>5. CASE rest # << >>
  <2> DEFINE w == Head(rest)
  <2>1. started' = started \cup {w} /\ running' = running \cup {w} /\ rest' = Tail(rest) /\ phase' = phase
    BY <1>5 DEF StartWorker
  <2>2. rest \in Seq(ToSet(rest)) /\ Once(rest) /\ \A i \in 1..Len(rest) : rest[i] \notin started
    BY <1>1 DEF Starting
  <2>3. /\ w = rest[1] /\ 1 \in 1..Len(rest) /\ w \notin started
        /\ rest' \in Seq(ToSet(rest))
        /\ \A i \in 1..Len(rest') : i + 1 \in 1..Len(rest) /\ i + 1 # 1 /\ rest'[i] = rest[i + 1]
    BY <1>5, <2>1, <2>2
  <2>4. rest' \in Seq(ToSet(rest')) /\ Once(rest') /\ \A i \in 1..Len(rest') : rest'[i] \notin started'
    <3>1. rest' \in Seq(ToSet(rest'))
      BY <2>3, SeqOfOwn
    <3>2. Once(rest')
      <4>1. ASSUME NEW i \in 1..Len(rest'), NEW j \in 1..Len(rest'), rest'[i] = rest'[j] PROVE i = j
        <5>1. i + 1 = j + 1
          BY <2>2, <2>3, <4>1 DEF Once
        <5> QED BY <5>1
      <4> QED BY <4>1 DEF Once
    <3>3. ASSUME NEW i \in 1..Len(rest') PROVE rest'[i] \notin started'
      BY <2>1, <2>2, <2>3 DEF Once
    <3> QED BY <3>1, <3>2, <3>3
  <2>5. started' \ running' = started \ running
    BY <2>1, <2>3
  <2>6. Ended' = Ended
    BY <2>5 DEF Ended
  <2>7. Starting'
    BY <1>1, <1>2, <1>3, <2>1, <2>4, <2>6 DEF Starting, Names
  <2> QED BY <1>1, <1>2, <1>3, <2>1, <2>7, AfterStart
<1> QED BY <1>4, <1>5

LEMMA EndWorkerStep == ASSUME StartInv, EndWorker PROVE StartInv'
PROOF
<1>1. PICK w \in running : /\ running' = running \ {w}
        /\ participants' = IF w[1] = "algorithms" THEN participants \ {w[2]} ELSE participants
  BY DEF EndWorker
<1>2. UNCHANGED <<document_, plant, phase, rest, started, built>> /\ Starting
  BY DEF EndWorker, plant, StartInv
<1>3. w \in started /\ phase \notin AxisNames \cup {"load"} /\ running \subseteq started
  BY <1>1, <1>2 DEF Starting
<1>4. started' \ running' = (started \ running) \cup {w}
  BY <1>1, <1>2, <1>3
<1>5. Ended' = Ended \cup (IF w[1] = "algorithms" THEN {w[2]} ELSE {})
  BY <1>4 DEF Ended
<1>6. Starting'
  BY <1>1, <1>2, <1>3, <1>5 DEF Starting, Names
<1> QED BY <1>2, <1>3, <1>6, AfterStart

LEMMA StartStep == ASSUME StartInv, [Next]_vars PROVE StartInv'
PROOF
<1>1. ASSUME UNCHANGED <<document_, plant, phase, rest, participants, started, running>> PROVE StartInv'
  <2>1. UNCHANGED <<document, environment, config, built, registry, wired, phase, rest, participants, started, running>>
    BY <1>1 DEF document_, plant
  <2>2. Wiring' = Wiring /\ Ended' = Ended /\ Names(built["algorithms"])' = Names(built["algorithms"])
    BY <2>1 DEF Wiring, Built, Names, Ended
  <2>3. Building' /\ Assembled' /\ Starting'
    BY <2>1, <2>2 DEF StartInv, Building, Assembled, Starting
  <2> QED BY <2>1, <2>3 DEF StartInv
<1>2. CASE LeaveWait \/ StopAll \/ CloseAll
  <2>1. /\ UNCHANGED <<document_, plant, built, rest, participants, started, running>>
        /\ phase \in {"wait", "stop", "close"} /\ phase' \in {"stop", "close", "ended"} /\ Starting
    BY <1>2 DEF LeaveWait, StopAll, CloseAll, workers, plant, StartInv
  <2>2. phase \notin AxisNames \cup {"load"} /\ phase' \notin AxisNames \cup {"load"}
    BY <2>1, AxesInTurn
  <2>3. Starting'
    <3>1. Ended' = Ended
      BY <2>1 DEF Ended
    <3> QED BY <2>1, <2>2, <3>1 DEF Starting, Names
  <2> QED BY <2>1, <2>2, <2>3, AfterStart
<1>3. CASE Signal
  BY <1>1, <1>3 DEF Signal, workers
<1>4. CASE UNCHANGED startupVars
  BY <1>1, <1>4 DEF startupVars, workers
<1>5. CASE Main \/ EndWorker
  BY <1>2, <1>5, LoadStep, ConstructStep, FinishAxisStep, StartWorkerStep, EndWorkerStep DEF Main
<1> QED BY <1>3, <1>4, <1>5 DEF Next, StartupNext, vars

(* As soon as a thread runs, the barrier waits for the algorithms built. *)
THEOREM BarrierIsTheBuiltHolds == Spec => []BarrierIsTheBuilt
PROOF
<1>1. StartInv => BarrierIsTheBuilt
  BY DEF StartInv, Starting, Ended, BarrierIsTheBuilt
<1> QED BY <1>1, StartInit, StartStep, PTL DEF Spec

LEMMA WiredNow == ASSUME StartInv PROVE WiredAsConfigured
PROOF
<1> SUFFICES ASSUME phase \in {"algorithms", "services", "start", "wait"} PROVE
    /\ Len(registry) = Len(built["devices"])
    /\ \A k \in 1..Len(registry) :
         LET d == registry[k]
             c == CHOOSE c \in 1..Len(document["connectors"]) :
                    /\ Counts("connectors", c)
                    /\ Interpolate(environment, document["connectors"][c].name) = d.connector
             connector == InterpolateEntry(environment, document["connectors"][c])
         IN /\ \E j \in 1..Len(document["devices"]) :
                 /\ Counts("devices", j)
                 /\ [InterpolateEntry(environment, document["devices"][j])
                       EXCEPT !.protocol = d.protocol] = d
            /\ d.protocol = IF connector.emulates \in {Null, << >>}
                            THEN connector.plugin ELSE Word(connector.emulates)
            /\ d.name \in DOMAIN wired <=> d.connector \in Names(built["connectors"])
            /\ d.name \in DOMAIN wired => wired[d.name] = d.connector
  BY DEF WiredAsConfigured
<1>1. /\ document \in Documents /\ Documented(document, environment, config) /\ Building
      /\ registry = built["devices"] /\ wired = Wiring
  BY DEF StartInv, Assembled
<1>2. registry \in Seq(ToSet(config["devices"])) /\ Distinct(registry)
  BY <1>1, AxesInTurn DEF Building
<1> SUFFICES ASSUME NEW k \in 1..Len(registry) PROVE
         LET d == registry[k]
             c == CHOOSE c \in 1..Len(document["connectors"]) :
                    /\ Counts("connectors", c)
                    /\ Interpolate(environment, document["connectors"][c].name) = d.connector
             connector == InterpolateEntry(environment, document["connectors"][c])
         IN /\ \E j \in 1..Len(document["devices"]) :
                 /\ Counts("devices", j)
                 /\ [InterpolateEntry(environment, document["devices"][j])
                       EXCEPT !.protocol = d.protocol] = d
            /\ d.protocol = IF connector.emulates \in {Null, << >>}
                            THEN connector.plugin ELSE Word(connector.emulates)
            /\ d.name \in DOMAIN wired <=> d.connector \in Names(built["connectors"])
            /\ d.name \in DOMAIN wired => wired[d.name] = d.connector
  BY <1>1
<1> DEFINE d == registry[k]
           Says(c) == /\ Counts("connectors", c)
                      /\ Interpolate(environment, document["connectors"][c].name) = d.connector
           c0 == CHOOSE c \in 1..Len(document["connectors"]) : Says(c)
<1>3. d \in ToSet(config["devices"])
  BY <1>2
<1>4. \A axis, j : Counts(axis, j) <=> CountsIn(document, environment, axis, j)
  BY DEF Counts, CountsIn
<1>5. PICK e \in ToSet(config["connectors"]) : e.name = d.connector /\ d.protocol = Protocol(e)
  BY <1>1, <1>3 DEF Documented
<1>6. PICK j \in 1..Len(document["connectors"]) :
        Counts("connectors", j) /\ e = InterpolateEntry(environment, document["connectors"][j])
  BY <1>1, <1>4, <1>5 DEF Documented
<1>7. Says(j)
  <2>1. DOMAIN document["connectors"][j] = EntryFields
    BY <1>1, DocumentsAssumption, AxesInTurn
  <2>2. e.name = Interpolate(environment, document["connectors"][j].name)
    BY <1>6, <2>1, Interpolated
  <2> QED BY <1>5, <1>6, <2>2
<1>8. c0 = j
  <2>1. ASSUME NEW c \in 1..Len(document["connectors"]), Says(c) PROVE c = j
    <3>1. c \in Int /\ j \in Int /\ 1 <= c /\ 1 <= j
      BY <1>1, DocumentsAssumption, AxesInTurn
    <3>2. ~(c < j)
      BY <1>7, <2>1, <3>1 DEF Counts
    <3>3. ~(j < c)
      BY <1>7, <2>1, <3>1 DEF Counts
    <3> QED BY <3>1, <3>2, <3>3
  <2> HIDE DEF Says
  <2> QED BY <1>7, <2>1
<1>9. d.protocol = IF e.emulates \in {Null, << >>} THEN e.plugin ELSE Word(e.emulates)
  BY <1>5 DEF Protocol
<1>10. \E i \in 1..Len(document["devices"]) :
         /\ Counts("devices", i)
         /\ [InterpolateEntry(environment, document["devices"][i]) EXCEPT !.protocol = d.protocol] = d
  <2> HIDE DEF d
  <2> QED BY <1>1, <1>3, <1>4, AxesInTurn DEF Documented
<1>11. /\ d.name \in DOMAIN wired <=> d.connector \in Names(built["connectors"])
       /\ d.name \in DOMAIN wired => wired[d.name] = d.connector
  <2> DEFINE served == {x \in ToSet(registry) : x.connector \in Names(built["connectors"])}
  <2>1. wired = [name \in {x.name : x \in served} |-> (CHOOSE x \in served : x.name = name).connector]
    BY <1>1 DEF Wiring, Built
  <2>2. d \in ToSet(registry) /\ \A x \in ToSet(registry) : x.name = d.name => x = d
    <3>1. ToSet(registry) = {registry[i] : i \in 1..Len(registry)}
      BY <1>2, SeqOfOwn
    <3>2. \A i \in 1..Len(registry) : registry[i].name = registry[k].name => i = k
      BY <1>2 DEF Distinct
    <3> QED BY <3>1, <3>2
  <2>3. \A x \in served : x.name = d.name => x = d
    BY <2>2
  <2>4. d \in served <=> d.connector \in Names(built["connectors"])
    BY <2>2
  <2>5. d \in served => (CHOOSE x \in served : x.name = d.name) = d
    BY <2>3
  <2>6. d.name \in DOMAIN wired <=> d \in served
    BY <2>1, <2>3
  <2> HIDE DEF served, d
  <2> QED BY <2>1, <2>4, <2>5, <2>6
<1> QED BY <1>6, <1>8, <1>9, <1>10, <1>11

(* Every device that was constructed is registered, and wired, as the      *)
(* entries that count under its name and its connector's say.              *)
THEOREM WiredAsConfiguredHolds == Spec => []WiredAsConfigured
PROOF
BY StartInit, StartStep, WiredNow, PTL DEF Spec

-----------------------------------------------------------------------------
(* The end of the run: whoever writes finds every backend that was built,  *)
(* and the process ends with none of them open.                            *)

ClosingInv ==
  /\ phase \in AxisNames \cup {"load", "start", "wait", "stop", "close", "ended"}
  /\ phase \in {"connectors", "algorithms", "services", "start", "wait"} => open = Names(built["storage"])
  /\ phase \in {"stop", "close"} /\ started # {} => open = Names(built["storage"])
  /\ phase \in {"close", "ended"} => asked = started
  /\ phase = "ended" => open = {}

LEMMA ClosingStep == ASSUME StartInv, ClosingInv, [Next]_vars PROVE ClosingInv'
PROOF
<1> USE DEF ClosingInv
<1>1. phase \in AxisNames \cup {"load"} => started = {}
  BY DEF StartInv, Starting
<1>2. CASE Load
  <2>1. phase' = "devices" /\ UNCHANGED <<open, started, asked>>
    BY <1>2 DEF Load, workers, Axes
  <2> QED BY <2>1, AxesInTurn
<1>3. CASE Construct
  <2>1. /\ UNCHANGED <<open, started, asked>>
        /\ phase \in AxisNames /\ (phase' = phase \/ phase' = "stop")
    BY <1>3 DEF Construct, workers
  <2>2. phase # "storage" => built'["storage"] = built["storage"]
    <3>1. built = [axis \in AxisNames |-> built[axis]]
      BY DEF StartInv, Building
    <3> QED BY <1>3, <3>1, AxesInTurn DEF Construct
  <2>3. phase \in {"devices", "storage", "connectors", "algorithms", "services"} /\ started = {}
    BY <1>1, <2>1, AxesInTurn
  <2> QED BY <2>1, <2>2, <2>3 DEF Names
<1>4. CASE FinishAxis
  <2>1. /\ phase \in AxisNames /\ UNCHANGED <<built, started, asked>>
        /\ open' = IF phase = "storage" THEN Names(built["storage"]) ELSE open
        /\ phase' = IF phase = "services" THEN "start" ELSE NextAxis(phase)
    BY <1>4 DEF FinishAxis, workers, Built
  <2> QED BY <2>1, AxesInTurn DEF Names
<1>5. CASE StartWorker
  <2>1. phase = "start" /\ phase' \in {"start", "wait"} /\ UNCHANGED <<open, built>>
    BY <1>5 DEF StartWorker, plant
  <2> QED BY <2>1 DEF Names
<1>6. CASE LeaveWait \/ EndWorker \/ Signal
  <2>1. /\ UNCHANGED <<open, built, started, asked>>
        /\ phase' = phase \/ (phase = "wait" /\ phase' = "stop")
    BY <1>6 DEF LeaveWait, EndWorker, Signal, plant, workers
  <2> QED BY <2>1 DEF Names
<1>7. CASE StopAll
  <2>1. phase = "stop" /\ phase' = "close" /\ asked' = started /\ UNCHANGED <<open, built, started>>
    BY <1>7 DEF StopAll, plant
  <2> QED BY <2>1 DEF Names
<1>8. CASE CloseAll
  <2>1. phase = "close" /\ phase' = "ended" /\ open' = {} /\ UNCHANGED <<started, asked>>
    BY <1>8 DEF CloseAll, workers
  <2> QED BY <2>1
<1>9. CASE UNCHANGED startupVars
  BY <1>9 DEF startupVars, plant, workers, Names
<1> QED BY <1>2, <1>3, <1>4, <1>5, <1>6, <1>7, <1>8, <1>9 DEF Next, StartupNext, Main, vars

(* A worker that runs before the end of the run finds every backend that   *)
(* was built, open; and a run that ended, however it came to, did so with  *)
(* every started worker asked to stop and no backend left open: what       *)
(* RunEndsClosed says at its end (main.py, main() and shutdown()).         *)
OpenWhileRunning ==
  /\ running # {} /\ phase # "ended" => open = Names(built["storage"])
  /\ phase = "ended" => Down

THEOREM OpenWhileRunningHolds == Spec => []OpenWhileRunning
PROOF
<1>1. Init => ClosingInv
  BY DEF Init, StartupInit, ClosingInv
<1>2. StartInv /\ ClosingInv => OpenWhileRunning
  <2> SUFFICES ASSUME StartInv, ClosingInv PROVE OpenWhileRunning
    OBVIOUS
  <2>1. running \subseteq started /\ (phase \in AxisNames \cup {"load"} => started = {})
    BY DEF StartInv, Starting
  <2> QED BY <2>1 DEF ClosingInv, OpenWhileRunning, Down
<1>3. StartInv /\ [Next]_vars => StartInv'
  BY StartStep
<1>4. StartInv /\ ClosingInv /\ [Next]_vars => ClosingInv'
  BY ClosingStep
<1> QED BY <1>1, <1>2, <1>3, <1>4, StartInit, PTL DEF Spec
=============================================================================
