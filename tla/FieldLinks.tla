----------------------------- MODULE FieldLinks -----------------------------
(***************************************************************************)
(* One field connector, of any of the kinds, with the algorithms that send *)
(* commands through it.                                                    *)
(***************************************************************************)
EXTENDS PollingLink, SerialLink, LorawanLink

vars == <<shared, polling, serial, downlinks>>

Init == LinkInit /\ PollInit /\ LoraInit /\ SerialInit /\ LorawanInit

(* What the steps of the others leave alone. *)
NotPolling == UNCHANGED polling
NotOnRadio == UNCHANGED <<serial, downlinks>>
SerialOnly == UNCHANGED <<polling, downlinks>>
LorawanOnly == UNCHANGED <<polling, line>>

Next ==
  \/ SharedNext /\ NotPolling /\ NotOnRadio
  \/ PollNext /\ NotOnRadio
  \/ SerialNext /\ SerialOnly
  \/ LorawanNext /\ LorawanOnly

(* The threads run.  A thread that waits on a lock that is free again and   *)
(* again gets it, and a gateway that is tried again and again accepts.      *)
Fairness ==
  /\ WF_vars((Drop \/ Close \/ Backoff \/ Supervise) /\ NotPolling /\ NotOnRadio)
  /\ WF_vars(PollLoop /\ NotOnRadio) /\ WF_vars(SerialLoop /\ SerialOnly)
  /\ WF_vars(LorawanLoop /\ LorawanOnly)
  /\ SF_vars(CloseClient /\ NotOnRadio) /\ SF_vars(EnsureConnected /\ NotOnRadio)
  /\ SF_vars(Disconnect /\ NotOnRadio) /\ SF_vars(BeginCall(Worker) /\ NotOnRadio)
  /\ SF_vars(WriteInit /\ SerialOnly)
  /\ \A a \in Algorithms : /\ WF_vars((Written(a) \/ Post(a)) /\ NotOnRadio)
                           /\ WF_vars(LineWritten(a) /\ SerialOnly)
  /\ \A d \in Devices : WF_vars(ComesDue(d) /\ NotOnRadio)

Spec == Init /\ [][Next]_vars
FairSpec == Spec /\ Fairness

---------------------------------------------------------------------------
(* Properties. *)

LinkPlaces == {"out", "top", "pass", "poll", "call", "exchange", "disconnect", "sleep", "backoff",
               "init", "reading", "drop", "close", "crashed", "ended"}
SendPlaces == {"free", "holding", "call", "exchange", "raised", "line", "port", "throttle", "publish"}

TypeOK ==
  /\ kind \in Kinds /\ configured \in BOOLEAN
  /\ pc \in [Threads -> LinkPlaces \cup SendPlaces] /\ after \in {"ended", "crashed", "backoff"}
  /\ made \in Nat /\ open \subseteq 1..made /\ {handle, dying} \subseteq 0..made
  /\ held \in [Algorithms -> 0..made]
  /\ lock \in Threads \cup {NoOne} /\ wire \in Seq(Threads)
  /\ connected \subseteq Devices /\ delay \in 1..MaxBackoff /\ restarts \in 0..MaxRestarts
  /\ stopping \in BOOLEAN
  /\ {due, todo, failed} \in SUBSET (SUBSET Tasks) /\ task \in 0..Len(Declared)
  /\ read \in Nat \ {0} /\ {got, socket} \subseteq BOOLEAN
  /\ line \in 1..(InitCommands + 1)
  /\ count \in 0..MaxUplinks /\ accepted \in [Devices -> Seq([uplink : Uplinks, count : 0..MaxUplinks])]
  /\ time \in 1..MaxTime /\ last \in 0..time /\ interval \in Intervals
  /\ {noted, previous} \subseteq [Algorithms -> 0..time]
  /\ issued \in [Algorithms -> 0..MaxCommands]
  /\ queue \in Seq([from : Algorithms, number : 1..MaxCommands])

(* Two transactions on one socket, or two lines on one radio, never overlap: *)
(* the exchange a thread completes is the one it began (_call, _write_line). *)
OwnReply ==
  \A t \in Threads : pc[t] = "exchange" => wire = <<t>>

(* The handle that send() finds in the attribute has not been closed, and   *)
(* nobody closes a client while a transaction is on its socket.             *)
HandsOutOpen ==
  /\ handle # 0 => handle \in open
  /\ kind = "modbus" => \A t \in Threads : pc[t] = "exchange" => handle # 0

(* Outside start(), after a clean return, a crash, or a link lost, there is *)
(* no handle, and everything that was ever opened is closed.                *)
NothingLeftOpen ==
  pc[Worker] \in {"out", "crashed", "ended"} \cup (IF kind = "serial" THEN {"backoff"} ELSE {})
    => handle = 0 /\ dying = 0 /\ open = {}

(* A device is polled again and again, whatever becomes of the others, until *)
(* a stop or a spent restart budget.                                         *)
EachDevicePolled ==
  \A d \in Devices : []<>(task = d \/ d \notin Tasks \/ stopping \/ pc[Worker] = "ended" \/ ~Polls)

(* A stop ends start(), from wherever the worker is. *)
StopEnds == stopping ~> pc[Worker] = "ended"

(* Every field of a node shows what the newest uplink of its port said, with *)
(* the frame counter of that uplink, and no field that this uplink could not *)
(* give: a status uplink neither erases a meter reading nor renews it.       *)
FieldsAreNewest ==
  \A d \in Devices : Declared[d].readable => \A spec \in BuildSpecs(Declared[d].fields) :
    LET own == {i \in 1..Len(accepted[d]) : Eligible(spec, accepted[d][i].uplink)}
        newest == accepted[d][CHOOSE i \in own : \A j \in own : j <= i]
        value == DecodeField(spec, newest.uplink)
    IN  IF own = {} \/ value = NoValue THEN spec.name \notin DOMAIN fields[d]
        ELSE /\ spec.name \in DOMAIN fields[d]
             /\ fields[d][spec.name] = [value |-> value, port |-> newest.uplink.port, count |-> newest.count]

(* However many algorithms send at once, two downlinks let through to one    *)
(* node are an interval apart (_throttle's read-then-write).                 *)
DownlinksApart ==
  [][last' # last /\ last # 0 => last' - last >= interval]_vars

=============================================================================
