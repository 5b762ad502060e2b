------------------------------ MODULE Backtest ------------------------------
(***************************************************************************)
(* What a backtest promises (README "Running against a replay", the        *)
(* docstring of Algorithm.loop): the run is a sequence of rounds.  The      *)
(* devices change, and the next round opens, only while every algorithm    *)
(* still taking part has processed the current round; an algorithm         *)
(* processes each round at most once, in order, and may withdraw between   *)
(* two rounds.  How this is achieved is Lockstep's business.               *)
(***************************************************************************)
EXTENDS Naturals

CONSTANTS Algorithms, Views   \* Views: what the devices may show together

VARIABLES round,    \* the round that is open
          view,     \* what the devices show
          member,   \* the algorithms taking part
          busy,     \* the algorithms inside main()
          handled   \* the last round each algorithm began

vars == <<round, view, member, busy, handled>>

Init ==
  /\ round = 0 /\ view \in Views
  /\ member = Algorithms /\ busy = {}
  /\ handled = [a \in Algorithms |-> 0]

Quiet == busy = {} /\ \A a \in member : handled[a] = round

Deliver ==
  /\ Quiet /\ view' \in Views
  /\ UNCHANGED <<round, member, busy, handled>>

Open ==
  /\ Quiet /\ round' = round + 1
  /\ UNCHANGED <<view, member, busy, handled>>

Begin(a) ==
  /\ a \in member \ busy /\ handled[a] + 1 = round
  /\ handled' = [handled EXCEPT ![a] = round]
  /\ busy' = busy \cup {a}
  /\ UNCHANGED <<round, view, member>>

End(a) ==
  /\ a \in busy /\ busy' = busy \ {a}
  /\ UNCHANGED <<round, view, member, handled>>

Withdraw(a) ==
  /\ a \in member \ busy /\ member' = member \ {a}
  /\ UNCHANGED <<round, view, busy, handled>>

Next ==
  \/ Deliver \/ Open
  \/ \E a \in Algorithms : Begin(a) \/ End(a) \/ Withdraw(a)

Spec == Init /\ [][Next]_vars
=============================================================================
