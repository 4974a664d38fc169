------------------------------- MODULE Outbox -------------------------------
(***************************************************************************)
(* What the federation queue promises for each message: it is tried a      *)
(* bounded number of times, given up only when the tries are used up, and  *)
(* delivered only when the peer has handled its latest try.  The peer may  *)
(* handle any try, at any time and more than once, also long after the     *)
(* queue has counted the message as failed.  How tries travel is not said. *)
(***************************************************************************)
EXTENDS Naturals

CONSTANTS Item, MaxAttempts

VARIABLES
  status,   \* new, pending, delivered or failed
  tries,    \* how often each item has been tried
  handled   \* the tries the peer has handled

outboxVars == <<status, tries, handled>>

OutboxInit ==
  /\ status = [i \in Item |-> "new"]
  /\ tries = [i \in Item |-> 0]
  /\ handled = {}

Accept(i) ==
  /\ status[i] = "new"
  /\ status' = [status EXCEPT ![i] = "pending"]
  /\ UNCHANGED <<tries, handled>>

Try(i) ==
  /\ status[i] = "pending" /\ tries[i] < MaxAttempts
  /\ tries' = [tries EXCEPT ![i] = @ + 1]
  /\ UNCHANGED <<status, handled>>

Handle(i, t) ==
  /\ t \in 1 .. tries[i]
  /\ handled' = handled \cup {<<i, t>>}
  /\ UNCHANGED <<status, tries>>

Deliver(i) ==
  /\ status[i] = "pending" /\ <<i, tries[i]>> \in handled
  /\ status' = [status EXCEPT ![i] = "delivered"]
  /\ UNCHANGED <<tries, handled>>

GiveUp(i) ==
  /\ status[i] = "pending" /\ tries[i] = MaxAttempts
  /\ status' = [status EXCEPT ![i] = "failed"]
  /\ UNCHANGED <<tries, handled>>

OutboxNext ==
  \E i \in Item :
    \/ Accept(i) \/ Try(i) \/ Deliver(i) \/ GiveUp(i)
    \/ \E t \in 1 .. tries[i] : Handle(i, t)

OutboxSpec == OutboxInit /\ [][OutboxNext]_outboxVars
=============================================================================
