----------------------------- MODULE RequestSpec -----------------------------
(***************************************************************************)
(* What transaction.h promises of a request, without ids, timers, blocks   *)
(* or packets: it is transmitted while it is pending, delivered at least   *)
(* once if it is acknowledged, and ends in one way only.                   *)
(***************************************************************************)
EXTENDS Integers

CONSTANT Txn

VARIABLES
  outcome,    \* how each request ended for the application, or "pending"
  underway,   \* transmissions of each request that the peer may still handle
  received    \* requests the peer handed to its application

spec == <<outcome, underway, received>>

Init ==
  /\ outcome = [t \in Txn |-> "pending"]
  /\ underway = [t \in Txn |-> 0]
  /\ received = {}

Transmit(t) ==
  /\ outcome[t] = "pending"
  /\ underway' = [underway EXCEPT ![t] = underway[t] + 1]
  /\ UNCHANGED <<outcome, received>>

\* A transmission may be handled after the request has ended.
Deliver(t) ==
  /\ underway[t] > 0
  /\ underway' = [underway EXCEPT ![t] = underway[t] - 1]
  /\ received' \in {received, received \cup {t}}
  /\ UNCHANGED outcome

Acknowledge(t) ==
  /\ outcome[t] = "pending"
  /\ t \in received
  /\ outcome' = [outcome EXCEPT ![t] = "acked"]
  /\ UNCHANGED <<underway, received>>

\* The application is told, or the request was never made for want of a packet.
Fail(t) ==
  /\ outcome[t] = "pending"
  /\ \E how \in {"failed", "dropped"} : outcome' = [outcome EXCEPT ![t] = how]
  /\ UNCHANGED <<underway, received>>

\* The agent is disabled or torn down.
Remove(S) ==
  /\ \A t \in S : outcome[t] = "pending"
  /\ outcome' = [t \in Txn |-> IF t \in S THEN "removed" ELSE outcome[t]]
  /\ UNCHANGED <<underway, received>>

Next ==
  \/ \E t \in Txn : Transmit(t) \/ Deliver(t) \/ Acknowledge(t) \/ Fail(t)
  \/ \E S \in SUBSET Txn : Remove(S)

Spec == Init /\ [][Next]_spec
=============================================================================
