----------------------------- MODULE DecisionLog ----------------------------
(***************************************************************************)
(* What the review of orders promises about decisions, without pauses,     *)
(* locks, runs or requests: each session has a log, a decision is appended *)
(* at the log's length, and an idempotency key is good for one decision.   *)
(***************************************************************************)
EXTENDS Naturals

CONSTANTS Session, Index, Act, DecisionKey

VARIABLES
  done,     \* the decisions taken
  version   \* how many each session has

vars == <<done, version>>

Init == done = {} /\ version = [s \in Session |-> 0]

\* The entry's number is the version the decision was taken at.
Decide(s, i, a, k) ==
  /\ \A d \in done : d.key # k
  /\ done' = done \cup {[session |-> s, idx |-> i, act |-> a, key |-> k,
                         ver |-> version[s]]}
  /\ version' = [version EXCEPT ![s] = @ + 1]

Next == \E s \in Session, i \in Index, a \in Act, k \in DecisionKey :
          Decide(s, i, a, k)

Spec == Init /\ [][Next]_vars
=============================================================================
