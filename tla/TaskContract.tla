----------------------------- MODULE TaskContract -----------------------------
(***************************************************************************)
(* What the service promises about a generation task, without processes,   *)
(* messages or transactions: README's life cycle                           *)
(* created -> queued -> processing -> completed / failed, in which the     *)
(* tokens are given back exactly when the task fails.                      *)
(***************************************************************************)
EXTENDS Naturals

CONSTANT Task

VARIABLES
    state,      \* "absent", or the task's status
    refunds     \* how often the task's cost was given back

vars == <<state, refunds>>

Init ==
    /\ state = [t \in Task |-> "absent"]
    /\ refunds = [t \in Task |-> 0]

Arrow ==
    { <<"absent", "created">>, <<"created", "queued">>, <<"queued", "processing">>,
      <<"processing", "completed">> }

Advance(t) ==
    /\ \E s \in {"created", "queued", "processing", "completed"} :
          /\ <<state[t], s>> \in Arrow
          /\ state' = [state EXCEPT ![t] = s]
    /\ UNCHANGED refunds

(* A monitor fails several tasks in one transaction.                       *)
Fail(ts) ==
    /\ \A t \in ts : state[t] \in {"queued", "processing"}
    /\ state' = [t \in Task |-> IF t \in ts THEN "failed" ELSE state[t]]
    /\ refunds' = [t \in Task |-> IF t \in ts THEN refunds[t] + 1 ELSE refunds[t]]

Next ==
    \/ \E t \in Task : Advance(t)
    \/ \E ts \in SUBSET Task : Fail(ts)

Spec == Init /\ [][Next]_vars

=============================================================================
