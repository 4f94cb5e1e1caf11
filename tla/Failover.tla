------------------------------- MODULE Failover -------------------------------
(* One execution of generation.submit seen from its provider: the attempts *)
(* of _submit_to_provider, the circuit breaker of the FallbackProvider it  *)
(* has made for itself, and the primary and the fallback behind it; and    *)
(* then a poll, which makes a FallbackProvider of its own.                 *)
(*                                                                         *)
(* Calls and the pauses between attempts take any time.  What a provider   *)
(* does with a job is part of Generation.                                  *)
EXTENDS Integers, Sequences

CONSTANTS
    MaxAttempts,        \* max_retries of _submit_to_provider
    Threshold,          \* settings.circuit_breaker_failure_threshold
    RecoveryTimeout,    \* settings.circuit_breaker_recovery_timeout
    SameKey,            \* is fal_key_fallback empty, or the same account?
    MaxTime             \* bound: when the clock stops

ASSUME FailoverAssumption ==
    /\ {MaxAttempts, Threshold, RecoveryTimeout} \subseteq Nat \ {0}
    /\ SameKey \in BOOLEAN
    /\ MaxTime \in Nat

VARIABLES
    time,           \* time.monotonic()
    attempt,        \* the loop variable of _submit_to_provider
    phase,          \* what the attempt is doing, or how the execution ended
    failures,       \* CircuitBreaker._failure_count
    lastFailure,    \* CircuitBreaker._last_failure_time
    open,           \* CircuitBreaker._is_open
    calls,          \* when each provider was called
    holder          \* the provider that has accepted the last job, if any

breakerVars == <<failures, lastFailure, open>>
vars == <<time, attempt, phase, breakerVars, calls, holder>>

Provider == {"primary", "fallback"}

(* A provider is asked because it is the active one, or the fallback comes *)
(* to the rescue of a primary that has just opened the breaker.            *)
Asking == Provider \cup {"rescue"}
Ended == {"submitted", "given_up", "lost", "found", "missing"}

accepted == holder # "nobody"

TypeOK ==
    /\ time \in Nat
    /\ attempt \in 1..MaxAttempts
    /\ phase \in {"ready", "accepted", "refused"} \cup Asking \cup Ended
    /\ failures \in 0..MaxAttempts
    /\ lastFailure \in 0..time
    /\ open \in BOOLEAN
    /\ calls \in [Provider -> Seq(Nat)]
    /\ holder \in Provider \cup {"nobody"}

Init ==
    /\ time = 0
    /\ attempt = 1
    /\ phase = "ready"
    /\ failures = 0
    /\ lastFailure = 0
    /\ open = FALSE
    /\ calls = [p \in Provider |-> << >>]
    /\ holder = "nobody"

-----------------------------------------------------------------------------

Call(p) == calls' = [calls EXCEPT ![p] = Append(@, time)]

(* Mutant of Recovered: an open breaker lets every request probe.          *)
MutantRecoveredAtOnce == open

(* The breaker is open and half-opens when it is looked at.                *)
Recovered == open /\ time >= lastFailure + RecoveryTimeout

AskPrimary ==
    /\ phase = "ready"
    /\ \/ ~open /\ UNCHANGED breakerVars
       \/ Recovered /\ failures' = 0 /\ open' = FALSE /\ UNCHANGED lastFailure
    /\ phase' = "primary"
    /\ Call("primary")
    /\ UNCHANGED <<time, attempt, holder>>

AskFallback ==
    /\ phase = "ready"
    /\ open /\ ~Recovered
    /\ phase' = "fallback"
    /\ Call("fallback")
    /\ UNCHANGED <<time, attempt, breakerVars, holder>>

(* record_success, unless the fallback came to the rescue.                 *)
Accepted ==
    /\ phase \in Asking
    /\ phase' = "accepted"
    /\ IF phase = "rescue"
       THEN UNCHANGED breakerVars
       ELSE failures' = 0 /\ open' = FALSE /\ UNCHANGED lastFailure
    /\ holder' = IF phase = "primary" THEN "primary" ELSE "fallback"
    /\ UNCHANGED <<time, attempt, calls>>

(* Mutant of RecordFailure: the breaker opens one failure too early.       *)
MutantOpenEarly ==
    /\ failures' = failures + 1
    /\ lastFailure' = time
    /\ open' = (open \/ failures + 2 >= Threshold)

RecordFailure ==
    /\ failures' = failures + 1
    /\ lastFailure' = time
    /\ open' = (open \/ failures + 1 >= Threshold)

(* The exception leaves FallbackProvider.submit: the loop catches it, or   *)
(* it is of another type and ends the execution.                           *)
Raise == phase' \in {"refused", "lost"}

(* The request id is stored ...                                            *)
CommitProcessing ==
    /\ phase = "accepted"
    /\ phase' = "submitted"
    /\ UNCHANGED <<time, attempt, breakerVars, calls, holder>>

(* ... or that fails, which the loop takes for a failure of the provider   *)
(* and the breaker does not know.                                          *)
CommitFails ==
    /\ phase = "accepted"
    /\ Raise
    /\ UNCHANGED <<time, attempt, breakerVars, calls, holder>>

(* Mutant of PrimaryFails: a breaker that opens rescues nothing.           *)
MutantNoRescue ==
    /\ phase = "primary"
    /\ RecordFailure
    /\ Raise
    /\ UNCHANGED <<time, attempt, calls, holder>>

(* The failure that opens the breaker is answered by the fallback.         *)
PrimaryFails ==
    /\ phase = "primary"
    /\ RecordFailure
    /\ \/ open' /\ phase' = "rescue" /\ Call("fallback")
       \/ ~open' /\ Raise /\ UNCHANGED calls
    /\ UNCHANGED <<time, attempt, holder>>

FallbackFails ==
    /\ phase = "fallback"
    /\ RecordFailure
    /\ Raise
    /\ UNCHANGED <<time, attempt, calls, holder>>

(* A rescue that fails is not recorded.                                    *)
RescueFails ==
    /\ phase = "rescue"
    /\ Raise
    /\ UNCHANGED <<time, attempt, breakerVars, calls, holder>>

(* Mutant of NextAttempt: one attempt too many.                            *)
MutantExtraAttempt ==
    /\ phase = "refused"
    /\ attempt <= MaxAttempts
    /\ attempt' = attempt + 1
    /\ phase' = "ready"
    /\ UNCHANGED <<time, breakerVars, calls, holder>>

NextAttempt ==
    /\ phase = "refused"
    /\ attempt < MaxAttempts
    /\ attempt' = attempt + 1
    /\ phase' = "ready"
    /\ UNCHANGED <<time, breakerVars, calls, holder>>

(* The task is failed and refunded.                                        *)
GiveUp ==
    /\ phase = "refused"
    /\ attempt = MaxAttempts
    /\ phase' = "given_up"
    /\ UNCHANGED <<time, attempt, breakerVars, calls, holder>>

(* Mutant of Poll: the fallback is the active provider.                    *)
MutantPollFallback ==
    /\ phase = "submitted"
    /\ phase' = IF SameKey \/ holder = "fallback" THEN "found" ELSE "missing"
    /\ UNCHANGED <<time, attempt, breakerVars, calls, holder>>

(* A poll of the job: its own breaker is new and closed, so that it asks   *)
(* the primary, whoever holds the job.                                     *)
Poll ==
    /\ phase = "submitted"
    /\ phase' = IF SameKey \/ holder = "primary" THEN "found" ELSE "missing"
    /\ UNCHANGED <<time, attempt, breakerVars, calls, holder>>

Tick ==
    /\ time < MaxTime
    /\ time' = time + 1
    /\ UNCHANGED <<attempt, phase, breakerVars, calls, holder>>

-----------------------------------------------------------------------------

Next ==
    \/ AskPrimary \/ AskFallback \/ Accepted \/ CommitProcessing \/ CommitFails
    \/ PrimaryFails \/ FallbackFails \/ RescueFails
    \/ NextAttempt \/ GiveUp \/ Poll \/ Tick

Spec == Init /\ [][Next]_vars

-----------------------------------------------------------------------------
(* Properties                                                              *)

(* The fallback is called at most once for each attempt from the one that  *)
(* can open the breaker on - and so never, if the threshold exceeds the    *)
(* number of attempts, as the defaults five and three do.                  *)
FallbackBounded ==
    \/ calls["fallback"] = << >>
    \/ Len(calls["fallback"]) <= MaxAttempts + 1 - Threshold

(* Where the breaker can open at all, a task is failed and refunded only   *)
(* after both providers were asked for it, however long calls and pauses   *)
(* take and however often the breaker recovers in between.  (An attempt    *)
(* that was accepted, and failed later, resets the breaker.)               *)
GivenUpMeansBoth ==
    Threshold <= MaxAttempts /\ phase = "given_up" /\ ~accepted =>
        \A p \in Provider : calls[p] # << >>

(* A primary that fails is spared: it is not called more than Threshold    *)
(* times without a pause of RecoveryTimeout between two of the calls, even *)
(* if fallback failures, rescues and half-open probes come in between.     *)
PrimarySpared ==
    ~accepted => \A i \in DOMAIN calls["primary"] : i > Threshold =>
        \E j \in (i - Threshold)..(i - 1) :
            calls["primary"][j + 1] >= calls["primary"][j] + RecoveryTimeout

(* A poll asks in vain, and the task is left to its webhook, only if the   *)
(* providers have different accounts and the primary has failed often      *)
(* enough in this very execution for the fallback to take its place.       *)
PolledInVain ==
    phase = "missing" =>
        /\ ~SameKey /\ holder = "fallback"
        /\ calls["fallback"] # << >>
        /\ Len(calls["primary"]) >= Threshold

=============================================================================
