---------------------------- MODULE FailoverProofs ----------------------------
(* Theorems about Failover, for any number of attempts, any threshold and  *)
(* any recovery timeout.                                                   *)
EXTENDS Failover, SequenceTheorems, TLAPS

USE DEF accepted

LEMMA Parameters ==
    /\ MaxAttempts \in Nat /\ MaxAttempts >= 1
    /\ Threshold \in Nat /\ Threshold >= 1
    /\ RecoveryTimeout \in Nat /\ RecoveryTimeout >= 1
    /\ MaxTime \in Nat
  BY FailoverAssumption

-----------------------------------------------------------------------------
(* Types                                                                   *)

(* Failures that were recorded, less those that a recovery forgot.         *)
FailureInv ==
    failures <= IF phase \in {"ready", "primary", "fallback"} THEN attempt - 1
                                                               ELSE attempt

LEMMA CallType ==
    ASSUME calls \in [Provider -> Seq(Nat)], time \in Nat,
           NEW p \in Provider, Call(p)
    PROVE  /\ calls' \in [Provider -> Seq(Nat)]
           /\ calls'[p] = Append(calls[p], time)
           /\ Len(calls'[p]) = Len(calls[p]) + 1
           /\ \A q \in Provider \ {p} : calls'[q] = calls[q]
<1>1. calls[p] \in Seq(Nat)
  OBVIOUS
<1>2. Append(calls[p], time) \in Seq(Nat) /\ Len(Append(calls[p], time)) = Len(calls[p]) + 1
  BY <1>1
<1> QED
  BY <1>2 DEF Call

(* Every variable has its type; in particular no execution makes more than *)
(* MaxAttempts attempts, or counts more failures than it made attempts.    *)
THEOREM FailoverTypeCorrect == Spec => []TypeOK
<1> USE Parameters
<1>1. Init => TypeOK /\ FailureInv
  <2> SUFFICES ASSUME Init PROVE TypeOK /\ FailureInv
    OBVIOUS
  <2>1. calls \in [Provider -> Seq(Nat)]
    BY DEF Init
  <2>2. FailureInv /\ lastFailure \in 0..time /\ failures \in 0..MaxAttempts
    BY DEF Init, FailureInv
  <2>3. time \in Nat /\ attempt \in 1..MaxAttempts /\ phase = "ready"
    BY DEF Init
  <2>4. open \in BOOLEAN /\ holder \in Provider \cup {"nobody"}
    BY DEF Init
  <2> QED
    BY <2>1, <2>2, <2>3, <2>4 DEF TypeOK
<1>2. TypeOK /\ FailureInv /\ [Next]_vars => (TypeOK /\ FailureInv)'
  <2> SUFFICES ASSUME TypeOK, FailureInv, [Next]_vars PROVE (TypeOK /\ FailureInv)'
    OBVIOUS
  <2> USE DEF TypeOK, FailureInv, Asking, Ended, breakerVars
  <2>1. CASE AskPrimary
    <3>1. Call("primary") /\ time' = time
      BY <2>1 DEF AskPrimary
    <3>2. calls' \in [Provider -> Seq(Nat)]
      BY <3>1, CallType DEF Provider
    <3>3. \/ UNCHANGED <<failures, lastFailure, open>>
          \/ failures' = 0 /\ open' = FALSE /\ lastFailure' = lastFailure
      BY <2>1 DEF AskPrimary
    <3>4. phase = "ready" /\ phase' = "primary" /\ attempt' = attempt
      BY <2>1 DEF AskPrimary
    <3>5. open' \in BOOLEAN /\ holder' \in Provider \cup {"nobody"}
      BY <2>1, <3>3 DEF AskPrimary
    <3>6. failures' \in 0..MaxAttempts /\ lastFailure' \in 0..time' /\ FailureInv'
      BY <3>1, <3>3, <3>4
    <3> QED
      BY <3>1, <3>2, <3>4, <3>5, <3>6 DEF Provider
  <2>2. CASE AskFallback
    <3>1. Call("fallback") /\ time' = time
      BY <2>2 DEF AskFallback
    <3>2. calls' \in [Provider -> Seq(Nat)]
      BY <3>1, CallType DEF Provider
    <3> QED
      BY <2>2, <3>1, <3>2 DEF AskFallback, Provider
  <2>3. CASE Accepted
    <3>1. \/ UNCHANGED <<failures, lastFailure, open>>
          \/ failures' = 0 /\ open' = FALSE /\ lastFailure' = lastFailure
      BY <2>3 DEF Accepted
    <3>2. phase' = "accepted" /\ UNCHANGED <<time, attempt, calls>> /\ phase \in Asking
      BY <2>3 DEF Accepted
    <3>3. open' \in BOOLEAN /\ holder' \in Provider \cup {"nobody"}
      BY <2>3, <3>1 DEF Accepted, Provider
    <3>4. failures' \in 0..MaxAttempts /\ lastFailure' \in 0..time' /\ FailureInv'
      BY <3>1, <3>2
    <3> QED
      BY <3>2, <3>3, <3>4
  <2>4. CASE PrimaryFails
    <3>1. /\ RecordFailure
          /\ time' = time
          /\ Call("fallback") \/ UNCHANGED calls
      BY <2>4 DEF PrimaryFails
    <3>2. calls' \in [Provider -> Seq(Nat)]
      BY <3>1, CallType DEF Provider
    <3> QED
      BY <2>4, <3>1, <3>2 DEF PrimaryFails, RecordFailure, Raise, Provider
  <2>5. CASE FallbackFails
    BY <2>5 DEF FallbackFails, RecordFailure, Raise, Provider
  <2>6. CASE RescueFails
    BY <2>6 DEF RescueFails, Raise, Provider
  <2>7. CASE NextAttempt
    BY <2>7 DEF NextAttempt, Provider
  <2>8. CASE GiveUp \/ Poll \/ CommitProcessing \/ CommitFails
    BY <2>8 DEF GiveUp, Poll, CommitProcessing, CommitFails, Raise, Provider
  <2>9. CASE Tick
    BY <2>9 DEF Tick
  <2>10. CASE UNCHANGED vars
    BY <2>10 DEF vars
  <2> QED
    BY <2>1, <2>2, <2>3, <2>4, <2>5, <2>6, <2>7, <2>8, <2>9, <2>10 DEF Next
<1> QED
  BY <1>1, <1>2, PTL DEF Spec

LEMMA FailureInvHolds == Spec => []FailureInv
<1> USE Parameters
<1>1. Init => FailureInv
  BY DEF Init, FailureInv
<1>2. TypeOK /\ FailureInv /\ [Next]_vars => FailureInv'
  BY DEF TypeOK, FailureInv, Next, AskPrimary, AskFallback, Accepted, PrimaryFails,
         FallbackFails, RescueFails, CommitProcessing, CommitFails, NextAttempt, GiveUp, Poll,
         Tick, RecordFailure, Raise,
         vars, breakerVars, Asking, Provider, Ended
<1> QED
  BY <1>1, <1>2, FailoverTypeCorrect, PTL DEF Spec

(* The breaker after a failure, without the equation of Booleans.          *)
LEMMA FailureRecorded ==
    ASSUME RecordFailure
    PROVE  /\ failures' = failures + 1
           /\ lastFailure' = time
           /\ open' => open \/ failures' >= Threshold
           /\ ~open' => ~open /\ ~(failures' >= Threshold)
  BY DEF RecordFailure

-----------------------------------------------------------------------------
(* The fallback                                                            *)

(* Attempts that can have called the fallback.                             *)
Due == IF phase \in {"ready", "primary"} THEN attempt - Threshold
                                         ELSE attempt + 1 - Threshold

FallbackInv ==
    /\ open => failures >= Threshold
    /\ calls["fallback"] = << >> \/ Len(calls["fallback"]) <= Due

(* One call to the fallback for each attempt from the Threshold-th on.     *)
THEOREM FallbackBoundedHolds == Spec => []FallbackBounded
<1> USE Parameters
<1>1. Init => FallbackInv
  BY DEF Init, FallbackInv, Provider
<1>2. TypeOK /\ FailureInv /\ FallbackInv /\ [Next]_vars => FallbackInv'
  <2> SUFFICES ASSUME TypeOK, FailureInv, FallbackInv, [Next]_vars PROVE FallbackInv'
    OBVIOUS
  <2> DEFINE F == calls["fallback"]
  <2>a. /\ F \in Seq(Nat) /\ Len(F) \in Nat
        /\ F = << >> => Len(F) = 0
        /\ attempt \in Nat /\ failures \in Nat /\ time \in Nat
        /\ calls \in [Provider -> Seq(Nat)]
    BY DEF TypeOK, Provider
  <2>1. CASE AskPrimary
    <3>1. /\ \/ failures' = failures /\ open' = open
             \/ open' = FALSE
          /\ attempt' = attempt /\ phase = "ready" /\ phase' = "primary"
          /\ Call("primary")
      BY <2>1 DEF AskPrimary, breakerVars
    <3>2. F' = F
      BY <3>1, <2>a, CallType DEF Provider
    <3>3. Due' = Due
      BY <3>1 DEF Due
    <3>4. open' => failures' >= Threshold
      BY <3>1 DEF FallbackInv
    <3> QED
      BY <3>2, <3>3, <3>4 DEF FallbackInv
  <2>2. CASE AskFallback
    <3>1. /\ failures' = failures /\ open' = open /\ open
          /\ attempt' = attempt /\ phase = "ready" /\ phase' = "fallback"
          /\ Call("fallback")
      BY <2>2 DEF AskFallback, breakerVars
    <3>2. Len(F') = Len(F) + 1
      BY <3>1, <2>a, CallType DEF Provider
    <3>3. attempt - 1 >= Threshold
      BY <3>1, <2>a DEF FallbackInv, FailureInv
    <3>4. Len(F) <= attempt - Threshold
      BY <3>1, <3>3, <2>a DEF FallbackInv, Due
    <3>5. Due' = attempt + 1 - Threshold
      BY <3>1 DEF Due
    <3>6. Len(F') <= Due'
      BY <3>2, <3>4, <3>5, <2>a
    <3> QED
      BY <3>1, <3>6 DEF FallbackInv
  <2>3. CASE Accepted
    <3>1. /\ \/ failures' = failures /\ open' = open
             \/ open' = FALSE
          /\ attempt' = attempt /\ phase \in Asking /\ phase' = "accepted"
          /\ calls' = calls
      BY <2>3 DEF Accepted, breakerVars
    <3>2. Due' >= Due /\ Due \in Int /\ Due' \in Int
      BY <3>1, <2>a DEF Due
    <3> QED
      BY <3>1, <3>2, <2>a DEF FallbackInv
  <2>4. CASE PrimaryFails
    <3>1. /\ phase = "primary" /\ attempt' = attempt
          /\ failures' = failures + 1
          /\ open' => open \/ failures' >= Threshold
          /\ phase' \in {"rescue", "refused", "lost"}
      BY <2>4, FailureRecorded DEF PrimaryFails, Raise
    <3>2. Due = attempt - Threshold /\ Due' = attempt + 1 - Threshold
      BY <3>1 DEF Due
    <3>3. open' => failures' >= Threshold
      BY <3>1, <2>a DEF FallbackInv
    <3>4. CASE calls' = calls
      BY <3>2, <3>3, <3>4, <2>a DEF FallbackInv
    <3>5. CASE open' /\ Call("fallback")
      <4>1. Len(F') = Len(F) + 1
        BY <3>5, <2>a, CallType DEF Provider
      <4>2. attempt >= Threshold
        BY <3>1, <3>3, <3>5, <2>a DEF FailureInv
      <4>3. Len(F') <= Due'
        BY <4>1, <4>2, <3>2, <2>a DEF FallbackInv
      <4> QED
        BY <4>3, <3>3 DEF FallbackInv
    <3> QED
      BY <2>4, <3>4, <3>5 DEF PrimaryFails
  <2>5. CASE FallbackFails
    <3>1. /\ phase = "fallback" /\ phase' \in {"refused", "lost"}
          /\ failures' = failures + 1
          /\ open' => open \/ failures' >= Threshold
          /\ UNCHANGED <<attempt, calls>>
      BY <2>5, FailureRecorded DEF FallbackFails, Raise
    <3> QED
      BY <3>1, <2>a DEF FallbackInv, Due
  <2>6. CASE RescueFails
    BY <2>6, <2>a DEF RescueFails, Raise, FallbackInv, Due, breakerVars
  <2>7. CASE NextAttempt
    BY <2>7, <2>a DEF NextAttempt, FallbackInv, Due, breakerVars
  <2>8. CASE GiveUp \/ Poll \/ CommitProcessing \/ CommitFails
    BY <2>8, <2>a DEF GiveUp, Poll, CommitProcessing, CommitFails, Raise, FallbackInv, Due,
           breakerVars
  <2>9. CASE Tick \/ UNCHANGED vars
    BY <2>9 DEF Tick, vars, FallbackInv, Due, breakerVars
  <2> QED
    BY <2>1, <2>2, <2>3, <2>4, <2>5, <2>6, <2>7, <2>8, <2>9 DEF Next
<1>3. TypeOK /\ FallbackInv => FallbackBounded
  BY DEF TypeOK, FallbackInv, FallbackBounded, Due, Provider
<1> QED
  BY <1>1, <1>2, <1>3, FailoverTypeCorrect, FailureInvHolds, PTL DEF Spec

(* With the defaults of core/config.py, a threshold of five failures, and  *)
(* three attempts, the fallback is never called.                           *)
THEOREM FallbackUnreached ==
    ASSUME Threshold > MaxAttempts
    PROVE  Spec => [](calls["fallback"] = << >>)
<1> USE Parameters
<1>1. TypeOK /\ FallbackBounded => calls["fallback"] = << >>
  <2> SUFFICES ASSUME TypeOK, FallbackBounded PROVE calls["fallback"] = << >>
    OBVIOUS
  <2>1. calls["fallback"] \in Seq(Nat)
    BY DEF TypeOK, Provider
  <2>2. Len(calls["fallback"]) <= 0 => calls["fallback"] = << >>
    BY <2>1, EmptySeq
  <2> QED
    BY <2>1, <2>2 DEF FallbackBounded
<1> QED
  BY <1>1, FallbackBoundedHolds, FailoverTypeCorrect, PTL

-----------------------------------------------------------------------------
(* Giving up                                                               *)

(* As long as the fallback was not called and no call succeeded, no        *)
(* failure has been forgotten; the primary is called first.                *)
BothInv ==
    /\ phase = "accepted" => accepted
    /\ calls["fallback"] = << >> /\ ~accepted =>
          /\ ~open
          /\ phase \notin {"fallback", "rescue"}
          /\ phase \in {"ready", "primary"} => failures = attempt - 1
          /\ phase = "refused" => failures = attempt /\ ~(failures >= Threshold)
          /\ phase = "given_up" => ~(MaxAttempts >= Threshold)
    /\ calls["primary"] = << >> => ~open /\ phase = "ready"

LEMMA CallNotEmpty ==
    ASSUME TypeOK, NEW p \in Provider, Call(p)
    PROVE  /\ calls'[p] # << >>
           /\ \A q \in Provider \ {p} : calls'[q] = calls[q]
  BY CallType DEF TypeOK, Provider

(* A task is not given up while the fallback, where the breaker can open,  *)
(* has not been asked for it.                                              *)
THEOREM GivenUpMeansBothHolds == Spec => []GivenUpMeansBoth
<1> USE Parameters
<1>1. Init => BothInv
  BY DEF Init, BothInv, Provider
<1>2. TypeOK /\ BothInv /\ [Next]_vars => BothInv'
  <2> SUFFICES ASSUME TypeOK, BothInv, [Next]_vars PROVE BothInv'
    OBVIOUS
  <2>a. attempt \in 1..MaxAttempts /\ failures \in Nat
    BY DEF TypeOK
  <2>1. CASE AskPrimary
    <3>1. /\ calls'["primary"] # << >>
          /\ calls'["fallback"] = calls["fallback"]
      BY <2>1, CallNotEmpty DEF AskPrimary, Provider
    <3>2. /\ phase = "ready" /\ phase' = "primary" /\ attempt' = attempt
          /\ ~open => UNCHANGED <<failures, open>>
          /\ accepted' = accepted
      BY <2>1 DEF AskPrimary, breakerVars, Recovered
    <3> QED
      BY <3>1, <3>2 DEF BothInv
  <2>2. CASE AskFallback
    <3>1. /\ calls'["fallback"] # << >>
          /\ calls'["primary"] = calls["primary"]
          /\ open /\ phase' = "fallback"
      BY <2>2, CallNotEmpty DEF AskFallback, Provider
    <3> QED
      BY <3>1 DEF BothInv
  <2>3. CASE Accepted
    <3>1. /\ phase \in Asking /\ phase' = "accepted" /\ calls' = calls
          /\ open' => open
          /\ accepted'
      BY <2>3 DEF Accepted, breakerVars
    <3> QED
      BY <3>1 DEF BothInv, Asking, Provider
  <2>4. CASE PrimaryFails
    <3>1. /\ phase = "primary" /\ phase' # "accepted"
          /\ attempt' = attempt /\ accepted' = accepted
          /\ failures' = failures + 1
          /\ ~open' => ~(failures' >= Threshold)
          /\ \/ open' /\ Call("fallback")
             \/ ~open' /\ calls' = calls /\ phase' \in {"refused", "lost"}
      BY <2>4, FailureRecorded DEF PrimaryFails, Raise
    <3>2. CASE open' /\ Call("fallback")
      BY <3>1, <3>2, CallNotEmpty DEF BothInv, Provider
    <3>3. CASE ~open' /\ calls' = calls /\ phase' \in {"refused", "lost"}
      BY <3>1, <3>3, <2>a DEF BothInv
    <3> QED
      BY <3>1, <3>2, <3>3
  <2>5. CASE FallbackFails \/ RescueFails
    <3>1. /\ phase \in {"fallback", "rescue"} /\ phase' # "accepted"
          /\ UNCHANGED <<calls, accepted>>
      BY <2>5 DEF FallbackFails, RescueFails, Raise
    <3> QED
      BY <3>1 DEF BothInv
  <2>6. CASE NextAttempt
    <3>1. /\ phase = "refused" /\ phase' = "ready"
          /\ attempt' = attempt + 1
          /\ UNCHANGED <<failures, open, calls, accepted>>
      BY <2>6 DEF NextAttempt, breakerVars
    <3> QED
      BY <3>1, <2>a DEF BothInv
  <2>7. CASE GiveUp
    <3>1. /\ phase = "refused" /\ phase' = "given_up" /\ attempt = MaxAttempts
          /\ UNCHANGED <<failures, open, calls, accepted>>
      BY <2>7 DEF GiveUp, breakerVars
    <3> QED
      BY <3>1 DEF BothInv
  <2>8. CASE CommitProcessing \/ CommitFails \/ Poll
    <3>1. /\ phase \in {"accepted", "submitted"}
          /\ phase' \notin {"ready", "primary", "fallback", "rescue", "accepted", "given_up"}
          /\ phase' = "refused" => accepted
          /\ UNCHANGED <<calls, holder, open>>
      BY <2>8, Zenon DEF CommitProcessing, CommitFails, Poll, Raise, BothInv, breakerVars
    <3> QED
      BY <3>1 DEF BothInv
  <2>9. CASE Tick \/ UNCHANGED vars
    BY <2>9 DEF Tick, vars, breakerVars, BothInv
  <2> QED
    BY <2>1, <2>2, <2>3, <2>4, <2>5, <2>6, <2>7, <2>8, <2>9 DEF Next
<1>3. BothInv => GivenUpMeansBoth
  BY DEF BothInv, GivenUpMeansBoth, Provider
<1> QED
  BY <1>1, <1>2, <1>3, FailoverTypeCorrect, PTL DEF Spec

-----------------------------------------------------------------------------
(* The primary                                                             *)

Primary == calls["primary"]

(* Since call number q + 1, which followed a pause or is the first, the    *)
(* primary was called once for each failure, and once more if it is being  *)
(* asked.  (No call has succeeded.)                                        *)
Burst(q) ==
    /\ q > 0 => q < Len(Primary) /\ Primary[q + 1] >= Primary[q] + RecoveryTimeout
    /\ open => Len(Primary) - q <= Threshold
    /\ ~open =>
          /\ failures < Threshold
          /\ Len(Primary) - q <= failures + (IF phase = "primary" THEN 1 ELSE 0)

SpareInv ==
    /\ phase # "accepted"
    /\ \A i \in DOMAIN Primary : Primary[i] <= time /\ (open => Primary[i] <= lastFailure)
    /\ phase = "primary" => ~open
    /\ \E q \in 0..Len(Primary) : Burst(q)
    /\ PrimarySpared

(* A call of the primary is the Threshold-th since a pause at most.        *)
LEMMA AskPrimarySpares ==
    ASSUME TypeOK, SpareInv, ~accepted, AskPrimary
    PROVE  SpareInv'
<1> USE Parameters
<1> DEFINE P == Primary
           n == Len(P)
<1>1. /\ P \in Seq(Nat) /\ n \in Nat /\ DOMAIN P = 1..n
      /\ time \in Nat /\ failures \in Nat /\ lastFailure \in Nat
      /\ \A i \in 1..n : P[i] \in Nat
  BY DEF TypeOK, Primary, Provider
<1>2. P' = Append(P, time)
  BY CallType DEF AskPrimary, TypeOK, Primary, Provider
<1>3. /\ Len(P') = n + 1 /\ DOMAIN P' = 1..(n + 1)
      /\ P'[n + 1] = time
      /\ \A i \in 1..n : P'[i] = P[i]
  BY <1>1, <1>2
<1>4. phase = "ready" /\ phase' = "primary" /\ time' = time /\ ~open'
  <2>1. \/ ~open /\ open' = open
        \/ open' = FALSE
    BY DEF AskPrimary, breakerVars
  <2> QED
    BY <2>1 DEF AskPrimary
<1> HIDE DEF P, n
<1>5. \E q \in 0..n :
         /\ q > 0 => P'[q + 1] >= P'[q] + RecoveryTimeout
         /\ n + 1 - q <= Threshold
         /\ failures' < Threshold
         /\ n + 1 - q <= failures' + 1
  <2>1. CASE ~open
    <3>1. PICK q \in 0..n : Burst(q)
      BY DEF SpareInv, P, n
    <3>2. failures' = failures
      BY <2>1 DEF AskPrimary, breakerVars, Recovered
    <3>3. /\ failures < Threshold /\ n - q <= failures
          /\ q > 0 => q < n /\ P[q + 1] >= P[q] + RecoveryTimeout
      <4>1. phase # "primary"
        BY <1>4
      <4>2. failures < Threshold /\ n - q <= failures + 0
        BY <2>1, <3>1, <4>1 DEF Burst, P, n
      <4>3. q > 0 => q < n /\ P[q + 1] >= P[q] + RecoveryTimeout
        BY <3>1 DEF Burst, P, n
      <4> QED
        BY <4>2, <4>3, <1>1
    <3>4. q > 0 => P'[q + 1] = P[q + 1] /\ P'[q] = P[q]
      BY <3>3, <1>1, <1>3
    <3> QED
      BY <3>2, <3>3, <3>4, <1>1
  <2>2. CASE open
    <3>1. failures' = 0 /\ time >= lastFailure + RecoveryTimeout
      BY <2>2 DEF AskPrimary, Recovered
    <3>2. n > 0 => P[n] <= lastFailure
      BY <2>2, <1>1 DEF SpareInv, P
    <3>3. n > 0 => P'[n + 1] >= P'[n] + RecoveryTimeout
      BY <3>1, <3>2, <1>1, <1>3
    <3> QED
      BY <3>1, <3>3, <1>1
  <2> QED
    BY <2>1, <2>2
<1>6. PICK q \in 0..n : /\ q > 0 => P'[q + 1] >= P'[q] + RecoveryTimeout
                        /\ n + 1 - q <= Threshold
                        /\ failures' < Threshold
                        /\ n + 1 - q <= failures' + 1
  BY <1>5
<1>7. Burst(q)'
  BY <1>1, <1>3, <1>4, <1>6 DEF Burst, P
<1>8. PrimarySpared'
  <2> SUFFICES ASSUME NEW i \in 1..(n + 1), i > Threshold
               PROVE  \E j \in (i - Threshold)..(i - 1) :
                          P'[j + 1] >= P'[j] + RecoveryTimeout
    BY <1>3 DEF PrimarySpared, P, Primary
  <2>1. CASE i = n + 1
    BY <2>1, <1>1, <1>6
  <2>2. CASE i \in 1..n
    <3>1. PICK j \in (i - Threshold)..(i - 1) : P[j + 1] >= P[j] + RecoveryTimeout
      BY <2>2, <1>1 DEF SpareInv, PrimarySpared, P, Primary
    <3>2. j \in 1..n /\ j + 1 \in 1..n
      BY <2>2, <1>1
    <3> QED
      BY <3>1, <3>2, <1>3
  <2> QED
    BY <2>1, <2>2, <1>1
<1>9. \A i \in DOMAIN P' : P'[i] <= time'
  BY <1>1, <1>3, <1>4 DEF SpareInv, P
<1> QED
  BY <1>1, <1>3, <1>4, <1>7, <1>8, <1>9 DEF SpareInv, P

(* A primary that fails is spared, for every threshold.                    *)
THEOREM PrimarySparedHolds == Spec => []PrimarySpared
<1> USE Parameters
<1> DEFINE Inv == (phase = "accepted" => accepted) /\ (~accepted => SpareInv)
<1>1. Init => Inv
  <2> SUFFICES ASSUME Init PROVE Inv
    OBVIOUS
  <2>1. Primary = << >> /\ ~open /\ phase = "ready" /\ failures = 0
    BY DEF Init, Primary, Provider
  <2>2. Len(Primary) = 0 /\ DOMAIN Primary = {}
    BY <2>1
  <2>3. Burst(0)
    BY <2>1, <2>2 DEF Burst
  <2> QED
    BY <2>1, <2>2, <2>3 DEF SpareInv, PrimarySpared, Primary
<1>2. TypeOK /\ Inv /\ [Next]_vars => (phase = "accepted" => accepted)'
  BY DEF Next, AskPrimary, AskFallback, Accepted, CommitProcessing, CommitFails,
         PrimaryFails, FallbackFails, RescueFails, NextAttempt, GiveUp, Poll, Tick, Raise, vars
<1>3. TypeOK /\ Inv /\ [Next]_vars /\ ~accepted' => SpareInv'
  <2> SUFFICES ASSUME TypeOK, Inv, [Next]_vars, ~accepted' PROVE SpareInv'
    OBVIOUS
  <2>a. ~accepted /\ ~Accepted
    BY DEF Next, AskPrimary, AskFallback, Accepted, CommitProcessing, CommitFails,
           PrimaryFails, FallbackFails, RescueFails, NextAttempt, GiveUp, Poll, Tick, vars
  <2>b. SpareInv /\ phase # "accepted"
    BY <2>a DEF SpareInv
  <2>c. ~CommitProcessing /\ ~CommitFails
    BY <2>b DEF CommitProcessing, CommitFails
  <2>1. CASE AskPrimary
    BY <2>1, <2>a, <2>b, AskPrimarySpares
  <2>2. CASE ~AskPrimary
    <3>1. PICK q \in 0..Len(Primary) : Burst(q)
      BY <2>b DEF SpareInv
    <3>2. /\ Len(Primary) \in Nat /\ DOMAIN Primary = 1..Len(Primary)
          /\ \A i \in DOMAIN Primary : Primary[i] \in Nat
          /\ time \in Nat /\ failures \in Nat /\ lastFailure \in Nat
      BY DEF TypeOK, Primary, Provider
    <3>3. Primary' = Primary
      <4>1. Call("fallback") => Primary' = Primary
        BY CallType DEF TypeOK, Primary, Provider
      <4> QED
        BY <2>2, <2>a, <2>c, <4>1 DEF Next, AskFallback, PrimaryFails, FallbackFails,
               RescueFails, NextAttempt, GiveUp, Poll, Tick, vars, Primary
    <3>4. PrimarySpared'
      BY <2>a, <2>b, <3>3 DEF SpareInv, PrimarySpared, Primary
    <3>5. time' >= time /\ time' \in Nat
      BY <2>2, <2>a, <2>c, <3>2 DEF Next, AskFallback, PrimaryFails, FallbackFails,
             RescueFails, NextAttempt, GiveUp, Poll, Tick, vars
    <3>6. CASE PrimaryFails \/ FallbackFails
      <4>1. /\ failures' = failures + 1 /\ lastFailure' = time /\ time' = time
            /\ ~open' => ~open /\ ~(failures' >= Threshold)
            /\ phase \in {"primary", "fallback"} /\ phase' \notin {"primary", "accepted"}
        BY <3>6, FailureRecorded DEF PrimaryFails, FallbackFails, Raise
      <4>2. Len(Primary) - q <= failures' \/ (open /\ Len(Primary) - q <= Threshold)
        BY <3>1, <3>2, <4>1 DEF Burst
      <4>3. open' => Len(Primary) - q <= Threshold
        BY <3>1, <3>2, <4>1 DEF Burst
      <4>4. Burst(q)'
        BY <3>1, <3>2, <3>3, <4>1, <4>2, <4>3 DEF Burst
      <4> QED
        BY <3>2, <3>3, <2>b, <3>4, <4>1, <4>4 DEF SpareInv
    <3>7. CASE ~(PrimaryFails \/ FallbackFails)
      <4>1. UNCHANGED <<lastFailure, failures, open>>
        BY <2>2, <2>a, <2>c, <3>7 DEF Next, AskFallback, RescueFails, NextAttempt, GiveUp, Poll,
               Tick, vars, breakerVars
      <4>2. phase' # "accepted" /\ (phase' = "primary" <=> phase = "primary")
        BY <2>2, <2>a, <2>b, <2>c, <3>7 DEF Next, AskFallback, RescueFails, NextAttempt,
               GiveUp, Poll, Raise, Tick, vars
      <4>3. Burst(q)'
        BY <3>1, <3>2, <3>3, <4>1, <4>2 DEF Burst
      <4>4. phase' = "primary" => ~open'
        BY <2>b, <4>1, <4>2 DEF SpareInv
      <4> QED
        BY <3>2, <3>3, <2>b, <3>4, <3>5, <4>1, <4>2, <4>3, <4>4 DEF SpareInv
    <3> QED
      BY <3>6, <3>7
  <2> QED
    BY <2>1, <2>2
<1>4. Inv => PrimarySpared
  BY DEF SpareInv, PrimarySpared
<1> QED
  BY <1>1, <1>2, <1>3, <1>4, FailoverTypeCorrect, PTL DEF Spec

-----------------------------------------------------------------------------
(* Polls                                                                   *)

(* Failures of a closed breaker are failures of the primary, so that the   *)
(* fallback is asked only when the primary has failed Threshold times.     *)
VainInv ==
    /\ open \/ calls["fallback"] # << >> => Len(Primary) >= Threshold
    /\ ~open => failures + (IF phase = "primary" THEN 1 ELSE 0) <= Len(Primary)
    /\ phase = "primary" => ~open
    /\ phase = "fallback" => open
    /\ phase \in {"fallback", "rescue"} \/ holder = "fallback" => calls["fallback"] # << >>
    /\ phase \in {"accepted", "submitted", "missing"} => holder # "nobody"
    /\ phase = "missing" => ~SameKey /\ holder = "fallback"

(* A poll asks the wrong provider only if the accounts differ and the      *)
(* submission itself has opened the breaker.                               *)
THEOREM PolledInVainHolds == Spec => []PolledInVain
<1> USE Parameters
<1>1. Init => VainInv
  <2> SUFFICES ASSUME Init PROVE VainInv
    OBVIOUS
  <2>1. Len(Primary) = 0 /\ calls["fallback"] = << >>
    BY DEF Init, Primary, Provider
  <2> QED
    BY <2>1 DEF Init, VainInv
<1>2. TypeOK /\ VainInv /\ [Next]_vars => VainInv'
  <2> SUFFICES ASSUME TypeOK, VainInv, [Next]_vars PROVE VainInv'
    OBVIOUS
  <2>a. /\ Len(Primary) \in Nat /\ failures \in Nat
        /\ holder \in Provider \cup {"nobody"}
    BY DEF TypeOK, Primary, Provider
  <2>1. CASE AskPrimary
    <3>1. /\ Len(Primary') = Len(Primary) + 1
          /\ calls'["fallback"] = calls["fallback"]
      BY <2>1, CallType DEF AskPrimary, TypeOK, Primary, Provider
    <3>2. /\ phase' = "primary" /\ holder' = holder /\ ~open'
          /\ open \/ failures' = failures
          /\ ~open \/ failures' = 0
      <4>1. \/ ~open /\ open' = open /\ failures' = failures
            \/ open /\ open' = FALSE /\ failures' = 0
        BY <2>1 DEF AskPrimary, Recovered, breakerVars
      <4> QED
        BY <2>1, <4>1 DEF AskPrimary
    <3> QED
      BY <2>a, <3>1, <3>2 DEF VainInv
  <2>2. CASE AskFallback
    <3>1. Primary' = Primary /\ calls'["fallback"] # << >>
      BY <2>2, CallNotEmpty DEF AskFallback, Primary, Provider
    <3> QED
      BY <2>2, <3>1 DEF AskFallback, VainInv, breakerVars
  <2>3. CASE Accepted
    <3>1. /\ phase \in Asking /\ phase' = "accepted" /\ calls' = calls
          /\ holder' = IF phase = "primary" THEN "primary" ELSE "fallback"
          /\ \/ failures' = failures /\ open' = open
             \/ failures' = 0 /\ open' = FALSE
      BY <2>3 DEF Accepted, breakerVars
    <3>2. Primary' = Primary
      BY <3>1 DEF Primary
    <3>3. phase = "primary" => ~open
      BY DEF VainInv
    <3> QED
      BY <2>a, <3>1, <3>2, <3>3 DEF VainInv, Asking, Provider
  <2>4. CASE PrimaryFails
    <3>1. /\ phase = "primary" /\ holder' = holder
          /\ failures' = failures + 1
          /\ open' => open \/ failures' >= Threshold
          /\ \/ open' /\ phase' = "rescue" /\ Call("fallback")
             \/ ~open' /\ phase' \in {"refused", "lost"} /\ calls' = calls
      BY <2>4, FailureRecorded DEF PrimaryFails, Raise
    <3>2. Primary' = Primary
      BY <3>1, CallNotEmpty DEF Primary, Provider
    <3>3. failures' <= Len(Primary)
      BY <2>a, <3>1 DEF VainInv
    <3>4. open' => Len(Primary) >= Threshold /\ calls'["fallback"] # << >>
      BY <2>a, <3>1, <3>3, CallNotEmpty DEF VainInv, Provider
    <3> QED
      BY <2>a, <3>1, <3>2, <3>3, <3>4 DEF VainInv
  <2>5. CASE FallbackFails
    <3>1. /\ phase = "fallback" /\ phase' \in {"refused", "lost"}
          /\ UNCHANGED <<calls, holder>>
          /\ ~open' => ~open
      BY <2>5, FailureRecorded DEF FallbackFails, Raise
    <3> QED
      BY <3>1 DEF VainInv, Primary
  <2>6. CASE RescueFails \/ NextAttempt \/ GiveUp \/ CommitFails
    <3>1. /\ phase # "primary" /\ phase' \in {"ready", "refused", "lost", "given_up"}
          /\ UNCHANGED <<failures, open, calls, holder>>
      BY <2>6 DEF RescueFails, NextAttempt, GiveUp, CommitFails, Raise, breakerVars
    <3> QED
      BY <3>1 DEF VainInv, Primary
  <2>7. CASE CommitProcessing
    BY <2>7 DEF CommitProcessing, breakerVars, VainInv, Primary
  <2>8. CASE Poll
    BY <2>8, <2>a DEF Poll, breakerVars, VainInv, Primary, Provider
  <2>9. CASE Tick \/ UNCHANGED vars
    BY <2>9 DEF Tick, vars, breakerVars, VainInv, Primary
  <2> QED
    BY <2>1, <2>2, <2>3, <2>4, <2>5, <2>6, <2>7, <2>8, <2>9 DEF Next
<1>3. VainInv => PolledInVain
  BY DEF VainInv, PolledInVain, Primary
<1> QED
  BY <1>1, <1>2, <1>3, FailoverTypeCorrect, PTL DEF Spec

=============================================================================
